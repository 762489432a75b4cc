-------------------------------- MODULE MCCpu --------------------------------
(* Instances of Cpu: the threads of the programs and the partitions of memoria. *)
EXTENDS CpuProperties

MCHilos   == {<<0, 0>>, <<0, 1>>}
MCLugares == {<<4, 10>>}
=============================================================================
