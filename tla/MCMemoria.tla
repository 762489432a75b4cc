------------------------------ MODULE MCMemoria ------------------------------
(* Instances of Memoria: the threads of the programs. *)
EXTENDS MemoriaProperties

MCHilos == {<<0, 0>>, <<0, 1>>, <<1, 0>>}

\* One process of size 0 besides: a thread of it cancels itself, then a dump of another fails
\* while the third asks for a fourth.
MCHilosPermisos == MCHilos \cup {<<2, 0>>, <<2, 1>>, <<2, 2>>, <<2, 3>>}
=============================================================================
