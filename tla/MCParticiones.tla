--------------------------- MODULE MCParticiones ----------------------------
(* Small configurations of memoria, one of each scheme and search algorithm. *)
EXTENDS ParticionesProperties

Config(e, a) == [esquema |-> e, algoritmo_busqueda |-> a, tam_memoria |-> 6,
                 particiones |-> IF e = "FIJAS" THEN <<2, 1, 2>> ELSE <<>>]

MCConfiguraciones ==
    {Config(e, a) : e \in {"FIJAS", "DINAMICAS"}, a \in {"FIRST", "BEST", "WORST"}}
=============================================================================
