--------------------------- MODULE MemoriaUsuario ---------------------------
(***************************************************************************)
(* What memoria promises the kernel about the user memory, address by      *)
(* address and without any list of partitions: which process an address    *)
(* belongs to, where a new process is placed, and when one is refused.     *)
(* Particiones implements it.                                              *)
(***************************************************************************)
EXTENDS Integers

CONSTANTS Pids, Tamanios, Libre
CONSTANT Configuraciones  \* [esquema, algoritmo_busqueda, tam_memoria, particiones]

VARIABLES
    memoria_config,
    regiones,      \* under FIJAS, the <<first, last>> addresses of each partition
    duenio,        \* the process each address belongs to
    confirmacion   \* the last answer to PROCESS_CREATE, and to which size

Dinamicas   == memoria_config.esquema = "DINAMICAS"
Direcciones == DOMAIN duenio
Largo(h)    == h[2] - h[1] + 1

Init ==
    /\ memoria_config \in Configuraciones
    /\ regiones \in SUBSET (Nat \X Nat)
    /\ \A g, h \in regiones : g = h \/ g[2] < h[1] \/ h[2] < g[1]
    /\ duenio = [a \in IF Dinamicas THEN 0 .. memoria_config.tam_memoria - 1
                       ELSE UNION {h[1] .. h[2] : h \in regiones} |-> Libre]
    /\ confirmacion = [codigo |-> "OK", tamanio |-> 0]

Vacio(a, b) == \A x \in a .. b : x \in Direcciones /\ duenio[x] = Libre

\* The places a process can be put: under DINAMICAS every free stretch of memory
\* with no free address next to it, under FIJAS every free partition.
Huecos ==
    IF Dinamicas
    THEN {h \in Direcciones \X Direcciones :
             /\ h[1] <= h[2] /\ Vacio(h[1], h[2])
             /\ h[1] - 1 \in Direcciones => duenio[h[1] - 1] # Libre
             /\ h[2] + 1 \in Direcciones => duenio[h[2] + 1] # Libre}
    ELSE {h \in regiones : Vacio(h[1], h[2])}

Candidatos(n) == {h \in Huecos : Largo(h) >= n}

Preferido(h, n) ==
    \A g \in Candidatos(n) :
       CASE memoria_config.algoritmo_busqueda = "FIRST" -> h[1] <= g[1]
         [] memoria_config.algoritmo_busqueda = "BEST"  -> Largo(h) <= Largo(g)
         [] memoria_config.algoritmo_busqueda = "WORST" -> Largo(h) >= Largo(g)

\* A process of size n gets the start of a free stretch, or a whole partition; one of
\* size 0 gets no address, but is not accepted when nothing is free.
Asigna(p, n) ==
    /\ \A a \in Direcciones : duenio[a] # p
    /\ \/ n = 0 /\ Candidatos(0) # {} /\ UNCHANGED duenio
       \/ /\ n # 0
          /\ \E h \in Candidatos(n) :
             LET ultima == IF Dinamicas THEN h[1] + n - 1 ELSE h[2] IN
             /\ Preferido(h, n)
             /\ duenio' = [a \in Direcciones |-> IF a \in h[1] .. ultima THEN p ELSE duenio[a]]
    /\ confirmacion' = [codigo |-> "OK", tamanio |-> n]
    /\ UNCHANGED <<memoria_config, regiones>>

\* It is refused when no place is large enough, and only then.
Rechaza(n) ==
    /\ Candidatos(n) = {}
    /\ confirmacion' = [codigo |-> "ERROR", tamanio |-> n]
    /\ UNCHANGED <<memoria_config, regiones, duenio>>

Libera(p) ==
    /\ duenio' = [a \in Direcciones |-> IF duenio[a] = p THEN Libre ELSE duenio[a]]
    /\ UNCHANGED <<memoria_config, regiones, confirmacion>>

Next == \/ \E p \in Pids : Libera(p) \/ \E n \in Tamanios : Asigna(p, n)
        \/ \E n \in Tamanios : Rechaza(n)

vars == <<memoria_config, regiones, duenio, confirmacion>>
Spec == Init /\ [][Next]_vars
=============================================================================
