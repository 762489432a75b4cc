----------------------- MODULE ParticionesProperties ------------------------
(* What the partitions of Particiones.tla must keep true. *)
EXTENDS Particiones

Bases    == Nat \cup {SinBase}
Procesos == [pid : Pids, base : Bases, limite : Bases]

\* The type of every variable; no partition is empty.
TypeOK ==
    /\ memoria_config \in Configuraciones
    /\ lista_particiones \in Seq([pid : Pids \cup {Libre}, base : Nat, tamanio : Nat \ {0}])
    /\ lista_procesos \subseteq Procesos
    /\ nuevo_proceso \in Procesos \cup {Ninguno}
    /\ a_finalizar \in Pids \cup {Nadie}
    /\ confirmacion \in [codigo : {"OK", "ERROR"}, tamanio : Tamanios \cup {0}]

Fin(x) == x.base + x.tamanio

\* The partitions lie one after the other in the order of the list, from address 0
\* to the end of memory (under FIJAS, of the last partition): none overlaps another
\* and no address is lost, however often they are split and joined.
Teselado ==
    LET s == lista_particiones  N == Len(s) IN
    N > 0 => /\ s[1].base = 0
             /\ \A i \in 1 .. N - 1 : s[i+1].base = Fin(s[i])
             /\ Dinamicas => Fin(s[N]) = memoria_config.tam_memoria

\* Under DINAMICAS no two free partitions are neighbours: a process is not refused
\* for want of a join.
SinFragmentos ==
    Dinamicas => \A i \in 1 .. Len(lista_particiones) - 1 :
                    ~(lista_particiones[i].pid = Libre /\ lista_particiones[i+1].pid = Libre)

Ocupadas  == {i \in DOMAIN lista_particiones : lista_particiones[i].pid # Libre}
Vigentes  == {x \in lista_procesos \cup {nuevo_proceso} : x.base # SinBase}

\* base and limite of every process, in the list or about to be, are those of one
\* partition of its own, and every other partition is free; a process being finished
\* has given its partition back.
ProcesosEnParticiones ==
    /\ {<<x.pid, x.base, x.limite>> : x \in {y \in Vigentes : y.pid # a_finalizar}}
       = {<<lista_particiones[i].pid, lista_particiones[i].base, Fin(lista_particiones[i])>> :
             i \in Ocupadas}
    /\ \A i, j \in Ocupadas : lista_particiones[i].pid = lista_particiones[j].pid => i = j

\* Whoever finds a process in lista_procesos (a READ, a WRITE, a dump) and uses its
\* base and limite never touches an address of another process, even while the
\* process is being finished.
DuenioUnico ==
    \A x \in Vigentes : \A i \in Ocupadas : LET y == lista_particiones[i] IN
       y.pid # x.pid => x.limite <= y.base \/ Fin(y) <= x.base

-----------------------------------------------------------------------------
\* Whose each address is, read off the list.
Ambito(s)   == UNION {x.base .. Fin(x) - 1 : x \in ToSet(s)}
PidEn(s, a) == (CHOOSE x \in ToSet(s) : x.base <= a /\ a < Fin(x)).pid
Regiones    == IF Dinamicas THEN {}
               ELSE {<<x.base, Fin(x) - 1>> : x \in ToSet(lista_particiones)}
DuenioDe(s) == [a \in Ambito(s) |-> PidEn(s, a)]
Memoria == INSTANCE MemoriaUsuario WITH regiones <- Regiones,
                                        duenio   <- DuenioDe(lista_particiones)

\* Address by address, memoria does what MemoriaUsuario says: a process is placed
\* where the configured algorithm wants it and keeps those addresses until it is
\* finished, and it is refused only when no place is large enough.
ImplementaMemoria == Memoria!Spec
=============================================================================
