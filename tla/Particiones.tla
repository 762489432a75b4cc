---------------------------- MODULE Particiones -----------------------------
(***************************************************************************)
(* The partitions of the user memory in memoria: how a process gets one    *)
(* when it is created and gives it back when it is finished.               *)
(*                                                                         *)
(* The kernel sends at most one PROCESS_CREATE or FINISH_PROCESS at a time *)
(* (sem_long_term), so one such request is served at a time; each takes    *)
(* two critical sections, of mutex_lista_particiones and of                *)
(* mutex_lista_procesos, and other requests read the lists in between.     *)
(***************************************************************************)
EXTENDS Integers, Sequences, FiniteSets, SequencesExt

CONSTANTS
    Pids,            \* processes the kernel names
    Tamanios,        \* sizes it asks for
    Configuraciones  \* configurations memoria may be started with

Libre   == -1        \* the pid of a free partition
SinBase == -1        \* base and limite of a process of size 0: (uint32_t) -1
Nadie   == -1        \* no process

ASSUME PidsAssumption == Pids \subseteq Nat /\ Tamanios \subseteq Nat
ASSUME ConfiguracionAssumption ==
    \A c \in Configuraciones :
       /\ c.esquema \in {"FIJAS", "DINAMICAS"}
       /\ c.algoritmo_busqueda \in {"FIRST", "BEST", "WORST"}
       /\ c.tam_memoria \in Nat \ {0}
       /\ c.particiones \in Seq(Nat \ {0})

VARIABLES
    memoria_config,      \* read once, when memoria starts
    lista_particiones,   \* [pid, base, tamanio] in the order of the list
    lista_procesos,      \* [pid, base, limite]
    nuevo_proceso,       \* the process with a partition, not yet in lista_procesos
    a_finalizar,         \* the process without its partition, still in lista_procesos
    confirmacion         \* the last confirmacion_espacio, and for which size

vars == <<memoria_config, lista_particiones, lista_procesos, nuevo_proceso, a_finalizar,
          confirmacion>>

Dinamicas == memoria_config.esquema = "DINAMICAS"
Ninguno   == [pid |-> Nadie, base |-> SinBase, limite |-> SinBase]
Particion(pid, base, tamanio) == [pid |-> pid, base |-> base, tamanio |-> tamanio]

\* inicializar_listas_segun_esquema.  base holds the values of base_actual.
Init ==
    /\ memoria_config \in Configuraciones
    /\ IF Dinamicas
       THEN lista_particiones = <<Particion(Libre, 0, memoria_config.tam_memoria)>>
       ELSE LET P == memoria_config.particiones  N == Len(P) IN
            \E base \in [1 .. N -> 0 .. SumFunction(P)] :
               /\ \A i \in 1 .. N : base[i] = IF i = 1 THEN 0 ELSE base[i-1] + P[i-1]
               /\ lista_particiones = [i \in 1 .. N |-> Particion(Libre, base[i], P[i])]
    /\ lista_procesos = {}
    /\ nuevo_proceso = Ninguno /\ a_finalizar = Nadie
    /\ confirmacion = [codigo |-> "OK", tamanio |-> 0]

-----------------------------------------------------------------------------
(* Finding a partition *)

\* A free partition in which n bytes fit.
Cumple(i, n) == lista_particiones[i].pid = Libre /\ lista_particiones[i].tamanio >= n

Validas(n) == {i \in DOMAIN lista_particiones : Cumple(i, n)}

buscar_espacio_memoria(n) == Validas(n) # {}

Tam(i) == lista_particiones[i].tamanio

\* Mutation of encontrar_particion_best: es_menor the other way round.
encontrar_particion_mayor(i, n) == \A j \in Validas(n) : Tam(i) >= Tam(j)

\* The first; the smallest, and of equal ones the last; the largest, and of equal
\* ones the last: list_get_minimum and list_get_maximum fold es_menor and es_mayor
\* over the list, and both return their second argument on a tie.
encontrar_particion_first(i, n) == \A j \in Validas(n) : i <= j
encontrar_particion_best(i, n) ==
    \A j \in Validas(n) : Tam(i) < Tam(j) \/ (Tam(i) = Tam(j) /\ i >= j)
encontrar_particion_worst(i, n) ==
    \A j \in Validas(n) : Tam(i) > Tam(j) \/ (Tam(i) = Tam(j) /\ i >= j)

Encontrada(i, n) ==
    /\ i \in Validas(n)
    /\ CASE memoria_config.algoritmo_busqueda = "FIRST" -> encontrar_particion_first(i, n)
         [] memoria_config.algoritmo_busqueda = "BEST"  -> encontrar_particion_best(i, n)
         [] memoria_config.algoritmo_busqueda = "WORST" -> encontrar_particion_worst(i, n)

-----------------------------------------------------------------------------
(* Giving it out *)

\* Mutation of achicar_particion: the partition stays in the list with 0 bytes.
achicar_sin_quitar(s, i, n) ==
    [s EXCEPT ![i] = Particion(Libre, @.base + n, @.tamanio - n)]

\* Partition i of s loses its first n bytes, and leaves the list when none is left.
achicar_particion(s, i, n) ==
    IF s[i].tamanio = n THEN RemoveAt(s, i)
    ELSE [s EXCEPT ![i] = Particion(Libre, @.base + n, @.tamanio - n)]

\* list_add_sorted with comparador_base: x goes before the k-th partition of s.
LugarOrdenado(s, x, k) ==
    /\ \A j \in 1 .. k - 1 : s[j].base < x.base
    /\ k <= Len(s) => s[k].base >= x.base

asignar_particion(pid, n, i) ==
    LET x == lista_particiones[i] IN
    IF Dinamicas
    THEN LET s == achicar_particion(lista_particiones, i, n)
             nueva == Particion(pid, x.base, n)
         IN \E k \in 1 .. Len(s) + 1 :
               /\ LugarOrdenado(s, nueva, k)
               /\ lista_particiones' = InsertAt(s, k, nueva)
               /\ nuevo_proceso' = [pid |-> pid, base |-> x.base, limite |-> x.base + n]
    ELSE /\ lista_particiones' = [lista_particiones EXCEPT ![i].pid = pid]
         /\ nuevo_proceso' = [pid |-> pid, base |-> x.base, limite |-> x.base + x.tamanio]

\* Mutation of Desocupada: a process is created while another one is finished.
SinCreacion == nuevo_proceso = Ninguno

\* sem_long_term of the kernel: no other process is being created or finished.
Desocupada == nuevo_proceso = Ninguno /\ a_finalizar = Nadie
EnLista(p) == \E x \in lista_procesos : x.pid = p

\* crear_proceso up to the unlock of mutex_lista_particiones.
CrearProceso(p, n) ==
    /\ Desocupada /\ ~EnLista(p)
    /\ buscar_espacio_memoria(n)
    /\ IF n # 0
       THEN \E i \in DOMAIN lista_particiones :
               Encontrada(i, n) /\ asignar_particion(p, n, i)
       ELSE /\ nuevo_proceso' = [pid |-> p, base |-> SinBase, limite |-> SinBase]
            /\ UNCHANGED lista_particiones
    /\ confirmacion' = [codigo |-> "OK", tamanio |-> n]
    /\ UNCHANGED <<memoria_config, lista_procesos, a_finalizar>>

\* The rest of it: the process is in the list and the kernel gets its answer.
AgregarProceso ==
    /\ nuevo_proceso # Ninguno
    /\ lista_procesos' = lista_procesos \cup {nuevo_proceso}
    /\ nuevo_proceso' = Ninguno
    /\ UNCHANGED <<memoria_config, lista_particiones, a_finalizar, confirmacion>>

\* crear_proceso without room.
NoHayEspacio(p, n) ==
    /\ Desocupada /\ ~EnLista(p)
    /\ ~buscar_espacio_memoria(n)
    /\ confirmacion' = [codigo |-> "ERROR", tamanio |-> n]
    /\ UNCHANGED <<memoria_config, lista_particiones, lista_procesos, nuevo_proceso,
                   a_finalizar>>

-----------------------------------------------------------------------------
(* Taking it back *)

\* Mutation of juntar_particiones: the left partition keeps its size.
juntar_sin_sumar(s, i) ==
    [RemoveAt(s, i + 1) EXCEPT ![i] = Particion(Libre, @.base, @.tamanio)]

\* Partitions i and i + 1 of s become one free partition.
juntar_particiones(s, i) ==
    [RemoveAt(s, i + 1) EXCEPT ![i] = Particion(Libre, @.base, @.tamanio + s[i+1].tamanio)]

\* buscar_particion_libre: the partition at i of s is free.
buscar_particion_libre(s, i) == i \in DOMAIN s /\ s[i].pid = Libre

\* Mutation of liberar_particion: it is joined with the one at its right only.
liberar_hacia_derecha(i) ==
    LET s == [lista_particiones EXCEPT ![i].pid = Libre] IN
    IF Dinamicas /\ s[i].base + s[i].tamanio # memoria_config.tam_memoria
       /\ buscar_particion_libre(s, i + 1)
    THEN juntar_particiones(s, i) ELSE s

\* The list once partition i is free: under DINAMICAS joined with the free partition
\* at its right and then with the one at its left.
liberar_particion(i) ==
    LET s == [lista_particiones EXCEPT ![i].pid = Libre]
        derecha == IF s[i].base + s[i].tamanio # memoria_config.tam_memoria
                      /\ buscar_particion_libre(s, i + 1)
                   THEN juntar_particiones(s, i) ELSE s
    IN  IF ~Dinamicas THEN s
        ELSE IF derecha[i].base # 0 /\ buscar_particion_libre(derecha, i - 1)
             THEN juntar_particiones(derecha, i - 1) ELSE derecha

buscar_particion_por_base(base, i) ==
    /\ lista_particiones[i].base = base
    /\ \A j \in 1 .. i - 1 : lista_particiones[j].base # base

\* finalizar_proceso up to the unlock of mutex_lista_particiones.
LiberarParticion(p) ==
    /\ Desocupada
    /\ \E x \in lista_procesos :
       /\ x.pid = p
       /\ IF \E i \in DOMAIN lista_particiones : buscar_particion_por_base(x.base, i)
          THEN \E i \in DOMAIN lista_particiones :
                  /\ buscar_particion_por_base(x.base, i)
                  /\ lista_particiones' = liberar_particion(i)
          ELSE UNCHANGED lista_particiones
    /\ a_finalizar' = p
    /\ UNCHANGED <<memoria_config, lista_procesos, nuevo_proceso, confirmacion>>

\* Mutation of QuitarProceso: the process stays in the list.
OlvidarProceso ==
    /\ a_finalizar # Nadie
    /\ a_finalizar' = Nadie
    /\ UNCHANGED <<memoria_config, lista_particiones, lista_procesos, nuevo_proceso,
                   confirmacion>>

\* The rest of it: the process leaves the list.
QuitarProceso ==
    /\ a_finalizar # Nadie
    /\ lista_procesos' = {x \in lista_procesos : x.pid # a_finalizar}
    /\ a_finalizar' = Nadie
    /\ UNCHANGED <<memoria_config, lista_particiones, nuevo_proceso, confirmacion>>

-----------------------------------------------------------------------------
Next ==
    \/ \E p \in Pids : LiberarParticion(p)
                       \/ \E n \in Tamanios : CrearProceso(p, n) \/ NoHayEspacio(p, n)
    \/ AgregarProceso \/ QuitarProceso

Spec == Init /\ [][Next]_vars
=============================================================================
