-------------------------- MODULE MemoriaProperties --------------------------
(* What memoria's handlers must keep true together with the kernel that asks them. *)
EXTENDS Memoria

\* The type of every variable.
Ops     == {"NADA", "PROCESS_CREATE", "FINISH_PROCESS", "THREAD_CREATE", "FINISH_THREAD", "ACK"}
Pedidos == [op : Ops, hilo : Hilos \cup {NoHilo},
            paso : {"", "particion", "push", "buscar", "espera", "pedido", "quitar", "respuesta"},
            para : {"", "plan", "sigue", "desaloja", "default", "dump"}]
Terminan == {"terminar", "pedido"}
Dumps   == [paso : EnFileSystem \cup Terminan
                   \cup {"no", "buscar", "tamanio", "conectar", "respuesta"},
            conexion : Nat, solo : BOOLEAN, op : {"", "OK", "ERROR"}, de : Hilos \cup {NoHilo}]
Canal   == [abierta : BOOLEAN, pedido : Hilos \cup {NoHilo}, op : {"", "OK", "ERROR", "leida"}]
TipoKernel ==
    /\ proceso \in [Pids -> {"NEW", "EXEC", "EXIT"}]
    /\ vivos \subseteq nacidos /\ nacidos \subseteq Hilos /\ fallidos \subseteq Pids
    /\ no_memory_for_new_process \in BOOLEAN
TipoPedidos ==
    largo \in Pedidos /\ corto \in Pedidos /\ sem_short_term \in Nat /\ invalid \in BOOLEAN
TipoCpu ==
    cpu \in [fase : Consultas \cup {"libre", "corre", "kernel"}, hilo : Hilos \cup {NoHilo},
            paso : {"", "proceso", "buscar", "tids", "usar", "falta"}]
TipoListas ==
    /\ lista_procesos \subseteq Pids /\ ocupadas \subseteq Pids \ Vacios
    /\ lista_tids \in [Pids -> SUBSET {t[2] : t \in Hilos}]
TipoDumps ==
    /\ dump \in [Hilos -> Dumps] /\ conexiones \in Seq(Canal)
    /\ fileSystem_connection \in 0 .. Len(conexiones)
    /\ \A t \in Hilos : /\ dump[t].paso \in EnFileSystem => fileSystem_connection # SinConexion
                        /\ dump[t].paso = "espera" => dump[t].conexion \in DOMAIN conexiones
TipoMal ==
    mal \in {"crear_proceso", "crear_hilo", "finalizar_hilo", "finalizar_proceso", "cpu",
             "memory_dump"} \X Pids \cup {Nadie}
TypeOK == TipoKernel /\ TipoPedidos /\ TipoCpu /\ TipoListas /\ TipoDumps /\ TipoMal

-----------------------------------------------------------------------------
(* What handlers find *)

\* The handlers that create and end threads and processes use what they look up without a look
\* at it ("si abajo tira seg fault es que no lo encontro", handle_kernel_connections.c:273).
\* The kernel's semaphores see to it that they find it: sem_long_term always where a process is
\* created; sem_short_term until the fall-through of NOT_IN_MEMORY (handle_cpu.c:349) posts it
\* twice, and from then on for every process but those that a failed dump ends.
PedidosEncuentran ==
    /\ mal[1] # "crear_proceso"
    /\ mal[1] \in {"crear_hilo", "finalizar_hilo", "finalizar_proceso"}
          => invalid /\ mal[2] \in fallidos

\* The cpu and the dumps are outside those semaphores.  A request of the cpu only loses what
\* it found to a dump that failed: a process that ends by a syscall, or a thread that is
\* cancelled, ends while the cpu waits.  A dump only loses its process to the end of it.
SoloPierdenLoTerminado ==
    /\ mal[1] = "cpu" => mal[2] \in fallidos
    /\ mal[1] = "memory_dump" => proceso[mal[2]] = "EXIT"

\* Between two requests memoria holds the processes and threads of the kernel, and a partition
\* for each process of a size; and that although the end of a process is asked for long after
\* the kernel takes it for ended.  Of a process that a failed dump ended when sem_short_term had
\* been posted twice memoria holds nothing, but the kernel may have a thread, created meanwhile.
Terminandose(p) == \/ corto.op = "FINISH_PROCESS" /\ corto.hilo[1] = p
                   \/ \E t \in Hilos : t[1] = p /\ dump[t].paso \in Terminan
Expuesto(p) == invalid /\ p \in fallidos
Acuerdo ==
    mal = Nadie /\ largo = Nada =>
       /\ ocupadas = lista_procesos \ Vacios
       /\ \A p \in Pids :
          IF Terminandose(p) THEN Expuesto(p) \/ p \in lista_procesos
          ELSE /\ p \in lista_procesos <=> proceso[p] = "EXEC"
               /\ corto.op \in {"NADA", "ACK"} =>
                     lista_tids[p] = IF Expuesto(p) THEN {} ELSE {t[2] : t \in Proceso(p)}

-----------------------------------------------------------------------------
(* Dumps *)

\* A dump that no other overlapped is answered what the filesystem said of it.
RespuestaPropia ==
    \A t \in Hilos : dump[t].paso \in {"cerrar", "respuesta"} /\ dump[t].solo
                        /\ t[1] \notin Vacios => dump[t].de = t

\* "VA A RECIBIR OK o ERROR" (handle_kernel_connections.c:599): what a dump receives is what
\* the filesystem said of it.
RespuestaRecibida ==
    \A t \in Hilos : dump[t].paso = "cerrar" => dump[t].de = t

\* A dump at the filesystem that no other overlaps is answered: there is none for ever.
DumpRespondido ==
    []<>(mal # Nadie \/ ~\E t \in Hilos : dump[t].paso \in EnFileSystem /\ dump[t].solo)

\* A request of the kernel is answered: neither its handler nor a dump that ends a process keeps
\* its permit of sem_short_term for ever.
PedidoRespondido ==
    /\ []<>(mal # Nadie \/ corto = Nada)
    /\ []<>(mal # Nadie \/ \A t \in Hilos : dump[t].paso \notin Terminan)
=============================================================================
