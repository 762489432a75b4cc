------------------------------- MODULE Memoria -------------------------------
(***************************************************************************)
(* The processes and threads memoria keeps, and the threads that serve the *)
(* kernel's requests, the cpu's and the dumps at the same time.  Requests  *)
(* come on connections of their own; what keeps them apart is the kernel,  *)
(* which sends them under its semaphores, so its side is here as well:     *)
(* sem_long_term covers `largo'; sem_short_term covers `corto', the        *)
(* request of its response handler, and the dumps that end a process.  It  *)
(* lets one in until NOT_IN_MEMORY posts it twice.                         *)
(*                                                                         *)
(* An action is one section under a mutex of memoria, or one use of what   *)
(* was found in an earlier one.                                            *)
(***************************************************************************)
EXTENDS Integers, Sequences, FiniteSets, SequencesExt

CONSTANTS
    Hilos,          \* the threads the programs create: <<pid, tid>>
    Vacios,         \* the processes of size 0
    Cargas,         \* the sets of processes the programs create, one set in each execution
    Particiones,    \* processes with memory that fit at once
    MaxDumps        \* bound: dumps

ASSUME MemoriaAssumption ==
    /\ Hilos \subseteq Nat \X Nat /\ \A t \in Hilos : <<t[1], 0>> \in Hilos
    /\ Vacios \subseteq {t[1] : t \in Hilos} /\ Cargas \subseteq SUBSET {t[1] : t \in Hilos}
    /\ Particiones \in Nat /\ MaxDumps \in Nat

Pids == {t[1] : t \in Hilos}
NoHilo == <<-1, -1>>
Nadie  == <<"", -1>>
Nada == [op |-> "NADA", hilo |-> NoHilo, paso |-> "", para |-> ""]

VARIABLES
    \* kernel
    proceso,                \* of each process: NEW, EXEC or EXIT
    vivos,                  \* threads in a queue, blocked or in the CPU
    nacidos,                \* threads created
    no_memory_for_new_process,  \* the long-term planner waits for the end of a process
    fallidos,               \* history: processes a failed dump ended
    largo, corto,           \* the requests under sem_long_term, and of the response handler
    sem_short_term,         \* its permits
    invalid,                \* history: it was posted twice at the end of a section
    \* cpu
    cpu,                    \* its thread, what it does, the step of its request in memoria
    \* memoria
    lista_procesos, lista_tids, ocupadas,
    dump,                   \* of each thread: its DUMP_MEMORY
    fileSystem_connection,  \* the last connection a dump made
    mal,                    \* the handler that used a process memoria does not hold
    \* filesystem
    conexiones              \* the first request on each connection, and its answer

kernelVars == <<proceso, vivos, nacidos, no_memory_for_new_process, fallidos>>
listas     == <<lista_procesos, lista_tids, ocupadas>>
dumpVars   == <<dump, fileSystem_connection, conexiones>>
permisos   == <<sem_short_term, invalid>>
vars       == <<kernelVars, largo, corto, permisos, cpu, listas, mal, dumpVars>>

SinConexion == 0
Abierta == [abierta |-> TRUE, pedido |-> NoHilo, op |-> ""]
SinDump == [paso |-> "no", conexion |-> SinConexion, solo |-> TRUE, op |-> "", de |-> NoHilo]
Cpu(f, t, p) == [fase |-> f, hilo |-> t, paso |-> p]

\* A process that is not created is like one that ended.
Init ==
    /\ \E S \in Cargas : proceso = [p \in Pids |-> IF p \in S THEN "NEW" ELSE "EXIT"]
    /\ vivos = {} /\ nacidos = {} /\ fallidos = {}
    /\ no_memory_for_new_process = FALSE
    /\ largo = Nada /\ corto = Nada /\ sem_short_term = 1 /\ invalid = FALSE
    /\ cpu = Cpu("libre", NoHilo, "")
    /\ lista_procesos = {} /\ lista_tids = [p \in Pids |-> {}] /\ ocupadas = {}
    /\ dump = [t \in Hilos |-> SinDump] /\ fileSystem_connection = SinConexion
    /\ mal = Nadie /\ conexiones = <<>>

-----------------------------------------------------------------------------
(* What a handler of memoria does *)

\* buscar_proceso, buscar_hilo under their mutexes.
buscar_proceso(p) == p \in lista_procesos
buscar_hilo(t)    == t[2] \in lista_tids[t[1]]

\* A handler uses a process or thread it has a pointer to: if that is gone, memoria reads
\* freed memory or a null pointer, and nothing is said of it from then on.
Usar(existe, quien, p) == IF existe THEN UNCHANGED mal ELSE mal' = <<quien, p>>

-----------------------------------------------------------------------------
(* Requests under sem_long_term *)

Largo(op, paso) == mal = Nadie /\ largo.op = op /\ largo.paso = paso
sinLargo == <<corto, permisos, cpu, dumpVars>>

\* The long-term planner.
PedirProcessCreate ==
    /\ mal = Nadie /\ largo = Nada /\ ~no_memory_for_new_process
    /\ \E p \in Pids : /\ proceso[p] = "NEW"
                       /\ largo' = [op |-> "PROCESS_CREATE", hilo |-> <<p, 0>>,
                                    paso |-> "particion", para |-> "plan"]
    /\ UNCHANGED <<kernelVars, listas, mal, sinLargo>>

\* A process of size 0 takes no partition, but is refused unless one is free.
HayEspacio == Cardinality(ocupadas) < Particiones

\* crear_proceso: the partition, the list of processes, and the first thread.
crear_proceso_particion ==
    LET p == largo.hilo[1] IN
    /\ Largo("PROCESS_CREATE", "particion") /\ HayEspacio
    /\ ocupadas' = IF p \in Vacios THEN ocupadas ELSE ocupadas \cup {p}
    /\ largo' = [largo EXCEPT !.paso = "push"]
    /\ UNCHANGED <<kernelVars, lista_procesos, lista_tids, mal, sinLargo>>

\* Mutation of crear_proceso_sin_espacio: the planner keeps sem_long_term.
sin_espacio_sin_soltar ==
    /\ Largo("PROCESS_CREATE", "particion") /\ ~HayEspacio
    /\ largo' = [largo EXCEPT !.paso = "espera"] /\ no_memory_for_new_process' = TRUE
    /\ UNCHANGED <<proceso, vivos, nacidos, fallidos, listas, mal, sinLargo>>

\* No room: the planner waits until a process ends.
crear_proceso_sin_espacio ==
    /\ Largo("PROCESS_CREATE", "particion") /\ ~HayEspacio
    /\ largo' = Nada /\ no_memory_for_new_process' = TRUE
    /\ UNCHANGED <<proceso, vivos, nacidos, fallidos, listas, mal, sinLargo>>

crear_proceso_push ==
    /\ Largo("PROCESS_CREATE", "push")
    /\ lista_procesos' = lista_procesos \cup {largo.hilo[1]}
    /\ largo' = [largo EXCEPT !.paso = "buscar"]
    /\ UNCHANGED <<kernelVars, lista_tids, ocupadas, mal, sinLargo>>

\* crear_hilo, for a request of either kind: it does not ask whether the process was found.
crear_hilo(t, quien) ==
    /\ Usar(buscar_proceso(t[1]), quien, t[1])
    /\ lista_tids' = [lista_tids EXCEPT ![t[1]] = @ \cup {t[2]}]
    /\ UNCHANGED <<lista_procesos, ocupadas>>

\* The answer OK lets the kernel create the thread and make it READY.
Nace(t) ==
    /\ vivos' = vivos \cup {t} /\ nacidos' = nacidos \cup {t}

crear_proceso_hilo ==
    /\ Largo("PROCESS_CREATE", "buscar")
    /\ crear_hilo(largo.hilo, "crear_proceso")
    /\ Nace(largo.hilo)
    /\ proceso' = [proceso EXCEPT ![largo.hilo[1]] = "EXEC"]
    /\ largo' = Nada
    /\ UNCHANGED <<no_memory_for_new_process, fallidos, sinLargo>>

Pedido(op, t, paso, para) == [op |-> op, hilo |-> t, paso |-> paso, para |-> para]

\* finish_process, of the handler or of a dump that failed, waits for sem_long_term inside its
\* section of sem_short_term; finalizar_proceso then looks the process up, frees its partition,
\* and takes it out of the list and frees it.
PedirFinishProcess ==
    /\ mal = Nadie /\ largo = Nada
    /\ \/ /\ corto.op = "FINISH_PROCESS" /\ corto.paso = "espera"
          /\ largo' = [corto EXCEPT !.paso = "buscar"]
          /\ corto' = [corto EXCEPT !.paso = "pedido"]
          /\ UNCHANGED dump
       \/ \E t \in Hilos : /\ dump[t].paso = "terminar"
                           /\ largo' = Pedido("FINISH_PROCESS", t, "buscar", "dump")
                           /\ dump' = [dump EXCEPT ![t].paso = "pedido"]
                           /\ UNCHANGED corto
    /\ UNCHANGED <<kernelVars, permisos, listas, mal, cpu, fileSystem_connection, conexiones>>

finalizar_proceso_buscar ==
    /\ Largo("FINISH_PROCESS", "buscar")
    /\ Usar(buscar_proceso(largo.hilo[1]), "finalizar_proceso", largo.hilo[1])
    /\ largo' = [largo EXCEPT !.paso = "particion"]
    /\ UNCHANGED <<kernelVars, listas, sinLargo>>

\* Mutation of finalizar_proceso_particion: the partition stays.
finalizar_sin_particion ==
    /\ Largo("FINISH_PROCESS", "particion")
    /\ largo' = [largo EXCEPT !.paso = "quitar"]
    /\ UNCHANGED <<kernelVars, listas, mal, sinLargo>>

finalizar_proceso_particion ==
    /\ Largo("FINISH_PROCESS", "particion")
    /\ ocupadas' = ocupadas \ {largo.hilo[1]}
    /\ largo' = [largo EXCEPT !.paso = "quitar"]
    /\ UNCHANGED <<kernelVars, lista_procesos, lista_tids, mal, sinLargo>>

finalizar_proceso_quitar ==
    LET p == largo.hilo[1] IN
    /\ Largo("FINISH_PROCESS", "quitar")
    /\ Usar(buscar_proceso(p), "finalizar_proceso", p)
    /\ lista_procesos' = lista_procesos \ {p}
    /\ lista_tids' = [lista_tids EXCEPT ![p] = {}]
    /\ largo' = [largo EXCEPT !.paso = "respuesta"]
    /\ UNCHANGED <<kernelVars, ocupadas, sinLargo>>

-----------------------------------------------------------------------------
(* Requests of the response handler, under sem_short_term *)

Entra == sem_short_term > 0 /\ sem_short_term' = sem_short_term - 1
Sale  == sem_short_term' = sem_short_term + 1

Corto(op, paso) == mal = Nadie /\ corto.op = op /\ corto.paso = paso
sinCorto == <<largo, invalid, dumpVars>>

\* The handler with a syscall of the thread in the cpu, which the thread waits for.
Atiende == mal = Nadie /\ corto = Nada /\ cpu.fase = "kernel" /\ Entra
Proceso(p) == {t \in vivos : t[1] = p}

AtenderThreadCreate ==
    /\ Atiende /\ cpu.hilo \in vivos
    /\ \E t \in Hilos \ nacidos : /\ t[1] = cpu.hilo[1]
                                  /\ corto' = Pedido("THREAD_CREATE", t, "buscar", "sigue")
    /\ UNCHANGED <<kernelVars, listas, mal, cpu, sinCorto>>

\* Mutation of AtenderFinishThread: the cpu goes on before memoria is done.
FinishThreadSinEsperar ==
    /\ Atiende /\ cpu.hilo \in vivos
    /\ \E t \in Proceso(cpu.hilo[1]) : corto' = Pedido("FINISH_THREAD", t, "buscar", "sigue")
    /\ cpu' = Cpu("corre", cpu.hilo, "")
    /\ UNCHANGED <<kernelVars, listas, mal, sinCorto>>

\* THREAD_CANCEL of some thread of the process, THREAD_EXIT of the one that asks.
AtenderFinishThread ==
    /\ Atiende /\ cpu.hilo \in vivos
    /\ \/ \E t \in Proceso(cpu.hilo[1]) :
             corto' = Pedido("FINISH_THREAD", t, "buscar", "sigue")
       \/ corto' = Pedido("FINISH_THREAD", cpu.hilo, "buscar", "desaloja")
    /\ UNCHANGED <<kernelVars, listas, mal, cpu, sinCorto>>

\* A process ends: so do its threads, before memoria is asked.
Terminar(p) ==
    /\ proceso' = [proceso EXCEPT ![p] = "EXIT"] /\ vivos' = vivos \ Proceso(p)
    /\ UNCHANGED <<nacidos, no_memory_for_new_process>>

\* PROCESS_EXIT, or SEGMENTATION_FAULT, which does not ask whether the process ended before.
AtenderProcessExit ==
    /\ Atiende /\ cpu.hilo \in vivos
    /\ Terminar(cpu.hilo[1])
    /\ corto' = Pedido("FINISH_PROCESS", <<cpu.hilo[1], 0>>, "espera", "desaloja")
    /\ UNCHANGED <<fallidos, listas, mal, cpu, sinCorto>>

\* The cpu leaves the thread while the handler keeps its permit.
Desalojar(para) ==
    /\ corto' = Pedido("ACK", cpu.hilo, "", para)
    /\ cpu' = Cpu("actualizar", cpu.hilo, "buscar")

\* A thread that blocks, or whose process was ended by a dump.
AtenderBloquea ==
    /\ Atiende
    /\ Desalojar("desaloja")
    /\ UNCHANGED <<kernelVars, listas, mal, sinCorto>>

\* DUMP_MEMORY: the request is sent by a thread of its own.
SinConectar == {t \in Hilos : dump[t].paso \in {"buscar", "tamanio", "conectar"}}
AtenderDumpMemory ==
    /\ Atiende /\ cpu.hilo \in vivos /\ Len(conexiones) + Cardinality(SinConectar) < MaxDumps
    /\ dump' = [dump EXCEPT ![cpu.hilo] = [SinDump EXCEPT !.paso = "buscar"]]
    /\ Desalojar("desaloja")
    /\ UNCHANGED <<kernelVars, listas, mal, largo, invalid, fileSystem_connection, conexiones>>

servir_THREAD_CREATE ==
    /\ Corto("THREAD_CREATE", "buscar")
    /\ crear_hilo(corto.hilo, "crear_hilo")
    /\ corto' = [corto EXCEPT !.paso = "respuesta"]
    /\ UNCHANGED <<kernelVars, cpu, sem_short_term, sinCorto>>

\* finalizar_hilo: neither the process nor the place of the thread is looked at.
finalizar_hilo_buscar ==
    /\ Corto("FINISH_THREAD", "buscar")
    /\ Usar(buscar_proceso(corto.hilo[1]), "finalizar_hilo", corto.hilo[1])
    /\ corto' = [corto EXCEPT !.paso = "quitar"]
    /\ UNCHANGED <<kernelVars, listas, cpu, sem_short_term, sinCorto>>

finalizar_hilo_quitar ==
    LET t == corto.hilo IN
    /\ Corto("FINISH_THREAD", "quitar")
    /\ Usar(buscar_proceso(t[1]) /\ buscar_hilo(t), "finalizar_hilo", t[1])
    /\ lista_tids' = [lista_tids EXCEPT ![t[1]] = @ \ {t[2]}]
    /\ corto' = [corto EXCEPT !.paso = "respuesta"]
    /\ UNCHANGED <<kernelVars, lista_procesos, ocupadas, cpu, sem_short_term, sinCorto>>

\* The handler after the answer: the thread in the cpu goes on or leaves it.
Responder ==
    \/ corto.para = "sigue"    /\ corto' = Nada /\ cpu' = [cpu EXCEPT !.fase = "corre"] /\ Sale
    \/ corto.para = "desaloja" /\ Desalojar("desaloja") /\ UNCHANGED sem_short_term

\* The new thread is made READY, whatever became of its process meanwhile.
RespuestaThreadCreate ==
    /\ Corto("THREAD_CREATE", "respuesta")
    /\ Nace(corto.hilo) /\ Responder
    /\ UNCHANGED <<no_memory_for_new_process, fallidos, proceso, listas, mal, sinCorto>>

RespuestaFinishThread ==
    /\ Corto("FINISH_THREAD", "respuesta")
    /\ vivos' = vivos \ {corto.hilo} /\ Responder
    /\ UNCHANGED <<proceso, nacidos, no_memory_for_new_process, fallidos, listas, mal, sinCorto>>

\* A dump thread is done when its process is.
RespuestaFinishProcess ==
    /\ Largo("FINISH_PROCESS", "respuesta")
    /\ largo' = Nada /\ no_memory_for_new_process' = FALSE
    /\ \/ largo.para = "desaloja" /\ Desalojar("desaloja") /\ UNCHANGED <<dump, sem_short_term>>
       \/ /\ largo.para = "dump" /\ Sale
          /\ dump' = [dump EXCEPT ![largo.hilo] = SinDump]
          /\ UNCHANGED <<corto, cpu>>
    /\ UNCHANGED <<proceso, vivos, nacidos, fallidos, invalid, listas, mal, fileSystem_connection,
                   conexiones>>

-----------------------------------------------------------------------------
(* The cpu and its connection *)

CpuEn(f, paso) == mal = Nadie /\ cpu.fase = f /\ cpu.paso = paso
sinCpu == <<kernelVars, largo, corto, permisos, listas, dumpVars>>

\* A thread that neither ended nor dumps is dispatched, and its context asked for.
Despachar ==
    /\ mal = Nadie /\ cpu.fase = "libre" /\ sem_short_term > 0
    /\ \E t \in vivos : dump[t].paso = "no" /\ cpu' = Cpu("contexto", t, "proceso")
    /\ UNCHANGED <<mal, sinCpu>>

\* OBTENER_CONTEXTO finds the process first, to read its base and limit in the end.
obtener_contexto_proceso ==
    /\ CpuEn("contexto", "proceso")
    /\ cpu' = [cpu EXCEPT !.paso = IF buscar_proceso(cpu.hilo[1]) THEN "buscar" ELSE "falta"]
    /\ UNCHANGED <<mal, sinCpu>>

\* OBTENER_INSTRUCCION, ACTUALIZAR_CONTEXTO: buscar_hilo finds the process, then the thread in
\* its list; then what was found is read or written.
Consultas == {"contexto", "instruccion", "actualizar"}

cpu_buscar_proceso ==
    /\ \E f \in Consultas : CpuEn(f, "buscar")
    /\ cpu' = [cpu EXCEPT !.paso = IF buscar_proceso(cpu.hilo[1]) THEN "tids" ELSE "falta"]
    /\ UNCHANGED <<mal, sinCpu>>

cpu_buscar_hilo ==
    /\ \E f \in Consultas : CpuEn(f, "tids")
    /\ Usar(buscar_proceso(cpu.hilo[1]), "cpu", cpu.hilo[1])
    /\ cpu' = [cpu EXCEPT !.paso = IF buscar_hilo(cpu.hilo) THEN "usar" ELSE "falta"]
    /\ UNCHANGED sinCpu

\* The thread has its context, or an instruction.
cpu_usar ==
    /\ \E f \in {"contexto", "instruccion"} : CpuEn(f, "usar")
    /\ Usar(buscar_proceso(cpu.hilo[1]) /\ buscar_hilo(cpu.hilo), "cpu", cpu.hilo[1])
    /\ cpu' = Cpu("corre", cpu.hilo, "")
    /\ UNCHANGED sinCpu

\* NOT_IN_MEMORY: the kernel is told, and keeps its permit until the cpu leaves the thread,
\* which goes to no queue.
cpu_falta ==
    /\ \E f \in {"contexto", "instruccion"} : CpuEn(f, "falta")
    /\ corto = Nada /\ Entra
    /\ Desalojar("default")
    /\ vivos' = vivos \ {cpu.hilo}
    /\ UNCHANGED <<proceso, nacidos, no_memory_for_new_process, fallidos, largo, invalid, listas,
                   mal, dumpVars>>

\* The next instruction, a syscall, or an interruption.
Corre ==
    /\ CpuEn("corre", "")
    /\ cpu' \in {Cpu("instruccion", cpu.hilo, "buscar"), Cpu("kernel", cpu.hilo, ""),
                 Cpu("actualizar", cpu.hilo, "buscar")}
    /\ UNCHANGED <<mal, sinCpu>>

\* Mutation of actualizar_contexto: no case of the handler breaks, and each posts sem_short_term
\* again.
actualizar_contexto_sin_break ==
    /\ \E paso \in {"usar", "falta"} : CpuEn("actualizar", paso)
    /\ Usar(cpu.paso = "falta" \/ (buscar_proceso(cpu.hilo[1]) /\ buscar_hilo(cpu.hilo)),
            "cpu", cpu.hilo[1])
    /\ cpu' = Cpu("libre", NoHilo, "") /\ corto' = Nada
    /\ sem_short_term' = IF corto.op = "NADA" THEN sem_short_term ELSE sem_short_term + 2
    /\ invalid' = (invalid \/ corto.para = "default")
    /\ UNCHANGED <<kernelVars, largo, listas, dumpVars>>

\* The context is updated, or was of a thread that is gone; the kernel hears of it.  The case
\* NOT_IN_MEMORY goes on into the default one, which posts sem_short_term again.
actualizar_contexto ==
    /\ \E paso \in {"usar", "falta"} : CpuEn("actualizar", paso)
    /\ Usar(cpu.paso = "falta" \/ (buscar_proceso(cpu.hilo[1]) /\ buscar_hilo(cpu.hilo)),
            "cpu", cpu.hilo[1])
    /\ cpu' = Cpu("libre", NoHilo, "")
    /\ corto' = Nada
    /\ \/ corto.op = "NADA"     /\ UNCHANGED permisos
       \/ corto.para = "desaloja" /\ Sale /\ UNCHANGED invalid
       \/ corto.para = "default"  /\ sem_short_term' = sem_short_term + 2 /\ invalid' = TRUE
    /\ UNCHANGED <<kernelVars, largo, listas, dumpVars>>

-----------------------------------------------------------------------------
(* DUMP_MEMORY, served by a thread of its own for each request *)

DumpEn(t, paso) == mal = Nadie /\ dump[t].paso = paso
Pasa(t, paso)   == dump' = [dump EXCEPT ![t].paso = paso]
sinDump == <<kernelVars, largo, corto, permisos, cpu, listas>>

dump_buscar(t) ==
    /\ DumpEn(t, "buscar")
    /\ Usar(buscar_proceso(t[1]), "memory_dump", t[1])
    /\ Pasa(t, "tamanio")
    /\ UNCHANGED <<fileSystem_connection, conexiones, sinDump>>

\* A process of size 0 is not dumped, and its thread is answered ERROR.
dump_tamanio(t) ==
    /\ DumpEn(t, "tamanio")
    /\ Usar(buscar_proceso(t[1]), "memory_dump", t[1])
    /\ dump' = [dump EXCEPT ![t].paso = IF t[1] \in Vacios THEN "respuesta" ELSE "conectar",
                            ![t].op = IF t[1] \in Vacios THEN "ERROR" ELSE ""]
    /\ UNCHANGED <<fileSystem_connection, conexiones, sinDump>>

EnFileSystem == {"copiar", "enviar", "recibir", "espera", "cerrar"}

\* Mutation of dump_conectar: the connection of the first dump serves them all.
dump_conectar_una_vez(t) ==
    /\ DumpEn(t, "conectar")
    /\ IF fileSystem_connection = SinConexion
       THEN conexiones' = Append(conexiones, Abierta) /\ fileSystem_connection' = 1
       ELSE UNCHANGED <<conexiones, fileSystem_connection>>
    /\ Pasa(t, "copiar")
    /\ UNCHANGED <<mal, sinDump>>

\* Each dump connects; all of them keep the connection in the same variable.
dump_conectar(t) ==
    LET otros == {k \in Hilos : dump[k].paso \in EnFileSystem} IN
    /\ DumpEn(t, "conectar")
    /\ conexiones' = Append(conexiones, Abierta)
    /\ fileSystem_connection' = Len(conexiones')
    /\ dump' = [k \in Hilos |->
                  IF k = t THEN [dump[k] EXCEPT !.paso = "copiar", !.solo = otros = {}]
                  ELSE IF k \in otros THEN [dump[k] EXCEPT !.solo = FALSE] ELSE dump[k]]
    /\ UNCHANGED <<mal, sinDump>>

\* The memory is copied from the base the process has now.
dump_copiar(t) ==
    /\ DumpEn(t, "copiar")
    /\ Usar(buscar_proceso(t[1]), "memory_dump", t[1])
    /\ Pasa(t, "enviar")
    /\ UNCHANGED <<fileSystem_connection, conexiones, sinDump>>

\* On a connection that was closed nothing is sent, and nobody reads a second request.
dump_enviar(t) ==
    LET c == fileSystem_connection IN
    /\ DumpEn(t, "enviar")
    /\ conexiones' = IF conexiones[c] = Abierta
                     THEN [conexiones EXCEPT ![c].pedido = t] ELSE conexiones
    /\ Pasa(t, "recibir")
    /\ UNCHANGED <<fileSystem_connection, mal, sinDump>>

\* recv: on a closed connection it fails at once, and the answer is whatever was in the
\* variable.
dump_recibir(t) ==
    LET c == fileSystem_connection IN
    /\ DumpEn(t, "recibir")
    /\ \/ /\ conexiones[c].abierta
          /\ dump' = [dump EXCEPT ![t].paso = "espera", ![t].conexion = c]
       \/ /\ ~conexiones[c].abierta
          /\ \E op \in {"OK", "ERROR"} :
                dump' = [dump EXCEPT ![t].paso = "cerrar", ![t].op = op]
    /\ UNCHANGED <<fileSystem_connection, conexiones, mal, sinDump>>

dump_respuesta(t) ==
    LET c == dump[t].conexion IN
    /\ DumpEn(t, "espera") /\ conexiones[c].op \in {"OK", "ERROR"}
    /\ dump' = [dump EXCEPT ![t].paso = "cerrar", ![t].op = conexiones[c].op,
                            ![t].de = conexiones[c].pedido]
    /\ conexiones' = [conexiones EXCEPT ![c].op = "leida", ![c].pedido = NoHilo]
    /\ UNCHANGED <<fileSystem_connection, mal, sinDump>>

\* destroy_socket, of the connection made last; then the answer leaves for the kernel.
dump_cerrar(t) ==
    /\ DumpEn(t, "cerrar")
    /\ conexiones' = [conexiones EXCEPT ![fileSystem_connection].abierta = FALSE]
    /\ Pasa(t, "respuesta")
    /\ UNCHANGED <<fileSystem_connection, mal, sinDump>>

\* The kernel's dump thread, in its section of sem_short_term.
RespuestaDump(t) ==
    /\ DumpEn(t, "respuesta") /\ sem_short_term > 0
    /\ UNCHANGED <<largo, corto, invalid, cpu, listas, fileSystem_connection, conexiones, mal>>

TerminarDump(t) ==
    /\ RespuestaDump(t)
    /\ dump[t].op = "OK" \/ proceso[t[1]] = "EXIT"
    /\ dump' = [dump EXCEPT ![t] = SinDump]
    /\ UNCHANGED <<kernelVars, sem_short_term>>

\* A dump that failed ends its process, even if its thread was cancelled.
FallarDump(t) ==
    /\ RespuestaDump(t)
    /\ dump[t].op = "ERROR" /\ proceso[t[1]] # "EXIT"
    /\ Entra /\ Terminar(t[1]) /\ Pasa(t, "terminar")
    /\ fallidos' = fallidos \cup {t[1]}

-----------------------------------------------------------------------------
\* Mutation of ServirDump: a failure is not answered.
ServirDumpSiPuede ==
    /\ \E c \in DOMAIN conexiones :
       /\ conexiones[c].pedido # NoHilo /\ conexiones[c].op = ""
       /\ \E op \in {"OK", "leida"} : conexiones' = [conexiones EXCEPT ![c].op = op]
    /\ UNCHANGED <<dump, fileSystem_connection, mal, sinDump>>

\* The filesystem answers the first request of a connection, and no other.
ServirDump ==
    /\ \E c \in DOMAIN conexiones :
       /\ conexiones[c].pedido # NoHilo /\ conexiones[c].op = ""
       /\ \E op \in {"OK", "ERROR"} : conexiones' = [conexiones EXCEPT ![c].op = op]
    /\ UNCHANGED <<dump, fileSystem_connection, mal, sinDump>>

-----------------------------------------------------------------------------
HiloLargo == \/ crear_proceso_particion \/ crear_proceso_sin_espacio \/ crear_proceso_push
             \/ crear_proceso_hilo \/ finalizar_proceso_buscar \/ finalizar_proceso_particion
             \/ finalizar_proceso_quitar \/ RespuestaFinishProcess \/ PedirFinishProcess
HiloCorto == \/ servir_THREAD_CREATE \/ finalizar_hilo_buscar \/ finalizar_hilo_quitar
             \/ RespuestaThreadCreate \/ RespuestaFinishThread
procesar_cpu == \/ obtener_contexto_proceso \/ cpu_buscar_proceso \/ cpu_buscar_hilo
                \/ cpu_usar \/ cpu_falta \/ actualizar_contexto
memory_dump(t) == \/ dump_buscar(t) \/ dump_tamanio(t) \/ dump_conectar(t) \/ dump_copiar(t)
                  \/ dump_enviar(t) \/ dump_recibir(t) \/ dump_respuesta(t) \/ dump_cerrar(t)
Programas == \/ Despachar \/ Corre \/ AtenderThreadCreate \/ AtenderFinishThread
             \/ AtenderProcessExit \/ AtenderBloquea \/ AtenderDumpMemory

Next == \/ PedirProcessCreate \/ HiloLargo \/ HiloCorto \/ procesar_cpu \/ Programas
        \/ ServirDump
        \/ \E t \in Hilos : memory_dump(t) \/ TerminarDump(t) \/ FallarDump(t)
Spec == Init /\ [][Next]_vars

\* The handlers of memoria and of the filesystem, and the threads of the kernel that wait for
\* them, go on; of the dumps, one of those that can.
FairSpec == /\ Spec /\ WF_vars(HiloLargo) /\ WF_vars(HiloCorto) /\ WF_vars(procesar_cpu)
            /\ WF_vars(ServirDump) /\ WF_vars(\E t \in Hilos : memory_dump(t))
=============================================================================
