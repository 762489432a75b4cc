--------------------------------- MODULE Cpu ---------------------------------
(***************************************************************************)
(* The cpu process: the dispatch thread, the instruction cycle it starts   *)
(* for each thread it receives, the interrupt thread and the handler it    *)
(* starts for each end of quantum.  The other ends of its connections are  *)
(* the kernel (planner, response handler, dumps that fail) and memoria     *)
(* (which threads it holds, their contexts, where processes lie).          *)
(*                                                                         *)
(* An action runs one thread between two points where another can come in: *)
(* a blocking call, a request to memoria, the mutex of the interruption.   *)
(***************************************************************************)
EXTENDS Integers, Sequences, FiniteSets, SequencesExt

CONSTANTS
    Hilos,          \* the threads the programs create: <<pid, tid>>
    Lugares,        \* partitions of memoria: <<base, limite>>
    W,              \* 2^32 in the code: addresses wrap there
    Direcciones,    \* logical addresses the programs use
    Valores,        \* values the programs leave in the registers BASE and LIMITE
    Algorithm,      \* kernel_config->planning_algorithm
    MaxDespachos,   \* bound: dispatches
    M               \* the instructions of a thread are counted modulo M

ASSUME CpuAssumption ==
    /\ Hilos \subseteq Nat \X Nat /\ \A t \in Hilos : <<t[1], 0>> \in Hilos
    /\ W \in Nat \ {0} /\ M \in Nat \ {0}
    /\ MaxDespachos \in Nat /\ Algorithm \in {"FIFO", "PRIORIDADES", "CMN"}
    /\ Lugares \subseteq (0 .. W - 5) \X (1 .. W - 4)      \* tam_memoria is an int
    /\ \A l \in Lugares : l[1] < l[2]
    /\ \A l, k \in Lugares : l = k \/ l[2] <= k[1] \/ k[2] <= l[1]
    /\ Direcciones \subseteq 0 .. W - 1 /\ Valores \subseteq 0 .. W - 1

Pids   == {t[1] : t \in Hilos}
NoTcb  == <<-1, -1>>
SinLugar == <<-1, -1>>
Fallo  == W - 1                   \* (uint32_t) -1
Vacio  == <<Fallo, Fallo>>        \* where a process of size 0 lies
SinContexto == -1

VARIABLES
    \* kernel: a thread in no queue waits for nothing, or has ended
    ready, bloqueados, en_dump, exec, times_in_cpu, nuevos,
    plan_new_thread, wait_cpu_response, sem_short_term, st, despachado, rh,
    \* memoria
    contexto, lugar,
    \* connections
    al_cpu, al_kernel,
    \* cpu
    sem_receive_new_thread, hd, pc, current_thread, cpu_registers, dir_fisica,
    thread_in_memory, kernel_replanifica, handlers, current_interruption

colas     == <<ready, bloqueados, en_dump, exec, nuevos>>
semaforos == <<plan_new_thread, wait_cpu_response, sem_short_term>>
kernelPc  == <<st, despachado, rh, times_in_cpu>>
kernelVars  == <<colas, semaforos, kernelPc>>
memoriaVars == <<contexto, lugar>>
canales   == <<al_cpu, al_kernel>>
cicloVars == <<pc, current_thread, cpu_registers, dir_fisica, thread_in_memory,
               kernel_replanifica>>
turnoVars == <<sem_receive_new_thread, hd>>
interrupVars == <<handlers, current_interruption>>
cpuVars   == <<turnoVars, cicloVars, interrupVars>>
vars      == <<kernelVars, memoriaVars, canales, cpuVars>>

-----------------------------------------------------------------------------
(* Messages and instructions *)

Despacho(t, n)   == [tipo |-> "THREAD", hilo |-> t, veces |-> n]
Bool(b)          == [tipo |-> "bool", valor |-> b]
Paquete(op)      == [tipo |-> op, hilo |-> current_thread.hilo]
Interrupcion(t, n) == [hilo |-> t, veces |-> n]     \* also what t_thread holds

En_memoria(t) == contexto[t] # SinContexto

\* The physical address of four bytes, or Fallo.
MMU(l) == LET direccion == (cpu_registers.base + l) % W IN
          IF direccion < cpu_registers.limite /\ (direccion + 4) % W <= cpu_registers.limite
          THEN direccion ELSE Fallo

Init ==
    /\ ready = {} /\ bloqueados = {} /\ en_dump = {} /\ exec = NoTcb /\ nuevos = Pids
    /\ times_in_cpu = [t \in Hilos |-> 0]
    /\ plan_new_thread = 1 /\ wait_cpu_response = 0 /\ sem_short_term = 1
    /\ st = "plan" /\ despachado = NoTcb /\ rh = "wait"
    /\ contexto = [t \in Hilos |-> SinContexto]
    /\ lugar = [p \in Pids |-> SinLugar]
    /\ al_cpu = <<>> /\ al_kernel = <<>>
    /\ sem_receive_new_thread = 1            \* 2, less the handshake
    /\ hd = "wait" /\ pc = "inactivo"
    /\ current_thread = Interrupcion(<<0, 0>>, 0)
    /\ cpu_registers = [cuenta |-> 0, base |-> 0, limite |-> 0, escritos |-> FALSE]
    /\ dir_fisica = 0
    /\ thread_in_memory = TRUE /\ kernel_replanifica = FALSE
    /\ handlers = {} /\ current_interruption = Interrupcion(<<0, 0>>, 0)

-----------------------------------------------------------------------------
(* Dispatch thread *)

\* Between two threads it waits for the semaphore, then for a packet.
RecibirHilo ==
    /\ hd = "wait" /\ sem_receive_new_thread > 0
    /\ al_cpu # <<>> /\ Head(al_cpu).tipo = "THREAD"
    /\ sem_receive_new_thread' = sem_receive_new_thread - 1
    /\ current_thread' = Interrupcion(Head(al_cpu).hilo, Head(al_cpu).veces)
    /\ thread_in_memory' = TRUE
    /\ al_cpu' = Tail(al_cpu)
    /\ hd' = "contexto"
    /\ UNCHANGED <<kernelVars, memoriaVars, al_kernel, pc, cpu_registers,
                   dir_fisica, kernel_replanifica, interrupVars>>

\* Mutation of ObtenerContexto: base and limit are loaded once.
ObtenerContextoUnaVez ==
    LET t == current_thread.hilo IN
    /\ hd = "contexto"
    /\ thread_in_memory' = En_memoria(t)
    /\ cpu_registers' = IF ~En_memoria(t) THEN cpu_registers
                        ELSE IF cpu_registers.limite = 0
                        THEN [cuenta |-> contexto[t], base |-> lugar[t[1]][1],
                              limite |-> lugar[t[1]][2], escritos |-> FALSE]
                        ELSE [cpu_registers EXCEPT !.cuenta = contexto[t], !.escritos = FALSE]
    /\ hd' = "wait" /\ pc' = "fetch"
    /\ UNCHANGED <<kernelVars, memoriaVars, canales, sem_receive_new_thread, current_thread,
                   dir_fisica, kernel_replanifica, interrupVars>>

\* request_context_to_memory; a thread memoria does not have leaves the registers of the
\* last one.  Then the cycle starts in a thread of its own.
ObtenerContexto ==
    LET t == current_thread.hilo IN
    /\ hd = "contexto"
    /\ thread_in_memory' = En_memoria(t)
    /\ cpu_registers' = IF En_memoria(t)
                        THEN [cuenta |-> contexto[t], base |-> lugar[t[1]][1],
                              limite |-> lugar[t[1]][2], escritos |-> FALSE]
                        ELSE cpu_registers
    /\ hd' = "wait" /\ pc' = "fetch"
    /\ UNCHANGED <<kernelVars, memoriaVars, canales, sem_receive_new_thread, current_thread,
                   dir_fisica, kernel_replanifica, interrupVars>>

-----------------------------------------------------------------------------
(* Instruction cycle *)

\* The next instruction, whatever the program has there, and pc++.  The count of instructions
\* stands for all the registers of a context.
Fetch  == pc = "fetch" /\ thread_in_memory /\ En_memoria(current_thread.hilo)
Avanza == [cpu_registers EXCEPT !.cuenta = (@ + 1) % M]

\* An instruction that writes a register may name BASE or LIMITE, which are in no context.
\* `escritos' is history: it did since memoria gave them.
point_to_register(r) ==
    {r} \cup {[r EXCEPT !.base = v, !.escritos = TRUE] : v \in Valores}
        \cup {[r EXCEPT !.limite = v, !.escritos = TRUE] : v \in Valores}

\* Memoria has no such thread, now or when its context was asked for.
FetchNotInMemory ==
    /\ pc = "fetch" /\ ~(thread_in_memory /\ En_memoria(current_thread.hilo))
    /\ thread_in_memory' = FALSE /\ kernel_replanifica' = TRUE
    /\ al_kernel' = Append(al_kernel, Paquete("NOT_IN_MEMORY"))
    /\ pc' = "recv"
    /\ UNCHANGED <<kernelVars, memoriaVars, al_cpu, turnoVars, current_thread, cpu_registers,
                   dir_fisica, interrupVars>>

\* Mutation of ExecuteLocal: the flag of the last syscall stays.
ExecuteLocalSinReponer ==
    /\ Fetch /\ cpu_registers' \in point_to_register(Avanza)
    /\ pc' = "check"
    /\ UNCHANGED <<kernelVars, memoriaVars, canales, turnoVars, current_thread, dir_fisica,
                   thread_in_memory, kernel_replanifica, interrupVars>>

\* SET, SUM, SUB, JNZ, LOG
ExecuteLocal ==
    /\ Fetch /\ cpu_registers' \in point_to_register(Avanza)
    /\ kernel_replanifica' = FALSE
    /\ pc' = "check"
    /\ UNCHANGED <<kernelVars, memoriaVars, canales, turnoVars, current_thread, dir_fisica,
                   thread_in_memory, interrupVars>>

\* READ_MEM and WRITE_MEM: the request leaves for memoria, or the kernel is told.
ExecuteMem ==
    /\ Fetch /\ cpu_registers' = Avanza
    /\ \E l \in Direcciones : MMU(l) # Fallo /\ dir_fisica' = MMU(l)
    /\ pc' = "memoria"
    /\ UNCHANGED <<kernelVars, memoriaVars, canales, turnoVars, current_thread,
                   thread_in_memory, kernel_replanifica, interrupVars>>

ExecuteSegmentationFault ==
    /\ Fetch /\ cpu_registers' = Avanza
    /\ \E l \in Direcciones : MMU(l) = Fallo
    /\ al_kernel' = Append(al_kernel, Paquete("SEGMENTATION_FAULT"))
    /\ kernel_replanifica' = TRUE
    /\ pc' = "recv"
    /\ UNCHANGED <<kernelVars, memoriaVars, al_cpu, turnoVars, current_thread, dir_fisica,
                   thread_in_memory, interrupVars>>

\* Memoria reads or writes at the address, whoever asks, and answers; what READ_MEM read goes
\* to its register.
AccederMemoria ==
    /\ pc = "memoria"
    /\ cpu_registers' \in point_to_register(cpu_registers)
    /\ thread_in_memory' = TRUE /\ kernel_replanifica' = FALSE
    /\ dir_fisica' = 0
    /\ pc' = "check"
    /\ UNCHANGED <<kernelVars, memoriaVars, canales, turnoVars, current_thread, interrupVars>>

ExecuteSyscall ==
    /\ Fetch /\ cpu_registers' = Avanza
    /\ al_kernel' = Append(al_kernel, Paquete("SYSCALL"))
    /\ pc' = "syscall"
    /\ UNCHANGED <<kernelVars, memoriaVars, al_cpu, turnoVars, current_thread, dir_fisica,
                   thread_in_memory, kernel_replanifica, interrupVars>>

\* The kernel's answer.  Only a syscall looks at it.
RecibirRespuesta ==
    /\ pc \in {"recv", "syscall"} /\ al_cpu # <<>> /\ Head(al_cpu).tipo = "bool"
    /\ kernel_replanifica' = IF pc = "syscall" THEN Head(al_cpu).valor ELSE kernel_replanifica
    /\ al_cpu' = Tail(al_cpu)
    /\ pc' = "check"
    /\ UNCHANGED <<kernelVars, memoriaVars, al_kernel, turnoVars, current_thread,
                   cpu_registers, dir_fisica, thread_in_memory, interrupVars>>

-----------------------------------------------------------------------------
(* check_interrupt *)

\* Mutation of valid_interruption: any dispatch of the thread will do.
interruption_of_thread == current_interruption.hilo = current_thread.hilo

\* The interruption that came last is for this dispatch of this thread.
valid_interruption == current_interruption = current_thread

\* Mutation of Inactivo: an end that is told twice.
InactivoDosVeces ==
    /\ pc' = "inactivo"
    /\ sem_receive_new_thread' = sem_receive_new_thread + 2

Inactivo ==
    /\ pc' = "inactivo"
    /\ sem_receive_new_thread' = sem_receive_new_thread + 1

CheckNada ==
    /\ pc = "check" /\ ~kernel_replanifica /\ ~valid_interruption
    /\ pc' = "fetch"
    /\ UNCHANGED <<kernelVars, memoriaVars, canales, turnoVars, current_thread, cpu_registers,
                   dir_fisica, thread_in_memory, kernel_replanifica, interrupVars>>

\* Mutation of CheckActualizar: an interrupted thread does not leave its context.
CheckActualizarSiReplanifica ==
    LET t == current_thread.hilo IN
    /\ pc = "check" /\ (kernel_replanifica \/ valid_interruption)
    /\ contexto' = IF En_memoria(t) /\ kernel_replanifica
                   THEN [contexto EXCEPT ![t] = cpu_registers.cuenta] ELSE contexto
    /\ pc' = IF kernel_replanifica THEN "discard" ELSE "interrupt"
    /\ UNCHANGED <<kernelVars, lugar, canales, turnoVars, current_thread, cpu_registers,
                   dir_fisica, thread_in_memory, kernel_replanifica, interrupVars>>

\* request_context_update_to_memory, for either reason; ignored if the thread is gone.
CheckActualizar ==
    LET t == current_thread.hilo IN
    /\ pc = "check" /\ (kernel_replanifica \/ valid_interruption)
    /\ contexto' = IF En_memoria(t) THEN [contexto EXCEPT ![t] = cpu_registers.cuenta]
                                    ELSE contexto
    /\ pc' = IF kernel_replanifica THEN "discard" ELSE "interrupt"
    /\ UNCHANGED <<kernelVars, lugar, canales, turnoVars, current_thread, cpu_registers,
                   dir_fisica, thread_in_memory, kernel_replanifica, interrupVars>>

\* discard_possible_interruption, and "para desbloquear kernel".
CheckAvisar ==
    /\ pc = "discard"
    /\ current_interruption' = Interrupcion(NoTcb, -1)
    /\ al_kernel' = Append(al_kernel, Bool(TRUE))
    /\ Inactivo
    /\ UNCHANGED <<kernelVars, memoriaVars, al_cpu, hd, current_thread, cpu_registers,
                   dir_fisica, thread_in_memory, kernel_replanifica, handlers>>

CheckInterrumpir ==
    /\ pc = "interrupt"
    /\ al_kernel' = Append(al_kernel, Paquete("INTERRUPTION"))
    /\ Inactivo
    /\ UNCHANGED <<kernelVars, memoriaVars, al_cpu, hd, current_thread,
                   cpu_registers, dir_fisica, thread_in_memory, kernel_replanifica,
                   interrupVars>>

-----------------------------------------------------------------------------
(* Interrupt connection *)

\* The interrupt thread starts a detached handler for each interruption; whatever order they
\* came in, the handlers store them in any.
handle_interrupt ==
    /\ \E i \in handlers : /\ current_interruption' = i
                           /\ handlers' = handlers \ {i}
    /\ UNCHANGED <<kernelVars, memoriaVars, canales, turnoVars, cicloVars>>

-----------------------------------------------------------------------------
(* The kernel *)

cpuSide == <<sem_receive_new_thread, hd, cicloVars, interrupVars>>

Proceso(p) == {t \in Hilos : t[1] = p}
Quitar(S)  == ready' = ready \ S /\ bloqueados' = bloqueados \ S
SinContextos(S) == contexto' = [t \in Hilos |-> IF t \in S THEN SinContexto ELSE contexto[t]]

\* finish_process: every thread ends wherever it is, but for the dump threads, which go on;
\* memoria frees the process.
finish_process(p) ==
    /\ Quitar(Proceso(p))
    /\ exec' = IF exec \in Proceso(p) THEN NoTcb ELSE exec
    /\ SinContextos(Proceso(p))
    /\ lugar' = [lugar EXCEPT ![p] = SinLugar]
    /\ UNCHANGED nuevos

\* FINISH_THREAD and the end of one thread.
EndThread(t) ==
    /\ Quitar({t})
    /\ exec' = IF exec = t THEN NoTcb ELSE exec
    /\ SinContextos({t})
    /\ UNCHANGED <<nuevos, lugar>>

\* The long-term planner: a process enters with its first thread when there is room, of which one
\* of size 0 takes none.
AdmitirProceso ==
    /\ \E p \in nuevos : \E l \in Lugares \cup {Vacio} :
       /\ l = Vacio \/ \A q \in Pids : lugar[q] # l
       /\ \E k \in Lugares : \A q \in Pids : lugar[q] # k
       /\ nuevos' = nuevos \ {p}
       /\ lugar' = [lugar EXCEPT ![p] = l]
       /\ contexto' = [contexto EXCEPT ![<<p, 0>>] = 0]
       /\ ready' = ready \cup {<<p, 0>>}
    /\ UNCHANGED <<bloqueados, en_dump, exec, semaforos, kernelPc, canales, cpuVars>>

\* Mutation of Despachar: the number of the dispatch before.
DespacharAnterior ==
    /\ st = "plan" /\ plan_new_thread > 0 /\ sem_short_term > 0
    /\ FoldFunction(+, 0, times_in_cpu) < MaxDespachos
    /\ \E t \in ready :
       /\ times_in_cpu' = [times_in_cpu EXCEPT ![t] = @ + 1]
       /\ ready' = ready \ {t} /\ exec' = t /\ despachado' = t
       /\ al_cpu' = Append(al_cpu, Despacho(t, times_in_cpu[t]))
    /\ plan_new_thread' = plan_new_thread - 1
    /\ wait_cpu_response' = wait_cpu_response + 1
    /\ st' = IF Algorithm = "CMN" THEN "quantum" ELSE "plan"
    /\ UNCHANGED <<bloqueados, en_dump, nuevos, sem_short_term, rh, memoriaVars, al_kernel,
                   cpuVars>>

\* The short-term planner dispatches some READY thread and, under CMN, counts its quantum.
Despachar ==
    /\ st = "plan" /\ plan_new_thread > 0 /\ sem_short_term > 0
    /\ FoldFunction(+, 0, times_in_cpu) < MaxDespachos
    /\ \E t \in ready :
       /\ times_in_cpu' = [times_in_cpu EXCEPT ![t] = @ + 1]
       /\ ready' = ready \ {t} /\ exec' = t /\ despachado' = t
       /\ al_cpu' = Append(al_cpu, Despacho(t, times_in_cpu'[t]))
    /\ plan_new_thread' = plan_new_thread - 1
    /\ wait_cpu_response' = wait_cpu_response + 1
    /\ st' = IF Algorithm = "CMN" THEN "quantum" ELSE "plan"
    /\ UNCHANGED <<bloqueados, en_dump, nuevos, sem_short_term, rh, memoriaVars, al_kernel,
                   cpuVars>>

\* The quantum is over: the thread dispatched is interrupted if some thread is in EXEC.
FinQuantum ==
    /\ st = "quantum" /\ sem_short_term > 0
    /\ handlers' = IF exec = NoTcb THEN handlers
                   ELSE handlers \cup {Interrupcion(despachado, times_in_cpu[despachado])}
    /\ st' = "plan"
    /\ UNCHANGED <<colas, semaforos, despachado, rh, times_in_cpu, memoriaVars, canales,
                   turnoVars, cicloVars, current_interruption>>

\* receive_cpu_return, and sem_short_term for what the return asks.
Atiende(tipo) ==
    /\ rh = "wait" /\ wait_cpu_response > 0 /\ sem_short_term > 0
    /\ al_kernel # <<>> /\ Head(al_kernel).tipo = tipo
    /\ al_kernel' = Tail(al_kernel)
    /\ UNCHANGED <<st, despachado, times_in_cpu, cpuVars>>

\* Answers that the thread goes on, and waits for its next return.
Sigue ==
    /\ al_cpu' = Append(al_cpu, Bool(FALSE))
    /\ UNCHANGED <<semaforos, rh>>

\* Answers that it does not and waits, holding sem_short_term, until the CPU let go of it.
Desaloja(b) ==
    /\ al_cpu' = Append(al_cpu, Bool(b))
    /\ rh' = "ack"
    /\ wait_cpu_response' = wait_cpu_response - 1
    /\ sem_short_term' = sem_short_term - 1
    /\ UNCHANGED plan_new_thread

\* Syscalls that keep the CPU: of no effect here, a new thread, the end of a thread of the
\* process, which may be the one that asks.
AtenderSigue ==
    /\ Atiende("SYSCALL") /\ exec # NoTcb
    /\ UNCHANGED <<colas, memoriaVars>>
    /\ Sigue

AtenderThreadCreate ==
    /\ Atiende("SYSCALL") /\ exec # NoTcb
    /\ \E t \in Proceso(exec[1]) :
       /\ times_in_cpu[t] = 0 /\ ~En_memoria(t)
       /\ contexto' = [contexto EXCEPT ![t] = 0] /\ ready' = ready \cup {t}
    /\ UNCHANGED <<bloqueados, en_dump, exec, nuevos, lugar>>
    /\ Sigue

AtenderThreadCancel ==
    /\ Atiende("SYSCALL") /\ exec # NoTcb
    /\ \E t \in Proceso(exec[1]) : En_memoria(t) /\ EndThread(t)
    /\ UNCHANGED en_dump
    /\ Sigue

\* Syscalls that lose it: a thread that blocks, that dumps its memory, that ends.
AtenderBloquea ==
    /\ Atiende("SYSCALL") /\ exec # NoTcb
    /\ bloqueados' = bloqueados \cup {exec} /\ exec' = NoTcb
    /\ UNCHANGED <<ready, en_dump, nuevos, memoriaVars>>
    /\ Desaloja(TRUE)

AtenderDumpMemory ==
    /\ Atiende("SYSCALL") /\ exec # NoTcb
    /\ en_dump' = en_dump \cup {exec} /\ exec' = NoTcb
    /\ UNCHANGED <<ready, bloqueados, nuevos, memoriaVars>>
    /\ Desaloja(TRUE)

AtenderExit ==
    /\ Atiende("SYSCALL") /\ exec # NoTcb
    /\ EndThread(exec) \/ finish_process(exec[1])
    /\ UNCHANGED en_dump
    /\ Desaloja(TRUE)

\* Its process was ended by a dump in the meantime: the syscall is not done.
AtenderSinExec ==
    /\ Atiende("SYSCALL") /\ exec = NoTcb
    /\ UNCHANGED <<colas, memoriaVars>>
    /\ Desaloja(TRUE)

AtenderSegmentationFault ==
    /\ Atiende("SEGMENTATION_FAULT")
    /\ IF exec # NoTcb THEN finish_process(exec[1]) /\ UNCHANGED en_dump
                       ELSE UNCHANGED <<colas, memoriaVars>>
    /\ Desaloja(FALSE)

\* Mutation of AtenderNotInMemory: nobody answers the cpu.
AtenderNotInMemoryMudo ==
    /\ Atiende("NOT_IN_MEMORY")
    /\ UNCHANGED <<colas, memoriaVars, plan_new_thread, al_cpu>>
    /\ rh' = "ack_default"
    /\ wait_cpu_response' = wait_cpu_response - 1
    /\ sem_short_term' = sem_short_term - 1

AtenderNotInMemory ==
    /\ Atiende("NOT_IN_MEMORY")
    /\ UNCHANGED <<colas, memoriaVars, plan_new_thread>>
    /\ al_cpu' = Append(al_cpu, Bool(FALSE))
    /\ rh' = "ack_default"
    /\ wait_cpu_response' = wait_cpu_response - 1
    /\ sem_short_term' = sem_short_term - 1

AtenderInterrupcion ==
    /\ Atiende("INTERRUPTION")
    /\ ready' = IF exec # NoTcb THEN ready \cup {exec} ELSE ready
    /\ exec' = NoTcb
    /\ wait_cpu_response' = wait_cpu_response - 1
    /\ plan_new_thread' = plan_new_thread + 1
    /\ UNCHANGED <<bloqueados, en_dump, nuevos, sem_short_term, rh, memoriaVars, al_cpu>>

\* The CPU let go of the thread.  NOT_IN_MEMORY falls into the default case, which posts
\* sem_short_term again.
RecibirAck ==
    /\ rh # "wait" /\ al_kernel # <<>> /\ Head(al_kernel).tipo = "bool"
    /\ al_kernel' = Tail(al_kernel)
    /\ sem_short_term' = sem_short_term + IF rh = "ack" THEN 1 ELSE 2
    /\ plan_new_thread' = plan_new_thread + 1
    /\ rh' = "wait"
    /\ UNCHANGED <<colas, wait_cpu_response, st, despachado, times_in_cpu, memoriaVars, al_cpu,
                   cpuVars>>

otrasVars == <<semaforos, kernelPc, canales, cpuVars>>

\* An IO ends.
Desbloquear ==
    /\ sem_short_term > 0
    /\ \E t \in bloqueados : ready' = ready \cup {t} /\ bloqueados' = bloqueados \ {t}
    /\ UNCHANGED <<en_dump, exec, nuevos, memoriaVars, otrasVars>>

\* A dump is answered OK: its thread goes on if nobody ended it.
TerminarDump ==
    /\ sem_short_term > 0
    /\ \E t \in en_dump : /\ en_dump' = en_dump \ {t}
                          /\ ready' = IF En_memoria(t) THEN ready \cup {t} ELSE ready
    /\ UNCHANGED <<bloqueados, exec, nuevos, memoriaVars, otrasVars>>

\* A dump fails and ends its process, if that is still there, whatever its threads do.
FallarDump ==
    /\ sem_short_term > 0
    /\ \E t \in en_dump :
       /\ en_dump' = en_dump \ {t}
       /\ IF lugar[t[1]] = SinLugar
          THEN UNCHANGED <<ready, bloqueados, exec, nuevos, memoriaVars>>
          ELSE finish_process(t[1])
    /\ UNCHANGED otrasVars

-----------------------------------------------------------------------------
Ciclo == \/ FetchNotInMemory \/ ExecuteLocal \/ ExecuteMem \/ AccederMemoria
         \/ ExecuteSegmentationFault \/ ExecuteSyscall \/ RecibirRespuesta
         \/ CheckNada \/ CheckActualizar \/ CheckAvisar \/ CheckInterrumpir
Dispatch  == RecibirHilo \/ ObtenerContexto
Handler   == \/ AtenderSigue \/ AtenderThreadCreate \/ AtenderThreadCancel \/ AtenderBloquea
             \/ AtenderDumpMemory \/ AtenderExit \/ AtenderSinExec
             \/ AtenderSegmentationFault \/ AtenderNotInMemory \/ AtenderInterrupcion
             \/ RecibirAck
Planner   == Despachar \/ FinQuantum
Entorno   == AdmitirProceso \/ Desbloquear \/ TerminarDump \/ FallarDump

Next == Ciclo \/ Dispatch \/ handle_interrupt \/ Handler \/ Planner \/ Entorno
Spec == Init /\ [][Next]_vars

\* The threads of the cpu and of the kernel go on when they can.
FairSpec == /\ Spec /\ WF_vars(Ciclo) /\ WF_vars(Dispatch) /\ WF_vars(Handler)
            /\ WF_vars(Planner)
=============================================================================
