---------------------------- MODULE CpuProperties ----------------------------
(* What the cpu of Cpu.tla must keep true together with the kernel. *)
EXTENDS Cpu

\* A dispatch of a thread, none, or what static storage holds at first.
Turnos == [hilo : Hilos, veces : Nat \ {0}]
          \cup {Interrupcion(NoTcb, -1), Interrupcion(<<0, 0>>, 0)}
Despachos == [tipo : {"THREAD"}, hilo : Hilos, veces : Nat \ {0}]
Bools  == [tipo : {"bool"}, valor : BOOLEAN]
Retornos == [tipo : {"SYSCALL", "SEGMENTATION_FAULT", "NOT_IN_MEMORY", "INTERRUPTION"},
             hilo : Hilos]

\* The type of every variable.
TipoHilos ==
    /\ ready \subseteq Hilos /\ bloqueados \subseteq Hilos /\ en_dump \subseteq Hilos
    /\ exec \in Hilos \cup {NoTcb} /\ nuevos \subseteq Pids
    /\ contexto \in [Hilos -> {SinContexto} \cup 0 .. M - 1]
    /\ lugar \in [Pids -> Lugares \cup {SinLugar, Vacio}]
TipoKernel ==
    /\ times_in_cpu \in [Hilos -> Nat] /\ sem_short_term \in Nat
    /\ st \in {"plan", "quantum"} /\ despachado \in Hilos \cup {NoTcb}
TipoCpu ==
    /\ handlers \subseteq [hilo : Hilos, veces : Nat \ {0}]
    /\ current_interruption \in Turnos /\ current_thread \in Turnos
    /\ cpu_registers \in [cuenta : 0 .. M - 1, base : 0 .. Fallo, limite : 0 .. Fallo,
                          escritos : BOOLEAN]
    /\ dir_fisica \in 0 .. Fallo
    /\ thread_in_memory \in BOOLEAN /\ kernel_replanifica \in BOOLEAN
TipoConexion ==
    /\ plan_new_thread \in {0, 1} /\ wait_cpu_response \in {0, 1}
    /\ rh \in {"wait", "ack", "ack_default"}
    /\ al_cpu \in Seq(Bools \cup Despachos)
    /\ al_kernel \in Seq(Bools \cup Retornos)
    /\ sem_receive_new_thread \in {0, 1} /\ hd \in {"wait", "contexto"}
    /\ pc \in {"inactivo", "fetch", "memoria", "recv", "syscall", "check", "discard",
               "interrupt"}
TypeOK == TipoHilos /\ TipoKernel /\ TipoCpu /\ TipoConexion

-----------------------------------------------------------------------------
(* The dispatch connection *)

\* Two threads of the cpu read from the dispatch connection, and the kernel's handler reads
\* two kinds of answers from its end without a look at what they are: each only ever finds
\* what it expects.
ProtocoloEnPaso ==
    /\ al_cpu # <<>> =>
       /\ hd = "wait" /\ sem_receive_new_thread > 0 => Head(al_cpu).tipo = "THREAD"
       /\ pc \in {"recv", "syscall"} =>
             Head(al_cpu).tipo = "bool" /\ ~(hd = "wait" /\ sem_receive_new_thread > 0)
    /\ al_kernel # <<>> =>
       /\ rh = "wait" /\ wait_cpu_response > 0 => Head(al_kernel).tipo # "bool"
       /\ rh # "wait" => Head(al_kernel).tipo = "bool"
    /\ hd = "contexto" => pc = "inactivo"

\* The thread in EXEC is the one the cpu runs, by its last dispatch, until the kernel has
\* what the cpu returned; so the kernel, which does not look at the thread a return names,
\* serves the right one.
CorreExec ==
    exec # NoTcb =>
       \/ al_cpu # <<>> /\ Head(al_cpu) = Despacho(exec, times_in_cpu[exec])
       \/ current_thread = Interrupcion(exec, times_in_cpu[exec])

-----------------------------------------------------------------------------
(* Interruptions *)

\* A thread loses the CPU by an interruption only when the quantum of this dispatch is over,
\* however late the handlers of older ones run.
InterrupcionJusta ==
    pc = "interrupt"
          \/ (\E i \in DOMAIN al_kernel : al_kernel[i].tipo = "INTERRUPTION")
       => Algorithm = "CMN" /\ st = "plan" /\ despachado = current_thread.hilo
          /\ times_in_cpu[despachado] = current_thread.veces

\* "si interrupcion llega antes-> la atendemos, si llega despues-> quedara para otro ciclo"
\* (handle_dispatch_connection.c:394): the interruption of the thread in the cpu is under
\* way, with its handler or stored until the cpu takes it.
InterrupcionNoPerdida ==
    Algorithm = "CMN" /\ st = "plan" /\ exec # NoTcb
       /\ pc \in {"fetch", "memoria", "interrupt"} =>
       Interrupcion(exec, times_in_cpu[exec]) \in
          handlers \cup {current_interruption}

-----------------------------------------------------------------------------
(* Registers and memory *)

\* Every thread sees registers of its own: those of the cpu while its cycle has them, those
\* memoria keeps otherwise.
EnCpu(t) == current_thread.hilo = t /\ thread_in_memory
            /\ pc \in {"fetch", "memoria", "recv", "syscall", "check"}
registros == [t \in Hilos |-> IF En_memoria(t) /\ EnCpu(t) THEN cpu_registers.cuenta
                                                           ELSE contexto[t]]
Virtual == INSTANCE ProcesadorVirtual
ImplementaVirtual == Virtual!Spec

\* An instruction may write BASE and LIMITE, which MMU reads, but what a thread leaves there
\* never reaches another thread, nor a later dispatch of the same one: until a thread writes
\* them itself, MMU finds the four bytes of every address of its process, nothing past its
\* limit, and below its base only what a logical address gets at by wrapping around.
Propio(p, d) == lugar[p][1] <= d /\ d + 4 <= lugar[p][2]
AccesoPropio ==
    LET p == current_thread.hilo[1] IN
    pc = "fetch" /\ thread_in_memory /\ ~cpu_registers.escritos /\ lugar[p] # SinLugar =>
       \A l \in Direcciones :
          LET d == lugar[p][1] + l IN
          /\ Propio(p, d) => MMU(l) = d
          /\ MMU(l) # Fallo => \/ MMU(l) = d /\ Propio(p, d)
                               \/ MMU(l) = d - W /\ MMU(l) < lugar[p][1]

-----------------------------------------------------------------------------
(* Liveness *)

\* The kernel's handler and the cpu never wait for each other: a dispatched thread runs, and
\* what the cpu returns is answered and the answer acknowledged.  A thread that is ended while
\* it runs leaves the cpu, without an interruption.
CpuEspera == pc \in {"recv", "syscall"}
EsperasAcaban ==
    /\ []<>(exec = NoTcb \/ pc # "inactivo")
    /\ []<>(~CpuEspera /\ rh = "wait")
    /\ []<>(pc = "inactivo" \/ En_memoria(current_thread.hilo))
=============================================================================
