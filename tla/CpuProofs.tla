------------------------------- MODULE CpuProofs -------------------------------
(* Theorems about the cpu and its connections, for every value of the constants. *)
EXTENDS CpuProperties, TLAPS

-----------------------------------------------------------------------------
(* The dispatch connection goes through these phases, one after the other.  A    *)
(* phase fixes who may move next: the tokens of the kernel's semaphores, the     *)
(* places of the threads and every message under way.                            *)

\* The kernel's tokens, of the planner and of the handler, which is at one of R.
Turno(p, w, R) == plan_new_thread = p /\ wait_cpu_response = w /\ rh \in R
Esperando == {"wait"}
Acks      == {"ack", "ack_default"}

\* The dispatch thread of the cpu is at h, with n in its semaphore, and the cycle in P.
En(h, n, P) == hd = h /\ sem_receive_new_thread = n /\ pc \in P

Viajan(a, b) == al_cpu = a /\ al_kernel = b

\* What the cpu runs is the last dispatch.
Actual == Interrupcion(despachado, times_in_cpu[despachado])

\* No thread is in the cpu.
Reposo == Turno(1, 0, Esperando) /\ En("wait", 1, {"inactivo"}) /\ Viajan(<<>>, <<>>)

\* One is on its way to it.
EnVuelo == /\ Turno(0, 1, Esperando) /\ En("wait", 1, {"inactivo"})
           /\ Viajan(<<Despacho(despachado, times_in_cpu[despachado])>>, <<>>)

\* The cpu asks for its context, and then runs it.
Contexto == Turno(0, 1, Esperando) /\ En("contexto", 0, {"inactivo"}) /\ Viajan(<<>>, <<>>)
Corriendo ==
    /\ Turno(0, 1, Esperando) /\ En("wait", 0, {"fetch", "memoria", "check", "interrupt"})
    /\ Viajan(<<>>, <<>>)
    /\ pc \in {"check", "interrupt"} => ~kernel_replanifica

\* The cpu has told the kernel something and waits for its answer.
Pide(op) ==
    /\ Turno(0, 1, Esperando) /\ En("wait", 0, {IF op = "SYSCALL" THEN "syscall" ELSE "recv"})
    /\ op # "SYSCALL" => kernel_replanifica
    /\ op = "NOT_IN_MEMORY" => ~thread_in_memory
    /\ Viajan(<<>>, <<Paquete(op)>>)
Pedidos  == {"SYSCALL", "SEGMENTATION_FAULT", "NOT_IN_MEMORY"}
Pregunta == \E op \in Pedidos : Pide(op)

\* The kernel lets the thread go on.
Continua == /\ Turno(0, 1, Esperando) /\ En("wait", 0, {"syscall"})
            /\ Viajan(<<Bool(FALSE)>>, <<>>)

\* The kernel takes the cpu from it and waits, until the cpu has let go of it.
Contestado ==
    /\ Turno(0, 0, Acks) /\ En("wait", 0, {"recv", "syscall"})
    /\ \/ pc = "syscall" /\ Viajan(<<Bool(TRUE)>>, <<>>)
       \/ pc = "recv" /\ kernel_replanifica /\ Viajan(<<Bool(FALSE)>>, <<>>)
Dejando == /\ Turno(0, 0, Acks) /\ En("wait", 0, {"check", "discard"})
           /\ kernel_replanifica /\ Viajan(<<>>, <<>>)
Dejado  == Turno(0, 0, Acks) /\ En("wait", 1, {"inactivo"}) /\ Viajan(<<>>, <<Bool(TRUE)>>)

\* The quantum of the thread was over.
Interrumpido == /\ Turno(0, 1, Esperando) /\ En("wait", 1, {"inactivo"})
                /\ Viajan(<<>>, <<Paquete("INTERRUPTION")>>)

EnCurso  == despachado \in Hilos /\ current_thread = Actual
Conexion ==
    \/ Reposo
    \/ despachado \in Hilos /\ EnVuelo
    \/ EnCurso /\ (\/ Contexto \/ Corriendo \/ Pregunta \/ Continua \/ Contestado
                   \/ Dejando \/ Dejado \/ Interrumpido)

-----------------------------------------------------------------------------
(* The rest of the inductive invariant. *)

\* A thread in EXEC is the last one dispatched, and the handler waits for its return.
EnExec == exec # NoTcb => exec = despachado /\ wait_cpu_response = 1 /\ exec \in Hilos

\* Every thread that may run has a context, every context a process with a place, and the
\* process of a thread that ever ran has entered.
Contextos ==
    /\ \A t \in Hilos : t \in ready \cup bloqueados \cup {exec} => En_memoria(t)
    /\ \A t \in Hilos : En_memoria(t) => lugar[t[1]] # SinLugar /\ t[1] \notin nuevos
    /\ \A p \in nuevos : lugar[p] = SinLugar
    /\ \A t \in Hilos : times_in_cpu[t] > 0 => t[1] \notin nuevos

\* The registers are those of the thread in the cpu unless memoria has forgotten it; base and
\* limit, unless the thread has written them.
Corre == pc # "inactivo"
Registros ==
    /\ despachado \in Hilos => times_in_cpu[despachado] > 0
    /\ Corre /\ ~thread_in_memory => ~En_memoria(current_thread.hilo)
    /\ pc \in {"memoria", "syscall"} => thread_in_memory
    /\ Corre /\ thread_in_memory /\ ~cpu_registers.escritos
             /\ lugar[current_thread.hilo[1]] # SinLugar =>
          lugar[current_thread.hilo[1]] = <<cpu_registers.base, cpu_registers.limite>>

\* The interruption of the dispatch in course is sent after its quantum, and older ones are
\* of older dispatches.
Interrupciones ==
    /\ st = "quantum" => Algorithm = "CMN" /\ despachado \in Hilos
    /\ \A i \in handlers \cup {current_interruption} :
          i \in [hilo : Hilos, veces : Nat \ {0}] =>
             /\ Algorithm = "CMN" /\ i.veces <= times_in_cpu[i.hilo]
             /\ i = Actual => st = "plan"
    /\ Interrumpido \/ pc = "interrupt" =>
          Algorithm = "CMN" /\ st = "plan"

Inv == TypeOK /\ Conexion /\ EnExec /\ Contextos /\ Registros /\ Interrupciones
-----------------------------------------------------------------------------
LEMMA UnMensaje == \A x : /\ Head(<<x>>) = x /\ Tail(<<x>>) = <<>> /\ <<x>> # <<>>
                          /\ Append(<<>>, x) = <<x>>
OBVIOUS

\* What an instruction leaves in the registers.
Contenidos == [cuenta : 0 .. M - 1, base : 0 .. Fallo, limite : 0 .. Fallo, escritos : BOOLEAN]

LEMMA EscribeRegistros ==
  ASSUME NEW r \in Contenidos, NEW q \in point_to_register(r)
  PROVE  /\ q \in Contenidos /\ q.cuenta = r.cuenta
         /\ ~q.escritos => ~r.escritos /\ q.base = r.base /\ q.limite = r.limite
<1>1. Valores \subseteq 0 .. Fallo
  BY CpuAssumption DEF Fallo
<1>2. CASE q = r
  BY <1>2
<1>3. CASE \E v \in Valores : q = [r EXCEPT !.base = v, !.escritos = TRUE]
  BY <1>1, <1>3 DEF Contenidos
<1>4. CASE \E v \in Valores : q = [r EXCEPT !.limite = v, !.escritos = TRUE]
  BY <1>1, <1>4 DEF Contenidos
<1> QED
  BY <1>2, <1>3, <1>4 DEF point_to_register

LEMMA RegistrosQueAvanzan ==
  ASSUME cpu_registers \in Contenidos
  PROVE  /\ Avanza \in Contenidos /\ Avanza.cuenta = (cpu_registers.cuenta + 1) % M
         /\ Avanza.base = cpu_registers.base /\ Avanza.limite = cpu_registers.limite
         /\ Avanza.escritos = cpu_registers.escritos
<1>1. (cpu_registers.cuenta + 1) % M \in 0 .. M - 1
  BY CpuAssumption DEF Contenidos
<1> QED
  BY <1>1 DEF Avanza, Contenidos

\* An instruction: the registers of the context advance, and those of the place of the
\* process stay unless it writes them.
LEMMA PasoDeInstruccion ==
  ASSUME TipoCpu, ExecuteLocal \/ ExecuteMem \/ ExecuteSegmentationFault \/ ExecuteSyscall
  PROVE  /\ cpu_registers' \in Contenidos
         /\ cpu_registers'.cuenta = (cpu_registers.cuenta + 1) % M
         /\ ~cpu_registers'.escritos => /\ ~cpu_registers.escritos
                                        /\ cpu_registers'.base = cpu_registers.base
                                        /\ cpu_registers'.limite = cpu_registers.limite
<1>1. cpu_registers \in Contenidos
  BY DEF TipoCpu, Contenidos
<1>2. cpu_registers' = Avanza \/ cpu_registers' \in point_to_register(Avanza)
  BY DEF ExecuteLocal, ExecuteMem, ExecuteSegmentationFault, ExecuteSyscall
<1> QED
  BY <1>1, <1>2, EscribeRegistros, RegistrosQueAvanzan

LEMMA PasoDeMemoria ==
  ASSUME TipoCpu, AccederMemoria
  PROVE  /\ cpu_registers' \in Contenidos /\ cpu_registers'.cuenta = cpu_registers.cuenta
         /\ ~cpu_registers'.escritos => /\ ~cpu_registers.escritos
                                        /\ cpu_registers'.base = cpu_registers.base
                                        /\ cpu_registers'.limite = cpu_registers.limite
BY EscribeRegistros DEF TipoCpu, Contenidos, AccederMemoria

LEMMA Modulo ==
  ASSUME NEW a \in Nat
  PROVE  /\ a % W \in 0 .. W - 1
         /\ a < W => a % W = a
BY CpuAssumption

-----------------------------------------------------------------------------
(* The phases: each action is possible in one of them and leads to the next. *)

Fases == <<despachado, times_in_cpu, plan_new_thread, wait_cpu_response, rh, hd, pc,
           sem_receive_new_thread, al_cpu, al_kernel, current_thread, kernel_replanifica,
           thread_in_memory>>

LEMMA MismaFase ==
  ASSUME Conexion, UNCHANGED Fases
  PROVE  Conexion'
BY DEF Fases, Conexion, Reposo, EnVuelo, Contexto, Corriendo, Pregunta, Pide, Continua,
       Contestado, Dejando, Dejado, Interrumpido, Turno, En, Viajan, EnCurso, Actual,
       Interrupcion, Despacho, Paquete, Bool

\* What one of the parties sees tells it the phase.
LEMMA QueFase ==
  ASSUME Conexion
  PROVE  /\ hd = "wait" /\ sem_receive_new_thread > 0 /\ al_cpu # <<>> =>
               despachado \in Hilos /\ EnVuelo
         /\ hd = "contexto" => EnCurso /\ Contexto
         /\ pc \in {"fetch", "memoria", "interrupt"} => EnCurso /\ Corriendo
         /\ pc = "check" => EnCurso /\ (Corriendo \/ Dejando)
         /\ pc = "discard" => EnCurso /\ Dejando
         /\ pc \in {"recv", "syscall"} /\ al_cpu # <<>> => EnCurso /\ (Continua \/ Contestado)
         /\ rh = "wait" /\ al_kernel # <<>> => EnCurso /\ (Pregunta \/ Interrumpido)
         /\ rh # "wait" /\ al_kernel # <<>> => EnCurso /\ Dejado
         /\ plan_new_thread > 0 => Reposo
<1> USE DEF Turno, Esperando, Acks, En, Viajan
<1>m. \A x : <<x>> # <<>>
  BY UnMensaje
<1>0. \A n : n = 0 => ~(n > 0)
  OBVIOUS
<1>1. CASE Reposo
  BY <1>1 DEF Reposo
<1>2. CASE despachado \in Hilos /\ EnVuelo
  BY <1>2, <1>m DEF EnVuelo
<1>3. CASE EnCurso /\ (Contexto \/ Corriendo)
  BY <1>3 DEF Contexto, Corriendo
<1>4. CASE EnCurso /\ Pregunta
  BY <1>4 DEF Pregunta, Pide
<1>5. CASE EnCurso /\ (Continua \/ Contestado)
  <2>1. /\ hd = "wait" /\ pc \in {"recv", "syscall"} /\ sem_receive_new_thread = 0
        /\ al_kernel = <<>> /\ plan_new_thread = 0
    BY <1>5 DEF Continua, Contestado
  <2> QED
    BY <1>5, <2>1
<1>6. CASE EnCurso /\ Dejando
  BY <1>0, <1>6 DEF Dejando
<1>7. CASE EnCurso /\ (Dejado \/ Interrumpido)
  BY <1>0, <1>7 DEF Dejado, Interrumpido
<1> QED
  BY <1>1, <1>2, <1>3, <1>4, <1>5, <1>6, <1>7 DEF Conexion

\* The dispatch in course goes on.
LEMMA SigueEnCurso ==
  ASSUME EnCurso, UNCHANGED <<despachado, times_in_cpu, current_thread>>
  PROVE  EnCurso'
BY DEF EnCurso, Actual, Interrupcion

LEMMA CpuFases ==
  ASSUME Inv, Ciclo \/ Dispatch \/ handle_interrupt
  PROVE  Conexion'
<1> USE DEF Turno, Esperando, Acks, En, Viajan
<1> USE DEF vars, kernelVars, colas, semaforos, kernelPc, memoriaVars, canales, cpuVars,
            turnoVars, cicloVars, interrupVars
<1>c. Conexion /\ Registros
  BY DEF Inv
<1>d. thread_in_memory \in BOOLEAN /\ kernel_replanifica \in BOOLEAN
  BY DEF Inv, TypeOK, TipoHilos, TipoKernel, TipoCpu, TipoConexion
<1>1. CASE RecibirHilo
  <2>1. despachado \in Hilos /\ EnVuelo
    BY <1>1, <1>c, QueFase DEF RecibirHilo
  <2>2. Head(al_cpu) = Despacho(despachado, times_in_cpu[despachado]) /\ al_cpu' = <<>>
    BY <2>1, <1>1, UnMensaje DEF EnVuelo, RecibirHilo
  <2>3. (EnCurso /\ Contexto)'
    BY <2>1, <2>2, <1>1
    DEF EnVuelo, RecibirHilo, Contexto, EnCurso, Actual, Interrupcion, Despacho
  <2> QED
    BY <2>3 DEF Conexion
<1>2. CASE ObtenerContexto
  <2>1. EnCurso /\ Contexto
    BY <1>2, <1>c, QueFase DEF ObtenerContexto
  <2>2. EnCurso' /\ Corriendo'
    BY <2>1, <1>2, SigueEnCurso DEF ObtenerContexto, Contexto, Corriendo
  <2> QED
    BY <2>2 DEF Conexion
<1>3. CASE ExecuteLocal \/ ExecuteMem \/ AccederMemoria \/ CheckNada
  <2>0. EnCurso /\ (Corriendo \/ Dejando)
    BY <1>3, <1>c, QueFase DEF ExecuteLocal, ExecuteMem, AccederMemoria, CheckNada, Fetch
  <2>1. Corriendo
    BY <1>3, <2>0 DEF Dejando, ExecuteLocal, ExecuteMem, AccederMemoria, CheckNada, Fetch
  <2>2. Corriendo'
    BY <2>1, <1>3 DEF ExecuteLocal, ExecuteMem, AccederMemoria, CheckNada, Fetch, Corriendo
  <2>3. EnCurso'
    BY <2>0, <1>3, SigueEnCurso DEF ExecuteLocal, ExecuteMem, AccederMemoria, CheckNada
  <2> QED
    BY <2>2, <2>3 DEF Conexion
<1>4. CASE FetchNotInMemory \/ ExecuteSegmentationFault \/ ExecuteSyscall
  <2>1. EnCurso /\ Corriendo
    BY <1>4, <1>c, QueFase DEF FetchNotInMemory, ExecuteSegmentationFault, ExecuteSyscall, Fetch
  <2>2. EnCurso'
    BY <2>1, <1>4, SigueEnCurso DEF FetchNotInMemory, ExecuteSegmentationFault, ExecuteSyscall
  <2>3. \E op \in Pedidos : Pide(op)'
    <3>1. \A x : Append(al_kernel, x) = <<x>>
      BY <2>1, UnMensaje DEF Corriendo
    <3>2. FetchNotInMemory => Pide("NOT_IN_MEMORY")'
      BY <2>1, <3>1 DEF FetchNotInMemory, Corriendo, Pide, Paquete
    <3>3. ExecuteSegmentationFault => Pide("SEGMENTATION_FAULT")'
      BY <2>1, <3>1 DEF ExecuteSegmentationFault, Fetch, Corriendo, Pide, Paquete
    <3>4. ExecuteSyscall => Pide("SYSCALL")'
      BY <2>1, <3>1 DEF ExecuteSyscall, Fetch, Corriendo, Pide, Paquete
    <3> QED
      BY <1>4, <3>2, <3>3, <3>4 DEF Pedidos
  <2> QED
    BY <2>2, <2>3 DEF Conexion, Pregunta
<1>5. CASE RecibirRespuesta
  <2>1. EnCurso /\ (Continua \/ Contestado)
    BY <1>5, <1>c, QueFase DEF RecibirRespuesta
  <2>2. EnCurso'
    BY <2>1, <1>5, SigueEnCurso DEF RecibirRespuesta
  <2>3. ASSUME Continua PROVE Corriendo'
    <3>1. Head(al_cpu) = Bool(FALSE) /\ al_cpu' = <<>>
      BY <2>3, <1>5, UnMensaje DEF Continua, RecibirRespuesta
    <3> QED
      BY <2>3, <3>1, <1>5 DEF RecibirRespuesta, Continua, Corriendo, Bool
  <2>4. ASSUME Contestado PROVE Dejando'
    <3>1. al_cpu' = <<>>
      BY <2>4, <1>5, UnMensaje DEF Contestado, RecibirRespuesta
    <3>2. pc = "syscall" => Head(al_cpu).valor = TRUE
      BY <2>4, UnMensaje DEF Contestado, Bool
    <3>3. kernel_replanifica' = TRUE
      BY <2>4, <3>2, <1>5, <1>d DEF Contestado, RecibirRespuesta
    <3> QED
      BY <2>4, <3>1, <3>3, <1>5 DEF RecibirRespuesta, Contestado, Dejando
  <2> QED
    BY <2>1, <2>2, <2>3, <2>4 DEF Conexion
<1>6. CASE CheckActualizar
  <2>1. EnCurso /\ (Corriendo \/ Dejando)
    BY <1>6, <1>c, QueFase DEF CheckActualizar
  <2>2. EnCurso'
    BY <2>1, <1>6, SigueEnCurso DEF CheckActualizar
  <2>3. Corriendo' \/ Dejando'
    BY <2>1, <1>6, <1>d DEF CheckActualizar, Corriendo, Dejando
  <2> QED
    BY <2>2, <2>3 DEF Conexion
<1>7. CASE CheckAvisar
  <2>1. EnCurso /\ Dejando
    BY <1>7, <1>c, QueFase DEF CheckAvisar
  <2>2. EnCurso'
    BY <2>1, <1>7, SigueEnCurso DEF CheckAvisar
  <2>3. sem_receive_new_thread' = 1
    BY <2>1, <1>7 DEF CheckAvisar, Inactivo, Dejando
  <2>4. al_kernel' = <<Bool(TRUE)>>
    BY <2>1, <1>7, UnMensaje DEF CheckAvisar, Dejando
  <2>5. Dejado'
    BY <2>1, <2>3, <2>4, <1>7 DEF CheckAvisar, Inactivo, Dejando, Dejado, Bool
  <2> QED
    BY <2>2, <2>5 DEF Conexion
<1>8. CASE CheckInterrumpir
  <2>1. EnCurso /\ Corriendo
    BY <1>8, <1>c, QueFase DEF CheckInterrumpir
  <2>2. EnCurso'
    BY <2>1, <1>8, SigueEnCurso DEF CheckInterrumpir
  <2>3. Interrumpido'
    BY <2>1, <1>8, UnMensaje DEF CheckInterrumpir, Inactivo, Corriendo, Interrumpido, Paquete
  <2> QED
    BY <2>2, <2>3 DEF Conexion
<1>9. CASE handle_interrupt
  BY <1>9, <1>c, MismaFase DEF handle_interrupt, Fases
<1> QED
  BY <1>1, <1>2, <1>3, <1>4, <1>5, <1>6, <1>7, <1>8, <1>9 DEF Ciclo, Dispatch

\* The kernel finds what the cpu asked, at the head of the connection.
LEMMA SePide ==
  ASSUME Conexion, NEW op \in Pedidos, Atiende(op)
  PROVE  EnCurso /\ Pide(op) /\ al_kernel' = <<>>
<1>1. al_kernel # <<>> /\ Head(al_kernel).tipo = op /\ al_kernel' = Tail(al_kernel)
      /\ rh = "wait"
  BY DEF Atiende
<1>2. EnCurso /\ (Pregunta \/ Interrumpido)
  BY <1>1, QueFase
<1>3. \A x \in Pedidos \cup {"INTERRUPTION"} : al_kernel = <<Paquete(x)>> => x = op
  BY <1>1, UnMensaje DEF Paquete
<1>4. Pide(op)
  BY <1>2, <1>3 DEF Pregunta, Pide, Interrumpido, Viajan, Pedidos
<1> QED
  BY <1>1, <1>2, <1>4, UnMensaje DEF Pide, Viajan

LEMMA KernelFases ==
  ASSUME Inv, Handler \/ Planner \/ Entorno
  PROVE  Conexion'
<1> USE DEF Turno, Esperando, Acks, En, Viajan
<1> USE DEF vars, kernelVars, colas, semaforos, kernelPc, memoriaVars, canales, cpuVars,
            turnoVars, cicloVars, interrupVars
<1>c. Conexion
  BY DEF Inv
<1>d. /\ ready \subseteq Hilos /\ times_in_cpu \in [Hilos -> Nat]
      /\ rh \in {"wait", "ack", "ack_default"}
  BY DEF Inv, TypeOK, TipoHilos, TipoKernel, TipoCpu, TipoConexion
<1>1. ASSUME NEW op \in Pedidos, Atiende(op) PROVE EnCurso'
  BY <1>1, <1>c, SePide, SigueEnCurso DEF Atiende
<1>2. ASSUME NEW b, EnCurso PROVE al_cpu = <<>> => Append(al_cpu, Bool(b)) = <<Bool(b)>>
  BY UnMensaje
<1>3. ASSUME Atiende("SYSCALL"), Sigue PROVE Conexion'
  <2>1. EnCurso /\ Pide("SYSCALL") /\ al_kernel' = <<>> /\ EnCurso'
    BY <1>c, <1>1, <1>3, SePide DEF Pedidos
  <2>2. al_cpu' = <<Bool(FALSE)>>
    BY <1>2, <1>3, <2>1 DEF Sigue, Pide
  <2>3. Continua'
    BY <2>1, <2>2, <1>3 DEF Atiende, Sigue, Pide, Continua, Bool
  <2> QED
    BY <2>1, <2>3 DEF Conexion
<1>4. ASSUME Atiende("SYSCALL"), Desaloja(TRUE) PROVE Conexion'
  <2>1. EnCurso /\ Pide("SYSCALL") /\ al_kernel' = <<>> /\ EnCurso'
    BY <1>c, <1>1, <1>4, SePide DEF Pedidos
  <2>2. al_cpu' = <<Bool(TRUE)>>
    BY <1>2, <1>4, <2>1 DEF Desaloja, Pide
  <2>3. Contestado'
    BY <2>1, <2>2, <1>4 DEF Atiende, Desaloja, Pide, Contestado, Bool
  <2> QED
    BY <2>1, <2>3 DEF Conexion
<1>5. ASSUME Atiende("SEGMENTATION_FAULT"), Desaloja(FALSE) PROVE Conexion'
  <2>1. EnCurso /\ Pide("SEGMENTATION_FAULT") /\ al_kernel' = <<>> /\ EnCurso'
    BY <1>c, <1>1, <1>5, SePide DEF Pedidos
  <2>2. al_cpu' = <<Bool(FALSE)>>
    BY <1>2, <1>5, <2>1 DEF Desaloja, Pide
  <2>3. Contestado'
    BY <2>1, <2>2, <1>5 DEF Atiende, Desaloja, Pide, Contestado, Bool
  <2> QED
    BY <2>1, <2>3 DEF Conexion
<1>6. CASE AtenderNotInMemory
  <2>1. EnCurso /\ Pide("NOT_IN_MEMORY") /\ al_kernel' = <<>> /\ EnCurso'
    BY <1>c, <1>1, <1>6, SePide DEF Pedidos, AtenderNotInMemory
  <2>2. al_cpu' = <<Bool(FALSE)>>
    BY <1>2, <1>6, <2>1 DEF AtenderNotInMemory, Pide
  <2>3. rh' = "ack_default" /\ wait_cpu_response' = wait_cpu_response - 1
        /\ UNCHANGED plan_new_thread
    BY <1>6 DEF AtenderNotInMemory
  <2>4. Contestado'
    BY <2>1, <2>2, <2>3, <1>6 DEF Atiende, AtenderNotInMemory, Pide, Contestado, Bool
  <2> QED
    BY <2>1, <2>4 DEF Conexion
<1>7. CASE AtenderInterrupcion
  <2>1. al_kernel # <<>> /\ Head(al_kernel).tipo = "INTERRUPTION" /\ al_kernel' = Tail(al_kernel)
        /\ rh = "wait"
    BY <1>7 DEF AtenderInterrupcion, Atiende
  <2>2. EnCurso /\ (Pregunta \/ Interrumpido)
    BY <2>1, <1>c, QueFase
  <2>3. \A op \in Pedidos : al_kernel # <<Paquete(op)>>
    BY <2>1, UnMensaje DEF Paquete, Pedidos
  <2>4. Interrumpido
    BY <2>2, <2>3 DEF Pregunta, Pide
  <2>5. al_kernel' = <<>>
    BY <2>1, <2>4, UnMensaje DEF Interrumpido
  <2>6. Reposo'
    BY <2>4, <2>5, <1>7 DEF AtenderInterrupcion, Atiende, Interrumpido, Reposo
  <2> QED
    BY <2>6 DEF Conexion
<1>8. CASE RecibirAck
  <2>1. EnCurso /\ Dejado
    BY <1>8, <1>c, QueFase DEF RecibirAck
  <2>2. al_kernel' = <<>>
    BY <2>1, <1>8, UnMensaje DEF RecibirAck, Dejado
  <2>3. plan_new_thread' = plan_new_thread + 1 /\ rh' = "wait" /\ UNCHANGED wait_cpu_response
    BY <1>8 DEF RecibirAck
  <2>4. Turno(1, 0, Esperando)'
    BY <2>1, <2>3 DEF Dejado
  <2>5. Reposo'
    BY <2>1, <2>2, <2>4, <1>8 DEF RecibirAck, Dejado, Reposo
  <2> QED
    BY <2>5 DEF Conexion
<1>9. CASE Despachar
  <2>1. Reposo
    BY <1>9, <1>c, QueFase DEF Despachar
  <2>2. PICK t \in ready : /\ times_in_cpu' = [times_in_cpu EXCEPT ![t] = @ + 1]
                           /\ despachado' = t
                           /\ al_cpu' = Append(al_cpu, Despacho(t, times_in_cpu'[t]))
    BY <1>9 DEF Despachar
  <2>3. al_cpu' = <<Despacho(t, times_in_cpu'[t])>>
    BY <2>1, <2>2, UnMensaje DEF Reposo
  <2>a. /\ plan_new_thread' = plan_new_thread - 1 /\ wait_cpu_response' = wait_cpu_response + 1
        /\ UNCHANGED rh
    BY <1>9 DEF Despachar
  <2>4. Turno(0, 1, Esperando)'
    BY <2>1, <2>a DEF Reposo
  <2>5. EnVuelo'
    BY <2>1, <2>2, <2>3, <2>4, <1>9 DEF Despachar, Reposo, EnVuelo, Despacho
  <2> QED
    BY <2>2, <2>5, <1>d DEF Conexion
<1>10. CASE FinQuantum \/ Entorno
  BY <1>10, <1>c, MismaFase
  DEF FinQuantum, Entorno, AdmitirProceso, Desbloquear, TerminarDump, FallarDump, otrasVars, Fases
<1>11. CASE Handler
  BY <1>11, <1>3, <1>4, <1>5, <1>6, <1>7, <1>8
  DEF Handler, AtenderSigue, AtenderThreadCreate, AtenderThreadCancel, AtenderBloquea,
      AtenderDumpMemory, AtenderExit, AtenderSinExec, AtenderSegmentationFault
<1> QED
  BY <1>9, <1>10, <1>11 DEF Planner

-----------------------------------------------------------------------------
(* The threads, their contexts and their processes. *)

LEMMA Constantes ==
  /\ NoTcb \notin Hilos /\ SinContexto \notin 0 .. M - 1 /\ 0 \in 0 .. M - 1
  /\ \A t \in Hilos : t[1] \in Pids /\ t = <<t[1], t[2]>>
  /\ \A p \in Pids : <<p, 0>> \in Hilos
  /\ SinLugar \notin Lugares \cup {Vacio}
BY CpuAssumption DEF NoTcb, SinContexto, Pids, SinLugar, Vacio, Fallo

\* Nothing of them changes, but for the registers a context holds.
LEMMA MismosHilos ==
  ASSUME TipoHilos, Contextos,
         UNCHANGED <<ready, bloqueados, exec, nuevos, lugar, times_in_cpu>>,
         en_dump' \subseteq Hilos,
         contexto' \in [Hilos -> {SinContexto} \cup 0 .. M - 1],
         \A t \in Hilos : En_memoria(t)' = En_memoria(t)
  PROVE  TipoHilos' /\ Contextos'
BY DEF TipoHilos, Contextos

\* Some threads change place, among those memoria has.
LEMMA OtraCola ==
  ASSUME TipoHilos, Contextos, UNCHANGED <<contexto, lugar, nuevos, times_in_cpu>>,
         ready' \subseteq Hilos, bloqueados' \subseteq Hilos, en_dump' \subseteq Hilos,
         exec' \in Hilos \cup {NoTcb},
         \A t \in Hilos : t \in ready' \cup bloqueados' \cup {exec'} =>
                          t \in ready \cup bloqueados \cup {exec} \/ En_memoria(t)
  PROVE  TipoHilos' /\ Contextos'
BY DEF TipoHilos, Contextos, En_memoria

LEMMA FinProceso ==
  ASSUME TipoHilos, Contextos, NEW p \in Pids, finish_process(p), UNCHANGED times_in_cpu,
         en_dump' \subseteq Hilos
  PROVE  TipoHilos' /\ Contextos'
<1> USE DEF finish_process, Quitar, SinContextos, Proceso, TipoHilos
<1>1. TipoHilos'
  OBVIOUS
<1>2. \A t \in Hilos : contexto'[t] = IF t[1] = p THEN SinContexto ELSE contexto[t]
  OBVIOUS
<1>3. \A q \in Pids : lugar'[q] = IF q = p THEN SinLugar ELSE lugar[q]
  OBVIOUS
<1>4. \A t \in Hilos : t \in ready' \cup bloqueados' \cup {exec'} =>
         t \in ready \cup bloqueados \cup {exec} /\ t[1] # p
  BY Constantes
<1>5. nuevos' = nuevos
  OBVIOUS
<1> QED
  BY <1>1, <1>2, <1>3, <1>4, <1>5, Constantes DEF Contextos, En_memoria

LEMMA FinHilo ==
  ASSUME TipoHilos, Contextos, NEW t \in Hilos, EndThread(t), UNCHANGED <<times_in_cpu, en_dump>>
  PROVE  TipoHilos' /\ Contextos'
<1> USE DEF EndThread, Quitar, SinContextos, TipoHilos
<1>1. TipoHilos'
  OBVIOUS
<1>2. \A u \in Hilos : contexto'[u] = IF u = t THEN SinContexto ELSE contexto[u]
  OBVIOUS
<1>3. \A u \in Hilos : u \in ready' \cup bloqueados' \cup {exec'} =>
         u \in ready \cup bloqueados \cup {exec} /\ u # t
  BY Constantes
<1>4. nuevos' = nuevos /\ lugar' = lugar
  OBVIOUS
<1> QED
  BY <1>1, <1>2, <1>3, <1>4 DEF Contextos, En_memoria

LEMMA PasoHilos ==
  ASSUME Inv, Next
  PROVE  TipoHilos' /\ Contextos'
<1> USE DEF vars, kernelVars, colas, semaforos, kernelPc, memoriaVars, canales, cpuVars,
            turnoVars, cicloVars, interrupVars
<1>c. TipoHilos /\ Contextos
  BY DEF Inv, TypeOK
<1>d. EnExec /\ TipoKernel /\ TipoCpu /\ Conexion
  BY DEF Inv, TypeOK
<1>e. exec # NoTcb => exec \in Hilos
  BY <1>c DEF TipoHilos
<1>1. CASE CheckActualizar
  <2>1. contexto' = IF En_memoria(current_thread.hilo)
                    THEN [contexto EXCEPT ![current_thread.hilo] = cpu_registers.cuenta]
                    ELSE contexto
    BY <1>1 DEF CheckActualizar
  <2>2. cpu_registers.cuenta \in 0 .. M - 1
    BY <1>d DEF TipoCpu
  <2>3. contexto' \in [Hilos -> {SinContexto} \cup 0 .. M - 1]
    BY <2>1, <2>2, <1>c DEF TipoHilos
  <2>4. \A t \in Hilos : En_memoria(t)' = En_memoria(t)
    BY <2>1, <2>2, <1>c, Constantes DEF TipoHilos, En_memoria
  <2> QED
    BY <1>1, <1>c, <2>3, <2>4, MismosHilos DEF CheckActualizar, TipoHilos
<1>2. CASE UNCHANGED <<colas, memoriaVars, times_in_cpu>>
  BY <1>2, <1>c, MismosHilos DEF TipoHilos, En_memoria
<1>3. CASE AdmitirProceso
  <2>1. PICK p \in nuevos, l \in Lugares \cup {Vacio} :
           /\ nuevos' = nuevos \ {p}
           /\ lugar' = [lugar EXCEPT ![p] = l]
           /\ contexto' = [contexto EXCEPT ![<<p, 0>>] = 0]
           /\ ready' = ready \cup {<<p, 0>>}
    BY <1>3 DEF AdmitirProceso
  <2>2. UNCHANGED <<bloqueados, en_dump, exec, times_in_cpu>>
    BY <1>3 DEF AdmitirProceso
  <2>3. p \in Pids /\ <<p, 0>> \in Hilos /\ <<p, 0>>[1] = p /\ l # SinLugar
    BY <1>c, Constantes DEF TipoHilos
  <2>4. TipoHilos'
    BY <2>1, <2>2, <2>3, <1>c, Constantes DEF TipoHilos
  <2>5. \A t \in Hilos : contexto'[t] = IF t = <<p, 0>> THEN 0 ELSE contexto[t]
    BY <2>1, <1>c DEF TipoHilos
  <2>6. \A q \in Pids : lugar'[q] = IF q = p THEN l ELSE lugar[q]
    BY <2>1, <1>c DEF TipoHilos
  <2>7. \A t \in Hilos : En_memoria(t)' <=> En_memoria(t) \/ t = <<p, 0>>
    BY <2>5 DEF En_memoria, SinContexto
  <2>8. \A t \in Hilos : t \in ready' \cup bloqueados' \cup {exec'} => En_memoria(t)'
    BY <2>1, <2>2, <2>7, <1>c DEF Contextos
  <2>9. \A t \in Hilos : En_memoria(t)' => lugar'[t[1]] # SinLugar /\ t[1] \notin nuevos'
    BY <2>1, <2>3, <2>6, <2>7, <1>c, Constantes DEF Contextos
  <2>10. \A q \in nuevos' : lugar'[q] = SinLugar
    BY <2>1, <2>6, <1>c DEF Contextos, TipoHilos
  <2>11. \A t \in Hilos : times_in_cpu'[t] > 0 => t[1] \notin nuevos'
    BY <2>1, <2>2, <1>c DEF Contextos
  <2> QED
    BY <2>4, <2>8, <2>9, <2>10, <2>11 DEF Contextos
<1>4. CASE Despachar
  <2>1. PICK t \in ready : /\ times_in_cpu' = [times_in_cpu EXCEPT ![t] = @ + 1]
                           /\ ready' = ready \ {t} /\ exec' = t
    BY <1>4 DEF Despachar
  <2>2. UNCHANGED <<bloqueados, en_dump, nuevos, contexto, lugar>>
    BY <1>4 DEF Despachar
  <2>3. t \in Hilos /\ En_memoria(t)
    BY <1>c DEF TipoHilos, Contextos
  <2>4. TipoHilos'
    BY <2>1, <2>2, <2>3, <1>c DEF TipoHilos
  <2>5. \A u \in Hilos : times_in_cpu'[u] = IF u = t THEN times_in_cpu[t] + 1 ELSE times_in_cpu[u]
    BY <2>1, <1>d DEF TipoKernel
  <2> QED
    BY <2>1, <2>2, <2>3, <2>4, <2>5, <1>c DEF Contextos, En_memoria
<1>5. CASE AtenderThreadCreate
  <2>1. PICK t \in Proceso(exec[1]) : contexto' = [contexto EXCEPT ![t] = 0]
                                      /\ ready' = ready \cup {t}
    BY <1>5 DEF AtenderThreadCreate
  <2>2. UNCHANGED <<bloqueados, en_dump, exec, nuevos, lugar, times_in_cpu>>
    BY <1>5 DEF AtenderThreadCreate, Atiende
  <2>3. exec \in Hilos /\ En_memoria(exec)
    BY <1>5, <1>c, <1>e DEF AtenderThreadCreate, Contextos
  <2>4. t \in Hilos /\ t[1] = exec[1]
    BY DEF Proceso
  <2>5. TipoHilos'
    BY <2>1, <2>2, <2>4, <1>c, Constantes DEF TipoHilos
  <2>6. \A u \in Hilos : En_memoria(u)' <=> En_memoria(u) \/ u = t
    BY <2>1, <1>c, <2>4 DEF En_memoria, SinContexto, TipoHilos
  <2> QED
    BY <2>1, <2>2, <2>3, <2>4, <2>5, <2>6, <1>c DEF Contextos
<1>6. CASE AtenderThreadCancel
  <2>1. PICK t \in Proceso(exec[1]) : EndThread(t)
    BY <1>6 DEF AtenderThreadCancel
  <2> QED
    BY <2>1, <1>6, <1>c, FinHilo DEF AtenderThreadCancel, Atiende, Proceso
<1>7. CASE AtenderBloquea \/ AtenderDumpMemory
  BY <1>7, <1>c, <1>e, OtraCola, Constantes
  DEF AtenderBloquea, AtenderDumpMemory, Atiende, TipoHilos
<1>8. CASE AtenderExit
  <2>1. CASE EndThread(exec)
    BY <2>1, <1>8, <1>c, <1>e, FinHilo DEF AtenderExit, Atiende
  <2>2. CASE finish_process(exec[1])
    BY <2>2, <1>8, <1>c, <1>e, FinProceso, Constantes DEF AtenderExit, Atiende, TipoHilos
  <2> QED
    BY <2>1, <2>2, <1>8 DEF AtenderExit
<1>9. CASE AtenderSegmentationFault
  <2>1. CASE exec # NoTcb
    BY <2>1, <1>9, <1>c, <1>e, FinProceso, Constantes
    DEF AtenderSegmentationFault, Atiende, TipoHilos
  <2>2. CASE exec = NoTcb
    BY <2>2, <1>9, <1>2 DEF AtenderSegmentationFault, Atiende
  <2> QED
    BY <2>1, <2>2
<1>10. CASE AtenderInterrupcion
  BY <1>10, <1>c, <1>e, OtraCola, Constantes DEF AtenderInterrupcion, Atiende, TipoHilos
<1>11. CASE Desbloquear \/ TerminarDump
  BY <1>11, <1>c, OtraCola DEF Desbloquear, TerminarDump, otrasVars, TipoHilos
<1>12. CASE FallarDump
  <2>1. PICK t \in en_dump :
           /\ en_dump' = en_dump \ {t}
           /\ IF lugar[t[1]] = SinLugar
              THEN UNCHANGED <<ready, bloqueados, exec, nuevos, memoriaVars>>
              ELSE finish_process(t[1])
    BY <1>12 DEF FallarDump
  <2>2. CASE lugar[t[1]] = SinLugar
    BY <2>1, <2>2, <1>12, <1>c, OtraCola DEF FallarDump, otrasVars, TipoHilos
  <2>3. CASE lugar[t[1]] # SinLugar
    BY <2>1, <2>3, <1>12, <1>c, FinProceso, Constantes DEF FallarDump, otrasVars, TipoHilos
  <2> QED
    BY <2>2, <2>3
<1>13. CASE AtenderSigue \/ AtenderSinExec \/ AtenderNotInMemory \/ RecibirAck \/ FinQuantum
  BY <1>13, <1>2
  DEF AtenderSigue, AtenderSinExec, AtenderNotInMemory, RecibirAck, FinQuantum, Atiende
<1>14. CASE FetchNotInMemory \/ ExecuteLocal \/ ExecuteMem \/ AccederMemoria
            \/ ExecuteSegmentationFault \/ ExecuteSyscall \/ RecibirRespuesta \/ CheckNada
            \/ CheckAvisar \/ CheckInterrumpir \/ Dispatch \/ handle_interrupt
  BY <1>14, <1>2
  DEF FetchNotInMemory, ExecuteLocal, ExecuteMem, AccederMemoria, ExecuteSegmentationFault,
      ExecuteSyscall, RecibirRespuesta, CheckNada, CheckAvisar, CheckInterrumpir, Dispatch,
      RecibirHilo, ObtenerContexto, handle_interrupt
<1> QED
  BY <1>1, <1>3, <1>4, <1>5, <1>6, <1>7, <1>8, <1>9, <1>10, <1>11, <1>12, <1>13, <1>14
  DEF Next, Ciclo, Handler, Planner, Entorno

\* A thread in the cpu is the one dispatched last.
LEMMA CorreEnCurso ==
  ASSUME Conexion, Corre
  PROVE  EnCurso
BY DEF Conexion, Reposo, EnVuelo, Corre, En

\* What the kernel does takes a thread that ever ran from memoria, or leaves it there: no
\* thread comes back, and no process comes to lie elsewhere.
LEMMA NadieVuelve ==
  ASSUME Inv, Handler \/ Planner \/ Entorno, NEW t \in Hilos, times_in_cpu[t] > 0
  PROVE  /\ En_memoria(t)' => En_memoria(t)
         /\ lugar'[t[1]] \in {lugar[t[1]], SinLugar}
         /\ times_in_cpu'[t] >= times_in_cpu[t]
<1> USE DEF vars, kernelVars, colas, semaforos, kernelPc, memoriaVars, canales, cpuVars,
            turnoVars, cicloVars, interrupVars, En_memoria
<1>c. TipoHilos /\ TipoKernel /\ Contextos
  BY DEF Inv, TypeOK
<1>p. t[1] \in Pids
  BY Constantes
<1>t. times_in_cpu[t] \in Nat
  BY <1>c DEF TipoKernel
<1>1. ASSUME UNCHANGED memoriaVars PROVE /\ En_memoria(t)' => En_memoria(t)
                                         /\ lugar'[t[1]] \in {lugar[t[1]], SinLugar}
  BY <1>1
<1>2. ASSUME NEW p, finish_process(p) PROVE /\ En_memoria(t)' => En_memoria(t)
                                            /\ lugar'[t[1]] \in {lugar[t[1]], SinLugar}
  BY <1>2, <1>c, <1>p DEF finish_process, SinContextos, TipoHilos
<1>3. ASSUME NEW u, EndThread(u) PROVE /\ En_memoria(t)' => En_memoria(t)
                                       /\ lugar'[t[1]] \in {lugar[t[1]], SinLugar}
  BY <1>3, <1>c, <1>p DEF EndThread, SinContextos, TipoHilos
<1>4. CASE Handler
  <2>1. UNCHANGED times_in_cpu
    BY <1>4 DEF Handler, AtenderSigue, AtenderThreadCreate, AtenderThreadCancel, AtenderBloquea,
                AtenderDumpMemory, AtenderExit, AtenderSinExec, AtenderSegmentationFault,
                AtenderNotInMemory, AtenderInterrupcion, RecibirAck, Atiende
  <2>2. CASE AtenderThreadCreate
    <3>1. PICK u \in Hilos : times_in_cpu[u] = 0 /\ contexto' = [contexto EXCEPT ![u] = 0]
      BY <2>2 DEF AtenderThreadCreate, Proceso
    <3>2. u # t
      BY <3>1
    <3> QED
      BY <2>1, <2>2, <3>1, <3>2, <1>c, <1>t DEF AtenderThreadCreate, TipoHilos
  <2>3. CASE AtenderThreadCancel
    BY <2>1, <2>3, <1>3, <1>t DEF AtenderThreadCancel
  <2>4. CASE AtenderExit
    BY <2>1, <2>4, <1>2, <1>3, <1>t DEF AtenderExit
  <2>5. CASE AtenderSegmentationFault
    BY <2>1, <2>5, <1>1, <1>2, <1>t DEF AtenderSegmentationFault
  <2>6. CASE AtenderSigue \/ AtenderBloquea \/ AtenderDumpMemory \/ AtenderSinExec
             \/ AtenderNotInMemory \/ AtenderInterrupcion \/ RecibirAck
    <3>1. UNCHANGED memoriaVars
      BY <2>6 DEF AtenderSigue, AtenderBloquea, AtenderDumpMemory, AtenderSinExec,
                  AtenderNotInMemory, AtenderInterrupcion, RecibirAck
    <3> QED
      BY <2>1, <3>1, <1>1, <1>t
  <2> QED
    BY <1>4, <2>2, <2>3, <2>4, <2>5, <2>6 DEF Handler
<1>5. CASE Planner
  <2>1. UNCHANGED memoriaVars
    BY <1>5 DEF Planner, Despachar, FinQuantum
  <2>2. UNCHANGED times_in_cpu \/ \E u \in ready : times_in_cpu' = [times_in_cpu EXCEPT ![u] = @ + 1]
    BY <1>5 DEF Planner, Despachar, FinQuantum
  <2>3. times_in_cpu'[t] \in {times_in_cpu[t], times_in_cpu[t] + 1}
    BY <2>2, <1>c DEF TipoKernel, TipoHilos
  <2> QED
    BY <2>1, <2>3, <1>1, <1>t
<1>6. CASE AdmitirProceso
  <2>1. PICK p \in nuevos, l \in Lugares \cup {Vacio} :
           lugar' = [lugar EXCEPT ![p] = l] /\ contexto' = [contexto EXCEPT ![<<p, 0>>] = 0]
    BY <1>6 DEF AdmitirProceso
  <2>2. t[1] # p /\ t # <<p, 0>>
    BY <1>c DEF Contextos
  <2>3. UNCHANGED times_in_cpu
    BY <1>6 DEF AdmitirProceso
  <2> QED
    BY <2>1, <2>2, <2>3, <1>c, <1>p, <1>t DEF TipoHilos
<1>7. CASE FallarDump
  BY <1>7, <1>1, <1>2, <1>t DEF FallarDump, otrasVars
<1>8. CASE Desbloquear \/ TerminarDump
  BY <1>8, <1>1, <1>t DEF Desbloquear, TerminarDump, otrasVars
<1> QED
  BY <1>4, <1>5, <1>6, <1>7, <1>8 DEF Entorno

LEMMA PasoEnExec ==
  ASSUME Inv, Next
  PROVE  EnExec'
<1> USE DEF vars, kernelVars, colas, semaforos, kernelPc, memoriaVars, canales, cpuVars,
            turnoVars, cicloVars, interrupVars
<1>c. EnExec /\ TipoHilos /\ Conexion /\ Registros /\ Contextos
  BY DEF Inv, TypeOK
<1>1. ASSUME exec' \in {exec, NoTcb}, UNCHANGED <<despachado, wait_cpu_response>> PROVE EnExec'
  BY <1>1, <1>c DEF EnExec
<1>2. ASSUME exec' = NoTcb PROVE EnExec'
  BY <1>2 DEF EnExec
<1>3. CASE Despachar
  <2>1. Reposo
    BY <1>3, <1>c, QueFase DEF Despachar
  <2>2. wait_cpu_response' = wait_cpu_response + 1 /\ exec' = despachado' /\ exec' \in ready
    BY <1>3 DEF Despachar
  <2>3. wait_cpu_response' = 1
    BY <2>1, <2>2 DEF Reposo, Turno
  <2> QED
    BY <2>2, <2>3, <1>c DEF EnExec, TipoHilos
<1>4. CASE AtenderNotInMemory
  <2>1. EnCurso /\ Pide("NOT_IN_MEMORY")
    BY <1>4, <1>c, SePide DEF AtenderNotInMemory, Pedidos
  <2>2. ~En_memoria(despachado)
    BY <2>1, <1>c DEF Pide, Registros, Corre, En, EnCurso, Actual, Interrupcion
  <2>3. exec = NoTcb
    BY <2>2, <1>c DEF EnExec, Contextos
  <2> QED
    BY <2>3, <1>4, <1>2 DEF AtenderNotInMemory
<1>5. CASE Ciclo \/ Dispatch \/ handle_interrupt
  BY <1>5, <1>1 DEF Ciclo, Dispatch, FetchNotInMemory, ExecuteLocal, ExecuteMem, AccederMemoria,
     ExecuteSegmentationFault, ExecuteSyscall, RecibirRespuesta, CheckNada, CheckActualizar,
     CheckAvisar, CheckInterrumpir, RecibirHilo, ObtenerContexto, handle_interrupt
<1>6. CASE AtenderSigue \/ AtenderThreadCreate \/ AtenderThreadCancel
  BY <1>6, <1>1 DEF AtenderSigue, AtenderThreadCreate, AtenderThreadCancel, Atiende, Sigue,
                    EndThread
<1>7. CASE AtenderBloquea \/ AtenderDumpMemory \/ AtenderSinExec \/ AtenderInterrupcion
  BY <1>7, <1>2 DEF AtenderBloquea, AtenderDumpMemory, AtenderSinExec, AtenderInterrupcion
<1>8. CASE AtenderExit
  BY <1>8, <1>2, <1>c DEF AtenderExit, EndThread, finish_process, Proceso, TipoHilos
<1>9. CASE AtenderSegmentationFault
  BY <1>9, <1>2, <1>c DEF AtenderSegmentationFault, finish_process, Proceso, TipoHilos
<1>10. CASE RecibirAck \/ FinQuantum \/ AdmitirProceso \/ Desbloquear \/ TerminarDump
  BY <1>10, <1>1 DEF RecibirAck, FinQuantum, AdmitirProceso, Desbloquear, TerminarDump, otrasVars
<1>11. CASE FallarDump
  BY <1>11, <1>1 DEF FallarDump, finish_process, otrasVars
<1> QED
  BY <1>3, <1>4, <1>5, <1>6, <1>7, <1>8, <1>9, <1>10, <1>11 DEF Next, Handler, Planner, Entorno

\* The registers of the cpu are the thread's while memoria has it.
LEMMA PasoRegistros ==
  ASSUME Inv, Next
  PROVE  Registros'
<1> USE DEF vars, kernelVars, colas, semaforos, kernelPc, memoriaVars, canales, cpuVars,
            turnoVars, cicloVars, interrupVars, Corre
<1>c. TipoHilos /\ TipoKernel /\ TipoCpu /\ Conexion /\ Registros /\ Contextos
  BY DEF Inv, TypeOK
<1>e. Corre => /\ current_thread.hilo \in Hilos /\ times_in_cpu[current_thread.hilo] > 0
               /\ current_thread.hilo[1] \in Pids
  BY <1>c, CorreEnCurso, Constantes DEF EnCurso, Actual, Interrupcion, Registros
<1>1. CASE Handler \/ Entorno \/ Planner
  <2>1. UNCHANGED <<cicloVars, turnoVars>>
    BY <1>1 DEF Handler, Entorno, Planner, AtenderSigue, AtenderThreadCreate,
       AtenderThreadCancel, AtenderBloquea, AtenderDumpMemory, AtenderExit, AtenderSinExec,
       AtenderSegmentationFault, AtenderNotInMemory, AtenderInterrupcion, RecibirAck, Atiende,
       Despachar, FinQuantum, AdmitirProceso, Desbloquear, TerminarDump, FallarDump, otrasVars
  <2>2. despachado' \in Hilos => times_in_cpu'[despachado'] > 0
    <3>1. CASE Despachar
      <4>1. PICK t \in ready : times_in_cpu' = [times_in_cpu EXCEPT ![t] = @ + 1]
                               /\ despachado' = t
        BY <3>1 DEF Despachar
      <4>2. times_in_cpu'[t] = times_in_cpu[t] + 1 /\ times_in_cpu[t] \in Nat
        BY <4>1, <1>c DEF TipoKernel, TipoHilos
      <4> QED
        BY <4>1, <4>2
    <3>2. CASE ~Despachar
      <4>1. UNCHANGED <<despachado, times_in_cpu>>
        BY <1>1, <3>2 DEF Handler, Entorno, Planner, AtenderSigue, AtenderThreadCreate,
         AtenderThreadCancel, AtenderBloquea, AtenderDumpMemory, AtenderExit, AtenderSinExec,
         AtenderSegmentationFault, AtenderNotInMemory, AtenderInterrupcion, RecibirAck, Atiende,
         FinQuantum, AdmitirProceso, Desbloquear, TerminarDump, FallarDump, otrasVars
      <4> QED
        BY <4>1, <1>c DEF Registros
    <3> QED
      BY <3>1, <3>2
  <2>3. ASSUME Corre PROVE LET t == current_thread.hilo IN
                           /\ En_memoria(t)' => En_memoria(t)
                           /\ lugar'[t[1]] \in {lugar[t[1]], SinLugar}
    <3> DEFINE t == current_thread.hilo
    <3>1. t \in Hilos /\ times_in_cpu[t] > 0
      BY <2>3, <1>e
    <3>2. ASSUME NEW u, u = t PROVE (En_memoria(u)' => En_memoria(u))
                                    /\ lugar'[u[1]] \in {lugar[u[1]], SinLugar}
      BY <3>1, <3>2, <1>1, NadieVuelve
    <3>3. current_thread' = current_thread
      BY <2>1
    <3> QED
      BY <3>2, <3>3 DEF En_memoria
  <2> QED
    BY <2>1, <2>2, <2>3, <1>c DEF Registros, En_memoria
<1>2. CASE RecibirHilo
  <2>1. pc' = "inactivo" /\ UNCHANGED <<despachado, times_in_cpu>>
    <3>1. EnVuelo
      BY <1>2, <1>c, QueFase DEF RecibirHilo
    <3> QED
      BY <3>1, <1>2 DEF EnVuelo, En, RecibirHilo
  <2> QED
    BY <2>1, <1>c DEF Registros
<1>3. CASE ObtenerContexto
  <2>1. EnCurso
    BY <1>3, <1>c, QueFase DEF ObtenerContexto
  <2>2. current_thread.hilo \in Hilos /\ current_thread.hilo[1] \in Pids
    BY <2>1, Constantes DEF EnCurso, Actual, Interrupcion
  <2>3. lugar[current_thread.hilo[1]] # SinLugar =>
           lugar[current_thread.hilo[1]] = <<lugar[current_thread.hilo[1]][1],
                                            lugar[current_thread.hilo[1]][2]>>
    BY <2>2, <1>c, CpuAssumption DEF TipoHilos, Vacio
  <2>4. /\ thread_in_memory' = En_memoria(current_thread.hilo)
        /\ En_memoria(current_thread.hilo) =>
              cpu_registers' = [cuenta |-> contexto[current_thread.hilo],
                                base |-> lugar[current_thread.hilo[1]][1],
                                limite |-> lugar[current_thread.hilo[1]][2],
                                escritos |-> FALSE]
        /\ pc' = "fetch"
        /\ UNCHANGED <<despachado, times_in_cpu, contexto, lugar, current_thread>>
    BY <1>3 DEF ObtenerContexto
  <2>5. En_memoria(current_thread.hilo)' = En_memoria(current_thread.hilo)
    BY <2>4 DEF En_memoria
  <2>6. CASE En_memoria(current_thread.hilo)
    <3>1. thread_in_memory'
      BY <2>4, <2>6
    <3>2. cpu_registers'.base = lugar[current_thread.hilo[1]][1]
          /\ cpu_registers'.limite = lugar[current_thread.hilo[1]][2]
      BY <2>4, <2>6
    <3> QED
      BY <2>3, <2>4, <3>1, <3>2, <1>c DEF Registros
  <2>7. CASE ~En_memoria(current_thread.hilo)
    <3>1. ~thread_in_memory'
      BY <2>4, <2>7
    <3> QED
      BY <2>4, <2>5, <2>7, <3>1, <1>c DEF Registros
  <2> QED
    BY <2>6, <2>7
<1>4. CASE CheckActualizar
  <2>1. /\ pc = "check" /\ pc' \in {"discard", "interrupt"}
        /\ UNCHANGED <<despachado, times_in_cpu, lugar, current_thread, cpu_registers,
                       thread_in_memory>>
        /\ ~En_memoria(current_thread.hilo) => contexto' = contexto
    BY <1>4 DEF CheckActualizar
  <2> QED
    BY <2>1, <1>c DEF Registros, En_memoria
<1>5. CASE FetchNotInMemory
  <2>1. /\ pc = "fetch" /\ pc' = "recv"
        /\ ~(thread_in_memory /\ En_memoria(current_thread.hilo))
        /\ thread_in_memory' = FALSE
        /\ UNCHANGED <<despachado, times_in_cpu, memoriaVars, current_thread, cpu_registers>>
    BY <1>5 DEF FetchNotInMemory
  <2> QED
    BY <2>1, <1>c DEF Registros, En_memoria
<1>6. CASE ExecuteLocal \/ ExecuteMem \/ ExecuteSegmentationFault \/ ExecuteSyscall
  <2>1. /\ pc = "fetch" /\ thread_in_memory
        /\ UNCHANGED <<despachado, times_in_cpu, memoriaVars, current_thread, thread_in_memory>>
    BY <1>6 DEF ExecuteLocal, ExecuteMem, ExecuteSegmentationFault, ExecuteSyscall, Fetch
  <2>2. ~cpu_registers'.escritos => /\ ~cpu_registers.escritos
                                    /\ cpu_registers'.base = cpu_registers.base
                                    /\ cpu_registers'.limite = cpu_registers.limite
    BY <1>6, <1>c, PasoDeInstruccion
  <2> QED
    BY <2>1, <2>2, <1>c DEF Registros, En_memoria
<1>7. CASE AccederMemoria
  <2>1. /\ pc = "memoria" /\ pc' = "check"
        /\ thread_in_memory' = TRUE
        /\ UNCHANGED <<despachado, times_in_cpu, memoriaVars, current_thread>>
    BY <1>7 DEF AccederMemoria
  <2>2. ~cpu_registers'.escritos => /\ ~cpu_registers.escritos
                                    /\ cpu_registers'.base = cpu_registers.base
                                    /\ cpu_registers'.limite = cpu_registers.limite
    BY <1>7, <1>c, PasoDeMemoria
  <2> QED
    BY <2>1, <2>2, <1>c DEF Registros, En_memoria
<1>8. CASE RecibirRespuesta \/ CheckNada
  <2>1. /\ Corre /\ pc' \in {"check", "fetch"}
        /\ UNCHANGED <<despachado, times_in_cpu, memoriaVars, current_thread, cpu_registers,
                       thread_in_memory>>
    BY <1>8 DEF RecibirRespuesta, CheckNada
  <2> QED
    BY <2>1, <1>c DEF Registros, En_memoria
<1>9. CASE CheckAvisar \/ CheckInterrumpir
  <2>1. pc' = "inactivo" /\ UNCHANGED <<despachado, times_in_cpu>>
    BY <1>9 DEF CheckAvisar, CheckInterrumpir, Inactivo
  <2> QED
    BY <2>1, <1>c DEF Registros
<1>10. CASE handle_interrupt
  BY <1>10, <1>c DEF handle_interrupt, Registros, En_memoria
<1> QED
  BY <1>1, <1>2, <1>3, <1>4, <1>5, <1>6, <1>7, <1>8, <1>9, <1>10 DEF Next, Ciclo, Dispatch

\* The handler takes the one message there is.
LEMMA TomaElMensaje ==
  ASSUME Conexion, al_kernel # <<>>, al_kernel' = Tail(al_kernel)
  PROVE  al_kernel' = <<>>
<1>1. \E x : al_kernel = <<x>>
  BY DEF Conexion, Reposo, EnVuelo, Contexto, Corriendo, Pregunta, Pide, Continua, Contestado,
         Dejando, Dejado, Interrumpido, Viajan
<1> QED
  BY <1>1, UnMensaje

\* What an end of quantum that is under way says.
Vieja(i) == i \in [hilo : Hilos, veces : Nat \ {0}] =>
               /\ Algorithm = "CMN" /\ i.veces <= times_in_cpu[i.hilo]
               /\ i = Actual => st = "plan"

LEMMA PasoInterrupciones ==
  ASSUME Inv, Next
  PROVE  Interrupciones'
<1> USE DEF vars, kernelVars, colas, semaforos, kernelPc, memoriaVars, canales, cpuVars,
            turnoVars, cicloVars, interrupVars
<1>c. TipoHilos /\ TipoKernel /\ TipoCpu /\ Conexion /\ Registros /\ EnExec
  BY DEF Inv, TypeOK
<1>v. /\ st = "quantum" => Algorithm = "CMN" /\ despachado \in Hilos
      /\ \A i \in handlers \cup {current_interruption} : Vieja(i)
      /\ Interrumpido \/ pc = "interrupt" => Algorithm = "CMN" /\ st = "plan"
  BY DEF Inv, Interrupciones, Vieja
<1>q. ASSUME st' = "quantum" => Algorithm = "CMN" /\ despachado' \in Hilos,
             \A i \in (handlers \cup {current_interruption})' : Vieja(i)',
             Interrumpido' \/ pc' = "interrupt" => Algorithm = "CMN" /\ st' = "plan"
      PROVE  Interrupciones'
  BY <1>q DEF Interrupciones, Vieja
<1>k. ASSUME UNCHANGED <<st, despachado, times_in_cpu>>
      PROVE  /\ st' = "quantum" => Algorithm = "CMN" /\ despachado' \in Hilos
             /\ \A i \in handlers \cup {current_interruption} : Vieja(i)'
  BY <1>k, <1>v DEF Vieja, Actual, Interrupcion
<1>1. CASE Handler
  <2>1. UNCHANGED <<st, despachado, times_in_cpu, cpuVars>> /\ al_kernel # <<>>
        /\ al_kernel' = Tail(al_kernel)
    BY <1>1 DEF Handler, AtenderSigue, AtenderThreadCreate, AtenderThreadCancel, AtenderBloquea,
                AtenderDumpMemory, AtenderExit, AtenderSinExec, AtenderSegmentationFault,
                AtenderNotInMemory, AtenderInterrupcion, RecibirAck, Atiende
  <2>2. al_kernel' = <<>>
    BY <2>1, <1>c, TomaElMensaje
  <2>3. ~Interrumpido'
    BY <2>2, UnMensaje DEF Interrumpido, Viajan
  <2> QED
    BY <2>1, <2>3, <1>q, <1>k, <1>v
<1>2. CASE Entorno
  <2>1. UNCHANGED <<semaforos, kernelPc, canales, cpuVars>>
    BY <1>2 DEF Entorno, AdmitirProceso, Desbloquear, TerminarDump, FallarDump, otrasVars
  <2>2. Interrumpido' = Interrumpido
    BY <2>1 DEF Interrumpido, Turno, En, Viajan, Paquete
  <2> QED
    BY <2>1, <2>2, <1>q, <1>k, <1>v
<1>3. CASE FinQuantum
  <2>1. Algorithm = "CMN" /\ despachado \in Hilos
    BY <1>3, <1>v DEF FinQuantum
  <2>2. st' = "plan" /\ UNCHANGED <<despachado, times_in_cpu, current_interruption>>
        /\ handlers' \subseteq handlers \cup {Actual}
    BY <1>3 DEF FinQuantum, Actual
  <2>3. Vieja(Actual)'
    BY <2>1, <2>2, <1>c DEF Vieja, Actual, Interrupcion, TipoKernel
  <2>4. Actual' = Actual
    BY <2>2 DEF Actual, Interrupcion
  <2>5. \A i \in handlers \cup {current_interruption} : Vieja(i)'
    BY <2>1, <2>2, <1>v DEF Vieja
  <2>6. \A i \in (handlers \cup {current_interruption})' : Vieja(i)'
    BY <2>2, <2>3, <2>4, <2>5
  <2> QED
    BY <2>1, <2>2, <2>6, <1>q
<1>4. CASE Despachar
  <2>1. Reposo
    BY <1>4, <1>c, QueFase DEF Despachar
  <2>2. PICK t \in ready : times_in_cpu' = [times_in_cpu EXCEPT ![t] = @ + 1] /\ despachado' = t
                           /\ al_cpu' = Append(al_cpu, Despacho(t, times_in_cpu'[t]))
    BY <1>4 DEF Despachar
  <2>3. UNCHANGED cpuVars /\ st' = IF Algorithm = "CMN" THEN "quantum" ELSE "plan"
    BY <1>4 DEF Despachar
  <2>4. t \in Hilos /\ times_in_cpu[t] \in Nat /\ times_in_cpu'[t] = times_in_cpu[t] + 1
    BY <2>2, <1>c DEF TipoHilos, TipoKernel
  <2>5. ASSUME NEW i \in handlers \cup {current_interruption} PROVE Vieja(i)'
    <3>1. SUFFICES ASSUME i \in [hilo : Hilos, veces : Nat \ {0}]
                   PROVE  /\ Algorithm = "CMN" /\ i.veces <= times_in_cpu'[i.hilo]
                          /\ i # Actual'
      BY DEF Vieja
    <3>2. Algorithm = "CMN" /\ i.veces <= times_in_cpu[i.hilo]
      BY <2>5, <3>1, <1>v DEF Vieja
    <3>3. i.hilo \in Hilos /\ i.veces \in Nat
      BY <3>1
    <3>4. times_in_cpu'[i.hilo] = IF i.hilo = t THEN times_in_cpu[t] + 1
                                                ELSE times_in_cpu[i.hilo]
      BY <2>2, <3>3, <1>c DEF TipoKernel
    <3>5. times_in_cpu[i.hilo] \in Nat
      BY <3>3, <1>c DEF TipoKernel
    <3>6. i.veces <= times_in_cpu'[i.hilo]
      BY <3>2, <3>3, <3>4, <3>5
    <3>7. i.hilo = t => i.veces # times_in_cpu'[t]
      BY <3>2, <3>3, <3>4, <3>5
    <3> QED
      BY <2>2, <3>2, <3>6, <3>7 DEF Actual, Interrupcion
  <2>6. al_cpu' # <<>>
    BY <2>1, <2>2, UnMensaje DEF Reposo, Viajan
  <2>7. ~Interrumpido' /\ pc' # "interrupt"
    BY <2>1, <2>3, <2>6 DEF Interrumpido, Viajan, Reposo, En
  <2> QED
    BY <2>2, <2>3, <2>4, <2>5, <2>7, <1>q
<1>5. CASE CheckActualizar
  <2>1. UNCHANGED <<st, despachado, times_in_cpu, handlers, current_interruption>>
    BY <1>5 DEF CheckActualizar
  <2>5. /\ pc' = IF kernel_replanifica THEN "discard" ELSE "interrupt"
        /\ kernel_replanifica \/ valid_interruption
    BY <1>5, Zenon DEF CheckActualizar
  <2>6. pc' \in {"discard", "interrupt"}
    BY <2>5
  <2>7. pc' = "interrupt" => valid_interruption
    BY <2>5
  <2>2. EnCurso
    BY <1>5, <1>c, QueFase DEF CheckActualizar
  <2>3. ASSUME pc' = "interrupt" PROVE Algorithm = "CMN" /\ st = "plan"
    <3>1. current_interruption = Actual
      BY <2>2, <2>3, <2>7 DEF valid_interruption, EnCurso
    <3>2. Actual \in [hilo : Hilos, veces : Nat \ {0}]
      BY <2>2, <1>c DEF EnCurso, Actual, Interrupcion, TipoKernel, Registros
    <3> QED
      BY <3>1, <3>2, <1>v DEF Vieja
  <2>4. ~Interrumpido'
    BY <2>6 DEF Interrumpido, En
  <2> QED
    BY <2>1, <2>3, <2>4, <1>q, <1>k
<1>6. CASE CheckAvisar
  <2>1. UNCHANGED <<st, despachado, times_in_cpu, handlers>>
        /\ current_interruption' = Interrupcion(NoTcb, -1) /\ pc' = "inactivo"
        /\ al_kernel' = Append(al_kernel, Bool(TRUE))
    BY <1>6 DEF CheckAvisar, Inactivo
  <2>2. Dejando
    BY <1>6, <1>c, QueFase DEF CheckAvisar
  <2>3. al_kernel' = <<Bool(TRUE)>>
    BY <2>1, <2>2, UnMensaje DEF Dejando, Viajan
  <2>4. Head(al_kernel').tipo = "bool"
    BY <2>3, UnMensaje DEF Bool
  <2>5. \A t : Head(<<[tipo |-> "INTERRUPTION", hilo |-> t]>>).tipo # "bool"
    BY UnMensaje
  <2>6. ~Interrumpido'
    BY <2>4, <2>5 DEF Interrumpido, Viajan, Paquete
  <2>7. \A i : i = current_interruption' => Vieja(i)'
    BY <2>1, Constantes DEF Vieja, Interrupcion
  <2> QED
    BY <2>1, <2>6, <2>7, <1>q, <1>k
<1>7. CASE CheckInterrumpir
  <2>1. UNCHANGED <<st, despachado, times_in_cpu, handlers, current_interruption>>
        /\ pc = "interrupt"
    BY <1>7 DEF CheckInterrumpir
  <2> QED
    BY <2>1, <1>q, <1>k, <1>v
<1>8. CASE handle_interrupt
  <2>1. current_interruption' \in handlers /\ handlers' \subseteq handlers
        /\ UNCHANGED <<kernelVars, canales, turnoVars, cicloVars>>
    BY <1>8 DEF handle_interrupt
  <2>2. Interrumpido' = Interrumpido
    BY <2>1 DEF Interrumpido, Turno, En, Viajan, Paquete
  <2> QED
    BY <2>1, <2>2, <1>q, <1>k, <1>v
<1>9. CASE FetchNotInMemory \/ ExecuteLocal \/ ExecuteMem \/ AccederMemoria
           \/ ExecuteSegmentationFault \/ ExecuteSyscall \/ RecibirRespuesta \/ CheckNada
           \/ Dispatch
  <2>1. UNCHANGED <<st, despachado, times_in_cpu, handlers, current_interruption>>
    BY <1>9
    DEF FetchNotInMemory, ExecuteLocal, ExecuteMem, AccederMemoria, ExecuteSegmentationFault,
        ExecuteSyscall, RecibirRespuesta, CheckNada, Dispatch, RecibirHilo, ObtenerContexto
  <2>2. pc' # "interrupt" /\ ~Interrumpido'
    <3>1. CASE RecibirHilo
      <4>1. EnVuelo
        BY <3>1, <1>c, QueFase DEF RecibirHilo
      <4> QED
        BY <4>1, <3>1 DEF EnVuelo, En, RecibirHilo, Interrumpido
    <3>2. CASE ~RecibirHilo
      BY <1>9, <3>2 DEF FetchNotInMemory, ExecuteLocal, ExecuteMem, AccederMemoria,
         ExecuteSegmentationFault, ExecuteSyscall, RecibirRespuesta, CheckNada, Dispatch,
         ObtenerContexto, Interrumpido, En
    <3> QED
      BY <3>1, <3>2
  <2> QED
    BY <2>1, <2>2, <1>q, <1>k
<1> QED
  BY <1>1, <1>2, <1>3, <1>4, <1>5, <1>6, <1>7, <1>8, <1>9 DEF Next, Ciclo, Dispatch, Planner

-----------------------------------------------------------------------------
(* Types *)

LEMMA PasoTipoKernel ==
  ASSUME Inv, Next
  PROVE  TipoKernel'
<1> USE DEF vars, kernelVars, colas, semaforos, kernelPc, memoriaVars, canales, cpuVars,
            turnoVars, cicloVars, interrupVars, TipoKernel
<1>c. TipoHilos /\ TipoKernel
  BY DEF Inv, TypeOK
<1>1. CASE Despachar
  <2>1. PICK t \in ready : times_in_cpu' = [times_in_cpu EXCEPT ![t] = @ + 1] /\ despachado' = t
    BY <1>1 DEF Despachar
  <2>2. st' \in {"plan", "quantum"} /\ UNCHANGED sem_short_term
    BY <1>1 DEF Despachar
  <2> QED
    BY <2>1, <2>2, <1>c DEF TipoHilos
<1>2. CASE FinQuantum \/ Entorno \/ Ciclo \/ Dispatch \/ handle_interrupt
  BY <1>2, <1>c
  DEF FinQuantum, Entorno, AdmitirProceso, Desbloquear, TerminarDump, FallarDump, otrasVars,
      Ciclo, Dispatch, FetchNotInMemory, ExecuteLocal, ExecuteMem, AccederMemoria,
      ExecuteSegmentationFault, ExecuteSyscall, RecibirRespuesta, CheckNada, CheckActualizar,
      CheckAvisar, CheckInterrumpir, RecibirHilo, ObtenerContexto, handle_interrupt
<1>3. CASE Handler
  <2>1. UNCHANGED <<times_in_cpu, st, despachado>>
    BY <1>3 DEF Handler, AtenderSigue, AtenderThreadCreate, AtenderThreadCancel, AtenderBloquea,
       AtenderDumpMemory, AtenderExit, AtenderSinExec, AtenderSegmentationFault,
       AtenderNotInMemory, AtenderInterrupcion, RecibirAck, Atiende
  <2>2. CASE RecibirAck
    BY <2>1, <2>2, <1>c DEF RecibirAck
  <2>3. CASE ~RecibirAck
    <3>1. \/ UNCHANGED sem_short_term
          \/ sem_short_term > 0 /\ sem_short_term' = sem_short_term - 1
      BY <1>3, <2>3 DEF Handler, AtenderSigue, AtenderThreadCreate, AtenderThreadCancel,
         AtenderBloquea, AtenderDumpMemory, AtenderExit, AtenderSinExec,
         AtenderSegmentationFault, AtenderNotInMemory, AtenderInterrupcion, Atiende, Sigue,
         Desaloja
    <3> QED
      BY <2>1, <3>1, <1>c
  <2> QED
    BY <2>2, <2>3
<1> QED
  BY <1>1, <1>2, <1>3 DEF Next, Planner

LEMMA PasoTipoCpu ==
  ASSUME Inv, Next
  PROVE  TipoCpu'
<1> USE DEF vars, kernelVars, colas, semaforos, kernelPc, memoriaVars, canales, cpuVars,
            turnoVars, cicloVars, interrupVars, TipoCpu
<1>c. TipoHilos /\ TipoKernel /\ TipoCpu /\ Contextos /\ Registros /\ Interrupciones /\ Conexion
  BY DEF Inv, TypeOK
<1>w. W \in Nat \ {0} /\ Fallo = W - 1 /\ M \in Nat \ {0}
  BY CpuAssumption DEF Fallo
<1>m. ASSUME NEW l \in Direcciones PROVE MMU(l) \in 0 .. Fallo
  <2>1. cpu_registers.base + l \in Nat
    BY <1>c, <1>m, <1>w, CpuAssumption
  <2>2. (cpu_registers.base + l) % W \in 0 .. W - 1
    BY <2>1, Modulo
  <2> QED
    BY <2>2, <1>w DEF MMU
<1>1. CASE RecibirHilo
  <2>1. despachado \in Hilos /\ EnVuelo
    BY <1>1, <1>c, QueFase DEF RecibirHilo
  <2>2. Head(al_cpu) = Despacho(despachado, times_in_cpu[despachado])
    BY <2>1, UnMensaje DEF EnVuelo, Viajan
  <2>3. current_thread' = Interrupcion(despachado, times_in_cpu[despachado])
    BY <2>2, <1>1 DEF RecibirHilo, Despacho, Interrupcion
  <2>4. times_in_cpu[despachado] \in Nat \ {0}
    BY <2>1, <1>c DEF TipoKernel, Registros
  <2> QED
    BY <2>1, <2>3, <2>4, <1>1, <1>c DEF RecibirHilo, Turnos, Interrupcion
<1>2. CASE ObtenerContexto
  <2>1. EnCurso
    BY <1>2, <1>c, QueFase DEF ObtenerContexto
  <2>2. current_thread.hilo \in Hilos /\ current_thread.hilo[1] \in Pids
    BY <2>1, Constantes DEF EnCurso, Actual, Interrupcion
  <2>3. ASSUME En_memoria(current_thread.hilo)
        PROVE  /\ contexto[current_thread.hilo] \in 0 .. M - 1
               /\ lugar[current_thread.hilo[1]][1] \in 0 .. Fallo
               /\ lugar[current_thread.hilo[1]][2] \in 0 .. Fallo
    <3>1. contexto[current_thread.hilo] \in 0 .. M - 1
      BY <2>2, <2>3, <1>c DEF TipoHilos, En_memoria
    <3>2. lugar[current_thread.hilo[1]] \in Lugares \cup {Vacio}
      BY <2>2, <2>3, <1>c DEF TipoHilos, Contextos
    <3>3. \A l \in Lugares : l[1] \in 0 .. Fallo /\ l[2] \in 0 .. Fallo
      BY <1>w, CpuAssumption
    <3>4. Vacio[1] \in 0 .. Fallo /\ Vacio[2] \in 0 .. Fallo
      BY <1>w DEF Vacio
    <3> QED
      BY <3>1, <3>2, <3>3, <3>4
  <2>4. cpu_registers' \in Contenidos
    BY <2>3, <1>2, <1>c DEF ObtenerContexto, Contenidos
  <2>5. thread_in_memory' \in BOOLEAN
    BY <1>2 DEF ObtenerContexto, En_memoria
  <2> QED
    BY <2>4, <2>5, <1>2, <1>c DEF ObtenerContexto, Contenidos
<1>3. CASE ExecuteLocal \/ ExecuteSegmentationFault \/ ExecuteSyscall
  <2>1. cpu_registers' \in Contenidos
    BY <1>3, <1>c, PasoDeInstruccion
  <2>2. UNCHANGED <<current_thread, dir_fisica, thread_in_memory, interrupVars>>
        /\ kernel_replanifica' \in {TRUE, FALSE, kernel_replanifica}
    BY <1>3 DEF ExecuteLocal, ExecuteSegmentationFault, ExecuteSyscall
  <2> QED
    BY <2>1, <2>2, <1>c DEF Contenidos
<1>4. CASE ExecuteMem
  <2>1. cpu_registers' \in Contenidos
    BY <1>4, <1>c, PasoDeInstruccion
  <2>2. dir_fisica' \in 0 .. Fallo
    BY <1>4, <1>m DEF ExecuteMem
  <2> QED
    BY <2>1, <2>2, <1>4, <1>c DEF ExecuteMem, Contenidos
<1>5. CASE AccederMemoria \/ FetchNotInMemory
  <2>1. /\ thread_in_memory' \in BOOLEAN /\ kernel_replanifica' \in BOOLEAN
        /\ dir_fisica' \in {0, dir_fisica}
        /\ UNCHANGED <<current_thread, interrupVars>>
    BY <1>5 DEF AccederMemoria, FetchNotInMemory
  <2>3. cpu_registers' \in Contenidos
    BY <1>5, <1>c, PasoDeMemoria DEF FetchNotInMemory, Contenidos
  <2>2. dir_fisica' \in 0 .. Fallo
    BY <2>1, <1>c, <1>w
  <2> QED
    BY <2>1, <2>2, <2>3, <1>c DEF Contenidos
<1>6. CASE RecibirRespuesta
  <2>1. Continua \/ Contestado
    BY <1>6, <1>c, QueFase DEF RecibirRespuesta
  <2>2. Head(al_cpu) = Bool(TRUE) \/ Head(al_cpu) = Bool(FALSE)
    BY <2>1, UnMensaje DEF Continua, Contestado, Viajan
  <2>a. Bool(TRUE).valor = TRUE /\ Bool(FALSE).valor = FALSE
    BY DEF Bool
  <2>3. Head(al_cpu).valor \in BOOLEAN
    BY <2>2, <2>a
  <2>4. kernel_replanifica' \in {Head(al_cpu).valor, kernel_replanifica}
    BY <1>6 DEF RecibirRespuesta
  <2>5. kernel_replanifica' \in BOOLEAN
    BY <2>3, <2>4, <1>c
  <2>6. UNCHANGED <<current_thread, cpu_registers, dir_fisica, thread_in_memory, interrupVars>>
    BY <1>6 DEF RecibirRespuesta
  <2> QED
    BY <2>5, <2>6, <1>c
<1>7. CASE CheckNada \/ CheckActualizar \/ CheckInterrumpir
  BY <1>7, <1>c DEF CheckNada, CheckActualizar, CheckInterrumpir
<1>8. CASE CheckAvisar \/ handle_interrupt
  BY <1>8, <1>c DEF CheckAvisar, handle_interrupt, Turnos
<1>9. CASE FinQuantum
  <2>1. despachado \in Hilos
    BY <1>9, <1>c DEF FinQuantum, Interrupciones
  <2>2. Interrupcion(despachado, times_in_cpu[despachado]) \in [hilo : Hilos, veces : Nat \ {0}]
    BY <2>1, <1>c DEF Interrupcion, TipoKernel, Registros
  <2> QED
    BY <2>2, <1>9, <1>c DEF FinQuantum
<1>10. CASE Handler \/ Despachar \/ Entorno
  <2>1. UNCHANGED <<cicloVars, interrupVars>>
    BY <1>10 DEF Handler, AtenderSigue, AtenderThreadCreate, AtenderThreadCancel,
       AtenderBloquea, AtenderDumpMemory, AtenderExit, AtenderSinExec, AtenderSegmentationFault,
       AtenderNotInMemory, AtenderInterrupcion, RecibirAck, Atiende, Despachar, Entorno,
       AdmitirProceso, Desbloquear, TerminarDump, FallarDump, otrasVars
  <2> QED
    BY <2>1, <1>c
<1> QED
  BY <1>1, <1>2, <1>3, <1>4, <1>5, <1>6, <1>7, <1>8, <1>9, <1>10
  DEF Next, Ciclo, Dispatch, Planner

\* The phases say what the connection holds, and where its readers are.
LEMMA TiposDeLaConexion ==
  TipoKernel /\ Registros /\ Conexion => TipoConexion
<1> SUFFICES ASSUME TipoKernel, Registros, Conexion PROVE TipoConexion
  OBVIOUS
<1> USE DEF Turno, En, Viajan, Esperando, Acks
<1>e. <<>> \in Seq(Bools \cup Despachos) /\ <<>> \in Seq(Bools \cup Retornos)
  OBVIOUS
<1>s. ASSUME NEW S, NEW x \in S PROVE <<x>> \in Seq(S)
  OBVIOUS
<1>b. \A b \in BOOLEAN : Bool(b) \in Bools
  BY DEF Bool, Bools
<1>1. CASE Reposo
  BY <1>1, <1>e DEF Reposo, TipoConexion
<1>2. CASE despachado \in Hilos /\ EnVuelo
  <2>1. Despacho(despachado, times_in_cpu[despachado]) \in Bools \cup Despachos
    BY <1>2 DEF TipoKernel, Registros, Despacho, Despachos
  <2>2. al_cpu \in Seq(Bools \cup Despachos)
    BY <2>1, <1>s, <1>2 DEF EnVuelo
  <2> QED
    BY <2>2, <1>2, <1>e DEF EnVuelo, TipoConexion
<1>3. CASE EnCurso /\ (Contexto \/ Corriendo \/ Dejando)
  BY <1>3, <1>e DEF Contexto, Corriendo, Dejando, TipoConexion
<1>4. CASE EnCurso /\ (Pregunta \/ Interrumpido)
  <2>1. \A op \in Pedidos \cup {"INTERRUPTION"} : Paquete(op) \in Bools \cup Retornos
    BY <1>4 DEF EnCurso, Actual, Interrupcion, Paquete, Retornos, Pedidos
  <2>2. \E op \in Pedidos \cup {"INTERRUPTION"} : al_kernel = <<Paquete(op)>>
    BY <1>4 DEF Pregunta, Pide, Interrumpido
  <2>3. al_kernel \in Seq(Bools \cup Retornos)
    BY <2>1, <2>2, <1>s
  <2> QED
    BY <2>3, <1>4, <1>e DEF Pregunta, Pide, Interrumpido, TipoConexion
<1>5. CASE EnCurso /\ (Continua \/ Contestado)
  <2>1. al_cpu \in {<<Bool(TRUE)>>, <<Bool(FALSE)>>}
    BY <1>5 DEF Continua, Contestado
  <2>2. al_cpu \in Seq(Bools \cup Despachos)
    BY <2>1, <1>b, <1>s
  <2> QED
    BY <2>2, <1>5, <1>e DEF Continua, Contestado, TipoConexion
<1>6. CASE EnCurso /\ Dejado
  <2>1. al_kernel \in Seq(Bools \cup Retornos)
    BY <1>6, <1>b, <1>s DEF Dejado
  <2> QED
    BY <2>1, <1>6, <1>e DEF Dejado, TipoConexion
<1> QED
  BY <1>1, <1>2, <1>3, <1>4, <1>5, <1>6 DEF Conexion

-----------------------------------------------------------------------------
(* The inductive invariant. *)

LEMMA InitInv == Init => Inv
<1> SUFFICES ASSUME Init PROVE Inv
  OBVIOUS
<1> USE DEF Init
<1>1. TipoHilos
  BY Constantes DEF TipoHilos
<1>2. TipoKernel
  BY DEF TipoKernel
<1>3. TipoCpu
  <2>1. /\ current_interruption = Interrupcion(<<0, 0>>, 0)
        /\ current_thread = Interrupcion(<<0, 0>>, 0)
    OBVIOUS
  <2>2. current_interruption \in Turnos /\ current_thread \in Turnos
    BY <2>1 DEF Turnos
  <2>3. 0 \in 0 .. Fallo
    BY CpuAssumption DEF Fallo
  <2> QED
    BY <2>2, <2>3, Constantes DEF TipoCpu
<1>4. Conexion
  BY DEF Conexion, Reposo, Turno, Esperando, En, Viajan
<1>5. EnExec
  BY DEF EnExec
<1>6. Contextos
  BY Constantes DEF Contextos, En_memoria
<1>7. Registros
  BY Constantes DEF Registros, Corre
<1>8. Interrupciones
  <2>1. current_interruption \notin [hilo : Hilos, veces : Nat \ {0}]
    BY DEF Interrupcion
  <2> QED
    BY <2>1, UnMensaje DEF Interrupciones, Interrumpido, Viajan
<1>9. TypeOK
  BY <1>1, <1>2, <1>3, <1>4, <1>7, TiposDeLaConexion DEF TypeOK
<1> QED
  BY <1>4, <1>5, <1>6, <1>7, <1>8, <1>9 DEF Inv

LEMMA PasoInv == Inv /\ [Next]_vars => Inv'
<1> SUFFICES ASSUME Inv, [Next]_vars PROVE Inv'
  OBVIOUS
<1>1. CASE Next
  <2>1. Conexion'
    BY <1>1, CpuFases, KernelFases DEF Next
  <2>2. TipoHilos' /\ Contextos' /\ EnExec' /\ Registros' /\ Interrupciones'
    BY <1>1, PasoHilos, PasoEnExec, PasoRegistros, PasoInterrupciones
  <2>3. TipoKernel' /\ TipoCpu'
    BY <1>1, PasoTipoKernel, PasoTipoCpu
  <2>4. TipoConexion'
    BY <2>1, <2>2, <2>3, TiposDeLaConexion, PTL
  <2> QED
    BY <2>1, <2>2, <2>3, <2>4 DEF Inv, TypeOK
<1>2. CASE UNCHANGED vars
  <2> USE DEF vars, kernelVars, colas, semaforos, kernelPc, memoriaVars, canales, cpuVars,
              turnoVars, cicloVars, interrupVars
  <2>1. Conexion'
    BY <1>2, MismaFase DEF Inv, Fases
  <2>2. TypeOK'
    BY <1>2 DEF Inv, TypeOK, TipoHilos, TipoKernel, TipoCpu, TipoConexion
  <2>3. EnExec' /\ Contextos' /\ Registros'
    BY <1>2 DEF Inv, EnExec, Contextos, Registros, En_memoria, Corre
  <2>4. Interrumpido' = Interrumpido
    BY <1>2 DEF Interrumpido, Turno, En, Viajan, Paquete
  <2>5. Interrupciones'
    BY <1>2, <2>4 DEF Inv, Interrupciones, Actual, Interrupcion
  <2> QED
    BY <2>1, <2>2, <2>3, <2>5 DEF Inv
<1> QED
  BY <1>1, <1>2

LEMMA Invariante == Spec => []Inv
BY InitInv, PasoInv, PTL DEF Spec

-----------------------------------------------------------------------------
(* The invariants of CpuProperties. *)

\* Every variable keeps its type: the semaphores of the dispatch never go over 1, and no
\* more than the types of CpuProperties is ever on the connections.
THEOREM Tipos == Spec => []TypeOK
<1>1. Inv => TypeOK
  BY DEF Inv
<1> QED
  BY <1>1, Invariante, PTL

\* Whoever reads from the dispatch connection finds the kind of message it expects, though
\* two threads of the cpu read from it and nobody looks at the kind of an answer.
THEOREM EnPaso == Spec => []ProtocoloEnPaso
<1>1. ASSUME Inv PROVE ProtocoloEnPaso
  <2> USE DEF Turno, En, Viajan, Esperando, Acks
  <2>c. Conexion
    BY <1>1 DEF Inv
  <2>1. hd = "wait" /\ sem_receive_new_thread > 0 /\ al_cpu # <<>> => Head(al_cpu).tipo = "THREAD"
    <3>1. EnVuelo => Head(al_cpu) = Despacho(despachado, times_in_cpu[despachado])
      BY UnMensaje DEF EnVuelo
    <3> QED
      BY <3>1, <2>c, QueFase DEF Despacho
  <2>2. pc \in {"recv", "syscall"} /\ al_cpu # <<>> =>
           Head(al_cpu).tipo = "bool" /\ ~(hd = "wait" /\ sem_receive_new_thread > 0)
    <3>1. Continua \/ Contestado => (Head(al_cpu) = Bool(TRUE) \/ Head(al_cpu) = Bool(FALSE))
                                    /\ sem_receive_new_thread = 0
      BY UnMensaje DEF Continua, Contestado
    <3>2. ~(0 > 0)
      OBVIOUS
    <3> QED
      BY <3>1, <3>2, <2>c, QueFase DEF Bool
  <2>3. rh = "wait" /\ al_kernel # <<>> => Head(al_kernel).tipo # "bool"
    <3>1. Pregunta \/ Interrumpido =>
             \E op \in Pedidos \cup {"INTERRUPTION"} : Head(al_kernel) = Paquete(op)
      BY UnMensaje DEF Pregunta, Pide, Interrumpido
    <3> QED
      BY <3>1, <2>c, QueFase DEF Paquete, Pedidos
  <2>4. rh # "wait" /\ al_kernel # <<>> => Head(al_kernel).tipo = "bool"
    <3>1. Dejado => Head(al_kernel) = Bool(TRUE)
      BY UnMensaje DEF Dejado
    <3> QED
      BY <3>1, <2>c, QueFase DEF Bool
  <2>5. hd = "contexto" => pc = "inactivo"
    BY <2>c, QueFase DEF Contexto
  <2> QED
    BY <2>1, <2>2, <2>3, <2>4, <2>5 DEF ProtocoloEnPaso
<1> QED
  BY <1>1, Invariante, PTL

\* The kernel serves the thread that asked: the one in EXEC is the one the cpu runs.
THEOREM SirveAlQuePide == Spec => []CorreExec
<1>1. ASSUME Inv PROVE CorreExec
  <2>1. SUFFICES ASSUME exec # NoTcb
                 PROVE  \/ al_cpu # <<>> /\ Head(al_cpu) = Despacho(exec, times_in_cpu[exec])
                        \/ current_thread = Interrupcion(exec, times_in_cpu[exec])
    BY DEF CorreExec
  <2>2. exec = despachado /\ wait_cpu_response = 1 /\ Conexion
    BY <1>1, <2>1 DEF Inv, EnExec
  <2>3. EnVuelo \/ EnCurso
    BY <2>2 DEF Conexion, Reposo, Turno
  <2> QED
    BY <2>2, <2>3, UnMensaje DEF EnVuelo, EnCurso, Actual, Viajan
<1> QED
  BY <1>1, Invariante, PTL

\* No thread is interrupted for the quantum of an older dispatch, of its own or another's.
THEOREM SoloSuQuantum == Spec => []InterrupcionJusta
<1>1. ASSUME Inv PROVE InterrupcionJusta
  <2>1. SUFFICES ASSUME pc = "interrupt"
                        \/ (\E i \in DOMAIN al_kernel : al_kernel[i].tipo = "INTERRUPTION")
                 PROVE  Algorithm = "CMN" /\ st = "plan" /\ despachado = current_thread.hilo
                        /\ times_in_cpu[despachado] = current_thread.veces
    BY DEF InterrupcionJusta
  <2>c. Conexion /\ Interrupciones
    BY <1>1 DEF Inv
  <2>u. \A x : DOMAIN <<x>> = {1} /\ <<x>>[1] = x
    OBVIOUS
  <2>2. EnCurso /\ (pc = "interrupt" \/ Interrumpido)
    <3>1. CASE pc = "interrupt"
      BY <3>1, <2>c, QueFase
    <3>2. CASE pc # "interrupt"
      <4>1. PICK i \in DOMAIN al_kernel : al_kernel[i].tipo = "INTERRUPTION"
        BY <2>1, <3>2
      <4>2. al_kernel # <<>>
        BY <4>1
      <4>3. EnCurso /\ (Pregunta \/ Interrumpido \/ Dejado)
        BY <4>2, <2>c, QueFase
      <4>4. ~Dejado
        BY <4>1, <2>u DEF Dejado, Viajan, Bool
      <4>5. \A op \in Pedidos : ~Pide(op)
        BY <4>1, <2>u DEF Pide, Viajan, Paquete, Pedidos
      <4> QED
        BY <4>3, <4>4, <4>5 DEF Pregunta
    <3> QED
      BY <3>1, <3>2
  <2> QED
    BY <2>2, <2>c DEF EnCurso, Actual, Interrupcion, Interrupciones
<1> QED
  BY <1>1, Invariante, PTL

\* Until a thread writes BASE or LIMITE itself it reaches the four bytes of every address of
\* its process, and beyond them only what lies below its base, by wrapping around, whatever the
\* threads before it wrote there.
THEOREM SoloLoPropio == Spec => []AccesoPropio
<1>1. ASSUME Inv PROVE AccesoPropio
  <2> DEFINE p == current_thread.hilo[1]
             b == cpu_registers.base
             n == cpu_registers.limite
  <2>1. SUFFICES ASSUME pc = "fetch", thread_in_memory, ~cpu_registers.escritos,
                        lugar[p] # SinLugar, NEW l \in Direcciones
                 PROVE  LET d == lugar[p][1] + l IN
                        /\ Propio(p, d) => MMU(l) = d
                        /\ MMU(l) # Fallo => \/ MMU(l) = d /\ Propio(p, d)
                                             \/ MMU(l) = d - W /\ MMU(l) < lugar[p][1]
    BY DEF AccesoPropio
  <2>2. lugar[p] = <<b, n>>
    BY <1>1, <2>1 DEF Inv, Registros, Corre
  <2>3. p \in Pids
    BY <1>1, <2>1, CorreEnCurso, Constantes DEF Inv, Corre, EnCurso, Actual, Interrupcion
  <2>4. <<b, n>> \in Lugares \cup {Vacio}
    BY <1>1, <2>1, <2>2, <2>3 DEF Inv, TypeOK, TipoHilos
  <2>5. b \in 0 .. W - 1 /\ n \in 0 .. W - 1 /\ (n <= W - 4 \/ (b = W - 1 /\ n = W - 1))
    BY <2>4, CpuAssumption DEF Vacio, Fallo
  <2>6. l \in 0 .. W - 1 /\ W \in Nat \ {0}
    BY CpuAssumption
  <2>7. lugar[p][1] = b /\ lugar[p][2] = n
    BY <2>2
  <2> HIDE DEF p, b, n
  <2>8. Propio(p, b + l) <=> b + l + 4 <= n
    BY <2>5, <2>6, <2>7 DEF Propio
  <2>9. SUFFICES /\ b + l + 4 <= n => MMU(l) = b + l
                 /\ MMU(l) # Fallo => \/ MMU(l) = b + l /\ b + l + 4 <= n
                                      \/ MMU(l) = b + l - W /\ MMU(l) < b
    BY <2>5, <2>6, <2>7, <2>8
  <2>10. MMU(l) = IF (b + l) % W < n /\ (((b + l) % W) + 4) % W <= n THEN (b + l) % W ELSE Fallo
    BY DEF MMU, b, n
  <2>11. CASE b + l < W
    <3>1. (b + l) % W = b + l
      BY <2>5, <2>6, <2>11, Modulo
    <3>2. CASE b + l < n
      <4>1. n <= W - 4 /\ b + l + 4 < W
        BY <2>5, <2>6, <3>2
      <4>2. b + l + 4 \in Nat
        BY <2>5, <2>6
      <4>3. (b + l + 4) % W = b + l + 4
        BY <4>1, <4>2, Modulo
      <4> QED
        BY <4>3, <3>1, <3>2, <2>5, <2>6, <2>10
    <3>3. CASE ~(b + l < n)
      BY <3>1, <3>3, <2>5, <2>6, <2>10
    <3> QED
      BY <3>2, <3>3
  <2>12. CASE ~(b + l < W)
    <3>1. (b + l) % W = b + l - W
      BY <2>5, <2>6, <2>12, Modulo
    <3>2. b + l - W < b /\ ~(b + l + 4 <= n)
      BY <2>5, <2>6, <2>12
    <3> QED
      BY <3>1, <3>2, <2>10
  <2> QED
    BY <2>11, <2>12
<1> QED
  BY <1>1, Invariante, PTL

-----------------------------------------------------------------------------
(* The cpu, memoria and the kernel's dispatches implement ProcesadorVirtual. *)

\* What registros is for one thread.
Registro(t) == IF En_memoria(t) /\ EnCpu(t) THEN cpu_registers.cuenta ELSE contexto[t]

LEMMA MismosRegistros ==
  ASSUME \A t \in Hilos : Registro(t)' = Registro(t)
  PROVE  registros' = registros
BY DEF Registro, registros

LEMMA EnCpuCorre ==
  ASSUME Inv, NEW t \in Hilos, EnCpu(t)
  PROVE  Corre /\ EnCurso /\ despachado = t /\ times_in_cpu[t] > 0
<1>1. Corre
  BY DEF EnCpu, Corre
<1>2. EnCurso
  BY <1>1, CorreEnCurso DEF Inv
<1> QED
  BY <1>1, <1>2 DEF EnCpu, EnCurso, Actual, Interrupcion, Inv, Registros

\* An action of the kernel that leaves contexts alone, or ends threads, or gives a thread
\* its first context.
LEMMA KernelMismos ==
  ASSUME UNCHANGED <<cicloVars, contexto>>
  PROVE  registros' = registros
BY MismosRegistros DEF Registro, En_memoria, EnCpu, cicloVars

LEMMA KernelTermina ==
  ASSUME Inv, UNCHANGED cicloVars, NEW S \in SUBSET Hilos, SinContextos(S)
  PROVE  Virtual!Next
<1> DEFINE T == {t \in S : En_memoria(t)}
<1>1. \A t \in Hilos : contexto'[t] = IF t \in S THEN SinContexto ELSE contexto[t]
  BY DEF SinContextos
<1>2. \A t \in T : registros[t] # SinContexto
  <2>1. cpu_registers.cuenta # SinContexto
    BY Constantes DEF Inv, TypeOK, TipoCpu
  <2> QED
    BY <2>1 DEF registros, En_memoria
<1>3. registros' = [t \in Hilos |-> IF t \in T THEN SinContexto ELSE registros[t]]
  BY <1>1 DEF registros, En_memoria, EnCpu, cicloVars
<1>4. T \in SUBSET Hilos
  OBVIOUS
<1> QED
  BY <1>2, <1>3, <1>4 DEF Virtual!Next, Virtual!Terminar

LEMMA KernelCrea ==
  ASSUME Inv, UNCHANGED cicloVars, NEW t \in Hilos, ~En_memoria(t), ~EnCpu(t),
         contexto' = [contexto EXCEPT ![t] = 0]
  PROVE  Virtual!Next
<1>1. \A u \in Hilos : contexto'[u] = IF u = t THEN 0 ELSE contexto[u]
  BY DEF Inv, TypeOK, TipoHilos
<1>2. registros[t] = SinContexto
  BY DEF registros, En_memoria
<1>3. registros' = [registros EXCEPT ![t] = 0]
  BY <1>1 DEF registros, En_memoria, EnCpu, cicloVars
<1> QED
  BY <1>2, <1>3 DEF Virtual!Next, Virtual!Crear

LEMMA KernelVirtual ==
  ASSUME Inv, Handler \/ Planner \/ Entorno
  PROVE  Virtual!Next \/ registros' = registros
<1> USE DEF vars, kernelVars, colas, semaforos, kernelPc, memoriaVars, canales, cpuVars,
            turnoVars
<1>c. TipoHilos /\ Contextos
  BY DEF Inv, TypeOK
<1>u. UNCHANGED cicloVars
  BY DEF Handler, Entorno, Planner, AtenderSigue, AtenderThreadCreate,
     AtenderThreadCancel, AtenderBloquea, AtenderDumpMemory, AtenderExit, AtenderSinExec,
     AtenderSegmentationFault, AtenderNotInMemory, AtenderInterrupcion, RecibirAck, Atiende,
     Despachar, FinQuantum, AdmitirProceso, Desbloquear, TerminarDump, FallarDump, otrasVars
<1>1. CASE UNCHANGED contexto
  BY <1>1, <1>u, KernelMismos
<1>2. CASE \E S \in SUBSET Hilos : SinContextos(S)
  BY <1>2, <1>u, KernelTermina
<1>3. CASE AtenderThreadCreate
  <2>1. PICK t \in Hilos : /\ times_in_cpu[t] = 0 /\ ~En_memoria(t)
                           /\ contexto' = [contexto EXCEPT ![t] = 0]
    BY <1>3 DEF AtenderThreadCreate, Proceso
  <2>2. ~EnCpu(t)
    <3>1. ~(0 > 0)
      OBVIOUS
    <3> QED
      BY <2>1, <3>1, EnCpuCorre
  <2> QED
    BY <2>1, <2>2, <1>u, KernelCrea
<1>4. CASE AdmitirProceso
  <2>1. PICK p \in nuevos : contexto' = [contexto EXCEPT ![<<p, 0>>] = 0]
    BY <1>4 DEF AdmitirProceso
  <2>2. <<p, 0>> \in Hilos /\ <<p, 0>>[1] = p
    BY <1>c, Constantes DEF TipoHilos
  <2>3. ~En_memoria(<<p, 0>>) /\ ~(times_in_cpu[<<p, 0>>] > 0)
    BY <2>2, <1>c DEF Contextos
  <2>4. ~EnCpu(<<p, 0>>)
    BY <2>2, <2>3, EnCpuCorre
  <2> QED
    BY <2>1, <2>2, <2>3, <2>4, <1>u, KernelCrea
<1>5. CASE AtenderThreadCancel \/ AtenderExit \/ AtenderSegmentationFault \/ FallarDump
  <2>1. UNCHANGED contexto \/ (\E t \in Hilos : EndThread(t)) \/ \E p : finish_process(p)
    BY <1>5, <1>c
    DEF AtenderThreadCancel, AtenderExit, AtenderSegmentationFault, FallarDump, Proceso, TipoHilos
  <2>2. ASSUME NEW p, finish_process(p) PROVE \E S \in SUBSET Hilos : SinContextos(S)
    BY <2>2 DEF finish_process, Proceso
  <2>3. ASSUME NEW t \in Hilos, EndThread(t) PROVE \E S \in SUBSET Hilos : SinContextos(S)
    BY <2>3 DEF EndThread
  <2> QED
    BY <2>1, <2>2, <2>3, <1>1, <1>2
<1>6. CASE \/ Planner \/ AtenderSigue \/ AtenderBloquea \/ AtenderDumpMemory \/ AtenderSinExec
           \/ AtenderNotInMemory \/ AtenderInterrupcion \/ RecibirAck \/ Desbloquear
           \/ TerminarDump
  <2>1. UNCHANGED contexto
    BY <1>6 DEF Planner, Despachar, FinQuantum, AtenderSigue, AtenderBloquea, AtenderDumpMemory,
       AtenderSinExec, AtenderNotInMemory, AtenderInterrupcion, RecibirAck, Desbloquear,
       TerminarDump
  <2> QED
    BY <2>1, <1>1
<1> QED
  BY <1>3, <1>4, <1>5, <1>6 DEF Handler, Entorno

LEMMA CpuVirtual ==
  ASSUME Inv, Ciclo \/ Dispatch \/ handle_interrupt
  PROVE  Virtual!Next \/ registros' = registros
<1> USE DEF vars, kernelVars, colas, semaforos, kernelPc, memoriaVars, canales, cpuVars,
            turnoVars, cicloVars, interrupVars
<1>c. TipoHilos /\ TipoCpu /\ Registros /\ Conexion
  BY DEF Inv, TypeOK
<1>1. CASE ExecuteLocal \/ ExecuteMem \/ ExecuteSegmentationFault \/ ExecuteSyscall
  <2> DEFINE t == current_thread.hilo
  <2>1. /\ pc = "fetch" /\ thread_in_memory /\ En_memoria(t)
        /\ pc' \in {"check", "memoria", "recv", "syscall"}
        /\ UNCHANGED <<contexto, current_thread, thread_in_memory>>
    BY <1>1 DEF ExecuteLocal, ExecuteMem, ExecuteSegmentationFault, ExecuteSyscall, Fetch
  <2>2. t \in Hilos
    BY <2>1, <1>c, CorreEnCurso DEF Corre, EnCurso, Actual, Interrupcion
  <2>3. cpu_registers'.cuenta = (cpu_registers.cuenta + 1) % M /\ cpu_registers.cuenta # SinContexto
    BY <1>1, <1>c, PasoDeInstruccion, Constantes DEF TipoCpu
  <2>4. registros[t] = cpu_registers.cuenta
    BY <2>1, <2>2 DEF registros, EnCpu
  <2>5. registros' = [registros EXCEPT ![t] = (@ + 1) % M]
    <3>1. \A u \in Hilos : registros'[u] = IF u = t THEN cpu_registers'.cuenta ELSE registros[u]
      BY <2>1, <2>2 DEF registros, En_memoria, EnCpu
    <3>2. registros \in [Hilos -> Int]
      BY <1>c, CpuAssumption DEF registros, TipoHilos, TipoCpu, SinContexto
    <3>3. DOMAIN registros' = Hilos /\ registros' = [u \in Hilos |-> registros'[u]]
      BY DEF registros
    <3> HIDE DEF t
    <3> QED
      BY <2>2, <2>3, <2>4, <3>1, <3>2, <3>3
  <2> HIDE DEF t
  <2> QED
    BY <2>2, <2>3, <2>4, <2>5 DEF Virtual!Next, Virtual!Ejecutar
<1>2. CASE RecibirHilo
  <2>1. pc = "inactivo" /\ pc' = "inactivo" /\ UNCHANGED contexto
    <3>1. EnVuelo
      BY <1>2, <1>c, QueFase DEF RecibirHilo
    <3> QED
      BY <3>1, <1>2 DEF EnVuelo, En, RecibirHilo
  <2> QED
    BY <2>1, MismosRegistros DEF Registro, EnCpu
<1>3. CASE ObtenerContexto
  <2>1. pc = "inactivo"
    BY <1>3, <1>c, QueFase DEF ObtenerContexto, Contexto, En
  <2>2. /\ thread_in_memory' = En_memoria(current_thread.hilo)
        /\ En_memoria(current_thread.hilo) => cpu_registers'.cuenta = contexto[current_thread.hilo]
        /\ UNCHANGED <<contexto, current_thread>>
    BY <1>3 DEF ObtenerContexto
  <2> QED
    BY <2>1, <2>2, MismosRegistros DEF Registro, EnCpu, En_memoria
<1>4. CASE FetchNotInMemory
  <2>1. /\ ~(thread_in_memory /\ En_memoria(current_thread.hilo)) /\ thread_in_memory' = FALSE
        /\ UNCHANGED <<contexto, current_thread>>
    BY <1>4 DEF FetchNotInMemory
  <2> QED
    BY <2>1, MismosRegistros DEF Registro, EnCpu, En_memoria
<1>5. CASE AccederMemoria \/ RecibirRespuesta \/ CheckNada
  <2>1. /\ UNCHANGED <<contexto, current_thread>>
        /\ pc \in {"memoria", "recv", "syscall", "check"} /\ pc' \in {"check", "fetch"}
        /\ (thread_in_memory' = TRUE /\ thread_in_memory) \/ UNCHANGED thread_in_memory
    BY <1>5, <1>c DEF AccederMemoria, RecibirRespuesta, CheckNada, Registros
  <2>2. cpu_registers'.cuenta = cpu_registers.cuenta
    BY <1>5, <1>c, PasoDeMemoria DEF RecibirRespuesta, CheckNada
  <2> QED
    BY <2>1, <2>2, MismosRegistros DEF Registro, EnCpu, En_memoria
<1>6. CASE CheckActualizar
  <2>1. /\ pc = "check" /\ pc' \in {"discard", "interrupt"}
        /\ contexto' = IF En_memoria(current_thread.hilo)
                       THEN [contexto EXCEPT ![current_thread.hilo] = cpu_registers.cuenta]
                       ELSE contexto
        /\ UNCHANGED <<current_thread, cpu_registers, thread_in_memory>>
    BY <1>6 DEF CheckActualizar
  <2>2. current_thread.hilo \in Hilos
    BY <2>1, <1>c, CorreEnCurso DEF Corre, EnCurso, Actual, Interrupcion
  <2>3. En_memoria(current_thread.hilo) => thread_in_memory
    BY <2>1, <1>c DEF Registros, Corre
  <2>4. \A t \in Hilos : contexto'[t] = IF t = current_thread.hilo /\ En_memoria(t)
                                        THEN cpu_registers.cuenta ELSE contexto[t]
    BY <2>1, <2>2, <1>c DEF TipoHilos
  <2>5. \A t \in Hilos : Registro(t)' = contexto'[t]
    BY <2>1 DEF Registro, EnCpu
  <2>6. \A t \in Hilos : Registro(t) = contexto'[t]
    BY <2>1, <2>3, <2>4 DEF Registro, EnCpu
  <2> QED
    BY <2>5, <2>6, MismosRegistros
<1>7. CASE CheckAvisar \/ CheckInterrumpir
  <2>1. pc \in {"discard", "interrupt"} /\ pc' = "inactivo" /\ UNCHANGED contexto
    BY <1>7 DEF CheckAvisar, CheckInterrumpir, Inactivo
  <2> QED
    BY <2>1, MismosRegistros DEF Registro, EnCpu
<1>8. CASE handle_interrupt
  BY <1>8, KernelMismos DEF handle_interrupt
<1> QED
  BY <1>1, <1>2, <1>3, <1>4, <1>5, <1>6, <1>7, <1>8 DEF Ciclo, Dispatch

\* Each thread has registers of its own, which go on where they were whenever it is
\* interrupted, blocked or dispatched again.
THEOREM CadaHiloSusRegistros == Spec => ImplementaVirtual
<1>1. Init => Virtual!Init
  BY DEF Init, Virtual!Init, registros, En_memoria
<1>2. Inv /\ [Next]_vars => [Virtual!Next]_registros
  <2> SUFFICES ASSUME Inv, [Next]_vars PROVE Virtual!Next \/ registros' = registros
    OBVIOUS
  <2>1. CASE Next
    BY <2>1, KernelVirtual, CpuVirtual DEF Next
  <2>2. CASE UNCHANGED vars
    BY <2>2, KernelMismos DEF vars, memoriaVars, cpuVars
  <2> QED
    BY <2>1, <2>2
<1> QED
  BY <1>1, <1>2, Invariante, PTL DEF Spec, ImplementaVirtual, Virtual!Spec

=============================================================================
