---------------------------- MODULE MemoriaProofs ----------------------------
(* Theorems about the processes, threads and dumps of memoria, for every value of *)
(* the constants.                                                                 *)
EXTENDS MemoriaProperties, SequenceTheorems, TLAPS

-----------------------------------------------------------------------------
(* The inductive invariant.  While no handler has used what is not there: *)

\* One request at a time is under sem_short_term until it is posted twice.
Excluye ==
    ~invalid =>
       /\ sem_short_term > 0 => /\ sem_short_term = 1 /\ corto = Nada
                                /\ \A t \in Hilos : dump[t].paso \notin Terminan
       /\ \A t \in Hilos : dump[t].paso \in Terminan =>
             corto = Nada /\ \A k \in Hilos : dump[k].paso \in Terminan => k = t

\* A thread the kernel has not ended is of a process that has not ended.
VivosEnExec == \A t \in vivos : proceso[t[1]] = "EXEC" \/ Expuesto(t[1])

\* A failed dump ended its process, and asks memoria to.
DumpsFallidos ==
    /\ \A p \in fallidos : proceso[p] = "EXIT"
    /\ \A t \in Hilos : dump[t].paso \in Terminan => t[1] \in fallidos

\* What sem_long_term is held for: a process still NEW, or one whose end was asked for
\* under sem_short_term.
PedidoLargo ==
    \/ largo.op = "NADA"
    \/ /\ largo.op = "PROCESS_CREATE" /\ largo.paso \in {"particion", "push", "buscar"}
       /\ largo.hilo \in Hilos /\ proceso[largo.hilo[1]] = "NEW"
    \/ /\ largo.op = "FINISH_PROCESS" /\ largo.paso \in {"buscar", "particion", "quitar", "respuesta"}
       /\ largo.hilo \in Hilos
       /\ \/ /\ largo.para = "desaloja"
             /\ corto.op = "FINISH_PROCESS" /\ corto.hilo = largo.hilo
          \/ largo.para = "dump" /\ dump[largo.hilo].paso \in Terminan

\* What the response handler does for the thread in the cpu, which waits for it, or leaves.
PedidoCorto ==
    \/ corto = Nada
    \/ /\ corto.op = "THREAD_CREATE" /\ corto.paso \in {"buscar", "respuesta"}
       /\ corto.para = "sigue" /\ cpu.fase = "kernel" /\ corto.hilo \in Hilos
       /\ proceso[corto.hilo[1]] = "EXEC" \/ Expuesto(corto.hilo[1])
    \/ /\ corto.op = "FINISH_THREAD" /\ corto.paso \in {"buscar", "quitar", "respuesta"}
       /\ corto.para \in {"sigue", "desaloja"} /\ cpu.fase = "kernel" /\ corto.hilo \in Hilos
       /\ corto.hilo \in vivos \/ Expuesto(corto.hilo[1])
    \/ /\ corto.op = "FINISH_PROCESS" /\ corto.paso \in {"espera", "pedido"}
       /\ corto.para = "desaloja" /\ cpu.fase = "kernel" /\ corto.hilo \in Hilos
       /\ proceso[corto.hilo[1]] = "EXIT"
    \/ corto.op = "ACK" /\ cpu.fase = "actualizar"

\* What the cpu has found in memoria is there unless a failed dump took it; what it has not,
\* no thread that lives has.
PedidoCpu ==
    \/ cpu.fase = "libre"
    \/ /\ cpu.hilo \in Hilos /\ proceso[cpu.hilo[1]] # "NEW"
       /\ \/ cpu.fase \in {"corre", "kernel"} /\ cpu.paso = ""
          \/ cpu.fase = "contexto" /\ cpu.paso = "proceso"
          \/ cpu.fase \in Consultas /\ cpu.paso \in {"buscar", "tids", "usar", "falta"}
       /\ cpu.paso = "tids" => proceso[cpu.hilo[1]] = "EXEC" \/ cpu.hilo[1] \in fallidos
       /\ cpu.paso = "usar" => cpu.hilo \in vivos \/ cpu.hilo[1] \in fallidos
       /\ cpu.paso = "falta" => cpu.hilo \notin vivos \/ proceso[cpu.hilo[1]] = "EXIT"
       /\ cpu.fase # "actualizar" => dump[cpu.hilo].paso = "no"

Creado(p)    == largo.op = "PROCESS_CREATE" /\ largo.hilo[1] = p
Por(p, paso) == largo.op = "FINISH_PROCESS" /\ largo.hilo[1] = p /\ largo.paso = paso

\* lista_procesos has the processes in EXEC, and the one that is being created or finished
\* until its turn comes; of those a failed dump ended when sem_short_term had been posted
\* twice, no other.
Debe(p) == \/ proceso[p] = "EXEC"
           \/ Creado(p) /\ largo.paso = "buscar"
           \/ Terminandose(p) /\ ~Por(p, "respuesta")
ListaProcesos ==
    \A p \in Pids : /\ p \in lista_procesos => Debe(p)
                    /\ Debe(p) => p \in lista_procesos \/ Expuesto(p)
ListaOcupadas ==
    \A p \in Pids \ Vacios :
       p \in ocupadas <=> \/ p \in lista_procesos /\ ~Por(p, "quitar")
                          \/ Creado(p) /\ largo.paso = "push"

\* The threads of a process are those the kernel has, but for the one it is asking for, until
\* the process ends; they go with it.
Servido(op, t) == corto.op = op /\ corto.paso = "respuesta" /\ corto.hilo = t
ListaTids ==
    \A p \in Pids :
       IF proceso[p] = "EXIT" THEN p \in lista_procesos \/ lista_tids[p] = {}
       ELSE \A i \in {t[2] : t \in Hilos} : i \in lista_tids[p] <=>
               \/ <<p, i>> \in vivos /\ ~Servido("FINISH_THREAD", <<p, i>>)
               \/ Servido("THREAD_CREATE", <<p, i>>)

\* A process whose memory is dumped was created.
DumpsDeCreados == \A t \in Hilos : dump[t].paso # "no" => proceso[t[1]] # "NEW"

Activa == /\ Excluye /\ VivosEnExec /\ DumpsFallidos /\ PedidoLargo /\ PedidoCorto /\ PedidoCpu
          /\ ListaProcesos /\ ListaOcupadas /\ ListaTids /\ DumpsDeCreados

\* A dump that no other overlaps has the last connection for itself.
DumpSolo ==
    \A t \in Hilos : dump[t].paso \in EnFileSystem /\ dump[t].solo =>
       LET c == fileSystem_connection IN
       /\ \A k \in Hilos : dump[k].paso \in EnFileSystem => k = t
       /\ dump[t].paso \in {"copiar", "enviar"} => conexiones[c] = Abierta
       /\ dump[t].paso \in {"recibir", "espera"} => conexiones[c].abierta /\ conexiones[c].pedido = t
       /\ dump[t].paso = "espera" => dump[t].conexion = c

Inv == /\ TypeOK /\ (mal = Nadie => Activa)
       /\ PedidosEncuentran /\ SoloPierdenLoTerminado
       /\ DumpSolo /\ RespuestaPropia

-----------------------------------------------------------------------------
LEMMA DeHilos ==
  /\ \A t \in Hilos : /\ t = <<t[1], t[2]>> /\ t[1] \in Pids /\ t[1] \in Nat /\ t[2] \in Nat
                      /\ <<t[1], 0>> \in Hilos /\ t # NoHilo
                      /\ t[2] \in {k[2] : k \in Hilos}
  /\ \A p \in Pids : <<p, 0>> \in Hilos
<1>1. ASSUME NEW t \in Hilos
      PROVE  /\ t = <<t[1], t[2]>> /\ t[1] \in Pids /\ t[1] \in Nat /\ t[2] \in Nat
             /\ <<t[1], 0>> \in Hilos /\ t # NoHilo /\ t[2] \in {k[2] : k \in Hilos}
  <2>1. t \in Nat \X Nat /\ <<t[1], 0>> \in Hilos
    BY MemoriaAssumption
  <2>2. t[1] \in Nat /\ t[2] \in Nat /\ t = <<t[1], t[2]>>
    BY <2>1
  <2>3. t # NoHilo
    BY <2>2 DEF NoHilo
  <2> QED
    BY <2>1, <2>2, <2>3 DEF Pids
<1>2. ASSUME NEW p \in Pids PROVE <<p, 0>> \in Hilos
  BY <1>1 DEF Pids
<1> QED
  BY <1>1, <1>2

LEMMA InitInv == Init => Inv
<1> SUFFICES ASSUME Init PROVE Inv
  OBVIOUS
<1>1. TypeOK
  <2>1. TipoKernel /\ TipoMal
    BY DEF Init, TipoKernel, TipoMal
  <2>2. TipoPedidos
    BY DEF Init, TipoPedidos, Pedidos, Ops, Nada
  <2>3. TipoCpu
    BY DEF Init, TipoCpu, Cpu
  <2>4. TipoListas
    BY DEF Init, TipoListas
  <2>5. TipoDumps
    <3>1. SinDump \in Dumps /\ SinDump.paso \notin EnFileSystem
      BY DEF SinDump, Dumps, EnFileSystem, SinConexion
    <3>2. conexiones = << >> /\ fileSystem_connection = 0
      BY DEF Init, SinConexion
    <3>4. conexiones \in Seq(Canal) /\ Len(conexiones) = 0
      BY <3>2, EmptySeq
    <3>3. dump \in [Hilos -> Dumps] /\ \A t \in Hilos : dump[t].paso = "no"
      BY <3>1 DEF Init, SinDump
    <3> QED
      BY <3>2, <3>3, <3>4 DEF TipoDumps, EnFileSystem
  <2> QED
    BY <2>1, <2>2, <2>3, <2>4, <2>5 DEF TypeOK
<1>2. Activa
  <2>1. corto = Nada /\ largo = Nada /\ cpu.fase = "libre" /\ vivos = {} /\ fallidos = {}
    BY DEF Init, Cpu
  <2>2. \A t \in Hilos : dump[t].paso = "no"
    BY DEF Init, SinDump
  <2>3. Excluye /\ VivosEnExec /\ DumpsFallidos /\ DumpsDeCreados
    BY <2>1, <2>2 DEF Init, Excluye, VivosEnExec, DumpsFallidos, DumpsDeCreados, Terminan
  <2>4. PedidoLargo /\ PedidoCorto /\ PedidoCpu
    BY <2>1 DEF PedidoLargo, PedidoCorto, PedidoCpu, Nada
  <2>8. corto.op = "NADA" /\ largo.op = "NADA" /\ \A t \in Hilos : dump[t].paso \notin Terminan
    BY <2>1, <2>2 DEF Nada, Terminan
  <2>5. \A p \in Pids : proceso[p] \in {"NEW", "EXIT"} /\ ~Creado(p) /\ ~Terminandose(p)
    BY <2>8 DEF Init, Creado, Terminandose
  <2>6. ListaProcesos /\ ListaOcupadas
    BY <2>5 DEF Init, ListaProcesos, ListaOcupadas, Debe
  <2>7. ListaTids
    BY <2>5 DEF Init, ListaTids, Servido, Nada
  <2> QED
    BY <2>3, <2>4, <2>6, <2>7 DEF Activa
<1>3. PedidosEncuentran /\ SoloPierdenLoTerminado
  BY DEF Init, PedidosEncuentran, SoloPierdenLoTerminado, Nadie
<1>4. DumpSolo /\ RespuestaPropia
  BY DEF Init, DumpSolo, RespuestaPropia, SinDump, EnFileSystem
<1> QED
  BY <1>1, <1>2, <1>3, <1>4 DEF Inv

-----------------------------------------------------------------------------
(* What a step leaves as it is *)

\* What leaves the dumps alone keeps what is said of them.
LEMMA MismosDumps ==
  ASSUME Inv, UNCHANGED dumpVars
  PROVE  TipoDumps' /\ DumpSolo' /\ RespuestaPropia'
<1>1. dump' = dump /\ fileSystem_connection' = fileSystem_connection /\ conexiones' = conexiones
  BY DEF dumpVars
<1> QED
  BY <1>1 DEF Inv, TypeOK, TipoDumps, DumpSolo, RespuestaPropia

\* A handler that finds what it uses leaves mal alone.
LEMMA NadieMal ==
  ASSUME mal = Nadie, UNCHANGED mal
  PROVE  TipoMal' /\ PedidosEncuentran' /\ SoloPierdenLoTerminado' /\ mal' = Nadie
<1>1. mal' = Nadie /\ mal'[1] = ""
  BY DEF Nadie
<1> QED
  BY <1>1 DEF TipoMal, PedidosEncuentran, SoloPierdenLoTerminado

\* A step of the handlers that misses nothing keeps the invariant if the state it leaves
\* is right.
LEMMA SinPerdida ==
  ASSUME Inv, mal = Nadie, UNCHANGED mal, UNCHANGED dumpVars,
         TipoKernel', TipoPedidos', TipoCpu', TipoListas', Activa'
  PROVE  Inv'
  BY MismosDumps, NadieMal DEF Inv, TypeOK

\* A handler that misses what it uses, misses it for one of the reasons there may be; nothing
\* is said of memoria then.
LEMMA Perdida ==
  ASSUME Inv, NEW p \in Pids,
         NEW quien \in {"crear_hilo", "finalizar_hilo", "finalizar_proceso", "cpu", "memory_dump"},
         mal' = <<quien, p>>,
         TipoKernel', TipoPedidos', TipoCpu', TipoListas',
         \/ quien = "cpu" /\ p \in fallidos'
         \/ quien = "memory_dump" /\ proceso'[p] = "EXIT"
         \/ quien \notin {"cpu", "memory_dump"} /\ Expuesto(p)',
         TipoDumps', DumpSolo', RespuestaPropia'
  PROVE  Inv'
<1>1. mal'[1] = quien /\ mal'[2] = p
  OBVIOUS
<1>2. TipoMal' /\ mal' # Nadie
  BY <1>1 DEF TipoMal, Nadie
<1>3. PedidosEncuentran'
  BY <1>1 DEF PedidosEncuentran, Expuesto
<1>4. SoloPierdenLoTerminado'
  BY <1>1 DEF SoloPierdenLoTerminado
<1> QED
  BY <1>2, <1>3, <1>4 DEF Inv, TypeOK

\* The handlers of the kernel's requests.
LEMMA PierdePedido ==
  ASSUME Inv, mal = Nadie, NEW e, NEW p \in Pids,
         NEW quien \in {"crear_hilo", "finalizar_hilo", "finalizar_proceso"},
         Usar(e, quien, p), TipoKernel', TipoPedidos', TipoCpu', TipoListas', e => Activa',
         ~e => Expuesto(p)',
         TipoDumps', DumpSolo', RespuestaPropia'
  PROVE  Inv'
<1>1. CASE e
  BY <1>1, NadieMal DEF Inv, TypeOK, Usar
<1>2. CASE ~e
  <2>1. mal' = <<quien, p>>
    BY <1>2 DEF Usar
  <2> QED
    BY <1>2, <2>1, Perdida
<1> QED
  BY <1>1, <1>2

\* The cpu and the dumps.
LEMMA ConPerdida ==
  ASSUME Inv, mal = Nadie, NEW e, NEW quien \in {"cpu", "memory_dump"}, NEW p \in Pids,
         Usar(e, quien, p), TipoKernel', TipoPedidos', TipoCpu', TipoListas', Activa',
         ~e => \/ quien = "cpu" /\ p \in fallidos'
               \/ quien = "memory_dump" /\ proceso'[p] = "EXIT",
         TipoDumps', DumpSolo', RespuestaPropia'
  PROVE  Inv'
<1>1. CASE e
  BY <1>1, NadieMal DEF Inv, TypeOK, Usar
<1>2. CASE ~e
  <2>1. mal' = <<quien, p>>
    BY <1>2 DEF Usar
  <2> QED
    BY <1>2, <2>1, Perdida
<1> QED
  BY <1>1, <1>2

\* The processes that are being ended are the same while the requests for it are.
LEMMA MismosTerminan ==
  ASSUME corto'.op = "FINISH_PROCESS" <=> corto.op = "FINISH_PROCESS",
         corto.op = "FINISH_PROCESS" => corto'.hilo = corto.hilo,
         \A k \in Hilos : dump'[k].paso \in Terminan <=> dump[k].paso \in Terminan
  PROVE  \A p : Terminandose(p)' <=> Terminandose(p)
BY DEF Terminandose

\* What leaves the kernel, the cpu and the dumps alone keeps what is said of them.
LEMMA MismoKernel ==
  ASSUME Inv, mal = Nadie, UNCHANGED <<proceso, vivos, nacidos, fallidos, corto, cpu>>,
         UNCHANGED permisos, UNCHANGED dumpVars, no_memory_for_new_process' \in BOOLEAN
  PROVE  /\ TipoKernel' /\ TipoCpu'
         /\ Excluye' /\ VivosEnExec' /\ DumpsFallidos' /\ PedidoCorto' /\ PedidoCpu' /\ DumpsDeCreados'
         /\ \A p : (Terminandose(p)' <=> Terminandose(p)) /\ (Expuesto(p)' <=> Expuesto(p))
<1>1. TypeOK /\ Activa
  BY DEF Inv
<1>2. dump' = dump /\ sem_short_term' = sem_short_term /\ invalid' = invalid
  BY DEF dumpVars, permisos
<1>3. \A p : (Terminandose(p)' <=> Terminandose(p)) /\ (Expuesto(p)' <=> Expuesto(p))
  BY <1>2 DEF Terminandose, Expuesto
<1>4. TipoKernel' /\ TipoCpu'
  BY <1>1 DEF TypeOK, TipoKernel, TipoCpu
<1>5. Excluye'
  BY <1>1, <1>2 DEF Activa, Excluye
<1>6. VivosEnExec' /\ DumpsFallidos'
  BY <1>1, <1>2, <1>3 DEF Activa, VivosEnExec, DumpsFallidos
<1>7. PedidoCorto'
  BY <1>1, <1>2, <1>3 DEF Activa, PedidoCorto
<1>8. PedidoCpu'
  BY <1>1, <1>2 DEF Activa, PedidoCpu
<1>9. DumpsDeCreados'
  BY <1>1, <1>2 DEF Activa, DumpsDeCreados
<1> QED
  BY <1>3, <1>4, <1>5, <1>6, <1>7, <1>8, <1>9

\* A dump that is not at the filesystem, and goes to another step that is not.
LEMMA DumpFuera ==
  ASSUME Inv, NEW t \in Hilos, NEW d \in Dumps, d.paso \notin EnFileSystem,
         d.paso = "respuesta" => t[1] \in Vacios,
         dump' = [dump EXCEPT ![t] = d], UNCHANGED <<fileSystem_connection, conexiones>>
  PROVE  TipoDumps' /\ DumpSolo' /\ RespuestaPropia'
<1>1. TipoDumps /\ DumpSolo /\ RespuestaPropia
  BY DEF Inv, TypeOK
<1>2. dump' \in [Hilos -> Dumps] /\ \A k \in Hilos : dump'[k] = IF k = t THEN d ELSE dump[k]
  BY <1>1 DEF TipoDumps
<1>3. TipoDumps'
  BY <1>1, <1>2 DEF TipoDumps, EnFileSystem
<1>4. DumpSolo'
  BY <1>1, <1>2 DEF DumpSolo
<1>5. RespuestaPropia'
  BY <1>1, <1>2 DEF RespuestaPropia, EnFileSystem
<1> QED
  BY <1>3, <1>4, <1>5

LEMMA EsNada == Nada.op = "NADA" /\ Nada.paso = "" /\ Nada \in Pedidos
BY DEF Nada, Pedidos, Ops

-----------------------------------------------------------------------------
(* The requests under sem_long_term *)

LEMMA LargoProcesos ==
  ASSUME Inv, mal = Nadie
  PROVE  /\ largo.op = "PROCESS_CREATE" => /\ largo.hilo \in Hilos /\ largo.hilo[1] \in Pids
                                           /\ proceso[largo.hilo[1]] = "NEW"
                                           /\ largo.hilo[1] \notin fallidos
         /\ largo.op = "FINISH_PROCESS" =>
               /\ largo.hilo \in Hilos /\ largo.hilo[1] \in Pids
               /\ proceso[largo.hilo[1]] = "EXIT" /\ Terminandose(largo.hilo[1])
               /\ \/ largo.para = "desaloja" /\ corto.op = "FINISH_PROCESS" /\ corto.hilo = largo.hilo
                  \/ largo.para = "dump" /\ dump[largo.hilo].paso \in Terminan
                        /\ largo.hilo[1] \in fallidos
<1>1. PedidoLargo /\ PedidoCorto /\ DumpsFallidos
  BY DEF Inv, Activa
<1>2. largo.op = "PROCESS_CREATE" => largo.hilo \in Hilos /\ proceso[largo.hilo[1]] = "NEW"
  BY <1>1 DEF PedidoLargo
<1>3. largo.op = "FINISH_PROCESS" =>
         /\ largo.hilo \in Hilos
         /\ \/ largo.para = "desaloja" /\ corto.op = "FINISH_PROCESS" /\ corto.hilo = largo.hilo
            \/ largo.para = "dump" /\ dump[largo.hilo].paso \in Terminan
  BY <1>1 DEF PedidoLargo
<1>4. corto.op = "FINISH_PROCESS" => proceso[corto.hilo[1]] = "EXIT"
  BY <1>1, EsNada DEF PedidoCorto
<1>5. \A t \in Hilos : dump[t].paso \in Terminan => t[1] \in fallidos /\ proceso[t[1]] = "EXIT"
  BY <1>1 DEF DumpsFallidos
<1>6. largo.op = "FINISH_PROCESS" => proceso[largo.hilo[1]] = "EXIT" /\ Terminandose(largo.hilo[1])
  BY <1>3, <1>4, <1>5 DEF Terminandose
<1>7. largo.op = "PROCESS_CREATE" => largo.hilo[1] \notin fallidos
  BY <1>1, <1>2 DEF DumpsFallidos
<1> QED
  BY <1>2, <1>3, <1>5, <1>6, <1>7, DeHilos

LEMMA PasoPedirProcessCreate == ASSUME Inv, PedirProcessCreate PROVE Inv'
<1>1. /\ mal = Nadie /\ largo = Nada
      /\ UNCHANGED <<proceso, vivos, nacidos, no_memory_for_new_process, fallidos, lista_procesos,
                     lista_tids, ocupadas, mal, corto, cpu>>
      /\ UNCHANGED permisos /\ UNCHANGED dumpVars
      /\ sem_short_term' = sem_short_term /\ invalid' = invalid /\ dump' = dump
  BY DEF PedirProcessCreate, listas, kernelVars, sinLargo, dumpVars, permisos
<1>2. PICK q \in Pids : /\ proceso[q] = "NEW"
                        /\ largo' = [op |-> "PROCESS_CREATE", hilo |-> <<q, 0>>,
                                     paso |-> "particion", para |-> "plan"]
  BY DEF PedirProcessCreate
<1>3. Activa /\ TypeOK /\ largo.op = "NADA" /\ <<q, 0>> \in Hilos /\ <<q, 0>>[1] = q
  BY <1>1, EsNada, DeHilos DEF Inv
<1>4. /\ largo'.op = "PROCESS_CREATE" /\ largo'.hilo = <<q, 0>> /\ largo'.paso = "particion"
      /\ largo' \in Pedidos
  BY <1>2, <1>3 DEF Pedidos, Ops
<1>5. /\ TipoKernel' /\ TipoCpu'
      /\ Excluye' /\ VivosEnExec' /\ DumpsFallidos' /\ PedidoCorto' /\ PedidoCpu' /\ DumpsDeCreados'
      /\ \A p : (Terminandose(p)' <=> Terminandose(p)) /\ (Expuesto(p)' <=> Expuesto(p))
  BY <1>1, <1>3, MismoKernel DEF TypeOK, TipoKernel
<1>6. TipoPedidos' /\ TipoListas'
  BY <1>1, <1>3, <1>4 DEF TypeOK, TipoPedidos, TipoListas
<1>7. PedidoLargo'
  BY <1>1, <1>2, <1>3, <1>4 DEF PedidoLargo
<1>8. ListaProcesos' /\ ListaOcupadas'
  BY <1>1, <1>3, <1>4, <1>5 DEF Activa, ListaProcesos, ListaOcupadas, Debe, Creado, Por
<1>9. ListaTids'
  BY <1>1, <1>3 DEF Activa, ListaTids, Servido
<1> QED
  BY <1>1, <1>5, <1>6, <1>7, <1>8, <1>9, SinPerdida DEF Activa

LEMMA PasoCrearParticion == ASSUME Inv, crear_proceso_particion PROVE Inv'
<1> DEFINE q == largo.hilo[1]
<1>1. /\ mal = Nadie /\ largo.op = "PROCESS_CREATE" /\ largo.paso = "particion"
      /\ ocupadas' = (IF q \in Vacios THEN ocupadas ELSE ocupadas \cup {q})
      /\ largo' = [largo EXCEPT !.paso = "push"]
      /\ UNCHANGED <<proceso, vivos, nacidos, no_memory_for_new_process, fallidos, lista_procesos,
                     lista_tids, mal, corto, cpu>>
      /\ UNCHANGED permisos /\ UNCHANGED dumpVars
      /\ sem_short_term' = sem_short_term /\ invalid' = invalid /\ dump' = dump
  BY DEF crear_proceso_particion, Largo, kernelVars, sinLargo, dumpVars, permisos
<1>2. /\ Activa /\ TypeOK /\ q \in Pids /\ largo.hilo \in Hilos /\ proceso[q] = "NEW"
      /\ q \notin fallidos /\ largo \in Pedidos
  BY <1>1, LargoProcesos DEF Inv, TypeOK, TipoPedidos
<1>3. /\ largo'.op = "PROCESS_CREATE" /\ largo'.hilo = largo.hilo /\ largo'.paso = "push"
      /\ largo' \in Pedidos
  BY <1>1, <1>2 DEF Pedidos
<1>4. /\ TipoKernel' /\ TipoCpu'
      /\ Excluye' /\ VivosEnExec' /\ DumpsFallidos' /\ PedidoCorto' /\ PedidoCpu' /\ DumpsDeCreados'
      /\ \A p : (Terminandose(p)' <=> Terminandose(p)) /\ (Expuesto(p)' <=> Expuesto(p))
  BY <1>1, <1>2, MismoKernel DEF TypeOK, TipoKernel
<1>5. TipoPedidos' /\ TipoListas'
  BY <1>1, <1>2, <1>3 DEF TypeOK, TipoPedidos, TipoListas
<1>6. PedidoLargo'
  BY <1>1, <1>2, <1>3 DEF PedidoLargo
<1>7. ListaProcesos' /\ ListaOcupadas'
  BY <1>1, <1>2, <1>3, <1>4 DEF Activa, ListaProcesos, ListaOcupadas, Debe, Creado, Por
<1>8. ListaTids'
  BY <1>1, <1>2 DEF Activa, ListaTids, Servido
<1> QED
  BY <1>1, <1>4, <1>5, <1>6, <1>7, <1>8, SinPerdida DEF Activa

LEMMA PasoCrearSinEspacio == ASSUME Inv, crear_proceso_sin_espacio PROVE Inv'
<1>1. /\ mal = Nadie /\ largo.op = "PROCESS_CREATE" /\ largo.paso = "particion"
      /\ largo' = Nada /\ no_memory_for_new_process' = TRUE
      /\ UNCHANGED <<proceso, vivos, nacidos, fallidos, lista_procesos, lista_tids, ocupadas,
                     mal, corto, cpu>>
      /\ UNCHANGED permisos /\ UNCHANGED dumpVars
      /\ sem_short_term' = sem_short_term /\ invalid' = invalid /\ dump' = dump
  BY DEF crear_proceso_sin_espacio, Largo, listas, sinLargo, dumpVars, permisos
<1>2. Activa /\ TypeOK /\ largo'.op = "NADA" /\ largo' \in Pedidos
  BY <1>1, EsNada DEF Inv
<1>3. /\ TipoKernel' /\ TipoCpu'
      /\ Excluye' /\ VivosEnExec' /\ DumpsFallidos' /\ PedidoCorto' /\ PedidoCpu' /\ DumpsDeCreados'
      /\ \A p : (Terminandose(p)' <=> Terminandose(p)) /\ (Expuesto(p)' <=> Expuesto(p))
  BY <1>1, MismoKernel
<1>4. TipoPedidos' /\ TipoListas'
  BY <1>1, <1>2 DEF TypeOK, TipoPedidos, TipoListas
<1>5. PedidoLargo'
  BY <1>2 DEF PedidoLargo
<1>6. ListaProcesos' /\ ListaOcupadas'
  BY <1>1, <1>2, <1>3 DEF Activa, ListaProcesos, ListaOcupadas, Debe, Creado, Por
<1>7. ListaTids'
  BY <1>1, <1>2 DEF Activa, ListaTids, Servido
<1> QED
  BY <1>1, <1>3, <1>4, <1>5, <1>6, <1>7, SinPerdida DEF Activa

LEMMA PasoCrearPush == ASSUME Inv, crear_proceso_push PROVE Inv'
<1> DEFINE q == largo.hilo[1]
<1>1. /\ mal = Nadie /\ largo.op = "PROCESS_CREATE" /\ largo.paso = "push"
      /\ lista_procesos' = lista_procesos \cup {q}
      /\ largo' = [largo EXCEPT !.paso = "buscar"]
      /\ UNCHANGED <<proceso, vivos, nacidos, no_memory_for_new_process, fallidos, ocupadas,
                     lista_tids, mal, corto, cpu>>
      /\ UNCHANGED permisos /\ UNCHANGED dumpVars
      /\ sem_short_term' = sem_short_term /\ invalid' = invalid /\ dump' = dump
  BY DEF crear_proceso_push, Largo, kernelVars, sinLargo, dumpVars, permisos
<1>2. /\ Activa /\ TypeOK /\ q \in Pids /\ largo.hilo \in Hilos /\ proceso[q] = "NEW"
      /\ q \notin fallidos /\ largo \in Pedidos
  BY <1>1, LargoProcesos DEF Inv, TypeOK, TipoPedidos
<1>3. /\ largo'.op = "PROCESS_CREATE" /\ largo'.hilo = largo.hilo /\ largo'.paso = "buscar"
      /\ largo' \in Pedidos
  BY <1>1, <1>2 DEF Pedidos
<1>4. /\ TipoKernel' /\ TipoCpu'
      /\ Excluye' /\ VivosEnExec' /\ DumpsFallidos' /\ PedidoCorto' /\ PedidoCpu' /\ DumpsDeCreados'
      /\ \A p : (Terminandose(p)' <=> Terminandose(p)) /\ (Expuesto(p)' <=> Expuesto(p))
  BY <1>1, <1>2, MismoKernel DEF TypeOK, TipoKernel
<1>5. TipoPedidos' /\ TipoListas'
  BY <1>1, <1>2, <1>3 DEF TypeOK, TipoPedidos, TipoListas
<1>6. PedidoLargo'
  BY <1>1, <1>2, <1>3 DEF PedidoLargo
<1>7. ListaProcesos' /\ ListaOcupadas'
  BY <1>1, <1>2, <1>3, <1>4 DEF Activa, ListaProcesos, ListaOcupadas, Debe, Creado, Por
<1>8. ListaTids'
  BY <1>1, <1>2 DEF Activa, ListaTids, Servido
<1> QED
  BY <1>1, <1>4, <1>5, <1>6, <1>7, <1>8, SinPerdida DEF Activa

LEMMA PasoCrearHilo == ASSUME Inv, crear_proceso_hilo PROVE Inv'
<1> DEFINE h == largo.hilo
           q == largo.hilo[1]
<1>1. /\ mal = Nadie /\ largo.op = "PROCESS_CREATE" /\ largo.paso = "buscar"
      /\ Usar(q \in lista_procesos, "crear_proceso", q)
      /\ lista_tids' = [lista_tids EXCEPT ![q] = @ \cup {h[2]}]
      /\ vivos' = vivos \cup {h} /\ nacidos' = nacidos \cup {h}
      /\ proceso' = [proceso EXCEPT ![q] = "EXEC"]
      /\ largo' = Nada
      /\ UNCHANGED <<no_memory_for_new_process, fallidos, lista_procesos, ocupadas, corto, cpu>>
      /\ UNCHANGED dumpVars
      /\ sem_short_term' = sem_short_term /\ invalid' = invalid /\ dump' = dump
  BY DEF crear_proceso_hilo, crear_hilo, buscar_proceso, Nace, Largo, sinLargo, dumpVars, permisos
<1>2. /\ Activa /\ TypeOK /\ q \in Pids /\ h \in Hilos /\ proceso[q] = "NEW" /\ q \notin fallidos
      /\ h = <<q, h[2]>> /\ h[2] \in {t[2] : t \in Hilos}
  BY <1>1, LargoProcesos, DeHilos DEF Inv
<1>3. largo'.op = "NADA" /\ largo' \in Pedidos
  BY <1>1, EsNada
<1>4. q \in lista_procesos
  <2>1. Debe(q) /\ ~Expuesto(q)
    BY <1>1, <1>2 DEF Debe, Creado, Expuesto
  <2> QED
    BY <1>2, <2>1 DEF Activa, ListaProcesos
<1>5. mal' = mal
  BY <1>1, <1>4 DEF Usar
<1>6. \A p \in Pids : proceso'[p] = IF p = q THEN "EXEC" ELSE proceso[p]
  BY <1>1, <1>2 DEF TypeOK, TipoKernel
<1>7. \A p \in Pids : lista_tids'[p] = IF p = q THEN lista_tids[p] \cup {h[2]} ELSE lista_tids[p]
  BY <1>1, <1>2 DEF TypeOK, TipoListas
<1>8. TipoKernel'
  BY <1>1, <1>2 DEF TypeOK, TipoKernel
<1>9. TipoPedidos' /\ TipoCpu'
  BY <1>1, <1>2, <1>3 DEF TypeOK, TipoPedidos, TipoCpu
<1>10. TipoListas'
  BY <1>1, <1>2 DEF TypeOK, TipoListas
<1>11. \A p : (Terminandose(p)' <=> Terminandose(p)) /\ (Expuesto(p)' <=> Expuesto(p))
  BY <1>1 DEF Terminandose, Expuesto
<1>12. Excluye'
  BY <1>1, <1>2 DEF Activa, Excluye
<1>13. VivosEnExec'
  <2> SUFFICES ASSUME NEW t \in vivos' PROVE proceso'[t[1]] = "EXEC" \/ Expuesto(t[1])'
    BY DEF VivosEnExec
  <2>1. t[1] \in Pids
    BY <1>8, DeHilos DEF TipoKernel
  <2> QED
    BY <1>1, <1>2, <1>6, <1>11, <2>1 DEF Activa, VivosEnExec
<1>14. DumpsFallidos'
  <2>1. fallidos \subseteq Pids
    BY <1>2 DEF TypeOK, TipoKernel
  <2> QED
    BY <1>1, <1>2, <1>6, <2>1 DEF Activa, DumpsFallidos
<1>15. PedidoLargo'
  BY <1>3 DEF PedidoLargo
<1>16. PedidoCorto'
  BY <1>1, <1>2, <1>6, <1>11, DeHilos DEF Activa, PedidoCorto
<1>17. PedidoCpu'
  BY <1>1, <1>2, <1>6, DeHilos DEF Activa, PedidoCpu
<1>18. DumpsDeCreados'
  BY <1>1, <1>2, <1>6, DeHilos DEF Activa, DumpsDeCreados
<1>19. ListaProcesos' /\ ListaOcupadas'
  BY <1>1, <1>2, <1>3, <1>4, <1>6, <1>11 DEF Activa, ListaProcesos, ListaOcupadas, Debe, Creado, Por
<1>20. ~Servido("FINISH_THREAD", h)
  <2>1. h \notin vivos /\ ~Expuesto(q)
    BY <1>2 DEF Activa, VivosEnExec, Expuesto
  <2> QED
    BY <1>2, <2>1, EsNada DEF Servido, Activa, PedidoCorto
<1>21. ListaTids'
  <2>1. \A op, t : Servido(op, t)' <=> Servido(op, t)
    BY <1>1 DEF Servido
  <2>2. ASSUME NEW p \in Pids, proceso'[p] = "EXIT" PROVE p \in lista_procesos \/ lista_tids'[p] = {}
    BY <1>2, <1>6, <1>7, <2>2 DEF Activa, ListaTids
  <2>3. ASSUME NEW p \in Pids, proceso'[p] # "EXIT", NEW i \in {t[2] : t \in Hilos}
        PROVE  i \in lista_tids'[p] <=> \/ <<p, i>> \in vivos' /\ ~Servido("FINISH_THREAD", <<p, i>>)
                                        \/ Servido("THREAD_CREATE", <<p, i>>)
    <3>1. i \in lista_tids[p] <=> \/ <<p, i>> \in vivos /\ ~Servido("FINISH_THREAD", <<p, i>>)
                                  \/ Servido("THREAD_CREATE", <<p, i>>)
      BY <1>2, <1>6, <2>3 DEF Activa, ListaTids
    <3>2. <<p, i>> = h <=> p = q /\ i = h[2]
      BY <1>2
    <3>3. i \in lista_tids'[p] <=> i \in lista_tids[p] \/ <<p, i>> = h
      BY <1>7, <3>2
    <3> QED
      BY <1>1, <1>20, <3>1, <3>3
  <2> QED
    BY <1>1, <2>1, <2>2, <2>3 DEF ListaTids
<1> QED
  BY <1>1, <1>5, <1>8, <1>9, <1>10, <1>12, <1>13, <1>14, <1>15, <1>16, <1>17, <1>18, <1>19, <1>21,
     SinPerdida DEF Activa

\* The end of a process is asked for: memoria still has it.
LEMMA PasoPedirFinishProcess == ASSUME Inv, PedirFinishProcess PROVE Inv'
<1>1. /\ mal = Nadie /\ largo = Nada
      /\ UNCHANGED <<proceso, vivos, nacidos, no_memory_for_new_process, fallidos, lista_procesos,
                     lista_tids, ocupadas, mal, cpu>>
      /\ sem_short_term' = sem_short_term /\ invalid' = invalid
      /\ UNCHANGED <<fileSystem_connection, conexiones>>
  BY DEF PedirFinishProcess, listas, kernelVars, permisos
<1>2. Activa /\ TypeOK /\ largo.op = "NADA" /\ corto \in Pedidos /\ TipoDumps
  BY <1>1, EsNada DEF Inv, TypeOK, TipoPedidos
<1>3. /\ corto' \in Pedidos /\ largo' \in Pedidos /\ TipoDumps' /\ DumpSolo' /\ RespuestaPropia'
      /\ corto'.op = corto.op /\ corto'.hilo = corto.hilo /\ corto'.para = corto.para
      /\ (corto' = Nada <=> corto = Nada) /\ PedidoCorto'
      /\ \A op, t : op \in {"THREAD_CREATE", "FINISH_THREAD"} => (Servido(op, t)' <=> Servido(op, t))
      /\ \A k \in Hilos : /\ dump'[k].paso \in Terminan <=> dump[k].paso \in Terminan
                          /\ dump'[k].paso = "no" <=> dump[k].paso = "no"
      /\ largo'.op = "FINISH_PROCESS" /\ largo'.paso = "buscar" /\ PedidoLargo'
  <2>1. CASE /\ corto.op = "FINISH_PROCESS" /\ corto.paso = "espera"
             /\ largo' = [corto EXCEPT !.paso = "buscar"]
             /\ corto' = [corto EXCEPT !.paso = "pedido"] /\ dump' = dump
    <3>1. /\ largo'.op = "FINISH_PROCESS" /\ largo'.hilo = corto.hilo /\ largo'.paso = "buscar"
          /\ corto'.op = "FINISH_PROCESS" /\ corto'.hilo = corto.hilo /\ corto'.paso = "pedido"
          /\ corto'.para = corto.para /\ largo'.para = corto.para
          /\ largo' \in Pedidos /\ corto' \in Pedidos
      BY <1>2, <2>1 DEF Pedidos
    <3>2. corto # Nada /\ corto' # Nada
      BY <2>1, <3>1, EsNada
    <3>3. /\ corto.hilo \in Hilos /\ corto.para = "desaloja" /\ cpu.fase = "kernel"
          /\ proceso[corto.hilo[1]] = "EXIT"
      BY <1>2, <2>1, EsNada DEF Activa, PedidoCorto
    <3>4. PedidoCorto' /\ PedidoLargo'
      BY <1>1, <3>1, <3>3 DEF PedidoCorto, PedidoLargo
    <3>5. TipoDumps' /\ DumpSolo' /\ RespuestaPropia'
      BY <1>1, <2>1, MismosDumps DEF dumpVars
    <3>6. \A op, t : op \in {"THREAD_CREATE", "FINISH_THREAD"} => ~Servido(op, t)' /\ ~Servido(op, t)
      BY <2>1, <3>1 DEF Servido
    <3> QED
      BY <2>1, <3>1, <3>2, <3>4, <3>5, <3>6
  <2>2. CASE /\ corto' = corto
             /\ \E t \in Hilos : /\ dump[t].paso = "terminar"
                                 /\ largo' = Pedido("FINISH_PROCESS", t, "buscar", "dump")
                                 /\ dump' = [dump EXCEPT ![t].paso = "pedido"]
    <3>1. PICK t \in Hilos : /\ dump[t].paso = "terminar"
                             /\ largo' = Pedido("FINISH_PROCESS", t, "buscar", "dump")
                             /\ dump' = [dump EXCEPT ![t].paso = "pedido"]
      BY <2>2
    <3> DEFINE d == [dump[t] EXCEPT !.paso = "pedido"]
    <3>2. d \in Dumps /\ d.paso = "pedido" /\ dump' = [dump EXCEPT ![t] = d]
      BY <1>2, <3>1 DEF TipoDumps, Dumps, Terminan
    <3> HIDE DEF d
    <3>3. \A k \in Hilos : dump'[k] = IF k = t THEN d ELSE dump[k]
      BY <1>2, <3>2 DEF TipoDumps
    <3>4. \A k \in Hilos : /\ dump'[k].paso \in Terminan <=> dump[k].paso \in Terminan
                           /\ dump'[k].paso = "no" <=> dump[k].paso = "no"
      BY <3>1, <3>2, <3>3 DEF Terminan
    <3>5. /\ largo'.op = "FINISH_PROCESS" /\ largo'.hilo = t /\ largo'.paso = "buscar"
          /\ largo'.para = "dump" /\ largo' \in Pedidos
      BY <3>1 DEF Pedido, Pedidos, Ops
    <3>6. PedidoLargo'
      BY <3>1, <3>4, <3>5 DEF PedidoLargo, Terminan
    <3>7. TipoDumps' /\ DumpSolo' /\ RespuestaPropia'
      BY <1>1, <3>2, DumpFuera DEF EnFileSystem
    <3>8. PedidoCorto'
      BY <1>1, <1>2, <2>2 DEF Activa, PedidoCorto, Expuesto
    <3> QED
      BY <1>2, <2>2, <3>4, <3>5, <3>6, <3>7, <3>8 DEF Servido
  <2> QED
    BY <2>1, <2>2 DEF PedirFinishProcess
<1>4. TipoKernel' /\ TipoPedidos' /\ TipoCpu' /\ TipoListas'
  BY <1>1, <1>2, <1>3 DEF TypeOK, TipoKernel, TipoPedidos, TipoCpu, TipoListas
<1>5. \A p : (Terminandose(p)' <=> Terminandose(p)) /\ (Expuesto(p)' <=> Expuesto(p))
  BY <1>1, <1>3, MismosTerminan DEF Expuesto
<1>6. Excluye' /\ VivosEnExec' /\ DumpsFallidos' /\ DumpsDeCreados'
  BY <1>1, <1>2, <1>3, <1>5 DEF Activa, Excluye, VivosEnExec, DumpsFallidos, DumpsDeCreados
<1>7. PedidoCpu'
  BY <1>1, <1>2, <1>3 DEF Activa, PedidoCpu
<1>8. ListaProcesos' /\ ListaOcupadas'
  BY <1>1, <1>2, <1>3, <1>5 DEF Activa, ListaProcesos, ListaOcupadas, Debe, Creado, Por
<1>9. ListaTids'
  BY <1>1, <1>2, <1>3 DEF Activa, ListaTids
<1> QED
  BY <1>1, <1>3, <1>4, <1>6, <1>7, <1>8, <1>9, NadieMal DEF Activa, Inv, TypeOK

\* finalizar_proceso misses only a process that somebody else ended as well.
LEMMA FinDe ==
  ASSUME Inv, mal = Nadie, largo.op = "FINISH_PROCESS", largo.paso # "respuesta"
  PROVE  largo.hilo[1] \in lista_procesos \/ Expuesto(largo.hilo[1])
<1>1. largo.hilo[1] \in Pids /\ Debe(largo.hilo[1])
  BY LargoProcesos DEF Debe, Por
<1> QED
  BY <1>1 DEF Inv, Activa, ListaProcesos

LEMMA PasoFinalizarBuscar == ASSUME Inv, finalizar_proceso_buscar PROVE Inv'
<1>0. PICK q \in Pids : largo.hilo[1] = q
  BY LargoProcesos DEF finalizar_proceso_buscar, Largo
<1>1. /\ mal = Nadie /\ largo.op = "FINISH_PROCESS" /\ largo.paso = "buscar"
      /\ Usar(q \in lista_procesos, "finalizar_proceso", q)
      /\ largo' = [largo EXCEPT !.paso = "particion"]
      /\ UNCHANGED <<proceso, vivos, nacidos, no_memory_for_new_process, fallidos, lista_procesos,
                     lista_tids, ocupadas, corto, cpu>>
      /\ UNCHANGED permisos /\ UNCHANGED dumpVars
      /\ sem_short_term' = sem_short_term /\ invalid' = invalid /\ dump' = dump
  BY <1>0 DEF finalizar_proceso_buscar, buscar_proceso, Largo, listas, kernelVars, sinLargo, dumpVars,
         permisos
<1>2. Activa /\ TypeOK /\ largo.hilo \in Hilos /\ largo \in Pedidos
  BY <1>0, <1>1, LargoProcesos DEF Inv, TypeOK, TipoPedidos
<1>3. /\ largo'.op = "FINISH_PROCESS" /\ largo'.hilo = largo.hilo /\ largo'.paso = "particion"
      /\ largo'.para = largo.para /\ largo' \in Pedidos
  BY <1>1, <1>2 DEF Pedidos
<1>4. /\ TipoKernel' /\ TipoCpu'
      /\ Excluye' /\ VivosEnExec' /\ DumpsFallidos' /\ PedidoCorto' /\ PedidoCpu' /\ DumpsDeCreados'
      /\ \A p : (Terminandose(p)' <=> Terminandose(p)) /\ (Expuesto(p)' <=> Expuesto(p))
  BY <1>1, <1>2, MismoKernel DEF TypeOK, TipoKernel
<1>5. TipoPedidos' /\ TipoListas'
  BY <1>1, <1>2, <1>3 DEF TypeOK, TipoPedidos, TipoListas
<1>6. PedidoLargo'
  BY <1>1, <1>2, <1>3 DEF Activa, PedidoLargo
<1>7. ListaProcesos' /\ ListaOcupadas'
  BY <1>0, <1>1, <1>2, <1>3, <1>4 DEF Activa, ListaProcesos, ListaOcupadas, Debe, Creado, Por
<1>8. ListaTids'
  BY <1>1, <1>2 DEF Activa, ListaTids, Servido
<1>9. q \notin lista_procesos => Expuesto(q)'
  BY <1>0, <1>1, <1>4, FinDe
<1>10. TipoDumps' /\ DumpSolo' /\ RespuestaPropia'
  BY <1>1, MismosDumps
<1>11. Activa'
  BY <1>4, <1>6, <1>7, <1>8 DEF Activa
<1> QED
  BY <1>1, <1>2, <1>4, <1>5, <1>9, <1>10, <1>11, PierdePedido

LEMMA PasoFinalizarParticion == ASSUME Inv, finalizar_proceso_particion PROVE Inv'
<1> DEFINE q == largo.hilo[1]
<1>1. /\ mal = Nadie /\ largo.op = "FINISH_PROCESS" /\ largo.paso = "particion"
      /\ ocupadas' = ocupadas \ {q}
      /\ largo' = [largo EXCEPT !.paso = "quitar"]
      /\ UNCHANGED <<proceso, vivos, nacidos, no_memory_for_new_process, fallidos, lista_procesos,
                     lista_tids, mal, corto, cpu>>
      /\ UNCHANGED permisos /\ UNCHANGED dumpVars
      /\ sem_short_term' = sem_short_term /\ invalid' = invalid /\ dump' = dump
  BY DEF finalizar_proceso_particion, Largo, kernelVars, sinLargo, dumpVars, permisos
<1>2. Activa /\ TypeOK /\ q \in Pids /\ largo.hilo \in Hilos /\ largo \in Pedidos
  BY <1>1, LargoProcesos DEF Inv, TypeOK, TipoPedidos
<1>3. /\ largo'.op = "FINISH_PROCESS" /\ largo'.hilo = largo.hilo /\ largo'.paso = "quitar"
      /\ largo'.para = largo.para /\ largo' \in Pedidos
  BY <1>1, <1>2 DEF Pedidos
<1>4. /\ TipoKernel' /\ TipoCpu'
      /\ Excluye' /\ VivosEnExec' /\ DumpsFallidos' /\ PedidoCorto' /\ PedidoCpu' /\ DumpsDeCreados'
      /\ \A p : (Terminandose(p)' <=> Terminandose(p)) /\ (Expuesto(p)' <=> Expuesto(p))
  BY <1>1, <1>2, MismoKernel DEF TypeOK, TipoKernel
<1>5. TipoPedidos' /\ TipoListas'
  BY <1>1, <1>2, <1>3 DEF TypeOK, TipoPedidos, TipoListas
<1>6. PedidoLargo'
  BY <1>1, <1>2, <1>3 DEF Activa, PedidoLargo
<1>7. ListaProcesos' /\ ListaOcupadas'
  BY <1>1, <1>2, <1>3, <1>4 DEF Activa, ListaProcesos, ListaOcupadas, Debe, Creado, Por
<1>8. ListaTids'
  BY <1>1, <1>2 DEF Activa, ListaTids, Servido
<1> QED
  BY <1>1, <1>4, <1>5, <1>6, <1>7, <1>8, SinPerdida DEF Activa

LEMMA PasoFinalizarQuitar == ASSUME Inv, finalizar_proceso_quitar PROVE Inv'
<1>0. PICK q \in Pids : largo.hilo[1] = q
  BY LargoProcesos DEF finalizar_proceso_quitar, Largo
<1>1. /\ mal = Nadie /\ largo.op = "FINISH_PROCESS" /\ largo.paso = "quitar"
      /\ Usar(q \in lista_procesos, "finalizar_proceso", q)
      /\ lista_procesos' = lista_procesos \ {q}
      /\ lista_tids' = [lista_tids EXCEPT ![q] = {}]
      /\ largo' = [largo EXCEPT !.paso = "respuesta"]
      /\ UNCHANGED <<proceso, vivos, nacidos, no_memory_for_new_process, fallidos, ocupadas, corto,
                     cpu>>
      /\ UNCHANGED permisos /\ UNCHANGED dumpVars
      /\ sem_short_term' = sem_short_term /\ invalid' = invalid /\ dump' = dump
  BY <1>0 DEF finalizar_proceso_quitar, buscar_proceso, Largo, kernelVars, sinLargo, dumpVars, permisos
<1>2. /\ Activa /\ TypeOK /\ largo.hilo \in Hilos /\ largo \in Pedidos
      /\ proceso[q] = "EXIT"
  BY <1>0, <1>1, LargoProcesos DEF Inv, TypeOK, TipoPedidos
<1>3. /\ largo'.op = "FINISH_PROCESS" /\ largo'.hilo = largo.hilo /\ largo'.paso = "respuesta"
      /\ largo'.para = largo.para /\ largo' \in Pedidos
  BY <1>1, <1>2 DEF Pedidos
<1>4. /\ TipoKernel' /\ TipoCpu'
      /\ Excluye' /\ VivosEnExec' /\ DumpsFallidos' /\ PedidoCorto' /\ PedidoCpu' /\ DumpsDeCreados'
      /\ \A p : (Terminandose(p)' <=> Terminandose(p)) /\ (Expuesto(p)' <=> Expuesto(p))
  BY <1>1, <1>2, MismoKernel DEF TypeOK, TipoKernel
<1>5. TipoPedidos' /\ TipoListas'
  BY <1>1, <1>2, <1>3 DEF TypeOK, TipoPedidos, TipoListas
<1>6. PedidoLargo'
  BY <1>1, <1>2, <1>3 DEF Activa, PedidoLargo
<1>7. ListaProcesos' /\ ListaOcupadas'
  BY <1>0, <1>1, <1>2, <1>3, <1>4 DEF Activa, ListaProcesos, ListaOcupadas, Debe, Creado, Por
<1>8. \A p \in Pids : lista_tids'[p] = IF p = q THEN {} ELSE lista_tids[p]
  BY <1>1, <1>2 DEF TypeOK, TipoListas
<1>9. ListaTids'
  BY <1>1, <1>2, <1>8 DEF Activa, ListaTids, Servido
<1>10. q \notin lista_procesos => Expuesto(q)'
  BY <1>0, <1>1, <1>4, FinDe
<1>11. TipoDumps' /\ DumpSolo' /\ RespuestaPropia'
  BY <1>1, MismosDumps
<1>12. Activa'
  BY <1>4, <1>6, <1>7, <1>9 DEF Activa
<1> QED
  BY <1>1, <1>2, <1>4, <1>5, <1>10, <1>11, <1>12, PierdePedido

\* The cpu is told to leave its thread.
LEMMA Desaloja ==
  ASSUME cpu.hilo \in Hilos, proceso'[cpu.hilo[1]] # "NEW",
         NEW para \in {"desaloja", "default"}, Desalojar(para)
  PROVE  /\ TipoCpu' /\ PedidoCpu' /\ corto' \in Pedidos /\ PedidoCorto'
         /\ corto'.op = "ACK" /\ corto' # Nada
<1>1. corto' = Pedido("ACK", cpu.hilo, "", para) /\ cpu' = Cpu("actualizar", cpu.hilo, "buscar")
  BY DEF Desalojar
<1>2. cpu'.fase = "actualizar" /\ cpu'.hilo = cpu.hilo /\ cpu'.paso = "buscar" /\ TipoCpu'
  BY <1>1 DEF Cpu, TipoCpu, Consultas
<1>3. corto'.op = "ACK" /\ corto' \in Pedidos
  BY <1>1 DEF Pedido, Pedidos, Ops
<1>4. PedidoCpu' /\ PedidoCorto'
  BY <1>2, <1>3 DEF PedidoCpu, PedidoCorto, Consultas
<1> QED
  BY <1>2, <1>3, <1>4, EsNada

\* A request of a thread that goes on being of a process that was created.
LEMMA CpuEnKernel ==
  ASSUME Inv, mal = Nadie, cpu.fase = "kernel"
  PROVE  /\ cpu.hilo \in Hilos /\ cpu.hilo[1] \in Pids /\ cpu.paso = ""
         /\ proceso[cpu.hilo[1]] # "NEW" /\ dump[cpu.hilo].paso = "no"
<1>1. PedidoCpu
  BY DEF Inv, Activa
<1>2. /\ cpu.hilo \in Hilos /\ proceso[cpu.hilo[1]] # "NEW" /\ cpu.paso = ""
      /\ dump[cpu.hilo].paso = "no"
  BY <1>1 DEF PedidoCpu, Consultas
<1> QED
  BY <1>2, DeHilos

\* The thread that asked: what becomes of the cpu and of sem_short_term.
LEMMA Respuesta ==
  ASSUME Inv, mal = Nadie, corto # Nada, cpu.fase = "kernel", Responder,
         UNCHANGED <<proceso, fallidos, invalid, dump>>
  PROVE  /\ corto' \in Pedidos /\ sem_short_term' \in Nat /\ TipoCpu' /\ corto'.op \in {"NADA", "ACK"}
         /\ Excluye' /\ PedidoCorto' /\ PedidoCpu'
<1>1. /\ TypeOK /\ cpu.hilo \in Hilos /\ cpu.paso = "" /\ proceso[cpu.hilo[1]] # "NEW"
      /\ dump[cpu.hilo].paso = "no"
  BY CpuEnKernel DEF Inv
<1>2. sem_short_term \in Nat
  BY DEF Inv, TypeOK, TipoPedidos
<1>3. ~invalid => sem_short_term = 0 /\ \A t \in Hilos : dump[t].paso \notin Terminan
  <2> SUFFICES ASSUME ~invalid PROVE sem_short_term = 0 /\ \A t \in Hilos : dump[t].paso \notin Terminan
    OBVIOUS
  <2>1. /\ sem_short_term > 0 => corto = Nada
        /\ \A t \in Hilos : dump[t].paso \in Terminan => corto = Nada
    BY DEF Inv, Activa, Excluye
  <2>2. sem_short_term = 0
    BY <1>2, <2>1
  <2>3. \A t \in Hilos : dump[t].paso \notin Terminan
    BY <2>1
  <2> QED
    BY <2>2, <2>3
<1>4. CASE corto' = Nada /\ cpu' = [cpu EXCEPT !.fase = "corre"] /\ Sale
  <2>1. cpu'.fase = "corre" /\ cpu'.hilo = cpu.hilo /\ cpu'.paso = "" /\ TipoCpu'
    BY <1>1, <1>4 DEF TypeOK, TipoCpu
  <2>2. PedidoCpu' /\ PedidoCorto'
    BY <1>1, <1>4, <2>1 DEF PedidoCpu, PedidoCorto
  <2>3. sem_short_term' = sem_short_term + 1 /\ dump' = dump /\ invalid' = invalid
    BY <1>4 DEF Sale
  <2>4. sem_short_term' \in Nat
    BY <1>2, <2>3
  <2>5. ~invalid => sem_short_term' = 1 /\ \A t \in Hilos : dump[t].paso \notin Terminan
    BY <1>3, <2>3
  <2>6. Excluye'
    BY <1>4, <2>3, <2>5 DEF Excluye
  <2> QED
    BY <1>4, <2>1, <2>2, <2>4, <2>6, EsNada
<1>5. CASE Desalojar("desaloja") /\ UNCHANGED sem_short_term
  <2>1. /\ TipoCpu' /\ PedidoCpu' /\ corto' \in Pedidos /\ PedidoCorto'
        /\ corto'.op = "ACK" /\ corto' # Nada
    BY <1>1, <1>5, Desaloja
  <2>2. sem_short_term' = sem_short_term /\ dump' = dump /\ invalid' = invalid
    BY <1>5
  <2>3. ~invalid => sem_short_term' = 0 /\ \A t \in Hilos : dump'[t].paso \notin Terminan
    BY <1>3, <2>2
  <2>4. Excluye'
    BY <2>2, <2>3 DEF Excluye
  <2> QED
    BY <1>2, <2>1, <2>2, <2>4
<1> QED
  BY <1>4, <1>5 DEF Responder

\* A process has one end alone, but for those that are exposed.
LEMMA UnSoloFin ==
  ASSUME Inv, mal = Nadie, NEW p \in Pids, ~Expuesto(p), NEW t \in Hilos, t[1] = p,
         dump[t].paso \in Terminan
  PROVE  /\ corto = Nada
         /\ \A k \in Hilos : dump[k].paso \in Terminan => k = t
<1>1. p \in fallidos
  BY DEF Inv, Activa, DumpsFallidos
<1>2. ~invalid
  BY <1>1 DEF Expuesto
<1> QED
  BY <1>2 DEF Inv, Activa, Excluye

LEMMA PasoRespuestaFinishProcess == ASSUME Inv, RespuestaFinishProcess PROVE Inv'
<1>0. PICK h \in Hilos : largo.hilo = h
  BY LargoProcesos DEF RespuestaFinishProcess, Largo
<1>1. /\ mal = Nadie /\ largo.op = "FINISH_PROCESS" /\ largo.paso = "respuesta"
      /\ largo' = Nada /\ no_memory_for_new_process' = FALSE
      /\ UNCHANGED <<proceso, vivos, nacidos, fallidos, lista_procesos, lista_tids, ocupadas, mal,
                     invalid, fileSystem_connection, conexiones>>
  BY DEF RespuestaFinishProcess, Largo, listas
<1>2. /\ Activa /\ TypeOK /\ TipoDumps /\ h[1] \in Pids /\ proceso[h[1]] = "EXIT"
      /\ sem_short_term \in Nat
      /\ \/ largo.para = "desaloja" /\ corto.op = "FINISH_PROCESS" /\ corto.hilo = h
         \/ largo.para = "dump" /\ dump[h].paso \in Terminan /\ h[1] \in fallidos
  BY <1>0, <1>1, LargoProcesos DEF Inv, TypeOK, TipoPedidos
<1>3. largo'.op = "NADA" /\ largo' \in Pedidos
  BY <1>1, EsNada
<1>4. \A p : Expuesto(p)' <=> Expuesto(p)
  BY <1>1 DEF Expuesto
<1>5. /\ corto' \in Pedidos /\ TipoCpu' /\ sem_short_term' \in Nat
      /\ TipoDumps' /\ DumpSolo' /\ RespuestaPropia'
      /\ \A k \in Hilos : /\ dump'[k].paso \in Terminan => dump[k].paso \in Terminan
                          /\ dump'[k].paso # "no" => dump[k].paso # "no"
      /\ Excluye' /\ PedidoCorto' /\ PedidoCpu'
      /\ \A p \in Pids : IF p = h[1] THEN Terminandose(p)' => Expuesto(p)
                         ELSE Terminandose(p)' <=> Terminandose(p)
      /\ \A op, t : op \in {"THREAD_CREATE", "FINISH_THREAD"} => (Servido(op, t)' <=> Servido(op, t))
  <2>1. CASE largo.para = "desaloja" /\ Desalojar("desaloja") /\ UNCHANGED <<dump, sem_short_term>>
    <3>1. corto.op = "FINISH_PROCESS" /\ corto.hilo = h /\ corto # Nada /\ dump' = dump
      BY <1>2, <2>1, EsNada
    <3>2. cpu.fase = "kernel"
      BY <1>2, <3>1 DEF Activa, PedidoCorto
    <3>3. cpu.hilo \in Hilos /\ proceso'[cpu.hilo[1]] # "NEW"
      BY <1>1, <3>2, CpuEnKernel
    <3>4. /\ TipoCpu' /\ PedidoCpu' /\ corto' \in Pedidos /\ PedidoCorto'
          /\ corto'.op = "ACK" /\ corto' # Nada
      BY <2>1, <3>3, Desaloja
    <3>5. Excluye'
      BY <1>1, <1>2, <2>1, <3>1, <3>4 DEF Activa, Excluye
    <3>6. ASSUME NEW p \in Pids
          PROVE  IF p = h[1] THEN Terminandose(p)' => Expuesto(p)
                 ELSE Terminandose(p)' <=> Terminandose(p)
      <4>1. Terminandose(p)' <=> \E t \in Hilos : t[1] = p /\ dump[t].paso \in Terminan
        BY <3>1, <3>4 DEF Terminandose
      <4>2. (\E t \in Hilos : t[1] = p /\ dump[t].paso \in Terminan) => Expuesto(p)
        BY <1>1, <3>1, UnSoloFin
      <4>3. p # h[1] => (Terminandose(p) <=> \E t \in Hilos : t[1] = p /\ dump[t].paso \in Terminan)
        BY <3>1 DEF Terminandose
      <4> QED
        BY <4>1, <4>2, <4>3
    <3>7. TipoDumps' /\ DumpSolo' /\ RespuestaPropia'
      BY <1>1, <3>1, MismosDumps DEF dumpVars
    <3>8. \A op, t : op \in {"THREAD_CREATE", "FINISH_THREAD"} => (Servido(op, t)' <=> Servido(op, t))
      BY <3>1, <3>4 DEF Servido
    <3> QED
      BY <1>2, <2>1, <3>1, <3>4, <3>5, <3>6, <3>7, <3>8
  <2>2. CASE largo.para = "dump" /\ Sale /\ dump' = [dump EXCEPT ![h] = SinDump]
             /\ corto' = corto /\ cpu' = cpu
    <3>1. dump[h].paso \in Terminan /\ h[1] \in fallidos
      BY <1>2, <2>2
    <3>2. SinDump \in Dumps /\ SinDump.paso = "no"
      BY DEF SinDump, Dumps, EnFileSystem, SinConexion
    <3>3. \A k \in Hilos : dump'[k] = IF k = h THEN SinDump ELSE dump[k]
      BY <1>2, <2>2 DEF TipoDumps
    <3>4. TipoDumps' /\ DumpSolo' /\ RespuestaPropia'
      BY <1>1, <2>2, <3>2, DumpFuera DEF EnFileSystem
    <3>5. \A k \in Hilos : dump'[k].paso \in Terminan <=> dump[k].paso \in Terminan /\ k # h
      BY <3>2, <3>3 DEF Terminan
    <3>6. sem_short_term' \in Nat /\ Excluye'
      <4>1. sem_short_term' = sem_short_term + 1
        BY <2>2 DEF Sale
      <4>2. ~invalid => sem_short_term = 0 /\ corto = Nada
                        /\ \A k \in Hilos : dump[k].paso \in Terminan => k = h
        BY <1>2, <3>1 DEF Activa, Excluye
      <4> QED
        BY <1>1, <1>2, <2>2, <3>5, <4>1, <4>2 DEF Excluye
    <3>7. PedidoCorto'
      BY <1>1, <1>2, <1>4, <2>2 DEF Activa, PedidoCorto
    <3>8. PedidoCpu'
      BY <1>1, <1>2, <2>2, <3>2, <3>3 DEF Activa, PedidoCpu
    <3>9. ASSUME NEW p \in Pids
          PROVE  IF p = h[1] THEN Terminandose(p)' => Expuesto(p)
                 ELSE Terminandose(p)' <=> Terminandose(p)
      <4>1. CASE p = h[1] /\ ~Expuesto(p)
        <5>1. corto = Nada /\ \A k \in Hilos : dump[k].paso \in Terminan => k = h
          BY <1>1, <3>1, <4>1, UnSoloFin
        <5> QED
          BY <2>2, <3>5, <5>1, EsNada DEF Terminandose
      <4>2. CASE p # h[1]
        BY <2>2, <3>5, <4>2 DEF Terminandose
      <4> QED
        BY <4>1, <4>2
    <3> QED
      BY <1>2, <2>2, <3>2, <3>3, <3>4, <3>5, <3>6, <3>7, <3>8, <3>9 DEF TypeOK, TipoPedidos, TipoCpu, Servido
  <2> QED
    BY <1>0, <2>1, <2>2 DEF RespuestaFinishProcess
<1>6. TipoKernel' /\ TipoPedidos' /\ TipoListas'
  BY <1>1, <1>2, <1>3, <1>5 DEF TypeOK, TipoKernel, TipoPedidos, TipoListas
<1>7. VivosEnExec' /\ DumpsFallidos' /\ DumpsDeCreados' /\ PedidoLargo'
  BY <1>1, <1>2, <1>3, <1>4, <1>5
     DEF Activa, VivosEnExec, DumpsFallidos, DumpsDeCreados, PedidoLargo
<1>8. ListaProcesos' /\ ListaOcupadas'
  <2>1. h[1] \notin lista_procesos
    BY <1>0, <1>1, <1>2 DEF Activa, ListaProcesos, Debe, Creado, Por
  <2> QED
    BY <1>0, <1>1, <1>2, <1>3, <1>4, <1>5, <2>1 DEF Activa, ListaProcesos, ListaOcupadas, Debe, Creado, Por
<1>9. ListaTids'
  BY <1>1, <1>2, <1>5 DEF Activa, ListaTids
<1> QED
  BY <1>1, <1>5, <1>6, <1>7, <1>8, <1>9, NadieMal DEF Activa, Inv, TypeOK

-----------------------------------------------------------------------------
(* The requests of the response handler *)

\* Whoever takes the permit is alone, until it is posted twice.
LEMMA EntraSolo ==
  ASSUME Inv, mal = Nadie, Entra
  PROVE  /\ sem_short_term' \in Nat
         /\ ~invalid => /\ sem_short_term' = 0 /\ corto = Nada
                        /\ \A t \in Hilos : dump[t].paso \notin Terminan
<1>1. sem_short_term \in Nat
  BY DEF Inv, TypeOK, TipoPedidos
<1>2. sem_short_term > 0 /\ sem_short_term' = sem_short_term - 1
  BY DEF Entra
<1>3. sem_short_term' \in Nat
  BY <1>1, <1>2
<1>4. ASSUME ~invalid
      PROVE  /\ sem_short_term' = 0 /\ corto = Nada
             /\ \A t \in Hilos : dump[t].paso \notin Terminan
  <2>1. sem_short_term > 0 => /\ sem_short_term = 1 /\ corto = Nada
                              /\ \A t \in Hilos : dump[t].paso \notin Terminan
    BY <1>4 DEF Inv, Activa, Excluye
  <2> QED
    BY <1>2, <2>1
<1> QED
  BY <1>3, <1>4

LEMMA EntraCorto ==
  ASSUME Inv, mal = Nadie, Entra, corto' # Nada, invalid' = invalid,
         \A k \in Hilos : dump'[k].paso \in Terminan <=> dump[k].paso \in Terminan
  PROVE  sem_short_term' \in Nat /\ Excluye'
<1>1. sem_short_term' \in Nat
  BY EntraSolo
<1>2. ~invalid => sem_short_term' = 0 /\ \A t \in Hilos : dump'[t].paso \notin Terminan
  BY EntraSolo
<1> QED
  BY <1>1, <1>2 DEF Excluye

\* A step between requests that do not end a process.
LEMMA OtroPedido ==
  ASSUME Inv, mal = Nadie, corto.op # "FINISH_PROCESS", corto'.op # "FINISH_PROCESS",
         UNCHANGED <<proceso, fallidos, lista_procesos, ocupadas, largo, invalid>>,
         \A k \in Hilos : dump'[k].paso \in Terminan <=> dump[k].paso \in Terminan
  PROVE  /\ DumpsFallidos' /\ PedidoLargo' /\ ListaProcesos' /\ ListaOcupadas'
         /\ \A p : (Terminandose(p)' <=> Terminandose(p)) /\ (Expuesto(p)' <=> Expuesto(p))
<1>1. Activa
  BY DEF Inv
<1>2. \A p : (Terminandose(p)' <=> Terminandose(p)) /\ (Expuesto(p)' <=> Expuesto(p))
  BY MismosTerminan DEF Expuesto
<1>3. DumpsFallidos'
  BY <1>1 DEF Activa, DumpsFallidos
<1>4. PedidoLargo'
  BY <1>1 DEF Activa, PedidoLargo
<1>5. ListaProcesos' /\ ListaOcupadas'
  BY <1>1, <1>2 DEF Activa, ListaProcesos, ListaOcupadas, Debe, Creado, Por
<1> QED
  BY <1>2, <1>3, <1>4, <1>5

\* What leaves the kernel and the dumps alone, and keeps the cpu at the kernel.
LEMMA PideHilo ==
  ASSUME Inv, mal = Nadie, corto.op \in {"NADA", corto'.op},
         corto.paso # "respuesta", corto'.paso # "respuesta",
         corto' \in Pedidos, corto'.op \in {"THREAD_CREATE", "FINISH_THREAD"}, PedidoCorto',
         sem_short_term' \in Nat, Excluye',
         UNCHANGED <<proceso, vivos, nacidos, no_memory_for_new_process, fallidos, lista_procesos,
                     lista_tids, ocupadas, cpu, largo, invalid, dump>>
  PROVE  TipoKernel' /\ TipoPedidos' /\ TipoCpu' /\ TipoListas' /\ Activa'
<1>1. Activa /\ TypeOK
  BY DEF Inv
<1>2. TipoKernel' /\ TipoCpu' /\ TipoListas'
  BY <1>1 DEF TypeOK, TipoKernel, TipoCpu, TipoListas
<1>3. TipoPedidos'
  BY <1>1 DEF TypeOK, TipoPedidos
<1>4. /\ DumpsFallidos' /\ PedidoLargo' /\ ListaProcesos' /\ ListaOcupadas'
      /\ \A p : Expuesto(p)' <=> Expuesto(p)
  BY OtroPedido
<1>5. VivosEnExec' /\ DumpsDeCreados'
  BY <1>1, <1>4 DEF Activa, VivosEnExec, DumpsDeCreados
<1>6. PedidoCpu'
  BY <1>1 DEF Activa, PedidoCpu
<1>7. \A op, t : ~Servido(op, t) /\ ~Servido(op, t)'
  BY DEF Servido
<1>8. ListaTids'
  BY <1>1, <1>7 DEF Activa, ListaTids
<1> QED
  BY <1>2, <1>3, <1>4, <1>5, <1>6, <1>8 DEF Activa

LEMMA PasoAtenderThreadCreate == ASSUME Inv, AtenderThreadCreate PROVE Inv'
<1>1. /\ mal = Nadie /\ corto = Nada /\ cpu.fase = "kernel" /\ cpu.hilo \in vivos /\ Entra
      /\ UNCHANGED <<proceso, vivos, nacidos, no_memory_for_new_process, fallidos, lista_procesos,
                     lista_tids, ocupadas, cpu, largo, invalid, dump>>
      /\ UNCHANGED mal /\ UNCHANGED dumpVars
  BY DEF AtenderThreadCreate, Atiende, listas, kernelVars, sinCorto, dumpVars
<1>2. PICK t \in Hilos \ nacidos : /\ t[1] = cpu.hilo[1]
                                  /\ corto' = Pedido("THREAD_CREATE", t, "buscar", "sigue")
  BY DEF AtenderThreadCreate
<1>3. corto.op = "NADA" /\ corto.paso = "" /\ (proceso[t[1]] = "EXEC" \/ Expuesto(t[1]))
  BY <1>1, <1>2, EsNada DEF Inv, Activa, VivosEnExec
<1>4. /\ corto'.op = "THREAD_CREATE" /\ corto'.hilo = t /\ corto'.paso = "buscar"
      /\ corto'.para = "sigue" /\ corto' \in Pedidos
  BY <1>2 DEF Pedido, Pedidos, Ops
<1>5. PedidoCorto'
  BY <1>1, <1>3, <1>4 DEF PedidoCorto, Expuesto
<1>6. sem_short_term' \in Nat /\ Excluye'
  BY <1>1, <1>4, EntraCorto, EsNada
<1>7. TipoKernel' /\ TipoPedidos' /\ TipoCpu' /\ TipoListas' /\ Activa'
  BY <1>1, <1>3, <1>4, <1>5, <1>6, PideHilo
<1> QED
  BY <1>1, <1>7, SinPerdida

LEMMA PasoAtenderFinishThread == ASSUME Inv, AtenderFinishThread PROVE Inv'
<1>1. /\ mal = Nadie /\ corto = Nada /\ cpu.fase = "kernel" /\ cpu.hilo \in vivos /\ Entra
      /\ UNCHANGED <<proceso, vivos, nacidos, no_memory_for_new_process, fallidos, lista_procesos,
                     lista_tids, ocupadas, cpu, largo, invalid, dump>>
      /\ UNCHANGED mal /\ UNCHANGED dumpVars
  BY DEF AtenderFinishThread, Atiende, listas, kernelVars, sinCorto, dumpVars
<1>2. PICK t \in vivos, para \in {"sigue", "desaloja"} :
         corto' = Pedido("FINISH_THREAD", t, "buscar", para)
  BY <1>1 DEF AtenderFinishThread, Proceso
<1>3. corto.op = "NADA" /\ corto.paso = "" /\ t \in Hilos
  BY <1>1, <1>2, EsNada DEF Inv, TypeOK, TipoKernel
<1>4. /\ corto'.op = "FINISH_THREAD" /\ corto'.hilo = t /\ corto'.paso = "buscar"
      /\ corto'.para = para /\ corto' \in Pedidos
  BY <1>2, <1>3 DEF Pedido, Pedidos, Ops
<1>5. PedidoCorto'
  BY <1>1, <1>3, <1>4 DEF PedidoCorto
<1>6. sem_short_term' \in Nat /\ Excluye'
  BY <1>1, <1>4, EntraCorto, EsNada
<1>7. TipoKernel' /\ TipoPedidos' /\ TipoCpu' /\ TipoListas' /\ Activa'
  BY <1>1, <1>3, <1>4, <1>5, <1>6, PideHilo
<1> QED
  BY <1>1, <1>7, SinPerdida

\* A request of the response handler for a thread misses only a process that is exposed.
LEMMA PideDe ==
  ASSUME Inv, mal = Nadie, corto.op \in {"THREAD_CREATE", "FINISH_THREAD"}
  PROVE  /\ corto.hilo \in Hilos /\ corto.hilo[1] \in Pids /\ cpu.fase = "kernel"
         /\ corto \in Pedidos /\ corto.hilo = <<corto.hilo[1], corto.hilo[2]>>
         /\ corto.hilo[2] \in {t[2] : t \in Hilos}
         /\ proceso[corto.hilo[1]] = "EXEC" \/ Expuesto(corto.hilo[1])
         /\ corto.hilo[1] \in lista_procesos \/ Expuesto(corto.hilo[1])
         /\ corto.op = "THREAD_CREATE" => corto.para = "sigue"
         /\ corto.op = "FINISH_THREAD" => /\ corto.para \in {"sigue", "desaloja"}
                                          /\ corto.hilo \in vivos \/ Expuesto(corto.hilo[1])
<1>1. PedidoCorto /\ VivosEnExec /\ ListaProcesos /\ TipoPedidos
  BY DEF Inv, Activa, TypeOK
<1>2. /\ corto.hilo \in Hilos /\ cpu.fase = "kernel"
      /\ corto.op = "THREAD_CREATE" => corto.para = "sigue"
      /\ corto.op = "FINISH_THREAD" => /\ corto.para \in {"sigue", "desaloja"}
                                       /\ corto.hilo \in vivos \/ Expuesto(corto.hilo[1])
  BY <1>1, EsNada DEF PedidoCorto
<1>3. proceso[corto.hilo[1]] = "EXEC" \/ Expuesto(corto.hilo[1])
  BY <1>1, EsNada DEF PedidoCorto, VivosEnExec
<1>4. corto.hilo[1] \in lista_procesos \/ Expuesto(corto.hilo[1])
  BY <1>1, <1>2, <1>3, DeHilos DEF ListaProcesos, Debe
<1> QED
  BY <1>1, <1>2, <1>3, <1>4, DeHilos DEF TipoPedidos

LEMMA PasoServirThreadCreate == ASSUME Inv, servir_THREAD_CREATE PROVE Inv'
<1>0. PICK q \in Pids, h \in Hilos : corto.hilo[1] = q /\ corto.hilo = h
  BY PideDe DEF servir_THREAD_CREATE, Corto
<1>1. /\ mal = Nadie /\ corto.op = "THREAD_CREATE" /\ corto.paso = "buscar"
      /\ Usar(q \in lista_procesos, "crear_hilo", q)
      /\ lista_tids' = [lista_tids EXCEPT ![q] = @ \cup {h[2]}]
      /\ corto' = [corto EXCEPT !.paso = "respuesta"]
      /\ UNCHANGED <<proceso, vivos, nacidos, no_memory_for_new_process, fallidos, lista_procesos,
                     ocupadas, cpu, largo, invalid, dump>>
      /\ sem_short_term' = sem_short_term /\ UNCHANGED dumpVars
  BY <1>0 DEF servir_THREAD_CREATE, crear_hilo, buscar_proceso, Corto, kernelVars, sinCorto, dumpVars
<1>2. /\ Activa /\ TypeOK /\ cpu.fase = "kernel" /\ corto.para = "sigue" /\ corto \in Pedidos
      /\ h = <<q, h[2]>> /\ h[2] \in {t[2] : t \in Hilos}
      /\ proceso[q] = "EXEC" \/ Expuesto(q)
      /\ q \in lista_procesos \/ Expuesto(q)
  BY <1>0, <1>1, PideDe DEF Inv
<1>3. /\ corto'.op = "THREAD_CREATE" /\ corto'.hilo = h /\ corto'.paso = "respuesta"
      /\ corto'.para = "sigue" /\ corto' \in Pedidos /\ corto # Nada
  BY <1>0, <1>1, <1>2, EsNada DEF Pedidos
<1>4. TipoKernel' /\ TipoCpu'
  BY <1>1, <1>2 DEF TypeOK, TipoKernel, TipoCpu
<1>5. TipoPedidos' /\ TipoListas'
  BY <1>1, <1>2, <1>3 DEF TypeOK, TipoPedidos, TipoListas
<1>6. /\ DumpsFallidos' /\ PedidoLargo' /\ ListaProcesos' /\ ListaOcupadas'
      /\ \A p : Expuesto(p)' <=> Expuesto(p)
  BY <1>1, <1>3, OtroPedido
<1>7. q \notin lista_procesos => Expuesto(q)'
  BY <1>2, <1>6
<1>8. Excluye'
  BY <1>1, <1>2, <1>3 DEF Activa, Excluye
<1>9. VivosEnExec' /\ PedidoCpu' /\ DumpsDeCreados'
  BY <1>1, <1>2, <1>6 DEF Activa, VivosEnExec, PedidoCpu, DumpsDeCreados
<1>10. PedidoCorto'
  BY <1>0, <1>1, <1>2, <1>3, <1>6 DEF PedidoCorto
<1>11. \A p \in Pids : lista_tids'[p] = IF p = q THEN lista_tids[p] \cup {h[2]} ELSE lista_tids[p]
  BY <1>1, <1>2 DEF TypeOK, TipoListas
<1>12. \A t : /\ ~Servido("FINISH_THREAD", t) /\ ~Servido("THREAD_CREATE", t)
              /\ ~Servido("FINISH_THREAD", t)' /\ (Servido("THREAD_CREATE", t)' <=> t = h)
  BY <1>1, <1>3 DEF Servido
<1>13. q \in lista_procesos => ListaTids'
  <2> SUFFICES ASSUME q \in lista_procesos PROVE ListaTids'
    OBVIOUS
  <2>1. ASSUME NEW p \in Pids, proceso[p] = "EXIT" PROVE p \in lista_procesos \/ lista_tids'[p] = {}
    BY <1>2, <1>11, <2>1 DEF Activa, ListaTids
  <2>2. ASSUME NEW p \in Pids, proceso[p] # "EXIT", NEW i \in {t[2] : t \in Hilos}
        PROVE  i \in lista_tids'[p] <=> <<p, i>> \in vivos \/ <<p, i>> = h
    <3>1. i \in lista_tids[p] <=> <<p, i>> \in vivos
      BY <1>2, <1>12, <2>2 DEF Activa, ListaTids
    <3>2. <<p, i>> = h <=> p = q /\ i = h[2]
      BY <1>2
    <3> QED
      BY <1>11, <3>1, <3>2
  <2> QED
    BY <1>1, <1>12, <2>1, <2>2 DEF ListaTids
<1>14. TipoDumps' /\ DumpSolo' /\ RespuestaPropia'
  BY <1>1, MismosDumps
<1>15. q \in lista_procesos => Activa'
  BY <1>6, <1>8, <1>9, <1>10, <1>13 DEF Activa
<1> QED
  BY <1>1, <1>4, <1>5, <1>7, <1>14, <1>15, PierdePedido

LEMMA PasoFinalizarHiloBuscar == ASSUME Inv, finalizar_hilo_buscar PROVE Inv'
<1>0. PICK q \in Pids : corto.hilo[1] = q
  BY PideDe DEF finalizar_hilo_buscar, Corto
<1>1. /\ mal = Nadie /\ corto.op = "FINISH_THREAD" /\ corto.paso = "buscar"
      /\ Usar(q \in lista_procesos, "finalizar_hilo", q)
      /\ corto' = [corto EXCEPT !.paso = "quitar"]
      /\ UNCHANGED <<proceso, vivos, nacidos, no_memory_for_new_process, fallidos, lista_procesos,
                     lista_tids, ocupadas, cpu, largo, invalid, dump>>
      /\ sem_short_term' = sem_short_term /\ UNCHANGED dumpVars
  BY <1>0 DEF finalizar_hilo_buscar, buscar_proceso, Corto, kernelVars, listas, sinCorto, dumpVars
<1>2. /\ Activa /\ TypeOK /\ cpu.fase = "kernel" /\ corto.para \in {"sigue", "desaloja"}
      /\ corto \in Pedidos /\ corto.hilo \in Hilos
      /\ corto.hilo \in vivos \/ Expuesto(q)
      /\ q \in lista_procesos \/ Expuesto(q)
  BY <1>0, <1>1, PideDe DEF Inv
<1>3. /\ corto'.op = "FINISH_THREAD" /\ corto'.hilo = corto.hilo /\ corto'.paso = "quitar"
      /\ corto'.para = corto.para /\ corto' \in Pedidos /\ corto # Nada
  BY <1>1, <1>2, EsNada DEF Pedidos
<1>4. \A p : Expuesto(p)' <=> Expuesto(p)
  BY <1>1 DEF Expuesto
<1>5. PedidoCorto'
  BY <1>0, <1>1, <1>2, <1>3, <1>4 DEF PedidoCorto
<1>6. sem_short_term' \in Nat
  BY <1>1, <1>2 DEF TypeOK, TipoPedidos
<1>7. Excluye'
  BY <1>1, <1>2, <1>3 DEF Activa, Excluye
<1>8. TipoKernel' /\ TipoPedidos' /\ TipoCpu' /\ TipoListas' /\ Activa'
  BY <1>1, <1>3, <1>5, <1>6, <1>7, PideHilo
<1>9. TipoDumps' /\ DumpSolo' /\ RespuestaPropia'
  BY <1>1, MismosDumps
<1>10. q \notin lista_procesos => Expuesto(q)'
  BY <1>2, <1>4
<1> QED
  BY <1>1, <1>8, <1>9, <1>10, PierdePedido

LEMMA PasoFinalizarHiloQuitar == ASSUME Inv, finalizar_hilo_quitar PROVE Inv'
<1>0. PICK q \in Pids, h \in Hilos : corto.hilo[1] = q /\ corto.hilo = h
  BY PideDe DEF finalizar_hilo_quitar, Corto
<1>1. /\ mal = Nadie /\ corto.op = "FINISH_THREAD" /\ corto.paso = "quitar"
      /\ Usar(q \in lista_procesos /\ h[2] \in lista_tids[q], "finalizar_hilo", q)
      /\ lista_tids' = [lista_tids EXCEPT ![q] = @ \ {h[2]}]
      /\ corto' = [corto EXCEPT !.paso = "respuesta"]
      /\ UNCHANGED <<proceso, vivos, nacidos, no_memory_for_new_process, fallidos, lista_procesos,
                     ocupadas, cpu, largo, invalid, dump>>
      /\ sem_short_term' = sem_short_term /\ UNCHANGED dumpVars
  BY <1>0 DEF finalizar_hilo_quitar, buscar_proceso, buscar_hilo, Corto, kernelVars, sinCorto, dumpVars
<1>2. /\ Activa /\ TypeOK /\ cpu.fase = "kernel" /\ corto.para \in {"sigue", "desaloja"}
      /\ corto \in Pedidos /\ h = <<q, h[2]>> /\ h[2] \in {t[2] : t \in Hilos}
      /\ proceso[q] = "EXEC" \/ Expuesto(q)
      /\ h \in vivos \/ Expuesto(q)
      /\ q \in lista_procesos \/ Expuesto(q)
  BY <1>0, <1>1, PideDe DEF Inv
<1>3. /\ corto'.op = "FINISH_THREAD" /\ corto'.hilo = h /\ corto'.paso = "respuesta"
      /\ corto'.para = corto.para /\ corto' \in Pedidos /\ corto # Nada
  BY <1>0, <1>1, <1>2, EsNada DEF Pedidos
<1>4. TipoKernel' /\ TipoCpu'
  BY <1>1, <1>2 DEF TypeOK, TipoKernel, TipoCpu
<1>5. TipoPedidos' /\ TipoListas'
  BY <1>1, <1>2, <1>3 DEF TypeOK, TipoPedidos, TipoListas
<1>6. /\ DumpsFallidos' /\ PedidoLargo' /\ ListaProcesos' /\ ListaOcupadas'
      /\ \A p : Expuesto(p)' <=> Expuesto(p)
  BY <1>1, <1>3, OtroPedido
<1>7. \A t : /\ ~Servido("FINISH_THREAD", t) /\ ~Servido("THREAD_CREATE", t)
             /\ ~Servido("THREAD_CREATE", t)' /\ (Servido("FINISH_THREAD", t)' <=> t = h)
  BY <1>1, <1>3 DEF Servido
<1>8. ASSUME NEW p \in Pids, proceso[p] # "EXIT", NEW i \in {t[2] : t \in Hilos}
      PROVE  i \in lista_tids[p] <=> <<p, i>> \in vivos
  BY <1>2, <1>7, <1>8 DEF Activa, ListaTids
<1>9. ~(q \in lista_procesos /\ h[2] \in lista_tids[q]) => Expuesto(q)'
  <2>1. proceso[q] = "EXEC" /\ h \in vivos => h[2] \in lista_tids[q]
    BY <1>2, <1>8
  <2> QED
    BY <1>2, <1>6, <2>1
<1>10. Excluye'
  BY <1>1, <1>2, <1>3 DEF Activa, Excluye
<1>11. VivosEnExec' /\ PedidoCpu' /\ DumpsDeCreados'
  BY <1>1, <1>2, <1>6 DEF Activa, VivosEnExec, PedidoCpu, DumpsDeCreados
<1>12. PedidoCorto'
  BY <1>0, <1>1, <1>2, <1>3, <1>6 DEF PedidoCorto
<1>13. \A p \in Pids : lista_tids'[p] = IF p = q THEN lista_tids[p] \ {h[2]} ELSE lista_tids[p]
  BY <1>1, <1>2 DEF TypeOK, TipoListas
<1>14. ListaTids'
  <2>1. ASSUME NEW p \in Pids, proceso[p] = "EXIT" PROVE p \in lista_procesos \/ lista_tids'[p] = {}
    BY <1>2, <1>13, <2>1 DEF Activa, ListaTids
  <2>2. ASSUME NEW p \in Pids, proceso[p] # "EXIT", NEW i \in {t[2] : t \in Hilos}
        PROVE  i \in lista_tids'[p] <=> <<p, i>> \in vivos /\ <<p, i>> # h
    <3>1. <<p, i>> = h <=> p = q /\ i = h[2]
      BY <1>2
    <3> QED
      BY <1>8, <1>13, <2>2, <3>1
  <2> QED
    BY <1>1, <1>7, <2>1, <2>2 DEF ListaTids
<1>15. TipoDumps' /\ DumpSolo' /\ RespuestaPropia'
  BY <1>1, MismosDumps
<1>16. Activa'
  BY <1>6, <1>10, <1>11, <1>12, <1>14 DEF Activa
<1> QED
  BY <1>1, <1>4, <1>5, <1>9, <1>15, <1>16, PierdePedido

LEMMA PasoRespuestaThreadCreate == ASSUME Inv, RespuestaThreadCreate PROVE Inv'
<1>0. PICK q \in Pids, h \in Hilos : corto.hilo[1] = q /\ corto.hilo = h
  BY PideDe DEF RespuestaThreadCreate, Corto
<1>1. /\ mal = Nadie /\ corto.op = "THREAD_CREATE" /\ corto.paso = "respuesta" /\ Responder
      /\ vivos' = vivos \cup {h} /\ nacidos' = nacidos \cup {h}
      /\ UNCHANGED <<proceso, no_memory_for_new_process, fallidos, lista_procesos, lista_tids,
                     ocupadas, mal, largo, invalid, dump>>
      /\ UNCHANGED dumpVars
  BY <1>0 DEF RespuestaThreadCreate, Nace, Corto, listas, sinCorto, dumpVars
<1>2. /\ Activa /\ TypeOK /\ cpu.fase = "kernel" /\ corto # Nada
      /\ h = <<q, h[2]>> /\ h[2] \in {t[2] : t \in Hilos}
      /\ proceso[q] = "EXEC" \/ Expuesto(q)
  BY <1>0, <1>1, PideDe, EsNada DEF Inv
<1>3. /\ corto' \in Pedidos /\ sem_short_term' \in Nat /\ TipoCpu' /\ corto'.op \in {"NADA", "ACK"}
      /\ Excluye' /\ PedidoCorto' /\ PedidoCpu'
  BY <1>1, <1>2, Respuesta
<1>4. TipoKernel'
  BY <1>1, <1>2 DEF TypeOK, TipoKernel
<1>5. TipoPedidos' /\ TipoListas'
  BY <1>1, <1>2, <1>3 DEF TypeOK, TipoPedidos, TipoListas
<1>6. /\ DumpsFallidos' /\ PedidoLargo' /\ ListaProcesos' /\ ListaOcupadas'
      /\ \A p : Expuesto(p)' <=> Expuesto(p)
  BY <1>1, <1>3, OtroPedido
<1>7. VivosEnExec' /\ DumpsDeCreados'
  BY <1>0, <1>1, <1>2, <1>6 DEF Activa, VivosEnExec, DumpsDeCreados
<1>8. \A t : /\ ~Servido("FINISH_THREAD", t) /\ ~Servido("THREAD_CREATE", t)'
             /\ ~Servido("FINISH_THREAD", t)' /\ (Servido("THREAD_CREATE", t) <=> t = h)
  BY <1>0, <1>1, <1>3 DEF Servido
<1>9. ListaTids'
  <2>1. ASSUME NEW p \in Pids, proceso[p] = "EXIT" PROVE p \in lista_procesos \/ lista_tids[p] = {}
    BY <1>2, <2>1 DEF Activa, ListaTids
  <2>2. ASSUME NEW p \in Pids, proceso[p] # "EXIT", NEW i \in {t[2] : t \in Hilos}
        PROVE  i \in lista_tids[p] <=> <<p, i>> \in vivos'
    <3>1. i \in lista_tids[p] <=> <<p, i>> \in vivos \/ <<p, i>> = h
      BY <1>2, <1>8, <2>2 DEF Activa, ListaTids
    <3> QED
      BY <1>1, <3>1
  <2> QED
    BY <1>1, <1>8, <2>1, <2>2 DEF ListaTids
<1>10. Activa'
  BY <1>3, <1>6, <1>7, <1>9 DEF Activa
<1> QED
  BY <1>1, <1>3, <1>4, <1>5, <1>10, SinPerdida

LEMMA PasoRespuestaFinishThread == ASSUME Inv, RespuestaFinishThread PROVE Inv'
<1>0. PICK q \in Pids, h \in Hilos : corto.hilo[1] = q /\ corto.hilo = h
  BY PideDe DEF RespuestaFinishThread, Corto
<1>1. /\ mal = Nadie /\ corto.op = "FINISH_THREAD" /\ corto.paso = "respuesta" /\ Responder
      /\ vivos' = vivos \ {h}
      /\ UNCHANGED <<proceso, nacidos, no_memory_for_new_process, fallidos, lista_procesos,
                     lista_tids, ocupadas, mal, largo, invalid, dump>>
      /\ UNCHANGED dumpVars
  BY <1>0 DEF RespuestaFinishThread, Corto, listas, sinCorto, dumpVars
<1>2. /\ Activa /\ TypeOK /\ cpu.fase = "kernel" /\ corto # Nada
      /\ h = <<q, h[2]>> /\ h[2] \in {t[2] : t \in Hilos}
  BY <1>0, <1>1, PideDe, EsNada DEF Inv
<1>3. /\ corto' \in Pedidos /\ sem_short_term' \in Nat /\ TipoCpu' /\ corto'.op \in {"NADA", "ACK"}
      /\ Excluye' /\ PedidoCorto' /\ PedidoCpu'
  BY <1>1, <1>2, Respuesta
<1>4. TipoKernel'
  BY <1>1, <1>2 DEF TypeOK, TipoKernel
<1>5. TipoPedidos' /\ TipoListas'
  BY <1>1, <1>2, <1>3 DEF TypeOK, TipoPedidos, TipoListas
<1>6. /\ DumpsFallidos' /\ PedidoLargo' /\ ListaProcesos' /\ ListaOcupadas'
      /\ \A p : Expuesto(p)' <=> Expuesto(p)
  BY <1>1, <1>3, OtroPedido
<1>7. VivosEnExec' /\ DumpsDeCreados'
  BY <1>1, <1>2, <1>6 DEF Activa, VivosEnExec, DumpsDeCreados
<1>8. \A t : /\ ~Servido("THREAD_CREATE", t) /\ ~Servido("THREAD_CREATE", t)'
             /\ ~Servido("FINISH_THREAD", t)' /\ (Servido("FINISH_THREAD", t) <=> t = h)
  BY <1>0, <1>1, <1>3 DEF Servido
<1>9. ListaTids'
  <2>1. ASSUME NEW p \in Pids, proceso[p] = "EXIT" PROVE p \in lista_procesos \/ lista_tids[p] = {}
    BY <1>2, <2>1 DEF Activa, ListaTids
  <2>2. ASSUME NEW p \in Pids, proceso[p] # "EXIT", NEW i \in {t[2] : t \in Hilos}
        PROVE  i \in lista_tids[p] <=> <<p, i>> \in vivos'
    <3>1. i \in lista_tids[p] <=> <<p, i>> \in vivos /\ <<p, i>> # h
      BY <1>2, <1>8, <2>2 DEF Activa, ListaTids
    <3> QED
      BY <1>1, <3>1
  <2> QED
    BY <1>1, <1>8, <2>1, <2>2 DEF ListaTids
<1>10. Activa'
  BY <1>3, <1>6, <1>7, <1>9 DEF Activa
<1> QED
  BY <1>1, <1>3, <1>4, <1>5, <1>10, SinPerdida

\* A process ends, by its own request or by a dump that failed: it stays in memoria until
\* sem_long_term is taken for it.
LEMMA Termina ==
  ASSUME Inv, mal = Nadie, NEW p \in Pids, proceso[p] = "EXEC" \/ Expuesto(p), Terminar(p),
         fallidos \subseteq fallidos', fallidos' \subseteq fallidos \cup {p}, invalid' = invalid,
         cpu.fase = "kernel" \/ p \in fallidos',
         UNCHANGED <<lista_procesos, lista_tids, ocupadas, cpu, largo>>,
         Terminandose(p)', \A r \in Pids \ {p} : Terminandose(r)' <=> Terminandose(r),
         \A op, t : op \in {"THREAD_CREATE", "FINISH_THREAD"} => (Servido(op, t)' <=> Servido(op, t)),
         \A t \in Hilos : /\ dump'[t].paso = "no" <=> dump[t].paso = "no"
                          /\ dump'[t].paso \in Terminan => \/ dump[t].paso \in Terminan
                                                           \/ t[1] = p /\ p \in fallidos'
  PROVE  /\ TipoKernel' /\ TipoCpu' /\ TipoListas' /\ VivosEnExec' /\ DumpsFallidos' /\ PedidoCpu'
         /\ ListaProcesos' /\ ListaOcupadas' /\ ListaTids' /\ DumpsDeCreados'
<1>1. /\ proceso' = [proceso EXCEPT ![p] = "EXIT"] /\ vivos' = vivos \ Proceso(p)
      /\ UNCHANGED <<nacidos, no_memory_for_new_process>>
  BY DEF Terminar
<1>2. Activa /\ TypeOK /\ fallidos \subseteq Pids
  BY DEF Inv, TypeOK, TipoKernel
<1>3. \A r \in Pids : proceso'[r] = IF r = p THEN "EXIT" ELSE proceso[r]
  BY <1>1, <1>2 DEF TypeOK, TipoKernel
<1>4. \A t : t \in vivos' <=> t \in vivos /\ t[1] # p
  BY <1>1 DEF Proceso
<1>5. \A r : Expuesto(r) => Expuesto(r)'
  BY DEF Expuesto
<1>6. proceso[p] \in {"EXEC", "EXIT"}
  BY <1>2 DEF Activa, DumpsFallidos, Expuesto
<1>7. TipoKernel'
  BY <1>1, <1>2 DEF TypeOK, TipoKernel
<1>8. TipoCpu' /\ TipoListas'
  BY <1>2 DEF TypeOK, TipoCpu, TipoListas
<1>9. VivosEnExec'
  <2> SUFFICES ASSUME NEW t \in vivos' PROVE proceso'[t[1]] = "EXEC" \/ Expuesto(t[1])'
    BY DEF VivosEnExec
  <2>1. t[1] \in Pids /\ t[1] # p /\ t \in vivos
    BY <1>2, <1>4, DeHilos DEF TypeOK, TipoKernel
  <2> QED
    BY <1>2, <1>3, <1>5, <2>1 DEF Activa, VivosEnExec
<1>10. DumpsFallidos'
  <2>1. \A r \in fallidos' : proceso'[r] = "EXIT"
    BY <1>2, <1>3 DEF Activa, DumpsFallidos
  <2>2. \A t \in Hilos : dump'[t].paso \in Terminan => t[1] \in fallidos'
    BY <1>2 DEF Activa, DumpsFallidos
  <2> QED
    BY <2>1, <2>2 DEF DumpsFallidos
<1>11. PedidoCpu'
  <2>1. CASE cpu.fase = "libre"
    BY <2>1 DEF PedidoCpu
  <2>2. CASE cpu.fase # "libre"
    <3>1. cpu.hilo \in Hilos /\ cpu.hilo[1] \in Pids /\ proceso'[cpu.hilo[1]] # "NEW"
      BY <1>2, <1>3, <2>2, DeHilos DEF Activa, PedidoCpu
    <3>2. cpu.fase = "kernel" => cpu.paso = ""
      BY CpuEnKernel
    <3>3. cpu.paso = "tids" => proceso'[cpu.hilo[1]] = "EXEC" \/ cpu.hilo[1] \in fallidos'
      BY <1>2, <1>3, <2>2, <3>1, <3>2 DEF Activa, PedidoCpu
    <3>4. cpu.paso = "usar" => cpu.hilo \in vivos' \/ cpu.hilo[1] \in fallidos'
      BY <1>2, <1>4, <2>2, <3>1, <3>2 DEF Activa, PedidoCpu
    <3>5. cpu.paso = "falta" => cpu.hilo \notin vivos' \/ proceso'[cpu.hilo[1]] = "EXIT"
      BY <1>2, <1>3, <1>4, <2>2, <3>1 DEF Activa, PedidoCpu
    <3>6. cpu.fase # "actualizar" => dump'[cpu.hilo].paso = "no"
      BY <1>2, <2>2, <3>1 DEF Activa, PedidoCpu
    <3> QED
      BY <1>2, <2>2, <3>1, <3>3, <3>4, <3>5, <3>6 DEF Activa, PedidoCpu
  <2> QED
    BY <2>1, <2>2
<1>12. ListaProcesos'
  <2>1. ASSUME NEW r \in Pids, r # p
        PROVE  /\ r \in lista_procesos => Debe(r)'
               /\ Debe(r)' => r \in lista_procesos \/ Expuesto(r)'
    <3>1. Debe(r)' <=> Debe(r)
      BY <1>3, <2>1 DEF Debe, Creado, Por
    <3> QED
      BY <1>2, <1>5, <3>1 DEF Activa, ListaProcesos
  <2>2. p \in lista_procesos => Debe(p)'
    <3>1. p \in lista_procesos => Debe(p)
      BY <1>2 DEF Activa, ListaProcesos
    <3>2. Creado(p) => proceso[p] = "NEW"
      BY LargoProcesos DEF Creado
    <3>3. Por(p, "respuesta") => proceso[p] = "EXIT"
      BY LargoProcesos DEF Por
    <3>4. Debe(p) => ~Por(p, "respuesta")
      BY <1>6, <3>2, <3>3 DEF Debe
    <3>5. Debe(p)' <=> ~Por(p, "respuesta") \/ (Creado(p) /\ largo.paso = "buscar")
      BY <1>3 DEF Debe, Creado, Por
    <3> QED
      BY <3>1, <3>4, <3>5
  <2>3. p \in lista_procesos \/ Expuesto(p)'
    BY <1>2, <1>5 DEF Activa, ListaProcesos, Debe
  <2> QED
    BY <2>1, <2>2, <2>3 DEF ListaProcesos
<1>13. ListaOcupadas'
  BY <1>2 DEF Activa, ListaOcupadas, Creado, Por
<1>14. ListaTids'
  <2>1. p \in lista_procesos \/ lista_tids[p] = {}
    <3>1. CASE proceso[p] = "EXIT"
      BY <1>2, <3>1 DEF Activa, ListaTids
    <3>2. CASE proceso[p] = "EXEC"
      BY <1>2, <3>2 DEF Activa, ListaProcesos, Debe, DumpsFallidos, Expuesto
    <3> QED
      BY <1>6, <3>1, <3>2
  <2>2. ASSUME NEW r \in Pids, r # p, proceso[r] # "EXIT", NEW i \in {t[2] : t \in Hilos}
        PROVE  i \in lista_tids[r] <=> \/ <<r, i>> \in vivos' /\ ~Servido("FINISH_THREAD", <<r, i>>)'
                                       \/ Servido("THREAD_CREATE", <<r, i>>)'
    <3>1. i \in lista_tids[r] <=> \/ <<r, i>> \in vivos /\ ~Servido("FINISH_THREAD", <<r, i>>)
                                  \/ Servido("THREAD_CREATE", <<r, i>>)
      BY <1>2, <2>2 DEF Activa, ListaTids
    <3> QED
      BY <1>4, <2>2, <3>1
  <2>3. \A r \in Pids : proceso[r] = "EXIT" => r \in lista_procesos \/ lista_tids[r] = {}
    BY <1>2 DEF Activa, ListaTids
  <2> QED
    BY <1>3, <2>1, <2>2, <2>3 DEF ListaTids
<1>15. DumpsDeCreados'
  BY <1>2, <1>3, DeHilos DEF Activa, DumpsDeCreados
<1> QED
  BY <1>7, <1>8, <1>9, <1>10, <1>11, <1>12, <1>13, <1>14, <1>15

LEMMA PasoAtenderProcessExit == ASSUME Inv, AtenderProcessExit PROVE Inv'
<1>0. PICK q \in Pids : cpu.hilo[1] = q
  BY CpuEnKernel DEF AtenderProcessExit, Atiende
<1>1. /\ mal = Nadie /\ corto = Nada /\ cpu.fase = "kernel" /\ cpu.hilo \in vivos /\ Entra
      /\ Terminar(q) /\ corto' = Pedido("FINISH_PROCESS", <<q, 0>>, "espera", "desaloja")
      /\ UNCHANGED <<fallidos, lista_procesos, lista_tids, ocupadas, mal, cpu, largo, invalid, dump>>
      /\ UNCHANGED dumpVars
  BY <1>0 DEF AtenderProcessExit, Atiende, listas, sinCorto, dumpVars
<1>2. proceso[q] = "EXEC" \/ Expuesto(q)
  BY <1>0, <1>1 DEF Inv, Activa, VivosEnExec
<1>3. /\ corto'.op = "FINISH_PROCESS" /\ corto'.hilo = <<q, 0>> /\ corto'.paso = "espera"
      /\ corto'.para = "desaloja" /\ corto' \in Pedidos /\ <<q, 0>> \in Hilos /\ <<q, 0>>[1] = q
  BY <1>1, DeHilos DEF Pedido, Pedidos, Ops
<1>4. corto' # Nada /\ corto.op = "NADA"
  BY <1>1, <1>3, EsNada
<1>5. sem_short_term' \in Nat /\ Excluye'
  BY <1>1, <1>4, EntraCorto
<1>6. proceso'[q] = "EXIT"
  BY <1>1 DEF Terminar, Inv, TypeOK, TipoKernel
<1>7. PedidoCorto'
  BY <1>1, <1>3, <1>6 DEF PedidoCorto
<1>8. Terminandose(q)' /\ \A r \in Pids \ {q} : Terminandose(r)' <=> Terminandose(r)
  BY <1>1, <1>3, <1>4 DEF Terminandose
<1>9. \A op, t : op \in {"THREAD_CREATE", "FINISH_THREAD"} => (Servido(op, t)' <=> Servido(op, t))
  BY <1>3, <1>4 DEF Servido
<1>10. /\ TipoKernel' /\ TipoCpu' /\ TipoListas' /\ VivosEnExec' /\ DumpsFallidos' /\ PedidoCpu'
       /\ ListaProcesos' /\ ListaOcupadas' /\ ListaTids' /\ DumpsDeCreados'
  BY <1>1, <1>2, <1>8, <1>9, Termina
<1>11. TipoPedidos'
  BY <1>1, <1>3, <1>5 DEF Inv, TypeOK, TipoPedidos
<1>12. PedidoLargo'
  <2>1. CASE largo.op = "PROCESS_CREATE"
    <3>1. largo.hilo \in Hilos /\ largo.hilo[1] \in Pids /\ largo.hilo[1] # q
          /\ proceso[largo.hilo[1]] = "NEW"
      BY <1>2, <2>1, LargoProcesos, <1>1 DEF Inv, Activa, DumpsFallidos, Expuesto
    <3>2. proceso'[largo.hilo[1]] = "NEW"
      BY <1>1, <3>1 DEF Terminar, Inv, TypeOK, TipoKernel
    <3> QED
      BY <1>1, <2>1, <3>1, <3>2 DEF Inv, Activa, PedidoLargo
  <2>2. CASE largo.op # "PROCESS_CREATE"
    BY <1>1, <1>4, <2>2 DEF Inv, Activa, PedidoLargo
  <2> QED
    BY <2>1, <2>2
<1> QED
  BY <1>1, <1>5, <1>7, <1>10, <1>11, <1>12, SinPerdida DEF Activa

-----------------------------------------------------------------------------
(* The cpu *)

\* What the response handler does while the cpu does not wait for it.
LEMMA FueraDelKernel ==
  ASSUME Inv, mal = Nadie, cpu.fase # "kernel"
  PROVE  \/ corto = Nada
         \/ corto.op = "ACK" /\ cpu.fase = "actualizar"
BY DEF Inv, Activa, PedidoCorto

\* A step of the cpu, that takes sem_short_term or leaves it at most.
LEMMA SoloCpu ==
  ASSUME Inv, mal = Nadie,
         UNCHANGED <<proceso, nacidos, no_memory_for_new_process, fallidos, largo, lista_procesos,
                     lista_tids, ocupadas>>,
         vivos' \subseteq vivos, \A t \in Hilos : proceso[t[1]] = "EXIT" \/ (t \in vivos' <=> t \in vivos),
         TipoCpu', PedidoCpu', corto' \in Pedidos, PedidoCorto',
         sem_short_term' \in Nat, invalid' \in BOOLEAN, invalid => invalid', Excluye',
         corto' = corto \/ (corto.op \in {"NADA", "ACK"} /\ corto'.op \in {"NADA", "ACK"}),
         \A t \in Hilos : /\ dump'[t].paso \in Terminan <=> dump[t].paso \in Terminan
                          /\ dump'[t].paso # "no" => dump[t].paso # "no" \/ proceso[t[1]] # "NEW"
  PROVE  TipoKernel' /\ TipoPedidos' /\ TipoListas' /\ Activa'
<1>1. Activa /\ TypeOK
  BY DEF Inv
<1>2. TipoKernel'
  BY <1>1 DEF TypeOK, TipoKernel
<1>3. TipoPedidos' /\ TipoListas'
  BY <1>1 DEF TypeOK, TipoPedidos, TipoListas
<1>4. \A p : (Terminandose(p)' <=> Terminandose(p)) /\ (Expuesto(p) => Expuesto(p)')
  BY DEF Terminandose, Expuesto
<1>5. VivosEnExec' /\ DumpsFallidos'
  BY <1>1, <1>4 DEF Activa, VivosEnExec, DumpsFallidos
<1>6. DumpsDeCreados'
  BY <1>1 DEF Activa, DumpsDeCreados
<1>7. PedidoLargo'
  <2>1. largo.op = "FINISH_PROCESS" /\ corto.op = "FINISH_PROCESS" => corto' = corto
    OBVIOUS
  <2> QED
    BY <1>1, <2>1 DEF Activa, PedidoLargo
<1>8. ListaProcesos' /\ ListaOcupadas'
  BY <1>1, <1>4 DEF Activa, ListaProcesos, ListaOcupadas, Debe, Creado, Por
<1>9. ListaTids'
  <2>1. \A op, t : op \in {"THREAD_CREATE", "FINISH_THREAD"} => (Servido(op, t)' <=> Servido(op, t))
    BY DEF Servido
  <2>2. ASSUME NEW p \in Pids, proceso[p] # "EXIT", NEW i \in {t[2] : t \in Hilos}
        PROVE  i \in lista_tids[p] <=> \/ <<p, i>> \in vivos' /\ ~Servido("FINISH_THREAD", <<p, i>>)'
                                       \/ Servido("THREAD_CREATE", <<p, i>>)'
    <3>1. i \in lista_tids[p] <=> \/ <<p, i>> \in vivos /\ ~Servido("FINISH_THREAD", <<p, i>>)
                                  \/ Servido("THREAD_CREATE", <<p, i>>)
      BY <1>1, <2>2 DEF Activa, ListaTids
    <3>2. <<p, i>> \in vivos => <<p, i>> \in Hilos /\ <<p, i>>[1] = p
      BY <1>1 DEF TypeOK, TipoKernel
    <3> QED
      BY <2>1, <2>2, <3>1, <3>2
  <2>3. \A p \in Pids : proceso[p] = "EXIT" => p \in lista_procesos \/ lista_tids[p] = {}
    BY <1>1 DEF Activa, ListaTids
  <2> QED
    BY <2>2, <2>3 DEF ListaTids
<1> QED
  BY <1>2, <1>3, <1>5, <1>6, <1>7, <1>8, <1>9 DEF Activa

\* The thread the cpu asks memoria about.
LEMMA CpuConsulta ==
  ASSUME Inv, mal = Nadie, cpu.fase \in Consultas
  PROVE  /\ cpu.hilo \in Hilos /\ cpu.hilo[1] \in Pids /\ proceso[cpu.hilo[1]] \in {"EXEC", "EXIT"}
         /\ cpu.hilo = <<cpu.hilo[1], cpu.hilo[2]>> /\ cpu.hilo[2] \in {t[2] : t \in Hilos}
         /\ cpu.fase # "actualizar" => dump[cpu.hilo].paso = "no"
         /\ cpu.paso = "tids" => proceso[cpu.hilo[1]] = "EXEC" \/ cpu.hilo[1] \in fallidos
         /\ cpu.paso = "usar" => cpu.hilo \in vivos \/ cpu.hilo[1] \in fallidos
         /\ cpu.paso = "falta" => cpu.hilo \notin vivos \/ proceso[cpu.hilo[1]] = "EXIT"
<1>1. PedidoCpu
  BY DEF Inv, Activa
<1>2. cpu.hilo \in Hilos /\ proceso[cpu.hilo[1]] # "NEW"
  BY <1>1 DEF PedidoCpu, Consultas
<1>3. /\ cpu.fase # "actualizar" => dump[cpu.hilo].paso = "no"
      /\ cpu.paso = "tids" => proceso[cpu.hilo[1]] = "EXEC" \/ cpu.hilo[1] \in fallidos
      /\ cpu.paso = "usar" => cpu.hilo \in vivos \/ cpu.hilo[1] \in fallidos
      /\ cpu.paso = "falta" => cpu.hilo \notin vivos \/ proceso[cpu.hilo[1]] = "EXIT"
  BY <1>1 DEF PedidoCpu, Consultas
<1>4. cpu.hilo[1] \in Pids /\ proceso[cpu.hilo[1]] \in {"EXEC", "EXIT"}
  BY <1>2, DeHilos DEF Inv, TypeOK, TipoKernel
<1> QED
  BY <1>2, <1>3, <1>4, DeHilos

\* A step of the cpu that keeps its thread and what it asks, and goes to another part of it.
LEMMA CpuPasa ==
  ASSUME Inv, mal = Nadie, cpu.fase \in Consultas, NEW x \in {"buscar", "tids", "usar", "falta"},
         cpu' = [cpu EXCEPT !.paso = x], UNCHANGED sinCpu,
         x = "tids" => proceso[cpu.hilo[1]] = "EXEC" \/ cpu.hilo[1] \in fallidos,
         x = "usar" => cpu.hilo \in vivos \/ cpu.hilo[1] \in fallidos,
         x = "falta" => cpu.hilo \notin vivos \/ proceso[cpu.hilo[1]] = "EXIT"
  PROVE  TipoKernel' /\ TipoPedidos' /\ TipoCpu' /\ TipoListas' /\ Activa'
<1>1. /\ UNCHANGED <<proceso, vivos, nacidos, no_memory_for_new_process, fallidos, largo, corto,
                     lista_procesos, lista_tids, ocupadas, dump>>
      /\ sem_short_term' = sem_short_term /\ invalid' = invalid
  BY DEF sinCpu, dumpVars, kernelVars, listas, permisos
<1>2. cpu'.fase = cpu.fase /\ cpu'.hilo = cpu.hilo /\ cpu'.paso = x /\ TipoCpu'
  BY DEF Inv, TypeOK, TipoCpu
<1>3. PedidoCpu'
  <2>1. /\ cpu.hilo \in Hilos /\ proceso[cpu.hilo[1]] # "NEW"
        /\ cpu.fase # "actualizar" => dump[cpu.hilo].paso = "no"
    BY CpuConsulta
  <2>2. /\ cpu'.hilo \in Hilos /\ proceso'[cpu'.hilo[1]] # "NEW"
        /\ cpu'.fase \in Consultas /\ cpu'.paso \in {"buscar", "tids", "usar", "falta"}
        /\ cpu'.fase # "actualizar" => dump'[cpu'.hilo].paso = "no"
    BY <1>1, <1>2, <2>1
  <2>3. /\ cpu'.paso = "tids" => proceso'[cpu'.hilo[1]] = "EXEC" \/ cpu'.hilo[1] \in fallidos'
        /\ cpu'.paso = "usar" => cpu'.hilo \in vivos' \/ cpu'.hilo[1] \in fallidos'
        /\ cpu'.paso = "falta" => cpu'.hilo \notin vivos' \/ proceso'[cpu'.hilo[1]] = "EXIT"
    BY <1>1, <1>2
  <2> QED
    BY <2>2, <2>3 DEF PedidoCpu
<1>4. PedidoCorto'
  BY <1>1, <1>2 DEF Inv, Activa, PedidoCorto, Expuesto
<1>5. corto' \in Pedidos /\ sem_short_term' \in Nat /\ invalid' \in BOOLEAN
  BY <1>1 DEF Inv, TypeOK, TipoPedidos
<1>6. Excluye'
  BY <1>1 DEF Inv, Activa, Excluye
<1> QED
  BY <1>1, <1>2, <1>3, <1>4, <1>5, <1>6, SoloCpu

\* What the cpu finds in the list of processes is of a process in EXEC, or of one that a failed
\* dump is ending; what it finds in a list of threads, of a thread that lives, or of such a
\* process; what it does not find, no thread has that lives in a process in EXEC.
LEMMA CpuEncuentra ==
  ASSUME Inv, mal = Nadie, cpu.fase \in Consultas
  PROVE  /\ proceso[cpu.hilo[1]] = "EXEC" => cpu.hilo[1] \in lista_procesos
         /\ cpu.hilo[1] \in lista_procesos => proceso[cpu.hilo[1]] = "EXEC" \/ cpu.hilo[1] \in fallidos
         /\ cpu.hilo \in vivos => \/ cpu.hilo[1] \in lista_procesos /\ cpu.hilo[2] \in lista_tids[cpu.hilo[1]]
                                  \/ cpu.hilo[1] \in fallidos
         /\ cpu.hilo[2] \in lista_tids[cpu.hilo[1]] => cpu.hilo \in vivos \/ cpu.hilo[1] \in fallidos
         /\ cpu.hilo[2] \notin lista_tids[cpu.hilo[1]] =>
               cpu.hilo \notin vivos \/ proceso[cpu.hilo[1]] = "EXIT"
<1> DEFINE q == cpu.hilo[1]
<1>1. Activa
  BY DEF Inv
<1>2. /\ cpu.hilo \in Hilos /\ q \in Pids /\ proceso[q] \in {"EXEC", "EXIT"}
      /\ cpu.hilo = <<q, cpu.hilo[2]>> /\ cpu.hilo[2] \in {t[2] : t \in Hilos}
  BY CpuConsulta
<1>3. corto.op \in {"NADA", "ACK"}
  BY FueraDelKernel, EsNada DEF Consultas
<1>4. Terminandose(q) => q \in fallidos
  BY <1>1, <1>3 DEF Terminandose, Activa, DumpsFallidos
<1>5. ~Creado(q)
  BY <1>2, LargoProcesos DEF Creado
<1>6. \A t : ~Servido("FINISH_THREAD", t) /\ ~Servido("THREAD_CREATE", t)
  BY <1>3 DEF Servido
<1>7. proceso[q] = "EXEC" => q \in lista_procesos
  BY <1>1, <1>2 DEF Activa, ListaProcesos, Debe, Expuesto, DumpsFallidos
<1>8. q \in lista_procesos => proceso[q] = "EXEC" \/ q \in fallidos
  BY <1>1, <1>2, <1>4, <1>5 DEF Activa, ListaProcesos, Debe
<1>9. proceso[q] = "EXEC" => (cpu.hilo[2] \in lista_tids[q] <=> cpu.hilo \in vivos)
  BY <1>1, <1>2, <1>6 DEF Activa, ListaTids
<1>10. proceso[q] = "EXIT" => q \in lista_procesos \/ lista_tids[q] = {}
  BY <1>1, <1>2 DEF Activa, ListaTids
<1>11. cpu.hilo \in vivos => proceso[q] = "EXEC" \/ q \in fallidos
  BY <1>1 DEF Activa, VivosEnExec, Expuesto
<1> QED
  BY <1>2, <1>7, <1>8, <1>9, <1>10, <1>11

LEMMA PasoAtenderBloquea == ASSUME Inv, AtenderBloquea PROVE Inv'
<1>1. /\ mal = Nadie /\ corto = Nada /\ cpu.fase = "kernel" /\ Desalojar("desaloja") /\ Entra
      /\ UNCHANGED <<proceso, vivos, nacidos, no_memory_for_new_process, fallidos, lista_procesos,
                     lista_tids, ocupadas, mal, largo, invalid, dump>>
      /\ UNCHANGED dumpVars
  BY DEF AtenderBloquea, Atiende, sinCorto, kernelVars, dumpVars, listas
<1>2. cpu.hilo \in Hilos /\ proceso'[cpu.hilo[1]] # "NEW"
  BY <1>1, CpuEnKernel
<1>3. /\ TipoCpu' /\ PedidoCpu' /\ corto' \in Pedidos /\ PedidoCorto'
      /\ corto'.op = "ACK" /\ corto' # Nada /\ corto.op = "NADA"
  BY <1>1, <1>2, Desaloja, EsNada
<1>4. sem_short_term' \in Nat /\ Excluye'
  BY <1>1, <1>3, EntraCorto
<1>5. invalid' \in BOOLEAN
  BY <1>1 DEF Inv, TypeOK, TipoPedidos
<1>6. TipoKernel' /\ TipoPedidos' /\ TipoListas' /\ Activa'
  BY <1>1, <1>3, <1>4, <1>5, SoloCpu
<1> QED
  BY <1>1, <1>3, <1>6, SinPerdida

LEMMA PasoDespachar == ASSUME Inv, Despachar PROVE Inv'
<1>1. /\ mal = Nadie /\ cpu.fase = "libre"
      /\ UNCHANGED <<proceso, vivos, nacidos, no_memory_for_new_process, fallidos, lista_procesos,
                     lista_tids, ocupadas, mal, largo, corto, dump>>
      /\ sem_short_term' = sem_short_term /\ invalid' = invalid
      /\ UNCHANGED dumpVars
  BY DEF Despachar, sinCpu, kernelVars, dumpVars, listas, permisos
<1>2. PICK t \in vivos : dump[t].paso = "no" /\ cpu' = Cpu("contexto", t, "proceso")
  BY DEF Despachar
<1>3. t \in Hilos /\ proceso[t[1]] # "NEW"
  BY <1>1 DEF Inv, TypeOK, TipoKernel, Activa, VivosEnExec, DumpsFallidos, Expuesto
<1>4. cpu'.fase = "contexto" /\ cpu'.hilo = t /\ cpu'.paso = "proceso" /\ TipoCpu'
  BY <1>2, <1>3 DEF Cpu, Consultas, TipoCpu
<1>5. PedidoCpu'
  BY <1>1, <1>2, <1>3, <1>4 DEF PedidoCpu
<1>6. corto = Nada /\ PedidoCorto'
  BY <1>1, FueraDelKernel DEF PedidoCorto
<1>7. corto' \in Pedidos /\ sem_short_term' \in Nat /\ invalid' \in BOOLEAN
  BY <1>1 DEF Inv, TypeOK, TipoPedidos
<1>8. Excluye'
  BY <1>1 DEF Inv, Activa, Excluye
<1>9. TipoKernel' /\ TipoPedidos' /\ TipoListas' /\ Activa'
  BY <1>1, <1>4, <1>5, <1>6, <1>7, <1>8, SoloCpu
<1> QED
  BY <1>1, <1>4, <1>9, SinPerdida

LEMMA PasoObtenerContextoProceso == ASSUME Inv, obtener_contexto_proceso PROVE Inv'
<1>1. /\ mal = Nadie /\ cpu.fase \in Consultas
      /\ cpu' = [cpu EXCEPT !.paso = IF cpu.hilo[1] \in lista_procesos THEN "buscar" ELSE "falta"]
      /\ UNCHANGED sinCpu /\ UNCHANGED mal /\ UNCHANGED dumpVars
  BY DEF obtener_contexto_proceso, CpuEn, sinCpu, Consultas, buscar_proceso
<1>2. PICK x \in {"buscar", "falta"} : /\ cpu' = [cpu EXCEPT !.paso = x]
                                       /\ x = "falta" => cpu.hilo[1] \notin lista_procesos
  BY <1>1
<1>3. x = "falta" => proceso[cpu.hilo[1]] = "EXIT"
  BY <1>1, <1>2, CpuEncuentra, CpuConsulta
<1>4. TipoKernel' /\ TipoPedidos' /\ TipoCpu' /\ TipoListas' /\ Activa'
  BY <1>1, <1>2, <1>3, CpuPasa
<1> QED
  BY <1>1, <1>4, SinPerdida

LEMMA PasoCpuBuscarProceso == ASSUME Inv, cpu_buscar_proceso PROVE Inv'
<1>1. /\ mal = Nadie /\ cpu.fase \in Consultas /\ cpu.paso = "buscar"
      /\ cpu' = [cpu EXCEPT !.paso = IF cpu.hilo[1] \in lista_procesos THEN "tids" ELSE "falta"]
      /\ UNCHANGED sinCpu /\ UNCHANGED mal /\ UNCHANGED dumpVars
  BY DEF cpu_buscar_proceso, CpuEn, sinCpu, buscar_proceso
<1>2. PICK x \in {"tids", "falta"} : /\ cpu' = [cpu EXCEPT !.paso = x]
                                     /\ x = "tids" => cpu.hilo[1] \in lista_procesos
                                     /\ x = "falta" => cpu.hilo[1] \notin lista_procesos
  BY <1>1
<1>3. /\ x = "tids" => proceso[cpu.hilo[1]] = "EXEC" \/ cpu.hilo[1] \in fallidos
      /\ x = "falta" => proceso[cpu.hilo[1]] = "EXIT"
  BY <1>1, <1>2, CpuEncuentra, CpuConsulta
<1>4. TipoKernel' /\ TipoPedidos' /\ TipoCpu' /\ TipoListas' /\ Activa'
  BY <1>1, <1>2, <1>3, CpuPasa
<1> QED
  BY <1>1, <1>4, SinPerdida

LEMMA PasoCpuBuscarHilo == ASSUME Inv, cpu_buscar_hilo PROVE Inv'
<1> DEFINE q == cpu.hilo[1]
<1>1. /\ mal = Nadie /\ cpu.fase \in Consultas /\ cpu.paso = "tids"
      /\ Usar(q \in lista_procesos, "cpu", q)
      /\ cpu' = [cpu EXCEPT !.paso = IF cpu.hilo[2] \in lista_tids[q] THEN "usar" ELSE "falta"]
      /\ UNCHANGED sinCpu /\ UNCHANGED dumpVars /\ UNCHANGED fallidos
  BY DEF cpu_buscar_hilo, CpuEn, sinCpu, buscar_proceso, buscar_hilo, kernelVars
<1>2. PICK x \in {"usar", "falta"} : /\ cpu' = [cpu EXCEPT !.paso = x]
                                     /\ x = "usar" => cpu.hilo[2] \in lista_tids[q]
                                     /\ x = "falta" => cpu.hilo[2] \notin lista_tids[q]
  BY <1>1
<1>3. /\ x = "usar" => cpu.hilo \in vivos \/ q \in fallidos
      /\ x = "falta" => cpu.hilo \notin vivos \/ proceso[q] = "EXIT"
  BY <1>1, <1>2, CpuEncuentra
<1>4. TipoKernel' /\ TipoPedidos' /\ TipoCpu' /\ TipoListas' /\ Activa'
  BY <1>1, <1>2, <1>3, CpuPasa
<1>5. q \in Pids /\ (q \notin lista_procesos => q \in fallidos')
  BY <1>1, CpuConsulta, CpuEncuentra
<1>6. TipoDumps' /\ DumpSolo' /\ RespuestaPropia'
  BY <1>1, MismosDumps
<1> QED
  BY <1>1, <1>4, <1>5, <1>6, ConPerdida

\* A step after which the cpu asks memoria nothing, or starts to ask, of the same thread.
LEMMA CpuSigue ==
  ASSUME Inv, mal = Nadie, cpu.fase \notin {"kernel", "actualizar"}, cpu.hilo \in Hilos,
         proceso[cpu.hilo[1]] # "NEW", dump[cpu.hilo].paso = "no",
         cpu' \in {Cpu("corre", cpu.hilo, ""), Cpu("instruccion", cpu.hilo, "buscar"),
                   Cpu("kernel", cpu.hilo, ""), Cpu("actualizar", cpu.hilo, "buscar")},
         UNCHANGED sinCpu
  PROVE  TipoKernel' /\ TipoPedidos' /\ TipoCpu' /\ TipoListas' /\ Activa'
<1>1. /\ UNCHANGED <<proceso, vivos, nacidos, no_memory_for_new_process, fallidos, largo, corto,
                     lista_procesos, lista_tids, ocupadas, dump>>
      /\ sem_short_term' = sem_short_term /\ invalid' = invalid
  BY DEF sinCpu, dumpVars, kernelVars, listas, permisos
<1>2. PICK f, x : /\ cpu' = Cpu(f, cpu.hilo, x)
                  /\ \/ f \in {"corre", "kernel"} /\ x = ""
                     \/ f \in {"instruccion", "actualizar"} /\ x = "buscar"
  OBVIOUS
<1>3. /\ cpu'.hilo = cpu.hilo /\ TipoCpu'
      /\ \/ cpu'.fase \in {"corre", "kernel"} /\ cpu'.paso = ""
         \/ cpu'.fase \in {"instruccion", "actualizar"} /\ cpu'.paso = "buscar"
  BY <1>2 DEF Cpu, TipoCpu, Consultas
<1>4. PedidoCpu'
  BY <1>1, <1>3 DEF PedidoCpu, Consultas
<1>5. corto' \in Pedidos /\ sem_short_term' \in Nat /\ invalid' \in BOOLEAN
  BY <1>1 DEF Inv, TypeOK, TipoPedidos
<1>6. PedidoCorto'
  BY <1>1, FueraDelKernel DEF PedidoCorto
<1>7. Excluye'
  BY <1>1 DEF Inv, Activa, Excluye
<1> QED
  BY <1>1, <1>3, <1>4, <1>5, <1>6, <1>7, SoloCpu

LEMMA PasoCorre == ASSUME Inv, Corre PROVE Inv'
<1>1. /\ mal = Nadie /\ cpu.fase = "corre"
      /\ cpu' \in {Cpu("instruccion", cpu.hilo, "buscar"), Cpu("kernel", cpu.hilo, ""),
                   Cpu("actualizar", cpu.hilo, "buscar")}
      /\ UNCHANGED sinCpu /\ UNCHANGED mal /\ UNCHANGED dumpVars
  BY DEF Corre, CpuEn, sinCpu
<1>2. cpu.hilo \in Hilos /\ proceso[cpu.hilo[1]] # "NEW" /\ dump[cpu.hilo].paso = "no"
  BY <1>1 DEF Inv, Activa, PedidoCpu
<1>3. TipoKernel' /\ TipoPedidos' /\ TipoCpu' /\ TipoListas' /\ Activa'
  BY <1>1, <1>2, CpuSigue
<1> QED
  BY <1>1, <1>3, SinPerdida

LEMMA PasoCpuUsar == ASSUME Inv, cpu_usar PROVE Inv'
<1> DEFINE q == cpu.hilo[1]
<1>1. /\ mal = Nadie /\ cpu.fase \in {"contexto", "instruccion"} /\ cpu.paso = "usar"
      /\ Usar(q \in lista_procesos /\ cpu.hilo[2] \in lista_tids[q], "cpu", q)
      /\ cpu' = Cpu("corre", cpu.hilo, "")
      /\ UNCHANGED sinCpu /\ UNCHANGED dumpVars /\ UNCHANGED fallidos
  BY DEF cpu_usar, CpuEn, sinCpu, buscar_proceso, buscar_hilo, kernelVars
<1>2. cpu.fase \in Consultas
  BY <1>1 DEF Consultas
<1>3. /\ cpu.hilo \in Hilos /\ q \in Pids /\ proceso[q] # "NEW" /\ dump[cpu.hilo].paso = "no"
      /\ cpu.hilo \in vivos \/ q \in fallidos
  BY <1>1, <1>2, CpuConsulta
<1>4. TipoKernel' /\ TipoPedidos' /\ TipoCpu' /\ TipoListas' /\ Activa'
  BY <1>1, <1>3, CpuSigue
<1>5. ~(q \in lista_procesos /\ cpu.hilo[2] \in lista_tids[q]) => q \in fallidos'
  BY <1>1, <1>2, <1>3, CpuEncuentra
<1>6. TipoDumps' /\ DumpSolo' /\ RespuestaPropia'
  BY <1>1, MismosDumps
<1> QED
  BY <1>1, <1>3, <1>4, <1>5, <1>6, ConPerdida

\* The thread the kernel forgets is of a process that ended, or it had forgotten it before.
LEMMA PasoCpuFalta == ASSUME Inv, cpu_falta PROVE Inv'
<1>1. /\ mal = Nadie /\ corto = Nada /\ cpu.fase \in {"contexto", "instruccion"}
      /\ cpu.paso = "falta" /\ Entra /\ Desalojar("default") /\ vivos' = vivos \ {cpu.hilo}
      /\ UNCHANGED <<proceso, nacidos, no_memory_for_new_process, fallidos, lista_procesos,
                     lista_tids, ocupadas, mal, largo, invalid, dump>>
      /\ UNCHANGED dumpVars
  BY DEF cpu_falta, CpuEn, listas, dumpVars
<1>2. /\ cpu.hilo \in Hilos /\ proceso'[cpu.hilo[1]] # "NEW"
      /\ cpu.hilo \notin vivos \/ proceso[cpu.hilo[1]] = "EXIT"
  BY <1>1, CpuConsulta DEF Consultas
<1>3. /\ TipoCpu' /\ PedidoCpu' /\ corto' \in Pedidos /\ PedidoCorto'
      /\ corto'.op = "ACK" /\ corto' # Nada /\ corto.op = "NADA"
  BY <1>1, <1>2, Desaloja, EsNada
<1>4. sem_short_term' \in Nat /\ Excluye'
  BY <1>1, <1>3, EntraCorto
<1>5. invalid' \in BOOLEAN
  BY <1>1 DEF Inv, TypeOK, TipoPedidos
<1>6. vivos' \subseteq vivos /\ \A t \in Hilos : proceso[t[1]] = "EXIT" \/ (t \in vivos' <=> t \in vivos)
  BY <1>1, <1>2
<1>7. TipoKernel' /\ TipoPedidos' /\ TipoListas' /\ Activa'
  BY <1>1, <1>3, <1>4, <1>5, <1>6, SoloCpu
<1> QED
  BY <1>1, <1>3, <1>7, SinPerdida

LEMMA PasoActualizarContexto == ASSUME Inv, actualizar_contexto PROVE Inv'
<1> DEFINE q == cpu.hilo[1]
           hay == cpu.paso = "falta" \/ (q \in lista_procesos /\ cpu.hilo[2] \in lista_tids[q])
<1>1. /\ mal = Nadie /\ cpu.fase = "actualizar" /\ cpu.paso \in {"usar", "falta"}
      /\ Usar(hay, "cpu", q)
      /\ cpu' = Cpu("libre", NoHilo, "") /\ corto' = Nada
      /\ \/ corto.op = "NADA"     /\ sem_short_term' = sem_short_term /\ invalid' = invalid
         \/ corto.para = "desaloja" /\ sem_short_term' = sem_short_term + 1 /\ invalid' = invalid
         \/ corto.para = "default"  /\ sem_short_term' = sem_short_term + 2 /\ invalid' = TRUE
      /\ UNCHANGED <<proceso, vivos, nacidos, no_memory_for_new_process, fallidos, largo,
                     lista_procesos, lista_tids, ocupadas, dump>>
      /\ UNCHANGED dumpVars
  BY DEF actualizar_contexto, CpuEn, buscar_proceso, buscar_hilo, kernelVars, dumpVars, listas,
         permisos, Sale
<1>2. cpu.fase \in Consultas /\ cpu.fase # "kernel"
  BY <1>1 DEF Consultas
<1>3. q \in Pids /\ (cpu.paso = "usar" => cpu.hilo \in vivos \/ q \in fallidos)
  BY <1>1, <1>2, CpuConsulta
<1>4. TipoCpu' /\ PedidoCpu'
  BY <1>1 DEF Cpu, TipoCpu, PedidoCpu
<1>5. PedidoCorto' /\ corto' \in Pedidos /\ corto'.op = "NADA" /\ corto.op \in {"NADA", "ACK"}
  BY <1>1, <1>2, EsNada, FueraDelKernel DEF PedidoCorto
<1>6. sem_short_term \in Nat /\ invalid \in BOOLEAN
  BY DEF Inv, TypeOK, TipoPedidos
<1>7. sem_short_term' \in Nat /\ invalid' \in BOOLEAN /\ (invalid => invalid')
  <2>1. sem_short_term' \in Nat
    <3>1. \/ sem_short_term' = sem_short_term \/ sem_short_term' = sem_short_term + 1
          \/ sem_short_term' = sem_short_term + 2
      BY <1>1
    <3> QED
      BY <1>6, <3>1
  <2>2. invalid' \in BOOLEAN
    BY <1>1, <1>6
  <2>3. invalid => invalid'
    BY <1>1
  <2> QED
    BY <2>1, <2>2, <2>3
<1>8. Excluye'
  <2>1. Excluye
    BY <1>1 DEF Inv, Activa
  <2>2. CASE corto.op = "NADA" /\ sem_short_term' = sem_short_term /\ invalid' = invalid
    <3>1. corto = Nada
      BY <1>1, <1>2, <2>2, FueraDelKernel
    <3> QED
      BY <1>1, <2>1, <2>2, <3>1 DEF Excluye
  <2>3. CASE /\ corto.para = "desaloja" /\ corto # Nada
             /\ sem_short_term' = sem_short_term + 1 /\ invalid' = invalid
    <3>1. ~invalid => ~(sem_short_term > 0) /\ \A t \in Hilos : dump[t].paso \notin Terminan
      BY <2>1, <2>3 DEF Excluye
    <3>2. ~invalid => sem_short_term' = 1
      BY <1>6, <2>3, <3>1
    <3> QED
      BY <1>1, <2>3, <3>1, <3>2 DEF Excluye
  <2>4. CASE invalid' = TRUE
    BY <2>4 DEF Excluye
  <2>5. Nada.para = ""
    BY DEF Nada
  <2> QED
    BY <1>1, <2>2, <2>3, <2>4, <2>5
<1>9. TipoKernel' /\ TipoPedidos' /\ TipoListas' /\ Activa'
  BY <1>1, <1>4, <1>5, <1>7, <1>8, SoloCpu
<1>10. ~hay => q \in fallidos'
  BY <1>1, <1>2, <1>3, CpuEncuentra
<1>11. TipoDumps' /\ DumpSolo' /\ RespuestaPropia'
  BY <1>1, MismosDumps
<1> HIDE DEF hay
<1> QED
  BY <1>1, <1>3, <1>4, <1>9, <1>10, <1>11, ConPerdida

-----------------------------------------------------------------------------
(* The dumps *)

\* No dump starts, and none starts or stops to end its process.
MismosPasos == \A k \in Hilos : /\ dump'[k].paso \in Terminan <=> dump[k].paso \in Terminan
                                /\ dump[k].paso = "no" => dump'[k].paso = "no"

\* What the dumps do to the rest: nothing, until one ends a process.
LEMMA MismoResto ==
  ASSUME Inv, mal = Nadie, UNCHANGED sinDump, MismosPasos
  PROVE  TipoKernel' /\ TipoPedidos' /\ TipoCpu' /\ TipoListas' /\ Activa'
<1>1. /\ UNCHANGED <<proceso, vivos, nacidos, no_memory_for_new_process, fallidos, largo, corto, cpu,
                     lista_procesos, lista_tids, ocupadas>>
      /\ sem_short_term' = sem_short_term /\ invalid' = invalid
  BY DEF sinDump, kernelVars, listas, permisos
<1>2. corto' \in Pedidos /\ sem_short_term' \in Nat /\ invalid' \in BOOLEAN /\ TipoCpu'
  BY <1>1 DEF Inv, TypeOK, TipoCpu, TipoPedidos
<1>3. PedidoCpu'
  BY <1>1 DEF Inv, Activa, PedidoCpu, MismosPasos
<1>4. PedidoCorto'
  BY <1>1 DEF Inv, Activa, PedidoCorto, Expuesto
<1>5. Excluye'
  BY <1>1 DEF Inv, Activa, Excluye, MismosPasos
<1> QED
  BY <1>1, <1>2, <1>3, <1>4, <1>5, SoloCpu DEF MismosPasos

\* A dump only misses a process that ended.
LEMMA UsaDump ==
  ASSUME Inv, mal = Nadie, NEW t \in Hilos, dump[t].paso # "no"
  PROVE  t[1] \in Pids /\ proceso[t[1]] # "NEW" /\ (t[1] \notin lista_procesos => proceso[t[1]] = "EXIT")
<1>1. t[1] \in Pids /\ proceso[t[1]] # "NEW"
  BY DeHilos DEF Inv, Activa, DumpsDeCreados
<1>2. proceso[t[1]] = "EXEC" => t[1] \in lista_procesos
  BY <1>1 DEF Inv, Activa, ListaProcesos, Debe, Expuesto, DumpsFallidos
<1> QED
  BY <1>1, <1>2 DEF Inv, TypeOK, TipoKernel

\* A dump at the filesystem that goes on: those that overlap it have no connection for
\* themselves.
LEMMA DumpEnFileSystem ==
  ASSUME Inv, NEW t \in Hilos, dump[t].paso \in EnFileSystem, NEW d \in Dumps,
         dump' = [dump EXCEPT ![t] = d], d.solo = dump[t].solo,
         fileSystem_connection' = fileSystem_connection,
         conexiones' \in Seq(Canal), Len(conexiones') = Len(conexiones),
         d.paso = "espera" => d.conexion \in 1 .. Len(conexiones),
         d.solo /\ d.paso \in {"copiar", "enviar"} => conexiones'[fileSystem_connection] = Abierta,
         d.solo /\ d.paso \in {"recibir", "espera"} =>
            /\ conexiones'[fileSystem_connection].abierta
            /\ conexiones'[fileSystem_connection].pedido = t,
         d.solo /\ d.paso = "espera" => d.conexion = fileSystem_connection,
         d.solo /\ d.paso \in {"cerrar", "respuesta"} /\ t[1] \notin Vacios => d.de = t
  PROVE  TipoDumps' /\ DumpSolo' /\ RespuestaPropia'
<1>1. TipoDumps /\ DumpSolo /\ RespuestaPropia
  BY DEF Inv, TypeOK
<1>2. dump' \in [Hilos -> Dumps] /\ \A k \in Hilos : dump'[k] = IF k = t THEN d ELSE dump[k]
  BY <1>1 DEF TipoDumps
<1>3. \A k \in Hilos : k # t /\ dump[k].paso \in EnFileSystem => ~dump[k].solo
  BY <1>1 DEF DumpSolo
<1>4. DOMAIN conexiones = 1 .. Len(conexiones) /\ DOMAIN conexiones' = 1 .. Len(conexiones)
  BY <1>1, LenProperties DEF TipoDumps
<1>5. TipoDumps'
  BY <1>1, <1>2, <1>4 DEF TipoDumps
<1>6. DumpSolo'
  <2> SUFFICES ASSUME NEW k \in Hilos, dump'[k].paso \in EnFileSystem, dump'[k].solo
               PROVE  /\ \A j \in Hilos : dump'[j].paso \in EnFileSystem => j = k
                      /\ dump'[k].paso \in {"copiar", "enviar"} =>
                            conexiones'[fileSystem_connection] = Abierta
                      /\ dump'[k].paso \in {"recibir", "espera"} =>
                            /\ conexiones'[fileSystem_connection].abierta
                            /\ conexiones'[fileSystem_connection].pedido = k
                      /\ dump'[k].paso = "espera" => dump'[k].conexion = fileSystem_connection
    BY DEF DumpSolo
  <2>1. k = t /\ dump'[k] = d
    BY <1>2, <1>3
  <2>2. \A j \in Hilos : j # t => dump[j].paso \notin EnFileSystem
    BY <1>1, <2>1 DEF DumpSolo
  <2> QED
    BY <1>2, <2>1, <2>2
<1>7. RespuestaPropia'
  BY <1>1, <1>2 DEF RespuestaPropia
<1> QED
  BY <1>5, <1>6, <1>7

\* One connection changes.
LEMMA CambiaCanal ==
  ASSUME TipoDumps, NEW c \in 1 .. Len(conexiones), NEW e \in Canal,
         conexiones' = [conexiones EXCEPT ![c] = e]
  PROVE  /\ conexiones' \in Seq(Canal) /\ Len(conexiones') = Len(conexiones)
         /\ \A i \in 1 .. Len(conexiones) : conexiones'[i] = IF i = c THEN e ELSE conexiones[i]
<1>1. conexiones \in Seq(Canal)
  BY DEF TipoDumps
<1>2. conexiones' \in Seq(Canal) /\ Len(conexiones') = Len(conexiones)
  BY <1>1, ExceptSeq
<1>3. conexiones \in [1 .. Len(conexiones) -> Canal]
  BY <1>1, LenProperties
<1> QED
  BY <1>2, <1>3

\* The step of the dump of a thread.
LEMMA DeDump ==
  ASSUME Inv, NEW t \in Hilos
  PROVE  /\ TipoDumps /\ dump[t] \in Dumps
         /\ dump[t].paso \in EnFileSystem =>
               /\ fileSystem_connection \in 1 .. Len(conexiones)
               /\ conexiones[fileSystem_connection] \in Canal
         /\ dump[t].paso = "espera" =>
               dump[t].conexion \in 1 .. Len(conexiones) /\ conexiones[dump[t].conexion] \in Canal
<1>1. TipoDumps
  BY DEF Inv, TypeOK
<1>2. conexiones \in [1 .. Len(conexiones) -> Canal] /\ Len(conexiones) \in Nat
      /\ DOMAIN conexiones = 1 .. Len(conexiones)
  BY <1>1, LenProperties DEF TipoDumps
<1>3. dump[t].paso \in EnFileSystem => fileSystem_connection \in 1 .. Len(conexiones)
  <2>1. fileSystem_connection \in 0 .. Len(conexiones)
    BY <1>1 DEF TipoDumps
  <2>2. dump[t].paso \in EnFileSystem => fileSystem_connection # 0
    BY <1>1 DEF TipoDumps, SinConexion
  <2> QED
    BY <1>2, <2>1, <2>2
<1>4. dump[t].paso = "espera" => dump[t].conexion \in 1 .. Len(conexiones)
  BY <1>1, <1>2 DEF TipoDumps
<1> QED
  BY <1>1, <1>2, <1>3, <1>4 DEF TipoDumps

\* The thread of a dump goes to another step.
LEMMA DumpPasa ==
  ASSUME NEW d \in Dumps, NEW x \in EnFileSystem \cup {"no", "buscar", "tamanio", "conectar", "respuesta"}
  PROVE  /\ [d EXCEPT !.paso = x] \in Dumps /\ [d EXCEPT !.paso = x].paso = x
         /\ [d EXCEPT !.paso = x].solo = d.solo /\ [d EXCEPT !.paso = x].conexion = d.conexion
         /\ [d EXCEPT !.paso = x].de = d.de
  BY DEF Dumps

LEMMA PasoDumpBuscar == ASSUME Inv, NEW t \in Hilos, dump_buscar(t) PROVE Inv'
<1> DEFINE d == [dump[t] EXCEPT !.paso = "tamanio"]
<1>1. /\ mal = Nadie /\ dump[t].paso = "buscar"
      /\ Usar(t[1] \in lista_procesos, "memory_dump", t[1])
      /\ dump' = [dump EXCEPT ![t] = d]
      /\ UNCHANGED <<fileSystem_connection, conexiones>> /\ UNCHANGED sinDump /\ UNCHANGED proceso
  BY DEF dump_buscar, DumpEn, buscar_proceso, Pasa, sinDump, kernelVars
<1>2. dump[t] \in Dumps /\ dump \in [Hilos -> Dumps]
  BY DeDump DEF Inv, TypeOK, TipoDumps
<1>3. d \in Dumps /\ d.paso = "tamanio"
  BY <1>2, DumpPasa
<1> HIDE DEF d
<1>4. TipoDumps' /\ DumpSolo' /\ RespuestaPropia'
  BY <1>1, <1>3, DumpFuera DEF EnFileSystem
<1>5. MismosPasos
  BY <1>1, <1>2, <1>3 DEF MismosPasos, Terminan, EnFileSystem
<1>6. TipoKernel' /\ TipoPedidos' /\ TipoCpu' /\ TipoListas' /\ Activa'
  BY <1>1, <1>5, MismoResto
<1>7. t[1] \in Pids /\ (t[1] \notin lista_procesos => proceso'[t[1]] = "EXIT")
  BY <1>1, UsaDump
<1> QED
  BY <1>1, <1>4, <1>6, <1>7, ConPerdida

LEMMA PasoDumpTamanio == ASSUME Inv, NEW t \in Hilos, dump_tamanio(t) PROVE Inv'
<1> DEFINE x == IF t[1] \in Vacios THEN "respuesta" ELSE "conectar"
           o == IF t[1] \in Vacios THEN "ERROR" ELSE ""
           d == [dump[t] EXCEPT !.paso = x, !.op = o]
<1>1. /\ mal = Nadie /\ dump[t].paso = "tamanio"
      /\ Usar(t[1] \in lista_procesos, "memory_dump", t[1])
      /\ dump' = [dump EXCEPT ![t] = d]
      /\ UNCHANGED <<fileSystem_connection, conexiones>> /\ UNCHANGED sinDump /\ UNCHANGED proceso
  BY DEF dump_tamanio, DumpEn, buscar_proceso, sinDump, kernelVars
<1>2. dump[t] \in Dumps /\ dump \in [Hilos -> Dumps]
  BY DeDump DEF Inv, TypeOK, TipoDumps
<1>3. /\ x \in {"respuesta", "conectar"} /\ o \in {"ERROR", ""} /\ (x = "respuesta" => t[1] \in Vacios)
  OBVIOUS
<1> HIDE DEF x, o
<1>4. d \in Dumps /\ d.paso = x
  BY <1>2, <1>3 DEF Dumps
<1> HIDE DEF d
<1>5. TipoDumps' /\ DumpSolo' /\ RespuestaPropia'
  BY <1>1, <1>3, <1>4, DumpFuera DEF EnFileSystem
<1>6. MismosPasos
  BY <1>1, <1>2, <1>3, <1>4 DEF MismosPasos, Terminan, EnFileSystem
<1>7. TipoKernel' /\ TipoPedidos' /\ TipoCpu' /\ TipoListas' /\ Activa'
  BY <1>1, <1>6, MismoResto
<1>8. t[1] \in Pids /\ (t[1] \notin lista_procesos => proceso'[t[1]] = "EXIT")
  BY <1>1, UsaDump
<1> QED
  BY <1>1, <1>5, <1>7, <1>8, ConPerdida

LEMMA SigueDump ==
  ASSUME Inv, mal = Nadie, UNCHANGED mal, UNCHANGED sinDump,
         MismosPasos,
         TipoDumps', DumpSolo', RespuestaPropia'
  PROVE  Inv'
<1>1. TipoKernel' /\ TipoPedidos' /\ TipoCpu' /\ TipoListas' /\ Activa'
  BY MismoResto
<1> QED
  BY <1>1, NadieMal DEF Inv, TypeOK

LEMMA PasoDumpConectar == ASSUME Inv, NEW t \in Hilos, dump_conectar(t) PROVE Inv'
<1> DEFINE otros == {k \in Hilos : dump[k].paso \in EnFileSystem}
           d(k) == IF k = t THEN [dump[k] EXCEPT !.paso = "copiar", !.solo = otros = {}]
                   ELSE IF k \in otros THEN [dump[k] EXCEPT !.solo = FALSE] ELSE dump[k]
<1>1. /\ mal = Nadie /\ dump[t].paso = "conectar"
      /\ conexiones' = Append(conexiones, Abierta) /\ fileSystem_connection' = Len(conexiones')
      /\ dump' = [k \in Hilos |-> d(k)]
      /\ UNCHANGED mal /\ UNCHANGED sinDump
  BY DEF dump_conectar, DumpEn
<1>2. TipoDumps /\ conexiones \in Seq(Canal) /\ dump \in [Hilos -> Dumps]
  BY DEF Inv, TypeOK, TipoDumps
<1>3. \A k \in Hilos : dump'[k] = d(k)
  BY <1>1
<1>4. Abierta \in Canal
  BY DEF Abierta, Canal
<1>5. /\ conexiones' \in Seq(Canal) /\ Len(conexiones') = Len(conexiones) + 1
      /\ conexiones'[Len(conexiones) + 1] = Abierta
  BY <1>1, <1>2, <1>4, AppendProperties
<1>6. /\ Len(conexiones) \in Nat /\ DOMAIN conexiones = 1 .. Len(conexiones)
      /\ DOMAIN conexiones' = 1 .. (Len(conexiones) + 1)
  BY <1>2, <1>5, LenProperties
<1>7. ASSUME NEW k \in Hilos
      PROVE  /\ dump'[k] \in Dumps
             /\ dump'[k].paso = IF k = t THEN "copiar" ELSE dump[k].paso
             /\ dump'[k].conexion = dump[k].conexion /\ dump'[k].de = dump[k].de
             /\ k # t /\ dump[k].paso \in EnFileSystem => ~dump'[k].solo
             /\ k # t /\ dump[k].paso \notin EnFileSystem => dump'[k].solo = dump[k].solo
  <2>1. dump[k] \in Dumps
    BY <1>2
  <2>2. CASE k = t
    <3>1. dump'[k] = [dump[k] EXCEPT !.paso = "copiar", !.solo = (otros = {})]
      BY <1>3, <2>2
    <3> HIDE DEF otros
    <3> QED
      BY <2>1, <2>2, <3>1 DEF Dumps, EnFileSystem
  <2>3. CASE k # t /\ k \in otros
    <3>1. dump'[k] = [dump[k] EXCEPT !.solo = FALSE] /\ dump[k].paso \in EnFileSystem
      BY <1>3, <2>3
    <3> QED
      BY <2>1, <2>3, <3>1 DEF Dumps
  <2>4. CASE k # t /\ k \notin otros
    <3>1. dump'[k] = dump[k] /\ dump[k].paso \notin EnFileSystem
      BY <1>3, <2>4
    <3> QED
      BY <2>1, <2>4, <3>1
  <2> QED
    BY <2>2, <2>3, <2>4
<1>8. dump'[t].solo => \A k \in Hilos : dump[k].paso \notin EnFileSystem
  <2>1. dump'[t] = [dump[t] EXCEPT !.paso = "copiar", !.solo = (otros = {})]
    BY <1>3
  <2>2. dump'[t].solo = (otros = {})
    <3> HIDE DEF otros
    <3> QED
      BY <1>2, <2>1 DEF Dumps
  <2> QED
    BY <2>2
<1> HIDE DEF d, otros
<1>9. TipoDumps'
  <2>1. dump' \in [Hilos -> Dumps]
    BY <1>1, <1>7 DEF d
  <2>2. fileSystem_connection' \in 0 .. Len(conexiones') /\ fileSystem_connection' # 0
    BY <1>1, <1>5, <1>6
  <2>3. ASSUME NEW k \in Hilos, dump'[k].paso = "espera" PROVE dump'[k].conexion \in DOMAIN conexiones'
    <3>1. dump[k].paso = "espera" /\ dump'[k].conexion = dump[k].conexion
      BY <1>7, <2>3
    <3>2. dump[k].conexion \in 1 .. Len(conexiones)
      BY <1>2, <1>6, <3>1 DEF TipoDumps
    <3> QED
      BY <1>6, <3>1, <3>2
  <2> QED
    BY <1>5, <2>1, <2>2, <2>3 DEF TipoDumps, SinConexion
<1>10. DumpSolo'
  <2> SUFFICES ASSUME NEW k \in Hilos, dump'[k].paso \in EnFileSystem, dump'[k].solo
               PROVE  /\ \A j \in Hilos : dump'[j].paso \in EnFileSystem => j = k
                      /\ dump'[k].paso = "copiar"
                      /\ conexiones'[fileSystem_connection'] = Abierta
    BY DEF DumpSolo
  <2>1. k = t
    BY <1>7
  <2> QED
    BY <1>1, <1>5, <1>7, <1>8, <2>1
<1>11. RespuestaPropia'
  BY <1>7 DEF Inv, RespuestaPropia, EnFileSystem
<1>12. MismosPasos
  BY <1>1, <1>7 DEF MismosPasos, Terminan, EnFileSystem
<1> QED
  BY <1>1, <1>9, <1>10, <1>11, <1>12, SigueDump

LEMMA PasoDumpCopiar == ASSUME Inv, NEW t \in Hilos, dump_copiar(t) PROVE Inv'
<1> DEFINE d == [dump[t] EXCEPT !.paso = "enviar"]
<1>1. /\ mal = Nadie /\ dump[t].paso = "copiar"
      /\ Usar(t[1] \in lista_procesos, "memory_dump", t[1])
      /\ dump' = [dump EXCEPT ![t] = d]
      /\ fileSystem_connection' = fileSystem_connection /\ conexiones' = conexiones
      /\ UNCHANGED sinDump /\ UNCHANGED proceso
  BY DEF dump_copiar, DumpEn, buscar_proceso, Pasa, sinDump, kernelVars
<1>2. dump[t] \in Dumps /\ dump \in [Hilos -> Dumps] /\ conexiones \in Seq(Canal)
  BY DeDump DEF Inv, TypeOK, TipoDumps
<1>3. d \in Dumps /\ d.paso = "enviar" /\ d.solo = dump[t].solo
  BY <1>2, DumpPasa DEF EnFileSystem
<1> HIDE DEF d
<1>4. dump[t].paso \in EnFileSystem
  BY <1>1 DEF EnFileSystem
<1>5. dump[t].solo => conexiones[fileSystem_connection] = Abierta
  BY <1>1, <1>4 DEF Inv, DumpSolo
<1>6. TipoDumps' /\ DumpSolo' /\ RespuestaPropia'
  BY <1>1, <1>2, <1>3, <1>4, <1>5, DumpEnFileSystem
<1>7. MismosPasos
  BY <1>1, <1>2, <1>3 DEF MismosPasos, Terminan, EnFileSystem
<1>8. TipoKernel' /\ TipoPedidos' /\ TipoCpu' /\ TipoListas' /\ Activa'
  BY <1>1, <1>7, MismoResto
<1>9. t[1] \in Pids /\ (t[1] \notin lista_procesos => proceso'[t[1]] = "EXIT")
  BY <1>1, UsaDump
<1> QED
  BY <1>1, <1>6, <1>8, <1>9, ConPerdida

LEMMA PasoDumpEnviar == ASSUME Inv, NEW t \in Hilos, dump_enviar(t) PROVE Inv'
<1> DEFINE c == fileSystem_connection
           d == [dump[t] EXCEPT !.paso = "recibir"]
           e == [conexiones[c] EXCEPT !.pedido = t]
<1>1. /\ mal = Nadie /\ dump[t].paso = "enviar"
      /\ dump' = [dump EXCEPT ![t] = d]
      /\ fileSystem_connection' = fileSystem_connection
      /\ conexiones' = (IF conexiones[c] = Abierta THEN [conexiones EXCEPT ![c] = e] ELSE conexiones)
      /\ UNCHANGED mal /\ UNCHANGED sinDump
  BY DEF dump_enviar, DumpEn, Pasa
<1>2. dump[t].paso \in EnFileSystem
  BY <1>1 DEF EnFileSystem
<1>3. /\ dump[t] \in Dumps /\ dump \in [Hilos -> Dumps] /\ conexiones \in Seq(Canal)
      /\ c \in 1 .. Len(conexiones) /\ conexiones[c] \in Canal /\ TipoDumps
  BY <1>2, DeDump DEF TipoDumps
<1>4. d \in Dumps /\ d.paso = "recibir" /\ d.solo = dump[t].solo
  BY <1>3, DumpPasa DEF EnFileSystem
<1>5. e \in Canal /\ e.pedido = t /\ e.abierta = conexiones[c].abierta
  BY <1>3 DEF Canal
<1>6. dump[t].solo => conexiones[c] = Abierta
  BY <1>1, <1>2 DEF Inv, DumpSolo
<1> HIDE DEF d, e
<1>7. conexiones' \in Seq(Canal) /\ Len(conexiones') = Len(conexiones)
      /\ (conexiones[c] = Abierta => conexiones'[c] = e)
  <2>1. CASE conexiones[c] = Abierta
    BY <1>1, <1>3, <1>5, <2>1, CambiaCanal
  <2>2. CASE conexiones[c] # Abierta
    BY <1>1, <1>3, <2>2
  <2> QED
    BY <2>1, <2>2
<1>8. dump[t].solo => conexiones'[c].abierta /\ conexiones'[c].pedido = t
  <2>1. Abierta.abierta
    BY DEF Abierta
  <2> QED
    BY <1>5, <1>6, <1>7, <2>1
<1>9. TipoDumps' /\ DumpSolo' /\ RespuestaPropia'
  BY <1>1, <1>2, <1>4, <1>7, <1>8, DumpEnFileSystem
<1>10. MismosPasos
  BY <1>1, <1>3, <1>4 DEF MismosPasos, Terminan, EnFileSystem
<1> QED
  BY <1>1, <1>9, <1>10, SigueDump

LEMMA PasoDumpRecibir == ASSUME Inv, NEW t \in Hilos, dump_recibir(t) PROVE Inv'
<1> DEFINE c == fileSystem_connection
<1>1. /\ mal = Nadie /\ dump[t].paso = "recibir"
      /\ fileSystem_connection' = fileSystem_connection /\ conexiones' = conexiones
      /\ UNCHANGED mal /\ UNCHANGED sinDump
  BY DEF dump_recibir, DumpEn
<1>2. dump[t].paso \in EnFileSystem
  BY <1>1 DEF EnFileSystem
<1>3. /\ dump[t] \in Dumps /\ dump \in [Hilos -> Dumps] /\ conexiones \in Seq(Canal)
      /\ c \in 1 .. Len(conexiones) /\ c \in Nat
  BY <1>2, DeDump DEF TipoDumps
<1>4. dump[t].solo => conexiones[c].abierta /\ conexiones[c].pedido = t
  BY <1>1, <1>2 DEF Inv, DumpSolo
<1>5. PICK d \in Dumps : /\ dump' = [dump EXCEPT ![t] = d] /\ d.solo = dump[t].solo
                         /\ \/ d.paso = "espera" /\ d.conexion = c
                            \/ d.paso = "cerrar" /\ ~conexiones[c].abierta
  <2>1. CASE conexiones[c].abierta /\ dump' = [dump EXCEPT ![t].paso = "espera", ![t].conexion = c]
    <3>1. [dump[t] EXCEPT !.paso = "espera", !.conexion = c] \in Dumps
      BY <1>3 DEF Dumps, EnFileSystem
    <3>2. /\ [dump[t] EXCEPT !.paso = "espera", !.conexion = c].paso = "espera"
          /\ [dump[t] EXCEPT !.paso = "espera", !.conexion = c].conexion = c
          /\ [dump[t] EXCEPT !.paso = "espera", !.conexion = c].solo = dump[t].solo
      BY <1>3 DEF Dumps
    <3>3. dump' = [dump EXCEPT ![t] = [dump[t] EXCEPT !.paso = "espera", !.conexion = c]]
      BY <2>1
    <3> QED
      BY <3>1, <3>2, <3>3
  <2>2. ASSUME ~conexiones[c].abierta, NEW op \in {"OK", "ERROR"},
               dump' = [dump EXCEPT ![t].paso = "cerrar", ![t].op = op]
        PROVE  \E d \in Dumps : /\ dump' = [dump EXCEPT ![t] = d] /\ d.solo = dump[t].solo
                                /\ d.paso = "cerrar" /\ ~conexiones[c].abierta
    <3>1. [dump[t] EXCEPT !.paso = "cerrar", !.op = op] \in Dumps
      BY <1>3 DEF Dumps, EnFileSystem
    <3>2. /\ [dump[t] EXCEPT !.paso = "cerrar", !.op = op].paso = "cerrar"
          /\ [dump[t] EXCEPT !.paso = "cerrar", !.op = op].solo = dump[t].solo
      BY <1>3 DEF Dumps
    <3>3. dump' = [dump EXCEPT ![t] = [dump[t] EXCEPT !.paso = "cerrar", !.op = op]]
      BY <2>2
    <3> QED
      BY <2>2, <3>1, <3>2, <3>3
  <2> QED
    BY <2>1, <2>2 DEF dump_recibir
<1>6. TipoDumps' /\ DumpSolo' /\ RespuestaPropia'
  BY <1>1, <1>2, <1>3, <1>4, <1>5, DumpEnFileSystem
<1>7. MismosPasos
  BY <1>1, <1>3, <1>5 DEF MismosPasos, Terminan, EnFileSystem
<1> QED
  BY <1>1, <1>6, <1>7, SigueDump

LEMMA PasoDumpRespuesta == ASSUME Inv, NEW t \in Hilos, dump_respuesta(t) PROVE Inv'
<1> DEFINE c == dump[t].conexion
           d == [dump[t] EXCEPT !.paso = "cerrar", !.op = conexiones[c].op, !.de = conexiones[c].pedido]
           e == [conexiones[c] EXCEPT !.op = "leida", !.pedido = NoHilo]
<1>1. /\ mal = Nadie /\ dump[t].paso = "espera" /\ conexiones[c].op \in {"OK", "ERROR"}
      /\ dump' = [dump EXCEPT ![t] = d] /\ conexiones' = [conexiones EXCEPT ![c] = e]
      /\ fileSystem_connection' = fileSystem_connection
      /\ UNCHANGED mal /\ UNCHANGED sinDump
  BY DEF dump_respuesta, DumpEn
<1>2. dump[t].paso \in EnFileSystem
  BY <1>1 DEF EnFileSystem
<1>3. /\ dump[t] \in Dumps /\ dump \in [Hilos -> Dumps] /\ conexiones \in Seq(Canal)
      /\ c \in 1 .. Len(conexiones) /\ conexiones[c] \in Canal /\ TipoDumps
  BY <1>1, <1>2, DeDump DEF TipoDumps
<1>4. d \in Dumps /\ d.paso = "cerrar" /\ d.solo = dump[t].solo /\ d.de = conexiones[c].pedido
  BY <1>1, <1>3 DEF Dumps, Canal, EnFileSystem
<1>5. e \in Canal
  BY <1>3 DEF Canal
<1>6. dump[t].solo => conexiones[c].pedido = t
  BY <1>1, <1>2 DEF Inv, DumpSolo
<1> HIDE DEF d, e
<1>7. conexiones' \in Seq(Canal) /\ Len(conexiones') = Len(conexiones)
  BY <1>1, <1>3, <1>5, CambiaCanal
<1>8. TipoDumps' /\ DumpSolo' /\ RespuestaPropia'
  BY <1>1, <1>2, <1>4, <1>6, <1>7, DumpEnFileSystem
<1>9. MismosPasos
  BY <1>1, <1>3, <1>4 DEF MismosPasos, Terminan, EnFileSystem
<1> QED
  BY <1>1, <1>8, <1>9, SigueDump

LEMMA PasoDumpCerrar == ASSUME Inv, NEW t \in Hilos, dump_cerrar(t) PROVE Inv'
<1> DEFINE c == fileSystem_connection
           d == [dump[t] EXCEPT !.paso = "respuesta"]
           e == [conexiones[c] EXCEPT !.abierta = FALSE]
<1>1. /\ mal = Nadie /\ dump[t].paso = "cerrar"
      /\ dump' = [dump EXCEPT ![t] = d] /\ conexiones' = [conexiones EXCEPT ![c] = e]
      /\ fileSystem_connection' = fileSystem_connection
      /\ UNCHANGED mal /\ UNCHANGED sinDump
  BY DEF dump_cerrar, DumpEn, Pasa
<1>2. dump[t].paso \in EnFileSystem
  BY <1>1 DEF EnFileSystem
<1>3. /\ dump[t] \in Dumps /\ dump \in [Hilos -> Dumps] /\ conexiones \in Seq(Canal)
      /\ c \in 1 .. Len(conexiones) /\ conexiones[c] \in Canal /\ TipoDumps
  BY <1>2, DeDump DEF TipoDumps
<1>4. d \in Dumps /\ d.paso = "respuesta" /\ d.solo = dump[t].solo /\ d.de = dump[t].de
  BY <1>3, DumpPasa DEF EnFileSystem
<1>5. e \in Canal
  BY <1>3 DEF Canal
<1>6. dump[t].solo /\ t[1] \notin Vacios => dump[t].de = t
  BY <1>1 DEF Inv, RespuestaPropia
<1> HIDE DEF d, e
<1>7. conexiones' \in Seq(Canal) /\ Len(conexiones') = Len(conexiones)
  BY <1>1, <1>3, <1>5, CambiaCanal
<1>8. TipoDumps' /\ DumpSolo' /\ RespuestaPropia'
  BY <1>1, <1>2, <1>4, <1>6, <1>7, DumpEnFileSystem
<1>9. MismosPasos
  BY <1>1, <1>3, <1>4 DEF MismosPasos, Terminan, EnFileSystem
<1> QED
  BY <1>1, <1>8, <1>9, SigueDump

LEMMA SinDumpTipo == SinDump \in Dumps /\ SinDump.paso = "no"
BY DEF SinDump, Dumps, EnFileSystem, SinConexion

LEMMA PasoAtenderDumpMemory == ASSUME Inv, AtenderDumpMemory PROVE Inv'
<1>0. PICK t \in Hilos : cpu.hilo = t
  BY CpuEnKernel DEF AtenderDumpMemory, Atiende
<1> DEFINE d == [SinDump EXCEPT !.paso = "buscar"]
<1>1. /\ mal = Nadie /\ corto = Nada /\ cpu.fase = "kernel" /\ Entra
      /\ dump' = [dump EXCEPT ![t] = d] /\ Desalojar("desaloja")
      /\ UNCHANGED <<proceso, vivos, nacidos, no_memory_for_new_process, fallidos, lista_procesos,
                     lista_tids, ocupadas, mal, largo, invalid, fileSystem_connection, conexiones>>
  BY <1>0 DEF AtenderDumpMemory, Atiende, kernelVars, listas
<1>2. proceso[t[1]] # "NEW" /\ proceso'[cpu.hilo[1]] # "NEW" /\ dump[t].paso = "no"
  BY <1>0, <1>1, CpuEnKernel
<1>3. /\ TipoCpu' /\ PedidoCpu' /\ corto' \in Pedidos /\ PedidoCorto'
      /\ corto'.op = "ACK" /\ corto' # Nada /\ corto.op = "NADA"
  BY <1>0, <1>1, <1>2, Desaloja, EsNada
<1>4. d \in Dumps /\ d.paso = "buscar"
  BY SinDumpTipo, DumpPasa
<1> HIDE DEF d
<1>5. TipoDumps' /\ DumpSolo' /\ RespuestaPropia'
  BY <1>1, <1>4, DumpFuera DEF EnFileSystem
<1>6. \A k \in Hilos : /\ dump'[k].paso \in Terminan <=> dump[k].paso \in Terminan
                       /\ dump'[k].paso # "no" => dump[k].paso # "no" \/ proceso[k[1]] # "NEW"
  <2>1. dump \in [Hilos -> Dumps]
    BY DEF Inv, TypeOK, TipoDumps
  <2> QED
    BY <1>1, <1>2, <1>4, <2>1 DEF Terminan
<1>7. sem_short_term' \in Nat /\ Excluye'
  BY <1>1, <1>3, <1>6, EntraCorto
<1>8. invalid' \in BOOLEAN
  BY <1>1 DEF Inv, TypeOK, TipoPedidos
<1>9. TipoKernel' /\ TipoPedidos' /\ TipoListas' /\ Activa'
  BY <1>1, <1>3, <1>6, <1>7, <1>8, SoloCpu
<1> QED
  BY <1>1, <1>3, <1>5, <1>9, NadieMal DEF Inv, TypeOK

LEMMA PasoTerminarDump == ASSUME Inv, NEW t \in Hilos, TerminarDump(t) PROVE Inv'
<1>1. /\ mal = Nadie /\ dump[t].paso = "respuesta" /\ dump' = [dump EXCEPT ![t] = SinDump]
      /\ UNCHANGED <<fileSystem_connection, conexiones>> /\ UNCHANGED sinDump /\ UNCHANGED mal
  BY DEF TerminarDump, RespuestaDump, DumpEn, sinDump, permisos
<1>2. dump \in [Hilos -> Dumps]
  BY DEF Inv, TypeOK, TipoDumps
<1>3. TipoDumps' /\ DumpSolo' /\ RespuestaPropia'
  BY <1>1, SinDumpTipo, DumpFuera DEF EnFileSystem
<1>4. MismosPasos
  BY <1>1, <1>2, SinDumpTipo DEF MismosPasos, Terminan
<1> QED
  BY <1>1, <1>3, <1>4, SigueDump

\* A dump that failed ends its process; a request of a thread of it may be under way when
\* sem_short_term had been posted twice.
LEMMA PasoFallarDump == ASSUME Inv, NEW t \in Hilos, FallarDump(t) PROVE Inv'
<1>0. PICK q \in Pids : t[1] = q
  BY DeHilos
<1> DEFINE d == [dump[t] EXCEPT !.paso = "terminar"]
<1>1. /\ mal = Nadie /\ dump[t].paso = "respuesta" /\ Entra
      /\ dump' = [dump EXCEPT ![t] = d] /\ proceso[q] # "EXIT"
      /\ Terminar(q) /\ fallidos' = fallidos \cup {q}
      /\ UNCHANGED <<lista_procesos, lista_tids, ocupadas, mal, cpu, largo, corto, invalid,
                     fileSystem_connection, conexiones>>
  BY <1>0 DEF FallarDump, RespuestaDump, DumpEn, listas, Pasa
<1>2. proceso[q] = "EXEC"
  BY <1>0, <1>1, UsaDump DEF Inv, TypeOK, TipoKernel
<1>3. dump \in [Hilos -> Dumps]
  BY DEF Inv, TypeOK, TipoDumps
<1>4. d \in Dumps /\ d.paso = "terminar"
  BY <1>3 DEF Dumps, Terminan
<1> HIDE DEF d
<1>5. TipoDumps' /\ DumpSolo' /\ RespuestaPropia'
  BY <1>1, <1>4, DumpFuera DEF EnFileSystem
<1>6. \A k \in Hilos : dump'[k].paso = IF k = t THEN "terminar" ELSE dump[k].paso
  BY <1>1, <1>3, <1>4
<1>7. Terminandose(q)' /\ \A r \in Pids \ {q} : Terminandose(r)' <=> Terminandose(r)
  BY <1>0, <1>1, <1>6 DEF Terminandose, Terminan
<1>8. \A op, k : op \in {"THREAD_CREATE", "FINISH_THREAD"} => (Servido(op, k)' <=> Servido(op, k))
  BY <1>1 DEF Servido
<1>9. \A k \in Hilos : /\ dump'[k].paso = "no" <=> dump[k].paso = "no"
                       /\ dump'[k].paso \in Terminan => \/ dump[k].paso \in Terminan
                                                        \/ k[1] = q /\ q \in fallidos'
  BY <1>0, <1>1, <1>6
<1>10. /\ TipoKernel' /\ TipoCpu' /\ TipoListas' /\ VivosEnExec' /\ DumpsFallidos' /\ PedidoCpu'
       /\ ListaProcesos' /\ ListaOcupadas' /\ ListaTids' /\ DumpsDeCreados'
  BY <1>1, <1>2, <1>7, <1>8, <1>9, Termina
<1>11. sem_short_term' \in Nat
  BY <1>1, EntraSolo
<1>12. ~invalid => /\ sem_short_term' = 0 /\ corto = Nada
                   /\ \A k \in Hilos : dump[k].paso \notin Terminan
  BY <1>1, EntraSolo
<1>13. TipoPedidos'
  BY <1>1, <1>11 DEF Inv, TypeOK, TipoPedidos
<1>14. Excluye'
  BY <1>1, <1>6, <1>12 DEF Excluye
<1>15. \A r \in Pids : proceso'[r] = IF r = q THEN "EXIT" ELSE proceso[r]
  BY <1>1 DEF Terminar, Inv, TypeOK, TipoKernel
<1>16. PedidoLargo'
  <2>1. largo.op = "PROCESS_CREATE" => proceso'[largo.hilo[1]] = "NEW"
    BY <1>1, <1>2, <1>15, LargoProcesos
  <2>2. \A k \in Hilos : dump[k].paso \in Terminan => dump'[k].paso \in Terminan
    BY <1>6 DEF Terminan
  <2> QED
    BY <1>1, <2>1, <2>2 DEF Inv, Activa, PedidoLargo
<1>17. PedidoCorto'
  <2>1. CASE corto = Nada
    BY <1>1, <2>1 DEF PedidoCorto
  <2>2. CASE corto # Nada
    <3>1. Expuesto(q)' /\ \A r : Expuesto(r) => Expuesto(r)'
      BY <1>1, <1>12, <2>2 DEF Expuesto
    <3>2. \A k \in Hilos : k[1] # q => (k \in vivos' <=> k \in vivos)
      BY <1>1 DEF Terminar, Proceso
    <3>3. ASSUME corto.hilo \in Hilos
          PROVE  \/ corto.hilo[1] = q /\ proceso'[corto.hilo[1]] = "EXIT"
                 \/ /\ proceso'[corto.hilo[1]] = proceso[corto.hilo[1]]
                    /\ corto.hilo \in vivos' <=> corto.hilo \in vivos
      BY <1>15, <3>2, <3>3, DeHilos
    <3> QED
      BY <1>1, <2>2, <3>1, <3>3 DEF Inv, Activa, PedidoCorto
  <2> QED
    BY <2>1, <2>2
<1> QED
  BY <1>1, <1>5, <1>10, <1>13, <1>14, <1>16, <1>17, NadieMal DEF Inv, TypeOK, Activa

\* The filesystem goes on even after a handler used what was not there.
LEMMA PasoServirDump == ASSUME Inv, ServirDump PROVE Inv'
<1>1. PICK c \in DOMAIN conexiones, op \in {"OK", "ERROR"} :
         /\ conexiones[c].pedido # NoHilo
         /\ conexiones' = [conexiones EXCEPT ![c].op = op]
  BY DEF ServirDump
<1>2. /\ dump' = dump /\ fileSystem_connection' = fileSystem_connection /\ mal' = mal
      /\ UNCHANGED sinDump /\ UNCHANGED kernelVars /\ UNCHANGED <<proceso, fallidos>>
      /\ UNCHANGED <<vivos, nacidos, no_memory_for_new_process, largo, corto, sem_short_term,
                     invalid, cpu, lista_procesos, lista_tids, ocupadas>>
  BY DEF ServirDump, sinDump, kernelVars, listas, permisos
<1> DEFINE e == [conexiones[c] EXCEPT !.op = op]
<1>3. conexiones' = [conexiones EXCEPT ![c] = e]
  BY <1>1
<1>4. /\ TipoDumps /\ c \in 1 .. Len(conexiones) /\ conexiones[c] \in Canal
      /\ DOMAIN conexiones = 1 .. Len(conexiones) /\ conexiones \in Seq(Canal)
  BY LenProperties DEF Inv, TypeOK, TipoDumps
<1>5. e \in Canal /\ e.pedido = conexiones[c].pedido /\ e.abierta = conexiones[c].abierta
  BY <1>4 DEF Canal
<1> HIDE DEF e
<1>6. /\ conexiones' \in Seq(Canal) /\ Len(conexiones') = Len(conexiones)
      /\ \A i \in 1 .. Len(conexiones) : conexiones'[i] = IF i = c THEN e ELSE conexiones[i]
  BY <1>3, <1>4, <1>5, CambiaCanal
<1>7. DOMAIN conexiones' = 1 .. Len(conexiones)
  BY <1>6, LenProperties
<1>8. TipoDumps'
  BY <1>2, <1>4, <1>6, <1>7 DEF TipoDumps
<1>9. DumpSolo'
  <2> SUFFICES ASSUME NEW k \in Hilos, dump[k].paso \in EnFileSystem, dump[k].solo
               PROVE  /\ dump[k].paso \in {"copiar", "enviar"} =>
                            conexiones'[fileSystem_connection] = Abierta
                      /\ dump[k].paso \in {"recibir", "espera"} =>
                            /\ conexiones'[fileSystem_connection].abierta
                            /\ conexiones'[fileSystem_connection].pedido = k
    BY <1>2 DEF DumpSolo, Inv
  <2>1. fileSystem_connection \in 1 .. Len(conexiones)
    BY DeDump
  <2>2. CASE fileSystem_connection # c
    BY <1>6, <2>1, <2>2 DEF Inv, DumpSolo
  <2>3. CASE fileSystem_connection = c
    <3>1. conexiones'[c] = e
      BY <1>4, <1>6
    <3>2. conexiones[c] # Abierta
      <4>1. Abierta.pedido = NoHilo
        BY DEF Abierta
      <4> QED
        BY <1>1, <4>1
    <3> QED
      BY <1>5, <2>3, <3>1, <3>2 DEF Inv, DumpSolo
  <2> QED
    BY <2>2, <2>3
<1>10. RespuestaPropia'
  BY <1>2 DEF Inv, RespuestaPropia
<1>11. mal = Nadie => Activa'
  BY <1>2, MismoResto DEF MismosPasos
<1>12. TipoKernel'
  BY <1>2 DEF Inv, TypeOK, TipoKernel
<1>13. TipoPedidos' /\ TipoCpu' /\ TipoListas'
  BY <1>2 DEF Inv, TypeOK, TipoPedidos, TipoCpu, TipoListas
<1>14. TipoMal' /\ PedidosEncuentran' /\ SoloPierdenLoTerminado'
  BY <1>2 DEF Inv, TypeOK, TipoMal, PedidosEncuentran, SoloPierdenLoTerminado
<1> QED
  BY <1>2, <1>8, <1>9, <1>10, <1>11, <1>12, <1>13, <1>14 DEF Inv, TypeOK

-----------------------------------------------------------------------------
LEMMA PasoInv == Inv /\ [Next]_vars => Inv'
<1> SUFFICES ASSUME Inv, [Next]_vars PROVE Inv'
  OBVIOUS
<1>1. CASE HiloLargo \/ PedirProcessCreate
  BY <1>1, PasoPedirProcessCreate, PasoCrearParticion, PasoCrearSinEspacio, PasoCrearPush,
     PasoCrearHilo, PasoPedirFinishProcess, PasoFinalizarBuscar, PasoFinalizarParticion,
     PasoFinalizarQuitar, PasoRespuestaFinishProcess DEF HiloLargo
<1>2. CASE HiloCorto
  BY <1>2, PasoServirThreadCreate, PasoFinalizarHiloBuscar, PasoFinalizarHiloQuitar,
     PasoRespuestaThreadCreate, PasoRespuestaFinishThread DEF HiloCorto
<1>3. CASE procesar_cpu
  BY <1>3, PasoObtenerContextoProceso, PasoCpuBuscarProceso, PasoCpuBuscarHilo, PasoCpuUsar,
     PasoCpuFalta, PasoActualizarContexto DEF procesar_cpu
<1>4. CASE Programas
  BY <1>4, PasoDespachar, PasoCorre, PasoAtenderThreadCreate, PasoAtenderFinishThread,
     PasoAtenderProcessExit, PasoAtenderBloquea, PasoAtenderDumpMemory DEF Programas
<1>5. CASE ServirDump
  BY <1>5, PasoServirDump
<1>6. ASSUME NEW t \in Hilos, memory_dump(t) \/ TerminarDump(t) \/ FallarDump(t) PROVE Inv'
  BY <1>6, PasoDumpBuscar, PasoDumpTamanio, PasoDumpConectar, PasoDumpCopiar, PasoDumpEnviar,
     PasoDumpRecibir, PasoDumpRespuesta, PasoDumpCerrar, PasoTerminarDump, PasoFallarDump
     DEF memory_dump
<1>7. CASE UNCHANGED vars
  <2>1. /\ UNCHANGED <<proceso, vivos, nacidos, no_memory_for_new_process, fallidos, largo, corto, cpu,
                       sem_short_term, invalid, lista_procesos, lista_tids, ocupadas, mal>>
        /\ UNCHANGED dumpVars /\ UNCHANGED sinDump /\ dump' = dump
    BY <1>7 DEF vars, kernelVars, listas, dumpVars, sinDump, permisos
  <2>2. TipoDumps' /\ DumpSolo' /\ RespuestaPropia'
    BY <2>1, MismosDumps
  <2>3. mal = Nadie => Activa'
    BY <2>1, MismoResto DEF MismosPasos
  <2>4. TipoKernel'
    BY <2>1 DEF Inv, TypeOK, TipoKernel
  <2>5. TipoPedidos' /\ TipoCpu' /\ TipoListas'
    BY <2>1 DEF Inv, TypeOK, TipoPedidos, TipoCpu, TipoListas
  <2>6. TipoMal' /\ PedidosEncuentran' /\ SoloPierdenLoTerminado'
    BY <2>1 DEF Inv, TypeOK, TipoMal, PedidosEncuentran, SoloPierdenLoTerminado
  <2> QED
    BY <2>1, <2>2, <2>3, <2>4, <2>5, <2>6 DEF Inv, TypeOK
<1> QED
  BY <1>1, <1>2, <1>3, <1>4, <1>5, <1>6, <1>7 DEF Next

\* The inductive invariant holds in every state.
THEOREM Invariante == Spec => []Inv
<1> QED
  BY InitInv, PasoInv, PTL DEF Spec

\* Every variable keeps its type: TypeOK.
THEOREM Tipos == Spec => []TypeOK
<1>1. Inv => TypeOK
  BY DEF Inv
<1> QED
  BY Invariante, <1>1, PTL

\* The handlers of the kernel's requests find the process and the thread they do not look for:
\* crear_proceso always, and crear_hilo, finalizar_hilo and finalizar_proceso but for a process
\* that a failed dump ended once the fall-through of NOT_IN_MEMORY has posted sem_short_term
\* twice.
THEOREM ElKernelEncuentra == Spec => []PedidosEncuentran
<1>1. Inv => PedidosEncuentran
  BY DEF Inv
<1> QED
  BY Invariante, <1>1, PTL

\* The cpu loses what it found only to a failed dump, and a dump only to the end of its process.
THEOREM ElRestoPierdeLoTerminado == Spec => []SoloPierdenLoTerminado
<1>1. Inv => SoloPierdenLoTerminado
  BY DEF Inv
<1> QED
  BY Invariante, <1>1, PTL

LEMMA InvAcuerdo == Inv => Acuerdo
<1> SUFFICES ASSUME Inv, mal = Nadie, largo = Nada
             PROVE  /\ ocupadas = lista_procesos \ Vacios
                    /\ \A p \in Pids :
                       IF Terminandose(p) THEN Expuesto(p) \/ p \in lista_procesos
                       ELSE /\ p \in lista_procesos <=> proceso[p] = "EXEC"
                            /\ corto.op \in {"NADA", "ACK"} =>
                                  lista_tids[p] = IF Expuesto(p) THEN {} ELSE {t[2] : t \in Proceso(p)}
  BY DEF Acuerdo
<1>1. Activa /\ TypeOK /\ largo.op = "NADA"
  BY EsNada DEF Inv
<1>2. \A p \in Pids : Debe(p) <=> proceso[p] = "EXEC" \/ Terminandose(p)
  BY <1>1 DEF Debe, Creado, Por
<1>3. \A p \in Pids \ Vacios : p \in ocupadas <=> p \in lista_procesos
  BY <1>1 DEF Activa, ListaOcupadas, Creado, Por
<1>4. lista_procesos \subseteq Pids /\ ocupadas \subseteq Pids \ Vacios
  BY <1>1 DEF TypeOK, TipoListas
<1>5. ocupadas = lista_procesos \ Vacios
  BY <1>3, <1>4
<1>6. ASSUME NEW p \in Pids, Terminandose(p) PROVE Expuesto(p) \/ p \in lista_procesos
  BY <1>1, <1>2, <1>6 DEF Activa, ListaProcesos
<1>7. \A p \in Pids : Expuesto(p) => proceso[p] = "EXIT"
  BY <1>1 DEF Activa, DumpsFallidos, Expuesto
<1>8. ASSUME NEW p \in Pids, ~Terminandose(p) PROVE p \in lista_procesos <=> proceso[p] = "EXEC"
  BY <1>1, <1>2, <1>7, <1>8 DEF Activa, ListaProcesos
<1>9. ASSUME NEW p \in Pids, proceso[p] = "EXIT", ~Terminandose(p) PROVE lista_tids[p] = {}
  BY <1>1, <1>8, <1>9 DEF Activa, ListaTids
<1>10. ASSUME NEW p \in Pids, proceso[p] = "EXIT", ~Expuesto(p) PROVE Proceso(p) = {}
  BY <1>1, <1>10 DEF Activa, VivosEnExec, Proceso
<1>11. ASSUME NEW p \in Pids, proceso[p] # "EXIT", corto.op \in {"NADA", "ACK"}
       PROVE  lista_tids[p] = {t[2] : t \in Proceso(p)}
  <2>1. \A t : ~Servido("FINISH_THREAD", t) /\ ~Servido("THREAD_CREATE", t)
    BY <1>11 DEF Servido
  <2>2. \A i \in {t[2] : t \in Hilos} : i \in lista_tids[p] <=> <<p, i>> \in vivos
    BY <1>1, <1>11, <2>1 DEF Activa, ListaTids
  <2>3. lista_tids[p] \subseteq {t[2] : t \in Hilos}
    BY <1>1 DEF TypeOK, TipoListas
  <2>4. ASSUME NEW i \in lista_tids[p] PROVE i \in {t[2] : t \in Proceso(p)}
    <3>1. <<p, i>> \in Proceso(p) /\ <<p, i>>[2] = i
      BY <2>2, <2>3, <2>4 DEF Proceso
    <3> QED
      BY <3>1
  <2>5. ASSUME NEW t \in Proceso(p) PROVE t[2] \in lista_tids[p]
    <3>1. t \in vivos /\ t[1] = p
      BY <2>5 DEF Proceso
    <3>2. t = <<p, t[2]>> /\ t[2] \in {k[2] : k \in Hilos}
      BY <1>1, <3>1, DeHilos DEF TypeOK, TipoKernel
    <3> QED
      BY <2>2, <3>1, <3>2
  <2> QED
    BY <2>4, <2>5
<1> QED
  BY <1>5, <1>6, <1>7, <1>8, <1>9, <1>10, <1>11

\* Between two requests memoria holds the kernel's processes and threads, and a partition for
\* each process of a size; of a process that a failed dump ended once sem_short_term had been
\* posted twice, it holds nothing.
THEOREM MismosProcesos == Spec => []Acuerdo
<1> QED
  BY Invariante, InvAcuerdo, PTL

\* A dump that no other overlapped is answered what the filesystem said of it.
THEOREM CadaDumpSuRespuesta == Spec => []RespuestaPropia
<1>1. Inv => RespuestaPropia
  BY DEF Inv
<1> QED
  BY Invariante, <1>1, PTL

=============================================================================
