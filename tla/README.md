# Verification of proyectoZA

proyectoZA is a small operating system made of four C programs that talk over TCP: a
**kernel** that plans threads, a **cpu** that runs them, a **memoria** that holds them
and a **filesystem** that keeps memory dumps. This directory holds TLA+ models of it, the
TLC runs that check them on small instances and TLAPS proofs for every instance.

    tlc -config KernelThreads.cfg KernelProperties     # one run; see "Runs"
    tlc -config Particiones.cfg MCParticiones
    tlc -config FileSystem.cfg MCFileSystem
    tlc -config Cpu.cfg MCCpu
    tlc -config Memoria.cfg MCMemoria
    tlapm KernelPlacesProofs.tla                       # the proofs about the kernel's threads
    tlapm KernelProofs.tla                             # its types, counts and semaphores
    tlapm ParticionesProofs.tla                        # and so on; see "Proofs"

## 1. The system

### Inventory

| Component | State | Operations | Hard behaviour | What makes it correct |
|---|---|---|---|---|
| kernel: long-term planner (`long_term.c`) | `new`, `no_memory_for_new_process` | admit the process at the head of `new`, wait for memory and retry | a wakeup lost or left over when memory is freed while it goes to sleep | a process that fits is admitted; the flag and the wakeup agree |
| kernel: short-term planner (`short_term.c`) | `ready`, `exec` | pick by FIFO, PRIORIDADES or CMN, dispatch, send the end of quantum | finished threads still in `ready`; two semaphores in a fixed order | one planning token; a READY thread runs |
| kernel: response handler (`handle_cpu.c`, `tcb.c`, `pcb.c`, `mutex.c`) | tcbs, pcbs, mutexes, joins | every syscall, faults, `NOT_IN_MEMORY`, interruptions | a switch of some twenty cases, each to post the right semaphores; ending threads that wait anywhere | every thread in the one place its state names; nobody waits for what nobody will do |
| kernel: IO handler, dump threads, release threads (`handle_block.c`, `handle_memory.c`, `tcb.c`) | `io_block_list`, `sem_finished_thread` | sleep, ask memoria for a dump, free a finished process | answers for threads that were cancelled meanwhile; who frees a tcb, when | a tcb is freed once, after its last user |
| cpu: cycle (`handle_dispatch_connection.c`) | registers, base and limit of the running thread | fetch, decode, MMU, execute, return to the kernel | two threads read one connection; globals that outlive a thread; a thread ended while it runs | every thread sees registers of its own and reaches only its own memory; nobody waits for ever |
| cpu: interruptions (`handle_interrupt_connection.c`) | the pending interruption | store it, match it with the thread in the CPU | two handlers store in any order | an old quantum interrupts nobody |
| memoria: partitions (`handle_kernel_connections.c`) | `lista_particiones`, base and limit of processes | give out by FIRST, BEST or WORST, FIJAS or DINAMICAS; take back and join | any order of coming and going; ties, exact fits, size 0 | partitions tile memory and belong to one process |
| memoria: processes, threads, CPU requests (`handle_cpu_connections.c`, `shared.c`) | `lista_procesos`, threads, contexts, `memoria_usuario` | create and end threads, READ/WRITE, contexts | pointers used after the list's mutex was released | a request never uses what another one frees |
| memoria: dump | `fileSystem_connection`, a global | copy a process's memory, send it to filesystem | two dumps at once share the global | every dump gets its own answer |
| filesystem (`handle_connection.c`, `main.c`) | bitmap, blocks (both mmapped), metadata files | reserve blocks, write metadata, index and data | a crash or restart between steps; no space; two dumps in a second | files do not share blocks; OK means written |
| utils, `shared/` | none | sockets, serialization | none of its own | a message arrives as it was sent |
| start-up and configuration of the four programs | configuration | read once | none | |

`shared/` is an older copy of the serialization code that nothing links, the directory
`the-last-of-c-pruebas-main` holds programs to run, and the commons library
(lists, bit arrays, configuration, logs) is external.

### How the components interact

The kernel dispatches a thread to the cpu over one connection and interrupts it over
another; the cpu answers with what stopped the thread. The kernel asks memoria to create
and finish processes and threads and to dump a process, each over a connection of its own;
the cpu asks memoria for contexts, instructions and bytes. Memoria sends each dump to
filesystem. Inside the kernel the threads share lists under **eight semaphores**
(`planners.c:19-28`): `sem_short_term` is a mutex for nearly everything about threads,
`sem_long_term` a mutex for creating and finishing processes, `plan_new_thread` and
`wait_cpu_response` pass the turn between planner and handler,
`sem_retry_process_creation` wakes the long-term planner, and three count the elements of
`new`, `ready` and `io_block_list`. The comment at `planners.c:19` asks whoever edits the
code to look at every wait and post of them; `KernelLocks` is that look, taken once.

## 2. Modules

| Module | What it is |
|---|---|
| `Semaphores` | the eight semaphores, their first values, wait and post |
| `KernelLocks` | abstract: which semaphores each kernel thread waits for and posts, and when, whatever the lists hold |
| `Kernel` | the kernel in full: every thread, every syscall, every list; CPU and memoria as the other side of its requests |
| `KernelProperties` | type invariant, safety, action and liveness properties of `Kernel`; `Kernel` implements `KernelLocks` |
| `KernelLocksProofs`, `KernelProofs` | theorems about semaphores, types and counts |
| `KernelPlacesProofs` | theorems about where threads are and what memoria holds |
| `MemoriaUsuario` | abstract: which process owns each address, where a new one is placed, when it is refused |
| `Particiones` | the list of partitions of memoria, split and joined, and the processes that refer to it |
| `ParticionesProperties`, `MCParticiones` | its properties, with the refinement of `MemoriaUsuario`; the configurations checked |
| `ParticionesProofs` | theorems about it, and that it implements `MemoriaUsuario` |
| `FileSystem` | the filesystem process: start, a thread per dump, bitmap, blocks and metadata, death and restart |
| `FileSystemProperties`, `MCFileSystem` | its properties; the dumps checked |
| `FileSystemProofs` | theorems about it |
| `ProcesadorVirtual` | abstract: each thread has registers of its own, that only its instructions write |
| `Cpu` | the cpu's threads and cycle, its two connections with the kernel, the contexts and places memoria keeps for it |
| `CpuProperties`, `MCCpu` | its properties, with the refinement of `ProcesadorVirtual`; the threads checked |
| `CpuProofs` | theorems about it, and that it implements `ProcesadorVirtual` |
| `Memoria` | the threads of memoria that serve the kernel, the cpu and the dumps, between the kernel's semaphores and the filesystem's answers |
| `MemoriaProperties`, `MCMemoria` | its properties; the processes checked |
| `MemoriaProofs` | theorems about it |

### Kernel

`Kernel` has the fields of `t_tcb` and `t_pcb` as functions of the thread or process, the
lists as sequences, and for each kernel thread where it stands: `lt`, `st`, `rh`, `io` for
the four that live for ever, `dump[t]` for the dump thread of `t`, `rel[p]` for how many
threads of `p` its release thread has freed. **An action runs one kernel thread from one
blocking call to the next**, with everything it changes in between. A tcb is named by its
process and number; `PROCESS_CREATE` and the others take their arguments from small sets.

Where several statements are one action it is because nothing can be seen in between:

- the body of a section of `sem_short_term` touches lists and tcbs that others touch only
  there. The one exception is the long-term planner, which adds its first thread to `ready`
  under `sem_long_term`; an addition at the end commutes with what the handler does.
- the CPU's fetch, execution and return are one step; its `NOT_IN_MEMORY` and faults are
  steps of their own. `recv` of the answer is merged with the wait for it, and the answer
  to the last dispatch with the handler's acknowledgement.
- taking memory for a process is one step of memoria (`Particiones` has the detail), of
  which the kernel sees only whether there was room: `Partitions` processes fit.

A `NULL` dereference or a double free is undefined behaviour. A read through `NULL` stops
the program at every optimisation level in use, and `crash` then names the function; the double free of
`cpu_return_data_destroy` either stops it or goes unnoticed, a choice of the model. Next
is disabled after a crash.

Two branches of the code do not appear because no state reaches them, and properties say so:
the branch for an empty `ready` ("algo raro", `short_term.c:35`) would need a unit of
`sem_counter_ready` without an element (`QueueCounts`), and the one for a thread in EXEC
whose process is in EXIT (`handle_cpu.c:43`) contradicts `ExecIsLive`. `EndProcess` empties the lists of
joined threads at once because they belong to the same process (`WaitingPlace`); a dump
starts for a thread that has none (`WaitingPlace`).
`NULL_STATE` is the state of a thread that does not exist yet. The sublists of CMN are
searched in the order in which they were created; `find_finished` may pick any finished
thread the scan meets before the one to run, which contains that order.

### Particiones

The configuration, the list of partitions in order, the processes with base and limit.
`crear_proceso` and `finalizar_proceso` have two critical sections each, of
`mutex_lista_particiones` and of `mutex_lista_procesos`: `nuevo_proceso` and `a_finalizar`
hold the request between them, when READ, WRITE and dump requests may look at the lists. At most
one such request runs at a time (`Desocupada`): the kernel sends both under `sem_long_term` and
waits for the answer. That a process is named only while it exists is also the kernel's
part (`MemoryAgrees`). Pids are given to new processes again once they are free, which the
kernel does not do, to keep the instance finite; memoria does not look at the value.
A process of size 0 has base and limit `(uint32_t) -1`, takes no partition, and is refused
when no partition at all is free, as the code does. Of equal partitions
BEST and WORST take the last, from how the commons fold a comparator over the list.
Under FIJAS the configured partitions may end before `tam_memoria` or after it: the code does not compare them, nor does the model.
The addresses of `MemoriaUsuario` are those of the list when memoria starts.

### FileSystem

Three kinds of state with three lifetimes: the files (`archivo_bitmap`, `bitmap`,
`archivo_bloques`, `bloques`, `metadata`), which outlive everything; the process (`fs`,
`mutex_filesystem`); and the thread of each connection (`pc`, and the locals of
`process_connection` and `ejecutar_memory_dump`). `Caer` kills the process between any two
steps, and each step is one change of a file: one bit, one block, one emptying or writing
of a metadata file, one of the two system calls that create a mapped file.

- Memoria's part is `RecibirDump`: it connects and sends one dump. It sends none of size 0.
- Sizes are counted in blocks. `texto` is how many blocks of a dump end before the byte
  after its first NUL, which is what `strdup` copies. The blocks after those are written from beyond
  the copy: undefined behaviour, whose outcome here is arbitrary contents (`fiel` is a
  choice). The fault it could also end in is not modelled.
- `mutex_bitmap` and `mutex_archivo_bloques` are only taken under `mutex_filesystem`, so
  nobody waits for them and they are left out.
- Writes to a mapping survive the death of the process but not that of the host, which is not
  modelled (see the hazard at `handle_connection.c:240`).
- `ErrorDeBus` is the SIGBUS of a mapping longer than its file: it kills the process like
  `Caer`, whatever `MaxCaidas` says.
- The `abort()` of `asignar_bloques_bitmap` has no action, since `EspacioReservado` says it is not reached;
  neither have the `abort()`s of start-up when a system call fails.

### Cpu

`hd` is the dispatch thread and `pc` the cycle it starts for each thread it receives; `handlers`
are the detached threads that store an end of quantum each. `current_thread`,
`thread_in_memory`, `kernel_replanifica`, `current_interruption` are the globals of those names.
`al_cpu` and `al_kernel` are the two directions of the dispatch connection, which carries
threads, returns and bare `bool`s; the interrupt connection is the step that adds to `handlers`.

- An action runs a thread up to where another can come in: a `recv`, a request to memoria, the mutex
  of the interruption. Request and answer of memoria are one step, but for READ_MEM and WRITE_MEM, whose
  address was computed before (`dir_fisica`).
- Of the registers, `cuenta` stands for all that instructions write: it says which instructions of the
  thread they come from, so that a lost or foreign context shows. What a program does next is free:
  any instruction at any time, which includes every jump.
- Addresses wrap at `W`, as `uint32_t` does at 2^32.
- `point_to_register` (`handle_dispatch_connection.c:427`) takes the names BASE and LIMITE like any other, so SET, SUM, SUB and
  READ_MEM may leave a value of `Valores` in the two globals the MMU reads. They are not among what is sent back to memoria, and every dispatch loads
  them again from the process. `escritos` is history: the running thread wrote one of them since. A name that is no register is not
  modelled.
- The kernel's side is the planner with its quantum, the handler, admission, the end of an IO and the answers of
  dumps, with the semaphores that order them; `Kernel` has the rest. A thread in no queue waits for nothing or ended.
- Of the end of a process the threads' contexts and the place go in one step (`Memoria` splits it).

### Memoria

`largo` is the request under `sem_long_term` (create or finish a process) and `corto` that of the kernel's response handler
under `sem_short_term` (a thread, a process's end, or the wait for the cpu to let go). `cpu` is where
the cpu and its request in memoria stand, `dump[t]` where the dump of `t` is, in memoria and in the kernel.
**An action is a section under one mutex of memoria, or a use of what an earlier one found**: `Usar`
records in `mal` the first use of a process or thread that was freed in between. Nothing is said after that,
since memoria reads freed memory or NULL; so every invariant speaks of the states before.

- `sem_short_term` counts permits. The handler and a failed dump take one (`Entra`) and post it (`Sale`) at the end of their section; the
  dump's section includes its own request to end the process. `cpu_falta` is the case NOT_IN_MEMORY, which runs into the default
  one and posts twice when the cpu has let go (`actualizar_contexto`, `handle_cpu.c:349-355`): `invalid` says it happened, and from then on
  a request of the handler and the end of a process by a dump can be in memoria at once. As in `Kernel` this is the outcome in which the double free goes unnoticed.
- With two permits the kernel may create a thread while a dump ends its process: `RespuestaThreadCreate` makes it READY whatever
  became of the process, so `vivos` may have a thread of a process in EXIT. What the kernel itself does with the lists and tcbs
  it frees meanwhile is not followed: the bodies of its sections stay one step, and only requests to memoria overlap.
- Descriptors are not used again in the model: a dump whose connection was closed under it sends to nobody, and its `recv` fails,
  which leaves the answer as it was, uninitialised (a choice of the model). A `recv` that has begun stays
  blocked when another thread closes the connection, as Linux has it.
- The filesystem answers the first request of a connection (`process_connection` serves one).
- A failed connect returns 1, which the callers take for a descriptor (`sockets.c:56`): not modelled.
- Partitions are counted (`Particiones` has the detail); a process of size 0 takes none, and is refused when none is free.
- `Cargas` lists which processes the programs of an execution create, so that one run covers several instances; a process that is not
  created is like one that ended.

## 3. Runs

"pass" runs explore every reachable state; "finding" runs stop at the violation described.
Deadlock is not checked for the kernel: it rests when every process has finished or waits for
itself (the programs may lock each other out), and after a crash; nor for filesystem, which rests
when every connection has been served.

| Run | Instance | What it shows |
|---|---|---|
| `KernelThreads` | 1 process, 3 threads, 2 mutexes, FIFO, 6 syscalls of every kind but PROCESS_CREATE, faults | `ShortTermPermits`, `ReleasedOnce`, `WaitingPlace`, `NoIdleWaiter`, `ExitIsFinal`, and `Kernel` implements `KernelLocks` |
| `KernelProcesses` | 3 processes of 2 threads, room for 2, CMN with 2 priorities and the end of quantum at any moment, 3 syscalls, dumps, faults | `TypeOK`, `QueueCounts`, `RetryAnnounced`, `ExecIsLive`, `MemoryAgrees`, `SchedulingToken` |
| `KernelLiveness` | 2 processes of 2 threads, room for 1, FIFO, 3 syscalls, fair threads | `ProcessReleased`, `NewAdmitted`, `ReadyRuns` |
| `Particiones` | 4 processes of 0 to 2 bytes in 6 bytes (FIJAS 2+1+2), 6 configurations | the five invariants of `ParticionesProperties`, and that `Particiones` implements `MemoriaUsuario` |
| `FileSystem` | 3 dumps of 1 or 2 blocks by a thread, 5 blocks, 2 seconds, one death (and those of `ErrorDeBus`), fair threads | `SinCompartir`, `DumpGuardado`, `RechazoJusto`, `EspacioReservado`, `PerdidosPorCaida`, `Respondido` |
| `Cpu` | 2 threads of a process, 3 dispatches, CMN, a partition of 6 bytes at 4 and processes of size 0, addresses 2, 3 and 12 modulo 16, 15 left in BASE or LIMITE, instructions counted modulo 3, fair threads | `TypeOK`, `ProtocoloEnPaso`, `CorreExec`, `InterrupcionJusta`, `AccesoPropio`, `EsperasAcaban`, and `Cpu` implements `ProcesadorVirtual` |
| `Memoria` | processes of 2 threads and 1, room for 1, 2 dumps; or one of size 0 and 4 threads; fair handlers | `PedidosEncuentran`, `SoloPierdenLoTerminado`, `Acuerdo`, `RespuestaPropia`, `DumpRespondido`, `PedidoRespondido` |

**Bounds.** `MaxPid`, `MaxTid` and `MaxCalls` bound what programs do, never what the kernel's
threads do with it; exits are not counted, so every program can end from any state. Three
threads are the fewest with a thread that joins or waits behind a waiter while a third cancels;
two mutexes the fewest to pass one while waiting for the other; room for fewer processes
than there are makes the planner wait and be woken. Four processes in six bytes leave
free stretches on both sides of a process being freed, ties between candidates, exact
fits and refusals that compaction would have avoided. Three dumps of two or three blocks (the
index block is one) in five fit exactly, or leave one block too few, or refuse one while another waits; two dumps of a
thread fall in one second or in two; a death lets a file be created or filled in one life
and used in the next. Three dispatches of two threads are the fewest in which a thread comes back after another and an
interruption of its first turn is still on its way in its second; of the three
addresses one is the last that fits, one is the first that does not, and one wraps; the value 15 in BASE makes every address wrap,
and in LIMITE lets every address through; modulo 3 a lost instruction does not look like one more. Two processes in one partition make
one wait for the end of the other, and memory be given again; two dumps are the fewest that cross. The second permit of
`sem_short_term` needs a thread that cancels itself, which the cpu then does not find; for it to matter, a dump that fails must end a process
while a thread of it asks for another: four threads. That is the other set of `Cargas`, a process of size 0, every dump of
which is answered ERROR without the filesystem. The proofs allow any number of permits.

**Fairness** (`FairSpec`): each of the kernel's threads takes its next step when it can go on
(detached POSIX threads under the scheduler of the host), the CPU reaches the next syscall or
exit of its program, memoria answers. (Two simultaneous dumps share memoria's `fileSystem_connection` and one may never be answered, as
`Memoria` shows; `KernelLiveness` has no dumps.) The kernel's own ready queue is not assumed fair: `ReadyRuns`
is about it. For filesystem, each thread of the
process takes its next step when it can, and a mutex that is free is obtained; nothing makes the process start
or die. In `Cpu` the cycle, the dispatch thread, the
handler and the planner go on; programs, dumps and the handlers of interruptions are not asked to. In `Memoria` the
threads that serve requests, and the filesystem, go on; of several dumps one does, which is enough. `ReadyRuns` is checked for FIFO; PRIORIDADES and CMN promise a thread of low importance
nothing. Every liveness property allows for a crash, since the findings below are
reachable in it.

### Findings

| Run | Code | What happens |
|---|---|---|
| `FindingShortTerm` | `handle_cpu.c:349` | the NOT_IN_MEMORY case has no `break`: the default case frees the return data again and posts `sem_short_term` again, and two threads can be in its section from then on |
| `FindingBlockedMutex` | `mutex.c:88` | the search for the mutex a thread is blocked on dereferences the NULL it starts with: ending a thread that waits for a mutex stops the kernel |
| `FindingInterrupcion` | cpu `handle_interrupt_connection.c:47` | handlers store interruptions in any order: that of an older quantum overwrites the one of the current, whose thread keeps the cpu |
| `FindingDump` | memoria `handle_kernel_connections.c:581` | two dumps at once share one connection variable: a dump gets another's answer, or waits on a connection that is not its own |
| `FindingBitmapVacio` | filesystem `main.c:76` | a death between creating the bitmap and giving it its size: later starts take the empty file for a used one and the first dump kills the process, at every start |

Others are in the models without a run of their own:

- `mutex.c:34`: unlocking a free mutex dereferences NULL (`crash` in `Kernel`).
- `mutex.c:60`: a thread that locks its own mutex again and is cancelled is first in the mutex's list, and is
  handed the mutex it dies with.
- memoria `handle_kernel_connections.c:577`: a dump request that arrives after its process was finished dereferences NULL
  (`crash` in `Kernel`, `mal = <<"memory_dump", p>>` in `Memoria`), although the kernel is ready to ignore its answer (`handle_memory.c:96`).
- filesystem `handle_connection.c:49`: `strdup` copies a dump up to its first byte 0; what follows in the file is not what was dumped
  (`fiel`; `DumpGuardado` asks for what comes before).
- filesystem `handle_connection.c:203`: the index block is written with the `sizeof` of a pointer, two indices however
  many blocks there are (`EscribirIndices`; `DumpGuardado` asks for a prefix).
- cpu `handle_dispatch_connection.c:276` says that reads and writes cannot fail: one that is on its way when a failed dump ends its
  process reaches memory that may be another's by then (`dir_fisica` in `Cpu`).
- cpu `handle_dispatch_connection.c:451`: base plus address wraps. A process of size 0 has base and limit 2^32 - 1, and its
  address 1 is physical address 0, where it reads and writes another's memory. `AccesoPropio` says that this is all a wrap does: what the MMU
  lets through is an address of the process, or one below its base.
- cpu `handle_dispatch_connection.c:427`: a program may write BASE and LIMITE and then reaches any memory, until it leaves the cpu. Nothing in the
  code or its documents rules it out, so it is no violation of anything stated; `AccesoPropio` says that it ends with the dispatch.
- memoria `handle_kernel_connections.c:184` and `227`: `crear_hilo` and `finalizar_hilo` do not look whether the process was found. After a
  NOT_IN_MEMORY (the first of the table) a failed dump can end the process under them (`mal = <<"crear_hilo", p>>` in `Memoria`), or the kernel keep a READY
  thread that memoria does not have. `PedidosEncuentran` and `Acuerdo` say that it takes both: two permits and a failed dump.

Because of the first two of the table, `ShortTermPermits` counts the passes through the default case
(`invalid`) instead of claiming mutual exclusion, `PedidosEncuentran` and `Acuerdo` exempt the processes that a failed dump ended after such a pass
(and no other), and the passing runs include states after one.

## 4. Proofs

### Kernel

For every number of processes, threads, mutexes, priorities, for the three algorithms and any set of
syscalls, from the assumptions `BoundsAssumption` and `ConfigAssumption` of `Kernel`:

| Theorem | Statement |
|---|---|
| `Typed` | `Spec => []TypeOK` |
| `Counted` | `Spec => []QueueCounts` |
| `Implements` | `Spec => ImplementsLocks`: the kernel implements `KernelLocks` |
| `TokenKept`, `RetryKept`, `PermitsKept` | `SchedulingToken`, `RetryAnnounced` and `ShortTermPermits` hold always |

**Argument.** `TypeOK` is not inductive: a planner past `sem_wait(&sem_counter_new)` takes the head
of `new`, which has a type only if the list has an element. The invariant is
`Inv == TypeOK /\ QueueCounts`: a counting semaphore plus the units its waiter carries is
the length of its list, and then every `Head` and every removal is of a list that is not
empty. `KernelProofs` shows first what each action does to the semaphores (`LocksStep`: a
step of `Kernel` is a step of `KernelLocks` or leaves it alone, given `TypeOK`), then the types
and the counts one kernel thread at a time (`LongTermTypes` ... `EndTypes`), on
lemmas about ending a thread, handing a mutex over and replacing one in the list.
The three properties about semaphores are proved of `KernelLocks`, where a step is
a line or two of arithmetic, and carried to `Kernel` by the refinement. `KernelLocks` proves
`ShortTermPermits` with a cardinality (how many dump threads are in the section), which is why
the theorem needs the set of dump threads to be finite, and it is (`TcbFinite`).

**Where the threads are** (`KernelPlacesProofs`), from the same assumptions:

| Theorem | Statement |
|---|---|
| `PlacedAlways` | `Spec => []Placed`, the inductive invariant |
| `ReleasedAlways` | `ReleasedOnce`: a finished thread is let go of once, by the last who can reach it |
| `WaitingAlways` | `WaitingPlace`: a live thread is where its state and block type say |
| `IdleAlways` | `NoIdleWaiter`: nobody waits for a mutex that is free |
| `LiveAlways` | `ExecIsLive`: the branch logged as impossible at `handle_cpu.c:43` is |
| `MemoryAlways` | `MemoryAgrees`: memoria holds what the kernel has |
| `FinalAlways` | `Spec => ExitIsFinal` |

None of the six is inductive, nor is their conjunction: whether a thread that joins is woken depends on
whose list it is in, whether a released process is released once on who is finishing it. `Placed` is their
strengthening, in seven parts that hold each other up:

- `Births`: threads and processes are given out in order, so that a state of `NULL_STATE` and a number
  not given yet are the same; a process in `new` is there once and has no thread; one in EXIT has none alive.
- `Memory`: every live thread is in memoria, and what memoria holds besides is of a process in EXIT whose release has not begun.
- `Finishing`: between `finish_process` and the answer of memoria the handler and the dump threads hold different processes.
  Without it two of them could start two release threads for one process.
- `Turn`: at most one thread is in EXEC, it is in `exec` and the CPU has it, and then the handler is owed a
  `wait_cpu_response` or already has it. This needs `SchedulingToken`, which `KernelProofs` gets from `KernelLocks`.
- `Mutexes` and `Joins`: the lists of waiters have no repetitions, no thread twice, and exactly the blocked ones.
- `Holding`: for a live thread, `ready`, the IO handler and the dump threads have it exactly when its state says so; for one
  in EXIT, one of `ready`, IO handler, dump thread, `sem_finished_thread` and the release thread has it, and only one.

The proof goes action by action (`DispatchPlaced` ... `ThreadCancelPlaced`); `Quiet` disposes of those
that only move a program counter. Most work is in `EndThreadPlaced`: a thread that ends hands its mutexes over and
wakes who joined it, possibly itself, and these two sets of threads are disjoint and without repetition because `Mutexes` and
`Joins` say so. `EndProcessPlaced` needs `Joins` to show that emptying the lists of one process leaves no waiter behind.
TLC found `Placed` to hold on the instances of `KernelThreads` and `KernelProcesses` before it was proved.

### Particiones

For all sets of pids and sizes and all configurations (any list of fixed partitions), from
`PidsAssumption` and `ConfiguracionAssumption`:

| Theorem | Statement |
|---|---|
| `Tipos` | `Spec => []TypeOK` |
| `NoSePierdeMemoria` | `Teselado`: the partitions tile memory |
| `SeJuntanTodas` | `SinFragmentos`: no two free neighbours |
| `CadaProcesoSuParticion` | `ProcesosEnParticiones` |
| `NadiePisaANadie` | `DuenioUnico` |
| `MemoriaPrometida` | `ImplementaMemoria`: `Particiones` implements `MemoriaUsuario` |

**Argument.** The invariant adds two facts to the five: a pid is in `lista_procesos` or about to be once
(`ProcesosUnicos`), and no process is created while another ends (`UnoPorVez`, what `sem_long_term` gives). Its core are lemmas about any
list of partitions: cutting one (`Cortada`, `AsignaParte`), putting the new one where its base says (`DondeVa`, which is where it was cut from),
freeing (`CambiaDuenio`) and joining (`Junta`, `JuntaDerecha`) each keep a list contiguous, keep who owns what, and make free neighbours only where the next
step joins them. That a contiguous list is in the order of its addresses (`ContiguaOrden`) is an induction over the list, done by the least element of a set of naturals.

For the refinement a list is read address by address (`Es`): the owner of an address is that of the one partition it lies in
(`UnSoloLugar`). A cut or a join leaves every owner as it was (`EsPartida`), giving or freeing a partition changes those of its addresses (`DuenioDeDe`).
The longest free stretches of memory are the free partitions (`Lugares`), which under DINAMICAS is `SinFragmentos` at work:
with two free neighbours one stretch would be two partitions, and memoria could refuse what `MemoriaUsuario` accepts. So
`Encontrada` finds a place the algorithm prefers (`Preferida`), and each step is one of `MemoriaUsuario` (`CrearAsigna`,
`NoHayRechaza`, `LiberarLibera`) or, when only `lista_procesos` changes, none.

### Cpu

For all sets of threads, any places of processes, any width of addresses, any number of dispatches, from `CpuAssumption`. It says
of places that they are disjoint, which `NadiePisaANadie` proves of partitions, and that they end before the last four addresses:
`tam_memoria` is an `int` (`memoria/include/globals.h:67`), addresses are `uint32_t`.

| Theorem | Statement |
|---|---|
| `Tipos` | `Spec => []TypeOK` |
| `EnPaso` | `ProtocoloEnPaso`: who reads the dispatch connection finds the kind of message it expects |
| `SirveAlQuePide` | `CorreExec` |
| `SoloSuQuantum` | `InterrupcionJusta` |
| `SoloLoPropio` | `AccesoPropio`, whatever earlier threads wrote in BASE and LIMITE |
| `CadaHiloSusRegistros` | `Spec => ImplementaVirtual`: `Cpu` implements `ProcesadorVirtual` |

**Argument.** The dispatch connection goes through a cycle of phases (`Conexion`: `Reposo`, `EnVuelo`, `Contexto`, `Corriendo`, `Pregunta`,
`Continua`, `Contestado`, `Dejando`, `Dejado`, `Interrumpido`), each of which fixes tokens, places of the threads and every message under way. What a
party can see tells it the phase (`QueFase`), and each action leads from one to the next (`CpuFases`, `KernelFases`). The rest of the invariant hangs on it: which thread has
a context (`Contextos`), whose registers the cpu has and, unless its thread wrote them (`escritos`), that BASE and LIMITE are of its process (`Registros`), and that interruptions stored late are of older dispatches (`Interrupciones`). For the refinement, the registers
of the abstract thread are the cpu's while its cycle has them and memoria's otherwise; `CpuVirtual` and `KernelVirtual` show that
only `EXECUTE` moves them on and only creation and end of threads make and remove them.

### Memoria

For all processes and threads, any number of partitions, dumps and permits of `sem_short_term`, from `MemoriaAssumption`:

| Theorem | Statement |
|---|---|
| `Invariante`, `Tipos` | the inductive invariant and `TypeOK` hold always |
| `ElKernelEncuentra` | `PedidosEncuentran` |
| `ElRestoPierdeLoTerminado` | `SoloPierdenLoTerminado` |
| `MismosProcesos` | `Acuerdo` |
| `CadaDumpSuRespuesta` | `RespuestaPropia` |

**Argument.** `PedidoLargo`, `PedidoCorto` and `PedidoCpu` say, for each stage of the request under
`sem_long_term`, under `sem_short_term` and of the cpu, what the kernel knows of the process it names; `ListaProcesos`, `ListaOcupadas`
and `ListaTids` say what the three lists hold at that stage, of that process and of all others. So a handler finds what it does not look for.
That `sem_short_term` is a mutex is itself part of the invariant (`Excluye`), and only until `invalid`. After it the handler's request and any number of dumps
that end processes overlap, and what is claimed of a process depends on whether a failed dump ended it (`Expuesto`): of those `lista_procesos` holds
nothing it should not (`Debe`), but may have lost what a request under way expects; for all others nothing changes. All
of it only while `mal` is unset: after the first use of freed memory nothing is claimed. `DumpSolo` says that a dump no
other overlaps has `fileSystem_connection` to itself, open, and with its own request.

### FileSystem

For every number of blocks and connections, every finite set of dumps with any sizes and any place of
their first NUL, any number of deaths and seconds, from `DumpsAssumption`,
`ConexionesAssumption` and `CotasAssumption`:

| Theorem | Statement |
|---|---|
| `Tipos` | `Spec => []TypeOK` |
| `NadieComparte` | `Spec => []SinCompartir`: no block has two dumps |
| `HayLugar` | `Spec => []EspacioReservado`: the `abort()` is not reached |
| `SoloPorEspacio` | `Spec => []RechazoJusto` |
| `SeConserva` | `Spec => []DumpGuardado`: what was answered OK stays |
| `CostoDeCaer` | `Spec => []PerdidosPorCaida`: a death costs one dump |

**Argument.** None of the five is inductive. The invariant is in four parts, each kept by every step given
those before it. `Inv1` says where each thread is and what it holds (`Fase`: past
the lock and before the unlock it holds `mutex_filesystem`; it has no block before, some while
it takes them, all of them after, none if it was refused) and that the bitmap is zeroed only
before the first dump (`Arranque`, without which a restart could give blocks out twice). `Inv2` is
`SinCompartir`, `EspacioReservado` and `RechazoJusto`: only one step takes a block
(`AsignarBloque`), it takes a free one (`BloqueLibre`, which needs that a set of naturals
has a least element), and whoever is taking blocks is alone. `Inv3` follows what a
dump has written (`Escrito`): since no block is shared, no write of another dump reaches
them (`BloqueAjeno`), and since a name is given once, its file changes hands only to a dump of
the same name. The last part counts: a step that is not a death loses no block (`NadaSePierde`), and a death only those of
the thread inside the section (`LoQueCuesta`).

### Only model-checked

- Liveness (`ProcessReleased`, `NewAdmitted`, `ReadyRuns`, `EsperasAcaban`, `Respondido`, `DumpRespondido`, `PedidoRespondido`): out of
  the prover's reach, as are ENABLED, recursive operators and induction over data.
- The properties of the findings, which are false.

## 5. Not modelled

Bytes of messages and sockets: a message is a step, and a connection that breaks is not
considered, since the programs do not handle one. Priorities below 0, which the search of
`short_term.c:134` never finds. Values of registers (but BASE and LIMITE) and memory, and programs that name a register that does not
exist or run past their last instruction. A crash of the host under filesystem. Start-up, configuration, logs.

## 6. Plan

Done: `Semaphores`, `KernelLocks`, `Kernel`; `MemoriaUsuario`, `Particiones`; `FileSystem`;
`ProcesadorVirtual`, `Cpu`; `Memoria`, each with proofs of every safety property its runs check. Left, in order of importance:

1. `DumpStore`: a dump is a set of blocks of its own or nothing, implemented by `FileSystem`.
2. `ThreadLifecycle`: an abstract thread that is in one place at a time, implemented by `Kernel` (`Placed` is the invariant it needs).
3. `ReadyQueue`: the three choices of the next thread with negative priorities, against reference definitions.
