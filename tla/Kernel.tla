------------------------------- MODULE Kernel -------------------------------
(***************************************************************************)
(* The kernel process: the long-term planner, the short-term planner, the  *)
(* handler of what the CPU returns, the IO handler, one dump thread per    *)
(* DUMP_MEMORY and one release thread per finished process, synchronised   *)
(* by the eight semaphores of planners.c and by sem_finished_thread.       *)
(*                                                                         *)
(* An action runs one kernel thread from one blocking call to the next.    *)
(* The CPU and the memory are their side of the kernel's requests: the CPU *)
(* returns the running thread, the memory remembers which processes and    *)
(* threads it holds.                                                       *)
(***************************************************************************)
EXTENDS Semaphores, Integers, Sequences, SequencesExt

CONSTANTS
    MaxPid,      \* bound: processes ever created
    MaxTid,      \* bound: threads ever created in one process
    MutexNames,  \* names the program passes to the MUTEX_ syscalls
    Priorities,  \* priorities it passes to PROCESS_CREATE and THREAD_CREATE
    Algorithm,   \* kernel_config->planning_algorithm
    Partitions,  \* processes that fit in memory at the same time
    Syscalls,    \* the syscalls the programs use
    Segfaults,   \* whether READ_MEM and WRITE_MEM can fault
    MaxCalls     \* bound: syscalls issued, exits not counted

Exits == {"THREAD_EXIT", "PROCESS_EXIT"}
SyscallCodes ==
    Exits \cup {"PROCESS_CREATE", "THREAD_CREATE", "THREAD_JOIN", "THREAD_CANCEL",
                "MUTEX_CREATE", "MUTEX_LOCK", "MUTEX_UNLOCK", "DUMP_MEMORY", "IO"}

ASSUME BoundsAssumption ==
    /\ MaxPid \in Nat \ {0} /\ MaxTid \in Nat \ {0}
    /\ MaxCalls \in Nat /\ Partitions \in Nat \ {0}
ASSUME ConfigAssumption ==
    /\ Algorithm \in {"FIFO", "PRIORIDADES", "CMN"}
    /\ Priorities \subseteq Nat /\ 0 \in Priorities
    /\ MutexNames \subseteq Nat   \* names told apart by a number
    /\ Syscalls \subseteq SyscallCodes
    /\ Segfaults \in BOOLEAN

Pids  == 0 .. MaxPid - 1
Tids  == 0 .. MaxTid - 1
TCB   == Pids \X Tids
NoTcb == <<-1, -1>>          \* a NULL t_tcb *
NoTid == -1

VARIABLES
    pid_counter, pcb_state, tid_counter, mutex_list,            \* t_pcb
    state, block_type, joined_to, joined_tcbs, priority,        \* t_tcb
    finished,                       \* sem_finished_thread of each tcb
    new, ready, io_block_list, exec, exitt,
    no_memory_for_new_process,
    lt, st, rh, io, io_tcb, dump, rel,   \* where each kernel thread is
    resident, hilos,                \* processes and threads memoria holds
    cpu, ret, interrupt, calls,     \* the CPU's thread and what it returned
    invalid,                        \* times the default case of the switch ran
    crash                           \* why a process of the system died

pcbVars   == <<pid_counter, pcb_state, tid_counter, mutex_list>>
tcbVars   == <<state, block_type, joined_to, joined_tcbs, priority, finished>>
queueVars == <<new, ready, io_block_list, exec, exitt>>
pcVars    == <<lt, st, rh, io, io_tcb, dump, rel>>
memVars   == <<resident, hilos>>
cpuVars   == <<cpu, ret, interrupt, calls>>
faultVars == <<invalid, crash>>
\* what no case of the handler's switch touches
rhFrame   == <<no_memory_for_new_process, lt, st, io, io_tcb, rel, exitt, resident,
               cpu, interrupt, calls, faultVars>>
vars == <<pcbVars, tcbVars, queueVars, no_memory_for_new_process, sem, pcVars,
          memVars, cpuVars, faultVars>>

-----------------------------------------------------------------------------
\* Mutation of Threads: finish_process and find_tcb miss the newest thread.
ThreadsButLast(p) == {<<p, i>> : i \in 0 .. tid_counter[p] - 2}

\* pcb->tcb_list: the threads created so far in process p.
Threads(p) == {<<p, i>> : i \in 0 .. tid_counter[p] - 1}

\* A tcb is freed by the release thread of its process, in creation order.
Freed(t) == t[2] < rel[t[1]]

NoReturn == [type |-> "NONE", call |-> "NONE", arg |-> 0]
Return(type, call, arg) == [type |-> type, call |-> call, arg |-> arg]
Returns == [type : {"NONE", "SYSCALL", "INTERRUPTION", "SEGMENTATION_FAULT",
                    "NOT_IN_MEMORY"},
            call : SyscallCodes \cup {"NONE"},
            arg  : Nat]

\* The values the program can pass with a syscall.
Arguments(call) ==
    CASE call \in {"PROCESS_CREATE", "THREAD_CREATE"} -> Priorities
      [] call \in {"THREAD_JOIN", "THREAD_CANCEL"}    -> Tids
      [] call \in {"MUTEX_CREATE", "MUTEX_LOCK", "MUTEX_UNLOCK"} -> MutexNames
      [] OTHER -> {0}

Init ==
    /\ pid_counter = 1
    /\ pcb_state = [p \in Pids |-> IF p = 0 THEN "NEW" ELSE "NONE"]
    /\ tid_counter = [p \in Pids |-> 0]
    /\ mutex_list = [p \in Pids |-> <<>>]
    /\ state = [t \in TCB |-> "NULL_STATE"]
    /\ block_type = [t \in TCB |-> "INSTRUCTION"]
    /\ joined_to = [t \in TCB |-> NoTid]
    /\ joined_tcbs = [t \in TCB |-> <<>>]
    /\ priority = [t \in TCB |-> 0]
    /\ finished = [t \in TCB |-> 0]
    /\ new = <<0>> /\ ready = <<>> /\ io_block_list = <<>>
    /\ exec = NoTcb /\ exitt = <<>>
    /\ no_memory_for_new_process = FALSE
    /\ SemInit
    /\ lt = "wait" /\ st = "plan" /\ rh = "wait" /\ io = "wait" /\ io_tcb = NoTcb
    /\ dump = [t \in TCB |-> "none"]
    /\ rel = [p \in Pids |-> -1]
    /\ resident = {} /\ hilos = {}
    /\ cpu = NoTcb /\ ret = NoReturn /\ interrupt = FALSE /\ calls = 0
    /\ invalid = 0 /\ crash = "none"

-----------------------------------------------------------------------------
(* Long-term planner *)

LTWait ==
    /\ lt = "wait" /\ Wait("new")
    /\ lt' = "lock"
    /\ UNCHANGED <<pcbVars, tcbVars, queueVars, no_memory_for_new_process, st, rh, io,
                   io_tcb, dump, rel, memVars, cpuVars, faultVars>>

LTLock ==
    /\ lt = "lock" /\ Wait("long")
    /\ lt' = "create"
    /\ UNCHANGED <<pcbVars, tcbVars, queueVars, no_memory_for_new_process, st, rh, io,
                   io_tcb, dump, rel, memVars, cpuVars, faultVars>>

\* Mutation of HasRoom: one process too many.
HasRoomForOneMore == Cardinality(resident) <= Partitions

\* Whether memoria has room for one more process.
HasRoom == Cardinality(resident) < Partitions

\* The process at the head of new fits: its main thread becomes READY.
LTCreate ==
    /\ lt = "create"
    /\ LET p == Head(new)  t == <<p, tid_counter[p]>> IN
       /\ HasRoom /\ tid_counter[p] < MaxTid
       /\ resident' = resident \cup {p} /\ hilos' = hilos \cup {t}
       /\ tid_counter' = [tid_counter EXCEPT ![p] = @ + 1]
       /\ pcb_state' = [pcb_state EXCEPT ![p] = "EXEC"]
       /\ state' = [state EXCEPT ![t] = "READY"]
       /\ ready' = Append(ready, t)
       /\ new' = Tail(new)
    /\ sem' = Post(sem, {"ready", "long"})
    /\ lt' = "wait"
    /\ UNCHANGED <<pid_counter, mutex_list, block_type, joined_to, joined_tcbs, priority,
                   finished, io_block_list, exec, exitt, no_memory_for_new_process, st, rh,
                   io, io_tcb, dump, rel, cpuVars, faultVars>>

\* It does not fit: it stays first in new and the planner waits for memory.
LTNoMemory ==
    /\ lt = "create" /\ ~HasRoom
    /\ no_memory_for_new_process' = TRUE
    /\ sem' = Post(sem, {"long"})
    /\ lt' = "retry"
    /\ UNCHANGED <<pcbVars, tcbVars, queueVars, st, rh, io, io_tcb, dump, rel, memVars,
                   cpuVars, faultVars>>

\* Mutations of LTRetry: the planner does not wait for memory; it forgets that the
\* process is still in new.
LTRetryAtOnce ==
    /\ lt = "retry"
    /\ lt' = "wait"
    /\ sem' = Post([sem EXCEPT !["retry"] = @ - 1], {"new"})
    /\ UNCHANGED <<pcbVars, tcbVars, queueVars, no_memory_for_new_process, st, rh, io,
                   io_tcb, dump, rel, memVars, cpuVars, faultVars>>
LTRetryUncounted ==
    /\ lt = "retry" /\ Wait("retry")
    /\ lt' = "wait"
    /\ UNCHANGED <<pcbVars, tcbVars, queueVars, no_memory_for_new_process, st, rh, io,
                   io_tcb, dump, rel, memVars, cpuVars, faultVars>>

LTRetry ==
    /\ lt = "retry" /\ sem["retry"] > 0
    /\ lt' = "wait"
    /\ sem' = Post([sem EXCEPT !["retry"] = @ - 1], {"new"})
    /\ UNCHANGED <<pcbVars, tcbVars, queueVars, no_memory_for_new_process, st, rh, io,
                   io_tcb, dump, rel, memVars, cpuVars, faultVars>>

-----------------------------------------------------------------------------
(* Short-term planner.  ready is kept in the order of arrival; the position *)
(* a tcb has in the code's lists follows from Algorithm.                    *)

STPlan ==
    /\ st = "plan" /\ Wait("plan")
    /\ st' = "ready"
    /\ UNCHANGED <<pcbVars, tcbVars, queueVars, no_memory_for_new_process, lt, rh, io,
                   io_tcb, dump, rel, memVars, cpuVars, faultVars>>

STReady ==
    /\ st = "ready" /\ Wait("ready")
    /\ st' = "lock"
    /\ UNCHANGED <<pcbVars, tcbVars, queueVars, no_memory_for_new_process, lt, rh, io,
                   io_tcb, dump, rel, memVars, cpuVars, faultVars>>

STLock ==
    /\ st = "lock" /\ Wait("short")
    /\ st' = "select"
    /\ UNCHANGED <<pcbVars, tcbVars, queueVars, no_memory_for_new_process, lt, rh, io,
                   io_tcb, dump, rel, memVars, cpuVars, faultVars>>

\* The i-th tcb to arrive stands before the j-th in the list that holds them.
Before(i, j) ==
    LET a == priority[ready[i]]  b == priority[ready[j]] IN
    IF Algorithm = "FIFO" THEN i < j ELSE a < b \/ (a = b /\ i < j)

\* The i-th tcb is the one to run: the first, under CMN of the sublist with the
\* lowest priority.
select_thread(i) == \A j \in 1 .. Len(ready) : ~Before(j, i)

\* Sublists of CMN are scanned in the order they were created, left open here.
Scanned(i, j) == Before(i, j)
                 /\ (Algorithm = "CMN" => priority[ready[i]] = priority[ready[j]])

Finished(i) == state[ready[i]] = "EXIT"

\* find_finished_tcb_in_ready returns a tcb: it leaves ready and its release
\* thread may go on; the planner tries again.
STCollect ==
    /\ st = "select"
    /\ \E i \in 1 .. Len(ready) :
       /\ Finished(i)
       /\ \A j \in 1 .. Len(ready) : Scanned(j, i) => ~Finished(j)
       /\ ready' = RemoveAt(ready, i)
       /\ finished' = [finished EXCEPT ![ready[i]] = @ + 1]
    /\ sem' = Post(sem, {"short"})
    /\ st' = "ready"
    /\ UNCHANGED <<pcbVars, state, block_type, joined_to, joined_tcbs, priority, new,
                   io_block_list, exec, exitt, no_memory_for_new_process, lt, rh, io,
                   io_tcb, dump, rel, memVars, cpuVars, faultVars>>

\* No tcb in ready is finished: select_thread takes the first, which goes to EXEC
\* and to the CPU.
STDispatch ==
    /\ st = "select"
    /\ \A j \in 1 .. Len(ready) : ~Finished(j)
    /\ \E i \in 1 .. Len(ready) :
       /\ select_thread(i)
       /\ ready' = RemoveAt(ready, i)
       /\ state' = [state EXCEPT ![ready[i]] = "EXEC"]
       /\ exec' = ready[i]
       /\ cpu' = ready[i]
    /\ interrupt' = FALSE
    /\ sem' = Post(sem, {"response", "short"})
    /\ st' = IF Algorithm = "CMN" THEN "quantum" ELSE "plan"
    /\ UNCHANGED <<pcbVars, block_type, joined_to, joined_tcbs, priority, finished, new,
                   io_block_list, exitt, no_memory_for_new_process, lt, rh, io, io_tcb,
                   dump, rel, memVars, ret, calls, faultVars>>

\* The quantum is over, whenever that is.
STQuantum ==
    /\ st = "quantum" /\ Wait("short")
    /\ st' = "interrupt"
    /\ UNCHANGED <<pcbVars, tcbVars, queueVars, no_memory_for_new_process, lt, rh, io,
                   io_tcb, dump, rel, memVars, cpuVars, faultVars>>

\* send_interrupt names the tcb dispatched last, if some tcb is still in EXEC.
STInterrupt ==
    /\ st = "interrupt"
    /\ interrupt' = (interrupt \/ exec # NoTcb)
    /\ sem' = Post(sem, {"short"})
    /\ st' = "plan"
    /\ UNCHANGED <<pcbVars, tcbVars, queueVars, no_memory_for_new_process, lt, rh, io,
                   io_tcb, dump, rel, memVars, cpu, ret, calls, faultVars>>

-----------------------------------------------------------------------------
(* The CPU, as the kernel sees it: it runs cpu until it returns it. *)

Running == cpu # NoTcb /\ ret = NoReturn

CpuReturns(r) ==
    /\ ret' = r
    /\ UNCHANGED <<pcbVars, tcbVars, queueVars, no_memory_for_new_process, sem, pcVars,
                   memVars, cpu, interrupt, faultVars>>

CpuSyscall ==
    /\ Running /\ cpu \in hilos
    /\ \E call \in Syscalls : \E arg \in Arguments(call) :
       /\ call \in Exits \/ calls < MaxCalls
       /\ call = "PROCESS_CREATE" => pid_counter < MaxPid
       /\ call = "THREAD_CREATE" => tid_counter[cpu[1]] < MaxTid
       /\ calls' = IF call \in Exits THEN calls ELSE calls + 1
       /\ CpuReturns(Return("SYSCALL", call, arg))

CpuSegfault ==
    /\ Running /\ cpu \in hilos /\ Segfaults
    /\ CpuReturns(Return("SEGMENTATION_FAULT", "NONE", 0))
    /\ UNCHANGED calls

\* The context or the next instruction of a thread memoria no longer has.
CpuNotInMemory ==
    /\ Running /\ cpu \notin hilos
    /\ CpuReturns(Return("NOT_IN_MEMORY", "NONE", 0))
    /\ UNCHANGED calls

CpuInterruption ==
    /\ Running /\ interrupt
    /\ CpuReturns(Return("INTERRUPTION", "NONE", 0))
    /\ UNCHANGED calls

-----------------------------------------------------------------------------
(* Ending threads and processes *)

\* Mutation of Without: the element stays in the list.
WithoutRemoving(s, t) == s

\* remove an element from a list, by position
Position(s, t) == CHOOSE i \in 1 .. Len(s) : s[i] = t
Without(s, t) == IF t \in ToSet(s) THEN RemoveAt(s, Position(s, t)) ELSE s

\* Mutations of Delegated: a thread in the io list is not, the running thread is.
DelegatedButIo(t) == \/ state[t] = "READY"
                     \/ state[t] = "BLOCK" /\ block_type[t] = "DUMP_MEMORY"
DelegatedIfRunning(t) == \/ state[t] \in {"READY", "EXEC"}
                         \/ state[t] = "BLOCK" /\ block_type[t] \in {"IO", "DUMP_MEMORY"}

\* Whose hands a thread is left in when handle_sending_tcb_to_exit puts it in
\* EXIT: nobody's, so its sem_finished_thread is posted at once, unless it is in
\* ready, in the io list or waiting for a dump.
Delegated(t) == \/ state[t] = "READY"
                \/ state[t] = "BLOCK" /\ block_type[t] \in {"IO", "DUMP_MEMORY"}
Blocked(t, why) == state[t] = "BLOCK" /\ block_type[t] = why

\* A process of the system dies: nothing happens after it.
Crashes(why) ==
    /\ crash' = why
    /\ UNCHANGED <<pcbVars, tcbVars, queueVars, no_memory_for_new_process, sem, pcVars,
                   memVars, cpuVars, invalid>>

\* Mutation of HandOver: the mutex is freed and its waiters stay.
HandOverToNobody(m) == [m EXCEPT !.tcb = NoTcb]

\* A mutex its owner lets go of: the first blocked thread takes it.
HandOver(m) ==
    IF m.blocked = <<>> THEN [m EXCEPT !.tcb = NoTcb]
    ELSE [m EXCEPT !.tcb = Head(m.blocked), !.blocked = Tail(m.blocked)]

\* w lists the numbers of the set S in increasing order.
Ascending(S, w) == /\ \A i, j \in DOMAIN w : i < j => w[i] < w[j]
                   /\ \A x \in S : \E i \in DOMAIN w : w[i] = x

\* request_thread_release_to_memory, free_taken_mutexes, joined_threads_to_ready
\* and handle_sending_tcb_to_exit of t.  A thread may be waiting for itself: it
\* is woken first and then counts as READY.  s is the value of sem to build on.
EndThread(t, s) ==
    LET p == t[1]
        mutexes == mutex_list[p]
        taken   == {i \in 1 .. Len(mutexes) : mutexes[i].tcb = t}
        passed  == {i \in taken : mutexes[i].blocked # <<>>}
    IN
    \E n \in 0 .. Len(mutexes) : \E w \in [1 .. n -> passed] :
    LET woken == [k \in 1 .. n |-> Head(mutexes[w[k]].blocked)] \o joined_tcbs[t]
        awake == ToSet(woken)
        joining == Blocked(t, "THREAD_JOIN") /\ t \notin awake
    IN
    /\ Ascending(passed, w)
    /\ Blocked(t, "MUTEX_LOCK") => t \in awake
    /\ hilos' = hilos \ {t}
    /\ mutex_list' = [mutex_list EXCEPT ![p] = [i \in 1 .. Len(mutexes) |->
                        IF i \in taken THEN HandOver(mutexes[i]) ELSE mutexes[i]]]
    /\ state' = [u \in TCB |-> IF u = t THEN "EXIT"
                               ELSE IF u \in awake THEN "READY" ELSE state[u]]
    /\ block_type' = [u \in TCB |-> IF u \in awake \/ (u = t /\ joining) THEN "INSTRUCTION"
                                    ELSE block_type[u]]
    /\ joined_to' = IF joining THEN [joined_to EXCEPT ![t] = NoTid] ELSE joined_to
    /\ joined_tcbs' = [u \in TCB |-> IF u = t THEN <<>>
                        ELSE IF joining /\ u = <<p, joined_to[t]>>
                             THEN Without(joined_tcbs[u], t) ELSE joined_tcbs[u]]
    /\ ready' = ready \o woken
    /\ sem' = [s EXCEPT !["ready"] = @ + Len(woken)]
    /\ finished' = IF t \in awake \/ Delegated(t) THEN finished
                   ELSE [finished EXCEPT ![t] = @ + 1]
    /\ exec' = IF state[t] = "EXEC" THEN NoTcb ELSE exec

\* find_mutex_by_blocked_thread dereferences a NULL t_mutex when the thread to
\* end is blocked on a mutex and nothing woke it.
EndThreadCrashes(t) ==
    /\ Blocked(t, "MUTEX_LOCK")
    /\ \A i \in 1 .. Len(mutex_list[t[1]]) : LET m == mutex_list[t[1]][i] IN
          m.tcb = t /\ m.blocked # <<>> => Head(m.blocked) # t
    /\ t \notin ToSet(joined_tcbs[t])
    /\ Crashes("find_mutex_by_blocked_thread")

\* finish_process up to sem_wait(&sem_long_term): the pcb and every thread of p
\* go to EXIT.  u is the thread whose dump failed, no longer waiting for it.  The
\* code takes each joining thread out of the list it is in: only live joining
\* threads of p are in those lists (WaitingPlace), so they end up empty.
EndProcess(p, u) ==
    LET live == {t \in Threads(p) : state[t] # "EXIT"}
        joining == {t \in live : Blocked(t, "THREAD_JOIN")}
    IN
    /\ \A t \in live : ~Blocked(t, "MUTEX_LOCK")
    /\ pcb_state' = [pcb_state EXCEPT ![p] = "EXIT"]
    /\ state' = [t \in TCB |-> IF t \in live THEN "EXIT" ELSE state[t]]
    /\ block_type' = [t \in TCB |-> IF t \in joining \/ (t = u /\ t \in live)
                                    THEN "INSTRUCTION" ELSE block_type[t]]
    /\ joined_to' = [t \in TCB |-> IF t \in joining THEN NoTid ELSE joined_to[t]]
    /\ joined_tcbs' = [t \in TCB |-> IF t \in Threads(p) THEN <<>> ELSE joined_tcbs[t]]
    /\ finished' = [t \in TCB |-> IF t = u \/ (t \in live /\ ~Delegated(t))
                                  THEN finished[t] + 1 ELSE finished[t]]
    /\ exec' = IF exec \in live THEN NoTcb ELSE exec

EndProcessCrashes(p) ==
    /\ \E t \in Threads(p) : Blocked(t, "MUTEX_LOCK")
    /\ Crashes("find_mutex_by_blocked_thread")

\* Mutations of ReleaseProcess: the flag is not cleared; the planner is not woken.
ReleaseProcessKeepingFlag(p, s) ==
    /\ sem["long"] > 0
    /\ resident' = resident \ {p}
    /\ hilos' = {t \in hilos : t[1] # p}
    /\ sem' = IF no_memory_for_new_process THEN Post(s, {"retry"}) ELSE s
    /\ rel' = [rel EXCEPT ![p] = 0]
    /\ UNCHANGED no_memory_for_new_process
ReleaseProcessWakingNobody(p, s) ==
    /\ sem["long"] > 0
    /\ resident' = resident \ {p}
    /\ hilos' = {t \in hilos : t[1] # p}
    /\ sem' = s
    /\ no_memory_for_new_process' = FALSE
    /\ rel' = [rel EXCEPT ![p] = 0]

\* The rest of finish_process: memoria frees the process, a long-term planner
\* without memory may retry, and the release thread of p starts.
ReleaseProcess(p, s) ==
    /\ sem["long"] > 0
    /\ resident' = resident \ {p}
    /\ hilos' = {t \in hilos : t[1] # p}
    /\ sem' = IF no_memory_for_new_process THEN Post(s, {"retry"}) ELSE s
    /\ no_memory_for_new_process' = FALSE
    /\ rel' = [rel EXCEPT ![p] = 0]

-----------------------------------------------------------------------------
(* Handler of what the CPU returns *)

RHReceive ==
    /\ rh = "wait" /\ Wait("response") /\ ret # NoReturn
    /\ rh' = "lock"
    /\ UNCHANGED <<pcbVars, tcbVars, queueVars, no_memory_for_new_process, lt, st, io,
                   io_tcb, dump, rel, memVars, cpuVars, faultVars>>

RHLock ==
    /\ rh = "lock" /\ Wait("short")
    /\ rh' = "handle"
    /\ UNCHANGED <<pcbVars, tcbVars, queueVars, no_memory_for_new_process, lt, st, io,
                   io_tcb, dump, rel, memVars, cpuVars, faultVars>>

\* exec is NULL when the process failed in the meantime: the syscall is dropped.
Handling(call) == rh = "handle" /\ ret.type = "SYSCALL" /\ ret.call = call /\ exec # NoTcb

\* Mutations of KeepsCpu: sem_short_term is not posted; a new thread is planned too.
KeepsCpuAndPermit(s) ==
    /\ sem' = Post(s, {"response"})
    /\ rh' = "wait" /\ ret' = NoReturn
KeepsCpuAndPlans(s) ==
    /\ sem' = Post(s, {"short", "response", "plan"})
    /\ rh' = "wait" /\ ret' = NoReturn

\* will_replan = false: the CPU goes on with the same thread.
KeepsCpu(s) ==
    /\ sem' = Post(s, {"short", "response"})
    /\ rh' = "wait" /\ ret' = NoReturn

\* Mutation of LosesCpu: the CPU is told to go on.
LosesCpuUntold(s) ==
    /\ sem' = Post(s, {"short", "response"})
    /\ rh' = "wait" /\ ret' = NoReturn

\* will_replan = true: the CPU is told to stop and its answer is awaited.
LosesCpu(s) == sem' = s /\ rh' = "ack" /\ UNCHANGED ret

RHDropSyscall ==
    /\ rh = "handle" /\ ret.type = "SYSCALL" /\ exec = NoTcb
    /\ LosesCpu(sem)
    /\ UNCHANGED <<pcbVars, tcbVars, new, ready, io_block_list, exec, dump, hilos, rhFrame>>

RHProcessCreate ==
    /\ Handling("PROCESS_CREATE") /\ pid_counter < MaxPid
    /\ pid_counter' = pid_counter + 1
    /\ pcb_state' = [pcb_state EXCEPT ![pid_counter] = "NEW"]
    /\ priority' = [priority EXCEPT ![<<pid_counter, 0>>] = ret.arg]
    /\ new' = Append(new, pid_counter)
    /\ KeepsCpu(Post(sem, {"new"}))
    /\ UNCHANGED <<tid_counter, mutex_list, state, block_type, joined_to, joined_tcbs,
                   finished, ready, io_block_list, exec, dump, hilos, rhFrame>>

RHProcessExit ==
    /\ Handling("PROCESS_EXIT") /\ pcb_state[exec[1]] # "EXIT"   \* see ExecIsLive
    /\ EndProcess(exec[1], NoTcb)
    /\ rh' = "finish"
    /\ UNCHANGED <<pid_counter, tid_counter, mutex_list, priority, new, ready,
                   io_block_list, dump, hilos, sem, ret, rhFrame>>

RHFinish ==
    /\ rh = "finish"
    /\ ReleaseProcess(cpu[1], sem)
    /\ rh' = "ack"
    /\ UNCHANGED <<pcbVars, tcbVars, queueVars, lt, st, io, io_tcb, dump, cpuVars, faultVars>>

RHThreadCreate ==
    /\ Handling("THREAD_CREATE")
    /\ LET p == exec[1]  t == <<p, tid_counter[p]>> IN
       /\ tid_counter[p] < MaxTid
       /\ tid_counter' = [tid_counter EXCEPT ![p] = @ + 1]
       /\ priority' = [priority EXCEPT ![t] = ret.arg]
       /\ hilos' = hilos \cup {t}
       /\ state' = [state EXCEPT ![t] = "READY"]
       /\ ready' = Append(ready, t)
    /\ KeepsCpu(Post(sem, {"ready"}))
    /\ UNCHANGED <<pid_counter, pcb_state, mutex_list, block_type, joined_to, joined_tcbs,
                   finished, new, io_block_list, exec, dump, rhFrame>>

\* The thread to join exists and has not finished: the running one waits for it.
RHThreadJoin ==
    /\ Handling("THREAD_JOIN")
    /\ LET target == <<exec[1], ret.arg>> IN
       /\ target \in Threads(exec[1]) /\ state[target] # "EXIT"
       /\ joined_to' = [joined_to EXCEPT ![exec] = ret.arg]
       /\ joined_tcbs' = [joined_tcbs EXCEPT ![target] = Append(@, exec)]
    /\ block_type' = [block_type EXCEPT ![exec] = "THREAD_JOIN"]
    /\ state' = [state EXCEPT ![exec] = "BLOCK"]
    /\ exec' = NoTcb
    /\ LosesCpu(sem)
    /\ UNCHANGED <<pcbVars, priority, finished, new, ready, io_block_list, dump, hilos,
                   rhFrame>>

RHThreadCancel ==
    /\ Handling("THREAD_CANCEL")
    /\ LET target == <<exec[1], ret.arg>> IN
       /\ target \in Threads(exec[1]) /\ state[target] # "EXIT"
       /\ EndThread(target, Post(sem, {"short", "response"}))
    /\ rh' = "wait" /\ ret' = NoReturn
    /\ UNCHANGED <<pid_counter, pcb_state, tid_counter, priority, new, io_block_list, dump,
                   rhFrame>>

\* THREAD_JOIN and THREAD_CANCEL of a thread that does not exist or has finished.
RHNoSuchThread ==
    /\ Handling("THREAD_JOIN") \/ Handling("THREAD_CANCEL")
    /\ LET target == <<exec[1], ret.arg>> IN
       target \notin Threads(exec[1]) \/ state[target] = "EXIT"
    /\ KeepsCpu(sem)
    /\ UNCHANGED <<pcbVars, tcbVars, new, ready, io_block_list, exec, dump, hilos, rhFrame>>

RHThreadExit ==
    /\ Handling("THREAD_EXIT")
    /\ EndThread(exec, sem)
    /\ rh' = "ack"
    /\ UNCHANGED <<pid_counter, pcb_state, tid_counter, priority, new, io_block_list, dump,
                   ret, rhFrame>>

RHMutexCreate ==
    /\ Handling("MUTEX_CREATE")
    /\ mutex_list' = [mutex_list EXCEPT ![exec[1]] =
                        Append(@, [name |-> ret.arg, tcb |-> NoTcb, blocked |-> <<>>])]
    /\ KeepsCpu(sem)
    /\ UNCHANGED <<pid_counter, pcb_state, tid_counter, tcbVars, new, ready, io_block_list,
                   exec, dump, hilos, rhFrame>>

\* find_mutex_asigned_to_pcb returns the i-th mutex of process p.
FindsMutex(p, name, i) ==
    /\ i \in 1 .. Len(mutex_list[p]) /\ mutex_list[p][i].name = name
    /\ \A j \in 1 .. i - 1 : mutex_list[p][j].name # name

\* The mutex is taken, maybe by the running thread itself: it waits.
RHMutexWait ==
    /\ Handling("MUTEX_LOCK")
    /\ \E i \in 1 .. Len(mutex_list[exec[1]]) :
       /\ FindsMutex(exec[1], ret.arg, i)
       /\ mutex_list[exec[1]][i].tcb # NoTcb
       /\ mutex_list' = [mutex_list EXCEPT ![exec[1]][i].blocked = Append(@, exec)]
    /\ block_type' = [block_type EXCEPT ![exec] = "MUTEX_LOCK"]
    /\ state' = [state EXCEPT ![exec] = "BLOCK"]
    /\ exec' = NoTcb
    /\ LosesCpu(sem)
    /\ UNCHANGED <<pid_counter, pcb_state, tid_counter, joined_to, joined_tcbs, priority,
                   finished, new, ready, io_block_list, dump, hilos, rhFrame>>

RHMutexTake ==
    /\ Handling("MUTEX_LOCK")
    /\ \E i \in 1 .. Len(mutex_list[exec[1]]) :
       /\ FindsMutex(exec[1], ret.arg, i)
       /\ mutex_list[exec[1]][i].tcb = NoTcb
       /\ mutex_list' = [mutex_list EXCEPT ![exec[1]][i].tcb = exec]
    /\ KeepsCpu(sem)
    /\ UNCHANGED <<pid_counter, pcb_state, tid_counter, tcbVars, new, ready, io_block_list,
                   exec, dump, hilos, rhFrame>>

\* The owner unlocks: the first blocked thread, if any, owns the mutex and is READY.
RHMutexUnlock ==
    /\ Handling("MUTEX_UNLOCK")
    /\ \E i \in 1 .. Len(mutex_list[exec[1]]) :
       LET m == mutex_list[exec[1]][i] IN
       /\ FindsMutex(exec[1], ret.arg, i)
       /\ m.tcb = exec
       /\ mutex_list' = [mutex_list EXCEPT ![exec[1]][i] = HandOver(m)]
       /\ IF m.blocked = <<>>
          THEN KeepsCpu(sem) /\ UNCHANGED <<state, block_type, ready>>
          ELSE /\ state' = [state EXCEPT ![Head(m.blocked)] = "READY"]
               /\ block_type' = [block_type EXCEPT ![Head(m.blocked)] = "INSTRUCTION"]
               /\ ready' = Append(ready, Head(m.blocked))
               /\ KeepsCpu(Post(sem, {"ready"}))
    /\ UNCHANGED <<pid_counter, pcb_state, tid_counter, joined_to, joined_tcbs, priority,
                   finished, new, io_block_list, exec, dump, hilos, rhFrame>>

\* No mutex has that name, or another thread owns the one to unlock.
RHMutexIgnored ==
    /\ Handling("MUTEX_LOCK") \/ Handling("MUTEX_UNLOCK")
    /\ \A i \in 1 .. Len(mutex_list[exec[1]]) : FindsMutex(exec[1], ret.arg, i) =>
          ret.call = "MUTEX_UNLOCK" /\ mutex_list[exec[1]][i].tcb \notin {exec, NoTcb}
    /\ KeepsCpu(sem)
    /\ UNCHANGED <<pcbVars, tcbVars, new, ready, io_block_list, exec, dump, hilos, rhFrame>>

\* mutex_is_taken_by_tcb reads the tid of the NULL owner of a free mutex.
RHUnlockCrashes ==
    /\ Handling("MUTEX_UNLOCK")
    /\ \E i \in 1 .. Len(mutex_list[exec[1]]) :
       FindsMutex(exec[1], ret.arg, i) /\ mutex_list[exec[1]][i].tcb = NoTcb
    /\ Crashes("mutex_is_taken_by_tcb")

RHDumpMemory ==
    /\ Handling("DUMP_MEMORY") /\ dump[exec] = "none"   \* see WaitingPlace
    /\ block_type' = [block_type EXCEPT ![exec] = "DUMP_MEMORY"]
    /\ state' = [state EXCEPT ![exec] = "BLOCK"]
    /\ dump' = [dump EXCEPT ![exec] = "asked"]
    /\ exec' = NoTcb
    /\ LosesCpu(sem)
    /\ UNCHANGED <<pcbVars, joined_to, joined_tcbs, priority, finished, new, ready,
                   io_block_list, hilos, rhFrame>>

RHIO ==
    /\ Handling("IO")
    /\ block_type' = [block_type EXCEPT ![exec] = "IO"]
    /\ state' = [state EXCEPT ![exec] = "BLOCK"]
    /\ io_block_list' = Append(io_block_list, exec)
    /\ exec' = NoTcb
    /\ LosesCpu(Post(sem, {"io"}))
    /\ UNCHANGED <<pcbVars, joined_to, joined_tcbs, priority, finished, new, ready, dump,
                   hilos, rhFrame>>

\* PROCESS_EXIT, THREAD_CANCEL or a fault end a thread blocked on a mutex.
RHEndCrashes ==
    /\ rh = "handle" /\ exec # NoTcb
    /\ \/ (ret.call = "PROCESS_EXIT" \/ ret.type = "SEGMENTATION_FAULT")
          /\ EndProcessCrashes(exec[1])
       \/ ret.call = "THREAD_CANCEL" /\ <<exec[1], ret.arg>> \in Threads(exec[1])
          /\ EndThreadCrashes(<<exec[1], ret.arg>>)

\* End of the quantum: the thread goes back to ready unless its process failed.
RHInterruption ==
    /\ rh = "handle" /\ ret.type = "INTERRUPTION"
    /\ IF exec = NoTcb THEN UNCHANGED <<state, ready>>
       ELSE state' = [state EXCEPT ![exec] = "READY"] /\ ready' = Append(ready, exec)
    /\ sem' = Post(sem, {"short", "plan"} \cup IF exec = NoTcb THEN {} ELSE {"ready"})
    /\ exec' = NoTcb /\ cpu' = NoTcb /\ ret' = NoReturn /\ rh' = "wait"
    /\ UNCHANGED <<pcbVars, block_type, joined_to, joined_tcbs, priority, finished, new,
                   io_block_list, exitt, no_memory_for_new_process, lt, st, io, io_tcb,
                   dump, rel, memVars, interrupt, calls, faultVars>>

RHSegfault ==
    /\ rh = "handle" /\ ret.type = "SEGMENTATION_FAULT" /\ exec # NoTcb
    /\ EndProcess(exec[1], NoTcb)
    /\ rh' = "finish"
    /\ UNCHANGED <<pid_counter, tid_counter, mutex_list, priority, new, ready,
                   io_block_list, dump, hilos, sem, ret, rhFrame>>

\* A fault of a thread whose process failed already, or NOT_IN_MEMORY: only the
\* exchange with the CPU is left.
RHNothingToEnd ==
    /\ rh = "handle"
    /\ ret.type = "NOT_IN_MEMORY" \/ (ret.type = "SEGMENTATION_FAULT" /\ exec = NoTcb)
    /\ LosesCpu(sem)
    /\ UNCHANGED <<pcbVars, tcbVars, new, ready, io_block_list, exec, dump, hilos, rhFrame>>

\* The CPU saves the context, discards an interruption for the thread and answers.
CpuStops == cpu' = NoTcb /\ ret' = NoReturn /\ interrupt' = FALSE /\ rh' = "wait"

RHAck ==
    /\ rh = "ack" /\ ret.type # "NOT_IN_MEMORY"
    /\ CpuStops
    /\ sem' = Post(sem, {"short", "plan"})
    /\ UNCHANGED <<pcbVars, tcbVars, queueVars, no_memory_for_new_process, lt, st, io,
                   io_tcb, dump, rel, memVars, calls, faultVars>>

\* The NOT_IN_MEMORY case has no break: the default case frees the return data a
\* second time, which aborts the kernel or goes unnoticed, and posts
\* sem_short_term a second time.
RHFallThrough ==
    /\ rh = "ack" /\ ret.type = "NOT_IN_MEMORY"
    /\ CpuStops
    /\ sem' = Post(Post(sem, {"short", "plan"}), {"short"})
    /\ invalid' = invalid + 1
    /\ UNCHANGED <<pcbVars, tcbVars, queueVars, no_memory_for_new_process, lt, st, io,
                   io_tcb, dump, rel, memVars, calls, crash>>

RHDoubleFree ==
    /\ rh = "ack" /\ ret.type = "NOT_IN_MEMORY"
    /\ Crashes("cpu_return_data_destroy")

-----------------------------------------------------------------------------
(* IO handler *)

IOTake ==
    /\ io = "wait" /\ Wait("io")
    /\ io' = "lock"
    /\ io_tcb' = Head(io_block_list)
    /\ io_block_list' = Tail(io_block_list)
    /\ UNCHANGED <<pcbVars, tcbVars, new, ready, exec, exitt, no_memory_for_new_process,
                   lt, st, rh, dump, rel, memVars, cpuVars, faultVars>>

IOLock ==
    /\ io = "lock" /\ Wait("short")
    /\ io' = "handle"
    /\ UNCHANGED <<pcbVars, tcbVars, queueVars, no_memory_for_new_process, lt, st, rh,
                   io_tcb, dump, rel, memVars, cpuVars, faultVars>>

\* Mutation of BackFromBlock: the state is not looked at.
BackFromBlockAlways(t) ==
    /\ block_type' = [block_type EXCEPT ![t] = "INSTRUCTION"]
    /\ state' = [state EXCEPT ![t] = "READY"]
    /\ ready' = Append(ready, t)
    /\ sem' = Post(sem, {"short", "ready"})
    /\ UNCHANGED finished

\* A blocked thread whose wait is over goes to READY, a finished one is let go of.
BackFromBlock(t) ==
    IF state[t] = "EXIT"
    THEN /\ finished' = [finished EXCEPT ![t] = @ + 1]
         /\ sem' = Post(sem, {"short"})
         /\ UNCHANGED <<state, block_type, ready>>
    ELSE /\ block_type' = [block_type EXCEPT ![t] = "INSTRUCTION"]
         /\ state' = [state EXCEPT ![t] = "READY"]
         /\ ready' = Append(ready, t)
         /\ sem' = Post(sem, {"short", "ready"})
         /\ UNCHANGED finished

IOHandle ==
    /\ io = "handle"
    /\ BackFromBlock(io_tcb)
    /\ io' = "wait" /\ io_tcb' = NoTcb
    /\ UNCHANGED <<pcbVars, joined_to, joined_tcbs, priority, new, io_block_list, exec,
                   exitt, no_memory_for_new_process, lt, st, rh, dump, rel, memVars,
                   cpuVars, faultVars>>

-----------------------------------------------------------------------------
(* The thread of a DUMP_MEMORY of t *)

DumpAnswered(t) ==
    /\ dump[t] = "asked" /\ t[1] \in resident
    /\ \E answer \in {"OK", "ERROR"} : dump' = [dump EXCEPT ![t] = answer]
    /\ UNCHANGED <<pcbVars, tcbVars, queueVars, no_memory_for_new_process, sem, lt, st, rh,
                   io, io_tcb, rel, memVars, cpuVars, faultVars>>

\* memory_dump of a process that memoria has already freed.
DumpCrashes(t) ==
    /\ dump[t] = "asked" /\ t[1] \notin resident
    /\ Crashes("memory_dump")

DumpLock(t) ==
    /\ dump[t] \in {"OK", "ERROR"} /\ Wait("short")
    /\ dump' = [dump EXCEPT ![t] = IF @ = "OK" THEN "okHeld" ELSE "errorHeld"]
    /\ UNCHANGED <<pcbVars, tcbVars, queueVars, no_memory_for_new_process, lt, st, rh, io,
                   io_tcb, rel, memVars, cpuVars, faultVars>>

\* The dump succeeded, or its failure comes after the process ended: both end
\* with a thread in EXIT let go of and a live one READY.
DumpDone(t) ==
    /\ dump[t] = "okHeld" \/ (dump[t] = "errorHeld" /\ pcb_state[t[1]] = "EXIT")
    /\ BackFromBlock(t)
    /\ dump' = [dump EXCEPT ![t] = "none"]
    /\ UNCHANGED <<pcbVars, joined_to, joined_tcbs, priority, new, io_block_list, exec,
                   exitt, no_memory_for_new_process, lt, st, rh, io, io_tcb, rel, memVars,
                   cpuVars, faultVars>>

\* The dump failed: the thread, cancelled or not, is let go of and its whole
\* process ends, whatever thread is running.
DumpFailed(t) ==
    /\ dump[t] = "errorHeld" /\ pcb_state[t[1]] # "EXIT"
    /\ EndProcess(t[1], t)
    /\ dump' = [dump EXCEPT ![t] = "finish"]
    /\ UNCHANGED <<pid_counter, tid_counter, mutex_list, priority, new, ready,
                   io_block_list, exitt, no_memory_for_new_process, sem, lt, st, rh, io,
                   io_tcb, rel, memVars, cpuVars, faultVars>>

DumpEndCrashes(t) ==
    /\ dump[t] = "errorHeld" /\ pcb_state[t[1]] # "EXIT"
    /\ EndProcessCrashes(t[1])

DumpFinish(t) ==
    /\ dump[t] = "finish"
    /\ ReleaseProcess(t[1], Post(sem, {"short"}))
    /\ dump' = [dump EXCEPT ![t] = "none"]
    /\ UNCHANGED <<pcbVars, tcbVars, queueVars, lt, st, rh, io, io_tcb, cpuVars, faultVars>>

-----------------------------------------------------------------------------
(* The release thread of process p: it waits for the threads in the order they *)
(* were created and frees each one, then the pcb.                              *)

RelTake(p) ==
    /\ rel[p] \in 0 .. tid_counter[p] - 1
    /\ finished[<<p, rel[p]>>] > 0
    /\ finished' = [finished EXCEPT ![<<p, rel[p]>>] = @ - 1]
    /\ rel' = [rel EXCEPT ![p] = @ + 1]
    /\ UNCHANGED <<pcbVars, state, block_type, joined_to, joined_tcbs, priority, queueVars,
                   no_memory_for_new_process, sem, lt, st, rh, io, io_tcb, dump, memVars,
                   cpuVars, faultVars>>

RelDone(p) ==
    /\ rel[p] = tid_counter[p] /\ p \notin ToSet(exitt)
    /\ exitt' = Append(exitt, p)
    /\ mutex_list' = [mutex_list EXCEPT ![p] = <<>>]
    /\ UNCHANGED <<pid_counter, pcb_state, tid_counter, tcbVars, new, ready, io_block_list,
                   exec, no_memory_for_new_process, sem, pcVars, memVars, cpuVars, faultVars>>

-----------------------------------------------------------------------------
LongTermPlanner  == LTWait \/ LTLock \/ LTCreate \/ LTNoMemory \/ LTRetry
ShortTermPlanner == \/ STPlan \/ STReady \/ STLock \/ STCollect \/ STDispatch
                    \/ STQuantum \/ STInterrupt
Cpu == CpuSyscall \/ CpuSegfault \/ CpuNotInMemory \/ CpuInterruption
Syscall == \/ RHDropSyscall \/ RHProcessCreate \/ RHProcessExit \/ RHThreadCreate
           \/ RHThreadJoin \/ RHThreadCancel \/ RHNoSuchThread \/ RHThreadExit
           \/ RHMutexCreate \/ RHMutexWait \/ RHMutexTake \/ RHMutexUnlock
           \/ RHMutexIgnored \/ RHUnlockCrashes \/ RHDumpMemory \/ RHIO \/ RHEndCrashes
ResponseHandler == \/ RHReceive \/ RHLock \/ Syscall \/ RHFinish \/ RHInterruption
                   \/ RHSegfault \/ RHNothingToEnd \/ RHAck \/ RHFallThrough \/ RHDoubleFree
IoHandler == IOTake \/ IOLock \/ IOHandle
MemoryDump(t) == \/ DumpAnswered(t) \/ DumpCrashes(t) \/ DumpLock(t) \/ DumpDone(t)
                 \/ DumpFailed(t) \/ DumpEndCrashes(t) \/ DumpFinish(t)
Release(p) == RelTake(p) \/ RelDone(p)

Next ==
    /\ crash = "none"
    /\ \/ LongTermPlanner \/ ShortTermPlanner \/ Cpu \/ ResponseHandler \/ IoHandler
       \/ \E t \in TCB : MemoryDump(t)
       \/ \E p \in Pids : Release(p)

Spec == Init /\ [][Next]_vars

\* Every thread of the kernel runs, the CPU reaches the next syscall of its
\* program, memoria answers.
Fairness ==
    /\ WF_vars(crash = "none" /\ LongTermPlanner)
    /\ WF_vars(crash = "none" /\ ShortTermPlanner)
    /\ WF_vars(crash = "none" /\ Cpu)
    /\ WF_vars(crash = "none" /\ ResponseHandler)
    /\ WF_vars(crash = "none" /\ IoHandler)
    /\ \A t \in TCB : WF_vars(crash = "none" /\ MemoryDump(t))
    /\ \A p \in Pids : WF_vars(crash = "none" /\ Release(p))

FairSpec == Spec /\ Fairness
=============================================================================
