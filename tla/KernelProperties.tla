-------------------------- MODULE KernelProperties --------------------------
(* What the kernel of Kernel.tla must keep true. *)
EXTENDS Kernel

Mutex == [name : MutexNames, tcb : TCB \cup {NoTcb}, blocked : Seq(TCB)]
Locks == INSTANCE KernelLocks WITH Dumps <- TCB
Count(b) == IF b THEN 1 ELSE 0

\* The type of every variable.
PcbTypeOK ==
    /\ pid_counter \in 1 .. MaxPid
    /\ pcb_state \in [Pids -> {"NONE", "NEW", "EXEC", "EXIT"}]
    /\ tid_counter \in [Pids -> 0 .. MaxTid]
    /\ mutex_list \in [Pids -> Seq(Mutex)]
TcbTypeOK ==
    /\ state \in [TCB -> {"READY", "EXEC", "BLOCK", "EXIT", "NULL_STATE"}]
    /\ block_type \in [TCB -> {"INSTRUCTION", "IO", "DUMP_MEMORY", "MUTEX_LOCK",
                               "THREAD_JOIN"}]
    /\ joined_to \in [TCB -> Tids \cup {NoTid}]
    /\ joined_tcbs \in [TCB -> Seq(TCB)]
    /\ priority \in [TCB -> Priorities]
    /\ finished \in [TCB -> Nat]
QueueTypeOK ==
    /\ new \in Seq(Pids) /\ exitt \in Seq(Pids)
    /\ ready \in Seq(TCB) /\ io_block_list \in Seq(TCB)
    /\ exec \in TCB \cup {NoTcb}
    /\ io_tcb \in IF io = "wait" THEN {NoTcb} ELSE TCB
MemTypeOK ==
    /\ rel \in [Pids -> -1 .. MaxTid]
    /\ resident \subseteq Pids /\ hilos \subseteq TCB
RetTypeOK == ret \in Returns /\ ret.arg \in Arguments(ret.call)
CpuTypeOK ==
    /\ cpu \in TCB \cup {NoTcb} /\ RetTypeOK
    /\ interrupt \in BOOLEAN /\ calls \in 0 .. MaxCalls
    /\ crash \in {"none", "find_mutex_by_blocked_thread", "mutex_is_taken_by_tcb",
                  "cpu_return_data_destroy", "memory_dump"}
TypeOK == /\ Locks!TypeOK /\ PcbTypeOK /\ TcbTypeOK /\ QueueTypeOK /\ MemTypeOK
          /\ CpuTypeOK

-----------------------------------------------------------------------------
(* Semaphores *)

\* The threads use the semaphores as KernelLocks says, whatever the lists hold.
ImplementsLocks == Locks!Spec

\* sem_short_term is a mutex: one permit in all, free or held, plus one for each
\* time the default case of the handler ran.
ShortTermPermits == Locks!ShortTermPermits

\* What the comments of the handler rely on ("ningun otro hilo tendra acceso",
\* handle_cpu.c:168): two threads never stand between the wait and the post.
ShortTermMutex == Locks!Holders <= 1

\* Either the planner is to pick a thread or the CPU has one and the handler is to
\* hear of it, never both and never neither: plan_new_thread and wait_cpu_response
\* pass one token around.
SchedulingToken == Locks!SchedulingToken

\* A long-term planner that waits for memory is announced by the flag or already
\* has its wakeup, once; and no wakeup is left over for a later wait.
RetryAnnounced == Locks!RetryAnnounced

\* Each counting semaphore says what its list holds, but for the unit a thread
\* that has waited and not yet served the list carries.
NewCount   == Len(new) = sem["new"] + Count(lt # "wait")
ReadyCount == Len(ready) = sem["ready"] + Count(st \in {"lock", "select"})
IoCount    == Len(io_block_list) = sem["io"]
QueueCounts == NewCount /\ ReadyCount /\ IoCount

-----------------------------------------------------------------------------
(* Where threads are *)

InIo(t)      == io_tcb = t \/ \E i \in DOMAIN io_block_list : io_block_list[i] = t
InDump(t)    == dump[t] \in {"asked", "OK", "ERROR", "okHeld", "errorHeld"}
InMutex(t)   == \E i \in DOMAIN mutex_list[t[1]] :
                   t \in ToSet(mutex_list[t[1]][i].blocked)
Places(s, t) == Cardinality({i \in DOMAIN s : s[i] = t})
Created      == UNION {Threads(p) : p \in Pids}

\* The last one to use a finished thread posts sem_finished_thread, once: until
\* the release thread takes it, either it was posted or exactly one of ready, the
\* io handler or a dump thread has yet to let go of the thread.  So no thread is
\* freed while somebody can reach it, and none is left that nobody will post.
ReleasedOnce ==
    \A t \in Created :
       finished[t] + Count(Freed(t)) =
          IF state[t] # "EXIT" THEN 0
          ELSE 1 - (Places(ready, t) + Count(InIo(t)) + Count(InDump(t)))

\* The state and block type of a live thread say where it is: exactly one entry of
\* exactly one list, or the CPU.  A thread that joins another is in the list of a
\* thread that has not finished, so somebody will wake it.
WaitingPlace ==
    \A t \in Created : LET p == t[1] IN
    /\ (state[t] = "EXEC") = (exec = t)
    /\ state[t] # "EXIT" =>
       /\ Places(ready, t) = Count(state[t] = "READY")
       /\ InIo(t) = Blocked(t, "IO")
       /\ InDump(t) = Blocked(t, "DUMP_MEMORY")
       /\ InMutex(t) = Blocked(t, "MUTEX_LOCK")
    /\ Blocked(t, "THREAD_JOIN") => LET target == <<p, joined_to[t]>> IN
          target \in Threads(p) /\ state[target] # "EXIT"
          /\ Places(joined_tcbs[target], t) = 1
    /\ \A i \in DOMAIN joined_tcbs[t] : LET w == joined_tcbs[t][i] IN
          Blocked(w, "THREAD_JOIN") /\ w[1] = p /\ joined_to[w] = t[2]

\* Nobody waits for a mutex that is free, and nobody waits in two queues.
NoIdleWaiter ==
    \A p \in Pids : \A i, j \in DOMAIN mutex_list[p] :
       LET a == mutex_list[p][i]  b == mutex_list[p][j] IN
       /\ a.tcb = NoTcb => a.blocked = <<>>
       /\ \A x \in DOMAIN a.blocked : \A y \in DOMAIN b.blocked :
             a.blocked[x] = b.blocked[y] => i = j /\ x = y

\* The thread in EXEC is the one the CPU runs, its process has not finished and
\* memoria holds both.  (The case "EL PROCESO SIGUE EN EXEC, sin embargo el pcb esta
\* en EXIT", handle_cpu.c:43, does not happen.)
ExecIsLive ==
    exec # NoTcb =>
       exec = cpu /\ pcb_state[exec[1]] = "EXEC" /\ exec \in hilos /\ exec[1] \in resident

\* Memoria holds the threads that have not finished and no others, and never
\* more processes than fit; a finished process has left it before its threads are
\* freed.
MemoryAgrees ==
    /\ hilos = {t \in Created : state[t] # "EXIT"}
               \cup {t \in hilos : pcb_state[t[1]] = "EXIT" /\ rel[t[1]] = -1}
    /\ \A t \in hilos : t[1] \in resident
    /\ Cardinality(resident) <= Partitions
    /\ \A p \in Pids : (p \in resident) = (pcb_state[p] = "EXEC"
                                           \/ (pcb_state[p] = "EXIT" /\ rel[p] = -1))

\* find_mutex_by_blocked_thread finds the mutex of a thread blocked on one: "NO PUEDE
\* DEVOLVER NULL teoricamente" (tcb.c:218), and ending that thread goes on.
BlockedMutexFound == crash # "find_mutex_by_blocked_thread"

-----------------------------------------------------------------------------
(* Steps *)

\* EXIT is final for threads and processes, whatever answers arrive late.
ExitIsFinal ==
    [][/\ \A t \in TCB : state[t] = "EXIT" => state'[t] = "EXIT"
       /\ \A p \in Pids : pcb_state[p] = "EXIT" => pcb_state'[p] = "EXIT"]_vars

-----------------------------------------------------------------------------
(* Liveness, unless a process of the system dies *)

\* Every process that finishes has all its threads freed.
ProcessReleased ==
    \A p \in Pids : pcb_state[p] = "EXIT" ~> (p \in ToSet(exitt) \/ crash # "none")

\* The process first in new enters memory once there is room for it.
NewAdmitted ==
    \A p \in Pids : (new # <<>> /\ Head(new) = p /\ HasRoom)
                       ~> (p \notin ToSet(new) \/ crash # "none")

\* A READY thread gets the CPU, unless it is ended before.
ReadyRuns ==
    \A t \in TCB : state[t] = "READY" ~> (state[t] \in {"EXEC", "EXIT"} \/ crash # "none")
=============================================================================
