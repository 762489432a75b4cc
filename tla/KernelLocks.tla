----------------------------- MODULE KernelLocks -----------------------------
(***************************************************************************)
(* What the threads of the kernel promise each other about the semaphores  *)
(* of init_semaphores: which ones each thread waits for and posts, and in  *)
(* what order, whatever the lists, tcbs and pcbs they protect hold.        *)
(* Kernel implements it.                                                   *)
(***************************************************************************)
EXTENDS Semaphores, Integers, FiniteSets

CONSTANT Dumps          \* the dump threads there can be

VARIABLES
    no_memory_for_new_process,
    lt, st, rh, io, dump,        \* where each thread is
    invalid                      \* times the default case of the handler ran

vars == <<sem, no_memory_for_new_process, lt, st, rh, io, dump, invalid>>

\* The type of every variable.
TypeOK ==
    /\ sem \in [SemNames -> Nat]
    /\ no_memory_for_new_process \in BOOLEAN
    /\ lt \in {"wait", "lock", "create", "retry"}
    /\ st \in {"plan", "ready", "lock", "select", "quantum", "interrupt"}
    /\ rh \in {"wait", "lock", "handle", "finish", "ack"}
    /\ io \in {"wait", "lock", "handle"}
    /\ dump \in [Dumps -> {"none", "asked", "OK", "ERROR", "okHeld", "errorHeld", "finish"}]
    /\ invalid \in Nat

Init ==
    /\ SemInit
    /\ no_memory_for_new_process = FALSE
    /\ lt = "wait" /\ st = "plan" /\ rh = "wait" /\ io = "wait"
    /\ dump = [d \in Dumps |-> "none"]
    /\ invalid = 0

\* sem becomes s with any number of threads made READY.
MakesReady(s) == /\ sem'["ready"] \in Nat /\ sem'["ready"] >= s["ready"]
                 /\ sem' = [s EXCEPT !["ready"] = sem'["ready"]]

\* finish_process wakes a long-term planner that waits for memory.
Wakes(s) == /\ sem["long"] > 0
            /\ sem' = IF no_memory_for_new_process THEN Post(s, {"retry"}) ELSE s
            /\ no_memory_for_new_process' = FALSE

-----------------------------------------------------------------------------
(* The long-term planner *)

LT(from, to) == lt = from /\ lt' = to /\ UNCHANGED <<st, rh, io, dump, invalid>>

LTStarts  == LT("wait", "lock") /\ Wait("new") /\ UNCHANGED no_memory_for_new_process
LTEnters  == LT("lock", "create") /\ Wait("long") /\ UNCHANGED no_memory_for_new_process
LTCreates == LT("create", "wait") /\ sem' = Post(sem, {"ready", "long"})
             /\ UNCHANGED no_memory_for_new_process
LTFails   == LT("create", "retry") /\ sem' = Post(sem, {"long"})
             /\ no_memory_for_new_process' = TRUE
LTWoken   == LT("retry", "wait") /\ sem["retry"] > 0
             /\ sem' = Post([sem EXCEPT !["retry"] = @ - 1], {"new"})
             /\ UNCHANGED no_memory_for_new_process
LongTerm  == LTStarts \/ LTEnters \/ LTCreates \/ LTFails \/ LTWoken

-----------------------------------------------------------------------------
(* The short-term planner *)

ST(from, to) == st = from /\ st' = to
                /\ UNCHANGED <<no_memory_for_new_process, lt, rh, io, dump, invalid>>

STPlans      == ST("plan", "ready") /\ Wait("plan")
STTakes      == ST("ready", "lock") /\ Wait("ready")
STEnters     == ST("lock", "select") /\ Wait("short")
STCollects   == ST("select", "ready") /\ sem' = Post(sem, {"short"})
STDispatches == (ST("select", "plan") \/ ST("select", "quantum"))
                /\ sem' = Post(sem, {"response", "short"})
STReenters   == ST("quantum", "interrupt") /\ Wait("short")
STLeaves     == ST("interrupt", "plan") /\ sem' = Post(sem, {"short"})
ShortTerm    == \/ STPlans \/ STTakes \/ STEnters \/ STCollects \/ STDispatches
                \/ STReenters \/ STLeaves

-----------------------------------------------------------------------------
(* The handler of what the CPU returns *)

RH(from, to) == rh = from /\ rh' = to /\ UNCHANGED <<lt, st, io>>
RHFrame == UNCHANGED <<no_memory_for_new_process, dump, invalid>>

RHReceives == RH("wait", "lock") /\ Wait("response") /\ RHFrame
RHEnters   == RH("lock", "handle") /\ Wait("short") /\ RHFrame
\* The thread keeps the CPU; a process may be new.
RHKeeps    == RH("handle", "wait") /\ RHFrame
              /\ \E more \in {{}, {"new"}} :
                    MakesReady(Post(sem, {"short", "response"} \cup more))
\* It loses the CPU, for IO maybe.
RHStops    == RH("handle", "ack") /\ RHFrame
              /\ \E more \in {{}, {"io"}} : MakesReady(Post(sem, more))
RHDumps(d) == RH("handle", "ack") /\ UNCHANGED <<sem, no_memory_for_new_process, invalid>>
              /\ dump[d] = "none" /\ dump' = [dump EXCEPT ![d] = "asked"]
RHEnds     == RH("handle", "finish") /\ RHFrame /\ UNCHANGED sem
RHFrees    == RH("finish", "ack") /\ Wakes(sem) /\ UNCHANGED <<dump, invalid>>
RHPreempts == RH("handle", "wait") /\ RHFrame /\ MakesReady(Post(sem, {"short", "plan"}))
RHReplans  == RH("ack", "wait") /\ RHFrame /\ sem' = Post(sem, {"short", "plan"})
\* The case that falls through to the default one.
RHPostsTwice == RH("ack", "wait") /\ UNCHANGED <<no_memory_for_new_process, dump>>
                /\ sem' = Post(Post(sem, {"short", "plan"}), {"short"})
                /\ invalid' = invalid + 1
Response == \/ RHReceives \/ RHEnters \/ RHKeeps \/ RHStops \/ RHEnds \/ RHFrees
            \/ RHPreempts \/ RHReplans \/ RHPostsTwice

-----------------------------------------------------------------------------
(* The IO handler *)

IO(from, to) == io = from /\ io' = to
                /\ UNCHANGED <<no_memory_for_new_process, lt, st, rh, dump, invalid>>

IOTakes   == IO("wait", "lock") /\ Wait("io")
IOEnters  == IO("lock", "handle") /\ Wait("short")
IOLeaves  == IO("handle", "wait") /\ MakesReady(Post(sem, {"short"}))
IoHandler == IOTakes \/ IOEnters \/ IOLeaves

-----------------------------------------------------------------------------
(* The dump thread d *)

Dump(d, from, to) == dump[d] = from /\ dump' = [dump EXCEPT ![d] = to]
                     /\ UNCHANGED <<lt, st, rh, io, invalid>>

DumpHears(d)  == (Dump(d, "asked", "OK") \/ Dump(d, "asked", "ERROR"))
                 /\ UNCHANGED <<sem, no_memory_for_new_process>>
DumpEnters(d) == (Dump(d, "OK", "okHeld") \/ Dump(d, "ERROR", "errorHeld"))
                 /\ Wait("short") /\ UNCHANGED no_memory_for_new_process
DumpLeaves(d) == (Dump(d, "okHeld", "none") \/ Dump(d, "errorHeld", "none"))
                 /\ MakesReady(Post(sem, {"short"})) /\ UNCHANGED no_memory_for_new_process
DumpEnds(d)   == Dump(d, "errorHeld", "finish")
                 /\ UNCHANGED <<sem, no_memory_for_new_process>>
DumpFrees(d)  == Dump(d, "finish", "none") /\ Wakes(Post(sem, {"short"}))
DumpThread(d) == DumpHears(d) \/ DumpEnters(d) \/ DumpLeaves(d) \/ DumpEnds(d) \/ DumpFrees(d)

-----------------------------------------------------------------------------
Next == \/ LongTerm \/ ShortTerm \/ Response \/ IoHandler
        \/ \E d \in Dumps : RHDumps(d) \/ DumpThread(d)

Spec == Init /\ [][Next]_vars

-----------------------------------------------------------------------------
Count(b) == IF b THEN 1 ELSE 0

\* The dump threads between sem_wait and sem_post of sem_short_term.
DumpHolders == {d \in Dumps : dump[d] \in {"okHeld", "errorHeld", "finish"}}

\* The threads there.
Holders == Count(st \in {"select", "interrupt"}) + Count(rh \in {"handle", "finish", "ack"})
           + Count(io = "handle") + Cardinality(DumpHolders)

\* sem_short_term is a mutex: one permit in all, free or held, plus one for each
\* time the default case of the handler ran.
ShortTermPermits == sem["short"] + Holders = 1 + invalid

\* Either the planner is to pick a thread or the CPU has one and the handler is to
\* hear of it, never both and never neither: plan_new_thread and wait_cpu_response
\* pass one token around.
SchedulingToken ==
    sem["plan"] + sem["response"] + Count(st \in {"ready", "lock", "select"})
        + Count(rh # "wait") = 1

\* A long-term planner that waits for memory is announced by the flag or already
\* has its wakeup, once; and no wakeup is left over for a later wait.
RetryAnnounced ==
    Count(lt = "retry") = Count(no_memory_for_new_process) + sem["retry"]
=============================================================================
