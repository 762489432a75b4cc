---------------------------- MODULE KernelProofs ----------------------------
(* Theorems about the kernel, for every value of the constants. *)
EXTENDS KernelProperties, FiniteSetTheorems, TLAPS

LocksProofs == INSTANCE KernelLocksProofs WITH Dumps <- TCB

-----------------------------------------------------------------------------
(* The kernel implements KernelLocks: what each action does to the semaphores. *)

LEMMA InitLocks == Init => Locks!Init
BY DEF Init, Locks!Init, Locks!SemInit, SemInit, SemNames, Locks!SemNames

LEMMA LongTermLocks == LongTermPlanner => Locks!LongTerm
<1> USE DEF Locks!LT, Wait, Post, SemNames, Locks!Wait, Locks!Post, Locks!SemNames, faultVars
<1>1. LTWait => Locks!LTStarts
  BY DEF LTWait, Locks!LTStarts
<1>2. LTLock => Locks!LTEnters
  BY DEF LTLock, Locks!LTEnters
<1>3. LTCreate => Locks!LTCreates
  BY DEF LTCreate, Locks!LTCreates
<1>4. LTNoMemory => Locks!LTFails
  BY DEF LTNoMemory, Locks!LTFails
<1>5. LTRetry => Locks!LTWoken
  BY DEF LTRetry, Locks!LTWoken
<1> QED
  BY <1>1, <1>2, <1>3, <1>4, <1>5 DEF LongTermPlanner, Locks!LongTerm

LEMMA ShortTermLocks == ShortTermPlanner => Locks!ShortTerm
<1> USE DEF Locks!ST, Wait, Post, SemNames, Locks!Wait, Locks!Post, Locks!SemNames, faultVars
<1>1. STPlan => Locks!STPlans
  BY DEF STPlan, Locks!STPlans
<1>2. STReady => Locks!STTakes
  BY DEF STReady, Locks!STTakes
<1>3. STLock => Locks!STEnters
  BY DEF STLock, Locks!STEnters
<1>4. STCollect => Locks!STCollects
  BY DEF STCollect, Locks!STCollects
<1>5. STDispatch => Locks!STDispatches
  BY DEF STDispatch, Locks!STDispatches
<1>6. STQuantum => Locks!STReenters
  BY DEF STQuantum, Locks!STReenters
<1>7. STInterrupt => Locks!STLeaves
  BY DEF STInterrupt, Locks!STLeaves
<1> QED
  BY <1>1, <1>2, <1>3, <1>4, <1>5, <1>6, <1>7 DEF ShortTermPlanner, Locks!ShortTerm

\* What Post does, under both names.
LEMMA PostFacts ==
  ASSUME NEW s \in [SemNames -> Nat], NEW S
  PROVE  /\ Post(s, S) = Locks!Post(s, S) /\ SemNames = Locks!SemNames
         /\ Post(s, S) \in [SemNames -> Nat]
         /\ \A n \in SemNames : Post(s, S)[n] = IF n \in S THEN s[n] + 1 ELSE s[n]
BY DEF Post, Locks!Post, SemNames, Locks!SemNames

LEMMA MakesReadyK ==
  ASSUME NEW s \in [SemNames -> Nat], NEW k \in Nat, sem' = [s EXCEPT !["ready"] = @ + k]
  PROVE  Locks!MakesReady(s)
BY DEF Locks!MakesReady, SemNames

LEMMA MakesReadyPost ==
  ASSUME NEW s \in [SemNames -> Nat], NEW S \in SUBSET SemNames, "ready" \notin S,
         \/ sem' = Post(s, S)
         \/ sem' = Post(s, S \cup {"ready"})
         \/ sem' = Post(Post(s, {"ready"}), S)
  PROVE  Locks!MakesReady(Locks!Post(s, S))
<1>1. CASE sem' = Post(s, S)
  BY <1>1 DEF Locks!MakesReady, Post, Locks!Post, SemNames, Locks!SemNames
<1>2. CASE sem' # Post(s, S)
  <2>1. sem' = [Post(s, S) EXCEPT !["ready"] = @ + 1]
    BY <1>2 DEF Post, SemNames
  <2>2. Post(s, S) \in [SemNames -> Nat] /\ Post(s, S) = Locks!Post(s, S)
    BY PostFacts
  <2> QED
    BY <2>1, <2>2, MakesReadyK, 1 \in Nat
<1> QED
  BY <1>1, <1>2

\* Ending a thread makes ready a sequence of threads, those that waited for it or for
\* its mutexes: what the definition of EndThread says of them.
LEMMA EndThreadFacts ==
  ASSUME TypeOK, NEW t \in TCB, NEW s, EndThread(t, s)
  PROVE  \E woken \in Seq(TCB) :
         LET awake == ToSet(woken)
             joining == Blocked(t, "THREAD_JOIN") /\ t \notin awake
         IN
         /\ state' = [u \in TCB |-> IF u = t THEN "EXIT"
                                    ELSE IF u \in awake THEN "READY" ELSE state[u]]
         /\ block_type' = [u \in TCB |-> IF u \in awake \/ (u = t /\ joining)
                                         THEN "INSTRUCTION" ELSE block_type[u]]
         /\ joined_to' = IF joining THEN [joined_to EXCEPT ![t] = NoTid] ELSE joined_to
         /\ joined_tcbs' = [u \in TCB |-> IF u = t THEN <<>>
                             ELSE IF joining /\ u = <<t[1], joined_to[t]>>
                                  THEN Without(joined_tcbs[u], t) ELSE joined_tcbs[u]]
         /\ ready' = ready \o woken
         /\ sem' = [s EXCEPT !["ready"] = @ + Len(woken)]
         /\ finished' = IF t \in awake \/ Delegated(t) THEN finished
                        ELSE [finished EXCEPT ![t] = @ + 1]
<1> DEFINE mutexes == mutex_list[t[1]]
           passed == {i \in {i \in 1 .. Len(mutexes) : mutexes[i].tcb = t} :
                        mutexes[i].blocked # <<>>}
           Woken(n, w) == [k \in 1 .. n |-> Head(mutexes[w[k]].blocked)] \o joined_tcbs[t]
<1>1. mutexes \in Seq(Mutex) /\ joined_tcbs[t] \in Seq(TCB)
  BY DEF TypeOK, PcbTypeOK, TcbTypeOK, TCB
<1>2. ASSUME NEW n \in 0 .. Len(mutexes), NEW w \in [1 .. n -> passed]
      PROVE  Woken(n, w) \in Seq(TCB)
  <2>1. ASSUME NEW k \in 1 .. n PROVE Head(mutexes[w[k]].blocked) \in TCB
    <3>1. w[k] \in 1 .. Len(mutexes) /\ mutexes[w[k]].blocked # <<>>
      OBVIOUS
    <3>2. mutexes[w[k]] \in Mutex
      BY <1>1, <3>1
    <3> HIDE DEF mutexes
    <3> QED
      BY <3>1, <3>2 DEF Mutex
  <2>2. n \in Nat
    BY <1>1
  <2> HIDE DEF mutexes, passed
  <2>3. [k \in 1 .. n |-> Head(mutexes[w[k]].blocked)] \in Seq(TCB)
    BY <2>1, <2>2
  <2> QED
    BY <1>1, <2>3
<1>3. \E n \in 0 .. Len(mutexes) : \E w \in [1 .. n -> passed] :
         LET woken == Woken(n, w)
             awake == ToSet(woken)
             joining == Blocked(t, "THREAD_JOIN") /\ t \notin awake
         IN
         /\ state' = [u \in TCB |-> IF u = t THEN "EXIT"
                                    ELSE IF u \in awake THEN "READY" ELSE state[u]]
         /\ block_type' = [u \in TCB |-> IF u \in awake \/ (u = t /\ joining)
                                         THEN "INSTRUCTION" ELSE block_type[u]]
         /\ joined_to' = IF joining THEN [joined_to EXCEPT ![t] = NoTid] ELSE joined_to
         /\ joined_tcbs' = [u \in TCB |-> IF u = t THEN <<>>
                             ELSE IF joining /\ u = <<t[1], joined_to[t]>>
                                  THEN Without(joined_tcbs[u], t) ELSE joined_tcbs[u]]
         /\ ready' = ready \o woken
         /\ sem' = [s EXCEPT !["ready"] = @ + Len(woken)]
         /\ finished' = IF t \in awake \/ Delegated(t) THEN finished
                        ELSE [finished EXCEPT ![t] = @ + 1]
  BY DEF EndThread
<1> HIDE DEF Woken
<1> QED
  BY <1>2, <1>3

\* It posts sem_counter_ready once for each of them.
LEMMA EndThreadWakes ==
  ASSUME TypeOK, NEW t \in TCB, NEW s, EndThread(t, s)
  PROVE  \E k \in Nat : sem' = [s EXCEPT !["ready"] = @ + k]
<1>1. PICK woken \in Seq(TCB) : sem' = [s EXCEPT !["ready"] = @ + Len(woken)]
  BY EndThreadFacts
<1>2. Len(woken) \in Nat
  OBVIOUS
<1> QED
  BY <1>1, <1>2

\* Where the handler stands and what it does to the semaphores.
Elsewhere == UNCHANGED <<lt, st, io, no_memory_for_new_process, invalid>>

LEMMA RhFrame == UNCHANGED rhFrame => Elsewhere
BY DEF rhFrame, faultVars, Elsewhere

LEMMA CrashLocks == ASSUME NEW why, Crashes(why) PROVE UNCHANGED Locks!vars
BY DEF Crashes, pcVars, Locks!vars

LEMMA ThreadsTyped ==
  ASSUME TypeOK, NEW t \in TCB, NEW u \in Threads(t[1])  PROVE u \in TCB
<1>1. t[1] \in Pids /\ tid_counter[t[1]] \in 0 .. MaxTid
  BY DEF TCB, TypeOK, PcbTypeOK
<1> QED
  BY <1>1, BoundsAssumption DEF Threads, TCB, Tids

LEMMA SyscallLocks ==
  ASSUME TypeOK, Syscall
  PROVE  Locks!Response \/ (\E d \in TCB : Locks!RHDumps(d)) \/ UNCHANGED Locks!vars
<1>0. sem \in [SemNames -> Nat] /\ SemNames = Locks!SemNames /\ Post(sem, {}) = sem
  BY DEF TypeOK, Locks!TypeOK, Post, SemNames, Locks!SemNames
<1>n. \A n \in {"new", "retry", "plan", "response", "ready", "io", "long", "short"} : n \in SemNames
  BY DEF SemNames
<1>a. ASSUME NEW S \in {{}, {"io"}}, Locks!MakesReady(Locks!Post(sem, S)),
             rh = "handle", rh' = "ack", Elsewhere, UNCHANGED dump
      PROVE  Locks!RHStops
  BY <1>a DEF Elsewhere, Locks!RHStops, Locks!RH, Locks!RHFrame
<1>b. ASSUME NEW S \in {{}, {"new"}},
             Locks!MakesReady(Locks!Post(sem, {"short", "response"} \cup S)),
             rh = "handle", rh' = "wait", Elsewhere, UNCHANGED dump
      PROVE  Locks!RHKeeps
  BY <1>b DEF Elsewhere, Locks!RHKeeps, Locks!RH, Locks!RHFrame
<1>1. CASE RHDropSyscall \/ RHThreadJoin \/ RHMutexWait
  <2>1. /\ sem' = sem /\ rh = "handle" /\ rh' = "ack"
        /\ UNCHANGED dump /\ UNCHANGED rhFrame
    BY <1>1 DEF RHDropSyscall, RHThreadJoin, RHMutexWait, Handling, LosesCpu
  <2>2. Locks!MakesReady(Locks!Post(sem, {}))
    BY <1>0, <2>1, MakesReadyPost
  <2> QED
    BY <2>1, <2>2, RhFrame, <1>a DEF Locks!Response
<1>2. CASE RHNoSuchThread \/ RHMutexCreate \/ RHMutexTake \/ RHMutexIgnored
  <2>1. /\ sem' = Post(sem, {"short", "response"}) /\ rh = "handle" /\ rh' = "wait"
        /\ UNCHANGED dump /\ UNCHANGED rhFrame
    BY <1>2 DEF RHNoSuchThread, RHMutexCreate, RHMutexTake, RHMutexIgnored, Handling, KeepsCpu
  <2>2. Locks!MakesReady(Locks!Post(sem, {"short", "response"} \cup {}))
    BY <1>0, <1>n, <2>1, MakesReadyPost
  <2> QED
    BY <2>1, <2>2, RhFrame, <1>b DEF Locks!Response
<1>3. CASE RHThreadCreate \/ RHMutexUnlock
  <2>1. /\ \/ sem' = Post(Post(sem, {"ready"}), {"short", "response"})
           \/ sem' = Post(sem, {"short", "response"})
        /\ rh = "handle" /\ rh' = "wait" /\ UNCHANGED dump /\ UNCHANGED rhFrame
    BY <1>3 DEF RHThreadCreate, RHMutexUnlock, Handling, KeepsCpu
  <2>2. Locks!MakesReady(Locks!Post(sem, {"short", "response"} \cup {}))
    BY <1>0, <1>n, <2>1, MakesReadyPost
  <2> QED
    BY <2>1, <2>2, RhFrame, <1>b DEF Locks!Response
<1>4. CASE RHProcessCreate
  <2>1. /\ sem' = Post(Post(sem, {"new"}), {"short", "response"})
        /\ rh = "handle" /\ rh' = "wait" /\ UNCHANGED dump /\ UNCHANGED rhFrame
    BY <1>4 DEF RHProcessCreate, Handling, KeepsCpu
  <2>2. sem' = Post(sem, {"short", "response", "new"})
    BY <2>1 DEF Post, SemNames
  <2>3. Locks!MakesReady(Locks!Post(sem, {"short", "response", "new"}))
    BY <1>0, <1>n, <2>2, MakesReadyPost
  <2>4. {"short", "response", "new"} = {"short", "response"} \cup {"new"}
    OBVIOUS
  <2> QED
    BY <2>1, <2>3, <2>4, RhFrame, <1>b DEF Locks!Response
<1>5. CASE RHIO
  <2>1. /\ sem' = Post(sem, {"io"}) /\ rh = "handle" /\ rh' = "ack"
        /\ UNCHANGED dump /\ UNCHANGED rhFrame
    BY <1>5 DEF RHIO, Handling, LosesCpu
  <2>2. Locks!MakesReady(Locks!Post(sem, {"io"}))
    BY <1>0, <1>n, <2>1, MakesReadyPost
  <2> QED
    BY <2>1, <2>2, RhFrame, <1>a DEF Locks!Response
<1>6. CASE RHProcessExit
  <2>1. /\ sem' = sem /\ rh = "handle" /\ rh' = "finish"
        /\ UNCHANGED dump /\ UNCHANGED rhFrame
    BY <1>6 DEF RHProcessExit, Handling
  <2> QED
    BY <2>1, RhFrame DEF Elsewhere, Locks!Response, Locks!RHEnds, Locks!RH, Locks!RHFrame
<1>e. exec # NoTcb => exec \in TCB
  BY DEF TypeOK, QueueTypeOK
<1>7. CASE RHThreadCancel
  <2>1. /\ exec # NoTcb /\ rh = "handle" /\ rh' = "wait" /\ UNCHANGED dump /\ UNCHANGED rhFrame
        /\ <<exec[1], ret.arg>> \in Threads(exec[1])
        /\ EndThread(<<exec[1], ret.arg>>, Post(sem, {"short", "response"}))
    BY <1>7 DEF RHThreadCancel, Handling
  <2>2. <<exec[1], ret.arg>> \in TCB
    BY <1>e, <2>1, ThreadsTyped
  <2>3. PICK k \in Nat : sem' = [Post(sem, {"short", "response"}) EXCEPT !["ready"] = @ + k]
    BY <2>1, <2>2, EndThreadWakes
  <2>4. /\ Post(sem, {"short", "response"}) \in [SemNames -> Nat]
        /\ Post(sem, {"short", "response"}) = Locks!Post(sem, {"short", "response"})
    BY <1>0, PostFacts
  <2>5. Locks!MakesReady(Locks!Post(sem, {"short", "response"} \cup {}))
    BY <2>3, <2>4, MakesReadyK
  <2> QED
    BY <2>1, <2>5, RhFrame, <1>b DEF Locks!Response
<1>8. CASE RHThreadExit
  <2>1. /\ exec # NoTcb /\ rh = "handle" /\ rh' = "ack" /\ UNCHANGED dump /\ UNCHANGED rhFrame
        /\ EndThread(exec, sem)
    BY <1>8 DEF RHThreadExit, Handling
  <2>2. PICK k \in Nat : sem' = [sem EXCEPT !["ready"] = @ + k]
    BY <1>e, <2>1, EndThreadWakes
  <2>3. Locks!MakesReady(Locks!Post(sem, {}))
    <3>1. Locks!Post(sem, {}) = sem
      BY <1>0, PostFacts
    <3> QED
      BY <1>0, <2>2, <3>1, MakesReadyK
  <2> QED
    BY <2>1, <2>3, RhFrame, <1>a DEF Locks!Response
<1>9. CASE RHDumpMemory
  <2>1. /\ exec # NoTcb /\ rh = "handle" /\ rh' = "ack" /\ sem' = sem /\ UNCHANGED rhFrame
        /\ dump[exec] = "none" /\ dump' = [dump EXCEPT ![exec] = "asked"]
    BY <1>9 DEF RHDumpMemory, Handling, LosesCpu
  <2> QED
    BY <1>e, <2>1, RhFrame DEF Elsewhere, Locks!RHDumps, Locks!RH
<1>10. CASE RHUnlockCrashes \/ RHEndCrashes
  BY <1>10, CrashLocks DEF RHUnlockCrashes, RHEndCrashes, EndProcessCrashes, EndThreadCrashes
<1> QED
  BY <1>1, <1>2, <1>3, <1>4, <1>5, <1>6, <1>7, <1>8, <1>9, <1>10 DEF Syscall

LEMMA ResponseLocks ==
  ASSUME TypeOK, ResponseHandler
  PROVE  Locks!Response \/ (\E d \in TCB : Locks!RHDumps(d)) \/ UNCHANGED Locks!vars
<1>0. sem \in [SemNames -> Nat] /\ SemNames = Locks!SemNames
  BY DEF TypeOK, Locks!TypeOK, SemNames, Locks!SemNames
<1>1. CASE RHReceive
  BY <1>1 DEF RHReceive, Wait, faultVars, Locks!Response, Locks!RHReceives, Locks!RH,
              Locks!RHFrame, Locks!Wait
<1>2. CASE RHLock
  BY <1>2 DEF RHLock, Wait, faultVars, Locks!Response, Locks!RHEnters, Locks!RH,
              Locks!RHFrame, Locks!Wait
<1>3. CASE RHFinish
  BY <1>3 DEF RHFinish, ReleaseProcess, faultVars, Post, SemNames, Locks!Response,
              Locks!RHFrees, Locks!RH, Locks!Wakes, Locks!Post, Locks!SemNames
<1>4. CASE RHInterruption
  <2>1. /\ sem' = Post(sem, {"short", "plan"} \cup IF exec = NoTcb THEN {} ELSE {"ready"})
        /\ rh = "handle" /\ rh' = "wait" /\ UNCHANGED dump /\ Elsewhere
    BY <1>4 DEF RHInterruption, Elsewhere, faultVars
  <2>2. \/ sem' = Post(sem, {"short", "plan"})
        \/ sem' = Post(sem, {"short", "plan"} \cup {"ready"})
    BY <2>1
  <2>3. Locks!MakesReady(Locks!Post(sem, {"short", "plan"}))
    BY <1>0, <2>2, MakesReadyPost DEF SemNames
  <2> QED
    BY <2>1, <2>3 DEF Elsewhere, Locks!Response, Locks!RHPreempts, Locks!RH, Locks!RHFrame
<1>5. CASE RHSegfault
  <2>1. /\ sem' = sem /\ rh = "handle" /\ rh' = "finish"
        /\ UNCHANGED dump /\ UNCHANGED rhFrame
    BY <1>5 DEF RHSegfault
  <2> QED
    BY <2>1, RhFrame DEF Elsewhere, Locks!Response, Locks!RHEnds, Locks!RH, Locks!RHFrame
<1>6. CASE RHNothingToEnd
  <2>1. /\ sem' = sem /\ rh = "handle" /\ rh' = "ack" /\ UNCHANGED dump /\ UNCHANGED rhFrame
    BY <1>6 DEF RHNothingToEnd, LosesCpu
  <2>2. Post(sem, {}) = sem
    BY <1>0 DEF Post
  <2>3. Locks!MakesReady(Locks!Post(sem, {}))
    BY <1>0, <2>1, <2>2, MakesReadyPost
  <2> QED
    BY <2>1, <2>3, RhFrame DEF Elsewhere, Locks!Response, Locks!RHStops, Locks!RH,
       Locks!RHFrame
<1>7. CASE RHAck
  BY <1>7, <1>0, PostFacts DEF RHAck, CpuStops, faultVars, Locks!Response, Locks!RHReplans,
     Locks!RH, Locks!RHFrame
<1>8. CASE RHFallThrough
  <2>1. /\ sem' = Post(Post(sem, {"short", "plan"}), {"short"}) /\ invalid' = invalid + 1
        /\ rh = "ack" /\ rh' = "wait"
        /\ UNCHANGED <<lt, st, io, no_memory_for_new_process, dump>>
    BY <1>8 DEF RHFallThrough, CpuStops
  <2>2. sem' = Locks!Post(Locks!Post(sem, {"short", "plan"}), {"short"})
    BY <2>1 DEF Post, Locks!Post, SemNames, Locks!SemNames
  <2> QED
    BY <2>1, <2>2 DEF Locks!Response, Locks!RHPostsTwice, Locks!RH
<1>9. CASE RHDoubleFree
  BY <1>9, CrashLocks DEF RHDoubleFree
<1>10. CASE Syscall
  BY <1>10, SyscallLocks
<1> QED
  BY <1>1, <1>2, <1>3, <1>4, <1>5, <1>6, <1>7, <1>8, <1>9, <1>10 DEF ResponseHandler

\* A thread back from its wait becomes ready or is let go of.
LEMMA BackLocks ==
  ASSUME TypeOK, NEW t \in TCB, BackFromBlock(t)
  PROVE  Locks!MakesReady(Locks!Post(sem, {"short"}))
<1>1. sem' = Post(sem, {"short"}) \/ sem' = Post(sem, {"short"} \cup {"ready"})
  <2>1. {"short", "ready"} = {"short"} \cup {"ready"}
    OBVIOUS
  <2> QED
    BY <2>1 DEF BackFromBlock
<1> QED
  BY <1>1, MakesReadyPost DEF TypeOK, Locks!TypeOK, SemNames, Locks!SemNames

LEMMA IoLocks == ASSUME TypeOK, IoHandler PROVE Locks!IoHandler
<1>1. CASE IOTake
  BY <1>1 DEF IOTake, Wait, faultVars, Locks!IoHandler, Locks!IOTakes, Locks!IO, Locks!Wait
<1>2. CASE IOLock
  BY <1>2 DEF IOLock, Wait, faultVars, Locks!IoHandler, Locks!IOEnters, Locks!IO, Locks!Wait
<1>3. CASE IOHandle
  <2>1. /\ io = "handle" /\ io' = "wait" /\ BackFromBlock(io_tcb)
        /\ UNCHANGED <<no_memory_for_new_process, lt, st, rh, dump, invalid>>
    BY <1>3 DEF IOHandle, faultVars
  <2>2. io_tcb \in TCB
    BY <2>1 DEF TypeOK, QueueTypeOK
  <2> QED
    BY <2>1, <2>2, BackLocks DEF Locks!IoHandler, Locks!IOLeaves, Locks!IO
<1> QED
  BY <1>1, <1>2, <1>3 DEF IoHandler

LEMMA DumpLocks ==
  ASSUME TypeOK, NEW t \in TCB, MemoryDump(t)
  PROVE  Locks!DumpThread(t) \/ UNCHANGED Locks!vars
<1> USE DEF Locks!Dump, Locks!DumpThread
<1>1. CASE DumpAnswered(t)
  BY <1>1 DEF DumpAnswered, faultVars, Locks!DumpHears
<1>2. CASE DumpCrashes(t) \/ DumpEndCrashes(t)
  BY <1>2, CrashLocks DEF DumpCrashes, DumpEndCrashes, EndProcessCrashes
<1>3. CASE DumpLock(t)
  BY <1>3 DEF DumpLock, Wait, faultVars, Locks!DumpEnters, Locks!Wait
<1>4. CASE DumpDone(t)
  <2>1. /\ dump[t] \in {"okHeld", "errorHeld"} /\ dump' = [dump EXCEPT ![t] = "none"]
        /\ BackFromBlock(t)
        /\ UNCHANGED <<no_memory_for_new_process, lt, st, rh, io, invalid>>
    BY <1>4 DEF DumpDone, faultVars
  <2> QED
    BY <2>1, BackLocks DEF Locks!DumpLeaves
<1>5. CASE DumpFailed(t)
  BY <1>5 DEF DumpFailed, faultVars, Locks!DumpEnds
<1>6. CASE DumpFinish(t)
  <2>1. /\ dump[t] = "finish" /\ dump' = [dump EXCEPT ![t] = "none"]
        /\ ReleaseProcess(t[1], Post(sem, {"short"}))
        /\ UNCHANGED <<lt, st, rh, io, invalid>>
    BY <1>6 DEF DumpFinish, faultVars
  <2>2. Locks!Wakes(Locks!Post(sem, {"short"}))
    BY <2>1 DEF ReleaseProcess, Post, SemNames, Locks!Wakes, Locks!Post, Locks!SemNames
  <2> QED
    BY <2>1, <2>2 DEF Locks!DumpFrees
<1> QED
  BY <1>1, <1>2, <1>3, <1>4, <1>5, <1>6 DEF MemoryDump

\* Every step of the kernel is a step of KernelLocks, or none.
LEMMA LocksStep == ASSUME TypeOK, [Next]_vars PROVE [Locks!Next]_Locks!vars
<1>1. CASE LongTermPlanner
  BY <1>1, LongTermLocks DEF Locks!Next
<1>2. CASE ShortTermPlanner
  BY <1>2, ShortTermLocks DEF Locks!Next
<1>3. CASE Cpu
  BY <1>3 DEF Cpu, CpuSyscall, CpuSegfault, CpuNotInMemory, CpuInterruption, CpuReturns,
     pcVars, faultVars, Locks!vars
<1>4. CASE ResponseHandler
  BY <1>4, ResponseLocks DEF Locks!Next
<1>5. CASE IoHandler
  BY <1>5, IoLocks DEF Locks!Next
<1>6. ASSUME NEW t \in TCB, MemoryDump(t) PROVE [Locks!Next]_Locks!vars
  BY <1>6, DumpLocks DEF Locks!Next
<1>7. ASSUME NEW p \in Pids, Release(p) PROVE [Locks!Next]_Locks!vars
  BY <1>7 DEF Release, RelTake, RelDone, pcVars, faultVars, Locks!vars
<1>8. CASE UNCHANGED vars
  BY <1>8 DEF vars, pcVars, faultVars, Locks!vars
<1> QED
  BY <1>1, <1>2, <1>3, <1>4, <1>5, <1>6, <1>7, <1>8 DEF Next

-----------------------------------------------------------------------------
(* The type invariant, with the counts of the lists: a list is not empty when a *)
(* thread takes its head.                                                       *)

Inv == TypeOK /\ QueueCounts

LEMMA SamePcb == ASSUME TypeOK, UNCHANGED pcbVars PROVE PcbTypeOK'
BY DEF TypeOK, PcbTypeOK, pcbVars
LEMMA SameTcb == ASSUME TypeOK, UNCHANGED tcbVars PROVE TcbTypeOK'
BY DEF TypeOK, TcbTypeOK, tcbVars
LEMMA SameQueues ==
  ASSUME TypeOK, UNCHANGED queueVars, UNCHANGED <<io, io_tcb>>  PROVE QueueTypeOK'
BY DEF TypeOK, QueueTypeOK, queueVars
LEMMA SameMem == ASSUME TypeOK, UNCHANGED <<rel, memVars>> PROVE MemTypeOK'
BY DEF TypeOK, MemTypeOK, memVars
LEMMA SameRet == ASSUME TypeOK, ret' \in {ret, NoReturn} PROVE RetTypeOK'
<1>1. CASE ret' = ret
  BY <1>1 DEF TypeOK, CpuTypeOK, RetTypeOK, Arguments
<1>2. CASE ret' = NoReturn
  BY <1>2 DEF RetTypeOK, NoReturn, Returns, Arguments
<1> QED
  BY <1>1, <1>2
LEMMA SameCpu == ASSUME TypeOK, UNCHANGED cpuVars, UNCHANGED crash PROVE CpuTypeOK'
BY SameRet DEF TypeOK, CpuTypeOK, cpuVars
\* The semaphores that count a list, after a sem_post.
LEMMA PostCounts ==
  ASSUME sem \in [SemNames -> Nat], NEW S, sem' = Post(sem, S)
  PROVE  /\ sem["new"] \in Nat /\ sem["ready"] \in Nat /\ sem["io"] \in Nat
         /\ sem'["new"] = IF "new" \in S THEN sem["new"] + 1 ELSE sem["new"]
         /\ sem'["ready"] = IF "ready" \in S THEN sem["ready"] + 1 ELSE sem["ready"]
         /\ sem'["io"] = IF "io" \in S THEN sem["io"] + 1 ELSE sem["io"]
BY DEF Post, SemNames

LEMMA SameNew ==
  ASSUME Inv, UNCHANGED <<new, lt>>, sem'["new"] = sem["new"]  PROVE NewCount'
BY DEF Inv, QueueCounts, NewCount, Count
LEMMA SameReady ==
  ASSUME Inv, UNCHANGED ready, sem'["ready"] = sem["ready"],
         (st \in {"lock", "select"}) = (st' \in {"lock", "select"})
  PROVE  ReadyCount'
BY DEF Inv, QueueCounts, ReadyCount, Count
LEMMA SameIo ==
  ASSUME Inv, UNCHANGED io_block_list, sem'["io"] = sem["io"]  PROVE IoCount'
BY DEF Inv, QueueCounts, IoCount

\* The parts of Inv that do not come from KernelLocks.
Rest == PcbTypeOK /\ TcbTypeOK /\ QueueTypeOK /\ MemTypeOK /\ CpuTypeOK /\ QueueCounts

LEMMA LongTermTypes == ASSUME Inv, LongTermPlanner PROVE Rest'
<1>0. sem \in [SemNames -> Nat] /\ new \in Seq(Pids) /\ TypeOK
  BY DEF Inv, TypeOK, Locks!TypeOK, QueueTypeOK, SemNames, Locks!SemNames
<1>n. \A n \in {"new", "retry", "plan", "response", "ready", "io", "long", "short"} : n \in SemNames
  BY DEF SemNames
<1>1. CASE LTWait \/ LTLock \/ LTNoMemory \/ LTRetry
  <2>1. /\ UNCHANGED pcbVars /\ UNCHANGED tcbVars /\ UNCHANGED queueVars
        /\ UNCHANGED <<io, io_tcb>> /\ UNCHANGED <<rel, memVars>>
        /\ UNCHANGED cpuVars /\ UNCHANGED crash /\ UNCHANGED st
    BY <1>1 DEF LTWait, LTLock, LTNoMemory, LTRetry, faultVars
  <2>2. /\ sem'["ready"] = sem["ready"] /\ sem'["io"] = sem["io"]
        /\ sem'["new"] + Count(lt' # "wait") = sem["new"] + Count(lt # "wait")
    BY <1>0, <1>1, <1>n DEF LTWait, LTLock, LTNoMemory, LTRetry, Wait, Post, Count
  <2>3. NewCount'
    BY <2>1, <2>2 DEF Inv, QueueCounts, NewCount, queueVars
  <2> QED
    BY <1>0, <2>1, <2>2, <2>3, SamePcb, SameTcb, SameQueues, SameMem, SameCpu, SameReady,
       SameIo DEF Rest, QueueCounts, queueVars
<1>2. CASE LTCreate
  <2> DEFINE p == Head(new)
             t == <<p, tid_counter[p]>>
  <2>1. Len(new) > 0 /\ p \in Pids /\ Tail(new) \in Seq(Pids) /\ Len(Tail(new)) = Len(new) - 1
    <3>1. lt = "create" /\ sem["new"] \in Nat
      BY <1>0, <1>2, <1>n DEF LTCreate
    <3>2. Len(new) > 0
      BY <3>1 DEF Inv, QueueCounts, NewCount, Count
    <3> QED
      BY <1>0, <3>2
  <2>2. t \in TCB /\ tid_counter[p] + 1 \in 0 .. MaxTid
    <3>1. tid_counter[p] < MaxTid
      BY <1>2 DEF LTCreate
    <3>2. tid_counter[p] \in 0 .. MaxTid
      BY <1>0, <2>1 DEF TypeOK, PcbTypeOK
    <3> HIDE DEF p
    <3> QED
      BY <2>1, <3>1, <3>2, BoundsAssumption DEF TCB, Tids
  <2>3. /\ sem'["new"] = sem["new"] /\ sem'["io"] = sem["io"]
        /\ sem'["ready"] = sem["ready"] + 1 /\ sem["ready"] \in Nat /\ sem["new"] \in Nat
    BY <1>0, <1>2, PostCounts DEF LTCreate
  <2>4. /\ UNCHANGED <<io, io_tcb>> /\ UNCHANGED rel /\ UNCHANGED cpuVars
        /\ UNCHANGED <<crash, st, io_block_list, exec, exitt>>
        /\ new' = Tail(new) /\ ready' = Append(ready, t) /\ lt = "create" /\ lt' = "wait"
        /\ resident' = resident \cup {p} /\ hilos' = hilos \cup {t}
    BY <1>2 DEF LTCreate, faultVars
  <2>5. /\ tid_counter' = [tid_counter EXCEPT ![p] = @ + 1]
        /\ pcb_state' = [pcb_state EXCEPT ![p] = "EXEC"]
        /\ UNCHANGED <<pid_counter, mutex_list>>
        /\ state' = [state EXCEPT ![t] = "READY"]
        /\ UNCHANGED <<block_type, joined_to, joined_tcbs, priority, finished>>
    BY <1>2 DEF LTCreate
  <2> HIDE DEF p, t
  <2>6. PcbTypeOK'
    BY <1>0, <2>1, <2>2, <2>5 DEF TypeOK, PcbTypeOK
  <2>7. TcbTypeOK'
    BY <1>0, <2>2, <2>5 DEF TypeOK, TcbTypeOK
  <2>8. QueueTypeOK'
    BY <1>0, <2>1, <2>2, <2>4 DEF TypeOK, QueueTypeOK
  <2>9. MemTypeOK'
    BY <1>0, <2>1, <2>2, <2>4 DEF TypeOK, MemTypeOK
  <2>10. NewCount'
    BY <1>0, <2>1, <2>3, <2>4 DEF Inv, QueueCounts, NewCount, Count
  <2>11. ReadyCount'
    <3>1. ready \in Seq(TCB)
      BY <1>0 DEF TypeOK, QueueTypeOK
    <3>2. Len(ready') = Len(ready) + 1
      BY <2>2, <2>4, <3>1
    <3> QED
      BY <2>3, <2>4, <3>2 DEF Inv, QueueCounts, ReadyCount, Count
  <2> QED
    BY <1>0, <2>3, <2>4, <2>6, <2>7, <2>8, <2>9, <2>10, <2>11, SameCpu, SameIo
       DEF Rest, QueueCounts
<1> QED
  BY <1>1, <1>2 DEF LongTermPlanner

LEMMA RemoveAtTyped ==
  ASSUME NEW S, NEW s \in Seq(S), NEW i \in 1 .. Len(s)
  PROVE  RemoveAt(s, i) \in Seq(S) /\ Len(RemoveAt(s, i)) = Len(s) - 1
<1> DEFINE a == SubSeq(s, 1, i - 1)
           b == SubSeq(s, i + 1, Len(s))
<1>1. a \in Seq(S) /\ Len(a) = i - 1
  OBVIOUS
<1>2. b \in Seq(S) /\ Len(b) = Len(s) - i
  OBVIOUS
<1>3. RemoveAt(s, i) = a \o b
  BY DEF RemoveAt
<1> HIDE DEF a, b
<1>4. a \o b \in Seq(S) /\ Len(a \o b) = Len(a) + Len(b)
  BY <1>1, <1>2
<1> QED
  BY <1>1, <1>2, <1>3, <1>4

LEMMA ShortTermTypes == ASSUME Inv, ShortTermPlanner PROVE Rest'
<1>0. sem \in [SemNames -> Nat] /\ ready \in Seq(TCB) /\ TypeOK
  BY DEF Inv, TypeOK, Locks!TypeOK, QueueTypeOK, SemNames, Locks!SemNames
<1>n. \A n \in {"new", "retry", "plan", "response", "ready", "io", "long", "short"} : n \in SemNames
  BY DEF SemNames
<1>1. CASE STPlan \/ STReady \/ STLock \/ STQuantum \/ STInterrupt
  <2>1. /\ UNCHANGED pcbVars /\ UNCHANGED tcbVars /\ UNCHANGED queueVars
        /\ UNCHANGED <<io, io_tcb>> /\ UNCHANGED <<rel, memVars>>
        /\ UNCHANGED crash /\ UNCHANGED <<lt, cpu, ret, calls>>
    BY <1>1 DEF STPlan, STReady, STLock, STQuantum, STInterrupt, faultVars, cpuVars
  <2>2. /\ sem'["new"] = sem["new"] /\ sem'["io"] = sem["io"]
        /\ sem'["ready"] + Count(st' \in {"lock", "select"})
              = sem["ready"] + Count(st \in {"lock", "select"})
    BY <1>0, <1>1, <1>n DEF STPlan, STReady, STLock, STQuantum, STInterrupt, Wait, Post, Count
  <2>3. ReadyCount'
    BY <2>1, <2>2 DEF Inv, QueueCounts, ReadyCount, queueVars
  <2>4. interrupt' \in BOOLEAN
    BY <1>0, <1>1 DEF STPlan, STReady, STLock, STQuantum, STInterrupt, cpuVars, TypeOK,
       CpuTypeOK
  <2>5. CpuTypeOK'
    BY <1>0, <2>1, <2>4, SameRet DEF TypeOK, CpuTypeOK
  <2> QED
    BY <1>0, <2>1, <2>2, <2>3, <2>5, SamePcb, SameTcb, SameQueues, SameMem, SameNew, SameIo
       DEF Rest, QueueCounts, queueVars
<1>2. CASE STCollect
  <2>1. PICK i \in 1 .. Len(ready) :
           /\ ready' = RemoveAt(ready, i)
           /\ finished' = [finished EXCEPT ![ready[i]] = @ + 1]
    BY <1>2 DEF STCollect
  <2>2. /\ UNCHANGED pcbVars /\ UNCHANGED cpuVars /\ UNCHANGED crash
        /\ UNCHANGED <<io, io_tcb>> /\ UNCHANGED <<rel, memVars>>
        /\ UNCHANGED <<state, block_type, joined_to, joined_tcbs, priority>>
        /\ UNCHANGED <<new, io_block_list, exec, exitt, lt>>
        /\ st = "select" /\ st' = "ready" /\ sem' = Post(sem, {"short"})
    BY <1>2 DEF STCollect, faultVars
  <2>3. /\ sem'["new"] = sem["new"] /\ sem'["io"] = sem["io"] /\ sem'["ready"] = sem["ready"]
        /\ sem["ready"] \in Nat
    BY <1>0, <2>2, PostCounts
  <2>4. TcbTypeOK'
    BY <1>0, <2>1, <2>2 DEF TypeOK, TcbTypeOK
  <2>5. QueueTypeOK'
    BY <1>0, <2>1, <2>2, RemoveAtTyped DEF TypeOK, QueueTypeOK
  <2>6. ReadyCount'
    <3>1. Len(ready') = Len(ready) - 1
      BY <1>0, <2>1, RemoveAtTyped
    <3> QED
      BY <2>2, <2>3, <3>1 DEF Inv, QueueCounts, ReadyCount, Count
  <2> QED
    BY <1>0, <2>2, <2>3, <2>4, <2>5, <2>6, SamePcb, SameMem, SameCpu, SameNew, SameIo
       DEF Rest, QueueCounts
<1>3. CASE STDispatch
  <2>1. PICK i \in 1 .. Len(ready) :
           /\ ready' = RemoveAt(ready, i)
           /\ state' = [state EXCEPT ![ready[i]] = "EXEC"]
           /\ exec' = ready[i] /\ cpu' = ready[i]
    BY <1>3 DEF STDispatch
  <2>2. /\ UNCHANGED pcbVars /\ UNCHANGED <<ret, calls>> /\ UNCHANGED crash
        /\ UNCHANGED <<io, io_tcb>> /\ UNCHANGED <<rel, memVars>> /\ interrupt' = FALSE
        /\ UNCHANGED <<block_type, joined_to, joined_tcbs, priority, finished>>
        /\ UNCHANGED <<new, io_block_list, exitt, lt>>
        /\ st = "select" /\ st' \in {"quantum", "plan"} /\ sem' = Post(sem, {"response", "short"})
    BY <1>3 DEF STDispatch, faultVars
  <2>3. /\ sem'["new"] = sem["new"] /\ sem'["io"] = sem["io"] /\ sem'["ready"] = sem["ready"]
        /\ sem["ready"] \in Nat
    BY <1>0, <2>2, PostCounts
  <2>4. TcbTypeOK'
    BY <1>0, <2>1, <2>2 DEF TypeOK, TcbTypeOK
  <2>5. QueueTypeOK'
    BY <1>0, <2>1, <2>2, RemoveAtTyped DEF TypeOK, QueueTypeOK
  <2>6. ReadyCount'
    <3>1. Len(ready') = Len(ready) - 1
      BY <1>0, <2>1, RemoveAtTyped
    <3> QED
      BY <2>2, <2>3, <3>1 DEF Inv, QueueCounts, ReadyCount, Count
  <2>7. CpuTypeOK'
    <3>1. RetTypeOK'
      BY <1>0, <2>2, SameRet
    <3>2. cpu' \in TCB /\ interrupt' = FALSE /\ calls' = calls /\ crash' = crash
      BY <1>0, <2>1, <2>2
    <3>3. calls \in 0 .. MaxCalls /\ crash' = crash
      BY <1>0, <3>2 DEF TypeOK, CpuTypeOK
    <3> QED
      BY <1>0, <3>1, <3>2, <3>3 DEF TypeOK, CpuTypeOK
  <2> QED
    BY <1>0, <2>2, <2>3, <2>4, <2>5, <2>6, <2>7, SamePcb, SameMem, SameNew, SameIo
       DEF Rest, QueueCounts
<1> QED
  BY <1>1, <1>2, <1>3 DEF ShortTermPlanner

LEMMA ReturnTyped ==
  ASSUME NEW type \in {"SYSCALL", "INTERRUPTION", "SEGMENTATION_FAULT", "NOT_IN_MEMORY"},
         NEW call \in SyscallCodes \cup {"NONE"}, NEW arg \in Arguments(call),
         ret' = Return(type, call, arg)
  PROVE  RetTypeOK'
<1>1. arg \in Nat
  BY ConfigAssumption, BoundsAssumption DEF Arguments, Tids
<1>2. /\ ret' = [type |-> type, call |-> call, arg |-> arg] /\ ret'.arg = arg
      /\ ret'.call = call
  BY DEF Return
<1>3. ret' \in Returns
  BY <1>1, <1>2 DEF Returns
<1>4. Arguments(ret.call)' = Arguments(ret'.call)
  BY DEF Arguments
<1> QED
  BY <1>2, <1>3, <1>4 DEF RetTypeOK

LEMMA CpuTypes == ASSUME Inv, Cpu PROVE Rest'
<1>0. TypeOK
  BY DEF Inv
<1>1. PICK r : CpuReturns(r)
  BY DEF Cpu, CpuSyscall, CpuSegfault, CpuNotInMemory, CpuInterruption
<1>2. /\ UNCHANGED pcbVars /\ UNCHANGED tcbVars /\ UNCHANGED queueVars
      /\ UNCHANGED <<io, io_tcb>> /\ UNCHANGED <<rel, memVars>> /\ UNCHANGED crash
      /\ UNCHANGED <<cpu, interrupt>> /\ sem' = sem /\ UNCHANGED <<st, lt>>
  BY <1>1 DEF CpuReturns, pcVars, faultVars
<1>3. UNCHANGED <<new, ready, io_block_list>>
  BY <1>2 DEF queueVars
<1>4. calls' \in 0 .. MaxCalls
  <2>1. calls \in 0 .. MaxCalls
    BY <1>0 DEF TypeOK, CpuTypeOK
  <2>2. calls' = calls \/ (calls < MaxCalls /\ calls' = calls + 1)
    BY DEF Cpu, CpuSyscall, CpuSegfault, CpuNotInMemory, CpuInterruption
  <2> QED
    BY <2>1, <2>2, BoundsAssumption
<1>5. RetTypeOK'
  <2>1. CASE CpuSyscall
    <3>1. PICK call \in Syscalls : \E arg \in Arguments(call) :
             ret' = Return("SYSCALL", call, arg)
      BY <2>1 DEF CpuSyscall, CpuReturns
    <3>2. call \in SyscallCodes
      BY ConfigAssumption
    <3> QED
      BY <3>1, <3>2, ReturnTyped
  <2>2. CASE CpuSegfault \/ CpuNotInMemory \/ CpuInterruption
    <3>1. \E type \in {"INTERRUPTION", "SEGMENTATION_FAULT", "NOT_IN_MEMORY"} :
             ret' = Return(type, "NONE", 0)
      BY <2>2 DEF CpuSegfault, CpuNotInMemory, CpuInterruption, CpuReturns
    <3>2. 0 \in Arguments("NONE")
      BY DEF Arguments
    <3> QED
      BY <3>1, <3>2, ReturnTyped
  <2> QED
    BY <2>1, <2>2 DEF Cpu
<1>6. CpuTypeOK'
  BY <1>0, <1>2, <1>4, <1>5 DEF TypeOK, CpuTypeOK
<1> QED
  BY <1>0, <1>2, <1>3, <1>6, SamePcb, SameTcb, SameQueues, SameMem, SameNew, SameReady, SameIo
     DEF Rest, QueueCounts

LEMMA CrashTypes ==
  ASSUME Inv, NEW why \in {"find_mutex_by_blocked_thread", "mutex_is_taken_by_tcb",
                           "cpu_return_data_destroy", "memory_dump"}, Crashes(why)
  PROVE  Rest'
<1>0. TypeOK
  BY DEF Inv
<1>1. /\ UNCHANGED pcbVars /\ UNCHANGED tcbVars /\ UNCHANGED queueVars
      /\ UNCHANGED <<io, io_tcb>> /\ UNCHANGED <<rel, memVars>> /\ UNCHANGED cpuVars
      /\ UNCHANGED <<st, lt>> /\ sem' = sem /\ crash' = why
  BY DEF Crashes, pcVars
<1>2. UNCHANGED <<new, ready, io_block_list>>
  BY <1>1 DEF queueVars
<1>3. CpuTypeOK'
  BY <1>0, <1>1, SameRet DEF TypeOK, CpuTypeOK, cpuVars
<1> QED
  BY <1>0, <1>1, <1>2, <1>3, SamePcb, SameTcb, SameQueues, SameMem, SameNew, SameReady, SameIo
     DEF Rest, QueueCounts

\* A thread back from its wait: its own types and the count of ready.
LEMMA BackTypes ==
  ASSUME Inv, NEW t \in TCB, BackFromBlock(t), UNCHANGED <<joined_to, joined_tcbs, priority, st>>
  PROVE  TcbTypeOK' /\ ready' \in Seq(TCB) /\ ReadyCount'
         /\ sem'["new"] = sem["new"] /\ sem'["io"] = sem["io"]
<1>0. sem \in [SemNames -> Nat] /\ ready \in Seq(TCB) /\ TypeOK
  BY DEF Inv, TypeOK, Locks!TypeOK, QueueTypeOK, SemNames, Locks!SemNames
<1>1. CASE state[t] = "EXIT"
  <2>1. /\ finished' = [finished EXCEPT ![t] = @ + 1] /\ sem' = Post(sem, {"short"})
        /\ UNCHANGED <<state, block_type, ready>>
    BY <1>1 DEF BackFromBlock
  <2>2. TcbTypeOK'
    BY <1>0, <2>1 DEF TypeOK, TcbTypeOK
  <2>3. /\ sem'["new"] = sem["new"] /\ sem'["io"] = sem["io"]
        /\ sem'["ready"] = sem["ready"]
    BY <1>0, <2>1, PostCounts
  <2> QED
    BY <1>0, <2>1, <2>2, <2>3, SameReady
<1>2. CASE state[t] # "EXIT"
  <2>1. /\ block_type' = [block_type EXCEPT ![t] = "INSTRUCTION"]
        /\ state' = [state EXCEPT ![t] = "READY"] /\ finished' = finished
        /\ ready' = Append(ready, t) /\ sem' = Post(sem, {"short", "ready"})
    BY <1>2 DEF BackFromBlock
  <2>2. TcbTypeOK'
    BY <1>0, <2>1 DEF TypeOK, TcbTypeOK
  <2>3. /\ sem'["new"] = sem["new"] /\ sem'["io"] = sem["io"]
        /\ sem'["ready"] = sem["ready"] + 1 /\ sem["ready"] \in Nat
    BY <1>0, <2>1, PostCounts
  <2>4. ready' \in Seq(TCB) /\ Len(ready') = Len(ready) + 1
    BY <1>0, <2>1
  <2>5. ReadyCount'
    BY <2>3, <2>4 DEF Inv, QueueCounts, ReadyCount, Count
  <2> QED
    BY <2>2, <2>3, <2>4, <2>5
<1> QED
  BY <1>1, <1>2

LEMMA IoTypes == ASSUME Inv, IoHandler PROVE Rest'
<1>0. sem \in [SemNames -> Nat] /\ io_block_list \in Seq(TCB) /\ TypeOK
  BY DEF Inv, TypeOK, Locks!TypeOK, QueueTypeOK, SemNames, Locks!SemNames
<1>n. \A n \in {"new", "retry", "plan", "response", "ready", "io", "long", "short"} : n \in SemNames
  BY DEF SemNames
<1>1. CASE IOTake
  <2>1. /\ UNCHANGED pcbVars /\ UNCHANGED tcbVars /\ UNCHANGED <<rel, memVars>>
        /\ UNCHANGED cpuVars /\ UNCHANGED crash /\ UNCHANGED <<st, lt>>
        /\ UNCHANGED <<new, ready, exec, exitt>>
        /\ io' = "lock" /\ io_tcb' = Head(io_block_list) /\ io_block_list' = Tail(io_block_list)
    BY <1>1 DEF IOTake, faultVars
  <2>2. /\ sem'["new"] = sem["new"] /\ sem'["ready"] = sem["ready"]
        /\ sem["io"] \in Nat /\ sem["io"] > 0 /\ sem'["io"] = sem["io"] - 1
    BY <1>0, <1>1, <1>n DEF IOTake, Wait
  <2>3. Len(io_block_list) = sem["io"]
    BY DEF Inv, QueueCounts, IoCount
  <2>4. /\ Head(io_block_list) \in TCB /\ Tail(io_block_list) \in Seq(TCB)
        /\ Len(Tail(io_block_list)) = Len(io_block_list) - 1
    BY <1>0, <2>2, <2>3
  <2>5. QueueTypeOK' /\ IoCount'
    BY <1>0, <2>1, <2>2, <2>3, <2>4 DEF TypeOK, QueueTypeOK, IoCount
  <2> QED
    BY <1>0, <2>1, <2>2, <2>5, SamePcb, SameTcb, SameMem, SameCpu, SameNew, SameReady
       DEF Rest, QueueCounts
<1>2. CASE IOLock
  <2>1. /\ UNCHANGED pcbVars /\ UNCHANGED tcbVars /\ UNCHANGED <<rel, memVars>>
        /\ UNCHANGED cpuVars /\ UNCHANGED crash /\ UNCHANGED <<st, lt>> /\ UNCHANGED queueVars
        /\ io = "lock" /\ io' = "handle" /\ UNCHANGED io_tcb
    BY <1>2 DEF IOLock, faultVars
  <2>2. \A n \in {"new", "ready", "io"} : sem'[n] = sem[n]
    BY <1>0, <1>2, <1>n DEF IOLock, Wait
  <2>3. QueueTypeOK' /\ UNCHANGED <<new, ready, io_block_list>>
    BY <1>0, <2>1 DEF TypeOK, QueueTypeOK, queueVars
  <2> QED
    BY <1>0, <2>1, <2>2, <2>3, SamePcb, SameTcb, SameMem, SameCpu, SameNew, SameReady, SameIo
       DEF Rest, QueueCounts
<1>3. CASE IOHandle
  <2>1. /\ UNCHANGED pcbVars /\ UNCHANGED <<joined_to, joined_tcbs, priority>>
        /\ UNCHANGED <<rel, memVars>> /\ UNCHANGED cpuVars /\ UNCHANGED crash
        /\ UNCHANGED <<st, lt>> /\ UNCHANGED <<new, io_block_list, exec, exitt>>
        /\ io = "handle" /\ io' = "wait" /\ io_tcb' = NoTcb /\ BackFromBlock(io_tcb)
    BY <1>3 DEF IOHandle, faultVars
  <2>2. io_tcb \in TCB
    BY <1>0, <2>1 DEF TypeOK, QueueTypeOK
  <2>3. TcbTypeOK' /\ ready' \in Seq(TCB) /\ ReadyCount'
        /\ sem'["new"] = sem["new"] /\ sem'["io"] = sem["io"]
    BY <2>1, <2>2, BackTypes
  <2>4. QueueTypeOK'
    BY <1>0, <2>1, <2>3 DEF TypeOK, QueueTypeOK
  <2> QED
    BY <1>0, <2>1, <2>3, <2>4, SamePcb, SameMem, SameCpu, SameNew, SameIo
       DEF Rest, QueueCounts
<1> QED
  BY <1>1, <1>2, <1>3 DEF IoHandler

\* finish_process keeps the types of what it writes.
LEMMA EndProcessTypes ==
  ASSUME TypeOK, NEW p \in Pids, NEW u, EndProcess(p, u),
         UNCHANGED <<pid_counter, tid_counter, mutex_list, priority>>
  PROVE  PcbTypeOK' /\ TcbTypeOK' /\ exec' \in TCB \cup {NoTcb}
<1> DEFINE live == {t \in Threads(p) : state[t] # "EXIT"}
           joining == {t \in live : Blocked(t, "THREAD_JOIN")}
<1>1. /\ pcb_state' = [pcb_state EXCEPT ![p] = "EXIT"]
      /\ state' = [t \in TCB |-> IF t \in live THEN "EXIT" ELSE state[t]]
      /\ block_type' = [t \in TCB |-> IF t \in joining \/ (t = u /\ t \in live)
                                      THEN "INSTRUCTION" ELSE block_type[t]]
      /\ joined_to' = [t \in TCB |-> IF t \in joining THEN NoTid ELSE joined_to[t]]
      /\ joined_tcbs' = [t \in TCB |-> IF t \in Threads(p) THEN <<>> ELSE joined_tcbs[t]]
      /\ finished' = [t \in TCB |-> IF t = u \/ (t \in live /\ ~Delegated(t))
                                    THEN finished[t] + 1 ELSE finished[t]]
      /\ exec' = IF exec \in live THEN NoTcb ELSE exec
  BY DEF EndProcess
<1> HIDE DEF live, joining
<1>2. PcbTypeOK'
  BY <1>1 DEF TypeOK, PcbTypeOK
<1>3. /\ state' \in [TCB -> {"READY", "EXEC", "BLOCK", "EXIT", "NULL_STATE"}]
      /\ block_type' \in [TCB -> {"INSTRUCTION", "IO", "DUMP_MEMORY", "MUTEX_LOCK",
                                  "THREAD_JOIN"}]
  BY <1>1 DEF TypeOK, TcbTypeOK
<1>4. joined_to' \in [TCB -> Tids \cup {NoTid}] /\ joined_tcbs' \in [TCB -> Seq(TCB)]
  BY <1>1 DEF TypeOK, TcbTypeOK
<1>5. finished' \in [TCB -> Nat] /\ priority' \in [TCB -> Priorities]
  BY <1>1 DEF TypeOK, TcbTypeOK
<1> QED
  BY <1>1, <1>2, <1>3, <1>4, <1>5 DEF TcbTypeOK, TypeOK, QueueTypeOK

\* The end of finish_process: only sem_retry_process_creation may be posted.
LEMMA ReleaseTypes ==
  ASSUME TypeOK, NEW p, NEW s \in [SemNames -> Nat], ReleaseProcess(p, s)
  PROVE  MemTypeOK' /\ \A n \in {"new", "ready", "io"} : sem'[n] = s[n]
<1>1. /\ resident' = resident \ {p} /\ hilos' = {t \in hilos : t[1] # p}
      /\ rel' = [rel EXCEPT ![p] = 0] /\ sem' \in {Post(s, {"retry"}), s}
  BY DEF ReleaseProcess
<1>2. MemTypeOK'
  <2>1. 0 \in -1 .. MaxTid
    BY BoundsAssumption
  <2>2. rel \in [Pids -> -1 .. MaxTid] /\ resident \subseteq Pids /\ hilos \subseteq TCB
    BY DEF TypeOK, MemTypeOK
  <2>3. rel' \in [Pids -> -1 .. MaxTid]
    BY <1>1, <2>1, <2>2
  <2> QED
    BY <1>1, <2>2, <2>3 DEF MemTypeOK
<1>3. \A n \in {"new", "ready", "io"} : sem'[n] = s[n]
  BY <1>1 DEF Post, SemNames
<1> QED
  BY <1>2, <1>3

LEMMA DumpTypes == ASSUME Inv, NEW t \in TCB, MemoryDump(t) PROVE Rest'
<1>0. sem \in [SemNames -> Nat] /\ TypeOK /\ t[1] \in Pids
  BY DEF Inv, TypeOK, Locks!TypeOK, SemNames, Locks!SemNames, TCB
<1>n. \A n \in {"new", "retry", "plan", "response", "ready", "io", "long", "short"} : n \in SemNames
  BY DEF SemNames
<1>1. CASE DumpAnswered(t) \/ DumpLock(t)
  <2>1. /\ UNCHANGED pcbVars /\ UNCHANGED tcbVars /\ UNCHANGED queueVars
        /\ UNCHANGED <<io, io_tcb>> /\ UNCHANGED <<rel, memVars>>
        /\ UNCHANGED cpuVars /\ UNCHANGED crash /\ UNCHANGED <<lt, st>>
    BY <1>1 DEF DumpAnswered, DumpLock, faultVars
  <2>2. \A n \in {"new", "ready", "io"} : sem'[n] = sem[n]
    BY <1>0, <1>1, <1>n DEF DumpAnswered, DumpLock, Wait
  <2>3. UNCHANGED <<new, ready, io_block_list>>
    BY <2>1 DEF queueVars
  <2> QED
    BY <1>0, <2>1, <2>2, <2>3, SamePcb, SameTcb, SameQueues, SameMem, SameCpu, SameNew,
       SameReady, SameIo DEF Rest, QueueCounts
<1>2. CASE DumpCrashes(t) \/ DumpEndCrashes(t)
  BY <1>2, CrashTypes DEF DumpCrashes, DumpEndCrashes, EndProcessCrashes
<1>3. CASE DumpDone(t)
  <2>1. /\ UNCHANGED pcbVars /\ UNCHANGED <<joined_to, joined_tcbs, priority>>
        /\ UNCHANGED <<rel, memVars>> /\ UNCHANGED cpuVars /\ UNCHANGED crash
        /\ UNCHANGED <<st, lt>> /\ UNCHANGED <<new, io_block_list, exec, exitt>>
        /\ UNCHANGED <<io, io_tcb>> /\ BackFromBlock(t)
    BY <1>3 DEF DumpDone, faultVars
  <2>2. TcbTypeOK' /\ ready' \in Seq(TCB) /\ ReadyCount'
        /\ sem'["new"] = sem["new"] /\ sem'["io"] = sem["io"]
    BY <2>1, BackTypes
  <2>3. QueueTypeOK'
    BY <1>0, <2>1, <2>2 DEF TypeOK, QueueTypeOK
  <2> QED
    BY <1>0, <2>1, <2>2, <2>3, SamePcb, SameMem, SameCpu, SameNew, SameIo
       DEF Rest, QueueCounts
<1>4. CASE DumpFailed(t)
  <2>1. /\ EndProcess(t[1], t) /\ UNCHANGED <<pid_counter, tid_counter, mutex_list, priority>>
        /\ UNCHANGED <<rel, memVars>> /\ UNCHANGED cpuVars /\ UNCHANGED crash
        /\ UNCHANGED <<st, lt>> /\ UNCHANGED <<new, ready, io_block_list, exitt>>
        /\ UNCHANGED <<io, io_tcb>> /\ sem' = sem
    BY <1>4 DEF DumpFailed, faultVars
  <2>2. PcbTypeOK' /\ TcbTypeOK' /\ exec' \in TCB \cup {NoTcb}
    BY <1>0, <2>1, EndProcessTypes
  <2>3. QueueTypeOK'
    BY <1>0, <2>1, <2>2 DEF TypeOK, QueueTypeOK
  <2> QED
    BY <1>0, <2>1, <2>2, <2>3, SameMem, SameCpu, SameNew, SameReady, SameIo
       DEF Rest, QueueCounts
<1>5. CASE DumpFinish(t)
  <2>1. /\ ReleaseProcess(t[1], Post(sem, {"short"}))
        /\ UNCHANGED pcbVars /\ UNCHANGED tcbVars /\ UNCHANGED queueVars
        /\ UNCHANGED <<io, io_tcb>> /\ UNCHANGED cpuVars /\ UNCHANGED crash
        /\ UNCHANGED <<lt, st>>
    BY <1>5 DEF DumpFinish, faultVars
  <2>2. /\ Post(sem, {"short"}) \in [SemNames -> Nat]
        /\ \A n \in {"new", "ready", "io"} : Post(sem, {"short"})[n] = sem[n]
    BY <1>0, <1>n, PostFacts
  <2>3. MemTypeOK' /\ \A n \in {"new", "ready", "io"} : sem'[n] = sem[n]
    BY <1>0, <2>1, <2>2, ReleaseTypes
  <2>4. UNCHANGED <<new, ready, io_block_list>>
    BY <2>1 DEF queueVars
  <2> QED
    BY <1>0, <2>1, <2>3, <2>4, SamePcb, SameTcb, SameQueues, SameCpu, SameNew, SameReady,
       SameIo DEF Rest, QueueCounts
<1> QED
  BY <1>1, <1>2, <1>3, <1>4, <1>5 DEF MemoryDump

LEMMA ReleaseThreadTypes == ASSUME Inv, NEW p \in Pids, Release(p) PROVE Rest'
<1>0. TypeOK
  BY DEF Inv
<1>1. CASE RelTake(p)
  <2>1. /\ UNCHANGED pcbVars /\ UNCHANGED <<state, block_type, joined_to, joined_tcbs, priority>>
        /\ UNCHANGED queueVars /\ UNCHANGED <<io, io_tcb>> /\ UNCHANGED memVars
        /\ UNCHANGED cpuVars /\ UNCHANGED crash /\ UNCHANGED <<lt, st>> /\ sem' = sem
        /\ finished[<<p, rel[p]>>] > 0 /\ rel[p] \in 0 .. tid_counter[p] - 1
        /\ finished' = [finished EXCEPT ![<<p, rel[p]>>] = @ - 1]
        /\ rel' = [rel EXCEPT ![p] = @ + 1]
    BY <1>1 DEF RelTake, faultVars
  <2>2. TcbTypeOK'
    <3>1. finished \in [TCB -> Nat]
      BY <1>0 DEF TypeOK, TcbTypeOK
    <3> DEFINE t == <<p, rel[p]>>
    <3>2. finished' = [finished EXCEPT ![t] = @ - 1] /\ finished[t] > 0
      BY <2>1
    <3> HIDE DEF t
    <3>3. finished' \in [TCB -> Nat]
      <4>1. CASE t \in TCB
        BY <3>1, <3>2, <4>1
      <4>2. CASE t \notin TCB
        BY <3>1, <3>2, <4>2
      <4> QED
        BY <4>1, <4>2
    <3> QED
      BY <1>0, <2>1, <3>3 DEF TypeOK, TcbTypeOK
  <2>3. MemTypeOK'
    <3>1. tid_counter[p] \in 0 .. MaxTid
      BY <1>0 DEF TypeOK, PcbTypeOK
    <3>2. rel[p] + 1 \in -1 .. MaxTid
      BY <2>1, <3>1, BoundsAssumption
    <3> QED
      BY <1>0, <2>1, <3>2 DEF TypeOK, MemTypeOK, memVars
  <2>4. UNCHANGED <<new, ready, io_block_list>>
    BY <2>1 DEF queueVars
  <2> QED
    BY <1>0, <2>1, <2>2, <2>3, <2>4, SamePcb, SameQueues, SameCpu, SameNew, SameReady, SameIo
       DEF Rest, QueueCounts
<1>2. CASE RelDone(p)
  <2>1. /\ UNCHANGED <<pid_counter, pcb_state, tid_counter>> /\ UNCHANGED tcbVars
        /\ UNCHANGED <<new, ready, io_block_list, exec>> /\ exitt' = Append(exitt, p)
        /\ UNCHANGED <<io, io_tcb>> /\ UNCHANGED <<rel, memVars>> /\ UNCHANGED cpuVars
        /\ UNCHANGED crash /\ UNCHANGED <<lt, st>> /\ sem' = sem
        /\ mutex_list' = [mutex_list EXCEPT ![p] = <<>>]
    BY <1>2 DEF RelDone, pcVars, faultVars
  <2>2. PcbTypeOK'
    BY <1>0, <2>1 DEF TypeOK, PcbTypeOK
  <2>3. QueueTypeOK'
    BY <1>0, <2>1 DEF TypeOK, QueueTypeOK
  <2> QED
    BY <1>0, <2>1, <2>2, <2>3, SameTcb, SameMem, SameCpu, SameNew, SameReady, SameIo
       DEF Rest, QueueCounts
<1> QED
  BY <1>1, <1>2 DEF Release

\* A mutex let go of is a mutex.
LEMMA HandOverTyped == ASSUME NEW m \in Mutex PROVE HandOver(m) \in Mutex
<1>1. CASE m.blocked = <<>>
  BY <1>1 DEF HandOver, Mutex
<1>2. CASE m.blocked # <<>>
  <2>1. Head(m.blocked) \in TCB /\ Tail(m.blocked) \in Seq(TCB)
    BY <1>2 DEF Mutex
  <2> QED
    BY <1>2, <2>1 DEF HandOver, Mutex
<1> QED
  BY <1>1, <1>2

LEMMA WithoutTyped ==
  ASSUME NEW S, NEW s \in Seq(S), NEW t  PROVE Without(s, t) \in Seq(S)
<1>1. CASE t \in ToSet(s)
  <2>1. \E i \in 1 .. Len(s) : s[i] = t
    BY <1>1 DEF ToSet
  <2>2. Position(s, t) \in 1 .. Len(s)
    BY <2>1 DEF Position
  <2> QED
    BY <1>1, <2>2, RemoveAtTyped DEF Without
<1>2. CASE t \notin ToSet(s)
  BY <1>2 DEF Without
<1> QED
  BY <1>1, <1>2

\* Ending a thread keeps the types of what it writes, and sem_counter_ready counts
\* the threads it makes ready.
LEMMA EndThreadTypes ==
  ASSUME Inv, NEW t \in TCB, NEW S \in {{}, {"short", "response"}},
         EndThread(t, Post(sem, S)),
         UNCHANGED <<pid_counter, pcb_state, tid_counter, priority, st>>
  PROVE  /\ PcbTypeOK' /\ TcbTypeOK' /\ exec' \in TCB \cup {NoTcb} /\ ready' \in Seq(TCB)
         /\ hilos' \subseteq TCB /\ ReadyCount'
         /\ sem'["new"] = sem["new"] /\ sem'["io"] = sem["io"]
<1> DEFINE s == Post(sem, S)
           mutexes == mutex_list[t[1]]
           taken == {i \in 1 .. Len(mutexes) : mutexes[i].tcb = t}
<1>0. sem \in [SemNames -> Nat] /\ ready \in Seq(TCB) /\ TypeOK /\ t[1] \in Pids
  BY DEF Inv, TypeOK, Locks!TypeOK, QueueTypeOK, SemNames, Locks!SemNames, TCB
<1>s. /\ s \in [SemNames -> Nat] /\ s["new"] = sem["new"] /\ s["io"] = sem["io"]
      /\ s["ready"] = sem["ready"] /\ s["ready"] \in Nat
  BY <1>0, PostFacts DEF SemNames
<1>1. PICK woken \in Seq(TCB) :
         LET awake == ToSet(woken)
             joining == Blocked(t, "THREAD_JOIN") /\ t \notin awake
         IN
         /\ state' = [u \in TCB |-> IF u = t THEN "EXIT"
                                    ELSE IF u \in awake THEN "READY" ELSE state[u]]
         /\ block_type' = [u \in TCB |-> IF u \in awake \/ (u = t /\ joining)
                                         THEN "INSTRUCTION" ELSE block_type[u]]
         /\ joined_to' = IF joining THEN [joined_to EXCEPT ![t] = NoTid] ELSE joined_to
         /\ joined_tcbs' = [u \in TCB |-> IF u = t THEN <<>>
                             ELSE IF joining /\ u = <<t[1], joined_to[t]>>
                                  THEN Without(joined_tcbs[u], t) ELSE joined_tcbs[u]]
         /\ ready' = ready \o woken
         /\ sem' = [s EXCEPT !["ready"] = @ + Len(woken)]
         /\ finished' = IF t \in awake \/ Delegated(t) THEN finished
                        ELSE [finished EXCEPT ![t] = @ + 1]
  BY <1>0, EndThreadFacts
<1>2. /\ hilos' = hilos \ {t}
      /\ mutex_list' = [mutex_list EXCEPT ![t[1]] = [i \in 1 .. Len(mutexes) |->
                           IF i \in taken THEN HandOver(mutexes[i]) ELSE mutexes[i]]]
      /\ exec' = IF state[t] = "EXEC" THEN NoTcb ELSE exec
  BY DEF EndThread
<1>3. mutexes \in Seq(Mutex) /\ joined_tcbs[t] \in Seq(TCB)
  BY <1>0 DEF TypeOK, PcbTypeOK, TcbTypeOK
<1>4. PcbTypeOK'
  <2>1. [i \in 1 .. Len(mutexes) |->
           IF i \in taken THEN HandOver(mutexes[i]) ELSE mutexes[i]] \in Seq(Mutex)
    <3> HIDE DEF mutexes, taken
    <3>1. \A i \in 1 .. Len(mutexes) : mutexes[i] \in Mutex /\ HandOver(mutexes[i]) \in Mutex
      BY <1>3, HandOverTyped
    <3> QED
      BY <1>3, <3>1
  <2> HIDE DEF mutexes, taken
  <2> QED
    BY <1>0, <1>2, <2>1 DEF TypeOK, PcbTypeOK
<1> DEFINE awake == ToSet(woken)
           joining == Blocked(t, "THREAD_JOIN") /\ t \notin awake
<1> HIDE DEF s, mutexes, taken, awake, joining
<1>5. /\ state' \in [TCB -> {"READY", "EXEC", "BLOCK", "EXIT", "NULL_STATE"}]
      /\ block_type' \in [TCB -> {"INSTRUCTION", "IO", "DUMP_MEMORY", "MUTEX_LOCK",
                                  "THREAD_JOIN"}]
  BY <1>0, <1>1 DEF TypeOK, TcbTypeOK, awake, joining
<1>6. joined_to' \in [TCB -> Tids \cup {NoTid}] /\ finished' \in [TCB -> Nat]
  BY <1>0, <1>1 DEF TypeOK, TcbTypeOK
<1>7. joined_tcbs' \in [TCB -> Seq(TCB)]
  <2>1. \A u \in TCB : joined_tcbs[u] \in Seq(TCB) /\ Without(joined_tcbs[u], t) \in Seq(TCB)
    BY <1>0, WithoutTyped DEF TypeOK, TcbTypeOK
  <2> QED
    BY <1>1, <2>1
<1>8. TcbTypeOK'
  BY <1>0, <1>5, <1>6, <1>7 DEF TypeOK, TcbTypeOK
<1>9. /\ ready' \in Seq(TCB) /\ Len(ready') = Len(ready) + Len(woken) /\ Len(woken) \in Nat
  BY <1>0, <1>1
<1>10. /\ sem'["ready"] = sem["ready"] + Len(woken)
       /\ sem'["new"] = sem["new"] /\ sem'["io"] = sem["io"]
  <2>1. sem' = [s EXCEPT !["ready"] = @ + Len(woken)]
    BY <1>1
  <2> QED
    BY <1>s, <2>1 DEF SemNames
<1>11. ReadyCount'
  BY <1>s, <1>9, <1>10 DEF Inv, QueueCounts, ReadyCount, Count
<1> QED
  BY <1>0, <1>2, <1>4, <1>8, <1>9, <1>10, <1>11 DEF TypeOK, QueueTypeOK, MemTypeOK

\* What the cases of the switch that do not end a thread leave as it was.
LEMMA SameSwitch ==
  ASSUME Inv, UNCHANGED rhFrame, ret' \in {ret, NoReturn}
  PROVE  /\ UNCHANGED <<lt, st, io, io_tcb, exitt, rel, resident>> /\ CpuTypeOK'
<1>0. TypeOK
  BY DEF Inv
<1>1. /\ UNCHANGED <<lt, st, io, io_tcb, exitt, rel, resident>>
      /\ UNCHANGED <<cpu, interrupt, calls, crash>>
  BY DEF rhFrame, faultVars
<1> QED
  BY <1>0, <1>1, SameRet DEF TypeOK, CpuTypeOK

\* The running thread of a syscall.
LEMMA HandlingFacts ==
  ASSUME Inv, NEW call, Handling(call)
  PROVE  /\ exec \in TCB /\ exec[1] \in Pids /\ exec[2] \in Tids
         /\ ret.arg \in Arguments(call) /\ ret.arg \in Nat
<1>1. TypeOK /\ exec # NoTcb /\ ret.call = call
  BY DEF Inv, Handling
<1>2. exec \in TCB /\ ret \in Returns /\ ret.arg \in Arguments(ret.call)
  BY <1>1 DEF TypeOK, QueueTypeOK, CpuTypeOK, RetTypeOK
<1> QED
  BY <1>1, <1>2 DEF TCB, Returns

\* The cases that change no list.
LEMMA ListsKept ==
  ASSUME Inv, UNCHANGED <<new, ready, io_block_list, lt, st>>,
         NEW S, sem' = Post(sem, S), "new" \notin S, "ready" \notin S, "io" \notin S
  PROVE  QueueCounts'
<1>1. sem \in [SemNames -> Nat]
  BY DEF Inv, TypeOK, Locks!TypeOK, SemNames, Locks!SemNames
<1>2. sem'["new"] = sem["new"] /\ sem'["ready"] = sem["ready"] /\ sem'["io"] = sem["io"]
  BY <1>1, PostCounts
<1> QED
  BY <1>2, SameNew, SameReady, SameIo DEF QueueCounts

\* A thread added to ready is counted.
LEMMA ReadyAppended ==
  ASSUME Inv, NEW t \in TCB, ready' = Append(ready, t),
         UNCHANGED <<new, io_block_list, lt, st>>,
         NEW S, sem' = Post(sem, S), "new" \notin S, "ready" \in S, "io" \notin S
  PROVE  QueueCounts' /\ ready' \in Seq(TCB)
<1>1. sem \in [SemNames -> Nat] /\ ready \in Seq(TCB)
  BY DEF Inv, TypeOK, Locks!TypeOK, QueueTypeOK, SemNames, Locks!SemNames
<1>2. /\ sem'["new"] = sem["new"] /\ sem'["ready"] = sem["ready"] + 1
      /\ sem'["io"] = sem["io"] /\ sem["ready"] \in Nat
  BY <1>1, PostCounts
<1>3. ready' \in Seq(TCB) /\ Len(ready') = Len(ready) + 1
  BY <1>1
<1>4. ReadyCount'
  BY <1>2, <1>3 DEF Inv, QueueCounts, ReadyCount, Count
<1> QED
  BY <1>2, <1>3, <1>4, SameNew, SameIo DEF QueueCounts

LEMMA KeptTypes ==
  ASSUME Inv, RHDropSyscall \/ RHNoSuchThread \/ RHMutexIgnored \/ RHNothingToEnd
  PROVE  Rest'
<1>0. TypeOK /\ sem \in [SemNames -> Nat] /\ Post(sem, {}) = sem
  BY DEF Inv, TypeOK, Locks!TypeOK, Post, SemNames, Locks!SemNames
<1>1. /\ UNCHANGED pcbVars /\ UNCHANGED tcbVars
      /\ UNCHANGED <<new, ready, io_block_list, exec, hilos>> /\ UNCHANGED rhFrame
      /\ ret' \in {ret, NoReturn}
      /\ sem' = Post(sem, {}) \/ sem' = Post(sem, {"short", "response"})
  BY <1>0 DEF RHDropSyscall, RHNoSuchThread, RHMutexIgnored, RHNothingToEnd, LosesCpu, KeepsCpu
<1>2. /\ UNCHANGED <<lt, st, io, io_tcb, exitt, rel, resident>> /\ CpuTypeOK'
  BY <1>1, SameSwitch
<1>3. QueueCounts'
  BY <1>1, <1>2, ListsKept
<1>4. UNCHANGED queueVars /\ UNCHANGED memVars
  BY <1>1, <1>2 DEF queueVars, memVars
<1> QED
  BY <1>0, <1>1, <1>2, <1>3, <1>4, SamePcb, SameTcb, SameQueues, SameMem DEF Rest

LEMMA CreateTypes == ASSUME Inv, RHProcessCreate \/ RHThreadCreate PROVE Rest'
<1>0. TypeOK /\ sem \in [SemNames -> Nat]
  BY DEF Inv, TypeOK, Locks!TypeOK, SemNames, Locks!SemNames
<1>p. Arguments("PROCESS_CREATE") = Priorities /\ Arguments("THREAD_CREATE") = Priorities
  BY DEF Arguments
<1>1. CASE RHProcessCreate
  <2>1. /\ UNCHANGED <<tid_counter, mutex_list, state, block_type, joined_to, joined_tcbs,
                       finished, ready, io_block_list, exec, hilos>> /\ UNCHANGED rhFrame
        /\ pid_counter < MaxPid /\ pid_counter' = pid_counter + 1
        /\ pcb_state' = [pcb_state EXCEPT ![pid_counter] = "NEW"]
        /\ priority' = [priority EXCEPT ![<<pid_counter, 0>>] = ret.arg]
        /\ new' = Append(new, pid_counter) /\ ret' = NoReturn
        /\ sem' = Post(Post(sem, {"new"}), {"short", "response"})
        /\ Handling("PROCESS_CREATE")
    BY <1>1 DEF RHProcessCreate, KeepsCpu
  <2>2. UNCHANGED <<lt, st, io, io_tcb, exitt, rel, resident>> /\ CpuTypeOK'
    BY <2>1, SameSwitch
  <2>3. ret.arg \in Priorities
    BY <1>p, <2>1, HandlingFacts
  <2>4. pid_counter \in Pids /\ pid_counter' \in 1 .. MaxPid
    BY <1>0, <2>1, BoundsAssumption DEF TypeOK, PcbTypeOK, Pids
  <2>5. PcbTypeOK'
    BY <1>0, <2>1, <2>4 DEF TypeOK, PcbTypeOK
  <2>6. TcbTypeOK'
    BY <1>0, <2>1, <2>3 DEF TypeOK, TcbTypeOK
  <2>7. new \in Seq(Pids)
    BY <1>0 DEF TypeOK, QueueTypeOK
  <2>8. new' \in Seq(Pids) /\ Len(new') = Len(new) + 1
    BY <2>1, <2>4, <2>7
  <2>9. QueueTypeOK' /\ MemTypeOK'
    BY <1>0, <2>1, <2>2, <2>8 DEF TypeOK, QueueTypeOK, MemTypeOK
  <2>10. sem' = Post(sem, {"new", "short", "response"})
    BY <2>1 DEF Post, SemNames
  <2>11. /\ sem'["new"] = sem["new"] + 1 /\ sem'["ready"] = sem["ready"]
         /\ sem'["io"] = sem["io"] /\ sem["new"] \in Nat
    BY <1>0, <2>10, PostCounts
  <2>12. NewCount'
    BY <2>2, <2>8, <2>11 DEF Inv, QueueCounts, NewCount, Count
  <2> QED
    BY <2>1, <2>2, <2>5, <2>6, <2>9, <2>11, <2>12, SameReady, SameIo DEF Rest, QueueCounts
<1>2. CASE RHThreadCreate
  <2> DEFINE p == exec[1]
             t == <<p, tid_counter[p]>>
  <2>1. /\ UNCHANGED <<pid_counter, pcb_state, mutex_list, block_type, joined_to, joined_tcbs,
                       finished, new, io_block_list, exec>> /\ UNCHANGED rhFrame
        /\ tid_counter[p] < MaxTid /\ tid_counter' = [tid_counter EXCEPT ![p] = @ + 1]
        /\ priority' = [priority EXCEPT ![t] = ret.arg]
        /\ hilos' = hilos \cup {t}
        /\ state' = [state EXCEPT ![t] = "READY"]
        /\ ready' = Append(ready, t) /\ ret' = NoReturn
        /\ sem' = Post(Post(sem, {"ready"}), {"short", "response"})
        /\ Handling("THREAD_CREATE")
    BY <1>2 DEF RHThreadCreate, KeepsCpu
  <2>2. UNCHANGED <<lt, st, io, io_tcb, exitt, rel, resident>> /\ CpuTypeOK'
    BY <2>1, SameSwitch
  <2>3. ret.arg \in Priorities /\ p \in Pids
    BY <1>p, <2>1, HandlingFacts
  <2> HIDE DEF p
  <2>4. tid_counter[p] \in Tids /\ tid_counter[p] + 1 \in 0 .. MaxTid
    <3>1. tid_counter[p] \in 0 .. MaxTid
      BY <1>0, <2>3 DEF TypeOK, PcbTypeOK
    <3> QED
      BY <2>1, <3>1, BoundsAssumption DEF Tids
  <2>5. t \in TCB
    BY <2>3, <2>4 DEF TCB
  <2> HIDE DEF t
  <2>6. PcbTypeOK'
    BY <1>0, <2>1, <2>3, <2>4 DEF TypeOK, PcbTypeOK
  <2>7. TcbTypeOK'
    BY <1>0, <2>1, <2>3, <2>5 DEF TypeOK, TcbTypeOK
  <2>8. sem' = Post(sem, {"ready", "short", "response"})
    BY <2>1 DEF Post, SemNames
  <2>9. QueueCounts' /\ ready' \in Seq(TCB)
    BY <2>1, <2>2, <2>5, <2>8, ReadyAppended
  <2>10. QueueTypeOK' /\ MemTypeOK'
    BY <1>0, <2>1, <2>2, <2>5, <2>9 DEF TypeOK, QueueTypeOK, MemTypeOK
  <2> QED
    BY <2>2, <2>6, <2>7, <2>9, <2>10 DEF Rest
<1> QED
  BY <1>1, <1>2

\* A mutex of the running thread's process put in place of another.
LEMMA MutexReplaced ==
  ASSUME TypeOK, NEW p \in Pids, NEW i \in 1 .. Len(mutex_list[p]), NEW m \in Mutex,
         mutex_list' = [mutex_list EXCEPT ![p][i] = m],
         UNCHANGED <<pid_counter, pcb_state, tid_counter>>
  PROVE  PcbTypeOK'
<1>1. mutex_list[p] \in Seq(Mutex)
  BY DEF TypeOK, PcbTypeOK
<1>2. [mutex_list[p] EXCEPT ![i] = m] \in Seq(Mutex)
  BY <1>1
<1>3. mutex_list' = [mutex_list EXCEPT ![p] = [mutex_list[p] EXCEPT ![i] = m]]
  OBVIOUS
<1> QED
  BY <1>2, <1>3 DEF TypeOK, PcbTypeOK

LEMMA MutexTyped ==
  ASSUME TypeOK, NEW p \in Pids, NEW i \in 1 .. Len(mutex_list[p])
  PROVE  mutex_list[p][i] \in Mutex
BY DEF TypeOK, PcbTypeOK

LEMMA MutexTypes ==
  ASSUME Inv, RHMutexCreate \/ RHMutexTake \/ RHMutexUnlock
  PROVE  Rest'
<1> DEFINE p == exec[1]
<1>0. TypeOK /\ sem \in [SemNames -> Nat]
  BY DEF Inv, TypeOK, Locks!TypeOK, SemNames, Locks!SemNames
<1>p. Arguments("MUTEX_CREATE") = MutexNames
  BY DEF Arguments
<1>1. CASE RHMutexCreate
  <2> DEFINE m == [name |-> ret.arg, tcb |-> NoTcb, blocked |-> <<>>]
  <2>1. /\ UNCHANGED <<pid_counter, pcb_state, tid_counter>> /\ UNCHANGED tcbVars
        /\ UNCHANGED <<new, ready, io_block_list, exec, hilos>> /\ UNCHANGED rhFrame
        /\ mutex_list' = [mutex_list EXCEPT ![p] = Append(@, m)]
        /\ ret' = NoReturn /\ sem' = Post(sem, {"short", "response"})
        /\ Handling("MUTEX_CREATE")
    BY <1>1 DEF RHMutexCreate, KeepsCpu
  <2>2. UNCHANGED <<lt, st, io, io_tcb, exitt, rel, resident>> /\ CpuTypeOK'
    BY <2>1, SameSwitch
  <2>3. p \in Pids /\ m \in Mutex
    BY <1>p, <2>1, HandlingFacts DEF Mutex
  <2> HIDE DEF p, m
  <2>4. PcbTypeOK'
    BY <1>0, <2>1, <2>3 DEF TypeOK, PcbTypeOK
  <2>5. QueueCounts'
    BY <2>1, <2>2, ListsKept
  <2>6. QueueTypeOK' /\ MemTypeOK'
    BY <1>0, <2>1, <2>2 DEF TypeOK, QueueTypeOK, MemTypeOK
  <2> QED
    BY <1>0, <2>1, <2>2, <2>4, <2>5, <2>6, SameTcb DEF Rest
<1>2. CASE RHMutexTake
  <2>1. /\ UNCHANGED <<pid_counter, pcb_state, tid_counter>> /\ UNCHANGED tcbVars
        /\ UNCHANGED <<new, ready, io_block_list, exec, hilos>> /\ UNCHANGED rhFrame
        /\ ret' = NoReturn /\ sem' = Post(sem, {"short", "response"})
        /\ Handling("MUTEX_LOCK")
    BY <1>2 DEF RHMutexTake, KeepsCpu
  <2>2. PICK i \in 1 .. Len(mutex_list[p]) :
           mutex_list' = [mutex_list EXCEPT ![p][i].tcb = exec]
    BY <1>2 DEF RHMutexTake
  <2>3. p \in Pids /\ exec \in TCB
    BY <2>1, HandlingFacts
  <2> DEFINE m == [mutex_list[p][i] EXCEPT !.tcb = exec]
  <2>4. mutex_list' = [mutex_list EXCEPT ![p][i] = m]
    BY <2>2
  <2> HIDE DEF p
  <2>5. m \in Mutex
    BY <1>0, <2>3, MutexTyped DEF Mutex
  <2> HIDE DEF m
  <2>6. PcbTypeOK'
    BY <1>0, <2>1, <2>3, <2>4, <2>5, MutexReplaced
  <2>7. UNCHANGED <<lt, st, io, io_tcb, exitt, rel, resident>> /\ CpuTypeOK'
    BY <2>1, SameSwitch
  <2>8. QueueCounts'
    BY <2>1, <2>7, ListsKept
  <2>9. QueueTypeOK' /\ MemTypeOK'
    BY <1>0, <2>1, <2>7 DEF TypeOK, QueueTypeOK, MemTypeOK
  <2> QED
    BY <1>0, <2>1, <2>6, <2>7, <2>8, <2>9, SameTcb DEF Rest
<1>3. CASE RHMutexUnlock
  <2>1. /\ UNCHANGED <<pid_counter, pcb_state, tid_counter, joined_to, joined_tcbs, priority,
                       finished, new, io_block_list, exec, hilos>> /\ UNCHANGED rhFrame
        /\ Handling("MUTEX_UNLOCK")
    BY <1>3 DEF RHMutexUnlock
  <2>2. PICK i \in 1 .. Len(mutex_list[p]) : LET m == mutex_list[p][i] IN
           /\ mutex_list' = [mutex_list EXCEPT ![p][i] = HandOver(m)]
           /\ IF m.blocked = <<>>
              THEN KeepsCpu(sem) /\ UNCHANGED <<state, block_type, ready>>
              ELSE /\ state' = [state EXCEPT ![Head(m.blocked)] = "READY"]
                   /\ block_type' = [block_type EXCEPT ![Head(m.blocked)] = "INSTRUCTION"]
                   /\ ready' = Append(ready, Head(m.blocked))
                   /\ KeepsCpu(Post(sem, {"ready"}))
    BY <1>3 DEF RHMutexUnlock
  <2> DEFINE m == mutex_list[p][i]
  <2>3. p \in Pids
    BY <2>1, HandlingFacts
  <2>4. m \in Mutex /\ HandOver(m) \in Mutex
    BY <1>0, <2>3, MutexTyped, HandOverTyped
  <2>5. ret' = NoReturn
    BY <2>2 DEF KeepsCpu
  <2>6. UNCHANGED <<lt, st, io, io_tcb, exitt, rel, resident>> /\ CpuTypeOK'
    BY <2>1, <2>5, SameSwitch
  <2>7. PcbTypeOK'
    BY <1>0, <2>1, <2>2, <2>3, <2>4, MutexReplaced
  <2>8. MemTypeOK'
    BY <1>0, <2>1, <2>6 DEF TypeOK, MemTypeOK
  <2>9. CASE m.blocked = <<>>
    <3>1. /\ UNCHANGED <<state, block_type, ready>> /\ sem' = Post(sem, {"short", "response"})
      BY <2>2, <2>9 DEF KeepsCpu
    <3>2. UNCHANGED tcbVars
      BY <2>1, <3>1 DEF tcbVars
    <3>3. QueueCounts'
      BY <2>1, <2>6, <3>1, ListsKept
    <3>4. QueueTypeOK'
      BY <1>0, <2>1, <2>6, <3>1 DEF TypeOK, QueueTypeOK
    <3> QED
      BY <1>0, <2>6, <2>7, <2>8, <3>2, <3>3, <3>4, SameTcb DEF Rest
  <2>10. CASE m.blocked # <<>>
    <3> DEFINE t == Head(m.blocked)
    <3>1. /\ state' = [state EXCEPT ![t] = "READY"]
          /\ block_type' = [block_type EXCEPT ![t] = "INSTRUCTION"]
          /\ ready' = Append(ready, t)
          /\ sem' = Post(Post(sem, {"ready"}), {"short", "response"})
      BY <2>2, <2>10 DEF KeepsCpu
    <3>2. t \in TCB
      BY <2>4, <2>10 DEF Mutex
    <3> HIDE DEF t
    <3>3. sem' = Post(sem, {"ready", "short", "response"})
      BY <3>1 DEF Post, SemNames
    <3>4. QueueCounts' /\ ready' \in Seq(TCB)
      BY <2>1, <2>6, <3>1, <3>2, <3>3, ReadyAppended
    <3>5. TcbTypeOK'
      BY <1>0, <2>1, <3>1, <3>2 DEF TypeOK, TcbTypeOK
    <3>6. QueueTypeOK'
      BY <1>0, <2>1, <2>6, <3>4 DEF TypeOK, QueueTypeOK
    <3> QED
      BY <2>6, <2>7, <2>8, <3>4, <3>5, <3>6 DEF Rest
  <2> QED
    BY <2>9, <2>10
<1> QED
  BY <1>1, <1>2, <1>3

\* The running thread blocks: where it waits is added by each case.
LEMMA BlockTypes ==
  ASSUME Inv, RHThreadJoin \/ RHMutexWait \/ RHDumpMemory \/ RHIO
  PROVE  Rest'
<1>0. TypeOK /\ sem \in [SemNames -> Nat] /\ Post(sem, {}) = sem
  BY DEF Inv, TypeOK, Locks!TypeOK, Post, SemNames, Locks!SemNames
<1>1. /\ UNCHANGED <<pid_counter, pcb_state, tid_counter, priority, finished, new, ready, hilos>>
      /\ UNCHANGED rhFrame /\ exec' = NoTcb /\ ret' = ret
      /\ state' = [state EXCEPT ![exec] = "BLOCK"]
      /\ \E why \in {"THREAD_JOIN", "MUTEX_LOCK", "DUMP_MEMORY", "IO"} :
            block_type' = [block_type EXCEPT ![exec] = why]
      /\ \E call : Handling(call)
  BY DEF RHThreadJoin, RHMutexWait, RHDumpMemory, RHIO, LosesCpu, pcbVars
<1>2. exec \in TCB /\ exec[1] \in Pids /\ exec[2] \in Tids
  BY <1>1, HandlingFacts
<1>3. UNCHANGED <<lt, st, io, io_tcb, exitt, rel, resident>> /\ CpuTypeOK'
  BY <1>1, SameSwitch
<1>4. MemTypeOK'
  BY <1>0, <1>1, <1>3 DEF TypeOK, MemTypeOK
<1>5. /\ state' \in [TCB -> {"READY", "EXEC", "BLOCK", "EXIT", "NULL_STATE"}]
      /\ block_type' \in [TCB -> {"INSTRUCTION", "IO", "DUMP_MEMORY", "MUTEX_LOCK",
                                  "THREAD_JOIN"}]
  BY <1>0, <1>1 DEF TypeOK, TcbTypeOK
<1>6. CASE RHThreadJoin
  <2> DEFINE target == <<exec[1], ret.arg>>
  <2>1. /\ target \in Threads(exec[1]) /\ Handling("THREAD_JOIN")
        /\ joined_to' = [joined_to EXCEPT ![exec] = ret.arg]
        /\ joined_tcbs' = [joined_tcbs EXCEPT ![target] = Append(@, exec)]
        /\ UNCHANGED <<mutex_list, io_block_list>> /\ sem' = sem
    BY <1>6 DEF RHThreadJoin, LosesCpu, pcbVars
  <2>2. target \in TCB
    BY <1>0, <1>2, <2>1, ThreadsTyped
  <2>3. ret.arg \in Tids
    BY <2>2 DEF TCB
  <2> HIDE DEF target
  <2>4. joined_to' \in [TCB -> Tids \cup {NoTid}] /\ joined_tcbs' \in [TCB -> Seq(TCB)]
    BY <1>0, <1>2, <2>1, <2>2, <2>3 DEF TypeOK, TcbTypeOK
  <2>5. PcbTypeOK' /\ TcbTypeOK'
    BY <1>0, <1>1, <1>5, <2>1, <2>4 DEF TypeOK, PcbTypeOK, TcbTypeOK
  <2>6. QueueTypeOK'
    BY <1>0, <1>1, <1>3, <2>1 DEF TypeOK, QueueTypeOK
  <2>7. QueueCounts'
    BY <1>0, <1>1, <1>3, <2>1, ListsKept
  <2> QED
    BY <1>3, <1>4, <2>5, <2>6, <2>7 DEF Rest
<1>7. CASE RHMutexWait
  <2> DEFINE p == exec[1]
  <2>1. /\ UNCHANGED <<joined_to, joined_tcbs, io_block_list>> /\ sem' = sem
    BY <1>7 DEF RHMutexWait, LosesCpu
  <2>2. PICK i \in 1 .. Len(mutex_list[p]) :
           mutex_list' = [mutex_list EXCEPT ![p][i].blocked = Append(@, exec)]
    BY <1>7 DEF RHMutexWait
  <2> DEFINE m == [mutex_list[p][i] EXCEPT !.blocked = Append(@, exec)]
  <2>3. mutex_list' = [mutex_list EXCEPT ![p][i] = m]
    BY <2>2
  <2>4. mutex_list[p][i] \in Mutex
    BY <1>0, <1>2, MutexTyped
  <2>5. m \in Mutex
    <3>1. Append(mutex_list[p][i].blocked, exec) \in Seq(TCB)
      BY <1>2, <2>4 DEF Mutex
    <3> HIDE DEF p
    <3> QED
      BY <2>4, <3>1 DEF Mutex
  <2> HIDE DEF m
  <2>6. PcbTypeOK'
    BY <1>0, <1>1, <1>2, <2>3, <2>5, MutexReplaced
  <2>7. TcbTypeOK' /\ QueueTypeOK'
    BY <1>0, <1>1, <1>3, <1>5, <2>1 DEF TypeOK, TcbTypeOK, QueueTypeOK
  <2>8. QueueCounts'
    BY <1>0, <1>1, <1>3, <2>1, ListsKept
  <2> QED
    BY <1>3, <1>4, <2>6, <2>7, <2>8 DEF Rest
<1>8. CASE RHDumpMemory
  <2>1. /\ UNCHANGED <<mutex_list, joined_to, joined_tcbs, io_block_list>> /\ sem' = sem
    BY <1>8 DEF RHDumpMemory, LosesCpu, pcbVars
  <2>2. PcbTypeOK' /\ TcbTypeOK' /\ QueueTypeOK'
    BY <1>0, <1>1, <1>3, <1>5, <2>1 DEF TypeOK, PcbTypeOK, TcbTypeOK, QueueTypeOK
  <2>3. QueueCounts'
    BY <1>0, <1>1, <1>3, <2>1, ListsKept
  <2> QED
    BY <1>3, <1>4, <2>2, <2>3 DEF Rest
<1>9. CASE RHIO
  <2>1. /\ UNCHANGED <<mutex_list, joined_to, joined_tcbs>> /\ sem' = Post(sem, {"io"})
        /\ io_block_list' = Append(io_block_list, exec)
    BY <1>9 DEF RHIO, LosesCpu, pcbVars
  <2>2. io_block_list \in Seq(TCB)
    BY <1>0 DEF TypeOK, QueueTypeOK
  <2>3. io_block_list' \in Seq(TCB) /\ Len(io_block_list') = Len(io_block_list) + 1
    BY <1>2, <2>1, <2>2
  <2>4. PcbTypeOK' /\ TcbTypeOK' /\ QueueTypeOK'
    BY <1>0, <1>1, <1>3, <1>5, <2>1, <2>3 DEF TypeOK, PcbTypeOK, TcbTypeOK, QueueTypeOK
  <2>5. /\ sem'["new"] = sem["new"] /\ sem'["ready"] = sem["ready"]
        /\ sem'["io"] = sem["io"] + 1 /\ sem["io"] \in Nat
    BY <1>0, <2>1, PostCounts
  <2>6. IoCount'
    BY <2>3, <2>5 DEF Inv, QueueCounts, IoCount
  <2> QED
    BY <1>1, <1>3, <1>4, <2>4, <2>5, <2>6, SameNew, SameReady DEF Rest, QueueCounts
<1> QED
  BY <1>6, <1>7, <1>8, <1>9

LEMMA EndTypes ==
  ASSUME Inv, RHThreadCancel \/ RHThreadExit \/ RHProcessExit \/ RHSegfault
  PROVE  Rest'
<1>0. TypeOK /\ sem \in [SemNames -> Nat] /\ Post(sem, {}) = sem
  BY DEF Inv, TypeOK, Locks!TypeOK, Post, SemNames, Locks!SemNames
<1>1. exec \in TCB
  BY <1>0 DEF RHThreadCancel, RHThreadExit, RHProcessExit, RHSegfault, Handling, TypeOK,
     QueueTypeOK
<1>2. exec[1] \in Pids
  BY <1>1 DEF TCB
<1>3. CASE RHThreadCancel \/ RHThreadExit
  <2>1. \E t \in TCB : \E S \in {{}, {"short", "response"}} : EndThread(t, Post(sem, S))
    <3>1. CASE RHThreadCancel
      <4>1. /\ <<exec[1], ret.arg>> \in Threads(exec[1])
            /\ EndThread(<<exec[1], ret.arg>>, Post(sem, {"short", "response"}))
        BY <3>1 DEF RHThreadCancel
      <4> QED
        BY <1>0, <1>1, <4>1, ThreadsTyped
    <3>2. CASE RHThreadExit
      BY <1>0, <1>1, <3>2 DEF RHThreadExit
    <3> QED
      BY <1>3, <3>1, <3>2
  <2>2. /\ UNCHANGED <<pid_counter, pcb_state, tid_counter, priority, new, io_block_list>>
        /\ UNCHANGED rhFrame /\ ret' \in {ret, NoReturn}
    BY <1>3 DEF RHThreadCancel, RHThreadExit
  <2>3. UNCHANGED <<lt, st, io, io_tcb, exitt, rel, resident>> /\ CpuTypeOK'
    BY <2>2, SameSwitch
  <2>4. /\ PcbTypeOK' /\ TcbTypeOK' /\ exec' \in TCB \cup {NoTcb} /\ ready' \in Seq(TCB)
        /\ hilos' \subseteq TCB /\ ReadyCount'
        /\ sem'["new"] = sem["new"] /\ sem'["io"] = sem["io"]
    BY <2>1, <2>2, <2>3, EndThreadTypes
  <2>5. QueueTypeOK' /\ MemTypeOK'
    BY <1>0, <2>2, <2>3, <2>4 DEF TypeOK, QueueTypeOK, MemTypeOK
  <2> QED
    BY <2>2, <2>3, <2>4, <2>5, SameNew, SameIo DEF Rest, QueueCounts
<1>4. CASE RHProcessExit \/ RHSegfault
  <2>1. /\ EndProcess(exec[1], NoTcb)
        /\ UNCHANGED <<pid_counter, tid_counter, mutex_list, priority>>
        /\ UNCHANGED <<new, ready, io_block_list, hilos, sem, ret>> /\ UNCHANGED rhFrame
    BY <1>4 DEF RHProcessExit, RHSegfault
  <2>2. UNCHANGED <<lt, st, io, io_tcb, exitt, rel, resident>> /\ CpuTypeOK'
    BY <2>1, SameSwitch
  <2>3. PcbTypeOK' /\ TcbTypeOK' /\ exec' \in TCB \cup {NoTcb}
    BY <1>0, <1>2, <2>1, EndProcessTypes
  <2>4. QueueTypeOK' /\ MemTypeOK'
    BY <1>0, <2>1, <2>2, <2>3 DEF TypeOK, QueueTypeOK, MemTypeOK
  <2>5. QueueCounts'
    BY <1>0, <2>1, <2>2, ListsKept
  <2> QED
    BY <2>2, <2>3, <2>4, <2>5 DEF Rest
<1> QED
  BY <1>3, <1>4

LEMMA SyscallTypes == ASSUME Inv, Syscall PROVE Rest'
<1>1. CASE RHDropSyscall \/ RHNoSuchThread \/ RHMutexIgnored
  BY <1>1, KeptTypes
<1>2. CASE RHProcessCreate \/ RHThreadCreate
  BY <1>2, CreateTypes
<1>3. CASE RHMutexCreate \/ RHMutexTake \/ RHMutexUnlock
  BY <1>3, MutexTypes
<1>4. CASE RHThreadJoin \/ RHMutexWait \/ RHDumpMemory \/ RHIO
  BY <1>4, BlockTypes
<1>5. CASE RHThreadCancel \/ RHThreadExit \/ RHProcessExit
  BY <1>5, EndTypes
<1>6. CASE RHUnlockCrashes \/ RHEndCrashes
  BY <1>6, CrashTypes DEF RHUnlockCrashes, RHEndCrashes, EndProcessCrashes, EndThreadCrashes
<1> QED
  BY <1>1, <1>2, <1>3, <1>4, <1>5, <1>6 DEF Syscall

LEMMA ResponseTypes == ASSUME Inv, ResponseHandler PROVE Rest'
<1>0. TypeOK /\ sem \in [SemNames -> Nat]
  BY DEF Inv, TypeOK, Locks!TypeOK, SemNames, Locks!SemNames
<1>n. \A n \in {"new", "retry", "plan", "response", "ready", "io", "long", "short"} : n \in SemNames
  BY DEF SemNames
<1>1. CASE RHReceive \/ RHLock
  <2>1. /\ UNCHANGED pcbVars /\ UNCHANGED tcbVars /\ UNCHANGED queueVars
        /\ UNCHANGED <<io, io_tcb>> /\ UNCHANGED <<rel, memVars>>
        /\ UNCHANGED cpuVars /\ UNCHANGED crash /\ UNCHANGED <<lt, st>>
    BY <1>1 DEF RHReceive, RHLock, faultVars
  <2>2. \A n \in {"new", "ready", "io"} : sem'[n] = sem[n]
    BY <1>0, <1>1, <1>n DEF RHReceive, RHLock, Wait
  <2>3. UNCHANGED <<new, ready, io_block_list>>
    BY <2>1 DEF queueVars
  <2> QED
    BY <1>0, <2>1, <2>2, <2>3, SamePcb, SameTcb, SameQueues, SameMem, SameCpu, SameNew,
       SameReady, SameIo DEF Rest, QueueCounts
<1>2. CASE RHFinish
  <2>1. /\ ReleaseProcess(cpu[1], sem)
        /\ UNCHANGED pcbVars /\ UNCHANGED tcbVars /\ UNCHANGED queueVars
        /\ UNCHANGED <<io, io_tcb>> /\ UNCHANGED cpuVars /\ UNCHANGED crash
        /\ UNCHANGED <<lt, st>>
    BY <1>2 DEF RHFinish, faultVars
  <2>2. MemTypeOK' /\ \A n \in {"new", "ready", "io"} : sem'[n] = sem[n]
    BY <1>0, <2>1, ReleaseTypes
  <2>3. UNCHANGED <<new, ready, io_block_list>>
    BY <2>1 DEF queueVars
  <2> QED
    BY <1>0, <2>1, <2>2, <2>3, SamePcb, SameTcb, SameQueues, SameCpu, SameNew, SameReady,
       SameIo DEF Rest, QueueCounts
<1>3. CASE RHInterruption
  <2>1. /\ UNCHANGED pcbVars /\ UNCHANGED <<block_type, joined_to, joined_tcbs, priority, finished>>
        /\ UNCHANGED <<new, io_block_list, exitt>> /\ UNCHANGED <<lt, st, io, io_tcb>>
        /\ UNCHANGED <<rel, memVars>> /\ UNCHANGED <<interrupt, calls, crash>>
        /\ exec' = NoTcb /\ cpu' = NoTcb /\ ret' = NoReturn
    BY <1>3 DEF RHInterruption, faultVars
  <2>2. CpuTypeOK'
    BY <1>0, <2>1, SameRet DEF TypeOK, CpuTypeOK
  <2>3. CASE exec = NoTcb
    <3>1. UNCHANGED <<state, ready>> /\ sem' = Post(sem, {"short", "plan"})
      BY <1>3, <2>3 DEF RHInterruption
    <3>2. UNCHANGED tcbVars /\ QueueCounts'
      BY <2>1, <3>1, ListsKept DEF tcbVars
    <3>3. QueueTypeOK'
      BY <1>0, <2>1, <3>1 DEF TypeOK, QueueTypeOK
    <3> QED
      BY <1>0, <2>1, <2>2, <3>2, <3>3, SamePcb, SameTcb, SameMem DEF Rest
  <2>4. CASE exec # NoTcb
    <3>1. /\ state' = [state EXCEPT ![exec] = "READY"] /\ ready' = Append(ready, exec)
          /\ sem' = Post(sem, {"short", "plan"} \cup {"ready"}) /\ exec \in TCB
      BY <1>0, <1>3, <2>4 DEF RHInterruption, TypeOK, QueueTypeOK
    <3>2. QueueCounts' /\ ready' \in Seq(TCB)
      BY <2>1, <3>1, ReadyAppended
    <3>3. TcbTypeOK' /\ QueueTypeOK'
      BY <1>0, <2>1, <3>1, <3>2 DEF TypeOK, TcbTypeOK, QueueTypeOK
    <3> QED
      BY <1>0, <2>1, <2>2, <3>2, <3>3, SamePcb, SameMem DEF Rest
  <2> QED
    BY <2>3, <2>4
<1>4. CASE RHAck \/ RHFallThrough
  <2>1. /\ UNCHANGED pcbVars /\ UNCHANGED tcbVars /\ UNCHANGED queueVars
        /\ UNCHANGED <<io, io_tcb>> /\ UNCHANGED <<rel, memVars>> /\ UNCHANGED crash
        /\ UNCHANGED <<lt, st, calls>>
        /\ cpu' = NoTcb /\ ret' = NoReturn /\ interrupt' = FALSE
    BY <1>4 DEF RHAck, RHFallThrough, CpuStops, faultVars
  <2>2. CpuTypeOK'
    BY <1>0, <2>1, SameRet DEF TypeOK, CpuTypeOK
  <2>3. \A n \in {"new", "ready", "io"} : sem'[n] = sem[n]
    BY <1>4, <1>n DEF RHAck, RHFallThrough, Post
  <2>4. UNCHANGED <<new, ready, io_block_list>>
    BY <2>1 DEF queueVars
  <2> QED
    BY <1>0, <2>1, <2>2, <2>3, <2>4, SamePcb, SameTcb, SameQueues, SameMem, SameNew,
       SameReady, SameIo DEF Rest, QueueCounts
<1>5. CASE RHDoubleFree
  BY <1>5, CrashTypes DEF RHDoubleFree
<1>6. CASE RHSegfault
  BY <1>6, EndTypes
<1>7. CASE RHNothingToEnd
  BY <1>7, KeptTypes
<1>8. CASE Syscall
  BY <1>8, SyscallTypes
<1> QED
  BY <1>1, <1>2, <1>3, <1>4, <1>5, <1>6, <1>7, <1>8 DEF ResponseHandler

LEMMA RestStep == ASSUME Inv, [Next]_vars PROVE Rest'
<1>0. TypeOK
  BY DEF Inv
<1>1. CASE UNCHANGED vars
  <2>1. /\ UNCHANGED pcbVars /\ UNCHANGED tcbVars /\ UNCHANGED queueVars
        /\ UNCHANGED <<io, io_tcb>> /\ UNCHANGED <<rel, memVars>> /\ UNCHANGED cpuVars
        /\ UNCHANGED crash /\ UNCHANGED <<lt, st>> /\ sem' = sem
    BY <1>1 DEF vars, pcVars, faultVars
  <2>2. UNCHANGED <<new, ready, io_block_list>>
    BY <2>1 DEF queueVars
  <2> QED
    BY <1>0, <2>1, <2>2, SamePcb, SameTcb, SameQueues, SameMem, SameCpu, SameNew,
       SameReady, SameIo DEF Rest, QueueCounts
<1>2. CASE Next
  BY <1>2, LongTermTypes, ShortTermTypes, CpuTypes, ResponseTypes, IoTypes, DumpTypes,
     ReleaseThreadTypes DEF Next
<1> QED
  BY <1>1, <1>2

-----------------------------------------------------------------------------
(* The theorems *)

\* The module KernelLocks and its theorems name the same things.
LEMMA SameTypes == LocksProofs!TypeOK <=> Locks!TypeOK
BY DEF LocksProofs!TypeOK, Locks!TypeOK, LocksProofs!SemNames, Locks!SemNames

LEMMA SameInit == Locks!Init => LocksProofs!Init
BY DEF LocksProofs!Init, Locks!Init, LocksProofs!SemInit, Locks!SemInit,
       LocksProofs!SemNames, Locks!SemNames

LEMMA SameNext == Locks!Next => LocksProofs!Next
<1> USE DEF LocksProofs!Wait, Locks!Wait, LocksProofs!Post, Locks!Post,
       LocksProofs!SemNames, Locks!SemNames, LocksProofs!MakesReady, Locks!MakesReady,
       LocksProofs!Wakes, Locks!Wakes
<1>1. Locks!LongTerm => LocksProofs!LongTerm
  BY DEF Locks!LongTerm, Locks!LTStarts, Locks!LTEnters, Locks!LTCreates, Locks!LTFails,
     Locks!LTWoken, Locks!LT, LocksProofs!LongTerm, LocksProofs!LTStarts, LocksProofs!LTEnters,
     LocksProofs!LTCreates, LocksProofs!LTFails, LocksProofs!LTWoken, LocksProofs!LT
<1>2. Locks!ShortTerm => LocksProofs!ShortTerm
  BY DEF Locks!ShortTerm, Locks!STPlans, Locks!STTakes, Locks!STEnters, Locks!STCollects,
     Locks!STDispatches, Locks!STReenters, Locks!STLeaves, Locks!ST,
     LocksProofs!ShortTerm, LocksProofs!STPlans, LocksProofs!STTakes, LocksProofs!STEnters,
     LocksProofs!STCollects, LocksProofs!STDispatches, LocksProofs!STReenters,
     LocksProofs!STLeaves, LocksProofs!ST
<1>3. Locks!Response => LocksProofs!Response
  BY DEF Locks!Response, Locks!RHReceives, Locks!RHEnters, Locks!RHKeeps, Locks!RHStops,
     Locks!RHEnds, Locks!RHFrees, Locks!RHPreempts, Locks!RHReplans, Locks!RHPostsTwice,
     Locks!RH, Locks!RHFrame,
     LocksProofs!Response, LocksProofs!RHReceives, LocksProofs!RHEnters, LocksProofs!RHKeeps,
     LocksProofs!RHStops, LocksProofs!RHEnds, LocksProofs!RHFrees, LocksProofs!RHPreempts,
     LocksProofs!RHReplans, LocksProofs!RHPostsTwice, LocksProofs!RH, LocksProofs!RHFrame
<1>4. Locks!IoHandler => LocksProofs!IoHandler
  BY DEF Locks!IoHandler, Locks!IOTakes, Locks!IOEnters, Locks!IOLeaves, Locks!IO,
     LocksProofs!IoHandler, LocksProofs!IOTakes, LocksProofs!IOEnters, LocksProofs!IOLeaves,
     LocksProofs!IO
<1>5. ASSUME NEW d \in TCB PROVE Locks!RHDumps(d) => LocksProofs!RHDumps(d)
  BY DEF Locks!RHDumps, Locks!RH, LocksProofs!RHDumps, LocksProofs!RH
<1>6. ASSUME NEW d \in TCB PROVE Locks!DumpThread(d) => LocksProofs!DumpThread(d)
  BY DEF Locks!DumpThread, Locks!DumpHears, Locks!DumpEnters, Locks!DumpLeaves,
     Locks!DumpEnds, Locks!DumpFrees, Locks!Dump,
     LocksProofs!DumpThread, LocksProofs!DumpHears, LocksProofs!DumpEnters,
     LocksProofs!DumpLeaves, LocksProofs!DumpEnds, LocksProofs!DumpFrees, LocksProofs!Dump
<1> QED
  BY <1>1, <1>2, <1>3, <1>4, <1>5, <1>6 DEF Locks!Next, LocksProofs!Next

LEMMA InvStep == ASSUME Inv, [Next]_vars PROVE Inv'
<1>1. TypeOK /\ Rest'
  BY RestStep DEF Inv
<1>2. [LocksProofs!Next]_LocksProofs!vars
  <2>1. [Locks!Next]_Locks!vars
    BY <1>1, LocksStep
  <2> QED
    BY <2>1, SameNext DEF LocksProofs!vars, Locks!vars
<1>3. LocksProofs!TypeOK /\ (LocksProofs!TypeOK' => Locks!TypeOK')
  BY <1>1, SameTypes DEF TypeOK, LocksProofs!TypeOK, Locks!TypeOK, LocksProofs!SemNames,
     Locks!SemNames
<1>4. LocksProofs!TypeOK'
  BY <1>2, <1>3, LocksProofs!TypedStep
<1> QED
  BY <1>1, <1>3, <1>4 DEF Inv, TypeOK, Rest

LEMMA InvInit == Init => Inv
<1> SUFFICES ASSUME Init PROVE Inv
  OBVIOUS
<1>1. Locks!TypeOK
  BY DEF Init, SemInit, SemNames, Locks!TypeOK, Locks!SemNames
<1>2. 0 \in Pids /\ 0 \in 0 .. MaxTid /\ 1 \in 1 .. MaxPid /\ -1 \in -1 .. MaxTid
      /\ 0 \in 0 .. MaxCalls /\ 0 \in Priorities
  BY BoundsAssumption, ConfigAssumption DEF Pids
<1>3. PcbTypeOK /\ TcbTypeOK
  BY <1>2 DEF Init, PcbTypeOK, TcbTypeOK
<1>4. QueueTypeOK /\ MemTypeOK
  BY <1>2 DEF Init, QueueTypeOK, MemTypeOK
<1>5. CpuTypeOK
  BY <1>2 DEF Init, CpuTypeOK, RetTypeOK, NoReturn, Returns, Arguments
<1>6. QueueCounts
  BY DEF Init, SemInit, SemNames, QueueCounts, NewCount, ReadyCount, IoCount, Count
<1> QED
  BY <1>1, <1>3, <1>4, <1>5, <1>6 DEF Inv, TypeOK

\* Inv is inductive.
LEMMA Invariant == Spec => []Inv
<1>1. Inv /\ [Next]_vars => Inv'
  BY InvStep
<1> QED
  BY InvInit, <1>1, PTL DEF Spec

\* Every variable of the kernel keeps its type, whatever the programs do.
THEOREM Typed == Spec => []TypeOK
<1>1. Inv => TypeOK
  BY DEF Inv
<1> QED
  BY <1>1, Invariant, PTL

\* The counting semaphores agree with the lists they count, so list_remove of the
\* head never finds an empty list (long_term.c:27, handle_block.c:16).
THEOREM Counted == Spec => []QueueCounts
<1>1. Inv => QueueCounts
  BY DEF Inv
<1> QED
  BY <1>1, Invariant, PTL

\* Whatever the lists hold, the kernel's threads follow the protocol of KernelLocks.
THEOREM Implements == Spec => ImplementsLocks
<1>1. TypeOK /\ [Next]_vars => [Locks!Next]_Locks!vars
  BY LocksStep
<1> QED
  BY InitLocks, Typed, <1>1, PTL DEF Spec, ImplementsLocks, Locks!Spec

\* In the form the theorems of KernelLocksProofs have.
LEMMA ImplementsProved == Spec => LocksProofs!Spec
<1>1. Init => LocksProofs!Init
  BY InitLocks, SameInit
<1>2. TypeOK /\ [Next]_vars => [LocksProofs!Next]_LocksProofs!vars
  <2>1. TypeOK /\ [Next]_vars => [Locks!Next]_Locks!vars
    BY LocksStep
  <2> QED
    BY <2>1, SameNext DEF LocksProofs!vars, Locks!vars
<1> QED
  BY <1>1, <1>2, Typed, PTL DEF Spec, LocksProofs!Spec

\* One scheduling token: the kernel never plans a thread while the CPU has one, and
\* never stops doing either.
THEOREM TokenKept == Spec => []SchedulingToken
<1>1. LocksProofs!SchedulingToken => SchedulingToken
  BY DEF SchedulingToken, Locks!SchedulingToken, LocksProofs!SchedulingToken, Locks!Count,
     LocksProofs!Count
<1> QED
  BY <1>1, ImplementsProved, LocksProofs!OneToken, PTL

\* A long-term planner that waits for memory is announced or woken, once.
THEOREM RetryKept == Spec => []RetryAnnounced
<1>1. LocksProofs!RetryAnnounced => RetryAnnounced
  BY DEF RetryAnnounced, Locks!RetryAnnounced, LocksProofs!RetryAnnounced, Locks!Count,
     LocksProofs!Count
<1> QED
  BY <1>1, ImplementsProved, LocksProofs!OneWakeup, PTL

\* There are finitely many tcbs.
LEMMA TcbFinite == IsFiniteSet(TCB)
<1>1. MaxPid - 1 \in Int /\ MaxTid - 1 \in Int
  BY BoundsAssumption
<1>2. IsFiniteSet(Pids) /\ IsFiniteSet(Tids)
  BY <1>1, FS_Interval DEF Pids, Tids
<1> QED
  BY <1>2, FS_Product DEF TCB

\* sem_short_term has one permit, but for the second post of the NOT_IN_MEMORY case.
THEOREM PermitsKept == Spec => []ShortTermPermits
<1>1. LocksProofs!ShortTermPermits => ShortTermPermits
  BY DEF ShortTermPermits, Locks!ShortTermPermits, LocksProofs!ShortTermPermits,
     Locks!Holders, LocksProofs!Holders, Locks!DumpHolders, LocksProofs!DumpHolders,
     Locks!Count, LocksProofs!Count, Locks!Cardinality, LocksProofs!Cardinality
<1>2. LocksProofs!Spec => []LocksProofs!ShortTermPermits
  <2>1. LocksProofs!IsFiniteSet(TCB)
    BY TcbFinite DEF IsFiniteSet, LocksProofs!IsFiniteSet
  <2> QED
    BY <2>1, LocksProofs!OnePermit
<1> QED
  BY <1>1, <1>2, ImplementsProved, PTL
=============================================================================
