-------------------------- MODULE KernelLocksProofs --------------------------
(* Theorems about the semaphores of the kernel. *)
EXTENDS KernelLocks, TLAPS, FiniteSetTheorems

LEMMA PostTyped ==
  ASSUME NEW s \in [SemNames -> Nat], NEW S
  PROVE  /\ Post(s, S) \in [SemNames -> Nat]
         /\ \A n \in SemNames : Post(s, S)[n] = IF n \in S THEN s[n] + 1 ELSE s[n]
BY DEF Post

LEMMA WaitTyped ==
  ASSUME sem \in [SemNames -> Nat], NEW n \in SemNames, Wait(n)
  PROVE  /\ sem' \in [SemNames -> Nat]
         /\ sem[n] > 0 /\ sem'[n] = sem[n] - 1
         /\ \A m \in SemNames \ {n} : sem'[m] = sem[m]
BY DEF Wait

LEMMA MakesReadyTyped ==
  ASSUME NEW s \in [SemNames -> Nat], MakesReady(s)
  PROVE  /\ sem' \in [SemNames -> Nat]
         /\ \A m \in SemNames \ {"ready"} : sem'[m] = s[m]
BY DEF MakesReady, SemNames

LEMMA WakesTyped ==
  ASSUME NEW s \in [SemNames -> Nat], no_memory_for_new_process \in BOOLEAN, Wakes(s)
  PROVE  /\ sem' \in [SemNames -> Nat] /\ no_memory_for_new_process' \in BOOLEAN
         /\ \A m \in SemNames \ {"retry"} : sem'[m] = s[m]
         /\ no_memory_for_new_process => sem'["retry"] = s["retry"] + 1
         /\ ~no_memory_for_new_process => sem'["retry"] = s["retry"]
         /\ no_memory_for_new_process' = FALSE
<1>1. no_memory_for_new_process' = FALSE
  BY DEF Wakes
<1>2. CASE no_memory_for_new_process
  <2>1. sem' = Post(s, {"retry"})
    BY <1>2 DEF Wakes
  <2>2. /\ sem' \in [SemNames -> Nat] /\ sem'["retry"] = s["retry"] + 1
        /\ \A m \in SemNames \ {"retry"} : sem'[m] = s[m]
    BY <2>1, PostTyped DEF SemNames
  <2> QED
    BY <1>1, <1>2, <2>2
<1>3. CASE ~no_memory_for_new_process
  BY <1>1, <1>3 DEF Wakes
<1> QED
  BY <1>2, <1>3

LEMMA WokenTyped ==
  ASSUME sem \in [SemNames -> Nat], LTWoken
  PROVE  /\ sem' \in [SemNames -> Nat]
         /\ sem'["retry"] = sem["retry"] - 1
         /\ \A m \in SemNames \ {"retry", "new"} : sem'[m] = sem[m]
BY DEF LTWoken, SemNames, Post

\* The semaphores keep their types: no sem_wait goes below zero.
LEMMA SemTyped ==
  ASSUME TypeOK, Next  PROVE sem' \in [SemNames -> Nat]
<1> USE PostTyped, WaitTyped, MakesReadyTyped, WakesTyped, WokenTyped DEF TypeOK
<1>1. \A n \in {"new", "retry", "plan", "response", "ready", "io", "long", "short"} : n \in SemNames
  BY DEF SemNames
<1>2. CASE LongTerm
  BY <1>1, <1>2 DEF LongTerm, LTStarts, LTEnters, LTCreates, LTFails
<1>3. CASE ShortTerm
  BY <1>1, <1>3 DEF ShortTerm, STPlans, STTakes, STEnters, STCollects, STDispatches,
                    STReenters, STLeaves
<1>4. CASE Response
  <2>1. CASE RHReceives \/ RHEnters
    BY <1>1, <2>1 DEF RHReceives, RHEnters
  <2>2. CASE RHKeeps \/ RHStops \/ RHPreempts
    BY <1>1, <2>2 DEF RHKeeps, RHStops, RHPreempts
  <2>3. CASE RHEnds \/ RHFrees
    BY <1>1, <2>3 DEF RHEnds, RHFrees
  <2>4. CASE RHReplans \/ RHPostsTwice
    BY <1>1, <2>4 DEF RHReplans, RHPostsTwice
  <2> QED
    BY <1>4, <2>1, <2>2, <2>3, <2>4 DEF Response
<1>5. CASE IoHandler
  BY <1>1, <1>5 DEF IoHandler, IOTakes, IOEnters, IOLeaves
<1>6. ASSUME NEW d \in Dumps, RHDumps(d) \/ DumpThread(d) PROVE sem' \in [SemNames -> Nat]
  BY <1>1, <1>6 DEF RHDumps, DumpThread, DumpHears, DumpEnters, DumpLeaves, DumpEnds,
                    DumpFrees
<1> QED
  BY <1>2, <1>3, <1>4, <1>5, <1>6 DEF Next

-----------------------------------------------------------------------------
(* What a step of each thread does to its own place and to the semaphores the *)
(* invariants count.                                                          *)

StPermits == sem["short"] + Count(st \in {"select", "interrupt"})
StToken   == sem["plan"] + sem["response"] + Count(st \in {"ready", "lock", "select"})
RhPermits == sem["short"] + Count(rh \in {"handle", "finish", "ack"}) - invalid
RhToken   == sem["plan"] + sem["response"] + Count(rh # "wait")
IoPermits == sem["short"] + Count(io = "handle")
LtRetry   == sem["retry"] + Count(no_memory_for_new_process) - Count(lt = "retry")

LEMMA LongTermStep ==
  ASSUME TypeOK, LongTerm
  PROVE  /\ UNCHANGED <<st, rh, io, dump, invalid>>
         /\ lt' \in {"wait", "lock", "create", "retry"}
         /\ no_memory_for_new_process' \in BOOLEAN
         /\ \A n \in {"short", "plan", "response"} : sem'[n] = sem[n]
         /\ LtRetry = 0 => LtRetry' = 0
<1> USE DEF TypeOK, LT, LtRetry, Count
<1>0. \A n \in {"new", "retry", "plan", "response", "ready", "io", "long", "short"} : n \in SemNames
  BY DEF SemNames
<1>1. CASE LTStarts
  BY <1>0, <1>1, WaitTyped DEF LTStarts
<1>2. CASE LTEnters
  BY <1>0, <1>2, WaitTyped DEF LTEnters
<1>3. CASE LTCreates
  BY <1>0, <1>3, PostTyped DEF LTCreates
<1>4. CASE LTFails
  BY <1>0, <1>4, PostTyped DEF LTFails
<1>5. CASE LTWoken
  <2>1. /\ sem'["retry"] = sem["retry"] - 1 /\ sem["retry"] > 0
        /\ \A n \in {"short", "plan", "response"} : sem'[n] = sem[n]
    BY <1>0, <1>5, WokenTyped DEF LTWoken
  <2>2. lt = "retry" /\ lt' = "wait" /\ UNCHANGED no_memory_for_new_process
    BY <1>5 DEF LTWoken
  <2>3. LtRetry' = LtRetry
    BY <2>1, <2>2, <1>0
  <2> QED
    BY <1>5, <2>1, <2>2, <2>3 DEF LTWoken
<1> QED
  BY <1>1, <1>2, <1>3, <1>4, <1>5 DEF LongTerm

LEMMA ShortTermStep ==
  ASSUME TypeOK, ShortTerm
  PROVE  /\ UNCHANGED <<no_memory_for_new_process, lt, rh, io, dump, invalid>>
         /\ st' \in {"plan", "ready", "lock", "select", "quantum", "interrupt"}
         /\ sem'["retry"] = sem["retry"]
         /\ StPermits' = StPermits /\ StToken' = StToken
<1> USE DEF TypeOK, ST, StPermits, StToken, Count
<1>0. \A n \in {"new", "retry", "plan", "response", "ready", "io", "long", "short"} : n \in SemNames
  BY DEF SemNames
<1>1. CASE STPlans
  BY <1>0, <1>1, WaitTyped DEF STPlans
<1>2. CASE STTakes
  BY <1>0, <1>2, WaitTyped DEF STTakes
<1>3. CASE STEnters
  BY <1>0, <1>3, WaitTyped DEF STEnters
<1>4. CASE STCollects
  BY <1>0, <1>4, PostTyped DEF STCollects
<1>5. CASE STDispatches
  <2>1. /\ sem'["response"] = sem["response"] + 1 /\ sem'["short"] = sem["short"] + 1
        /\ sem'["plan"] = sem["plan"] /\ sem'["retry"] = sem["retry"]
    BY <1>0, <1>5, PostTyped DEF STDispatches
  <2> QED
    BY <1>0, <1>5, <2>1 DEF STDispatches
<1>6. CASE STReenters
  BY <1>0, <1>6, WaitTyped DEF STReenters
<1>7. CASE STLeaves
  BY <1>0, <1>7, PostTyped DEF STLeaves
<1> QED
  BY <1>1, <1>2, <1>3, <1>4, <1>5, <1>6, <1>7 DEF ShortTerm

LEMMA WakesKeepRetry ==
  ASSUME TypeOK, NEW s \in [SemNames -> Nat], s["retry"] = sem["retry"], Wakes(s),
         UNCHANGED lt
  PROVE  LtRetry' = LtRetry /\ no_memory_for_new_process' = FALSE
<1> USE DEF LtRetry, Count
<1>0. no_memory_for_new_process \in BOOLEAN /\ sem \in [SemNames -> Nat]
  BY DEF TypeOK
<1>1. no_memory_for_new_process' = FALSE
  BY DEF Wakes
<1>2. CASE no_memory_for_new_process
  <2>1. sem'["retry"] = sem["retry"] + 1
    BY <1>0, <1>2, WakesTyped
  <2> QED
    BY <1>0, <1>1, <1>2, <2>1 DEF SemNames
<1>3. CASE ~no_memory_for_new_process
  <2>1. sem'["retry"] = sem["retry"]
    BY <1>0, <1>3, WakesTyped
  <2> QED
    BY <1>0, <1>1, <1>3, <2>1 DEF SemNames
<1> QED
  BY <1>2, <1>3

LEMMA ResponseStep ==
  ASSUME TypeOK, Response \/ \E d \in Dumps : RHDumps(d)
  PROVE  /\ UNCHANGED <<lt, st, io>>
         /\ rh' \in {"wait", "lock", "handle", "finish", "ack"}
         /\ no_memory_for_new_process' \in BOOLEAN /\ invalid' \in Nat
         /\ LtRetry' = LtRetry
         /\ RhPermits' = RhPermits /\ RhToken' = RhToken
<1> USE DEF TypeOK, RH, RHFrame, RhPermits, RhToken, LtRetry, Count
<1>0. \A n \in {"new", "retry", "plan", "response", "ready", "io", "long", "short"} : n \in SemNames
  BY DEF SemNames
<1>1. CASE RHReceives
  BY <1>0, <1>1, WaitTyped DEF RHReceives
<1>2. CASE RHEnters
  BY <1>0, <1>2, WaitTyped DEF RHEnters
<1>3. CASE RHKeeps
  <2>1. PICK more \in {{}, {"new"}} : MakesReady(Post(sem, {"short", "response"} \cup more))
    BY <1>3 DEF RHKeeps
  <2>2. /\ sem'["response"] = sem["response"] + 1 /\ sem'["short"] = sem["short"] + 1
        /\ sem'["plan"] = sem["plan"] /\ sem'["retry"] = sem["retry"]
    BY <1>0, <2>1, PostTyped, MakesReadyTyped
  <2> QED
    BY <1>0, <1>3, <2>2 DEF RHKeeps
<1>4. CASE RHStops
  <2>1. PICK more \in {{}, {"io"}} : MakesReady(Post(sem, more))
    BY <1>4 DEF RHStops
  <2>2. \A n \in {"response", "short", "plan", "retry"} : sem'[n] = sem[n]
    BY <1>0, <2>1, PostTyped, MakesReadyTyped
  <2> QED
    BY <1>0, <1>4, <2>2 DEF RHStops
<1>5. CASE RHEnds \/ \E d \in Dumps : RHDumps(d)
  BY <1>5 DEF RHEnds, RHDumps
<1>6. CASE RHFrees
  <2>1. \A n \in {"response", "short", "plan"} : sem'[n] = sem[n]
    BY <1>0, <1>6, WakesTyped DEF RHFrees
  <2>2. LtRetry' = LtRetry /\ no_memory_for_new_process' = FALSE
    <3>1. Wakes(sem) /\ UNCHANGED lt
      BY <1>6 DEF RHFrees
    <3> QED
      BY <3>1, WakesKeepRetry
  <2> QED
    BY <1>0, <1>6, <2>1, <2>2 DEF RHFrees
<1>7. CASE RHPreempts
  <2>1. /\ sem'["plan"] = sem["plan"] + 1 /\ sem'["short"] = sem["short"] + 1
        /\ sem'["response"] = sem["response"] /\ sem'["retry"] = sem["retry"]
    BY <1>0, <1>7, PostTyped, MakesReadyTyped DEF RHPreempts
  <2> QED
    BY <1>0, <1>7, <2>1 DEF RHPreempts
<1>8. CASE RHReplans
  BY <1>0, <1>8, PostTyped DEF RHReplans
<1>9. CASE RHPostsTwice
  <2>1. /\ sem'["plan"] = sem["plan"] + 1 /\ sem'["short"] = sem["short"] + 2
        /\ sem'["response"] = sem["response"] /\ sem'["retry"] = sem["retry"]
    BY <1>0, <1>9, PostTyped DEF RHPostsTwice
  <2> QED
    BY <1>0, <1>9, <2>1 DEF RHPostsTwice
<1> QED
  BY <1>1, <1>2, <1>3, <1>4, <1>5, <1>6, <1>7, <1>8, <1>9 DEF Response

LEMMA IoStep ==
  ASSUME TypeOK, IoHandler
  PROVE  /\ UNCHANGED <<no_memory_for_new_process, lt, st, rh, dump, invalid>>
         /\ io' \in {"wait", "lock", "handle"}
         /\ \A n \in {"plan", "response", "retry"} : sem'[n] = sem[n]
         /\ IoPermits' = IoPermits
<1> USE DEF TypeOK, IO, IoPermits, Count
<1>0. \A n \in {"new", "retry", "plan", "response", "ready", "io", "long", "short"} : n \in SemNames
  BY DEF SemNames
<1>1. CASE IOTakes
  BY <1>0, <1>1, WaitTyped DEF IOTakes
<1>2. CASE IOEnters
  BY <1>0, <1>2, WaitTyped DEF IOEnters
<1>3. CASE IOLeaves
  <2>1. /\ sem'["short"] = sem["short"] + 1
        /\ \A n \in {"plan", "response", "retry"} : sem'[n] = sem[n]
    BY <1>0, <1>3, PostTyped, MakesReadyTyped DEF IOLeaves
  <2> QED
    BY <1>0, <1>3, <2>1 DEF IOLeaves
<1> QED
  BY <1>1, <1>2, <1>3 DEF IoHandler

LEMMA DumpStep ==
  ASSUME TypeOK, NEW d \in Dumps, DumpThread(d)
  PROVE  /\ UNCHANGED <<lt, st, rh, io, invalid>>
         /\ no_memory_for_new_process' \in BOOLEAN
         /\ LtRetry' = LtRetry
         /\ sem'["plan"] = sem["plan"] /\ sem'["response"] = sem["response"]
         /\ \E v \in {"OK", "ERROR", "okHeld", "errorHeld", "finish", "none"} :
               /\ dump' = [dump EXCEPT ![d] = v]
               /\ sem'["short"] = sem["short"]
                     + Count(dump[d] \in {"okHeld", "errorHeld", "finish"})
                     - Count(v \in {"okHeld", "errorHeld", "finish"})
<1> USE DEF TypeOK, Dump, Count
<1>0. \A n \in {"new", "retry", "plan", "response", "ready", "io", "long", "short"} : n \in SemNames
  BY DEF SemNames
<1>1. CASE DumpHears(d)
  BY <1>0, <1>1 DEF DumpHears, LtRetry
<1>2. CASE DumpEnters(d)
  BY <1>0, <1>2, WaitTyped DEF DumpEnters, LtRetry
<1>3. CASE DumpLeaves(d)
  <2>1. /\ sem'["short"] = sem["short"] + 1
        /\ \A n \in {"plan", "response", "retry"} : sem'[n] = sem[n]
    BY <1>0, <1>3, PostTyped, MakesReadyTyped DEF DumpLeaves
  <2> QED
    BY <1>0, <1>3, <2>1 DEF DumpLeaves, LtRetry
<1>4. CASE DumpEnds(d)
  BY <1>0, <1>4 DEF DumpEnds, LtRetry
<1>5. CASE DumpFrees(d)
  <2>1. /\ Post(sem, {"short"}) \in [SemNames -> Nat]
        /\ Post(sem, {"short"})["short"] = sem["short"] + 1
        /\ \A n \in {"plan", "response", "retry"} : Post(sem, {"short"})[n] = sem[n]
    BY <1>0, PostTyped
  <2>2. Wakes(Post(sem, {"short"})) /\ UNCHANGED <<lt, st, rh, io, invalid>>
        /\ dump[d] = "finish" /\ dump' = [dump EXCEPT ![d] = "none"]
    BY <1>5 DEF DumpFrees
  <2>3. LtRetry' = LtRetry /\ no_memory_for_new_process' = FALSE
    BY <2>1, <2>2, WakesKeepRetry
  <2>4. /\ sem'["short"] = sem["short"] + 1
        /\ sem'["plan"] = sem["plan"] /\ sem'["response"] = sem["response"]
    BY <1>0, <2>1, <2>2, WakesTyped
  <2>5. /\ dump' = [dump EXCEPT ![d] = "none"]
        /\ sem'["short"] = sem["short"]
              + Count(dump[d] \in {"okHeld", "errorHeld", "finish"})
              - Count("none" \in {"okHeld", "errorHeld", "finish"})
    BY <1>0, <2>2, <2>4
  <2> QED
    BY <2>2, <2>3, <2>4, <2>5
<1> QED
  BY <1>1, <1>2, <1>3, <1>4, <1>5 DEF DumpThread

-----------------------------------------------------------------------------
LEMMA TypedStep == ASSUME TypeOK, [Next]_vars PROVE TypeOK'
<1>1. CASE LongTerm
  <2>1. sem' \in [SemNames -> Nat]
    BY <1>1, SemTyped DEF Next
  <2> QED
    BY <1>1, <2>1, LongTermStep DEF TypeOK
<1>2. CASE ShortTerm
  <2>1. sem' \in [SemNames -> Nat]
    BY <1>2, SemTyped DEF Next
  <2> QED
    BY <1>2, <2>1, ShortTermStep DEF TypeOK
<1>3. CASE Response \/ \E d \in Dumps : RHDumps(d)
  <2>1. sem' \in [SemNames -> Nat]
    BY <1>3, SemTyped DEF Next
  <2>2. dump' \in [Dumps -> {"none", "asked", "OK", "ERROR", "okHeld", "errorHeld", "finish"}]
    BY <1>3 DEF TypeOK, Response, RHFrame, RHReceives, RHEnters, RHKeeps, RHStops, RHEnds,
                RHFrees, RHPreempts, RHReplans, RHPostsTwice, RHDumps
  <2> QED
    BY <1>3, <2>1, <2>2, ResponseStep DEF TypeOK
<1>4. CASE IoHandler
  <2>1. sem' \in [SemNames -> Nat]
    BY <1>4, SemTyped DEF Next
  <2> QED
    BY <1>4, <2>1, IoStep DEF TypeOK
<1>5. ASSUME NEW d \in Dumps, DumpThread(d) PROVE TypeOK'
  <2>1. sem' \in [SemNames -> Nat]
    BY <1>5, SemTyped DEF Next
  <2> QED
    BY <1>5, <2>1, DumpStep DEF TypeOK
<1>6. CASE UNCHANGED vars
  BY <1>6 DEF vars, TypeOK
<1> QED
  BY <1>1, <1>2, <1>3, <1>4, <1>5, <1>6 DEF Next

\* The semaphores and the threads keep their types.
THEOREM LocksTyped == Spec => []TypeOK
<1>1. Init => TypeOK
  <2> SUFFICES ASSUME Init PROVE TypeOK
    OBVIOUS
  <2>1. sem \in [SemNames -> Nat]
    BY DEF Init, SemInit
  <2> QED
    BY <2>1 DEF Init, TypeOK
<1> QED
  BY <1>1, TypedStep, PTL DEF Spec

\* One token goes round between the short-term planner and the handler, so the
\* planner never chooses a thread while the CPU has one, nor stops choosing.
THEOREM OneToken == Spec => []SchedulingToken
<1>1. Init => SchedulingToken
  BY DEF Init, SemInit, SemNames, SchedulingToken, Count
<1>2. TypeOK /\ SchedulingToken /\ [Next]_vars => SchedulingToken'
  <2> SUFFICES ASSUME TypeOK, SchedulingToken, [Next]_vars PROVE SchedulingToken'
    OBVIOUS
  <2> USE DEF TypeOK, SchedulingToken, StToken, RhToken, Count
  <2>0. {"plan", "response"} \subseteq SemNames /\ TypeOK'
    BY TypedStep DEF SemNames
  <2>1. CASE LongTerm
    BY <2>0, <2>1, LongTermStep
  <2>2. CASE ShortTerm
    BY <2>0, <2>2, ShortTermStep
  <2>3. CASE Response \/ \E d \in Dumps : RHDumps(d)
    BY <2>0, <2>3, ResponseStep
  <2>4. CASE IoHandler
    BY <2>0, <2>4, IoStep
  <2>5. ASSUME NEW d \in Dumps, DumpThread(d) PROVE SchedulingToken'
    BY <2>0, <2>5, DumpStep
  <2>6. CASE UNCHANGED vars
    BY <2>6 DEF vars
  <2> QED
    BY <2>1, <2>2, <2>3, <2>4, <2>5, <2>6 DEF Next
<1> QED
  BY <1>1, <1>2, LocksTyped, PTL DEF Spec

\* A planner that waits for memory has its flag up or its wakeup posted, once.
THEOREM OneWakeup == Spec => []RetryAnnounced
<1>1. Init => RetryAnnounced
  BY DEF Init, SemInit, SemNames, RetryAnnounced, Count
<1>2. TypeOK /\ RetryAnnounced /\ [Next]_vars => RetryAnnounced'
  <2> SUFFICES ASSUME TypeOK, RetryAnnounced, [Next]_vars PROVE RetryAnnounced'
    OBVIOUS
  <2>1. TypeOK'
    BY TypedStep
  <2>2. LtRetry = 0 => LtRetry' = 0
    <3>1. CASE LongTerm
      BY <3>1, LongTermStep
    <3>2. CASE ShortTerm
      BY <3>2, ShortTermStep DEF LtRetry
    <3>3. CASE Response \/ \E d \in Dumps : RHDumps(d)
      BY <3>3, ResponseStep
    <3>4. CASE IoHandler
      BY <3>4, IoStep DEF LtRetry
    <3>5. ASSUME NEW d \in Dumps, DumpThread(d) PROVE LtRetry' = LtRetry
      BY <3>5, DumpStep
    <3>6. CASE UNCHANGED vars
      BY <3>6 DEF vars, LtRetry
    <3> QED
      BY <3>1, <3>2, <3>3, <3>4, <3>5, <3>6 DEF Next
  <2>3. sem["retry"] \in Nat /\ sem'["retry"] \in Nat
    BY <2>1 DEF TypeOK, SemNames
  <2> QED
    BY <2>2, <2>3 DEF LtRetry, RetryAnnounced, Count
<1> QED
  BY <1>1, <1>2, LocksTyped, PTL DEF Spec

\* However many dumps are under way, the permits of sem_short_term that are free or
\* held are one and those the default case added.
THEOREM OnePermit == ASSUME IsFiniteSet(Dumps) PROVE Spec => []ShortTermPermits
<1>1. Init => ShortTermPermits
  <2> SUFFICES ASSUME Init PROVE ShortTermPermits
    OBVIOUS
  <2>1. DumpHolders = {}
    BY DEF Init, DumpHolders
  <2>2. Cardinality(DumpHolders) = 0
    BY <2>1, FS_EmptySet
  <2> QED
    BY <2>2 DEF Init, SemInit, SemNames, ShortTermPermits, Holders, Count
<1>2. TypeOK /\ ShortTermPermits /\ [Next]_vars => ShortTermPermits'
  <2> SUFFICES ASSUME TypeOK, ShortTermPermits, [Next]_vars PROVE ShortTermPermits'
    OBVIOUS
  <2>0. TypeOK' /\ sem["short"] \in Nat /\ sem'["short"] \in Nat
    BY TypedStep DEF TypeOK, SemNames
  <2>1. IsFiniteSet(DumpHolders) /\ Cardinality(DumpHolders) \in Nat
    BY FS_Subset, FS_CardinalityType DEF DumpHolders
  <2>2. ASSUME UNCHANGED dump PROVE Cardinality(DumpHolders') = Cardinality(DumpHolders)
    BY <2>2 DEF DumpHolders
  <2> USE DEF TypeOK, ShortTermPermits, Holders, StPermits, RhPermits, IoPermits, Count
  <2>3. CASE LongTerm
    BY <2>0, <2>1, <2>2, <2>3, LongTermStep
  <2>4. CASE ShortTerm
    BY <2>0, <2>1, <2>2, <2>4, ShortTermStep
  <2>5. CASE Response \/ \E d \in Dumps : RHDumps(d)
    <3>1. DumpHolders' = DumpHolders
      BY <2>5 DEF DumpHolders, Response, RHFrame, RHReceives, RHEnters, RHKeeps, RHStops,
                  RHEnds, RHFrees, RHPreempts, RHReplans, RHPostsTwice, RHDumps
    <3> QED
      BY <2>0, <2>1, <2>5, <3>1, ResponseStep
  <2>6. CASE IoHandler
    BY <2>0, <2>1, <2>2, <2>6, IoStep
  <2>7. ASSUME NEW d \in Dumps, DumpThread(d) PROVE ShortTermPermits'
    <3> DEFINE Held == {"okHeld", "errorHeld", "finish"}
    <3>1. PICK v \in {"OK", "ERROR", "okHeld", "errorHeld", "finish", "none"} :
             /\ dump' = [dump EXCEPT ![d] = v]
             /\ sem'["short"] = sem["short"] + Count(dump[d] \in Held) - Count(v \in Held)
      BY <2>7, DumpStep
    <3>2. UNCHANGED <<st, rh, io, invalid>>
      BY <2>7, DumpStep
    <3>3. DumpHolders' = IF v \in Held THEN DumpHolders \cup {d} ELSE DumpHolders \ {d}
      BY <3>1 DEF DumpHolders
    <3>4. (d \in DumpHolders) = (dump[d] \in Held)
      BY DEF DumpHolders
    <3>5. Cardinality(DumpHolders') =
             Cardinality(DumpHolders) - Count(dump[d] \in Held) + Count(v \in Held)
      <4>1. CASE v \in Held
        <5>1. Cardinality(DumpHolders') =
                 IF d \in DumpHolders THEN Cardinality(DumpHolders)
                 ELSE Cardinality(DumpHolders) + 1
          BY <2>1, <3>3, <4>1, FS_AddElement
        <5> QED
          BY <2>1, <3>4, <4>1, <5>1
      <4>2. CASE v \notin Held
        <5>1. Cardinality(DumpHolders') =
                 IF d \in DumpHolders THEN Cardinality(DumpHolders) - 1
                 ELSE Cardinality(DumpHolders)
          BY <2>1, <3>3, <4>2, FS_RemoveElement
        <5> QED
          BY <2>1, <3>4, <4>2, <5>1
      <4> QED
        BY <4>1, <4>2
    <3> HIDE DEF Held
    <3> QED
      BY <2>0, <2>1, <3>1, <3>2, <3>5
  <2>8. CASE UNCHANGED vars
    BY <2>2, <2>8 DEF vars
  <2> QED
    BY <2>3, <2>4, <2>5, <2>6, <2>7, <2>8 DEF Next
<1> QED
  BY <1>1, <1>2, LocksTyped, PTL DEF Spec
=============================================================================
