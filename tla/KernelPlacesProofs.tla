------------------------- MODULE KernelPlacesProofs -------------------------
(***************************************************************************)
(* Where the kernel's threads are, for every value of the constants: each   *)
(* live one in the one place its state names, each finished one in the      *)
(* hands of exactly one thread of the kernel, and memoria in agreement.     *)
(***************************************************************************)
EXTENDS KernelProofs

\* Created and not finished.
Alive(t) == state[t] \in {"READY", "EXEC", "BLOCK"}

\* Threads are given out in order, processes too; a finished process has no live thread.
Births ==
    /\ \A t \in TCB : t[2] < tid_counter[t[1]] <=> state[t] # "NULL_STATE"
    /\ \A p \in Pids : p >= pid_counter => pcb_state[p] = "NONE"
    /\ \A p \in Pids : pcb_state[p] \in {"NONE", "NEW"} => tid_counter[p] = 0
    /\ \A t \in TCB : pcb_state[t[1]] = "EXIT" => ~Alive(t)
    /\ IsInjective(new) /\ \A p \in ToSet(new) : pcb_state[p] = "NEW"

\* What memoria holds.  The threads of a process that has just finished stay until
\* its release.
Memory ==
    /\ \A t \in TCB : Alive(t) => t \in hilos
    /\ \A t \in hilos : t[1] \in resident /\ (Alive(t) \/ pcb_state[t[1]] = "EXIT")
    /\ \A p \in Pids : p \in resident <=> \/ pcb_state[p] = "EXEC"
                                          \/ pcb_state[p] = "EXIT" /\ rel[p] = -1
    /\ Cardinality(resident) <= Partitions
    /\ \A p \in Pids : rel[p] # -1 => pcb_state[p] = "EXIT" /\ rel[p] <= tid_counter[p]

\* Nobody else finishes a process that the handler or a dump thread is finishing.
Finishing ==
    /\ rh = "finish" => cpu # NoTcb /\ pcb_state[cpu[1]] = "EXIT" /\ rel[cpu[1]] = -1
    /\ \A t \in TCB : dump[t] = "finish" =>
          /\ pcb_state[t[1]] = "EXIT" /\ rel[t[1]] = -1
          /\ rh = "finish" => cpu[1] # t[1]
          /\ \A u \in TCB : dump[u] = "finish" /\ u[1] = t[1] => u = t

\* The CPU and the handler: who has the turn.
Turn ==
    /\ exec # NoTcb => state[exec] = "EXEC" /\ exec = cpu
    /\ \A t \in TCB : state[t] = "EXEC" => exec = t
    /\ exec # NoTcb => sem["response"] > 0 \/ rh \in {"lock", "handle"}
    /\ cpu # NoTcb => sem["response"] > 0 \/ rh # "wait"
    /\ ret # NoReturn => cpu # NoTcb
    /\ ret.type = "NOT_IN_MEMORY" => exec = NoTcb

\* The list of who waits for the i-th mutex of p.
Waiters(p, i) == mutex_list[p][i].blocked

\* Who waits for a mutex is in the list of one, once.
Mutexes ==
    /\ \A p \in Pids : \A i \in 1 .. Len(mutex_list[p]) :
          /\ IsInjective(Waiters(p, i))
          /\ mutex_list[p][i].tcb = NoTcb => Waiters(p, i) = <<>>
          /\ \A t \in ToSet(Waiters(p, i)) :
                /\ t[1] = p /\ Blocked(t, "MUTEX_LOCK")
                /\ \A j \in 1 .. Len(mutex_list[p]) : t \in ToSet(Waiters(p, j)) => j = i
    /\ \A t \in TCB : Blocked(t, "MUTEX_LOCK") => InMutex(t)

\* Who joins a thread is in its list, once, and that thread is alive.
Joins ==
    /\ \A t \in TCB : IsInjective(joined_tcbs[t])
    /\ \A t \in TCB : \A u \in ToSet(joined_tcbs[t]) :
          Blocked(u, "THREAD_JOIN") /\ u[1] = t[1] /\ joined_to[u] = t[2]
    /\ \A t \in TCB : Blocked(t, "THREAD_JOIN") =>
          LET target == <<t[1], joined_to[t]>> IN
          joined_to[t] # NoTid /\ Alive(target) /\ t \in ToSet(joined_tcbs[target])

\* The lists, the IO handler and the dump threads have the threads whose state says so,
\* and of those that have finished each is in one hand or let go of.
Hands(t) ==
    IF state[t] # "EXIT"
    THEN /\ t \in ToSet(ready) <=> state[t] = "READY"
         /\ InIo(t) <=> Blocked(t, "IO")
         /\ InDump(t) <=> Blocked(t, "DUMP_MEMORY")
         /\ finished[t] = 0
    ELSE finished[t] + Count(Freed(t)) + Count(t \in ToSet(ready)) + Count(InIo(t))
            + Count(InDump(t)) = 1
Holding ==
    /\ \A t \in TCB : Hands(t)
    /\ IsInjective(ready) /\ IsInjective(io_block_list) /\ io_tcb \notin ToSet(io_block_list)

-----------------------------------------------------------------------------
(* Lists without repetitions, as sets *)

LEMMA ToSetIs ==
  ASSUME NEW S, NEW s \in Seq(S)
  PROVE  /\ ToSet(s) = {s[i] : i \in 1 .. Len(s)} /\ ToSet(s) \subseteq S
         /\ ToSet(<<>>) = {} /\ IsInjective(<<>>)
BY DEF ToSet, IsInjective

LEMMA Appended ==
  ASSUME NEW S, NEW s \in Seq(S), NEW x \in S
  PROVE  /\ ToSet(Append(s, x)) = ToSet(s) \cup {x}
         /\ IsInjective(s) /\ x \notin ToSet(s) => IsInjective(Append(s, x))
<1> DEFINE r == Append(s, x)
<1>1. /\ r \in Seq(S) /\ Len(r) = Len(s) + 1 /\ r[Len(s) + 1] = x
      /\ \A i \in 1 .. Len(s) : r[i] = s[i]
  OBVIOUS
<1>2. DOMAIN r = 1 .. Len(s) + 1 /\ DOMAIN s = 1 .. Len(s) /\ Len(s) \in Nat
  BY <1>1
<1> HIDE DEF r
<1>3. 1 .. Len(s) + 1 = (1 .. Len(s)) \cup {Len(s) + 1}
  BY <1>2
<1>4. ToSet(r) = ToSet(s) \cup {x}
  BY <1>1, <1>2, <1>3 DEF ToSet
<1>5. ASSUME IsInjective(s), x \notin ToSet(s) PROVE IsInjective(r)
  <2>1. \A i \in 1 .. Len(s) : r[i] = s[i] /\ s[i] # x
    BY <1>1, <1>2, <1>5 DEF ToSet
  <2> QED
    BY <1>1, <1>2, <1>3, <1>5, <2>1 DEF IsInjective
<1> QED
  BY <1>4, <1>5 DEF r

LEMMA Concatenated ==
  ASSUME NEW S, NEW a \in Seq(S), NEW b \in Seq(S)
  PROVE  /\ a \o b \in Seq(S) /\ Len(a \o b) = Len(a) + Len(b)
         /\ Len(a) \in Nat /\ Len(b) \in Nat
         /\ \A k \in 1 .. Len(a) + Len(b) :
               (a \o b)[k] = IF k <= Len(a) THEN a[k] ELSE b[k - Len(a)]
OBVIOUS

LEMMA Removed ==
  ASSUME NEW S, NEW s \in Seq(S), NEW i \in 1 .. Len(s), IsInjective(s)
  PROVE  ToSet(RemoveAt(s, i)) = ToSet(s) \ {s[i]} /\ IsInjective(RemoveAt(s, i))
<1> DEFINE a == SubSeq(s, 1, i - 1)
           b == SubSeq(s, i + 1, Len(s))
           r == a \o b
<1>1. a \in Seq(S) /\ Len(a) = i - 1 /\ \A k \in 1 .. i - 1 : a[k] = s[k]
  OBVIOUS
<1>2. b \in Seq(S) /\ Len(b) = Len(s) - i /\ \A k \in 1 .. Len(s) - i : b[k] = s[i + k]
  OBVIOUS
<1> HIDE DEF a, b
<1>3. /\ r \in Seq(S) /\ Len(r) = Len(a) + Len(b)
      /\ \A k \in 1 .. Len(r) : r[k] = IF k <= Len(a) THEN a[k] ELSE b[k - Len(a)]
  <2>1. a \in Seq(S) /\ b \in Seq(S)
    BY <1>1, <1>2
  <2>2. /\ r \in Seq(S) /\ Len(r) = Len(a) + Len(b)
        /\ \A k \in 1 .. Len(a) + Len(b) : r[k] = IF k <= Len(a) THEN a[k] ELSE b[k - Len(a)]
    BY <2>1, Concatenated
  <2> QED
    BY <2>2
<1> HIDE DEF r
<1>4. /\ DOMAIN r = 1 .. Len(s) - 1 /\ DOMAIN s = 1 .. Len(s) /\ Len(s) \in Nat
      /\ \A k \in 1 .. Len(s) - 1 : r[k] = IF k < i THEN s[k] ELSE s[k + 1]
  <2>1. Len(r) = Len(s) - 1 /\ Len(s) \in Nat
    BY <1>1, <1>2, <1>3
  <2>2. ASSUME NEW k \in 1 .. Len(s) - 1 PROVE r[k] = IF k < i THEN s[k] ELSE s[k + 1]
    <3>1. CASE k < i
      BY <1>1, <1>3, <2>1, <3>1
    <3>2. CASE ~(k < i)
      <4>1. k - (i - 1) \in 1 .. Len(s) - i /\ i + (k - (i - 1)) = k + 1
        BY <2>1, <3>2
      <4>2. b[k - (i - 1)] = s[k + 1]
        <5> DEFINE m == k - (i - 1)
        <5>1. m \in 1 .. Len(s) - i /\ i + m = k + 1
          BY <4>1
        <5> HIDE DEF m
        <5>2. b[m] = s[i + m]
          BY <1>2, <5>1
        <5> QED
          BY <5>1, <5>2 DEF m
      <4>3. ~(k <= Len(a)) /\ k - Len(a) = k - (i - 1)
        BY <1>1, <3>2
      <4>4. r[k] = b[k - (i - 1)]
        BY <1>3, <2>1, <4>3
      <4> QED
        BY <3>2, <4>2, <4>4
    <3> QED
      BY <3>1, <3>2
  <2> QED
    BY <1>3, <2>1, <2>2
<1>5. RemoveAt(s, i) = r
  BY DEF RemoveAt, a, b, r
<1>6. \A j, k \in 1 .. Len(s) : s[j] = s[k] => j = k
  BY <1>4 DEF IsInjective
<1>7. IsInjective(r)
  <2>1. ASSUME NEW j \in 1 .. Len(s) - 1, NEW k \in 1 .. Len(s) - 1, r[j] = r[k] PROVE j = k
    <3> DEFINE J == IF j < i THEN j ELSE j + 1
               K == IF k < i THEN k ELSE k + 1
    <3>1. J \in 1 .. Len(s) /\ K \in 1 .. Len(s) /\ r[j] = s[J] /\ r[k] = s[K]
      BY <1>4
    <3>2. J = K
      BY <1>6, <2>1, <3>1
    <3> QED
      BY <3>2
  <2> QED
    BY <1>4, <2>1 DEF IsInjective
<1>8. ASSUME NEW k \in 1 .. Len(s), k # i PROVE s[k] \in ToSet(r)
  <2> DEFINE j == IF k < i THEN k ELSE k - 1
  <2>1. j \in 1 .. Len(s) - 1 /\ r[j] = s[k]
    BY <1>4, <1>8
  <2> QED
    BY <1>4, <2>1 DEF ToSet
<1>9. ASSUME NEW j \in 1 .. Len(s) - 1 PROVE r[j] \in ToSet(s) \ {s[i]}
  <2> DEFINE k == IF j < i THEN j ELSE j + 1
  <2>1. k \in 1 .. Len(s) /\ k # i /\ r[j] = s[k]
    BY <1>4
  <2> QED
    BY <1>4, <1>6, <2>1 DEF ToSet
<1>10. ToSet(r) = ToSet(s) \ {s[i]}
  <2>1. ToSet(r) \subseteq ToSet(s) \ {s[i]}
    BY <1>4, <1>9 DEF ToSet
  <2>2. ToSet(s) \ {s[i]} \subseteq ToSet(r)
    BY <1>4, <1>8 DEF ToSet
  <2> QED
    BY <2>1, <2>2
<1> QED
  BY <1>5, <1>7, <1>10

LEMMA HeadRemoved ==
  ASSUME NEW S, NEW s \in Seq(S), s # <<>>, IsInjective(s)
  PROVE  /\ ToSet(Tail(s)) = ToSet(s) \ {Head(s)} /\ IsInjective(Tail(s))
         /\ Head(s) \in ToSet(s)
<1> DEFINE r == Tail(s)
<1>1. /\ r \in Seq(S) /\ DOMAIN r = 1 .. Len(s) - 1 /\ Len(s) \in Nat /\ Len(s) > 0
      /\ \A k \in 1 .. Len(s) - 1 : r[k] = s[k + 1]
      /\ Head(s) = s[1] /\ DOMAIN s = 1 .. Len(s)
  OBVIOUS
<1> HIDE DEF r
<1>2. \A j, k \in 1 .. Len(s) : s[j] = s[k] => j = k
  BY <1>1 DEF IsInjective
<1>3. IsInjective(r)
  BY <1>1, <1>2 DEF IsInjective
<1>4. ASSUME NEW k \in 1 .. Len(s) - 1 PROVE r[k] \in ToSet(s) \ {Head(s)}
  <2>1. k + 1 \in 1 .. Len(s) /\ k + 1 # 1 /\ 1 \in 1 .. Len(s) /\ r[k] = s[k + 1]
    BY <1>1
  <2>2. s[k + 1] # s[1]
    BY <1>2, <2>1
  <2> QED
    BY <1>1, <2>1, <2>2 DEF ToSet
<1>5. ASSUME NEW k \in 1 .. Len(s), k # 1 PROVE s[k] \in ToSet(r)
  <2>1. k - 1 \in 1 .. Len(s) - 1 /\ r[k - 1] = s[k]
    BY <1>1, <1>5
  <2> QED
    BY <1>1, <2>1 DEF ToSet
<1>6. ToSet(r) = ToSet(s) \ {Head(s)}
  <2>1. ToSet(r) \subseteq ToSet(s) \ {Head(s)}
    BY <1>1, <1>4 DEF ToSet
  <2>2. ToSet(s) \ {Head(s)} \subseteq ToSet(r)
    BY <1>1, <1>5 DEF ToSet
  <2> QED
    BY <2>1, <2>2
<1>7. Head(s) \in ToSet(s)
  BY <1>1 DEF ToSet
<1> QED
  BY <1>3, <1>6, <1>7 DEF r

LEMMA Joined ==
  ASSUME NEW S, NEW s \in Seq(S), NEW w \in Seq(S)
  PROVE  /\ ToSet(s \o w) = ToSet(s) \cup ToSet(w)
         /\ IsInjective(s) /\ IsInjective(w) /\ ToSet(s) \cap ToSet(w) = {}
               => IsInjective(s \o w)
<1> DEFINE r == s \o w
<1>1. /\ r \in Seq(S) /\ DOMAIN r = 1 .. Len(s) + Len(w) /\ Len(s) \in Nat /\ Len(w) \in Nat
      /\ \A k \in 1 .. Len(s) + Len(w) : r[k] = IF k <= Len(s) THEN s[k] ELSE w[k - Len(s)]
      /\ DOMAIN s = 1 .. Len(s) /\ DOMAIN w = 1 .. Len(w)
  OBVIOUS
<1> HIDE DEF r
<1>2. ASSUME NEW k \in 1 .. Len(s) + Len(w)
      PROVE  IF k <= Len(s) THEN k \in 1 .. Len(s) /\ r[k] = s[k]
             ELSE k - Len(s) \in 1 .. Len(w) /\ r[k] = w[k - Len(s)]
  BY <1>1
<1>3. ToSet(r) \subseteq ToSet(s) \cup ToSet(w)
  BY <1>1, <1>2 DEF ToSet
<1>4. ASSUME NEW k \in 1 .. Len(w) PROVE w[k] \in ToSet(r)
  <2>1. Len(s) + k \in 1 .. Len(s) + Len(w) /\ ~(Len(s) + k <= Len(s)) /\ Len(s) + k - Len(s) = k
    BY <1>1
  <2>2. r[Len(s) + k] = w[k]
    BY <1>1, <2>1
  <2> QED
    BY <1>1, <2>1, <2>2 DEF ToSet
<1>5. ASSUME NEW k \in 1 .. Len(s) PROVE s[k] \in ToSet(r)
  BY <1>1 DEF ToSet
<1>6. ToSet(s) \cup ToSet(w) \subseteq ToSet(r)
  BY <1>1, <1>4, <1>5 DEF ToSet
<1>7. ASSUME IsInjective(s), IsInjective(w), ToSet(s) \cap ToSet(w) = {}
      PROVE  IsInjective(r)
  <2>1. \A j \in 1 .. Len(s), k \in 1 .. Len(w) : s[j] # w[k]
    BY <1>1, <1>7 DEF ToSet
  <2>2. ASSUME NEW j \in 1 .. Len(s) + Len(w), NEW k \in 1 .. Len(s) + Len(w), r[j] = r[k]
        PROVE  j = k
    <3>1. CASE j <= Len(s) /\ k <= Len(s)
      BY <1>1, <1>2, <1>7, <2>2, <3>1 DEF IsInjective
    <3>2. CASE ~(j <= Len(s)) /\ ~(k <= Len(s))
      <4>1. j - Len(s) = k - Len(s)
        BY <1>1, <1>2, <1>7, <2>2, <3>2 DEF IsInjective
      <4> QED
        BY <1>1, <4>1
    <3>3. CASE (j <= Len(s)) # (k <= Len(s))
      BY <1>2, <2>1, <2>2, <3>3
    <3> QED
      BY <3>1, <3>2, <3>3
  <2> QED
    BY <1>1, <2>2 DEF IsInjective
<1> QED
  BY <1>3, <1>6, <1>7 DEF r

LEMMA Taken ==
  ASSUME NEW S, NEW s \in Seq(S), NEW x, IsInjective(s)
  PROVE  ToSet(Without(s, x)) = ToSet(s) \ {x} /\ IsInjective(Without(s, x))
<1>1. CASE x \in ToSet(s)
  <2>1. \E i \in 1 .. Len(s) : s[i] = x
    BY <1>1 DEF ToSet
  <2>2. Position(s, x) \in 1 .. Len(s) /\ s[Position(s, x)] = x
    BY <2>1 DEF Position
  <2>3. Without(s, x) = RemoveAt(s, Position(s, x))
    BY <1>1 DEF Without
  <2> QED
    BY <2>2, <2>3, Removed
<1>2. CASE x \notin ToSet(s)
  BY <1>2 DEF Without
<1> QED
  BY <1>1, <1>2

\* In a list without repetitions a thread has one place or none.
LEMMA PlacesOnce ==
  ASSUME NEW S, NEW s \in Seq(S), NEW x, IsInjective(s)
  PROVE  Places(s, x) = Count(x \in ToSet(s))
<1> DEFINE P == {i \in DOMAIN s : s[i] = x}
<1>1. CASE x \in ToSet(s)
  <2>1. PICK i \in DOMAIN s : s[i] = x
    BY <1>1 DEF ToSet
  <2>2. P = {i}
    BY <2>1 DEF IsInjective
  <2> QED
    BY <1>1, <2>2, FS_Singleton DEF Places, Count
<1>2. CASE x \notin ToSet(s)
  <2>1. P = {}
    BY <1>2 DEF ToSet
  <2> QED
    BY <1>2, <2>1, FS_EmptySet DEF Places, Count
<1> QED
  BY <1>1, <1>2

-----------------------------------------------------------------------------
(* The invariant, and what leaves each part of it alone *)

Placed == Births /\ Memory /\ Finishing /\ Turn /\ Mutexes /\ Joins /\ Holding

\* The types of what the invariant speaks of.
LEMMA PlacedTypes ==
  ASSUME TypeOK
  PROVE  /\ state \in [TCB -> {"READY", "EXEC", "BLOCK", "EXIT", "NULL_STATE"}]
         /\ block_type \in [TCB -> {"INSTRUCTION", "IO", "DUMP_MEMORY", "MUTEX_LOCK",
                                    "THREAD_JOIN"}]
         /\ joined_to \in [TCB -> Tids \cup {NoTid}] /\ joined_tcbs \in [TCB -> Seq(TCB)]
         /\ finished \in [TCB -> Nat]
         /\ pid_counter \in 1 .. MaxPid /\ tid_counter \in [Pids -> 0 .. MaxTid]
         /\ pcb_state \in [Pids -> {"NONE", "NEW", "EXEC", "EXIT"}]
         /\ mutex_list \in [Pids -> Seq(Mutex)]
         /\ new \in Seq(Pids) /\ ready \in Seq(TCB) /\ io_block_list \in Seq(TCB)
         /\ exec \in TCB \cup {NoTcb} /\ cpu \in TCB \cup {NoTcb}
         /\ io_tcb \in TCB \cup {NoTcb}
         /\ rel \in [Pids -> -1 .. MaxTid] /\ resident \subseteq Pids /\ hilos \subseteq TCB
         /\ sem \in [SemNames -> Nat]
         /\ dump \in [TCB -> {"none", "asked", "OK", "ERROR", "okHeld", "errorHeld", "finish"}]
         /\ rh \in {"wait", "lock", "handle", "finish", "ack"}
<1>1. io_tcb \in TCB \cup {NoTcb}
  BY DEF TypeOK, QueueTypeOK
<1> QED
  BY <1>1 DEF TypeOK, PcbTypeOK, TcbTypeOK, QueueTypeOK, MemTypeOK, CpuTypeOK, Locks!TypeOK,
     SemNames, Locks!SemNames

LEMMA TcbIs ==
  /\ \A t \in TCB : /\ t[1] \in Pids /\ t[2] \in Tids /\ t = <<t[1], t[2]>> /\ t # NoTcb
                    /\ t[2] \in Nat /\ t[2] < MaxTid /\ t[1] \in Nat /\ t[1] < MaxPid
  /\ \A p \in Pids, i \in Tids : <<p, i>> \in TCB /\ <<p, i>>[1] = p /\ <<p, i>>[2] = i
  /\ NoTcb \notin TCB /\ NoTid \notin Tids
BY BoundsAssumption DEF TCB, Pids, Tids, NoTcb, NoTid

\* The threads created so far.
LEMMA ThreadsIs ==
  ASSUME TypeOK, NEW p \in Pids
  PROVE  \A t : t \in Threads(p) <=> t \in TCB /\ t[1] = p /\ t[2] < tid_counter[p]
<1>1. tid_counter[p] \in 0 .. MaxTid /\ MaxTid \in Nat
  BY PlacedTypes, BoundsAssumption
<1>2. ASSUME NEW t, t \in Threads(p) PROVE t \in TCB /\ t[1] = p /\ t[2] < tid_counter[p]
  <2>1. PICK i \in 0 .. tid_counter[p] - 1 : t = <<p, i>>
    BY <1>2 DEF Threads
  <2>2. i \in Tids /\ i < tid_counter[p]
    BY <1>1 DEF Tids
  <2> QED
    BY <2>1, <2>2, TcbIs
<1>3. ASSUME NEW t \in TCB, t[1] = p, t[2] < tid_counter[p] PROVE t \in Threads(p)
  <2>1. t = <<p, t[2]>> /\ t[2] \in 0 .. tid_counter[p] - 1
    BY <1>1, <1>3, TcbIs
  <2> QED
    BY <2>1 DEF Threads
<1> QED
  BY <1>2, <1>3

\* While the planner picks a thread the handler waits, and the other way round.
LEMMA Token ==
  ASSUME TypeOK, SchedulingToken
  PROVE  /\ sem["response"] \in Nat
         /\ st \in {"ready", "lock", "select"} => sem["response"] = 0 /\ rh = "wait"
         /\ rh # "wait" => sem["response"] = 0 /\ st \notin {"ready", "lock", "select"}
<1>1. sem["response"] \in Nat /\ sem["plan"] \in Nat
  BY PlacedTypes DEF SemNames
<1> QED
  BY <1>1 DEF SchedulingToken, Locks!SchedulingToken, Locks!Count

LEMMA Elements ==
  ASSUME TypeOK
  PROVE  /\ \A t \in TCB : ToSet(joined_tcbs[t]) \subseteq TCB
         /\ ToSet(ready) \subseteq TCB /\ ToSet(io_block_list) \subseteq TCB
         /\ ToSet(new) \subseteq Pids
         /\ \A p \in Pids : \A i \in 1 .. Len(mutex_list[p]) :
               /\ mutex_list[p][i] \in Mutex /\ Waiters(p, i) \in Seq(TCB)
               /\ ToSet(Waiters(p, i)) \subseteq TCB
<1>1. /\ \A t \in TCB : ToSet(joined_tcbs[t]) \subseteq TCB
      /\ ToSet(ready) \subseteq TCB /\ ToSet(io_block_list) \subseteq TCB
      /\ ToSet(new) \subseteq Pids
  BY PlacedTypes, ToSetIs
<1>2. ASSUME NEW p \in Pids, NEW i \in 1 .. Len(mutex_list[p])
      PROVE  /\ mutex_list[p][i] \in Mutex /\ Waiters(p, i) \in Seq(TCB)
             /\ ToSet(Waiters(p, i)) \subseteq TCB
  <2>1. mutex_list[p] \in Seq(Mutex)
    BY PlacedTypes
  <2>2. mutex_list[p][i] \in Mutex
    BY <2>1
  <2>3. Waiters(p, i) \in Seq(TCB)
    BY <2>2 DEF Waiters, Mutex
  <2> QED
    BY <2>2, <2>3, ToSetIs
<1> QED
  BY <1>1, <1>2

LEMMA InIoIs ==
  ASSUME TypeOK, NEW t PROVE InIo(t) <=> io_tcb = t \/ t \in ToSet(io_block_list)
BY DEF InIo, ToSet

LEMMA SameBirths ==
  ASSUME Births, UNCHANGED <<pid_counter, pcb_state, tid_counter, new>>,
         \A t \in TCB : /\ state'[t] = "NULL_STATE" <=> state[t] = "NULL_STATE"
                        /\ Alive(t)' => Alive(t)
  PROVE  Births'
BY DEF Births

LEMMA SameMemory ==
  ASSUME TypeOK, Memory, UNCHANGED <<pcb_state, tid_counter, hilos, resident, rel>>,
         \A t \in TCB : Alive(t)' <=> Alive(t)
  PROVE  Memory'
<1>1. hilos \subseteq TCB
  BY PlacedTypes
<1> QED
  BY <1>1 DEF Memory

LEMMA SameFinishing ==
  ASSUME TypeOK, Finishing, UNCHANGED rel,
         \A p \in Pids : pcb_state[p] = "EXIT" => pcb_state'[p] = "EXIT",
         rh' = "finish" => rh = "finish" /\ cpu' = cpu,
         \A t \in TCB : dump'[t] = "finish" => dump[t] = "finish"
  PROVE  Finishing'
<1>1. cpu # NoTcb => cpu[1] \in Pids
  BY PlacedTypes, TcbIs
<1>2. \A t \in TCB : t[1] \in Pids
  BY TcbIs
<1> QED
  BY <1>1, <1>2 DEF Finishing

LEMMA SameTurn ==
  ASSUME Turn, UNCHANGED <<exec, cpu>>,
         exec # NoTcb => state'[exec] = "EXEC",
         \A t \in TCB : state'[t] = "EXEC" => state[t] = "EXEC",
         ret' = ret \/ ret' = NoReturn,
         sem["response"] > 0 \/ rh # "wait" => sem'["response"] > 0 \/ rh' # "wait",
         sem["response"] > 0 \/ rh \in {"lock", "handle"}
            => exec = NoTcb \/ sem'["response"] > 0 \/ rh' \in {"lock", "handle"}
  PROVE  Turn'
BY DEF Turn, NoReturn

LEMMA SameMutexes ==
  ASSUME TypeOK, Mutexes, UNCHANGED mutex_list,
         \A t \in TCB : Blocked(t, "MUTEX_LOCK")' <=> Blocked(t, "MUTEX_LOCK")
  PROVE  Mutexes'
<1>1. \A p \in Pids : \A i \in 1 .. Len(mutex_list[p]) : ToSet(Waiters(p, i)) \subseteq TCB
  BY Elements
<1>2. \A t \in TCB : InMutex(t)' <=> InMutex(t)
  BY DEF InMutex
<1>3. \A p, i : Waiters(p, i)' = Waiters(p, i)
  BY DEF Waiters
<1> QED
  BY <1>1, <1>2, <1>3 DEF Mutexes

LEMMA SameJoins ==
  ASSUME TypeOK, Joins, UNCHANGED <<joined_to, joined_tcbs>>,
         \A t \in TCB : /\ Blocked(t, "THREAD_JOIN")' <=> Blocked(t, "THREAD_JOIN")
                        /\ Alive(t) => Alive(t)'
  PROVE  Joins'
<1>1. \A t \in TCB : ToSet(joined_tcbs[t]) \subseteq TCB
  BY Elements
<1>2. \A t \in TCB : joined_to[t] # NoTid => <<t[1], joined_to[t]>> \in TCB
  BY PlacedTypes, TcbIs
<1> QED
  BY <1>1, <1>2 DEF Joins

LEMMA SameHands ==
  ASSUME NEW t \in TCB, Hands(t), state'[t] = state[t], finished'[t] = finished[t],
         Freed(t)' <=> Freed(t),
         t \in ToSet(ready') <=> t \in ToSet(ready), InIo(t)' <=> InIo(t),
         InDump(t)' <=> InDump(t), Blocked(t, "IO")' <=> Blocked(t, "IO"),
         Blocked(t, "DUMP_MEMORY")' <=> Blocked(t, "DUMP_MEMORY")
  PROVE  Hands(t)'
BY Zenon DEF Hands, Count

LEMMA SameHolding ==
  ASSUME Holding, UNCHANGED <<state, block_type, finished, rel, ready, io_block_list, io_tcb>>,
         \A t \in TCB : InDump(t)' <=> InDump(t)
  PROVE  Holding'
<1>1. ASSUME NEW t \in TCB PROVE Hands(t)'
  <2>1. Hands(t)
    BY DEF Holding
  <2>2. /\ Freed(t)' <=> Freed(t)
        /\ t \in ToSet(ready') <=> t \in ToSet(ready)
        /\ InIo(t)' <=> InIo(t)
        /\ Blocked(t, "IO")' <=> Blocked(t, "IO")
        /\ Blocked(t, "DUMP_MEMORY")' <=> Blocked(t, "DUMP_MEMORY")
    BY DEF Freed, InIo, Blocked
  <2> QED
    BY <2>1, <2>2, SameHands
<1> QED
  BY <1>1 DEF Holding

-----------------------------------------------------------------------------
(* Steps that move no thread *)

LEMMA Quiet ==
  ASSUME TypeOK, Placed, UNCHANGED pcbVars, UNCHANGED tcbVars, UNCHANGED queueVars,
         UNCHANGED memVars, UNCHANGED <<rel, io_tcb>>,
         rh' = "finish" => rh = "finish" /\ cpu' = cpu,
         \A t \in TCB : /\ dump'[t] = "finish" => dump[t] = "finish"
                        /\ InDump(t)' <=> InDump(t),
         Turn'
  PROVE  Placed'
<1>1. /\ UNCHANGED <<pid_counter, pcb_state, tid_counter, mutex_list>>
      /\ UNCHANGED <<state, block_type, joined_to, joined_tcbs, finished>>
      /\ UNCHANGED <<new, ready, io_block_list, exec>> /\ UNCHANGED <<resident, hilos>>
  BY DEF pcbVars, tcbVars, queueVars, memVars
<1>2. \A t \in TCB : (Alive(t)' <=> Alive(t)) /\ \A why : Blocked(t, why)' <=> Blocked(t, why)
  BY <1>1 DEF Alive, Blocked
<1>3. Births' /\ Memory'
  BY <1>1, <1>2, SameBirths, SameMemory DEF Placed
<1>4. Finishing'
  BY <1>1, SameFinishing DEF Placed
<1>5. Mutexes' /\ Joins'
  BY <1>1, <1>2, SameMutexes, SameJoins DEF Placed
<1>6. Holding'
  BY <1>1, SameHolding DEF Placed
<1> QED
  BY <1>3, <1>4, <1>5, <1>6 DEF Placed

LEMMA WaitFacts ==
  ASSUME TypeOK, NEW n \in SemNames, Wait(n)
  PROVE  /\ sem["response"] \in Nat
         /\ sem'["response"] = IF n = "response" THEN sem["response"] - 1 ELSE sem["response"]
         /\ n = "response" => sem["response"] > 0
BY PlacedTypes DEF Wait, SemNames

LEMMA PostResponse ==
  ASSUME TypeOK, NEW S, NEW s, \/ s = sem
                               \/ \E T : s = Post(sem, T) /\ "response" \notin T
  PROVE  /\ sem["response"] \in Nat
         /\ Post(s, S)["response"] = IF "response" \in S THEN sem["response"] + 1
                                     ELSE sem["response"]
BY PlacedTypes DEF Post, SemNames

LEMMA LongTermQuiet ==
  ASSUME TypeOK, Placed, LTWait \/ LTLock \/ LTNoMemory \/ LTRetry
  PROVE  Placed'
<1>1. /\ UNCHANGED pcbVars /\ UNCHANGED tcbVars /\ UNCHANGED queueVars /\ UNCHANGED memVars
      /\ UNCHANGED <<rel, io_tcb>> /\ UNCHANGED <<rh, dump>> /\ UNCHANGED cpuVars
  BY DEF LTWait, LTLock, LTNoMemory, LTRetry
<1>2. sem'["response"] = sem["response"]
  BY PlacedTypes DEF LTWait, LTLock, LTNoMemory, LTRetry, Wait, Post, SemNames
<1>3. UNCHANGED <<exec, cpu, state, ret>>
  BY <1>1 DEF queueVars, cpuVars, tcbVars
<1>4. Turn'
  BY <1>1, <1>2, <1>3 DEF Turn, Placed
<1>5. \A t \in TCB : InDump(t)' <=> InDump(t)
  BY <1>1 DEF InDump
<1> QED
  BY <1>1, <1>3, <1>4, <1>5, Quiet

LEMMA ShortTermQuiet ==
  ASSUME TypeOK, Placed, STPlan \/ STReady \/ STLock \/ STQuantum \/ STInterrupt
  PROVE  Placed'
<1>1. /\ UNCHANGED pcbVars /\ UNCHANGED tcbVars /\ UNCHANGED queueVars /\ UNCHANGED memVars
      /\ UNCHANGED <<rel, io_tcb>> /\ UNCHANGED <<rh, dump>> /\ UNCHANGED <<cpu, ret>>
  BY DEF STPlan, STReady, STLock, STQuantum, STInterrupt, cpuVars
<1>2. sem'["response"] = sem["response"]
  BY PlacedTypes DEF STPlan, STReady, STLock, STQuantum, STInterrupt, Wait, Post, SemNames
<1>3. UNCHANGED <<exec, state>>
  BY <1>1 DEF queueVars, tcbVars
<1>4. Turn'
  BY <1>1, <1>2, <1>3 DEF Turn, Placed
<1>5. \A t \in TCB : InDump(t)' <=> InDump(t)
  BY <1>1 DEF InDump
<1> QED
  BY <1>1, <1>4, <1>5, Quiet

\* What the CPU returns: NOT_IN_MEMORY only of a thread that was ended meanwhile.
LEMMA CpuQuiet == ASSUME TypeOK, Placed, Cpu PROVE Placed'
<1>1. /\ UNCHANGED pcbVars /\ UNCHANGED tcbVars /\ UNCHANGED queueVars /\ UNCHANGED memVars
      /\ UNCHANGED <<rel, io_tcb>> /\ UNCHANGED <<rh, dump>> /\ UNCHANGED <<cpu, sem>>
  BY DEF Cpu, CpuSyscall, CpuSegfault, CpuNotInMemory, CpuInterruption, CpuReturns, pcVars
<1>2. /\ cpu # NoTcb
      /\ ret'.type = "NOT_IN_MEMORY" => cpu \notin hilos
  BY DEF Cpu, CpuSyscall, CpuSegfault, CpuNotInMemory, CpuInterruption, CpuReturns, Running,
     Return
<1>3. UNCHANGED <<exec, state>>
  BY <1>1 DEF queueVars, tcbVars
<1>4. exec # NoTcb => exec = cpu /\ cpu \in hilos
  <2>1. exec # NoTcb => exec \in TCB /\ Alive(exec) /\ exec = cpu
    BY PlacedTypes DEF Placed, Turn, Alive
  <2> QED
    BY <2>1 DEF Placed, Memory
<1>5. Turn'
  BY <1>1, <1>2, <1>3, <1>4 DEF Turn, Placed
<1>6. \A t \in TCB : InDump(t)' <=> InDump(t)
  BY <1>1 DEF InDump
<1> QED
  BY <1>1, <1>5, <1>6, Quiet

LEMMA CrashQuiet == ASSUME TypeOK, Placed, NEW why, Crashes(why) PROVE Placed'
<1>1. /\ UNCHANGED pcbVars /\ UNCHANGED tcbVars /\ UNCHANGED queueVars /\ UNCHANGED memVars
      /\ UNCHANGED <<rel, io_tcb>> /\ UNCHANGED <<rh, dump>> /\ UNCHANGED cpuVars
      /\ sem' = sem
  BY DEF Crashes, pcVars
<1>2. UNCHANGED <<exec, cpu, state, ret>>
  BY <1>1 DEF queueVars, cpuVars, tcbVars
<1>3. Turn'
  BY <1>1, <1>2 DEF Turn, Placed
<1>4. \A t \in TCB : InDump(t)' <=> InDump(t)
  BY <1>1 DEF InDump
<1> QED
  BY <1>1, <1>2, <1>3, <1>4, Quiet

\* The handler takes what the CPU returned, or answers it without touching a thread.
LEMMA HandlerQuiet ==
  ASSUME TypeOK, SchedulingToken, Placed,
         \/ RHReceive \/ RHLock \/ RHDropSyscall \/ RHNoSuchThread \/ RHMutexIgnored
         \/ RHNothingToEnd
  PROVE  Placed'
<1>1. /\ UNCHANGED pcbVars /\ UNCHANGED tcbVars /\ UNCHANGED queueVars /\ UNCHANGED memVars
      /\ UNCHANGED <<rel, io_tcb>> /\ UNCHANGED <<dump, cpu>> /\ ret' \in {ret, NoReturn}
      /\ rh' # "finish"
  BY DEF RHReceive, RHLock, RHDropSyscall, RHNoSuchThread, RHMutexIgnored, RHNothingToEnd,
     KeepsCpu, LosesCpu, rhFrame, queueVars, memVars, cpuVars
<1>2. UNCHANGED <<exec, state>>
  BY <1>1 DEF queueVars, tcbVars
<1>3. Turn'
  <2>1. CASE RHReceive
    <3>1. rh' = "lock" /\ ret' = ret
      BY <2>1 DEF RHReceive, cpuVars
    <3> QED
      BY <1>1, <1>2, <3>1 DEF Turn, Placed
  <2>2. CASE RHLock
    <3>1. rh' = "handle" /\ ret' = ret
      BY <2>2 DEF RHLock, cpuVars
    <3> QED
      BY <1>1, <1>2, <3>1 DEF Turn, Placed
  <2>3. CASE RHDropSyscall \/ RHNothingToEnd
    <3>1. rh' = "ack" /\ ret' = ret /\ exec = NoTcb
      BY <2>3 DEF RHDropSyscall, RHNothingToEnd, LosesCpu, Placed, Turn
    <3> QED
      BY <1>1, <1>2, <3>1 DEF Turn, Placed
  <2>4. CASE RHNoSuchThread \/ RHMutexIgnored
    <3>1. sem' = Post(sem, {"short", "response"}) /\ ret' = NoReturn
      BY <2>4 DEF RHNoSuchThread, RHMutexIgnored, KeepsCpu
    <3>2. sem'["response"] > 0
      BY <3>1, PostResponse
    <3> QED
      BY <1>1, <1>2, <3>1, <3>2 DEF Turn, Placed, NoReturn
  <2> QED
    BY <2>1, <2>2, <2>3, <2>4
<1>4. \A t \in TCB : InDump(t)' <=> InDump(t)
  BY <1>1 DEF InDump
<1> QED
  BY <1>1, <1>3, <1>4, Quiet

\* The CPU stops: no thread is in EXEC by then.
LEMMA AckQuiet == ASSUME TypeOK, SchedulingToken, Placed, RHAck \/ RHFallThrough PROVE Placed'
<1>1. /\ UNCHANGED pcbVars /\ UNCHANGED tcbVars /\ UNCHANGED queueVars /\ UNCHANGED memVars
      /\ UNCHANGED <<rel, io_tcb>> /\ UNCHANGED dump
      /\ rh = "ack" /\ rh' = "wait" /\ cpu' = NoTcb /\ ret' = NoReturn
  BY DEF RHAck, RHFallThrough, CpuStops
<1>2. UNCHANGED <<exec, state>>
  BY <1>1 DEF queueVars, tcbVars
<1>3. exec = NoTcb
  BY <1>1, Token DEF Placed, Turn
<1>4. Turn'
  BY <1>1, <1>2, <1>3 DEF Turn, Placed, NoReturn
<1>5. \A t \in TCB : InDump(t)' <=> InDump(t)
  BY <1>1 DEF InDump
<1> QED
  BY <1>1, <1>4, <1>5, Quiet

LEMMA IoQuiet == ASSUME TypeOK, Placed, IOLock PROVE Placed'
<1>1. /\ UNCHANGED pcbVars /\ UNCHANGED tcbVars /\ UNCHANGED queueVars /\ UNCHANGED memVars
      /\ UNCHANGED <<rel, io_tcb>> /\ UNCHANGED <<rh, dump>> /\ UNCHANGED cpuVars
  BY DEF IOLock
<1>2. sem'["response"] = sem["response"]
  BY WaitFacts DEF IOLock, SemNames
<1>3. UNCHANGED <<exec, cpu, state, ret>>
  BY <1>1 DEF queueVars, cpuVars, tcbVars
<1>4. Turn'
  BY <1>1, <1>2, <1>3 DEF Turn, Placed
<1>5. \A t \in TCB : InDump(t)' <=> InDump(t)
  BY <1>1 DEF InDump
<1> QED
  BY <1>1, <1>3, <1>4, <1>5, Quiet

LEMMA DumpQuiet ==
  ASSUME TypeOK, Placed, NEW d \in TCB, DumpAnswered(d) \/ DumpLock(d) PROVE Placed'
<1>1. /\ UNCHANGED pcbVars /\ UNCHANGED tcbVars /\ UNCHANGED queueVars /\ UNCHANGED memVars
      /\ UNCHANGED <<rel, io_tcb>> /\ UNCHANGED rh /\ UNCHANGED cpuVars
  BY DEF DumpAnswered, DumpLock
<1>2. sem'["response"] = sem["response"]
  BY WaitFacts DEF DumpAnswered, DumpLock, SemNames
<1>3. UNCHANGED <<exec, cpu, state, ret>>
  BY <1>1 DEF queueVars, cpuVars, tcbVars
<1>4. Turn'
  BY <1>1, <1>2, <1>3 DEF Turn, Placed
<1>5. /\ dump[d] \in {"asked", "OK", "ERROR"}
      /\ \E v \in {"OK", "ERROR", "okHeld", "errorHeld"} : dump' = [dump EXCEPT ![d] = v]
  BY PlacedTypes DEF DumpAnswered, DumpLock
<1>6. \A t \in TCB : /\ dump'[t] = "finish" => dump[t] = "finish"
                     /\ InDump(t)' <=> InDump(t)
  BY <1>5, PlacedTypes DEF InDump
<1> QED
  BY <1>1, <1>3, <1>4, <1>6, Quiet

-----------------------------------------------------------------------------
(* Steps that move one thread *)

\* A live thread goes from one place to another, neither of them a mutex or a join.
LEMMA Moves ==
  ASSUME TypeOK, Placed, NEW u \in TCB, Alive(u), Alive(u)',
         ~Blocked(u, "MUTEX_LOCK"), ~Blocked(u, "MUTEX_LOCK")',
         ~Blocked(u, "THREAD_JOIN"), ~Blocked(u, "THREAD_JOIN")',
         \A t \in TCB \ {u} : state'[t] = state[t] /\ block_type'[t] = block_type[t],
         UNCHANGED pcbVars,
         UNCHANGED <<joined_to, joined_tcbs, new, hilos, resident, rel>>
  PROVE  Births' /\ Memory' /\ Mutexes' /\ Joins'
<1>1. UNCHANGED <<pid_counter, pcb_state, tid_counter, mutex_list>>
  BY DEF pcbVars
<1>2. \A t \in TCB \ {u} : (Alive(t)' <=> Alive(t)) /\ \A why : Blocked(t, why)' <=> Blocked(t, why)
  BY DEF Alive, Blocked
<1>3. \A t \in TCB : Alive(t)' <=> Alive(t)
  BY <1>2
<1>4. \A t \in TCB : state'[t] = "NULL_STATE" <=> state[t] = "NULL_STATE"
  BY DEF Alive
<1>5. Births' /\ Memory'
  BY <1>1, <1>3, <1>4, SameBirths, SameMemory DEF Placed
<1>6. Mutexes'
  BY <1>1, <1>2, SameMutexes DEF Placed
<1>7. Joins'
  BY <1>2, <1>3, SameJoins DEF Placed
<1> QED
  BY <1>5, <1>6, <1>7

\* Who leaves a thread where it is.
LEMMA OtherHands ==
  ASSUME NEW u, NEW t \in TCB, t # u, Hands(t),
         state'[t] = state[t], block_type'[t] = block_type[t], finished'[t] = finished[t],
         UNCHANGED rel,
         t \in ToSet(ready') <=> t \in ToSet(ready),
         InIo(t)' <=> InIo(t), InDump(t)' <=> InDump(t)
  PROVE  Hands(t)'
<1>1. Freed(t)' <=> Freed(t)
  BY DEF Freed
<1>2. \A why : Blocked(t, why)' <=> Blocked(t, why)
  BY DEF Blocked
<1> QED
  BY <1>1, <1>2, SameHands

LEMMA DispatchPlaced == ASSUME TypeOK, SchedulingToken, Placed, STDispatch PROVE Placed'
<1>1. PICK i \in 1 .. Len(ready) :
         /\ ready' = RemoveAt(ready, i)
         /\ state' = [state EXCEPT ![ready[i]] = "EXEC"]
         /\ exec' = ready[i] /\ cpu' = ready[i]
  BY DEF STDispatch
<1> DEFINE u == ready[i]
<1>2. /\ UNCHANGED pcbVars /\ UNCHANGED <<block_type, joined_to, joined_tcbs, finished>>
      /\ UNCHANGED <<new, io_block_list, io_tcb, rh, dump, rel, ret>>
      /\ UNCHANGED <<resident, hilos>>
      /\ st = "select" /\ sem' = Post(sem, {"response", "short"}) /\ state[u] # "EXIT"
  BY DEF STDispatch, memVars, Finished
<1>3. ready \in Seq(TCB) /\ u \in TCB /\ u \in ToSet(ready) /\ u # NoTcb
  <2>1. ready \in Seq(TCB)
    BY PlacedTypes
  <2>2. u \in TCB /\ u \in ToSet(ready)
    BY <2>1 DEF ToSet
  <2> QED
    BY <2>1, <2>2, TcbIs
<1>4. /\ ToSet(ready') = ToSet(ready) \ {u} /\ IsInjective(ready')
  BY <1>1, <1>3, Removed DEF Placed, Holding
<1> HIDE DEF u
<1>5. Hands(u)
  BY <1>3 DEF Placed, Holding
<1>6. state[u] = "READY"
  BY <1>2, <1>3, <1>5 DEF Hands
<1>7. /\ state'[u] = "EXEC" /\ \A t \in TCB \ {u} : state'[t] = state[t]
  BY <1>1, <1>3, PlacedTypes DEF u
<1>8. Births' /\ Memory' /\ Mutexes' /\ Joins'
  BY <1>2, <1>3, <1>6, <1>7, Moves DEF Alive, Blocked
<1>9. Finishing'
  <2>1. rh = "wait" /\ rh' = "wait"
    BY <1>2, Token
  <2> QED
    BY <1>2, <2>1, SameFinishing DEF Placed, pcbVars
<1>10. Turn'
  <2>1. exec = NoTcb /\ cpu = NoTcb /\ ret = NoReturn
    BY <1>2, Token DEF Placed, Turn
  <2>2. sem'["response"] > 0
    BY <1>2, PostResponse
  <2>3. exec' = u /\ cpu' = u
    BY <1>1 DEF u
  <2>4. \A t \in TCB : state'[t] = "EXEC" => t = u
    BY <1>7, <2>1, TcbIs DEF Placed, Turn
  <2>5. ret' = NoReturn /\ NoReturn.type = "NONE"
    BY <1>2, <2>1 DEF NoReturn
  <2> QED
    BY <1>7, <2>2, <2>3, <2>4, <2>5 DEF Turn
<1>11. Holding'
  <2>1. ASSUME NEW t \in TCB PROVE Hands(t)'
    <3>1. Hands(t)
      BY DEF Placed, Holding
    <3>2. (InIo(t)' <=> InIo(t)) /\ (InDump(t)' <=> InDump(t))
      BY <1>2 DEF InIo, InDump
    <3>3. CASE t = u
      BY <1>2, <1>4, <1>5, <1>6, <1>7, <3>2, <3>3 DEF Hands, Blocked
    <3>4. CASE t # u
      BY <1>2, <1>4, <1>7, <3>1, <3>2, <3>4, OtherHands
    <3> QED
      BY <3>3, <3>4
  <2> QED
    BY <1>2, <1>4, <2>1 DEF Placed, Holding
<1> QED
  BY <1>8, <1>9, <1>10, <1>11 DEF Placed

\* A finished thread leaves ready and is let go of.
LEMMA CollectPlaced == ASSUME TypeOK, Placed, STCollect PROVE Placed'
<1>1. PICK i \in 1 .. Len(ready) :
         /\ ready' = RemoveAt(ready, i)
         /\ finished' = [finished EXCEPT ![ready[i]] = @ + 1]
         /\ state[ready[i]] = "EXIT"
  BY DEF STCollect, Finished
<1> DEFINE u == ready[i]
<1>2. /\ UNCHANGED pcbVars /\ UNCHANGED <<state, block_type, joined_to, joined_tcbs>>
      /\ UNCHANGED <<new, io_block_list, io_tcb, exec, rh, dump, rel>>
      /\ UNCHANGED <<resident, hilos>> /\ UNCHANGED <<cpu, ret>>
      /\ sem' = Post(sem, {"short"})
  BY DEF STCollect, memVars, cpuVars
<1>3. ready \in Seq(TCB) /\ u \in TCB /\ u \in ToSet(ready)
  BY PlacedTypes DEF ToSet
<1>4. ToSet(ready') = ToSet(ready) \ {u} /\ IsInjective(ready')
  BY <1>1, <1>3, Removed DEF Placed, Holding
<1>5. state[u] = "EXIT" /\ finished' = [finished EXCEPT ![u] = @ + 1]
  BY <1>1
<1> HIDE DEF u
<1>6. \A t \in TCB : (Alive(t)' <=> Alive(t)) /\ \A why : Blocked(t, why)' <=> Blocked(t, why)
  BY <1>2 DEF Alive, Blocked
<1>7. Births' /\ Memory' /\ Mutexes' /\ Joins' /\ Finishing'
  BY <1>2, <1>6, SameBirths, SameMemory, SameMutexes, SameJoins, SameFinishing
     DEF Placed, pcbVars
<1>8. Turn'
  <2>1. sem'["response"] = sem["response"]
    BY <1>2, PostResponse
  <2> QED
    BY <1>2, <2>1 DEF Placed, Turn
<1>9. Holding'
  <2>1. ASSUME NEW t \in TCB PROVE Hands(t)'
    <3>1. Hands(t) /\ finished[t] \in Nat
      BY PlacedTypes DEF Placed, Holding
    <3>2. (InIo(t)' <=> InIo(t)) /\ (InDump(t)' <=> InDump(t)) /\ (Freed(t)' <=> Freed(t))
      BY <1>2 DEF InIo, InDump, Freed
    <3>3. CASE t = u
      <4>1. /\ finished'[t] = finished[t] + 1 /\ t \in ToSet(ready) /\ t \notin ToSet(ready')
            /\ state[t] = "EXIT" /\ state'[t] = "EXIT"
        BY <1>2, <1>3, <1>4, <1>5, <3>3, PlacedTypes
      <4> QED
        BY <3>1, <3>2, <4>1 DEF Hands, Count
    <3>4. CASE t # u
      <4>1. finished'[t] = finished[t]
        BY <1>5, <3>4, PlacedTypes
      <4> QED
        BY <1>2, <1>4, <3>1, <3>2, <3>4, <4>1, OtherHands
    <3> QED
      BY <3>3, <3>4
  <2> QED
    BY <1>2, <1>4, <2>1 DEF Placed, Holding
<1> QED
  BY <1>7, <1>8, <1>9 DEF Placed

LEMMA IoTakePlaced == ASSUME Inv, Placed, IOTake PROVE Placed'
<1>1. /\ UNCHANGED pcbVars /\ UNCHANGED tcbVars
      /\ UNCHANGED <<new, ready, exec, rh, dump, rel>>
      /\ UNCHANGED <<resident, hilos>> /\ UNCHANGED <<cpu, ret>>
      /\ io = "wait" /\ io_tcb' = Head(io_block_list) /\ io_block_list' = Tail(io_block_list)
      /\ sem["io"] > 0 /\ sem' = [sem EXCEPT !["io"] = @ - 1]
  BY DEF IOTake, memVars, cpuVars, Wait
<1>t. TypeOK
  BY DEF Inv
<1>2. io_block_list \in Seq(TCB) /\ io_block_list # <<>> /\ io_tcb = NoTcb
  <2>1. Len(io_block_list) > 0
    BY <1>1 DEF Inv, QueueCounts, IoCount
  <2>2. io_block_list \in Seq(TCB)
    BY <1>t, PlacedTypes
  <2>3. io_tcb = NoTcb
    BY <1>1, <1>t DEF TypeOK, QueueTypeOK
  <2> QED
    BY <2>1, <2>2, <2>3
<1>3. /\ ToSet(io_block_list') = ToSet(io_block_list) \ {io_tcb'}
      /\ IsInjective(io_block_list') /\ io_tcb' \in ToSet(io_block_list)
      /\ ToSet(io_block_list) \subseteq TCB
  BY <1>1, <1>2, <1>t, HeadRemoved, Elements DEF Placed, Holding
<1>4. UNCHANGED <<state, block_type, joined_to, joined_tcbs, finished>>
  BY <1>1 DEF tcbVars
<1>5. \A t \in TCB : (Alive(t)' <=> Alive(t)) /\ \A why : Blocked(t, why)' <=> Blocked(t, why)
  BY <1>4 DEF Alive, Blocked
<1>6. Births' /\ Memory' /\ Mutexes' /\ Joins' /\ Finishing'
  BY <1>1, <1>4, <1>5, <1>t, SameBirths, SameMemory, SameMutexes, SameJoins, SameFinishing
     DEF Placed, pcbVars
<1>7. Turn'
  <2>1. sem'["response"] = sem["response"]
    BY <1>1, <1>t, PlacedTypes DEF SemNames
  <2> QED
    BY <1>1, <1>4, <2>1 DEF Placed, Turn
<1>8. Holding'
  <2>1. ASSUME NEW t \in TCB PROVE Hands(t)'
    <3>1. InIo(t)' <=> io_tcb' = t \/ t \in ToSet(io_block_list')
      BY DEF InIo, ToSet
    <3>2. InIo(t) <=> io_tcb = t \/ t \in ToSet(io_block_list)
      BY DEF InIo, ToSet
    <3>3. InIo(t)' <=> InIo(t)
      BY <1>2, <1>3, <3>1, <3>2, TcbIs
    <3>4. (InDump(t)' <=> InDump(t)) /\ (Freed(t)' <=> Freed(t))
      BY <1>1 DEF InDump, Freed
    <3> QED
      BY <1>1, <1>4, <1>5, <3>3, <3>4, SameHands DEF Placed, Holding
  <2> QED
    BY <1>1, <1>3, <2>1 DEF Placed, Holding
<1> QED
  BY <1>6, <1>7, <1>8 DEF Placed

\* The thread in EXEC.
LEMMA Executing ==
  ASSUME TypeOK, Placed, exec # NoTcb
  PROVE  /\ exec \in TCB /\ exec[1] \in Pids /\ state[exec] = "EXEC" /\ Alive(exec)
         /\ exec = cpu /\ pcb_state[exec[1]] = "EXEC" /\ exec \in hilos
         /\ exec[1] \in resident /\ rel[exec[1]] = -1
         /\ exec \notin ToSet(ready) /\ ~InIo(exec) /\ ~InDump(exec) /\ finished[exec] = 0
         /\ \A why : ~Blocked(exec, why)
         /\ \A t \in TCB \ {exec} : state[t] # "EXEC"
<1>1. exec \in TCB /\ exec[1] \in Pids /\ state[exec] = "EXEC" /\ exec = cpu
  BY PlacedTypes, TcbIs DEF Placed, Turn
<1>2. Alive(exec) /\ \A why : ~Blocked(exec, why)
  BY <1>1 DEF Alive, Blocked
<1>3. /\ exec \notin ToSet(ready) /\ ~InIo(exec) /\ ~InDump(exec) /\ finished[exec] = 0
  BY <1>1, <1>2 DEF Placed, Holding, Hands
<1>4. pcb_state[exec[1]] = "EXEC"
  <2>1. exec[2] < tid_counter[exec[1]] /\ exec[2] \in Nat
    BY <1>1, TcbIs DEF Placed, Births
  <2>2. pcb_state[exec[1]] \notin {"NONE", "NEW"}
    BY <1>1, <2>1 DEF Placed, Births
  <2>3. pcb_state[exec[1]] # "EXIT"
    BY <1>1, <1>2 DEF Placed, Births
  <2> QED
    BY <1>1, <2>2, <2>3, PlacedTypes
<1>5. exec \in hilos /\ exec[1] \in resident /\ rel[exec[1]] = -1
  BY <1>1, <1>2, <1>4 DEF Placed, Memory
<1>6. \A t \in TCB \ {exec} : state[t] # "EXEC"
  BY DEF Placed, Turn
<1> QED
  BY <1>1, <1>2, <1>3, <1>4, <1>5, <1>6

\* The CPU is told to stop.
LEMMA Stopped ==
  ASSUME Turn, rh' \in {"ack", "finish"}, exec' = NoTcb, UNCHANGED <<cpu, ret>>,
         \A t \in TCB : state'[t] # "EXEC"
  PROVE  Turn'
BY DEF Turn

LEMMA DumpAskedPlaced == ASSUME TypeOK, Placed, RHDumpMemory PROVE Placed'
<1>1. /\ exec # NoTcb /\ dump[exec] = "none"
      /\ block_type' = [block_type EXCEPT ![exec] = "DUMP_MEMORY"]
      /\ state' = [state EXCEPT ![exec] = "BLOCK"]
      /\ dump' = [dump EXCEPT ![exec] = "asked"]
      /\ exec' = NoTcb /\ rh' = "ack"
      /\ UNCHANGED pcbVars /\ UNCHANGED <<joined_to, joined_tcbs, finished>>
      /\ UNCHANGED <<new, ready, io_block_list, hilos, resident, rel, io_tcb, cpu, ret>>
  BY DEF RHDumpMemory, Handling, LosesCpu, rhFrame
<1>2. /\ state'[exec] = "BLOCK" /\ block_type'[exec] = "DUMP_MEMORY" /\ exec \in TCB
      /\ \A t \in TCB \ {exec} : state'[t] = state[t] /\ block_type'[t] = block_type[t]
  BY <1>1, PlacedTypes, Executing
<1>3. Births' /\ Memory' /\ Mutexes' /\ Joins'
  BY <1>1, <1>2, Executing, Moves DEF Alive, Blocked
<1>4. Finishing'
  <2>1. \A t \in TCB : dump'[t] = "finish" => dump[t] = "finish"
    BY <1>1, PlacedTypes
  <2> QED
    BY <1>1, <2>1, SameFinishing DEF Placed, pcbVars
<1>5. Turn'
  BY <1>1, <1>2, Executing, Stopped DEF Placed
<1>6. Holding'
  <2>1. ASSUME NEW t \in TCB PROVE Hands(t)'
    <3>1. Hands(t) /\ (InIo(t)' <=> InIo(t))
      BY <1>1 DEF Placed, Holding, InIo
    <3>2. CASE t = exec
      <4>1. InDump(t)'
        BY <1>1, <1>2, <3>2, PlacedTypes DEF InDump
      <4> QED
        BY <1>1, <1>2, <3>1, <3>2, <4>1, Executing DEF Hands, Blocked
    <3>3. CASE t # exec
      <4>1. InDump(t)' <=> InDump(t)
        BY <1>1, <3>3, PlacedTypes DEF InDump
      <4> QED
        BY <1>1, <1>2, <3>1, <3>3, <4>1, OtherHands
    <3> QED
      BY <3>2, <3>3
  <2> QED
    BY <1>1, <2>1 DEF Placed, Holding
<1> QED
  BY <1>3, <1>4, <1>5, <1>6 DEF Placed

LEMMA IoAskedPlaced == ASSUME TypeOK, Placed, RHIO PROVE Placed'
<1>1. /\ exec # NoTcb
      /\ block_type' = [block_type EXCEPT ![exec] = "IO"]
      /\ state' = [state EXCEPT ![exec] = "BLOCK"]
      /\ io_block_list' = Append(io_block_list, exec)
      /\ exec' = NoTcb /\ rh' = "ack"
      /\ UNCHANGED pcbVars /\ UNCHANGED <<joined_to, joined_tcbs, finished>>
      /\ UNCHANGED <<new, ready, dump, hilos, resident, rel, io_tcb, cpu, ret>>
  BY DEF RHIO, Handling, LosesCpu, rhFrame
<1>2. /\ state'[exec] = "BLOCK" /\ block_type'[exec] = "IO" /\ exec \in TCB
      /\ \A t \in TCB \ {exec} : state'[t] = state[t] /\ block_type'[t] = block_type[t]
  BY <1>1, PlacedTypes, Executing
<1>3. Births' /\ Memory' /\ Mutexes' /\ Joins'
  BY <1>1, <1>2, Executing, Moves DEF Alive, Blocked
<1>4. Finishing'
  BY <1>1, SameFinishing DEF Placed, pcbVars
<1>5. Turn'
  BY <1>1, <1>2, Executing, Stopped DEF Placed
<1>6. /\ ToSet(io_block_list') = ToSet(io_block_list) \cup {exec}
      /\ exec \notin ToSet(io_block_list) /\ io_tcb # exec
      /\ IsInjective(io_block_list')
  <2>1. exec \notin ToSet(io_block_list) /\ io_tcb # exec
    BY <1>1, Executing, InIoIs
  <2>2. io_block_list \in Seq(TCB) /\ IsInjective(io_block_list)
    BY PlacedTypes DEF Placed, Holding
  <2> QED
    BY <1>1, <1>2, <2>1, <2>2, Appended
<1>7. Holding'
  <2>1. ASSUME NEW t \in TCB PROVE Hands(t)'
    <3>1. Hands(t) /\ (InDump(t)' <=> InDump(t))
      BY <1>1 DEF Placed, Holding, InDump
    <3>2. InIo(t)' <=> io_tcb' = t \/ t \in ToSet(io_block_list')
      BY DEF InIo, ToSet
    <3>3. CASE t = exec
      BY <1>1, <1>2, <1>6, <3>1, <3>2, <3>3, Executing DEF Hands, Blocked
    <3>4. CASE t # exec
      <4>1. InIo(t)' <=> InIo(t)
        BY <1>1, <1>6, <3>2, <3>4, InIoIs
      <4> QED
        BY <1>1, <1>2, <3>1, <3>4, <4>1, OtherHands
    <3> QED
      BY <3>3, <3>4
  <2> QED
    BY <1>1, <1>6, <2>1 DEF Placed, Holding
<1> QED
  BY <1>3, <1>4, <1>5, <1>7 DEF Placed

\* The end of the quantum: back to ready, if the process has not failed meanwhile.
LEMMA InterruptionPlaced ==
  ASSUME TypeOK, SchedulingToken, Placed, RHInterruption PROVE Placed'
<1>1. /\ rh = "handle" /\ rh' = "wait" /\ exec' = NoTcb /\ cpu' = NoTcb /\ ret' = NoReturn
      /\ UNCHANGED pcbVars /\ UNCHANGED <<block_type, joined_to, joined_tcbs, finished>>
      /\ UNCHANGED <<new, io_block_list, dump, hilos, resident, rel, io_tcb>>
  BY DEF RHInterruption, memVars
<1>2. CASE exec = NoTcb
  <2>1. UNCHANGED <<state, ready>>
    BY <1>2 DEF RHInterruption
  <2>2. \A t \in TCB : (Alive(t)' <=> Alive(t)) /\ \A why : Blocked(t, why)' <=> Blocked(t, why)
    BY <1>1, <2>1 DEF Alive, Blocked
  <2>3. Births' /\ Memory' /\ Mutexes' /\ Joins' /\ Finishing'
    BY <1>1, <2>1, <2>2, SameBirths, SameMemory, SameMutexes, SameJoins, SameFinishing
       DEF Placed, pcbVars
  <2>4. Turn'
    BY <1>1, <1>2, <2>1 DEF Placed, Turn, NoReturn
  <2>5. Holding'
    <3>1. \A t \in TCB : InDump(t)' <=> InDump(t)
      BY <1>1 DEF InDump
    <3> QED
      BY <1>1, <2>1, <3>1, SameHolding DEF Placed
  <2> QED
    BY <2>3, <2>4, <2>5 DEF Placed
<1>3. CASE exec # NoTcb
  <2>1. state' = [state EXCEPT ![exec] = "READY"] /\ ready' = Append(ready, exec)
    BY <1>3 DEF RHInterruption
  <2>2. /\ state'[exec] = "READY" /\ exec \in TCB
        /\ \A t \in TCB \ {exec} : state'[t] = state[t] /\ block_type'[t] = block_type[t]
    BY <1>1, <1>3, <2>1, PlacedTypes, Executing
  <2>3. Births' /\ Memory' /\ Mutexes' /\ Joins'
    BY <1>1, <1>3, <2>2, Executing, Moves DEF Alive, Blocked
  <2>4. Finishing'
    BY <1>1, SameFinishing DEF Placed, pcbVars
  <2>5. Turn'
    <3>1. \A t \in TCB : state'[t] # "EXEC"
      BY <1>3, <2>2, Executing
    <3>2. NoReturn.type # "NOT_IN_MEMORY"
      BY DEF NoReturn
    <3> QED
      BY <1>1, <3>1, <3>2 DEF Turn
  <2>6. /\ ToSet(ready') = ToSet(ready) \cup {exec} /\ IsInjective(ready')
    <3>1. ready \in Seq(TCB) /\ IsInjective(ready) /\ exec \notin ToSet(ready)
      BY <1>3, PlacedTypes, Executing DEF Placed, Holding
    <3> QED
      BY <2>1, <2>2, <3>1, Appended
  <2>7. Holding'
    <3>1. ASSUME NEW t \in TCB PROVE Hands(t)'
      <4>1. Hands(t) /\ (InDump(t)' <=> InDump(t)) /\ (InIo(t)' <=> InIo(t))
        BY <1>1 DEF Placed, Holding, InDump, InIo
      <4>2. CASE t = exec
        BY <1>1, <1>3, <2>2, <2>6, <4>1, <4>2, Executing DEF Hands, Blocked
      <4>3. CASE t # exec
        BY <1>1, <2>2, <2>6, <4>1, <4>3, OtherHands
      <4> QED
        BY <4>2, <4>3
    <3> QED
      BY <1>1, <2>6, <3>1 DEF Placed, Holding
  <2> QED
    BY <2>3, <2>4, <2>5, <2>7 DEF Placed
<1> QED
  BY <1>2, <1>3

-----------------------------------------------------------------------------
(* Back from an IO or a dump *)

\* u is in the hands of the IO handler or of its dump thread, which lets go of it.
LEMMA BackPlaced ==
  ASSUME TypeOK, Placed, NEW u \in TCB, BackFromBlock(u),
         UNCHANGED pcbVars,
         UNCHANGED <<joined_to, joined_tcbs, new, exec, cpu, ret, rh, hilos, resident, rel>>,
         \A t \in TCB \ {u} : (InIo(t)' <=> InIo(t)) /\ (InDump(t)' <=> InDump(t)),
         \/ InIo(u) /\ ~InIo(u)' /\ (InDump(u)' <=> InDump(u))
         \/ InDump(u) /\ ~InDump(u)' /\ (InIo(u)' <=> InIo(u))
  PROVE  /\ Births' /\ Memory' /\ Turn' /\ Mutexes' /\ Joins'
         /\ (\A t \in TCB : Hands(t))' /\ IsInjective(ready')
<1>1. Hands(u) /\ finished[u] \in Nat
  BY PlacedTypes DEF Placed, Holding
<1>2. CASE state[u] = "EXIT"
  <2>1. /\ finished' = [finished EXCEPT ![u] = @ + 1] /\ sem' = Post(sem, {"short"})
        /\ UNCHANGED <<state, block_type, ready>>
    BY <1>2 DEF BackFromBlock
  <2>2. \A t \in TCB : (Alive(t)' <=> Alive(t)) /\ \A why : Blocked(t, why)' <=> Blocked(t, why)
    BY <2>1 DEF Alive, Blocked
  <2>3. Births' /\ Memory' /\ Mutexes' /\ Joins'
    BY <2>1, <2>2, SameBirths, SameMemory, SameMutexes, SameJoins DEF Placed, pcbVars
  <2>4. Turn'
    <3>1. sem'["response"] = sem["response"]
      BY <2>1, PostResponse
    <3> QED
      BY <2>1, <3>1 DEF Placed, Turn
  <2>5. ASSUME NEW t \in TCB PROVE Hands(t)'
    <3>1. Hands(t)
      BY DEF Placed, Holding
    <3>2. CASE t = u
      <4>1. finished'[t] = finished[t] + 1 /\ state'[t] = "EXIT" /\ (Freed(t)' <=> Freed(t))
        BY <1>2, <2>1, <3>2, PlacedTypes DEF Freed
      <4>2. (t \in ToSet(ready))' <=> t \in ToSet(ready)
        BY <2>1
      <4> QED
        BY <1>1, <1>2, <3>2, <4>1, <4>2 DEF Hands, Count
    <3>3. CASE t # u
      <4>1. finished'[t] = finished[t]
        BY <2>1, <3>3, PlacedTypes
      <4> QED
        BY <2>1, <3>1, <3>3, <4>1, OtherHands
    <3> QED
      BY <3>2, <3>3
  <2>6. IsInjective(ready')
    BY <2>1 DEF Placed, Holding
  <2> QED
    BY <2>3, <2>4, <2>5, <2>6
<1>3. CASE state[u] # "EXIT"
  <2>1. /\ block_type' = [block_type EXCEPT ![u] = "INSTRUCTION"]
        /\ state' = [state EXCEPT ![u] = "READY"] /\ finished' = finished
        /\ ready' = Append(ready, u) /\ sem' = Post(sem, {"short", "ready"})
    BY <1>3 DEF BackFromBlock
  <2>2. /\ state'[u] = "READY"
        /\ \A t \in TCB \ {u} : state'[t] = state[t] /\ block_type'[t] = block_type[t]
    BY <2>1, PlacedTypes
  <2>3. /\ state[u] = "BLOCK" /\ block_type[u] \in {"IO", "DUMP_MEMORY"}
        /\ u \notin ToSet(ready) /\ ~InIo(u)' /\ ~InDump(u)' /\ finished[u] = 0
    BY <1>1, <1>3 DEF Hands, Blocked
  <2>4. Births' /\ Memory' /\ Mutexes' /\ Joins'
    BY <2>2, <2>3, Moves DEF Alive, Blocked
  <2>5. Turn'
    <3>1. sem'["response"] = sem["response"]
      BY <2>1, PostResponse
    <3>2. exec # u /\ \A t \in TCB : state'[t] = "EXEC" => state[t] = "EXEC"
      BY <2>2, <2>3, TcbIs DEF Placed, Turn
    <3>3. exec # NoTcb => exec \in TCB \ {u}
      BY <3>2, PlacedTypes
    <3> QED
      BY <2>2, <3>1, <3>2, <3>3 DEF Placed, Turn
  <2>6. ToSet(ready') = ToSet(ready) \cup {u} /\ IsInjective(ready')
    <3>1. ready \in Seq(TCB) /\ IsInjective(ready)
      BY PlacedTypes DEF Placed, Holding
    <3> QED
      BY <2>1, <2>3, <3>1, Appended
  <2>7. ASSUME NEW t \in TCB PROVE Hands(t)'
    <3>1. Hands(t)
      BY DEF Placed, Holding
    <3>2. CASE t = u
      BY <2>1, <2>2, <2>3, <2>6, <3>2 DEF Hands, Blocked
    <3>3. CASE t # u
      BY <2>1, <2>2, <2>6, <3>1, <3>3, OtherHands
    <3> QED
      BY <3>2, <3>3
  <2> QED
    BY <2>4, <2>5, <2>6, <2>7
<1> QED
  BY <1>2, <1>3

LEMMA IoHandlePlaced == ASSUME TypeOK, Placed, IOHandle PROVE Placed'
<1>1. /\ io = "handle" /\ BackFromBlock(io_tcb) /\ io_tcb' = NoTcb
      /\ UNCHANGED pcbVars
      /\ UNCHANGED <<joined_to, joined_tcbs, new, exec, cpu, ret, rh, hilos, resident, rel>>
      /\ UNCHANGED <<io_block_list, dump>>
  BY DEF IOHandle, memVars, cpuVars
<1>2. PICK u \in TCB : u = io_tcb
  BY <1>1 DEF TypeOK, QueueTypeOK
<1>3. \A t \in TCB : /\ InDump(t)' <=> InDump(t)
                     /\ InIo(t)' <=> t \in ToSet(io_block_list)
                     /\ InIo(t) <=> u = t \/ t \in ToSet(io_block_list)
  <2>1. ASSUME NEW t \in TCB PROVE InIo(t)' <=> io_tcb' = t \/ t \in ToSet(io_block_list')
    BY DEF InIo, ToSet
  <2> QED
    BY <1>1, <2>1, InIoIs, <1>2, TcbIs DEF InDump
<1>4. u \notin ToSet(io_block_list)
  BY <1>2 DEF Placed, Holding
<1>5. /\ Births' /\ Memory' /\ Turn' /\ Mutexes' /\ Joins'
      /\ (\A t \in TCB : Hands(t))' /\ IsInjective(ready')
  <2>1. BackFromBlock(u)
    BY <1>1, <1>2
  <2>2. InIo(u) /\ ~InIo(u)' /\ (InDump(u)' <=> InDump(u))
    BY <1>2, <1>3, <1>4
  <2>3. \A t \in TCB \ {u} : (InIo(t)' <=> InIo(t)) /\ (InDump(t)' <=> InDump(t))
    BY <1>3
  <2> QED
    BY <1>1, <1>2, <2>1, <2>2, <2>3, BackPlaced
<1>6. Finishing'
  BY <1>1, SameFinishing DEF Placed, pcbVars
<1>7. Holding'
  <2>1. NoTcb \notin ToSet(io_block_list)
    BY Elements, TcbIs
  <2> QED
    BY <1>1, <1>5, <2>1 DEF Placed, Holding
<1> QED
  BY <1>5, <1>6, <1>7 DEF Placed

LEMMA DumpDonePlaced == ASSUME TypeOK, Placed, NEW u \in TCB, DumpDone(u) PROVE Placed'
<1>1. /\ dump[u] \in {"okHeld", "errorHeld"} /\ BackFromBlock(u)
      /\ dump' = [dump EXCEPT ![u] = "none"]
      /\ UNCHANGED pcbVars
      /\ UNCHANGED <<joined_to, joined_tcbs, new, exec, cpu, ret, rh, hilos, resident, rel>>
      /\ UNCHANGED <<io_block_list, io_tcb>>
  BY DEF DumpDone, memVars, cpuVars
<1>2. dump'[u] = "none" /\ \A t \in TCB \ {u} : dump'[t] = dump[t]
  BY <1>1, PlacedTypes
<1>3. /\ InDump(u) /\ ~InDump(u)' /\ (InIo(u)' <=> InIo(u))
      /\ \A t \in TCB \ {u} : (InIo(t)' <=> InIo(t)) /\ (InDump(t)' <=> InDump(t))
  BY <1>1, <1>2 DEF InDump, InIo
<1>4. /\ Births' /\ Memory' /\ Turn' /\ Mutexes' /\ Joins'
      /\ (\A t \in TCB : Hands(t))' /\ IsInjective(ready')
  BY <1>1, <1>3, BackPlaced
<1>5. Finishing'
  BY <1>1, <1>2, SameFinishing DEF Placed, pcbVars
<1>6. Holding'
  BY <1>1, <1>4 DEF Placed, Holding
<1> QED
  BY <1>4, <1>5, <1>6 DEF Placed

-----------------------------------------------------------------------------
(* The end of a process, after its threads *)

\* Memoria frees the process and its release thread starts.
LEMMA ReleasePlaced ==
  ASSUME TypeOK, Placed, NEW p \in Pids, pcb_state[p] = "EXIT", rel[p] = -1,
         NEW s, s["response"] = sem["response"], ReleaseProcess(p, s),
         UNCHANGED pcbVars, UNCHANGED tcbVars, UNCHANGED queueVars, UNCHANGED <<cpu, ret>>,
         UNCHANGED io_tcb,
         rh' = rh \/ (rh = "finish" /\ rh' = "ack"),
         \A t \in TCB : InDump(t)' <=> InDump(t)
  PROVE  Births' /\ Memory' /\ Turn' /\ Mutexes' /\ Joins' /\ Holding'
<1>1. /\ resident' = resident \ {p} /\ hilos' = {t \in hilos : t[1] # p}
      /\ rel' = [rel EXCEPT ![p] = 0] /\ sem' \in {Post(s, {"retry"}), s}
  BY DEF ReleaseProcess
<1>2. /\ UNCHANGED <<pid_counter, pcb_state, tid_counter, mutex_list>>
      /\ UNCHANGED <<state, block_type, joined_to, joined_tcbs, finished>>
      /\ UNCHANGED <<new, ready, io_block_list, exec>>
  BY DEF pcbVars, tcbVars, queueVars
<1>3. \A t \in TCB : (Alive(t)' <=> Alive(t)) /\ \A why : Blocked(t, why)' <=> Blocked(t, why)
  BY <1>2 DEF Alive, Blocked
<1>4. Births' /\ Mutexes' /\ Joins'
  BY <1>2, <1>3, SameBirths, SameMutexes, SameJoins DEF Placed
<1>5. rel'[p] = 0 /\ \A q \in Pids \ {p} : rel'[q] = rel[q]
  BY <1>1, PlacedTypes
<1>6. Memory'
  <2>1. \A t \in TCB : Alive(t)' => t \in hilos'
    <3>1. \A t \in TCB : t[1] = p => ~Alive(t)
      BY DEF Placed, Births
    <3> QED
      BY <1>1, <1>3, <3>1 DEF Placed, Memory
  <2>2. \A t \in hilos' : t[1] \in resident' /\ (Alive(t)' \/ pcb_state'[t[1]] = "EXIT")
    BY <1>1, <1>2, <1>3, PlacedTypes DEF Placed, Memory
  <2>3. \A q \in Pids : q \in resident' <=> \/ pcb_state'[q] = "EXEC"
                                            \/ pcb_state'[q] = "EXIT" /\ rel'[q] = -1
    BY <1>1, <1>2, <1>5 DEF Placed, Memory
  <2>4. Cardinality(resident') <= Partitions
    <3>1. IsFiniteSet(resident)
      <4>1. IsFiniteSet(Pids)
        <5>1. MaxPid - 1 \in Int
          BY BoundsAssumption
        <5> QED
          BY <5>1, FS_Interval DEF Pids
      <4> QED
        BY <4>1, FS_Subset, PlacedTypes
    <3>2. Cardinality(resident') <= Cardinality(resident)
      BY <1>1, <3>1, FS_Subset
    <3>3. Cardinality(resident) \in Nat /\ Cardinality(resident') \in Nat /\ Partitions \in Nat
      BY <1>1, <3>1, FS_CardinalityType, FS_Subset, BoundsAssumption
    <3> QED
      BY <3>2, <3>3 DEF Placed, Memory
  <2>5. \A q \in Pids : rel'[q] # -1 => pcb_state'[q] = "EXIT" /\ rel'[q] <= tid_counter'[q]
    <3>1. tid_counter[p] \in 0 .. MaxTid
      BY PlacedTypes
    <3> QED
      BY <1>2, <1>5, <3>1 DEF Placed, Memory
  <2> QED
    BY <2>1, <2>2, <2>3, <2>4, <2>5 DEF Memory
<1>7. Turn'
  <2>1. sem'["response"] = sem["response"]
    BY <1>1 DEF Post, SemNames
  <2>2. exec # NoTcb => exec \in TCB
    BY PlacedTypes
  <2> QED
    BY <1>2, <2>1 DEF Placed, Turn
<1>8. Holding'
  <2>1. ASSUME NEW t \in TCB PROVE Hands(t)'
    <3>1. Hands(t)
      BY DEF Placed, Holding
    <3>2. Freed(t)' <=> Freed(t)
      <4>1. t[1] \in Pids /\ t[2] \in Nat
        BY TcbIs
      <4>2. CASE t[1] = p
        BY <1>5, <4>1, <4>2 DEF Freed
      <4>3. CASE t[1] # p
        BY <1>5, <4>1, <4>3 DEF Freed
      <4> QED
        BY <4>2, <4>3
    <3>3. InIo(t)' <=> InIo(t)
      BY <1>2 DEF InIo
    <3> QED
      BY <1>2, <1>3, <3>1, <3>2, <3>3, SameHands
  <2> QED
    BY <1>2, <2>1 DEF Placed, Holding
<1> QED
  BY <1>4, <1>6, <1>7, <1>8

LEMMA FinishPlaced == ASSUME TypeOK, Placed, RHFinish PROVE Placed'
<1>1. /\ rh = "finish" /\ rh' = "ack" /\ ReleaseProcess(cpu[1], sem)
      /\ UNCHANGED pcbVars /\ UNCHANGED tcbVars /\ UNCHANGED queueVars
      /\ UNCHANGED <<cpu, ret>> /\ UNCHANGED <<io_tcb, dump>>
  BY DEF RHFinish, cpuVars
<1>2. cpu[1] \in Pids /\ pcb_state[cpu[1]] = "EXIT" /\ rel[cpu[1]] = -1
  BY <1>1, PlacedTypes, TcbIs DEF Placed, Finishing
<1>3. \A t \in TCB : InDump(t)' <=> InDump(t)
  BY <1>1 DEF InDump
<1>4. Births' /\ Memory' /\ Turn' /\ Mutexes' /\ Joins' /\ Holding'
  BY <1>1, <1>2, <1>3, ReleasePlaced
<1>5. Finishing'
  <2>1. \A q \in Pids \ {cpu[1]} : rel'[q] = rel[q]
    BY <1>1, <1>2, PlacedTypes DEF ReleaseProcess
  <2>2. \A t \in TCB : dump[t] = "finish" => t[1] \in Pids \ {cpu[1]}
    BY <1>1, TcbIs DEF Placed, Finishing
  <2> QED
    BY <1>1, <2>1, <2>2 DEF Placed, Finishing, pcbVars
<1> QED
  BY <1>4, <1>5 DEF Placed

LEMMA DumpFinishPlaced == ASSUME TypeOK, Placed, NEW u \in TCB, DumpFinish(u) PROVE Placed'
<1>1. /\ dump[u] = "finish" /\ dump' = [dump EXCEPT ![u] = "none"]
      /\ ReleaseProcess(u[1], Post(sem, {"short"}))
      /\ UNCHANGED pcbVars /\ UNCHANGED tcbVars /\ UNCHANGED queueVars
      /\ UNCHANGED <<cpu, ret>> /\ UNCHANGED <<io_tcb, rh>>
  BY DEF DumpFinish, cpuVars
<1>2. u[1] \in Pids /\ pcb_state[u[1]] = "EXIT" /\ rel[u[1]] = -1
  BY <1>1, TcbIs DEF Placed, Finishing
<1>3. dump'[u] = "none" /\ \A t \in TCB \ {u} : dump'[t] = dump[t]
  BY <1>1, PlacedTypes
<1>4. \A t \in TCB : InDump(t)' <=> InDump(t)
  BY <1>1, <1>3 DEF InDump
<1>5. Post(sem, {"short"})["response"] = sem["response"]
  BY PostResponse
<1>6. Births' /\ Memory' /\ Turn' /\ Mutexes' /\ Joins' /\ Holding'
  BY <1>1, <1>2, <1>4, <1>5, ReleasePlaced
<1>7. Finishing'
  <2>1. \A q \in Pids \ {u[1]} : rel'[q] = rel[q]
    BY <1>1, <1>2, PlacedTypes DEF ReleaseProcess
  <2>2. \A t \in TCB : dump'[t] = "finish" => dump[t] = "finish" /\ t[1] \in Pids \ {u[1]}
    BY <1>1, <1>3, TcbIs DEF Placed, Finishing
  <2>3. rh = "finish" => cpu[1] \in Pids \ {u[1]}
    BY <1>1, PlacedTypes, TcbIs DEF Placed, Finishing
  <2> QED
    BY <1>1, <2>1, <2>2, <2>3 DEF Placed, Finishing, pcbVars
<1> QED
  BY <1>6, <1>7 DEF Placed

-----------------------------------------------------------------------------
(* The release thread *)

LEMMA RelTakePlaced == ASSUME TypeOK, Placed, NEW p \in Pids, RelTake(p) PROVE Placed'
<1>1. /\ rel[p] \in 0 .. tid_counter[p] - 1 /\ finished[<<p, rel[p]>>] > 0
      /\ finished' = [finished EXCEPT ![<<p, rel[p]>>] = @ - 1]
      /\ rel' = [rel EXCEPT ![p] = @ + 1]
      /\ UNCHANGED pcbVars /\ UNCHANGED <<state, block_type, joined_to, joined_tcbs>>
      /\ UNCHANGED queueVars /\ UNCHANGED <<sem, rh, io_tcb, dump, resident, hilos, cpu, ret>>
  BY DEF RelTake, memVars, cpuVars
<1>2. UNCHANGED <<new, ready, io_block_list, exec>>
  BY <1>1 DEF queueVars
<1>3. PICK i \in Tids : i = rel[p]
  <2>1. tid_counter[p] \in 0 .. MaxTid
    BY PlacedTypes
  <2> QED
    BY <1>1, <2>1, BoundsAssumption DEF Tids
<1>4. PICK u \in TCB : u = <<p, i>> /\ u[1] = p /\ u[2] = i
  BY <1>3, TcbIs
<1>5. /\ rel'[p] = i + 1 /\ i \in Nat /\ tid_counter[p] \in Nat /\ i < tid_counter[p]
      /\ \A q \in Pids \ {p} : rel'[q] = rel[q]
  <2>1. tid_counter[p] \in 0 .. MaxTid
    BY PlacedTypes
  <2> QED
    BY <1>1, <1>3, <2>1, PlacedTypes
<1>6. /\ finished[u] \in Nat /\ finished[u] > 0 /\ finished'[u] = finished[u] - 1
      /\ \A t \in TCB \ {u} : finished'[t] = finished[t]
  BY <1>1, <1>3, <1>4, PlacedTypes
<1>7. \A t \in TCB : (Alive(t)' <=> Alive(t)) /\ \A why : Blocked(t, why)' <=> Blocked(t, why)
  BY <1>1 DEF Alive, Blocked
<1>8. Births' /\ Mutexes' /\ Joins'
  BY <1>1, <1>2, <1>7, SameBirths, SameMutexes, SameJoins DEF Placed, pcbVars
<1>9. rel[p] # -1
  BY <1>3, <1>5
<1>10. Memory'
  <2>1. /\ UNCHANGED <<pcb_state, tid_counter, hilos, resident>>
        /\ pcb_state[p] = "EXIT" /\ p \notin resident /\ rel'[p] # -1
    BY <1>1, <1>5, <1>9 DEF Placed, Memory, pcbVars
  <2>2. \A q \in Pids : q \in resident' <=> \/ pcb_state'[q] = "EXEC"
                                            \/ pcb_state'[q] = "EXIT" /\ rel'[q] = -1
    BY <1>5, <2>1 DEF Placed, Memory
  <2>3. \A q \in Pids : rel'[q] # -1 => pcb_state'[q] = "EXIT" /\ rel'[q] <= tid_counter'[q]
    BY <1>5, <2>1 DEF Placed, Memory
  <2> QED
    BY <1>7, <2>1, <2>2, <2>3, PlacedTypes DEF Placed, Memory
<1>11. Finishing'
  <2>1. rh = "finish" => cpu[1] \in Pids \ {p}
    BY <1>9, PlacedTypes, TcbIs DEF Placed, Finishing
  <2>2. \A t \in TCB : dump[t] = "finish" => t[1] \in Pids \ {p}
    BY <1>9, TcbIs DEF Placed, Finishing
  <2> QED
    BY <1>1, <1>5, <2>1, <2>2 DEF Placed, Finishing, pcbVars
<1>12. Turn'
  BY <1>1, <1>2 DEF Placed, Turn
<1>13. Holding'
  <2>1. ASSUME NEW t \in TCB PROVE Hands(t)'
    <3>1. Hands(t)
      BY DEF Placed, Holding
    <3>2. (InIo(t)' <=> InIo(t)) /\ (InDump(t)' <=> InDump(t)) /\ t[1] \in Pids /\ t[2] \in Nat
      BY <1>1, <1>2, TcbIs DEF InIo, InDump
    <3>3. CASE t = u
      <4>1. ~Freed(t) /\ Freed(t)'
        BY <1>3, <1>4, <1>5, <3>3 DEF Freed
      <4>2. state[t] = "EXIT" /\ state'[t] = "EXIT"
        BY <1>1, <1>6, <3>1, <3>3 DEF Hands
      <4>3. t \in ToSet(ready') <=> t \in ToSet(ready)
        BY <1>2
      <4> QED
        BY <1>6, <3>1, <3>2, <3>3, <4>1, <4>2, <4>3 DEF Hands, Count
    <3>4. CASE t # u
      <4>1. Freed(t)' <=> Freed(t)
        <5>1. CASE t[1] = p
          <6>1. t[2] # i
            BY <1>4, <3>4, <5>1, TcbIs
          <6> QED
            BY <1>3, <1>5, <3>2, <5>1, <6>1 DEF Freed
        <5>2. CASE t[1] # p
          BY <1>5, <3>2, <5>2 DEF Freed
        <5> QED
          BY <5>1, <5>2
      <4>2. /\ state'[t] = state[t] /\ finished'[t] = finished[t]
            /\ t \in ToSet(ready') <=> t \in ToSet(ready)
        BY <1>1, <1>2, <1>6, <3>4
      <4> QED
        BY <1>7, <3>1, <3>2, <4>1, <4>2, SameHands
    <3> QED
      BY <3>3, <3>4
  <2> QED
    BY <1>1, <1>2, <2>1 DEF Placed, Holding
<1> QED
  BY <1>8, <1>10, <1>11, <1>12, <1>13 DEF Placed

LEMMA RelDonePlaced == ASSUME TypeOK, Placed, NEW p \in Pids, RelDone(p) PROVE Placed'
<1>1. /\ rel[p] = tid_counter[p] /\ mutex_list' = [mutex_list EXCEPT ![p] = <<>>]
      /\ UNCHANGED <<pid_counter, pcb_state, tid_counter>> /\ UNCHANGED tcbVars
      /\ UNCHANGED <<new, ready, io_block_list, exec>>
      /\ UNCHANGED <<sem, rh, io_tcb, dump, rel, resident, hilos, cpu, ret>>
  BY DEF RelDone, pcVars, memVars, cpuVars
<1>2. UNCHANGED <<state, block_type, joined_to, joined_tcbs, finished>>
  BY <1>1 DEF tcbVars
<1>3. \A t \in TCB : (Alive(t)' <=> Alive(t)) /\ \A why : Blocked(t, why)' <=> Blocked(t, why)
  BY <1>2 DEF Alive, Blocked
<1>4. Births' /\ Memory' /\ Finishing' /\ Joins'
  BY <1>1, <1>2, <1>3, SameBirths, SameMemory, SameFinishing, SameJoins DEF Placed
<1>5. Turn'
  BY <1>1, <1>2 DEF Placed, Turn
<1>6. Holding'
  <2>1. \A t \in TCB : InDump(t)' <=> InDump(t)
    BY <1>1 DEF InDump
  <2> QED
    BY <1>1, <1>2, <2>1, SameHolding DEF Placed
<1>7. \A t \in TCB : t[1] = p => ~Blocked(t, "MUTEX_LOCK")
  <2>1. pcb_state[p] = "EXIT"
    <3>1. tid_counter[p] \in 0 .. MaxTid
      BY PlacedTypes
    <3>2. rel[p] # -1
      BY <1>1, <3>1
    <3> QED
      BY <3>2 DEF Placed, Memory
  <2> QED
    BY <2>1 DEF Placed, Births, Blocked, Alive
<1>8. Mutexes'
  <2>1. mutex_list'[p] = <<>> /\ \A q \in Pids \ {p} : mutex_list'[q] = mutex_list[q]
    BY <1>1, PlacedTypes
  <2>2. ASSUME NEW q \in Pids, NEW i \in 1 .. Len(mutex_list'[q])
        PROVE  /\ IsInjective(Waiters(q, i)')
               /\ mutex_list'[q][i].tcb = NoTcb => Waiters(q, i)' = <<>>
               /\ \A t \in ToSet(Waiters(q, i)') :
                     /\ t[1] = q /\ Blocked(t, "MUTEX_LOCK")'
                     /\ \A j \in 1 .. Len(mutex_list'[q]) : t \in ToSet(Waiters(q, j)') => j = i
    <3>1. q # p
      BY <2>1, <2>2
    <3>2. mutex_list'[q] = mutex_list[q] /\ \A j : Waiters(q, j)' = Waiters(q, j)
      BY <2>1, <3>1 DEF Waiters
    <3>3. ToSet(Waiters(q, i)) \subseteq TCB
      BY <2>2, <3>2, Elements
    <3> QED
      BY <1>3, <2>2, <3>2, <3>3 DEF Placed, Mutexes
  <2>3. ASSUME NEW t \in TCB, Blocked(t, "MUTEX_LOCK")' PROVE InMutex(t)'
    <3>1. Blocked(t, "MUTEX_LOCK") /\ t[1] # p /\ t[1] \in Pids
      BY <1>3, <1>7, <2>3, TcbIs
    <3>2. InMutex(t) /\ mutex_list'[t[1]] = mutex_list[t[1]]
      BY <2>1, <3>1 DEF Placed, Mutexes
    <3> QED
      BY <3>2 DEF InMutex
  <2> QED
    BY <2>2, <2>3 DEF Mutexes
<1> QED
  BY <1>4, <1>5, <1>6, <1>8 DEF Placed

-----------------------------------------------------------------------------
(* New threads and processes *)

\* A thread of process p is created: it was nowhere, and is last in ready.
LEMMA BornPlaced ==
  ASSUME TypeOK, Placed, NEW u \in TCB, u[2] = tid_counter[u[1]],
         pcb_state[u[1]] \in {"NEW", "EXEC"},
         tid_counter' = [tid_counter EXCEPT ![u[1]] = @ + 1],
         state' = [state EXCEPT ![u] = "READY"], ready' = Append(ready, u),
         UNCHANGED <<pid_counter, mutex_list, block_type, joined_to, joined_tcbs, finished>>,
         UNCHANGED <<io_block_list, io_tcb, dump, rel>>
  PROVE  /\ Mutexes' /\ Joins' /\ Holding'
         /\ state[u] = "NULL_STATE"
         /\ \A t \in TCB : t[2] < tid_counter'[t[1]] <=> state'[t] # "NULL_STATE"
         /\ state'[u] = "READY" /\ \A t \in TCB \ {u} : state'[t] = state[t]
<1>1. state[u] = "NULL_STATE"
  BY PlacedTypes, TcbIs DEF Placed, Births
<1>2. state'[u] = "READY" /\ \A t \in TCB \ {u} : state'[t] = state[t]
  BY PlacedTypes
<1>3. Hands(u)
  BY DEF Placed, Holding
<1>4. u \notin ToSet(ready) /\ ~InIo(u) /\ ~InDump(u) /\ finished[u] = 0
  BY <1>1, <1>3 DEF Hands, Blocked
<1>5. \A t \in TCB : /\ Alive(t) => Alive(t)'
                     /\ \A why : Blocked(t, why)' <=> Blocked(t, why)
  BY <1>1, <1>2 DEF Alive, Blocked
<1>6. Mutexes' /\ Joins'
  BY <1>5, SameMutexes, SameJoins DEF Placed
<1>7. ToSet(ready') = ToSet(ready) \cup {u} /\ IsInjective(ready')
  <2>1. ready \in Seq(TCB) /\ IsInjective(ready)
    BY PlacedTypes DEF Placed, Holding
  <2> QED
    BY <1>4, <2>1, Appended
<1>8. Holding'
  <2>1. ASSUME NEW t \in TCB PROVE Hands(t)'
    <3>1. Hands(t) /\ (InDump(t)' <=> InDump(t)) /\ (InIo(t)' <=> InIo(t))
      BY DEF Placed, Holding, InDump, InIo
    <3>2. CASE t = u
      BY <1>2, <1>4, <1>7, <3>1, <3>2 DEF Hands, Blocked
    <3>3. CASE t # u
      BY <1>2, <1>7, <3>1, <3>3, OtherHands
    <3> QED
      BY <3>2, <3>3
  <2> QED
    BY <1>7, <2>1 DEF Placed, Holding
<1>9. ASSUME NEW t \in TCB PROVE t[2] < tid_counter'[t[1]] <=> state'[t] # "NULL_STATE"
  <2>1. /\ t[1] \in Pids /\ t[2] \in Nat /\ tid_counter[t[1]] \in Nat
        /\ u[1] \in Pids /\ u[2] \in Nat /\ tid_counter[u[1]] \in Nat
    BY PlacedTypes, TcbIs
  <2>2. t[2] < tid_counter[t[1]] <=> state[t] # "NULL_STATE"
    BY DEF Placed, Births
  <2>3. CASE t = u
    BY <1>2, <2>1, <2>3, PlacedTypes
  <2>4. CASE t # u /\ t[1] = u[1]
    <3>1. t[2] # u[2]
      BY <2>4, TcbIs
    <3>2. tid_counter'[t[1]] = tid_counter[t[1]] + 1 /\ tid_counter[t[1]] = u[2]
      BY <2>1, <2>4, PlacedTypes
    <3> QED
      BY <1>2, <2>1, <2>2, <2>4, <3>1, <3>2
  <2>5. CASE t[1] # u[1]
    <3>1. tid_counter'[t[1]] = tid_counter[t[1]] /\ t # u
      BY <2>1, <2>5, PlacedTypes
    <3> QED
      BY <1>2, <2>2, <3>1
  <2> QED
    BY <2>3, <2>4, <2>5
<1> QED
  BY <1>1, <1>2, <1>6, <1>8, <1>9

\* A turn that goes on: the CPU and the thread in EXEC are the same.
LEMMA SameTurnSem ==
  ASSUME TypeOK, Turn, UNCHANGED <<exec, cpu, ret, rh>>, sem'["response"] = sem["response"],
         NEW u \in TCB, state[u] # "EXEC", state'[u] # "EXEC",
         \A t \in TCB \ {u} : state'[t] = state[t]
  PROVE  Turn'
<1>1. exec # NoTcb => exec \in TCB \ {u}
  BY PlacedTypes DEF Turn
<1> QED
  BY <1>1 DEF Turn

\* The handler answers and the thread in EXEC goes on.
LEMMA KeepsTurn ==
  ASSUME TypeOK, Turn, NEW s, KeepsCpu(s),
         s = sem \/ \E T : s = Post(sem, T) /\ "response" \notin T,
         UNCHANGED <<exec, cpu>>,
         exec # NoTcb => state'[exec] = "EXEC",
         \A t \in TCB : state'[t] = "EXEC" => state[t] = "EXEC"
  PROVE  Turn' /\ rh' = "wait"
<1>1. sem'["response"] = sem["response"] + 1 /\ sem["response"] \in Nat
  BY PostResponse DEF KeepsCpu
<1>2. rh' = "wait" /\ ret' = NoReturn
  BY DEF KeepsCpu
<1> QED
  BY <1>1, <1>2 DEF Turn, NoReturn

\* The first process in new and its main thread.
LEMMA CreatePlaced == ASSUME Inv, Placed, LTCreate PROVE Placed'
<1> USE DEF Inv
<1>1. new # <<>>
  <2>1. lt # "wait" /\ NewCount /\ sem["new"] \in Nat
    BY PlacedTypes DEF LTCreate, QueueCounts, SemNames
  <2>2. Len(new) # 0
    BY <2>1 DEF NewCount, Count
  <2> QED
    BY <2>2
<1>2. PICK p \in Pids : p = Head(new)
  BY <1>1, PlacedTypes
<1>3. /\ ToSet(Tail(new)) = ToSet(new) \ {p} /\ IsInjective(Tail(new)) /\ pcb_state[p] = "NEW"
  <2>1. new \in Seq(Pids) /\ IsInjective(new)
    BY PlacedTypes DEF Placed, Births
  <2> QED
    BY <1>1, <1>2, <2>1, HeadRemoved DEF Placed, Births
<1>4. tid_counter[p] = 0 /\ rel[p] = -1 /\ p \notin resident /\ p < pid_counter
  <2>1. ~(p >= pid_counter)
    BY <1>3 DEF Placed, Births
  <2> QED
    BY <1>3, <2>1, PlacedTypes DEF Placed, Births, Memory, Pids
<1>5. PICK u \in TCB : u = <<p, 0>> /\ u[1] = p /\ u[2] = 0
  <2>1. 0 \in Tids
    BY BoundsAssumption DEF Tids
  <2> QED
    BY <2>1, TcbIs
<1>6. /\ HasRoom
      /\ resident' = resident \cup {p} /\ hilos' = hilos \cup {u}
      /\ tid_counter' = [tid_counter EXCEPT ![p] = @ + 1]
      /\ pcb_state' = [pcb_state EXCEPT ![p] = "EXEC"]
      /\ state' = [state EXCEPT ![u] = "READY"]
      /\ ready' = Append(ready, u) /\ new' = Tail(new)
      /\ sem' = Post(sem, {"ready", "long"})
      /\ UNCHANGED <<pid_counter, mutex_list, block_type, joined_to, joined_tcbs, finished>>
      /\ UNCHANGED <<io_block_list, io_tcb, dump, rel, rh, cpu, ret, exec>>
  BY <1>2, <1>4, <1>5 DEF LTCreate, cpuVars
<1>7. /\ Mutexes' /\ Joins' /\ Holding'
      /\ state[u] = "NULL_STATE"
      /\ \A t \in TCB : t[2] < tid_counter'[t[1]] <=> state'[t] # "NULL_STATE"
      /\ state'[u] = "READY" /\ \A t \in TCB \ {u} : state'[t] = state[t]
  BY <1>3, <1>4, <1>5, <1>6, BornPlaced
<1>8. /\ pcb_state'[p] = "EXEC" /\ \A q \in Pids \ {p} : pcb_state'[q] = pcb_state[q]
      /\ tid_counter'[p] = 1 /\ \A q \in Pids \ {p} : tid_counter'[q] = tid_counter[q]
  BY <1>4, <1>6, PlacedTypes
<1>9. \A t \in TCB \ {u} : Alive(t)' <=> Alive(t)
  BY <1>7 DEF Alive
<1>10. Births'
  <2>1. \A q \in Pids : q >= pid_counter' => pcb_state'[q] = "NONE"
    <3>1. ~(p >= pid_counter)
      BY <1>3 DEF Placed, Births
    <3> QED
      BY <1>6, <1>8, <3>1 DEF Placed, Births
  <2>2. \A q \in Pids : pcb_state'[q] \in {"NONE", "NEW"} => tid_counter'[q] = 0
    BY <1>8 DEF Placed, Births
  <2>3. \A t \in TCB : pcb_state'[t[1]] = "EXIT" => ~Alive(t)'
    BY <1>5, <1>8, <1>9, TcbIs DEF Placed, Births
  <2>4. IsInjective(new') /\ \A q \in ToSet(new') : pcb_state'[q] = "NEW"
    BY <1>3, <1>6, <1>8, Elements DEF Placed, Births
  <2> QED
    BY <1>7, <2>1, <2>2, <2>3, <2>4 DEF Births
<1>11. Memory'
  <2>1. \A t \in TCB : Alive(t)' => t \in hilos'
    BY <1>6, <1>9 DEF Placed, Memory
  <2>2. \A t \in hilos' : t[1] \in resident' /\ (Alive(t)' \/ pcb_state'[t[1]] = "EXIT")
    <3>1. ASSUME NEW t \in hilos, t # u
          PROVE  t[1] \in resident' /\ (Alive(t)' \/ pcb_state'[t[1]] = "EXIT")
      <4>1. t \in TCB \ {u} /\ t[1] \in resident /\ t[1] \in Pids \ {p}
        BY <1>4, <3>1, PlacedTypes, TcbIs DEF Placed, Memory
      <4> QED
        BY <1>6, <1>8, <1>9, <3>1, <4>1 DEF Placed, Memory
    <3>2. Alive(u)' /\ u[1] \in resident'
      BY <1>5, <1>6, <1>7 DEF Alive
    <3> QED
      BY <1>6, <3>1, <3>2
  <2>3. \A q \in Pids : q \in resident' <=> \/ pcb_state'[q] = "EXEC"
                                            \/ pcb_state'[q] = "EXIT" /\ rel'[q] = -1
    BY <1>6, <1>8 DEF Placed, Memory
  <2>4. Cardinality(resident') <= Partitions
    <3>1. IsFiniteSet(resident)
      <4>1. IsFiniteSet(Pids)
        BY FS_Interval, BoundsAssumption DEF Pids
      <4> QED
        BY <4>1, FS_Subset, PlacedTypes
    <3>2. Cardinality(resident) \in Nat /\ Cardinality(resident') = Cardinality(resident) + 1
      BY <1>4, <1>6, <3>1, FS_AddElement, FS_CardinalityType
    <3> QED
      BY <1>6, <3>2, BoundsAssumption DEF HasRoom
  <2>5. \A q \in Pids : rel'[q] # -1 => pcb_state'[q] = "EXIT" /\ rel'[q] <= tid_counter'[q]
    BY <1>4, <1>6, <1>8 DEF Placed, Memory
  <2> QED
    BY <2>1, <2>2, <2>3, <2>4, <2>5 DEF Memory
<1>12. Finishing'
  BY <1>3, <1>6, <1>8, SameFinishing DEF Placed
<1>13. Turn'
  <2>1. sem'["response"] = sem["response"]
    BY <1>6, PostResponse
  <2> QED
    BY <1>6, <1>7, <2>1, SameTurnSem DEF Placed
<1> QED
  BY <1>7, <1>10, <1>11, <1>12, <1>13 DEF Placed

\* THREAD_CREATE: the new thread belongs to a process that has not finished.
LEMMA ThreadCreatePlaced == ASSUME TypeOK, Placed, RHThreadCreate PROVE Placed'
<1>1. PICK e \in TCB : e = exec
  BY PlacedTypes DEF RHThreadCreate, Handling
<1>2. PICK p \in Pids : p = e[1]
  BY TcbIs
<1>3. /\ pcb_state[p] = "EXEC" /\ state[e] = "EXEC" /\ p \in resident /\ rel[p] = -1
  BY <1>1, <1>2, Executing, TcbIs
<1>4. PICK i \in Tids : i = tid_counter[p]
  <2>1. tid_counter[p] < MaxTid
    BY <1>1, <1>2 DEF RHThreadCreate
  <2> QED
    BY <2>1, PlacedTypes, BoundsAssumption DEF Tids
<1>5. PICK u \in TCB : u = <<p, i>> /\ u[1] = p /\ u[2] = i
  BY TcbIs
<1>6. /\ hilos' = hilos \cup {u}
      /\ tid_counter' = [tid_counter EXCEPT ![p] = @ + 1]
      /\ state' = [state EXCEPT ![u] = "READY"] /\ ready' = Append(ready, u)
      /\ KeepsCpu(Post(sem, {"ready"}))
      /\ UNCHANGED <<pid_counter, mutex_list, block_type, joined_to, joined_tcbs, finished>>
      /\ UNCHANGED <<io_block_list, io_tcb, dump, rel, cpu, exec, pcb_state, new, resident>>
  BY <1>1, <1>2, <1>4, <1>5 DEF RHThreadCreate, rhFrame
<1>7. /\ Mutexes' /\ Joins' /\ Holding'
      /\ state[u] = "NULL_STATE"
      /\ \A t \in TCB : t[2] < tid_counter'[t[1]] <=> state'[t] # "NULL_STATE"
      /\ state'[u] = "READY" /\ \A t \in TCB \ {u} : state'[t] = state[t]
  BY <1>3, <1>4, <1>5, <1>6, BornPlaced
<1>8. tid_counter'[p] = i + 1 /\ \A q \in Pids \ {p} : tid_counter'[q] = tid_counter[q]
  BY <1>4, <1>6, PlacedTypes
<1>9. \A t \in TCB \ {u} : Alive(t)' <=> Alive(t)
  BY <1>7 DEF Alive
<1>10. Births'
  <2>1. \A t \in TCB : pcb_state'[t[1]] = "EXIT" => ~Alive(t)'
    BY <1>3, <1>5, <1>6, <1>9 DEF Placed, Births
  <2>2. \A q \in Pids : pcb_state'[q] \in {"NONE", "NEW"} => tid_counter'[q] = 0
    BY <1>3, <1>6, <1>8 DEF Placed, Births
  <2> QED
    BY <1>6, <1>7, <2>1, <2>2 DEF Placed, Births
<1>11. Memory'
  <2>1. \A t \in TCB : Alive(t)' => t \in hilos'
    BY <1>6, <1>9 DEF Placed, Memory
  <2>2. \A t \in hilos' : t[1] \in resident' /\ (Alive(t)' \/ pcb_state'[t[1]] = "EXIT")
    <3>1. Alive(u)' /\ u[1] \in resident'
      BY <1>3, <1>5, <1>6, <1>7 DEF Alive
    <3> QED
      BY <1>6, <1>9, <3>1, PlacedTypes DEF Placed, Memory
  <2>3. \A q \in Pids : rel'[q] # -1 => pcb_state'[q] = "EXIT" /\ rel'[q] <= tid_counter'[q]
    BY <1>3, <1>6, <1>8 DEF Placed, Memory
  <2> QED
    BY <1>6, <2>1, <2>2, <2>3 DEF Placed, Memory
<1>12. Turn' /\ rh' = "wait"
  <2>1. \A t \in TCB : state'[t] = "EXEC" => state[t] = "EXEC"
    BY <1>7
  <2>2. state'[exec] = "EXEC"
    BY <1>1, <1>3, <1>7
  <2>3. \E T : Post(sem, {"ready"}) = Post(sem, T) /\ "response" \notin T
    BY "response" \notin {"ready"}
  <2> QED
    BY <1>6, <2>1, <2>2, <2>3, KeepsTurn DEF Placed
<1>13. Finishing'
  BY <1>6, <1>12, SameFinishing DEF Placed
<1> QED
  BY <1>7, <1>10, <1>11, <1>12, <1>13 DEF Placed

\* PROCESS_CREATE: a pcb that was not there, last in new.
LEMMA ProcessCreatePlaced == ASSUME TypeOK, Placed, RHProcessCreate PROVE Placed'
<1>1. PICK p \in Pids : p = pid_counter
  <2>1. pid_counter < MaxPid /\ pid_counter \in Nat
    BY PlacedTypes, BoundsAssumption DEF RHProcessCreate
  <2> QED
    BY <2>1, BoundsAssumption DEF Pids
<1>2. /\ pid_counter' = p + 1
      /\ pcb_state' = [pcb_state EXCEPT ![p] = "NEW"] /\ new' = Append(new, p)
      /\ KeepsCpu(Post(sem, {"new"})) /\ exec # NoTcb
      /\ UNCHANGED <<tid_counter, mutex_list>>
      /\ UNCHANGED <<state, block_type, joined_to, joined_tcbs, finished>>
      /\ UNCHANGED <<ready, io_block_list, io_tcb, exec, dump, hilos, resident, rel, cpu>>
  BY <1>1 DEF RHProcessCreate, Handling, rhFrame
<1>3. /\ pcb_state[p] = "NONE" /\ pcb_state'[p] = "NEW"
      /\ \A q \in Pids \ {p} : pcb_state'[q] = pcb_state[q]
  <2>1. p >= pid_counter /\ p \in Nat
    BY <1>1 DEF Pids
  <2> QED
    BY <1>2, <2>1, PlacedTypes DEF Placed, Births
<1>4. \A t \in TCB : (Alive(t)' <=> Alive(t)) /\ \A why : Blocked(t, why)' <=> Blocked(t, why)
  BY <1>2 DEF Alive, Blocked
<1>5. Mutexes' /\ Joins'
  BY <1>2, <1>4, SameMutexes, SameJoins DEF Placed
<1>6. Holding'
  <2>1. \A t \in TCB : InDump(t)' <=> InDump(t)
    BY <1>2 DEF InDump
  <2> QED
    BY <1>2, <2>1, SameHolding DEF Placed
<1>7. Births'
  <2>1. \A q \in Pids : q >= pid_counter' => pcb_state'[q] = "NONE"
    <3>1. p \in Int /\ \A q \in Pids : q \in Int
      BY DEF Pids
    <3> QED
      BY <1>1, <1>2, <1>3, <3>1 DEF Placed, Births
  <2>2. p \notin ToSet(new)
    BY <1>3 DEF Placed, Births
  <2>3. ToSet(new') = ToSet(new) \cup {p} /\ IsInjective(new')
    <3>1. new \in Seq(Pids) /\ IsInjective(new)
      BY PlacedTypes DEF Placed, Births
    <3> QED
      BY <1>2, <2>2, <3>1, Appended
  <2>4. \A q \in ToSet(new') : pcb_state'[q] = "NEW"
    BY <1>3, <2>3, Elements DEF Placed, Births
  <2>5. \A q \in Pids : pcb_state'[q] \in {"NONE", "NEW"} => tid_counter'[q] = 0
    BY <1>2, <1>3 DEF Placed, Births
  <2>6. \A t \in TCB : pcb_state'[t[1]] = "EXIT" => ~Alive(t)'
    BY <1>3, <1>4, TcbIs DEF Placed, Births
  <2>7. \A t \in TCB : t[2] < tid_counter'[t[1]] <=> state'[t] # "NULL_STATE"
    BY <1>2 DEF Placed, Births
  <2> QED
    BY <2>1, <2>3, <2>4, <2>5, <2>6, <2>7 DEF Births
<1>8. Memory'
  <2>1. \A t \in hilos' : t[1] \in resident' /\ (Alive(t)' \/ pcb_state'[t[1]] = "EXIT")
    <3>1. \A t \in hilos : t \in TCB /\ t[1] \in Pids /\ t[1] # p
      BY <1>3, PlacedTypes, TcbIs DEF Placed, Memory
    <3> QED
      BY <1>2, <1>3, <1>4, <3>1 DEF Placed, Memory
  <2>2. \A q \in Pids : /\ q \in resident' <=> \/ pcb_state'[q] = "EXEC"
                                               \/ pcb_state'[q] = "EXIT" /\ rel'[q] = -1
                        /\ rel'[q] # -1 => pcb_state'[q] = "EXIT" /\ rel'[q] <= tid_counter'[q]
    BY <1>2, <1>3 DEF Placed, Memory
  <2> QED
    BY <1>2, <1>4, <2>1, <2>2 DEF Placed, Memory
<1>9. Turn' /\ rh' = "wait"
  <2>1. state'[exec] = "EXEC"
    BY <1>2 DEF Placed, Turn
  <2>2. \E T : Post(sem, {"new"}) = Post(sem, T) /\ "response" \notin T
    BY "response" \notin {"new"}
  <2> QED
    BY <1>2, <2>1, <2>2, KeepsTurn DEF Placed
<1>10. Finishing'
  BY <1>2, <1>3, <1>9, SameFinishing DEF Placed
<1> QED
  BY <1>5, <1>6, <1>7, <1>8, <1>9, <1>10 DEF Placed

-----------------------------------------------------------------------------
(* Mutexes *)

\* The mutexes l of p have the threads of p that wait for one, each in one place.
Queued(p, l) ==
    /\ \A i \in 1 .. Len(l) :
          /\ IsInjective(l[i].blocked) /\ ToSet(l[i].blocked) \subseteq TCB
          /\ l[i].tcb = NoTcb => l[i].blocked = <<>>
          /\ \A t \in ToSet(l[i].blocked) :
                /\ t[1] = p /\ Blocked(t, "MUTEX_LOCK")
                /\ \A j \in 1 .. Len(l) : t \in ToSet(l[j].blocked) => j = i
    /\ \A t \in TCB : t[1] = p /\ Blocked(t, "MUTEX_LOCK")
          => \E i \in 1 .. Len(l) : t \in ToSet(l[i].blocked)

LEMMA MutexesOf ==
  ASSUME TypeOK, Mutexes, NEW p \in Pids PROVE Queued(p, mutex_list[p])
<1>1. ASSUME NEW i \in 1 .. Len(mutex_list[p])
      PROVE  /\ IsInjective(Waiters(p, i)) /\ ToSet(Waiters(p, i)) \subseteq TCB
             /\ mutex_list[p][i].tcb = NoTcb => Waiters(p, i) = <<>>
             /\ \A t \in ToSet(Waiters(p, i)) :
                   /\ t[1] = p /\ Blocked(t, "MUTEX_LOCK")
                   /\ \A j \in 1 .. Len(mutex_list[p]) : t \in ToSet(Waiters(p, j)) => j = i
  BY Elements DEF Mutexes
<1>2. ASSUME NEW t \in TCB, t[1] = p, Blocked(t, "MUTEX_LOCK")
      PROVE  \E i \in 1 .. Len(mutex_list[p]) : t \in ToSet(Waiters(p, i))
  <2>1. InMutex(t)
    BY <1>2 DEF Mutexes
  <2>2. mutex_list[p] \in Seq(Mutex)
    BY PlacedTypes
  <2> QED
    BY <1>2, <2>1, <2>2 DEF InMutex, Waiters
<1> QED
  BY <1>1, <1>2 DEF Queued, Waiters

\* The mutexes of p are replaced.
LEMMA MutexesReplaced ==
  ASSUME TypeOK, Mutexes, NEW p \in Pids, NEW l \in Seq(Mutex),
         mutex_list' = [mutex_list EXCEPT ![p] = l],
         \A t \in TCB : t[1] # p
            => (Blocked(t, "MUTEX_LOCK")' <=> Blocked(t, "MUTEX_LOCK")),
         Queued(p, l)'
  PROVE  Mutexes'
<1>1. mutex_list'[p] = l /\ \A q \in Pids \ {p} : mutex_list'[q] = mutex_list[q]
  BY PlacedTypes
<1>2. ASSUME NEW q \in Pids, NEW i \in 1 .. Len(mutex_list'[q])
      PROVE  /\ IsInjective(Waiters(q, i)')
             /\ mutex_list'[q][i].tcb = NoTcb => Waiters(q, i)' = <<>>
             /\ \A t \in ToSet(Waiters(q, i)') :
                   /\ t[1] = q /\ Blocked(t, "MUTEX_LOCK")'
                   /\ \A j \in 1 .. Len(mutex_list'[q]) : t \in ToSet(Waiters(q, j)') => j = i
  <2>1. CASE q = p
    <3>1. \A j : Waiters(q, j)' = l[j].blocked
      BY <1>1, <2>1 DEF Waiters
    <3> QED
      BY <1>1, <1>2, <2>1, <3>1 DEF Queued
  <2>2. CASE q # p
    <3>1. mutex_list'[q] = mutex_list[q] /\ \A j : Waiters(q, j)' = Waiters(q, j)
      BY <1>1, <2>2 DEF Waiters
    <3>2. ToSet(Waiters(q, i)) \subseteq TCB
      BY <1>2, <3>1, Elements
    <3> QED
      BY <1>2, <2>2, <3>1, <3>2 DEF Mutexes
  <2> QED
    BY <2>1, <2>2
<1>3. ASSUME NEW t \in TCB, Blocked(t, "MUTEX_LOCK")' PROVE InMutex(t)'
  <2>1. t[1] \in Pids
    BY TcbIs
  <2>2. CASE t[1] = p
    <3>1. PICK i \in 1 .. Len(l) : t \in ToSet(l[i].blocked)
      BY <1>3, <2>2 DEF Queued
    <3>2. i \in DOMAIN mutex_list'[t[1]] /\ t \in ToSet(mutex_list'[t[1]][i].blocked)
      BY <1>1, <2>2, <3>1
    <3> QED
      BY <3>2 DEF InMutex
  <2>3. CASE t[1] # p
    <3>1. InMutex(t) /\ mutex_list'[t[1]] = mutex_list[t[1]]
      BY <1>1, <1>3, <2>1, <2>3 DEF Mutexes
    <3> QED
      BY <3>1 DEF InMutex
  <2> QED
    BY <2>2, <2>3
<1> QED
  BY <1>2, <1>3 DEF Mutexes

\* MUTEX_CREATE and MUTEX_LOCK of a free mutex move no thread.
LEMMA MutexTakenPlaced == ASSUME TypeOK, Placed, RHMutexCreate \/ RHMutexTake PROVE Placed'
<1>1. /\ exec # NoTcb /\ KeepsCpu(sem)
      /\ UNCHANGED <<pid_counter, pcb_state, tid_counter>> /\ UNCHANGED tcbVars
      /\ UNCHANGED <<new, ready, io_block_list, exec, dump, hilos, resident, rel, io_tcb, cpu>>
  BY DEF RHMutexCreate, RHMutexTake, Handling, rhFrame
<1>2. UNCHANGED <<state, block_type, joined_to, joined_tcbs, finished>>
  BY <1>1 DEF tcbVars
<1>3. \A t \in TCB : (Alive(t)' <=> Alive(t)) /\ \A why : Blocked(t, why)' <=> Blocked(t, why)
  BY <1>2 DEF Alive, Blocked
<1>4. Turn' /\ rh' = "wait"
  <2>1. state'[exec] = "EXEC"
    BY <1>1, <1>2 DEF Placed, Turn
  <2> QED
    BY <1>1, <1>2, <2>1, KeepsTurn DEF Placed
<1>5. Births' /\ Memory' /\ Finishing' /\ Joins'
  BY <1>1, <1>2, <1>3, <1>4, SameBirths, SameMemory, SameFinishing, SameJoins DEF Placed
<1>6. Holding'
  <2>1. \A t \in TCB : InDump(t)' <=> InDump(t)
    BY <1>1 DEF InDump
  <2> QED
    BY <1>1, <1>2, <2>1, SameHolding DEF Placed
<1>7. PICK e \in TCB : e = exec
  BY <1>1, PlacedTypes
<1>8. PICK p \in Pids : p = e[1]
  BY TcbIs
<1>9. PICK ml \in Seq(Mutex) : ml = mutex_list[p]
  BY PlacedTypes
<1>10. Queued(p, ml)
  BY <1>9, MutexesOf DEF Placed
<1>11. CASE RHMutexCreate
  <2>0. PICK m : m = [name |-> ret.arg, tcb |-> NoTcb, blocked |-> <<>>]
    OBVIOUS
  <2> DEFINE l == Append(ml, m)
  <2>1. mutex_list' = [mutex_list EXCEPT ![p] = l]
    BY <1>7, <1>8, <1>9, <1>11, <2>0 DEF RHMutexCreate
  <2>2. l \in Seq(Mutex)
    <3>1. ret.arg \in MutexNames
      BY <1>11 DEF RHMutexCreate, Handling, TypeOK, CpuTypeOK, RetTypeOK, Arguments
    <3>2. m \in Mutex
      BY <2>0, <3>1 DEF Mutex
    <3> QED
      BY <3>2
  <2>3. /\ Len(l) = Len(ml) + 1 /\ l[Len(ml) + 1] = m /\ Len(ml) \in Nat
        /\ \A i \in 1 .. Len(ml) : l[i] = ml[i]
    OBVIOUS
  <2>4. m.tcb = NoTcb /\ m.blocked = <<>> /\ ToSet(<<>>) = {} /\ IsInjective(<<>>)
    BY <2>0 DEF ToSet, IsInjective
  <2> HIDE DEF l
  <2>5. \A i \in 1 .. Len(l) : \/ i \in 1 .. Len(ml) /\ l[i] = ml[i]
                               \/ i \notin 1 .. Len(ml) /\ l[i] = m
    BY <2>3
  <2>6. Queued(p, l)'
    <3>1. \A i \in 1 .. Len(l) :
            /\ IsInjective(l[i].blocked) /\ ToSet(l[i].blocked) \subseteq TCB
            /\ l[i].tcb = NoTcb => l[i].blocked = <<>>
            /\ \A t \in ToSet(l[i].blocked) :
                  /\ t[1] = p /\ Blocked(t, "MUTEX_LOCK")'
                  /\ \A j \in 1 .. Len(l) : t \in ToSet(l[j].blocked) => j = i
      BY <1>3, <1>10, <2>4, <2>5 DEF Queued
    <3>2. \A t \in TCB : t[1] = p /\ Blocked(t, "MUTEX_LOCK")'
            => \E i \in 1 .. Len(l) : t \in ToSet(l[i].blocked)
      BY <1>3, <1>10, <2>3 DEF Queued
    <3> QED
      BY <3>1, <3>2 DEF Queued
  <2>7. Mutexes'
    BY <1>3, <2>1, <2>2, <2>6, MutexesReplaced DEF Placed
  <2> QED
    BY <1>4, <1>5, <1>6, <2>7 DEF Placed
<1>12. CASE RHMutexTake
  <2>1. PICK k \in 1 .. Len(ml) :
           /\ ml[k].tcb = NoTcb
           /\ mutex_list' = [mutex_list EXCEPT ![p] = [@ EXCEPT ![k].tcb = e]]
    BY <1>7, <1>8, <1>9, <1>12 DEF RHMutexTake
  <2> DEFINE m == [ml[k] EXCEPT !.tcb = e]
             l == [ml EXCEPT ![k] = m]
  <2>2. mutex_list' = [mutex_list EXCEPT ![p] = l]
    BY <1>9, <2>1
  <2>3. ml[k] \in Mutex
    OBVIOUS
  <2>4. m \in Mutex /\ m.blocked = ml[k].blocked /\ m.tcb = e
    BY <2>3 DEF Mutex
  <2> HIDE DEF m
  <2>5. /\ l \in Seq(Mutex) /\ Len(l) = Len(ml) /\ l[k] = m
        /\ \A i \in 1 .. Len(ml) : i # k => l[i] = ml[i]
    BY <2>4
  <2> HIDE DEF l
  <2>6. \A i \in 1 .. Len(ml) : l[i].blocked = ml[i].blocked
    BY <2>4, <2>5
  <2>7. \A i \in 1 .. Len(ml) : l[i].tcb = NoTcb => ml[i].tcb = NoTcb
    BY <2>4, <2>5, TcbIs
  <2>8. Queued(p, l)'
    <3>1. \A i \in 1 .. Len(l) :
            /\ IsInjective(l[i].blocked) /\ ToSet(l[i].blocked) \subseteq TCB
            /\ l[i].tcb = NoTcb => l[i].blocked = <<>>
            /\ \A t \in ToSet(l[i].blocked) :
                  /\ t[1] = p /\ Blocked(t, "MUTEX_LOCK")'
                  /\ \A j \in 1 .. Len(l) : t \in ToSet(l[j].blocked) => j = i
      BY <1>3, <1>10, <2>5, <2>6, <2>7 DEF Queued
    <3>2. \A t \in TCB : t[1] = p /\ Blocked(t, "MUTEX_LOCK")'
            => \E i \in 1 .. Len(l) : t \in ToSet(l[i].blocked)
      BY <1>3, <1>10, <2>5, <2>6 DEF Queued
    <3> QED
      BY <3>1, <3>2 DEF Queued
  <2>9. Mutexes'
    BY <1>3, <2>2, <2>5, <2>8, MutexesReplaced DEF Placed
  <2> QED
    BY <1>4, <1>5, <1>6, <2>9 DEF Placed
<1> QED
  BY <1>11, <1>12

\* MUTEX_LOCK of a taken mutex.
LEMMA MutexWaitPlaced == ASSUME TypeOK, Placed, RHMutexWait PROVE Placed'
<1>1. PICK e \in TCB : e = exec
  BY PlacedTypes DEF RHMutexWait, Handling
<1>2. PICK p \in Pids : p = e[1]
  BY TcbIs
<1>3. PICK ml \in Seq(Mutex) : ml = mutex_list[p]
  BY PlacedTypes
<1>4. /\ block_type' = [block_type EXCEPT ![e] = "MUTEX_LOCK"]
      /\ state' = [state EXCEPT ![e] = "BLOCK"]
      /\ exec' = NoTcb /\ rh' = "ack"
      /\ UNCHANGED <<pid_counter, pcb_state, tid_counter, joined_to, joined_tcbs, finished>>
      /\ UNCHANGED <<new, ready, io_block_list, dump, hilos, resident, rel, io_tcb, cpu, ret>>
  BY <1>1 DEF RHMutexWait, LosesCpu, rhFrame
<1>5. PICK k \in 1 .. Len(ml) :
         /\ ml[k].tcb # NoTcb
         /\ mutex_list' = [mutex_list EXCEPT ![p][k].blocked = Append(@, e)]
  BY <1>1, <1>2, <1>3 DEF RHMutexWait
<1>6. /\ state[e] = "EXEC" /\ Alive(e) /\ (\A why : ~Blocked(e, why))
      /\ e \notin ToSet(ready) /\ ~InIo(e) /\ ~InDump(e) /\ finished[e] = 0
      /\ \A t \in TCB \ {e} : state[t] # "EXEC"
  BY <1>1, Executing, TcbIs
<1>7. /\ state'[e] = "BLOCK" /\ block_type'[e] = "MUTEX_LOCK"
      /\ \A t \in TCB \ {e} : state'[t] = state[t] /\ block_type'[t] = block_type[t]
  BY <1>4, PlacedTypes
<1>8. /\ \A t \in TCB \ {e} : /\ Alive(t)' <=> Alive(t)
                              /\ \A why : Blocked(t, why)' <=> Blocked(t, why)
      /\ Alive(e)' /\ ~Blocked(e, "THREAD_JOIN")' /\ Blocked(e, "MUTEX_LOCK")'
  BY <1>7 DEF Alive, Blocked
<1>9. Births' /\ Memory' /\ Finishing' /\ Joins'
  <2>1. \A t \in TCB : /\ state'[t] = "NULL_STATE" <=> state[t] = "NULL_STATE"
                       /\ Alive(t)' <=> Alive(t)
                       /\ Blocked(t, "THREAD_JOIN")' <=> Blocked(t, "THREAD_JOIN")
    BY <1>6, <1>7, <1>8
  <2> QED
    BY <1>4, <2>1, SameBirths, SameMemory, SameFinishing, SameJoins DEF Placed
<1>10. Turn'
  BY <1>4, <1>6, <1>7, Stopped DEF Placed
<1>11. Holding'
  <2>1. ASSUME NEW t \in TCB PROVE Hands(t)'
    <3>1. Hands(t) /\ (InIo(t)' <=> InIo(t)) /\ (InDump(t)' <=> InDump(t))
      BY <1>4 DEF Placed, Holding, InIo, InDump
    <3>2. CASE t = e
      BY <1>4, <1>6, <1>7, <3>1, <3>2 DEF Hands, Blocked
    <3>3. CASE t # e
      BY <1>4, <1>7, <3>1, <3>3, OtherHands
    <3> QED
      BY <3>2, <3>3
  <2> QED
    BY <1>4, <2>1 DEF Placed, Holding
<1> DEFINE m == [ml[k] EXCEPT !.blocked = Append(@, e)]
           l == [ml EXCEPT ![k] = m]
<1>12. mutex_list' = [mutex_list EXCEPT ![p] = l]
  BY <1>3, <1>5
<1>13. Queued(p, ml)
  BY <1>3, MutexesOf DEF Placed
<1>14. ml[k] \in Mutex /\ ml[k].blocked \in Seq(TCB)
  <2>1. ml[k] \in Mutex
    OBVIOUS
  <2> QED
    BY <2>1 DEF Mutex
<1>15. m \in Mutex /\ m.blocked = Append(ml[k].blocked, e) /\ m.tcb # NoTcb
  <2>1. Append(ml[k].blocked, e) \in Seq(TCB) /\ m = [ml[k] EXCEPT !.blocked = Append(ml[k].blocked, e)]
    BY <1>14
  <2>2. PICK b \in Seq(TCB) : b = Append(ml[k].blocked, e)
    BY <2>1
  <2>3. m = [ml[k] EXCEPT !.blocked = b]
    BY <2>1, <2>2
  <2>4. m \in Mutex /\ m.blocked = b /\ m.tcb = ml[k].tcb
    BY <1>14, <2>3 DEF Mutex
  <2> QED
    BY <1>5, <2>2, <2>4
<1>16. \A i \in 1 .. Len(ml) : e \notin ToSet(ml[i].blocked)
  BY <1>6, <1>13 DEF Queued
<1>17. ToSet(m.blocked) = ToSet(ml[k].blocked) \cup {e} /\ IsInjective(m.blocked)
  BY <1>13, <1>14, <1>15, <1>16, Appended DEF Queued
<1> HIDE DEF m
<1>18. /\ l \in Seq(Mutex) /\ Len(l) = Len(ml) /\ l[k] = m
       /\ \A i \in 1 .. Len(ml) : i # k => l[i] = ml[i]
  BY <1>15
<1> HIDE DEF l
<1>19. Queued(p, l)'
  <2>1. ASSUME NEW i \in 1 .. Len(l)
        PROVE  /\ IsInjective(l[i].blocked) /\ ToSet(l[i].blocked) \subseteq TCB
               /\ l[i].tcb = NoTcb => l[i].blocked = <<>>
    <3>1. CASE i = k
      <4>1. ToSet(ml[k].blocked) \subseteq TCB
        BY <1>13 DEF Queued
      <4>2. l[i] = m
        BY <1>18, <3>1
      <4> QED
        BY <1>15, <1>17, <4>1, <4>2
    <3>2. CASE i # k
      BY <1>13, <1>18, <3>2 DEF Queued
    <3> QED
      BY <3>1, <3>2
  <2>2. ASSUME NEW i \in 1 .. Len(l), NEW t \in ToSet(l[i].blocked)
        PROVE  /\ t[1] = p /\ Blocked(t, "MUTEX_LOCK")'
               /\ \A j \in 1 .. Len(l) : t \in ToSet(l[j].blocked) => j = i
    <3>1. CASE t = e
      BY <1>2, <1>8, <1>16, <1>17, <1>18, <2>2, <3>1
    <3>2. CASE t # e
      <4>1. \A j \in 1 .. Len(ml) : t \in ToSet(l[j].blocked) <=> t \in ToSet(ml[j].blocked)
        BY <1>17, <1>18, <3>2
      <4>2. i \in 1 .. Len(ml) /\ t \in ToSet(ml[i].blocked) /\ t \in TCB \ {e}
        BY <1>18, <2>1, <2>2, <3>2, <4>1
      <4> QED
        BY <1>8, <1>13, <1>18, <4>1, <4>2 DEF Queued
    <3> QED
      BY <3>1, <3>2
  <2>3. ASSUME NEW t \in TCB, t[1] = p, Blocked(t, "MUTEX_LOCK")'
        PROVE  \E i \in 1 .. Len(l) : t \in ToSet(l[i].blocked)
    <3>1. CASE t = e
      BY <1>17, <1>18, <3>1
    <3>2. CASE t # e
      <4>1. PICK i \in 1 .. Len(ml) : t \in ToSet(ml[i].blocked)
        BY <1>8, <1>13, <2>3, <3>2 DEF Queued
      <4> QED
        BY <1>17, <1>18, <4>1
    <3> QED
      BY <3>1, <3>2
  <2> QED
    BY <2>1, <2>2, <2>3 DEF Queued
<1>20. Mutexes'
  <2>1. \A t \in TCB : t[1] # p
            => (Blocked(t, "MUTEX_LOCK")' <=> Blocked(t, "MUTEX_LOCK"))
    BY <1>2, <1>8
  <2> QED
    BY <1>12, <1>18, <1>19, <2>1, MutexesReplaced DEF Placed
<1> QED
  BY <1>9, <1>10, <1>11, <1>20 DEF Placed

\* The mutexes of S are handed over, and those who get one no longer wait.
LEMMA HandedOver ==
  ASSUME NEW p \in Pids, NEW ml \in Seq(Mutex), Queued(p, ml), NEW S \in SUBSET (1 .. Len(ml)),
         NEW l \in Seq(Mutex), Len(l) = Len(ml),
         \A i \in 1 .. Len(ml) : l[i] = IF i \in S THEN HandOver(ml[i]) ELSE ml[i],
         \A t \in TCB : t[1] = p =>
            (Blocked(t, "MUTEX_LOCK")' <=>
                /\ Blocked(t, "MUTEX_LOCK")
                /\ \A i \in S : ml[i].blocked # <<>> => t # Head(ml[i].blocked))
  PROVE  Queued(p, l)'
<1>1. ASSUME NEW i \in 1 .. Len(ml)
      PROVE  /\ IsInjective(l[i].blocked) /\ ToSet(l[i].blocked) \subseteq ToSet(ml[i].blocked)
             /\ l[i].tcb = NoTcb => l[i].blocked = <<>>
             /\ \A t : t \in ToSet(l[i].blocked) <=>
                    /\ t \in ToSet(ml[i].blocked)
                    /\ i \in S /\ ml[i].blocked # <<>> => t # Head(ml[i].blocked)
  <2>1. ml[i] \in Mutex /\ ml[i].blocked \in Seq(TCB) /\ IsInjective(ml[i].blocked)
    <3>1. ml[i] \in Mutex
      OBVIOUS
    <3> QED
      BY <3>1 DEF Mutex, Queued
  <2>2. CASE i \notin S
    BY <2>2 DEF Queued
  <2>3. CASE i \in S /\ ml[i].blocked = <<>>
    <3>1. l[i].blocked = ml[i].blocked
      BY <2>1, <2>3 DEF HandOver, Mutex
    <3> QED
      BY <2>1, <2>3, <3>1
  <2>4. CASE i \in S /\ ml[i].blocked # <<>>
    <3>1. l[i].blocked = Tail(ml[i].blocked) /\ l[i].tcb = Head(ml[i].blocked)
      BY <2>1, <2>4 DEF HandOver, Mutex
    <3>2. Head(ml[i].blocked) # NoTcb
      BY <2>1, <2>4, TcbIs
    <3> QED
      BY <2>1, <2>4, <3>1, <3>2, HeadRemoved
  <2> QED
    BY <2>2, <2>3, <2>4
<1>2. ASSUME NEW i \in 1 .. Len(ml), NEW t \in ToSet(l[i].blocked)
      PROVE  /\ t[1] = p /\ Blocked(t, "MUTEX_LOCK")'
             /\ \A j \in 1 .. Len(ml) : t \in ToSet(l[j].blocked) => j = i
  <2>1. /\ t \in TCB /\ t[1] = p /\ Blocked(t, "MUTEX_LOCK")
        /\ \A j \in 1 .. Len(ml) : t \in ToSet(ml[j].blocked) => j = i
    BY <1>1, <1>2 DEF Queued
  <2>2. ASSUME NEW j \in S, ml[j].blocked # <<>> PROVE t # Head(ml[j].blocked)
    <3>1. ml[j] \in Mutex
      OBVIOUS
    <3>2. Head(ml[j].blocked) \in ToSet(ml[j].blocked)
      BY <2>2, <3>1, HeadRemoved DEF Mutex, Queued
    <3>3. ASSUME t = Head(ml[j].blocked) PROVE FALSE
      <4>1. j = i
        BY <2>1, <3>2, <3>3
      <4> QED
        BY <1>1, <1>2, <2>2, <3>3, <4>1
    <3> QED
      BY <3>3
  <2> QED
    BY <1>1, <2>1, <2>2
<1>3. ASSUME NEW t \in TCB, t[1] = p, Blocked(t, "MUTEX_LOCK")'
      PROVE  \E i \in 1 .. Len(ml) : t \in ToSet(l[i].blocked)
  <2>1. PICK i \in 1 .. Len(ml) : t \in ToSet(ml[i].blocked)
    BY <1>3 DEF Queued
  <2> QED
    BY <1>1, <1>3, <2>1
<1>4. \A i \in 1 .. Len(l) : ToSet(l[i].blocked) \subseteq TCB
  BY <1>1 DEF Queued
<1> QED
  BY <1>1, <1>2, <1>3, <1>4 DEF Queued

\* MUTEX_UNLOCK by the owner: the first to wait, if any, is READY.
LEMMA MutexUnlockPlaced == ASSUME TypeOK, Placed, RHMutexUnlock PROVE Placed'
<1>1. PICK e \in TCB : e = exec
  BY PlacedTypes DEF RHMutexUnlock, Handling
<1>2. PICK p \in Pids : p = e[1]
  BY TcbIs
<1>3. PICK ml \in Seq(Mutex) : ml = mutex_list[p]
  BY PlacedTypes
<1>4. /\ UNCHANGED <<pid_counter, pcb_state, tid_counter, joined_to, joined_tcbs, finished>>
      /\ UNCHANGED <<new, io_block_list, exec, dump, hilos, resident, rel, io_tcb, cpu>>
  BY DEF RHMutexUnlock, rhFrame
<1>5. PICK k \in 1 .. Len(ml) :
         /\ mutex_list' = [mutex_list EXCEPT ![p][k] = HandOver(ml[k])]
         /\ IF ml[k].blocked = <<>>
            THEN KeepsCpu(sem) /\ UNCHANGED <<state, block_type, ready>>
            ELSE /\ state' = [state EXCEPT ![Head(ml[k].blocked)] = "READY"]
                 /\ block_type' = [block_type EXCEPT ![Head(ml[k].blocked)] = "INSTRUCTION"]
                 /\ ready' = Append(ready, Head(ml[k].blocked))
                 /\ KeepsCpu(Post(sem, {"ready"}))
  BY <1>1, <1>2, <1>3 DEF RHMutexUnlock
<1> DEFINE l == [ml EXCEPT ![k] = HandOver(ml[k])]
<1>6. mutex_list' = [mutex_list EXCEPT ![p] = l]
  BY <1>3, <1>5
<1>7. Queued(p, ml) /\ state[e] = "EXEC"
  BY <1>1, <1>3, MutexesOf, Executing, TcbIs DEF Placed
<1>8. ml[k] \in Mutex /\ ml[k].blocked \in Seq(TCB) /\ HandOver(ml[k]) \in Mutex
  <2>1. ml[k] \in Mutex
    OBVIOUS
  <2> QED
    BY <2>1, HandOverTyped DEF Mutex
<1>9. /\ l \in Seq(Mutex) /\ Len(l) = Len(ml)
      /\ \A i \in 1 .. Len(ml) : l[i] = IF i \in {k} THEN HandOver(ml[i]) ELSE ml[i]
  BY <1>8
<1> HIDE DEF l
<1>10. CASE ml[k].blocked = <<>>
  <2>1. KeepsCpu(sem) /\ UNCHANGED <<state, block_type, ready>>
    BY <1>5, <1>10
  <2>2. \A t \in TCB : /\ Alive(t)' <=> Alive(t)
                       /\ \A why : Blocked(t, why)' <=> Blocked(t, why)
    BY <2>1 DEF Alive, Blocked
  <2>3. Turn' /\ rh' = "wait"
    <3>1. state'[exec] = "EXEC"
      BY <1>1, <1>7, <2>1
    <3> QED
      BY <1>4, <2>1, <3>1, KeepsTurn DEF Placed
  <2>4. Births' /\ Memory' /\ Finishing' /\ Joins'
    BY <1>4, <2>1, <2>2, <2>3, SameBirths, SameMemory, SameFinishing, SameJoins DEF Placed
  <2>5. Holding'
    <3>1. \A t \in TCB : InDump(t)' <=> InDump(t)
      BY <1>4 DEF InDump
    <3> QED
      BY <1>4, <2>1, <3>1, SameHolding DEF Placed
  <2>6. Queued(p, l)'
    <3>1. {k} \in SUBSET (1 .. Len(ml))
      OBVIOUS
    <3>2. \A t \in TCB : t[1] = p =>
            (Blocked(t, "MUTEX_LOCK")' <=>
                /\ Blocked(t, "MUTEX_LOCK")
                /\ \A i \in {k} : ml[i].blocked # <<>> => t # Head(ml[i].blocked))
      BY <1>10, <2>2
    <3> QED
      BY <1>7, <1>9, <3>1, <3>2, HandedOver
  <2>7. Mutexes'
    BY <1>6, <1>9, <2>2, <2>6, MutexesReplaced DEF Placed
  <2> QED
    BY <2>3, <2>4, <2>5, <2>7 DEF Placed
<1>11. CASE ml[k].blocked # <<>>
  <2>1. PICK h \in TCB : h = Head(ml[k].blocked)
    BY <1>8, <1>11
  <2>2. /\ state' = [state EXCEPT ![h] = "READY"]
        /\ block_type' = [block_type EXCEPT ![h] = "INSTRUCTION"]
        /\ ready' = Append(ready, h) /\ KeepsCpu(Post(sem, {"ready"}))
    BY <1>5, <1>11, <2>1
  <2>3. Blocked(h, "MUTEX_LOCK") /\ h[1] = p
    <3>1. h \in ToSet(ml[k].blocked)
      BY <1>7, <1>8, <1>11, <2>1, HeadRemoved DEF Queued
    <3> QED
      BY <1>7, <3>1 DEF Queued
  <2>4. /\ state'[h] = "READY" /\ block_type'[h] = "INSTRUCTION"
        /\ \A t \in TCB \ {h} : state'[t] = state[t] /\ block_type'[t] = block_type[t]
    BY <2>2, PlacedTypes
  <2>5. /\ \A t \in TCB \ {h} : /\ Alive(t)' <=> Alive(t)
                                /\ \A why : Blocked(t, why)' <=> Blocked(t, why)
        /\ Alive(h) /\ Alive(h)' /\ ~Blocked(h, "THREAD_JOIN") /\ \A why : ~Blocked(h, why)'
    BY <2>3, <2>4 DEF Alive, Blocked
  <2>6. Turn' /\ rh' = "wait"
    <3>1. state'[exec] = "EXEC" /\ \A t \in TCB : state'[t] = "EXEC" => state[t] = "EXEC"
      BY <1>1, <1>7, <2>3, <2>4 DEF Blocked
    <3>2. \E T : Post(sem, {"ready"}) = Post(sem, T) /\ "response" \notin T
      BY "response" \notin {"ready"}
    <3> QED
      BY <1>4, <2>2, <3>1, <3>2, KeepsTurn DEF Placed
  <2>7. Births' /\ Memory' /\ Finishing' /\ Joins'
    <3>1. \A t \in TCB : /\ state'[t] = "NULL_STATE" <=> state[t] = "NULL_STATE"
                         /\ Alive(t)' <=> Alive(t)
                         /\ Blocked(t, "THREAD_JOIN")' <=> Blocked(t, "THREAD_JOIN")
      BY <2>3, <2>4, <2>5 DEF Blocked
    <3> QED
      BY <1>4, <2>6, <3>1, SameBirths, SameMemory, SameFinishing, SameJoins DEF Placed
  <2>8. /\ h \notin ToSet(ready) /\ ~InIo(h) /\ ~InDump(h) /\ finished[h] = 0
    BY <2>3 DEF Placed, Holding, Hands, Blocked
  <2>9. ToSet(ready') = ToSet(ready) \cup {h} /\ IsInjective(ready')
    <3>1. ready \in Seq(TCB) /\ IsInjective(ready)
      BY PlacedTypes DEF Placed, Holding
    <3> QED
      BY <2>2, <2>8, <3>1, Appended
  <2>10. Holding'
    <3>1. ASSUME NEW t \in TCB PROVE Hands(t)'
      <4>1. Hands(t) /\ (InIo(t)' <=> InIo(t)) /\ (InDump(t)' <=> InDump(t))
        BY <1>4 DEF Placed, Holding, InIo, InDump
      <4>2. CASE t = h
        BY <1>4, <2>4, <2>8, <2>9, <4>1, <4>2 DEF Hands, Blocked
      <4>3. CASE t # h
        BY <1>4, <2>4, <2>9, <4>1, <4>3, OtherHands
      <4> QED
        BY <4>2, <4>3
    <3> QED
      BY <1>4, <2>9, <3>1 DEF Placed, Holding
  <2>11. Queued(p, l)'
    <3>1. {k} \in SUBSET (1 .. Len(ml))
      OBVIOUS
    <3>2. \A t \in TCB : t[1] = p =>
            (Blocked(t, "MUTEX_LOCK")' <=>
                /\ Blocked(t, "MUTEX_LOCK")
                /\ \A i \in {k} : ml[i].blocked # <<>> => t # Head(ml[i].blocked))
      BY <1>11, <2>1, <2>5
    <3> QED
      BY <1>7, <1>9, <3>1, <3>2, HandedOver
  <2>12. Mutexes'
    <3>1. \A t \in TCB : t[1] # p
            => (Blocked(t, "MUTEX_LOCK")' <=> Blocked(t, "MUTEX_LOCK"))
      BY <2>3, <2>5
    <3> QED
      BY <1>6, <1>9, <2>11, <3>1, MutexesReplaced DEF Placed
  <2> QED
    BY <2>6, <2>7, <2>10, <2>12 DEF Placed
<1> QED
  BY <1>10, <1>11

-----------------------------------------------------------------------------
(* Joins *)

\* THREAD_JOIN of a thread that has not finished, maybe the running one.
LEMMA JoinPlaced == ASSUME TypeOK, Placed, RHThreadJoin PROVE Placed'
<1>1. PICK e \in TCB : e = exec
  BY PlacedTypes DEF RHThreadJoin, Handling
<1>2. PICK i : i = ret.arg
  OBVIOUS
<1>3. PICK g \in TCB : g = <<e[1], i>>
  <2>1. <<e[1], i>> \in Threads(e[1]) /\ e[1] \in Pids
    BY <1>1, <1>2, TcbIs DEF RHThreadJoin
  <2> QED
    BY <2>1, ThreadsIs
<1>4. /\ state[g] # "EXIT" /\ <<e[1], i>> \in Threads(e[1])
      /\ joined_to' = [joined_to EXCEPT ![e] = i]
      /\ joined_tcbs' = [joined_tcbs EXCEPT ![g] = Append(@, e)]
      /\ block_type' = [block_type EXCEPT ![e] = "THREAD_JOIN"]
      /\ state' = [state EXCEPT ![e] = "BLOCK"]
      /\ exec' = NoTcb /\ rh' = "ack"
      /\ UNCHANGED <<pid_counter, pcb_state, tid_counter, mutex_list, finished>>
      /\ UNCHANGED <<new, ready, io_block_list, dump, hilos, resident, rel, io_tcb, cpu, ret>>
  BY <1>1, <1>2, <1>3 DEF RHThreadJoin, LosesCpu, rhFrame, pcbVars
<1>5. /\ state[e] = "EXEC" /\ Alive(e) /\ (\A why : ~Blocked(e, why))
      /\ e \notin ToSet(ready) /\ ~InIo(e) /\ ~InDump(e) /\ finished[e] = 0
      /\ \A t \in TCB \ {e} : state[t] # "EXEC"
  BY <1>1, Executing, TcbIs
<1>6. /\ state'[e] = "BLOCK" /\ block_type'[e] = "THREAD_JOIN"
      /\ \A t \in TCB \ {e} : state'[t] = state[t] /\ block_type'[t] = block_type[t]
  BY <1>4, PlacedTypes
<1>7. /\ \A t \in TCB \ {e} : /\ Alive(t)' <=> Alive(t)
                              /\ \A why : Blocked(t, why)' <=> Blocked(t, why)
      /\ Alive(e)' /\ ~Blocked(e, "MUTEX_LOCK")' /\ Blocked(e, "THREAD_JOIN")'
  BY <1>6 DEF Alive, Blocked
<1>8. Births' /\ Memory' /\ Finishing' /\ Mutexes'
  <2>1. \A t \in TCB : /\ state'[t] = "NULL_STATE" <=> state[t] = "NULL_STATE"
                       /\ Alive(t)' <=> Alive(t)
                       /\ Blocked(t, "MUTEX_LOCK")' <=> Blocked(t, "MUTEX_LOCK")
    BY <1>5, <1>6, <1>7
  <2> QED
    BY <1>4, <2>1, SameBirths, SameMemory, SameFinishing, SameMutexes DEF Placed
<1>9. Turn'
  BY <1>4, <1>5, <1>6, Stopped DEF Placed
<1>10. Holding'
  <2>1. ASSUME NEW t \in TCB PROVE Hands(t)'
    <3>1. Hands(t) /\ (InIo(t)' <=> InIo(t)) /\ (InDump(t)' <=> InDump(t))
      BY <1>4 DEF Placed, Holding, InIo, InDump
    <3>2. CASE t = e
      BY <1>4, <1>5, <1>6, <3>1, <3>2 DEF Hands, Blocked
    <3>3. CASE t # e
      BY <1>4, <1>6, <3>1, <3>3, OtherHands
    <3> QED
      BY <3>2, <3>3
  <2> QED
    BY <1>4, <2>1 DEF Placed, Holding
<1>11. /\ i \in Tids /\ i # NoTid /\ Alive(g) /\ g[1] = e[1] /\ g[2] = i
  <2>1. g[1] \in Pids /\ g[2] \in Tids /\ g = <<g[1], g[2]>>
    BY TcbIs
  <2>2. g[2] < tid_counter[g[1]]
    BY <1>3, <1>4, ThreadsIs, TcbIs
  <2>3. state[g] # "NULL_STATE"
    BY <2>2 DEF Placed, Births
  <2>4. Alive(g)
    BY <1>4, <2>3, PlacedTypes DEF Alive
  <2>5. g[1] = e[1] /\ g[2] = i
    BY <1>3
  <2> QED
    BY <2>1, <2>4, <2>5, TcbIs
<1>12. /\ joined_to'[e] = i /\ \A t \in TCB \ {e} : joined_to'[t] = joined_to[t]
       /\ joined_tcbs'[g] = Append(joined_tcbs[g], e)
       /\ \A t \in TCB \ {g} : joined_tcbs'[t] = joined_tcbs[t]
  BY <1>4, PlacedTypes
<1>13. \A t \in TCB : e \notin ToSet(joined_tcbs[t])
  BY <1>5 DEF Placed, Joins
<1>14. ToSet(joined_tcbs'[g]) = ToSet(joined_tcbs[g]) \cup {e} /\ IsInjective(joined_tcbs'[g])
  <2>1. joined_tcbs[g] \in Seq(TCB) /\ IsInjective(joined_tcbs[g])
    BY PlacedTypes DEF Placed, Joins
  <2> QED
    BY <1>12, <1>13, <2>1, Appended
<1>15. Joins'
  <2>1. \A t \in TCB : IsInjective(joined_tcbs'[t])
    BY <1>12, <1>14 DEF Placed, Joins
  <2>2. ASSUME NEW t \in TCB, NEW u \in ToSet(joined_tcbs'[t])
        PROVE  Blocked(u, "THREAD_JOIN")' /\ u[1] = t[1] /\ joined_to'[u] = t[2]
    <3>1. CASE u = e
      <4>1. t = g
        BY <1>12, <1>13, <2>2, <3>1
      <4> QED
        BY <1>7, <1>11, <1>12, <3>1, <4>1
    <3>2. CASE u # e
      <4>1. u \in ToSet(joined_tcbs[t]) /\ u \in TCB \ {e}
        BY <1>12, <1>14, <2>2, <3>2, Elements
      <4> QED
        BY <1>7, <1>12, <4>1 DEF Placed, Joins
    <3> QED
      BY <3>1, <3>2
  <2>3. ASSUME NEW t \in TCB, Blocked(t, "THREAD_JOIN")', NEW w, w = <<t[1], joined_to'[t]>>
        PROVE  joined_to'[t] # NoTid /\ Alive(w)' /\ t \in ToSet(joined_tcbs'[w])
    <3>1. CASE t = e
      <4>1. w = g /\ Alive(g)'
        BY <1>3, <1>7, <1>11, <1>12, <2>3, <3>1
      <4> QED
        BY <1>11, <1>12, <1>14, <3>1, <4>1
    <3>2. CASE t # e
      <4>1. /\ w = <<t[1], joined_to[t]>> /\ joined_to[t] # NoTid
            /\ Alive(w) /\ t \in ToSet(joined_tcbs[w])
        BY <1>7, <1>12, <2>3, <3>2 DEF Placed, Joins
      <4>2. w \in TCB
        BY <4>1, PlacedTypes, TcbIs
      <4> QED
        BY <1>7, <1>12, <1>14, <3>2, <4>1, <4>2
    <3> QED
      BY <3>1, <3>2
  <2> QED
    BY <2>1, <2>2, <2>3 DEF Joins
<1> QED
  BY <1>8, <1>9, <1>10, <1>15 DEF Placed

-----------------------------------------------------------------------------
(* The end of a process: its threads *)

\* u, if it is a thread, is the one whose dump failed.
LEMMA EndProcessPlaced ==
  ASSUME TypeOK, Placed, NEW p \in Pids, NEW u, EndProcess(p, u), pcb_state[p] = "EXEC",
         UNCHANGED <<pid_counter, tid_counter, mutex_list, new, ready, io_block_list, io_tcb,
                     hilos, resident, rel>>,
         u = NoTcb \/ (u \in TCB /\ u[1] = p /\ InDump(u) /\ ~InDump(u)'),
         \A t \in TCB \ {u} : InDump(t)' <=> InDump(t)
  PROVE  /\ Births' /\ Memory' /\ Mutexes' /\ Joins' /\ Holding'
         /\ pcb_state'[p] = "EXIT" /\ \A q \in Pids \ {p} : pcb_state'[q] = pcb_state[q]
         /\ rel[p] = -1
         /\ \A t \in TCB : state'[t] = IF t[1] = p /\ Alive(t) THEN "EXIT" ELSE state[t]
         /\ exec' = IF exec # NoTcb /\ exec[1] = p THEN NoTcb ELSE exec
<1> DEFINE Live(t) == t \in Threads(p) /\ state[t] # "EXIT"
           Joining(t) == Live(t) /\ Blocked(t, "THREAD_JOIN")
<1>1. \A t : Live(t) <=> t \in TCB /\ t[1] = p /\ Alive(t)
  <2>1. \A t \in TCB : t[1] = p => (t[2] < tid_counter[p] <=> state[t] # "NULL_STATE")
    BY DEF Placed, Births
  <2>2. \A t \in TCB : state[t] # "EXIT" /\ state[t] # "NULL_STATE" <=> Alive(t)
    BY PlacedTypes DEF Alive
  <2> QED
    BY <2>1, <2>2, ThreadsIs
<1>2. /\ \A t \in TCB : Live(t) => ~Blocked(t, "MUTEX_LOCK")
      /\ pcb_state' = [pcb_state EXCEPT ![p] = "EXIT"]
      /\ \A t \in TCB :
            /\ state'[t] = IF Live(t) THEN "EXIT" ELSE state[t]
            /\ block_type'[t] = IF Joining(t) \/ (t = u /\ Live(t))
                                THEN "INSTRUCTION" ELSE block_type[t]
            /\ joined_to'[t] = IF Joining(t) THEN NoTid ELSE joined_to[t]
            /\ joined_tcbs'[t] = IF t \in Threads(p) THEN <<>> ELSE joined_tcbs[t]
            /\ finished'[t] = IF t = u \/ (Live(t) /\ ~Delegated(t))
                              THEN finished[t] + 1 ELSE finished[t]
      /\ exec' = IF Live(exec) THEN NoTcb ELSE exec
  BY DEF EndProcess
<1>3. \A t \in Threads(p) : t \in TCB /\ t[1] = p
  BY ThreadsIs
<1> HIDE DEF Live, Joining
<1>4. /\ pcb_state'[p] = "EXIT" /\ \A q \in Pids \ {p} : pcb_state'[q] = pcb_state[q]
      /\ rel[p] = -1
  <2>1. rel[p] = -1
    BY DEF Placed, Memory
  <2> QED
    BY <1>2, <2>1, PlacedTypes
<1>5. ASSUME NEW t \in TCB, t[1] # p
      PROVE  /\ state'[t] = state[t] /\ block_type'[t] = block_type[t]
             /\ joined_to'[t] = joined_to[t] /\ joined_tcbs'[t] = joined_tcbs[t]
             /\ finished'[t] = finished[t] /\ t # u
             /\ Alive(t)' <=> Alive(t)
             /\ \A why : Blocked(t, why)' <=> Blocked(t, why)
  <2>1. ~Live(t) /\ t # u /\ t \notin Threads(p) /\ ~Joining(t)
    BY <1>1, <1>3, <1>5, TcbIs DEF Joining
  <2>2. /\ state'[t] = state[t] /\ block_type'[t] = block_type[t]
        /\ joined_to'[t] = joined_to[t] /\ joined_tcbs'[t] = joined_tcbs[t]
        /\ finished'[t] = finished[t]
    BY <1>2, <2>1
  <2> QED
    BY <2>1, <2>2 DEF Alive, Blocked
<1>6. ASSUME NEW t \in TCB, t[1] = p
      PROVE  /\ ~Alive(t)' /\ (state'[t] = "NULL_STATE" <=> state[t] = "NULL_STATE")
             /\ \A why : ~Blocked(t, why)'
             /\ ~Blocked(t, "MUTEX_LOCK")
             /\ state'[t] = IF Alive(t) THEN "EXIT" ELSE state[t]
  <2>1. Live(t) <=> Alive(t)
    BY <1>1, <1>6
  <2>2. state'[t] = IF Alive(t) THEN "EXIT" ELSE state[t]
    BY <1>2, <2>1
  <2>3. ~Alive(t)' /\ (state'[t] = "NULL_STATE" <=> state[t] = "NULL_STATE")
    BY <2>2 DEF Alive
  <2>4. ~Blocked(t, "MUTEX_LOCK")
    <3>1. Blocked(t, "MUTEX_LOCK") => Alive(t)
      BY DEF Blocked, Alive
    <3> QED
      BY <1>2, <2>1, <3>1
  <2> QED
    BY <2>2, <2>3, <2>4 DEF Blocked, Alive
<1>7. Births'
  <2>1. \A q \in Pids : q >= pid_counter' => pcb_state'[q] = "NONE"
    BY <1>4 DEF Placed, Births
  <2>2. \A q \in Pids : pcb_state'[q] \in {"NONE", "NEW"} => tid_counter'[q] = 0
    BY <1>4 DEF Placed, Births
  <2>3. \A t \in TCB : pcb_state'[t[1]] = "EXIT" => ~Alive(t)'
    <3>1. ASSUME NEW t \in TCB, pcb_state'[t[1]] = "EXIT" PROVE ~Alive(t)'
      <4>1. CASE t[1] = p
        BY <1>6, <4>1
      <4>2. CASE t[1] # p
        BY <1>4, <1>5, <3>1, <4>2, TcbIs DEF Placed, Births
      <4> QED
        BY <4>1, <4>2
    <3> QED
      BY <3>1
  <2>4. IsInjective(new') /\ \A q \in ToSet(new') : pcb_state'[q] = "NEW"
    BY <1>4, Elements DEF Placed, Births
  <2>5. \A t \in TCB : t[2] < tid_counter'[t[1]] <=> state'[t] # "NULL_STATE"
    BY <1>5, <1>6 DEF Placed, Births
  <2> QED
    BY <2>1, <2>2, <2>3, <2>4, <2>5 DEF Births
<1>8. Memory'
  <2>1. \A t \in TCB : Alive(t)' => t \in hilos'
    BY <1>5, <1>6 DEF Placed, Memory
  <2>2. \A t \in hilos' : t[1] \in resident' /\ (Alive(t)' \/ pcb_state'[t[1]] = "EXIT")
    <3>1. ASSUME NEW t \in hilos PROVE Alive(t)' \/ pcb_state'[t[1]] = "EXIT"
      <4>1. t \in TCB /\ t[1] \in Pids
        BY PlacedTypes, TcbIs
      <4>2. CASE t[1] = p
        BY <1>4, <4>2
      <4>3. CASE t[1] # p
        BY <1>4, <1>5, <4>1, <4>3 DEF Placed, Memory
      <4> QED
        BY <4>2, <4>3
    <3> QED
      BY <3>1 DEF Placed, Memory
  <2>3. \A q \in Pids : /\ q \in resident' <=> \/ pcb_state'[q] = "EXEC"
                                               \/ pcb_state'[q] = "EXIT" /\ rel'[q] = -1
                        /\ rel'[q] # -1 => pcb_state'[q] = "EXIT" /\ rel'[q] <= tid_counter'[q]
    BY <1>4 DEF Placed, Memory
  <2> QED
    BY <2>1, <2>2, <2>3 DEF Placed, Memory
<1>9. Mutexes'
  <2>1. \A t \in TCB : Blocked(t, "MUTEX_LOCK")' <=> Blocked(t, "MUTEX_LOCK")
    BY <1>5, <1>6
  <2> QED
    BY <2>1, SameMutexes DEF Placed
<1>10. Joins'
  <2>1. ASSUME NEW t \in TCB, t[1] = p
        PROVE  joined_tcbs'[t] = <<>>
    <3>1. CASE t \in Threads(p)
      BY <1>2, <3>1
    <3>2. CASE t \notin Threads(p)
      <4>1. state[t] = "NULL_STATE"
        BY <2>1, <3>2, ThreadsIs DEF Placed, Births
      <4>2. joined_tcbs[t] = <<>>
        <5>1. ASSUME NEW w \in ToSet(joined_tcbs[t]) PROVE FALSE
          <6>1. w \in TCB /\ Blocked(w, "THREAD_JOIN") /\ w[1] = t[1] /\ joined_to[w] = t[2]
            BY Elements DEF Placed, Joins
          <6>2. Alive(<<w[1], joined_to[w]>>)
            BY <6>1 DEF Placed, Joins
          <6> QED
            BY <4>1, <6>1, <6>2, TcbIs DEF Alive
        <5>2. PICK s \in Seq(TCB) : s = joined_tcbs[t]
          BY PlacedTypes
        <5>3. s # <<>> => 1 \in DOMAIN s
          OBVIOUS
        <5> QED
          BY <5>1, <5>2, <5>3 DEF ToSet
      <4> QED
        BY <1>2, <3>2, <4>2
    <3> QED
      BY <3>1, <3>2
  <2>2. \A t \in TCB : IsInjective(joined_tcbs'[t])
    <3>1. IsInjective(<<>>)
      BY DEF IsInjective
    <3> QED
      BY <1>5, <2>1, <3>1 DEF Placed, Joins
  <2>3. ASSUME NEW t \in TCB, NEW w \in ToSet(joined_tcbs'[t])
        PROVE  Blocked(w, "THREAD_JOIN")' /\ w[1] = t[1] /\ joined_to'[w] = t[2]
    <3>1. t[1] # p
      BY <2>1, <2>3 DEF ToSet
    <3>2. w \in ToSet(joined_tcbs[t]) /\ w \in TCB
      BY <1>5, <2>3, <3>1, Elements
    <3>3. Blocked(w, "THREAD_JOIN") /\ w[1] = t[1] /\ joined_to[w] = t[2]
      BY <3>2 DEF Placed, Joins
    <3> QED
      BY <1>5, <3>1, <3>2, <3>3
  <2>4. ASSUME NEW t \in TCB, Blocked(t, "THREAD_JOIN")', NEW w, w = <<t[1], joined_to'[t]>>
        PROVE  joined_to'[t] # NoTid /\ Alive(w)' /\ t \in ToSet(joined_tcbs'[w])
    <3>1. t[1] # p
      BY <1>6, <2>4
    <3>2. /\ w = <<t[1], joined_to[t]>> /\ joined_to[t] # NoTid
          /\ Alive(w) /\ t \in ToSet(joined_tcbs[w])
      BY <1>5, <2>4, <3>1 DEF Placed, Joins
    <3>3. w \in TCB /\ w[1] # p
      BY <3>1, <3>2, PlacedTypes, TcbIs
    <3> QED
      BY <1>5, <3>1, <3>2, <3>3
  <2> QED
    BY <2>2, <2>3, <2>4 DEF Joins
<1>11. Holding'
  <2>1. ASSUME NEW t \in TCB PROVE Hands(t)'
    <3>1. Hands(t) /\ (InIo(t)' <=> InIo(t)) /\ (Freed(t)' <=> Freed(t)) /\ finished[t] \in Nat
      BY PlacedTypes DEF Placed, Holding, InIo, Freed
    <3>2. t \in ToSet(ready') <=> t \in ToSet(ready)
      OBVIOUS
    <3>3. CASE t[1] # p
      BY <1>5, <3>1, <3>2, <3>3, SameHands
    <3>4. CASE t[1] = p /\ ~Alive(t) /\ t # u
      <4>1. ~Live(t)
        BY <1>1, <3>4
      <4>2. state'[t] = state[t] /\ finished'[t] = finished[t]
        BY <1>2, <3>4, <4>1
      <4>3. \A why : ~Blocked(t, why) /\ ~Blocked(t, why)'
        BY <1>6, <3>4 DEF Blocked, Alive
      <4> QED
        BY <3>1, <3>2, <3>4, <4>2, <4>3, SameHands
    <3>5. CASE t = u /\ ~Alive(t)
      <4>1. ~Live(t) /\ InDump(t) /\ ~InDump(t)'
        BY <1>1, <3>5, TcbIs
      <4>2. state'[t] = state[t] /\ finished'[t] = finished[t] + 1
        BY <1>2, <3>5, <4>1
      <4>3. state[t] = "EXIT"
        BY <3>1, <4>1, <3>5 DEF Hands, Blocked, Alive
      <4> QED
        BY <3>1, <3>2, <4>1, <4>2, <4>3 DEF Hands, Count
    <3>6. CASE t[1] = p /\ Alive(t)
      <4>1. Live(t) /\ state[t] # "EXIT" /\ state'[t] = "EXIT"
        BY <1>1, <1>6, <3>6 DEF Alive
      <4>2. ~Freed(t)
        BY <1>4, <3>6, TcbIs DEF Freed
      <4>3. /\ finished[t] = 0
            /\ t \in ToSet(ready) <=> state[t] = "READY"
            /\ InIo(t) <=> Blocked(t, "IO")
            /\ InDump(t) <=> Blocked(t, "DUMP_MEMORY")
        BY <3>1, <4>1 DEF Hands
      <4>4. CASE t = u
        <5>1. InDump(t) /\ ~InDump(t)' /\ finished'[t] = 1
          BY <1>2, <4>3, <4>4, TcbIs
        <5>2. t \notin ToSet(ready) /\ ~InIo(t)
          BY <4>3, <5>1 DEF Blocked
        <5> QED
          BY <3>1, <3>2, <4>1, <4>2, <5>1, <5>2 DEF Hands, Count
      <4>5. CASE t # u
        <5>1. InDump(t)' <=> InDump(t)
          BY <4>5
        <5>2. finished'[t] = IF Delegated(t) THEN 0 ELSE 1
          BY <1>2, <4>1, <4>3, <4>5
        <5>3. Count(t \in ToSet(ready)) + Count(InIo(t)) + Count(InDump(t))
                 = IF Delegated(t) THEN 1 ELSE 0
          BY <4>3 DEF Delegated, Blocked, Count
        <5> QED
          BY <3>1, <3>2, <4>1, <4>2, <5>1, <5>2, <5>3 DEF Hands, Count
      <4> QED
        BY <4>4, <4>5
    <3> QED
      BY <3>3, <3>4, <3>5, <3>6, TcbIs
  <2> QED
    BY <2>1 DEF Placed, Holding
<1>12. exec' = IF exec # NoTcb /\ exec[1] = p THEN NoTcb ELSE exec
  <2>1. exec # NoTcb => exec \in TCB /\ Alive(exec)
    BY Executing
  <2> QED
    BY <1>1, <1>2, <2>1, TcbIs
<1> QED
  BY <1>4, <1>5, <1>6, <1>7, <1>8, <1>9, <1>10, <1>11, <1>12

\* PROCESS_EXIT, and a fault of the running thread.
LEMMA ProcessExitPlaced ==
  ASSUME TypeOK, Placed, RHProcessExit \/ RHSegfault PROVE Placed'
<1>1. PICK e \in TCB : e = exec
  BY PlacedTypes DEF RHProcessExit, RHSegfault, Handling
<1>2. PICK p \in Pids : p = e[1]
  BY TcbIs
<1>3. /\ EndProcess(p, NoTcb) /\ rh' = "finish"
      /\ UNCHANGED <<pid_counter, tid_counter, mutex_list, new, ready, io_block_list, io_tcb,
                     hilos, resident, rel>>
      /\ UNCHANGED <<dump, ret, cpu>>
  BY <1>1, <1>2 DEF RHProcessExit, RHSegfault, rhFrame
<1>4. /\ pcb_state[p] = "EXEC" /\ state[e] = "EXEC" /\ Alive(e) /\ e = cpu
      /\ \A t \in TCB \ {e} : state[t] # "EXEC"
  BY <1>1, <1>2, Executing, TcbIs
<1>5. \A t \in TCB \ {NoTcb} : InDump(t)' <=> InDump(t)
  BY <1>3 DEF InDump
<1>6. /\ Births' /\ Memory' /\ Mutexes' /\ Joins' /\ Holding'
      /\ pcb_state'[p] = "EXIT" /\ \A q \in Pids \ {p} : pcb_state'[q] = pcb_state[q]
      /\ rel[p] = -1
      /\ \A t \in TCB : state'[t] = IF t[1] = p /\ Alive(t) THEN "EXIT" ELSE state[t]
      /\ exec' = IF exec # NoTcb /\ exec[1] = p THEN NoTcb ELSE exec
  BY <1>3, <1>4, <1>5, EndProcessPlaced
<1>7. Turn'
  <2>1. exec' = NoTcb
    BY <1>1, <1>2, <1>6
  <2>2. \A t \in TCB : state'[t] # "EXEC"
    BY <1>2, <1>4, <1>6
  <2> QED
    BY <1>3, <2>1, <2>2, Stopped DEF Placed
<1>8. Finishing'
  <2>1. cpu' # NoTcb /\ pcb_state'[cpu'[1]] = "EXIT" /\ rel'[cpu'[1]] = -1
    BY <1>2, <1>3, <1>4, <1>6, TcbIs
  <2>2. ASSUME NEW t \in TCB, dump'[t] = "finish"
        PROVE  /\ pcb_state'[t[1]] = "EXIT" /\ rel'[t[1]] = -1
               /\ cpu'[1] # t[1]
               /\ \A u \in TCB : dump'[u] = "finish" /\ u[1] = t[1] => u = t
    <3>1. /\ dump[t] = "finish" /\ pcb_state[t[1]] = "EXIT" /\ rel[t[1]] = -1
          /\ \A u \in TCB : dump[u] = "finish" /\ u[1] = t[1] => u = t
      BY <1>3, <2>2 DEF Placed, Finishing
    <3>2. t[1] \in Pids \ {p}
      BY <1>4, <3>1, TcbIs
    <3> QED
      BY <1>2, <1>3, <1>4, <1>6, <3>1, <3>2
  <2> QED
    BY <2>1, <2>2 DEF Finishing
<1> QED
  BY <1>6, <1>7, <1>8 DEF Placed

\* A failed dump ends the process of u, whoever is running.
LEMMA DumpFailedPlaced == ASSUME TypeOK, Placed, NEW u \in TCB, DumpFailed(u) PROVE Placed'
<1>1. PICK p \in Pids : p = u[1]
  BY TcbIs
<1>2. /\ dump[u] = "errorHeld" /\ pcb_state[p] # "EXIT" /\ EndProcess(p, u)
      /\ dump' = [dump EXCEPT ![u] = "finish"]
      /\ UNCHANGED <<pid_counter, tid_counter, mutex_list, new, ready, io_block_list, io_tcb,
                     hilos, resident, rel>>
      /\ UNCHANGED <<sem, rh, ret, cpu>>
  BY <1>1 DEF DumpFailed, memVars, cpuVars
<1>3. dump'[u] = "finish" /\ \A t \in TCB \ {u} : dump'[t] = dump[t]
  BY <1>2, PlacedTypes
<1>4. /\ InDump(u) /\ ~InDump(u)'
      /\ \A t \in TCB \ {u} : InDump(t)' <=> InDump(t)
  BY <1>2, <1>3 DEF InDump
<1>5. pcb_state[p] = "EXEC"
  <2>1. state[u] # "NULL_STATE"
    BY <1>4 DEF Placed, Holding, Hands, Blocked
  <2>2. u[2] < tid_counter[p] /\ u[2] \in Nat
    BY <1>1, <2>1, TcbIs DEF Placed, Births
  <2>3. pcb_state[p] \notin {"NONE", "NEW"}
    BY <2>2 DEF Placed, Births
  <2> QED
    BY <1>2, <2>3, PlacedTypes
<1>6. /\ Births' /\ Memory' /\ Mutexes' /\ Joins' /\ Holding'
      /\ pcb_state'[p] = "EXIT" /\ \A q \in Pids \ {p} : pcb_state'[q] = pcb_state[q]
      /\ rel[p] = -1
      /\ \A t \in TCB : state'[t] = IF t[1] = p /\ Alive(t) THEN "EXIT" ELSE state[t]
      /\ exec' = IF exec # NoTcb /\ exec[1] = p THEN NoTcb ELSE exec
  BY <1>1, <1>2, <1>4, <1>5, EndProcessPlaced
<1>7. Turn'
  <2>1. exec' # NoTcb => exec' = exec /\ exec \in TCB /\ exec[1] # p
    BY <1>6, PlacedTypes
  <2>2. \A t \in TCB : state'[t] = "EXEC" => state[t] = "EXEC" /\ t[1] # p
    BY <1>6 DEF Alive
  <2>3. exec' # NoTcb => state'[exec'] = "EXEC" /\ exec' = cpu'
    BY <1>2, <1>6, <2>1 DEF Placed, Turn
  <2>4. \A t \in TCB : state'[t] = "EXEC" => exec' = t
    BY <1>6, <2>2 DEF Placed, Turn
  <2> QED
    BY <1>2, <1>6, <2>1, <2>3, <2>4 DEF Placed, Turn
<1>8. Finishing'
  <2>1. rh' = "finish" => /\ cpu' # NoTcb /\ pcb_state'[cpu'[1]] = "EXIT" /\ rel'[cpu'[1]] = -1
                          /\ cpu'[1] # p
    <3>1. rh = "finish" => cpu \in TCB /\ cpu[1] \in Pids \ {p}
      BY <1>5, PlacedTypes, TcbIs DEF Placed, Finishing
    <3> QED
      BY <1>2, <1>6, <3>1 DEF Placed, Finishing
  <2>2. ASSUME NEW t \in TCB, dump'[t] = "finish"
        PROVE  /\ pcb_state'[t[1]] = "EXIT" /\ rel'[t[1]] = -1
               /\ rh' = "finish" => cpu'[1] # t[1]
               /\ \A w \in TCB : dump'[w] = "finish" /\ w[1] = t[1] => w = t
    <3>1. \A w \in TCB \ {u} : dump'[w] = "finish"
            => /\ dump[w] = "finish" /\ pcb_state[w[1]] = "EXIT" /\ rel[w[1]] = -1
               /\ w[1] \in Pids \ {p}
      BY <1>3, <1>5, TcbIs DEF Placed, Finishing
    <3>2. CASE t = u
      BY <1>1, <1>2, <1>6, <2>1, <3>1, <3>2
    <3>3. CASE t # u
      BY <1>1, <1>2, <1>3, <1>6, <2>2, <3>1, <3>3 DEF Placed, Finishing
    <3> QED
      BY <3>2, <3>3
  <2> QED
    BY <2>1, <2>2 DEF Finishing
<1> QED
  BY <1>6, <1>7, <1>8 DEF Placed

-----------------------------------------------------------------------------
(* The end of a thread *)

\* Who is woken by the end of t: the first to wait for each mutex t has, and those
\* that join t.
Owned(t) == {i \in 1 .. Len(mutex_list[t[1]]) : mutex_list[t[1]][i].tcb = t}
Heirs(t) == {Head(Waiters(t[1], i)) : i \in {i \in Owned(t) : Waiters(t[1], i) # <<>>}}
Awake(t) == Heirs(t) \cup ToSet(joined_tcbs[t])

LEMMA AwakeIs ==
  ASSUME TypeOK, Placed, NEW t \in TCB
  PROVE  /\ \A u \in Heirs(t) : /\ u \in TCB /\ u[1] = t[1] /\ Alive(u)
                                /\ Blocked(u, "MUTEX_LOCK") /\ ~Blocked(u, "THREAD_JOIN")
         /\ \A u \in ToSet(joined_tcbs[t]) :
               /\ u \in TCB /\ u[1] = t[1] /\ Alive(u) /\ joined_to[u] = t[2]
               /\ Blocked(u, "THREAD_JOIN") /\ ~Blocked(u, "MUTEX_LOCK")
<1>1. ASSUME NEW u \in Heirs(t)
      PROVE  u \in TCB /\ u[1] = t[1] /\ Blocked(u, "MUTEX_LOCK")
  <2>1. PICK i \in 1 .. Len(mutex_list[t[1]]) :
           Waiters(t[1], i) # <<>> /\ u = Head(Waiters(t[1], i))
    BY <1>1 DEF Heirs, Owned
  <2>2. t[1] \in Pids
    BY TcbIs
  <2>3. Waiters(t[1], i) \in Seq(TCB) /\ IsInjective(Waiters(t[1], i))
    BY <2>2, Elements DEF Placed, Mutexes
  <2>4. u \in ToSet(Waiters(t[1], i))
    BY <2>1, <2>3, HeadRemoved
  <2> QED
    BY <2>2, <2>4, Elements DEF Placed, Mutexes
<1>2. \A u \in ToSet(joined_tcbs[t]) :
         u \in TCB /\ u[1] = t[1] /\ joined_to[u] = t[2] /\ Blocked(u, "THREAD_JOIN")
  BY Elements DEF Placed, Joins
<1> QED
  BY <1>1, <1>2 DEF Blocked, Alive

\* What EndThread does when it wakes the threads of a list.
EndsWaking(t, s, woken) ==
    LET mutexes == mutex_list[t[1]]
        awake == ToSet(woken)
        joining == Blocked(t, "THREAD_JOIN") /\ t \notin awake
    IN
    /\ Blocked(t, "MUTEX_LOCK") => t \in awake
    /\ hilos' = hilos \ {t}
    /\ mutex_list' = [mutex_list EXCEPT ![t[1]] = [i \in 1 .. Len(mutexes) |->
                        IF i \in Owned(t) THEN HandOver(mutexes[i]) ELSE mutexes[i]]]
    /\ state' = [u \in TCB |-> IF u = t THEN "EXIT"
                               ELSE IF u \in awake THEN "READY" ELSE state[u]]
    /\ block_type' = [u \in TCB |-> IF u \in awake \/ (u = t /\ joining) THEN "INSTRUCTION"
                                    ELSE block_type[u]]
    /\ joined_to' = IF joining THEN [joined_to EXCEPT ![t] = NoTid] ELSE joined_to
    /\ joined_tcbs' = [u \in TCB |-> IF u = t THEN <<>>
                        ELSE IF joining /\ u = <<t[1], joined_to[t]>>
                             THEN Without(joined_tcbs[u], t) ELSE joined_tcbs[u]]
    /\ ready' = ready \o woken
    /\ sem' = [s EXCEPT !["ready"] = @ + Len(woken)]
    /\ finished' = IF t \in awake \/ Delegated(t) THEN finished
                   ELSE [finished EXCEPT ![t] = @ + 1]
    /\ exec' = IF state[t] = "EXEC" THEN NoTcb ELSE exec

LEMMA EndThreadWakesAwake ==
  ASSUME TypeOK, Placed, NEW t \in TCB, NEW s, EndThread(t, s)
  PROVE  \E woken \in Seq(TCB) :
            EndsWaking(t, s, woken) /\ ToSet(woken) = Awake(t) /\ IsInjective(woken)
<1> DEFINE p == t[1]
           ml == mutex_list[p]
           taken == {i \in 1 .. Len(ml) : ml[i].tcb = t}
           passed == {i \in taken : ml[i].blocked # <<>>}
           Heads(n, w) == [k \in 1 .. n |-> Head(ml[w[k]].blocked)]
<1>1. \E n \in 0 .. Len(ml) : \E w \in [1 .. n -> passed] :
         Ascending(passed, w) /\ EndsWaking(t, s, Heads(n, w) \o joined_tcbs[t])
  BY DEF EndThread, EndsWaking, Owned
<1>2. p \in Pids /\ ml \in Seq(Mutex) /\ Queued(p, ml)
  BY TcbIs, PlacedTypes, MutexesOf DEF Placed
<1>3. \A i \in passed : /\ i \in 1 .. Len(ml) /\ Head(ml[i].blocked) \in TCB
                        /\ Head(ml[i].blocked) \in ToSet(ml[i].blocked)
  <2>1. ASSUME NEW i \in passed
        PROVE  /\ i \in 1 .. Len(ml) /\ Head(ml[i].blocked) \in TCB
               /\ Head(ml[i].blocked) \in ToSet(ml[i].blocked)
    <3>1. i \in 1 .. Len(ml) /\ ml[i].blocked # <<>>
      OBVIOUS
    <3>2. ml[i] \in Mutex
      BY <1>2, <3>1
    <3> HIDE DEF ml
    <3> QED
      BY <1>2, <3>1, <3>2, HeadRemoved DEF Mutex, Queued
  <2> QED
    BY <2>1
<1>4. Owned(t) = taken /\ \A u : u \in Heirs(t) <=> \E i \in passed : u = Head(ml[i].blocked)
  BY DEF Owned, Heirs, Waiters
<1>5. passed \subseteq Int /\ ml = mutex_list[t[1]] /\ Len(ml) \in Nat
  BY <1>2
<1> HIDE DEF taken, passed, ml, p
<1>6. ASSUME NEW i \in passed, NEW j \in passed, Head(ml[i].blocked) = Head(ml[j].blocked)
      PROVE  i = j
  <2>1. \A x \in ToSet(ml[j].blocked) : \A m \in 1 .. Len(ml) : x \in ToSet(ml[m].blocked) => m = j
    BY <1>2, <1>3 DEF Queued
  <2> QED
    BY <1>3, <1>6, <2>1
<1>7. PICK n \in 0 .. Len(ml) : \E w \in [1 .. n -> passed] :
         Ascending(passed, w) /\ EndsWaking(t, s, Heads(n, w) \o joined_tcbs[t])
  BY <1>1
<1>8. PICK w \in [1 .. n -> passed] :
         Ascending(passed, w) /\ EndsWaking(t, s, Heads(n, w) \o joined_tcbs[t])
  BY <1>7
<1>9. n \in Nat
  BY <1>5
<1>10. /\ \A k \in 1 .. n : w[k] \in passed
       /\ \A j, k \in 1 .. n : w[j] = w[k] => j = k
       /\ \A i \in passed : \E k \in 1 .. n : w[k] = i
  <2>1. /\ \A j, k \in 1 .. n : j < k => w[j] < w[k]
        /\ \A i \in passed : \E k \in 1 .. n : w[k] = i
    BY <1>8 DEF Ascending
  <2>2. ASSUME NEW j \in 1 .. n, NEW k \in 1 .. n, w[j] = w[k] PROVE j = k
    <3>1. w[j] \in Int /\ w[k] \in Int
      BY <1>5
    <3> QED
      BY <1>9, <2>1, <2>2, <3>1
  <2> QED
    BY <2>1, <2>2
<1> DEFINE a == Heads(n, w)
           woken == a \o joined_tcbs[t]
<1>11. a \in Seq(TCB) /\ DOMAIN a = 1 .. n /\ \A k \in 1 .. n : a[k] = Head(ml[w[k]].blocked)
  <2>1. \A k \in 1 .. n : Head(ml[w[k]].blocked) \in TCB
    BY <1>3, <1>10
  <2> QED
    BY <1>9, <2>1
<1> HIDE DEF a, Heads
<1>12. ToSet(a) = Heirs(t) /\ IsInjective(a)
  <2>1. IsInjective(a)
    <3>1. ASSUME NEW j \in 1 .. n, NEW k \in 1 .. n, a[j] = a[k] PROVE j = k
      BY <1>6, <1>10, <1>11, <3>1
    <3> QED
      BY <1>11, <3>1 DEF IsInjective
  <2>2. \A u : u \in ToSet(a) <=> \E k \in 1 .. n : u = a[k]
    BY <1>11 DEF ToSet
  <2>3. ASSUME NEW u, u \in ToSet(a) PROVE u \in Heirs(t)
    <3>1. PICK k \in 1 .. n : u = a[k]
      BY <2>2, <2>3
    <3> QED
      BY <1>4, <1>10, <1>11, <3>1
  <2>4. ASSUME NEW u, u \in Heirs(t) PROVE u \in ToSet(a)
    <3>1. PICK i \in passed : u = Head(ml[i].blocked)
      BY <1>4, <2>4
    <3>2. PICK k \in 1 .. n : w[k] = i
      BY <1>10
    <3> QED
      BY <1>11, <2>2, <3>1, <3>2
  <2> QED
    BY <2>1, <2>3, <2>4
<1>13. joined_tcbs[t] \in Seq(TCB) /\ IsInjective(joined_tcbs[t])
  BY PlacedTypes DEF Placed, Joins
<1>14. ToSet(a) \cap ToSet(joined_tcbs[t]) = {}
  BY <1>12, AwakeIs
<1>15. woken \in Seq(TCB) /\ ToSet(woken) = Awake(t) /\ IsInjective(woken)
  BY <1>11, <1>12, <1>13, <1>14, Joined, Concatenated DEF Awake
<1>16. EndsWaking(t, s, woken)
  BY <1>8 DEF a
<1> QED
  BY <1>15, <1>16

\* The end of t, threads and lists.
LEMMA EndThreadPlaced ==
  ASSUME TypeOK, Placed, NEW t \in TCB, Alive(t), NEW s, EndThread(t, s),
         UNCHANGED <<pid_counter, pcb_state, tid_counter, new, io_block_list, io_tcb, dump,
                     resident, rel>>
  PROVE  /\ Births' /\ Memory' /\ Mutexes' /\ Joins' /\ Holding'
         /\ \A u \in TCB : u # t /\ state[u] # "EXIT" => state'[u] # "EXIT"
         /\ \A u \in TCB : state[u] = "EXIT" => state'[u] = "EXIT"
         /\ state'[t] = "EXIT"
         /\ \A u \in TCB : u # t => (state'[u] = "EXEC" <=> state[u] = "EXEC")
         /\ exec' = IF state[t] = "EXEC" THEN NoTcb ELSE exec
         /\ \E n \in Nat : sem' = [s EXCEPT !["ready"] = @ + n]
<1>1. PICK woken \in Seq(TCB) :
         EndsWaking(t, s, woken) /\ ToSet(woken) = Awake(t) /\ IsInjective(woken)
  BY EndThreadWakesAwake
<1>2. PICK p \in Pids : p = t[1]
  BY TcbIs
<1>3. PICK A : A = Awake(t)
  OBVIOUS
<1>4. PICK joining \in BOOLEAN : joining <=> (Blocked(t, "THREAD_JOIN") /\ t \notin A)
  OBVIOUS
<1>5. /\ \A u \in A : u \in TCB /\ u[1] = p /\ Alive(u)
                      /\ (Blocked(u, "MUTEX_LOCK") \/ Blocked(u, "THREAD_JOIN"))
      /\ \A u \in TCB : u \in A /\ Blocked(u, "MUTEX_LOCK") => u \in Heirs(t)
      /\ \A u \in TCB : u \in A /\ Blocked(u, "THREAD_JOIN") => u \in ToSet(joined_tcbs[t])
      /\ \A u \in Heirs(t) : u \in A /\ Blocked(u, "MUTEX_LOCK")
      /\ \A u \in ToSet(joined_tcbs[t]) : u \in A
  BY <1>2, <1>3, AwakeIs DEF Awake
<1>6. /\ Blocked(t, "MUTEX_LOCK") => t \in A
      /\ hilos' = hilos \ {t}
      /\ mutex_list' = [mutex_list EXCEPT ![p] = [i \in 1 .. Len(mutex_list[p]) |->
                          IF i \in Owned(t) THEN HandOver(mutex_list[p][i])
                          ELSE mutex_list[p][i]]]
      /\ \A u \in TCB :
            /\ state'[u] = IF u = t THEN "EXIT" ELSE IF u \in A THEN "READY" ELSE state[u]
            /\ block_type'[u] = IF u \in A \/ (u = t /\ joining) THEN "INSTRUCTION"
                                ELSE block_type[u]
            /\ joined_tcbs'[u] = IF u = t THEN <<>>
                                 ELSE IF joining /\ u = <<p, joined_to[t]>>
                                      THEN Without(joined_tcbs[u], t) ELSE joined_tcbs[u]
      /\ \A u \in TCB \ {t} : joined_to'[u] = joined_to[u]
      /\ ready' = ready \o woken
      /\ sem' = [s EXCEPT !["ready"] = @ + Len(woken)]
      /\ finished' = IF t \in A \/ Delegated(t) THEN finished
                     ELSE [finished EXCEPT ![t] = @ + 1]
      /\ exec' = IF state[t] = "EXEC" THEN NoTcb ELSE exec
  <2>1. /\ Blocked(t, "MUTEX_LOCK") => t \in A
        /\ hilos' = hilos \ {t}
        /\ mutex_list' = [mutex_list EXCEPT ![p] = [i \in 1 .. Len(mutex_list[p]) |->
                            IF i \in Owned(t) THEN HandOver(mutex_list[p][i])
                            ELSE mutex_list[p][i]]]
        /\ state' = [u \in TCB |-> IF u = t THEN "EXIT"
                                   ELSE IF u \in A THEN "READY" ELSE state[u]]
        /\ block_type' = [u \in TCB |-> IF u \in A \/ (u = t /\ joining) THEN "INSTRUCTION"
                                        ELSE block_type[u]]
        /\ joined_to' = IF joining THEN [joined_to EXCEPT ![t] = NoTid] ELSE joined_to
        /\ joined_tcbs' = [u \in TCB |-> IF u = t THEN <<>>
                            ELSE IF joining /\ u = <<p, joined_to[t]>>
                                 THEN Without(joined_tcbs[u], t) ELSE joined_tcbs[u]]
        /\ ready' = ready \o woken
        /\ sem' = [s EXCEPT !["ready"] = @ + Len(woken)]
        /\ finished' = IF t \in A \/ Delegated(t) THEN finished
                       ELSE [finished EXCEPT ![t] = @ + 1]
        /\ exec' = IF state[t] = "EXEC" THEN NoTcb ELSE exec
    BY <1>1, <1>2, <1>3, <1>4 DEF EndsWaking
  <2>2. \A u \in TCB \ {t} : joined_to'[u] = joined_to[u]
    BY <2>1, PlacedTypes
  <2> QED
    BY <2>1, <2>2
<1>7. \A u \in TCB \ {t} : /\ finished'[u] = finished[u]
                           /\ Alive(u)' <=> Alive(u)
                           /\ u \notin A => state'[u] = state[u] /\ block_type'[u] = block_type[u]
                           /\ u \in A => state'[u] = "READY" /\ \A why : ~Blocked(u, why)'
                           /\ u \notin A => \A why : Blocked(u, why)' <=> Blocked(u, why)
  <2>1. \A u \in TCB \ {t} : finished'[u] = finished[u]
    BY <1>6, PlacedTypes
  <2>2. \A u \in TCB \ {t} : u \notin A => state'[u] = state[u] /\ block_type'[u] = block_type[u]
    BY <1>6
  <2>3. \A u \in TCB \ {t} : u \in A => state'[u] = "READY"
    BY <1>6
  <2> QED
    BY <1>5, <2>1, <2>2, <2>3 DEF Alive, Blocked
<1>8. state'[t] = "EXIT" /\ ~Alive(t)' /\ \A why : ~Blocked(t, why)'
  BY <1>6 DEF Alive, Blocked
<1>9. Births'
  <2>1. \A u \in TCB : /\ state'[u] = "NULL_STATE" <=> state[u] = "NULL_STATE"
                       /\ Alive(u)' => Alive(u)
    BY <1>5, <1>7, <1>8 DEF Alive
  <2> QED
    BY <2>1, SameBirths DEF Placed
<1>10. Memory'
  <2>1. \A u \in TCB : Alive(u)' => u \in hilos'
    BY <1>6, <1>7, <1>8 DEF Placed, Memory
  <2>2. ASSUME NEW u \in hilos'
        PROVE  u[1] \in resident' /\ (Alive(u)' \/ pcb_state'[u[1]] = "EXIT")
    <3>1. u \in hilos /\ u \in TCB \ {t}
      BY <1>6, PlacedTypes
    <3>2. u[1] \in resident /\ (Alive(u) \/ pcb_state[u[1]] = "EXIT")
      BY <3>1 DEF Placed, Memory
    <3> QED
      BY <1>7, <3>1, <3>2
  <2> QED
    BY <2>1, <2>2 DEF Placed, Memory
<1>11. Mutexes'
  <2>1. PICK ml \in Seq(Mutex) : ml = mutex_list[p]
    BY PlacedTypes
  <2>2. PICK S \in SUBSET (1 .. Len(ml)) : S = Owned(t)
    BY <1>2, <2>1 DEF Owned
  <2> DEFINE l == [i \in 1 .. Len(ml) |-> IF i \in S THEN HandOver(ml[i]) ELSE ml[i]]
  <2>3. l \in Seq(Mutex) /\ Len(l) = Len(ml)
        /\ \A i \in 1 .. Len(ml) : l[i] = IF i \in S THEN HandOver(ml[i]) ELSE ml[i]
    <3>1. \A i \in 1 .. Len(ml) : ml[i] \in Mutex /\ HandOver(ml[i]) \in Mutex
      BY HandOverTyped
    <3> QED
      BY <3>1
  <2>4. mutex_list' = [mutex_list EXCEPT ![p] = l]
    BY <1>6, <2>1, <2>2
  <2> HIDE DEF l
  <2>5. Queued(p, ml)
    BY <2>1, MutexesOf DEF Placed
  <2>6. \A u : u \in Heirs(t) <=> \E i \in S : ml[i].blocked # <<>> /\ u = Head(ml[i].blocked)
    BY <1>2, <2>1, <2>2 DEF Heirs, Waiters
  <2>7. \A u \in TCB : Blocked(u, "MUTEX_LOCK")' <=> Blocked(u, "MUTEX_LOCK") /\ u \notin Heirs(t)
    <3>1. ASSUME NEW u \in TCB
          PROVE  Blocked(u, "MUTEX_LOCK")' <=> Blocked(u, "MUTEX_LOCK") /\ u \notin Heirs(t)
      <4>1. CASE u = t
        BY <1>5, <1>6, <1>8, <4>1
      <4>2. CASE u # t /\ u \in A
        BY <1>5, <1>7, <4>2
      <4>3. CASE u # t /\ u \notin A
        BY <1>5, <1>7, <4>3
      <4> QED
        BY <4>1, <4>2, <4>3
    <3> QED
      BY <3>1
  <2>8. Queued(p, l)'
    <3>1. \A u \in TCB : u[1] = p =>
            (Blocked(u, "MUTEX_LOCK")' <=>
                /\ Blocked(u, "MUTEX_LOCK")
                /\ \A i \in S : ml[i].blocked # <<>> => u # Head(ml[i].blocked))
      BY <2>6, <2>7
    <3> QED
      BY <2>3, <2>5, <3>1, HandedOver
  <2>9. \A u \in TCB : u[1] # p => (Blocked(u, "MUTEX_LOCK")' <=> Blocked(u, "MUTEX_LOCK"))
    BY <1>5, <2>7
  <2> QED
    BY <2>3, <2>4, <2>8, <2>9, MutexesReplaced DEF Placed
<1>12. ASSUME NEW v \in TCB, v # t
       PROVE  /\ ToSet(joined_tcbs'[v]) = ToSet(joined_tcbs[v]) \ {t}
              /\ IsInjective(joined_tcbs'[v])
  <2>1. joined_tcbs[v] \in Seq(TCB) /\ IsInjective(joined_tcbs[v])
    BY PlacedTypes DEF Placed, Joins
  <2>2. CASE joining /\ v = <<p, joined_to[t]>>
    <3>1. joined_tcbs'[v] = Without(joined_tcbs[v], t)
      BY <1>6, <1>12, <2>2
    <3> QED
      BY <2>1, <3>1, Taken
  <2>3. CASE ~(joining /\ v = <<p, joined_to[t]>>)
    <3>1. joined_tcbs'[v] = joined_tcbs[v]
      BY <1>6, <1>12, <2>3
    <3>2. ASSUME t \in ToSet(joined_tcbs[v]) PROVE FALSE
      <4>1. Blocked(t, "THREAD_JOIN") /\ t[1] = v[1] /\ joined_to[t] = v[2]
        BY <3>2 DEF Placed, Joins
      <4>2. v = <<p, joined_to[t]>>
        BY <1>2, <4>1, TcbIs
      <4>3. t \in A
        BY <1>4, <2>3, <4>1, <4>2
      <4>4. joined_to[t] = t[2]
        BY <1>5, <4>1, <4>3 DEF Placed, Joins
      <4> QED
        BY <1>2, <1>12, <4>2, <4>4, TcbIs
    <3> QED
      BY <2>1, <3>1, <3>2
  <2> QED
    BY <2>2, <2>3
<1>13. Joins'
  <2>1. joined_tcbs'[t] = <<>> /\ IsInjective(<<>>) /\ ToSet(<<>>) = {}
    BY <1>6 DEF IsInjective, ToSet
  <2>2. \A v \in TCB : IsInjective(joined_tcbs'[v])
    BY <1>12, <2>1
  <2>3. ASSUME NEW v \in TCB, NEW u \in ToSet(joined_tcbs'[v])
        PROVE  Blocked(u, "THREAD_JOIN")' /\ u[1] = v[1] /\ joined_to'[u] = v[2]
    <3>1. v # t
      BY <2>1, <2>3
    <3>2. u \in ToSet(joined_tcbs[v]) /\ u \in TCB \ {t}
      BY <1>12, <2>3, <3>1, Elements
    <3>3. Blocked(u, "THREAD_JOIN") /\ u[1] = v[1] /\ joined_to[u] = v[2]
      BY <3>2 DEF Placed, Joins
    <3>4. u \notin A
      <4>1. ASSUME u \in A PROVE FALSE
        <5>1. u \in ToSet(joined_tcbs[t])
          BY <1>5, <3>2, <3>3, <4>1
        <5>2. u[1] = t[1] /\ joined_to[u] = t[2]
          BY <5>1 DEF Placed, Joins
        <5>3. t[1] = v[1] /\ t[2] = v[2] /\ t = <<t[1], t[2]>> /\ v = <<v[1], v[2]>>
          BY <3>3, <5>2, TcbIs
        <5> QED
          BY <3>1, <5>3
      <4> QED
        BY <4>1
    <3> QED
      BY <1>6, <1>7, <3>2, <3>3, <3>4
  <2>4. ASSUME NEW v \in TCB, Blocked(v, "THREAD_JOIN")', NEW g, g = <<v[1], joined_to'[v]>>
        PROVE  joined_to'[v] # NoTid /\ Alive(g)' /\ v \in ToSet(joined_tcbs'[g])
    <3>1. v # t /\ v \notin A /\ Blocked(v, "THREAD_JOIN")
      BY <1>7, <1>8, <2>4
    <3>2. joined_to'[v] = joined_to[v]
      BY <1>6, <3>1
    <3>3. joined_to[v] # NoTid /\ Alive(g) /\ v \in ToSet(joined_tcbs[g])
      BY <2>4, <3>1, <3>2 DEF Placed, Joins
    <3>4. g \in TCB
      BY <2>4, <3>2, <3>3, PlacedTypes, TcbIs
    <3>5. g # t
      BY <1>5, <3>1, <3>3
    <3> QED
      BY <1>7, <1>12, <3>1, <3>2, <3>3, <3>4, <3>5
  <2> QED
    BY <2>2, <2>3, <2>4 DEF Joins
<1>14. /\ \A u \in A : u \notin ToSet(ready) /\ ~InIo(u) /\ ~InDump(u) /\ finished[u] = 0
       /\ ToSet(ready') = ToSet(ready) \cup A /\ IsInjective(ready')
  <2>1. ASSUME NEW u \in A
        PROVE  u \notin ToSet(ready) /\ ~InIo(u) /\ ~InDump(u) /\ finished[u] = 0
    <3>1. u \in TCB /\ (Blocked(u, "MUTEX_LOCK") \/ Blocked(u, "THREAD_JOIN"))
      BY <1>5
    <3>2. Hands(u)
      BY <3>1 DEF Placed, Holding
    <3> QED
      BY <3>1, <3>2 DEF Hands, Blocked
  <2>2. ready \in Seq(TCB) /\ IsInjective(ready)
    BY PlacedTypes DEF Placed, Holding
  <2>3. ToSet(woken) = A /\ IsInjective(woken) /\ ToSet(ready) \cap ToSet(woken) = {}
    BY <1>1, <1>3, <2>1
  <2> QED
    BY <1>6, <2>1, <2>2, <2>3, Joined
<1>15. Holding'
  <2>1. ASSUME NEW u \in TCB PROVE Hands(u)'
    <3>1. /\ Hands(u) /\ (InIo(u)' <=> InIo(u)) /\ (InDump(u)' <=> InDump(u))
          /\ (Freed(u)' <=> Freed(u)) /\ finished[u] \in Nat
      BY PlacedTypes DEF Placed, Holding, InIo, InDump, Freed
    <3>2. CASE u # t /\ u \notin A
      BY <1>7, <1>14, <3>1, <3>2, SameHands
    <3>3. CASE u # t /\ u \in A
      <4>1. state'[u] = "READY" /\ (\A why : ~Blocked(u, why)') /\ finished'[u] = 0
        BY <1>7, <1>14, <3>3
      <4>2. u \in ToSet(ready') /\ ~InIo(u)' /\ ~InDump(u)'
        BY <1>14, <3>1, <3>3
      <4> QED
        BY <4>1, <4>2 DEF Hands
    <3>4. CASE u = t
      <4>1. state[t] # "EXIT"
        BY DEF Alive
      <4>2. /\ finished[t] = 0
            /\ t \in ToSet(ready) <=> state[t] = "READY"
            /\ InIo(t) <=> Blocked(t, "IO")
            /\ InDump(t) <=> Blocked(t, "DUMP_MEMORY")
        BY <3>1, <3>4, <4>1 DEF Hands
      <4>3. ~Freed(t)
        <5>1. rel[p] = -1
          BY <1>2 DEF Placed, Memory, Births
        <5> QED
          BY <1>2, <5>1, TcbIs DEF Freed
      <4>4. CASE t \in A
        <5>1. finished'[t] = 0 /\ t \in ToSet(ready')
          BY <1>6, <1>14, <4>2, <4>4
        <5>2. ~InIo(t) /\ ~InDump(t)
          BY <1>14, <4>4
        <5> QED
          BY <1>8, <3>1, <3>4, <4>3, <5>1, <5>2 DEF Hands, Count
      <4>5. CASE t \notin A
        <5>1. finished'[t] = IF Delegated(t) THEN 0 ELSE 1
          BY <1>6, <4>2, <4>5, PlacedTypes
        <5>2. t \in ToSet(ready') <=> t \in ToSet(ready)
          BY <1>14, <4>5
        <5>3. Count(t \in ToSet(ready)) + Count(InIo(t)) + Count(InDump(t))
                 = IF Delegated(t) THEN 1 ELSE 0
          BY <4>2 DEF Delegated, Blocked, Count
        <5> QED
          BY <1>8, <3>1, <3>4, <4>3, <5>1, <5>2, <5>3 DEF Hands, Count
      <4> QED
        BY <4>4, <4>5
    <3> QED
      BY <3>2, <3>3, <3>4
  <2> QED
    BY <1>14, <2>1 DEF Placed, Holding
<1>16. /\ \A u \in TCB : u # t /\ state[u] # "EXIT" => state'[u] # "EXIT"
       /\ \A u \in TCB : state[u] = "EXIT" => state'[u] = "EXIT"
       /\ \A u \in TCB : u # t => (state'[u] = "EXEC" <=> state[u] = "EXEC")
  <2>1. \A u \in A : state[u] # "EXIT" /\ state[u] # "EXEC"
    BY <1>5 DEF Blocked
  <2> QED
    BY <1>6, <2>1
<1>17. \E n \in Nat : sem' = [s EXCEPT !["ready"] = @ + n]
  <2>1. Len(woken) \in Nat
    OBVIOUS
  <2> QED
    BY <1>6, <2>1
<1>18. exec' = IF state[t] = "EXEC" THEN NoTcb ELSE exec
  BY <1>6
<1> QED
  BY <1>8, <1>9, <1>10, <1>11, <1>13, <1>15, <1>16, <1>17, <1>18

\* THREAD_EXIT: the running thread ends and the CPU stops.
LEMMA ThreadExitPlaced == ASSUME TypeOK, Placed, RHThreadExit PROVE Placed'
<1>1. PICK t \in TCB : t = exec
  BY PlacedTypes DEF RHThreadExit, Handling
<1>2. /\ EndThread(t, sem) /\ rh' = "ack"
      /\ UNCHANGED <<pid_counter, pcb_state, tid_counter, new, io_block_list, io_tcb, dump,
                     resident, rel>>
      /\ UNCHANGED <<cpu, ret>>
  BY <1>1 DEF RHThreadExit, rhFrame
<1>3. state[t] = "EXEC" /\ Alive(t) /\ \A u \in TCB \ {t} : state[u] # "EXEC"
  BY <1>1, Executing, TcbIs
<1>4. /\ Births' /\ Memory' /\ Mutexes' /\ Joins' /\ Holding'
      /\ state'[t] = "EXIT"
      /\ \A u \in TCB : u # t => (state'[u] = "EXEC" <=> state[u] = "EXEC")
      /\ exec' = IF state[t] = "EXEC" THEN NoTcb ELSE exec
  BY <1>2, <1>3, EndThreadPlaced
<1>5. Turn'
  BY <1>2, <1>3, <1>4, Stopped DEF Placed
<1>6. Finishing'
  BY <1>2, SameFinishing DEF Placed
<1> QED
  BY <1>4, <1>5, <1>6 DEF Placed

\* THREAD_CANCEL: another thread of the process ends, or the running one, which goes
\* on in the CPU until the CPU notices.
LEMMA ThreadCancelPlaced == ASSUME TypeOK, Placed, RHThreadCancel PROVE Placed'
<1>1. PICK t \in TCB : t = <<exec[1], ret.arg>>
  <2>1. <<exec[1], ret.arg>> \in Threads(exec[1]) /\ exec[1] \in Pids
    BY Executing DEF RHThreadCancel, Handling
  <2> QED
    BY <2>1, ThreadsIs
<1>2. PICK s : s = Post(sem, {"short", "response"})
  OBVIOUS
<1>3. /\ EndThread(t, s) /\ rh' = "wait" /\ ret' = NoReturn /\ exec # NoTcb
      /\ t \in Threads(exec[1]) /\ state[t] # "EXIT"
      /\ UNCHANGED <<pid_counter, pcb_state, tid_counter, new, io_block_list, io_tcb, dump,
                     resident, rel>>
      /\ UNCHANGED cpu
  BY <1>1, <1>2 DEF RHThreadCancel, Handling, rhFrame
<1>4. Alive(t)
  <2>1. exec[1] \in Pids
    BY <1>3, Executing
  <2>2. t[1] = exec[1] /\ t[2] < tid_counter[t[1]]
    BY <1>3, <2>1, ThreadsIs
  <2>3. state[t] # "NULL_STATE"
    BY <2>2 DEF Placed, Births
  <2> QED
    BY <1>3, <2>3, PlacedTypes DEF Alive
<1>5. /\ Births' /\ Memory' /\ Mutexes' /\ Joins' /\ Holding'
      /\ state'[t] = "EXIT"
      /\ \A u \in TCB : u # t => (state'[u] = "EXEC" <=> state[u] = "EXEC")
      /\ exec' = IF state[t] = "EXEC" THEN NoTcb ELSE exec
      /\ \E n \in Nat : sem' = [s EXCEPT !["ready"] = @ + n]
  BY <1>3, <1>4, EndThreadPlaced
<1>6. sem'["response"] > 0
  <2>1. s["response"] = sem["response"] + 1 /\ sem["response"] \in Nat
    BY <1>2, PostResponse
  <2>2. sem'["response"] = s["response"]
    BY <1>5
  <2> QED
    BY <2>1, <2>2
<1>7. Turn'
  <2>1. exec \in TCB /\ state[exec] = "EXEC" /\ exec = cpu
    BY <1>3, Executing
  <2>2. \A u \in TCB : state[u] = "EXEC" => u = exec
    BY DEF Placed, Turn
  <2>3. CASE t = exec
    <3>1. exec' = NoTcb /\ \A u \in TCB : state'[u] # "EXEC"
      BY <1>5, <2>1, <2>2, <2>3
    <3> QED
      BY <1>3, <1>6, <3>1 DEF Turn, NoReturn
  <2>4. CASE t # exec
    <3>1. exec' = exec /\ state'[exec] = "EXEC" /\ \A u \in TCB : state'[u] = "EXEC" => u = exec
      BY <1>5, <2>1, <2>2, <2>4
    <3> QED
      BY <1>3, <1>6, <2>1, <3>1 DEF Turn, NoReturn
  <2> QED
    BY <2>3, <2>4
<1>8. Finishing'
  BY <1>3, SameFinishing DEF Placed
<1> QED
  BY <1>5, <1>7, <1>8 DEF Placed

-----------------------------------------------------------------------------
(* The invariant *)

LEMMA PlacedInit == Init => Placed
<1> SUFFICES ASSUME Init PROVE Placed
  OBVIOUS
<1>1. /\ pid_counter = 1 /\ tid_counter = [p \in Pids |-> 0]
      /\ pcb_state = [p \in Pids |-> IF p = 0 THEN "NEW" ELSE "NONE"]
      /\ mutex_list = [p \in Pids |-> <<>>]
      /\ state = [t \in TCB |-> "NULL_STATE"] /\ joined_tcbs = [t \in TCB |-> <<>>]
      /\ finished = [t \in TCB |-> 0] /\ dump = [t \in TCB |-> "none"]
      /\ rel = [p \in Pids |-> -1]
      /\ new = <<0>> /\ ready = <<>> /\ io_block_list = <<>> /\ exec = NoTcb
      /\ io_tcb = NoTcb /\ resident = {} /\ hilos = {} /\ cpu = NoTcb /\ ret = NoReturn
      /\ rh = "wait"
  BY DEF Init
<1>2. \A t \in TCB : /\ state[t] = "NULL_STATE" /\ ~Alive(t) /\ \A why : ~Blocked(t, why)
                     /\ dump[t] = "none" /\ finished[t] = 0 /\ joined_tcbs[t] = <<>>
  BY <1>1 DEF Alive, Blocked
<1>3. ToSet(<<>>) = {} /\ IsInjective(<<>>)
  BY DEF ToSet, IsInjective
<1>4. Births
  <2>1. IsInjective(new) /\ ToSet(new) = {0}
    BY <1>1 DEF ToSet, IsInjective
  <2>2. 0 \in Pids /\ \A p \in Pids : p \in Nat
    BY BoundsAssumption DEF Pids
  <2>3. \A t \in TCB : ~(t[2] < tid_counter[t[1]])
    BY <1>1, TcbIs
  <2>4. /\ \A p \in Pids : p >= pid_counter => pcb_state[p] = "NONE"
        /\ \A p \in Pids : tid_counter[p] = 0 /\ pcb_state[p] # "EXIT"
        /\ \A p \in ToSet(new) : pcb_state[p] = "NEW"
    BY <1>1, <2>1, <2>2
  <2> QED
    BY <1>2, <2>1, <2>3, <2>4, TcbIs DEF Births
<1>5. Memory
  <2>1. Cardinality(resident) <= Partitions
    BY <1>1, FS_EmptySet, BoundsAssumption
  <2> QED
    BY <1>1, <1>2, <2>1 DEF Memory
<1>6. Finishing
  BY <1>1, <1>2 DEF Finishing
<1>7. Turn
  BY <1>1, <1>2 DEF Turn, NoReturn
<1>8. Mutexes
  BY <1>1, <1>2 DEF Mutexes
<1>9. Joins
  BY <1>2, <1>3 DEF Joins
<1>10. Holding
  <2>1. \A t \in TCB : t \notin ToSet(ready) /\ ~InIo(t) /\ ~InDump(t)
    BY <1>1, <1>2, <1>3, TcbIs DEF InIo, InDump
  <2>2. \A t \in TCB : Hands(t)
    BY <1>2, <2>1 DEF Hands
  <2> QED
    BY <1>1, <1>3, <2>2 DEF Holding
<1> QED
  BY <1>4, <1>5, <1>6, <1>7, <1>8, <1>9, <1>10 DEF Placed

LEMMA PlacedStutters == ASSUME TypeOK, Placed, UNCHANGED vars PROVE Placed'
<1>1. /\ UNCHANGED pcbVars /\ UNCHANGED tcbVars /\ UNCHANGED queueVars /\ UNCHANGED memVars
      /\ UNCHANGED <<rel, io_tcb>> /\ UNCHANGED <<rh, dump, sem>> /\ UNCHANGED cpuVars
  BY DEF vars, pcVars
<1>2. UNCHANGED <<exec, cpu, state, ret>>
  BY <1>1 DEF queueVars, cpuVars, tcbVars
<1>3. Turn'
  BY <1>1, <1>2 DEF Turn, Placed
<1>4. \A t \in TCB : InDump(t)' <=> InDump(t)
  BY <1>1 DEF InDump
<1> QED
  BY <1>1, <1>2, <1>3, <1>4, Quiet

LEMMA PlacedStep ==
  ASSUME Inv, SchedulingToken, Placed, [Next]_vars PROVE Placed'
<1> USE DEF Inv
<1>1. CASE LongTermPlanner
  BY <1>1, LongTermQuiet, CreatePlaced DEF LongTermPlanner
<1>2. CASE ShortTermPlanner
  BY <1>2, ShortTermQuiet, CollectPlaced, DispatchPlaced DEF ShortTermPlanner
<1>3. CASE Cpu
  BY <1>3, CpuQuiet
<1>4. CASE ResponseHandler
  <2>1. CASE Syscall
    <3>1. CASE RHUnlockCrashes \/ RHEndCrashes
      BY <3>1, CrashQuiet DEF RHUnlockCrashes, RHEndCrashes, EndProcessCrashes, EndThreadCrashes
    <3>2. CASE ~(RHUnlockCrashes \/ RHEndCrashes)
      BY <2>1, <3>2, HandlerQuiet, ProcessCreatePlaced, ProcessExitPlaced, ThreadCreatePlaced,
         JoinPlaced, ThreadCancelPlaced, ThreadExitPlaced, MutexTakenPlaced, MutexWaitPlaced,
         MutexUnlockPlaced, DumpAskedPlaced, IoAskedPlaced DEF Syscall
    <3> QED
      BY <3>1, <3>2
  <2>2. CASE RHDoubleFree
    BY <2>2, CrashQuiet DEF RHDoubleFree
  <2> QED
    BY <1>4, <2>1, <2>2, HandlerQuiet, FinishPlaced, InterruptionPlaced, ProcessExitPlaced,
       AckQuiet DEF ResponseHandler
<1>5. CASE IoHandler
  BY <1>5, IoTakePlaced, IoQuiet, IoHandlePlaced DEF IoHandler
<1>6. ASSUME NEW t \in TCB, MemoryDump(t) PROVE Placed'
  <2>1. CASE DumpCrashes(t) \/ DumpEndCrashes(t)
    BY <2>1, CrashQuiet DEF DumpCrashes, DumpEndCrashes, EndProcessCrashes
  <2> QED
    BY <1>6, <2>1, DumpQuiet, DumpDonePlaced, DumpFailedPlaced, DumpFinishPlaced DEF MemoryDump
<1>7. ASSUME NEW p \in Pids, Release(p) PROVE Placed'
  BY <1>7, RelTakePlaced, RelDonePlaced DEF Release
<1>8. CASE UNCHANGED vars
  BY <1>8, PlacedStutters
<1> QED
  BY <1>1, <1>2, <1>3, <1>4, <1>5, <1>6, <1>7, <1>8 DEF Next

\* Every thread and every process is in its place at all times.
THEOREM PlacedAlways == Spec => []Placed
<1>1. Init => Placed
  BY PlacedInit
<1>2. Inv /\ SchedulingToken /\ Placed /\ [Next]_vars => Placed'
  BY PlacedStep
<1> QED
  BY <1>1, <1>2, Invariant, TokenKept, PTL DEF Spec

-----------------------------------------------------------------------------
(* What the invariant gives *)

\* A thread has been created when its state says so.
LEMMA CreatedIs ==
  ASSUME TypeOK, Placed
  PROVE  \A t : t \in Created <=> t \in TCB /\ state[t] # "NULL_STATE"
<1>1. ASSUME NEW t, t \in Created PROVE t \in TCB /\ state[t] # "NULL_STATE"
  <2>1. PICK p \in Pids : t \in Threads(p)
    BY <1>1 DEF Created
  <2> QED
    BY <2>1, ThreadsIs DEF Placed, Births
<1>2. ASSUME NEW t \in TCB, state[t] # "NULL_STATE" PROVE t \in Created
  <2>1. t[1] \in Pids /\ t[2] < tid_counter[t[1]]
    BY <1>2, TcbIs DEF Placed, Births
  <2> QED
    BY <2>1, ThreadsIs DEF Created
<1> QED
  BY <1>1, <1>2

\* A list has a thread once or not at all.
LEMMA PlacesInLists ==
  ASSUME TypeOK, Placed
  PROVE  /\ \A t : Places(ready, t) = Count(t \in ToSet(ready))
         /\ \A g \in TCB : \A t : Places(joined_tcbs[g], t) = Count(t \in ToSet(joined_tcbs[g]))
BY PlacedTypes, PlacesOnce DEF Placed, Holding, Joins

LEMMA PlacedReleased == ASSUME TypeOK, Placed PROVE ReleasedOnce
<1> SUFFICES ASSUME NEW t \in Created
             PROVE  finished[t] + Count(Freed(t)) =
                       IF state[t] # "EXIT" THEN 0
                       ELSE 1 - (Places(ready, t) + Count(InIo(t)) + Count(InDump(t)))
  BY DEF ReleasedOnce
<1>1. t \in TCB /\ state[t] # "NULL_STATE" /\ Hands(t) /\ finished[t] \in Nat
  BY CreatedIs, PlacedTypes DEF Placed, Holding
<1>2. CASE state[t] # "EXIT"
  <2>1. Alive(t)
    BY <1>1, <1>2, PlacedTypes DEF Alive
  <2>2. rel[t[1]] = -1
    BY <1>1, <2>1, TcbIs DEF Placed, Births, Memory
  <2>3. ~Freed(t) /\ finished[t] = 0
    BY <1>1, <1>2, <2>2, TcbIs DEF Freed, Hands
  <2> QED
    BY <1>2, <2>3 DEF Count
<1>3. CASE state[t] = "EXIT"
  <2>1. Places(ready, t) = Count(t \in ToSet(ready))
    BY PlacesInLists
  <2> QED
    BY <1>1, <1>3, <2>1 DEF Hands, Count
<1> QED
  BY <1>2, <1>3

LEMMA PlacedWaiting == ASSUME TypeOK, Placed PROVE WaitingPlace
<1> SUFFICES ASSUME NEW t \in Created, NEW p, p = t[1]
             PROVE
    /\ (state[t] = "EXEC") = (exec = t)
    /\ state[t] # "EXIT" =>
       /\ Places(ready, t) = Count(state[t] = "READY")
       /\ InIo(t) = Blocked(t, "IO")
       /\ InDump(t) = Blocked(t, "DUMP_MEMORY")
       /\ InMutex(t) = Blocked(t, "MUTEX_LOCK")
    /\ Blocked(t, "THREAD_JOIN") => LET target == <<p, joined_to[t]>> IN
          target \in Threads(p) /\ state[target] # "EXIT"
          /\ Places(joined_tcbs[target], t) = 1
    /\ \A i \in DOMAIN joined_tcbs[t] : LET w == joined_tcbs[t][i] IN
          Blocked(w, "THREAD_JOIN") /\ w[1] = p /\ joined_to[w] = t[2]
  BY DEF WaitingPlace
<1>1. t \in TCB /\ Hands(t) /\ t[1] \in Pids
  BY CreatedIs, TcbIs DEF Placed, Holding
<1>2. (state[t] = "EXEC") = (exec = t)
  BY <1>1, TcbIs DEF Placed, Turn
<1>3. ASSUME state[t] # "EXIT"
      PROVE  /\ Places(ready, t) = Count(state[t] = "READY")
             /\ InIo(t) = Blocked(t, "IO")
             /\ InDump(t) = Blocked(t, "DUMP_MEMORY")
  <2>1. Places(ready, t) = Count(t \in ToSet(ready))
    BY PlacesInLists
  <2> QED
    BY <1>1, <1>3, <2>1 DEF Hands, Count, InIo, InDump, Blocked
<1>4. InMutex(t) = Blocked(t, "MUTEX_LOCK")
  <2>1. ASSUME InMutex(t) PROVE Blocked(t, "MUTEX_LOCK")
    <3>1. PICK i \in DOMAIN mutex_list[t[1]] : t \in ToSet(mutex_list[t[1]][i].blocked)
      BY <2>1 DEF InMutex
    <3>2. mutex_list[t[1]] \in Seq(Mutex)
      BY <1>1, PlacedTypes
    <3>3. i \in 1 .. Len(mutex_list[t[1]]) /\ t \in ToSet(Waiters(t[1], i))
      BY <3>1, <3>2 DEF Waiters
    <3> QED
      BY <1>1, <3>3 DEF Placed, Mutexes
  <2> QED
    BY <1>1, <2>1 DEF Placed, Mutexes, InMutex, Blocked
<1>5. ASSUME Blocked(t, "THREAD_JOIN"), NEW g, g = <<p, joined_to[t]>>
      PROVE  g \in Threads(p) /\ state[g] # "EXIT" /\ Places(joined_tcbs[g], t) = 1
  <2>1. joined_to[t] # NoTid /\ Alive(g) /\ t \in ToSet(joined_tcbs[g])
    BY <1>1, <1>5 DEF Placed, Joins
  <2>2. g \in TCB /\ g[1] = p
    BY <1>1, <1>5, <2>1, PlacedTypes, TcbIs
  <2>3. g[2] < tid_counter[g[1]]
    BY <2>1, <2>2 DEF Placed, Births, Alive
  <2>4. Places(joined_tcbs[g], t) = 1
    BY <2>1, <2>2, PlacesInLists DEF Count
  <2> QED
    BY <1>1, <2>1, <2>2, <2>3, <2>4, ThreadsIs DEF Alive
<1>6. ASSUME NEW i \in DOMAIN joined_tcbs[t], NEW w, w = joined_tcbs[t][i]
      PROVE  Blocked(w, "THREAD_JOIN") /\ w[1] = p /\ joined_to[w] = t[2]
  <2>1. w \in ToSet(joined_tcbs[t])
    BY <1>6 DEF ToSet
  <2> QED
    BY <1>1, <2>1 DEF Placed, Joins
<1> QED
  BY <1>2, <1>3, <1>4, <1>5, <1>6

LEMMA PlacedIdle == ASSUME TypeOK, Placed PROVE NoIdleWaiter
<1> SUFFICES ASSUME NEW p \in Pids, NEW i \in DOMAIN mutex_list[p], NEW j \in DOMAIN mutex_list[p]
             PROVE  /\ mutex_list[p][i].tcb = NoTcb => Waiters(p, i) = <<>>
                    /\ \A x \in DOMAIN Waiters(p, i) : \A y \in DOMAIN Waiters(p, j) :
                          Waiters(p, i)[x] = Waiters(p, j)[y] => i = j /\ x = y
  BY DEF NoIdleWaiter, Waiters
<1>1. i \in 1 .. Len(mutex_list[p]) /\ j \in 1 .. Len(mutex_list[p])
  BY PlacedTypes
<1>2. mutex_list[p][i].tcb = NoTcb => Waiters(p, i) = <<>>
  BY <1>1 DEF Placed, Mutexes
<1>3. ASSUME NEW x \in DOMAIN Waiters(p, i), NEW y \in DOMAIN Waiters(p, j),
             Waiters(p, i)[x] = Waiters(p, j)[y]
      PROVE  i = j /\ x = y
  <2>1. Waiters(p, i)[x] \in ToSet(Waiters(p, i)) /\ Waiters(p, i)[x] \in ToSet(Waiters(p, j))
    BY <1>3 DEF ToSet
  <2>2. i = j
    BY <1>1, <2>1 DEF Placed, Mutexes
  <2>3. IsInjective(Waiters(p, i))
    BY <1>1 DEF Placed, Mutexes
  <2> QED
    BY <1>3, <2>2, <2>3 DEF IsInjective
<1> QED
  BY <1>2, <1>3

LEMMA PlacedLive == ASSUME TypeOK, Placed PROVE ExecIsLive
BY Executing DEF ExecIsLive

LEMMA PlacedMemory == ASSUME TypeOK, Placed PROVE MemoryAgrees
<1>1. ASSUME NEW t \in hilos
      PROVE  \/ t \in Created /\ state[t] # "EXIT"
             \/ pcb_state[t[1]] = "EXIT" /\ rel[t[1]] = -1
  <2>1. t \in TCB /\ t[1] \in Pids
    BY PlacedTypes, TcbIs
  <2>2. CASE Alive(t)
    BY <2>1, <2>2, CreatedIs DEF Alive
  <2>3. CASE ~Alive(t)
    BY <2>1, <2>3 DEF Placed, Memory
  <2> QED
    BY <2>2, <2>3
<1>2. ASSUME NEW t \in Created, state[t] # "EXIT" PROVE t \in hilos
  <2>1. t \in TCB /\ Alive(t)
    BY <1>2, CreatedIs, PlacedTypes DEF Alive
  <2> QED
    BY <2>1 DEF Placed, Memory
<1>3. hilos = {t \in Created : state[t] # "EXIT"}
              \cup {t \in hilos : pcb_state[t[1]] = "EXIT" /\ rel[t[1]] = -1}
  BY <1>1, <1>2
<1>4. \A p \in Pids : (p \in resident) = (pcb_state[p] = "EXEC"
                                           \/ (pcb_state[p] = "EXIT" /\ rel[p] = -1))
  BY DEF Placed, Memory
<1> QED
  BY <1>3, <1>4 DEF MemoryAgrees, Placed, Memory

-----------------------------------------------------------------------------
(* EXIT is final *)

\* What ExitIsFinal says of a step.
StatesFinal == \A t \in TCB : state[t] = "EXIT" => state'[t] = "EXIT"
PcbsFinal   == \A p \in Pids : pcb_state[p] = "EXIT" => pcb_state'[p] = "EXIT"

LEMMA OneThreadFinal ==
  ASSUME TypeOK, NEW u \in TCB, state[u] # "EXIT", NEW v, state' = [state EXCEPT ![u] = v]
  PROVE  StatesFinal
BY PlacedTypes DEF StatesFinal

\* The planners: the process that enters memory is NEW, the thread dispatched is not finished.
LEMMA LongTermFinal ==
  ASSUME Inv, Placed, LongTermPlanner PROVE StatesFinal /\ PcbsFinal
<1> USE DEF Inv
<1>1. CASE LTCreate
  <2>1. new # <<>>
    <3>1. lt # "wait" /\ NewCount /\ sem["new"] \in Nat
      BY <1>1, PlacedTypes DEF LTCreate, QueueCounts, SemNames
    <3>2. Len(new) # 0
      BY <3>1 DEF NewCount, Count
    <3> QED
      BY <3>2
  <2>2. PICK p \in Pids : p = Head(new)
    BY <2>1, PlacedTypes
  <2>3. new \in Seq(Pids) /\ IsInjective(new)
    BY PlacedTypes DEF Placed, Births
  <2>4. p \in ToSet(new)
    BY <2>1, <2>2, <2>3, HeadRemoved
  <2>5. pcb_state[p] = "NEW" /\ tid_counter[p] = 0
    BY <2>4 DEF Placed, Births
  <2>6. PICK u \in TCB : u = <<p, 0>> /\ u[1] = p /\ u[2] = 0
    <3>1. 0 \in Tids
      BY BoundsAssumption DEF Tids
    <3> QED
      BY <3>1, TcbIs
  <2>7. state[u] = "NULL_STATE"
    BY <2>5, <2>6 DEF Placed, Births
  <2>8. state' = [state EXCEPT ![u] = "READY"] /\ pcb_state' = [pcb_state EXCEPT ![p] = "EXEC"]
    BY <1>1, <2>2, <2>5, <2>6 DEF LTCreate
  <2> QED
    BY <2>5, <2>7, <2>8, OneThreadFinal, PlacedTypes DEF PcbsFinal
<1>2. CASE LTWait \/ LTLock \/ LTNoMemory \/ LTRetry
  <2>1. UNCHANGED <<state, pcb_state>>
    BY <1>2 DEF LTWait, LTLock, LTNoMemory, LTRetry, pcbVars, tcbVars
  <2> QED
    BY <2>1 DEF StatesFinal, PcbsFinal
<1> QED
  BY <1>1, <1>2 DEF LongTermPlanner

LEMMA ShortTermFinal ==
  ASSUME Inv, Placed, ShortTermPlanner PROVE StatesFinal /\ PcbsFinal
<1> USE DEF Inv
<1>1. UNCHANGED pcb_state
  BY DEF ShortTermPlanner, STPlan, STReady, STLock, STCollect, STDispatch, STQuantum,
     STInterrupt, pcbVars
<1>2. CASE STDispatch
  <2>1. PICK i \in 1 .. Len(ready) : state' = [state EXCEPT ![ready[i]] = "EXEC"]
    BY <1>2 DEF STDispatch
  <2>2. ready[i] \in TCB
    BY <2>1, PlacedTypes
  <2>3. state[ready[i]] # "EXIT"
    BY <1>2, <2>1 DEF STDispatch, Finished
  <2>4. PICK u \in TCB : u = ready[i]
    BY <2>2
  <2> QED
    BY <1>1, <2>1, <2>3, <2>4, OneThreadFinal DEF PcbsFinal
<1>3. CASE ~STDispatch
  <2>1. UNCHANGED state
    BY <1>3 DEF ShortTermPlanner, STPlan, STReady, STLock, STCollect, STQuantum, STInterrupt,
       tcbVars
  <2> QED
    BY <1>1, <2>1 DEF StatesFinal, PcbsFinal
<1> QED
  BY <1>2, <1>3

\* A waiting thread that is done, in the hands of the IO handler or of its dump thread.
LEMMA BackFinal ==
  ASSUME TypeOK, NEW u \in TCB, BackFromBlock(u) PROVE StatesFinal
<1>1. CASE state[u] = "EXIT"
  BY <1>1 DEF BackFromBlock, StatesFinal
<1>2. CASE state[u] # "EXIT"
  <2>1. state' = [state EXCEPT ![u] = "READY"]
    BY <1>2 DEF BackFromBlock
  <2> QED
    BY <1>2, <2>1, OneThreadFinal
<1> QED
  BY <1>1, <1>2

LEMMA IoFinal == ASSUME TypeOK, IoHandler PROVE StatesFinal /\ PcbsFinal
<1>1. UNCHANGED pcb_state
  BY DEF IoHandler, IOTake, IOLock, IOHandle, pcbVars
<1>2. CASE IOHandle
  <2>1. PICK u \in TCB : u = io_tcb
    BY <1>2 DEF IOHandle, TypeOK, QueueTypeOK
  <2> QED
    BY <1>1, <1>2, <2>1, BackFinal DEF IOHandle, PcbsFinal
<1>3. CASE IOTake \/ IOLock
  BY <1>1, <1>3 DEF IOTake, IOLock, tcbVars, StatesFinal, PcbsFinal
<1> QED
  BY <1>2, <1>3 DEF IoHandler

\* finish_process takes threads and processes to EXIT, never out of it.
LEMMA EndProcessFinal ==
  ASSUME TypeOK, NEW p, NEW u, EndProcess(p, u) PROVE StatesFinal /\ PcbsFinal
<1>1. \A t \in TCB : state[t] = "EXIT" => state'[t] = state[t]
  BY DEF EndProcess
<1>2. pcb_state' = [pcb_state EXCEPT ![p] = "EXIT"]
  BY DEF EndProcess
<1> QED
  BY <1>1, <1>2, PlacedTypes DEF StatesFinal, PcbsFinal

LEMMA DumpFinal ==
  ASSUME TypeOK, NEW u \in TCB, MemoryDump(u) PROVE StatesFinal /\ PcbsFinal
<1>1. CASE DumpDone(u)
  BY <1>1, BackFinal DEF DumpDone, pcbVars, PcbsFinal
<1>2. CASE DumpFailed(u)
  BY <1>2, EndProcessFinal DEF DumpFailed
<1>3. CASE ~(DumpDone(u) \/ DumpFailed(u))
  <2>1. UNCHANGED <<state, pcb_state>>
    BY <1>3 DEF MemoryDump, DumpAnswered, DumpCrashes, DumpLock, DumpEndCrashes, DumpFinish,
       EndProcessCrashes, Crashes, pcbVars, tcbVars
  <2> QED
    BY <2>1 DEF StatesFinal, PcbsFinal
<1> QED
  BY <1>1, <1>2, <1>3

\* A thread that ends wakes none that has ended.
LEMMA EndThreadFinal ==
  ASSUME TypeOK, Placed, NEW t \in TCB, NEW s, EndThread(t, s) PROVE StatesFinal
<1>1. PICK woken \in Seq(TCB) : EndsWaking(t, s, woken) /\ ToSet(woken) = Awake(t)
  BY EndThreadWakesAwake
<1>2. \A u \in Awake(t) : state[u] # "EXIT"
  BY AwakeIs DEF Awake, Alive
<1>3. state' = [u \in TCB |-> IF u = t THEN "EXIT"
                              ELSE IF u \in Awake(t) THEN "READY" ELSE state[u]]
  BY <1>1 DEF EndsWaking
<1> QED
  BY <1>2, <1>3 DEF StatesFinal

\* The syscalls that take the running thread from EXEC.
LEMMA ExecFinal ==
  ASSUME TypeOK, Placed, RHThreadJoin \/ RHMutexWait \/ RHDumpMemory \/ RHIO \/ RHInterruption
  PROVE  StatesFinal /\ PcbsFinal
<1>1. UNCHANGED pcb_state
  BY DEF RHThreadJoin, RHMutexWait, RHDumpMemory, RHIO, RHInterruption, pcbVars
<1>2. \/ UNCHANGED state
      \/ exec # NoTcb /\ state' = [state EXCEPT ![exec] = "READY"]
      \/ exec # NoTcb /\ state' = [state EXCEPT ![exec] = "BLOCK"]
  BY DEF RHThreadJoin, RHMutexWait, RHDumpMemory, RHIO, RHInterruption, Handling
<1>3. StatesFinal
  <2>1. CASE UNCHANGED state
    BY <2>1 DEF StatesFinal
  <2>2. CASE exec # NoTcb /\ \E v : state' = [state EXCEPT ![exec] = v]
    <3>1. PICK e \in TCB : e = exec /\ state[e] = "EXEC"
      BY <2>2, Executing
    <3>2. PICK v : state' = [state EXCEPT ![e] = v]
      BY <2>2, <3>1
    <3> QED
      BY <3>1, <3>2, OneThreadFinal
  <2> QED
    BY <1>2, <2>1, <2>2
<1> QED
  BY <1>1, <1>3 DEF PcbsFinal

\* The syscalls that make a thread READY or a process.
LEMMA BornFinal ==
  ASSUME TypeOK, Placed, RHThreadCreate \/ RHProcessCreate PROVE StatesFinal /\ PcbsFinal
<1>1. PICK e \in TCB : e = exec
  BY PlacedTypes DEF RHThreadCreate, RHProcessCreate, Handling
<1>2. CASE RHThreadCreate
  <2>1. PICK p \in Pids : p = e[1]
    BY TcbIs
  <2>2. PICK i \in Tids : i = tid_counter[p]
    <3>1. tid_counter[p] < MaxTid
      BY <1>1, <1>2, <2>1 DEF RHThreadCreate
    <3> QED
      BY <3>1, PlacedTypes, BoundsAssumption DEF Tids
  <2>3. PICK u \in TCB : u = <<p, i>> /\ u[1] = p /\ u[2] = i
    BY TcbIs
  <2>4. state[u] = "NULL_STATE"
    BY <2>2, <2>3, PlacedTypes, TcbIs DEF Placed, Births
  <2>5. state' = [state EXCEPT ![u] = "READY"] /\ UNCHANGED pcb_state
    BY <1>1, <1>2, <2>1, <2>2, <2>3 DEF RHThreadCreate
  <2> QED
    BY <2>4, <2>5, OneThreadFinal DEF PcbsFinal
<1>3. CASE RHProcessCreate
  <2>1. PICK p \in Pids : p = pid_counter
    <3>1. pid_counter < MaxPid /\ pid_counter \in Nat
      BY <1>3, PlacedTypes, BoundsAssumption DEF RHProcessCreate
    <3> QED
      BY <3>1, BoundsAssumption DEF Pids
  <2>2. pcb_state[p] = "NONE"
    <3>1. p >= pid_counter /\ p \in Nat
      BY <2>1 DEF Pids
    <3> QED
      BY <3>1 DEF Placed, Births
  <2>3. pcb_state' = [pcb_state EXCEPT ![p] = "NEW"] /\ UNCHANGED state
    BY <1>3, <2>1 DEF RHProcessCreate
  <2> QED
    BY <2>2, <2>3, PlacedTypes DEF StatesFinal, PcbsFinal
<1> QED
  BY <1>2, <1>3

\* MUTEX_UNLOCK wakes the first that waits, which is blocked.
LEMMA UnlockFinal == ASSUME TypeOK, Placed, RHMutexUnlock PROVE StatesFinal /\ PcbsFinal
<1>1. PICK p \in Pids : p = exec[1]
  BY Executing DEF RHMutexUnlock, Handling
<1>2. UNCHANGED pcb_state
  BY DEF RHMutexUnlock
<1>3. PICK k \in 1 .. Len(mutex_list[p]) :
         IF Waiters(p, k) = <<>> THEN UNCHANGED state
         ELSE state' = [state EXCEPT ![Head(Waiters(p, k))] = "READY"]
  BY <1>1 DEF RHMutexUnlock, Waiters
<1>4. CASE Waiters(p, k) = <<>>
  BY <1>2, <1>3, <1>4 DEF StatesFinal, PcbsFinal
<1>5. CASE Waiters(p, k) # <<>>
  <2>1. Waiters(p, k) \in Seq(TCB) /\ IsInjective(Waiters(p, k))
    BY Elements DEF Placed, Mutexes
  <2>2. PICK u \in TCB : u = Head(Waiters(p, k))
    BY <1>5, <2>1
  <2>3. u \in ToSet(Waiters(p, k))
    BY <1>5, <2>1, <2>2, HeadRemoved
  <2>4. state[u] # "EXIT"
    BY <2>3 DEF Placed, Mutexes, Blocked
  <2> QED
    BY <1>2, <1>3, <1>5, <2>2, <2>4, OneThreadFinal DEF PcbsFinal
<1> QED
  BY <1>4, <1>5

LEMMA HandlerFinal == ASSUME TypeOK, Placed, ResponseHandler PROVE StatesFinal /\ PcbsFinal
<1>1. CASE RHThreadJoin \/ RHMutexWait \/ RHDumpMemory \/ RHIO \/ RHInterruption
  BY <1>1, ExecFinal
<1>2. CASE RHThreadCreate \/ RHProcessCreate
  BY <1>2, BornFinal
<1>3. CASE RHMutexUnlock
  BY <1>3, UnlockFinal
<1>4. CASE RHProcessExit \/ RHSegfault
  BY <1>4, EndProcessFinal DEF RHProcessExit, RHSegfault
<1>5. CASE RHThreadExit \/ RHThreadCancel
  <2>1. UNCHANGED pcb_state
    BY <1>5 DEF RHThreadExit, RHThreadCancel
  <2>2. \E t \in TCB : \E s : EndThread(t, s)
    <3>1. exec \in TCB /\ exec[1] \in Pids
      BY <1>5, Executing DEF RHThreadExit, RHThreadCancel, Handling
    <3>2. CASE RHThreadExit
      BY <3>1, <3>2 DEF RHThreadExit
    <3>3. CASE RHThreadCancel
      BY <3>1, <3>3, ThreadsIs DEF RHThreadCancel
    <3> QED
      BY <1>5, <3>2, <3>3
  <2> QED
    BY <2>1, <2>2, EndThreadFinal DEF PcbsFinal
<1>6. CASE \/ RHReceive \/ RHLock \/ RHDropSyscall \/ RHNoSuchThread \/ RHMutexCreate
           \/ RHMutexTake \/ RHMutexIgnored \/ RHFinish \/ RHNothingToEnd \/ RHAck
           \/ RHFallThrough \/ RHUnlockCrashes \/ RHEndCrashes \/ RHDoubleFree
  <2>1. UNCHANGED <<state, pcb_state>>
    BY <1>6 DEF RHReceive, RHLock, RHDropSyscall, RHNoSuchThread, RHMutexCreate, RHMutexTake,
       RHMutexIgnored, RHFinish, RHNothingToEnd, RHAck, RHFallThrough, RHUnlockCrashes,
       RHEndCrashes, RHDoubleFree, EndProcessCrashes, EndThreadCrashes, Crashes, pcbVars, tcbVars
  <2> QED
    BY <2>1 DEF StatesFinal, PcbsFinal
<1> QED
  BY <1>1, <1>2, <1>3, <1>4, <1>5, <1>6 DEF ResponseHandler, Syscall

LEMMA FinalStep == ASSUME Inv, Placed, [Next]_vars PROVE StatesFinal /\ PcbsFinal
<1> USE DEF Inv
<1>1. CASE Cpu \/ (\E p \in Pids : Release(p)) \/ UNCHANGED vars
  <2>1. UNCHANGED <<state, pcb_state>>
    BY <1>1 DEF Cpu, CpuSyscall, CpuSegfault, CpuNotInMemory, CpuInterruption, CpuReturns,
       Release, RelTake, RelDone, vars, pcbVars, tcbVars
  <2> QED
    BY <2>1 DEF StatesFinal, PcbsFinal
<1> QED
  BY <1>1, LongTermFinal, ShortTermFinal, HandlerFinal, IoFinal, DumpFinal DEF Next

-----------------------------------------------------------------------------
(* The theorems *)

\* No thread is freed while somebody can reach it, and none is left that nobody will
\* post: of sem_finished_thread, the release and ready, the IO handler or a dump thread,
\* each finished thread has exactly one.
THEOREM ReleasedAlways == Spec => []ReleasedOnce
<1>1. TypeOK /\ Placed => ReleasedOnce
  BY PlacedReleased
<1> QED
  BY <1>1, Typed, PlacedAlways, PTL

\* Each live thread is in the list, or in the hands, that its state and block type name,
\* once, and who joins a thread joins one that will wake it.
THEOREM WaitingAlways == Spec => []WaitingPlace
<1>1. TypeOK /\ Placed => WaitingPlace
  BY PlacedWaiting
<1> QED
  BY <1>1, Typed, PlacedAlways, PTL

\* Nobody waits for a mutex that is free, nor for two.
THEOREM IdleAlways == Spec => []NoIdleWaiter
<1>1. TypeOK /\ Placed => NoIdleWaiter
  BY PlacedIdle
<1> QED
  BY <1>1, Typed, PlacedAlways, PTL

\* The thread in EXEC is the CPU's, of a process that has not finished and that memoria
\* holds: what PROCESS_EXIT checks and logs as impossible is impossible.
THEOREM LiveAlways == Spec => []ExecIsLive
<1>1. TypeOK /\ Placed => ExecIsLive
  BY PlacedLive
<1> QED
  BY <1>1, Typed, PlacedAlways, PTL

\* Memoria holds the threads that have not finished, those of a process whose release is
\* on its way, and no more processes than fit.
THEOREM MemoryAlways == Spec => []MemoryAgrees
<1>1. TypeOK /\ Placed => MemoryAgrees
  BY PlacedMemory
<1> QED
  BY <1>1, Typed, PlacedAlways, PTL

\* EXIT is final: no answer of the CPU, of a dump or of an IO, however late, takes a
\* thread or a process back from it.
THEOREM FinalAlways == Spec => ExitIsFinal
<1>1. Inv /\ Placed /\ [Next]_vars =>
         [/\ \A t \in TCB : state[t] = "EXIT" => state'[t] = "EXIT"
          /\ \A p \in Pids : pcb_state[p] = "EXIT" => pcb_state'[p] = "EXIT"]_vars
  BY FinalStep DEF StatesFinal, PcbsFinal
<1> QED
  BY <1>1, Invariant, PlacedAlways, PTL DEF Spec, ExitIsFinal

=============================================================================
