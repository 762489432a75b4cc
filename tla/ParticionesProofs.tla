--------------------------- MODULE ParticionesProofs ---------------------------
(* Theorems about the partitions of memoria, for every value of the constants. *)
EXTENDS ParticionesProperties, WellFoundedInduction, NaturalsInduction, SequenceTheorems,
        TLAPS

-----------------------------------------------------------------------------
(* Lists of partitions: what is said of lista_particiones, of any list. *)

Partic == [pid : Pids \cup {Libre}, base : Nat, tamanio : Nat \ {0}]

\* One after the other from address 0, and up to m.
Contigua(s)   == Len(s) > 0 => s[1].base = 0 /\ \A i \in 1 .. Len(s) - 1 : s[i+1].base = Fin(s[i])
Termina(s, m) == Len(s) > 0 => Fin(s[Len(s)]) = m
Orden(s)      == \A i, j \in DOMAIN s : i < j => Fin(s[i]) <= s[j].base
SinVecinas(s) == \A i \in 1 .. Len(s) - 1 : ~(s[i].pid = Libre /\ s[i+1].pid = Libre)
Ocupado(s)    == {i \in DOMAIN s : s[i].pid # Libre}
Asignadas(s)  == {<<s[i].pid, s[i].base, Fin(s[i])>> : i \in Ocupado(s)}
Unicas(s)     == \A i, j \in Ocupado(s) : s[i].pid = s[j].pid => i = j

LEMMA Menor ==
  ASSUME NEW S, S \subseteq Nat, S # {}
  PROVE  \E x \in S : \A y \in S : x <= y
<1> DEFINE R == OpToRel(<, Nat)
<1>1. R = {p \in Nat \X Nat : p[1] < p[2]}
  BY Zenon DEF OpToRel
<1>2. IsWellFoundedOn(R, Nat)
  BY NatLessThanWellFounded
<1> HIDE DEF R
<1>3. PICK x \in S : \A y \in S : ~ (<<y, x>> \in R)
  BY <1>2, WFMin
<1>4. ASSUME NEW y \in S PROVE x <= y
  <2>1. x \in Nat /\ y \in Nat /\ <<y, x>> \notin {p \in Nat \X Nat : p[1] < p[2]}
    BY <1>1, <1>3
  <2> QED
    BY <2>1
<1> QED
  BY <1>4

\* Partitions that follow one another are in the order of their addresses.
LEMMA ContiguaOrden ==
  ASSUME NEW s \in Seq(Partic), Contigua(s)
  PROVE  Orden(s)
<1> DEFINE Malos == {j \in DOMAIN s : \E i \in DOMAIN s : i < j /\ ~(Fin(s[i]) <= s[j].base)}
<1>n. Len(s) \in Nat /\ DOMAIN s = 1 .. Len(s)
  OBVIOUS
<1>t. \A i \in DOMAIN s : s[i].base \in Nat /\ s[i].tamanio \in Nat \ {0}
  <2>1. \A i \in DOMAIN s : s[i] \in Partic
    OBVIOUS
  <2> QED
    BY <2>1 DEF Partic
<1>1. Malos = {}
  <2> SUFFICES ASSUME Malos # {} PROVE FALSE
    OBVIOUS
  <2>0. Malos \subseteq Nat
    BY <1>n
  <2>1. PICK j \in Malos : \A k \in Malos : j <= k
    BY <2>0, Menor
  <2>2. PICK i \in DOMAIN s : i < j /\ ~(Fin(s[i]) <= s[j].base)
    OBVIOUS
  <2>3. j \in DOMAIN s /\ j - 1 \in DOMAIN s /\ j - 1 \notin Malos /\ Len(s) > 0
        /\ j - 1 \in 1 .. Len(s) - 1
    BY <1>n, <2>1, <2>2
  <2>4. s[j].base = Fin(s[j-1])
    <3>1. s[(j - 1) + 1].base = Fin(s[j-1])
      BY <2>3 DEF Contigua
    <3> QED
      BY <3>1, <1>n, <2>3
  <2>5. CASE i = j - 1
    BY <2>2, <2>4, <2>5, <1>t DEF Fin
  <2>6. CASE i # j - 1
    <3>1. i < j - 1
      BY <1>n, <2>2, <2>3, <2>6
    <3>2. Fin(s[i]) <= s[j-1].base
      BY <2>3, <3>1
    <3> QED
      BY <1>t, <2>2, <2>3, <2>4, <3>2 DEF Fin
  <2> QED
    BY <2>5, <2>6
<1> QED
  BY <1>1 DEF Orden

\* What is inserted or removed, place by place.
LEMMA Quita ==
  ASSUME NEW S, NEW s \in Seq(S), NEW i \in 1 .. Len(s)
  PROVE  /\ RemoveAt(s, i) \in Seq(S) /\ Len(RemoveAt(s, i)) = Len(s) - 1
         /\ \A j \in 1 .. Len(s) - 1 : RemoveAt(s, i)[j] = IF j < i THEN s[j] ELSE s[j+1]
<1> DEFINE a == SubSeq(s, 1, i - 1)
           b == SubSeq(s, i + 1, Len(s))
<1>n. Len(s) \in Nat /\ i \in Nat
  OBVIOUS
<1>1. a \in Seq(S) /\ Len(a) = i - 1 /\ \A j \in 1 .. i - 1 : a[j] = s[j]
  BY SubSeqProperties
<1>2. b \in Seq(S) /\ Len(b) = Len(s) - i /\ \A j \in 1 .. Len(s) - i : b[j] = s[i + j]
  BY SubSeqProperties
<1>3. RemoveAt(s, i) = a \o b
  BY DEF RemoveAt
<1> HIDE DEF a, b
<1>c. a \o b \in Seq(S) /\ Len(a \o b) = Len(a) + Len(b)
  BY <1>1, <1>2, ConcatProperties
<1>4. a \o b \in Seq(S) /\ Len(a \o b) = Len(s) - 1
  BY <1>n, <1>1, <1>2, <1>c
<1>5. ASSUME NEW j \in 1 .. Len(s) - 1
      PROVE  (a \o b)[j] = IF j < i THEN s[j] ELSE s[j+1]
  <2>1. (a \o b)[j] = IF j <= Len(a) THEN a[j] ELSE b[j - Len(a)]
    BY <1>n, <1>1, <1>2, <1>4
  <2>2. CASE j < i
    BY <1>n, <1>1, <2>1, <2>2
  <2>3. CASE ~(j < i)
    <3>1. j - Len(a) \in 1 .. Len(s) - i /\ i + (j - Len(a)) = j + 1 /\ ~(j <= Len(a))
      BY <1>n, <1>1, <2>3
    <3> QED
      BY <1>2, <2>1, <2>3, <3>1
  <2> QED
    BY <2>2, <2>3
<1> QED
  BY <1>3, <1>4, <1>5

LEMMA Inserta ==
  ASSUME NEW S, NEW s \in Seq(S), NEW i \in 1 .. Len(s) + 1, NEW x \in S
  PROVE  /\ InsertAt(s, i, x) \in Seq(S) /\ Len(InsertAt(s, i, x)) = Len(s) + 1
         /\ \A j \in 1 .. Len(s) + 1 :
               InsertAt(s, i, x)[j] = IF j < i THEN s[j] ELSE IF j = i THEN x ELSE s[j-1]
<1> DEFINE a == SubSeq(s, 1, i - 1)
           b == SubSeq(s, i, Len(s))
           c == a \o <<x>>
<1>n. Len(s) \in Nat /\ i \in Nat
  OBVIOUS
<1>1. a \in Seq(S) /\ Len(a) = i - 1 /\ \A j \in 1 .. i - 1 : a[j] = s[j]
  BY SubSeqProperties
<1>2. b \in Seq(S) /\ Len(b) = Len(s) - i + 1 /\ \A j \in 1 .. Len(s) - i + 1 : b[j] = s[i + j - 1]
  BY SubSeqProperties
<1>3. InsertAt(s, i, x) = c \o b
  BY DEF InsertAt
<1> HIDE DEF a, b
<1>4. c \in Seq(S) /\ Len(c) = i /\ c[i] = x /\ \A j \in 1 .. i - 1 : c[j] = s[j]
  <2>1. c \in Seq(S) /\ Len(c) = Len(a) + 1
    BY <1>1
  <2>2. \A j \in 1 .. Len(a) + 1 : c[j] = IF j <= Len(a) THEN a[j] ELSE x
    BY <1>1
  <2> QED
    BY <1>n, <1>1, <2>1, <2>2
<1> HIDE DEF c
<1>5. c \o b \in Seq(S) /\ Len(c \o b) = Len(s) + 1
  BY <1>n, <1>2, <1>4
<1>6. ASSUME NEW j \in 1 .. Len(s) + 1
      PROVE  (c \o b)[j] = IF j < i THEN s[j] ELSE IF j = i THEN x ELSE s[j-1]
  <2>1. (c \o b)[j] = IF j <= Len(c) THEN c[j] ELSE b[j - Len(c)]
    BY <1>n, <1>2, <1>4, <1>5
  <2>2. CASE j <= i
    BY <1>n, <1>4, <2>1, <2>2
  <2>3. CASE ~(j <= i)
    <3>1. j - i \in 1 .. Len(s) - i + 1 /\ i + (j - i) - 1 = j - 1
      BY <1>n, <2>3
    <3> QED
      BY <1>n, <1>2, <1>4, <2>1, <2>3, <3>1
  <2> QED
    BY <2>2, <2>3
<1> QED
  BY <1>3, <1>5, <1>6

LEMMA Datos ==
  ASSUME NEW s \in Seq(Partic), NEW i \in DOMAIN s
  PROVE  /\ s[i] \in Partic /\ s[i].base \in Nat /\ s[i].tamanio \in Nat /\ s[i].tamanio > 0
         /\ s[i].pid \in Pids \cup {Libre} /\ Fin(s[i]) = s[i].base + s[i].tamanio
         /\ Fin(s[i]) \in Nat /\ Fin(s[i]) > s[i].base
         /\ DOMAIN s = 1 .. Len(s) /\ Len(s) \in Nat
<1>1. s[i] \in Partic
  OBVIOUS
<1>2. s[i].base \in Nat /\ s[i].tamanio \in Nat /\ s[i].tamanio > 0 /\ s[i].pid \in Pids \cup {Libre}
  BY <1>1 DEF Partic
<1> QED
  BY <1>1, <1>2 DEF Fin

\* A partition changes hands.
De(s, i, p) == [s EXCEPT ![i].pid = p]

LEMMA CambiaDuenio ==
  ASSUME NEW s \in Seq(Partic), NEW i \in DOMAIN s, NEW p \in Pids \cup {Libre}
  PROVE  LET t == De(s, i, p) IN
         /\ t \in Seq(Partic) /\ Len(t) = Len(s) /\ DOMAIN t = DOMAIN s
         /\ \A j \in DOMAIN s : /\ t[j].base = s[j].base /\ t[j].tamanio = s[j].tamanio
                                /\ Fin(t[j]) = Fin(s[j])
                                /\ t[j].pid = IF j = i THEN p ELSE s[j].pid
<1> DEFINE t == De(s, i, p)
<1>0. t = [s EXCEPT ![i].pid = p]
  BY DEF De
<1> HIDE DEF t
<1>1. ASSUME NEW j \in DOMAIN s
      PROVE  /\ t[j].base = s[j].base /\ t[j].tamanio = s[j].tamanio
             /\ t[j].pid = (IF j = i THEN p ELSE s[j].pid) /\ t[j] \in Partic
  <2>1. s[j] \in Partic
    OBVIOUS
  <2> QED
    BY <1>0, <2>1 DEF Partic
<1>2. DOMAIN t = DOMAIN s
  BY <1>0
<1>3. t \in Seq(Partic) /\ Len(t) = Len(s)
  BY <1>0, <1>1, <1>2
<1>4. /\ t \in Seq(Partic) /\ Len(t) = Len(s) /\ DOMAIN t = DOMAIN s
      /\ \A j \in DOMAIN s : /\ t[j].base = s[j].base /\ t[j].tamanio = s[j].tamanio
                             /\ Fin(t[j]) = Fin(s[j])
                             /\ t[j].pid = IF j = i THEN p ELSE s[j].pid
  BY <1>1, <1>2, <1>3 DEF Fin
<1> QED
  BY <1>4 DEF t

\* So the addresses stay tiled.
LEMMA MismasDirecciones ==
  ASSUME NEW s \in Seq(Partic), NEW t \in Seq(Partic), Len(t) = Len(s),
         \A j \in DOMAIN s : t[j].base = s[j].base /\ Fin(t[j]) = Fin(s[j])
  PROVE  /\ Contigua(s) => Contigua(t)
         /\ \A m : Termina(s, m) => Termina(t, m)
<1>1. Len(s) \in Nat /\ DOMAIN s = 1 .. Len(s)
  OBVIOUS
<1>2. ASSUME Contigua(s) PROVE Contigua(t)
  <2>1. SUFFICES ASSUME Len(s) > 0
                 PROVE  t[1].base = 0 /\ \A i \in 1 .. Len(s) - 1 : t[i+1].base = Fin(t[i])
    BY DEF Contigua
  <2>2. 1 \in DOMAIN s /\ \A i \in 1 .. Len(s) - 1 : i \in DOMAIN s /\ i + 1 \in DOMAIN s
    BY <1>1, <2>1
  <2> QED
    BY <1>2, <2>1, <2>2 DEF Contigua
<1>3. ASSUME NEW m, Termina(s, m) PROVE Termina(t, m)
  <2>1. Len(s) > 0 => Len(s) \in DOMAIN s
    BY <1>1
  <2> QED
    BY <1>3, <2>1 DEF Termina
<1> QED
  BY <1>2, <1>3

\* The place of the new partition is that of the one it is cut from.
LEMMA DondeVa ==
  ASSUME NEW s \in Seq(Partic), Orden(s), NEW i \in DOMAIN s, NEW n \in Nat \ {0},
         s[i].tamanio >= n, NEW p \in Pids,
         NEW k \in 1 .. Len(achicar_particion(s, i, n)) + 1,
         LugarOrdenado(achicar_particion(s, i, n), Particion(p, s[i].base, n), k)
  PROVE  k = i
<1> DEFINE u == achicar_particion(s, i, n)
           b == s[i].base
<1>n. Len(s) \in Nat /\ DOMAIN s = 1 .. Len(s) /\ i \in 1 .. Len(s)
  OBVIOUS
<1>d. s[i] \in Partic /\ b \in Nat /\ s[i].tamanio \in Nat
  BY Datos
<1>1. \A j \in 1 .. i - 1 : s[j].base < b
  <2>1. ASSUME NEW j \in 1 .. i - 1 PROVE s[j].base < b
    <3>1. j \in DOMAIN s /\ j < i
      BY <1>n
    <3>2. Fin(s[j]) <= b /\ s[j].base \in Nat /\ Fin(s[j]) \in Nat /\ Fin(s[j]) > s[j].base
      BY <3>1, Datos DEF Orden
    <3> QED
      BY <3>2, <1>d
  <2> QED
    BY <2>1
<1>2. /\ Len(u) \in Nat /\ Len(u) >= i - 1
      /\ \A j \in 1 .. i - 1 : u[j].base = s[j].base
      /\ i <= Len(u) => u[i].base \in Nat /\ u[i].base > b
  <2>1. CASE s[i].tamanio = n
    <3>1. u = RemoveAt(s, i)
      BY <2>1 DEF achicar_particion
    <3>2. Len(u) = Len(s) - 1 /\ \A j \in 1 .. Len(s) - 1 : u[j] = IF j < i THEN s[j] ELSE s[j+1]
      BY <3>1, <1>n, Quita
    <3>3. ASSUME i <= Len(u) PROVE u[i].base \in Nat /\ u[i].base > b
      <4>1. i + 1 \in DOMAIN s /\ u[i] = s[i+1]
        BY <1>n, <3>2, <3>3
      <4>2. s[i+1].base \in Nat /\ Fin(s[i]) <= s[i+1].base /\ Fin(s[i]) > b /\ Fin(s[i]) \in Nat
        BY <1>n, <4>1, Datos DEF Orden
      <4> QED
        BY <1>d, <4>1, <4>2
    <3> HIDE DEF u
    <3>4. Len(u) \in Nat /\ Len(u) >= i - 1 /\ \A j \in 1 .. i - 1 : u[j].base = s[j].base
      BY <1>n, <3>2
    <3> QED
      BY <3>3, <3>4
  <2>2. CASE s[i].tamanio # n
    <3>1. u = [s EXCEPT ![i] = Particion(Libre, s[i].base + n, s[i].tamanio - n)]
      BY <2>2 DEF achicar_particion
    <3>2. Len(u) = Len(s) /\ u[i].base = b + n /\ \A j \in 1 .. i - 1 : u[j] = s[j]
      BY <3>1, <1>n DEF Particion
    <3> HIDE DEF u
    <3> QED
      BY <1>n, <1>d, <3>2
  <2> QED
    BY <2>1, <2>2
<1>3. Particion(p, b, n).base = b
  BY DEF Particion
<1>4. /\ \A j \in 1 .. k - 1 : u[j].base < b
      /\ k <= Len(u) => u[k].base >= b
  BY <1>3 DEF LugarOrdenado
<1> HIDE DEF u
<1>5. ~(k < i)
  <2> SUFFICES ASSUME k < i PROVE FALSE
    OBVIOUS
  <2>1. k \in 1 .. i - 1 /\ k <= Len(u)
    BY <1>n, <1>2
  <2>2. s[k].base < b /\ s[k].base >= b /\ s[k].base \in Nat
    BY <2>1, <1>n, <1>1, <1>2, <1>4, Datos
  <2> QED
    BY <1>d, <2>2
<1>6. ~(k > i)
  <2> SUFFICES ASSUME k > i PROVE FALSE
    OBVIOUS
  <2>1. i \in 1 .. k - 1 /\ i <= Len(u)
    BY <1>n, <1>2 DEF u
  <2>2. u[i].base \in Nat /\ u[i].base < b /\ u[i].base > b
    BY <2>1, <1>2, <1>4
  <2> QED
    BY <1>d, <2>2
<1> QED
  BY <1>n, <1>5, <1>6 DEF u

-----------------------------------------------------------------------------
(* The three things that happen to a list: a partition is cut in two (or, the other *)
(* way round, two are joined), one is given, one is taken back.                     *)

\* t is s with its partition i in two parts.
Partida(s, t, i) ==
    /\ i \in DOMAIN s /\ Len(t) = Len(s) + 1
    /\ \A j \in 1 .. i - 1 : t[j] = s[j]
    /\ \A j \in i + 1 .. Len(s) : t[j+1] = s[j]
    /\ t[i].base = s[i].base /\ t[i+1].base = Fin(t[i]) /\ Fin(t[i+1]) = Fin(s[i])

LEMMA PartidaContigua ==
  ASSUME NEW s \in Seq(Partic), NEW t \in Seq(Partic), NEW i, Partida(s, t, i)
  PROVE  /\ Contigua(s) <=> Contigua(t)
         /\ \A m : Termina(s, m) <=> Termina(t, m)
<1>n. Len(s) \in Nat /\ DOMAIN s = 1 .. Len(s) /\ i \in 1 .. Len(s) /\ Len(t) = Len(s) + 1
      /\ DOMAIN t = 1 .. Len(t) /\ Len(s) > 0 /\ Len(t) > 0 /\ i \in Int /\ i >= 1 /\ i <= Len(s)
  BY DEF Partida
<1>1. s[1].base = t[1].base
  <2>1. CASE i = 1
    BY <2>1 DEF Partida
  <2>2. CASE i # 1
    <3>1. 1 \in 1 .. i - 1
      BY <1>n, <2>2
    <3> QED
      BY <3>1 DEF Partida
  <2> QED
    BY <2>1, <2>2
<1>2. Fin(s[Len(s)]) = Fin(t[Len(t)])
  <2>1. CASE i = Len(s)
    BY <2>1 DEF Partida
  <2>2. CASE i < Len(s)
    <3>1. Len(s) \in i + 1 .. Len(s)
      BY <1>n, <2>2
    <3> QED
      BY <1>n, <3>1 DEF Partida
  <2>3. i \in Int /\ Len(s) \in Int /\ i <= Len(s)
    BY <1>n
  <2>4. i = Len(s) \/ i < Len(s)
    BY <2>3
  <2> QED
    BY <2>1, <2>2, <2>4
<1>3. ASSUME Contigua(s), NEW j \in 1 .. Len(t) - 1 PROVE t[j+1].base = Fin(t[j])
  <2>0. \A k \in 1 .. Len(s) - 1 : s[k+1].base = Fin(s[k])
    BY <1>n, <1>3 DEF Contigua
  <2>1. CASE j < i - 1
    <3>1. j \in 1 .. i - 1 /\ j + 1 \in 1 .. i - 1 /\ j \in 1 .. Len(s) - 1
      BY <1>n, <2>1
    <3>2. t[j] = s[j] /\ t[j+1] = s[j+1]
      BY <3>1 DEF Partida
    <3> QED
      BY <2>0, <3>1, <3>2
  <2>2. CASE j = i - 1
    <3>1. j \in 1 .. i - 1 /\ j + 1 = i /\ j \in 1 .. Len(s) - 1
      BY <1>n, <2>2
    <3>2. t[j] = s[j] /\ t[j+1].base = s[j+1].base
      BY <3>1 DEF Partida
    <3> QED
      BY <2>0, <3>1, <3>2
  <2>3. CASE j = i
    BY <2>3 DEF Partida
  <2>4. CASE j = i + 1
    <3>1. i + 1 \in i + 1 .. Len(s) /\ i \in 1 .. Len(s) - 1
      BY <1>n, <2>4
    <3>2. t[(i + 1) + 1] = s[i+1] /\ Fin(t[i+1]) = Fin(s[i])
      BY <3>1 DEF Partida
    <3> QED
      BY <2>0, <2>4, <3>1, <3>2
  <2>5. CASE j > i + 1
    <3>1. j \in i + 1 .. Len(s) /\ j - 1 \in i + 1 .. Len(s) /\ j - 1 \in 1 .. Len(s) - 1
          /\ (j - 1) + 1 = j
      BY <1>n, <2>5
    <3>2. t[j+1] = s[j] /\ t[(j-1)+1] = s[j-1]
      BY <3>1 DEF Partida
    <3>3. s[(j-1)+1].base = Fin(s[j-1])
      BY <2>0, <3>1
    <3> QED
      BY <3>1, <3>2, <3>3
  <2> QED
    BY <1>n, <2>1, <2>2, <2>3, <2>4, <2>5
<1>4. ASSUME Contigua(t), NEW j \in 1 .. Len(s) - 1 PROVE s[j+1].base = Fin(s[j])
  <2>0. \A k \in 1 .. Len(t) - 1 : t[k+1].base = Fin(t[k])
    BY <1>n, <1>4 DEF Contigua
  <2>1. CASE j < i - 1
    <3>1. j \in 1 .. i - 1 /\ j + 1 \in 1 .. i - 1 /\ j \in 1 .. Len(t) - 1
      BY <1>n, <2>1
    <3>2. t[j] = s[j] /\ t[j+1] = s[j+1]
      BY <3>1 DEF Partida
    <3> QED
      BY <2>0, <3>1, <3>2
  <2>2. CASE j = i - 1
    <3>1. j \in 1 .. i - 1 /\ j + 1 = i /\ j \in 1 .. Len(t) - 1
      BY <1>n, <2>2
    <3>2. t[j] = s[j] /\ t[j+1].base = s[j+1].base
      BY <3>1 DEF Partida
    <3> QED
      BY <2>0, <3>1, <3>2
  <2>3. CASE j = i
    <3>1. i + 1 \in i + 1 .. Len(s) /\ i + 1 \in 1 .. Len(t) - 1
      BY <1>n, <2>3
    <3>2. t[(i + 1) + 1] = s[i+1] /\ Fin(t[i+1]) = Fin(s[i])
      BY <3>1 DEF Partida
    <3> QED
      BY <2>0, <2>3, <3>1, <3>2
  <2>4. CASE j > i
    <3>1. j \in i + 1 .. Len(s) /\ j + 1 \in i + 1 .. Len(s) /\ j + 1 \in 1 .. Len(t) - 1
      BY <1>n, <2>4
    <3>2. t[j+1] = s[j] /\ t[(j+1)+1] = s[j+1]
      BY <3>1 DEF Partida
    <3>3. t[(j+1)+1].base = Fin(t[j+1])
      BY <2>0, <3>1
    <3> QED
      BY <3>2, <3>3
  <2> QED
    BY <1>n, <2>1, <2>2, <2>3, <2>4
<1>5. Contigua(s) => Contigua(t)
  BY <1>n, <1>1, <1>3 DEF Contigua
<1>6. Contigua(t) => Contigua(s)
  BY <1>n, <1>1, <1>4 DEF Contigua
<1>7. \A m : Termina(s, m) <=> Termina(t, m)
  BY <1>n, <1>2 DEF Termina
<1> QED
  BY <1>5, <1>6, <1>7

\* Free partitions only are cut and joined: what is given out stays the same.
LEMMA PartidaAsignadas ==
  ASSUME NEW s \in Seq(Partic), NEW t \in Seq(Partic), NEW i, Partida(s, t, i),
         s[i].pid = Libre, t[i].pid = Libre, t[i+1].pid = Libre
  PROVE  Asignadas(t) = Asignadas(s)
<1>n. Len(s) \in Nat /\ DOMAIN s = 1 .. Len(s) /\ i \in 1 .. Len(s) /\ Len(t) = Len(s) + 1
      /\ DOMAIN t = 1 .. Len(t) /\ i \in Int /\ i >= 1 /\ i <= Len(s)
  BY DEF Partida
<1>1. ASSUME NEW j \in Ocupado(s)
      PROVE  \E k \in Ocupado(t) : t[k] = s[j]
  <2>0. j \in 1 .. Len(s) /\ s[j].pid # Libre /\ j # i
    BY <1>n DEF Ocupado
  <2>1. CASE j < i
    <3>1. j \in 1 .. i - 1 /\ j \in DOMAIN t
      BY <1>n, <2>0, <2>1
    <3>2. t[j] = s[j]
      BY <3>1 DEF Partida
    <3> QED
      BY <2>0, <3>1, <3>2 DEF Ocupado
  <2>2. CASE j > i
    <3>1. j \in i + 1 .. Len(s) /\ j + 1 \in DOMAIN t
      BY <1>n, <2>0, <2>2
    <3>2. t[j+1] = s[j]
      BY <3>1 DEF Partida
    <3> QED
      BY <2>0, <3>1, <3>2 DEF Ocupado
  <2> QED
    BY <1>n, <2>0, <2>1, <2>2
<1>2. ASSUME NEW j \in Ocupado(t)
      PROVE  \E k \in Ocupado(s) : s[k] = t[j]
  <2>0. j \in 1 .. Len(t) /\ t[j].pid # Libre /\ j # i /\ j # i + 1
    BY <1>n DEF Ocupado
  <2>1. CASE j < i
    <3>1. j \in 1 .. i - 1 /\ j \in DOMAIN s
      BY <1>n, <2>0, <2>1
    <3>2. t[j] = s[j]
      BY <3>1 DEF Partida
    <3> QED
      BY <2>0, <3>1, <3>2 DEF Ocupado
  <2>2. CASE j > i + 1
    <3>1. j - 1 \in i + 1 .. Len(s) /\ j - 1 \in DOMAIN s /\ (j - 1) + 1 = j
      BY <1>n, <2>0, <2>2
    <3>2. t[(j-1)+1] = s[j-1]
      BY <3>1 DEF Partida
    <3>3. t[j] = s[j-1]
      BY <3>1, <3>2
    <3> QED
      BY <2>0, <3>1, <3>3 DEF Ocupado
  <2> QED
    BY <1>n, <2>0, <2>1, <2>2
<1>3. Asignadas(s) \subseteq Asignadas(t)
  <2> SUFFICES ASSUME NEW j \in Ocupado(s)
               PROVE  <<s[j].pid, s[j].base, Fin(s[j])>> \in Asignadas(t)
    BY DEF Asignadas
  <2>1. PICK k \in Ocupado(t) : t[k] = s[j]
    BY <1>1
  <2> QED
    BY <2>1 DEF Asignadas
<1>4. Asignadas(t) \subseteq Asignadas(s)
  <2> SUFFICES ASSUME NEW j \in Ocupado(t)
               PROVE  <<t[j].pid, t[j].base, Fin(t[j])>> \in Asignadas(s)
    BY DEF Asignadas
  <2>1. PICK k \in Ocupado(s) : s[k] = t[j]
    BY <1>2
  <2> QED
    BY <2>1 DEF Asignadas
<1> QED
  BY <1>3, <1>4

\* A partition is where it starts.
LEMMA PorBase ==
  ASSUME NEW s \in Seq(Partic), Orden(s), NEW i \in DOMAIN s, NEW j \in DOMAIN s,
         s[i].base = s[j].base
  PROVE  i = j
<1>1. /\ s[i].base \in Nat /\ Fin(s[i]) \in Nat /\ Fin(s[i]) > s[i].base /\ i \in Nat
      /\ s[j].base \in Nat /\ Fin(s[j]) \in Nat /\ Fin(s[j]) > s[j].base /\ j \in Nat
  BY Datos
<1>2. /\ i < j => Fin(s[i]) <= s[j].base
      /\ j < i => Fin(s[j]) <= s[i].base
  BY DEF Orden
<1> QED
  BY <1>1, <1>2

LEMMA Dada ==
  ASSUME PidsAssumption, NEW s \in Seq(Partic), NEW i \in DOMAIN s, NEW p \in Pids,
         s[i].pid = Libre
  PROVE  Asignadas(De(s, i, p)) = Asignadas(s) \cup {<<p, s[i].base, Fin(s[i])>>}
<1> DEFINE t == De(s, i, p)
<1>0. p \in Pids \cup {Libre}
  OBVIOUS
<1>1. /\ DOMAIN t = DOMAIN s
      /\ \A j \in DOMAIN s : t[j].base = s[j].base /\ Fin(t[j]) = Fin(s[j])
                             /\ t[j].pid = IF j = i THEN p ELSE s[j].pid
  BY <1>0, CambiaDuenio
<1> HIDE DEF t
<1>2. p # Libre
  BY PidsAssumption DEF Libre
<1>3. Ocupado(t) = Ocupado(s) \cup {i}
  BY <1>1, <1>2 DEF Ocupado
<1>4. i \notin Ocupado(s) /\ Ocupado(s) \subseteq DOMAIN s
  BY DEF Ocupado
<1>5. \A j \in Ocupado(s) : <<t[j].pid, t[j].base, Fin(t[j])>> = <<s[j].pid, s[j].base, Fin(s[j])>>
  BY <1>1, <1>4
<1>6. <<t[i].pid, t[i].base, Fin(t[i])>> = <<p, s[i].base, Fin(s[i])>>
  BY <1>1
<1>8. {<<t[j].pid, t[j].base, Fin(t[j])>> : j \in Ocupado(s) \cup {i}}
      = {<<s[j].pid, s[j].base, Fin(s[j])>> : j \in Ocupado(s)} \cup {<<p, s[i].base, Fin(s[i])>>}
  BY <1>5, <1>6
<1>7. Asignadas(t) = {<<t[j].pid, t[j].base, Fin(t[j])>> : j \in Ocupado(s) \cup {i}}
  BY <1>3 DEF Asignadas
<1> QED
  BY <1>7, <1>8 DEF Asignadas, t

LEMMA Devuelta ==
  ASSUME NEW s \in Seq(Partic), Orden(s), NEW i \in DOMAIN s
  PROVE  Asignadas(De(s, i, Libre)) = Asignadas(s) \ {<<s[i].pid, s[i].base, Fin(s[i])>>}
<1> DEFINE t == De(s, i, Libre)
<1>0. Libre \in Pids \cup {Libre}
  OBVIOUS
<1>1. /\ DOMAIN t = DOMAIN s
      /\ \A j \in DOMAIN s : t[j].base = s[j].base /\ Fin(t[j]) = Fin(s[j])
                             /\ t[j].pid = IF j = i THEN Libre ELSE s[j].pid
  BY <1>0, CambiaDuenio
<1> HIDE DEF t
<1>2. Ocupado(t) = Ocupado(s) \ {i} /\ Ocupado(s) \subseteq DOMAIN s
  BY <1>1 DEF Ocupado
<1>3. ASSUME NEW j \in Ocupado(s),
             <<s[j].pid, s[j].base, Fin(s[j])>> = <<s[i].pid, s[i].base, Fin(s[i])>>
      PROVE  j = i
  BY <1>2, <1>3, PorBase
<1>4. Asignadas(t) = {<<s[j].pid, s[j].base, Fin(s[j])>> : j \in Ocupado(s) \ {i}}
  BY <1>1, <1>2 DEF Asignadas
<1> QED
  BY <1>3, <1>4 DEF Asignadas, t

LEMMA MismasFilas ==
  ASSUME NEW S, NEW s \in Seq(S), NEW t \in Seq(S), Len(s) = Len(t),
         \A j \in 1 .. Len(s) : s[j] = t[j]
  PROVE  s = t
  OBVIOUS

LEMMA MismaParticion ==
  ASSUME NEW x \in Partic, NEW y \in Partic,
         x.pid = y.pid, x.base = y.base, x.tamanio = y.tamanio
  PROVE  x = y
  BY DEF Partic

\* asignar_particion of a partition that is used up: it only changes hands.
LEMMA AsignaJusta ==
  ASSUME NEW s \in Seq(Partic), NEW i \in 1 .. Len(s), NEW n \in Nat \ {0},
         s[i].tamanio = n, NEW p \in Pids
  PROVE  InsertAt(achicar_particion(s, i, n), i, Particion(p, s[i].base, n)) = De(s, i, p)
<1> DEFINE u == RemoveAt(s, i)
           x == Particion(p, s[i].base, n)
           t == InsertAt(u, i, x)
           d == De(s, i, p)
<1>0. achicar_particion(s, i, n) = u
  BY DEF achicar_particion
<1>n. Len(s) \in Nat /\ DOMAIN s = 1 .. Len(s) /\ i \in 1 .. Len(s) /\ i \in Int
      /\ i >= 1 /\ i <= Len(s) /\ s[i].base \in Nat
  BY Datos
<1>1. x \in Partic
  BY <1>n DEF Partic, Particion
<1>2. /\ u \in Seq(Partic) /\ Len(u) = Len(s) - 1
      /\ \A j \in 1 .. Len(s) - 1 : u[j] = IF j < i THEN s[j] ELSE s[j+1]
  BY <1>n, Quita
<1>3. p \in Pids \cup {Libre}
  OBVIOUS
<1>4. /\ d \in Seq(Partic) /\ Len(d) = Len(s)
      /\ \A j \in DOMAIN s : d[j].base = s[j].base /\ d[j].tamanio = s[j].tamanio
                             /\ d[j].pid = IF j = i THEN p ELSE s[j].pid
  BY <1>3, CambiaDuenio
<1> HIDE DEF u, d
<1>5. /\ t \in Seq(Partic) /\ Len(t) = Len(s)
      /\ \A j \in 1 .. Len(s) : t[j] = IF j < i THEN u[j] ELSE IF j = i THEN x ELSE u[j-1]
  <2> HIDE DEF x
  <2>1. i \in 1 .. Len(u) + 1
    BY <1>n, <1>2
  <2>2. u \in Seq(Partic)
    BY <1>2
  <2>3. /\ t \in Seq(Partic) /\ Len(t) = Len(u) + 1
        /\ \A j \in 1 .. Len(u) + 1 :
              t[j] = IF j < i THEN u[j] ELSE IF j = i THEN x ELSE u[j-1]
    BY <1>1, <2>1, <2>2, Inserta
  <2>4. Len(u) + 1 = Len(s)
    BY <1>n, <1>2
  <2> QED
    BY <2>3, <2>4
<1>6. x.pid = p /\ x.base = s[i].base /\ x.tamanio = n
  BY DEF Particion
<1> HIDE DEF x, t
<1>7. ASSUME NEW j \in 1 .. Len(s) PROVE t[j] = d[j]
  <2>1. j # i => t[j] = s[j]
    <3>1. CASE j < i
      <4>1. j \in 1 .. Len(s) - 1
        BY <1>n, <3>1
      <4> QED
        BY <1>2, <1>5, <3>1, <4>1
    <3>2. CASE j > i
      <4>1. j - 1 \in 1 .. Len(s) - 1 /\ ~(j - 1 < i) /\ (j - 1) + 1 = j /\ ~(j < i) /\ j # i
        BY <1>n, <3>2
      <4>2. t[j] = u[j-1] /\ u[j-1] = s[(j-1)+1]
        BY <1>2, <1>5, <4>1
      <4> QED
        BY <4>1, <4>2
    <3> QED
      BY <1>n, <3>1, <3>2
  <2>2. t[j] \in Partic /\ d[j] \in Partic
    BY <1>4, <1>5
  <2>3. j = i => t[j] = x
    BY <1>n, <1>5
  <2>4. t[j].pid = d[j].pid /\ t[j].base = d[j].base /\ t[j].tamanio = d[j].tamanio
    BY <1>n, <1>4, <1>6, <2>1, <2>3
  <2> QED
    BY <2>2, <2>4, MismaParticion
<1>8. t = d
  BY <1>4, <1>5, <1>7, MismasFilas
<1> QED
  BY <1>0, <1>8 DEF t, d, u, x

\* asignar_particion of a larger one: it is cut in two and the first part is given.
Cortada(s, i, n) ==
    [j \in 1 .. Len(s) + 1 |->
        IF j < i THEN s[j]
        ELSE IF j = i THEN Particion(Libre, s[i].base, n)
        ELSE IF j = i + 1 THEN Particion(Libre, s[i].base + n, s[i].tamanio - n)
        ELSE s[j-1]]

LEMMA CortadaPartida ==
  ASSUME NEW s \in Seq(Partic), NEW i \in 1 .. Len(s), NEW n \in Nat \ {0}, n < s[i].tamanio
  PROVE  LET c == Cortada(s, i, n) IN
         /\ c \in Seq(Partic) /\ Partida(s, c, i)
         /\ c[i] = Particion(Libre, s[i].base, n)
         /\ c[i+1] = Particion(Libre, s[i].base + n, s[i].tamanio - n)
<1> DEFINE c == Cortada(s, i, n)
           x == Particion(Libre, s[i].base, n)
           y == Particion(Libre, s[i].base + n, s[i].tamanio - n)
<1>n. Len(s) \in Nat /\ DOMAIN s = 1 .. Len(s) /\ i \in Int /\ i >= 1 /\ i <= Len(s)
      /\ s[i].base \in Nat /\ s[i].tamanio \in Nat
      /\ i + 1 \in 1 .. Len(s) + 1 /\ i \in 1 .. Len(s) + 1
  BY Datos
<1>1. x \in Partic /\ y \in Partic
  BY <1>n DEF Partic, Particion
<1>2. x.base = s[i].base /\ y.base = Fin(x) /\ Fin(y) = Fin(s[i])
  BY <1>n DEF Particion, Fin
<1> HIDE DEF x, y
<1>3. c = [j \in 1 .. Len(s) + 1 |->
             IF j < i THEN s[j] ELSE IF j = i THEN x ELSE IF j = i + 1 THEN y ELSE s[j-1]]
  BY DEF Cortada, x, y
<1> HIDE DEF c
<1>4. ASSUME NEW j \in 1 .. Len(s) + 1 PROVE c[j] \in Partic
  <2>1. j < i => j \in DOMAIN s
    BY <1>n
  <2>2. j > i + 1 => j - 1 \in DOMAIN s
    BY <1>n
  <2>3. j < i \/ j = i \/ j = i + 1 \/ j > i + 1
    BY <1>n
  <2>4. CASE j < i
    BY <1>3, <2>1, <2>4
  <2>5. CASE j = i \/ j = i + 1
    BY <1>1, <1>3, <1>n, <2>5
  <2>6. CASE j > i + 1
    BY <1>3, <1>n, <2>2, <2>6
  <2> QED
    BY <2>3, <2>4, <2>5, <2>6
<1>5. c \in Seq(Partic) /\ Len(c) = Len(s) + 1
  BY <1>3, <1>4, <1>n
<1>6. c[i] = x /\ c[i+1] = y
  BY <1>3, <1>n
<1>7. \A j \in 1 .. i - 1 : c[j] = s[j]
  BY <1>3, <1>n
<1>8. ASSUME NEW j \in i + 1 .. Len(s) PROVE c[j+1] = s[j]
  <2>1. j + 1 \in 1 .. Len(s) + 1 /\ ~(j + 1 < i) /\ j + 1 # i /\ j + 1 # i + 1 /\ (j + 1) - 1 = j
    BY <1>n
  <2>2. c[j+1] = s[(j+1)-1]
    BY <1>3, <2>1
  <2> QED
    BY <2>1, <2>2
<1>9. Partida(s, c, i)
  BY <1>n, <1>2, <1>5, <1>6, <1>7, <1>8 DEF Partida
<1> QED
  BY <1>5, <1>6, <1>9 DEF c, x, y

LEMMA AsignaParte ==
  ASSUME NEW s \in Seq(Partic), NEW i \in 1 .. Len(s), NEW n \in Nat \ {0},
         n < s[i].tamanio, NEW p \in Pids
  PROVE  InsertAt(achicar_particion(s, i, n), i, Particion(p, s[i].base, n))
         = De(Cortada(s, i, n), i, p)
<1> DEFINE y == Particion(Libre, s[i].base + n, s[i].tamanio - n)
           u == [s EXCEPT ![i] = y]
           x == Particion(p, s[i].base, n)
           t == InsertAt(u, i, x)
           c == Cortada(s, i, n)
           d == De(c, i, p)
<1>n. Len(s) \in Nat /\ DOMAIN s = 1 .. Len(s) /\ i \in Int /\ i >= 1 /\ i <= Len(s)
      /\ s[i].base \in Nat /\ s[i].tamanio \in Nat
  BY Datos
<1>0. achicar_particion(s, i, n) = u
  BY <1>n DEF achicar_particion
<1>1. x \in Partic /\ y \in Partic
  BY <1>n DEF Partic, Particion
<1>2. /\ c \in Seq(Partic) /\ Partida(s, c, i) /\ c[i] = Particion(Libre, s[i].base, n)
      /\ c[i+1] = y
  BY CortadaPartida
<1>3. /\ Len(c) = Len(s) + 1
      /\ \A j \in 1 .. i - 1 : c[j] = s[j]
      /\ \A j \in i + 1 .. Len(s) : c[j+1] = s[j]
  BY <1>2 DEF Partida
<1>4. x.pid = p /\ x.base = c[i].base /\ x.tamanio = c[i].tamanio
  BY <1>2 DEF Particion
<1> HIDE DEF c, y
<1>5. /\ u \in Seq(Partic) /\ Len(u) = Len(s)
      /\ u[i] = y /\ \A j \in 1 .. Len(s) : j # i => u[j] = s[j]
  BY <1>1, <1>n
<1> HIDE DEF u, x
<1>6. /\ t \in Seq(Partic) /\ Len(t) = Len(u) + 1
      /\ \A j \in 1 .. Len(u) + 1 : t[j] = IF j < i THEN u[j] ELSE IF j = i THEN x ELSE u[j-1]
  <2>1. i \in 1 .. Len(u) + 1
    BY <1>n, <1>5
  <2>2. u \in Seq(Partic)
    BY <1>5
  <2> QED
    BY <1>1, <2>1, <2>2, Inserta
<1>7. p \in Pids \cup {Libre} /\ i \in DOMAIN c
  BY <1>n, <1>2, <1>3
<1>8. /\ d \in Seq(Partic) /\ Len(d) = Len(c) /\ DOMAIN d = DOMAIN c
      /\ \A j \in DOMAIN c : d[j].base = c[j].base /\ d[j].tamanio = c[j].tamanio
                             /\ d[j].pid = IF j = i THEN p ELSE c[j].pid
  BY <1>2, <1>7, CambiaDuenio
<1> HIDE DEF t, d
<1>9. Len(t) = Len(s) + 1 /\ Len(d) = Len(s) + 1
  BY <1>3, <1>5, <1>6, <1>8
<1>10. ASSUME NEW j \in 1 .. Len(s) + 1 PROVE t[j] = d[j]
  <2>0. j \in DOMAIN c /\ j \in DOMAIN t /\ j \in DOMAIN d /\ j \in 1 .. Len(u) + 1
    BY <1>n, <1>2, <1>3, <1>5, <1>6, <1>8
  <2>1. j # i => t[j] = c[j]
    <3>1. CASE j < i
      <4>1. j \in 1 .. i - 1 /\ j \in 1 .. Len(s) /\ j # i
        BY <1>n, <3>1
      <4> QED
        BY <1>3, <1>5, <1>6, <2>0, <3>1, <4>1
    <3>2. CASE j = i + 1
      <4>1. ~(j < i) /\ j # i /\ j - 1 = i
        BY <1>n, <3>2
      <4>2. t[j] = u[j-1]
        BY <1>6, <2>0, <4>1
      <4> QED
        BY <1>2, <1>5, <3>2, <4>1, <4>2
    <3>3. CASE j > i + 1
      <4>1. ~(j < i) /\ j # i /\ j - 1 \in i + 1 .. Len(s) /\ j - 1 # i /\ (j - 1) + 1 = j
            /\ j - 1 \in 1 .. Len(s)
        BY <1>n, <3>3
      <4>2. t[j] = u[j-1] /\ u[j-1] = s[j-1] /\ c[(j-1)+1] = s[j-1]
        BY <1>3, <1>5, <1>6, <2>0, <4>1
      <4> QED
        BY <4>1, <4>2
    <3> QED
      BY <1>n, <3>1, <3>2, <3>3
  <2>2. t[j] \in Partic /\ d[j] \in Partic
    BY <1>6, <1>8, <2>0
  <2>3. j = i => t[j] = x
    BY <1>n, <1>6, <2>0
  <2>4. t[j].pid = d[j].pid /\ t[j].base = d[j].base /\ t[j].tamanio = d[j].tamanio
    BY <1>n, <1>4, <1>8, <2>0, <2>1, <2>3
  <2> QED
    BY <2>2, <2>4, MismaParticion
<1>11. t = d
  BY <1>6, <1>8, <1>9, <1>10, MismasFilas
<1> QED
  BY <1>0, <1>11 DEF t, d, u, x, c

-----------------------------------------------------------------------------
(* Which neighbours are free, before and after. *)

LibresEn(s, j) == s[j].pid = Libre /\ s[j+1].pid = Libre

LEMMA VecinasDePartes ==
  ASSUME NEW s \in Seq(Partic), NEW t \in Seq(Partic), NEW i \in Int, Partida(s, t, i),
         s[i].pid = Libre, NEW j \in 1 .. Len(t) - 1, LibresEn(t, j), j # i
  PROVE  \/ j < i /\ j \in 1 .. Len(s) - 1 /\ LibresEn(s, j)
         \/ j > i /\ j - 1 \in 1 .. Len(s) - 1 /\ LibresEn(s, j - 1)
<1>n. Len(s) \in Nat /\ DOMAIN s = 1 .. Len(s) /\ i \in 1 .. Len(s) /\ Len(t) = Len(s) + 1
      /\ i >= 1 /\ i <= Len(s)
  BY DEF Partida
<1>1. CASE j < i - 1
  <2>1. j \in 1 .. i - 1 /\ j + 1 \in 1 .. i - 1 /\ j \in 1 .. Len(s) - 1 /\ j < i
    BY <1>n, <1>1
  <2>2. t[j] = s[j] /\ t[j+1] = s[j+1]
    BY <2>1 DEF Partida
  <2> QED
    BY <2>1, <2>2 DEF LibresEn
<1>2. CASE j = i - 1
  <2>1. j \in 1 .. i - 1 /\ j + 1 = i /\ j \in 1 .. Len(s) - 1 /\ j < i
    BY <1>n, <1>2
  <2>2. t[j] = s[j]
    BY <2>1 DEF Partida
  <2> QED
    BY <2>1, <2>2 DEF LibresEn
<1>3. CASE j = i + 1
  <2>1. i + 1 \in i + 1 .. Len(s) /\ j - 1 = i /\ j > i /\ j - 1 \in 1 .. Len(s) - 1
    BY <1>n, <1>3
  <2>2. t[(i + 1) + 1] = s[i+1]
    BY <2>1 DEF Partida
  <2> QED
    BY <1>3, <2>1, <2>2 DEF LibresEn
<1>4. CASE j > i + 1
  <2>1. j \in i + 1 .. Len(s) /\ j - 1 \in i + 1 .. Len(s) /\ (j - 1) + 1 = j
        /\ j - 1 \in 1 .. Len(s) - 1 /\ j > i
    BY <1>n, <1>4
  <2>2. t[j+1] = s[j] /\ t[(j-1)+1] = s[j-1]
    BY <2>1 DEF Partida
  <2>3. t[j] = s[j-1]
    BY <2>1, <2>2
  <2>4. s[(j-1)+1] = s[j]
    BY <2>1
  <2> QED
    BY <2>1, <2>2, <2>3, <2>4 DEF LibresEn
<1> QED
  BY <1>n, <1>1, <1>2, <1>3, <1>4

LEMMA VecinasDelEntero ==
  ASSUME NEW s \in Seq(Partic), NEW t \in Seq(Partic), NEW i \in Int, Partida(s, t, i),
         t[i].pid = Libre, t[i+1].pid = Libre, NEW j \in 1 .. Len(s) - 1, LibresEn(s, j)
  PROVE  \/ j < i /\ j \in 1 .. Len(t) - 1 /\ LibresEn(t, j)
         \/ j >= i /\ j + 1 \in 1 .. Len(t) - 1 /\ LibresEn(t, j + 1)
<1>n. Len(s) \in Nat /\ DOMAIN s = 1 .. Len(s) /\ i \in 1 .. Len(s) /\ Len(t) = Len(s) + 1
      /\ i >= 1 /\ i <= Len(s)
  BY DEF Partida
<1>1. CASE j < i - 1
  <2>1. j \in 1 .. i - 1 /\ j + 1 \in 1 .. i - 1 /\ j \in 1 .. Len(t) - 1 /\ j < i
    BY <1>n, <1>1
  <2>2. t[j] = s[j] /\ t[j+1] = s[j+1]
    BY <2>1 DEF Partida
  <2> QED
    BY <2>1, <2>2 DEF LibresEn
<1>2. CASE j = i - 1
  <2>1. j \in 1 .. i - 1 /\ j + 1 = i /\ j \in 1 .. Len(t) - 1 /\ j < i
    BY <1>n, <1>2
  <2>2. t[j] = s[j]
    BY <2>1 DEF Partida
  <2> QED
    BY <2>1, <2>2 DEF LibresEn
<1>3. CASE j >= i
  <2>1. j + 1 \in i + 1 .. Len(s) /\ j + 1 \in 1 .. Len(t) - 1
    BY <1>n, <1>3
  <2>2. t[(j+1)+1] = s[j+1]
    BY <2>1 DEF Partida
  <2>3. t[j+1].pid = Libre
    <3>1. CASE j = i
      BY <3>1
    <3>2. CASE j > i
      <4>1. j \in i + 1 .. Len(s)
        BY <1>n, <3>2
      <4>2. t[j+1] = s[j]
        BY <4>1 DEF Partida
      <4> QED
        BY <4>2 DEF LibresEn
    <3> QED
      BY <1>n, <1>3, <3>1, <3>2
  <2> QED
    BY <1>3, <2>1, <2>2, <2>3 DEF LibresEn
<1> QED
  BY <1>n, <1>1, <1>2, <1>3

LEMMA VecinasDeLaDada ==
  ASSUME PidsAssumption, NEW s \in Seq(Partic), NEW i \in 1 .. Len(s), NEW p \in Pids,
         NEW j \in 1 .. Len(s) - 1, LibresEn(De(s, i, p), j)
  PROVE  LibresEn(s, j) /\ j # i
<1>1. p # Libre /\ p \in Pids \cup {Libre} /\ i \in DOMAIN s
  BY PidsAssumption DEF Libre
<1>2. \A k \in DOMAIN s : De(s, i, p)[k].pid = IF k = i THEN p ELSE s[k].pid
  BY <1>1, CambiaDuenio
<1>3. j \in DOMAIN s /\ j + 1 \in DOMAIN s
  OBVIOUS
<1> QED
  BY <1>1, <1>2, <1>3 DEF LibresEn

LEMMA VecinasDeLaDevuelta ==
  ASSUME NEW s \in Seq(Partic), NEW i \in 1 .. Len(s),
         NEW j \in 1 .. Len(s) - 1, LibresEn(De(s, i, Libre), j)
  PROVE  LibresEn(s, j) \/ j = i \/ j = i - 1
<1>1. Libre \in Pids \cup {Libre} /\ i \in DOMAIN s
  OBVIOUS
<1>2. \A k \in DOMAIN s : De(s, i, Libre)[k].pid = IF k = i THEN Libre ELSE s[k].pid
  BY <1>1, CambiaDuenio
<1>3. j \in DOMAIN s /\ j + 1 \in DOMAIN s
  OBVIOUS
<1> QED
  BY <1>1, <1>2, <1>3 DEF LibresEn

-----------------------------------------------------------------------------
(* asignar_particion under DINAMICAS *)

LEMMA Asigna ==
  ASSUME PidsAssumption, NEW s \in Seq(Partic), Contigua(s), NEW i \in 1 .. Len(s),
         NEW n \in Nat \ {0}, s[i].pid = Libre, s[i].tamanio >= n, NEW p \in Pids
  PROVE  LET t == InsertAt(achicar_particion(s, i, n), i, Particion(p, s[i].base, n)) IN
         /\ t \in Seq(Partic) /\ Contigua(t)
         /\ \A m : Termina(s, m) => Termina(t, m)
         /\ SinVecinas(s) => SinVecinas(t)
         /\ Asignadas(t) = Asignadas(s) \cup {<<p, s[i].base, s[i].base + n>>}
<1> DEFINE t == InsertAt(achicar_particion(s, i, n), i, Particion(p, s[i].base, n))
<1>n. Len(s) \in Nat /\ DOMAIN s = 1 .. Len(s) /\ i \in DOMAIN s /\ s[i].tamanio \in Nat
  BY Datos
<1>p. p \in Pids \cup {Libre} /\ i \in DOMAIN s
  OBVIOUS
<1>1. CASE s[i].tamanio = n
  <2> DEFINE d == De(s, i, p)
  <2>1. t = d
    BY <1>1, AsignaJusta
  <2>2. d \in Seq(Partic) /\ Len(d) = Len(s)
        /\ \A j \in DOMAIN s : d[j].base = s[j].base /\ Fin(d[j]) = Fin(s[j])
    BY <1>p, CambiaDuenio
  <2>3. Asignadas(d) = Asignadas(s) \cup {<<p, s[i].base, Fin(s[i])>>}
    BY <1>n, Dada
  <2>4. \A j \in 1 .. Len(s) - 1 : LibresEn(d, j) => LibresEn(s, j)
    BY VecinasDeLaDada
  <2> HIDE DEF d, t
  <2>5. Contigua(d) /\ \A m : Termina(s, m) => Termina(d, m)
    BY <2>2, MismasDirecciones
  <2>6. SinVecinas(s) => SinVecinas(d)
    BY <2>2, <2>4 DEF SinVecinas, LibresEn
  <2>7. Fin(s[i]) = s[i].base + n
    BY <1>1 DEF Fin
  <2> QED
    BY <2>1, <2>2, <2>3, <2>5, <2>6, <2>7 DEF t
<1>2. CASE n < s[i].tamanio
  <2> DEFINE c == Cortada(s, i, n)
             d == De(c, i, p)
  <2>1. t = d
    BY <1>2, AsignaParte
  <2>2. c \in Seq(Partic) /\ Partida(s, c, i) /\ c[i] = Particion(Libre, s[i].base, n)
        /\ c[i+1] = Particion(Libre, s[i].base + n, s[i].tamanio - n)
    BY <1>2, CortadaPartida
  <2> HIDE DEF c, t
  <2>3. Len(c) = Len(s) + 1 /\ i \in DOMAIN c /\ i \in 1 .. Len(c)
        /\ c[i].pid = Libre /\ c[i+1].pid = Libre /\ Fin(c[i]) = s[i].base + n
        /\ c[i].base = s[i].base
    <3>1. Len(c) = Len(s) + 1
      BY <2>2 DEF Partida
    <3> QED
      BY <1>n, <2>2, <3>1 DEF Particion, Fin
  <2>4. Contigua(c) /\ \A m : Termina(s, m) => Termina(c, m)
    BY <2>2, PartidaContigua
  <2>5. Asignadas(c) = Asignadas(s)
    BY <2>2, <2>3, PartidaAsignadas
  <2>6. d \in Seq(Partic) /\ Len(d) = Len(c)
        /\ \A j \in DOMAIN c : d[j].base = c[j].base /\ Fin(d[j]) = Fin(c[j])
    <3>1. c \in Seq(Partic) /\ i \in DOMAIN c
      BY <2>2, <2>3
    <3> QED
      BY <1>p, <3>1, CambiaDuenio
  <2>7. Asignadas(d) = Asignadas(c) \cup {<<p, c[i].base, Fin(c[i])>>}
    BY <2>2, <2>3, Dada
  <2>8. \A j \in 1 .. Len(c) - 1 : LibresEn(d, j) => LibresEn(c, j) /\ j # i
    BY <2>2, <2>3, VecinasDeLaDada
  <2> HIDE DEF d
  <2>9. Contigua(d) /\ \A m : Termina(c, m) => Termina(d, m)
    BY <2>2, <2>4, <2>6, MismasDirecciones
  <2>10. ASSUME SinVecinas(s) PROVE SinVecinas(d)
    <3> SUFFICES ASSUME NEW j \in 1 .. Len(d) - 1, LibresEn(d, j) PROVE FALSE
      BY DEF SinVecinas, LibresEn
    <3>1. j \in 1 .. Len(c) - 1 /\ LibresEn(c, j) /\ j # i
      BY <2>6, <2>8
    <3>2. \/ j \in 1 .. Len(s) - 1 /\ LibresEn(s, j)
          \/ j - 1 \in 1 .. Len(s) - 1 /\ LibresEn(s, j - 1)
      BY <2>2, <3>1, VecinasDePartes
    <3> QED
      BY <2>10, <3>2 DEF SinVecinas, LibresEn
  <2> QED
    BY <2>1, <2>3, <2>4, <2>5, <2>6, <2>7, <2>9, <2>10 DEF t
<1> QED
  BY <1>n, <1>1, <1>2

-----------------------------------------------------------------------------
(* liberar_particion *)

LEMMA Junta ==
  ASSUME NEW s \in Seq(Partic), NEW i \in 1 .. Len(s) - 1, s[i+1].base = Fin(s[i])
  PROVE  LET t == juntar_particiones(s, i) IN
         /\ t \in Seq(Partic) /\ Partida(t, s, i)
         /\ t[i].pid = Libre /\ t[i].base = s[i].base
<1> DEFINE u == RemoveAt(s, i + 1)
           x == Particion(Libre, s[i].base, s[i].tamanio + s[i+1].tamanio)
           t == [u EXCEPT ![i] = x]
<1>n. Len(s) \in Nat /\ i \in Int /\ i >= 1 /\ i < Len(s)
  OBVIOUS
<1>d. /\ s[i].base \in Nat /\ s[i].tamanio \in Nat /\ s[i].tamanio > 0
      /\ s[i+1].base \in Nat /\ s[i+1].tamanio \in Nat /\ s[i+1].tamanio > 0
  <2>1. i \in DOMAIN s /\ i + 1 \in DOMAIN s
    BY <1>n
  <2> QED
    BY <2>1, Datos
<1>1. /\ u \in Seq(Partic) /\ Len(u) = Len(s) - 1
      /\ \A j \in 1 .. Len(s) - 1 : u[j] = IF j < i + 1 THEN s[j] ELSE s[j+1]
  <2>1. i + 1 \in 1 .. Len(s)
    BY <1>n
  <2> QED
    BY <2>1, Quita
<1>2. x \in Partic
  <2>1. s[i].tamanio + s[i+1].tamanio \in Nat \ {0} /\ s[i].base \in Nat
    BY <1>d
  <2> QED
    BY <2>1 DEF Partic, Particion
<1>3. x.pid = Libre /\ x.base = s[i].base /\ Fin(x) = Fin(s[i+1])
  <2>1. Fin(x) = s[i].base + (s[i].tamanio + s[i+1].tamanio)
    BY DEF Particion, Fin
  <2>2. Fin(s[i+1]) = (s[i].base + s[i].tamanio) + s[i+1].tamanio
    BY DEF Fin
  <2>3. Fin(x) = Fin(s[i+1])
    BY <1>d, <2>1, <2>2
  <2> QED
    BY <2>3 DEF Particion
<1>4. juntar_particiones(s, i) = t
  <2>1. u[i] = s[i]
    BY <1>n, <1>1
  <2> QED
    BY <2>1 DEF juntar_particiones
<1> HIDE DEF u, x
<1>5. /\ t \in Seq(Partic) /\ Len(t) = Len(s) - 1 /\ t[i] = x
      /\ \A j \in 1 .. Len(s) - 1 : j # i => t[j] = u[j]
  BY <1>n, <1>1, <1>2
<1> HIDE DEF t
<1>6. ASSUME NEW j \in 1 .. i - 1 PROVE s[j] = t[j]
  <2>1. j \in 1 .. Len(s) - 1 /\ j # i /\ j < i + 1
    BY <1>n
  <2> QED
    BY <1>1, <1>5, <2>1
<1>7. ASSUME NEW j \in i + 1 .. Len(t) PROVE s[j+1] = t[j]
  <2>1. j \in 1 .. Len(s) - 1 /\ j # i /\ ~(j < i + 1)
    BY <1>n, <1>5
  <2> QED
    BY <1>1, <1>5, <2>1
<1>8. Partida(t, s, i)
  <2>1. Len(s) = Len(t) + 1 /\ i \in DOMAIN t
    BY <1>n, <1>5
  <2>2. s[i].base = t[i].base /\ Fin(s[i+1]) = Fin(t[i])
    BY <1>3, <1>5
  <2> QED
    BY <1>6, <1>7, <2>1, <2>2 DEF Partida
<1> QED
  BY <1>3, <1>4, <1>5, <1>8

\* Two free neighbours are joined: nothing else changes.
LEMMA JuntaLibres ==
  ASSUME NEW s \in Seq(Partic), Contigua(s), NEW i \in 1 .. Len(s) - 1, LibresEn(s, i)
  PROVE  LET t == juntar_particiones(s, i) IN
         /\ t \in Seq(Partic) /\ Contigua(t) /\ Len(t) = Len(s) - 1
         /\ \A m : Termina(s, m) => Termina(t, m)
         /\ Asignadas(t) = Asignadas(s)
         /\ t[i].pid = Libre /\ t[i].base = s[i].base
         /\ \A j \in 1 .. Len(t) - 1 :
               LibresEn(t, j) => \/ j < i /\ j \in 1 .. Len(s) - 1 /\ LibresEn(s, j)
                                 \/ j >= i /\ j + 1 \in 1 .. Len(s) - 1 /\ LibresEn(s, j + 1)
<1> DEFINE t == juntar_particiones(s, i)
<1>n. Len(s) \in Nat /\ Len(s) > 0 /\ i \in Int
  OBVIOUS
<1>1. s[i+1].base = Fin(s[i])
  BY <1>n DEF Contigua
<1>2. t \in Seq(Partic) /\ Partida(t, s, i) /\ t[i].pid = Libre /\ t[i].base = s[i].base
  BY <1>1, Junta
<1> HIDE DEF t
<1>3. Len(t) = Len(s) - 1
  <2>1. Len(s) = Len(t) + 1 /\ Len(t) \in Nat
    BY <1>2 DEF Partida
  <2> QED
    BY <2>1
<1>4. s[i].pid = Libre /\ s[i+1].pid = Libre
  BY DEF LibresEn
<1>5. Contigua(t) /\ \A m : Termina(s, m) => Termina(t, m)
  BY <1>2, PartidaContigua
<1>6. Asignadas(t) = Asignadas(s)
  BY <1>2, <1>4, PartidaAsignadas
<1>7. \A j \in 1 .. Len(t) - 1 :
         LibresEn(t, j) => \/ j < i /\ j \in 1 .. Len(s) - 1 /\ LibresEn(s, j)
                           \/ j >= i /\ j + 1 \in 1 .. Len(s) - 1 /\ LibresEn(s, j + 1)
  BY <1>n, <1>2, <1>4, VecinasDelEntero
<1> QED
  BY <1>2, <1>3, <1>5, <1>6, <1>7 DEF t

\* derecha: joined with the partition at its right if that one is free.
Derecha(s, i) ==
    IF s[i].base + s[i].tamanio # memoria_config.tam_memoria /\ buscar_particion_libre(s, i + 1)
    THEN juntar_particiones(s, i) ELSE s

LEMMA JuntaDerecha ==
  ASSUME NEW s \in Seq(Partic), Contigua(s), NEW i \in 1 .. Len(s), s[i].pid = Libre,
         memoria_config.tam_memoria \in Nat, Termina(s, memoria_config.tam_memoria),
         \A j \in 1 .. Len(s) - 1 : LibresEn(s, j) => j = i \/ j = i - 1
  PROVE  LET t == Derecha(s, i) IN
         /\ t \in Seq(Partic) /\ Contigua(t) /\ i \in 1 .. Len(t)
         /\ Termina(t, memoria_config.tam_memoria)
         /\ Asignadas(t) = Asignadas(s) /\ t[i].pid = Libre /\ t[i].base = s[i].base
         /\ \A j \in 1 .. Len(t) - 1 : LibresEn(t, j) => j = i - 1
<1> DEFINE t == Derecha(s, i)
           m == memoria_config.tam_memoria
<1>n. Len(s) \in Nat /\ Len(s) > 0 /\ i \in Int /\ i >= 1 /\ i <= Len(s) /\ DOMAIN s = 1 .. Len(s)
  OBVIOUS
<1>1. CASE i < Len(s) /\ s[i+1].pid = Libre
  <2>0. i \in 1 .. Len(s) - 1 /\ i + 1 \in DOMAIN s /\ i \in DOMAIN s /\ Len(s) \in DOMAIN s
    BY <1>n, <1>1
  <2>1. s[i].base + s[i].tamanio # m
    <3>1. Fin(s[i]) <= s[i+1].base
      <4>1. s[i+1].base = Fin(s[i])
        BY <1>n, <2>0 DEF Contigua
      <4>2. Fin(s[i]) \in Nat
        BY <2>0, Datos
      <4> QED
        BY <4>1, <4>2
    <3>2. s[i+1].base \in Nat /\ Fin(s[i+1]) \in Nat /\ Fin(s[i+1]) > s[i+1].base
          /\ Fin(s[i]) \in Nat /\ Fin(s[i]) = s[i].base + s[i].tamanio
      BY <2>0, Datos
    <3>3. Fin(s[i+1]) <= Fin(s[Len(s)])
      <4>1. CASE i + 1 = Len(s)
        BY <3>2, <4>1
      <4>2. CASE i + 1 < Len(s)
        <5>1. Fin(s[i+1]) <= s[Len(s)].base
          BY <2>0, <4>2, ContiguaOrden DEF Orden
        <5>2. s[Len(s)].base \in Nat /\ Fin(s[Len(s)]) \in Nat /\ Fin(s[Len(s)]) > s[Len(s)].base
          BY <2>0, Datos
        <5> QED
          BY <3>2, <5>1, <5>2
      <4>3. i + 1 = Len(s) \/ i + 1 < Len(s)
        <5>1. i \in Int /\ Len(s) \in Int /\ i < Len(s)
          BY <1>n, <1>1
        <5> QED
          BY <5>1
      <4> QED
        BY <4>1, <4>2, <4>3
    <3>4. Fin(s[Len(s)]) = m
      BY <1>n DEF Termina
    <3> QED
      BY <3>1, <3>2, <3>3, <3>4
  <2>2. t = juntar_particiones(s, i)
    BY <1>1, <2>0, <2>1 DEF Derecha, buscar_particion_libre
  <2>3. LibresEn(s, i)
    BY <1>1 DEF LibresEn
  <2> HIDE DEF t
  <2>4. /\ t \in Seq(Partic) /\ Contigua(t) /\ Len(t) = Len(s) - 1
        /\ Termina(t, m) /\ Asignadas(t) = Asignadas(s)
        /\ t[i].pid = Libre /\ t[i].base = s[i].base
        /\ \A j \in 1 .. Len(t) - 1 :
              LibresEn(t, j) => \/ j < i /\ j \in 1 .. Len(s) - 1 /\ LibresEn(s, j)
                                \/ j >= i /\ j + 1 \in 1 .. Len(s) - 1 /\ LibresEn(s, j + 1)
    BY <2>0, <2>2, <2>3, JuntaLibres
  <2>5. ASSUME NEW j \in 1 .. Len(t) - 1, LibresEn(t, j) PROVE j = i - 1
    <3>1. CASE j < i /\ j \in 1 .. Len(s) - 1 /\ LibresEn(s, j)
      BY <1>n, <3>1
    <3>2. CASE j >= i /\ j + 1 \in 1 .. Len(s) - 1 /\ LibresEn(s, j + 1)
      <4>1. j + 1 = i \/ j + 1 = i - 1
        BY <3>2
      <4> QED
        BY <1>n, <3>2, <4>1
    <3> QED
      BY <2>4, <2>5, <3>1, <3>2
  <2> QED
    BY <1>n, <1>1, <2>4, <2>5 DEF t
<1>2. CASE ~(i < Len(s) /\ s[i+1].pid = Libre)
  <2>1. t = s
    BY <1>n, <1>2 DEF Derecha, buscar_particion_libre
  <2>2. \A j \in 1 .. Len(s) - 1 : LibresEn(s, j) => j = i - 1
    BY <1>n, <1>2 DEF LibresEn
  <2> QED
    BY <1>n, <2>1, <2>2
<1> QED
  BY <1>1, <1>2

LEMMA Libera ==
  ASSUME NEW i \in DOMAIN lista_particiones, NEW s, s = lista_particiones,
         s \in Seq(Partic), Contigua(s), memoria_config.tam_memoria \in Nat,
         Dinamicas => Termina(s, memoria_config.tam_memoria) /\ SinVecinas(s)
  PROVE  LET t == liberar_particion(i) IN
         /\ t \in Seq(Partic) /\ Contigua(t)
         /\ Dinamicas => Termina(t, memoria_config.tam_memoria) /\ SinVecinas(t)
         /\ Asignadas(t) = Asignadas(s) \ {<<s[i].pid, s[i].base, Fin(s[i])>>}
<1> DEFINE t == liberar_particion(i)
           f == De(s, i, Libre)
           d == Derecha(f, i)
           m == memoria_config.tam_memoria
<1>l. Libre \in Pids \cup {Libre} /\ i \in DOMAIN s
  OBVIOUS
<1>n. Len(s) \in Nat /\ i \in 1 .. Len(s) /\ DOMAIN s = 1 .. Len(s)
  BY Datos
<1>1. /\ f \in Seq(Partic) /\ Len(f) = Len(s)
      /\ \A j \in DOMAIN s : f[j].base = s[j].base /\ Fin(f[j]) = Fin(s[j])
      /\ f[i].pid = Libre
  BY <1>l, CambiaDuenio
<1>2. Contigua(f) /\ \A k : Termina(s, k) => Termina(f, k)
  BY <1>1, MismasDirecciones
<1>3. Asignadas(f) = Asignadas(s) \ {<<s[i].pid, s[i].base, Fin(s[i])>>}
  BY <1>l, ContiguaOrden, Devuelta
<1>4. \A j \in 1 .. Len(s) - 1 : LibresEn(f, j) => LibresEn(s, j) \/ j = i \/ j = i - 1
  BY <1>n, VecinasDeLaDevuelta
<1>5. t = IF ~Dinamicas THEN f
          ELSE IF d[i].base # 0 /\ buscar_particion_libre(d, i - 1)
               THEN juntar_particiones(d, i - 1) ELSE d
  BY DEF liberar_particion, De, Derecha
<1> HIDE DEF t, f
<1>6. CASE ~Dinamicas
  BY <1>1, <1>2, <1>3, <1>5, <1>6 DEF t
<1>7. CASE Dinamicas
  <2>0. i \in 1 .. Len(f) /\ Termina(f, m)
    BY <1>n, <1>1, <1>2, <1>7
  <2>1. \A j \in 1 .. Len(f) - 1 : LibresEn(f, j) => j = i \/ j = i - 1
    BY <1>1, <1>4, <1>7 DEF SinVecinas, LibresEn
  <2>2. /\ d \in Seq(Partic) /\ Contigua(d) /\ i \in 1 .. Len(d) /\ Termina(d, m)
        /\ Asignadas(d) = Asignadas(f) /\ d[i].pid = Libre /\ d[i].base = f[i].base
        /\ \A j \in 1 .. Len(d) - 1 : LibresEn(d, j) => j = i - 1
    BY <1>1, <1>2, <2>0, <2>1, JuntaDerecha
  <2> HIDE DEF d
  <2>n. Len(d) \in Nat /\ i \in Int /\ i >= 1 /\ i <= Len(d) /\ DOMAIN d = 1 .. Len(d)
    BY <2>2
  <2>3. CASE i > 1 /\ d[i-1].pid = Libre
    <3>0. i - 1 \in 1 .. Len(d) - 1 /\ (i - 1) + 1 = i /\ i - 1 \in DOMAIN d /\ Len(d) > 0
      BY <2>n, <2>3
    <3>1. d[i].base # 0
      <4>1. d[(i-1)+1].base = Fin(d[i-1])
        BY <2>2, <3>0 DEF Contigua
      <4>2. Fin(d[i-1]) \in Nat /\ d[i-1].base \in Nat /\ Fin(d[i-1]) > d[i-1].base
        BY <2>2, <3>0, Datos
      <4>3. d[i].base = Fin(d[i-1])
        BY <3>0, <4>1
      <4> QED
        BY <4>2, <4>3
    <3>2. t = juntar_particiones(d, i - 1)
      BY <1>5, <1>7, <2>3, <3>0, <3>1 DEF buscar_particion_libre
    <3>3. LibresEn(d, i - 1)
      <4>1. d[(i-1)+1].pid = Libre
        BY <2>2, <3>0
      <4> QED
        BY <2>3, <4>1 DEF LibresEn
    <3>4. /\ t \in Seq(Partic) /\ Contigua(t) /\ Len(t) = Len(d) - 1
          /\ Termina(t, m) /\ Asignadas(t) = Asignadas(d)
          /\ \A j \in 1 .. Len(t) - 1 :
                LibresEn(t, j) => \/ j < i - 1 /\ j \in 1 .. Len(d) - 1 /\ LibresEn(d, j)
                                  \/ j >= i - 1 /\ j + 1 \in 1 .. Len(d) - 1 /\ LibresEn(d, j + 1)
      BY <2>2, <3>0, <3>2, <3>3, JuntaLibres
    <3>5. ASSUME NEW j \in 1 .. Len(t) - 1, LibresEn(t, j) PROVE FALSE
      <4>1. CASE j < i - 1 /\ j \in 1 .. Len(d) - 1 /\ LibresEn(d, j)
        BY <2>2, <2>n, <4>1
      <4>2. CASE j >= i - 1 /\ j + 1 \in 1 .. Len(d) - 1 /\ LibresEn(d, j + 1)
        BY <2>2, <2>n, <4>2
      <4> QED
        BY <3>4, <3>5, <4>1, <4>2
    <3>6. SinVecinas(t)
      BY <3>5 DEF SinVecinas, LibresEn
    <3> QED
      BY <1>3, <2>2, <3>4, <3>6 DEF t
  <2>4. CASE ~(i > 1 /\ d[i-1].pid = Libre)
    <3>1. t = d
      BY <1>5, <1>7, <2>n, <2>4 DEF buscar_particion_libre
    <3>2. ASSUME NEW j \in 1 .. Len(d) - 1, LibresEn(d, j) PROVE FALSE
      <4>1. j = i - 1
        BY <2>2, <3>2
      <4> QED
        BY <2>n, <2>4, <3>2, <4>1 DEF LibresEn
    <3>3. SinVecinas(d)
      BY <3>2 DEF SinVecinas, LibresEn
    <3> QED
      BY <1>3, <2>2, <3>1, <3>3 DEF t
  <2> QED
    BY <2>3, <2>4
<1> QED
  BY <1>6, <1>7

-----------------------------------------------------------------------------
(* The inductive invariant: the list is tiled, the processes have exactly the       *)
(* partitions that are given out, and one of them is created or finished at a time. *)

Espacio(x) == <<x.pid, x.base, x.limite>>
Reparto ==
    {Espacio(x) : x \in {y \in Vigentes : y.pid # a_finalizar}} = Asignadas(lista_particiones)
ProcesosUnicos ==
    \A x, y \in lista_procesos \cup {nuevo_proceso} : x.pid = y.pid => x = y
UnoPorVez == nuevo_proceso = Ninguno \/ a_finalizar = Nadie

Inv == /\ TypeOK /\ Teselado /\ SinFragmentos
       /\ Reparto /\ DuenioUnico /\ ProcesosUnicos /\ UnoPorVez

LEMMA Listas ==
  /\ Teselado <=> /\ Contigua(lista_particiones)
                  /\ Dinamicas => Termina(lista_particiones, memoria_config.tam_memoria)
  /\ SinFragmentos <=> (Dinamicas => SinVecinas(lista_particiones))
  /\ Ocupadas = Ocupado(lista_particiones)
<1>1. Teselado <=> /\ Contigua(lista_particiones)
                   /\ Dinamicas => Termina(lista_particiones, memoria_config.tam_memoria)
  BY Zenon DEF Teselado, Contigua, Termina
<1>2. SinFragmentos <=> (Dinamicas => SinVecinas(lista_particiones))
  BY DEF SinFragmentos, SinVecinas
<1> QED
  BY <1>1, <1>2 DEF Ocupadas, Ocupado

\* DuenioUnico, said of the spaces of the processes and of those given out.
Aparte(x, a) == a[1] # x.pid => x.limite <= a[2] \/ a[3] <= x.base
Apartes(V, A) == \A x \in V : \A a \in A : Aparte(x, a)

LEMMA Duenios == DuenioUnico <=> Apartes(Vigentes, Asignadas(lista_particiones))
<1>1. Ocupadas = Ocupado(lista_particiones)
  BY Listas
<1>2. ASSUME DuenioUnico, NEW x \in Vigentes, NEW a \in Asignadas(lista_particiones)
      PROVE  Aparte(x, a)
  <2>1. PICK i \in Ocupado(lista_particiones) :
             a = <<lista_particiones[i].pid, lista_particiones[i].base, Fin(lista_particiones[i])>>
    BY DEF Asignadas
  <2>2. a[1] = lista_particiones[i].pid /\ a[2] = lista_particiones[i].base
        /\ a[3] = Fin(lista_particiones[i])
    BY <2>1
  <2> QED
    BY <1>1, <1>2, <2>2 DEF DuenioUnico, Aparte
<1>3. ASSUME Apartes(Vigentes, Asignadas(lista_particiones)) PROVE DuenioUnico
  <2>1. ASSUME NEW x \in Vigentes, NEW i \in Ocupadas, lista_particiones[i].pid # x.pid
        PROVE  x.limite <= lista_particiones[i].base \/ Fin(lista_particiones[i]) <= x.base
    <3> DEFINE a == <<lista_particiones[i].pid, lista_particiones[i].base,
                      Fin(lista_particiones[i])>>
    <3>1. a \in Asignadas(lista_particiones)
      BY <1>1 DEF Asignadas
    <3>2. Aparte(x, a)
      BY <1>3, <3>1 DEF Apartes
    <3> QED
      BY <2>1, <3>2 DEF Aparte
  <2> QED
    BY <2>1 DEF DuenioUnico
<1> QED
  BY <1>2, <1>3 DEF Apartes

LEMMA Separadas ==
  ASSUME NEW s \in Seq(Partic), Orden(s), NEW a \in Asignadas(s), NEW b \in Asignadas(s), a # b
  PROVE  a[3] <= b[2] \/ b[3] <= a[2]
<1>1. PICK i \in Ocupado(s) : a = <<s[i].pid, s[i].base, Fin(s[i])>>
  BY DEF Asignadas
<1>2. PICK j \in Ocupado(s) : b = <<s[j].pid, s[j].base, Fin(s[j])>>
  BY DEF Asignadas
<1>3. i \in DOMAIN s /\ j \in DOMAIN s /\ i # j /\ i \in Nat /\ j \in Nat
  BY <1>1, <1>2 DEF Ocupado
<1>4. i < j \/ j < i
  BY <1>3
<1>5. Fin(s[i]) <= s[j].base \/ Fin(s[j]) <= s[i].base
  BY <1>3, <1>4 DEF Orden
<1> QED
  BY <1>1, <1>2, <1>5

LEMMA Tripla ==
  ASSUME NEW s \in Seq(Partic), NEW a \in Asignadas(s)
  PROVE  /\ a[1] \in Pids \cup {Libre} /\ a[1] # Libre /\ a[2] \in Nat /\ a[3] \in Nat
         /\ a = <<a[1], a[2], a[3]>>
<1>1. PICK i \in Ocupado(s) : a = <<s[i].pid, s[i].base, Fin(s[i])>>
  BY DEF Asignadas
<1>2. i \in DOMAIN s /\ s[i].pid # Libre
  BY DEF Ocupado
<1>3. s[i].pid \in Pids \cup {Libre} /\ s[i].base \in Nat /\ Fin(s[i]) \in Nat
  BY <1>2, Datos
<1> QED
  BY <1>1, <1>2, <1>3

\* With nobody being finished, the processes and the spaces are apart because the
\* spaces are.
LEMMA RepartoAparta ==
  ASSUME NEW s \in Seq(Partic), Orden(s), NEW V \in SUBSET Procesos,
         {Espacio(x) : x \in V} \subseteq Asignadas(s)
  PROVE  Apartes(V, Asignadas(s))
<1> SUFFICES ASSUME NEW x \in V, NEW a \in Asignadas(s), a[1] # x.pid
             PROVE  x.limite <= a[2] \/ a[3] <= x.base
  BY DEF Apartes, Aparte
<1>1. Espacio(x) \in Asignadas(s) /\ Espacio(x)[1] = x.pid /\ Espacio(x)[2] = x.base
      /\ Espacio(x)[3] = x.limite
  BY DEF Espacio
<1>2. Espacio(x) # a
  BY <1>1
<1> QED
  BY <1>1, <1>2, Separadas

LEMMA TipoVigentes ==
  TypeOK => /\ Vigentes \subseteq Procesos
            /\ \A x \in Vigentes : x.pid \in Nat /\ x.pid # Nadie
            /\ nuevo_proceso = Ninguno => Vigentes = {x \in lista_procesos : x.base # SinBase}
<1> SUFFICES ASSUME TypeOK
             PROVE  /\ Vigentes \subseteq Procesos
                    /\ \A x \in Vigentes : x.pid \in Nat /\ x.pid # Nadie
                    /\ nuevo_proceso = Ninguno => Vigentes = {x \in lista_procesos : x.base # SinBase}
  OBVIOUS
<1>1. Ninguno.base = SinBase
  BY DEF Ninguno
<1>2. Vigentes \subseteq Procesos
  BY <1>1 DEF TypeOK, Vigentes
<1>3. \A x \in Procesos : x.pid \in Pids
  BY DEF Procesos
<1>4. ASSUME NEW x \in Vigentes PROVE x.pid \in Nat /\ x.pid # Nadie
  <2>1. x.pid \in Pids
    BY <1>2, <1>3
  <2>2. x.pid \in Nat
    BY <2>1, PidsAssumption
  <2> QED
    BY <2>2 DEF Nadie
<1> QED
  BY <1>1, <1>2, <1>4 DEF Vigentes

-----------------------------------------------------------------------------
(* The initial state: nothing is given out. *)

LEMMA SinAsignar ==
  ASSUME NEW s \in Seq(Partic), \A i \in DOMAIN s : s[i].pid = Libre
  PROVE  Asignadas(s) = {}
  BY DEF Asignadas, Ocupado

LEMMA InitInv == Init => Inv
<1> SUFFICES ASSUME Init PROVE Inv
  OBVIOUS
<1> DEFINE m == memoria_config.tam_memoria
           l == lista_particiones
<1>1. memoria_config \in Configuraciones /\ m \in Nat \ {0}
      /\ memoria_config.particiones \in Seq(Nat \ {0})
  BY ConfiguracionAssumption DEF Init
<1>2. /\ l \in Seq(Partic) /\ \A i \in DOMAIN l : l[i].pid = Libre
      /\ Contigua(l) /\ (Dinamicas => Termina(l, m) /\ SinVecinas(l))
  <2>1. CASE Dinamicas
    <3> DEFINE x == Particion(Libre, 0, m)
    <3>1. l = <<x>> /\ x \in Partic
      BY <1>1, <2>1 DEF Init, Partic, Particion
    <3>2. x.pid = Libre /\ x.base = 0 /\ Fin(x) = m
      BY <1>1 DEF Particion, Fin
    <3> HIDE DEF x, l, m
    <3>3. l \in Seq(Partic) /\ Len(l) = 1 /\ l[1] = x /\ DOMAIN l = {1}
      BY <3>1
    <3>4. \A i \in 1 .. Len(l) - 1 : FALSE
      BY <3>3
    <3> QED
      BY <3>2, <3>3, <3>4 DEF Contigua, Termina, SinVecinas
  <2>2. CASE ~Dinamicas
    <3> DEFINE P == memoria_config.particiones
    <3>1. PICK base \in [1 .. Len(P) -> 0 .. SumFunction(P)] :
               /\ \A i \in 1 .. Len(P) : base[i] = IF i = 1 THEN 0 ELSE base[i-1] + P[i-1]
               /\ l = [i \in 1 .. Len(P) |-> Particion(Libre, base[i], P[i])]
      BY <2>2 DEF Init
    <3> HIDE DEF l, m, P
    <3>n. Len(P) \in Nat /\ P \in Seq(Nat \ {0})
      BY <1>1 DEF P
    <3>2. ASSUME NEW i \in 1 .. Len(P)
          PROVE  /\ l[i] \in Partic /\ l[i].pid = Libre /\ l[i].base = base[i]
                 /\ Fin(l[i]) = base[i] + P[i]
      <4>1. base[i] \in Nat /\ P[i] \in Nat \ {0}
        BY <1>1, <3>n DEF m
      <4>2. l[i] = Particion(Libre, base[i], P[i])
        BY <3>1
      <4> QED
        BY <4>1, <4>2 DEF Partic, Particion, Fin
    <3>3. l \in Seq(Partic) /\ Len(l) = Len(P) /\ DOMAIN l = 1 .. Len(P)
      BY <3>1, <3>2, <3>n
    <3>4. Contigua(l)
      <4>1. Len(l) > 0 => l[1].base = 0
        <5>1. Len(l) > 0 => 1 \in 1 .. Len(P)
          BY <3>3, <3>n
        <5> QED
          BY <3>1, <3>2, <5>1
      <4>2. ASSUME NEW i \in 1 .. Len(l) - 1 PROVE l[i+1].base = Fin(l[i])
        <5>1. i \in 1 .. Len(P) /\ i + 1 \in 1 .. Len(P) /\ i + 1 # 1 /\ (i + 1) - 1 = i
          BY <3>3, <3>n
        <5>2. base[i+1] = base[(i+1)-1] + P[(i+1)-1]
          BY <3>1, <5>1
        <5>3. base[i+1] = base[i] + P[i]
          BY <5>1, <5>2
        <5> QED
          BY <3>2, <5>1, <5>3
      <4> QED
        BY <4>1, <4>2 DEF Contigua
    <3> QED
      BY <2>2, <3>2, <3>3, <3>4 DEF l
  <2> QED
    BY <2>1, <2>2
<1>3. lista_procesos = {} /\ nuevo_proceso = Ninguno /\ a_finalizar = Nadie
      /\ confirmacion = [codigo |-> "OK", tamanio |-> 0]
  BY DEF Init
<1>4. TypeOK
  BY <1>1, <1>2, <1>3 DEF TypeOK, Partic
<1>5. Teselado /\ SinFragmentos
  BY <1>2, Listas, Zenon DEF l, m
<1>6. Asignadas(l) = {}
  BY <1>2, SinAsignar
<1>7. Vigentes = {}
  BY <1>3 DEF Vigentes, Ninguno
<1>8. Reparto
  BY <1>6, <1>7 DEF Reparto
<1>9. DuenioUnico
  BY <1>7 DEF DuenioUnico
<1>10. ProcesosUnicos /\ UnoPorVez
  BY <1>3 DEF ProcesosUnicos, UnoPorVez
<1> QED
  BY <1>4, <1>5, <1>8, <1>9, <1>10 DEF Inv

-----------------------------------------------------------------------------
(* The steps *)

\* What CrearProceso does to the list: one more space is given out, to the new process.
LEMMA CrearLista ==
  ASSUME Inv, NEW p \in Pids, NEW n \in Tamanios, n # 0,
         NEW i \in DOMAIN lista_particiones, Encontrada(i, n), asignar_particion(p, n, i),
         memoria_config' = memoria_config
  PROVE  /\ lista_particiones' \in Seq(Partic)
         /\ Teselado' /\ SinFragmentos'
         /\ nuevo_proceso' \in Procesos /\ nuevo_proceso'.pid = p /\ nuevo_proceso'.base \in Nat
         /\ Asignadas(lista_particiones') = Asignadas(lista_particiones) \cup {Espacio(nuevo_proceso')}
<1> DEFINE s == lista_particiones
           m == memoria_config.tam_memoria
<1>1. s \in Seq(Partic) /\ Contigua(s) /\ (Dinamicas => Termina(s, m) /\ SinVecinas(s))
  BY Listas DEF Inv, TypeOK, Partic
<1>2. s[i].pid = Libre /\ s[i].tamanio >= n /\ n \in Nat \ {0}
  BY PidsAssumption DEF Encontrada, Validas, Cumple
<1>3. i \in 1 .. Len(s) /\ s[i].base \in Nat /\ s[i].tamanio \in Nat /\ Fin(s[i]) \in Nat
  BY <1>1, Datos
<1>4. Dinamicas' <=> Dinamicas
  BY DEF Dinamicas
<1>5. CASE Dinamicas
  <2> DEFINE u == achicar_particion(s, i, n)
             x == Particion(p, s[i].base, n)
             t == InsertAt(u, i, x)
  <2>1. PICK k \in 1 .. Len(u) + 1 :
             /\ LugarOrdenado(u, x, k)
             /\ lista_particiones' = InsertAt(u, k, x)
             /\ nuevo_proceso' = [pid |-> p, base |-> s[i].base, limite |-> s[i].base + n]
    BY <1>5 DEF asignar_particion
  <2>2. k = i
    <3>1. Orden(s)
      BY <1>1, ContiguaOrden
    <3> QED
      BY <1>1, <1>2, <2>1, <3>1, DondeVa
  <2>3. lista_particiones' = t
    BY <2>1, <2>2
  <2>4. /\ t \in Seq(Partic) /\ Contigua(t)
        /\ \A k2 : Termina(s, k2) => Termina(t, k2)
        /\ SinVecinas(s) => SinVecinas(t)
        /\ Asignadas(t) = Asignadas(s) \cup {<<p, s[i].base, s[i].base + n>>}
    BY <1>1, <1>2, <1>3, PidsAssumption, Asigna
  <2> HIDE DEF t
  <2>5. Termina(t, m) /\ SinVecinas(t)
    BY <1>1, <1>5, <2>4
  <2>6. Teselado' /\ SinFragmentos'
    <3>1. Contigua(lista_particiones)' /\ Termina(lista_particiones, m)'
          /\ SinVecinas(lista_particiones)'
      BY <2>3, <2>4, <2>5 DEF Contigua, Termina, SinVecinas, Fin
    <3> QED
      BY <3>1, Listas, PTL
  <2>7. nuevo_proceso' \in Procesos /\ nuevo_proceso'.pid = p /\ nuevo_proceso'.base \in Nat
    BY <1>2, <1>3, <2>1 DEF Procesos, Bases
  <2>8. Espacio(nuevo_proceso') = <<p, s[i].base, s[i].base + n>>
    BY <2>1 DEF Espacio
  <2> QED
    BY <2>3, <2>4, <2>6, <2>7, <2>8
<1>6. CASE ~Dinamicas
  <2> DEFINE t == De(s, i, p)
  <2>1. lista_particiones' = t
        /\ nuevo_proceso' = [pid |-> p, base |-> s[i].base, limite |-> s[i].base + s[i].tamanio]
    BY <1>6 DEF asignar_particion, De
  <2>2. p \in Pids \cup {Libre}
    OBVIOUS
  <2>3. /\ t \in Seq(Partic) /\ Len(t) = Len(s)
        /\ \A j \in DOMAIN s : t[j].base = s[j].base /\ Fin(t[j]) = Fin(s[j])
    BY <1>1, <2>2, CambiaDuenio
  <2>4. Asignadas(t) = Asignadas(s) \cup {<<p, s[i].base, Fin(s[i])>>}
    BY <1>1, <1>2, PidsAssumption, Dada
  <2> HIDE DEF t
  <2>5. Contigua(t)
    BY <1>1, <2>3, MismasDirecciones
  <2>6. Teselado' /\ SinFragmentos'
    <3>1. Contigua(lista_particiones)'
      BY <2>1, <2>5 DEF Contigua, Fin
    <3>2. ~Dinamicas'
      BY <1>4, <1>6
    <3> QED
      BY <3>1, <3>2, Listas, PTL
  <2>7. nuevo_proceso' \in Procesos /\ nuevo_proceso'.pid = p /\ nuevo_proceso'.base \in Nat
    BY <1>3, <2>1 DEF Procesos, Bases, Fin
  <2>8. Espacio(nuevo_proceso') = <<p, s[i].base, Fin(s[i])>>
    BY <2>1 DEF Espacio, Fin
  <2> QED
    BY <2>1, <2>3, <2>4, <2>6, <2>7, <2>8
<1> QED
  BY <1>5, <1>6

\* With the spaces given out those of the processes, and nobody being finished, no
\* process shares an address with another.
LEMMA DuenioDelReparto ==
  TypeOK /\ Teselado /\ Reparto /\ a_finalizar = Nadie => DuenioUnico
<1> SUFFICES ASSUME TypeOK, Teselado, Reparto, a_finalizar = Nadie PROVE DuenioUnico
  OBVIOUS
<1>1. lista_particiones \in Seq(Partic)
  BY DEF TypeOK, Partic
<1>2. Orden(lista_particiones)
  BY <1>1, Listas, ContiguaOrden
<1>3. Vigentes \subseteq Procesos /\ \A x \in Vigentes : x.pid # a_finalizar
  BY TipoVigentes
<1>4. {Espacio(x) : x \in Vigentes} \subseteq Asignadas(lista_particiones)
  BY <1>3 DEF Reparto
<1> QED
  BY <1>1, <1>2, <1>3, <1>4, RepartoAparta, Duenios

LEMMA PasoCrear ==
  ASSUME Inv, NEW p \in Pids, NEW n \in Tamanios, CrearProceso(p, n)
  PROVE  Inv'
<1>1. /\ nuevo_proceso = Ninguno /\ a_finalizar = Nadie /\ ~EnLista(p)
      /\ confirmacion' = [codigo |-> "OK", tamanio |-> n]
      /\ memoria_config' = memoria_config /\ lista_procesos' = lista_procesos
      /\ a_finalizar' = a_finalizar
  BY DEF CrearProceso, Desocupada
<1>2. TypeOK /\ Reparto /\ ProcesosUnicos /\ Teselado /\ SinFragmentos
  BY DEF Inv
<1>3. Vigentes = {x \in lista_procesos : x.base # SinBase} /\ Vigentes \subseteq Procesos
      /\ \A x \in Vigentes : x.pid # Nadie
  BY <1>1, <1>2, TipoVigentes
<1>4. Asignadas(lista_particiones) = {Espacio(x) : x \in Vigentes}
  BY <1>1, <1>2, <1>3 DEF Reparto
<1>5. /\ lista_particiones' \in Seq(Partic)
      /\ Teselado' /\ SinFragmentos'
      /\ nuevo_proceso' \in Procesos /\ nuevo_proceso'.pid = p
      /\ Asignadas(lista_particiones') = {Espacio(x) : x \in Vigentes'}
  <2>1. CASE n = 0
    <3>1. lista_particiones' = lista_particiones
          /\ nuevo_proceso' = [pid |-> p, base |-> SinBase, limite |-> SinBase]
      BY <2>1 DEF CrearProceso
    <3>2. lista_particiones' \in Seq(Partic)
      BY <1>2, <3>1 DEF TypeOK, Partic
    <3>3. Teselado' /\ SinFragmentos'
      BY <1>1, <1>2, <3>1 DEF Teselado, SinFragmentos, Dinamicas
    <3>4. nuevo_proceso' \in Procesos /\ nuevo_proceso'.pid = p
      BY <3>1 DEF Procesos, Bases
    <3>5. Vigentes' = Vigentes
      BY <1>1, <1>3, <3>1 DEF Vigentes
    <3>6. Asignadas(lista_particiones') = Asignadas(lista_particiones)
      BY <3>1
    <3> QED
      BY <1>4, <3>2, <3>3, <3>4, <3>5, <3>6
  <2>2. CASE n # 0
    <3>1. PICK i \in DOMAIN lista_particiones : Encontrada(i, n) /\ asignar_particion(p, n, i)
      BY <2>2 DEF CrearProceso
    <3>2. /\ lista_particiones' \in Seq(Partic)
          /\ Teselado' /\ SinFragmentos'
          /\ nuevo_proceso' \in Procesos /\ nuevo_proceso'.pid = p /\ nuevo_proceso'.base \in Nat
          /\ Asignadas(lista_particiones')
             = Asignadas(lista_particiones) \cup {Espacio(nuevo_proceso')}
      BY <1>1, <2>2, <3>1, CrearLista
    <3>3. Vigentes' = Vigentes \cup {nuevo_proceso'}
      <4>1. nuevo_proceso'.base # SinBase
        BY <3>2 DEF SinBase
      <4> QED
        BY <1>1, <1>3, <4>1 DEF Vigentes
    <3>4. {Espacio(x) : x \in Vigentes'} = {Espacio(x) : x \in Vigentes} \cup {Espacio(nuevo_proceso')}
      BY <3>3
    <3> QED
      BY <1>4, <3>2, <3>4
  <2> QED
    BY <2>1, <2>2
<1>6. TypeOK'
  BY <1>1, <1>2, <1>5 DEF TypeOK, Partic
<1>7. Reparto'
  <2>1. (\A x \in Vigentes : x.pid \in Nat /\ x.pid # Nadie)'
    BY <1>6, TipoVigentes, PTL
  <2>2. {y \in Vigentes' : y.pid # a_finalizar'} = Vigentes'
    BY <1>1, <2>1
  <2> QED
    BY <1>5, <2>2 DEF Reparto
<1>8. DuenioUnico'
  <2>1. (a_finalizar = Nadie)'
    BY <1>1
  <2> QED
    BY <1>5, <1>6, <1>7, <2>1, DuenioDelReparto, PTL
<1>9. ProcesosUnicos'
  <2>1. \A x \in lista_procesos : x.pid # p
    BY <1>1 DEF EnLista
  <2> QED
    BY <1>1, <1>2, <1>5, <2>1 DEF ProcesosUnicos
<1>10. UnoPorVez'
  BY <1>1 DEF UnoPorVez
<1> QED
  BY <1>5, <1>6, <1>7, <1>8, <1>9, <1>10 DEF Inv

LEMMA PasoAgregar == ASSUME Inv, AgregarProceso PROVE Inv'
<1>1. /\ nuevo_proceso # Ninguno /\ nuevo_proceso' = Ninguno
      /\ lista_procesos' = lista_procesos \cup {nuevo_proceso}
      /\ UNCHANGED <<memoria_config, lista_particiones, a_finalizar, confirmacion>>
  BY DEF AgregarProceso
<1>2. TypeOK /\ Reparto /\ ProcesosUnicos /\ Teselado /\ SinFragmentos /\ UnoPorVez /\ DuenioUnico
  BY DEF Inv
<1>3. nuevo_proceso \in Procesos
  BY <1>1, <1>2 DEF TypeOK
<1>4. TypeOK'
  BY <1>1, <1>2, <1>3 DEF TypeOK
<1>5. Teselado' /\ SinFragmentos'
  BY <1>1, <1>2 DEF Teselado, SinFragmentos, Dinamicas
<1>6. Vigentes' = Vigentes
  BY <1>1 DEF Vigentes, Ninguno
<1>7. Reparto'
  BY <1>1, <1>2, <1>6 DEF Reparto
<1>8. DuenioUnico'
  BY <1>1, <1>2, <1>6 DEF DuenioUnico, Ocupadas
<1>9. ProcesosUnicos'
  <2>1. Ninguno.pid \notin Pids
    BY PidsAssumption DEF Ninguno, Nadie
  <2>2. \A x \in lista_procesos \cup {nuevo_proceso} : x.pid \in Pids
    BY <1>2, <1>3 DEF TypeOK, Procesos
  <2> QED
    BY <1>1, <1>2, <2>1, <2>2 DEF ProcesosUnicos
<1>10. UnoPorVez'
  BY <1>1 DEF UnoPorVez
<1> QED
  BY <1>4, <1>5, <1>7, <1>8, <1>9, <1>10 DEF Inv

LEMMA PasoQuitar == ASSUME Inv, QuitarProceso PROVE Inv'
<1>1. /\ a_finalizar # Nadie /\ a_finalizar' = Nadie
      /\ lista_procesos' = {x \in lista_procesos : x.pid # a_finalizar}
      /\ UNCHANGED <<memoria_config, lista_particiones, nuevo_proceso, confirmacion>>
  BY DEF QuitarProceso
<1>2. TypeOK /\ Reparto /\ ProcesosUnicos /\ Teselado /\ SinFragmentos /\ UnoPorVez /\ DuenioUnico
  BY DEF Inv
<1>3. nuevo_proceso = Ninguno
  BY <1>1, <1>2 DEF UnoPorVez
<1>4. TypeOK'
  BY <1>1, <1>2 DEF TypeOK
<1>5. Teselado' /\ SinFragmentos'
  BY <1>1, <1>2 DEF Teselado, SinFragmentos, Dinamicas
<1>6. Vigentes = {x \in lista_procesos : x.base # SinBase}
      /\ \A x \in Vigentes : x.pid # Nadie
  BY <1>2, <1>3, TipoVigentes
<1>7. Vigentes' = {y \in Vigentes : y.pid # a_finalizar}
  BY <1>1, <1>3, <1>6 DEF Vigentes, Ninguno
<1>8. Reparto'
  <2>1. {y \in Vigentes' : y.pid # a_finalizar'} = {y \in Vigentes : y.pid # a_finalizar}
    BY <1>1, <1>6, <1>7
  <2> QED
    BY <1>1, <1>2, <2>1 DEF Reparto
<1>9. DuenioUnico'
  BY <1>1, <1>2, <1>7 DEF DuenioUnico, Ocupadas
<1>10. ProcesosUnicos'
  BY <1>1, <1>2 DEF ProcesosUnicos
<1>11. UnoPorVez'
  BY <1>1 DEF UnoPorVez
<1> QED
  BY <1>4, <1>5, <1>8, <1>9, <1>10, <1>11 DEF Inv

LEMMA PasoLiberar == ASSUME Inv, NEW p \in Pids, LiberarParticion(p) PROVE Inv'
<1> DEFINE s == lista_particiones
           V == {x \in lista_procesos : x.base # SinBase}
<1>1. /\ nuevo_proceso = Ninguno /\ a_finalizar = Nadie /\ a_finalizar' = p
      /\ UNCHANGED <<memoria_config, lista_procesos, nuevo_proceso, confirmacion>>
  BY DEF LiberarParticion, Desocupada
<1>2. PICK x \in lista_procesos :
         /\ x.pid = p
         /\ IF \E i \in DOMAIN s : buscar_particion_por_base(x.base, i)
            THEN \E i \in DOMAIN s : /\ buscar_particion_por_base(x.base, i)
                                     /\ lista_particiones' = liberar_particion(i)
            ELSE UNCHANGED lista_particiones
  BY DEF LiberarParticion
<1>3. TypeOK /\ Reparto /\ ProcesosUnicos /\ Teselado /\ SinFragmentos /\ DuenioUnico
  BY DEF Inv
<1>4. Vigentes = V /\ Vigentes \subseteq Procesos /\ \A y \in Vigentes : y.pid # Nadie
  BY <1>1, <1>3, TipoVigentes
<1>5. Vigentes' = V
  BY <1>1 DEF Vigentes, Ninguno
<1>6. Asignadas(s) = {Espacio(y) : y \in V}
  BY <1>1, <1>3, <1>4 DEF Reparto
<1>7. s \in Seq(Partic) /\ Contigua(s) /\ Orden(s)
      /\ (Dinamicas => Termina(s, memoria_config.tam_memoria) /\ SinVecinas(s))
      /\ memoria_config.tam_memoria \in Nat
  <2>1. s \in Seq(Partic) /\ memoria_config.tam_memoria \in Nat
    BY <1>3, ConfiguracionAssumption DEF TypeOK, Partic
  <2>2. Contigua(s) /\ (Dinamicas => Termina(s, memoria_config.tam_memoria) /\ SinVecinas(s))
    BY <1>3, Listas
  <2> QED
    BY <2>1, <2>2, ContiguaOrden
<1>8. \A y \in V : y.pid = p => y = x
  BY <1>2, <1>3 DEF ProcesosUnicos
<1>9. /\ lista_particiones' \in Seq(Partic) /\ Contigua(lista_particiones')
      /\ Dinamicas => /\ Termina(lista_particiones', memoria_config.tam_memoria)
                      /\ SinVecinas(lista_particiones')
      /\ Asignadas(lista_particiones') = {Espacio(y) : y \in {z \in V : z.pid # p}}
  <2>1. CASE x.base # SinBase
    <3>1. x \in V /\ Espacio(x) \in Asignadas(s)
      BY <1>6, <2>1
    <3>2. PICK k \in Ocupado(s) : Espacio(x) = <<s[k].pid, s[k].base, Fin(s[k])>>
      BY <3>1 DEF Asignadas
    <3>3. k \in DOMAIN s /\ s[k].base = x.base
      BY <3>2 DEF Ocupado, Espacio
    <3>4. \A j \in DOMAIN s : s[j].base = x.base => j = k
      BY <1>7, <3>3, PorBase
    <3>5. buscar_particion_por_base(x.base, k)
      <4>1. \A j \in 1 .. k - 1 : j \in DOMAIN s /\ j # k
        BY <1>7, <3>3
      <4> QED
        BY <3>3, <3>4, <4>1 DEF buscar_particion_por_base
    <3>6. PICK i \in DOMAIN s : buscar_particion_por_base(x.base, i)
                                /\ lista_particiones' = liberar_particion(i)
      BY <1>2, <3>3, <3>5
    <3>7. i = k
      BY <3>4, <3>6 DEF buscar_particion_por_base
    <3>8. /\ lista_particiones' \in Seq(Partic) /\ Contigua(lista_particiones')
          /\ Dinamicas => /\ Termina(lista_particiones', memoria_config.tam_memoria)
                          /\ SinVecinas(lista_particiones')
          /\ Asignadas(lista_particiones') = Asignadas(s) \ {Espacio(x)}
      BY <1>7, <3>2, <3>6, <3>7, Libera
    <3>9. \A y \in V : Espacio(y) = Espacio(x) => y.pid = p
      BY <1>2 DEF Espacio
    <3>10. {Espacio(y) : y \in V} \ {Espacio(x)} = {Espacio(y) : y \in {z \in V : z.pid # p}}
      BY <1>8, <3>9
    <3> QED
      BY <1>6, <3>8, <3>10
  <2>2. CASE x.base = SinBase
    <3>1. ~ \E i \in DOMAIN s : buscar_particion_por_base(x.base, i)
      <4>1. \A i \in DOMAIN s : s[i].base \in Nat
        BY <1>7, Datos
      <4>2. \A i \in DOMAIN s : s[i].base # SinBase
        BY <4>1 DEF SinBase
      <4> QED
        BY <2>2, <4>2 DEF buscar_particion_por_base
    <3>2. lista_particiones' = s
      BY <1>2, <3>1
    <3>3. {z \in V : z.pid # p} = V
      BY <1>8, <2>2
    <3> QED
      BY <1>6, <1>7, <3>2, <3>3
  <2> QED
    BY <2>1, <2>2
<1> HIDE DEF V
<1>10. TypeOK'
  BY <1>1, <1>3, <1>9 DEF TypeOK, Partic
<1>11. Teselado' /\ SinFragmentos'
  <2>1. Contigua(lista_particiones)' /\ (Dinamicas' =>
            Termina(lista_particiones, memoria_config.tam_memoria)' /\ SinVecinas(lista_particiones)')
    BY <1>1, <1>9 DEF Contigua, Termina, SinVecinas, Fin, Dinamicas
  <2> QED
    BY <2>1, Listas, PTL
<1>12. Reparto'
  BY <1>1, <1>5, <1>9 DEF Reparto
<1>13. DuenioUnico'
  <2>1. Apartes(V, Asignadas(s))
    BY <1>3, <1>4, Duenios
  <2>2. Asignadas(lista_particiones') \subseteq Asignadas(s)
    BY <1>6, <1>9
  <2>3. Apartes(Vigentes, Asignadas(lista_particiones))'
    BY <1>5, <2>1, <2>2 DEF Apartes, Aparte, Asignadas, Ocupado, Fin
  <2> QED
    BY <2>3, Duenios, PTL
<1>14. ProcesosUnicos'
  BY <1>1, <1>3 DEF ProcesosUnicos
<1>15. UnoPorVez'
  BY <1>1 DEF UnoPorVez
<1> QED
  BY <1>10, <1>11, <1>12, <1>13, <1>14, <1>15 DEF Inv

LEMMA PasoInv == Inv /\ [Next]_vars => Inv'
<1> SUFFICES ASSUME Inv, [Next]_vars PROVE Inv'
  OBVIOUS
<1>1. CASE \E p \in Pids : LiberarParticion(p)
  BY <1>1, PasoLiberar
<1>2. CASE \E p \in Pids, n \in Tamanios : CrearProceso(p, n)
  BY <1>2, PasoCrear
<1>3. ASSUME NEW p \in Pids, NEW n \in Tamanios, NoHayEspacio(p, n) PROVE Inv'
  <2>1. /\ confirmacion' = [codigo |-> "ERROR", tamanio |-> n]
        /\ UNCHANGED <<memoria_config, lista_particiones, lista_procesos, nuevo_proceso,
                       a_finalizar>>
    BY <1>3 DEF NoHayEspacio
  <2>2. TypeOK'
    BY <2>1 DEF Inv, TypeOK
  <2>3. Vigentes' = Vigentes /\ Ocupadas' = Ocupadas
    BY <2>1 DEF Vigentes, Ocupadas
  <2>4. Teselado' /\ SinFragmentos' /\ Reparto' /\ DuenioUnico' /\ ProcesosUnicos' /\ UnoPorVez'
    BY <2>1, <2>3 DEF Inv, Teselado, SinFragmentos, Dinamicas, Reparto, DuenioUnico,
                     ProcesosUnicos, UnoPorVez
  <2> QED
    BY <2>2, <2>4 DEF Inv
<1>4. CASE AgregarProceso
  BY <1>4, PasoAgregar
<1>5. CASE QuitarProceso
  BY <1>5, PasoQuitar
<1>6. CASE UNCHANGED vars
  <2>1. UNCHANGED <<memoria_config, lista_particiones, lista_procesos, nuevo_proceso,
                    a_finalizar, confirmacion>>
    BY <1>6 DEF vars
  <2>2. Vigentes' = Vigentes /\ Ocupadas' = Ocupadas
    BY <2>1 DEF Vigentes, Ocupadas
  <2> QED
    BY <2>1, <2>2 DEF Inv, TypeOK, Teselado, SinFragmentos, Dinamicas, Reparto, DuenioUnico,
                     ProcesosUnicos, UnoPorVez
<1> QED
  BY <1>1, <1>2, <1>3, <1>4, <1>5, <1>6 DEF Next

LEMMA Invariante == Spec => []Inv
  BY InitInv, PasoInv, PTL DEF Spec

\* Every process and its partition, one to one.
LEMMA Particulares == Inv => ProcesosEnParticiones
<1> SUFFICES ASSUME Inv PROVE ProcesosEnParticiones
  OBVIOUS
<1> DEFINE s == lista_particiones
<1>1. TypeOK /\ Teselado /\ Reparto /\ ProcesosUnicos
  BY DEF Inv
<1>2. s \in Seq(Partic) /\ Orden(s)
  <2>1. s \in Seq(Partic)
    BY <1>1 DEF TypeOK, Partic
  <2> QED
    BY <1>1, <2>1, Listas, ContiguaOrden
<1>3. Ocupadas = Ocupado(s)
  BY Listas
<1>4. ASSUME NEW i \in Ocupado(s), NEW j \in Ocupado(s), s[i].pid = s[j].pid PROVE i = j
  <2>1. /\ <<s[i].pid, s[i].base, Fin(s[i])>> \in Asignadas(s)
        /\ <<s[j].pid, s[j].base, Fin(s[j])>> \in Asignadas(s)
    BY DEF Asignadas
  <2>2. PICK x \in Vigentes : Espacio(x) = <<s[i].pid, s[i].base, Fin(s[i])>>
    BY <1>1, <2>1 DEF Reparto
  <2>3. PICK y \in Vigentes : Espacio(y) = <<s[j].pid, s[j].base, Fin(s[j])>>
    BY <1>1, <2>1 DEF Reparto
  <2>4. x.pid = s[i].pid /\ y.pid = s[j].pid /\ x.base = s[i].base /\ y.base = s[j].base
    BY <2>2, <2>3 DEF Espacio
  <2>5. x = y
    BY <1>1, <1>4, <2>4 DEF ProcesosUnicos, Vigentes
  <2>6. i \in DOMAIN s /\ j \in DOMAIN s /\ s[i].base = s[j].base
    BY <2>4, <2>5 DEF Ocupado
  <2> QED
    BY <1>2, <2>6, PorBase
<1>5. {<<x.pid, x.base, x.limite>> : x \in {y \in Vigentes : y.pid # a_finalizar}}
      = {<<s[i].pid, s[i].base, Fin(s[i])>> : i \in Ocupadas}
  BY <1>1, <1>3 DEF Reparto, Espacio, Asignadas
<1> QED
  BY <1>3, <1>4, <1>5 DEF ProcesosEnParticiones

-----------------------------------------------------------------------------
(* The theorems *)

\* Every variable keeps its type, and no partition is ever empty.
THEOREM Tipos == Spec => []TypeOK
<1>1. Inv => TypeOK
  BY DEF Inv
<1> QED
  BY <1>1, Invariante, PTL

\* However often crear_proceso cuts a partition and finalizar_proceso joins them,
\* the partitions cover the memory from address 0 to its end, one after the other.
THEOREM NoSePierdeMemoria == Spec => []Teselado
<1>1. Inv => Teselado
  BY DEF Inv
<1> QED
  BY <1>1, Invariante, PTL

\* Under DINAMICAS liberar_particion leaves no two free neighbours.
THEOREM SeJuntanTodas == Spec => []SinFragmentos
<1>1. Inv => SinFragmentos
  BY DEF Inv
<1> QED
  BY <1>1, Invariante, PTL

\* The processes and the partitions given out are the same, one to one.
THEOREM CadaProcesoSuParticion == Spec => []ProcesosEnParticiones
  BY Particulares, Invariante, PTL

\* No address of a process, not even of one being finished, is another's.
THEOREM NadiePisaANadie == Spec => []DuenioUnico
<1>1. Inv => DuenioUnico
  BY DEF Inv
<1> QED
  BY <1>1, Invariante, PTL

-----------------------------------------------------------------------------
(* Address by address: whose an address is, whatever list of partitions says so. *)

En(x, a)    == x.base <= a /\ a < Fin(x)
Es(s, a, p) == \E i \in DOMAIN s : En(s[i], a) /\ s[i].pid = p

LEMMA UnSoloLugar ==
  ASSUME NEW s \in Seq(Partic), Orden(s), NEW a \in Int, NEW i \in DOMAIN s,
         NEW j \in DOMAIN s, En(s[i], a), En(s[j], a)
  PROVE  i = j
<1>1. /\ s[i].base \in Nat /\ Fin(s[i]) \in Nat /\ i \in Nat
      /\ s[j].base \in Nat /\ Fin(s[j]) \in Nat /\ j \in Nat
  BY Datos
<1>2. /\ i < j => Fin(s[i]) <= s[j].base
      /\ j < i => Fin(s[j]) <= s[i].base
  BY DEF Orden
<1> QED
  BY <1>1, <1>2 DEF En

LEMMA Ambitos ==
  ASSUME NEW s \in Seq(Partic)
  PROVE  /\ Ambito(s) \subseteq Nat
         /\ \A a \in Int : a \in Ambito(s) <=> \E i \in DOMAIN s : En(s[i], a)
<1>1. ToSet(s) = {s[i] : i \in DOMAIN s}
  BY DEF ToSet
<1>2. \A i \in DOMAIN s : s[i].base \in Nat /\ Fin(s[i]) \in Nat
  BY Datos
<1>3. Ambito(s) \subseteq Nat
  BY <1>1, <1>2 DEF Ambito
<1>4. ASSUME NEW a \in Int PROVE a \in Ambito(s) <=> \E i \in DOMAIN s : En(s[i], a)
  <2>1. a \in Ambito(s) <=> \E i \in DOMAIN s : a \in s[i].base .. Fin(s[i]) - 1
    BY <1>1 DEF Ambito
  <2>2. \A i \in DOMAIN s : a \in s[i].base .. Fin(s[i]) - 1 <=> En(s[i], a)
    BY <1>2 DEF En
  <2> QED
    BY <2>1, <2>2
<1> QED
  BY <1>3, <1>4

LEMMA PidDe ==
  ASSUME NEW s \in Seq(Partic), Orden(s), NEW a \in Int, NEW i \in DOMAIN s, En(s[i], a)
  PROVE  PidEn(s, a) = s[i].pid
<1> DEFINE x == CHOOSE x \in ToSet(s) : x.base <= a /\ a < Fin(x)
<1>1. ToSet(s) = {s[k] : k \in DOMAIN s}
  BY DEF ToSet
<1>2. s[i] \in ToSet(s) /\ s[i].base <= a /\ a < Fin(s[i])
  BY <1>1 DEF En
<1>3. x \in ToSet(s) /\ x.base <= a /\ a < Fin(x)
  BY <1>2
<1>4. PidEn(s, a) = x.pid
  BY DEF PidEn
<1> HIDE DEF x
<1>5. PICK k \in DOMAIN s : x = s[k]
  BY <1>1, <1>3
<1>6. En(s[k], a)
  BY <1>3, <1>5 DEF En
<1> QED
  BY <1>4, <1>5, <1>6, UnSoloLugar

LEMMA PidEs ==
  ASSUME NEW s \in Seq(Partic), Orden(s), NEW a \in Ambito(s), NEW p
  PROVE  PidEn(s, a) = p <=> Es(s, a, p)
<1>0. a \in Int
  BY Ambitos
<1>1. PICK i \in DOMAIN s : En(s[i], a)
  BY <1>0, Ambitos
<1>2. PidEn(s, a) = s[i].pid
  BY <1>0, <1>1, PidDe
<1>3. \A j \in DOMAIN s : En(s[j], a) => i = j
  BY <1>0, <1>1, UnSoloLugar
<1> QED
  BY <1>1, <1>2, <1>3 DEF Es

LEMMA MismoDuenio ==
  ASSUME NEW s \in Seq(Partic), Orden(s), NEW t \in Seq(Partic), Orden(t),
         \A a \in Nat : \A p : Es(s, a, p) <=> Es(t, a, p)
  PROVE  DuenioDe(s) = DuenioDe(t)
<1>1. Ambito(s) \subseteq Nat /\ Ambito(t) \subseteq Nat
  BY Ambitos
<1>2. ASSUME NEW a \in Nat PROVE a \in Ambito(s) <=> a \in Ambito(t)
  <2>1. a \in Ambito(s) <=> \E p : Es(s, a, p)
    BY Ambitos DEF Es
  <2>2. a \in Ambito(t) <=> \E p : Es(t, a, p)
    BY Ambitos DEF Es
  <2> QED
    BY <2>1, <2>2
<1>3. Ambito(s) = Ambito(t)
  BY <1>1, <1>2
<1>4. ASSUME NEW a \in Ambito(s) PROVE PidEn(s, a) = PidEn(t, a)
  <2>1. Es(s, a, PidEn(s, a))
    BY PidEs
  <2>2. a \in Nat
    BY <1>1
  <2>3. Es(t, a, PidEn(s, a)) /\ a \in Ambito(t)
    BY <1>3, <2>1, <2>2
  <2> QED
    BY <2>3, PidEs
<1> QED
  BY <1>3, <1>4 DEF DuenioDe

\* A partition in two parts of the same process is the same memory.
LEMMA EsPartida ==
  ASSUME NEW s \in Seq(Partic), NEW t \in Seq(Partic), NEW i, Partida(s, t, i),
         t[i].pid = s[i].pid, t[i+1].pid = s[i].pid
  PROVE  \A a \in Nat : \A p : Es(s, a, p) <=> Es(t, a, p)
<1>n. Len(s) \in Nat /\ DOMAIN s = 1 .. Len(s) /\ i \in 1 .. Len(s) /\ Len(t) = Len(s) + 1
      /\ DOMAIN t = 1 .. Len(t) /\ i \in Int /\ i >= 1 /\ i <= Len(s)
      /\ i \in DOMAIN t /\ i + 1 \in DOMAIN t
  BY DEF Partida
<1>1. /\ t[i].base = s[i].base /\ t[i+1].base = Fin(t[i]) /\ Fin(t[i+1]) = Fin(s[i])
  BY DEF Partida
<1>2. /\ s[i].base \in Nat /\ Fin(s[i]) \in Nat /\ Fin(t[i]) \in Nat
      /\ Fin(t[i]) > t[i].base /\ Fin(t[i+1]) > t[i+1].base
  BY <1>n, Datos
<1>3. \A a \in Nat : En(s[i], a) <=> En(t[i], a) \/ En(t[i+1], a)
  BY <1>1, <1>2 DEF En
<1>4. \A j \in DOMAIN s : j # i => \E k \in DOMAIN t : t[k] = s[j]
  <2> SUFFICES ASSUME NEW j \in DOMAIN s, j # i PROVE \E k \in DOMAIN t : t[k] = s[j]
    OBVIOUS
  <2>1. CASE j < i
    <3>1. j \in 1 .. i - 1 /\ j \in DOMAIN t
      BY <1>n, <2>1
    <3> QED
      BY <3>1 DEF Partida
  <2>2. CASE j > i
    <3>1. j \in i + 1 .. Len(s) /\ j + 1 \in DOMAIN t
      BY <1>n, <2>2
    <3> QED
      BY <3>1 DEF Partida
  <2> QED
    BY <1>n, <2>1, <2>2
<1>5. \A j \in DOMAIN t : j # i /\ j # i + 1 => \E k \in DOMAIN s : s[k] = t[j]
  <2> SUFFICES ASSUME NEW j \in DOMAIN t, j # i, j # i + 1 PROVE \E k \in DOMAIN s : s[k] = t[j]
    OBVIOUS
  <2>1. CASE j < i
    <3>1. j \in 1 .. i - 1 /\ j \in DOMAIN s
      BY <1>n, <2>1
    <3> QED
      BY <3>1 DEF Partida
  <2>2. CASE j > i + 1
    <3>1. j - 1 \in i + 1 .. Len(s) /\ j - 1 \in DOMAIN s /\ (j - 1) + 1 = j
      BY <1>n, <2>2
    <3>2. t[(j-1)+1] = s[j-1]
      BY <3>1 DEF Partida
    <3> QED
      BY <3>1, <3>2
  <2> QED
    BY <1>n, <2>1, <2>2
<1>6. ASSUME NEW a \in Nat, NEW p, Es(s, a, p) PROVE Es(t, a, p)
  <2>1. PICK j \in DOMAIN s : En(s[j], a) /\ s[j].pid = p
    BY <1>6 DEF Es
  <2>2. CASE j = i
    <3>1. En(t[i], a) \/ En(t[i+1], a)
      BY <1>3, <2>1, <2>2
    <3> QED
      BY <1>n, <2>1, <2>2, <3>1 DEF Es
  <2>3. CASE j # i
    BY <1>4, <2>1, <2>3 DEF Es
  <2> QED
    BY <2>2, <2>3
<1>7. ASSUME NEW a \in Nat, NEW p, Es(t, a, p) PROVE Es(s, a, p)
  <2>1. PICK j \in DOMAIN t : En(t[j], a) /\ t[j].pid = p
    BY <1>7 DEF Es
  <2>2. CASE j = i \/ j = i + 1
    <3>1. En(s[i], a) /\ s[i].pid = p
      BY <1>3, <2>1, <2>2
    <3> QED
      BY <1>n, <3>1 DEF Es
  <2>3. CASE j # i /\ j # i + 1
    BY <1>5, <2>1, <2>3 DEF Es
  <2> QED
    BY <2>2, <2>3
<1> QED
  BY <1>6, <1>7

LEMMA OrdenDe ==
  ASSUME NEW s \in Seq(Partic), Contigua(s), NEW i \in DOMAIN s, NEW p \in Pids \cup {Libre}
  PROVE  /\ De(s, i, p) \in Seq(Partic) /\ Contigua(De(s, i, p)) /\ Orden(De(s, i, p))
         /\ \A m : Termina(s, m) => Termina(De(s, i, p), m)
<1> DEFINE t == De(s, i, p)
<1>1. /\ t \in Seq(Partic) /\ Len(t) = Len(s)
      /\ \A j \in DOMAIN s : t[j].base = s[j].base /\ Fin(t[j]) = Fin(s[j])
  BY CambiaDuenio
<1> HIDE DEF t
<1>2. Contigua(t) /\ \A m : Termina(s, m) => Termina(t, m)
  BY <1>1, MismasDirecciones
<1> QED
  BY <1>1, <1>2, ContiguaOrden DEF t

LEMMA EsDe ==
  ASSUME NEW s \in Seq(Partic), Orden(s), NEW i \in DOMAIN s, NEW p \in Pids \cup {Libre}
  PROVE  \A a \in Nat : \A q : Es(De(s, i, p), a, q) <=> IF En(s[i], a) THEN q = p
                                                        ELSE Es(s, a, q)
<1> DEFINE t == De(s, i, p)
<1>1. /\ DOMAIN t = DOMAIN s
      /\ \A j \in DOMAIN s : t[j].base = s[j].base /\ Fin(t[j]) = Fin(s[j])
                             /\ t[j].pid = IF j = i THEN p ELSE s[j].pid
  BY CambiaDuenio
<1> HIDE DEF t
<1> SUFFICES ASSUME NEW a \in Nat, NEW q
             PROVE  Es(t, a, q) <=> IF En(s[i], a) THEN q = p ELSE Es(s, a, q)
  BY DEF t
<1>2. \A j \in DOMAIN s : En(t[j], a) <=> En(s[j], a)
  BY <1>1 DEF En
<1>3. CASE En(s[i], a)
  <2>1. \A j \in DOMAIN s : En(s[j], a) => i = j
    BY <1>3, UnSoloLugar
  <2> QED
    BY <1>1, <1>2, <1>3, <2>1 DEF Es
<1>4. CASE ~En(s[i], a)
  BY <1>1, <1>2, <1>4 DEF Es
<1> QED
  BY <1>3, <1>4

LEMMA DuenioDeDe ==
  ASSUME NEW s \in Seq(Partic), Contigua(s), NEW i \in DOMAIN s, NEW p \in Pids \cup {Libre}
  PROVE  DuenioDe(De(s, i, p))
         = [a \in Ambito(s) |-> IF En(s[i], a) THEN p ELSE DuenioDe(s)[a]]
<1> DEFINE t == De(s, i, p)
<1>o. Orden(s)
  BY ContiguaOrden
<1>1. t \in Seq(Partic) /\ Orden(t)
  BY OrdenDe
<1>2. \A a \in Nat : \A q : Es(t, a, q) <=> IF En(s[i], a) THEN q = p ELSE Es(s, a, q)
  BY <1>o, EsDe
<1>3. Ambito(s) \subseteq Nat /\ Ambito(t) \subseteq Nat
  BY <1>1, Ambitos
<1> HIDE DEF t
<1>4. ASSUME NEW a \in Nat PROVE a \in Ambito(s) <=> a \in Ambito(t)
  <2>1. a \in Ambito(s) <=> \E q : Es(s, a, q)
    BY Ambitos DEF Es
  <2>2. a \in Ambito(t) <=> \E q : Es(t, a, q)
    BY <1>1, Ambitos DEF Es
  <2>3. En(s[i], a) => Es(s, a, s[i].pid) /\ Es(t, a, p)
    BY <1>2 DEF Es
  <2> QED
    BY <1>2, <2>1, <2>2, <2>3
<1>5. Ambito(t) = Ambito(s)
  BY <1>3, <1>4
<1>6. ASSUME NEW a \in Ambito(s)
      PROVE  PidEn(t, a) = IF En(s[i], a) THEN p ELSE DuenioDe(s)[a]
  <2>1. DuenioDe(s)[a] = PidEn(s, a)
    BY DEF DuenioDe
  <2>2. Es(s, a, PidEn(s, a)) /\ a \in Nat
    BY <1>o, <1>3, PidEs
  <2>3. Es(t, a, IF En(s[i], a) THEN p ELSE DuenioDe(s)[a])
    BY <1>2, <2>1, <2>2
  <2>4. a \in Ambito(t)
    BY <1>5
  <2> QED
    BY <1>1, <2>3, <2>4, PidEs
<1> QED
  BY <1>5, <1>6 DEF DuenioDe, t

-----------------------------------------------------------------------------
(* The places MemoriaUsuario offers are the free partitions. *)

LEMMA Siguiente ==
  ASSUME NEW s \in Seq(Partic), Contigua(s), NEW i \in DOMAIN s, NEW k \in DOMAIN s,
         En(s[k], Fin(s[i]))
  PROVE  k = i + 1
<1>1. /\ s[i].base \in Nat /\ Fin(s[i]) \in Nat /\ Fin(s[i]) > s[i].base /\ i \in Nat
      /\ s[k].base \in Nat /\ Fin(s[k]) \in Nat /\ k \in Nat
      /\ DOMAIN s = 1 .. Len(s) /\ Len(s) \in Nat
  BY Datos
<1>2. Orden(s)
  BY ContiguaOrden
<1>3. k > i
  BY <1>1, <1>2 DEF En, Orden
<1>4. i \in 1 .. Len(s) - 1 /\ i + 1 \in DOMAIN s /\ Len(s) > 0
  BY <1>1, <1>3
<1>5. s[i+1].base = Fin(s[i])
  BY <1>4 DEF Contigua
<1>6. En(s[i+1], Fin(s[i]))
  <2>1. Fin(s[i+1]) > s[i+1].base /\ s[i+1].base \in Nat
    BY <1>4, Datos
  <2> QED
    BY <1>5, <2>1 DEF En
<1> QED
  BY <1>1, <1>2, <1>4, <1>6, UnSoloLugar

LEMMA Anterior ==
  ASSUME NEW s \in Seq(Partic), Contigua(s), NEW i \in DOMAIN s, NEW k \in DOMAIN s,
         En(s[k], s[i].base - 1)
  PROVE  i = k + 1
<1>1. /\ s[i].base \in Nat /\ Fin(s[i]) \in Nat /\ Fin(s[i]) > s[i].base /\ i \in Nat
      /\ s[k].base \in Nat /\ Fin(s[k]) \in Nat /\ k \in Nat
      /\ DOMAIN s = 1 .. Len(s) /\ Len(s) \in Nat
  BY Datos
<1>2. Orden(s)
  BY ContiguaOrden
<1>3. k < i
  BY <1>1, <1>2 DEF En, Orden
<1>4. k \in 1 .. Len(s) - 1 /\ k + 1 \in DOMAIN s /\ Len(s) > 0
  BY <1>1, <1>3
<1>5. s[k+1].base = Fin(s[k])
  BY <1>4 DEF Contigua
<1>6. Fin(s[k]) >= s[i].base
  BY <1>1 DEF En
<1>7. k + 1 < i => Fin(s[k+1]) <= s[i].base
  BY <1>2, <1>4 DEF Orden
<1>8. Fin(s[k+1]) > s[k+1].base /\ s[k+1].base \in Nat /\ Fin(s[k+1]) \in Nat
  BY <1>4, Datos
<1>9. ~(k + 1 < i)
  BY <1>1, <1>5, <1>6, <1>7, <1>8
<1> QED
  BY <1>1, <1>3, <1>9

LEMMA ValorEn ==
  ASSUME NEW s \in Seq(Partic), Contigua(s), NEW a \in Int, NEW i \in DOMAIN s, En(s[i], a)
  PROVE  a \in Ambito(s) /\ DuenioDe(s)[a] = s[i].pid
<1>1. a \in Ambito(s)
  BY Ambitos
<1>2. PidEn(s, a) = s[i].pid
  BY ContiguaOrden, PidDe
<1> QED
  BY <1>1, <1>2 DEF DuenioDe

Lugar(x)  == <<x.base, Fin(x) - 1>>
Libres(s) == {i \in DOMAIN s : s[i].pid = Libre}

\* Every address of a free partition is free, and of no other.
LEMMA VacioEn ==
  ASSUME NEW s \in Seq(Partic), Contigua(s), NEW i \in DOMAIN s
  PROVE  (\A a \in s[i].base .. Fin(s[i]) - 1 : a \in Ambito(s) /\ DuenioDe(s)[a] = Libre)
         <=> s[i].pid = Libre
<1>1. s[i].base \in Nat /\ Fin(s[i]) \in Nat /\ Fin(s[i]) > s[i].base
  BY Datos
<1>2. ASSUME NEW a \in s[i].base .. Fin(s[i]) - 1
      PROVE  a \in Ambito(s) /\ DuenioDe(s)[a] = s[i].pid
  <2>1. a \in Int /\ En(s[i], a)
    BY <1>1 DEF En
  <2> QED
    BY <2>1, ValorEn
<1>3. s[i].base \in s[i].base .. Fin(s[i]) - 1
  BY <1>1
<1> QED
  BY <1>2, <1>3

\* A free partition between partitions that are not is a longest free stretch, ...
LEMMA LibreEsHueco ==
  ASSUME NEW s \in Seq(Partic), Contigua(s), SinVecinas(s), NEW i \in Libres(s)
  PROVE  LET h == Lugar(s[i])  d == DuenioDe(s) IN
         /\ h[1] \in Ambito(s) /\ h[2] \in Ambito(s) /\ h[1] <= h[2]
         /\ \A a \in h[1] .. h[2] : a \in Ambito(s) /\ d[a] = Libre
         /\ h[1] - 1 \in Ambito(s) => d[h[1] - 1] # Libre
         /\ h[2] + 1 \in Ambito(s) => d[h[2] + 1] # Libre
<1> DEFINE b == s[i].base
           f == Fin(s[i])
           d == DuenioDe(s)
<1>0. i \in DOMAIN s /\ s[i].pid = Libre
  BY DEF Libres
<1>1. b \in Nat /\ f \in Nat /\ f > b /\ DOMAIN s = 1 .. Len(s) /\ Len(s) \in Nat
  BY <1>0, Datos
<1>2. \A a \in b .. f - 1 : a \in Ambito(s) /\ d[a] = Libre
  BY <1>0, VacioEn
<1>3. ASSUME b - 1 \in Ambito(s) PROVE d[b - 1] # Libre
  <2>0. b - 1 \in Int
    BY <1>1
  <2>1. PICK k \in DOMAIN s : En(s[k], b - 1)
    BY <1>3, <2>0, Ambitos
  <2>2. i = k + 1
    BY <1>0, <2>1, Anterior
  <2>3. k \in 1 .. Len(s) - 1
    BY <1>0, <1>1, <2>2
  <2>4. s[k].pid # Libre
    BY <1>0, <2>2, <2>3 DEF SinVecinas
  <2> QED
    BY <2>0, <2>1, <2>4, ValorEn
<1>4. ASSUME f \in Ambito(s) PROVE d[f] # Libre
  <2>1. PICK k \in DOMAIN s : En(s[k], f)
    BY <1>1, <1>4, Ambitos
  <2>2. k = i + 1
    BY <1>0, <2>1, Siguiente
  <2>3. i \in 1 .. Len(s) - 1
    BY <1>0, <1>1, <2>2
  <2>4. s[k].pid # Libre
    BY <1>0, <2>2, <2>3 DEF SinVecinas
  <2> QED
    BY <1>1, <2>1, <2>4, ValorEn
<1>5. Lugar(s[i])[1] = b /\ Lugar(s[i])[2] = f - 1 /\ (f - 1) + 1 = f
      /\ b \in b .. f - 1 /\ f - 1 \in b .. f - 1
  BY <1>1 DEF Lugar
<1> HIDE DEF b, f, d
<1>6. /\ b \in Ambito(s) /\ f - 1 \in Ambito(s) /\ b <= f - 1
      /\ \A a \in b .. f - 1 : a \in Ambito(s) /\ d[a] = Libre
      /\ b - 1 \in Ambito(s) => d[b - 1] # Libre
      /\ (f - 1) + 1 \in Ambito(s) => d[(f - 1) + 1] # Libre
  <2>1. b <= f - 1
    BY <1>1
  <2> QED
    BY <1>2, <1>3, <1>4, <1>5, <2>1
<1> QED
  BY <1>5, <1>6 DEF d

\* ... and there is no other.
LEMMA HuecoEsLibre ==
  ASSUME NEW s \in Seq(Partic), Contigua(s), SinVecinas(s),
         NEW u \in Ambito(s), NEW v \in Ambito(s), u <= v,
         \A a \in u .. v : a \in Ambito(s) /\ DuenioDe(s)[a] = Libre,
         u - 1 \in Ambito(s) => DuenioDe(s)[u - 1] # Libre,
         v + 1 \in Ambito(s) => DuenioDe(s)[v + 1] # Libre
  PROVE  \E i \in Libres(s) : <<u, v>> = Lugar(s[i])
<1>0. u \in Nat /\ v \in Nat
  BY Ambitos
<1>1. PICK i \in DOMAIN s : En(s[i], u)
  BY <1>0, Ambitos
<1>2. s[i].base \in Nat /\ Fin(s[i]) \in Nat /\ Fin(s[i]) > s[i].base
      /\ DOMAIN s = 1 .. Len(s) /\ Len(s) \in Nat
  BY Datos
<1>3. s[i].pid = Libre
  <2>1. u \in u .. v
    BY <1>0
  <2> QED
    BY <1>0, <1>1, <2>1, ValorEn
<1>4. u = s[i].base
  <2> SUFFICES ASSUME u # s[i].base PROVE FALSE
    OBVIOUS
  <2>1. En(s[i], u - 1) /\ u - 1 \in Int
    BY <1>0, <1>1, <1>2 DEF En
  <2> QED
    BY <1>3, <2>1, ValorEn
<1>5. ~(v < Fin(s[i]) - 1)
  <2> SUFFICES ASSUME v < Fin(s[i]) - 1 PROVE FALSE
    OBVIOUS
  <2>1. En(s[i], v + 1) /\ v + 1 \in Int
    BY <1>0, <1>2, <1>4 DEF En
  <2> QED
    BY <1>3, <2>1, ValorEn
<1>6. ~(v >= Fin(s[i]))
  <2> SUFFICES ASSUME v >= Fin(s[i]) PROVE FALSE
    OBVIOUS
  <2>1. Fin(s[i]) \in u .. v
    BY <1>0, <1>2, <1>4
  <2>2. Fin(s[i]) \in Ambito(s) /\ DuenioDe(s)[Fin(s[i])] = Libre
    BY <2>1
  <2>3. PICK k \in DOMAIN s : En(s[k], Fin(s[i]))
    BY <1>2, <2>2, Ambitos
  <2>4. k = i + 1
    BY <2>3, Siguiente
  <2>5. s[k].pid = Libre
    BY <1>2, <2>2, <2>3, ValorEn
  <2>6. i \in 1 .. Len(s) - 1
    BY <1>2, <2>4
  <2> QED
    BY <1>3, <2>4, <2>5, <2>6 DEF SinVecinas
<1>7. v = Fin(s[i]) - 1
  BY <1>0, <1>2, <1>5, <1>6
<1> QED
  BY <1>3, <1>4, <1>7 DEF Libres, Lugar

LEMMA Lugares ==
  ASSUME TypeOK, Teselado, SinFragmentos
  PROVE  Memoria!Huecos = {Lugar(lista_particiones[i]) : i \in Libres(lista_particiones)}
<1> DEFINE s == lista_particiones
           A == Ambito(s)
           d == DuenioDe(s)
<1>1. s \in Seq(Partic) /\ Contigua(s) /\ (Dinamicas => SinVecinas(s))
  BY Listas DEF TypeOK, Partic
<1>2. DOMAIN d = A
  BY DEF DuenioDe
<1>3. Memoria!Huecos =
        IF Dinamicas
        THEN {h \in A \X A :
                 /\ h[1] <= h[2] /\ \A a \in h[1] .. h[2] : a \in A /\ d[a] = Libre
                 /\ h[1] - 1 \in A => d[h[1] - 1] # Libre
                 /\ h[2] + 1 \in A => d[h[2] + 1] # Libre}
        ELSE {h \in Regiones : \A a \in h[1] .. h[2] : a \in A /\ d[a] = Libre}
  BY <1>2 DEF Memoria!Huecos, Memoria!Vacio, Memoria!Direcciones, Memoria!Dinamicas, Dinamicas
<1>r. ~Dinamicas => Regiones = {Lugar(s[i]) : i \in DOMAIN s}
  BY DEF Regiones, ToSet, Lugar
<1> HIDE DEF s, A, d
<1>4. CASE Dinamicas
  <2>1. ASSUME NEW i \in Libres(s) PROVE Lugar(s[i]) \in Memoria!Huecos
    <3> DEFINE h == Lugar(s[i])
    <3>1. /\ h[1] \in A /\ h[2] \in A /\ h[1] <= h[2]
          /\ \A a \in h[1] .. h[2] : a \in A /\ d[a] = Libre
          /\ h[1] - 1 \in A => d[h[1] - 1] # Libre
          /\ h[2] + 1 \in A => d[h[2] + 1] # Libre
      BY <1>1, <1>4, LibreEsHueco DEF A, d
    <3>2. h \in A \X A
      <4>1. h = <<h[1], h[2]>>
        BY DEF Lugar
      <4> HIDE DEF h
      <4> QED
        BY <3>1, <4>1
    <3> HIDE DEF h
    <3>3. h \in Memoria!Huecos
      BY <1>3, <1>4, <3>1, <3>2
    <3> QED
      BY <3>3 DEF h
  <2>2. ASSUME NEW h \in Memoria!Huecos PROVE \E i \in Libres(s) : h = Lugar(s[i])
    <3>1. /\ h \in A \X A
          /\ h[1] <= h[2] /\ \A a \in h[1] .. h[2] : a \in A /\ d[a] = Libre
          /\ h[1] - 1 \in A => d[h[1] - 1] # Libre
          /\ h[2] + 1 \in A => d[h[2] + 1] # Libre
      BY <1>3, <1>4
    <3>2. h = <<h[1], h[2]>> /\ h[1] \in A /\ h[2] \in A
      BY <3>1
    <3>3. \E i \in Libres(s) : <<h[1], h[2]>> = Lugar(s[i])
      BY <1>1, <1>4, <3>1, <3>2, HuecoEsLibre DEF A, d
    <3> QED
      BY <3>2, <3>3
  <2>3. Memoria!Huecos = {Lugar(s[i]) : i \in Libres(s)}
    BY <2>1, <2>2
  <2> QED
    BY <2>3 DEF s
<1>5. CASE ~Dinamicas
  <2>1. \A i \in DOMAIN s :
           (\A a \in s[i].base .. Fin(s[i]) - 1 : a \in A /\ d[a] = Libre) <=> s[i].pid = Libre
    BY <1>1, VacioEn DEF A, d
  <2>2. \A i \in DOMAIN s : Lugar(s[i])[1] = s[i].base /\ Lugar(s[i])[2] = Fin(s[i]) - 1
    BY DEF Lugar
  <2>3. Memoria!Huecos = {h \in {Lugar(s[i]) : i \in DOMAIN s} :
                             \A a \in h[1] .. h[2] : a \in A /\ d[a] = Libre}
    BY <1>3, <1>5, <1>r
  <2>4. \A i \in DOMAIN s :
           (\A a \in Lugar(s[i])[1] .. Lugar(s[i])[2] : a \in A /\ d[a] = Libre)
           <=> s[i].pid = Libre
    BY <2>1, <2>2
  <2>5. Memoria!Huecos = {Lugar(s[i]) : i \in Libres(s)}
    BY <2>3, <2>4 DEF Libres
  <2> QED
    BY <2>5 DEF s
<1> QED
  BY <1>4, <1>5

-----------------------------------------------------------------------------
(* Where a process goes, if anywhere. *)

LEMMA Candidatas ==
  ASSUME TypeOK, Teselado, SinFragmentos, NEW n \in Nat
  PROVE  /\ Memoria!Candidatos(n) = {Lugar(lista_particiones[i]) : i \in Validas(n)}
         /\ \A i \in DOMAIN lista_particiones :
               /\ Memoria!Largo(Lugar(lista_particiones[i])) = Tam(i) /\ Tam(i) \in Nat
               /\ Lugar(lista_particiones[i])[1] = lista_particiones[i].base
<1> DEFINE s == lista_particiones
<1>1. s \in Seq(Partic)
  BY DEF TypeOK, Partic
<1>2. ASSUME NEW i \in DOMAIN s
      PROVE  /\ Memoria!Largo(Lugar(s[i])) = Tam(i) /\ Tam(i) \in Nat
             /\ Lugar(s[i])[1] = s[i].base
  <2>1. s[i].base \in Nat /\ s[i].tamanio \in Nat /\ Fin(s[i]) = s[i].base + s[i].tamanio
    BY <1>1, Datos
  <2>2. Lugar(s[i])[1] = s[i].base /\ Lugar(s[i])[2] = Fin(s[i]) - 1
    BY DEF Lugar
  <2>3. Memoria!Largo(Lugar(s[i])) = s[i].tamanio
    BY <2>1, <2>2 DEF Memoria!Largo
  <2> QED
    BY <2>1, <2>2, <2>3 DEF Tam
<1>3. Memoria!Huecos = {Lugar(s[i]) : i \in Libres(s)}
  BY Lugares
<1>4. Validas(n) = {i \in Libres(s) : Tam(i) >= n}
  BY DEF Validas, Cumple, Libres, Tam
<1>5. Memoria!Candidatos(n) = {h \in {Lugar(s[i]) : i \in Libres(s)} : Memoria!Largo(h) >= n}
  BY <1>3 DEF Memoria!Candidatos
<1>6. \A i \in Libres(s) : Memoria!Largo(Lugar(s[i])) = Tam(i)
  BY <1>2 DEF Libres
<1>7. Memoria!Candidatos(n) = {Lugar(s[i]) : i \in Validas(n)}
  <2> HIDE DEF s
  <2> QED
    BY <1>4, <1>5, <1>6
<1> QED
  BY <1>2, <1>7

LEMMA Preferida ==
  ASSUME TypeOK, Teselado, SinFragmentos, NEW n \in Nat,
         NEW i \in DOMAIN lista_particiones, Encontrada(i, n)
  PROVE  /\ Lugar(lista_particiones[i]) \in Memoria!Candidatos(n)
         /\ Memoria!Preferido(Lugar(lista_particiones[i]), n)
<1> DEFINE s == lista_particiones
           alg == memoria_config.algoritmo_busqueda
<1>1. s \in Seq(Partic) /\ Orden(s)
  <2>1. s \in Seq(Partic) /\ Contigua(s)
    BY Listas DEF TypeOK, Partic
  <2> QED
    BY <2>1, ContiguaOrden
<1>2. alg \in {"FIRST", "BEST", "WORST"}
  BY ConfiguracionAssumption DEF TypeOK
<1>3. /\ Memoria!Candidatos(n) = {Lugar(s[j]) : j \in Validas(n)}
      /\ \A j \in DOMAIN s : /\ Memoria!Largo(Lugar(s[j])) = Tam(j) /\ Tam(j) \in Nat
                             /\ Lugar(s[j])[1] = s[j].base
  BY Candidatas
<1>4. i \in Validas(n)
  BY DEF Encontrada
<1>5. ASSUME NEW j \in Validas(n)
      PROVE  CASE alg = "FIRST" -> Lugar(s[i])[1] <= Lugar(s[j])[1]
               [] alg = "BEST"  -> Memoria!Largo(Lugar(s[i])) <= Memoria!Largo(Lugar(s[j]))
               [] alg = "WORST" -> Memoria!Largo(Lugar(s[i])) >= Memoria!Largo(Lugar(s[j]))
  <2>0. j \in DOMAIN s /\ Tam(i) \in Nat /\ Tam(j) \in Nat
        /\ Memoria!Largo(Lugar(s[i])) = Tam(i) /\ Memoria!Largo(Lugar(s[j])) = Tam(j)
        /\ Lugar(s[i])[1] = s[i].base /\ Lugar(s[j])[1] = s[j].base
    BY <1>3 DEF Validas
  <2>1. CASE alg = "FIRST"
    <3>1. i <= j
      BY <2>1 DEF Encontrada, encontrar_particion_first
    <3>2. /\ i \in Nat /\ j \in Nat /\ s[i].base \in Nat /\ Fin(s[i]) \in Nat
          /\ Fin(s[i]) > s[i].base /\ s[j].base \in Nat
      BY <1>1, <2>0, Datos
    <3>3. i < j => Fin(s[i]) <= s[j].base
      BY <1>1, <2>0 DEF Orden
    <3>4. s[i].base <= s[j].base
      BY <3>1, <3>2, <3>3
    <3> QED
      BY <2>0, <2>1, <3>4
  <2>2. CASE alg = "BEST"
    <3>1. Tam(i) < Tam(j) \/ Tam(i) = Tam(j)
      BY <2>2 DEF Encontrada, encontrar_particion_best
    <3>2. Tam(i) <= Tam(j)
      BY <2>0, <3>1
    <3> QED
      BY <2>0, <2>2, <3>2
  <2>3. CASE alg = "WORST"
    <3>1. Tam(i) > Tam(j) \/ Tam(i) = Tam(j)
      BY <2>3 DEF Encontrada, encontrar_particion_worst
    <3>2. Tam(i) >= Tam(j)
      BY <2>0, <3>1
    <3> QED
      BY <2>0, <2>3, <3>2
  <2> QED
    BY <1>2, <2>1, <2>2, <2>3
<1>6. Lugar(s[i]) \in Memoria!Candidatos(n)
  BY <1>3, <1>4
<1>7. Memoria!Preferido(Lugar(s[i]), n)
  BY <1>3, <1>5 DEF Memoria!Preferido
<1> QED
  BY <1>6, <1>7

-----------------------------------------------------------------------------
(* Whose the addresses are after each step. *)

LEMMA MismosAmbitos ==
  ASSUME NEW s, NEW t, DuenioDe(s) = DuenioDe(t)
  PROVE  Ambito(s) = Ambito(t)
<1>1. DOMAIN DuenioDe(s) = Ambito(s) /\ DOMAIN DuenioDe(t) = Ambito(t)
  BY DEF DuenioDe
<1> QED
  BY <1>1

LEMMA AsignaDuenio ==
  ASSUME NEW s \in Seq(Partic), Contigua(s), NEW i \in 1 .. Len(s), NEW n \in Nat \ {0},
         s[i].pid = Libre, s[i].tamanio >= n, NEW p \in Pids
  PROVE  DuenioDe(InsertAt(achicar_particion(s, i, n), i, Particion(p, s[i].base, n)))
         = [a \in Ambito(s) |-> IF a \in s[i].base .. s[i].base + n - 1 THEN p
                                ELSE DuenioDe(s)[a]]
<1> DEFINE t == InsertAt(achicar_particion(s, i, n), i, Particion(p, s[i].base, n))
<1>n. i \in DOMAIN s /\ s[i].base \in Nat /\ s[i].tamanio \in Nat
      /\ Fin(s[i]) = s[i].base + s[i].tamanio /\ p \in Pids \cup {Libre}
  BY Datos
<1>a. Ambito(s) \subseteq Nat
  BY Ambitos
<1>1. CASE s[i].tamanio = n
  <2>1. t = De(s, i, p)
    BY <1>1, AsignaJusta
  <2>2. DuenioDe(De(s, i, p)) = [a \in Ambito(s) |-> IF En(s[i], a) THEN p ELSE DuenioDe(s)[a]]
    BY <1>n, DuenioDeDe
  <2>3. \A a \in Ambito(s) : En(s[i], a) <=> a \in s[i].base .. s[i].base + n - 1
    BY <1>1, <1>n, <1>a DEF En
  <2> HIDE DEF t
  <2>4. DuenioDe(t) = [a \in Ambito(s) |-> IF a \in s[i].base .. s[i].base + n - 1 THEN p
                                           ELSE DuenioDe(s)[a]]
    BY <2>1, <2>2, <2>3
  <2> QED
    BY <2>4 DEF t
<1>2. CASE n < s[i].tamanio
  <2> DEFINE c == Cortada(s, i, n)
  <2>1. t = De(c, i, p)
    BY <1>2, AsignaParte
  <2>2. c \in Seq(Partic) /\ Partida(s, c, i) /\ c[i] = Particion(Libre, s[i].base, n)
        /\ c[i+1] = Particion(Libre, s[i].base + n, s[i].tamanio - n)
    BY <1>2, CortadaPartida
  <2> HIDE DEF c, t
  <2>3. i \in DOMAIN c /\ c[i].pid = Libre /\ c[i+1].pid = Libre
        /\ c[i].base = s[i].base /\ Fin(c[i]) = s[i].base + n
    <3>1. Len(c) = Len(s) + 1
      BY <2>2 DEF Partida
    <3> QED
      BY <2>2, <3>1 DEF Particion, Fin
  <2>4. Contigua(c)
    BY <2>2, PartidaContigua
  <2>5. Orden(s) /\ Orden(c)
    BY <2>2, <2>4, ContiguaOrden
  <2>6. \A a \in Nat : \A q : Es(s, a, q) <=> Es(c, a, q)
    BY <2>2, <2>3, EsPartida
  <2>7. DuenioDe(s) = DuenioDe(c)
    BY <2>2, <2>5, <2>6, MismoDuenio
  <2>8. Ambito(s) = Ambito(c)
    BY <2>7, MismosAmbitos
  <2>9. DuenioDe(De(c, i, p)) = [a \in Ambito(c) |-> IF En(c[i], a) THEN p ELSE DuenioDe(c)[a]]
    BY <1>n, <2>2, <2>3, <2>4, DuenioDeDe
  <2>10. \A a \in Ambito(s) : En(c[i], a) <=> a \in s[i].base .. s[i].base + n - 1
    BY <1>n, <1>a, <2>3 DEF En
  <2>11. DuenioDe(t) = [a \in Ambito(s) |-> IF a \in s[i].base .. s[i].base + n - 1 THEN p
                                            ELSE DuenioDe(s)[a]]
    BY <2>1, <2>7, <2>8, <2>9, <2>10
  <2> QED
    BY <2>11 DEF t
<1> QED
  BY <1>n, <1>1, <1>2

LEMMA JuntaDuenio ==
  ASSUME NEW s \in Seq(Partic), Contigua(s), NEW i \in 1 .. Len(s) - 1, LibresEn(s, i)
  PROVE  LET t == juntar_particiones(s, i) IN
         /\ t \in Seq(Partic) /\ Contigua(t) /\ i \in DOMAIN t /\ t[i].pid = Libre
         /\ DuenioDe(t) = DuenioDe(s)
<1> DEFINE t == juntar_particiones(s, i)
<1>n. Len(s) \in Nat /\ Len(s) > 0 /\ i \in Int
  OBVIOUS
<1>1. s[i+1].base = Fin(s[i])
  BY <1>n DEF Contigua
<1>2. t \in Seq(Partic) /\ Partida(t, s, i) /\ t[i].pid = Libre
  BY <1>1, Junta
<1> HIDE DEF t
<1>3. s[i].pid = Libre /\ s[i+1].pid = Libre
  BY DEF LibresEn
<1>4. Contigua(t) /\ i \in DOMAIN t
  BY <1>2, PartidaContigua DEF Partida
<1>5. Orden(s) /\ Orden(t)
  BY <1>2, <1>4, ContiguaOrden
<1>6. \A a \in Nat : \A q : Es(t, a, q) <=> Es(s, a, q)
  BY <1>2, <1>3, EsPartida
<1>7. DuenioDe(t) = DuenioDe(s)
  BY <1>2, <1>5, <1>6, MismoDuenio
<1> QED
  BY <1>2, <1>4, <1>7 DEF t

LEMMA LiberaDuenio ==
  ASSUME NEW i \in DOMAIN lista_particiones, NEW s, s = lista_particiones,
         s \in Seq(Partic), Contigua(s)
  PROVE  /\ DuenioDe(liberar_particion(i))
            = [a \in Ambito(s) |-> IF En(s[i], a) THEN Libre ELSE DuenioDe(s)[a]]
         /\ ~Dinamicas => liberar_particion(i) = De(s, i, Libre)
<1> DEFINE t == liberar_particion(i)
           f == De(s, i, Libre)
           d == Derecha(f, i)
<1>l. Libre \in Pids \cup {Libre} /\ i \in DOMAIN s
  OBVIOUS
<1>1. f \in Seq(Partic) /\ Contigua(f)
  BY <1>l, OrdenDe
<1>2. DOMAIN f = DOMAIN s /\ f[i].pid = Libre
  BY <1>l, CambiaDuenio
<1>3. DuenioDe(f) = [a \in Ambito(s) |-> IF En(s[i], a) THEN Libre ELSE DuenioDe(s)[a]]
  BY <1>l, DuenioDeDe
<1>4. t = IF ~Dinamicas THEN f
          ELSE IF d[i].base # 0 /\ buscar_particion_libre(d, i - 1)
               THEN juntar_particiones(d, i - 1) ELSE d
  BY DEF liberar_particion, De, Derecha
<1> HIDE DEF t, f
<1>5. /\ d \in Seq(Partic) /\ Contigua(d) /\ i \in DOMAIN d /\ d[i].pid = Libre
      /\ DuenioDe(d) = DuenioDe(f)
  <2>1. CASE buscar_particion_libre(f, i + 1)
    <3>1. i + 1 \in DOMAIN f /\ f[i+1].pid = Libre
      BY <2>1 DEF buscar_particion_libre
    <3>2. i \in 1 .. Len(f) - 1 /\ LibresEn(f, i)
      BY <1>1, <1>2, <1>l, <3>1 DEF LibresEn
    <3>3. LET g == juntar_particiones(f, i) IN
          /\ g \in Seq(Partic) /\ Contigua(g) /\ i \in DOMAIN g /\ g[i].pid = Libre
          /\ DuenioDe(g) = DuenioDe(f)
      BY <1>1, <3>2, JuntaDuenio
    <3>4. d = juntar_particiones(f, i) \/ d = f
      BY DEF Derecha
    <3> HIDE DEF d
    <3> QED
      BY <1>1, <1>2, <1>l, <3>3, <3>4
  <2>2. CASE ~buscar_particion_libre(f, i + 1)
    <3>1. d = f
      BY <2>2 DEF Derecha
    <3> HIDE DEF d
    <3> QED
      BY <1>1, <1>2, <1>l, <3>1
  <2> QED
    BY <2>1, <2>2
<1> HIDE DEF d
<1>6. DuenioDe(t) = DuenioDe(f)
  <2>1. CASE ~Dinamicas
    BY <1>4, <2>1
  <2>2. CASE Dinamicas /\ d[i].base # 0 /\ buscar_particion_libre(d, i - 1)
    <3>1. i - 1 \in DOMAIN d /\ d[i-1].pid = Libre
      BY <2>2 DEF buscar_particion_libre
    <3>2. i - 1 \in 1 .. Len(d) - 1 /\ (i - 1) + 1 = i
      BY <1>5, <3>1
    <3>3. LibresEn(d, i - 1)
      BY <1>5, <3>1, <3>2 DEF LibresEn
    <3>4. DuenioDe(juntar_particiones(d, i - 1)) = DuenioDe(d)
      BY <1>5, <3>2, <3>3, JuntaDuenio
    <3>5. t = juntar_particiones(d, i - 1)
      BY <1>4, <2>2
    <3> QED
      BY <1>5, <3>4, <3>5
  <2>3. CASE Dinamicas /\ ~(d[i].base # 0 /\ buscar_particion_libre(d, i - 1))
    BY <1>4, <1>5, <2>3
  <2> QED
    BY <2>1, <2>2, <2>3
<1>7. ~Dinamicas => t = f
  BY <1>4
<1> QED
  BY <1>3, <1>6, <1>7 DEF t, f

-----------------------------------------------------------------------------
(* Every step of Particiones is one of MemoriaUsuario, or none. *)

LEMMA ListaDe ==
  Inv => /\ lista_particiones \in Seq(Partic) /\ Contigua(lista_particiones)
         /\ Orden(lista_particiones) /\ Ambito(lista_particiones) \subseteq Nat
         /\ Memoria!Direcciones = Ambito(lista_particiones)
         /\ (Memoria!Dinamicas <=> Dinamicas)
<1> SUFFICES ASSUME Inv
             PROVE  /\ lista_particiones \in Seq(Partic) /\ Contigua(lista_particiones)
                    /\ Orden(lista_particiones) /\ Ambito(lista_particiones) \subseteq Nat
                    /\ Memoria!Direcciones = Ambito(lista_particiones)
                    /\ (Memoria!Dinamicas <=> Dinamicas)
  OBVIOUS
<1>1. lista_particiones \in Seq(Partic) /\ Contigua(lista_particiones)
  BY Listas DEF Inv, TypeOK, Partic
<1>2. Memoria!Direcciones = Ambito(lista_particiones)
  BY DEF Memoria!Direcciones, DuenioDe
<1>3. Memoria!Dinamicas <=> Dinamicas
  BY DEF Memoria!Dinamicas, Dinamicas
<1> QED
  BY <1>1, <1>2, <1>3, ContiguaOrden, Ambitos

\* A process that has no partition owns no address.
LEMMA SinDirecciones ==
  ASSUME Inv, nuevo_proceso = Ninguno, a_finalizar = Nadie, NEW p \in Pids,
         \A x \in lista_procesos : x.pid = p => x.base = SinBase
  PROVE  /\ \A i \in DOMAIN lista_particiones : lista_particiones[i].pid # p
         /\ \A a \in Ambito(lista_particiones) : DuenioDe(lista_particiones)[a] # p
<1> DEFINE s == lista_particiones
<1>1. s \in Seq(Partic) /\ Contigua(s) /\ Ambito(s) \subseteq Nat
  BY ListaDe
<1>2. Vigentes = {x \in lista_procesos : x.base # SinBase} /\ Reparto
  BY TipoVigentes DEF Inv
<1>3. p # Libre
  BY PidsAssumption DEF Libre
<1>4. ASSUME NEW i \in DOMAIN s, s[i].pid = p PROVE FALSE
  <2>1. <<s[i].pid, s[i].base, Fin(s[i])>> \in Asignadas(s)
    BY <1>3, <1>4 DEF Asignadas, Ocupado
  <2>2. PICK x \in Vigentes : Espacio(x) = <<s[i].pid, s[i].base, Fin(s[i])>>
    BY <1>2, <2>1 DEF Reparto
  <2>3. x.pid = p
    BY <1>4, <2>2 DEF Espacio
  <2> QED
    BY <1>2, <2>3
<1>5. ASSUME NEW a \in Ambito(s) PROVE DuenioDe(s)[a] # p
  <2>1. a \in Int
    BY <1>1
  <2>2. PICK i \in DOMAIN s : En(s[i], a)
    BY <1>1, <2>1, Ambitos
  <2> QED
    BY <1>1, <1>4, <2>1, <2>2, ValorEn
<1> QED
  BY <1>4, <1>5

LEMMA AsignaLista ==
  ASSUME Inv, Dinamicas, NEW p \in Pids, NEW n \in Tamanios, n # 0,
         NEW i \in DOMAIN lista_particiones, Encontrada(i, n), asignar_particion(p, n, i)
  PROVE  lista_particiones'
         = InsertAt(achicar_particion(lista_particiones, i, n), i,
                    Particion(p, lista_particiones[i].base, n))
<1> DEFINE s == lista_particiones
           u == achicar_particion(s, i, n)
           x == Particion(p, s[i].base, n)
<1>1. s \in Seq(Partic) /\ Orden(s)
  BY ListaDe
<1>2. s[i].tamanio >= n /\ n \in Nat \ {0}
  BY PidsAssumption DEF Encontrada, Validas, Cumple
<1>3. PICK k \in 1 .. Len(u) + 1 : LugarOrdenado(u, x, k) /\ lista_particiones' = InsertAt(u, k, x)
  BY DEF asignar_particion
<1>4. k = i
  BY <1>1, <1>2, <1>3, DondeVa
<1> QED
  BY <1>3, <1>4

LEMMA RegionesDe ==
  ASSUME NEW s \in Seq(Partic), s = lista_particiones, memoria_config' = memoria_config,
         NEW i \in DOMAIN s, NEW p \in Pids \cup {Libre},
         ~Dinamicas => lista_particiones' = De(s, i, p)
  PROVE  Regiones' = Regiones
<1>1. CASE Dinamicas
  <2>1. Dinamicas'
    BY <1>1 DEF Dinamicas
  <2> QED
    BY <1>1, <2>1 DEF Regiones
<1>2. CASE ~Dinamicas
  <2> DEFINE t == De(s, i, p)
  <2>1. ~Dinamicas'
    BY <1>2 DEF Dinamicas
  <2>2. /\ DOMAIN t = DOMAIN s
        /\ \A j \in DOMAIN s : t[j].base = s[j].base /\ Fin(t[j]) = Fin(s[j])
    BY CambiaDuenio
  <2> HIDE DEF t
  <2>3. {<<t[j].base, Fin(t[j]) - 1>> : j \in DOMAIN t} = {<<s[j].base, Fin(s[j]) - 1>> : j \in DOMAIN s}
    BY <2>2
  <2>4. Regiones = {<<s[j].base, Fin(s[j]) - 1>> : j \in DOMAIN s}
    BY <1>2 DEF Regiones, ToSet
  <2>5. lista_particiones' = t
    BY <1>2 DEF t
  <2>6. Regiones' = {<<t[j].base, Fin(t[j]) - 1>> : j \in DOMAIN t}
    BY <2>1, <2>5 DEF Regiones, ToSet, Fin
  <2> QED
    BY <2>3, <2>4, <2>6
<1> QED
  BY <1>1, <1>2

LEMMA MismaRegion ==
  ASSUME UNCHANGED <<memoria_config, lista_particiones>>
  PROVE  Regiones' = Regiones /\ DuenioDe(lista_particiones)' = DuenioDe(lista_particiones)
  BY DEF Regiones, Dinamicas, Fin, DuenioDe, Ambito, PidEn

LEMMA DuenioPrimado == DuenioDe(lista_particiones)' = DuenioDe(lista_particiones')
  BY DEF Fin, DuenioDe, Ambito, PidEn

\* crear_proceso gives the process the addresses MemoriaUsuario says.
LEMMA CrearAsigna ==
  ASSUME Inv, NEW p \in Pids, NEW n \in Tamanios, CrearProceso(p, n)
  PROVE  Memoria!Asigna(p, n)
<1> DEFINE s == lista_particiones
           A == Ambito(s)
           d == DuenioDe(s)
<1>1. /\ nuevo_proceso = Ninguno /\ a_finalizar = Nadie /\ ~EnLista(p)
      /\ buscar_espacio_memoria(n)
      /\ confirmacion' = [codigo |-> "OK", tamanio |-> n]
      /\ memoria_config' = memoria_config
  BY DEF CrearProceso, Desocupada
<1>2. s \in Seq(Partic) /\ Contigua(s) /\ A \subseteq Nat
      /\ Memoria!Direcciones = A /\ (Memoria!Dinamicas <=> Dinamicas)
      /\ TypeOK /\ Teselado /\ SinFragmentos
  BY ListaDe DEF Inv
<1>3. \A a \in A : d[a] # p
  <2>1. \A x \in lista_procesos : x.pid = p => x.base = SinBase
    BY <1>1 DEF EnLista
  <2> QED
    BY <1>1, <2>1, SinDirecciones
<1>n. n \in Nat
  BY PidsAssumption
<1> HIDE DEF s, A, d
<1>4. CASE n = 0
  <2>1. UNCHANGED <<memoria_config, lista_particiones>>
    BY <1>1, <1>4 DEF CrearProceso
  <2>2. Memoria!Candidatos(0) # {}
    <3>1. Memoria!Candidatos(0) = {Lugar(s[i]) : i \in Validas(0)}
      BY <1>2, Candidatas DEF s
    <3>2. Validas(0) # {}
      BY <1>1, <1>4 DEF buscar_espacio_memoria
    <3> QED
      BY <3>1, <3>2
  <2>3. Regiones' = Regiones /\ DuenioDe(lista_particiones)' = d
    BY <2>1, MismaRegion DEF d, s
  <2> QED
    BY <1>1, <1>2, <1>3, <1>4, <2>2, <2>3 DEF Memoria!Asigna, d, s
<1>5. CASE n # 0
  <2>1. PICK i \in DOMAIN s : Encontrada(i, n) /\ asignar_particion(p, n, i)
    BY <1>5 DEF CrearProceso, s
  <2> DEFINE h == Lugar(s[i])
             ultima == IF Dinamicas THEN h[1] + n - 1 ELSE h[2]
  <2>2. h \in Memoria!Candidatos(n) /\ Memoria!Preferido(h, n)
    BY <1>2, <1>n, <2>1, Preferida DEF s
  <2>3. h[1] = s[i].base /\ h[2] = Fin(s[i]) - 1
    BY DEF Lugar
  <2>4. s[i].pid = Libre /\ s[i].tamanio >= n /\ n \in Nat \ {0}
        /\ i \in 1 .. Len(s) /\ i \in DOMAIN s /\ p \in Pids \cup {Libre}
    BY <1>2, <1>5, <1>n, <2>1, Datos DEF Encontrada, Validas, Cumple, s
  <2> HIDE DEF h
  <2>5. DuenioDe(lista_particiones') = [a \in A |-> IF a \in h[1] .. ultima THEN p ELSE d[a]]
    <3>1. CASE Dinamicas
      <4>1. lista_particiones' = InsertAt(achicar_particion(s, i, n), i, Particion(p, s[i].base, n))
        BY <1>5, <2>1, <3>1, AsignaLista DEF s
      <4>2. DuenioDe(lista_particiones')
            = [a \in A |-> IF a \in s[i].base .. s[i].base + n - 1 THEN p ELSE d[a]]
        BY <1>2, <2>4, <4>1, AsignaDuenio DEF A, d
      <4> QED
        BY <2>3, <3>1, <4>2
    <3>2. CASE ~Dinamicas
      <4>1. lista_particiones' = De(s, i, p)
        BY <2>1, <3>2 DEF asignar_particion, De, s
      <4>2. DuenioDe(lista_particiones') = [a \in A |-> IF En(s[i], a) THEN p ELSE d[a]]
        BY <1>2, <2>4, <4>1, DuenioDeDe DEF A, d
      <4>3. s[i].base \in Nat /\ Fin(s[i]) \in Nat
        BY <1>2, <2>4, Datos
      <4>4. \A a \in A : En(s[i], a) <=> a \in h[1] .. ultima
        BY <1>2, <2>3, <3>2, <4>3 DEF En
      <4> QED
        BY <4>2, <4>4
    <3> QED
      BY <3>1, <3>2
  <2>6. Regiones' = Regiones
    <3>1. ~Dinamicas => lista_particiones' = De(s, i, p)
      BY <2>1 DEF asignar_particion, De, s
    <3> QED
      BY <1>1, <1>2, <2>4, <3>1, RegionesDe DEF s
  <2>7. DuenioDe(lista_particiones)' = [a \in A |-> IF a \in h[1] .. ultima THEN p ELSE d[a]]
    BY <2>5, DuenioPrimado
  <2> QED
    BY <1>1, <1>2, <1>3, <1>5, <2>2, <2>6, <2>7 DEF Memoria!Asigna, d, s
<1> QED
  BY <1>4, <1>5

LEMMA NoHayRechaza ==
  ASSUME Inv, NEW p \in Pids, NEW n \in Tamanios, NoHayEspacio(p, n)
  PROVE  Memoria!Rechaza(n)
<1>1. /\ Validas(n) = {} /\ confirmacion' = [codigo |-> "ERROR", tamanio |-> n]
      /\ UNCHANGED <<memoria_config, lista_particiones>>
  BY DEF NoHayEspacio, buscar_espacio_memoria
<1>2. n \in Nat /\ TypeOK /\ Teselado /\ SinFragmentos
  BY PidsAssumption DEF Inv
<1>3. Memoria!Candidatos(n) = {Lugar(lista_particiones[i]) : i \in Validas(n)}
  BY <1>2, Candidatas
<1>4. Memoria!Candidatos(n) = {}
  BY <1>1, <1>3
<1>5. Regiones' = Regiones /\ DuenioDe(lista_particiones)' = DuenioDe(lista_particiones)
  BY <1>1, MismaRegion
<1> QED
  BY <1>1, <1>4, <1>5 DEF Memoria!Rechaza

\* finalizar_proceso frees the addresses of the process and no other.
LEMMA LiberarLibera ==
  ASSUME Inv, NEW p \in Pids, LiberarParticion(p)
  PROVE  Memoria!Libera(p)
<1> DEFINE s == lista_particiones
           A == Ambito(s)
           d == DuenioDe(s)
<1>1. /\ nuevo_proceso = Ninguno /\ a_finalizar = Nadie
      /\ memoria_config' = memoria_config /\ confirmacion' = confirmacion
  BY DEF LiberarParticion, Desocupada
<1>2. PICK x \in lista_procesos :
         /\ x.pid = p
         /\ IF \E i \in DOMAIN s : buscar_particion_por_base(x.base, i)
            THEN \E i \in DOMAIN s : /\ buscar_particion_por_base(x.base, i)
                                     /\ lista_particiones' = liberar_particion(i)
            ELSE UNCHANGED lista_particiones
  BY DEF LiberarParticion
<1>3. s \in Seq(Partic) /\ Contigua(s) /\ Orden(s) /\ A \subseteq Nat
      /\ Memoria!Direcciones = A
  BY ListaDe
<1>4. TypeOK /\ Reparto /\ ProcesosUnicos
  BY DEF Inv
<1>5. Vigentes = {y \in lista_procesos : y.base # SinBase} /\ \A y \in Vigentes : y.pid # Nadie
  BY <1>1, <1>4, TipoVigentes
<1>6. \A y \in lista_procesos : y.pid = p => y = x
  BY <1>2, <1>4 DEF ProcesosUnicos
<1>7. /\ DuenioDe(lista_particiones') = [a \in A |-> IF d[a] = p THEN Libre ELSE d[a]]
      /\ Regiones' = Regiones
  <2>1. CASE x.base # SinBase
    <3>1. x \in Vigentes /\ x.pid # a_finalizar /\ Espacio(x) \in Asignadas(s)
      BY <1>1, <1>4, <1>5, <2>1 DEF Reparto
    <3>2. PICK k \in Ocupado(s) : Espacio(x) = <<s[k].pid, s[k].base, Fin(s[k])>>
      BY <3>1 DEF Asignadas
    <3>3. k \in DOMAIN s /\ s[k].base = x.base /\ s[k].pid = p
      BY <1>2, <3>2 DEF Ocupado, Espacio
    <3>4. \A j \in DOMAIN s : s[j].base = x.base => j = k
      BY <1>3, <3>3, PorBase
    <3>5. buscar_particion_por_base(x.base, k)
      <4>1. \A j \in 1 .. k - 1 : j \in DOMAIN s /\ j # k
        BY <1>3, <3>3
      <4> QED
        BY <3>3, <3>4, <4>1 DEF buscar_particion_por_base
    <3>6. PICK i \in DOMAIN s : buscar_particion_por_base(x.base, i)
                                /\ lista_particiones' = liberar_particion(i)
      BY <1>2, <3>3, <3>5
    <3>7. i = k
      BY <3>4, <3>6 DEF buscar_particion_por_base
    <3>8. /\ DuenioDe(liberar_particion(k)) = [a \in A |-> IF En(s[k], a) THEN Libre ELSE d[a]]
          /\ ~Dinamicas => liberar_particion(k) = De(s, k, Libre)
      BY <1>3, <3>3, LiberaDuenio
    <3>9. \A j \in DOMAIN s : s[j].pid = p => j = k
      <4>1. p # Libre
        BY PidsAssumption DEF Libre
      <4>2. \A j \in DOMAIN s : s[j].pid = p => j \in Ocupadas
        BY <4>1 DEF Ocupadas
      <4> QED
        BY <3>3, <4>2, Particulares DEF ProcesosEnParticiones
    <3>10. \A a \in A : d[a] = p <=> En(s[k], a)
      <4> SUFFICES ASSUME NEW a \in A PROVE d[a] = p <=> En(s[k], a)
        OBVIOUS
      <4>1. a \in Int
        BY <1>3
      <4>2. PICK j \in DOMAIN s : En(s[j], a)
        BY <1>3, <4>1, Ambitos
      <4>3. d[a] = s[j].pid
        BY <1>3, <4>1, <4>2, ValorEn
      <4>4. En(s[k], a) => j = k
        BY <1>3, <3>3, <4>1, <4>2, UnSoloLugar
      <4> QED
        BY <3>3, <3>9, <4>2, <4>3, <4>4
    <3>11. Regiones' = Regiones
      <4>1. Libre \in Pids \cup {Libre}
        OBVIOUS
      <4>2. ~Dinamicas => lista_particiones' = De(s, k, Libre)
        BY <3>6, <3>7, <3>8
      <4> QED
        BY <1>1, <1>3, <3>3, <4>1, <4>2, RegionesDe
    <3> HIDE DEF A, d
    <3>12. DuenioDe(lista_particiones') = [a \in A |-> IF d[a] = p THEN Libre ELSE d[a]]
      BY <3>6, <3>7, <3>8, <3>10
    <3> QED
      BY <3>11, <3>12
  <2>2. CASE x.base = SinBase
    <3>1. ~ \E i \in DOMAIN s : buscar_particion_por_base(x.base, i)
      <4>1. \A i \in DOMAIN s : s[i].base \in Nat
        BY <1>3, Datos
      <4>2. \A i \in DOMAIN s : s[i].base # SinBase
        BY <4>1 DEF SinBase
      <4> QED
        BY <2>2, <4>2 DEF buscar_particion_por_base
    <3>2. lista_particiones' = s
      BY <1>2, <3>1
    <3>3. \A a \in A : d[a] # p
      <4>1. \A y \in lista_procesos : y.pid = p => y.base = SinBase
        BY <1>6, <2>2
      <4> QED
        BY <1>1, <4>1, SinDirecciones
    <3>4. d = [a \in A |-> IF d[a] = p THEN Libre ELSE d[a]]
      <4>1. d = [a \in A |-> d[a]]
        BY DEF DuenioDe
      <4> HIDE DEF d, A
      <4> QED
        BY <3>3, <4>1
    <3>5. Regiones' = Regiones
      BY <1>1, <3>2, MismaRegion
    <3> HIDE DEF A
    <3> QED
      BY <3>2, <3>4, <3>5
  <2> QED
    BY <2>1, <2>2
<1>8. DuenioDe(lista_particiones)' = [a \in A |-> IF d[a] = p THEN Libre ELSE d[a]]
  BY <1>7, DuenioPrimado
<1> QED
  BY <1>1, <1>3, <1>7, <1>8 DEF Memoria!Libera

LEMMA PasoMemoria == Inv /\ [Next]_vars => [Memoria!Next]_(Memoria!vars)
<1> SUFFICES ASSUME Inv, [Next]_vars PROVE Memoria!Next \/ UNCHANGED Memoria!vars
  OBVIOUS
<1>1. ASSUME NEW p \in Pids, LiberarParticion(p) PROVE Memoria!Next
  BY <1>1, LiberarLibera DEF Memoria!Next
<1>2. ASSUME NEW p \in Pids, NEW n \in Tamanios, CrearProceso(p, n) PROVE Memoria!Next
  BY <1>2, CrearAsigna DEF Memoria!Next
<1>3. ASSUME NEW p \in Pids, NEW n \in Tamanios, NoHayEspacio(p, n) PROVE Memoria!Next
  BY <1>3, NoHayRechaza DEF Memoria!Next
<1>4. CASE AgregarProceso \/ QuitarProceso \/ UNCHANGED vars
  <2>1. UNCHANGED <<memoria_config, lista_particiones, confirmacion>>
    BY <1>4 DEF AgregarProceso, QuitarProceso, vars
  <2>2. Regiones' = Regiones /\ DuenioDe(lista_particiones)' = DuenioDe(lista_particiones)
    BY <2>1, MismaRegion
  <2> QED
    BY <2>1, <2>2 DEF Memoria!vars
<1> QED
  BY <1>1, <1>2, <1>3, <1>4 DEF Next

\* When memoria starts nothing has an owner.
LEMMA InitMemoria == Init => Memoria!Init
<1> SUFFICES ASSUME Init PROVE Memoria!Init
  OBVIOUS
<1> DEFINE s == lista_particiones
           A == Ambito(s)
           m == memoria_config.tam_memoria
<1>1. Inv
  BY InitInv
<1>2. s \in Seq(Partic) /\ Contigua(s) /\ Orden(s) /\ A \subseteq Nat
      /\ (Memoria!Dinamicas <=> Dinamicas)
  BY <1>1, ListaDe
<1>3. \A i \in DOMAIN s : s[i].pid = Libre
  <2>1. Vigentes = {}
    BY DEF Init, Vigentes, Ninguno
  <2>2. Asignadas(s) = {}
    BY <1>1, <2>1 DEF Inv, Reparto
  <2> QED
    BY <2>2 DEF Asignadas, Ocupado
<1>4. DuenioDe(s) = [a \in A |-> Libre]
  <2>1. ASSUME NEW a \in A PROVE PidEn(s, a) = Libre
    <3>1. a \in Int
      BY <1>2
    <3>2. PICK i \in DOMAIN s : En(s[i], a)
      BY <1>2, <3>1, Ambitos
    <3> QED
      BY <1>2, <1>3, <3>1, <3>2, PidDe
  <2> QED
    BY <2>1 DEF DuenioDe
<1>5. \A i \in DOMAIN s : s[i].base \in Nat /\ Fin(s[i]) \in Nat /\ Fin(s[i]) > s[i].base
  BY <1>2, Datos
<1>6. ~Dinamicas => Regiones = {<<s[i].base, Fin(s[i]) - 1>> : i \in DOMAIN s}
  BY DEF Regiones, ToSet
<1>7. Dinamicas => Regiones = {}
  BY DEF Regiones
<1>8. Regiones \in SUBSET (Nat \X Nat)
  BY <1>5, <1>6, <1>7
<1>9. \A g, h \in Regiones : g = h \/ g[2] < h[1] \/ h[2] < g[1]
  <2> SUFFICES ASSUME ~Dinamicas, NEW i \in DOMAIN s, NEW j \in DOMAIN s
               PROVE  i = j \/ Fin(s[i]) - 1 < s[j].base \/ Fin(s[j]) - 1 < s[i].base
    BY <1>6, <1>7
  <2>1. i \in Nat /\ j \in Nat
    BY <1>2
  <2>2. i = j \/ Fin(s[i]) <= s[j].base \/ Fin(s[j]) <= s[i].base
    BY <1>2, <2>1 DEF Orden
  <2> QED
    BY <1>5, <2>2
<1>10. A = IF Dinamicas THEN 0 .. m - 1 ELSE UNION {h[1] .. h[2] : h \in Regiones}
  <2>1. A = UNION {s[i].base .. Fin(s[i]) - 1 : i \in DOMAIN s}
    BY DEF Ambito, ToSet
  <2>2. CASE Dinamicas
    <3> DEFINE x == Particion(Libre, 0, m)
    <3>1. s = <<x>>
      BY <2>2 DEF Init
    <3>2. x.base = 0 /\ Fin(x) = m
      <4>1. m \in Nat
        BY ConfiguracionAssumption DEF Init
      <4> QED
        BY <4>1 DEF Particion, Fin
    <3> HIDE DEF x, s, m
    <3>3. DOMAIN s = {1} /\ s[1] = x
      BY <3>1
    <3>4. {s[i].base .. Fin(s[i]) - 1 : i \in DOMAIN s} = {0 .. m - 1}
      BY <3>2, <3>3
    <3> QED
      BY <2>1, <2>2, <3>4
  <2>3. CASE ~Dinamicas
    <3>1. {h[1] .. h[2] : h \in Regiones} = {s[i].base .. Fin(s[i]) - 1 : i \in DOMAIN s}
      <4>1. \A i \in DOMAIN s :
               <<s[i].base, Fin(s[i]) - 1>>[1] .. <<s[i].base, Fin(s[i]) - 1>>[2]
               = s[i].base .. Fin(s[i]) - 1
        OBVIOUS
      <4>2. Regiones = {<<s[i].base, Fin(s[i]) - 1>> : i \in DOMAIN s}
        BY <1>6, <2>3
      <4> HIDE DEF s
      <4> QED
        BY <4>1, <4>2
    <3> QED
      BY <2>1, <2>3, <3>1
  <2> QED
    BY <2>2, <2>3
<1>11. memoria_config \in Configuraciones /\ confirmacion = [codigo |-> "OK", tamanio |-> 0]
  BY DEF Init
<1> QED
  BY <1>2, <1>4, <1>8, <1>9, <1>10, <1>11 DEF Memoria!Init

\* Whatever the configuration and however processes come and go, the lists of memoria
\* do what MemoriaUsuario says address by address: a process gets the place the
\* algorithm prefers, keeps those addresses, and is refused only when nothing fits.
THEOREM MemoriaPrometida == Spec => ImplementaMemoria
  BY InitMemoria, PasoMemoria, Invariante, PTL DEF Spec, ImplementaMemoria, Memoria!Spec

=============================================================================
