------------------------------ MODULE WireProofs ----------------------------
(***************************************************************************)
(* Proofs about the connection to a node and the names of the outputs that *)
(* come over it, for any callers and failures and for names of every size. *)
(* OutPoints: the forms of an outpoint tell outputs apart and lead back to *)
(* each other.  Service: every connection has one owner, and Get never     *)
(* hands out the zero value.                                               *)
(***************************************************************************)
EXTENDS OutPoints, Service, WellFoundedInduction, TLAPS

\* A leaf may take the solver longer than it is given by default.
USE SMTT(20), Zenon

-----------------------------------------------------------------------------
(***************************************************************************)
(* Lists, and induction and recursion on the numbers.                      *)
(***************************************************************************)

\* What is joined from two lists.
LEMMA Joined ==
    ASSUME NEW T, NEW s \in Seq(T), NEW t \in Seq(T)
    PROVE  /\ s \o t \in Seq(T) /\ Len(s \o t) = Len(s) + Len(t)
           /\ \A i \in 1..Len(s) : (s \o t)[i] = s[i]
           /\ \A i \in 1..Len(t) : (s \o t)[Len(s) + i] = t[i]
OBVIOUS

\* Lists with the same elements are the same.
LEMMA SameList ==
    ASSUME NEW T, NEW s \in Seq(T), NEW t \in Seq(T),
           Len(s) = Len(t), \A i \in 1..Len(s) : s[i] = t[i]
    PROVE  s = t
OBVIOUS

\* What is cut from a list.
LEMMA CutFrom ==
    ASSUME NEW T, NEW s \in Seq(T), NEW m \in 1..(Len(s) + 1), NEW n \in (m - 1)..Len(s)
    PROVE  /\ SubSeq(s, m, n) \in Seq(T) /\ Len(SubSeq(s, m, n)) = n - m + 1
           /\ \A i \in 1..(n - m + 1) : SubSeq(s, m, n)[i] = s[m + i - 1]
OBVIOUS

\* A set of numbers has a least one.
LEMMA LeastOne ==
    ASSUME NEW S \in SUBSET Nat, S # {}
    PROVE  \E n \in S : \A m \in S : n <= m
<1>1. PICK n \in S : \A m \in S : <<m, n>> \notin OpToRel(<, Nat)
  BY WFMin, NatLessThanWellFounded, Zenon
<1>2. \A m \in S : ~(m < n)
  BY <1>1, Zenon DEF OpToRel
<1> QED BY <1>2

\* What is so at 0, and at a number that follows one where it is so, is so throughout.
LEMMA Induction ==
    ASSUME NEW S \in SUBSET Nat, 0 \in S, \A n \in S : n + 1 \in S
    PROVE  S = Nat
<1> DEFINE B == Nat \ S
<1> SUFFICES ASSUME B # {} PROVE FALSE
  BY Zenon
<1>1. PICK n \in B : \A m \in B : n <= m
  <2>1. B \in SUBSET Nat
    OBVIOUS
  <2> HIDE DEF B
  <2> QED BY <2>1, LeastOne
<1>2. n \in Nat /\ n # 0
  OBVIOUS
<1>3. n - 1 \in Nat /\ ~(n <= n - 1) /\ (n - 1) + 1 = n
  BY <1>2
<1>4. n - 1 \in S
  BY <1>1, <1>3
<1> QED BY <1>3, <1>4

\* The values that a loop goes through: a at first, and e[n] makes the next of the nth.
Loop(f, V, a, e) ==
    f \in [Nat -> V] /\ f[0] = a /\ \A n \in Nat : f[n + 1] = e[n][f[n]]

\* There are such values.
LEMMA Recursion ==
    ASSUME NEW V, NEW a \in V, NEW e \in [Nat -> [V -> V]]
    PROVE  \E f : Loop(f, V, a, e)
<1> DEFINE Good(n) == {g \in [0..n -> V] :
                          g[0] = a /\ \A m \in 0..(n - 1) : g[m + 1] = e[m][g[m]]}
<1>1. \A n \in Nat : Good(n) # {}
  <2> DEFINE S == {n \in Nat : Good(n) # {}}
  <2>1. 0 \in S
    <3>1. [m \in 0..0 |-> a] \in Good(0)
      OBVIOUS
    <3> QED BY <3>1
  <2>2. ASSUME NEW n \in S PROVE n + 1 \in S
    <3>1. PICK g \in Good(n) : TRUE
      OBVIOUS
    <3>2. /\ g \in [0..n -> V] /\ g[0] = a /\ n \in Nat
          /\ \A m \in 0..(n - 1) : g[m + 1] = e[m][g[m]]
      BY <3>1
    <3> DEFINE h == [m \in 0..(n + 1) |-> IF m = n + 1 THEN e[n][g[n]] ELSE g[m]]
    <3>3. h \in [0..(n + 1) -> V]
      <4>1. ASSUME NEW m \in 0..(n + 1) PROVE h[m] \in V
        <5>1. CASE m = n + 1
          BY <3>2, <5>1
        <5>2. CASE m # n + 1
          <6>1. m \in 0..n
            BY <3>2, <5>2
          <6> QED BY <3>2, <5>2, <6>1
        <5> QED BY <5>1, <5>2
      <4> QED BY <4>1
    <3>4. h[0] = a
      BY <3>2
    <3>5. ASSUME NEW m \in 0..n PROVE h[m + 1] = e[m][h[m]]
      <4>1. m # n + 1 /\ m \in 0..(n + 1) /\ m + 1 \in 0..(n + 1)
        BY <3>2
      <4>2. h[m] = g[m]
        BY <4>1
      <4>3. CASE m = n
        BY <4>1, <4>2, <4>3
      <4>4. CASE m # n
        <5>1. m \in 0..(n - 1) /\ m + 1 # n + 1
          BY <3>2, <4>4
        <5>2. h[m + 1] = g[m + 1]
          BY <4>1, <5>1
        <5> QED BY <3>2, <4>2, <5>1, <5>2
      <4> QED BY <4>3, <4>4
    <3>6. 0..((n + 1) - 1) = 0..n
      BY <3>2
    <3> HIDE DEF h
    <3>7. h \in Good(n + 1)
      BY <3>3, <3>4, <3>5, <3>6
    <3> HIDE DEF Good
    <3> QED BY <3>2, <3>7
  <2> HIDE DEF Good
  <2>3. S \in SUBSET Nat
    OBVIOUS
  <2>4. S = Nat
    <3> HIDE DEF S
    <3> QED BY <2>1, <2>2, <2>3, Induction
  <2> QED BY <2>4
<1>2. ASSUME NEW n \in Nat, NEW g \in Good(n), NEW h \in Good(n + 1)
      PROVE  g[n] = h[n]
  <2> DEFINE S == {m \in Nat : m <= n => g[m] = h[m]}
  <2>0. /\ g[0] = a /\ h[0] = a
        /\ \A m \in 0..(n - 1) : g[m + 1] = e[m][g[m]]
        /\ \A m \in 0..((n + 1) - 1) : h[m + 1] = e[m][h[m]]
    OBVIOUS
  <2> HIDE DEF Good
  <2>1. 0 \in S
    BY <2>0
  <2>2. ASSUME NEW m \in S PROVE m + 1 \in S
    <3> SUFFICES ASSUME m + 1 <= n PROVE g[m + 1] = h[m + 1]
      OBVIOUS
    <3>1. m \in 0..(n - 1) /\ m \in 0..((n + 1) - 1) /\ m <= n
      OBVIOUS
    <3> QED BY <2>0, <2>2, <3>1
  <2>3. S \in SUBSET Nat
    OBVIOUS
  <2>4. n \in S
    <3> HIDE DEF S
    <3> QED BY <2>1, <2>2, <2>3, Induction
  <2> QED BY <2>4
<1> DEFINE G(n) == CHOOSE g \in Good(n) : TRUE
           f == [n \in Nat |-> G(n)[n]]
<1>3. ASSUME NEW n \in Nat PROVE G(n) \in Good(n)
  <2> HIDE DEF Good
  <2> QED BY <1>1
<1>4. ASSUME NEW n \in Nat
      PROVE  G(n) \in [0..n -> V] /\ G(n)[0] = a
             /\ \A m \in 0..(n - 1) : G(n)[m + 1] = e[m][G(n)[m]]
  BY <1>3, Zenon
<1>5. ASSUME NEW n \in Nat PROVE G(n)[n] = G(n + 1)[n]
  <2> HIDE DEF Good, G
  <2>1. n + 1 \in Nat
    OBVIOUS
  <2> QED BY <1>2, <1>3, <2>1
<1> HIDE DEF Good, G
<1>6. f \in [Nat -> V] /\ f[0] = a
  <2>1. \A n \in Nat : G(n)[n] \in V
    BY <1>4
  <2> QED BY <1>4, <2>1
<1>7. ASSUME NEW n \in Nat PROVE f[n + 1] = e[n][f[n]]
  <2>1. n + 1 \in Nat /\ n \in 0..((n + 1) - 1)
    OBVIOUS
  <2>2. G(n + 1)[n + 1] = e[n][G(n + 1)[n]]
    BY <1>4, <2>1
  <2> QED BY <1>5, <2>1, <2>2
<1> HIDE DEF f
<1>8. Loop(f, V, a, e)
  BY <1>6, <1>7 DEF Loop
<1> QED BY <1>8

-----------------------------------------------------------------------------
(***************************************************************************)
(* OutPoints: the bytes of a number, of a key and of a market source, and  *)
(* the way back from each form of an outpoint.                             *)
(***************************************************************************)

Byte == 0..(Base - 1)

\* The powers of the base.
LEMMA PowerSteps ==
    /\ Power[0] = 1
    /\ \A n \in Nat : Power[n + 1] = Base * Power[n]
    /\ \A n \in Nat : Power[n] \in Nat /\ Power[n] > 0
<1> DEFINE d == [x \in Nat |-> Base * x]
           e == [n \in Nat |-> d]
           Is(p) == p = [n \in Nat |-> IF n = 0 THEN 1 ELSE Base * p[n - 1]]
<1>0. Base \in Nat /\ Base > 4
  BY OutPointsAssumption
<1>1. e \in [Nat -> [Nat -> Nat]]
  <2>1. \A x \in Nat : Base * x \in Nat
    BY <1>0
  <2>2. d \in [Nat -> Nat]
    BY <2>1
  <2> HIDE DEF d
  <2> QED BY <2>2
<1>2. PICK f : Loop(f, Nat, 1, e)
  <2> HIDE DEF e
  <2>1. 1 \in Nat
    OBVIOUS
  <2> QED BY <1>1, <2>1, Recursion, Zenon
<1>3. f \in [Nat -> Nat] /\ f[0] = 1 /\ \A n \in Nat : f[n + 1] = Base * f[n]
  BY <1>2, Zenon DEF Loop
<1>4. Is(f)
  <2>1. ASSUME NEW n \in Nat PROVE f[n] = IF n = 0 THEN 1 ELSE Base * f[n - 1]
    <3>1. CASE n = 0
      BY <1>3, <3>1
    <3>2. CASE n # 0
      <4>1. n - 1 \in Nat /\ (n - 1) + 1 = n
        BY <3>2
      <4> QED BY <1>3, <3>2, <4>1
    <3> QED BY <3>1, <3>2
  <2> QED BY <1>3, <2>1
<1>5. Power = CHOOSE p : Is(p)
  BY DEF Power
<1>6. Is(Power)
  <2> HIDE DEF Is
  <2> QED BY <1>4, <1>5
<1>7. \A n \in Nat : Power[n] = IF n = 0 THEN 1 ELSE Base * Power[n - 1]
  <2>1. \A p : Is(p) => \A n \in Nat : p[n] = IF n = 0 THEN 1 ELSE Base * p[n - 1]
    OBVIOUS
  <2> HIDE DEF Is
  <2> QED BY <1>6, <2>1
<1>8. Power[0] = 1
  BY <1>7
<1>9. ASSUME NEW n \in Nat PROVE Power[n + 1] = Base * Power[n]
  <2>1. n + 1 \in Nat /\ n + 1 # 0 /\ (n + 1) - 1 = n
    OBVIOUS
  <2> QED BY <1>7, <2>1
<1>10. ASSUME NEW n \in Nat PROVE Power[n] \in Nat /\ Power[n] > 0
  <2> DEFINE S == {m \in Nat : Power[m] \in Nat /\ Power[m] > 0}
  <2>1. 0 \in S
    BY <1>8
  <2>2. ASSUME NEW m \in S PROVE m + 1 \in S
    <3>1. \A x \in Nat : x > 0 => Base * x \in Nat /\ Base * x > 0
      BY <1>0
    <3> QED BY <1>9, <2>2, <3>1
  <2>3. S \in SUBSET Nat
    OBVIOUS
  <2>4. n \in S
    <3> HIDE DEF S
    <3> QED BY <2>1, <2>2, <2>3, Induction
  <2> QED BY <2>4
<1> QED BY <1>8, <1>9, <1>10

\* Cutting off the lowest digit of a number.
LEMMA Cut ==
    ASSUME NEW x \in Nat
    PROVE  /\ x \div Base \in Nat /\ x % Base \in Byte
           /\ (x \div Base) * Base + (x % Base) = x
           /\ \A p \in Nat : x < Base * p => x \div Base < p
<1>0. Base \in Nat /\ Base > 4
  BY OutPointsAssumption
<1> DEFINE q == x \div Base
<1>1. x \div Base \in Nat /\ x % Base \in Byte
  BY <1>0 DEF Byte
<1>2. (x \div Base) * Base + (x % Base) = x
  BY <1>0
<1>3. ASSUME NEW p \in Nat, x < Base * p PROVE x \div Base < p
  <2>1. q \in Nat /\ q * Base <= x
    BY <1>0, <1>1, <1>2 DEF Byte
  <2> HIDE DEF q
  <2>2. ASSUME q >= p PROVE FALSE
    <3>1. q * Base >= Base * p
      BY <1>0, <2>1, <2>2
    <3> QED BY <1>0, <1>3, <2>1, <3>1
  <2> QED BY <2>1, <2>2 DEF q
<1> QED BY <1>1, <1>2, <1>3

\* What PutUint has still to write after each byte.
Rests(rest, v) ==
    /\ rest[0] = v
    /\ \A i \in 0..(VoutSize - 1) : rest[i + 1] = rest[i] \div Base
    /\ \A i \in 0..VoutSize : rest[i] \in Nat
    /\ PutUint(v) = [i \in 1..VoutSize |-> rest[i - 1] % Base]

\* PutUint divides one number by the base again and again.
LEMMA PutUintSteps == ASSUME NEW v \in Nat PROVE \E rest : Rests(rest, v)
<1> DEFINE d == [x \in Nat |-> x \div Base]
           e == [n \in Nat |-> d]
           N == VoutSize
           Is(r) == r = [i \in 0..N |-> IF i = 0 THEN v ELSE r[i - 1] \div Base]
           rest == CHOOSE r : Is(r)
<1>0. N \in Nat
  BY OutPointsAssumption
<1>1. e \in [Nat -> [Nat -> Nat]]
  <2>1. d \in [Nat -> Nat]
    BY Cut
  <2> HIDE DEF d
  <2> QED BY <2>1
<1>2. PICK f : Loop(f, Nat, v, e)
  <2> HIDE DEF e
  <2> QED BY <1>1, Recursion, Zenon
<1>3. f \in [Nat -> Nat] /\ f[0] = v /\ \A n \in Nat : f[n + 1] = f[n] \div Base
  BY <1>2, Zenon DEF Loop
<1> DEFINE r0 == [i \in 0..N |-> f[i]]
<1>4. Is(r0)
  <2>1. ASSUME NEW i \in 0..N PROVE f[i] = IF i = 0 THEN v ELSE r0[i - 1] \div Base
    <3>1. CASE i = 0
      BY <1>3, <3>1
    <3>2. CASE i # 0
      <4>1. i - 1 \in Nat /\ (i - 1) + 1 = i /\ i - 1 \in 0..N
        BY <1>0, <3>2
      <4> QED BY <1>3, <3>2, <4>1
    <3> QED BY <3>1, <3>2
  <2> QED BY <2>1
<1>5. Is(rest)
  <2> HIDE DEF Is
  <2> QED BY <1>4
<1>6. PutUint(v) = [i \in 1..N |-> rest[i - 1] % Base]
  BY DEF PutUint
<1>7. \A i \in 0..N : rest[i] = IF i = 0 THEN v ELSE rest[i - 1] \div Base
  <2>1. \A r : Is(r) => \A i \in 0..N : r[i] = IF i = 0 THEN v ELSE r[i - 1] \div Base
    BY <1>0
  <2> HIDE DEF Is
  <2> QED BY <1>5, <2>1
<1> HIDE DEF Is, rest
<1>8. rest[0] = v
  BY <1>0, <1>7
<1>9. ASSUME NEW i \in 0..(N - 1) PROVE rest[i + 1] = rest[i] \div Base
  <2>1. i + 1 \in 0..N /\ i + 1 # 0 /\ (i + 1) - 1 = i
    BY <1>0
  <2> QED BY <1>7, <2>1
<1>10. ASSUME NEW i \in 0..N PROVE rest[i] \in Nat
  <2> DEFINE S == {m \in Nat : m <= N => rest[m] \in Nat}
  <2>1. 0 \in S
    BY <1>8
  <2>2. ASSUME NEW m \in S PROVE m + 1 \in S
    <3> SUFFICES ASSUME m + 1 <= N PROVE rest[m + 1] \in Nat
      OBVIOUS
    <3>1. m \in 0..(N - 1) /\ m <= N
      BY <1>0
    <3> QED BY <1>9, <2>2, <3>1, Cut
  <2>3. S \in SUBSET Nat
    OBVIOUS
  <2>4. i \in S
    <3>1. i \in Nat
      BY <1>0
    <3> HIDE DEF S
    <3> QED BY <2>1, <2>2, <2>3, <3>1, Induction
  <2> QED BY <1>0, <2>4
<1>11. Rests(rest, v)
  BY <1>6, <1>8, <1>9, <1>10 DEF Rests
<1> QED BY <1>11

\* What Uint has read after each byte, from the last byte on.
ReadOff(last, s) ==
    /\ last[0] = 0
    /\ \A i \in 0..(Len(s) - 1) : last[i + 1] = last[i] * Base + s[Len(s) - i]
    /\ Uint(s) = last[Len(s)]

\* Uint takes a byte to what it has read before.
LEMMA UintSteps == ASSUME NEW s \in Seq(Byte) PROVE \E last : ReadOff(last, s)
<1> DEFINE N == Len(s)
           at(n) == IF n < N THEN s[N - n] ELSE 0
           d(n) == [x \in Nat |-> x * Base + at(n)]
           e == [n \in Nat |-> d(n)]
           Is(r) == r = [i \in 0..N |-> IF i = 0 THEN 0 ELSE r[i - 1] * Base + s[N - i + 1]]
           last == CHOOSE r : Is(r)
<1>0. N \in Nat /\ Base \in Nat
  BY OutPointsAssumption
<1>1. e \in [Nat -> [Nat -> Nat]]
  <2>1. ASSUME NEW n \in Nat PROVE at(n) \in Nat
    <3>1. CASE n < N
      <4>1. s \in [1..N -> Byte]
        OBVIOUS
      <4> HIDE DEF N
      <4>2. N - n \in 1..N
        BY <1>0, <3>1
      <4>3. s[N - n] \in Byte
        BY <4>1, <4>2
      <4> QED BY <1>0, <3>1, <4>3 DEF Byte
    <3>2. CASE ~(n < N)
      BY <3>2
    <3> QED BY <3>1, <3>2
  <2> HIDE DEF at
  <2>2. ASSUME NEW n \in Nat PROVE d(n) \in [Nat -> Nat]
    <3>1. ASSUME NEW x \in Nat PROVE x * Base + at(n) \in Nat
      <4>1. \A y, z \in Nat : x * y + z \in Nat
        OBVIOUS
      <4> QED BY <1>0, <2>1, <4>1, Zenon
    <3> QED BY <3>1
  <2> HIDE DEF d
  <2> QED BY <2>2, Zenon
<1>2. PICK f : Loop(f, Nat, 0, e)
  <2> HIDE DEF e
  <2>1. 0 \in Nat
    OBVIOUS
  <2> QED BY <1>1, <2>1, Recursion, Zenon
<1>3. f \in [Nat -> Nat] /\ f[0] = 0 /\ \A n \in Nat : f[n + 1] = f[n] * Base + at(n)
  <2> HIDE DEF at
  <2> QED BY <1>2, Zenon DEF Loop
<1> DEFINE r0 == [i \in 0..N |-> f[i]]
<1>4. Is(r0)
  <2>1. ASSUME NEW i \in 0..N
        PROVE  f[i] = IF i = 0 THEN 0 ELSE r0[i - 1] * Base + s[N - i + 1]
    <3>1. CASE i = 0
      BY <1>3, <3>1
    <3>2. CASE i # 0
      <4> HIDE DEF N
      <4>1. /\ i - 1 \in Nat /\ (i - 1) + 1 = i /\ i - 1 \in 0..N
            /\ i - 1 < N /\ N - (i - 1) = N - i + 1
        BY <1>0, <3>2
      <4>2. f[i] = f[i - 1] * Base + at(i - 1)
        <5> HIDE DEF at
        <5> QED BY <1>3, <4>1
      <4> QED BY <3>2, <4>1, <4>2
    <3> QED BY <3>1, <3>2
  <2> HIDE DEF N
  <2> QED BY <2>1
<1>5. Is(last)
  <2> HIDE DEF Is
  <2> QED BY <1>4
<1>6. Uint(s) = last[N]
  BY DEF Uint
<1>7. \A i \in 0..N : last[i] = IF i = 0 THEN 0 ELSE last[i - 1] * Base + s[N - i + 1]
  <2>1. \A r : Is(r) => \A i \in 0..N : r[i] = IF i = 0 THEN 0 ELSE r[i - 1] * Base + s[N - i + 1]
    <3> HIDE DEF N
    <3> QED BY <1>0
  <2> HIDE DEF Is
  <2> QED BY <1>5, <2>1
<1> HIDE DEF Is, last
<1>8. last[0] = 0
  BY <1>0, <1>7
<1>9. ASSUME NEW i \in 0..(N - 1) PROVE last[i + 1] = last[i] * Base + s[N - i]
  <2> HIDE DEF N
  <2>1. i + 1 \in 0..N /\ i + 1 # 0 /\ (i + 1) - 1 = i /\ N - (i + 1) + 1 = N - i
    BY <1>0
  <2> QED BY <1>7, <2>1
<1>10. ReadOff(last, s)
  BY <1>6, <1>8, <1>9 DEF ReadOff
<1> QED BY <1>10

\* binary.LittleEndian: the bytes of a number that fits are as many as they should be,
\* and reading them gives it back.
LEMMA UintOfPutUint ==
    ASSUME NEW v \in 0..(MaxUint - 1)
    PROVE  PutUint(v) \in [1..VoutSize -> Byte] /\ Uint(PutUint(v)) = v
<1> DEFINE N == VoutSize
           s == PutUint(v)
<1>0. N \in Nat /\ N > 0 /\ v \in Nat /\ v < Power[N] /\ Base \in Nat /\ Base > 4
  BY OutPointsAssumption, PowerSteps DEF MaxUint
<1>1. PICK rest : Rests(rest, v)
  BY <1>0, PutUintSteps
<1>2. /\ rest[0] = v
      /\ \A i \in 0..(N - 1) : rest[i + 1] = rest[i] \div Base
      /\ \A i \in 0..N : rest[i] \in Nat
      /\ s = [i \in 1..N |-> rest[i - 1] % Base]
  BY <1>1 DEF Rests
<1> HIDE DEF s, N
<1>3. s \in [1..N -> Byte]
  <2>1. ASSUME NEW i \in 1..N PROVE rest[i - 1] % Base \in Byte
    <3>1. i - 1 \in 0..N
      BY <1>0
    <3> QED BY <1>2, <3>1, Cut, Zenon
  <2> QED BY <1>2, <2>1
<1>4. s \in Seq(Byte) /\ Len(s) = N
  BY <1>0, <1>3
<1>5. rest[N] = 0
  <2> DEFINE S == {m \in Nat : m <= N => rest[m] < Power[N - m]}
  <2>1. 0 \in S
    <3>1. N - 0 = N
      BY <1>0
    <3> QED BY <1>0, <1>2, <3>1
  <2>2. ASSUME NEW m \in S PROVE m + 1 \in S
    <3> SUFFICES ASSUME m + 1 <= N PROVE rest[m + 1] < Power[N - (m + 1)]
      OBVIOUS
    <3>1. /\ m \in 0..(N - 1) /\ m \in 0..N /\ m <= N
          /\ N - (m + 1) \in Nat /\ (N - (m + 1)) + 1 = N - m
      BY <1>0
    <3>2. Power[N - m] = Base * Power[N - (m + 1)] /\ Power[N - (m + 1)] \in Nat
      BY <3>1, PowerSteps
    <3>3. rest[m] < Base * Power[N - (m + 1)] /\ rest[m] \in Nat
      BY <1>2, <2>2, <3>1, <3>2
    <3>4. rest[m] \div Base < Power[N - (m + 1)]
      BY <3>2, <3>3, Cut
    <3> QED BY <1>2, <3>1, <3>4
  <2>3. S \in SUBSET Nat
    OBVIOUS
  <2>4. N \in S
    <3> HIDE DEF S
    <3> QED BY <1>0, <2>1, <2>2, <2>3, Induction
  <2>5. N - N = 0 /\ N \in 0..N
    BY <1>0
  <2>6. rest[N] < 1
    BY <1>0, <2>4, <2>5, PowerSteps
  <2> QED BY <1>2, <2>5, <2>6
<1>6. PICK last : ReadOff(last, s)
  BY <1>4, UintSteps
<1>7. /\ last[0] = 0 /\ Uint(s) = last[N]
      /\ \A i \in 0..(N - 1) : last[i + 1] = last[i] * Base + s[N - i]
  BY <1>4, <1>6 DEF ReadOff
<1>8. last[N] = rest[0]
  <2> DEFINE S == {m \in Nat : m <= N => last[m] = rest[N - m]}
  <2>1. 0 \in S
    <3>1. N - 0 = N
      BY <1>0
    <3> QED BY <1>5, <1>7, <3>1
  <2>2. ASSUME NEW m \in S PROVE m + 1 \in S
    <3> SUFFICES ASSUME m + 1 <= N PROVE last[m + 1] = rest[N - (m + 1)]
      OBVIOUS
    <3> DEFINE k == N - (m + 1)
    <3>1. /\ m \in 0..(N - 1) /\ m <= N /\ k \in 0..(N - 1) /\ k \in 0..N
          /\ k + 1 = N - m /\ N - m \in 1..N /\ (N - m) - 1 = k
      BY <1>0
    <3> HIDE DEF k
    <3>2. last[m] = rest[k] \div Base /\ s[N - m] = rest[k] % Base
      BY <1>2, <2>2, <3>1
    <3>3. last[m + 1] = (rest[k] \div Base) * Base + (rest[k] % Base)
      BY <1>7, <3>1, <3>2
    <3>4. last[m + 1] = rest[k]
      BY <1>2, <3>1, <3>3, Cut, Zenon
    <3> QED BY <3>4 DEF k
  <2>3. S \in SUBSET Nat
    OBVIOUS
  <2>4. N \in S
    <3> HIDE DEF S
    <3> QED BY <1>0, <2>1, <2>2, <2>3, Induction
  <2>5. N - N = 0
    BY <1>0
  <2> QED BY <1>0, <2>4, <2>5
<1> QED BY <1>2, <1>3, <1>7, <1>8 DEF s, N

-----------------------------------------------------------------------------
\* The list t is the lists a, b and c of members of T, one after another.
InThree(t, T, a, b, c) ==
    /\ t \in Seq(T) /\ Len(t) = Len(a) + Len(b) + Len(c)
    /\ SubSeq(t, 1, Len(a)) = a
    /\ SubSeq(t, Len(a) + 1, Len(a) + Len(b)) = b
    /\ SubSeq(t, Len(a) + Len(b) + 1, Len(t)) = c
    /\ \A i \in 1..Len(a) : t[i] = a[i]
    /\ \A i \in 1..Len(c) : t[Len(a) + Len(b) + i] = c[i]

\* Three lists that were put together can be cut out again.
LEMMA CutOut ==
    ASSUME NEW T, NEW a \in Seq(T), NEW b \in Seq(T), NEW c \in Seq(T)
    PROVE  InThree(a \o b \o c, T, a, b, c)
<1> DEFINE ab == a \o b
           t == ab \o c
           la == Len(a)
           lb == Len(b)
           lc == Len(c)
<1>1. ab \in Seq(T) /\ t \in Seq(T)
  BY Joined
<1>2. la \in Nat /\ lb \in Nat /\ lc \in Nat /\ Len(ab) = la + lb /\ Len(t) = la + lb + lc
  BY <1>1, Joined
<1>3. /\ \A i \in 1..la : ab[i] = a[i]
      /\ \A i \in 1..lb : ab[la + i] = b[i]
  BY <1>2, Joined
<1>4. /\ \A i \in 1..(la + lb) : t[i] = ab[i]
      /\ \A i \in 1..lc : t[la + lb + i] = c[i]
  BY <1>1, <1>2, Joined
<1>5. /\ Len(a) = la /\ Len(b) = lb /\ Len(c) = lc
  OBVIOUS
<1> HIDE DEF ab, t, la, lb, lc
<1>6. ASSUME NEW p \in Nat, NEW s \in Seq(T), p + Len(s) <= Len(t),
             \A i \in 1..Len(s) : t[p + i] = s[i]
      PROVE  SubSeq(t, p + 1, p + Len(s)) = s
  <2> DEFINE u == SubSeq(t, p + 1, p + Len(s))
  <2>1. Len(s) \in Nat
    OBVIOUS
  <2>2. /\ u \in Seq(T)
        /\ Len(u) = Len(s)
        /\ \A i \in 1..Len(s) : u[i] = t[(p + 1) + i - 1]
    <3>1. p + 1 \in 1..(Len(t) + 1) /\ p + Len(s) \in p..Len(t)
      BY <1>2, <1>6, <2>1
    <3> QED BY <1>1, <1>2, <2>1, <3>1, CutFrom
  <2>3. \A i \in 1..Len(s) : (p + 1) + i - 1 = p + i
    BY <2>1
  <2>4. \A i \in 1..Len(s) : u[i] = s[i]
    BY <1>6, <2>2, <2>3
  <2> HIDE DEF u
  <2>5. u = s
    BY <2>2, <2>4, SameList
  <2> QED BY <2>5 DEF u
<1>7. SubSeq(t, 1, la) = a
  <2>1. \A i \in 1..la : t[0 + i] = a[i]
    BY <1>2, <1>3, <1>4
  <2>2. 0 + 1 = 1 /\ 0 + la = la /\ 0 + la <= Len(t)
    BY <1>2
  <2> QED BY <1>5, <1>6, <2>1, <2>2
<1>8. SubSeq(t, la + 1, la + lb) = b
  <2>1. \A i \in 1..lb : t[la + i] = b[i]
    BY <1>2, <1>3, <1>4
  <2>2. la + lb <= Len(t)
    BY <1>2
  <2> QED BY <1>2, <1>5, <1>6, <2>1, <2>2
<1>9. SubSeq(t, la + lb + 1, Len(t)) = c
  <2>1. la + lb \in Nat /\ la + lb + lc <= Len(t) /\ Len(t) = (la + lb) + lc
    BY <1>2
  <2> QED BY <1>4, <1>5, <1>6, <2>1, Zenon
<1>10. \A i \in 1..la : t[i] = a[i]
  BY <1>2, <1>3, <1>4
<1>11. a \o b \o c = t
  BY DEF t, ab
<1> QED BY <1>1, <1>2, <1>4, <1>5, <1>7, <1>8, <1>9, <1>10, <1>11, ZenonT(30) DEF InThree

HashBytes == [1..HashSize -> Byte]
Market == [market_id : [1..IdSize -> Byte], block_height : 0..(MaxUint - 1), is_fee : BOOLEAN]
Points == [kind : 0..4, source : HashBytes, vout : 0..(MaxUint - 1)]

\* The sizes as numbers, and bytes in a row as a list.
LEMMA Sizes ==
    /\ HashSize \in Nat /\ VoutSize \in Nat /\ IdSize \in Nat
    /\ HashSize > IdSize + VoutSize /\ VoutSize > 0
    /\ MaxUint \in Nat /\ MaxUint > 0 /\ Base \in Nat /\ Base > 4
    /\ \A n \in Nat : \A s \in [1..n -> Byte] :
          s \in Seq(Byte) /\ Len(s) = n /\ DOMAIN s = 1..n
    /\ \A n \in Nat : \A s \in Seq(Byte) : Len(s) = n => s \in [1..n -> Byte]
<1>1. /\ HashSize \in Nat /\ VoutSize \in Nat /\ IdSize \in Nat
      /\ HashSize > IdSize + VoutSize /\ VoutSize > 0 /\ Base \in Nat /\ Base > 4
  BY OutPointsAssumption
<1>2. MaxUint \in Nat /\ MaxUint > 0
  BY <1>1, PowerSteps DEF MaxUint
<1>3. ASSUME NEW n \in Nat, NEW s \in [1..n -> Byte]
      PROVE  s \in Seq(Byte) /\ Len(s) = n /\ DOMAIN s = 1..n
  OBVIOUS
<1>4. ASSUME NEW s \in Seq(Byte) PROVE s \in [1..Len(s) -> Byte]
  OBVIOUS
<1> QED BY <1>1, <1>2, <1>3, <1>4

\* OutPointFromKey reverses Key.
LEMMA KeyBack ==
    ASSUME NEW o \in Points
    PROVE  OutPointFromKey(Key(o)) = Read(o)
<1> DEFINE a == <<o.kind>>
           b == o.source
           c == PutUint(o.vout)
           key == a \o b \o c
<1>1. o.kind \in 0..4 /\ o.source \in HashBytes /\ o.vout \in 0..(MaxUint - 1)
      /\ o = OutPointOf(o.kind, o.source, o.vout)
  BY DEF Points, OutPointOf
<1>2. c \in [1..VoutSize -> Byte] /\ Uint(c) = o.vout
  BY <1>1, UintOfPutUint
<1>3. a \in Seq(Byte) /\ b \in Seq(Byte) /\ c \in Seq(Byte) /\ Len(a) = 1
      /\ Len(b) = HashSize /\ Len(c) = VoutSize /\ a[1] = o.kind
  <2>1. a \in Seq(Byte) /\ Len(a) = 1 /\ a[1] = o.kind
    <3>1. o.kind \in Byte
      BY <1>1, Sizes DEF Byte
    <3> QED BY <3>1
  <2> HIDE DEF a, b, c
  <2>2. b \in [1..HashSize -> Byte]
    BY <1>1 DEF HashBytes, b
  <2> QED BY <1>2, <2>1, <2>2, Sizes
<1>4. Key(o) = key
  BY DEF Key
<1> HIDE DEF a, b, c
<1>5. /\ key[1] = a[1]
      /\ SubSeq(key, Len(a) + 1, Len(a) + Len(b)) = b
      /\ SubSeq(key, Len(a) + Len(b) + 1, Len(key)) = c
  <2>1. 1 \in 1..Len(a)
    BY <1>3
  <2>2. InThree(key, Byte, a, b, c)
    BY <1>3, CutOut
  <2> HIDE DEF key
  <2> QED BY <2>1, <2>2 DEF InThree
<1> HIDE DEF key
<1>6. /\ SubSeq(key, 2, HashSize + 1) = o.source
      /\ SubSeq(key, HashSize + 2, Len(key)) = c
  <2>1. /\ Len(a) + 1 = 2 /\ Len(a) + Len(b) = HashSize + 1
        /\ Len(a) + Len(b) + 1 = HashSize + 2
    BY <1>3, Sizes
  <2> QED BY <1>5, <2>1, Zenon DEF b
<1>7. ~(key[1] > KindPayout) /\ key[1] = o.kind
  BY <1>1, <1>3, <1>5 DEF KindPayout
<1>8. OutPointFromKey(key) = Read(OutPointOf(o.kind, o.source, o.vout))
  BY <1>2, <1>6, <1>7, Zenon DEF OutPointFromKey
<1> QED BY <1>1, <1>4, <1>8

\* MarketFunds reads the fields that MarketFundsOutPoint packed.
LEMMA MarketBack ==
    ASSUME NEW m \in Market
    PROVE  /\ MarketFundsOutPoint(m) \in Points
           /\ MarketFundsOutPoint(m).kind = KindMarketFunds
           /\ MarketFunds(MarketFundsOutPoint(m)) = m
<1> DEFINE a == m.market_id
           b == PutUint(m.block_height)
           N == HashSize - IdSize - VoutSize
           c == [i \in 1..N |-> IF i = 1 /\ m.is_fee THEN 1 ELSE 0]
           key == a \o b \o c
           o == OutPointOf(KindMarketFunds, key, 0)
<1>1. /\ a \in [1..IdSize -> Byte] /\ m.block_height \in 0..(MaxUint - 1) /\ m.is_fee \in BOOLEAN
      /\ m = [market_id |-> a, block_height |-> m.block_height, is_fee |-> m.is_fee]
  BY DEF Market
<1>2. b \in [1..VoutSize -> Byte] /\ Uint(b) = m.block_height
  BY <1>1, UintOfPutUint
<1>3. N \in Nat /\ N >= 1 /\ IdSize + VoutSize + N = HashSize
  BY Sizes
<1>4. c \in [1..N -> Byte] /\ (c[1] = 1 <=> m.is_fee)
  <2> HIDE DEF N
  <2>1. 0 \in Byte /\ 1 \in Byte /\ 1 \in 1..N
    BY <1>3, Sizes DEF Byte
  <2>2. c \in [1..N -> Byte]
    BY <2>1
  <2>3. c[1] = IF m.is_fee THEN 1 ELSE 0
    BY <2>1
  <2> QED BY <2>2, <2>3
<1>5. MarketFundsOutPoint(m) = o
  BY DEF MarketFundsOutPoint
<1> HIDE DEF a, b, c, N
<1>6. /\ a \in Seq(Byte) /\ b \in Seq(Byte) /\ c \in Seq(Byte)
      /\ Len(a) = IdSize /\ Len(b) = VoutSize /\ Len(c) = N
  BY <1>1, <1>2, <1>3, <1>4, Sizes
<1>7. /\ key \in Seq(Byte) /\ Len(key) = HashSize
      /\ SubSeq(key, 1, IdSize) = a
      /\ SubSeq(key, IdSize + 1, IdSize + VoutSize) = b
      /\ key[IdSize + VoutSize + 1] = c[1]
  <2>1. 1 \in 1..Len(c)
    BY <1>3, <1>6
  <2>2. InThree(key, Byte, a, b, c)
    BY <1>6, CutOut
  <2> HIDE DEF key
  <2> QED BY <1>3, <1>6, <2>1, <2>2 DEF InThree
<1> HIDE DEF key
<1>8. /\ MarketFunds(o).market_id = a /\ MarketFunds(o).block_height = m.block_height
      /\ MarketFunds(o).is_fee = m.is_fee
  <2>1. o.source = key
    BY DEF OutPointOf
  <2>2. (key[IdSize + VoutSize + 1] = 1) = m.is_fee
    BY <1>1, <1>4, <1>7
  <2> HIDE DEF o
  <2> QED BY <1>2, <1>7, <2>1, <2>2, Zenon DEF MarketFunds
<1>9. MarketFunds(o) = m
  <2>1. MarketFunds(o) = [market_id |-> MarketFunds(o).market_id,
                          block_height |-> MarketFunds(o).block_height,
                          is_fee |-> MarketFunds(o).is_fee]
    BY DEF MarketFunds
  <2> HIDE DEF o
  <2> QED BY <1>1, <1>8, <2>1
<1>10. o \in Points /\ o.kind = KindMarketFunds
  <2>1. key \in HashBytes
    BY <1>7, Sizes DEF HashBytes
  <2> QED BY <2>1, Sizes DEF Points, OutPointOf, KindMarketFunds
<1> QED BY <1>5, <1>9, <1>10

\* The bytes of a hash, turned round twice, are as they were.
LEMMA ReverseBack ==
    ASSUME NEW h \in HashBytes
    PROVE  BitcoinString(h) \in HashBytes /\ BitcoinString(BitcoinString(h)) = h
<1> DEFINE N == HashSize
           r == [i \in 1..N |-> h[(N - i) + 1]]
<1>0. N \in Nat /\ h \in [1..N -> Byte] /\ Len(h) = N
  BY Sizes DEF HashBytes
<1> HIDE DEF N
<1>1. BitcoinString(h) = r
  BY <1>0 DEF BitcoinString
<1>2. \A i \in 1..N : (N - i) + 1 \in 1..N /\ (N - ((N - i) + 1)) + 1 = i
  BY <1>0
<1>3. r \in [1..N -> Byte] /\ \A i \in 1..N : r[(N - i) + 1] = h[i]
  BY <1>0, <1>2
<1> HIDE DEF r
<1>4. Len(r) = N
  BY <1>0, <1>3, Sizes
<1>5. BitcoinString(r) = [i \in 1..N |-> r[(N - i) + 1]]
  BY <1>4 DEF BitcoinString
<1>6. BitcoinString(r) = h
  BY <1>0, <1>3, <1>5
<1> QED BY <1>1, <1>3, <1>6 DEF HashBytes, N

\* A point of the market code is one that it packed.
Packs(o) == o.kind = KindMarketFunds =>
               MarketFunds(o) \in Market /\ MarketFundsOutPoint(MarketFunds(o)) = o

\* What a point is the name of.
NameOf(o) ==
    CASE o.kind = KindRegular -> <<"regular", o.source, o.vout>>
      [] o.kind = KindCoinbase -> <<"coinbase", o.source, o.vout>>
      [] o.kind = KindDeposit -> <<"deposit", BitcoinString(o.source), o.vout>>
      [] o.kind = KindMarketFunds -> <<"market", MarketFunds(o)>>
      [] o.kind = KindPayout -> <<"payout", o.source, o.vout>>

\* A plain variant gives the point of its own hash and number.
LEMMA PlainPoint ==
    ASSUME NEW k \in 0..4, NEW t, NEW v \in Nat, Plain(k, t, v).ok
    PROVE  /\ Plain(k, t, v).point = OutPointOf(k, t, v)
           /\ Plain(k, t, v).point \in Points
           /\ t \in HashBytes /\ v \in 0..(MaxUint - 1)
<1>1. IsHash(t) /\ v < MaxUint
  BY DEF Plain, Refused
<1>2. t \in HashBytes /\ v \in 0..(MaxUint - 1)
  BY <1>1, Sizes DEF IsHash, HashBytes, Byte
<1>3. Plain(k, t, v) = Read(OutPointOf(k, t, v))
  BY <1>1 DEF Plain
<1>4. OutPointOf(k, t, v) \in Points
  BY <1>2 DEF OutPointOf, Points
<1>5. Plain(k, t, v).point = OutPointOf(k, t, v)
  BY <1>3 DEF Read
<1> QED BY <1>2, <1>4, <1>5

\* UnmarshalJSON gives a point of the output that the object names, or refuses.
LEMMA UnmarshalNames ==
    ASSUME NEW w \in Wires, UnmarshalJSON(w).ok
    PROVE  LET o == UnmarshalJSON(w).point IN
           o \in Points /\ Packs(o) /\ NameOf(o) = Name(w)
<1> DEFINE o == UnmarshalJSON(w).point
<1>0. Decodable(w)
  BY DEF UnmarshalJSON, Refused
<1>1. CASE "Regular" \in DOMAIN w
  <2>1. UnmarshalJSON(w) = Plain(KindRegular, w.Regular.txid, w.Regular.vout)
    BY <1>0, <1>1 DEF UnmarshalJSON
  <2>2. w.Regular.vout \in Nat /\ KindRegular \in 0..4
    BY <1>1, WiresAssumption DEF KindRegular
  <2>3. o \in Points /\ o = OutPointOf(KindRegular, w.Regular.txid, w.Regular.vout)
    BY <2>1, <2>2, PlainPoint
  <2>4. Name(w) = <<"regular", w.Regular.txid, w.Regular.vout>>
    BY <1>1 DEF Name
  <2> HIDE DEF o
  <2>5. o.kind = 0 /\ o.source = w.Regular.txid /\ o.vout = w.Regular.vout
    BY <2>3 DEF OutPointOf, KindRegular
  <2>6. Packs(o) /\ NameOf(o) = <<"regular", o.source, o.vout>>
    BY <2>5 DEF Packs, NameOf, KindRegular, KindCoinbase, KindDeposit, KindMarketFunds, KindPayout
  <2> QED BY <2>3, <2>4, <2>5, <2>6 DEF o
<1>2. CASE "Regular" \notin DOMAIN w /\ "Coinbase" \in DOMAIN w
  <2> DEFINE src == coinbaseSource(w.Coinbase)
  <2>1. UnmarshalJSON(w) = Plain(KindCoinbase, src, w.Coinbase.vout)
    <3>1. src # NULL
      BY <1>0, <1>2 DEF UnmarshalJSON, Refused
    <3> QED BY <1>0, <1>2, <3>1 DEF UnmarshalJSON
  <2>2. w.Coinbase.vout \in Nat /\ KindCoinbase \in 0..4
    BY <1>2, WiresAssumption DEF KindCoinbase
  <2>3. o \in Points /\ o = OutPointOf(KindCoinbase, src, w.Coinbase.vout)
    <3> HIDE DEF src
    <3> QED BY <2>1, <2>2, PlainPoint
  <2>4. Name(w) = <<"coinbase", src, w.Coinbase.vout>>
    BY <1>2 DEF Name
  <2> HIDE DEF o, src
  <2>5. o.kind = 1 /\ o.source = src /\ o.vout = w.Coinbase.vout
    BY <2>3 DEF OutPointOf, KindCoinbase
  <2>6. Packs(o) /\ NameOf(o) = <<"coinbase", o.source, o.vout>>
    BY <2>5 DEF Packs, NameOf, KindRegular, KindCoinbase, KindDeposit, KindMarketFunds, KindPayout
  <2> QED BY <2>3, <2>4, <2>5, <2>6 DEF o
<1>3. CASE {"Regular", "Coinbase"} \cap DOMAIN w = {} /\ "Deposit" \in DOMAIN w
  <2> DEFINE d == w.Deposit
  <2>1. UnmarshalJSON(w) = parseBitcoinOutPoint(d)
    BY <1>0, <1>3 DEF UnmarshalJSON
  <2>2. d.vout \in Nat /\ KindDeposit \in 0..4
    BY <1>3, WiresAssumption DEF KindDeposit
  <2>3. Name(w) = <<"deposit", d.txid, d.vout>>
    BY <1>3 DEF Name
  <2> HIDE DEF d
  <2>4. Plain(KindDeposit, d.txid, d.vout).ok
        /\ UnmarshalJSON(w) = Read(OutPointOf(KindDeposit, BitcoinString(d.txid), d.vout))
    BY <2>1 DEF parseBitcoinOutPoint, Refused
  <2>5. d.txid \in HashBytes /\ d.vout \in 0..(MaxUint - 1)
    BY <2>2, <2>4, PlainPoint
  <2>6. BitcoinString(d.txid) \in HashBytes /\ BitcoinString(BitcoinString(d.txid)) = d.txid
    BY <2>5, ReverseBack
  <2>7. o = OutPointOf(KindDeposit, BitcoinString(d.txid), d.vout)
    BY <2>4 DEF Read
  <2> HIDE DEF o
  <2>8. o \in Points /\ o.kind = 2 /\ o.source = BitcoinString(d.txid) /\ o.vout = d.vout
    BY <2>2, <2>5, <2>6, <2>7 DEF OutPointOf, Points, KindDeposit
  <2>9. Packs(o) /\ NameOf(o) = <<"deposit", BitcoinString(o.source), o.vout>>
    BY <2>8 DEF Packs, NameOf, KindRegular, KindCoinbase, KindDeposit, KindMarketFunds, KindPayout
  <2> QED BY <2>3, <2>6, <2>8, <2>9 DEF o
<1>4. CASE {"Regular", "Coinbase", "Deposit"} \cap DOMAIN w = {} /\ "MarketFunds" \in DOMAIN w
  <2> DEFINE m == w.MarketFunds
  <2>1. UnmarshalJSON(w) = Read(MarketFundsOutPoint(m))
    BY <1>0, <1>4 DEF UnmarshalJSON
  <2>2. m \in [market_id : [1..IdSize -> 0..(Base - 1)], block_height : Nat, is_fee : BOOLEAN]
        /\ m.block_height < MaxUint
    BY <1>0, <1>4, WiresAssumption DEF Decodable
  <2>3. Name(w) = <<"market", m>>
    BY <1>4 DEF Name
  <2> HIDE DEF m
  <2>4. m \in Market
    BY <2>2, Sizes DEF Market, Byte
  <2>5. o = MarketFundsOutPoint(m)
    BY <2>1 DEF Read
  <2> HIDE DEF o
  <2>6. o \in Points /\ o.kind = KindMarketFunds /\ MarketFunds(o) = m
    BY <2>4, <2>5, MarketBack
  <2>7. Packs(o) /\ NameOf(o) = <<"market", MarketFunds(o)>>
    BY <2>4, <2>5, <2>6
       DEF Packs, NameOf, KindRegular, KindCoinbase, KindDeposit, KindMarketFunds, KindPayout
  <2> QED BY <2>3, <2>6, <2>7 DEF o
<1>5. CASE {"Regular", "Coinbase", "Deposit", "MarketFunds"} \cap DOMAIN w = {}
  <2>1. /\ "Payout" \in DOMAIN w
        /\ UnmarshalJSON(w) = Plain(KindPayout, w.Payout.hash, w.Payout.vout)
    BY <1>0, <1>5 DEF UnmarshalJSON, Refused
  <2>2. w.Payout.vout \in Nat /\ KindPayout \in 0..4
    BY <2>1, WiresAssumption DEF KindPayout
  <2>3. o \in Points /\ o = OutPointOf(KindPayout, w.Payout.hash, w.Payout.vout)
    BY <2>1, <2>2, PlainPoint
  <2>4. Name(w) = <<"payout", w.Payout.hash, w.Payout.vout>>
    BY <1>5 DEF Name
  <2> HIDE DEF o
  <2>5. o.kind = 4 /\ o.source = w.Payout.hash /\ o.vout = w.Payout.vout
    BY <2>3 DEF OutPointOf, KindPayout
  <2>6. Packs(o) /\ NameOf(o) = <<"payout", o.source, o.vout>>
    BY <2>5 DEF Packs, NameOf, KindRegular, KindCoinbase, KindDeposit, KindMarketFunds, KindPayout
  <2> QED BY <2>3, <2>4, <2>5, <2>6 DEF o
<1> HIDE DEF o
<1> QED BY <1>1, <1>2, <1>3, <1>4, <1>5 DEF o

\* A point has one name and one key, and they tell it from every other point.
LEMMA PointsApart ==
    ASSUME NEW o \in Points, NEW p \in Points, Packs(o), Packs(p)
    PROVE  (Key(o) = Key(p) <=> o = p) /\ (NameOf(o) = NameOf(p) <=> o = p)
<1>1. ASSUME Key(o) = Key(p) PROVE o = p
  <2>1. Read(o) = Read(p)
    BY <1>1, KeyBack
  <2> QED BY <2>1 DEF Read
<1>2. ASSUME NameOf(o) = NameOf(p) PROVE o = p
  <2> USE DEF KindRegular, KindCoinbase, KindDeposit, KindMarketFunds, KindPayout
  <2>1. o.kind \in 0..4 /\ p.kind \in 0..4
    BY DEF Points
  <2>2. /\ o.source \in HashBytes /\ p.source \in HashBytes
        /\ o = [kind |-> o.kind, source |-> o.source, vout |-> o.vout]
        /\ p = [kind |-> p.kind, source |-> p.source, vout |-> p.vout]
    BY DEF Points
  <2>3. \A q \in {o, p} :
           /\ q.kind = 0 => NameOf(q) = <<"regular", q.source, q.vout>>
           /\ q.kind = 1 => NameOf(q) = <<"coinbase", q.source, q.vout>>
           /\ q.kind = 2 => NameOf(q) = <<"deposit", BitcoinString(q.source), q.vout>>
           /\ q.kind = 3 => NameOf(q) = <<"market", MarketFunds(q)>>
           /\ q.kind = 4 => NameOf(q) = <<"payout", q.source, q.vout>>
    BY DEF NameOf
  <2>4. \A q \in {o, p} :
           /\ NameOf(q)[1] = IF q.kind = 0 THEN "regular" ELSE IF q.kind = 1 THEN "coinbase"
                             ELSE IF q.kind = 2 THEN "deposit" ELSE IF q.kind = 3 THEN "market"
                             ELSE "payout"
           /\ q.kind \in {0, 1, 4} => NameOf(q)[2] = q.source /\ NameOf(q)[3] = q.vout
           /\ q.kind = 2 => NameOf(q)[2] = BitcoinString(q.source) /\ NameOf(q)[3] = q.vout
           /\ q.kind = 3 => NameOf(q)[2] = MarketFunds(q)
    BY <2>1, <2>3
  <2>5. o.kind = p.kind
    BY <1>2, <2>1, <2>4
  <2> HIDE DEF KindRegular, KindCoinbase, KindDeposit, KindPayout
  <2>6. CASE o.kind \in {0, 1, 4}
    <3>1. o.source = p.source /\ o.vout = p.vout
      BY <1>2, <2>4, <2>5, <2>6
    <3> QED BY <2>2, <2>5, <3>1
  <2>7. CASE o.kind = 2
    <3>1. BitcoinString(o.source) = BitcoinString(p.source) /\ o.vout = p.vout
      BY <1>2, <2>4, <2>5, <2>7
    <3>2. o.source = p.source
      BY <2>2, <3>1, ReverseBack
    <3> QED BY <2>2, <2>5, <3>1, <3>2
  <2>8. CASE o.kind = 3
    <3>1. MarketFunds(o) = MarketFunds(p)
      BY <1>2, <2>4, <2>5, <2>8
    <3> QED BY <2>5, <2>8, <3>1 DEF Packs
  <2> QED BY <2>1, <2>6, <2>7, <2>8
<1> QED BY <1>1, <1>2

\* int32 and uint32 undo each other, so the columns give the point back.
LEMMA RowBack ==
    ASSUME NEW o \in Points
    PROVE  FromRow(Row(o)) = o
<1>1. o.vout \in 0..(MaxUint - 1) /\ MaxUint \in Nat /\ MaxUint > 0
  BY Sizes DEF Points
<1>2. ASSUME NEW m \in Nat, m > 0, NEW v \in 0..(m - 1)
      PROVE  (v % m) = v /\ ((v - m) % m) = v
  <2>1. 0 <= v /\ v < m /\ v = 0 * m + v /\ v - m = (-1) * m + v /\ m \in Int /\ v \in Int
    BY <1>2
  <2>2. (v % m) = v
    BY <1>2, <2>1
  <2>3. ((v - m) % m) = v
    BY <1>2, <2>1
  <2> QED BY <2>2, <2>3
<1>3. Unsigned(Signed(o.vout)) = o.vout
  BY <1>1, <1>2 DEF Unsigned, Signed
<1>4. o = [kind |-> o.kind, source |-> o.source, vout |-> o.vout]
  BY DEF Points
<1> QED BY <1>3, <1>4 DEF FromRow, Row, OutPointOf

\* What MarshalJSON writes, UnmarshalJSON reads as the point that it was.
LEMMA MarshalBack ==
    ASSUME NEW o \in Points, Packs(o)
    PROVE  UnmarshalJSON(MarshalJSON(o)) = Read(o)
<1> USE DEF KindRegular, KindCoinbase, KindDeposit, KindMarketFunds, KindPayout
<1>1. /\ o.kind \in 0..4 /\ o.source \in HashBytes /\ o.vout < MaxUint
      /\ o = OutPointOf(o.kind, o.source, o.vout)
  BY Sizes DEF Points, OutPointOf
<1>2. IsHash(o.source) /\ o.source # NULL
  BY <1>1, WiresAssumption DEF IsHash, HashBytes, Byte
<1>3. \A k : Plain(k, o.source, o.vout) = Read(OutPointOf(k, o.source, o.vout))
  BY <1>1, <1>2 DEF Plain
<1>4. \A k : Plain(k, o.source, o.vout).ok
  <2>1. \A x : Read(x).ok
    BY DEF Read
  <2> QED BY <1>3, <2>1
<1>5. CASE o.kind = 0
  <2> DEFINE w == [Regular |-> [txid |-> o.source, vout |-> o.vout]]
  <2>1. MarshalJSON(o) = w
    BY <1>5 DEF MarshalJSON
  <2>2. DOMAIN w = {"Regular"} /\ w.Regular.txid = o.source /\ w.Regular.vout = o.vout
    OBVIOUS
  <2> HIDE DEF w
  <2>3. Decodable(w)
    BY <1>4, <2>2 DEF Decodable
  <2> QED BY <1>1, <1>3, <1>5, <2>1, <2>2, <2>3 DEF UnmarshalJSON
<1>6. CASE o.kind = 1
  <2> DEFINE c == [txid |-> o.source, merkle_root |-> NULL, vout |-> o.vout]
             w == [Coinbase |-> c]
  <2>1. MarshalJSON(o) = w
    BY <1>6 DEF MarshalJSON
  <2>2. DOMAIN w = {"Coinbase"} /\ w.Coinbase = c
        /\ c.txid = o.source /\ c.merkle_root = NULL /\ c.vout = o.vout
    OBVIOUS
  <2> HIDE DEF w, c
  <2>3. Decodable(w)
    BY <1>1, <1>2, <2>2 DEF Decodable
  <2>4. coinbaseSource(c) = o.source
    BY <1>2, <2>2 DEF coinbaseSource
  <2> QED BY <1>1, <1>2, <1>3, <1>6, <2>1, <2>2, <2>3, <2>4 DEF UnmarshalJSON
<1>7. CASE o.kind = 2
  <2> DEFINE b == BitcoinString(o.source)
             d == [txid |-> b, colon |-> TRUE, vout |-> o.vout]
             w == [Deposit |-> d]
  <2>1. MarshalJSON(o) = w
    BY <1>7 DEF MarshalJSON
  <2>2. DOMAIN w = {"Deposit"} /\ w.Deposit = d
        /\ d.txid = b /\ d.colon /\ d.vout = o.vout
    OBVIOUS
  <2>3. b \in HashBytes /\ BitcoinString(b) = o.source
    BY <1>1, ReverseBack
  <2> HIDE DEF w, d, b
  <2>4. IsHash(b)
    BY <2>3 DEF IsHash, HashBytes, Byte
  <2>5. Plain(KindDeposit, b, o.vout).ok
    BY <1>1, <2>4 DEF Plain, Read
  <2>6. parseBitcoinOutPoint(d) = Read(OutPointOf(KindDeposit, o.source, o.vout))
    BY <2>2, <2>3, <2>5 DEF parseBitcoinOutPoint
  <2>7. Decodable(w)
    BY <2>2 DEF Decodable
  <2>8. UnmarshalJSON(w) = parseBitcoinOutPoint(d)
    BY <2>2, <2>7 DEF UnmarshalJSON
  <2> QED BY <1>1, <1>7, <2>1, <2>6, <2>8
<1>8. CASE o.kind = 3
  <2> DEFINE m == MarketFunds(o)
             w == [MarketFunds |-> m]
  <2>1. MarshalJSON(o) = w
    BY <1>8 DEF MarshalJSON
  <2>2. DOMAIN w = {"MarketFunds"} /\ w.MarketFunds = m
    OBVIOUS
  <2>3. m \in Market /\ MarketFundsOutPoint(m) = o
    BY <1>8 DEF Packs
  <2> HIDE DEF w, m
  <2>4. m.block_height < MaxUint
    BY <2>3, Sizes DEF Market
  <2>5. Decodable(w)
    BY <2>2, <2>4 DEF Decodable
  <2> QED BY <2>1, <2>2, <2>3, <2>5 DEF UnmarshalJSON
<1>9. CASE o.kind = 4
  <2> DEFINE w == [Payout |-> [hash |-> o.source, vout |-> o.vout]]
  <2>1. MarshalJSON(o) = w
    BY <1>9 DEF MarshalJSON
  <2>2. DOMAIN w = {"Payout"} /\ w.Payout.hash = o.source /\ w.Payout.vout = o.vout
    OBVIOUS
  <2> HIDE DEF w
  <2>3. Decodable(w)
    BY <1>4, <2>2 DEF Decodable
  <2> QED BY <1>1, <1>3, <1>9, <2>1, <2>2, <2>3 DEF UnmarshalJSON
<1> QED BY <1>1, <1>5, <1>6, <1>7, <1>8, <1>9

-----------------------------------------------------------------------------
\* The rows are those of the two objects.
OutPointsInv ==
    /\ wires \in Wires \X Wires
    /\ coins \in {<<>>, [i \in 1..2 |-> RowOf(wires[i])]}

\* StoreCoins writes the rows of the two objects and nothing else.
LEMMA OutPointsInvariant == OutPointsSpec => []OutPointsInv
<1>1. OutPointsInit => OutPointsInv
  BY DEF OutPointsInit, OutPointsInv
<1>2. OutPointsInv /\ [StoreCoins]_outPointsVars => OutPointsInv'
  BY DEF OutPointsInv, StoreCoins, outPointsVars
<1> QED BY <1>1, <1>2, PTL DEF OutPointsSpec

\* A coin that is stored is the row of the point that its object gives.
LEMMA StoredCoin ==
    ASSUME OutPointsInv, NEW i \in Stored
    PROVE  \E o \in Points :
              Packs(o) /\ coins[i] = Row(o) /\ NameOf(o) = Name(wires[i])
<1> DEFINE w == wires[i]
           o == UnmarshalJSON(w).point
<1>1. coins # <<>>
  BY DEF Stored
<1>2. i \in 1..2 /\ coins[i] = RowOf(w) /\ RowOf(w) # NULL /\ w \in Wires
  BY <1>1 DEF Stored, OutPointsInv
<1> HIDE DEF w
<1>3. UnmarshalJSON(w).ok /\ RowOf(w) = Row(o)
  BY <1>2 DEF RowOf
<1>4. o \in Points /\ Packs(o) /\ NameOf(o) = Name(w)
  BY <1>2, <1>3, UnmarshalNames
<1> HIDE DEF o
<1> QED BY <1>2, <1>3, <1>4 DEF w

\* However long a hash is and whatever the node sends, the primary key that
\* insertOutputs writes tells any two outputs apart, and gives one output one key.
THEOREM OutPointsKeysTellApart == OutPointsSpec => []KeysTellApart
<1>1. OutPointsInv => KeysTellApart
  <2> SUFFICES ASSUME OutPointsInv, NEW i \in Stored, NEW j \in Stored
               PROVE  coins[i].outpoint = coins[j].outpoint <=> Name(wires[i]) = Name(wires[j])
    BY DEF KeysTellApart
  <2>1. PICK o \in Points : Packs(o) /\ coins[i] = Row(o) /\ NameOf(o) = Name(wires[i])
    BY StoredCoin
  <2>2. PICK p \in Points : Packs(p) /\ coins[j] = Row(p) /\ NameOf(p) = Name(wires[j])
    BY StoredCoin
  <2>3. coins[i].outpoint = Key(o) /\ coins[j].outpoint = Key(p)
    BY <2>1, <2>2 DEF Row
  <2> QED BY <2>1, <2>2, <2>3, PointsApart
<1> QED BY <1>1, OutPointsInvariant, PTL

\* The columns of a coin give back the outpoint they were written for, and so do its
\* key and its JSON: FromRow, OutPointFromKey and UnmarshalJSON undo Row, Key and
\* MarshalJSON for every output that UnmarshalJSON lets in.
THEOREM OutPointsReadsBack == OutPointsSpec => []ReadsBack
<1>1. OutPointsInv => ReadsBack
  <2> SUFFICES ASSUME OutPointsInv, NEW i \in Stored
               PROVE  LET o == FromRow(coins[i]) IN
                      /\ Key(o) = coins[i].outpoint
                      /\ OutPointFromKey(coins[i].outpoint) = Read(o)
                      /\ UnmarshalJSON(MarshalJSON(o)) = Read(o)
    BY DEF ReadsBack
  <2>1. PICK o \in Points : Packs(o) /\ coins[i] = Row(o) /\ NameOf(o) = Name(wires[i])
    BY StoredCoin
  <2>2. FromRow(coins[i]) = o /\ coins[i].outpoint = Key(o)
    <3>1. coins[i].outpoint = Key(o)
      BY <2>1 DEF Row
    <3> QED BY <2>1, <3>1, RowBack
  <2>3. OutPointFromKey(Key(o)) = Read(o) /\ UnmarshalJSON(MarshalJSON(o)) = Read(o)
    BY <2>1, KeyBack, MarshalBack
  <2> QED BY <2>2, <2>3
<1> QED BY <1>1, OutPointsInvariant, PTL

\* sourceString renders the txid that the node sent: the bytes of a deposit, which
\* parseBitcoinOutPoint turns round, are turned back, and no others are.
THEOREM OutPointsTxidKept == OutPointsSpec => []TxidKept
<1>1. OutPointsInv => TxidKept
  <2> SUFFICES ASSUME OutPointsInv, NEW i \in ByTransaction
               PROVE  sourceString(FromRow(coins[i])) = SentTxid(wires[i])
    BY DEF TxidKept
  <2>0. i \in Stored /\ coins[i].kind # KindMarketFunds
    BY DEF ByTransaction
  <2>1. PICK o \in Points : Packs(o) /\ coins[i] = Row(o) /\ NameOf(o) = Name(wires[i])
    BY <2>0, StoredCoin
  <2>2. FromRow(coins[i]) = o /\ coins[i].kind = o.kind
    <3>1. coins[i].kind = o.kind
      BY <2>1 DEF Row
    <3> QED BY <2>1, <3>1, RowBack
  <2>3. o.kind \in 0..4
    BY DEF Points
  <2>4. sourceString(o) = NameOf(o)[2]
    BY <2>0, <2>2, <2>3
       DEF sourceString, NameOf, KindRegular, KindCoinbase, KindDeposit, KindMarketFunds, KindPayout
  <2> QED BY <2>1, <2>2, <2>4 DEF SentTxid
<1> QED BY <1>1, OutPointsInvariant, PTL

-----------------------------------------------------------------------------
(***************************************************************************)
(* Service: the connection that every request and every syncer shares.     *)
(***************************************************************************)

Label == {"idle", "read", "use", "connect", "install", "close", "swap", "notify",
          "stopped"}

\* The variables have their types.
ServiceTypeInv ==
    /\ client \in Nat /\ have \in BOOLEAN /\ connected \in BOOLEAN
    /\ opened \in Nat /\ opened <= MaxConn
    /\ closes \in [Conn -> Nat] /\ faults \in Nat
    /\ pc \in [Proc -> Label]
    /\ mine \in [Proc -> Nat] /\ old \in [Proc -> Nat]
    /\ val \in [Proc -> BOOLEAN]

\* A goroutine has c in hand: it opened c and has not installed it, or it took c out
\* of the service and has not closed it.
InHand(p, c) ==
    \/ At(p, "install") /\ mine[p] = c
    \/ At(p, "close") /\ old[p] = c

\* What makes ConnectionsOwned inductive: the open connections are the one that the
\* service holds and those in the goroutines' hands, and no two of these are the same.
OneOwner ==
    /\ \A c \in Conn : closes[c] <= 1 /\ (c > opened => closes[c] = 0)
    /\ have => Open(client)
    /\ \A p \in Proc, c \in Nat : InHand(p, c) => Open(c) /\ ~(have /\ client = c)
    /\ \A p, q \in Proc, c \in Nat : InHand(p, c) /\ InHand(q, c) => p = q
    /\ \A c \in Nat :
          Open(c) => \/ have /\ client = c
                     \/ \E p \in Proc : InHand(p, c)

\* What makes NeverZeroClient inductive: wherever a goroutine may go on to set
\* connected, or to read the client, the client is there, and a caller that is past
\* its own connect has it in mine.
ClientThere ==
    /\ connected => client # None
    /\ have => client # None
    /\ \A p \in Proc :
          /\ At(p, "read") => client # None
          /\ pc[p] \in {"install", "use"} => mine[p] # None
          /\ At(p, "close") => client # None
          /\ pc[p] \in {"swap", "notify"} /\ val[p] => client # None
          /\ At(p, "close") /\ p # Run => mine[p] # None
          /\ pc[p] \in {"swap", "notify"} /\ val[p] /\ p # Run => mine[p] # None

-----------------------------------------------------------------------------
(***************************************************************************)
(* Types.                                                                  *)
(***************************************************************************)

\* Every step of Service is one of its actions, by a goroutine, by Run, or by a
\* reader of ConnectedChan, who touches the channels only.
LEMMA ServiceSteps ==
    ASSUME ServiceNext
    PROVE  \/ \E p \in Proc : \/ Get(p) \/ ReadClient(p) \/ Finish(p) \/ Drop(p)
                             \/ Opens(p) \/ ConnectFails(p) \/ Install(p)
                             \/ CloseOld(p) \/ Swap(p) \/ Notify(p)
           \/ Tick \/ close
           \/ UNCHANGED <<connVars, procVars>>
  BY DEF ServiceNext, ConnectStep, Proc, Subscribe, Register, Receive, Unsubscribe

\* setConnected returns to one of two places: a Connect that succeeded hands its client
\* to the caller of Get, any other leaves the goroutine with none.
LEMMA Returns ==
    \A p \in Proc :
        Return(p) => \/ /\ val[p] /\ p # Run
                        /\ pc' = [pc EXCEPT ![p] = "use"] /\ mine' = mine
                     \/ /\ pc' = [pc EXCEPT ![p] = "idle"]
                        /\ mine' = [mine EXCEPT ![p] = None]
  BY Zenon DEF Return, Jump

\* setConnected that changes nothing returns at once; one that does goes on to notify.
LEMMA Swaps ==
    \A p \in Proc :
        Swap(p) => \/ Return(p)
                   \/ pc' = [pc EXCEPT ![p] = "notify"] /\ mine' = mine
  BY DEF Swap, Jump

\* The variables of Service keep their types: no step leaves the labels of the code,
\* and the connector opens no more than MaxConn connections.
LEMMA ServiceTypeStep ==
    ASSUME ServiceTypeInv, [ServiceNext]_serviceVars
    PROVE  ServiceTypeInv'
  <1> USE DEF ServiceTypeInv, Label, Conn, None, At, Jump, connVars
  <1> Run \in Proc /\ MaxConn \in Nat
    BY ServiceAssumption DEF Proc
  <1>1. ASSUME NEW p \in Proc, Get(p)
        PROVE  ServiceTypeInv'
    BY <1>1 DEF Get
  <1>2. ASSUME NEW p \in Proc, ReadClient(p)
        PROVE  ServiceTypeInv'
    BY <1>2 DEF ReadClient
  <1>3. ASSUME NEW p \in Proc, Finish(p)
        PROVE  ServiceTypeInv'
    BY <1>3 DEF Finish
  <1>4. ASSUME NEW p \in Proc, Drop(p)
        PROVE  ServiceTypeInv'
    BY <1>4 DEF Drop
  <1>5. ASSUME NEW p \in Proc, Opens(p)
        PROVE  ServiceTypeInv'
    BY <1>5 DEF Opens
  <1>6. ASSUME NEW p \in Proc, ConnectFails(p)
        PROVE  ServiceTypeInv'
    BY <1>6 DEF ConnectFails
  <1>7. ASSUME NEW p \in Proc, Install(p)
        PROVE  ServiceTypeInv'
    BY <1>7 DEF Install
  <1>8. ASSUME NEW p \in Proc, CloseOld(p)
        PROVE  ServiceTypeInv'
    <2>1. closes' \in [Conn -> Nat]
      <3>1. CASE old[p] \in Conn
        BY <1>8, <3>1 DEF CloseOld
      <3>2. CASE old[p] \notin Conn
        BY <1>8, <3>2, Zenon DEF CloseOld
      <3> QED
        BY <3>1, <3>2
    <2> QED
      BY <1>8, <2>1 DEF CloseOld
  <1>9. ASSUME NEW p \in Proc, Swap(p)
        PROVE  ServiceTypeInv'
    <2>1. pc' \in [Proc -> Label]
      BY <1>9, Swaps, Returns, Zenon
    <2>2. mine' \in [Proc -> Nat]
      BY <1>9, Swaps, Returns
    <2>3. connected' \in BOOLEAN
      BY <1>9 DEF Swap
    <2> QED
      BY <1>9, <2>1, <2>2, <2>3 DEF Swap
  <1>10. ASSUME NEW p \in Proc, Notify(p)
        PROVE  ServiceTypeInv'
    <2>1. Return(p)
      BY <1>10 DEF Notify
    <2>2. pc' \in [Proc -> Label]
      BY <2>1, Returns, Zenon
    <2>3. mine' \in [Proc -> Nat]
      BY <2>1, Returns
    <2> QED
      BY <1>10, <2>2, <2>3 DEF Notify
  <1>11. CASE Tick
    BY <1>11 DEF Tick
  <1>12. CASE close
    BY <1>12, Zenon DEF close
  <1>13. CASE UNCHANGED <<connVars, procVars>>
    BY <1>13 DEF procVars
  <1>14. CASE UNCHANGED serviceVars
    BY <1>14 DEF serviceVars, procVars
  <1> QED
    BY <1>1, <1>2, <1>3, <1>4, <1>5, <1>6, <1>7, <1>8, <1>9, <1>10, <1>11, <1>12,
       <1>13, <1>14, ServiceSteps, Zenon
-----------------------------------------------------------------------------
(***************************************************************************)
(* Every connection has one owner.                                         *)
(***************************************************************************)

\* A step that leaves the service's connection, the closers and the hands alone keeps
\* every owner.
LEMMA OwnerFrame ==
    ASSUME OneOwner, UNCHANGED <<client, have, opened, closes>>,
           \A p \in Proc, c \in Nat : InHand(p, c)' <=> InHand(p, c)
    PROVE  OneOwner'
  BY DEF OneOwner, Open

\* A goroutine that goes from one place outside Connect's hand-over to another has
\* nothing in hand before or after, and the others have what they had.
LEMMA HandsKept ==
    ASSUME ServiceTypeInv, NEW p \in Proc, pc[p] \notin {"install", "close"},
           NEW l \in Label \ {"install", "close"}, pc' = [pc EXCEPT ![p] = l],
           \A q \in Proc \ {p} : mine'[q] = mine[q] /\ old'[q] = old[q]
    PROVE  \A q \in Proc, c \in Nat : InHand(q, c)' <=> InHand(q, c)
  BY DEF ServiceTypeInv, InHand, At

\* Opens gives the new connection to the goroutine that asked for it.
LEMMA OwnerOpens ==
    ASSUME ServiceTypeInv, OneOwner, NEW p \in Proc, Opens(p)
    PROVE  OneOwner'
  <1> USE DEF ServiceTypeInv, Conn
  <1> DEFINE n == opened + 1
  <1>1. \A q \in Proc, c \in Nat : InHand(q, c)' <=> IF q = p THEN c = n ELSE InHand(q, c)
    BY DEF Opens, InHand, At, Jump
  <1>2. n \in Conn /\ closes[n] = 0
    BY ServiceAssumption DEF Opens, OneOwner
  <1>3. \A c \in Nat : Open(c)' <=> Open(c) \/ c = n
    BY <1>2 DEF Opens, Open
  <1>4. ~Open(n)
    BY DEF Open
  <1>5. \A c \in Nat : ~InHand(p, c)
    BY DEF Opens, InHand, At
  <1>6. UNCHANGED <<client, have, closes>> /\ opened' = opened + 1
    BY DEF Opens
  <1>7. \A c \in Conn : closes'[c] <= 1 /\ (c > opened' => closes'[c] = 0)
    BY <1>6 DEF OneOwner
  <1>8. \A c \in Nat : Open(c)' => \/ have' /\ client' = c
                                  \/ \E q \in Proc : InHand(q, c)'
    BY <1>1, <1>3, <1>5, <1>6 DEF OneOwner
  <1> HIDE DEF n
  <1> QED
    BY <1>1, <1>3, <1>4, <1>5, <1>6, <1>7, <1>8 DEF OneOwner

\* Install gives the goroutine's connection to the service, and the goroutine the one
\* that the service held.
LEMMA OwnerInstall ==
    ASSUME ServiceTypeInv, OneOwner, NEW p \in Proc, Install(p)
    PROVE  OneOwner'
  <1> USE DEF ServiceTypeInv
  <1>1. \A q \in Proc, c \in Nat :
            InHand(q, c)' <=> IF q = p THEN have /\ c = client ELSE InHand(q, c)
    BY DEF Install, InHand, At, Jump
  <1>2. \A c \in Nat : InHand(p, c) <=> c = mine[p]
    BY DEF Install, InHand, At
  <1>3. client' = mine[p] /\ mine[p] \in Nat /\ have' = TRUE /\ UNCHANGED <<opened, closes>>
    BY DEF Install
  <1>4. \A c \in Nat : Open(c)' <=> Open(c)
    BY <1>3 DEF Open
  <1> QED
    BY <1>1, <1>2, <1>3, <1>4 DEF OneOwner

\* The closer runs on a connection that nobody else has, so it runs on it once.
LEMMA OwnerCloseOld ==
    ASSUME ServiceTypeInv, OneOwner, NEW p \in Proc, CloseOld(p)
    PROVE  OneOwner'
  <1> USE DEF ServiceTypeInv
  <1>1. \A q \in Proc, c \in Nat : InHand(q, c)' <=> q # p /\ InHand(q, c)
    BY DEF CloseOld, InHand, At, Jump
  <1>2. \A c \in Nat : InHand(p, c) <=> c = old[p]
    BY DEF CloseOld, InHand, At
  <1>3. old[p] \in Nat /\ Open(old[p])
    BY <1>2 DEF OneOwner
  <1>4. old[p] \in Conn /\ closes[old[p]] = 0
    BY <1>3, ServiceAssumption DEF Open, Conn
  <1>5. /\ UNCHANGED <<client, have, opened>>
        /\ closes' = [closes EXCEPT ![old[p]] = 1]
    BY <1>4 DEF CloseOld
  <1>6. \A c \in Nat : Open(c)' <=> Open(c) /\ c # old[p]
    BY <1>4, <1>5 DEF Open, Conn
  <1>7. \A c \in Conn : closes'[c] <= 1 /\ (c > opened' => closes'[c] = 0)
    BY <1>3, <1>4, <1>5 DEF OneOwner, Open, Conn
  <1>8. \A c \in Nat : Open(c)' => \/ have' /\ client' = c
                                  \/ \E q \in Proc : InHand(q, c)'
    BY <1>1, <1>2, <1>5, <1>6 DEF OneOwner
  <1> QED
    BY <1>1, <1>2, <1>3, <1>5, <1>6, <1>7, <1>8 DEF OneOwner

\* close gives the service's connection to Run, which closes it.
LEMMA OwnerClose ==
    ASSUME ServiceTypeInv, OneOwner, close
    PROVE  OneOwner'
  <1> USE DEF ServiceTypeInv
  <1>0. Run \in Proc
    BY DEF Proc
  <1>1. \A q \in Proc, c \in Nat :
            InHand(q, c)' <=> IF q = Run THEN have /\ c = client ELSE InHand(q, c)
    BY <1>0 DEF close, InHand, At, Jump
  <1>2. \A c \in Nat : ~InHand(Run, c)
    BY DEF close, InHand, At
  <1>3. have' = FALSE /\ UNCHANGED <<client, opened, closes>>
    BY DEF close
  <1>4. \A c \in Nat : Open(c)' <=> Open(c)
    BY <1>3 DEF Open
  <1> QED
    BY <1>0, <1>1, <1>2, <1>3, <1>4 DEF OneOwner

\* Each step of Connect, close, Get and Drop keeps every connection's one owner.
LEMMA OwnerStep ==
    ASSUME ServiceTypeInv, OneOwner, [ServiceNext]_serviceVars
    PROVE  OneOwner'
  <1>0. Run \in Proc
    BY DEF Proc
  <1> USE DEF At, Jump, Label, connVars
  <1>1. ASSUME NEW p \in Proc, Get(p)
        PROVE  OneOwner'
    BY <1>1, OwnerFrame, HandsKept, Zenon DEF Get
  <1>2. ASSUME NEW p \in Proc, ReadClient(p)
        PROVE  OneOwner'
    BY <1>2, OwnerFrame, HandsKept, Zenon DEF ReadClient, ServiceTypeInv
  <1>3. ASSUME NEW p \in Proc, Finish(p)
        PROVE  OneOwner'
    BY <1>3, OwnerFrame, HandsKept, Zenon DEF Finish, ServiceTypeInv
  <1>4. ASSUME NEW p \in Proc, Drop(p)
        PROVE  OneOwner'
    BY <1>4, OwnerFrame, HandsKept, Zenon DEF Drop, ServiceTypeInv
  <1>5. ASSUME NEW p \in Proc, ConnectFails(p)
        PROVE  OneOwner'
    BY <1>5, OwnerFrame, HandsKept, Zenon DEF ConnectFails
  <1>6. ASSUME NEW p \in Proc, Swap(p)
        PROVE  OneOwner'
    <2>1. \A q \in Proc \ {p} : mine'[q] = mine[q] /\ old'[q] = old[q]
      BY <1>6, Swaps, Returns DEF Swap, ServiceTypeInv
    <2>2. \E l \in Label \ {"install", "close"} : pc' = [pc EXCEPT ![p] = l]
      BY <1>6, Swaps, Returns
    <2>3. pc[p] \notin {"install", "close"} /\ UNCHANGED <<client, have, opened, closes>>
      BY <1>6 DEF Swap
    <2> QED
      BY <2>1, <2>2, <2>3, OwnerFrame, HandsKept, Zenon
  <1>7. ASSUME NEW p \in Proc, Notify(p)
        PROVE  OneOwner'
    <2>1. \A q \in Proc \ {p} : mine'[q] = mine[q] /\ old'[q] = old[q]
      BY <1>7, Returns DEF Notify, ServiceTypeInv
    <2>2. \E l \in Label \ {"install", "close"} : pc' = [pc EXCEPT ![p] = l]
      BY <1>7, Returns DEF Notify
    <2>3. pc[p] \notin {"install", "close"} /\ UNCHANGED <<client, have, opened, closes>>
      BY <1>7 DEF Notify
    <2> QED
      BY <2>1, <2>2, <2>3, OwnerFrame, HandsKept, Zenon
  <1>8. CASE Tick
    BY <1>0, <1>8, OwnerFrame, HandsKept, Zenon DEF Tick
  <1>9. CASE UNCHANGED <<connVars, procVars>>
    BY <1>9, OwnerFrame DEF procVars, InHand
  <1>10. CASE UNCHANGED serviceVars
    BY <1>9, <1>10 DEF serviceVars
  <1> QED
    BY <1>1, <1>2, <1>3, <1>4, <1>5, <1>6, <1>7, <1>8, <1>9, <1>10, OwnerOpens,
       OwnerInstall, OwnerCloseOld, OwnerClose, ServiceSteps

\* Before the first call there is no connection.
LEMMA OwnerInit == ServiceInit => ServiceTypeInv /\ OneOwner
  <1> SUFFICES ASSUME ServiceInit PROVE ServiceTypeInv /\ OneOwner
    OBVIOUS
  <1>1. ServiceTypeInv
    <2>1. pc \in [Proc -> Label] /\ val \in [Proc -> BOOLEAN]
      BY DEF ServiceInit, Label
    <2>2. mine \in [Proc -> Nat] /\ old \in [Proc -> Nat] /\ closes \in [Conn -> Nat]
      BY DEF ServiceInit, None
    <2>3. opened \in Nat /\ opened <= MaxConn /\ client \in Nat /\ faults \in Nat
      BY ServiceAssumption DEF ServiceInit, None
    <2>4. have \in BOOLEAN /\ connected \in BOOLEAN
      BY Zenon DEF ServiceInit
    <2> QED
      BY <2>1, <2>2, <2>3, <2>4 DEF ServiceTypeInv
  <1>2. OneOwner
    BY DEF ServiceInit, OneOwner, Open, InHand, At
  <1> QED
    BY <1>1, <1>2

\* One owner for each connection is what ConnectionsOwned says of the leaks, the
\* closers and the connection that the service holds.
LEMMA OwnerOwned ==
    ASSUME ServiceTypeInv, OneOwner
    PROVE  ConnectionsOwned
  <1>1. NoLeak
    <2> SUFFICES ASSUME NEW c \in 1..opened, Open(c), ~(have /\ client = c)
                 PROVE  \E p \in Proc : InHand(p, c)
      BY DEF NoLeak, InHand
    <2> QED
      BY DEF OneOwner, ServiceTypeInv
  <1>2. ClosedOnce /\ HeldIsOpen
    BY DEF OneOwner, ClosedOnce, HeldIsOpen
  <1> QED
    BY <1>1, <1>2 DEF ConnectionsOwned

\* However many goroutines call Connect at once, and whenever Run's context ends: no
\* connection leaks, the closer gets each at most once, and the one held is open.
THEOREM ServiceConnectionsOwned == ServiceSpec => []ConnectionsOwned
  <1>1. ServiceTypeInv /\ OneOwner /\ [ServiceNext]_serviceVars
            => ServiceTypeInv' /\ OneOwner'
    BY ServiceTypeStep, OwnerStep
  <1>2. ServiceTypeInv /\ OneOwner => ConnectionsOwned
    BY OwnerOwned
  <1> QED
    BY OwnerInit, <1>1, <1>2, PTL DEF ServiceSpec
-----------------------------------------------------------------------------
(***************************************************************************)
(* Get never returns the zero value.                                       *)
(***************************************************************************)

\* No step sets connected, or sends a goroutine to read the client, before the client
\* is there.
LEMMA ClientStep ==
    ASSUME ServiceTypeInv, ClientThere, [ServiceNext]_serviceVars
    PROVE  ClientThere'
  <1> USE DEF ServiceTypeInv, ClientThere, None, At, Jump, connVars
  <1> Run \in Proc
    BY DEF Proc
  <1>1. ASSUME NEW p \in Proc, Get(p)
        PROVE  ClientThere'
    BY <1>1 DEF Get
  <1>2. ASSUME NEW p \in Proc, ReadClient(p)
        PROVE  ClientThere'
    BY <1>2 DEF ReadClient
  <1>3. ASSUME NEW p \in Proc, Finish(p)
        PROVE  ClientThere'
    BY <1>3 DEF Finish
  <1>4. ASSUME NEW p \in Proc, Drop(p)
        PROVE  ClientThere'
    BY <1>4 DEF Drop
  <1>5. ASSUME NEW p \in Proc, Opens(p)
        PROVE  ClientThere'
    BY <1>5 DEF Opens
  <1>6. ASSUME NEW p \in Proc, ConnectFails(p)
        PROVE  ClientThere'
    BY <1>6 DEF ConnectFails
  <1>7. ASSUME NEW p \in Proc, Install(p)
        PROVE  ClientThere'
    BY <1>7 DEF Install
  <1>8. ASSUME NEW p \in Proc, CloseOld(p)
        PROVE  ClientThere'
    BY <1>8 DEF CloseOld
  <1>9. ASSUME NEW p \in Proc, Swap(p)
        PROVE  ClientThere'
    BY <1>9, Swaps, Returns DEF Swap
  <1>10. ASSUME NEW p \in Proc, Notify(p)
        PROVE  ClientThere'
    BY <1>10, Returns DEF Notify
  <1>11. CASE Tick
    BY <1>11 DEF Tick
  <1>12. CASE close
    BY <1>12 DEF close
  <1>13. CASE UNCHANGED <<connVars, procVars>>
    BY <1>13 DEF procVars
  <1>14. CASE UNCHANGED serviceVars
    BY <1>14 DEF serviceVars, procVars
  <1> QED
    BY <1>1, <1>2, <1>3, <1>4, <1>5, <1>6, <1>7, <1>8, <1>9, <1>10, <1>11, <1>12,
       <1>13, <1>14, ServiceSteps, Zenon

\* Whatever calls of Connect, Drop and close run at once, the client that Get returns
\* without an error is one that the connector opened.
THEOREM ServiceNeverZeroClient == ServiceSpec => []NeverZeroClient
  <1>1. ServiceInit => ClientThere
    BY DEF ServiceInit, ClientThere, At, None
  <1>2. ServiceTypeInv /\ ClientThere /\ [ServiceNext]_serviceVars
            => ServiceTypeInv' /\ ClientThere'
    BY ServiceTypeStep, ClientStep
  <1>3. ClientThere => NeverZeroClient
    BY DEF ClientThere, NeverZeroClient, At, Proc
  <1> QED
    BY OwnerInit, <1>1, <1>2, <1>3, PTL DEF ServiceSpec
=============================================================================
