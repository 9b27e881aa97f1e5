--------------------------- MODULE PrepareProofs ----------------------------
(***************************************************************************)
(* Proofs about Preparing and the Decoders that it calls, for blocks and   *)
(* contents of any size.  The rows of a block have distinct keys, they     *)
(* leave the coins that the node's own ledger does, and every input has    *)
(* its authorization, in order and once.  Every decoder gives the exact    *)
(* amount of an output or refuses it.                                      *)
(***************************************************************************)
EXTENDS Preparing, Decoders, WellFoundedInduction, TLAPS

\* A leaf may take the solver longer than it is given by default.
USE SMTT(20), Zenon

-----------------------------------------------------------------------------
(***************************************************************************)
(* Lists, and induction and recursion on the numbers.                      *)
(***************************************************************************)

\* What is joined from two lists.
LEMMA Joined ==
    ASSUME NEW T, NEW s \in Seq(T), NEW t \in Seq(T)
    PROVE  /\ s \o t \in Seq(T) /\ Len(s \o t) = Len(s) + Len(t)
           /\ \A i \in 1..Len(s) : (s \o t)[i] = s[i]
           /\ \A i \in 1..Len(t) : (s \o t)[Len(s) + i] = t[i]
OBVIOUS

\* Lists with the same elements are the same.
LEMMA SameList ==
    ASSUME NEW T, NEW s \in Seq(T), NEW t \in Seq(T),
           Len(s) = Len(t), \A i \in 1..Len(s) : s[i] = t[i]
    PROVE  s = t
OBVIOUS

\* What is cut from a list.
LEMMA CutFrom ==
    ASSUME NEW T, NEW s \in Seq(T), NEW m \in 1..(Len(s) + 1), NEW n \in (m - 1)..Len(s)
    PROVE  /\ SubSeq(s, m, n) \in Seq(T) /\ Len(SubSeq(s, m, n)) = n - m + 1
           /\ \A i \in 1..(n - m + 1) : SubSeq(s, m, n)[i] = s[m + i - 1]
OBVIOUS

\* Nothing and everything of a list.
LEMMA CutAll ==
    ASSUME NEW T, NEW s \in Seq(T)
    PROVE  SubSeq(s, 1, 0) = <<>> /\ SubSeq(s, 1, Len(s)) = s
<1>1. SubSeq(s, 1, 0) = <<>>
  OBVIOUS
<1>2. SubSeq(s, 1, Len(s)) = s
  OBVIOUS
<1> QED BY <1>1, <1>2

\* Two cuts of a list that meet.
LEMMA CutOn ==
    ASSUME NEW T, NEW s \in Seq(T), NEW m \in 0..Len(s), NEW n \in m..Len(s)
    PROVE  SubSeq(s, 1, m) \o SubSeq(s, m + 1, n) = SubSeq(s, 1, n)
<1> DEFINE a == SubSeq(s, 1, m)
           b == SubSeq(s, m + 1, n)
           c == SubSeq(s, 1, n)
<1>0. Len(s) \in Nat /\ m \in Nat /\ n \in Nat /\ m <= n /\ m + (n - m) = n
  OBVIOUS
<1>1. a \in Seq(T) /\ Len(a) = m /\ \A i \in 1..m : a[i] = s[i]
  <2>1. 1 \in 1..(Len(s) + 1) /\ m \in (1 - 1)..Len(s)
    OBVIOUS
  <2> QED BY <2>1, CutFrom
<1>2. b \in Seq(T) /\ Len(b) = n - m /\ \A i \in 1..(n - m) : b[i] = s[m + i]
  <2>1. m + 1 \in 1..(Len(s) + 1) /\ n \in ((m + 1) - 1)..Len(s)
    OBVIOUS
  <2> QED BY <2>1, CutFrom
<1>3. c \in Seq(T) /\ Len(c) = n /\ \A i \in 1..n : c[i] = s[i]
  <2>1. 1 \in 1..(Len(s) + 1) /\ n \in (1 - 1)..Len(s)
    OBVIOUS
  <2> QED BY <2>1, CutFrom
<1> HIDE DEF a, b, c
<1>4. a \o b \in Seq(T) /\ Len(a \o b) = n
  BY <1>0, <1>1, <1>2, Joined
<1>5. ASSUME NEW i \in 1..n PROVE (a \o b)[i] = s[i]
  <2>0. i \in Nat /\ (i <= m \/ i > m)
    BY <1>0
  <2>1. CASE i <= m
    <3>1. i \in 1..m
      BY <2>0, <2>1
    <3>2. (a \o b)[i] = a[i]
      BY <1>1, <1>2, <3>1, Joined
    <3> QED BY <1>1, <3>1, <3>2
  <2>2. CASE i > m
    <3>1. i - m \in 1..(n - m) /\ m + (i - m) = i
      BY <1>0, <2>2
    <3>2. (a \o b)[m + (i - m)] = b[i - m]
      BY <1>1, <1>2, <3>1, Joined
    <3> QED BY <1>2, <3>1, <3>2, Zenon
  <2> QED BY <2>0, <2>1, <2>2, Zenon
<1>6. a \o b = c
  BY <1>3, <1>4, <1>5, SameList, Zenon
<1> QED BY <1>6 DEF a, b, c

\* A set of numbers has a least one.
LEMMA LeastOne ==
    ASSUME NEW S \in SUBSET Nat, S # {}
    PROVE  \E n \in S : \A m \in S : n <= m
<1>1. PICK n \in S : \A m \in S : <<m, n>> \notin OpToRel(<, Nat)
  BY WFMin, NatLessThanWellFounded, Zenon
<1>2. \A m \in S : ~(m < n)
  BY <1>1, Zenon DEF OpToRel
<1> QED BY <1>2

\* What is so at 0, and at a number that follows one where it is so, is so throughout.
LEMMA Induction ==
    ASSUME NEW S \in SUBSET Nat, 0 \in S, \A n \in S : n + 1 \in S
    PROVE  S = Nat
<1> DEFINE B == Nat \ S
<1> SUFFICES ASSUME B # {} PROVE FALSE
  BY Zenon
<1>1. PICK n \in B : \A m \in B : n <= m
  <2>1. B \in SUBSET Nat
    OBVIOUS
  <2> HIDE DEF B
  <2> QED BY <2>1, LeastOne
<1>2. n \in Nat /\ n # 0
  OBVIOUS
<1>3. n - 1 \in Nat /\ ~(n <= n - 1) /\ (n - 1) + 1 = n
  BY <1>2
<1>4. n - 1 \in S
  BY <1>1, <1>3
<1> QED BY <1>3, <1>4

\* The values that a loop goes through: a at first, and e[n] makes the next of the nth.
Loop(f, V, a, e) ==
    f \in [Nat -> V] /\ f[0] = a /\ \A n \in Nat : f[n + 1] = e[n][f[n]]

\* There are such values.
LEMMA Recursion ==
    ASSUME NEW V, NEW a \in V, NEW e \in [Nat -> [V -> V]]
    PROVE  \E f : Loop(f, V, a, e)
<1> DEFINE Good(n) == {g \in [0..n -> V] :
                          g[0] = a /\ \A m \in 0..(n - 1) : g[m + 1] = e[m][g[m]]}
<1>1. \A n \in Nat : Good(n) # {}
  <2> DEFINE S == {n \in Nat : Good(n) # {}}
  <2>1. 0 \in S
    <3>1. [m \in 0..0 |-> a] \in Good(0)
      OBVIOUS
    <3> QED BY <3>1
  <2>2. ASSUME NEW n \in S PROVE n + 1 \in S
    <3>1. PICK g \in Good(n) : TRUE
      OBVIOUS
    <3>2. /\ g \in [0..n -> V] /\ g[0] = a /\ n \in Nat
          /\ \A m \in 0..(n - 1) : g[m + 1] = e[m][g[m]]
      BY <3>1
    <3> DEFINE h == [m \in 0..(n + 1) |-> IF m = n + 1 THEN e[n][g[n]] ELSE g[m]]
    <3>3. h \in [0..(n + 1) -> V]
      <4>1. ASSUME NEW m \in 0..(n + 1) PROVE h[m] \in V
        <5>1. CASE m = n + 1
          BY <3>2, <5>1
        <5>2. CASE m # n + 1
          <6>1. m \in 0..n
            BY <3>2, <5>2
          <6> QED BY <3>2, <5>2, <6>1
        <5> QED BY <5>1, <5>2
      <4> QED BY <4>1
    <3>4. h[0] = a
      BY <3>2
    <3>5. ASSUME NEW m \in 0..n PROVE h[m + 1] = e[m][h[m]]
      <4>1. m # n + 1 /\ m \in 0..(n + 1) /\ m + 1 \in 0..(n + 1)
        BY <3>2
      <4>2. h[m] = g[m]
        BY <4>1
      <4>3. CASE m = n
        BY <4>1, <4>2, <4>3
      <4>4. CASE m # n
        <5>1. m \in 0..(n - 1) /\ m + 1 # n + 1
          BY <3>2, <4>4
        <5>2. h[m + 1] = g[m + 1]
          BY <4>1, <5>1
        <5> QED BY <3>2, <4>2, <5>1, <5>2
      <4> QED BY <4>3, <4>4
    <3>6. 0..((n + 1) - 1) = 0..n
      BY <3>2
    <3> HIDE DEF h
    <3>7. h \in Good(n + 1)
      BY <3>3, <3>4, <3>5, <3>6
    <3> HIDE DEF Good
    <3> QED BY <3>2, <3>7
  <2> HIDE DEF Good
  <2>3. S \in SUBSET Nat
    OBVIOUS
  <2>4. S = Nat
    <3> HIDE DEF S
    <3> QED BY <2>1, <2>2, <2>3, Induction
  <2> QED BY <2>4
<1>2. ASSUME NEW n \in Nat, NEW g \in Good(n), NEW h \in Good(n + 1)
      PROVE  g[n] = h[n]
  <2> DEFINE S == {m \in Nat : m <= n => g[m] = h[m]}
  <2>0. /\ g[0] = a /\ h[0] = a
        /\ \A m \in 0..(n - 1) : g[m + 1] = e[m][g[m]]
        /\ \A m \in 0..((n + 1) - 1) : h[m + 1] = e[m][h[m]]
    OBVIOUS
  <2> HIDE DEF Good
  <2>1. 0 \in S
    BY <2>0
  <2>2. ASSUME NEW m \in S PROVE m + 1 \in S
    <3> SUFFICES ASSUME m + 1 <= n PROVE g[m + 1] = h[m + 1]
      OBVIOUS
    <3>1. m \in 0..(n - 1) /\ m \in 0..((n + 1) - 1) /\ m <= n
      OBVIOUS
    <3> QED BY <2>0, <2>2, <3>1
  <2>3. S \in SUBSET Nat
    OBVIOUS
  <2>4. n \in S
    <3> HIDE DEF S
    <3> QED BY <2>1, <2>2, <2>3, Induction
  <2> QED BY <2>4
<1> DEFINE G(n) == CHOOSE g \in Good(n) : TRUE
           f == [n \in Nat |-> G(n)[n]]
<1>3. ASSUME NEW n \in Nat PROVE G(n) \in Good(n)
  <2> HIDE DEF Good
  <2> QED BY <1>1
<1>4. ASSUME NEW n \in Nat
      PROVE  G(n) \in [0..n -> V] /\ G(n)[0] = a
             /\ \A m \in 0..(n - 1) : G(n)[m + 1] = e[m][G(n)[m]]
  BY <1>3, Zenon
<1>5. ASSUME NEW n \in Nat PROVE G(n)[n] = G(n + 1)[n]
  <2> HIDE DEF Good, G
  <2>1. n + 1 \in Nat
    OBVIOUS
  <2> QED BY <1>2, <1>3, <2>1
<1> HIDE DEF Good, G
<1>6. f \in [Nat -> V] /\ f[0] = a
  <2>1. \A n \in Nat : G(n)[n] \in V
    BY <1>4
  <2> QED BY <1>4, <2>1
<1>7. ASSUME NEW n \in Nat PROVE f[n + 1] = e[n][f[n]]
  <2>1. n + 1 \in Nat /\ n \in 0..((n + 1) - 1)
    OBVIOUS
  <2>2. G(n + 1)[n + 1] = e[n][G(n + 1)[n]]
    BY <1>4, <2>1
  <2> QED BY <1>5, <2>1, <2>2
<1> HIDE DEF f
<1>8. Loop(f, V, a, e)
  BY <1>6, <1>7 DEF Loop
<1> QED BY <1>8

-----------------------------------------------------------------------------
(***************************************************************************)
(* Preparing: the lists that Prepare puts together, what is in them, and   *)
(* how they compare with the ledger of a node.                             *)
(***************************************************************************)

\* A function on the first numbers is a list.
LEMMA ListOf ==
    ASSUME NEW n \in Nat, NEW f, f = [i \in 1..n |-> f[i]]
    PROVE  IsList(f) /\ Len(f) = n /\ DOMAIN f = 1..n
<1> DEFINE T == Range(f)
<1>1. DOMAIN f = 1..n
  OBVIOUS
<1>2. \A i \in 1..n : f[i] \in T
  BY <1>1 DEF Range
<1> HIDE DEF T
<1>3. f \in [1..n -> T]
  BY <1>2
<1>4. f \in Seq(T) /\ Len(f) = n
  BY <1>3
<1> QED BY <1>1, <1>4 DEF IsList, T

\* What a list is.
LEMMA ListIs ==
    ASSUME NEW s, IsList(s)
    PROVE  Len(s) \in Nat /\ DOMAIN s = 1..Len(s) /\ s = [i \in 1..Len(s) |-> s[i]]
<1> DEFINE T == Range(s)
<1>1. s \in Seq(T)
  BY DEF IsList
<1> HIDE DEF T
<1> QED BY <1>1

\* The places of one list after another.
LEMMA JoinIs ==
    ASSUME NEW s, NEW t, IsList(s), IsList(t)
    PROVE  /\ IsList(s \o t) /\ Len(s \o t) = Len(s) + Len(t)
           /\ \A i \in 1..Len(s) : (s \o t)[i] = s[i]
           /\ \A i \in 1..Len(t) : (s \o t)[Len(s) + i] = t[i]
<1> DEFINE T == Range(s) \cup Range(t)
           n == Len(s) + Len(t)
<1>1. s \in Seq(T) /\ t \in Seq(T)
  <2>1. \A S, U : S \subseteq U => Seq(S) \subseteq Seq(U)
    OBVIOUS
  <2> QED BY <2>1 DEF IsList
<1> HIDE DEF T
<1>2. /\ s \o t \in Seq(T) /\ Len(s \o t) = n /\ n \in Nat
      /\ \A i \in 1..n : (s \o t)[i] = IF i <= Len(s) THEN s[i] ELSE t[i - Len(s)]
  BY <1>1
<1>3. s \o t = [i \in 1..n |-> (s \o t)[i]]
  <2>1. \A u \in Seq(T) : u = [i \in 1..Len(u) |-> u[i]]
    OBVIOUS
  <2> QED BY <1>2, <2>1, Zenon
<1>4. IsList(s \o t)
  <2> DEFINE u == s \o t
  <2>1. n \in Nat /\ u = [i \in 1..n |-> u[i]]
    BY <1>2, <1>3
  <2> HIDE DEF u, n
  <2>2. IsList(u)
    BY <2>1, ListOf
  <2> QED BY <2>2 DEF u
<1>5. Len(s) \in Nat /\ Len(t) \in Nat
  BY <1>1
<1>6. ASSUME NEW i \in 1..Len(s) PROVE (s \o t)[i] = s[i]
  BY <1>2, <1>5
<1>7. ASSUME NEW i \in 1..Len(t) PROVE (s \o t)[Len(s) + i] = t[i]
  <2>1. Len(s) + i \in 1..n /\ ~(Len(s) + i <= Len(s)) /\ (Len(s) + i) - Len(s) = i
    BY <1>5
  <2> QED BY <1>2, <2>1
<1> QED BY <1>2, <1>4, <1>6, <1>7

\* The lists that Appended goes through, one for each list of ss that it has taken.
Flat(F, ss) ==
    /\ F[0] = <<>>
    /\ \A n \in 0..(Len(ss) - 1) : F[n + 1] = F[n] \o ss[n + 1]
    /\ \A n \in 0..Len(ss) : IsList(F[n])
    /\ Appended(ss) = F[Len(ss)]

\* Appended takes one list after another.
LEMMA AppendedSteps ==
    ASSUME NEW ss, IsList(ss), \A i \in DOMAIN ss : IsList(ss[i])
    PROVE  \E F : Flat(F, ss)
<1> DEFINE N == Len(ss)
           T == UNION {Range(ss[i]) : i \in 1..N}
           V == Seq(T)
           d(n) == [s \in V |-> IF n < N THEN s \o ss[n + 1] ELSE s]
           e == [n \in Nat |-> d(n)]
           Is(r) == r = [i \in 0..N |-> IF i = 0 THEN <<>> ELSE r[i - 1] \o ss[i]]
           upTo == CHOOSE r : Is(r)
<1>0. N \in Nat /\ DOMAIN ss = 1..N /\ ss = [i \in 1..N |-> ss[i]]
  BY ListIs
<1>1. ASSUME NEW i \in 1..N PROVE ss[i] \in V
  <2>1. Range(ss[i]) \subseteq T
    OBVIOUS
  <2>2. ss[i] \in Seq(Range(ss[i]))
    BY <1>0 DEF IsList
  <2> HIDE DEF T
  <2> QED BY <2>1, <2>2
<1>2. \A s, t \in V : s \o t \in V
  <2> HIDE DEF T
  <2> QED OBVIOUS
<1>3. <<>> \in V /\ \A s \in V : <<>> \o s = s
  <2> HIDE DEF T
  <2> QED OBVIOUS
<1> HIDE DEF V, N
<1>4. e \in [Nat -> [V -> V]]
  <2>1. ASSUME NEW n \in Nat PROVE d(n) \in [V -> V]
    <3>1. n < N => n + 1 \in 1..N
      BY <1>0
    <3> QED BY <1>1, <1>2, <3>1
  <2> HIDE DEF d
  <2> QED BY <2>1
<1>5. PICK f : Loop(f, V, <<>>, e)
  <2> HIDE DEF e
  <2> QED BY <1>3, <1>4, Recursion
<1>6. /\ f \in [Nat -> V] /\ f[0] = <<>>
      /\ \A n \in Nat : n < N => f[n + 1] = f[n] \o ss[n + 1]
  BY <1>5, Zenon DEF Loop
<1> DEFINE r0 == [i \in 0..N |-> f[i]]
<1>7. Is(r0)
  <2>1. ASSUME NEW i \in 0..N PROVE f[i] = IF i = 0 THEN <<>> ELSE r0[i - 1] \o ss[i]
    <3>1. CASE i = 0
      BY <1>6, <3>1
    <3>2. CASE i # 0
      <4>1. i - 1 \in Nat /\ i - 1 < N /\ (i - 1) + 1 = i /\ i - 1 \in 0..N
        BY <1>0, <3>2
      <4>2. f[i] = f[i - 1] \o ss[i]
        BY <1>6, <4>1, Zenon
      <4> QED BY <3>2, <4>1, <4>2, Zenon
    <3> QED BY <3>1, <3>2
  <2> QED BY <2>1, Zenon
<1>8. Is(upTo)
  <2> HIDE DEF Is
  <2> QED BY <1>7
<1>9. \A i \in 0..N : upTo[i] = IF i = 0 THEN <<>> ELSE upTo[i - 1] \o ss[i]
  <2>1. \A r : Is(r) => \A i \in 0..N : r[i] = IF i = 0 THEN <<>> ELSE r[i - 1] \o ss[i]
    BY Zenon
  <2> HIDE DEF Is
  <2> QED BY <1>8, <2>1
<1>10. Appended(ss) = upTo[N]
  BY DEF Appended, N
<1> HIDE DEF Is, upTo
<1>11. \A i \in 0..N : upTo[i] = f[i]
  <2> DEFINE S == {m \in Nat : m <= N => upTo[m] = f[m]}
  <2>1. 0 \in S
    <3>1. 0 \in 0..N
      BY <1>0
    <3> QED BY <1>6, <1>9, <3>1
  <2>2. ASSUME NEW m \in S PROVE m + 1 \in S
    <3> SUFFICES ASSUME m + 1 <= N PROVE upTo[m + 1] = f[m + 1]
      OBVIOUS
    <3>1. m \in Nat /\ m < N /\ m <= N /\ m + 1 \in 0..N /\ m + 1 # 0 /\ (m + 1) - 1 = m
      BY <1>0
    <3>2. upTo[m + 1] = upTo[m] \o ss[m + 1]
      BY <1>9, <3>1, Zenon
    <3>3. f[m + 1] = f[m] \o ss[m + 1]
      BY <1>6, <3>1
    <3>4. upTo[m] = f[m]
      BY <2>2, <3>1
    <3> QED BY <3>2, <3>3, <3>4
  <2>3. S = Nat
    <3>1. S \in SUBSET Nat
      OBVIOUS
    <3> HIDE DEF S
    <3> QED BY <2>1, <2>2, <3>1, Induction
  <2> QED BY <1>0, <2>3
<1>12. Appended(ss) = f[N]
  BY <1>0, <1>10, <1>11
<1>13. ASSUME NEW n \in Nat PROVE IsList(f[n])
  <2>1. f[n] \in Seq(T)
    BY <1>6 DEF V
  <2> DEFINE x == f[n]
  <2>2. Len(x) \in Nat /\ x = [i \in 1..Len(x) |-> x[i]]
    <3> HIDE DEF T
    <3> QED BY <2>1
  <2> HIDE DEF x
  <2>3. IsList(x)
    BY <2>2, ListOf
  <2> QED BY <2>3 DEF x
<1>14. Flat(f, ss)
  <2>1. ASSUME NEW n \in 0..(N - 1) PROVE f[n + 1] = f[n] \o ss[n + 1]
    <3>1. n \in Nat /\ n < N
      BY <1>0
    <3> QED BY <1>6, <3>1
  <2>2. ASSUME NEW n \in 0..N PROVE IsList(f[n])
    <3>1. n \in Nat
      BY <1>0
    <3> QED BY <1>13, <3>1
  <2> QED BY <1>6, <1>12, <2>1, <2>2 DEF Flat, N
<1> QED BY <1>14

\* Where the elements of the first n lists of ss are in s: element k is the q[k]th of
\* list p[k], and every place of those lists has one.
Placed(p, q, s, ss, n) ==
    /\ \A k \in DOMAIN s : p[k] \in 1..n /\ q[k] \in DOMAIN ss[p[k]] /\ s[k] = ss[p[k]][q[k]]
    /\ \A k, l \in DOMAIN s : p[k] = p[l] /\ q[k] = q[l] => k = l
    /\ \A i \in 1..n : \A j \in DOMAIN ss[i] : \E k \in DOMAIN s : p[k] = i /\ q[k] = j

\* Appended keeps every element of every list, once.
LEMMA AppendedPlaces ==
    ASSUME NEW ss, IsList(ss), \A i \in DOMAIN ss : IsList(ss[i])
    PROVE  IsList(Appended(ss)) /\ \E p, q : Placed(p, q, Appended(ss), ss, Len(ss))
<1> DEFINE N == Len(ss)
<1>0. N \in Nat /\ DOMAIN ss = 1..N
  BY ListIs
<1>1. PICK F : Flat(F, ss)
  BY AppendedSteps
<1>2. /\ F[0] = <<>> /\ Appended(ss) = F[N]
      /\ \A n \in 0..(N - 1) : F[n + 1] = F[n] \o ss[n + 1]
      /\ \A n \in 0..N : IsList(F[n])
  BY <1>1, Zenon DEF Flat
<1> HIDE DEF N
<1> DEFINE S == {n \in Nat : n <= N => \E p, q : Placed(p, q, F[n], ss, n)}
<1>3. 0 \in S
  <2>1. DOMAIN F[0] = {} /\ 1..0 = {}
    BY <1>2
  <2>2. Placed(0, 0, F[0], ss, 0)
    BY <2>1 DEF Placed
  <2> HIDE DEF Placed
  <2> QED BY <2>2
<1>4. ASSUME NEW n \in S PROVE n + 1 \in S
  <2> SUFFICES ASSUME n + 1 <= N PROVE \E p, q : Placed(p, q, F[n + 1], ss, n + 1)
    OBVIOUS
  <2>1. n \in Nat /\ n <= N /\ n \in 0..N /\ n \in 0..(N - 1) /\ n + 1 \in 1..N
    BY <1>0
  <2>2. PICK p, q : Placed(p, q, F[n], ss, n)
    BY <1>4, <2>1
  <2> DEFINE s == F[n]
             t == ss[n + 1]
             u == F[n + 1]
             L == Len(s)
  <2>3. u = s \o t /\ IsList(s) /\ IsList(t)
    BY <1>0, <1>2, <2>1, Zenon
  <2> HIDE DEF s, t, u
  <2>4. /\ L \in Nat /\ Len(t) \in Nat /\ IsList(u) /\ Len(u) = L + Len(t)
        /\ DOMAIN s = 1..L /\ DOMAIN t = 1..Len(t) /\ DOMAIN u = 1..(L + Len(t))
        /\ \A i \in 1..L : u[i] = s[i]
        /\ \A i \in 1..Len(t) : u[L + i] = t[i]
    <3>1. IsList(u) /\ Len(u) = L + Len(t) /\ \A i \in 1..L : u[i] = s[i]
      BY <2>3, JoinIs
    <3>2. \A i \in 1..Len(t) : u[L + i] = t[i]
      BY <2>3, JoinIs
    <3>3. L \in Nat /\ Len(t) \in Nat /\ DOMAIN s = 1..L /\ DOMAIN t = 1..Len(t)
          /\ DOMAIN u = 1..Len(u)
      BY <2>3, <3>1, ListIs
    <3> QED BY <3>1, <3>2, <3>3
  <2> DEFINE M == Len(t)
             p2 == [k \in 1..(L + M) |-> IF k <= L THEN p[k] ELSE n + 1]
             q2 == [k \in 1..(L + M) |-> IF k <= L THEN q[k] ELSE k - L]
  <2>5. /\ \A k \in 1..L : p[k] \in 1..n /\ q[k] \in DOMAIN ss[p[k]] /\ s[k] = ss[p[k]][q[k]]
        /\ \A k, l \in 1..L : p[k] = p[l] /\ q[k] = q[l] => k = l
        /\ \A i \in 1..n : \A j \in DOMAIN ss[i] : \E k \in 1..L : p[k] = i /\ q[k] = j
    <3>1. Placed(p, q, s, ss, n) /\ DOMAIN s = 1..L
      BY <2>2, <2>4 DEF s
    <3> HIDE DEF L
    <3>2. \A k \in 1..L : p[k] \in 1..n /\ q[k] \in DOMAIN ss[p[k]] /\ s[k] = ss[p[k]][q[k]]
      BY <3>1, Zenon DEF Placed
    <3>3. \A k, l \in 1..L : p[k] = p[l] /\ q[k] = q[l] => k = l
      BY <3>1, Zenon DEF Placed
    <3>4. \A i \in 1..n : \A j \in DOMAIN ss[i] : \E k \in 1..L : p[k] = i /\ q[k] = j
      <4>1. \A i \in 1..n : \A j \in DOMAIN ss[i] : \E k \in DOMAIN s : p[k] = i /\ q[k] = j
        BY <3>1, Zenon DEF Placed
      <4> QED BY <3>1, <4>1
    <3> QED BY <3>2, <3>3, <3>4
  <2> HIDE DEF L, M
  <2>6. L \in Nat /\ M \in Nat /\ DOMAIN t = 1..M /\ DOMAIN u = 1..(L + M)
    BY <2>4 DEF M
  <2>7. ASSUME NEW k \in 1..(L + M)
        PROVE  \/ k \in 1..L /\ p2[k] = p[k] /\ q2[k] = q[k] /\ u[k] = s[k]
               \/ /\ k > L /\ p2[k] = n + 1 /\ q2[k] = k - L
                  /\ q2[k] \in DOMAIN t /\ u[k] = t[q2[k]]
    <3>1. CASE k <= L
      <4>1. k \in 1..L
        BY <2>6, <3>1
      <4> QED BY <2>4, <3>1, <4>1
    <3>2. CASE ~(k <= L)
      <4>1. k > L /\ k - L \in 1..M /\ L + (k - L) = k
        BY <2>6, <3>2
      <4>2. u[k] = t[k - L]
        BY <2>4, <4>1 DEF M
      <4>3. p2[k] = n + 1 /\ q2[k] = k - L
        BY <3>2
      <4> QED BY <2>6, <4>1, <4>2, <4>3
    <3> QED BY <3>1, <3>2
  <2>8. /\ \A k \in 1..L : k \in 1..(L + M) /\ p2[k] = p[k] /\ q2[k] = q[k]
        /\ \A j \in 1..M : L + j \in 1..(L + M) /\ p2[L + j] = n + 1 /\ q2[L + j] = j
    <3>1. ASSUME NEW k \in 1..L PROVE k \in 1..(L + M) /\ k <= L
      BY <2>6
    <3>2. ASSUME NEW j \in 1..M
          PROVE  L + j \in 1..(L + M) /\ ~(L + j <= L) /\ (L + j) - L = j
      BY <2>6
    <3> QED BY <3>1, <3>2
  <2> HIDE DEF p2, q2
  <2>9. ASSUME NEW k \in 1..(L + M)
        PROVE  p2[k] \in 1..(n + 1) /\ q2[k] \in DOMAIN ss[p2[k]] /\ u[k] = ss[p2[k]][q2[k]]
    <3>1. CASE k \in 1..L /\ p2[k] = p[k] /\ q2[k] = q[k] /\ u[k] = s[k]
      <4>1. 1..n \subseteq 1..(n + 1)
        BY <2>1
      <4> QED BY <2>5, <3>1, <4>1
    <3>2. CASE p2[k] = n + 1 /\ q2[k] \in DOMAIN t /\ u[k] = t[q2[k]]
      BY <2>1, <3>2 DEF t
    <3> QED BY <2>7, <3>1, <3>2
  <2>10. ASSUME NEW k \in 1..(L + M), NEW l \in 1..(L + M), p2[k] = p2[l], q2[k] = q2[l]
         PROVE  k = l
    <3>1. n + 1 \notin 1..n /\ L \in Nat /\ k \in Int /\ l \in Int
      BY <2>1, <2>6
    <3>2. \A i \in 1..L : p[i] # n + 1
      BY <2>5, <3>1
    <3>3. CASE k \in 1..L /\ l \in 1..L
      <4>1. p[k] = p[l] /\ q[k] = q[l]
        BY <2>8, <2>10, <3>3
      <4> QED BY <2>5, <3>3, <4>1
    <3>4. CASE k > L /\ l > L
      <4>1. k - L = l - L
        <5>1. k \notin 1..L /\ l \notin 1..L
          BY <3>1, <3>4
        <5> QED BY <2>7, <2>10, <5>1
      <4> QED BY <3>1, <4>1
    <3>5. CASE k \in 1..L /\ l > L
      <4>1. l \notin 1..L
        BY <3>1, <3>5
      <4>2. p2[l] = n + 1 /\ p2[k] = p[k]
        BY <2>7, <2>8, <3>5, <4>1
      <4> QED BY <2>10, <3>2, <3>5, <4>2
    <3>6. CASE k > L /\ l \in 1..L
      <4>1. k \notin 1..L
        BY <3>1, <3>6
      <4>2. p2[k] = n + 1 /\ p2[l] = p[l]
        BY <2>7, <2>8, <3>6, <4>1
      <4> QED BY <2>10, <3>2, <3>6, <4>2, Zenon
    <3>7. (k \in 1..L \/ k > L) /\ (l \in 1..L \/ l > L)
      BY <2>6
    <3> QED BY <3>3, <3>4, <3>5, <3>6, <3>7
  <2>11. ASSUME NEW i \in 1..(n + 1), NEW j \in DOMAIN ss[i]
         PROVE  \E k \in 1..(L + M) : p2[k] = i /\ q2[k] = j
    <3>1. CASE i \in 1..n
      <4>1. PICK k \in 1..L : p[k] = i /\ q[k] = j
        BY <2>5, <3>1
      <4> QED BY <2>8, <4>1
    <3>2. CASE i = n + 1
      <4>1. j \in 1..M
        BY <2>6, <3>2 DEF t
      <4> QED BY <2>8, <3>2, <4>1
    <3>3. i \in 1..n \/ i = n + 1
      BY <2>1
    <3> QED BY <3>1, <3>2, <3>3
  <2>12. Placed(p2, q2, u, ss, n + 1)
    <3>1. DOMAIN u = 1..(L + M)
      BY <2>6
    <3>2. \A k \in DOMAIN u : /\ p2[k] \in 1..(n + 1) /\ q2[k] \in DOMAIN ss[p2[k]]
                             /\ u[k] = ss[p2[k]][q2[k]]
      BY <2>9, <3>1, Zenon
    <3>3. \A k, l \in DOMAIN u : p2[k] = p2[l] /\ q2[k] = q2[l] => k = l
      BY <2>10, <3>1, Zenon
    <3>4. \A i \in 1..(n + 1) : \A j \in DOMAIN ss[i] :
             \E k \in DOMAIN u : p2[k] = i /\ q2[k] = j
      BY <2>11, <3>1
    <3> QED BY <3>2, <3>3, <3>4, Zenon DEF Placed
  <2> HIDE DEF Placed
  <2> QED BY <2>12 DEF u
<1>5. S \in SUBSET Nat
  OBVIOUS
<1>6. N \in S
  <2> HIDE DEF S
  <2> QED BY <1>0, <1>3, <1>4, <1>5, Induction
<1>7. N <= N /\ N \in 0..N
  BY <1>0
<1>8. \E p, q : Placed(p, q, F[N], ss, N)
  BY <1>6, <1>7
<1> HIDE DEF Placed
<1> QED BY <1>2, <1>7, <1>8 DEF N

\* The elements of one list after another are those of the two.
LEMMA JoinRange ==
    ASSUME NEW s, NEW t, IsList(s), IsList(t)
    PROVE  Range(s \o t) = Range(s) \cup Range(t)
<1> DEFINE u == s \o t
           L == Len(s)
           M == Len(t)
<1>1. /\ L \in Nat /\ M \in Nat
      /\ DOMAIN s = 1..L /\ DOMAIN t = 1..M /\ DOMAIN u = 1..(L + M)
      /\ \A i \in 1..L : u[i] = s[i]
      /\ \A i \in 1..M : u[L + i] = t[i]
  <2>1. IsList(u) /\ Len(u) = L + M
    BY JoinIs
  <2>2. DOMAIN u = 1..Len(u)
    <3> HIDE DEF u
    <3> QED BY <2>1, ListIs
  <2>3. L \in Nat /\ M \in Nat /\ DOMAIN s = 1..L /\ DOMAIN t = 1..M
    BY ListIs
  <2> QED BY <2>1, <2>2, <2>3, JoinIs
<1> HIDE DEF u, L, M
<1>2. ASSUME NEW x \in Range(u) PROVE x \in Range(s) \cup Range(t)
  <2>1. PICK k \in 1..(L + M) : x = u[k]
    BY <1>1 DEF Range
  <2>2. k \in 1..L \/ (k - L \in 1..M /\ L + (k - L) = k)
    BY <1>1
  <2> QED BY <1>1, <2>1, <2>2, Zenon DEF Range
<1>3. ASSUME NEW x \in Range(s) PROVE x \in Range(u)
  <2>1. PICK k \in 1..L : x = s[k]
    BY <1>1 DEF Range
  <2>2. k \in 1..(L + M)
    BY <1>1
  <2> QED BY <1>1, <2>1, <2>2 DEF Range
<1>4. ASSUME NEW x \in Range(t) PROVE x \in Range(u)
  <2>1. PICK k \in 1..M : x = t[k]
    BY <1>1 DEF Range
  <2>2. L + k \in 1..(L + M)
    BY <1>1
  <2> QED BY <1>1, <2>1, <2>2 DEF Range
<1>5. Range(u) = Range(s) \cup Range(t)
  BY <1>2, <1>3, <1>4
<1> QED BY <1>5 DEF u

\* K tells the elements of a list apart.
Told(s, K) == \A i, j \in DOMAIN s : i # j => K[s[i]] # K[s[j]]

\* Of two lists that K tells apart, one after the other.
LEMMA JoinTold ==
    ASSUME NEW s, NEW t, NEW K, IsList(s), IsList(t), Told(s, K), Told(t, K),
           \A x \in Range(s), y \in Range(t) : K[x] # K[y]
    PROVE  Told(s \o t, K)
<1> DEFINE u == s \o t
           L == Len(s)
           M == Len(t)
<1>1. /\ L \in Nat /\ M \in Nat
      /\ DOMAIN s = 1..L /\ DOMAIN t = 1..M /\ DOMAIN u = 1..(L + M)
      /\ \A i \in 1..L : u[i] = s[i]
      /\ \A i \in 1..M : u[L + i] = t[i]
  <2>1. IsList(u) /\ Len(u) = L + M
    BY JoinIs
  <2>2. DOMAIN u = 1..Len(u)
    <3> HIDE DEF u
    <3> QED BY <2>1, ListIs
  <2>3. L \in Nat /\ M \in Nat /\ DOMAIN s = 1..L /\ DOMAIN t = 1..M
    BY ListIs
  <2> QED BY <2>1, <2>2, <2>3, JoinIs
<1> HIDE DEF u, L, M
<1>2. ASSUME NEW i \in 1..(L + M), NEW j \in 1..(L + M), i # j PROVE K[u[i]] # K[u[j]]
  <2>1. \A k \in 1..(L + M) : k \in 1..L \/ (k - L \in 1..M /\ L + (k - L) = k)
    BY <1>1
  <2>2. CASE i \in 1..L /\ j \in 1..L
    BY <1>1, <1>2, <2>2 DEF Told
  <2>3. CASE i \in 1..L /\ j - L \in 1..M /\ L + (j - L) = j
    <3>1. u[i] = s[i] /\ u[j] = t[j - L]
      BY <1>1, <2>3
    <3>2. s[i] \in Range(s) /\ t[j - L] \in Range(t)
      BY <1>1, <2>3 DEF Range
    <3> QED BY <3>1, <3>2
  <2>4. CASE j \in 1..L /\ i - L \in 1..M /\ L + (i - L) = i
    <3>1. u[j] = s[j] /\ u[i] = t[i - L]
      BY <1>1, <2>4
    <3>2. s[j] \in Range(s) /\ t[i - L] \in Range(t)
      BY <1>1, <2>4 DEF Range
    <3> QED BY <3>1, <3>2
  <2>5. CASE /\ i - L \in 1..M /\ L + (i - L) = i
             /\ j - L \in 1..M /\ L + (j - L) = j
    <3>1. u[j] = t[j - L] /\ u[i] = t[i - L] /\ i - L # j - L
      BY <1>1, <1>2, <2>5
    <3> QED BY <1>1, <2>5, <3>1 DEF Told
  <2> QED BY <2>1, <2>2, <2>3, <2>4, <2>5
<1>3. Told(u, K)
  BY <1>1, <1>2 DEF Told
<1> QED BY <1>3 DEF u

-----------------------------------------------------------------------------
\* The rows of the transactions of a body: of each, its creates and its spends.
CreatesOf(block, index) ==
    [i \in DOMAIN block.body.transactions |-> BodyRows(block, index)[i].creates]
SpendsOf(block, index) ==
    [i \in DOMAIN block.body.transactions |-> BodyRows(block, index)[i].spends]

\* What they are: nothing for a skipped transaction, and otherwise a row for each
\* output and each input.
LEMMA BodyLists ==
    ASSUME NEW r \in RawBlocks, Prepares(r.block, r.index)
    PROVE  LET body == r.block.body
               txs == r.index.txs
               N == Len(txs)
               C == CreatesOf(r.block, r.index)
               S == SpendsOf(r.block, r.index)
           IN  /\ N \in Nat /\ DOMAIN txs = 1..N /\ Len(C) = N /\ Len(S) = N
               /\ DOMAIN C = 1..N /\ DOMAIN S = 1..N /\ IsList(C) /\ IsList(S)
               /\ \A i \in 1..N : IsList(C[i]) /\ IsList(S[i])
               /\ \A i \in 1..N : txs[i].skipped => C[i] = <<>> /\ S[i] = <<>>
               /\ \A i \in 1..N : ~txs[i].skipped =>
                     /\ DOMAIN C[i] = DOMAIN body.transactions[i].outputs
                     /\ DOMAIN S[i] = DOMAIN body.transactions[i].inputs
                     /\ \A j \in DOMAIN C[i] :
                           C[i][j].outpoint = OutPointOf(KindRegular, txs[i].txid, j - 1)
                     /\ \A j \in DOMAIN S[i] :
                           S[i][j] = Spend(body.transactions[i].inputs[j], txs[i].txid,
                                           SpendRegular, j - 1)
<1> DEFINE body == r.block.body
           txs == r.index.txs
           N == Len(txs)
           C == CreatesOf(r.block, r.index)
           S == SpendsOf(r.block, r.index)
           B == BodyRows(r.block, r.index)
<1>1. /\ IsList(txs) /\ IsList(body.transactions) /\ N = Len(body.transactions)
      /\ \A i \in DOMAIN body.transactions :
            IsList(body.transactions[i].inputs) /\ IsList(body.transactions[i].outputs)
  BY RawBlocksAssumption DEF Prepares
<1>2. N \in Nat /\ DOMAIN txs = 1..N /\ DOMAIN body.transactions = 1..N
  BY <1>1, ListIs
<1>3. ASSUME NEW i \in 1..N
      PROVE  B[i] = IF txs[i].skipped THEN [spends |-> <<>>, creates |-> <<>>]
                    ELSE prepareTx(txs[i].txid, body.transactions[i])
  BY <1>2 DEF BodyRows
<1>4. C = [i \in 1..N |-> B[i].creates] /\ S = [i \in 1..N |-> B[i].spends]
  BY <1>2 DEF CreatesOf, SpendsOf
<1>5. /\ IsList(C) /\ Len(C) = N /\ DOMAIN C = 1..N
      /\ IsList(S) /\ Len(S) = N /\ DOMAIN S = 1..N
  <2>1. C = [i \in 1..N |-> C[i]] /\ S = [i \in 1..N |-> S[i]]
    BY <1>4
  <2> HIDE DEF C, S, N
  <2> QED BY <1>2, <2>1, ListOf
<1>6. IsList(<<>>)
  <2>1. \A T : <<>> \in Seq(T)
    OBVIOUS
  <2> QED BY <2>1 DEF IsList
<1> HIDE DEF C, S, B, N, body, txs
<1>7. ASSUME NEW i \in 1..N, txs[i].skipped PROVE C[i] = <<>> /\ S[i] = <<>>
  BY <1>3, <1>4, <1>7
<1>8. ASSUME NEW i \in 1..N, ~txs[i].skipped
      PROVE  /\ IsList(C[i]) /\ IsList(S[i])
             /\ DOMAIN C[i] = DOMAIN body.transactions[i].outputs
             /\ DOMAIN S[i] = DOMAIN body.transactions[i].inputs
             /\ \A j \in DOMAIN C[i] :
                   C[i][j].outpoint = OutPointOf(KindRegular, txs[i].txid, j - 1)
             /\ \A j \in DOMAIN S[i] :
                   S[i][j] = Spend(body.transactions[i].inputs[j], txs[i].txid,
                                   SpendRegular, j - 1)
  <2> DEFINE outs == body.transactions[i].outputs
             ins == body.transactions[i].inputs
             t == txs[i].txid
             c == C[i]
             s == S[i]
  <2>1. c = Numbered(KindRegular, t, outs)
        /\ s = [j \in DOMAIN ins |-> Spend(ins[j], t, SpendRegular, j - 1)]
    <3>1. B[i] = prepareTx(t, body.transactions[i])
      BY <1>3, <1>8
    <3>2. c = B[i].creates /\ s = B[i].spends
      BY <1>4
    <3>3. prepareTx(t, body.transactions[i]).creates = Numbered(KindRegular, t, outs)
      BY DEF prepareTx
    <3>4. prepareTx(t, body.transactions[i]).spends
             = [j \in DOMAIN ins |-> Spend(ins[j], t, SpendRegular, j - 1)]
      BY DEF prepareTx
    <3> HIDE DEF c, s, outs, ins, t
    <3> QED BY <3>1, <3>2, <3>3, <3>4
  <2>2. IsList(outs) /\ IsList(ins)
    BY <1>1, <1>2
  <2> HIDE DEF outs, ins, t, c, s
  <2>3. Len(outs) \in Nat /\ DOMAIN outs = 1..Len(outs) /\ Len(ins) \in Nat /\ DOMAIN ins = 1..Len(ins)
    BY <2>2, ListIs
  <2>4. /\ c = [j \in 1..Len(outs) |-> newOutput(OutPointOf(KindRegular, t, j - 1), outs[j])]
        /\ s = [j \in 1..Len(ins) |-> Spend(ins[j], t, SpendRegular, j - 1)]
    BY <2>1, <2>3 DEF Numbered
  <2>5. c = [j \in 1..Len(outs) |-> c[j]] /\ s = [j \in 1..Len(ins) |-> s[j]]
    BY <2>4
  <2>6. IsList(c) /\ IsList(s)
    BY <2>3, <2>5, ListOf
  <2>7. \A j \in 1..Len(outs) : c[j].outpoint = OutPointOf(KindRegular, t, j - 1)
    <3>1. \A o, x : newOutput(o, x).outpoint = o
      BY DEF newOutput
    <3> QED BY <2>4, <3>1
  <2>8. DOMAIN c = DOMAIN outs /\ DOMAIN s = DOMAIN ins
    BY <2>3, <2>4
  <2>9. \A j \in DOMAIN c : c[j].outpoint = OutPointOf(KindRegular, t, j - 1)
    BY <2>3, <2>7, <2>8
  <2>10. \A j \in DOMAIN s : s[j] = Spend(ins[j], t, SpendRegular, j - 1)
    BY <2>1
  <2> QED BY <2>6, <2>8, <2>9, <2>10 DEF c, s, outs, ins, t
<1>9. \A i \in 1..N : IsList(C[i]) /\ IsList(S[i])
  BY <1>6, <1>7, <1>8
<1> QED BY <1>2, <1>5, <1>7, <1>8, <1>9 DEF C, S, N, body, txs

\* The lists that Prepare puts one after the other.
LEMMA PreparedLists ==
    ASSUME NEW r \in RawBlocks, Prepares(r.block, r.index)
    PROVE  LET b == r.block
               x == r.index
               P == Prepared(Hash, b, x)
               A == Numbered(KindCoinbase, CoinbaseSource(b), b.body.coinbase.outputs)
               FC == Appended(CreatesOf(b, x))
               FS == Appended(SpendsOf(b, x))
               D == Named(x.deposits)
               M == Named(x.market_creates)
               W == BundleSpendRows(x.bundle_spends)
               G == MarketDeleteRows(x.market_deletes, Hash)
           IN  /\ P.creates = ((A \o FC) \o D) \o M /\ P.spends = (FS \o W) \o G
               /\ IsList(A) /\ IsList(FC) /\ IsList(D) /\ IsList(M)
               /\ IsList(FS) /\ IsList(W) /\ IsList(G)
               /\ DOMAIN A = DOMAIN b.body.coinbase.outputs
               /\ \A i \in DOMAIN A : A[i].outpoint = OutPointOf(KindCoinbase, CoinbaseSource(b), i - 1)
               /\ DOMAIN D = DOMAIN x.deposits
               /\ \A i \in DOMAIN D : D[i].outpoint = x.deposits[i].outpoint
               /\ DOMAIN M = DOMAIN x.market_creates
               /\ \A i \in DOMAIN M : M[i].outpoint = x.market_creates[i].outpoint
<1> DEFINE b == r.block
           x == r.index
           P == Prepared(Hash, b, x)
           A == Numbered(KindCoinbase, CoinbaseSource(b), b.body.coinbase.outputs)
           FC == Appended(CreatesOf(b, x))
           FS == Appended(SpendsOf(b, x))
           D == Named(x.deposits)
           M == Named(x.market_creates)
           W == BundleSpendRows(x.bundle_spends)
           G == MarketDeleteRows(x.market_deletes, Hash)
<1>1. /\ IsList(b.body.coinbase.outputs) /\ IsList(x.deposits) /\ IsList(x.market_creates)
      /\ IsList(x.bundle_spends) /\ IsList(x.market_deletes)
  BY RawBlocksAssumption
<1>2. IsList(FC) /\ IsList(FS)
  <2>1. /\ IsList(CreatesOf(b, x)) /\ IsList(SpendsOf(b, x))
        /\ \A i \in DOMAIN CreatesOf(b, x) : IsList(CreatesOf(b, x)[i])
        /\ \A i \in DOMAIN SpendsOf(b, x) : IsList(SpendsOf(b, x)[i])
    BY BodyLists
  <2> HIDE DEF b, x
  <2> QED BY <2>1, AppendedPlaces
<1>3. P.creates = ((A \o FC) \o D) \o M /\ P.spends = (FS \o W) \o G
  <2>1. P = PrepareBlock(Hash, b, x)
    BY DEF Prepared
  <2>2. DOMAIN BodyRows(b, x) = DOMAIN b.body.transactions
    BY DEF BodyRows
  <2>3. PrepareBlock(Hash, b, x).creates = ((A \o FC) \o D) \o M
    BY <2>2, Zenon DEF PrepareBlock, CreatesOf
  <2>4. PrepareBlock(Hash, b, x).spends = (FS \o W) \o G
    BY <2>2 DEF PrepareBlock, SpendsOf
  <2> HIDE DEF P
  <2> QED BY <2>1, <2>3, <2>4
<1>4. \A o, v : newOutput(o, v).outpoint = o
  BY DEF newOutput
<1>5. ASSUME NEW s, IsList(s), NEW f, DOMAIN f = DOMAIN s, f = [i \in DOMAIN s |-> f[i]]
      PROVE  IsList(f)
  <2>1. Len(s) \in Nat /\ DOMAIN s = 1..Len(s)
    BY <1>5, ListIs
  <2>2. f = [i \in 1..Len(s) |-> f[i]]
    BY <1>5, <2>1
  <2> QED BY <2>1, <2>2, ListOf
<1>6. /\ IsList(A) /\ DOMAIN A = DOMAIN b.body.coinbase.outputs
      /\ \A i \in DOMAIN A : A[i].outpoint = OutPointOf(KindCoinbase, CoinbaseSource(b), i - 1)
  <2> DEFINE s == b.body.coinbase.outputs
             k == CoinbaseSource(b)
  <2>1. A = [i \in DOMAIN s |-> newOutput(OutPointOf(KindCoinbase, k, i - 1), s[i])]
    BY DEF Numbered
  <2> HIDE DEF A, s, k
  <2>2. /\ DOMAIN A = DOMAIN s /\ A = [i \in DOMAIN s |-> A[i]]
        /\ \A i \in DOMAIN A : A[i].outpoint = OutPointOf(KindCoinbase, k, i - 1)
    BY <1>4, <2>1
  <2>3. IsList(s)
    BY <1>1 DEF s
  <2> QED BY <1>5, <2>2, <2>3 DEF s, k
<1>7. ASSUME NEW s, IsList(s)
      PROVE  /\ IsList(Named(s)) /\ DOMAIN Named(s) = DOMAIN s
             /\ \A i \in DOMAIN Named(s) : Named(s)[i].outpoint = s[i].outpoint
  <2> DEFINE f == Named(s)
  <2>1. f = [i \in DOMAIN s |-> newOutput(s[i].outpoint, s[i].output)]
    BY DEF Named
  <2> HIDE DEF f
  <2>2. /\ DOMAIN f = DOMAIN s /\ f = [i \in DOMAIN s |-> f[i]]
        /\ \A i \in DOMAIN f : f[i].outpoint = s[i].outpoint
    BY <1>4, <2>1
  <2>3. IsList(f)
    BY <1>5, <1>7, <2>2
  <2> QED BY <2>2, <2>3 DEF f
<1>8. IsList(W)
  <2>1. DOMAIN W = DOMAIN x.bundle_spends /\ W = [i \in DOMAIN x.bundle_spends |-> W[i]]
    BY DEF BundleSpendRows
  <2> HIDE DEF W
  <2> QED BY <1>1, <1>5, <2>1
<1>9. IsList(G)
  <2>1. DOMAIN G = DOMAIN x.market_deletes /\ G = [i \in DOMAIN x.market_deletes |-> G[i]]
    BY DEF MarketDeleteRows
  <2> HIDE DEF G
  <2> QED BY <1>1, <1>5, <2>1
<1>10. /\ IsList(D) /\ DOMAIN D = DOMAIN x.deposits
       /\ \A i \in DOMAIN D : D[i].outpoint = x.deposits[i].outpoint
  BY <1>1, <1>7
<1>11. /\ IsList(M) /\ DOMAIN M = DOMAIN x.market_creates
       /\ \A i \in DOMAIN M : M[i].outpoint = x.market_creates[i].outpoint
  BY <1>1, <1>7
<1> HIDE DEF A, FC, FS, D, M, W, G, P
<1> QED BY <1>2, <1>3, <1>6, <1>8, <1>9, <1>10, <1>11, Zenon DEF A, FC, FS, D, M, W, G, P

\* The coins of a body are told apart by their outpoints, and its spends by what a row
\* records of them.
LEMMA BodyTold ==
    ASSUME NEW r \in RawBlocks, Prepares(r.block, r.index), NamesApart(r.index)
    PROVE  LET C == Appended(CreatesOf(r.block, r.index))
               S == Appended(SpendsOf(r.block, r.index))
           IN  /\ \A k \in DOMAIN C : C[k].outpoint.kind = KindRegular
               /\ \A k, l \in DOMAIN C : k # l => C[k].outpoint # C[l].outpoint
               /\ \A k \in DOMAIN S : S[k].kind = SpendRegular
               /\ \A k, l \in DOMAIN S : k # l => S[k].source # S[l].source \/ S[k].vin # S[l].vin
<1> DEFINE txs == r.index.txs
           N == Len(txs)
           cs == CreatesOf(r.block, r.index)
           ds == SpendsOf(r.block, r.index)
           C == Appended(cs)
           S == Appended(ds)
<1>1. /\ N \in Nat /\ DOMAIN txs = 1..N /\ Len(cs) = N /\ Len(ds) = N
      /\ DOMAIN cs = 1..N /\ DOMAIN ds = 1..N /\ IsList(cs) /\ IsList(ds)
      /\ \A i \in 1..N : IsList(cs[i]) /\ IsList(ds[i])
      /\ \A i \in 1..N : txs[i].skipped => cs[i] = <<>> /\ ds[i] = <<>>
  BY BodyLists, Zenon
<1>2. ASSUME NEW i \in 1..N, NEW j \in DOMAIN cs[i]
      PROVE  j \in Int /\ cs[i][j].outpoint = OutPointOf(KindRegular, txs[i].txid, j - 1)
  <2>1. ~txs[i].skipped
    <3>1. DOMAIN <<>> = {}
      OBVIOUS
    <3> HIDE DEF cs, ds, txs, N
    <3> QED BY <1>1, <1>2, <3>1
  <2>2. cs[i][j].outpoint = OutPointOf(KindRegular, txs[i].txid, j - 1)
    BY <1>2, <2>1, BodyLists
  <2>3. j \in Int
    <3> DEFINE u == cs[i]
    <3>1. IsList(u) /\ j \in DOMAIN u
      BY <1>1, <1>2
    <3> HIDE DEF u
    <3>2. j \in 1..Len(u) /\ Len(u) \in Nat
      BY <3>1, ListIs
    <3> QED BY <3>2
  <2> QED BY <2>2, <2>3
<1>3. ASSUME NEW i \in 1..N, NEW j \in DOMAIN ds[i]
      PROVE  /\ j \in Int /\ ds[i][j].source = txs[i].txid /\ ds[i][j].vin = j - 1
             /\ ds[i][j].kind = SpendRegular
  <2>1. ~txs[i].skipped
    <3>1. DOMAIN <<>> = {}
      OBVIOUS
    <3> HIDE DEF cs, ds, txs, N
    <3> QED BY <1>1, <1>3, <3>1
  <2>2. ds[i][j] = Spend(r.block.body.transactions[i].inputs[j], txs[i].txid, SpendRegular, j - 1)
    BY <1>3, <2>1, BodyLists
  <2>3. j \in Int
    <3> DEFINE u == ds[i]
    <3>1. IsList(u) /\ j \in DOMAIN u
      BY <1>1, <1>3
    <3> HIDE DEF u
    <3>2. j \in 1..Len(u) /\ Len(u) \in Nat
      BY <3>1, ListIs
    <3> QED BY <3>2
  <2> HIDE DEF cs, ds, txs
  <2> QED BY <2>2, <2>3 DEF Spend
<1>4. \A i, j \in 1..N : txs[i].txid = txs[j].txid => i = j
  BY <1>1 DEF NamesApart
<1> HIDE DEF cs, ds, txs, N
<1>5. PICK p, q : Placed(p, q, C, cs, N)
  BY <1>1, AppendedPlaces
<1>6. PICK v, w : Placed(v, w, S, ds, N)
  BY <1>1, AppendedPlaces
<1> HIDE DEF C, S
<1>7. ASSUME NEW k \in DOMAIN C
      PROVE  /\ p[k] \in 1..N /\ q[k] \in Int
             /\ C[k].outpoint = OutPointOf(KindRegular, txs[p[k]].txid, q[k] - 1)
  <2>1. p[k] \in 1..N /\ q[k] \in DOMAIN cs[p[k]] /\ C[k] = cs[p[k]][q[k]]
    BY <1>5, <1>7, Zenon DEF Placed
  <2> QED BY <1>2, <2>1
<1>8. ASSUME NEW k \in DOMAIN S
      PROVE  /\ v[k] \in 1..N /\ w[k] \in Int /\ S[k].kind = SpendRegular
             /\ S[k].source = txs[v[k]].txid /\ S[k].vin = w[k] - 1
  <2>1. v[k] \in 1..N /\ w[k] \in DOMAIN ds[v[k]] /\ S[k] = ds[v[k]][w[k]]
    BY <1>6, <1>8, Zenon DEF Placed
  <2> QED BY <1>3, <2>1
<1>0. \A a, b, c : LET o == OutPointOf(a, b, c) IN o.kind = a /\ o.source = b /\ o.vout = c
  BY DEF OutPointOf
<1>9. ASSUME NEW k \in DOMAIN C, NEW l \in DOMAIN C, C[k].outpoint = C[l].outpoint PROVE k = l
  <2>1. txs[p[k]].txid = txs[p[l]].txid /\ q[k] - 1 = q[l] - 1
    BY <1>0, <1>7, <1>9
  <2>2. p[k] = p[l] /\ q[k] = q[l]
    BY <1>4, <1>7, <2>1
  <2> QED BY <1>5, <2>2, Zenon DEF Placed
<1>10. ASSUME NEW k \in DOMAIN S, NEW l \in DOMAIN S, S[k].source = S[l].source, S[k].vin = S[l].vin
       PROVE  k = l
  <2>1. txs[v[k]].txid = txs[v[l]].txid /\ w[k] - 1 = w[l] - 1
    BY <1>8, <1>10
  <2>2. v[k] = v[l] /\ w[k] = w[l]
    BY <1>4, <1>8, <2>1
  <2> QED BY <1>6, <2>2, Zenon DEF Placed
<1>11. \A k \in DOMAIN C : C[k].outpoint.kind = KindRegular
  BY <1>0, <1>7
<1> QED BY <1>8, <1>9, <1>10, <1>11 DEF C, S, cs, ds

\* The creates of a block are told apart by their outpoints.
LEMMA CreatesTold ==
    ASSUME NEW r \in RawBlocks, Prepares(r.block, r.index), NamesApart(r.index)
    PROVE  LET s == Prepared(Hash, r.block, r.index).creates IN
           \A i, j \in DOMAIN s : i # j => s[i].outpoint # s[j].outpoint
<1> DEFINE b == r.block
           x == r.index
           A == Numbered(KindCoinbase, CoinbaseSource(b), b.body.coinbase.outputs)
           F == Appended(CreatesOf(b, x))
           D == Named(x.deposits)
           M == Named(x.market_creates)
           P == Prepared(Hash, b, x)
           K == [c \in Range(P.creates) |-> c.outpoint]
<1>1. /\ P.creates = ((A \o F) \o D) \o M
      /\ IsList(A) /\ IsList(F) /\ IsList(D) /\ IsList(M)
  BY PreparedLists, Zenon
<1>2. \A i \in DOMAIN A : A[i].outpoint = OutPointOf(KindCoinbase, CoinbaseSource(b), i - 1)
  BY PreparedLists
<1>3. DOMAIN D = DOMAIN x.deposits /\ \A i \in DOMAIN D : D[i].outpoint = x.deposits[i].outpoint
  BY PreparedLists
<1>4. /\ DOMAIN M = DOMAIN x.market_creates
      /\ \A i \in DOMAIN M : M[i].outpoint = x.market_creates[i].outpoint
  BY PreparedLists
<1>5. /\ \A k \in DOMAIN F : F[k].outpoint.kind = KindRegular
      /\ \A k, l \in DOMAIN F : k # l => F[k].outpoint # F[l].outpoint
  BY BodyTold, Zenon
<1> DEFINE src == CoinbaseSource(b)
<1> HIDE DEF A, F, D, M, P, src
<1>6. /\ \A i \in DOMAIN A : A[i].outpoint.kind = 1
      /\ \A i, j \in DOMAIN A : i # j => A[i].outpoint # A[j].outpoint
  <2>1. \A a, b1, c : LET o == OutPointOf(a, b1, c) IN o.kind = a /\ o.vout = c
    BY DEF OutPointOf
  <2>2. \A i \in DOMAIN A : i \in Int
    <3>1. DOMAIN A = 1..Len(A) /\ Len(A) \in Nat
      BY <1>1, ListIs
    <3> QED BY <3>1
  <2>3. \A i \in DOMAIN A : A[i].outpoint.kind = 1 /\ A[i].outpoint.vout = i - 1
    BY <1>2, <2>1 DEF KindCoinbase
  <2>4. \A i, j \in Int : i - 1 = j - 1 => i = j
    OBVIOUS
  <2> QED BY <2>2, <2>3, <2>4
<1>7. \A k \in DOMAIN F : F[k].outpoint.kind = 0
  BY <1>5 DEF KindRegular
<1>8. /\ \A i \in DOMAIN D : D[i].outpoint.kind = 2
      /\ \A i, j \in DOMAIN D : i # j => D[i].outpoint # D[j].outpoint
  <2>1. \A i \in DOMAIN x.deposits : x.deposits[i].outpoint.kind = 2
    BY DEF Prepares, KindDeposit
  <2>2. \A i, j \in DOMAIN x.deposits : i # j => x.deposits[i].outpoint # x.deposits[j].outpoint
    BY DEF NamesApart
  <2> QED BY <1>3, <2>1, <2>2
<1>9. /\ \A i \in DOMAIN M : M[i].outpoint.kind \in {3, 4}
      /\ \A i, j \in DOMAIN M : i # j => M[i].outpoint # M[j].outpoint
  <2>1. \A i \in DOMAIN x.market_creates : x.market_creates[i].outpoint.kind \in {3, 4}
    BY DEF NamesApart, KindMarketFunds, KindPayout
  <2>2. \A i, j \in DOMAIN x.market_creates :
           i # j => x.market_creates[i].outpoint # x.market_creates[j].outpoint
    BY DEF NamesApart
  <2> QED BY <1>4, <2>1, <2>2
<1> DEFINE AF == A \o F
           AFD == AF \o D
<1>10. /\ IsList(AF) /\ Range(AF) = Range(A) \cup Range(F)
  BY <1>1, JoinIs, JoinRange
<1> HIDE DEF AF
<1>11. IsList(AFD) /\ Range(AFD) = Range(AF) \cup Range(D)
  BY <1>1, <1>10, JoinIs, JoinRange
<1> HIDE DEF AFD
<1>12. Range(P.creates) = Range(AFD) \cup Range(M) /\ P.creates = AFD \o M
  BY <1>1, <1>11, JoinRange DEF AFD, AF
<1>13. Range(P.creates) = ((Range(A) \cup Range(F)) \cup Range(D)) \cup Range(M)
  BY <1>10, <1>11, <1>12
<1>14. \A c \in Range(P.creates) : K[c] = c.outpoint
  OBVIOUS
<1> HIDE DEF K
<1>15. /\ \A c \in Range(A) : K[c].kind = 1
       /\ \A c \in Range(F) : K[c].kind = 0
       /\ \A c \in Range(D) : K[c].kind = 2
       /\ \A c \in Range(M) : K[c].kind \in {3, 4}
  <2>1. ASSUME NEW s \in {A, F, D, M}, NEW c \in Range(s)
        PROVE  K[c] = c.outpoint /\ \E i \in DOMAIN s : c = s[i]
    <3>1. c \in Range(P.creates)
      BY <1>13
    <3>2. \E i \in DOMAIN s : c = s[i]
      BY DEF Range
    <3> QED BY <1>14, <3>1, <3>2
  <2> QED BY <1>6, <1>7, <1>8, <1>9, <2>1
<1>16. Told(A, K) /\ Told(F, K) /\ Told(D, K) /\ Told(M, K)
  <2>1. ASSUME NEW s \in {A, F, D, M}, \A i, j \in DOMAIN s : i # j => s[i].outpoint # s[j].outpoint
        PROVE  Told(s, K)
    <3>1. \A i \in DOMAIN s : s[i] \in Range(P.creates)
      BY <1>13 DEF Range
    <3>2. \A i \in DOMAIN s : K[s[i]] = s[i].outpoint
      BY <1>14, <3>1
    <3> QED BY <2>1, <3>2 DEF Told
  <2> QED BY <1>5, <1>6, <1>8, <1>9, <2>1
<1>17. Told(AF, K)
  <2>1. \A c \in Range(A), d \in Range(F) : K[c] # K[d]
    BY <1>15
  <2> QED BY <1>1, <1>16, <2>1, JoinTold DEF AF
<1>18. Told(AFD, K)
  <2>1. \A c \in Range(AF), d \in Range(D) : K[c] # K[d]
    BY <1>10, <1>15
  <2> QED BY <1>1, <1>10, <1>16, <1>17, <2>1, JoinTold DEF AFD
<1>19. Told(P.creates, K)
  <2>1. \A c \in Range(AFD), d \in Range(M) : K[c] # K[d]
    BY <1>10, <1>11, <1>15
  <2> QED BY <1>1, <1>11, <1>12, <1>16, <1>18, <2>1, JoinTold
<1> DEFINE s == P.creates
<1>20. \A i \in DOMAIN s : K[s[i]] = s[i].outpoint
  BY <1>14 DEF Range
<1> HIDE DEF s
<1>21. \A i, j \in DOMAIN s : i # j => s[i].outpoint # s[j].outpoint
  BY <1>19, <1>20 DEF Told, s
<1> QED BY <1>21 DEF s, P

\* The spends of a block are told apart by their source, kind and position.
LEMMA SpendsTold ==
    ASSUME NEW r \in RawBlocks, Prepares(r.block, r.index), NamesApart(r.index)
    PROVE  LET s == Prepared(Hash, r.block, r.index).spends IN
           \A i, j \in DOMAIN s :
              i # j => Spend(0, s[i].source, s[i].kind, s[i].vin)
                     # Spend(0, s[j].source, s[j].kind, s[j].vin)
<1> DEFINE b == r.block
           x == r.index
           F == Appended(SpendsOf(b, x))
           W == BundleSpendRows(x.bundle_spends)
           G == MarketDeleteRows(x.market_deletes, Hash)
           P == Prepared(Hash, b, x)
           K == [c \in Range(P.spends) |-> Spend(0, c.source, c.kind, c.vin)]
<1>0. \A y, c, d, e : LET z == Spend(y, c, d, e) IN z.source = c /\ z.kind = d /\ z.vin = e
  BY DEF Spend
<1>1. P.spends = (F \o W) \o G /\ IsList(F) /\ IsList(W) /\ IsList(G)
  BY PreparedLists
<1>2. /\ \A k \in DOMAIN F : F[k].kind = SpendRegular
      /\ \A k, l \in DOMAIN F : k # l => F[k].source # F[l].source \/ F[k].vin # F[l].vin
  BY BodyTold
<1>3. \A i \in DOMAIN W : W[i].kind = 1 /\ W[i].vin = i - 1
  <2>1. \A i \in DOMAIN W :
           W[i] = Spend(x.bundle_spends[i].outpoint, x.bundle_spends[i].m6id, 1, i - 1)
    BY DEF BundleSpendRows, SpendWithdrawal
  <2> HIDE DEF W
  <2> QED BY <1>0, <2>1
<1>4. \A i \in DOMAIN G : G[i].kind = 2 /\ G[i].vin = i - 1
  <2>1. \A i \in DOMAIN G : G[i] = Spend(x.market_deletes[i].outpoint, Hash, 2, i - 1)
    BY DEF MarketDeleteRows, SpendMarket
  <2> HIDE DEF G
  <2> QED BY <1>0, <2>1
<1>5. \A k \in DOMAIN F : F[k].kind = 0
  BY <1>2 DEF SpendRegular
<1> HIDE DEF F, W, G, P
<1> DEFINE FW == F \o W
<1>6. IsList(FW) /\ Range(FW) = Range(F) \cup Range(W)
  BY <1>1, JoinIs, JoinRange
<1> HIDE DEF FW
<1>7. Range(P.spends) = Range(FW) \cup Range(G) /\ P.spends = FW \o G
  BY <1>1, <1>6, JoinRange DEF FW
<1>8. Range(P.spends) = (Range(F) \cup Range(W)) \cup Range(G)
  BY <1>6, <1>7
<1>9. \A c \in Range(P.spends) : K[c] = Spend(0, c.source, c.kind, c.vin)
  OBVIOUS
<1> HIDE DEF K
<1>10. \A c \in Range(P.spends) : K[c].source = c.source /\ K[c].kind = c.kind /\ K[c].vin = c.vin
  BY <1>0, <1>9
<1>11. /\ \A c \in Range(F) : K[c].kind = 0
       /\ \A c \in Range(W) : K[c].kind = 1
       /\ \A c \in Range(G) : K[c].kind = 2
  <2>1. ASSUME NEW s \in {F, W, G}, NEW c \in Range(s)
        PROVE  K[c].kind = c.kind /\ \E i \in DOMAIN s : c = s[i]
    <3>1. c \in Range(P.spends)
      BY <1>8
    <3>2. \E i \in DOMAIN s : c = s[i]
      BY DEF Range
    <3> QED BY <1>10, <3>1, <3>2
  <2> QED BY <1>3, <1>4, <1>5, <2>1
<1>12. \A s \in {F, W, G} : \A i \in DOMAIN s : /\ K[s[i]].source = s[i].source
                                               /\ K[s[i]].vin = s[i].vin
  <2> SUFFICES ASSUME NEW s \in {F, W, G}, NEW i \in DOMAIN s
               PROVE  K[s[i]].source = s[i].source /\ K[s[i]].vin = s[i].vin
    OBVIOUS
  <2>1. s[i] \in Range(P.spends)
    BY <1>8 DEF Range
  <2> QED BY <1>10, <2>1
<1>13. Told(F, K)
  BY <1>2, <1>12 DEF Told
<1>14. Told(W, K) /\ Told(G, K)
  <2>1. \A s \in {W, G} : \A i \in DOMAIN s : i \in Int
    <3> SUFFICES ASSUME NEW s \in {W, G} PROVE \A i \in DOMAIN s : i \in Int
      OBVIOUS
    <3>1. DOMAIN s = 1..Len(s) /\ Len(s) \in Nat
      BY <1>1, ListIs
    <3> QED BY <3>1
  <2>2. \A i, j \in Int : i - 1 = j - 1 => i = j
    OBVIOUS
  <2>3. Told(W, K)
    BY <1>3, <1>12, <2>1, <2>2 DEF Told
  <2>4. Told(G, K)
    BY <1>4, <1>12, <2>1, <2>2 DEF Told
  <2> QED BY <2>3, <2>4
<1>15. Told(FW, K)
  <2>1. \A c \in Range(F), d \in Range(W) : K[c] # K[d]
    BY <1>11
  <2> QED BY <1>1, <1>13, <1>14, <2>1, JoinTold DEF FW
<1>16. Told(P.spends, K)
  <2>1. \A c \in Range(FW), d \in Range(G) : K[c] # K[d]
    BY <1>6, <1>11
  <2> QED BY <1>1, <1>6, <1>7, <1>14, <1>15, <2>1, JoinTold
<1> DEFINE s == P.spends
<1>17. \A i \in DOMAIN s : K[s[i]] = Spend(0, s[i].source, s[i].kind, s[i].vin)
  BY <1>9 DEF Range
<1> HIDE DEF s
<1>18. \A i, j \in DOMAIN s : i # j => Spend(0, s[i].source, s[i].kind, s[i].vin)
                                    # Spend(0, s[j].source, s[j].kind, s[j].vin)
  BY <1>16, <1>17 DEF Told, s
<1> QED BY <1>18 DEF s, P

\* The rows are those of the block that was given.
PreparingInv == given \in RawBlocks /\ rows = Prepared(Hash, given.block, given.index)

\* Prepare is one step: the rows are always those of the block that was given.
LEMMA PreparingInvariant == PreparingSpec => []PreparingInv
<1>1. PrepareInit => PreparingInv
  BY DEF PrepareInit, PreparingInv
<1>2. PreparingInv /\ [PrepareNext]_preparingVars => PreparingInv'
  BY DEF PreparingInv, PrepareNext, preparingVars
<1> QED BY <1>1, <1>2, PTL DEF PreparingSpec

\* Prepare gives every coin and every spend of a block, of any number of transactions,
\* deposits, bundles and market changes, a key of its own, if the node names
\* transactions and coins apart.
THEOREM PreparingRowKeysDistinct ==
    ASSUME \A r \in RawBlocks : NamesApart(r.index)
    PROVE  PreparingSpec => []RowKeysDistinct
<1>1. PreparingInv => RowKeysDistinct
  <2> SUFFICES ASSUME PreparingInv PROVE RowKeysDistinct
    OBVIOUS
  <2>1. given \in RawBlocks /\ NamesApart(given.index) /\ rows = Prepared(Hash, given.block, given.index)
    BY DEF PreparingInv
  <2>2. CASE Prepares(given.block, given.index)
    <3>1. CoinsDistinct
      BY <2>1, <2>2, CreatesTold DEF CoinsDistinct
    <3>2. SpendsDistinct
      BY <2>1, <2>2, SpendsTold DEF SpendsDistinct
    <3> QED BY <3>1, <3>2 DEF RowKeysDistinct
  <2>3. CASE ~Prepares(given.block, given.index)
    <3>1. rows.creates = <<>> /\ rows.spends = <<>>
      BY <2>1, <2>3 DEF Prepared
    <3> QED BY <3>1 DEF RowKeysDistinct, CoinsDistinct, SpendsDistinct
  <2> QED BY <2>2, <2>3
<1> QED BY <1>1, PreparingInvariant, PTL

-----------------------------------------------------------------------------
\* InputsBefore counts the inputs of one transaction after the other.
LEMMA InputsBeforeSteps ==
    ASSUME NEW body, IsList(body.transactions),
           \A i \in DOMAIN body.transactions : IsList(body.transactions[i].inputs)
    PROVE  LET N == Len(body.transactions) IN
           /\ InputsBefore(body, 0) = 0
           /\ \A n \in 0..N : InputsBefore(body, n) \in Nat
           /\ \A n \in 0..(N - 1) :
                 InputsBefore(body, n + 1) = InputsBefore(body, n) + Len(body.transactions[n + 1].inputs)
<1> DEFINE txs == body.transactions
           N == Len(txs)
           at(n) == IF n < N THEN Len(txs[n + 1].inputs) ELSE 0
           d(n) == [x \in Nat |-> x + at(n)]
           e == [n \in Nat |-> d(n)]
           Is(i, r) == r = [n \in 0..i |-> IF n = 0 THEN 0 ELSE r[n - 1] + Len(txs[n].inputs)]
           start(i) == CHOOSE r : Is(i, r)
<1>0. N \in Nat /\ DOMAIN txs = 1..N
  BY ListIs
<1>1. ASSUME NEW n \in 1..N PROVE Len(txs[n].inputs) \in Nat
  BY <1>0, ListIs
<1>2. \A i : InputsBefore(body, i) = start(i)[i]
  BY DEF InputsBefore
<1> HIDE DEF N, txs
<1>3. ASSUME NEW n \in Nat PROVE at(n) \in Nat
  <2>1. n < N => n + 1 \in 1..N
    BY <1>0
  <2> QED BY <1>1, <2>1
<1> HIDE DEF at
<1>4. e \in [Nat -> [Nat -> Nat]]
  <2>1. ASSUME NEW n \in Nat PROVE d(n) \in [Nat -> Nat]
    <3>1. \A x \in Nat : x + at(n) \in Nat
      BY <1>3
    <3> QED BY <3>1
  <2> HIDE DEF d
  <2> QED BY <2>1
<1>5. PICK f : Loop(f, Nat, 0, e)
  <2> HIDE DEF e
  <2>1. 0 \in Nat
    OBVIOUS
  <2> QED BY <1>4, <2>1, Recursion, Zenon
<1>6. f \in [Nat -> Nat] /\ f[0] = 0 /\ \A n \in Nat : f[n + 1] = f[n] + at(n)
  BY <1>5, Zenon DEF Loop
<1>7. ASSUME NEW n \in 1..N PROVE f[n] = f[n - 1] + Len(txs[n].inputs)
  <2>1. n - 1 \in Nat /\ n - 1 < N /\ (n - 1) + 1 = n
    BY <1>0
  <2>2. at(n - 1) = Len(txs[n].inputs)
    BY <2>1 DEF at
  <2> QED BY <1>6, <2>1, <2>2
<1>8. ASSUME NEW i \in 0..N PROVE start(i)[i] = f[i]
  <2> DEFINE r0 == [n \in 0..i |-> f[n]]
  <2>1. Is(i, r0)
    <3>1. ASSUME NEW n \in 0..i PROVE f[n] = IF n = 0 THEN 0 ELSE r0[n - 1] + Len(txs[n].inputs)
      <4>1. CASE n = 0
        BY <1>6, <4>1
      <4>2. CASE n # 0
        <5>1. n \in 1..N /\ n - 1 \in 0..i
          BY <1>0, <4>2
        <5> QED BY <1>7, <4>2, <5>1
      <4> QED BY <4>1, <4>2
    <3> QED BY <3>1
  <2> DEFINE r == start(i)
  <2>2. Is(i, r)
    <3> HIDE DEF Is
    <3> QED BY <2>1
  <2>3. \A n \in 0..i : r[n] = IF n = 0 THEN 0 ELSE r[n - 1] + Len(txs[n].inputs)
    <3>1. \A s : Is(i, s) =>
             \A n \in 0..i : s[n] = IF n = 0 THEN 0 ELSE s[n - 1] + Len(txs[n].inputs)
      OBVIOUS
    <3> HIDE DEF Is
    <3> QED BY <2>2, <3>1
  <2> HIDE DEF Is, r
  <2> DEFINE S == {m \in Nat : m <= i => r[m] = f[m]}
  <2>4. 0 \in S
    <3>1. 0 \in 0..i
      BY <1>0
    <3> QED BY <1>6, <2>3, <3>1, Zenon
  <2>5. ASSUME NEW m \in S PROVE m + 1 \in S
    <3> SUFFICES ASSUME m + 1 <= i PROVE r[m + 1] = f[m + 1]
      OBVIOUS
    <3>1. m + 1 \in 0..i /\ m + 1 \in 1..N /\ m + 1 # 0 /\ (m + 1) - 1 = m /\ m <= i
      BY <1>0
    <3>2. r[m] = f[m]
      BY <2>5, <3>1
    <3>3. r[m + 1] = r[m] + Len(txs[m + 1].inputs)
      BY <2>3, <3>1
    <3>4. f[m + 1] = f[m] + Len(txs[m + 1].inputs)
      BY <1>7, <3>1
    <3> QED BY <3>2, <3>3, <3>4
  <2>6. S \in SUBSET Nat
    OBVIOUS
  <2>7. i \in S
    <3>1. i \in Nat
      BY <1>0
    <3> HIDE DEF S
    <3> QED BY <2>4, <2>5, <2>6, <3>1, Induction
  <2>8. i <= i
    BY <1>0
  <2>9. r[i] = f[i]
    BY <2>7, <2>8
  <2> QED BY <2>9 DEF r
<1> HIDE DEF start
<1>9. ASSUME NEW i \in 0..N PROVE InputsBefore(body, i) = f[i]
  BY <1>2, <1>8
<1>10. 0 \in 0..N /\ \A n \in 0..N : n \in Nat
  BY <1>0
<1>11. InputsBefore(body, 0) = 0 /\ \A n \in 0..N : InputsBefore(body, n) \in Nat
  BY <1>6, <1>9, <1>10
<1>12. ASSUME NEW n \in 0..(N - 1)
       PROVE  InputsBefore(body, n + 1) = InputsBefore(body, n) + Len(txs[n + 1].inputs)
  <2>1. n \in 0..N /\ n + 1 \in 0..N /\ n + 1 \in 1..N /\ (n + 1) - 1 = n
    BY <1>0
  <2> QED BY <1>7, <1>9, <2>1
<1> QED BY <1>11, <1>12 DEF N, txs

\* AuthorizationsFor cuts the list of signatures where the inputs of a transaction end.
LEMMA Partition ==
    ASSUME NEW r \in RawBlocks
    PROVE  LET body == r.block.body
               n == Len(body.transactions)
               parts == [i \in 1..n |-> AuthorizationsFor(body, i - 1)]
           IN  InputsBefore(body, n) = Len(body.authorizations) =>
                 /\ \A i \in 1..n : HasAuthorizations(body, i - 1)
                 /\ \A i \in 1..n : Len(parts[i]) = Len(body.transactions[i].inputs)
                 /\ Appended(parts) = body.authorizations
<1> DEFINE body == r.block.body
           txs == body.transactions
           auth == body.authorizations
           T == Range(auth)
           N == Len(txs)
           IB(n) == InputsBefore(body, n)
           parts == [i \in 1..N |-> AuthorizationsFor(body, i - 1)]
<1> SUFFICES ASSUME IB(N) = Len(auth)
             PROVE  /\ \A i \in 1..N : HasAuthorizations(body, i - 1)
                    /\ \A i \in 1..N : Len(parts[i]) = Len(txs[i].inputs)
                    /\ Appended(parts) = auth
  BY Zenon
<1>1. /\ IsList(txs) /\ IsList(auth)
      /\ \A i \in DOMAIN txs : IsList(txs[i].inputs)
  BY RawBlocksAssumption
<1>2. N \in Nat /\ DOMAIN txs = 1..N /\ auth \in Seq(T)
  BY <1>1, ListIs DEF IsList
<1>3. \A i \in 1..N : Len(txs[i].inputs) \in Nat
  BY <1>1, <1>2, ListIs
<1>4. /\ IB(0) = 0 /\ \A n \in 0..N : IB(n) \in Nat
      /\ \A n \in 0..(N - 1) : IB(n + 1) = IB(n) + Len(txs[n + 1].inputs)
  <2>1. IsList(body.transactions)
        /\ \A i \in DOMAIN body.transactions : IsList(body.transactions[i].inputs)
    BY <1>1
  <2> HIDE DEF body
  <2> QED BY <2>1, InputsBeforeSteps
<1>5. \A i : AuthorizationsFor(body, i) = SubSeq(auth, IB(i) + 1, IB(i + 1))
  BY DEF AuthorizationsFor
<1>6. \A i : HasAuthorizations(body, i) <=> i \in 0..(N - 1) /\ IB(i + 1) <= Len(auth)
  BY DEF HasAuthorizations
<1> HIDE DEF body, txs, auth, T, N, IB
<1>7. ASSUME NEW i \in 1..N
      PROVE  /\ i - 1 \in 0..(N - 1) /\ i - 1 \in 0..N /\ i \in 0..N /\ (i - 1) + 1 = i
             /\ IB(i) = IB(i - 1) + Len(txs[i].inputs)
             /\ parts[i] = SubSeq(auth, IB(i - 1) + 1, IB(i))
  <2>1. i - 1 \in 0..(N - 1) /\ i - 1 \in 0..N /\ i \in 0..N /\ (i - 1) + 1 = i
    BY <1>2
  <2> QED BY <1>4, <1>5, <2>1, Zenon
<1>8. ASSUME NEW n \in 0..N PROVE IB(n) <= IB(N)
  <2> DEFINE S == {m \in Nat : m <= N => IB(N - m) <= IB(N)}
  <2>1. 0 \in S
    <3>1. N - 0 = N /\ IB(N) \in Nat
      BY <1>2, <1>4
    <3> QED BY <3>1
  <2>2. ASSUME NEW m \in S PROVE m + 1 \in S
    <3> SUFFICES ASSUME m + 1 <= N PROVE IB(N - (m + 1)) <= IB(N)
      OBVIOUS
    <3> DEFINE k == N - m
    <3>1. k \in 1..N /\ k - 1 = N - (m + 1) /\ m <= N /\ k \in 0..N /\ k - 1 \in 0..N /\ N \in 0..N
      BY <1>2
    <3>2. IB(k) <= IB(N)
      BY <2>2, <3>1
    <3> HIDE DEF k
    <3>3. IB(k) = IB(k - 1) + Len(txs[k].inputs) /\ Len(txs[k].inputs) \in Nat
      BY <1>3, <1>7, <3>1
    <3>4. IB(k - 1) \in Nat /\ IB(k) \in Nat /\ IB(N) \in Nat
      BY <1>4, <3>1
    <3>5. IB(k - 1) <= IB(N)
      BY <3>2, <3>3, <3>4
    <3> QED BY <3>1, <3>5
  <2>3. S \in SUBSET Nat
    OBVIOUS
  <2>4. N - n \in S
    <3>1. N - n \in Nat
      BY <1>2
    <3> HIDE DEF S
    <3> QED BY <2>1, <2>2, <2>3, <3>1, Induction
  <2>5. N - n <= N /\ N - (N - n) = n
    BY <1>2
  <2> QED BY <2>4, <2>5
<1>9. Len(auth) \in Nat
  BY <1>2
<1>10. ASSUME NEW i \in 1..N PROVE HasAuthorizations(body, i - 1)
  BY <1>6, <1>7, <1>8
<1>11. ASSUME NEW i \in 1..N
       PROVE  Len(parts[i]) = Len(txs[i].inputs) /\ parts[i] \in Seq(T)
  <2> DEFINE a == IB(i - 1)
             b == IB(i)
             c == Len(txs[i].inputs)
  <2>1. a \in Nat /\ b \in Nat /\ c \in Nat /\ b = a + c /\ b <= Len(auth)
    BY <1>3, <1>4, <1>7, <1>8
  <2>2. parts[i] = SubSeq(auth, a + 1, b)
    BY <1>7
  <2> HIDE DEF a, b, c, parts
  <2>3. a + 1 \in 1..(Len(auth) + 1) /\ b \in ((a + 1) - 1)..Len(auth) /\ b - (a + 1) + 1 = c
    BY <1>9, <2>1
  <2>4. /\ SubSeq(auth, a + 1, b) \in Seq(T)
        /\ Len(SubSeq(auth, a + 1, b)) = b - (a + 1) + 1
    BY <1>2, <2>3, CutFrom
  <2> QED BY <2>2, <2>3, <2>4 DEF c
<1>12. /\ IsList(parts) /\ Len(parts) = N /\ DOMAIN parts = 1..N
       /\ \A i \in DOMAIN parts : IsList(parts[i])
  <2>1. parts = [i \in 1..N |-> parts[i]]
    OBVIOUS
  <2> HIDE DEF parts
  <2>2. IsList(parts) /\ Len(parts) = N /\ DOMAIN parts = 1..N
    BY <1>2, <2>1, ListOf
  <2>3. ASSUME NEW i \in 1..N PROVE IsList(parts[i])
    <3> DEFINE s == parts[i]
    <3>1. s \in Seq(T)
      BY <1>11
    <3> HIDE DEF s
    <3>2. Len(s) \in Nat /\ s = [j \in 1..Len(s) |-> s[j]]
      BY <3>1
    <3>3. IsList(s)
      BY <3>2, ListOf
    <3> QED BY <3>3 DEF s
  <2> QED BY <2>2, <2>3
<1> HIDE DEF parts
<1>13. PICK F : Flat(F, parts)
  BY <1>12, AppendedSteps
<1>14. /\ F[0] = <<>> /\ Appended(parts) = F[N]
       /\ \A n \in 0..(N - 1) : F[n + 1] = F[n] \o parts[n + 1]
  BY <1>12, <1>13, Zenon DEF Flat
<1> DEFINE S == {n \in Nat : n <= N => F[n] = SubSeq(auth, 1, IB(n))}
<1>15. 0 \in S
  <2>1. SubSeq(auth, 1, 0) = <<>>
    BY <1>2, CutAll
  <2> QED BY <1>4, <1>14, <2>1, Zenon
<1>16. ASSUME NEW n \in S PROVE n + 1 \in S
  <2> SUFFICES ASSUME n + 1 <= N PROVE F[n + 1] = SubSeq(auth, 1, IB(n + 1))
    OBVIOUS
  <2>1. n \in 0..(N - 1) /\ n + 1 \in 1..N /\ (n + 1) - 1 = n /\ n <= N /\ n \in 0..N /\ n + 1 \in 0..N
    BY <1>2
  <2> DEFINE a == IB(n)
             b == IB(n + 1)
  <2>2. F[n + 1] = SubSeq(auth, 1, a) \o SubSeq(auth, a + 1, b)
    <3>1. F[n] = SubSeq(auth, 1, a)
      BY <1>16, <2>1
    <3>2. parts[n + 1] = SubSeq(auth, a + 1, b)
      BY <1>7, <2>1
    <3> QED BY <1>14, <2>1, <3>1, <3>2, Zenon
  <2>3. a \in Nat /\ b \in Nat /\ a <= b /\ b <= Len(auth)
    <3>1. IB(n + 1) = IB(n) + Len(txs[n + 1].inputs) /\ Len(txs[n + 1].inputs) \in Nat
      BY <1>3, <1>4, <2>1
    <3>2. IB(n) \in Nat /\ IB(n + 1) \in Nat /\ IB(n + 1) <= Len(auth)
      BY <1>4, <1>8, <2>1
    <3> QED BY <3>1, <3>2
  <2> HIDE DEF a, b
  <2>4. a \in 0..Len(auth) /\ b \in a..Len(auth)
    BY <1>9, <2>3
  <2>5. SubSeq(auth, 1, a) \o SubSeq(auth, a + 1, b) = SubSeq(auth, 1, b)
    BY <1>2, <2>4, CutOn
  <2> QED BY <2>2, <2>5, Zenon DEF b
<1>17. S \in SUBSET Nat
  OBVIOUS
<1>18. N \in S
  <2> HIDE DEF S
  <2> QED BY <1>2, <1>15, <1>16, <1>17, Induction, Zenon
<1>19. Appended(parts) = auth
  <2>1. N <= N
    BY <1>2
  <2>2. F[N] = SubSeq(auth, 1, Len(auth))
    BY <1>18, <2>1
  <2>3. SubSeq(auth, 1, Len(auth)) = auth
    BY <1>2, CutAll
  <2> QED BY <1>14, <2>2, <2>3
<1> QED BY <1>10, <1>11, <1>19, Zenon DEF body, txs, auth, N, IB, parts

\* Body.AuthorizationsFor gives every transaction of a body of any length as many
\* signatures as it has inputs, and leaves none out and gives none twice.
THEOREM PreparingAuthorizationsPartition == PreparingSpec => []AuthorizationsPartition
<1>1. PreparingInv => AuthorizationsPartition
  BY Partition, Zenon DEF PreparingInv, AuthorizationsPartition
<1> QED BY <1>1, PreparingInvariant, PTL

-----------------------------------------------------------------------------
\* The coins that transaction i of a body makes, and those that it takes.
Made(block, index, i) ==
    IF index.txs[i].skipped THEN {}
    ELSE {OutPointOf(KindRegular, index.txs[i].txid, j - 1) :
             j \in DOMAIN block.body.transactions[i].outputs}
Taken(block, index, i) ==
    IF index.txs[i].skipped THEN {} ELSE Range(block.body.transactions[i].inputs)

\* Those of the first n transactions.
MadeBy(block, index, n) == UNION {Made(block, index, i) : i \in 1..n}
TakenBy(block, index, n) == UNION {Taken(block, index, i) : i \in 1..n}

OfCoinbase(block) ==
    {OutPointOf(KindCoinbase, CoinbaseSource(block), j - 1) :
        j \in DOMAIN block.body.coinbase.outputs}

OutPointsOf(s) == {c.outpoint : c \in Range(s)}

\* The outpoints of the creates that the transactions of a body have.
LEMMA BodyPoints ==
    ASSUME NEW r \in RawBlocks, Prepares(r.block, r.index)
    PROVE  /\ OutPointsOf(Appended(CreatesOf(r.block, r.index)))
                 = MadeBy(r.block, r.index, Len(r.index.txs))
           /\ OutPointsOf(Appended(SpendsOf(r.block, r.index)))
                 = TakenBy(r.block, r.index, Len(r.index.txs))
<1> DEFINE b == r.block
           x == r.index
           txs == x.txs
           tr == b.body.transactions
           N == Len(txs)
           cs == CreatesOf(b, x)
           ds == SpendsOf(b, x)
           C == Appended(cs)
           S == Appended(ds)
<1>1. /\ N \in Nat /\ Len(cs) = N /\ Len(ds) = N
      /\ DOMAIN cs = 1..N /\ DOMAIN ds = 1..N /\ IsList(cs) /\ IsList(ds)
      /\ \A i \in 1..N : IsList(cs[i]) /\ IsList(ds[i])
      /\ \A i \in 1..N : txs[i].skipped => cs[i] = <<>> /\ ds[i] = <<>>
  BY BodyLists, Zenon
<1>2. ASSUME NEW i \in 1..N
      PROVE  {cs[i][j].outpoint : j \in DOMAIN cs[i]} = Made(b, x, i)
  <2>1. CASE txs[i].skipped
    <3>1. cs[i] = <<>>
      BY <1>1, <2>1
    <3>2. DOMAIN <<>> = {}
      OBVIOUS
    <3> HIDE DEF cs
    <3>3. {cs[i][j].outpoint : j \in DOMAIN cs[i]} = {}
      BY <3>1, <3>2
    <3> QED BY <2>1, <3>3, Zenon DEF Made
  <2>2. CASE ~txs[i].skipped
    <3>1. /\ DOMAIN cs[i] = DOMAIN tr[i].outputs
          /\ \A j \in DOMAIN cs[i] : cs[i][j].outpoint = OutPointOf(KindRegular, txs[i].txid, j - 1)
      BY <2>2, BodyLists, Zenon
    <3>2. Made(b, x, i) = {OutPointOf(KindRegular, txs[i].txid, j - 1) : j \in DOMAIN tr[i].outputs}
      BY <2>2 DEF Made
    <3> HIDE DEF cs, tr, txs, b, x
    <3>3. {cs[i][j].outpoint : j \in DOMAIN cs[i]}
             = {OutPointOf(KindRegular, txs[i].txid, j - 1) : j \in DOMAIN tr[i].outputs}
      BY <3>1
    <3> QED BY <3>2, <3>3, ZenonT(30)
  <2> QED BY <2>1, <2>2
<1>3. ASSUME NEW i \in 1..N
      PROVE  {ds[i][j].outpoint : j \in DOMAIN ds[i]} = Taken(b, x, i)
  <2>1. CASE txs[i].skipped
    <3>1. ds[i] = <<>>
      BY <1>1, <2>1
    <3>2. DOMAIN <<>> = {}
      OBVIOUS
    <3> HIDE DEF ds
    <3>3. {ds[i][j].outpoint : j \in DOMAIN ds[i]} = {}
      BY <3>1, <3>2
    <3> QED BY <2>1, <3>3, Zenon DEF Taken
  <2>2. CASE ~txs[i].skipped
    <3> DEFINE ins == tr[i].inputs
    <3>1. /\ DOMAIN ds[i] = DOMAIN ins
          /\ \A j \in DOMAIN ds[i] : ds[i][j] = Spend(ins[j], txs[i].txid, SpendRegular, j - 1)
      BY <2>2, BodyLists, Zenon
    <3>2. Taken(b, x, i) = {ins[j] : j \in DOMAIN ins}
      BY <2>2 DEF Taken, Range
    <3>3. \A o, y, k, v : Spend(o, y, k, v).outpoint = o
      BY DEF Spend
    <3> HIDE DEF ds, tr, txs, b, x, ins
    <3>4. \A j \in DOMAIN ds[i] : ds[i][j].outpoint = ins[j]
      BY <3>1, <3>3
    <3>5. {ds[i][j].outpoint : j \in DOMAIN ds[i]} = {ins[j] : j \in DOMAIN ins}
      BY <3>1, <3>4
    <3> QED BY <3>2, <3>5, ZenonT(30)
  <2> QED BY <2>1, <2>2
<1> HIDE DEF cs, ds, N
<1>4. ASSUME NEW ss, NEW s, NEW X, NEW p, NEW q, Placed(p, q, s, ss, N),
             \A i \in 1..N : {ss[i][j].outpoint : j \in DOMAIN ss[i]} = X[i]
      PROVE  OutPointsOf(s) = UNION {X[i] : i \in 1..N}
  <2>1. ASSUME NEW o \in OutPointsOf(s) PROVE o \in UNION {X[i] : i \in 1..N}
    <3>1. PICK k \in DOMAIN s : o = s[k].outpoint
      BY DEF OutPointsOf, Range
    <3>2. p[k] \in 1..N /\ q[k] \in DOMAIN ss[p[k]] /\ s[k] = ss[p[k]][q[k]]
      BY <1>4, Zenon DEF Placed
    <3>3. o \in X[p[k]]
      BY <1>4, <3>1, <3>2
    <3> QED BY <3>2, <3>3
  <2>2. ASSUME NEW o \in UNION {X[i] : i \in 1..N} PROVE o \in OutPointsOf(s)
    <3>1. PICK i \in 1..N : o \in X[i]
      OBVIOUS
    <3>2. PICK j \in DOMAIN ss[i] : o = ss[i][j].outpoint
      BY <1>4, <3>1
    <3>3. PICK k \in DOMAIN s : p[k] = i /\ q[k] = j
      BY <1>4, <3>1, <3>2, ZenonT(30) DEF Placed
    <3>4. s[k] = ss[p[k]][q[k]]
      BY <1>4, <3>3, Zenon DEF Placed
    <3> QED BY <3>2, <3>3, <3>4 DEF OutPointsOf, Range
  <2> QED BY <2>1, <2>2
<1>5. PICK p, q : Placed(p, q, C, cs, N)
  BY <1>1, AppendedPlaces
<1>6. PICK v, w : Placed(v, w, S, ds, N)
  BY <1>1, AppendedPlaces
<1> HIDE DEF C, S, b, x
<1>7. OutPointsOf(C) = MadeBy(b, x, N)
  <2> DEFINE X == [i \in 1..N |-> Made(b, x, i)]
  <2>1. \A i \in 1..N : X[i] = Made(b, x, i)
    OBVIOUS
  <2> HIDE DEF X
  <2>2. \A i \in 1..N : {cs[i][j].outpoint : j \in DOMAIN cs[i]} = X[i]
    BY <1>2, <2>1
  <2>3. OutPointsOf(C) = UNION {X[i] : i \in 1..N}
    BY <1>4, <1>5, <2>2
  <2> QED BY <2>1, <2>3 DEF MadeBy
<1>8. OutPointsOf(S) = TakenBy(b, x, N)
  <2> DEFINE X == [i \in 1..N |-> Taken(b, x, i)]
  <2>1. \A i \in 1..N : X[i] = Taken(b, x, i)
    OBVIOUS
  <2> HIDE DEF X
  <2>2. \A i \in 1..N : {ds[i][j].outpoint : j \in DOMAIN ds[i]} = X[i]
    BY <1>3, <2>1
  <2>3. OutPointsOf(S) = UNION {X[i] : i \in 1..N}
    BY <1>4, <1>6, <2>2
  <2> QED BY <2>1, <2>3 DEF TakenBy
<1> QED BY <1>7, <1>8 DEF C, S, cs, ds, b, x, N

\* The outpoints of all the rows of a block.
LEMMA RowPoints ==
    ASSUME NEW r \in RawBlocks, Prepares(r.block, r.index)
    PROVE  LET b == r.block
               x == r.index
               P == Prepared(Hash, b, x)
               N == Len(x.txs)
           IN  /\ OutPointsOf(P.creates) = ((OfCoinbase(b) \cup MadeBy(b, x, N)) \cup Names(x.deposits))
                                          \cup Names(x.market_creates)
               /\ OutPointsOf(P.spends) = (TakenBy(b, x, N) \cup Names(x.bundle_spends))
                                          \cup Names(x.market_deletes)
<1> DEFINE b == r.block
           x == r.index
           P == Prepared(Hash, b, x)
           N == Len(x.txs)
           A == Numbered(KindCoinbase, CoinbaseSource(b), b.body.coinbase.outputs)
           FC == Appended(CreatesOf(b, x))
           FS == Appended(SpendsOf(b, x))
           D == Named(x.deposits)
           M == Named(x.market_creates)
           W == BundleSpendRows(x.bundle_spends)
           G == MarketDeleteRows(x.market_deletes, Hash)
<1>1. /\ P.creates = ((A \o FC) \o D) \o M /\ P.spends = (FS \o W) \o G
      /\ IsList(A) /\ IsList(FC) /\ IsList(D) /\ IsList(M)
      /\ IsList(FS) /\ IsList(W) /\ IsList(G)
  BY PreparedLists, Zenon
<1>2. \A s, t : IsList(s) /\ IsList(t) =>
         IsList(s \o t) /\ OutPointsOf(s \o t) = OutPointsOf(s) \cup OutPointsOf(t)
  <2> SUFFICES ASSUME NEW s, NEW t, IsList(s), IsList(t)
               PROVE  IsList(s \o t) /\ OutPointsOf(s \o t) = OutPointsOf(s) \cup OutPointsOf(t)
    OBVIOUS
  <2>1. IsList(s \o t) /\ Range(s \o t) = Range(s) \cup Range(t)
    BY JoinIs, JoinRange
  <2> QED BY <2>1 DEF OutPointsOf
<1>3. OutPointsOf(A) = OfCoinbase(b)
  <2>1. /\ DOMAIN A = DOMAIN b.body.coinbase.outputs
        /\ \A i \in DOMAIN A : A[i].outpoint = OutPointOf(KindCoinbase, CoinbaseSource(b), i - 1)
    BY PreparedLists, Zenon
  <2> HIDE DEF A
  <2>2. OutPointsOf(A) = {A[i].outpoint : i \in DOMAIN A}
    BY DEF OutPointsOf, Range
  <2> QED BY <2>1, <2>2 DEF OfCoinbase
<1>4. OutPointsOf(FC) = MadeBy(b, x, N) /\ OutPointsOf(FS) = TakenBy(b, x, N)
  BY BodyPoints
<1>5. OutPointsOf(D) = Names(x.deposits)
  <2>1. DOMAIN D = DOMAIN x.deposits /\ \A i \in DOMAIN D : D[i].outpoint = x.deposits[i].outpoint
    BY PreparedLists, Zenon
  <2> HIDE DEF D
  <2>2. OutPointsOf(D) = {D[i].outpoint : i \in DOMAIN D}
    BY DEF OutPointsOf, Range
  <2> QED BY <2>1, <2>2 DEF Names
<1>6. OutPointsOf(M) = Names(x.market_creates)
  <2>1. /\ DOMAIN M = DOMAIN x.market_creates
        /\ \A i \in DOMAIN M : M[i].outpoint = x.market_creates[i].outpoint
    BY PreparedLists, Zenon
  <2> HIDE DEF M
  <2>2. OutPointsOf(M) = {M[i].outpoint : i \in DOMAIN M}
    BY DEF OutPointsOf, Range
  <2> QED BY <2>1, <2>2 DEF Names
<1>7. \A o, y, k, v : Spend(o, y, k, v).outpoint = o
  BY DEF Spend
<1>8. OutPointsOf(W) = Names(x.bundle_spends)
  <2> DEFINE s == x.bundle_spends
  <2>1. W = [i \in DOMAIN s |-> Spend(s[i].outpoint, s[i].m6id, SpendWithdrawal, i - 1)]
    BY DEF BundleSpendRows
  <2> HIDE DEF W, s
  <2>2. DOMAIN W = DOMAIN s /\ \A i \in DOMAIN W : W[i].outpoint = s[i].outpoint
    BY <1>7, <2>1
  <2>3. OutPointsOf(W) = {W[i].outpoint : i \in DOMAIN W}
    BY DEF OutPointsOf, Range
  <2>4. OutPointsOf(W) = Names(s)
    BY <2>2, <2>3 DEF Names
  <2> QED BY <2>4 DEF s
<1>9. OutPointsOf(G) = Names(x.market_deletes)
  <2> DEFINE s == x.market_deletes
  <2>1. G = [i \in DOMAIN s |-> Spend(s[i].outpoint, Hash, SpendMarket, i - 1)]
    BY DEF MarketDeleteRows
  <2> HIDE DEF G, s
  <2>2. DOMAIN G = DOMAIN s /\ \A i \in DOMAIN G : G[i].outpoint = s[i].outpoint
    BY <1>7, <2>1
  <2>3. OutPointsOf(G) = {G[i].outpoint : i \in DOMAIN G}
    BY DEF OutPointsOf, Range
  <2>4. OutPointsOf(G) = Names(s)
    BY <2>2, <2>3 DEF Names
  <2> QED BY <2>4 DEF s
<1> HIDE DEF A, FC, FS, D, M, W, G, P, b, x, N
<1>10. IsList(A \o FC) /\ OutPointsOf(A \o FC) = OutPointsOf(A) \cup OutPointsOf(FC)
  BY <1>1, <1>2
<1>11. IsList((A \o FC) \o D) /\ OutPointsOf((A \o FC) \o D) = OutPointsOf(A \o FC) \cup OutPointsOf(D)
  BY <1>1, <1>2, <1>10
<1>12. OutPointsOf(P.creates) = OutPointsOf((A \o FC) \o D) \cup OutPointsOf(M)
  BY <1>1, <1>2, <1>11
<1>13. IsList(FS \o W) /\ OutPointsOf(FS \o W) = OutPointsOf(FS) \cup OutPointsOf(W)
  BY <1>1, <1>2
<1>14. OutPointsOf(P.spends) = OutPointsOf(FS \o W) \cup OutPointsOf(G)
  BY <1>1, <1>2, <1>13
<1>15. /\ OutPointsOf(P.creates) = ((OfCoinbase(b) \cup MadeBy(b, x, N)) \cup Names(x.deposits))
                                    \cup Names(x.market_creates)
       /\ OutPointsOf(P.spends) = (TakenBy(b, x, N) \cup Names(x.bundle_spends))
                                    \cup Names(x.market_deletes)
  BY <1>3, <1>4, <1>5, <1>6, <1>8, <1>9, <1>10, <1>11, <1>12, <1>13, <1>14
<1> QED BY <1>15 DEF P, b, x, N

\* The ledger of a node, in closed form: what was there and what the block makes, but
\* for what the block takes.
LEMMA LedgerIs ==
    ASSUME NEW r \in RawBlocks, Prepares(r.block, r.index), SpentInTurn(r.block, r.index),
           NEW before
    PROVE  LET b == r.block
               x == r.index
               P == Prepared(Hash, b, x)
           IN  Ledger(before, b, x)
                  = (before \cup OutPointsOf(P.creates)) \ OutPointsOf(P.spends)
<1> DEFINE b == r.block
           x == r.index
           P == Prepared(Hash, b, x)
           txs == x.txs
           tr == b.body.transactions
           N == Len(txs)
           CB == OfCoinbase(b)
           Is(a) == a = [i \in 0..N |->
                            IF i = 0 THEN before \cup CB
                            ELSE IF txs[i].skipped THEN a[i - 1]
                            ELSE LedgerTx(a[i - 1], txs[i].txid, tr[i])]
           after == CHOOSE a : Is(a)
           closed(n) == ((before \cup CB) \cup MadeBy(b, x, n)) \ TakenBy(b, x, n)
<1>0. N \in Nat /\ DOMAIN txs = 1..N
  BY BodyLists, Zenon
<1>1. Ledger(before, b, x)
         = (((after[N] \cup Names(x.deposits)) \ Names(x.bundle_spends))
               \cup Names(x.market_creates)) \ Names(x.market_deletes)
  BY DEF Ledger, OfCoinbase
<1>2. /\ OutPointsOf(P.creates) = ((CB \cup MadeBy(b, x, N)) \cup Names(x.deposits))
                                      \cup Names(x.market_creates)
      /\ OutPointsOf(P.spends) = (TakenBy(b, x, N) \cup Names(x.bundle_spends))
                                      \cup Names(x.market_deletes)
  BY RowPoints
<1>3. ASSUME NEW i \in 1..N, NEW j \in 1..N, i <= j
      PROVE  Taken(b, x, i) \cap Made(b, x, j) = {}
  <2> SUFFICES ASSUME NEW o \in Taken(b, x, i), o \in Made(b, x, j) PROVE FALSE
    OBVIOUS
  <2>1. ~txs[i].skipped /\ o \in Range(tr[i].inputs)
    BY DEF Taken
  <2>2. ~txs[j].skipped /\ o \in {OutPointOf(KindRegular, txs[j].txid, k - 1) : k \in DOMAIN tr[j].outputs}
    BY DEF Made
  <2>3. o.kind = KindRegular /\ o.source = txs[j].txid
    BY <2>2 DEF OutPointOf
  <2>4. j >= i
    BY <1>0, <1>3
  <2> QED BY <1>0, <2>1, <2>2, <2>3, <2>4 DEF SpentInTurn
<1>4. /\ TakenBy(b, x, N) \cap (Names(x.deposits) \cup Names(x.market_creates)) = {}
      /\ Names(x.bundle_spends) \cap Names(x.market_creates) = {}
  <2>1. ASSUME NEW o \in TakenBy(b, x, N)
        PROVE  o \notin Names(x.deposits) \cup Names(x.market_creates)
    <3>1. PICK i \in 1..N : o \in Taken(b, x, i)
      BY DEF TakenBy
    <3>2. ~txs[i].skipped /\ o \in Range(tr[i].inputs)
      BY <3>1 DEF Taken
    <3> QED BY <1>0, <3>2 DEF SpentInTurn
  <2>2. Names(x.bundle_spends) \cap Names(x.market_creates) = {}
    BY DEF SpentInTurn
  <2> QED BY <2>1, <2>2
<1>5. ASSUME NEW i \in 1..N, txs[i].skipped
      PROVE  Made(b, x, i) = {} /\ Taken(b, x, i) = {}
  BY <1>5 DEF Made, Taken
<1>6. ASSUME NEW i \in 1..N, ~txs[i].skipped, NEW a
      PROVE  LedgerTx(a, txs[i].txid, tr[i]) = (a \ Taken(b, x, i)) \cup Made(b, x, i)
  <2>1. Range(tr[i].inputs) = Range(tr[i].inputs)
    BY DEF Range
  <2>2. Made(b, x, i) = {OutPointOf(KindRegular, txs[i].txid, k - 1) : k \in DOMAIN tr[i].outputs}
    BY <1>6 DEF Made
  <2>3. Taken(b, x, i) = Range(tr[i].inputs)
    BY <1>6 DEF Taken
  <2> QED BY <2>1, <2>2, <2>3 DEF LedgerTx
<1> HIDE DEF b, x, P, txs, tr, N, CB
<1>7. closed(0) = before \cup CB
  <2>1. 1..0 = {}
    OBVIOUS
  <2> QED BY <2>1 DEF MadeBy, TakenBy
<1>8. ASSUME NEW i \in 1..N
      PROVE  closed(i) = IF txs[i].skipped THEN closed(i - 1)
                         ELSE LedgerTx(closed(i - 1), txs[i].txid, tr[i])
  <2>1. i - 1 \in Nat /\ 1..i = (1..(i - 1)) \cup {i} /\ 1..(i - 1) \subseteq 1..N
    BY <1>0
  <2>2. /\ MadeBy(b, x, i) = MadeBy(b, x, i - 1) \cup Made(b, x, i)
        /\ TakenBy(b, x, i) = TakenBy(b, x, i - 1) \cup Taken(b, x, i)
    BY <2>1 DEF MadeBy, TakenBy
  <2>3. CASE txs[i].skipped
    BY <1>5, <2>2, <2>3
  <2>4. CASE ~txs[i].skipped
    <3>1. TakenBy(b, x, i) \cap Made(b, x, i) = {}
      <4> SUFFICES ASSUME NEW o \in TakenBy(b, x, i) PROVE o \notin Made(b, x, i)
        OBVIOUS
      <4>1. PICK k \in 1..i : o \in Taken(b, x, k)
        BY DEF TakenBy
      <4>2. k \in 1..N /\ k <= i
        BY <1>0
      <4> QED BY <1>3, <4>1, <4>2
    <3>2. LedgerTx(closed(i - 1), txs[i].txid, tr[i])
             = (closed(i - 1) \ Taken(b, x, i)) \cup Made(b, x, i)
      BY <1>6, <2>4, Zenon
    <3> QED BY <2>2, <2>4, <3>1, <3>2, Zenon
  <2> QED BY <2>3, <2>4
<1> HIDE DEF closed
<1> DEFINE r0 == [i \in 0..N |-> closed(i)]
<1>9. Is(r0)
  <2>1. ASSUME NEW i \in 0..N
        PROVE  closed(i) = IF i = 0 THEN before \cup CB
                           ELSE IF txs[i].skipped THEN r0[i - 1]
                           ELSE LedgerTx(r0[i - 1], txs[i].txid, tr[i])
    <3>1. CASE i = 0
      BY <1>7, <3>1
    <3>2. CASE i # 0
      <4>1. i \in 1..N /\ i - 1 \in 0..N
        BY <1>0, <3>2
      <4>2. r0[i - 1] = closed(i - 1)
        BY <4>1
      <4> HIDE DEF r0
      <4> QED BY <1>8, <3>2, <4>1, <4>2
    <3> QED BY <3>1, <3>2
  <2> QED BY <2>1
<1>10. Is(after)
  <2> HIDE DEF Is
  <2> QED BY <1>9
<1>11. \A i \in 0..N : after[i] = IF i = 0 THEN before \cup CB
                                ELSE IF txs[i].skipped THEN after[i - 1]
                                ELSE LedgerTx(after[i - 1], txs[i].txid, tr[i])
  <2>1. \A a : Is(a) => \A i \in 0..N : a[i] = IF i = 0 THEN before \cup CB
                                ELSE IF txs[i].skipped THEN a[i - 1]
                                ELSE LedgerTx(a[i - 1], txs[i].txid, tr[i])
    BY Zenon
  <2> HIDE DEF Is
  <2> QED BY <1>10, <2>1
<1> HIDE DEF Is, after
<1> DEFINE S == {m \in Nat : m <= N => after[m] = closed(m)}
<1>12. 0 \in S
  <2>1. 0 \in 0..N
    BY <1>0
  <2> QED BY <1>7, <1>11, <2>1
<1>13. ASSUME NEW m \in S PROVE m + 1 \in S
  <2> SUFFICES ASSUME m + 1 <= N PROVE after[m + 1] = closed(m + 1)
    OBVIOUS
  <2>1. m + 1 \in 0..N /\ m + 1 \in 1..N /\ m + 1 # 0 /\ (m + 1) - 1 = m /\ m <= N
    BY <1>0
  <2>2. after[m] = closed(m)
    BY <1>13, <2>1
  <2>3. after[m + 1] = IF txs[m + 1].skipped THEN after[m]
                       ELSE LedgerTx(after[m], txs[m + 1].txid, tr[m + 1])
    BY <1>11, <2>1
  <2>4. closed(m + 1) = IF txs[m + 1].skipped THEN closed(m)
                        ELSE LedgerTx(closed(m), txs[m + 1].txid, tr[m + 1])
    BY <1>8, <2>1
  <2> QED BY <2>2, <2>3, <2>4
<1>14. S \in SUBSET Nat
  OBVIOUS
<1>15. N \in S
  <2> HIDE DEF S
  <2> QED BY <1>0, <1>12, <1>13, <1>14, Induction, Zenon
<1>16. after[N] = ((before \cup CB) \cup MadeBy(b, x, N)) \ TakenBy(b, x, N)
  <2>1. N <= N
    BY <1>0
  <2> QED BY <1>15, <2>1 DEF closed
<1>17. Ledger(before, b, x) = (before \cup OutPointsOf(P.creates)) \ OutPointsOf(P.spends)
  BY <1>1, <1>2, <1>4, <1>16
<1> QED BY <1>17 DEF b, x, P

\* Store.Apply, which writes all creates of a block before all of its spends, ends with
\* the coins of a node that goes through the block in order, for a block of any size
\* in which a coin is taken only after it is made.
THEOREM PreparingBatchMatchesLedger ==
    ASSUME \A r \in RawBlocks : Prepares(r.block, r.index) => SpentInTurn(r.block, r.index)
    PROVE  PreparingSpec => []BatchMatchesLedger
<1>1. PreparingInv => BatchMatchesLedger
  <2> SUFFICES ASSUME PreparingInv, Prepares(given.block, given.index)
               PROVE  LET created == {c.outpoint : c \in Range(rows.creates)}
                          gone == {s.outpoint : s \in Range(rows.spends)}
                          before == gone \ created
                      IN  (before \cup created) \ gone = Ledger(before, given.block, given.index)
    BY DEF BatchMatchesLedger
  <2>1. /\ given \in RawBlocks /\ rows = Prepared(Hash, given.block, given.index)
        /\ SpentInTurn(given.block, given.index)
    BY DEF PreparingInv
  <2>2. /\ {c.outpoint : c \in Range(rows.creates)} = OutPointsOf(rows.creates)
        /\ {s.outpoint : s \in Range(rows.spends)} = OutPointsOf(rows.spends)
    BY DEF OutPointsOf
  <2>3. \A before : Ledger(before, given.block, given.index)
                       = (before \cup OutPointsOf(rows.creates)) \ OutPointsOf(rows.spends)
    BY <2>1, LedgerIs, Zenon
  <2> QED BY <2>2, <2>3
<1> QED BY <1>1, PreparingInvariant, PTL

-----------------------------------------------------------------------------
(***************************************************************************)
(* Decoders: every decoder gives the exact amount or refuses.              *)
(***************************************************************************)

Payload(p) ==
    /\ \A f \in DOMAIN p.fields : p.fields[f] \in Nat
    /\ p.form = "null" => DOMAIN p.fields = {}

\* Result d says what an output is worth, or that w does not fit an int64.
Says(d, w) == /\ d.ok <=> w <= MaxInt64
              /\ d.ok => d.value = w

\* A field reads as a natural number, 0 when the payload does not have it.
LEMMA FieldNat ==
    ASSUME NEW p, NEW f, Payload(p)
    PROVE  Field(p, f) \in Nat
BY DEF Payload, Field

\* A field that json.Unmarshal took is a uint64.
LEMMA FieldFits ==
    ASSUME NEW p, NEW type, NEW f \in type.fields, Payload(p), Unmarshals(p, type)
    PROVE  Field(p, f) \in 0..(Word - 1)
<1>1. 0 \in 0..(Word - 1) /\ Word \in Nat
  BY DecodersAssumption DEF Word
<1>2. QED
  BY <1>1 DEF Field, Payload, Unmarshals

\* larger returns one of its arguments, and no smaller one.
LEMMA LargerNat ==
    ASSUME NEW a \in Nat, NEW b \in Nat
    PROVE  larger(a, b) \in Nat /\ larger(a, b) >= a /\ larger(a, b) >= b
BY DEF larger

\* toSats returns the amount, or refuses it when it fits no int64.
LEMMA ToSatsSays ==
    ASSUME NEW v \in Nat, NEW type
    PROVE  Says(toSats(v, type), v)
<1>1. v > MaxInt64 <=> ~(v <= MaxInt64)
  BY DecodersAssumption
<1>2. QED
  BY <1>1 DEF toSats, Content, Err, Says

\* One addition modulo Word wraps exactly when the sum is smaller than its first
\* term, so the test total < amount finds every sum that wraps.
LEMMA WrapTest ==
    ASSUME NEW a \in 0..(Word - 1), NEW b \in 0..(Word - 1)
    PROVE  /\ a + b < Word => (a + b) % Word = a + b
           /\ (a + b) % Word < a <=> a + b >= Word
<1>1. Word \in Nat /\ Word > 0 /\ a \in Nat /\ b \in Nat
  BY DecodersAssumption DEF Word
<1>2. a + b < Word => (a + b) % Word = a + b
  BY <1>1
<1>3. a + b >= Word => (a + b) % Word = a + b - Word
  <2>1. SUFFICES ASSUME a + b >= Word
                 PROVE  (a + b) % Word = a + b - Word
    OBVIOUS
  <2>2. a + b - Word \in 0..(Word - 1)
    BY <1>1, <2>1
  <2>3. \A k \in Nat : k < Word => (Word + k) % Word = k
    BY <1>1, Z3
  <2>4. QED
    BY <1>1, <2>1, <2>2, <2>3
<1>4. QED
  BY <1>1, <1>2, <1>3

\* A withdrawal of every chain decodes to its payout plus its mainchain fee, the sum
\* taken without wrapping, and it is refused exactly when that sum does not fit an
\* int64: the test "total < value" and toSats leave no other case.
THEOREM WithdrawalExact ==
    ASSUME NEW p, Payload(p), Unmarshals(p, withdrawal)
    PROVE  LET w == Worth("Withdrawal", p) IN
           withdrawalValue(p) = IF w <= MaxInt64 THEN Content(w, "withdrawal") ELSE Err
<1> DEFINE amount == larger(Field(p, "value"), Field(p, "value_sats"))
           charge == larger(Field(p, "main_fee"), Field(p, "main_fee_sats"))
<1>1. amount \in 0..(Word - 1) /\ charge \in 0..(Word - 1)
  <2>1. /\ Field(p, "value") \in 0..(Word - 1)
        /\ Field(p, "value_sats") \in 0..(Word - 1)
        /\ Field(p, "main_fee") \in 0..(Word - 1)
        /\ Field(p, "main_fee_sats") \in 0..(Word - 1)
    BY FieldFits DEF withdrawal
  <2>2. QED
    BY <2>1 DEF larger
<1>2. Worth("Withdrawal", p) = amount + charge
  BY DEF Worth
<1>3. withdrawalValue(p) = IF (amount + charge) % Word < amount THEN Err
                           ELSE toSats((amount + charge) % Word, "withdrawal")
  BY DEF withdrawalValue
<1> HIDE DEF amount, charge
<1>4. MaxInt64 \in Nat /\ Word \in Nat /\ MaxInt64 < Word
  BY DecodersAssumption DEF Word
<1>5. CASE amount + charge < Word
  <2>1. (amount + charge) % Word = amount + charge
    BY <1>1, <1>5, WrapTest
  <2>2. ~((amount + charge) % Word < amount)
    BY <1>1, <1>5, WrapTest, <1>4
  <2>3. withdrawalValue(p) = toSats(amount + charge, "withdrawal")
    BY <1>3, <2>1, <2>2
  <2>4. amount + charge > MaxInt64 <=> ~(amount + charge <= MaxInt64)
    BY <1>1, <1>4
  <2>5. QED
    BY <1>2, <2>3, <2>4 DEF toSats
<1>6. CASE ~(amount + charge < Word)
  <2>1. (amount + charge) % Word < amount
    BY <1>1, <1>4, <1>6, WrapTest
  <2>2. ~(amount + charge <= MaxInt64)
    BY <1>1, <1>4, <1>6
  <2>3. QED
    BY <1>2, <1>3, <2>1, <2>2
<1>7. QED
  BY <1>5, <1>6

-----------------------------------------------------------------------------
(***************************************************************************)
(* The payloads, variant by variant.                                       *)
(***************************************************************************)

\* The reference worth of a payload is a natural number.
LEMMA WorthNat ==
    ASSUME NEW p, NEW tag, Payload(p)
    PROVE  Worth(tag, p) \in Nat
<1>1. \A f : Field(p, f) \in Nat
  BY FieldNat
<1>2. /\ larger(Field(p, "value"), Field(p, "value_sats")) \in Nat
      /\ larger(Field(p, "main_fee"), Field(p, "main_fee_sats")) \in Nat
  BY <1>1, LargerNat, Zenon
<1>3. QED
  BY <1>1, <1>2 DEF Worth

\* What a value, a pending swap and market funds decode to.
LEMMA AmountSays ==
    ASSUME NEW p, Payload(p)
    PROVE  /\ Says(valueOf(p), Worth("Value", p))
           /\ Says(valueOf(p), Worth("BitcoinSats", p))
           /\ Says(toSats(larger(Field(p, "value"), Field(p, "value_sats")), "swap_pending"),
                   Worth("SwapPending", p))
           /\ "amount" \in DOMAIN p.fields => Says(marketFundsValue(p), Worth("MarketFunds", p))
<1>1. \A f : Field(p, f) \in Nat
  BY FieldNat
<1>2. larger(Field(p, "value"), Field(p, "value_sats")) \in Nat
  BY <1>1, LargerNat
<1>3. /\ Worth("Value", p) = Field(p, "sats")
      /\ Worth("BitcoinSats", p) = Field(p, "sats")
      /\ Worth("SwapPending", p) = larger(Field(p, "value"), Field(p, "value_sats"))
      /\ Worth("MarketFunds", p) = Field(p, "amount")
  BY DEF Worth
<1>4. Says(valueOf(p), Field(p, "sats"))
  BY <1>1, ToSatsSays DEF valueOf
<1>5. Says(toSats(larger(Field(p, "value"), Field(p, "value_sats")), "swap_pending"),
           larger(Field(p, "value"), Field(p, "value_sats")))
  BY <1>2, ToSatsSays
<1>6. ASSUME "amount" \in DOMAIN p.fields
      PROVE  Says(marketFundsValue(p), Field(p, "amount"))
  <2>1. p.fields["amount"] = Field(p, "amount")
    BY <1>6 DEF Field
  <2>2. PICK type : marketFundsValue(p) = toSats(p.fields["amount"], type)
    BY <1>6 DEF marketFundsValue
  <2>3. QED
    BY <1>1, <2>1, <2>2, ToSatsSays
<1>7. QED
  BY <1>3, <1>4, <1>5, <1>6

\* withdrawalValue returns the worth of a withdrawal or refuses it.
LEMMA WithdrawalSays ==
    ASSUME NEW p, NEW tag \in {"Withdrawal", "BitcoinWithdrawal"},
           Payload(p), Unmarshals(p, withdrawal)
    PROVE  Says(withdrawalValue(p), Worth(tag, p))
<1>1. Worth(tag, p) = Worth("Withdrawal", p)
  BY DEF Worth
<1>2. Worth("Withdrawal", p) \in Nat
  BY WorthNat
<1>3. QED
  BY <1>1, <1>2, WithdrawalExact DEF Says, Content, Err

\* A payload of the right form that json.Unmarshal refuses has an amount that fits
\* no uint64, and so a worth that fits no int64.
LEMMA RefusedIsTooLarge ==
    ASSUME NEW p, Payload(p)
    PROVE  /\ p.form = "number" /\ ~Unmarshals(p, number) =>
                 Worth("Value", p) > MaxInt64 /\ Worth("BitcoinSats", p) > MaxInt64
           /\ p.form = "object" /\ ~Unmarshals(p, withdrawal) =>
                 Worth("Withdrawal", p) > MaxInt64 /\ Worth("BitcoinWithdrawal", p) > MaxInt64
           /\ p.form = "object" /\ ~Unmarshals(p, swapPending) =>
                 Worth("SwapPending", p) > MaxInt64
           /\ p.form = "object" /\ ~Unmarshals(p, marketFunds) =>
                 Worth("MarketFunds", p) > MaxInt64
<1>1. \A f : Field(p, f) \in Nat
  BY FieldNat
<1>2. MaxInt64 \in Nat /\ Word \in Nat /\ MaxInt64 < Word
  BY DecodersAssumption DEF Word
<1>3. ASSUME NEW type, p.form = type.form, ~Unmarshals(p, type)
      PROVE  \E f \in type.fields : Field(p, f) >= Word
  <2>1. PICK f \in DOMAIN p.fields \cap type.fields : ~(p.fields[f] < Word)
    BY <1>3 DEF Unmarshals
  <2>2. Field(p, f) = p.fields[f]
    BY <2>1 DEF Field
  <2>3. QED
    BY <1>1, <1>2, <2>1, <2>2
<1> DEFINE amount == larger(Field(p, "value"), Field(p, "value_sats"))
           charge == larger(Field(p, "main_fee"), Field(p, "main_fee_sats"))
<1>4. /\ amount \in Nat /\ amount >= Field(p, "value") /\ amount >= Field(p, "value_sats")
      /\ charge \in Nat /\ charge >= Field(p, "main_fee") /\ charge >= Field(p, "main_fee_sats")
  BY <1>1, LargerNat, Zenon
<1>5. /\ Worth("Value", p) = Field(p, "sats") /\ Worth("BitcoinSats", p) = Field(p, "sats")
      /\ Worth("Withdrawal", p) = amount + charge
      /\ Worth("BitcoinWithdrawal", p) = amount + charge
      /\ Worth("SwapPending", p) = amount
      /\ Worth("MarketFunds", p) = Field(p, "amount")
  BY DEF Worth
<1> HIDE DEF amount, charge
<1>6. ASSUME p.form = "number", ~Unmarshals(p, number)
      PROVE  Field(p, "sats") >= Word
  BY <1>3, <1>6 DEF number
<1>7. ASSUME p.form = "object", ~Unmarshals(p, withdrawal)
      PROVE  amount + charge >= Word
  <2>1. \E f \in withdrawal.fields : Field(p, f) >= Word
    BY <1>3, <1>7 DEF withdrawal
  <2>2. \/ Field(p, "value") >= Word \/ Field(p, "value_sats") >= Word
        \/ Field(p, "main_fee") >= Word \/ Field(p, "main_fee_sats") >= Word
    BY <2>1 DEF withdrawal
  <2>3. QED
    BY <1>1, <1>2, <1>4, <2>2
<1>8. ASSUME p.form = "object", ~Unmarshals(p, swapPending)
      PROVE  amount >= Word
  <2>1. \E f \in swapPending.fields : Field(p, f) >= Word
    BY <1>3, <1>8 DEF swapPending
  <2>2. Field(p, "value") >= Word \/ Field(p, "value_sats") >= Word
    BY <2>1 DEF swapPending
  <2>3. QED
    BY <1>1, <1>2, <1>4, <2>2
<1>9. ASSUME p.form = "object", ~Unmarshals(p, marketFunds)
      PROVE  Field(p, "amount") >= Word
  BY <1>3, <1>9 DEF marketFunds
<1>10. QED
  BY <1>1, <1>2, <1>4, <1>5, <1>6, <1>7, <1>8, <1>9

-----------------------------------------------------------------------------
(***************************************************************************)
(* The decoders, chain by chain.                                           *)
(***************************************************************************)

\* ExactOrRefused, of a result d of decoding content r on chain c.
Right(c, r, d) ==
    /\ d.ok => /\ d.value \in 0..MaxInt64
               /\ \E tag \in DOMAIN r.keys : d.value = Worth(tag, r.keys[tag])
    /\ \A tag \in DOMAIN r.keys :
          Writes(c, r, tag) => (d.ok <=> Worth(tag, r.keys[tag]) <= MaxInt64)

\* Every payload of an input has natural numbers for fields.
LEMMA InputPayloads ==
    ASSUME NEW r \in Inputs, NEW tag \in DOMAIN r.keys
    PROVE  Payload(r.keys[tag])
BY DecodersAssumption DEF Payload

\* A result that says what one of the variants is worth is right: a content that the
\* chain writes names no second one.
LEMMA SaysRight ==
    ASSUME NEW c, NEW r \in Inputs, NEW d, NEW tag \in DOMAIN r.keys,
           Says(d, Worth(tag, r.keys[tag]))
    PROVE  Right(c, r, d)
<1>1. Worth(tag, r.keys[tag]) \in Nat
  BY InputPayloads, WorthNat
<1>2. d.ok => d.value \in 0..MaxInt64 /\ d.value = Worth(tag, r.keys[tag])
  BY <1>1, DecodersAssumption DEF Says
<1>3. ASSUME NEW t \in DOMAIN r.keys, Writes(c, r, t)
      PROVE  t = tag
  BY <1>3 DEF Writes
<1>4. QED
  BY <1>2, <1>3 DEF Right, Says

\* A refusal is right when what the chain writes is too large.
LEMMA ErrRight ==
    ASSUME NEW c, NEW r \in Inputs,
           \A tag \in DOMAIN r.keys :
               Writes(c, r, tag) => Worth(tag, r.keys[tag]) > MaxInt64
    PROVE  Right(c, r, Err)
<1>1. ASSUME NEW tag \in DOMAIN r.keys, Writes(c, r, tag)
      PROVE  ~(Worth(tag, r.keys[tag]) <= MaxInt64)
  <2>1. Worth(tag, r.keys[tag]) \in Nat
    BY InputPayloads, WorthNat
  <2>2. QED
    BY <1>1, <2>1, DecodersAssumption
<1>2. QED
  BY <1>1 DEF Right, Err

\* A content that a chain writes is not a bare tag.
LEMMA WritesObject ==
    ASSUME NEW c \in Chain, NEW r \in Inputs, NEW tag \in DOMAIN r.keys, Writes(c, r, tag)
    PROVE  /\ ~r.bare /\ r.keys[tag].form \in {"number", "object"}
           /\ DOMAIN r.keys = {tag} /\ tag \in DOMAIN Bitcoin(c)
           /\ r.keys[tag].form = Bitcoin(c)[tag]
<1>1. DOMAIN r.keys = {tag} /\ tag \in DOMAIN Bitcoin(c) /\ r.keys[tag].form = Bitcoin(c)[tag]
  BY DEF Writes
<1>2. Bitcoin(c)[tag] \in {"number", "object"}
  BY <1>1 DEF Bitcoin, Chain
<1>3. ~r.bare
  <2>1. SUFFICES ASSUME r.bare PROVE FALSE
    OBVIOUS
  <2>2. \E t \in DOMAIN r.keys : DOMAIN r.keys = {t} /\ r.keys[t].form = "none"
    BY <2>1, DecodersAssumption
  <2>3. QED
    BY <1>1, <1>2, <2>2
<1>4. QED
  BY <1>1, <1>2, <1>3

\* DecodeContent of thunder (and of photon and zside) is right.
LEMMA ThunderRight ==
    ASSUME NEW c \in {"thunder", "photon", "zside"}, NEW r \in Inputs
    PROVE  Right(c, r, thunder(r))
<1> DEFINE struct == [Value |-> number, Withdrawal |-> withdrawal]
<1>1. Bitcoin(c) = [Value |-> "number", Withdrawal |-> "object"] /\ c \in Chain
  BY DEF Bitcoin, Chain
<1>2. \A tag \in DOMAIN r.keys : Payload(r.keys[tag])
  BY InputPayloads
<1>3. CASE ~StructDecodes(r, struct)
  <2>1. ASSUME NEW tag \in DOMAIN r.keys, Writes(c, r, tag)
        PROVE  Worth(tag, r.keys[tag]) > MaxInt64
    <3>1. /\ ~r.bare /\ DOMAIN r.keys = {tag} /\ tag \in {"Value", "Withdrawal"}
          /\ tag = "Value" => r.keys[tag].form = "number"
          /\ tag = "Withdrawal" => r.keys[tag].form = "object"
      BY <1>1, <2>1, WritesObject
    <3>2. ~Unmarshals(r.keys[tag], struct[tag])
      BY <1>3, <3>1 DEF StructDecodes
    <3>3. QED
      BY <1>2, <3>1, <3>2, RefusedIsTooLarge
  <2>2. thunder(r) = Err
    BY <1>3 DEF thunder
  <2>3. QED
    BY <2>1, <2>2, ErrRight
<1>4. CASE StructDecodes(r, struct) /\ Has(r, "Value")
  <2>1. thunder(r) = valueOf(r.keys["Value"]) /\ "Value" \in DOMAIN r.keys
    BY <1>4 DEF thunder, Has
  <2>2. QED
    BY <1>2, <2>1, AmountSays, SaysRight
<1>5. CASE StructDecodes(r, struct) /\ ~Has(r, "Value") /\ Has(r, "Withdrawal")
  <2>1. thunder(r) = withdrawalValue(r.keys["Withdrawal"]) /\ "Withdrawal" \in DOMAIN r.keys
    BY <1>5 DEF thunder, Has
  <2>2. Unmarshals(r.keys["Withdrawal"], withdrawal)
    BY <1>5, <2>1 DEF StructDecodes
  <2>3. Says(withdrawalValue(r.keys["Withdrawal"]), Worth("Withdrawal", r.keys["Withdrawal"]))
    BY <1>2, <2>1, <2>2, WithdrawalSays
  <2>4. QED
    BY <2>1, <2>3, SaysRight
<1>6. CASE StructDecodes(r, struct) /\ ~Has(r, "Value") /\ ~Has(r, "Withdrawal")
  <2>1. ASSUME NEW tag \in DOMAIN r.keys, Writes(c, r, tag)
        PROVE  FALSE
    <3>1. tag \in {"Value", "Withdrawal"} /\ r.keys[tag].form \in {"number", "object"}
      BY <1>1, <2>1, WritesObject
    <3>2. QED
      BY <1>6, <3>1 DEF Has
  <2>2. thunder(r) = Err
    BY <1>6 DEF thunder
  <2>3. QED
    BY <2>1, <2>2, ErrRight
<1>7. QED
  BY <1>3, <1>4, <1>5, <1>6

\* DecodeContent of coinshift is right.
LEMMA CoinshiftRight ==
    ASSUME NEW r \in Inputs
    PROVE  Right("coinshift", r, coinshift(r))
<1> DEFINE struct == [Value |-> number, SwapPending |-> swapPending, Withdrawal |-> withdrawal]
<1>1. /\ Bitcoin("coinshift") = [Value |-> "number", Withdrawal |-> "object",
                                 SwapPending |-> "object"]
      /\ "coinshift" \in Chain
  BY DEF Bitcoin, Chain
<1>2. \A tag \in DOMAIN r.keys : Payload(r.keys[tag])
  BY InputPayloads
<1>3. CASE ~StructDecodes(r, struct)
  <2>1. ASSUME NEW tag \in DOMAIN r.keys, Writes("coinshift", r, tag)
        PROVE  Worth(tag, r.keys[tag]) > MaxInt64
    <3>1. /\ ~r.bare /\ DOMAIN r.keys = {tag}
          /\ tag \in {"Value", "Withdrawal", "SwapPending"}
          /\ tag = "Value" => r.keys[tag].form = "number"
          /\ tag # "Value" => r.keys[tag].form = "object"
      BY <1>1, <2>1, WritesObject
    <3>2. ~Unmarshals(r.keys[tag], struct[tag])
      BY <1>3, <3>1 DEF StructDecodes
    <3>3. QED
      BY <1>2, <3>1, <3>2, RefusedIsTooLarge
  <2>2. coinshift(r) = Err
    BY <1>3 DEF coinshift
  <2>3. QED
    BY <2>1, <2>2, ErrRight
<1>4. CASE StructDecodes(r, struct) /\ Has(r, "Value")
  <2>1. coinshift(r) = valueOf(r.keys["Value"]) /\ "Value" \in DOMAIN r.keys
    BY <1>4 DEF coinshift, Has
  <2>2. QED
    BY <1>2, <2>1, AmountSays, SaysRight
<1>5. CASE StructDecodes(r, struct) /\ ~Has(r, "Value") /\ Has(r, "SwapPending")
  <2> DEFINE swap == r.keys["SwapPending"]
  <2>1. /\ coinshift(r) = toSats(larger(Field(swap, "value"), Field(swap, "value_sats")),
                                 "swap_pending")
        /\ "SwapPending" \in DOMAIN r.keys
    BY <1>5 DEF coinshift, Has
  <2>2. Says(coinshift(r), Worth("SwapPending", swap))
    BY <1>2, <2>1, AmountSays
  <2>3. QED
    BY <2>1, <2>2, SaysRight
<1>6. CASE /\ StructDecodes(r, struct) /\ ~Has(r, "Value") /\ ~Has(r, "SwapPending")
           /\ Has(r, "Withdrawal")
  <2>1. coinshift(r) = withdrawalValue(r.keys["Withdrawal"]) /\ "Withdrawal" \in DOMAIN r.keys
    BY <1>6 DEF coinshift, Has
  <2>2. Unmarshals(r.keys["Withdrawal"], withdrawal)
    BY <1>6, <2>1 DEF StructDecodes
  <2>3. Says(withdrawalValue(r.keys["Withdrawal"]), Worth("Withdrawal", r.keys["Withdrawal"]))
    BY <1>2, <2>1, <2>2, WithdrawalSays
  <2>4. QED
    BY <2>1, <2>3, SaysRight
<1>7. CASE /\ StructDecodes(r, struct) /\ ~Has(r, "Value") /\ ~Has(r, "SwapPending")
           /\ ~Has(r, "Withdrawal")
  <2>1. ASSUME NEW tag \in DOMAIN r.keys, Writes("coinshift", r, tag)
        PROVE  FALSE
    <3>1. /\ tag \in {"Value", "Withdrawal", "SwapPending"}
          /\ r.keys[tag].form \in {"number", "object"}
      BY <1>1, <2>1, WritesObject
    <3>2. QED
      BY <1>7, <3>1 DEF Has
  <2>2. coinshift(r) = Err
    BY <1>7 DEF coinshift
  <2>3. QED
    BY <2>1, <2>2, ErrRight
<1>8. QED
  BY <1>3, <1>4, <1>5, <1>6, <1>7

\* A content with one tag passes chain.Variant, which returns that tag.
LEMMA VariantOfOne ==
    ASSUME NEW r \in Inputs, VariantOK(r)
    PROVE  Variant(r) \in DOMAIN r.keys /\ DOMAIN r.keys = {Variant(r)}
<1>1. PICK tag : DOMAIN r.keys = {tag}
  <2>1. CASE r.bare
    BY <2>1, DecodersAssumption, Zenon
  <2>2. CASE ~r.bare
    BY <2>2 DEF VariantOK
  <2>3. QED
    BY <2>1, <2>2
<1>2. QED
  BY <1>1 DEF Variant

\* The one tag of a content is the one chain.Variant returns.
LEMMA OneIsVariant ==
    ASSUME NEW r \in Inputs, NEW tag, DOMAIN r.keys = {tag}
    PROVE  VariantOK(r) /\ Variant(r) = tag
BY DEF VariantOK, Variant

\* DecodeContent of bitnames and of bitassets is right.
LEMMA FilledOutputRight ==
    ASSUME NEW c \in {"bitnames", "bitassets"}, NEW r \in Inputs, NEW held,
           DOMAIN held \subseteq {"BitName", "BitNameReservation", "BitAsset", "BitAssetControl",
                                  "BitAssetReservation", "DutchAuctionReceipt"}
    PROVE  Right(c, r, FilledOutput(r, held))
<1> DEFINE tag == Variant(r)
           p == r.keys[tag]
<1>1. /\ Bitcoin(c) = [BitcoinSats |-> "number", Withdrawal |-> "object",
                       BitcoinWithdrawal |-> "object"]
      /\ c \in Chain
  BY DEF Bitcoin, Chain
<1>2. ASSUME NEW t \in DOMAIN r.keys, Writes(c, r, t)
      PROVE  /\ VariantOK(r) /\ tag = t /\ t \in {"BitcoinSats", "Withdrawal", "BitcoinWithdrawal"}
             /\ p.form = IF t = "BitcoinSats" THEN "number" ELSE "object"
  <2>1. DOMAIN r.keys = {t} /\ t \in DOMAIN Bitcoin(c) /\ r.keys[t].form = Bitcoin(c)[t]
    BY <1>1, <1>2, WritesObject
  <2>2. VariantOK(r) /\ tag = t
    BY <2>1, OneIsVariant
  <2>3. QED
    BY <1>1, <2>1, <2>2
<1>3. CASE ~VariantOK(r)
  <2>1. FilledOutput(r, held) = Err
    BY <1>3 DEF FilledOutput
  <2>2. QED
    BY <1>2, <1>3, <2>1, ErrRight
<1>4. CASE VariantOK(r)
  <2>1. tag \in DOMAIN r.keys /\ Payload(p)
    BY <1>4, VariantOfOne, InputPayloads
  <2>2. CASE tag = "BitcoinSats" /\ Unmarshals(p, number)
    <3>1. FilledOutput(r, held) = valueOf(p)
      BY <1>4, <2>2 DEF FilledOutput, Decoded
    <3>2. Says(valueOf(p), Worth(tag, p))
      BY <2>1, <2>2, AmountSays
    <3>3. QED
      BY <2>1, <3>1, <3>2, SaysRight
  <2>3. CASE tag \in {"Withdrawal", "BitcoinWithdrawal"} /\ Unmarshals(p, withdrawal)
    <3>1. FilledOutput(r, held) = withdrawalValue(p)
      BY <1>4, <2>3 DEF FilledOutput, Decoded
    <3>2. Says(withdrawalValue(p), Worth(tag, p))
      BY <2>1, <2>3, WithdrawalSays
    <3>3. QED
      BY <2>1, <3>1, <3>2, SaysRight
  <2>4. CASE \/ tag = "BitcoinSats" /\ ~Unmarshals(p, number)
             \/ tag \in {"Withdrawal", "BitcoinWithdrawal"} /\ ~Unmarshals(p, withdrawal)
    <3>1. FilledOutput(r, held) = Err
      BY <1>4, <2>4 DEF FilledOutput, Decoded
    <3>2. ASSUME NEW t \in DOMAIN r.keys, Writes(c, r, t)
          PROVE  Worth(t, r.keys[t]) > MaxInt64
      <4>1. tag = t /\ p.form = IF t = "BitcoinSats" THEN "number" ELSE "object"
        BY <1>2, <3>2
      <4>2. QED
        BY <2>1, <2>4, <4>1, RefusedIsTooLarge
    <3>3. QED
      BY <3>1, <3>2, ErrRight
  <2>5. CASE tag \in DOMAIN held
    <3>1. /\ FilledOutput(r, held) = Content(0, held[tag])
          /\ Worth(tag, p) = 0
      BY <1>4, <2>5 DEF FilledOutput, Worth
    <3>2. Says(FilledOutput(r, held), Worth(tag, p))
      BY <3>1, DecodersAssumption DEF Says, Content
    <3>3. QED
      BY <2>1, <3>2, SaysRight
  <2>6. CASE /\ tag \notin {"BitcoinSats", "Withdrawal", "BitcoinWithdrawal"}
             /\ tag \notin DOMAIN held
    <3>1. FilledOutput(r, held) = Err
      BY <1>4, <2>6 DEF FilledOutput
    <3>2. QED
      BY <1>2, <2>6, <3>1, ErrRight
  <2>7. QED
    BY <2>2, <2>3, <2>4, <2>5, <2>6
<1>5. QED
  BY <1>3, <1>4

\* DecodeContent of truthcoin is right.
LEMMA TruthcoinRight ==
    ASSUME NEW r \in Inputs
    PROVE  Right("truthcoin", r, truthcoin(r))
<1> DEFINE tag == Variant(r)
           p == r.keys[tag]
<1>1. /\ Bitcoin("truthcoin") = [Value |-> "number", Withdrawal |-> "object",
                                 MarketFunds |-> "object"]
      /\ "truthcoin" \in Chain
  BY DEF Bitcoin, Chain
<1>2. ASSUME NEW t \in DOMAIN r.keys, Writes("truthcoin", r, t)
      PROVE  /\ VariantOK(r) /\ tag = t /\ t \in {"Value", "Withdrawal", "MarketFunds"}
             /\ p.form = IF t = "Value" THEN "number" ELSE "object"
             /\ t = "MarketFunds" => "amount" \in DOMAIN p.fields
  <2>1. /\ DOMAIN r.keys = {t} /\ t \in DOMAIN Bitcoin("truthcoin")
        /\ r.keys[t].form = Bitcoin("truthcoin")[t]
    BY <1>1, <1>2, WritesObject
  <2>2. VariantOK(r) /\ tag = t
    BY <2>1, OneIsVariant
  <2>3. t = "MarketFunds" => "amount" \in DOMAIN r.keys[t].fields
    BY <1>2 DEF Writes
  <2>4. QED
    BY <1>1, <2>1, <2>2, <2>3
<1>3. CASE ~VariantOK(r)
  <2>1. truthcoin(r) = Err
    BY <1>3 DEF truthcoin
  <2>2. QED
    BY <1>2, <1>3, <2>1, ErrRight
<1>4. CASE VariantOK(r)
  <2>1. tag \in DOMAIN r.keys /\ Payload(p)
    BY <1>4, VariantOfOne, InputPayloads
  <2>2. CASE tag = "Value" /\ Unmarshals(p, number)
    <3>1. truthcoin(r) = valueOf(p)
      BY <1>4, <2>2 DEF truthcoin, Decoded
    <3>2. Says(valueOf(p), Worth(tag, p))
      BY <2>1, <2>2, AmountSays
    <3>3. QED
      BY <2>1, <3>1, <3>2, SaysRight
  <2>3. CASE tag = "Withdrawal" /\ Unmarshals(p, withdrawal)
    <3>1. truthcoin(r) = withdrawalValue(p)
      BY <1>4, <2>3 DEF truthcoin, Decoded
    <3>2. Says(withdrawalValue(p), Worth(tag, p))
      BY <2>1, <2>3, WithdrawalSays
    <3>3. QED
      BY <2>1, <3>1, <3>2, SaysRight
  <2>4. CASE tag = "MarketFunds" /\ Unmarshals(p, marketFunds) /\ "amount" \in DOMAIN p.fields
    <3>1. truthcoin(r) = marketFundsValue(p)
      BY <1>4, <2>4 DEF truthcoin, Decoded
    <3>2. Says(marketFundsValue(p), Worth(tag, p))
      BY <2>1, <2>4, AmountSays
    <3>3. QED
      BY <2>1, <3>1, <3>2, SaysRight
  <2>5. CASE \/ tag = "Value" /\ ~Unmarshals(p, number)
             \/ tag = "Withdrawal" /\ ~Unmarshals(p, withdrawal)
             \/ tag = "MarketFunds" /\ ~Unmarshals(p, marketFunds)
    <3>1. truthcoin(r) = Err
      BY <1>4, <2>5 DEF truthcoin, Decoded
    <3>2. ASSUME NEW t \in DOMAIN r.keys, Writes("truthcoin", r, t)
          PROVE  Worth(t, r.keys[t]) > MaxInt64
      <4>1. tag = t /\ p.form = IF t = "Value" THEN "number" ELSE "object"
        BY <1>2, <3>2
      <4>2. QED
        BY <2>1, <2>5, <4>1, RefusedIsTooLarge
    <3>3. QED
      BY <3>1, <3>2, ErrRight
  <2>6. CASE \/ tag = "MarketFunds" /\ Unmarshals(p, marketFunds) /\ "amount" \notin DOMAIN p.fields
             \/ tag \notin {"Value", "Withdrawal", "MarketFunds"}
    <3>1. truthcoin(r) = Err
      BY <1>4, <2>6 DEF truthcoin, Decoded, marketFundsValue
    <3>2. QED
      BY <1>2, <2>6, <3>1, ErrRight
  <2>7. QED
    BY <2>2, <2>3, <2>4, <2>5, <2>6
<1>5. QED
  BY <1>3, <1>4

\* DecodeContent of every chain is right.
LEMMA DecoderRight ==
    ASSUME NEW c \in Chain, NEW r \in Inputs
    PROVE  Right(c, r, Decoder(c, r))
<1>1. CASE c \in {"thunder", "photon", "zside"}
  BY <1>1, ThunderRight DEF Decoder
<1>2. CASE c = "coinshift"
  BY <1>2, CoinshiftRight DEF Decoder
<1>3. CASE c = "bitnames"
  BY <1>3, FilledOutputRight DEF Decoder, bitnames
<1>4. CASE c = "bitassets"
  BY <1>4, FilledOutputRight DEF Decoder, bitassets
<1>5. CASE c = "truthcoin"
  BY <1>5, TruthcoinRight DEF Decoder
<1>6. QED
  BY <1>1, <1>2, <1>3, <1>4, <1>5 DEF Chain

-----------------------------------------------------------------------------
DecodersInv ==
    /\ on \in Chain /\ input \in Inputs
    /\ content # Undecoded => content = Decoder(on, input)

\* For every width of the integers and every content, each DecodeContent returns
\* what the output is worth or refuses it.
THEOREM DecodersExact == DecodersSpec => []ExactOrRefused
<1>1. DecodersInit => DecodersInv
  BY DEF DecodersInit, DecodersInv
<1>2. DecodersInv /\ [DecodeContent]_decodersVars => DecodersInv'
  BY DEF DecodersInv, DecodeContent, decodersVars
<1>3. DecodersInv => ExactOrRefused
  <2>1. SUFFICES ASSUME DecodersInv, content # Undecoded
                 PROVE  Right(on, input, content)
    BY DEF ExactOrRefused, Right
  <2>2. QED
    BY <2>1, DecoderRight DEF DecodersInv
<1>4. QED
  BY <1>1, <1>2, <1>3, PTL DEF DecodersSpec
=============================================================================
