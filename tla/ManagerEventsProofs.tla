------------------------- MODULE ManagerEventsProofs -------------------------
(***************************************************************************)
(* What one event of a page leads to, for every page, however its values   *)
(* are nested, and every event: which targets are refreshed and in which   *)
(* order, what rules add, and what is announced.                           *)
(***************************************************************************)
EXTENDS ManagerEvents, WellFoundedInduction, FiniteSetTheorems, SequenceTheorems, TLAPS

----------------------------------------------------------------------------
(* Numbers, and loops over them.                                           *)

LEMMA LeastNumber ==
  ASSUME NEW S \in SUBSET Nat, S # {}
  PROVE  \E n \in S : \A m \in S : n <= m
<1>1. PICK n \in S : \A m \in S : <<m, n>> \notin OpToRel(<, Nat)
  BY NatLessThanWellFounded, WFMin
<1>2. ASSUME NEW m \in S PROVE n <= m
  <2>1. ~(m < n)
    BY <1>1 DEF OpToRel
  <2> QED BY <2>1
<1> QED BY <1>2

\* Induction, over a set of numbers.
LEMMA EveryNumber ==
  ASSUME NEW S, 0 \in S, \A n \in Nat : n \in S => n + 1 \in S
  PROVE  Nat \subseteq S
<1>1. SUFFICES ASSUME Nat \ S # {} PROVE FALSE
  OBVIOUS
<1>2. PICK m \in Nat \ S : \A k \in Nat \ S : m <= k
  <2>1. Nat \ S \in SUBSET Nat
    OBVIOUS
  <2> QED BY <1>1, <2>1, LeastNumber
<1>3. m - 1 \in Nat /\ (m - 1) + 1 = m
  BY <1>2
<1>4. m - 1 \in S
  BY <1>2, <1>3
<1> QED BY <1>2, <1>3, <1>4

\* f are the states of a loop of n turns that starts with a.
Turns(f, V, a, n, G) ==
  f \in [0 .. n -> V] /\ f[0] = a /\ \A i \in 1 .. n : f[i] = G[<<f[i - 1], i>>]

LEMMA Loop ==
  ASSUME NEW V, NEW a \in V, NEW n \in Nat, NEW G \in [V \X (1 .. n) -> V]
  PROVE  \E f : Turns(f, V, a, n, G)
<1> DEFINE Good(f, m) == /\ f \in [0 .. m -> V] /\ f[0] = a
                         /\ \A i \in 1 .. m : f[i] = G[<<f[i - 1], i>>]
           S == {m \in Nat : m <= n => \E f : Good(f, m)}
<1>1. 0 \in S
  <2>1. Good([i \in 0 .. 0 |-> a], 0)
    OBVIOUS
  <2> QED BY <2>1
<1>2. ASSUME NEW m \in Nat, m \in S PROVE m + 1 \in S
  <2>1. SUFFICES ASSUME m + 1 <= n PROVE \E g : Good(g, m + 1)
    OBVIOUS
  <2>2. PICK f : Good(f, m)
    BY <1>2, <2>1
  <2> DEFINE g == [i \in 0 .. m + 1 |-> IF i = m + 1 THEN G[<<f[m], m + 1>>] ELSE f[i]]
  <2>3. f[m] \in V /\ m + 1 \in 1 .. n /\ G[<<f[m], m + 1>>] \in V
    BY <2>1, <2>2
  <2>4. g \in [0 .. m + 1 -> V] /\ g[0] = a
    BY <2>2, <2>3
  <2>5. ASSUME NEW i \in 1 .. m + 1 PROVE g[i] = G[<<g[i - 1], i>>]
    <3>1. CASE i = m + 1
      <4>1. g[i] = G[<<f[m], m + 1>>] /\ g[i - 1] = f[m]
        BY <3>1
      <4> QED BY <3>1, <4>1
    <3>2. CASE i # m + 1
      <4>1. i \in 1 .. m /\ g[i] = f[i] /\ g[i - 1] = f[i - 1]
        BY <3>2
      <4> QED BY <2>2, <4>1
    <3> QED BY <3>1, <3>2
  <2> HIDE DEF g
  <2> QED BY <2>4, <2>5
<1>3. n \in S
  <2> HIDE DEF S
  <2> QED BY <1>1, <1>2, EveryNumber
<1> QED BY <1>3 DEF Turns

----------------------------------------------------------------------------
(* Sequences.                                                              *)

IsSeq(s) == s \in Seq(Range(s))

\* x stands in s somewhere before y.
Before(s, x, y) == \E i, j \in DOMAIN s : i < j /\ s[i] = x /\ s[j] = y

LEMMA SeqFacts ==
  ASSUME NEW s, IsSeq(s)
  PROVE  /\ Len(s) \in Nat /\ DOMAIN s = 1 .. Len(s)
         /\ \A i \in 1 .. Len(s) : s[i] \in Range(s)
         /\ \A x \in Range(s) : \E i \in 1 .. Len(s) : s[i] = x
BY DEF IsSeq, Range

LEMMA SeqIs ==
  ASSUME NEW S, NEW s \in Seq(S)
  PROVE  IsSeq(s) /\ Range(s) \subseteq S
BY DEF IsSeq, Range

LEMMA EmptyIs ==
  /\ IsSeq(<< >>) /\ Range(<< >>) = {} /\ Len(<< >>) = 0 /\ \A x, y : ~Before(<< >>, x, y)
BY DEF IsSeq, Range, Before

LEMMA Appended ==
  ASSUME NEW s, NEW z, IsSeq(s)
  PROVE  LET t == Append(s, z) IN
         /\ IsSeq(t) /\ Range(t) = Range(s) \cup {z}
         /\ Len(t) = Len(s) + 1 /\ t[Len(s) + 1] = z
         /\ \A i \in 1 .. Len(s) : t[i] = s[i]
         /\ \A x, y : Before(t, x, y) <=> Before(s, x, y) \/ (x \in Range(s) /\ y = z)
<1> DEFINE t == Append(s, z)
           n == Len(s)
           S == Range(s) \cup {z}
<1>1. s \in Seq(S) /\ n \in Nat /\ DOMAIN s = 1 .. n /\ \A i \in 1 .. n : s[i] \in Range(s)
  BY DEF IsSeq, Range
<1>2. /\ t \in Seq(S) /\ Len(t) = n + 1 /\ DOMAIN t = 1 .. n + 1
      /\ t[n + 1] = z /\ \A i \in 1 .. n : t[i] = s[i]
  BY <1>1
<1> HIDE DEF t, n
<1>3. Range(t) = S
  <2>1. Range(t) \subseteq S
    BY <1>2 DEF Range
  <2>2. z \in Range(t)
    BY <1>1, <1>2 DEF Range
  <2>3. ASSUME NEW y \in Range(s) PROVE y \in Range(t)
    <3>1. PICK i \in 1 .. n : s[i] = y
      BY <1>1 DEF Range
    <3>2. i \in DOMAIN t /\ t[i] = y
      BY <1>1, <1>2, <3>1
    <3> QED BY <3>2 DEF Range
  <2> QED BY <2>1, <2>2, <2>3
<1>4. ASSUME NEW x, NEW y PROVE Before(t, x, y) <=> Before(s, x, y) \/ (x \in Range(s) /\ y = z)
  <2>1. ASSUME Before(t, x, y) PROVE Before(s, x, y) \/ (x \in Range(s) /\ y = z)
    <3>1. PICK i, j \in 1 .. n + 1 : i < j /\ t[i] = x /\ t[j] = y
      BY <1>2, <2>1 DEF Before
    <3>2. i \in 1 .. n /\ x = s[i]
      BY <1>1, <1>2, <3>1
    <3>3. CASE j = n + 1
      BY <1>1, <1>2, <3>1, <3>2, <3>3
    <3>4. CASE j # n + 1
      <4>1. j \in 1 .. n /\ y = s[j]
        BY <1>1, <1>2, <3>1, <3>4
      <4> QED BY <1>1, <3>1, <3>2, <4>1 DEF Before
    <3> QED BY <3>3, <3>4
  <2>2. ASSUME Before(s, x, y) PROVE Before(t, x, y)
    <3>1. PICK i, j \in 1 .. n : i < j /\ s[i] = x /\ s[j] = y
      BY <1>1, <2>2 DEF Before
    <3>2. i \in 1 .. n + 1 /\ j \in 1 .. n + 1 /\ t[i] = x /\ t[j] = y
      BY <1>1, <1>2, <3>1
    <3> QED BY <1>2, <3>1, <3>2 DEF Before
  <2>3. ASSUME x \in Range(s), y = z PROVE Before(t, x, y)
    <3>1. PICK i \in 1 .. n : s[i] = x
      BY <1>1, <2>3 DEF Range
    <3>2. i \in 1 .. n + 1 /\ n + 1 \in 1 .. n + 1 /\ i < n + 1 /\ t[i] = x
      BY <1>1, <1>2, <3>1
    <3> QED BY <1>2, <2>3, <3>2 DEF Before
  <2> QED BY <2>1, <2>2, <2>3
<1> QED BY <1>2, <1>3, <1>4 DEF IsSeq, t, n

LEMMA Joined ==
  ASSUME NEW s, NEW t, IsSeq(s), IsSeq(t)
  PROVE  LET u == s \o t IN
         /\ IsSeq(u) /\ Range(u) = Range(s) \cup Range(t)
         /\ \A x, y : Before(u, x, y) <=> \/ Before(s, x, y) \/ Before(t, x, y)
                                          \/ x \in Range(s) /\ y \in Range(t)
<1> DEFINE u == s \o t
           n == Len(s)
           m == Len(t)
           S == Range(s) \cup Range(t)
<1>1. /\ s \in Seq(S) /\ n \in Nat /\ DOMAIN s = 1 .. n /\ \A i \in 1 .. n : s[i] \in Range(s)
      /\ t \in Seq(S) /\ m \in Nat /\ DOMAIN t = 1 .. m /\ \A i \in 1 .. m : t[i] \in Range(t)
  BY DEF IsSeq, Range
<1>2. /\ u \in Seq(S) /\ DOMAIN u = 1 .. n + m
      /\ \A i \in 1 .. n + m : u[i] = IF i <= n THEN s[i] ELSE t[i - n]
  BY <1>1
<1> HIDE DEF u, n, m
<1>3. /\ \A i \in 1 .. n : i \in 1 .. n + m /\ u[i] = s[i]
      /\ \A i \in 1 .. m : i + n \in 1 .. n + m /\ u[i + n] = t[i]
  BY <1>1, <1>2
<1>4. \A i \in 1 .. n + m : \/ i \in 1 .. n /\ u[i] = s[i]
                            \/ i > n /\ i - n \in 1 .. m /\ u[i] = t[i - n]
  BY <1>1, <1>2
<1>5. Range(u) = S
  <2>1. Range(u) \subseteq S
    BY <1>1, <1>2, <1>4 DEF Range
  <2>2. Range(s) \subseteq Range(u)
    BY <1>1, <1>2, <1>3 DEF Range
  <2>3. ASSUME NEW y \in Range(t) PROVE y \in Range(u)
    <3>1. PICK i \in 1 .. m : t[i] = y
      BY <1>1 DEF Range
    <3> QED BY <1>2, <1>3, <3>1 DEF Range
  <2> QED BY <2>1, <2>2, <2>3
<1>6. ASSUME NEW x, NEW y
      PROVE  Before(u, x, y) <=> \/ Before(s, x, y) \/ Before(t, x, y)
                                 \/ x \in Range(s) /\ y \in Range(t)
  <2>1. ASSUME Before(u, x, y)
        PROVE  Before(s, x, y) \/ Before(t, x, y) \/ (x \in Range(s) /\ y \in Range(t))
    <3>1. PICK i, j \in 1 .. n + m : i < j /\ u[i] = x /\ u[j] = y
      BY <1>2, <2>1 DEF Before
    <3>2. CASE i \in 1 .. n /\ j \in 1 .. n
      BY <1>1, <1>3, <3>1, <3>2 DEF Before
    <3>3. CASE i > n /\ i - n \in 1 .. m /\ j > n /\ j - n \in 1 .. m
      <4>1. i - n < j - n /\ t[i - n] = x /\ t[j - n] = y
        BY <1>1, <1>2, <3>1, <3>3
      <4> QED BY <1>1, <3>3, <4>1 DEF Before
    <3>4. CASE i \in 1 .. n /\ j > n /\ j - n \in 1 .. m
      <4>1. s[i] = x /\ t[j - n] = y
        BY <1>1, <1>2, <3>1, <3>4
      <4> QED BY <1>1, <3>4, <4>1
    <3> QED BY <1>1, <1>4, <3>1, <3>2, <3>3, <3>4
  <2>2. ASSUME Before(s, x, y) PROVE Before(u, x, y)
    <3>1. PICK i, j \in 1 .. n : i < j /\ s[i] = x /\ s[j] = y
      BY <1>1, <2>2 DEF Before
    <3> QED BY <1>2, <1>3, <3>1 DEF Before
  <2>3. ASSUME Before(t, x, y) PROVE Before(u, x, y)
    <3>1. PICK i, j \in 1 .. m : i < j /\ t[i] = x /\ t[j] = y
      BY <1>1, <2>3 DEF Before
    <3>2. i + n < j + n
      BY <1>1, <3>1
    <3> QED BY <1>2, <1>3, <3>1, <3>2 DEF Before
  <2>4. ASSUME x \in Range(s), y \in Range(t) PROVE Before(u, x, y)
    <3>1. PICK i \in 1 .. n : s[i] = x
      BY <1>1, <2>4 DEF Range
    <3>2. PICK j \in 1 .. m : t[j] = y
      BY <1>1, <2>4 DEF Range
    <3>3. i < j + n
      BY <1>1, <3>1, <3>2
    <3> QED BY <1>2, <1>3, <3>1, <3>2, <3>3 DEF Before
  <2> QED BY <2>1, <2>2, <2>3, <2>4
<1> QED BY <1>2, <1>5, <1>6 DEF IsSeq, u

\* What Kept keeps, and in which order.
LEMMA KeptIs ==
  ASSUME NEW s, NEW S, IsSeq(s)
  PROVE  /\ IsSeq(Kept(s, S)) /\ Range(Kept(s, S)) = Range(s) \cap S
         /\ \A x, y : Before(Kept(s, S), x, y) <=> x \in S /\ y \in S /\ Before(s, x, y)
<1> DEFINE n == Len(s)
           V == Seq(Range(s))
           Good(f) == f = [i \in 0 .. n |->
                             IF i = 0 THEN << >>
                             ELSE IF s[i] \in S THEN Append(f[i - 1], s[i]) ELSE f[i - 1]]
<1>1. n \in Nat /\ DOMAIN s = 1 .. n /\ \A i \in 1 .. n : s[i] \in Range(s)
  BY SeqFacts
<1>2. \E f : Good(f)
  <2> DEFINE G == [x \in V \X (1 .. n) |->
                     IF s[x[2]] \in S THEN Append(x[1], s[x[2]]) ELSE x[1]]
           none == << >>
  <2>1. G \in [V \X (1 .. n) -> V] /\ none \in V
    BY <1>1
  <2>2a. PICK f : Turns(f, V, none, n, G)
    <3> HIDE DEF G, V, n, none
    <3> QED BY <1>1, <2>1, Loop
  <2>2. f \in [0 .. n -> V] /\ f[0] = none /\ \A i \in 1 .. n : f[i] = G[<<f[i - 1], i>>]
    BY <2>2a DEF Turns
  <2>3. ASSUME NEW i \in 1 .. n
        PROVE  f[i] = IF s[i] \in S THEN Append(f[i - 1], s[i]) ELSE f[i - 1]
    <3>1. f[i - 1] \in V
      BY <1>1, <2>2
    <3> HIDE DEF V
    <3> QED BY <2>2, <3>1
  <2>4. ASSUME NEW i \in 0 .. n
        PROVE  f[i] = IF i = 0 THEN << >>
                      ELSE IF s[i] \in S THEN Append(f[i - 1], s[i]) ELSE f[i - 1]
    <3>1. i = 0 \/ i \in 1 .. n
      BY <1>1
    <3> QED BY <2>2, <2>3, <3>1
  <2>5. f = [i \in 0 .. n |-> f[i]]
    BY <2>2
  <2>6. Good(f)
    BY <2>4, <2>5
  <2> QED BY <2>6
<1>3. PICK f : Good(f) /\ Kept(s, S) = f[n]
  BY <1>2 DEF Kept
<1> DEFINE Upto(i) == {s[j] : j \in 1 .. i} \cap S
           First(i, x, y) == \E j, k \in 1 .. i : j < k /\ s[j] = x /\ s[k] = y
           Fine(i) == /\ IsSeq(f[i]) /\ Range(f[i]) = Upto(i)
                      /\ \A x, y : Before(f[i], x, y) <=> x \in S /\ y \in S /\ First(i, x, y)
           N == {i \in Nat : i <= n => Fine(i)}
<1>4. 0 \in N
  <2>1. f[0] = << >>
    BY <1>1, <1>3
  <2>2. Upto(0) = {} /\ \A x, y : ~First(0, x, y)
    OBVIOUS
  <2> QED BY <2>1, <2>2, EmptyIs
<1>5. ASSUME NEW i \in Nat, i \in N PROVE i + 1 \in N
  <2> DEFINE k == i + 1
  <2>1. SUFFICES ASSUME k <= n PROVE Fine(k)
    OBVIOUS
  <2>2. Fine(i)
    BY <1>5, <2>1
  <2>3. k \in 1 .. n /\ k - 1 = i
    BY <1>1, <2>1
  <2>4. f[k] = IF s[k] \in S THEN Append(f[i], s[k]) ELSE f[i]
    <3>1. k \in 0 .. n /\ k # 0
      BY <1>1, <2>3
    <3> HIDE DEF k
    <3> QED BY <1>3, <2>3, <3>1
  <2>5. 1 .. k = 1 .. i \cup {k} /\ \A j \in 1 .. i : j < k
    OBVIOUS
  <2> HIDE DEF k
  <2>6. Upto(k) = Upto(i) \cup ({s[k]} \cap S)
    BY <2>5
  <2>7. ASSUME NEW x, NEW y
        PROVE  First(k, x, y) <=> First(i, x, y) \/ ((\E j \in 1 .. i : s[j] = x) /\ y = s[k])
    <3>1. ~ k < k /\ \A j \in 1 .. i : ~ k < j
      BY <2>3
    <3> QED BY <2>5, <3>1
  <2>8. CASE s[k] \in S
    <3>1. f[k] = Append(f[i], s[k])
      BY <2>4, <2>8
    <3>2. IsSeq(f[k]) /\ Range(f[k]) = Range(f[i]) \cup {s[k]}
      BY <2>2, <3>1, Appended
    <3>3. \A x, y : Before(f[k], x, y) <=> Before(f[i], x, y) \/ (x \in Range(f[i]) /\ y = s[k])
      BY <2>2, <3>1, Appended
    <3>4. \A x : x \in Range(f[i]) <=> x \in S /\ \E j \in 1 .. i : s[j] = x
      BY <2>2
    <3>5. Range(f[k]) = Upto(k)
      BY <2>2, <2>6, <2>8, <3>2
    <3> HIDE DEF First, Upto
    <3> QED BY <2>2, <2>7, <2>8, <3>2, <3>3, <3>4, <3>5
  <2>9. CASE s[k] \notin S
    <3>1. f[k] = f[i]
      BY <2>4, <2>9
    <3> HIDE DEF First
    <3> QED BY <2>2, <2>6, <2>7, <2>9, <3>1
  <2> QED BY <2>8, <2>9
<1>6. Fine(n)
  <2>1. n \in N
    <3> HIDE DEF N
    <3> QED BY <1>1, <1>4, <1>5, EveryNumber
  <2> QED BY <1>1, <2>1
<1>7. Range(s) = {s[j] : j \in 1 .. n}
  BY <1>1 DEF Range
<1>8. \A x, y : Before(s, x, y) <=> First(n, x, y)
  BY <1>1 DEF Before
<1>9. Kept(s, S) = f[n]
  BY <1>3
<1>10. Range(f[n]) = Range(s) \cap S
  BY <1>6, <1>7
<1> HIDE DEF First, Upto, Good, n
<1> QED BY <1>6, <1>8, <1>9, <1>10

\* What Enqueue adds.
LEMMA EnqueueIs ==
  ASSUME NEW q, NEW refs, IsSeq(q), IsSeq(refs)
  PROVE  LET r == Enqueue(q, refs) IN
         /\ IsSeq(r) /\ Range(r) = Range(q) \cup Range(refs)
         /\ Len(q) <= Len(r) /\ \A j \in 1 .. Len(q) : r[j] = q[j]
<1> DEFINE n == Len(refs)
           V == Seq(Range(q) \cup Range(refs))
           Next1(before, i) == IF refs[i] \in Range(before) THEN before ELSE Append(before, refs[i])
           Good(f) == f = [i \in 0 .. n |->
                             IF i = 0 THEN q
                             ELSE LET before == f[i - 1]
                                  IN  IF refs[i] \in Range(before) THEN before
                                      ELSE Append(before, refs[i])]
<1>1. n \in Nat /\ \A i \in 1 .. n : refs[i] \in Range(refs)
  BY SeqFacts
<1>2. \E f : Good(f)
  <2> DEFINE G == [x \in V \X (1 .. n) |->
                     IF refs[x[2]] \in Range(x[1]) THEN x[1] ELSE Append(x[1], refs[x[2]])]
  <2>1. G \in [V \X (1 .. n) -> V] /\ q \in V
    <3>1. q \in V
      BY DEF IsSeq
    <3>2. ASSUME NEW x \in V \X (1 .. n) PROVE G[x] \in V
      <4>1. x[1] \in V /\ refs[x[2]] \in Range(refs)
        BY <1>1
      <4> QED BY <4>1
    <3> QED BY <3>1, <3>2
  <2>2a. PICK f : Turns(f, V, q, n, G)
    <3> HIDE DEF G, V, n
    <3> QED BY <1>1, <2>1, Loop
  <2>2. f \in [0 .. n -> V] /\ f[0] = q /\ \A i \in 1 .. n : f[i] = G[<<f[i - 1], i>>]
    BY <2>2a DEF Turns
  <2>3. ASSUME NEW i \in 1 .. n PROVE f[i] = Next1(f[i - 1], i)
    <3>1. f[i - 1] \in V
      BY <1>1, <2>2
    <3> HIDE DEF V
    <3> QED BY <2>2, <3>1
  <2>4. ASSUME NEW i \in 0 .. n PROVE f[i] = IF i = 0 THEN q ELSE Next1(f[i - 1], i)
    <3>1. i = 0 \/ i \in 1 .. n
      BY <1>1
    <3> QED BY <2>2, <2>3, <3>1
  <2>5. f = [i \in 0 .. n |-> f[i]]
    BY <2>2
  <2>6. Good(f)
    BY <2>4, <2>5
  <2> QED BY <2>6
<1>3. PICK f : Good(f) /\ Enqueue(q, refs) = f[n]
  BY <1>2 DEF Enqueue
<1> DEFINE Upto(i) == Range(q) \cup {refs[j] : j \in 1 .. i}
           Fine(i) == /\ IsSeq(f[i]) /\ Range(f[i]) = Upto(i)
                      /\ Len(q) <= Len(f[i]) /\ \A j \in 1 .. Len(q) : f[i][j] = q[j]
           N == {i \in Nat : i <= n => Fine(i)}
<1>4. 0 \in N
  <2>1. f[0] = q
    BY <1>1, <1>3
  <2>2. Upto(0) = Range(q)
    OBVIOUS
  <2>3. Len(q) \in Nat
    BY SeqFacts
  <2> QED BY <2>1, <2>2, <2>3
<1>5. ASSUME NEW i \in Nat, i \in N PROVE i + 1 \in N
  <2> DEFINE k == i + 1
  <2>1. SUFFICES ASSUME k <= n PROVE Fine(k)
    OBVIOUS
  <2>2. Fine(i)
    BY <1>5, <2>1
  <2>3. k \in 0 .. n /\ k # 0 /\ k - 1 = i /\ 1 .. k = 1 .. i \cup {k}
    BY <1>1, <2>1
  <2> HIDE DEF k
  <2>4. f[k] = IF refs[k] \in Range(f[i]) THEN f[i] ELSE Append(f[i], refs[k])
    BY <1>3, <2>3
  <2>5. Upto(k) = Upto(i) \cup {refs[k]}
    BY <2>3
  <2>6. CASE refs[k] \in Range(f[i])
    BY <2>2, <2>4, <2>5, <2>6
  <2>7. CASE refs[k] \notin Range(f[i])
    <3>1. f[k] = Append(f[i], refs[k])
      BY <2>4, <2>7
    <3>2. /\ IsSeq(f[k]) /\ Range(f[k]) = Range(f[i]) \cup {refs[k]}
          /\ Len(f[k]) = Len(f[i]) + 1 /\ \A j \in 1 .. Len(f[i]) : f[k][j] = f[i][j]
      BY <2>2, <3>1, Appended
    <3>3. Len(f[i]) \in Nat /\ Len(q) \in Nat
      BY <2>2, SeqFacts
    <3>4. Len(q) <= Len(f[k]) /\ \A j \in 1 .. Len(q) : f[k][j] = q[j]
      BY <2>2, <3>2, <3>3
    <3> QED BY <2>2, <2>5, <3>2, <3>4
  <2> QED BY <2>6, <2>7
<1>6. Fine(n)
  <2>1. n \in N
    <3> HIDE DEF N
    <3> QED BY <1>1, <1>4, <1>5, EveryNumber
  <2> QED BY <1>1, <2>1
<1>7. Range(refs) = {refs[j] : j \in 1 .. n}
  BY SeqFacts DEF Range
<1> QED BY <1>3, <1>6, <1>7

\* A sequence whose members are in S.
LEMMA IsSeqOver ==
  ASSUME NEW s, NEW S, IsSeq(s), Range(s) \subseteq S
  PROVE  s \in Seq(S)
BY SeqMonotonic DEF IsSeq

LEMMA NonEmpty ==
  ASSUME NEW s, IsSeq(s), Range(s) # {}
  PROVE  s[1] \in Range(s) /\ Len(s) > 0
<1>1. PICK x : x \in Range(s)
  OBVIOUS
<1>2. Len(s) \in Nat /\ \A i \in 1 .. Len(s) : s[i] \in Range(s)
  BY SeqFacts
<1>3. PICK i \in 1 .. Len(s) : s[i] = x
  BY <1>1, SeqFacts
<1> QED BY <1>2, <1>3

LEMMA RangeFinite ==
  ASSUME NEW s, IsSeq(s)
  PROVE  IsFiniteSet(Range(s))
<1> DEFINE S == 1 .. Len(s)
           f == [i \in S |-> s[i]]
<1>1. Len(s) \in Nat /\ DOMAIN s = S
  BY SeqFacts
<1>2. IsFiniteSet(S)
  BY <1>1, FS_Interval
<1>3. f \in Surjection(S, Range(s))
  BY <1>1 DEF Surjection, Range
<1> HIDE DEF f, S
<1> QED BY <1>2, <1>3, FS_Surjection

\* Where nothing stands before itself, what stands before y stands before all
\* that y stands before; and two members stand one before the other.
LEMMA BeforeTransitive ==
  ASSUME NEW s, IsSeq(s), \A x : ~Before(s, x, x),
         NEW x, NEW y, NEW z, Before(s, x, y), Before(s, y, z)
  PROVE  Before(s, x, z)
<1>1. DOMAIN s = 1 .. Len(s) /\ Len(s) \in Nat
  BY SeqFacts
<1>2. PICK i, j \in 1 .. Len(s) : i < j /\ s[i] = x /\ s[j] = y
  BY <1>1 DEF Before
<1>3. PICK k, l \in 1 .. Len(s) : k < l /\ s[k] = y /\ s[l] = z
  BY <1>1 DEF Before
<1>4. ~(j < k) /\ ~(k < j)
  BY <1>1, <1>2, <1>3 DEF Before
<1>5. i < l
  BY <1>1, <1>2, <1>3, <1>4
<1> QED BY <1>1, <1>2, <1>3, <1>5 DEF Before

LEMMA BeforeTotal ==
  ASSUME NEW s, IsSeq(s), NEW x \in Range(s), NEW y \in Range(s), x # y
  PROVE  Before(s, x, y) \/ Before(s, y, x)
<1>1. DOMAIN s = 1 .. Len(s) /\ Len(s) \in Nat
  BY SeqFacts
<1>2. PICK i, j \in 1 .. Len(s) : s[i] = x /\ s[j] = y
  BY SeqFacts
<1>3. i < j \/ j < i
  BY <1>1, <1>2
<1> QED BY <1>1, <1>2, <1>3 DEF Before

LEMMA BeforeIn ==
  ASSUME NEW s, NEW x, NEW y, Before(s, x, y)
  PROVE  x \in Range(s) /\ y \in Range(s)
BY DEF Before, Range

----------------------------------------------------------------------------
(* Stable order.                                                           *)

LEMMA InOrderIs ==
  ASSUME NEW S
  PROVE  /\ IsSeq(InOrder(S)) /\ Range(InOrder(S)) = S \cap Target
         /\ \A x : ~Before(InOrder(S), x, x)
<1>1. IsSeq(Targets)
  BY TargetsAssumption DEF IsSeq, Target
<1>2. ASSUME NEW x, Before(Targets, x, x) PROVE FALSE
  <2>1. PICK i, j \in DOMAIN Targets : i < j /\ Targets[i] = x /\ Targets[j] = x
    BY <1>2 DEF Before
  <2>2. i = j
    BY <2>1, TargetsAssumption DEF IsInjective
  <2>3. i \in Nat /\ j \in Nat
    BY <1>1, SeqFacts
  <2> QED BY <2>1, <2>2, <2>3
<1> QED BY <1>1, <1>2, KeptIs DEF InOrder, Target

LEMMA KeysInOrderIs ==
  ASSUME NEW S
  PROVE  IsSeq(KeysInOrder(S)) /\ Range(KeysInOrder(S)) = S \cap StateKey
<1>1. IsSeq(StateKeys)
  BY TargetsAssumption DEF IsSeq, StateKey
<1> QED BY <1>1, KeptIs DEF KeysInOrder, StateKey

LEMMA TargetFinite == IsFiniteSet(Target)
<1>1. IsSeq(Targets)
  BY TargetsAssumption DEF IsSeq, Target
<1> QED BY <1>1, RangeFinite DEF Target

\* One list after the other is enqueued.
LEMMA EnqueueEach ==
  ASSUME NEW n \in Nat, NEW L \in [1 .. n -> Seq(Target)]
  PROVE  \E f \in [0 .. n -> Seq(Target)] :
           /\ f[0] = << >>
           /\ \A i \in 1 .. n : /\ f[i] = Enqueue(f[i - 1], L[i])
                              /\ Range(f[i]) = Range(f[i - 1]) \cup Range(L[i])
<1> DEFINE V == Seq(Target)
           none == << >>
           G == [x \in V \X (1 .. n) |-> Enqueue(x[1], L[x[2]])]
<1>1. ASSUME NEW q \in V, NEW r \in V
      PROVE  Enqueue(q, r) \in V /\ Range(Enqueue(q, r)) = Range(q) \cup Range(r)
  <2>1. IsSeq(q) /\ Range(q) \subseteq Target /\ IsSeq(r) /\ Range(r) \subseteq Target
    BY SeqIs
  <2>2. IsSeq(Enqueue(q, r)) /\ Range(Enqueue(q, r)) = Range(q) \cup Range(r)
    BY <2>1, EnqueueIs
  <2>3. Range(Enqueue(q, r)) \subseteq Target
    BY <2>1, <2>2
  <2> QED BY <2>2, <2>3, IsSeqOver
<1>2. none \in V
  OBVIOUS
<1>3. G \in [V \X (1 .. n) -> V]
  <2>1. ASSUME NEW x \in V \X (1 .. n) PROVE Enqueue(x[1], L[x[2]]) \in V
    <3>1. x[1] \in V /\ L[x[2]] \in V
      OBVIOUS
    <3> HIDE DEF V
    <3> QED BY <1>1, <3>1
  <2> HIDE DEF V
  <2> QED BY <2>1
<1>4a. PICK f : Turns(f, V, none, n, G)
  <2> HIDE DEF G, V, none
  <2> QED BY <1>2, <1>3, Loop
<1>4. f \in [0 .. n -> V] /\ f[0] = none /\ \A i \in 1 .. n : f[i] = G[<<f[i - 1], i>>]
  BY <1>4a DEF Turns
<1>5. ASSUME NEW i \in 1 .. n
      PROVE  /\ f[i] = Enqueue(f[i - 1], L[i])
             /\ Range(f[i]) = Range(f[i - 1]) \cup Range(L[i])
  <2>1. f[i - 1] \in V /\ L[i] \in V
    BY <1>4
  <2> HIDE DEF V
  <2> QED BY <1>1, <1>4, <2>1
<1> QED BY <1>4, <1>5

\* What planRefresh starts from.
LEMMA RootsAre ==
  ASSUME NEW p, NEW e
  PROVE  /\ IsSeq(Roots(p, e))
         /\ e.type = "state.changed" =>
              Range(Roots(p, e)) = UNION {Readers(p, k) \cap Target : k \in e.keys \cap StateKey}
         /\ e.type # "state.changed" => Range(Roots(p, e)) = p.onSuccess[e.action] \cap Target
<1>1. CASE e.type # "state.changed"
  <2>1. Roots(p, e) = Enqueue(<< >>, InOrder(p.onSuccess[e.action]))
    BY <1>1 DEF Roots
  <2>2. IsSeq(<< >>) /\ Range(<< >>) = {}
    BY EmptyIs
  <2> DEFINE none == << >>
             more == InOrder(p.onSuccess[e.action])
  <2>3. IsSeq(more) /\ Range(more) = p.onSuccess[e.action] \cap Target
    BY InOrderIs
  <2> HIDE DEF none, more
  <2>4. IsSeq(Enqueue(none, more)) /\ Range(Enqueue(none, more)) = Range(none) \cup Range(more)
    <3>1. IsSeq(none)
      BY <2>2 DEF none
    <3> QED BY <2>3, <3>1, EnqueueIs
  <2>5. Roots(p, e) = Enqueue(none, more) /\ Range(none) = {}
    BY <2>1, <2>2 DEF none, more
  <2> QED BY <1>1, <2>3, <2>4, <2>5
<1>2. CASE e.type = "state.changed"
  <2> DEFINE keys == KeysInOrder(e.keys)
             n == Len(keys)
             more(i) == InOrder(Readers(p, keys[i]))
             L == [i \in 1 .. n |-> more(i)]
             Good(f) == f = [i \in 0 .. n |-> IF i = 0 THEN << >> ELSE Enqueue(f[i - 1], more(i))]
  <2>1. /\ n \in Nat /\ Range(keys) = e.keys \cap StateKey
        /\ Range(keys) = {keys[i] : i \in 1 .. n}
    <3>1. IsSeq(keys) /\ Range(keys) = e.keys \cap StateKey
      BY KeysInOrderIs
    <3>2. n \in Nat /\ DOMAIN keys = 1 .. n
      BY <3>1, SeqFacts
    <3> QED BY <3>1, <3>2 DEF Range
  <2>2. \A i : more(i) \in Seq(Target) /\ Range(more(i)) = Readers(p, keys[i]) \cap Target
    <3>1. \A i : IsSeq(more(i)) /\ Range(more(i)) = Readers(p, keys[i]) \cap Target
      BY InOrderIs
    <3> HIDE DEF more, keys
    <3> QED BY <3>1, IsSeqOver
  <2> HIDE DEF keys
  <2>3. L \in [1 .. n -> Seq(Target)]
    <3> HIDE DEF more, n
    <3> QED BY <2>2
  <2>4. PICK g \in [0 .. n -> Seq(Target)] :
          /\ g[0] = << >>
          /\ \A i \in 1 .. n : /\ g[i] = Enqueue(g[i - 1], L[i])
                             /\ Range(g[i]) = Range(g[i - 1]) \cup Range(L[i])
    <3> HIDE DEF L, n
    <3> QED BY <2>1, <2>3, EnqueueEach
  <2>5. \A i \in 1 .. n : L[i] = more(i)
    OBVIOUS
  <2> HIDE DEF L, more, n
  <2>6. Good(g)
    <3>1. ASSUME NEW i \in 0 .. n
          PROVE  g[i] = IF i = 0 THEN << >> ELSE Enqueue(g[i - 1], more(i))
      <4>1. i = 0 \/ i \in 1 .. n
        BY <2>1
      <4> QED BY <2>4, <2>5, <4>1
    <3>2. g = [i \in 0 .. n |-> g[i]]
      BY <2>4
    <3> QED BY <3>1, <3>2
  <2>7. PICK f : Good(f) /\ Roots(p, e) = f[n]
    BY <1>2, <2>6 DEF Roots, keys, n, more
  <2> DEFINE Upto(i) == UNION {Readers(p, keys[j]) \cap Target : j \in 1 .. i}
             Fine(i) == f[i] \in Seq(Target) /\ Range(f[i]) = Upto(i)
             N == {i \in Nat : i <= n => Fine(i)}
  <2> HIDE DEF Good
  <2>8. 0 \in N
    <3>1. f[0] = << >> /\ << >> \in Seq(Target)
      BY <2>1, <2>7 DEF Good
    <3>2. Upto(0) = {}
      OBVIOUS
    <3> QED BY <3>1, <3>2, EmptyIs
  <2>9. ASSUME NEW i \in Nat, i \in N PROVE i + 1 \in N
    <3> DEFINE k == i + 1
    <3>1. SUFFICES ASSUME k <= n PROVE Fine(k)
      OBVIOUS
    <3>2. Fine(i)
      <4> HIDE DEF Fine
      <4> QED BY <2>1, <2>9, <3>1
    <3>3. k \in 0 .. n /\ k # 0 /\ k - 1 = i /\ 1 .. k = 1 .. i \cup {k}
      BY <2>1, <3>1
    <3> HIDE DEF k
    <3>4. f[k] = Enqueue(f[i], more(k))
      BY <2>7, <3>3 DEF Good
    <3>5. f[k] \in Seq(Target) /\ Range(f[k]) = Range(f[i]) \cup (Readers(p, keys[k]) \cap Target)
      <4>1. IsSeq(f[i]) /\ Range(f[i]) \subseteq Target
        BY <3>2, SeqIs
      <4>2. IsSeq(more(k)) /\ Range(more(k)) = Readers(p, keys[k]) \cap Target
        BY <2>2, SeqIs
      <4>3. IsSeq(f[k]) /\ Range(f[k]) = Range(f[i]) \cup Range(more(k))
        BY <3>4, <4>1, <4>2, EnqueueIs
      <4>4. Range(f[k]) \subseteq Target
        BY <4>1, <4>2, <4>3
      <4> QED BY <4>2, <4>3, <4>4, IsSeqOver
    <3>6. Upto(k) = Upto(i) \cup (Readers(p, keys[k]) \cap Target)
      BY <3>3
    <3> QED BY <3>2, <3>5, <3>6
  <2>10. Fine(n)
    <3>1. n \in N
      <4> HIDE DEF N
      <4> QED BY <2>1, <2>8, <2>9, EveryNumber
    <3> QED BY <2>1, <3>1
  <2>11. Upto(n) = UNION {Readers(p, k) \cap Target : k \in e.keys \cap StateKey}
    BY <2>1
  <2>12. IsSeq(f[n])
    BY <2>10, SeqIs
  <2> HIDE DEF Upto
  <2> QED BY <1>2, <2>7, <2>10, <2>11, <2>12
<1> QED BY <1>1, <1>2

----------------------------------------------------------------------------
(* What a graph leads to.                                                  *)

Graph(edges) == edges \in [DOMAIN edges -> SUBSET DOMAIN edges]

\* The closure holds its seeds and is closed ...
LEMMA ClosureIsClosed ==
  ASSUME NEW edges, Graph(edges), NEW seeds \in SUBSET DOMAIN edges
  PROVE  LET C == DependencyClosure(edges, seeds)
         IN  /\ seeds \subseteq C /\ C \subseteq DOMAIN edges
             /\ \A x \in C : edges[x] \subseteq C
BY DEF Graph, DependencyClosure, ClosedUnder

\* ... and is the least such set.
LEMMA ClosureIsLeast ==
  ASSUME NEW edges, NEW seeds, NEW S \in SUBSET DOMAIN edges,
         seeds \subseteq S, \A x \in S : edges[x] \subseteq S
  PROVE  DependencyClosure(edges, seeds) \subseteq S
BY DEF DependencyClosure, ClosedUnder

Below(edges, x) == DependencyClosure(edges, {x})

\* x, and what is below one of those it leads to.
LEMMA BelowIs ==
  ASSUME NEW edges, Graph(edges), NEW x \in DOMAIN edges
  PROVE  Below(edges, x) = {x} \cup UNION {Below(edges, y) : y \in edges[x]}
<1> DEFINE S == {x} \cup UNION {Below(edges, y) : y \in edges[x]}
           D == DOMAIN edges
<1>1. \A z \in D : edges[z] \subseteq D
  BY DEF Graph
<1>2. ASSUME NEW z \in D
      PROVE  /\ z \in Below(edges, z) /\ Below(edges, z) \subseteq D
             /\ \A w \in Below(edges, z) : edges[w] \subseteq Below(edges, z)
  <2>1. {z} \in SUBSET D
    OBVIOUS
  <2> QED BY <2>1, ClosureIsClosed DEF Below
<1>3. Below(edges, x) \subseteq S
  <2>1. S \in SUBSET D /\ {x} \subseteq S
    BY <1>1, <1>2
  <2>2. \A w \in S : edges[w] \subseteq S
    BY <1>1, <1>2
  <2> HIDE DEF S
  <2> QED BY <2>1, <2>2, ClosureIsLeast DEF Below
<1>4. ASSUME NEW y \in edges[x] PROVE Below(edges, y) \subseteq Below(edges, x)
  <2>1. y \in Below(edges, x)
    BY <1>2
  <2>2. {y} \subseteq Below(edges, x) /\ Below(edges, x) \in SUBSET DOMAIN edges
    BY <1>2, <2>1
  <2>3. \A w \in Below(edges, x) : edges[w] \subseteq Below(edges, x)
    BY <1>2
  <2> DEFINE B == Below(edges, x)
  <2> HIDE DEF B
  <2>4. {y} \subseteq B /\ B \in SUBSET DOMAIN edges /\ \A w \in B : edges[w] \subseteq B
    BY <2>2, <2>3 DEF B
  <2>5. DependencyClosure(edges, {y}) \subseteq B
    BY <2>4, ClosureIsLeast
  <2> QED BY <2>5 DEF B, Below
<1> QED BY <1>2, <1>3, <1>4

\* depth goes down along the edges: they make trees, or at least no cycle.
Nested(edges, depth) ==
  /\ Graph(edges) /\ depth \in [DOMAIN edges -> Nat]
  /\ \A x \in DOMAIN edges : \A y \in edges[x] : depth[y] < depth[x]

\* Level after level, what is below x.
Levels(edges, x, d, f) ==
  f = [n \in 0 .. d |->
         IF n = 0 THEN {x}
         ELSE LET outer == f[n - 1] IN outer \cup UNION {edges[y] : y \in outer}]

LEMMA LevelsExist ==
  ASSUME NEW edges, Graph(edges), NEW x \in DOMAIN edges, NEW d \in Nat
  PROVE  \E f : Levels(edges, x, d, f)
<1> DEFINE V == SUBSET DOMAIN edges
           root == {x}
           G == [z \in V \X (1 .. d) |-> z[1] \cup UNION {edges[y] : y \in z[1]}]
<1>1. root \in V
  OBVIOUS
<1>2. G \in [V \X (1 .. d) -> V]
  BY DEF Graph
<1>3. PICK f : Turns(f, V, root, d, G)
  <2> HIDE DEF G, V, root
  <2> QED BY <1>1, <1>2, Loop
<1>4. f \in [0 .. d -> V] /\ f[0] = root /\ \A i \in 1 .. d : f[i] = G[<<f[i - 1], i>>]
  BY <1>3 DEF Turns
<1>5. ASSUME NEW i \in 1 .. d
      PROVE  f[i] = f[i - 1] \cup UNION {edges[y] : y \in f[i - 1]}
  <2>1. f[i - 1] \in V
    BY <1>4
  <2> HIDE DEF V
  <2> QED BY <1>4, <2>1
<1>6. ASSUME NEW i \in 0 .. d
      PROVE  f[i] = IF i = 0 THEN {x}
                    ELSE LET outer == f[i - 1] IN outer \cup UNION {edges[y] : y \in outer}
  <2>1. i = 0 \/ i \in 1 .. d
    OBVIOUS
  <2> QED BY <1>4, <1>5, <2>1
<1>7. f = [i \in 0 .. d |-> f[i]]
  BY <1>4
<1> QED BY <1>6, <1>7 DEF Levels

\* As many levels as x is deep are all.
LEMMA LevelsAre ==
  ASSUME NEW edges, NEW depth, Nested(edges, depth), NEW x \in DOMAIN edges,
         NEW f, Levels(edges, x, depth[x], f)
  PROVE  f[depth[x]] = Below(edges, x)
<1> DEFINE D == DOMAIN edges
           d == depth[x]
           B == Below(edges, x)
<1>1. Graph(edges) /\ d \in Nat /\ \A z \in D : depth[z] \in Nat /\ edges[z] \subseteq D
  BY DEF Nested, Graph
<1>2. x \in B /\ B \subseteq D /\ \A z \in B : edges[z] \subseteq B
  <2>1. {x} \in SUBSET D
    OBVIOUS
  <2> QED BY <1>1, <2>1, ClosureIsClosed DEF Below
<1>3. /\ f[0] = {x}
      /\ \A n \in 1 .. d : f[n] = f[n - 1] \cup UNION {edges[y] : y \in f[n - 1]}
  BY <1>1 DEF Levels
<1> DEFINE Fine(n) == /\ x \in f[n] /\ f[n] \subseteq B
                      /\ \A w \in f[n] : edges[w] \subseteq f[n] \/ depth[w] + n <= d
           N == {n \in Nat : n <= d => Fine(n)}
<1>4. 0 \in N
  BY <1>1, <1>2, <1>3
<1>5. ASSUME NEW n \in Nat, n \in N PROVE n + 1 \in N
  <2> DEFINE k == n + 1
  <2>1. SUFFICES ASSUME k <= d PROVE Fine(k)
    OBVIOUS
  <2>2. Fine(n)
    <3> HIDE DEF Fine
    <3> QED BY <1>1, <1>5, <2>1
  <2>3. k \in 1 .. d /\ k - 1 = n
    BY <1>1, <2>1
  <2> HIDE DEF k
  <2>4. f[k] = f[n] \cup UNION {edges[y] : y \in f[n]}
    BY <1>3, <2>3
  <2>5. f[k] \subseteq B /\ x \in f[k]
    BY <1>2, <2>2, <2>4
  <2>6. ASSUME NEW w \in f[k] PROVE edges[w] \subseteq f[k] \/ depth[w] + k <= d
    <3>1. CASE w \in f[n]
      BY <2>4, <3>1
    <3>2. CASE w \notin f[n]
      <4>1. PICK y \in f[n] : w \in edges[y]
        BY <2>4, <3>2
      <4>2. depth[y] + n <= d
        BY <2>2, <3>2, <4>1
      <4>3. y \in D /\ w \in D
        BY <1>1, <1>2, <2>2, <4>1
      <4>4. depth[w] < depth[y] /\ depth[w] \in Nat /\ depth[y] \in Nat
        BY <1>1, <4>1, <4>3 DEF Nested
      <4>5. depth[w] + k <= d
        BY <1>1, <2>3, <4>2, <4>4
      <4> QED BY <4>5
    <3> QED BY <3>1, <3>2
  <2> QED BY <2>5, <2>6
<1>6. Fine(d)
  <2>1. d \in N
    <3> HIDE DEF N, d
    <3> QED BY <1>1, <1>4, <1>5, EveryNumber
  <2> HIDE DEF Fine
  <2> QED BY <1>1, <2>1
<1>7. ASSUME NEW w \in f[d] PROVE edges[w] \subseteq f[d]
  <2>1. SUFFICES ASSUME NEW y \in edges[w], depth[w] + d <= d PROVE FALSE
    BY <1>6
  <2>2. w \in D /\ depth[w] \in Nat /\ depth[y] \in Nat /\ depth[y] < depth[w]
    BY <1>1, <1>2, <1>6, <2>1 DEF Nested
  <2> QED BY <1>1, <2>1, <2>2
<1>8. B \subseteq f[d]
  <2> DEFINE S == f[d]
  <2>1. S \in SUBSET DOMAIN edges /\ {x} \subseteq S /\ \A w \in S : edges[w] \subseteq S
    BY <1>2, <1>6, <1>7
  <2> HIDE DEF S
  <2>2. DependencyClosure(edges, {x}) \subseteq S
    BY <2>1, ClosureIsLeast
  <2> QED BY <2>2 DEF S, Below
<1> QED BY <1>6, <1>8

\* A recursion that collects what is below.
Collects(edges, own, f) ==
  f = [x \in DOMAIN edges |-> own[x] \cup UNION {f[y] : y \in edges[x]}]

LEMMA CollectsExists ==
  ASSUME NEW edges, Graph(edges), NEW own
  PROVE  \E f : Collects(edges, own, f)
<1> DEFINE U(x) == UNION {own[w] : w \in Below(edges, x)}
           f == [x \in DOMAIN edges |-> U(x)]
<1>1. ASSUME NEW x \in DOMAIN edges
      PROVE  f[x] = own[x] \cup UNION {f[y] : y \in edges[x]}
  <2>1. \A y \in edges[x] : y \in DOMAIN edges /\ f[y] = U(y)
    BY DEF Graph
  <2>2. f[x] = U(x)
    OBVIOUS
  <2> HIDE DEF f
  <2>3. Below(edges, x) = {x} \cup UNION {Below(edges, y) : y \in edges[x]}
    BY BelowIs
  <2>4. U(x) = own[x] \cup UNION {U(y) : y \in edges[x]}
    BY <2>3
  <2> HIDE DEF U
  <2> QED BY <2>1, <2>2, <2>4
<1>2. f = [x \in DOMAIN edges |-> f[x]]
  OBVIOUS
<1> HIDE DEF f
<1>3. Collects(edges, own, f)
  BY <1>1, <1>2 DEF Collects
<1> QED BY <1>3

LEMMA CollectsAll ==
  ASSUME NEW edges, NEW depth, Nested(edges, depth), NEW own, NEW f, Collects(edges, own, f),
         NEW x \in DOMAIN edges
  PROVE  f[x] = UNION {own[w] : w \in Below(edges, x)}
<1> DEFINE D == DOMAIN edges
           U(z) == UNION {own[w] : w \in Below(edges, z)}
           Wrong == {z \in D : f[z] # U(z)}
<1>1. Graph(edges) /\ \A z \in D : depth[z] \in Nat /\ edges[z] \subseteq D
  BY DEF Nested, Graph
<1>2. \A z \in D : f[z] = own[z] \cup UNION {f[y] : y \in edges[z]}
  BY DEF Collects
<1>3. ASSUME NEW z \in D PROVE U(z) = own[z] \cup UNION {U(y) : y \in edges[z]}
  <2>1. Below(edges, z) = {z} \cup UNION {Below(edges, y) : y \in edges[z]}
    BY <1>1, BelowIs
  <2> QED BY <2>1
<1>4. SUFFICES ASSUME Wrong # {} PROVE FALSE
  OBVIOUS
<1> HIDE DEF U
<1>5. PICK z \in Wrong : \A w \in Wrong : depth[z] <= depth[w]
  <2> DEFINE S == {depth[w] : w \in Wrong}
  <2>1. S \in SUBSET Nat /\ S # {}
    BY <1>1, <1>4
  <2>2. PICK n \in S : \A m \in S : n <= m
    <3> HIDE DEF S
    <3> QED BY <2>1, LeastNumber
  <2> QED BY <2>2
<1>6. ASSUME NEW y \in edges[z] PROVE f[y] = U(y)
  <2>1. y \in D /\ depth[y] < depth[z] /\ depth[y] \in Nat /\ depth[z] \in Nat
    BY <1>1, <1>5 DEF Nested
  <2> QED BY <1>5, <2>1
<1>7. f[z] = U(z)
  <2>1. {f[y] : y \in edges[z]} = {U(y) : y \in edges[z]}
    BY <1>6
  <2>2. z \in D
    BY <1>5
  <2>3. /\ f[z] = own[z] \cup UNION {f[y] : y \in edges[z]}
        /\ U(z) = own[z] \cup UNION {U(y) : y \in edges[z]}
    BY <1>2, <1>3, <2>2
  <2> QED BY <2>1, <2>3
<1> QED BY <1>5, <1>7

----------------------------------------------------------------------------
(* What the walks of parseRuntimePageDsl see.                              *)

ValueParts == [v \in Values |-> Range(v.parts)]
ValueDepth == [v \in Values |-> Depth(v)]
ArgumentParts == [a \in Arguments |-> Range(a.args)]
ArgumentDepth == [a \in Arguments |-> Depth(a)]

LEMMA ValuesNested == Nested(ValueParts, ValueDepth) /\ DOMAIN ValueParts = Values
BY NestingAssumption DEF Nested, Graph, ValueParts, ValueDepth

LEMMA ArgumentsNested ==
  Nested(ArgumentParts, ArgumentDepth) /\ DOMAIN ArgumentParts = Arguments
BY NestingAssumption DEF Nested, Graph, ArgumentParts, ArgumentDepth

LEMMA InsideIs ==
  ASSUME NEW value \in Values
  PROVE  Inside(value) = Below(ValueParts, value)
<1> DEFINE d == Depth(value)
           more(outer) == outer \cup UNION {Range(v.parts) : v \in outer}
           seen(outer) == outer \cup UNION {ValueParts[y] : y \in outer}
           Upto(f) == f = [n \in 0 .. d |-> IF n = 0 THEN {value}
                                           ELSE LET outer == f[n - 1] IN more(outer)]
           Seen(f) == f = [n \in 0 .. d |-> IF n = 0 THEN {value}
                                            ELSE LET outer == f[n - 1] IN seen(outer)]
<1>1. d \in Nat /\ d = ValueDepth[value] /\ Graph(ValueParts) /\ value \in DOMAIN ValueParts
  BY NestingAssumption, ValuesNested DEF ValueDepth, Nested
<1>2. ASSUME NEW outer \in SUBSET Values
      PROVE  more(outer) = seen(outer) /\ more(outer) \subseteq Values
  BY NestingAssumption DEF ValueParts
<1>3. ASSUME NEW f, Upto(f) \/ Seen(f) PROVE Upto(f) /\ Seen(f)
  <2> HIDE DEF more, seen
  <2>1. f[0] = {value} /\ \A n \in 1 .. d : f[n] = more(f[n - 1]) \/ f[n] = seen(f[n - 1])
    BY <1>1, <1>3
  <2>2. f = [n \in 0 .. d |-> f[n]]
    BY <1>3
  <2> DEFINE N == {n \in Nat : n <= d => f[n] \subseteq Values}
  <2>3. 0 \in N
    BY <2>1
  <2>4. ASSUME NEW n \in Nat, n \in N PROVE n + 1 \in N
    <3>1. SUFFICES ASSUME n + 1 <= d PROVE f[n + 1] \subseteq Values
      OBVIOUS
    <3>2. n + 1 \in 1 .. d /\ (n + 1) - 1 = n /\ f[n] \subseteq Values
      BY <1>1, <2>4, <3>1
    <3>3. f[n + 1] = more(f[n]) \/ f[n + 1] = seen(f[n])
      BY <2>1, <3>2
    <3> QED BY <1>2, <3>2, <3>3
  <2>5. Nat \subseteq N
    <3> HIDE DEF N
    <3> QED BY <2>3, <2>4, EveryNumber
  <2>6. ASSUME NEW n \in 1 .. d PROVE f[n] = more(f[n - 1]) /\ f[n] = seen(f[n - 1])
    <3>1. n - 1 \in Nat /\ n - 1 <= d
      BY <1>1
    <3>2. f[n - 1] \subseteq Values
      BY <2>5, <3>1
    <3> QED BY <1>2, <2>1, <3>2
  <2>7. ASSUME NEW n \in 0 .. d
        PROVE  /\ f[n] = IF n = 0 THEN {value} ELSE LET outer == f[n - 1] IN more(outer)
               /\ f[n] = IF n = 0 THEN {value} ELSE LET outer == f[n - 1] IN seen(outer)
    <3>1. n = 0 \/ n \in 1 .. d
      BY <1>1
    <3> QED BY <2>1, <2>6, <3>1
  <2> QED BY <2>2, <2>7
<1>4. PICK f : Seen(f)
  <2> HIDE DEF d
  <2>1. PICK f : Levels(ValueParts, value, d, f)
    BY <1>1, LevelsExist
  <2>2. Seen(f)
    BY <2>1 DEF Levels
  <2> HIDE DEF Seen
  <2> QED BY <2>2
<1>5. \E g : Upto(g)
  <2> HIDE DEF Upto, Seen
  <2> QED BY <1>3, <1>4
<1>6. PICK g : Upto(g) /\ Inside(value) = g[d]
  BY <1>5 DEF Inside
<1>7. Levels(ValueParts, value, ValueDepth[value], g)
  <2>1. Seen(g)
    <3> HIDE DEF Upto, Seen
    <3> QED BY <1>3, <1>6
  <2> QED BY <1>1, <2>1 DEF Levels
<1>8. g[ValueDepth[value]] = Below(ValueParts, value)
  <2> HIDE DEF d
  <2> QED BY <1>1, <1>7, ValuesNested, LevelsAre
<1> QED BY <1>1, <1>6, <1>8

LEMMA ArgumentsInsideIs ==
  ASSUME NEW arg \in Arguments
  PROVE  ArgumentsInside(arg) = Below(ArgumentParts, arg)
<1> DEFINE d == Depth(arg)
           more(outer) == outer \cup UNION {Range(a.args) : a \in outer}
           seen(outer) == outer \cup UNION {ArgumentParts[y] : y \in outer}
           Upto(f) == f = [n \in 0 .. d |-> IF n = 0 THEN {arg}
                                           ELSE LET outer == f[n - 1] IN more(outer)]
           Seen(f) == f = [n \in 0 .. d |-> IF n = 0 THEN {arg}
                                            ELSE LET outer == f[n - 1] IN seen(outer)]
<1>1. d \in Nat /\ d = ArgumentDepth[arg] /\ Graph(ArgumentParts) /\ arg \in DOMAIN ArgumentParts
  BY NestingAssumption, ArgumentsNested DEF ArgumentDepth, Nested
<1>2. ASSUME NEW outer \in SUBSET Arguments
      PROVE  more(outer) = seen(outer) /\ more(outer) \subseteq Arguments
  BY NestingAssumption DEF ArgumentParts
<1>3. ASSUME NEW f, Upto(f) \/ Seen(f) PROVE Upto(f) /\ Seen(f)
  <2> HIDE DEF more, seen
  <2>1. f[0] = {arg} /\ \A n \in 1 .. d : f[n] = more(f[n - 1]) \/ f[n] = seen(f[n - 1])
    BY <1>1, <1>3
  <2>2. f = [n \in 0 .. d |-> f[n]]
    BY <1>3
  <2> DEFINE N == {n \in Nat : n <= d => f[n] \subseteq Arguments}
  <2>3. 0 \in N
    BY <2>1
  <2>4. ASSUME NEW n \in Nat, n \in N PROVE n + 1 \in N
    <3>1. SUFFICES ASSUME n + 1 <= d PROVE f[n + 1] \subseteq Arguments
      OBVIOUS
    <3>2. n + 1 \in 1 .. d /\ (n + 1) - 1 = n /\ f[n] \subseteq Arguments
      BY <1>1, <2>4, <3>1
    <3>3. f[n + 1] = more(f[n]) \/ f[n + 1] = seen(f[n])
      BY <2>1, <3>2
    <3> QED BY <1>2, <3>2, <3>3
  <2>5. Nat \subseteq N
    <3> HIDE DEF N
    <3> QED BY <2>3, <2>4, EveryNumber
  <2>6. ASSUME NEW n \in 1 .. d PROVE f[n] = more(f[n - 1]) /\ f[n] = seen(f[n - 1])
    <3>1. n - 1 \in Nat /\ n - 1 <= d
      BY <1>1
    <3>2. f[n - 1] \subseteq Arguments
      BY <2>5, <3>1
    <3> QED BY <1>2, <2>1, <3>2
  <2>7. ASSUME NEW n \in 0 .. d
        PROVE  /\ f[n] = IF n = 0 THEN {arg} ELSE LET outer == f[n - 1] IN more(outer)
               /\ f[n] = IF n = 0 THEN {arg} ELSE LET outer == f[n - 1] IN seen(outer)
    <3>1. n = 0 \/ n \in 1 .. d
      BY <1>1
    <3> QED BY <2>1, <2>6, <3>1
  <2> QED BY <2>2, <2>7
<1>4. PICK f : Seen(f)
  <2> HIDE DEF d
  <2>1. PICK f : Levels(ArgumentParts, arg, d, f)
    BY <1>1, LevelsExist
  <2>2. Seen(f)
    BY <2>1 DEF Levels
  <2> HIDE DEF Seen
  <2> QED BY <2>2
<1>5. \E g : Upto(g)
  <2> HIDE DEF Upto, Seen
  <2> QED BY <1>3, <1>4
<1>6. PICK g : Upto(g) /\ ArgumentsInside(arg) = g[d]
  BY <1>5 DEF ArgumentsInside
<1>7. Levels(ArgumentParts, arg, ArgumentDepth[arg], g)
  <2>1. Seen(g)
    <3> HIDE DEF Upto, Seen
    <3> QED BY <1>3, <1>6
  <2> QED BY <1>1, <2>1 DEF Levels
<1>8. g[ArgumentDepth[arg]] = Below(ArgumentParts, arg)
  <2> HIDE DEF d
  <2> QED BY <1>1, <1>7, ArgumentsNested, LevelsAre
<1> QED BY <1>1, <1>6, <1>8

\* collectTemplateDependencies sees every key that is mentioned inside.
LEMMA VisitIs ==
  ASSUME NEW value \in Values
  PROVE  Visit(value) = UNION {v.keys : v \in Inside(value)}
<1> DEFINE own == [v \in Values |-> v.keys]
           Good(f) == f = [v \in Values |-> v.keys \cup UNION {f[w] : w \in Range(v.parts)}]
<1>1. Graph(ValueParts) /\ DOMAIN ValueParts = Values
  BY ValuesNested DEF Nested
<1>2. \A f : Good(f) <=> Collects(ValueParts, own, f)
  BY <1>1 DEF Collects, ValueParts
<1>3. \E f : Good(f)
  <2> HIDE DEF Good, own
  <2> QED BY <1>1, <1>2, CollectsExists
<1>4. PICK f : Good(f) /\ Visit(value) = f[value]
  BY <1>3 DEF Visit
<1> HIDE DEF Good, own
<1>5. f[value] = UNION {own[v] : v \in Below(ValueParts, value)}
  BY <1>1, <1>2, <1>4, ValuesNested, CollectsAll
<1>6. Below(ValueParts, value) = Inside(value) /\ Inside(value) \subseteq Values
  <2>1. Below(ValueParts, value) \subseteq Values
    BY <1>1 DEF Below, DependencyClosure
  <2> QED BY <2>1, InsideIs
<1>7. \A v \in Values : own[v] = v.keys
  BY DEF own
<1> QED BY <1>4, <1>5, <1>6, <1>7

\* collectRuleStateDependencies sees every reference to the state in a condition.
LEMMA VisitArgsIs ==
  ASSUME NEW args, Range(args) \subseteq Arguments
  PROVE  LET inside == UNION {ArgumentsInside(a) : a \in Range(args)}
         IN  VisitArgs(args) = {a.key : a \in {b \in inside : b.source = "state"}}
<1> DEFINE own == [a \in Arguments |-> IF a.source = "state" THEN {a.key} ELSE {}]
           Good(f) == f = [a \in Arguments |->
                             IF a.source = "state" THEN {a.key}
                             ELSE IF a.source = "function" THEN UNION {f[b] : b \in Range(a.args)}
                             ELSE {}]
<1>1. Graph(ArgumentParts) /\ DOMAIN ArgumentParts = Arguments
  BY ArgumentsNested DEF Nested
<1>2. ASSUME NEW f PROVE Good(f) <=> Collects(ArgumentParts, own, f)
  <2>1. ASSUME NEW a \in Arguments
        PROVE  (IF a.source = "state" THEN {a.key}
                ELSE IF a.source = "function" THEN UNION {f[b] : b \in Range(a.args)}
                ELSE {})
               = own[a] \cup UNION {f[b] : b \in ArgumentParts[a]}
    <3>1. ArgumentParts[a] = Range(a.args)
      BY DEF ArgumentParts
    <3>2. CASE a.source = "function"
      <4>1. own[a] = {}
        BY <3>2
      <4> QED BY <3>1, <3>2, <4>1
    <3>3. CASE a.source # "function"
      <4>1. ArgumentParts[a] = {}
        BY <3>1, <3>3, ArgumentsAssumption DEF Range
      <4> QED BY <3>3, <4>1
    <3> QED BY <3>2, <3>3
  <2> QED BY <1>1, <2>1 DEF Collects
<1>3. \E f : Good(f)
  <2> HIDE DEF Good, own
  <2> QED BY <1>1, <1>2, CollectsExists
<1>4. PICK f : Good(f) /\ VisitArgs(args) = UNION {f[a] : a \in Range(args)}
  BY <1>3 DEF VisitArgs
<1>5. ASSUME NEW a \in Arguments
      PROVE  f[a] = {b.key : b \in {c \in ArgumentsInside(a) : c.source = "state"}}
  <2>1. f[a] = UNION {own[b] : b \in Below(ArgumentParts, a)}
    <3> HIDE DEF Good, own
    <3> QED BY <1>1, <1>2, <1>4, ArgumentsNested, CollectsAll
  <2>2. Below(ArgumentParts, a) = ArgumentsInside(a) /\ ArgumentsInside(a) \subseteq Arguments
    <3>1. Below(ArgumentParts, a) \subseteq Arguments
      BY <1>1 DEF Below, DependencyClosure
    <3> QED BY <3>1, ArgumentsInsideIs
  <2>3. \A b \in Arguments : own[b] = IF b.source = "state" THEN {b.key} ELSE {}
    OBVIOUS
  <2> HIDE DEF own
  <2>4. f[a] = UNION {own[b] : b \in ArgumentsInside(a)}
    BY <2>1, <2>2
  <2>5. \A b \in ArgumentsInside(a) : own[b] = IF b.source = "state" THEN {b.key} ELSE {}
    BY <2>2, <2>3
  <2> DEFINE A == ArgumentsInside(a)
  <2>6. UNION {own[b] : b \in A} = {b.key : b \in {c \in A : c.source = "state"}}
    <3>1. \A b \in A : own[b] = IF b.source = "state" THEN {b.key} ELSE {}
      BY <2>5
    <3> HIDE DEF A
    <3>2. ASSUME NEW k \in UNION {own[b] : b \in A}
          PROVE  k \in {b.key : b \in {c \in A : c.source = "state"}}
      BY <3>1
    <3>3. ASSUME NEW b \in A, b.source = "state" PROVE b.key \in own[b]
      BY <3>1, <3>3
    <3> QED BY <3>2, <3>3
  <2> QED BY <2>4, <2>6
<1> HIDE DEF Good, own
<1> QED BY <1>4, <1>5

----------------------------------------------------------------------------
(* The page as it is parsed and as it is written.                          *)

Requested == \E r \in Requests : dsl = r.dsl /\ event = r.event

LEMMA PageIsWritten ==
  ASSUME Requested
  PROVE  /\ IsSeq(dsl.datasources) /\ IsSeq(dsl.actions) /\ IsSeq(dsl.rules)
         /\ Ids(dsl.datasources) \subseteq Datasources \cup {Blank}
         /\ Ids(dsl.actions) \subseteq Actions \cup {Blank}
         /\ dsl.state \subseteq StateKey
         /\ event.type \in {"state.changed", "mutation.succeeded"}
         /\ event.type = "mutation.succeeded" => event.action \in Actions
         /\ \A d \in Definitions : d.body \in Values
         /\ \A q \in Range(dsl.rules) : Range(q.args) \subseteq Arguments
<1>1. PICK r \in Requests : dsl = r.dsl /\ event = r.event
  BY DEF Requested
<1>2. \A d \in Definitions : d.body \in Values
  BY <1>1, PagesAssumption DEF Definitions
<1>3. \A q \in Range(dsl.rules) : Range(q.args) \subseteq Arguments
  BY <1>1, PagesAssumption
<1> QED BY <1>1, <1>2, <1>3, RequestsAssumption DEF IsSeq

LEMMA OnIdIs ==
  ASSUME NEW items, NEW values,
         \A i, j \in DOMAIN items : items[i].id = items[j].id => i = j,
         NEW i \in DOMAIN items
  PROVE  OnId(items, values)[items[i].id] = values[i]
<1>1. items[i].id \in Ids(items)
  BY DEF Ids, Range
<1>2. (CHOOSE j \in DOMAIN items : items[j].id = items[i].id) = i
  OBVIOUS
<1> QED BY <1>1, <1>2 DEF OnId

\* An id is the id of one datasource or action.
LEMMA IdsAreUnique ==
  ASSUME Requested, Accepted(dsl)
  PROVE  /\ Ids(dsl.datasources) \subseteq Datasources /\ Ids(dsl.actions) \subseteq Actions
         /\ \A i, j \in DOMAIN dsl.actions : dsl.actions[i].id = dsl.actions[j].id => i = j
         /\ LET all == dsl.datasources \o dsl.actions IN
            /\ Range(all) = Range(dsl.datasources) \cup Range(dsl.actions)
            /\ \A i, j \in DOMAIN all : all[i].id = all[j].id => i = j
<1> DEFINE D == dsl.datasources
           A == dsl.actions
           all == D \o A
           n == Len(D)
           m == Len(A)
<1>1. /\ Named(D) /\ Distinct(D) /\ Named(A) /\ Distinct(A)
  BY DEF Accepted
<1>2. /\ IsSeq(D) /\ IsSeq(A)
      /\ Ids(D) \subseteq Datasources /\ Ids(A) \subseteq Actions
  BY <1>1, PageIsWritten DEF Named
<1> HIDE DEF D, A
<1>3. /\ \A i \in DOMAIN D : D[i].id \in Datasources /\ D[i].id # Blank
      /\ \A i \in DOMAIN A : A[i].id \in Actions /\ A[i].id # Blank
  BY <1>1, <1>2 DEF Ids, Range, Named
<1>4. /\ \A i, j \in DOMAIN D : D[i].id = D[j].id => i = j
      /\ \A i, j \in DOMAIN A : A[i].id = A[j].id => i = j
  BY <1>1, <1>3 DEF Distinct
<1>5. /\ n \in Nat /\ m \in Nat /\ DOMAIN D = 1 .. n /\ DOMAIN A = 1 .. m
      /\ DOMAIN all = 1 .. n + m
      /\ \A i \in 1 .. n + m : all[i] = IF i <= n THEN D[i] ELSE A[i - n]
  <2>1. /\ D \in Seq(Range(D) \cup Range(A)) /\ A \in Seq(Range(D) \cup Range(A))
        /\ n \in Nat /\ m \in Nat /\ DOMAIN D = 1 .. n /\ DOMAIN A = 1 .. m
    BY <1>2, SeqFacts, SeqMonotonic DEF IsSeq
  <2> QED BY <2>1
<1>6. Range(all) = Range(D) \cup Range(A)
  BY <1>2, Joined
<1> HIDE DEF all, n, m
<1>7. ASSUME NEW i \in DOMAIN all, NEW j \in DOMAIN all, all[i].id = all[j].id PROVE i = j
  <2>1. CASE i <= n /\ j <= n
    <3>1. i \in DOMAIN D /\ j \in DOMAIN D /\ D[i].id = D[j].id
      BY <1>5, <1>7, <2>1
    <3> QED BY <1>4, <3>1
  <2>2. CASE i <= n /\ ~(j <= n)
    <3>1. i \in DOMAIN D /\ j - n \in DOMAIN A /\ D[i].id = A[j - n].id
      BY <1>5, <1>7, <2>2
    <3> QED BY <1>3, <3>1 DEF Actions
  <2>3. CASE ~(i <= n) /\ j <= n
    <3>1. j \in DOMAIN D /\ i - n \in DOMAIN A /\ D[j].id = A[i - n].id
      BY <1>5, <1>7, <2>3
    <3> QED BY <1>3, <3>1 DEF Actions
  <2>4. CASE ~(i <= n) /\ ~(j <= n)
    <3>1. i - n \in DOMAIN A /\ j - n \in DOMAIN A /\ A[i - n].id = A[j - n].id
      BY <1>5, <1>7, <2>4
    <3>2. i - n = j - n
      BY <1>4, <3>1
    <3> QED BY <1>5, <3>2
  <2> QED BY <2>1, <2>2, <2>3, <2>4
<1> QED BY <1>2, <1>4, <1>6, <1>7 DEF all, D, A

\* parseRuntimePageDsl registers what is written.
LEMMA ParsedIs ==
  ASSUME Requested, Accepted(dsl)
  PROVE  LET p == Parse(dsl) IN
         /\ p.keys = dsl.state /\ p.keys \subseteq StateKey
         /\ p.targets = {d.id : d \in Definitions} /\ p.targets \subseteq Target
         /\ \A d \in Definitions : /\ p.reads[d.id] = Mentioned(d) /\ p.writes[d.id] = Outputs(d)
                                   /\ d.id \in Actions <=> d \in Range(dsl.actions)
                                   /\ \A c \in Definitions : c.id = d.id => c = d
         /\ \A a \in Range(dsl.actions) : /\ a \in Definitions
                                          /\ a.id \in p.auto <=> a.trigger = "state.changed"
                                          /\ p.onSuccess[a.id] = a.refresh \cup a.run
<1> DEFINE p == Parse(dsl)
           all == dsl.datasources \o dsl.actions
           A == dsl.actions
           reads == [i \in DOMAIN all |-> Visit(all[i].body)]
           writes == [i \in DOMAIN all |-> Outputs(all[i])]
           success == [i \in DOMAIN A |-> A[i].refresh \cup A[i].run]
<1>1. /\ p.keys = dsl.state /\ p.targets = Ids(all)
      /\ p.reads = OnId(all, reads) /\ p.writes = OnId(all, writes)
      /\ p.auto = {a.id : a \in {b \in Range(A) : b.trigger = "state.changed"}}
      /\ p.onSuccess = OnId(A, success)
  BY DEF Parse
<1>2. /\ Ids(dsl.datasources) \subseteq Datasources /\ Ids(A) \subseteq Actions
      /\ \A i, j \in DOMAIN A : A[i].id = A[j].id => i = j
      /\ Range(all) = Range(dsl.datasources) \cup Range(A)
      /\ \A i, j \in DOMAIN all : all[i].id = all[j].id => i = j
  BY IdsAreUnique
<1>3. /\ \A d \in Definitions : d.body \in Values
      /\ dsl.state \subseteq StateKey /\ Definitions = Range(all)
  BY PageIsWritten DEF Definitions
<1> HIDE DEF p, all, A
<1>4. p.targets = {d.id : d \in Definitions} /\ p.targets \subseteq Target
  <2>1. Ids(all) = Ids(dsl.datasources) \cup Ids(A)
    BY <1>2 DEF Ids
  <2>2. Datasources \subseteq Target /\ Actions \subseteq Target
    BY TargetsAssumption DEF Actions
  <2> QED BY <1>1, <1>2, <1>3, <2>1, <2>2 DEF Ids
<1>5. ASSUME NEW d \in Definitions
      PROVE  /\ p.reads[d.id] = Mentioned(d) /\ p.writes[d.id] = Outputs(d)
             /\ \A c \in Definitions : c.id = d.id => c = d
  <2>1. PICK i \in DOMAIN all : all[i] = d
    BY <1>3 DEF Range
  <2>2. OnId(all, reads)[all[i].id] = reads[i] /\ OnId(all, writes)[all[i].id] = writes[i]
    <3> HIDE DEF reads, writes
    <3> QED BY <1>2, OnIdIs
  <2>3. reads[i] = Visit(d.body) /\ writes[i] = Outputs(d)
    BY <2>1
  <2>4. Visit(d.body) = Mentioned(d)
    BY <1>3, VisitIs DEF Mentioned
  <2>5. \A c \in Definitions : c.id = d.id => c = d
    BY <1>2, <1>3, <2>1 DEF Range
  <2> HIDE DEF reads, writes
  <2> QED BY <1>1, <2>1, <2>2, <2>3, <2>4, <2>5
<1>6. ASSUME NEW d \in Definitions PROVE d.id \in Actions <=> d \in Range(A)
  <2>1. d \in Range(A) => d.id \in Actions
    BY <1>2 DEF Ids
  <2>2. d \notin Range(A) => d.id \in Datasources
    BY <1>2, <1>3 DEF Ids
  <2> QED BY <2>1, <2>2 DEF Actions
<1>7. ASSUME NEW a \in Range(A)
      PROVE  /\ a \in Definitions
             /\ a.id \in p.auto <=> a.trigger = "state.changed"
             /\ p.onSuccess[a.id] = a.refresh \cup a.run
  <2>1. PICK i \in DOMAIN A : A[i] = a
    BY DEF Range
  <2>2. OnId(A, success)[A[i].id] = success[i]
    <3> HIDE DEF success
    <3> QED BY <1>2, OnIdIs
  <2>3. success[i] = a.refresh \cup a.run
    BY <2>1
  <2>4. a \in Definitions
    BY <1>2, <1>3
  <2>5. a.id \in p.auto <=> a.trigger = "state.changed"
    <3>1. \A b \in Range(A) : b.id = a.id => b = a
      BY <1>2, <2>1 DEF Range
    <3> QED BY <1>1, <3>1
  <2> HIDE DEF success
  <2> QED BY <1>1, <2>1, <2>2, <2>3, <2>4, <2>5
<1> QED BY <1>1, <1>3, <1>4, <1>5, <1>6, <1>7 DEF p, A

LEMMA RefreshedIs ==
  ASSUME Requested, Accepted(dsl), NEW keys
  PROVE  LET p == Parse(dsl) IN
         /\ Refreshed(keys) = UNION {Readers(p, k) : k \in keys}
         /\ Refreshed(keys) \subseteq p.targets
<1> DEFINE p == Parse(dsl)
           A == Range(dsl.actions)
<1>1. /\ p.targets = {d.id : d \in Definitions}
      /\ \A d \in Definitions : p.reads[d.id] = Mentioned(d) /\ (d.id \in Actions <=> d \in A)
      /\ \A a \in A : a.id \in p.auto <=> a.trigger = "state.changed"
  BY ParsedIs
<1> HIDE DEF p, A
<1>2. ASSUME NEW d \in Definitions
      PROVE  (d.id \in Actions => d.id \in p.auto) <=> (d \in A => d.trigger = "state.changed")
  BY <1>1
<1>3. ASSUME NEW k, NEW d \in Definitions
      PROVE  d.id \in Readers(p, k) <=> k \in Mentioned(d) /\ (d \in A => d.trigger = "state.changed")
  BY <1>1, <1>2 DEF Readers
<1>4. Refreshed(keys) = {d.id : d \in {c \in Definitions :
                           Mentioned(c) \cap keys # {} /\ (c \in A => c.trigger = "state.changed")}}
  BY DEF Refreshed, A
<1>5. ASSUME NEW t \in Refreshed(keys) PROVE t \in UNION {Readers(p, k) : k \in keys}
  <2>1. PICK d \in Definitions : /\ Mentioned(d) \cap keys # {} /\ t = d.id
                                 /\ d \in A => d.trigger = "state.changed"
    BY <1>4
  <2>2. PICK k \in keys : k \in Mentioned(d)
    BY <2>1
  <2> QED BY <1>3, <2>1, <2>2
<1>6. ASSUME NEW k \in keys, NEW t \in Readers(p, k) PROVE t \in Refreshed(keys)
  <2>1. PICK d \in Definitions : t = d.id
    BY <1>1 DEF Readers
  <2> QED BY <1>3, <1>4, <1>6, <2>1
<1>7. Refreshed(keys) \subseteq p.targets
  BY <1>1, <1>4
<1> QED BY <1>5, <1>6, <1>7 DEF p

\* buildDependencyGraph joins what writes a key with what mentions it.
LEMMA FeedsIs ==
  ASSUME Requested, Accepted(dsl)
  PROVE  /\ Feeds = Downstream(Parse(dsl)) /\ Graph(Feeds)
         /\ DOMAIN Feeds = Parse(dsl).targets /\ DOMAIN Feeds \subseteq Target
         /\ \A t \in DOMAIN Feeds : t \notin Feeds[t]
<1> DEFINE p == Parse(dsl)
           written(t) == UNION {Outputs(d) : d \in {c \in Definitions : c.id = t}}
<1>1. /\ p.targets = {d.id : d \in Definitions} /\ p.targets \subseteq Target
      /\ \A d \in Definitions : /\ p.writes[d.id] = Outputs(d)
                                /\ \A c \in Definitions : c.id = d.id => c = d
  BY ParsedIs
<1>2. \A keys : /\ Refreshed(keys) = UNION {Readers(p, k) : k \in keys}
                /\ Refreshed(keys) \subseteq p.targets
  BY RefreshedIs
<1> HIDE DEF p
<1>3. ASSUME NEW t \in p.targets PROVE p.writes[t] = written(t)
  <2>1. PICK d \in Definitions : d.id = t
    BY <1>1
  <2>2. {c \in Definitions : c.id = t} = {d}
    BY <1>1, <2>1
  <2>3. UNION {Outputs(c) : c \in {d}} = Outputs(d)
    OBVIOUS
  <2> QED BY <1>1, <2>1, <2>2, <2>3
<1>4. /\ Feeds = [t \in p.targets |-> Refreshed(written(t)) \ {t}]
      /\ Downstream(p) = [t \in p.targets |-> (UNION {Readers(p, k) : k \in p.writes[t]}) \ {t}]
  BY <1>1 DEF Feeds, Downstream
<1> HIDE DEF written
<1>5. \A t \in p.targets : /\ Feeds[t] = Refreshed(written(t)) \ {t}
                           /\ Downstream(p)[t] = Refreshed(written(t)) \ {t}
  <2> DEFINE read(t) == UNION {Readers(p, k) : k \in p.writes[t]}
  <2>1. ASSUME NEW t \in p.targets PROVE read(t) = Refreshed(written(t))
    <3>1. UNION {Readers(p, k) : k \in written(t)} = Refreshed(written(t))
      BY <1>2
    <3> QED BY <1>3, <3>1
  <2>2. ASSUME NEW t \in p.targets
        PROVE  Downstream(p)[t] = read(t) \ {t}
    BY <1>4
  <2> HIDE DEF read
  <2>3. ASSUME NEW t \in p.targets PROVE Feeds[t] = Refreshed(written(t)) \ {t}
    BY <1>4
  <2>4. ASSUME NEW t \in p.targets PROVE Downstream(p)[t] = Refreshed(written(t)) \ {t}
    BY <2>1, <2>2
  <2> QED BY <2>3, <2>4
<1>6. Feeds = Downstream(p)
  BY <1>4, <1>5
<1>7. DOMAIN Feeds = p.targets
  BY <1>4
<1>8. Feeds \in [p.targets -> SUBSET p.targets]
  <2>1. \A t \in p.targets : Refreshed(written(t)) \ {t} \subseteq p.targets
    BY <1>2
  <2> QED BY <1>4, <2>1
<1>9. \A t \in p.targets : t \notin Feeds[t]
  BY <1>5
<1> QED BY <1>1, <1>6, <1>7, <1>8, <1>9 DEF Graph, p

\* planRefresh starts from what the event touches.
LEMMA PlannedIs ==
  ASSUME Requested, Accepted(dsl),
         ~UnknownInPage(Parse(dsl)), ~UnknownInEvent(Parse(dsl), event)
  PROVE  LET roots == Range(Roots(Parse(dsl), event)) IN
         /\ roots \subseteq DOMAIN Feeds
         /\ Planned = DependencyClosure(Feeds, roots)
<1> DEFINE p == Parse(dsl)
           roots == Range(Roots(p, event))
           seeds == IF event.type = "state.changed" THEN Refreshed(event.keys)
                    ELSE UNION {a.refresh \cup a.run :
                                  a \in {b \in Range(dsl.actions) : b.id = event.action}}
<1>1. Planned = DependencyClosure(Feeds, seeds)
  BY DEF Planned
<1>2. /\ p.targets = {d.id : d \in Definitions} /\ p.targets \subseteq Target /\ p.keys \subseteq StateKey
      /\ \A d \in Definitions : /\ d.id \in Actions <=> d \in Range(dsl.actions)
                                /\ \A c \in Definitions : c.id = d.id => c = d
      /\ \A a \in Range(dsl.actions) : a \in Definitions /\ p.onSuccess[a.id] = a.refresh \cup a.run
  BY ParsedIs
<1>3. /\ event.type \in {"state.changed", "mutation.succeeded"}
      /\ event.type = "mutation.succeeded" => event.action \in Actions
  BY PageIsWritten
<1>4. DOMAIN Feeds = p.targets
  BY FeedsIs
<1>5. ~UnknownInPage(p) /\ ~UnknownInEvent(p, event)
  OBVIOUS
<1>6. roots = seeds /\ roots \subseteq p.targets
  <2>1. CASE event.type = "state.changed"
    <3>1. event.keys \subseteq p.keys
      BY <1>5, <2>1 DEF UnknownInEvent
    <3>2. event.keys \cap StateKey = event.keys
      BY <1>2, <3>1
    <3>3. roots = UNION {Readers(p, k) \cap Target : k \in event.keys}
      BY <2>1, <3>2, RootsAre
    <3>4. seeds = UNION {Readers(p, k) : k \in event.keys} /\ seeds \subseteq p.targets
      BY <2>1, RefreshedIs
    <3>5. \A k : Readers(p, k) \subseteq p.targets
      BY DEF Readers
    <3> HIDE DEF p, roots, seeds
    <3>6. \A k : Readers(p, k) \cap Target = Readers(p, k)
      BY <1>2, <3>5
    <3> QED BY <3>3, <3>4, <3>6
  <2>2. CASE event.type # "state.changed"
    <3>1. event.action \in p.targets /\ event.action \in Actions
      BY <1>3, <1>5, <2>2 DEF UnknownInEvent
    <3>2. roots = p.onSuccess[event.action] \cap Target
      BY <2>2, RootsAre
    <3> HIDE DEF p
    <3>3. PICK a \in Range(dsl.actions) : a.id = event.action /\ a \in Definitions
      BY <1>2, <3>1
    <3>4. {b \in Range(dsl.actions) : b.id = event.action} = {a}
      BY <1>2, <3>3
    <3>5. seeds = a.refresh \cup a.run
      BY <2>2, <3>4
    <3>6. p.onSuccess[event.action] = a.refresh \cup a.run
      BY <1>2, <3>3
    <3>7. p.onSuccess[event.action] \subseteq p.targets
      BY <1>5, <3>1 DEF UnknownInPage
    <3> HIDE DEF roots, seeds
    <3> QED BY <1>2, <3>2, <3>5, <3>6, <3>7
  <2> QED BY <2>1, <2>2
<1> HIDE DEF seeds
<1> QED BY <1>1, <1>4, <1>6 DEF p, roots

----------------------------------------------------------------------------
(* Sorting ends.                                                           *)

\* In a finite set without a cycle somebody is not fed from the set.
LEMMA SomeoneIsFirst ==
  ASSUME NEW edges, Graph(edges), ~HasCycle(edges),
         NEW S \in SUBSET DOMAIN edges, S # {}, IsFiniteSet(S)
  PROVE  \E t \in S : \A u \in S : t \notin edges[u]
<1> DEFINE Fed(R) == R # {} /\ \A t \in R : \E u \in R : t \in edges[u]
           Sizes == {Cardinality(R) : R \in {Q \in SUBSET S : Fed(Q)}}
<1>1. SUFFICES ASSUME Fed(S) PROVE FALSE
  OBVIOUS
<1>2. \A R \in SUBSET S : IsFiniteSet(R) /\ Cardinality(R) \in Nat
  BY FS_Subset, FS_CardinalityType
<1> HIDE DEF Fed
<1>3. Sizes \in SUBSET Nat /\ Sizes # {}
  BY <1>1, <1>2
<1>4. PICK R \in SUBSET S : Fed(R) /\ \A Q \in SUBSET S : Fed(Q) => Cardinality(R) <= Cardinality(Q)
  <2>1. PICK n \in Sizes : \A m \in Sizes : n <= m
    <3> HIDE DEF Sizes
    <3> QED BY <1>3, LeastNumber
  <2> QED BY <2>1
<1>5. PICK last \in R : edges[last] \cap R = {}
  <2>1. R \in SUBSET DOMAIN edges /\ R # {}
    BY <1>4 DEF Fed
  <2> QED BY <2>1 DEF HasCycle
<1>6. Fed(R \ {last})
  <2>1. \A t \in R : \E u \in R : t \in edges[u]
    BY <1>4 DEF Fed
  <2>2. \A t \in R : t \notin edges[last]
    BY <1>5
  <2>3. \A t \in R : \E u \in R \ {last} : t \in edges[u]
    BY <2>1, <2>2
  <2>4. R \ {last} # {}
    BY <1>5, <2>3
  <2> QED BY <2>3, <2>4 DEF Fed
<1>7. Cardinality(R) <= Cardinality(R \ {last})
  BY <1>4, <1>6
<1>8. Cardinality(R \ {last}) = Cardinality(R) - 1 /\ Cardinality(R) \in Nat
  BY <1>2, <1>4, <1>5, FS_RemoveElement
<1> QED BY <1>7, <1>8

----------------------------------------------------------------------------
(* The invariant, part by part.                                            *)

Planning == {"expand", "sort", "rules", "execute", "done"}
Sorted == {"rules", "execute", "done"}

\* The event goes on as long as the page makes sense.
PageInv ==
  /\ Requested
  /\ phase \in {"parse", "build", "rejected"} \cup Planning
  /\ phase \in {"build"} \cup Planning => Accepted(dsl) /\ page = Parse(dsl)
  /\ phase \in Planning => /\ ~UnknownInPage(page) /\ ~UnknownInEvent(page, event)
                           /\ ~HasCycle(Feeds)

\* What has been expanded has all it feeds in the queue.
QueueInv ==
  /\ phase \in {"parse", "build"} => next = 0
  /\ phase = "expand" =>
       /\ IsSeq(queue) /\ Range(queue) \subseteq Planned
       /\ Range(Roots(page, event)) \subseteq Range(queue)
       /\ next \in 0 .. Len(queue)
       /\ \A i \in 1 .. next : Feeds[queue[i]] \subseteq Range(queue)
  /\ phase \in {"sort"} \cup Sorted => Range(queue) = Planned

\* What is ordered has all that feeds it before it, and the degree of a target is
\* the number of those that feed it and are not ordered.
OrderInv ==
  /\ phase \in {"parse", "build", "expand"} => order = << >>
  /\ phase \in {"sort"} \cup Sorted =>
       /\ IsSeq(order) /\ Range(order) \subseteq Planned
       /\ \A x, y : Before(order, x, y) => x # y /\ x \notin Feeds[y]
  /\ phase = "sort" =>
       /\ \A t \in Range(order) : \A u \in Planned : t \in Feeds[u] => u \in Range(order)
       /\ degree = [t \in Planned |-> Cardinality({u \in Planned \ Range(order) : t \in Feeds[u]})]
  /\ phase \in Sorted => Range(order) = Planned

EffectsInv ==
  /\ EffectsAreAskedFor /\ effects.targets \subseteq Target
  /\ rule \in Nat

\* The host has been given the first commands, and every one was done.
ResultsInv ==
  /\ phase \notin {"execute", "done", "rejected"} => calls = << >> /\ results = << >>
  /\ phase \in {"execute", "done"} =>
       /\ IsSeq(commands) /\ IsSeq(calls) /\ IsSeq(results)
       /\ Len(calls) = Len(results) /\ Len(results) <= Len(commands)
       /\ \A i \in 1 .. Len(results) : /\ results[i] = commands[i]
                                       /\ calls[i] = [command |-> commands[i], ok |-> TRUE]
  /\ phase = "done" => Len(results) = Len(commands)

Inv == PageInv /\ QueueInv /\ OrderInv /\ EffectsInv /\ CommandsFollowPlan /\ ResultsInv /\ ToldIsDone

\* The page and the event stay, and what is said about them.
LEMMA Given ==
  ASSUME [Next]_vars
  PROVE  /\ dsl' = dsl /\ event' = event /\ (Requested' <=> Requested)
         /\ Feeds' = Feeds /\ Planned' = Planned
<1>1. dsl' = dsl /\ event' = event
  BY DEF Next, vars, planning, ParsePage, BuildGraph, Expand, CountEdges, Emit, FinishSort,
         EvaluateRule, BuildCommands, CommandSucceeds, CommandFails, FinishExecution, Over
<1>2. Requested' <=> Requested
  BY <1>1 DEF Requested
<1>3. Definitions' = Definitions
  BY <1>1 DEF Definitions
<1>4. \A keys : Refreshed(keys)' = Refreshed(keys)
  BY <1>1, <1>3 DEF Refreshed
<1>5. Feeds' = Feeds
  BY <1>1, <1>3, <1>4 DEF Feeds
<1>6. Planned' = Planned
  BY <1>1, <1>4, <1>5 DEF Planned
<1> QED BY <1>1, <1>2, <1>5, <1>6

\* What the planned targets are, once the event is being planned.
LEMMA PlanFacts ==
  ASSUME PageInv, phase \in Planning
  PROVE  /\ Feeds = Downstream(page) /\ Graph(Feeds) /\ DOMAIN Feeds \subseteq Target
         /\ DOMAIN Feeds = page.targets
         /\ \A t \in DOMAIN Feeds : t \notin Feeds[t]
         /\ LET roots == Range(Roots(page, event)) IN
            /\ roots \subseteq Planned
            /\ \A S \in SUBSET Planned :
                 roots \subseteq S /\ (\A t \in S : Feeds[t] \subseteq S) => S = Planned
         /\ Planned \subseteq DOMAIN Feeds /\ IsFiniteSet(Planned)
         /\ \A t \in Planned : Feeds[t] \subseteq Planned
<1>1. Requested /\ Accepted(dsl) /\ page = Parse(dsl) /\ ~UnknownInPage(page) /\ ~UnknownInEvent(page, event)
  BY DEF PageInv, Planning
<1>2. /\ Feeds = Downstream(page) /\ Graph(Feeds) /\ DOMAIN Feeds \subseteq Target
      /\ DOMAIN Feeds = page.targets
      /\ \A t \in DOMAIN Feeds : t \notin Feeds[t]
  BY <1>1, FeedsIs
<1> DEFINE roots == Range(Roots(page, event))
<1>3. roots \subseteq DOMAIN Feeds /\ Planned = DependencyClosure(Feeds, roots)
  BY <1>1, PlannedIs
<1> HIDE DEF roots
<1>4. roots \subseteq Planned /\ Planned \subseteq DOMAIN Feeds /\ \A t \in Planned : Feeds[t] \subseteq Planned
  BY <1>2, <1>3, ClosureIsClosed
<1>5. ASSUME NEW S \in SUBSET Planned, roots \subseteq S, \A t \in S : Feeds[t] \subseteq S
      PROVE  S = Planned
  <2>1. S \in SUBSET DOMAIN Feeds
    BY <1>4
  <2>2. DependencyClosure(Feeds, roots) \subseteq S
    BY <1>5, <2>1, ClosureIsLeast
  <2> QED BY <1>3, <2>2
<1>6. IsFiniteSet(Planned)
  BY <1>2, <1>4, TargetFinite, FS_Subset
<1> QED BY <1>2, <1>4, <1>5, <1>6 DEF roots

LEMMA PageStep ==
  ASSUME Inv, [Next]_vars
  PROVE  PageInv'
<1>1. /\ dsl' = dsl /\ event' = event /\ (Requested' <=> Requested) /\ Feeds' = Feeds
      /\ Requested /\ PageInv
  BY Given DEF Inv, PageInv
<1> USE DEF Planning
<1>2. CASE ParsePage
  BY <1>1, <1>2 DEF ParsePage, PageInv
<1>3. CASE BuildGraph
  <2>1. Accepted(dsl) /\ page = Parse(dsl) /\ page' = page
    BY <1>1, <1>3 DEF BuildGraph, PageInv
  <2>2. Feeds = Downstream(page)
    BY <1>1, <2>1, FeedsIs
  <2>3. \/ phase' = "rejected"
        \/ /\ phase' = "expand" /\ ~UnknownInPage(page) /\ ~UnknownInEvent(page, event)
           /\ ~HasCycle(Downstream(page))
    BY <1>3 DEF BuildGraph
  <2>4. CASE phase' = "rejected"
    BY <1>1, <2>4 DEF PageInv
  <2>5. CASE phase' = "expand"
    <3>1. ~UnknownInPage(page') /\ ~UnknownInEvent(page', event')
      BY <1>1, <2>1, <2>3, <2>5
    <3>2. ~HasCycle(Feeds')
      BY <1>1, <2>2, <2>3, <2>5
    <3> QED BY <1>1, <2>1, <2>5, <3>1, <3>2 DEF PageInv
  <2> QED BY <2>3, <2>4, <2>5
<1>4. ASSUME page' = page, phase' = "rejected" \/ (phase \in Planning /\ phase' \in Planning) \/ phase' = phase
      PROVE  PageInv'
  BY <1>1, <1>4 DEF PageInv
<1>5. CASE Expand
  BY <1>4, <1>5 DEF Expand
<1>6. CASE CountEdges
  BY <1>4, <1>6 DEF CountEdges
<1>7. CASE Emit
  BY <1>4, <1>7 DEF Emit
<1>8. CASE FinishSort
  BY <1>4, <1>8 DEF FinishSort
<1>9. CASE EvaluateRule
  BY <1>4, <1>9 DEF EvaluateRule
<1>10. CASE BuildCommands
  BY <1>4, <1>10 DEF BuildCommands
<1>11. CASE CommandSucceeds
  BY <1>4, <1>11 DEF CommandSucceeds
<1>12. CASE CommandFails
  BY <1>4, <1>12 DEF CommandFails
<1>13. CASE FinishExecution
  BY <1>4, <1>13 DEF FinishExecution
<1>14. CASE Over \/ UNCHANGED vars
  BY <1>4, <1>14 DEF Over, vars
<1> QED BY <1>2, <1>3, <1>5, <1>6, <1>7, <1>8, <1>9, <1>10, <1>11, <1>12, <1>13, <1>14 DEF Next

LEMMA QueueStep ==
  ASSUME Inv, [Next]_vars
  PROVE  QueueInv'
<1>1. /\ event' = event /\ Feeds' = Feeds /\ Planned' = Planned
      /\ PageInv /\ QueueInv /\ OrderInv
  BY Given DEF Inv
<1> USE DEF Planning, Sorted
<1>2. CASE ParsePage
  BY <1>1, <1>2 DEF ParsePage, QueueInv, planning
<1>3. CASE BuildGraph
  <2>1. CASE phase' = "rejected"
    BY <2>1 DEF QueueInv
  <2>2. CASE phase' = "expand"
    <3>1. queue' = Roots(page, event) /\ page' = page /\ next' = next /\ next = 0
      BY <1>1, <1>3, <2>2 DEF BuildGraph, QueueInv
    <3>2. PageInv'
      BY PageStep
    <3>3. Range(Roots(page, event)) \subseteq Planned
      <4>1. /\ Requested /\ Accepted(dsl) /\ page = Parse(dsl)
            /\ ~UnknownInPage(page) /\ ~UnknownInEvent(page, event)
        BY <1>1, <1>3, <2>2 DEF BuildGraph, PageInv
      <4>2. Graph(Feeds)
        BY <4>1, FeedsIs
      <4>3. /\ Range(Roots(page, event)) \subseteq DOMAIN Feeds
            /\ Planned = DependencyClosure(Feeds, Range(Roots(page, event)))
        BY <4>1, PlannedIs
      <4> QED BY <4>2, <4>3, ClosureIsClosed
    <3>4. IsSeq(Roots(page, event)) /\ Len(Roots(page, event)) \in Nat
      BY RootsAre, SeqFacts
    <3>5. queue' = Roots(page', event') /\ next' = 0 /\ 1 .. 0 = {}
      BY <1>1, <3>1
    <3>6. IsSeq(queue') /\ Range(queue') \subseteq Planned' /\ next' \in 0 .. Len(queue')
      BY <1>1, <3>1, <3>3, <3>4
    <3>7. \A i \in 1 .. next' : Feeds'[queue'[i]] \subseteq Range(queue')
      BY <3>5
    <3> QED BY <2>2, <3>5, <3>6, <3>7 DEF QueueInv
  <2> QED BY <1>3, <2>1, <2>2 DEF BuildGraph
<1>4. CASE Expand
  <2> DEFINE t == queue[next + 1]
             more == InOrder(Downstream(page)[t])
  <2>1. /\ phase = "expand" /\ phase' = phase /\ page' = page /\ next' = next + 1
        /\ queue' = Enqueue(queue, more) /\ next < Len(queue)
    BY <1>4 DEF Expand
  <2>2. /\ IsSeq(queue) /\ Range(queue) \subseteq Planned
        /\ Range(Roots(page, event)) \subseteq Range(queue)
        /\ next \in 0 .. Len(queue) /\ Len(queue) \in Nat
        /\ \A i \in 1 .. next : Feeds[queue[i]] \subseteq Range(queue)
    BY <1>1, <2>1, SeqFacts DEF QueueInv
  <2>3. /\ Feeds = Downstream(page) /\ DOMAIN Feeds \subseteq Target /\ Graph(Feeds)
        /\ \A u \in Planned : Feeds[u] \subseteq Planned
        /\ Planned \subseteq DOMAIN Feeds
    BY <1>1, <2>1, PlanFacts
  <2>4. t \in Range(queue) /\ t \in Planned
    BY <2>1, <2>2, SeqFacts
  <2>5. IsSeq(more) /\ Range(more) = Feeds[t]
    <3>1. IsSeq(more) /\ Range(more) = Feeds[t] \cap Target
      BY <2>3, InOrderIs
    <3>2. Feeds[t] \subseteq Target
      BY <2>3, <2>4
    <3> QED BY <3>1, <3>2
  <2> HIDE DEF more, t
  <2>6. /\ IsSeq(queue') /\ Range(queue') = Range(queue) \cup Feeds[t]
        /\ Len(queue) <= Len(queue') /\ \A i \in 1 .. Len(queue) : queue'[i] = queue[i]
    BY <2>1, <2>2, <2>5, EnqueueIs
  <2>7. Range(queue') \subseteq Planned /\ next' \in 0 .. Len(queue')
    <3>1. Len(queue') \in Nat
      BY <2>6, SeqFacts
    <3> QED BY <2>1, <2>2, <2>3, <2>4, <2>6, <3>1
  <2>8. ASSUME NEW i \in 1 .. next' PROVE Feeds[queue'[i]] \subseteq Range(queue')
    <3>1. i \in 1 .. Len(queue) /\ queue'[i] = queue[i]
      BY <2>1, <2>2, <2>6
    <3>2. i \in 1 .. next \/ i = next + 1
      BY <2>1, <2>2
    <3> QED BY <2>2, <2>6, <3>1, <3>2 DEF t
  <2>9. Range(Roots(page', event')) \subseteq Range(queue')
    BY <1>1, <2>1, <2>2, <2>6
  <2> QED BY <1>1, <2>1, <2>6, <2>7, <2>8, <2>9 DEF QueueInv
<1>5. CASE CountEdges
  <2>1. phase = "expand" /\ next = Len(queue) /\ phase' = "sort" /\ queue' = queue
    BY <1>5 DEF CountEdges
  <2>2. /\ Range(queue) \subseteq Planned /\ IsSeq(queue)
        /\ Range(Roots(page, event)) \subseteq Range(queue)
        /\ \A i \in 1 .. Len(queue) : Feeds[queue[i]] \subseteq Range(queue)
    BY <1>1, <2>1 DEF QueueInv
  <2>3. \A t \in Range(queue) : Feeds[t] \subseteq Range(queue)
    <3>1. \A t \in Range(queue) : \E i \in 1 .. Len(queue) : queue[i] = t
      BY <2>2, SeqFacts
    <3> QED BY <2>2, <3>1
  <2>4. Range(queue) = Planned
    BY <1>1, <2>1, <2>2, <2>3, PlanFacts
  <2> QED BY <1>1, <2>1, <2>4 DEF QueueInv
<1>6. ASSUME queue' = queue,
             phase' = "rejected" \/ (phase \in {"sort"} \cup Sorted /\ phase' \in {"sort"} \cup Sorted)
      PROVE  QueueInv'
  BY <1>1, <1>6 DEF QueueInv
<1>7. CASE Emit
  BY <1>6, <1>7 DEF Emit
<1>8. CASE FinishSort
  BY <1>6, <1>8 DEF FinishSort, planning
<1>9. CASE EvaluateRule
  BY <1>6, <1>9 DEF EvaluateRule, planning
<1>10. CASE BuildCommands
  BY <1>6, <1>10 DEF BuildCommands, planning
<1>11. CASE CommandSucceeds
  BY <1>6, <1>11 DEF CommandSucceeds, planning
<1>12. CASE CommandFails
  BY <1>6, <1>12 DEF CommandFails, planning
<1>13. CASE FinishExecution
  BY <1>6, <1>13 DEF FinishExecution, planning
<1>14. CASE Over \/ UNCHANGED vars
  BY <1>1, <1>14 DEF Over, vars, planning, QueueInv
<1> QED BY <1>2, <1>3, <1>4, <1>5, <1>7, <1>8, <1>9, <1>10, <1>11, <1>12, <1>13, <1>14 DEF Next

\* A target is ordered when all that feeds it is.
LEMMA EmitStep ==
  ASSUME Inv, [Next]_vars, Emit
  PROVE  OrderInv'
<1> DEFINE R == Range(order)
           t == InOrder(Ready)[1]
           waits(S, u) == {v \in Planned \ S : u \in Feeds[v]}
<1>1. /\ phase = "sort" /\ Ready # {} /\ phase' = "sort"
      /\ order' = Append(order, t)
      /\ degree' = [u \in DOMAIN degree |->
                      IF u \in Downstream(page)[t] THEN degree[u] - 1 ELSE degree[u]]
  BY DEF Emit
<1>2. PageInv /\ QueueInv /\ OrderInv /\ Feeds' = Feeds /\ Planned' = Planned
  BY Given DEF Inv
<1>3. /\ Range(queue) = Planned /\ IsSeq(order) /\ R \subseteq Planned
      /\ \A x, y : Before(order, x, y) => x # y /\ x \notin Feeds[y]
      /\ \A x \in R : \A u \in Planned : x \in Feeds[u] => u \in R
      /\ degree = [u \in Planned |-> Cardinality(waits(R, u))]
  BY <1>1, <1>2 DEF QueueInv, OrderInv
<1>4. /\ Feeds = Downstream(page) /\ Planned \subseteq DOMAIN Feeds /\ DOMAIN Feeds \subseteq Target
      /\ \A u \in DOMAIN Feeds : u \notin Feeds[u]
      /\ IsFiniteSet(Planned)
  BY <1>1, <1>2, PlanFacts DEF Planning
<1>5. t \in Ready
  <2>1. Ready \subseteq Target
    BY <1>3, <1>4 DEF Ready
  <2>2. IsSeq(InOrder(Ready)) /\ Range(InOrder(Ready)) = Ready
    BY <2>1, InOrderIs
  <2> QED BY <1>1, <2>2, NonEmpty
<1> HIDE DEF t
<1>6. t \in Planned \ R /\ degree[t] = 0
  BY <1>3, <1>5 DEF Ready
<1>7. \A S, u : IsFiniteSet(waits(S, u)) /\ Cardinality(waits(S, u)) \in Nat
  <2>1. \A S, u : waits(S, u) \in SUBSET Planned
    OBVIOUS
  <2> HIDE DEF waits
  <2> QED BY <1>4, <2>1, FS_Subset, FS_CardinalityType
<1>8. waits(R, t) = {}
  <2>1. Cardinality(waits(R, t)) = 0
    BY <1>3, <1>6
  <2> HIDE DEF waits
  <2> QED BY <1>7, <2>1, FS_EmptySet
<1>9. \A v \in Planned : t \in Feeds[v] => v \in R
  BY <1>8
<1>10. /\ IsSeq(order') /\ Range(order') = R \cup {t}
       /\ \A x, y : Before(order', x, y) <=> Before(order, x, y) \/ (x \in R /\ y = t)
  BY <1>1, <1>3, Appended
<1>11. Range(order') \subseteq Planned
  BY <1>3, <1>6, <1>10
<1>12. ASSUME NEW x, NEW y, Before(order', x, y) PROVE x # y /\ x \notin Feeds[y]
  <2>1. CASE Before(order, x, y)
    BY <1>3, <2>1
  <2>2. CASE x \in R /\ y = t
    <3>1. x \in Feeds[t] => t \in R
      BY <1>3, <1>6, <2>2
    <3> QED BY <1>6, <2>2, <3>1
  <2> QED BY <1>10, <1>12, <2>1, <2>2
<1>13. ASSUME NEW x \in Range(order'), NEW u \in Planned, x \in Feeds[u] PROVE u \in Range(order')
  BY <1>3, <1>9, <1>10, <1>13
<1>14. degree' = [u \in Planned |-> Cardinality(waits(R \cup {t}, u))]
  <2>1. DOMAIN degree = Planned /\ \A u \in Planned : degree[u] = Cardinality(waits(R, u))
    BY <1>3
  <2>2. ASSUME NEW u \in Planned
        PROVE  (IF u \in Downstream(page)[t] THEN degree[u] - 1 ELSE degree[u])
               = Cardinality(waits(R \cup {t}, u))
    <3>1. waits(R \cup {t}, u) = waits(R, u) \ {t}
      OBVIOUS
    <3>2. t \in waits(R, u) <=> u \in Feeds[t]
      BY <1>6
    <3>3. IsFiniteSet(waits(R, u)) /\ Cardinality(waits(R, u)) \in Nat
      BY <1>7
    <3> HIDE DEF waits
    <3>4. Cardinality(waits(R, u) \ {t})
          = IF t \in waits(R, u) THEN Cardinality(waits(R, u)) - 1 ELSE Cardinality(waits(R, u))
      BY <3>3, FS_RemoveElement
    <3> QED BY <1>4, <2>1, <3>1, <3>2, <3>4
  <2> HIDE DEF waits
  <2> QED BY <1>1, <2>1, <2>2
<1>15. degree' = [u \in Planned' |-> Cardinality({v \in Planned' \ Range(order') : u \in Feeds'[v]})]
  BY <1>2, <1>10, <1>14
<1> HIDE DEF R, waits
<1> QED BY <1>1, <1>2, <1>10, <1>11, <1>12, <1>13, <1>15 DEF OrderInv, Sorted

\* When nobody is ready, everybody is ordered.
LEMMA SortEnds ==
  ASSUME PageInv, QueueInv, OrderInv, phase = "sort", Ready = {}
  PROVE  Range(order) = Planned
<1> DEFINE S == Planned \ Range(order)
           waits(u) == {v \in S : u \in Feeds[v]}
<1>1. /\ Range(queue) = Planned /\ Range(order) \subseteq Planned
      /\ degree = [u \in Planned |-> Cardinality(waits(u))]
  BY DEF QueueInv, OrderInv
<1>2. Graph(Feeds) /\ ~HasCycle(Feeds) /\ Planned \subseteq DOMAIN Feeds /\ IsFiniteSet(Planned)
  BY PlanFacts DEF Planning, PageInv
<1>3. SUFFICES ASSUME S # {} PROVE FALSE
  BY <1>1
<1>4. S \in SUBSET DOMAIN Feeds /\ IsFiniteSet(S)
  BY <1>2, FS_Subset
<1>5. PICK t \in S : \A u \in S : t \notin Feeds[u]
  <2> HIDE DEF S
  <2> QED BY <1>2, <1>3, <1>4, SomeoneIsFirst
<1>6. waits(t) = {}
  BY <1>5
<1>7. degree[t] = 0
  <2>1. degree[t] = Cardinality(waits(t))
    BY <1>1, <1>5
  <2> QED BY <1>6, <2>1, FS_EmptySet
<1>8. t \in Ready
  BY <1>1, <1>5, <1>7 DEF Ready
<1> QED BY <1>8

LEMMA OrderStep ==
  ASSUME Inv, [Next]_vars
  PROVE  OrderInv'
<1>1. /\ Feeds' = Feeds /\ Planned' = Planned
      /\ PageInv /\ QueueInv /\ OrderInv
  BY Given DEF Inv
<1> USE DEF Sorted
<1>2. ASSUME order' = order,
             phase \in {"parse", "build", "expand"} /\ phase' \in {"parse", "build", "expand", "rejected"}
      PROVE  OrderInv'
  BY <1>1, <1>2 DEF OrderInv
<1>3. CASE ParsePage
  BY <1>2, <1>3 DEF ParsePage, planning
<1>4. CASE BuildGraph
  BY <1>2, <1>4 DEF BuildGraph
<1>5. CASE Expand
  BY <1>2, <1>5 DEF Expand
<1>6. CASE CountEdges
  <2>1. /\ phase = "expand" /\ next = Len(queue) /\ phase' = "sort" /\ order' = order
        /\ degree' = [t \in Range(queue) |->
                        Cardinality({u \in Range(queue) : t \in Downstream(page)[u]})]
    BY <1>6 DEF CountEdges
  <2>2. Range(queue') = Planned /\ queue' = queue
    <3>1. QueueInv' /\ queue' = queue
      BY <1>6, QueueStep DEF CountEdges
    <3> QED BY <1>1, <2>1, <3>1 DEF QueueInv
  <2>3. Feeds = Downstream(page)
    BY <1>1, <2>1, PlanFacts DEF Planning
  <2>4. order' = << >> /\ Range(order') = {} /\ IsSeq(order') /\ \A x, y : ~Before(order', x, y)
    BY <1>1, <2>1, EmptyIs DEF OrderInv
  <2>5. degree' = [t \in Planned |-> Cardinality({u \in Planned \ Range(order') : t \in Feeds[u]})]
    <3>1. Planned \ Range(order') = Planned
      BY <2>4
    <3> QED BY <2>1, <2>2, <2>3, <3>1
  <2> QED BY <1>1, <2>1, <2>4, <2>5 DEF OrderInv
<1>7. CASE Emit
  BY <1>7, EmitStep
<1>8. CASE FinishSort
  <2>1. /\ phase = "sort" /\ Ready = {} /\ phase' \in {"rules", "rejected"}
        /\ order' = order
    BY <1>8 DEF FinishSort, planning
  <2>2. /\ IsSeq(order) /\ Range(order) \subseteq Planned
        /\ \A x, y : Before(order, x, y) => x # y /\ x \notin Feeds[y]
    BY <1>1, <2>1 DEF OrderInv
  <2>3. Range(order) = Planned
    BY <1>1, <2>1, SortEnds
  <2> QED BY <1>1, <2>1, <2>2, <2>3 DEF OrderInv
<1>9. ASSUME order' = order, phase \in Sorted /\ phase' \in Sorted \cup {"rejected"}
      PROVE  OrderInv'
  BY <1>1, <1>9 DEF OrderInv
<1>10. CASE EvaluateRule
  BY <1>9, <1>10 DEF EvaluateRule, planning
<1>11. CASE BuildCommands
  BY <1>9, <1>11 DEF BuildCommands, planning
<1>12. CASE CommandSucceeds
  BY <1>9, <1>12 DEF CommandSucceeds, planning
<1>13. CASE CommandFails
  BY <1>9, <1>13 DEF CommandFails, planning
<1>14. CASE FinishExecution
  BY <1>9, <1>14 DEF FinishExecution, planning
<1>15. CASE Over \/ UNCHANGED vars
  <2>1. UNCHANGED <<phase, order, degree>>
    BY <1>15 DEF Over, vars, planning
  <2> QED BY <1>1, <2>1 DEF OrderInv
<1> QED BY <1>3, <1>4, <1>5, <1>6, <1>7, <1>8, <1>10, <1>11, <1>12, <1>13, <1>14, <1>15 DEF Next

----------------------------------------------------------------------------
(* What the rules ask for.                                                 *)

Asked == UNION {Range(r.effects) : r \in {q \in Range(dsl.rules) : Concerns(q)}}

AsksFor(asked, patch, targets) ==
  /\ \A k \in patch : \E e \in asked : e.type = "setState" /\ e.key = k
  /\ \A t \in targets : \E e \in asked : e.type = "target" /\ e.target = t

\* The rule that is looked at, as it is written.
LEMMA RuleIs ==
  ASSUME PageInv, phase = "rules", rule \in Nat, rule < Len(page.rules)
  PROVE  LET q == dsl.rules[rule + 1] IN
         /\ q \in Range(dsl.rules)
         /\ page.rules[rule + 1] =
              [trigger |-> q.trigger, reads |-> VisitArgs(q.args), effects |-> Range(q.effects)]
<1> DEFINE r(i) == [trigger |-> dsl.rules[i].trigger, reads |-> VisitArgs(dsl.rules[i].args),
                    effects |-> Range(dsl.rules[i].effects)]
           n == Len(dsl.rules)
           S == {r(i) : i \in 1 .. n}
<1>1. page = Parse(dsl) /\ Requested
  BY DEF PageInv, Planning
<1>2. n \in Nat /\ DOMAIN dsl.rules = 1 .. n /\ \A i \in 1 .. n : dsl.rules[i] \in Range(dsl.rules)
  BY <1>1, PageIsWritten, SeqFacts
<1>3. page.rules = [i \in 1 .. n |-> r(i)]
  BY <1>1, <1>2 DEF Parse
<1> HIDE DEF n, r
<1>4. page.rules \in [1 .. n -> S]
  BY <1>3
<1> HIDE DEF S
<1>5. page.rules \in Seq(S)
  BY <1>2, <1>4, SeqDef
<1>6. Len(page.rules) \in Nat /\ DOMAIN page.rules = 1 .. Len(page.rules) /\ DOMAIN page.rules = 1 .. n
  BY <1>4, <1>5, LenProperties
<1>7. rule + 1 \in 1 .. n
  <2>1. rule + 1 \in 1 .. Len(page.rules)
    BY <1>6
  <2> QED BY <1>6, <2>1
<1> QED BY <1>2, <1>3, <1>7 DEF r

\* A rule that is triggered is one the event concerns.
LEMMA TriggeredIs ==
  ASSUME PageInv, NEW q \in Range(dsl.rules),
         Triggered([trigger |-> q.trigger, reads |-> VisitArgs(q.args), effects |-> Range(q.effects)])
  PROVE  Range(q.effects) \subseteq Asked
<1>1. Range(q.args) \subseteq Arguments
  BY PageIsWritten DEF PageInv
<1>2. VisitArgs(q.args) =
        {a.key : a \in {b \in UNION {ArgumentsInside(c) : c \in Range(q.args)} : b.source = "state"}}
  BY <1>1, VisitArgsIs
<1>3. /\ q.trigger = event.type
      /\ event.type = "state.changed" /\ VisitArgs(q.args) # {} => VisitArgs(q.args) \cap event.keys # {}
  BY DEF Triggered
<1>4. Concerns(q)
  BY <1>2, <1>3 DEF Concerns
<1> QED BY <1>4 DEF Asked

LEMMA EffectsStep ==
  ASSUME Inv, [Next]_vars
  PROVE  EffectsInv'
<1>1. /\ dsl' = dsl /\ event' = event
      /\ PageInv /\ EffectsInv
  BY Given DEF Inv
<1>2. Asked' = Asked
  BY <1>1 DEF Asked, Concerns
<1>3. AsksFor(Asked, effects.patch, effects.targets) /\ effects.targets \subseteq Target /\ rule \in Nat
  BY <1>1 DEF EffectsInv, EffectsAreAskedFor, AsksFor, Asked
<1>4. ASSUME AsksFor(Asked, effects'.patch, effects'.targets), effects'.targets \subseteq Target,
             rule' \in Nat
      PROVE  EffectsInv'
  BY <1>2, <1>4 DEF EffectsInv, EffectsAreAskedFor, AsksFor, Asked
<1>5. CASE EvaluateRule
  <2> DEFINE q == dsl.rules[rule + 1]
             r == page.rules[rule + 1]
  <2>1. /\ phase = "rules" /\ rule < Len(page.rules) /\ rule' = rule + 1
        /\ effects' = effects \/ (Triggered(r) /\ (\A e \in r.effects : Known(e)) /\ effects' = Matched(r))
    BY <1>5 DEF EvaluateRule
  <2>2. CASE effects' = effects
    BY <1>3, <1>4, <2>1, <2>2
  <2>3. CASE Triggered(r) /\ (\A e \in r.effects : Known(e)) /\ effects' = Matched(r)
    <3>1. /\ q \in Range(dsl.rules)
          /\ r = [trigger |-> q.trigger, reads |-> VisitArgs(q.args), effects |-> Range(q.effects)]
      BY <1>1, <1>3, <2>1, RuleIs
    <3> HIDE DEF q, r
    <3>2. r.effects \subseteq Asked
      <4>1. Range(q.effects) \subseteq Asked
        BY <1>1, <2>3, <3>1, TriggeredIs
      <4> QED BY <3>1, <4>1
    <3>3. page.targets \subseteq Target
      <4>1. page = Parse(dsl) /\ Requested /\ Accepted(dsl)
        BY <1>1, <2>1 DEF PageInv, Planning
      <4> QED BY <4>1, ParsedIs
    <3>4. /\ effects'.patch = effects.patch \cup {e.key : e \in {f \in r.effects : f.type = "setState"}}
          /\ effects'.targets = effects.targets \cup {e.target : e \in {f \in r.effects : f.type = "target"}}
      BY <2>3 DEF Matched
    <3>5. AsksFor(Asked, effects'.patch, effects'.targets)
      <4>1. ASSUME NEW k \in effects'.patch PROVE \E e \in Asked : e.type = "setState" /\ e.key = k
        BY <1>3, <3>2, <3>4 DEF AsksFor
      <4>2. ASSUME NEW t \in effects'.targets PROVE \E e \in Asked : e.type = "target" /\ e.target = t
        BY <1>3, <3>2, <3>4 DEF AsksFor
      <4> QED BY <4>1, <4>2 DEF AsksFor
    <3>6. ASSUME NEW e \in r.effects, e.type = "target" PROVE e.target \in page.targets
      BY <2>3, <3>6 DEF Known
    <3>7. effects'.targets \subseteq Target
      BY <1>3, <3>3, <3>4, <3>6
    <3> QED BY <1>3, <1>4, <2>1, <3>5, <3>7
  <2> QED BY <2>1, <2>2, <2>3
<1>6. ASSUME effects' = effects, rule' = rule PROVE EffectsInv'
  BY <1>3, <1>4, <1>6
<1>7. CASE ~EvaluateRule
  <2>1. effects' = effects /\ rule' = rule
    BY <1>7 DEF Next, vars, ParsePage, BuildGraph, Expand, CountEdges, Emit, FinishSort,
         BuildCommands, CommandSucceeds, CommandFails, FinishExecution, Over
  <2> QED BY <1>6, <2>1
<1> QED BY <1>5, <1>7

----------------------------------------------------------------------------
(* The commands.                                                           *)

\* What stands in the order stands before all that it feeds in the end.
LEMMA FeedsGoFirst ==
  ASSUME PageInv, OrderInv, phase \in Sorted,
         NEW t \in Planned, NEW u \in DependencyClosure(Feeds, {t}) \ {t}
  PROVE  Before(order, t, u)
<1> DEFINE S == {t} \cup {y \in Planned : Before(order, t, y)}
<1>1. /\ Graph(Feeds) /\ Planned \subseteq DOMAIN Feeds
      /\ \A y \in Planned : Feeds[y] \subseteq Planned
      /\ \A y \in DOMAIN Feeds : y \notin Feeds[y]
  BY PlanFacts DEF Planning, Sorted
<1>2. /\ IsSeq(order) /\ Range(order) = Planned
      /\ \A x, y : Before(order, x, y) => x # y /\ x \notin Feeds[y]
  BY DEF OrderInv, Sorted
<1>3. ASSUME NEW y \in S, NEW z \in Feeds[y] PROVE z \in S
  <2>1. y \in Planned /\ z \in Planned /\ y # z
    BY <1>1, <1>3
  <2>2. Before(order, y, z)
    <3>1. Before(order, y, z) \/ Before(order, z, y)
      BY <1>2, <2>1, BeforeTotal
    <3> QED BY <1>2, <1>3, <3>1
  <2>3. y = t \/ Before(order, t, y)
    BY <1>3
  <2>4. Before(order, t, z)
    <3>1. \A x : ~Before(order, x, x)
      BY <1>2
    <3> QED BY <1>2, <2>2, <2>3, <3>1, BeforeTransitive
  <2> QED BY <2>1, <2>4
<1>4. S \in SUBSET DOMAIN Feeds /\ {t} \subseteq S
  BY <1>1
<1>5. DependencyClosure(Feeds, {t}) \subseteq S
  <2> HIDE DEF S
  <2> QED BY <1>3, <1>4, ClosureIsLeast
<1> QED BY <1>5

\* What is commanded of one kind: what is planned of it in its order, then what
\* the rules add.
LEMMA MergeIs ==
  ASSUME NEW planned, IsSeq(planned), \A x : ~Before(planned, x, x), Range(planned) \subseteq Target,
         NEW asked \in SUBSET Target
  PROVE  LET m == Merge(planned, asked) IN
         /\ IsSeq(m) /\ Range(m) = Range(planned) \cup asked
         /\ \A x : ~Before(m, x, x)
         /\ \A x, y : Before(planned, x, y) => Before(m, x, y)
<1> DEFINE added == InOrder(asked \ Range(planned))
<1>1. IsSeq(added) /\ Range(added) = asked \ Range(planned) /\ \A x : ~Before(added, x, x)
  <2>1. IsSeq(added) /\ Range(added) = (asked \ Range(planned)) \cap Target /\ \A x : ~Before(added, x, x)
    BY InOrderIs
  <2> QED BY <2>1
<1> HIDE DEF added
<1>2. /\ IsSeq(planned \o added) /\ Range(planned \o added) = Range(planned) \cup Range(added)
      /\ \A x, y : Before(planned \o added, x, y) <=>
                     \/ Before(planned, x, y) \/ Before(added, x, y)
                     \/ x \in Range(planned) /\ y \in Range(added)
  BY <1>1, Joined
<1>3. Merge(planned, asked) = planned \o added
  BY DEF Merge, added
<1> DEFINE m == planned \o added
<1> HIDE DEF m
<1>4. /\ IsSeq(m) /\ Range(m) = Range(planned) \cup asked
      /\ \A x : ~Before(m, x, x)
      /\ \A x, y : Before(planned, x, y) => Before(m, x, y)
  BY <1>1, <1>2 DEF m
<1> QED BY <1>3, <1>4 DEF m

Commanded(cs, patch, targets, planned, feeds) ==
  /\ Range(cs) \ {Patch} = planned \cup targets
  /\ \A c \in Range(cs) : ~Before(cs, c, c)
  /\ patch # {} <=> Patch \in Range(cs)
  /\ \A t \in Range(cs) : ~Before(cs, t, Patch)
  /\ \A t \in planned : \A u \in DependencyClosure(feeds, {t}) \ {t} :
       (t \in Datasources <=> u \in Datasources) => Before(cs, t, u)

LEMMA CommandsIs ==
  CommandsFollowPlan <=>
    (phase \in {"execute", "done"} =>
       Commanded(commands, effects.patch, effects.targets, Planned, Feeds))
BY DEF CommandsFollowPlan, Commanded, Before

\* buildManagerCommands.
LEMMA BuildStep ==
  ASSUME Inv, [Next]_vars, BuildCommands
  PROVE  CommandsFollowPlan' /\ IsSeq(commands')
<1> DEFINE of(kind) == Merge(Kept(order, kind), effects.targets \cap kind)
           D == Datasources
           A == Actions
           patch == IF effects.patch = {} THEN << >> ELSE <<Patch>>
           T == effects.targets
<1>1. /\ phase = "rules" /\ phase' = "execute" /\ effects' = effects
      /\ commands' = patch \o of(D) \o of(A)
  BY DEF BuildCommands
<1>2. PageInv /\ OrderInv /\ EffectsInv /\ Feeds' = Feeds /\ Planned' = Planned
  BY Given DEF Inv
<1>3. /\ IsSeq(order) /\ Range(order) = Planned
      /\ \A x : ~Before(order, x, x)
      /\ T \subseteq Target
  BY <1>1, <1>2 DEF OrderInv, EffectsInv, Sorted
<1>4. Planned \subseteq Target
  BY <1>1, <1>2, PlanFacts DEF Planning
<1>5. D \cup A = Target /\ D \cap A = {} /\ Patch \notin Target
  BY TargetsAssumption DEF Actions
<1>6. ASSUME NEW kind \in {D, A}
      PROVE  /\ IsSeq(of(kind)) /\ Range(of(kind)) = (Planned \cup T) \cap kind
             /\ \A x : ~Before(of(kind), x, x)
             /\ \A x, y : x \in kind /\ y \in kind /\ Before(order, x, y) => Before(of(kind), x, y)
  <2> DEFINE planned == Kept(order, kind)
             asked == T \cap kind
  <2>1. /\ IsSeq(planned) /\ Range(planned) = Planned \cap kind
        /\ \A x, y : Before(planned, x, y) <=> x \in kind /\ y \in kind /\ Before(order, x, y)
    BY <1>3, KeptIs
  <2>2. (\A x : ~Before(planned, x, x)) /\ Range(planned) \subseteq Target /\ asked \in SUBSET Target
    BY <1>3, <1>4, <2>1
  <2> HIDE DEF planned, asked
  <2>3. /\ IsSeq(Merge(planned, asked)) /\ Range(Merge(planned, asked)) = Range(planned) \cup asked
        /\ \A x : ~Before(Merge(planned, asked), x, x)
        /\ \A x, y : Before(planned, x, y) => Before(Merge(planned, asked), x, y)
    BY <2>1, <2>2, MergeIs
  <2>4. of(kind) = Merge(planned, asked) /\ Range(planned) \cup asked = (Planned \cup T) \cap kind
    BY <2>1 DEF planned, asked
  <2> HIDE DEF of
  <2> QED BY <2>1, <2>3, <2>4
<1> HIDE DEF of
<1>7. /\ IsSeq(patch) /\ \A x, y : ~Before(patch, x, y)
      /\ Range(patch) = IF effects.patch = {} THEN {} ELSE {Patch}
  <2>1. << >> \o <<Patch>> = <<Patch>> /\ Append(<< >>, Patch) = <<Patch>>
    OBVIOUS
  <2>2. CASE effects.patch = {}
    BY <2>2, EmptyIs
  <2>3. CASE effects.patch # {}
    <3>1. patch = Append(<< >>, Patch)
      BY <2>1, <2>3
    <3> DEFINE none == << >>
    <3>2. IsSeq(none) /\ Range(none) = {} /\ \A x, y : ~Before(none, x, y)
      BY EmptyIs
    <3>3. patch = Append(none, Patch)
      BY <3>1
    <3> HIDE DEF none, patch
    <3>4. /\ IsSeq(patch) /\ Range(patch) = Range(none) \cup {Patch}
          /\ \A x, y : Before(patch, x, y) <=> Before(none, x, y) \/ (x \in Range(none) /\ y = Patch)
      BY <3>2, <3>3, Appended
    <3> QED BY <2>3, <3>2, <3>4
  <2> QED BY <2>2, <2>3
<1> HIDE DEF patch
<1> DEFINE first == patch \o of(D)
<1>8. /\ IsSeq(first) /\ Range(first) = Range(patch) \cup Range(of(D))
      /\ \A x, y : Before(first, x, y) <=> \/ Before(patch, x, y) \/ Before(of(D), x, y)
                                           \/ x \in Range(patch) /\ y \in Range(of(D))
  BY <1>6, <1>7, Joined
<1>9. commands' = first \o of(A)
  BY <1>1
<1> HIDE DEF first
<1>10. /\ IsSeq(commands') /\ Range(commands') = Range(first) \cup Range(of(A))
       /\ \A x, y : Before(commands', x, y) <=> \/ Before(first, x, y) \/ Before(of(A), x, y)
                                                \/ x \in Range(first) /\ y \in Range(of(A))
  BY <1>6, <1>8, <1>9, Joined
<1>11. Range(commands') = Range(patch) \cup Planned \cup T
  BY <1>3, <1>4, <1>5, <1>6, <1>8, <1>10
<1>12. Range(commands') \ {Patch} = Planned \cup T
  BY <1>3, <1>4, <1>5, <1>7, <1>11
<1>13. Patch \in Range(commands') <=> effects.patch # {}
  BY <1>3, <1>4, <1>5, <1>7, <1>11
<1>14. ASSUME NEW c PROVE ~Before(commands', c, c)
  <2>1. Range(of(D)) \cap Range(of(A)) = {} /\ Patch \notin Range(of(D)) /\ Patch \notin Range(of(A))
    BY <1>5, <1>6
  <2> QED BY <1>6, <1>7, <1>8, <1>10, <2>1
<1>15. ASSUME NEW c PROVE ~Before(commands', c, Patch)
  <2>1. Patch \notin Range(of(D)) /\ Patch \notin Range(of(A))
    BY <1>5, <1>6
  <2>2. ~Before(of(D), c, Patch) /\ ~Before(of(A), c, Patch)
    BY <2>1, BeforeIn
  <2> QED BY <1>7, <1>8, <1>10, <2>1, <2>2
<1>16. ASSUME NEW t \in Planned, NEW u \in DependencyClosure(Feeds, {t}) \ {t},
              t \in Datasources <=> u \in Datasources
       PROVE  Before(commands', t, u)
  <2>1. Before(order, t, u)
    BY <1>1, <1>2, FeedsGoFirst DEF Sorted
  <2>2. t \in Target /\ u \in Target
    BY <1>3, <1>4, <2>1, BeforeIn
  <2>3. (t \in D /\ u \in D) \/ (t \in A /\ u \in A)
    BY <1>5, <1>16, <2>2
  <2>4. Before(of(D), t, u) \/ Before(of(A), t, u)
    BY <1>6, <2>1, <2>3
  <2> QED BY <1>8, <1>10, <2>4
<1>17. Commanded(commands', effects'.patch, effects'.targets, Planned', Feeds')
  BY <1>1, <1>2, <1>12, <1>13, <1>14, <1>15, <1>16 DEF Commanded
<1>18. CommandsFollowPlan'
  <2>1. Commanded(commands, effects.patch, effects.targets, Planned, Feeds)'
    BY <1>17
  <2> QED BY <2>1, CommandsIs, PTL
<1> QED BY <1>10, <1>18

LEMMA CommandsStep ==
  ASSUME Inv, [Next]_vars
  PROVE  CommandsFollowPlan'
<1>1. Feeds' = Feeds /\ Planned' = Planned /\ CommandsFollowPlan
  BY Given DEF Inv
<1>2. CASE BuildCommands
  BY <1>2, BuildStep
<1>3. CASE ~BuildCommands
  <2>1. \/ phase' \notin {"execute", "done"}
        \/ phase \in {"execute", "done"} /\ commands' = commands /\ effects' = effects
    BY <1>3 DEF Next, vars, planning, ParsePage, BuildGraph, Expand, CountEdges, Emit, FinishSort,
         EvaluateRule, CommandSucceeds, CommandFails, FinishExecution, Over
  <2>2. CASE phase' \notin {"execute", "done"}
    BY <2>2 DEF CommandsFollowPlan
  <2>3. CASE phase \in {"execute", "done"} /\ commands' = commands /\ effects' = effects
    BY <1>1, <2>3 DEF CommandsFollowPlan
  <2> QED BY <2>1, <2>2, <2>3
<1> QED BY <1>2, <1>3

----------------------------------------------------------------------------
(* What the host has done, and what is announced.                          *)

LEMMA ResultsStep ==
  ASSUME Inv, [Next]_vars
  PROVE  ResultsInv'
<1>1. ResultsInv
  BY DEF Inv
<1>2. ASSUME phase \notin {"execute", "done", "rejected"}, phase' \notin {"execute", "done"},
             calls' = calls, results' = results
      PROVE  ResultsInv'
  BY <1>1, <1>2 DEF ResultsInv
<1>3. ASSUME phase' = "rejected" PROVE ResultsInv'
  BY <1>3 DEF ResultsInv
<1>4. CASE ParsePage
  BY <1>2, <1>4 DEF ParsePage
<1>5. CASE BuildGraph
  BY <1>2, <1>5 DEF BuildGraph
<1>6. CASE Expand
  BY <1>2, <1>6 DEF Expand
<1>7. CASE CountEdges
  BY <1>2, <1>7 DEF CountEdges
<1>8. CASE Emit
  BY <1>2, <1>8 DEF Emit
<1>9. CASE FinishSort
  BY <1>2, <1>9 DEF FinishSort
<1>10. CASE EvaluateRule
  BY <1>2, <1>10 DEF EvaluateRule
<1>11. CASE BuildCommands
  <2>1. phase = "rules" /\ phase' = "execute" /\ calls' = calls /\ results' = results
    BY <1>11 DEF BuildCommands
  <2>2. calls' = << >> /\ results' = << >>
    BY <1>1, <2>1 DEF ResultsInv
  <2>3. IsSeq(commands')
    BY <1>11, BuildStep
  <2>4. IsSeq(calls') /\ IsSeq(results') /\ Len(calls') = 0 /\ Len(results') = 0
    BY <2>2, EmptyIs
  <2>5. Len(commands') \in Nat
    BY <2>3, SeqFacts
  <2> QED BY <2>1, <2>3, <2>4, <2>5 DEF ResultsInv
<1>12. CASE CommandSucceeds
  <2> DEFINE n == Len(results)
             call == [command |-> commands[n + 1], ok |-> TRUE]
  <2>1. /\ phase = "execute" /\ phase' = phase /\ commands' = commands /\ n < Len(commands)
        /\ calls' = Append(calls, call)
        /\ results' = Append(results, commands[n + 1])
    BY <1>12 DEF CommandSucceeds, Command
  <2>2. /\ IsSeq(commands) /\ IsSeq(calls) /\ IsSeq(results)
        /\ Len(calls) = n
        /\ \A i \in 1 .. n : results[i] = commands[i]
        /\ \A i \in 1 .. n : calls[i] = [command |-> commands[i], ok |-> TRUE]
    BY <1>1, <2>1 DEF ResultsInv
  <2>3. n \in Nat /\ Len(commands) \in Nat
    BY <2>2, SeqFacts
  <2> HIDE DEF call
  <2>4. /\ IsSeq(calls') /\ Len(calls') = n + 1 /\ calls'[n + 1] = call
        /\ \A i \in 1 .. n : calls'[i] = calls[i]
    BY <2>1, <2>2, Appended
  <2>5. /\ IsSeq(results') /\ Len(results') = n + 1 /\ results'[n + 1] = commands[n + 1]
        /\ \A i \in 1 .. n : results'[i] = results[i]
    BY <2>1, <2>2, Appended
  <2>6. ASSUME NEW i \in 1 .. n + 1
        PROVE  results'[i] = commands[i] /\ calls'[i] = [command |-> commands[i], ok |-> TRUE]
    <3>1. i \in 1 .. n \/ i = n + 1
      BY <2>3
    <3>2. CASE i \in 1 .. n
      BY <2>2, <2>4, <2>5, <3>2
    <3>3. CASE i = n + 1
      BY <2>4, <2>5, <3>3 DEF call
    <3> QED BY <3>1, <3>2, <3>3
  <2> HIDE DEF n
  <2>7. n + 1 <= Len(commands)
    BY <2>1, <2>3
  <2> QED BY <2>1, <2>2, <2>4, <2>5, <2>6, <2>7 DEF ResultsInv
<1>13. CASE CommandFails
  BY <1>3, <1>13 DEF CommandFails
<1>14. CASE FinishExecution
  BY <1>1, <1>14 DEF FinishExecution, ResultsInv
<1>15. CASE Over \/ UNCHANGED vars
  <2>1. UNCHANGED <<phase, commands, calls, results>>
    BY <1>15 DEF Over, vars
  <2> QED BY <1>1, <2>1 DEF ResultsInv
<1> QED BY <1>4, <1>5, <1>6, <1>7, <1>8, <1>9, <1>10, <1>11, <1>12, <1>13, <1>14, <1>15 DEF Next

\* When the host has done everything, everything is announced.
LEMMA DoneIsTold ==
  ASSUME PageInv, EffectsInv, CommandsFollowPlan, ResultsInv, phase \in {"execute", "done"}
  PROVE  ToldIsDone
<1>1. /\ IsSeq(commands) /\ IsSeq(calls) /\ IsSeq(results)
      /\ Len(calls) = Len(results) /\ Len(results) <= Len(commands)
      /\ \A i \in 1 .. Len(results) : /\ results[i] = commands[i]
                                      /\ calls[i] = [command |-> commands[i], ok |-> TRUE]
      /\ phase = "done" => Len(results) = Len(commands)
  BY DEF ResultsInv
<1>2. ASSUME NEW i \in DOMAIN calls PROVE calls[i].command = commands[i] /\ calls[i].ok
  <2>1. i \in 1 .. Len(results)
    BY <1>1, SeqFacts
  <2>2. calls[i] = [command |-> commands[i], ok |-> TRUE]
    BY <1>1, <2>1
  <2> QED BY <2>2
<1>3. ASSUME phase = "done"
      PROVE  /\ Len(calls) = Len(commands)
             /\ ExecutedEvent.patch = effects.patch
             /\ Planned \cup effects.targets = Range(ExecutedEvent.refreshed \o ExecutedEvent.ran)
  <2>1. Range(results) = Range(commands)
    <3>1. /\ DOMAIN results = 1 .. Len(commands) /\ DOMAIN commands = 1 .. Len(commands)
          /\ \A i \in 1 .. Len(commands) : results[i] = commands[i]
      BY <1>1, <1>3, SeqFacts
    <3> QED BY <3>1 DEF Range
  <2>2. /\ Range(commands) \ {Patch} = Planned \cup effects.targets
        /\ effects.patch # {} <=> Patch \in Range(commands)
    BY <1>3 DEF CommandsFollowPlan
  <2>3. Planned \subseteq Target /\ effects.targets \subseteq Target /\ Patch \notin Target
    BY <1>3, PlanFacts, TargetsAssumption DEF Planning, EffectsInv
  <2>4. Datasources \cup Actions = Target
    BY TargetsAssumption DEF Actions
  <2> DEFINE refreshed == Kept(results, Datasources)
             ran == Kept(results, Actions)
  <2>5. /\ IsSeq(refreshed) /\ Range(refreshed) = Range(results) \cap Datasources
        /\ IsSeq(ran) /\ Range(ran) = Range(results) \cap Actions
    BY <1>1, KeptIs
  <2>6. ExecutedEvent.refreshed = refreshed /\ ExecutedEvent.ran = ran
        /\ ExecutedEvent.patch = IF Patch \in Range(results) THEN effects.patch ELSE {}
    BY DEF ExecutedEvent
  <2> HIDE DEF refreshed, ran
  <2>7. Range(refreshed \o ran) = Range(results) \cap Target
    <3>1. Range(refreshed \o ran) = Range(refreshed) \cup Range(ran)
      BY <2>5, Joined
    <3> QED BY <2>4, <2>5, <3>1
  <2>8. Planned \cup effects.targets = Range(results) \cap Target
    BY <2>1, <2>2, <2>3
  <2> QED BY <1>1, <1>3, <2>1, <2>2, <2>6, <2>7, <2>8
<1> QED BY <1>2, <1>3 DEF ToldIsDone

LEMMA ToldStep ==
  ASSUME Inv, [Next]_vars
  PROVE  ToldIsDone'
<1>1. PageInv' /\ EffectsInv' /\ CommandsFollowPlan' /\ ResultsInv'
  BY PageStep, EffectsStep, CommandsStep, ResultsStep
<1>2. ResultsInv /\ ToldIsDone
  BY DEF Inv
<1>3. CASE phase' \in {"execute", "done"}
  <2>1. (phase \in {"execute", "done"})'
    BY <1>3
  <2> QED BY <1>1, <2>1, DoneIsTold, PTL
<1>4. CASE phase' \notin {"execute", "done", "rejected"}
  <2>1. calls' = << >>
    BY <1>1, <1>4 DEF ResultsInv
  <2>2. DOMAIN calls' = {}
    BY <2>1
  <2> QED BY <1>4, <2>2 DEF ToldIsDone
<1>5. CASE phase' = "rejected" /\ calls' = << >>
  <2>1. DOMAIN calls' = {}
    BY <1>5
  <2> QED BY <1>5, <2>1 DEF ToldIsDone
<1>6. CASE CommandFails
  <2> DEFINE n == Len(calls)
             call == [command |-> commands[n + 1], ok |-> FALSE]
  <2>1. /\ phase = "execute" /\ phase' = "rejected" /\ commands' = commands
        /\ calls' = Append(calls, [command |-> commands[Len(results) + 1], ok |-> FALSE])
    BY <1>6 DEF CommandFails, Command
  <2>2. /\ IsSeq(calls) /\ n = Len(results)
        /\ \A i \in 1 .. n : calls[i] = [command |-> commands[i], ok |-> TRUE]
    BY <1>2, <2>1 DEF ResultsInv
  <2>3. n \in Nat /\ calls' = Append(calls, call)
    BY <2>1, <2>2, SeqFacts
  <2> HIDE DEF call
  <2>4. /\ IsSeq(calls') /\ Len(calls') = n + 1 /\ calls'[n + 1] = call
        /\ \A i \in 1 .. n : calls'[i] = calls[i]
    BY <2>2, <2>3, Appended
  <2>5. ASSUME NEW i \in DOMAIN calls'
        PROVE  calls'[i].command = commands[i] /\ (~calls'[i].ok => i = Len(calls'))
    <3>1. i \in 1 .. n + 1
      BY <2>4, SeqFacts
    <3>2. CASE i \in 1 .. n
      <4>1. calls'[i] = [command |-> commands[i], ok |-> TRUE]
        BY <2>2, <2>4, <3>2
      <4> QED BY <4>1
    <3>3. CASE i = n + 1
      BY <2>4, <3>3 DEF call
    <3> QED BY <2>3, <3>1, <3>2, <3>3
  <2> QED BY <2>1, <2>5 DEF ToldIsDone
<1>7. CASE phase' = "rejected" /\ ~CommandFails
  <2>1. \/ phase \notin {"execute", "done", "rejected"} /\ calls' = calls
        \/ phase = "rejected" /\ calls' = calls /\ commands' = commands
    BY <1>7 DEF Next, vars, ParsePage, BuildGraph, Expand, CountEdges, Emit, FinishSort,
         EvaluateRule, BuildCommands, CommandSucceeds, FinishExecution, Over
  <2>2. CASE phase \notin {"execute", "done", "rejected"} /\ calls' = calls
    BY <1>2, <1>5, <1>7, <2>2 DEF ResultsInv
  <2>3. CASE phase = "rejected" /\ calls' = calls /\ commands' = commands
    BY <1>2, <1>7, <2>3 DEF ToldIsDone
  <2> QED BY <2>1, <2>2, <2>3
<1> QED BY <1>3, <1>4, <1>6, <1>7

----------------------------------------------------------------------------
(* The theorems.                                                           *)

LEMMA InitInv == Init => Inv
<1> SUFFICES ASSUME Init PROVE Inv
  OBVIOUS
<1>1. phase = "parse" /\ next = 0 /\ order = << >> /\ rule = 0 /\ calls = << >> /\ results = << >>
  BY DEF Init
<1>2. effects.patch = {} /\ effects.targets = {}
  BY DEF Init
<1>3. Requested
  BY DEF Init, Requested
<1>4. PageInv
  BY <1>1, <1>3 DEF PageInv, Planning
<1>5. QueueInv /\ OrderInv /\ ResultsInv
  BY <1>1 DEF QueueInv, OrderInv, ResultsInv, Sorted
<1>6. EffectsInv
  BY <1>1, <1>2 DEF EffectsInv, EffectsAreAskedFor
<1>7. CommandsFollowPlan
  BY <1>1 DEF CommandsFollowPlan
<1>8. ToldIsDone
  <2>1. DOMAIN calls = {}
    BY <1>1
  <2> QED BY <1>1, <2>1 DEF ToldIsDone
<1> QED BY <1>4, <1>5, <1>6, <1>7, <1>8 DEF Inv

LEMMA Invariance == Spec => []Inv
<1>1. Inv /\ [Next]_vars => Inv'
  BY PageStep, QueueStep, OrderStep, EffectsStep, CommandsStep, ResultsStep, ToldStep DEF Inv
<1> QED BY InitInv, <1>1, PTL DEF Spec

\* parseRuntimePageDsl, buildDependencyGraph and planRefresh: however deep a page
\* mentions its keys, the plan is what the event reaches, each target once and
\* after all that feeds it; and sorting a page without a cycle gets to the end.
THEOREM PlanIsWhatIsReached == Spec => []PlanIsExact
<1>1. Inv => PlanIsExact
  <2> SUFFICES ASSUME Inv, (phase = "sort" /\ Ready = {}) \/ phase \in Sorted PROVE PlanIsExact
    BY DEF PlanIsExact, Sorted
  <2>1. PageInv /\ QueueInv /\ OrderInv
    BY DEF Inv
  <2>2. Range(order) = Planned
    BY <2>1, SortEnds DEF OrderInv
  <2>3. \A x, y : Before(order, x, y) => x # y /\ x \notin Feeds[y]
    BY <2>1 DEF OrderInv
  <2>4. ASSUME NEW i \in DOMAIN order, NEW j \in DOMAIN order, i < j
        PROVE  order[i] # order[j] /\ order[i] \notin Feeds[order[j]]
    BY <2>3, <2>4 DEF Before
  <2> QED BY <2>2, <2>4 DEF PlanIsExact
<1> QED BY Invariance, <1>1, PTL

\* evaluateRules: whatever the conditions answer, an effect comes from a rule that
\* waits for this kind of event and looks, at any depth, at a key that changed.
THEOREM OnlyAskedEffects == Spec => []EffectsAreAskedFor
<1>1. Inv => EffectsAreAskedFor
  BY DEF Inv, EffectsInv
<1> QED BY Invariance, <1>1, PTL

\* buildManagerCommands: the patch, what is planned and what the rules add, each
\* once, and of a kind in the order in which the targets feed each other.
THEOREM CommandsAreThePlan == Spec => []CommandsFollowPlan
<1>1. Inv => CommandsFollowPlan
  BY DEF Inv
<1> QED BY Invariance, <1>1, PTL

\* executeRuntimeInteractionPlan: nothing is done after a failure, and what is
\* announced was done.
THEOREM AnnouncedIsDone == Spec => []ToldIsDone
<1>1. Inv => ToldIsDone
  BY DEF Inv
<1> QED BY Invariance, <1>1, PTL

=============================================================================
