-------------------------- MODULE NodeValuesProofs --------------------------
(***************************************************************************)
(* What a node of a view is shown does not depend on what it does not      *)
(* name, and an expression means the same everywhere, for every view, every*)
(* request and everything the parties outside answer.                      *)
(***************************************************************************)
EXTENDS NodeValues, FiniteSetTheorems, WellFoundedInduction, TLAPS

-----------------------------------------------------------------------------
(* Expressions, by the depth of their nesting.                             *)

LEMMA LeastNumber ==
  ASSUME NEW S \in SUBSET Nat, S # {}
  PROVE  \E n \in S : \A m \in S : n <= m
<1>1. PICK n \in S : \A m \in S : <<m, n>> \notin OpToRel(<, Nat)
  BY NatLessThanWellFounded, WFMin
<1>2. ASSUME NEW m \in S PROVE n <= m
  <2>1. ~(m < n)
    BY <1>1 DEF OpToRel
  <2> QED BY <2>1
<1> QED BY <1>2

\* Induction, over a set of numbers.
LEMMA EveryNumber ==
  ASSUME NEW S, 0 \in S, \A n \in Nat : n \in S => n + 1 \in S
  PROVE  Nat \subseteq S
<1>1. SUFFICES ASSUME Nat \ S # {} PROVE FALSE
  OBVIOUS
<1>2. PICK m \in Nat \ S : \A k \in Nat \ S : m <= k
  <2>1. Nat \ S \in SUBSET Nat
    OBVIOUS
  <2> QED BY <1>1, <2>1, LeastNumber
<1>3. m - 1 \in Nat /\ (m - 1) + 1 = m
  BY <1>2
<1>4. m - 1 \in S
  BY <1>2, <1>3
<1> QED BY <1>2, <1>3, <1>4

LEMMA Shallowest ==
  ASSUME NEW W \in SUBSET Expressions, W # {}
  PROVE  \E e \in W : Parts(e) \cap W = {}
<1> DEFINE S == {Depth(e) : e \in W}
<1>1. S \in SUBSET Nat /\ S # {}
  BY NestingAssumption
<1>2. PICK n \in S : \A m \in S : n <= m
  <2> HIDE DEF S
  <2> QED BY <1>1, LeastNumber
<1>3. PICK e \in W : Depth(e) = n
  OBVIOUS
<1>4. ASSUME NEW part \in Parts(e), part \in W PROVE FALSE
  <2>1. Depth(part) < Depth(e) /\ Depth(part) \in Nat /\ Depth(e) \in Nat /\ Depth(part) \in S
    BY <1>4, NestingAssumption
  <2> QED BY <1>2, <1>3, <2>1
<1> QED BY <1>4

\* An expression is a text, a list, an object or none of them.
LEMMA OneTag ==
  ASSUME NEW e \in Expressions
  PROVE  /\ ~(Is("text", e) /\ Is("arr", e)) /\ ~(Is("text", e) /\ Is("obj", e))
         /\ ~(Is("arr", e) /\ Is("obj", e))
         /\ Is("arr", e) => Parts(e) = Range(e.arr)
         /\ Is("obj", e) => Parts(e) = Range(e.obj)
         /\ ~Is("arr", e) /\ ~Is("obj", e) => Parts(e) = {}
<1>1. PICK tag \in DOMAIN e : DOMAIN e = {tag}
  BY NestingAssumption
<1> QED BY <1>1 DEF Is, Parts

LEMMA PartsAre ==
  ASSUME NEW e \in Expressions
  PROVE  /\ Parts(e) \subseteq Expressions
         /\ Is("arr", e) => \A i \in DOMAIN e.arr : e.arr[i] \in Parts(e)
         /\ Is("obj", e) => \A k \in DOMAIN e.obj : e.obj[k] \in Parts(e)
BY OneTag, NestingAssumption DEF Range

-----------------------------------------------------------------------------
(* What an expression resolves to is settled by its texts.                 *)

\* resolveExpression on the expressions of S, when texts resolve to own.
Resolves(own, f, S) ==
  f = [e \in S |-> IF Is("text", e) THEN own[e]
                     ELSE IF Is("arr", e) THEN Arr([i \in DOMAIN e.arr |-> f[e.arr[i]]])
                     ELSE IF Is("obj", e) THEN Obj([k \in DOMAIN e.obj |-> f[e.obj[k]]])
                     ELSE e]

WithinParts(S) == S \subseteq Expressions /\ \A e \in S : Parts(e) \subseteq S

ResolvedAt(own, f, e) ==
  /\ Is("text", e) => f[e] = own[e]
  /\ Is("arr", e) => f[e] = Arr([i \in DOMAIN e.arr |-> f[e.arr[i]]])
  /\ Is("obj", e) => f[e] = Obj([k \in DOMAIN e.obj |-> f[e.obj[k]]])
  /\ ~Is("text", e) /\ ~Is("arr", e) /\ ~Is("obj", e) => f[e] = e

LEMMA ResolvedOnce ==
  ASSUME NEW own, NEW f, NEW S, Resolves(own, f, S), NEW e \in S, S \subseteq Expressions
  PROVE  ResolvedAt(own, f, e)
<1> DEFINE value == IF Is("text", e) THEN own[e]
                      ELSE IF Is("arr", e) THEN Arr([i \in DOMAIN e.arr |-> f[e.arr[i]]])
                      ELSE IF Is("obj", e) THEN Obj([k \in DOMAIN e.obj |-> f[e.obj[k]]])
                      ELSE e
<1>1. f[e] = value
  BY DEF Resolves
<1>2. /\ ~(Is("text", e) /\ Is("arr", e)) /\ ~(Is("text", e) /\ Is("obj", e))
      /\ ~(Is("arr", e) /\ Is("obj", e))
  BY OneTag
<1> QED BY <1>1, <1>2 DEF ResolvedAt

LEMMA ResolvedAlike ==
  ASSUME NEW own, NEW f, NEW S, Resolves(own, f, S), S \subseteq Expressions,
         NEW more, NEW g, NEW T, Resolves(more, g, T), T \subseteq Expressions,
         NEW U, WithinParts(U), U \subseteq S \cap T,
         \A e \in U : Is("text", e) => own[e] = more[e]
  PROVE  \A e \in U : f[e] = g[e]
<1> DEFINE W == {e \in U : f[e] # g[e]}
<1>1. SUFFICES ASSUME W # {} PROVE FALSE
  OBVIOUS
<1>2. PICK e \in W : Parts(e) \cap W = {}
  <2>1. W \in SUBSET Expressions
    BY DEF WithinParts
  <2> HIDE DEF W
  <2> QED BY <1>1, <2>1, Shallowest
<1>3. e \in U /\ e \in S /\ e \in T /\ e \in Expressions
  BY DEF WithinParts
<1>. ResolvedAt(own, f, e) /\ ResolvedAt(more, g, e)
  BY <1>3, ResolvedOnce
<1>4. \A part \in Parts(e) : f[part] = g[part]
  BY <1>2, <1>3 DEF WithinParts
<1>5. CASE Is("text", e)
  BY <1>3, <1>5 DEF ResolvedAt
<1>6. CASE Is("arr", e)
  <2>1. \A i \in DOMAIN e.arr : f[e.arr[i]] = g[e.arr[i]]
    BY <1>3, <1>4, <1>6, PartsAre
  <2>2. [i \in DOMAIN e.arr |-> f[e.arr[i]]] = [i \in DOMAIN e.arr |-> g[e.arr[i]]]
    BY <2>1
  <2>3. f[e] = Arr([i \in DOMAIN e.arr |-> f[e.arr[i]]])
    BY <1>6 DEF ResolvedAt
  <2>4. g[e] = Arr([i \in DOMAIN e.arr |-> g[e.arr[i]]])
    BY <1>6 DEF ResolvedAt
  <2> QED BY <2>2, <2>3, <2>4
<1>7. CASE Is("obj", e)
  <2>1. \A k \in DOMAIN e.obj : f[e.obj[k]] = g[e.obj[k]]
    BY <1>3, <1>4, <1>7, PartsAre
  <2>2. [k \in DOMAIN e.obj |-> f[e.obj[k]]] = [k \in DOMAIN e.obj |-> g[e.obj[k]]]
    BY <2>1
  <2>3. f[e] = Obj([k \in DOMAIN e.obj |-> f[e.obj[k]]])
    BY <1>7 DEF ResolvedAt
  <2>4. g[e] = Obj([k \in DOMAIN e.obj |-> g[e.obj[k]]])
    BY <1>7 DEF ResolvedAt
  <2> QED BY <2>2, <2>3, <2>4
<1>8. CASE ~Is("text", e) /\ ~Is("arr", e) /\ ~Is("obj", e)
  BY <1>3, <1>8 DEF ResolvedAt
<1> QED BY <1>5, <1>6, <1>7, <1>8

\* Each expression by what h says of its parts.
ByParts(own, f, h, S) ==
  f = [e \in S |-> IF Is("text", e) THEN own[e]
                     ELSE IF Is("arr", e) THEN Arr([i \in DOMAIN e.arr |-> h[e][e.arr[i]]])
                     ELSE IF Is("obj", e) THEN Obj([k \in DOMAIN e.obj |-> h[e][e.obj[k]]])
                     ELSE e]

\* Where f agrees with h on the parts, it resolves.
LEMMA ResolvesBy ==
  ASSUME NEW own, NEW f, NEW S, S \subseteq Expressions, NEW h, ByParts(own, f, h, S),
         \A e \in S : \A part \in Parts(e) : f[part] = h[e][part]
  PROVE  Resolves(own, f, S)
<1> DEFINE by(e) == IF Is("text", e) THEN own[e]
                      ELSE IF Is("arr", e) THEN Arr([i \in DOMAIN e.arr |-> h[e][e.arr[i]]])
                      ELSE IF Is("obj", e) THEN Obj([k \in DOMAIN e.obj |-> h[e][e.obj[k]]])
                      ELSE e
           value(e) == IF Is("text", e) THEN own[e]
                         ELSE IF Is("arr", e) THEN Arr([i \in DOMAIN e.arr |-> f[e.arr[i]]])
                         ELSE IF Is("obj", e) THEN Obj([k \in DOMAIN e.obj |-> f[e.obj[k]]])
                         ELSE e
<1>1. ASSUME NEW e \in S PROVE by(e) = value(e)
  <2>1. e \in Expressions
    OBVIOUS
  <2>2. Is("arr", e) => [i \in DOMAIN e.arr |-> h[e][e.arr[i]]] = [i \in DOMAIN e.arr |-> f[e.arr[i]]]
    BY <2>1, PartsAre
  <2>3. Is("obj", e) => [k \in DOMAIN e.obj |-> h[e][e.obj[k]]] = [k \in DOMAIN e.obj |-> f[e.obj[k]]]
    BY <2>1, PartsAre
  <2> QED BY <2>2, <2>3
<1>2. f = [e \in S |-> by(e)]
  BY DEF ByParts
<1> HIDE DEF by, value
<1>3. f = [e \in S |-> value(e)]
  BY <1>1, <1>2
<1> QED BY <1>3 DEF Resolves, value

Below(d) == {e \in Expressions : Depth(e) < d}

LEMMA BelowWithin ==
  ASSUME NEW d \in Nat
  PROVE  WithinParts(Below(d))
<1>1. ASSUME NEW e \in Below(d), NEW part \in Parts(e) PROVE part \in Below(d)
  <2>1. Depth(part) < Depth(e) /\ Depth(e) < d /\ part \in Expressions
        /\ Depth(part) \in Nat /\ Depth(e) \in Nat
    BY NestingAssumption DEF Below
  <2> QED BY <2>1 DEF Below
<1> QED BY <1>1 DEF WithinParts, Below

LEMMA ResolvesBelow ==
  ASSUME NEW own, NEW d \in Nat
  PROVE  \E f : Resolves(own, f, Below(d))
<1> DEFINE K == {n \in Nat : \E f : Resolves(own, f, Below(n))}
<1>1. 0 \in K
  <2> DEFINE f == [e \in {} |-> e]
  <2>1. Below(0) = {}
    BY NestingAssumption DEF Below
  <2>2. Resolves(own, f, {})
    BY DEF Resolves
  <2> HIDE DEF f
  <2> QED BY <2>1, <2>2
<1>2. ASSUME NEW n \in Nat, n \in K PROVE n + 1 \in K
  <2>1. PICK f : Resolves(own, f, Below(n))
    BY <1>2
  <2> DEFINE S == Below(n + 1)
             h == [e \in S |-> f]
             g == [e \in S |-> IF Is("text", e) THEN own[e]
                                 ELSE IF Is("arr", e) THEN Arr([i \in DOMAIN e.arr |-> h[e][e.arr[i]]])
                                 ELSE IF Is("obj", e) THEN Obj([k \in DOMAIN e.obj |-> h[e][e.obj[k]]])
                                 ELSE e]
  <2>2. S \subseteq Expressions /\ Below(n) \subseteq S /\ Below(n) \subseteq Expressions
    BY NestingAssumption DEF Below
  <2>3. ASSUME NEW e \in S, NEW part \in Parts(e) PROVE part \in Below(n)
    <3>1. Depth(part) < Depth(e) /\ Depth(e) < n + 1 /\ part \in Expressions
          /\ Depth(part) \in Nat /\ Depth(e) \in Nat
      BY <2>2, NestingAssumption DEF Below
    <3> QED BY <3>1 DEF Below
  <2>4. ASSUME NEW e \in Below(n) PROVE g[e] = f[e]
    <3>1. e \in S /\ e \in Expressions
      BY <2>2
    <3>2. ResolvedAt(own, f, e)
      BY <2>1, <2>2, ResolvedOnce
    <3>3. h[e] = f
      BY <3>1
    <3>4. g[e] = IF Is("text", e) THEN own[e]
                   ELSE IF Is("arr", e) THEN Arr([i \in DOMAIN e.arr |-> h[e][e.arr[i]]])
                   ELSE IF Is("obj", e) THEN Obj([k \in DOMAIN e.obj |-> h[e][e.obj[k]]])
                   ELSE e
      BY <3>1
    <3> HIDE DEF g, h
    <3> QED BY <3>2, <3>3, <3>4, <3>1, OneTag DEF ResolvedAt
  <2>5. \A e \in S : h[e] = f
    OBVIOUS
  <2>6. ByParts(own, g, h, S)
    BY DEF ByParts
  <2>7. \A e \in S : \A part \in Parts(e) : g[part] = h[e][part]
    <3> HIDE DEF g, h, S
    <3> QED BY <2>3, <2>4, <2>5
  <2> HIDE DEF g, h, S
  <2>8. Resolves(own, g, S)
    BY <2>2, <2>6, <2>7, ResolvesBy
  <2> QED BY <2>8 DEF S
<1>3. Nat \subseteq K
  <2> HIDE DEF K
  <2> QED BY <1>1, <1>2, EveryNumber
<1> QED BY <1>3

LEMMA ResolvesExists ==
  ASSUME NEW own
  PROVE  \E f : Resolves(own, f, Expressions)
<1> DEFINE h == [e \in Expressions |-> CHOOSE f : Resolves(own, f, Below(Depth(e) + 1))]
           f == [e \in Expressions |-> IF Is("text", e) THEN own[e]
                                         ELSE IF Is("arr", e) THEN Arr([i \in DOMAIN e.arr |-> h[e][e.arr[i]]])
                                         ELSE IF Is("obj", e) THEN Obj([k \in DOMAIN e.obj |-> h[e][e.obj[k]]])
                                         ELSE e]
<1>1. ASSUME NEW e \in Expressions
      PROVE  /\ Resolves(own, h[e], Below(Depth(e) + 1)) /\ e \in Below(Depth(e) + 1)
             /\ WithinParts(Below(Depth(e) + 1))
  <2>1. Depth(e) \in Nat
    BY NestingAssumption
  <2>2. Depth(e) + 1 \in Nat /\ Depth(e) < Depth(e) + 1
    BY <2>1
  <2>3. \E g : Resolves(own, g, Below(Depth(e) + 1))
    BY <2>2, ResolvesBelow
  <2>4. h[e] = CHOOSE g : Resolves(own, g, Below(Depth(e) + 1))
    OBVIOUS
  <2>5. Resolves(own, h[e], Below(Depth(e) + 1))
    BY <2>3, <2>4
  <2> QED BY <2>2, <2>5, BelowWithin DEF Below
<1>2. \A e \in Expressions : f[e] = IF Is("text", e) THEN own[e]
                                      ELSE IF Is("arr", e) THEN Arr([i \in DOMAIN e.arr |-> h[e][e.arr[i]]])
                                      ELSE IF Is("obj", e) THEN Obj([k \in DOMAIN e.obj |-> h[e][e.obj[k]]])
                                      ELSE e
  OBVIOUS
<1>3. ByParts(own, f, h, Expressions)
  BY DEF ByParts
<1> HIDE DEF f, h
<1>4. ASSUME NEW e \in Expressions PROVE f[e] = h[e][e]
  <2>1. ResolvedAt(own, h[e], e)
    <3>1. Below(Depth(e) + 1) \subseteq Expressions
      BY DEF Below
    <3> QED BY <1>1, <3>1, ResolvedOnce
  <2>2. f[e] = IF Is("text", e) THEN own[e]
                 ELSE IF Is("arr", e) THEN Arr([i \in DOMAIN e.arr |-> h[e][e.arr[i]]])
                 ELSE IF Is("obj", e) THEN Obj([k \in DOMAIN e.obj |-> h[e][e.obj[k]]])
                 ELSE e
    BY <1>2
  <2> QED BY <2>1, <2>2, OneTag DEF ResolvedAt
<1>5. ASSUME NEW e \in Expressions, NEW part \in Parts(e) PROVE f[part] = h[e][part]
  <2> DEFINE S == Below(Depth(e) + 1)
             T == Below(Depth(part) + 1)
  <2>1. part \in Expressions /\ Depth(part) \in Nat /\ Depth(e) \in Nat /\ Depth(part) < Depth(e)
    BY NestingAssumption
  <2>2. T \subseteq S /\ S \subseteq Expressions /\ T \subseteq Expressions /\ part \in T
    BY <2>1, NestingAssumption DEF Below
  <2>3. Resolves(own, h[e], S) /\ Resolves(own, h[part], T) /\ WithinParts(T)
    BY <1>1, <2>1
  <2> HIDE DEF S, T
  <2>4. \A x \in T : h[e][x] = h[part][x]
    <3> DEFINE g == h[e]
               k == h[part]
    <3>1. Resolves(own, g, S) /\ Resolves(own, k, T)
      BY <2>3
    <3> HIDE DEF g, k
    <3>2. \A x \in T : g[x] = k[x]
      BY <2>2, <2>3, <3>1, ResolvedAlike
    <3> QED BY <3>2 DEF g, k
  <2> QED BY <1>4, <2>1, <2>2, <2>4
<1>6. Resolves(own, f, Expressions)
  BY <1>3, <1>5, ResolvesBy
<1> QED BY <1>6

\* What an expression is made of.
Inside(e) == {x \in Expressions : \A S : WithinParts(S) /\ e \in S => x \in S}

LEMMA InsideIs ==
  ASSUME NEW e \in Expressions
  PROVE  Inside(e) = {e} \cup UNION {Inside(part) : part \in Parts(e)}
<1> DEFINE R == {e} \cup UNION {Inside(part) : part \in Parts(e)}
<1>1. ASSUME NEW x \in Expressions PROVE x \in Inside(x) /\ WithinParts(Inside(x))
  BY NestingAssumption DEF Inside, WithinParts
<1>2. \A part \in Parts(e) : part \in Expressions
  BY PartsAre
<1>3. R \subseteq Inside(e)
  <2>1. ASSUME NEW part \in Parts(e), NEW x \in Inside(part) PROVE x \in Inside(e)
    <3>1. ASSUME NEW S, WithinParts(S), e \in S PROVE x \in S
      <4>1. part \in S
        BY <3>1 DEF WithinParts
      <4> QED BY <3>1, <4>1 DEF Inside
    <3>2. x \in Expressions
      BY DEF Inside
    <3> QED BY <3>1, <3>2 DEF Inside
  <2> QED BY <1>1, <2>1
<1>4. WithinParts(R)
  <2>1. \A part \in Parts(e) : WithinParts(Inside(part)) /\ part \in Inside(part)
    BY <1>1, <1>2
  <2> HIDE DEF R
  <2>2. R = {e} \cup UNION {Inside(part) : part \in Parts(e)}
    BY DEF R
  <2>3. R \subseteq Expressions
    BY <2>1, <2>2 DEF WithinParts
  <2>4. ASSUME NEW x \in R, NEW y \in Parts(x) PROVE y \in R
    <3>1. CASE x = e
      BY <2>1, <2>2, <2>4, <3>1
    <3>2. CASE x # e
      <4>1. PICK part \in Parts(e) : x \in Inside(part)
        BY <2>2, <3>2
      <4>2. y \in Inside(part)
        BY <2>1, <2>4, <4>1 DEF WithinParts
      <4> QED BY <2>2, <4>1, <4>2
    <3> QED BY <3>1, <3>2
  <2> QED BY <2>3, <2>4 DEF WithinParts
<1>5. Inside(e) \subseteq R
  <2>1. e \in R
    OBVIOUS
  <2> HIDE DEF R
  <2> QED BY <1>4, <2>1 DEF Inside
<1> QED BY <1>3, <1>5

\* The paths of a text are its own, those of anything else its parts'.
LEMMA PathsOfIs ==
  ASSUME NEW e \in Expressions
  PROVE  PathsOf(e) = IF Is("text", e) THEN PathsIn(e.text) ELSE UNION {PathsOf(part) : part \in Parts(e)}
<1> DEFINE Own(x) == IF Is("text", x) THEN PathsIn(x.text) ELSE {}
           Good(f) == f = [x \in Expressions |->
                             IF Is("text", x) THEN PathsIn(x.text) ELSE UNION {f[part] : part \in Parts(x)}]
           U(x) == UNION {Own(y) : y \in Inside(x)}
           g == [x \in Expressions |-> U(x)]
<1>1. ASSUME NEW x \in Expressions
      PROVE  g[x] = IF Is("text", x) THEN PathsIn(x.text) ELSE UNION {g[part] : part \in Parts(x)}
  <2>1. \A part \in Parts(x) : part \in Expressions /\ g[part] = U(part)
    BY PartsAre
  <2>2. g[x] = U(x)
    OBVIOUS
  <2>3. Inside(x) = {x} \cup UNION {Inside(part) : part \in Parts(x)}
    BY InsideIs
  <2> HIDE DEF g
  <2>4. U(x) = Own(x) \cup UNION {U(part) : part \in Parts(x)}
    <3> HIDE DEF Own
    <3> QED BY <2>3
  <2>5. Is("text", x) => Parts(x) = {}
    BY OneTag
  <2> HIDE DEF U
  <2> QED BY <2>1, <2>2, <2>4, <2>5
<1>2. Good(g)
  <2>1. g = [x \in Expressions |-> g[x]]
    OBVIOUS
  <2> HIDE DEF g
  <2> QED BY <1>1, <2>1
<1> HIDE DEF g
<1>3. PICK f : Good(f) /\ \A x \in Expressions : PathsOf(x) = f[x]
  <2>1. \E f : Good(f)
    BY <1>2
  <2> QED BY <2>1 DEF PathsOf
<1>4. f[e] = IF Is("text", e) THEN PathsIn(e.text) ELSE UNION {f[part] : part \in Parts(e)}
  BY <1>3
<1> HIDE DEF Good
<1>5. \A part \in Parts(e) : PathsOf(part) = f[part]
  BY <1>3, PartsAre
<1> QED BY <1>3, <1>4, <1>5

LEMMA StringAlike ==
  ASSUME NEW pieces, DOMAIN pieces = 1 .. Len(pieces),
         NEW env, NEW other, \A p \in PathsIn(pieces) : Lookup(env, p) = Lookup(other, p)
  PROVE  ResolveString(pieces, env) = ResolveString(pieces, other)
<1>1. ASSUME NEW i \in DOMAIN pieces, Is("path", pieces[i])
      PROVE  Lookup(env, pieces[i].path) = Lookup(other, pieces[i].path)
  BY <1>1 DEF PathsIn
<1> DEFINE Piece(e, i) == IF Is("path", pieces[i]) THEN Rendered(Lookup(e, pieces[i].path)) ELSE <<pieces[i]>>
<1>2. \A i \in DOMAIN pieces : Piece(env, i) = Piece(other, i)
  BY <1>1
<1> HIDE DEF Piece
<1>3. [i \in DOMAIN pieces |-> Piece(env, i)] = [i \in DOMAIN pieces |-> Piece(other, i)]
  BY <1>2
<1>4. CASE Len(pieces) = 1 /\ Is("path", pieces[1])
  <2>1. ResolveString(pieces, env) = Lookup(env, pieces[1].path)
        /\ ResolveString(pieces, other) = Lookup(other, pieces[1].path)
    BY <1>4 DEF ResolveString
  <2>2. 1 \in DOMAIN pieces
    BY <1>4
  <2> QED BY <1>1, <1>4, <2>1, <2>2
<1>5. CASE ~(Len(pieces) = 1 /\ Is("path", pieces[1]))
  <2>1. /\ ResolveString(pieces, env) = Text(FlattenSeq([i \in DOMAIN pieces |-> Piece(env, i)]))
        /\ ResolveString(pieces, other) = Text(FlattenSeq([i \in DOMAIN pieces |-> Piece(other, i)]))
    BY <1>5 DEF ResolveString, Piece
  <2> QED BY <1>3, <2>1
<1> QED BY <1>4, <1>5

\* An expression resolves alike where everything it mentions does.
LEMMA ResolveAlike ==
  ASSUME NEW e \in Expressions, NEW env, NEW other, \A p \in PathsOf(e) : Lookup(env, p) = Lookup(other, p)
  PROVE  Resolve(e, env) = Resolve(e, other)
<1> DEFINE Own(v) == [x \in Expressions |-> ResolveString(x.text, v)]
           Good(f, v) == f = [x \in Expressions |->
                                IF Is("text", x) THEN ResolveString(x.text, v)
                                  ELSE IF Is("arr", x) THEN Arr([i \in DOMAIN x.arr |-> f[x.arr[i]]])
                                  ELSE IF Is("obj", x) THEN Obj([k \in DOMAIN x.obj |-> f[x.obj[k]]])
                                  ELSE x]
           U == {x \in Expressions : PathsOf(x) \subseteq PathsOf(e)}
<1>1. ASSUME NEW v PROVE \E f : Resolves(Own(v), f, Expressions) /\ Resolve(e, v) = f[e]
  <2>1. ASSUME NEW f PROVE Good(f, v) <=> Resolves(Own(v), f, Expressions)
    <3> DEFINE Value(x) == IF Is("text", x) THEN ResolveString(x.text, v)
                             ELSE IF Is("arr", x) THEN Arr([i \in DOMAIN x.arr |-> f[x.arr[i]]])
                             ELSE IF Is("obj", x) THEN Obj([k \in DOMAIN x.obj |-> f[x.obj[k]]])
                             ELSE x
               By(x) == IF Is("text", x) THEN Own(v)[x]
                          ELSE IF Is("arr", x) THEN Arr([i \in DOMAIN x.arr |-> f[x.arr[i]]])
                          ELSE IF Is("obj", x) THEN Obj([k \in DOMAIN x.obj |-> f[x.obj[k]]])
                          ELSE x
    <3>1. \A x \in Expressions : Own(v)[x] = ResolveString(x.text, v)
      OBVIOUS
    <3> HIDE DEF Own
    <3>2. \A x \in Expressions : Value(x) = By(x)
      BY <3>1
    <3>3. Good(f, v) <=> f = [x \in Expressions |-> Value(x)]
      OBVIOUS
    <3>4. Resolves(Own(v), f, Expressions) <=> f = [x \in Expressions |-> By(x)]
      BY DEF Resolves
    <3> HIDE DEF Good, Value, By
    <3>5. [x \in Expressions |-> Value(x)] = [x \in Expressions |-> By(x)]
      BY <3>2
    <3> QED BY <3>3, <3>4, <3>5
  <2>2. \E f : Good(f, v)
    <3> HIDE DEF Own, Good
    <3> QED BY <2>1, ResolvesExists
  <2>3. \E f : Good(f, v) /\ Resolve(e, v) = f[e]
    <3>1. Resolve(e, v) = (CHOOSE f : Good(f, v))[e]
      BY DEF Resolve
    <3> HIDE DEF Good
    <3>2. Good(CHOOSE f : Good(f, v), v)
      BY <2>2
    <3> QED BY <3>1, <3>2
  <2> HIDE DEF Good, Own
  <2> QED BY <2>1, <2>3
<1>2. PICK f : Resolves(Own(env), f, Expressions) /\ Resolve(e, env) = f[e]
  <2> HIDE DEF Own
  <2> QED BY <1>1
<1>3. PICK g : Resolves(Own(other), g, Expressions) /\ Resolve(e, other) = g[e]
  <2> HIDE DEF Own
  <2> QED BY <1>1
<1>4. WithinParts(U)
  <2>1. ASSUME NEW x \in U, NEW part \in Parts(x) PROVE part \in U
    <3>1. x \in Expressions /\ ~Is("text", x) /\ part \in Expressions
      BY OneTag, PartsAre
    <3>2. PathsOf(part) \subseteq PathsOf(x)
      BY <3>1, PathsOfIs
    <3> QED BY <3>1, <3>2
  <2> QED BY <2>1 DEF WithinParts
<1>5. ASSUME NEW x \in U, Is("text", x) PROVE Own(env)[x] = Own(other)[x]
  <2>1. x \in Expressions /\ PathsIn(x.text) \subseteq PathsOf(e)
    BY <1>5, PathsOfIs
  <2>2. DOMAIN x.text = 1 .. Len(x.text)
    BY <1>5, PathsAssumption
  <2>3. ResolveString(x.text, env) = ResolveString(x.text, other)
    BY <2>1, <2>2, StringAlike
  <2> QED BY <2>1, <2>3
<1>6. e \in U /\ U \subseteq Expressions
  OBVIOUS
<1> DEFINE own == Own(env)
           more == Own(other)
<1>7. Resolves(own, f, Expressions) /\ Resolves(more, g, Expressions) /\ U \subseteq Expressions \cap Expressions
      /\ \A x \in U : Is("text", x) => own[x] = more[x]
  BY <1>2, <1>3, <1>5, <1>6
<1> HIDE DEF U, own, more
<1>8. \A x \in U : f[x] = g[x]
  BY <1>4, <1>7, ResolvedAlike
<1> QED BY <1>2, <1>3, <1>6, <1>8

-----------------------------------------------------------------------------
(* Paths.                                                                  *)

Path == Seq(STRING) \ {<<>>}

\* With or without the fallback to a member's "value".
Step(how, v, segment) == IF how = "value" THEN MemberOrValue(v, segment) ELSE Member(v, segment)

Get(how, source, path) ==
  IF how = "value" THEN GetWithValueFallback(source, path) ELSE GetNested(source, path)

Walked(f, how, source, path) ==
  f = [i \in 0 .. Len(path) |-> IF i = 0 THEN source ELSE Step(how, f[i - 1], path[i])]

LEMMA WalkExists ==
  ASSUME NEW how, NEW source, NEW path, Len(path) \in Nat
  PROVE  \E f : Walked(f, how, source, path)
<1> DEFINE Good(f, m) == f = [i \in 0 .. m |-> IF i = 0 THEN source ELSE Step(how, f[i - 1], path[i])]
           S == {m \in Nat : \E f : Good(f, m)}
<1>1. 0 \in S
  <2>1. Good([i \in 0 .. 0 |-> source], 0)
    OBVIOUS
  <2> QED BY <2>1
<1>2. ASSUME NEW m \in Nat, m \in S PROVE m + 1 \in S
  <2>1. PICK f : Good(f, m)
    BY <1>2
  <2> DEFINE g == [i \in 0 .. m + 1 |-> IF i = m + 1 THEN Step(how, f[m], path[i]) ELSE f[i]]
  <2>2. ASSUME NEW i \in 0 .. m + 1
        PROVE  g[i] = IF i = 0 THEN source ELSE Step(how, g[i - 1], path[i])
    <3>1. CASE i = 0
      BY <2>1, <3>1
    <3>2. CASE i \in 1 .. m
      <4>1. i - 1 \in 0 .. m /\ i \in 0 .. m /\ i # 0 /\ g[i] = f[i] /\ g[i - 1] = f[i - 1]
        BY <3>2
      <4>2. f[i] = Step(how, f[i - 1], path[i])
        BY <2>1, <4>1
      <4> QED BY <4>1, <4>2
    <3>3. CASE i = m + 1
      <4>1. i - 1 = m /\ m \in 0 .. m + 1 /\ m # m + 1 /\ i # 0
        BY <3>3
      <4>2. g[m] = f[m] /\ g[i] = Step(how, f[m], path[i])
        BY <3>3, <4>1
      <4> QED BY <4>1, <4>2
    <3> QED BY <3>1, <3>2, <3>3
  <2>3. Good(g, m + 1)
    BY <2>2
  <2> HIDE DEF g
  <2> QED BY <2>3
<1> HIDE DEF Good
<1>3. Nat \subseteq S
  BY <1>1, <1>2, EveryNumber
<1> QED BY <1>3 DEF Good, Walked

\* getNestedValue and getNestedValueWithValueFallback, segment by segment.
Walks(f, how, source, path) ==
  /\ f[0] = source
  /\ \A i \in 1 .. Len(path) : f[i] = Step(how, f[i - 1], path[i])

LEMMA GetIs ==
  ASSUME NEW how, NEW source, NEW path, Len(path) \in Nat
  PROVE  \E f : Walks(f, how, source, path) /\ Get(how, source, path) = f[Len(path)]
<1>1. CASE how = "value"
  <2> DEFINE Good(f) == f = [i \in 0 .. Len(path) |->
                               IF i = 0 THEN source ELSE MemberOrValue(f[i - 1], path[i])]
  <2>1. \E f : Good(f)
    <3>1. PICK f : Walked(f, how, source, path)
      BY WalkExists
    <3> DEFINE a(i) == IF i = 0 THEN source ELSE Step(how, f[i - 1], path[i])
               b(i) == IF i = 0 THEN source ELSE MemberOrValue(f[i - 1], path[i])
    <3>2. \A i : a(i) = b(i)
      BY <1>1 DEF Step
    <3>3. f = [i \in 0 .. Len(path) |-> a(i)]
      BY <3>1 DEF Walked
    <3> HIDE DEF a, b
    <3>4. f = [i \in 0 .. Len(path) |-> b(i)]
      BY <3>2, <3>3
    <3> QED BY <3>4 DEF b
  <2>2. PICK f : Good(f) /\ GetWithValueFallback(source, path) = f[Len(path)]
    BY <2>1 DEF GetWithValueFallback
  <2>3. Walks(f, how, source, path)
    BY <1>1, <2>2 DEF Walks, Step
  <2> QED BY <1>1, <2>2, <2>3 DEF Get
<1>2. CASE how # "value"
  <2> DEFINE Good(f) == f = [i \in 0 .. Len(path) |->
                               IF i = 0 THEN source ELSE Member(f[i - 1], path[i])]
  <2>1. \E f : Good(f)
    <3>1. PICK f : Walked(f, how, source, path)
      BY WalkExists
    <3> DEFINE a(i) == IF i = 0 THEN source ELSE Step(how, f[i - 1], path[i])
               b(i) == IF i = 0 THEN source ELSE Member(f[i - 1], path[i])
    <3>2. \A i : a(i) = b(i)
      BY <1>2 DEF Step
    <3>3. f = [i \in 0 .. Len(path) |-> a(i)]
      BY <3>1 DEF Walked
    <3> HIDE DEF a, b
    <3>4. f = [i \in 0 .. Len(path) |-> b(i)]
      BY <3>2, <3>3
    <3> QED BY <3>4 DEF b
  <2>2. PICK f : Good(f) /\ GetNested(source, path) = f[Len(path)]
    BY <2>1 DEF GetNested
  <2>3. Walks(f, how, source, path)
    BY <1>2, <2>2 DEF Walks, Step
  <2> QED BY <1>2, <2>2, <2>3 DEF Get
<1> QED BY <1>1, <1>2

\* The first segment is all that the rest of a path sees of where it begins.
LEMMA FirstStep ==
  ASSUME NEW how, NEW path \in Path, NEW source, NEW other,
         Step(how, source, path[1]) = Step(how, other, path[1])
  PROVE  Get(how, source, path) = Get(how, other, path)
<1>1. Len(path) \in Nat \ {0}
  BY DEF Path
<1>2. PICK f : Walks(f, how, source, path) /\ Get(how, source, path) = f[Len(path)]
  BY <1>1, GetIs
<1>3. PICK g : Walks(g, how, other, path) /\ Get(how, other, path) = g[Len(path)]
  BY <1>1, GetIs
<1> DEFINE S == {i \in Nat : i + 1 <= Len(path) => f[i + 1] = g[i + 1]}
<1>4. 0 \in S
  <2>1. 1 \in 1 .. Len(path) /\ 1 - 1 = 0 /\ 0 + 1 = 1
    BY <1>1
  <2>2. f[1] = Step(how, source, path[1]) /\ g[1] = Step(how, other, path[1])
    BY <1>2, <1>3, <2>1 DEF Walks
  <2> QED BY <2>1, <2>2
<1>5. ASSUME NEW i \in Nat, i \in S PROVE i + 1 \in S
  <2>1. SUFFICES ASSUME (i + 1) + 1 <= Len(path) PROVE f[(i + 1) + 1] = g[(i + 1) + 1]
    OBVIOUS
  <2> DEFINE j == (i + 1) + 1
  <2>2. j \in 1 .. Len(path) /\ j - 1 = i + 1 /\ f[i + 1] = g[i + 1]
    BY <1>1, <1>5, <2>1
  <2> HIDE DEF j
  <2>3. f[j] = Step(how, f[i + 1], path[j]) /\ g[j] = Step(how, g[i + 1], path[j])
    BY <1>2, <1>3, <2>2 DEF Walks
  <2> QED BY <2>2, <2>3 DEF j
<1>6. Len(path) - 1 \in S
  <2> HIDE DEF S
  <2> QED BY <1>1, <1>4, <1>5, EveryNumber
<1> QED BY <1>1, <1>2, <1>3, <1>6

\* Nothing is found inside what is not there.
LEMMA FromUndefined ==
  ASSUME NEW how, NEW path \in Path
  PROVE  Get(how, Undefined, path) = Undefined
<1>1. Len(path) \in Nat \ {0}
  BY DEF Path
<1>2. PICK f : Walks(f, how, Undefined, path) /\ Get(how, Undefined, path) = f[Len(path)]
  BY <1>1, GetIs
<1>3. \A segment : Step(how, Undefined, segment) = Undefined
  BY DEF Step, Member, MemberOrValue, Is, Undefined
<1> DEFINE S == {i \in Nat : i <= Len(path) => f[i] = Undefined}
<1>4. 0 \in S
  BY <1>2 DEF Walks
<1>5. ASSUME NEW i \in Nat, i \in S PROVE i + 1 \in S
  <2>1. SUFFICES ASSUME i + 1 <= Len(path) PROVE f[i + 1] = Undefined
    OBVIOUS
  <2> DEFINE j == i + 1
  <2>2. j \in 1 .. Len(path) /\ j - 1 = i /\ f[i] = Undefined
    BY <1>1, <1>5, <2>1
  <2> HIDE DEF j
  <2>3. f[j] = Step(how, f[i], path[j])
    BY <1>2, <2>2 DEF Walks
  <2> QED BY <1>3, <2>2, <2>3 DEF j
<1>6. Len(path) \in S
  <2> HIDE DEF S
  <2> QED BY <1>1, <1>4, <1>5, EveryNumber
<1> QED BY <1>1, <1>2, <1>6

\* The rest of a path starts at what its first segment leads to.
LEMMA RestOfPath ==
  ASSUME NEW how, NEW path \in Path, NEW source
  PROVE  Get(how, source, path) = Get(how, Step(how, source, path[1]), Tail(path))
<1> DEFINE rest == Tail(path)
           next == Step(how, source, path[1])
<1>1. /\ Len(path) \in Nat \ {0} /\ Len(rest) = Len(path) - 1 /\ Len(rest) \in Nat
      /\ \A i \in 1 .. Len(rest) : rest[i] = path[i + 1]
  BY DEF Path
<1>2. PICK f : Walks(f, how, source, path) /\ Get(how, source, path) = f[Len(path)]
  BY <1>1, GetIs
<1> HIDE DEF rest, next
<1>3. PICK g : Walks(g, how, next, rest) /\ Get(how, next, rest) = g[Len(rest)]
  BY <1>1, GetIs
<1> DEFINE S == {i \in Nat : i <= Len(rest) => f[i + 1] = g[i]}
<1>4. 0 \in S
  <2>1. 1 \in 1 .. Len(path) /\ 1 - 1 = 0 /\ 0 + 1 = 1
    BY <1>1
  <2>2. f[1] = next /\ g[0] = next
    BY <1>2, <1>3, <2>1 DEF Walks, next
  <2> QED BY <2>1, <2>2
<1>5. ASSUME NEW i \in Nat, i \in S PROVE i + 1 \in S
  <2>1. SUFFICES ASSUME i + 1 <= Len(rest) PROVE f[(i + 1) + 1] = g[i + 1]
    OBVIOUS
  <2> DEFINE j == i + 1
             k == j + 1
  <2>2. j \in 1 .. Len(rest) /\ j - 1 = i /\ k \in 1 .. Len(path) /\ k - 1 = j /\ f[j] = g[i]
    BY <1>1, <1>5, <2>1
  <2>3. rest[j] = path[k]
    BY <1>1, <2>2
  <2> HIDE DEF j, k
  <2>4. f[k] = Step(how, f[j], path[k]) /\ g[j] = Step(how, g[i], rest[j])
    BY <1>2, <1>3, <2>2 DEF Walks
  <2> QED BY <2>2, <2>3, <2>4 DEF j, k
<1>6. Len(rest) \in S
  <2> HIDE DEF S
  <2> QED BY <1>1, <1>4, <1>5, EveryNumber
<1>7. f[Len(path)] = g[Len(rest)]
  BY <1>1, <1>6
<1> QED BY <1>2, <1>3, <1>7 DEF next, rest

\* What is found without leaving out a "value" is found as well where one may.
LEMMA FoundAnyway ==
  ASSUME NEW path \in Path, NEW source, GetNested(source, path) # Undefined
  PROVE  GetWithValueFallback(source, path) = GetNested(source, path)
<1>1. Len(path) \in Nat \ {0}
  BY DEF Path
<1>2. PICK f : Walks(f, "own", source, path) /\ Get("own", source, path) = f[Len(path)]
  BY <1>1, GetIs
<1>3. PICK g : Walks(g, "value", source, path) /\ Get("value", source, path) = g[Len(path)]
  BY <1>1, GetIs
<1>4. ASSUME NEW v, NEW segment, Member(v, segment) # Undefined
      PROVE  Step("value", v, segment) = Step("own", v, segment)
  BY <1>4 DEF Step, Member, MemberOrValue
<1>5. \A segment : Member(Undefined, segment) = Undefined
  BY DEF Member, Is, Undefined
<1> DEFINE S == {i \in Nat : i <= Len(path) => f[i] = g[i] \/ (i > 0 /\ f[i] = Undefined)}
<1>6. 0 \in S
  BY <1>2, <1>3 DEF Walks
<1>7. ASSUME NEW i \in Nat, i \in S PROVE i + 1 \in S
  <2>1. SUFFICES ASSUME i + 1 <= Len(path) PROVE f[i + 1] = g[i + 1] \/ f[i + 1] = Undefined
    OBVIOUS
  <2> DEFINE j == i + 1
  <2>2. j \in 1 .. Len(path) /\ j - 1 = i /\ (f[i] = g[i] \/ f[i] = Undefined)
    BY <1>1, <1>7, <2>1
  <2> HIDE DEF j
  <2>3. f[j] = Step("own", f[i], path[j]) /\ g[j] = Step("value", g[i], path[j])
    BY <1>2, <1>3, <2>2 DEF Walks
  <2>4. Step("own", f[i], path[j]) = Member(f[i], path[j])
    BY DEF Step
  <2> QED BY <1>4, <1>5, <2>2, <2>3, <2>4 DEF j
<1>8. Len(path) \in S
  <2> HIDE DEF S
  <2> QED BY <1>1, <1>6, <1>7, EveryNumber
<1>9. /\ Get("own", source, path) = GetNested(source, path)
      /\ Get("value", source, path) = GetWithValueFallback(source, path)
  BY DEF Get
<1> QED BY <1>1, <1>2, <1>3, <1>8, <1>9

LEMMA PathsArePaths ==
  ASSUME NEW e \in Expressions
  PROVE  PathsOf(e) \subseteq Path
<1> DEFINE W == {x \in Expressions : ~(PathsOf(x) \subseteq Path)}
<1>1. SUFFICES ASSUME W # {} PROVE FALSE
  OBVIOUS
<1>2. PICK x \in W : Parts(x) \cap W = {}
  <2>1. W \in SUBSET Expressions
    OBVIOUS
  <2> HIDE DEF W
  <2> QED BY <1>1, <2>1, Shallowest
<1>3. x \in Expressions /\ Parts(x) \subseteq Expressions
  BY PartsAre
<1>4. Is("text", x) => PathsIn(x.text) \subseteq Path
  BY <1>3, PathsAssumption DEF PathsIn, Path
<1>5. \A part \in Parts(x) : PathsOf(part) \subseteq Path
  BY <1>2, <1>3
<1> QED BY <1>2, <1>3, <1>4, <1>5, PathsOfIs

-----------------------------------------------------------------------------
(* What a node is shown.                                                   *)

\* What normalizeNodeResult makes of a result.
Shaped(r) ==
  \A n \in DOMAIN r :
    Is("obj", r[n]) /\ (DOMAIN r[n].obj = {"value"} \/ DOMAIN r[n].obj = {"rows", "row"})

\* The results of A show as much at this segment as all of r.
Shown(r, A, segment) ==
  \/ segment \in A
  \/ segment \notin DOMAIN r /\ ("value" \notin DOMAIN r \/ "value" \in A \/ segment \in ContextRoots)

LEMMA SegmentAlike ==
  ASSUME NEW r, Shaped(r), NEW A \in SUBSET DOMAIN r, NEW segment, Shown(r, A, segment)
  PROVE  Step("value", Obj(r), segment) = Step("value", Obj(Restrict(r, A)), segment)
<1> DEFINE few == Restrict(r, A)
<1>1. DOMAIN few = A /\ \A n \in A : few[n] = r[n]
  BY DEF Restrict
<1>2. ASSUME NEW f, NEW key
      PROVE  Member(Obj(f), key) = IF key \in DOMAIN f THEN f[key] ELSE Undefined
  BY DEF Member, Obj, Is
<1>3. ASSUME NEW f
      PROVE  Step("value", Obj(f), segment) =
               IF segment \in DOMAIN f THEN f[segment] ELSE Member(Member(Obj(f), "value"), segment)
  BY DEF Step, MemberOrValue, Obj, Is
<1>4. \A key : Member(Undefined, key) = Undefined
  BY DEF Member, Is, Undefined
<1>5. segment \in ContextRoots /\ "value" \in DOMAIN r => Member(r["value"], segment) = Undefined
  <2>1. segment \in ContextRoots => segment \notin {"value", "rows", "row"}
    BY DEF ContextRoots
  <2> QED BY <2>1 DEF Shaped, Member
<1> HIDE DEF few
<1>6. Step("value", Obj(r), segment) =
        IF segment \in DOMAIN r THEN r[segment] ELSE Member(Member(Obj(r), "value"), segment)
  BY <1>3
<1>7. Step("value", Obj(few), segment) =
        IF segment \in A THEN r[segment] ELSE Member(Member(Obj(few), "value"), segment)
  BY <1>1, <1>3
<1>8. /\ Member(Obj(r), "value") = IF "value" \in DOMAIN r THEN r["value"] ELSE Undefined
      /\ Member(Obj(few), "value") = IF "value" \in A THEN r["value"] ELSE Undefined
  BY <1>1, <1>2
<1>9. Step("value", Obj(r), segment) = Step("value", Obj(few), segment)
  <2>1. CASE segment \in A
    BY <1>6, <1>7, <2>1
  <2>2. CASE segment \notin A
    <3>1. segment \notin DOMAIN r /\ ("value" \notin DOMAIN r \/ "value" \in A \/ segment \in ContextRoots)
      BY <2>2 DEF Shown
    <3> QED BY <1>4, <1>5, <1>6, <1>7, <1>8, <2>2, <3>1
  <2> QED BY <2>1, <2>2
<1> QED BY <1>9 DEF few

LEMMA PathAlike ==
  ASSUME NEW r, Shaped(r), NEW A \in SUBSET DOMAIN r, NEW path \in Path, Shown(r, A, path[1])
  PROVE  GetWithValueFallback(Obj(r), path) = GetWithValueFallback(Obj(Restrict(r, A)), path)
<1>1. Step("value", Obj(r), path[1]) = Step("value", Obj(Restrict(r, A)), path[1])
  BY SegmentAlike
<1>2. Get("value", Obj(r), path) = Get("value", Obj(Restrict(r, A)), path)
  BY <1>1, FirstStep
<1> QED BY <1>2 DEF Get

LEMMA TailIsPath ==
  ASSUME NEW p \in Path, Len(p) > 1
  PROVE  Tail(p) \in Path /\ Tail(p)[1] = p[2]
<1> DEFINE rest == Tail(p)
<1>1. p \in Seq(STRING) /\ p # <<>>
  BY DEF Path
<1>2. rest \in Seq(STRING) /\ Len(rest) = Len(p) - 1 /\ rest[1] = p[2]
  BY <1>1
<1> HIDE DEF rest
<1>3. rest # <<>>
  BY <1>1, <1>2
<1> QED BY <1>2, <1>3 DEF Path, rest

\* Where the source of this kind looks for the path, A shows as much as r.
Reaches(kind, r, A, p) ==
  /\ Shown(r, A, p[1])
  /\ kind = "query" /\ p[1] = "state" /\ Len(p) > 1 => Shown(r, A, p[2])

LEMMA LookupAlike ==
  ASSUME NEW r, Shaped(r), NEW A \in SUBSET DOMAIN r, NEW context, NEW kind,
         NEW p \in Path, Reaches(kind, r, A, p)
  PROVE  Lookup([kind |-> kind, state |-> Obj(r), context |-> context], p)
           = Lookup([kind |-> kind, state |-> Obj(Restrict(r, A)), context |-> context], p)
<1> DEFINE all == [kind |-> kind, state |-> Obj(r), context |-> context]
           few == [kind |-> kind, state |-> Obj(Restrict(r, A)), context |-> context]
<1>1. GetWithValueFallback(Obj(r), p) = GetWithValueFallback(Obj(Restrict(r, A)), p)
  BY PathAlike DEF Reaches
<1>2. kind = "query" /\ p[1] = "state" /\ Len(p) > 1 =>
        GetWithValueFallback(Obj(r), Tail(p)) = GetWithValueFallback(Obj(Restrict(r, A)), Tail(p))
  <2>1. HAVE kind = "query" /\ p[1] = "state" /\ Len(p) > 1
  <2> DEFINE rest == Tail(p)
  <2>2. rest \in Path /\ rest[1] = p[2]
    BY <2>1, TailIsPath
  <2> HIDE DEF rest
  <2>3. Shown(r, A, rest[1])
    BY <2>1, <2>2 DEF Reaches
  <2>4. GetWithValueFallback(Obj(r), rest) = GetWithValueFallback(Obj(Restrict(r, A)), rest)
    BY <2>2, <2>3, PathAlike
  <2> QED BY <2>4 DEF rest
<1>3. /\ all.kind = kind /\ few.kind = kind /\ all.context = context /\ few.context = context
      /\ all.state = Obj(r) /\ few.state = Obj(Restrict(r, A))
  OBVIOUS
<1> HIDE DEF all, few
<1>4. ValueSource(all, p) = ValueSource(few, p) /\ OutputSource(all, p) = OutputSource(few, p)
  BY <1>1, <1>3 DEF ValueSource, OutputSource
<1>5. kind = "query" => QuerySource(all, p) = QuerySource(few, p)
  BY <1>2, <1>3, <1>4 DEF QuerySource
<1>6. Lookup(all, p) = Lookup(few, p)
  BY <1>3, <1>4, <1>5 DEF Lookup
<1> QED BY <1>6 DEF all, few

\* The results of A are all that a node of this definition sees of r.
LEMMA ExecuteAlike ==
  ASSUME NEW def \in Expressions, NEW r, Shaped(r), NEW A \in SUBSET DOMAIN r, NEW context,
         \A p \in PathsOf(def) : Reaches(TypeOf(def), r, A, p)
  PROVE  Execute(def, r, context) = Execute(def, Restrict(r, A), context)
<1> DEFINE all == [kind |-> TypeOf(def), state |-> Obj(r), context |-> context]
           few == [kind |-> TypeOf(def), state |-> Obj(Restrict(r, A)), context |-> context]
           inputs == Member(def, "inputs")
<1>1. ASSUME NEW p \in PathsOf(def) PROVE Lookup(all, p) = Lookup(few, p)
  BY PathsArePaths, LookupAlike
<1> HIDE DEF all, few
<1>2. Resolve(def, all) = Resolve(def, few)
  BY <1>1, ResolveAlike
<1>3. ASSUME Is("obj", inputs), NEW k \in DOMAIN inputs.obj
      PROVE  Resolve(inputs.obj[k], all) = Resolve(inputs.obj[k], few)
  <2>1. inputs # Undefined
    BY <1>3 DEF Is, Undefined
  <2>2. Is("obj", def) /\ "inputs" \in DOMAIN def.obj /\ inputs = def.obj["inputs"]
    BY <2>1 DEF Member
  <2> HIDE DEF inputs
  <2>3. inputs \in Parts(def) /\ inputs \in Expressions
    BY <2>2, PartsAre
  <2>4. inputs.obj[k] \in Parts(inputs) /\ inputs.obj[k] \in Expressions
    BY <1>3, <2>3, PartsAre
  <2>5. ~Is("text", def) /\ ~Is("text", inputs)
    BY <1>3, <2>2, <2>3, OneTag
  <2>6. PathsOf(inputs) \subseteq PathsOf(def) /\ PathsOf(inputs.obj[k]) \subseteq PathsOf(inputs)
    BY <2>3, <2>4, <2>5, PathsOfIs
  <2>7. \A p \in PathsOf(inputs.obj[k]) : Lookup(all, p) = Lookup(few, p)
    BY <1>1, <2>6
  <2> DEFINE input == inputs.obj[k]
  <2>8. input \in Expressions /\ \A p \in PathsOf(input) : Lookup(all, p) = Lookup(few, p)
    BY <2>4, <2>7
  <2> HIDE DEF input
  <2>9. Resolve(input, all) = Resolve(input, few)
    BY <2>8, ResolveAlike
  <2> QED BY <2>9 DEF input
<1> DEFINE keys == IF Is("obj", inputs) THEN DOMAIN inputs.obj ELSE {}
<1>4. ResolveInputs(def, all) = ResolveInputs(def, few)
  <2>1. \A k \in keys : Resolve(inputs.obj[k], all) = Resolve(inputs.obj[k], few)
    BY <1>3
  <2>2. /\ ResolveInputs(def, all) = [k \in keys |-> Resolve(inputs.obj[k], all)]
        /\ ResolveInputs(def, few) = [k \in keys |-> Resolve(inputs.obj[k], few)]
    BY DEF ResolveInputs
  <2> HIDE DEF keys, inputs
  <2>3. [k \in keys |-> Resolve(inputs.obj[k], all)] = [k \in keys |-> Resolve(inputs.obj[k], few)]
    BY <2>1
  <2> QED BY <2>2, <2>3
<1> DEFINE Ran(env) == Normalized(TypeOf(def), CASE TypeOf(def) = "query" -> ExecuteQuery(Resolve(def, env))
                         [] TypeOf(def) = "mutation" -> ExecuteMutation(Resolve(def, env))
                         [] TypeOf(def) = "merge" -> ExecuteMerge(def, ResolveInputs(def, env))
                         [] OTHER -> Resolve(def, env))
<1>5. Ran(all) = Ran(few)
  BY <1>2, <1>4
<1>6. Execute(def, r, context) = Ran(all) /\ Execute(def, Restrict(r, A), context) = Ran(few)
  BY DEF Execute, all, few
<1> QED BY <1>5, <1>6

-----------------------------------------------------------------------------
(* The plan has every dependency of its nodes.                             *)

\* The edges among the nodes of the view, at least those of the definitions.
Covers(g, v) ==
  /\ DOMAIN g \subseteq DOMAIN v.nodes
  /\ \A n \in DOMAIN g : Dependencies(v.nodes[n], DOMAIN v.nodes) \subseteq g[n]

LEMMA ChainCovers ==
  ASSUME NEW g, NEW v, Covers(g, v), NEW current, NEW previous
  PROVE  Covers(ChainEdge(g, current, previous), v)
<1> DEFINE wait == [g EXCEPT ![current] = @ \cup {previous}]
<1>1. DOMAIN wait = DOMAIN g /\ \A n \in DOMAIN g : g[n] \subseteq wait[n]
  OBVIOUS
<1>2. ChainEdge(g, current, previous) \in {g, wait}
  BY DEF ChainEdge
<1> HIDE DEF wait
<1>3. Covers(wait, v)
  BY <1>1 DEF Covers
<1> QED BY <1>2, <1>3

LEMMA NeededCovers ==
  ASSUME NEW v, NEW all, NEW seeds,
         all = [n \in DOMAIN v.nodes |-> Dependencies(v.nodes[n], DOMAIN v.nodes)]
  PROVE  Covers(FilterEdges(all, DependencyClosure(all, seeds)), v)
<1> DEFINE needed == DependencyClosure(all, seeds)
<1>1. needed \subseteq DOMAIN all
  BY DEF DependencyClosure
<1>2. ASSUME NEW n \in needed, NEW m \in all[n] PROVE m \in needed
  <2>1. n \in DOMAIN all /\ m \in DOMAIN all
    BY <1>1, <1>2 DEF Dependencies
  <2>2. ASSUME NEW S \in SUBSET DOMAIN all, seeds \subseteq S, ClosedUnder(all, S) PROVE m \in S
    <3>1. n \in S
      BY <2>2 DEF DependencyClosure
    <3> QED BY <1>2, <2>1, <2>2, <3>1 DEF ClosedUnder
  <2> QED BY <2>1, <2>2 DEF DependencyClosure
<1> HIDE DEF needed
<1>3. \A n \in needed : FilterEdges(all, needed)[n] = all[n]
  BY <1>2, <1>1 DEF FilterEdges
<1>4. DOMAIN FilterEdges(all, needed) = needed
  BY DEF FilterEdges
<1>5. \A n \in needed : Dependencies(v.nodes[n], DOMAIN v.nodes) = all[n] /\ n \in DOMAIN v.nodes
  BY <1>1
<1>6. Covers(FilterEdges(all, needed), v)
  BY <1>3, <1>4, <1>5 DEF Covers
<1> QED BY <1>6 DEF needed

\* addSequentialSubmitEdges over the first m entries of the submit list.
Chained(f, first, submit, m) ==
  f = [i \in 1 .. m |-> IF i = 1 THEN first ELSE ChainEdge(f[i - 1], submit[i], submit[i - 1])]

LEMMA ChainedExists ==
  ASSUME NEW first, NEW submit, NEW m \in Nat
  PROVE  \E f : Chained(f, first, submit, m)
<1> DEFINE S == {k \in Nat : \E f : Chained(f, first, submit, k)}
<1>1. 0 \in S
  <2>1. Chained([i \in 1 .. 0 |-> first], first, submit, 0)
    BY DEF Chained
  <2> QED BY <2>1
<1>2. ASSUME NEW k \in Nat, k \in S PROVE k + 1 \in S
  <2>1. PICK f : Chained(f, first, submit, k)
    BY <1>2
  <2> DEFINE last == IF k = 0 THEN first ELSE ChainEdge(f[k], submit[k + 1], submit[k])
             g == [i \in 1 .. k + 1 |-> IF i = k + 1 THEN last ELSE f[i]]
  <2>2. ASSUME NEW i \in 1 .. k + 1
        PROVE  g[i] = IF i = 1 THEN first ELSE ChainEdge(g[i - 1], submit[i], submit[i - 1])
    <3>1. CASE i = k + 1 /\ k = 0
      BY <3>1
    <3>2. CASE i = k + 1 /\ k # 0
      <4>1. i - 1 = k /\ k \in 1 .. k + 1 /\ k # k + 1 /\ i # 1
        BY <3>2
      <4>2. g[k] = f[k] /\ g[i] = ChainEdge(f[k], submit[k + 1], submit[k])
        BY <3>2, <4>1
      <4> QED BY <3>2, <4>1, <4>2
    <3>3. CASE i \in 1 .. k /\ i = 1
      <4>1. g[i] = f[i] /\ f[i] = first
        BY <2>1, <3>3 DEF Chained
      <4> QED BY <3>3, <4>1
    <3>4. CASE i \in 1 .. k /\ i # 1
      <4>1. i - 1 \in 1 .. k /\ i - 1 # k + 1 /\ i - 1 \in 1 .. k + 1 /\ i # k + 1
        BY <3>4
      <4>2. g[i] = f[i] /\ g[i - 1] = f[i - 1]
        BY <3>4, <4>1
      <4>3. f[i] = ChainEdge(f[i - 1], submit[i], submit[i - 1])
        BY <2>1, <3>4 DEF Chained
      <4> QED BY <3>4, <4>2, <4>3
    <3> QED BY <3>1, <3>2, <3>3, <3>4
  <2>3. Chained(g, first, submit, k + 1)
    <3> DEFINE by(i) == IF i = 1 THEN first ELSE ChainEdge(g[i - 1], submit[i], submit[i - 1])
    <3>1. g = [i \in 1 .. k + 1 |-> g[i]]
      OBVIOUS
    <3> HIDE DEF g
    <3>2. g = [i \in 1 .. k + 1 |-> by(i)]
      BY <2>2, <3>1
    <3> QED BY <3>2 DEF Chained
  <2> HIDE DEF g
  <2> QED BY <2>3
<1>3. Nat \subseteq S
  <2> HIDE DEF S
  <2> QED BY <1>1, <1>2, EveryNumber
<1> QED BY <1>3

LEMMA ChainedCovers ==
  ASSUME NEW v, NEW first, Covers(first, v), NEW submit, NEW m \in Nat \ {0},
         NEW f, Chained(f, first, submit, m)
  PROVE  Covers(f[m], v)
<1> DEFINE S == {k \in Nat : k + 1 <= m => Covers(f[k + 1], v)}
<1>1. 0 \in S
  <2>1. 1 \in 1 .. m /\ 0 + 1 = 1
    OBVIOUS
  <2>2. f[1] = first
    BY <2>1 DEF Chained
  <2> QED BY <2>1, <2>2
<1>2. ASSUME NEW k \in Nat, k \in S PROVE k + 1 \in S
  <2>1. SUFFICES ASSUME (k + 1) + 1 <= m PROVE Covers(f[(k + 1) + 1], v)
    OBVIOUS
  <2> DEFINE i == (k + 1) + 1
  <2>2. i \in 1 .. m /\ i # 1 /\ i - 1 = k + 1 /\ Covers(f[k + 1], v)
    BY <1>2, <2>1
  <2> HIDE DEF i
  <2>3. f[i] = ChainEdge(f[k + 1], submit[i], submit[i - 1])
    BY <2>2 DEF Chained
  <2> QED BY <2>2, <2>3, ChainCovers DEF i
<1>3. m - 1 \in S
  <2>1. m - 1 \in Nat
    OBVIOUS
  <2> HIDE DEF S
  <2> QED BY <1>1, <1>2, <2>1, EveryNumber
<1> QED BY <1>3

\* Without its repetitions a list is not empty unless it was.
LEMMA SomeAreFirst ==
  ASSUME NEW names \in Seq(STRING), names # <<>>
  PROVE  Len(UniqueNodeIds(names)) \in Nat \ {0}
<1> DEFINE firsts == {i \in DOMAIN names : \A j \in 1 .. i - 1 : names[j] # names[i]}
           place(k) == CHOOSE i \in firsts : Cardinality({j \in firsts : j <= i}) = k
<1>1. DOMAIN names = 1 .. Len(names) /\ Len(names) \in Nat \ {0}
  OBVIOUS
<1>2. 1 \in firsts
  BY <1>1
<1>3. IsFiniteSet(firsts)
  <2>1. IsFiniteSet(1 .. Len(names)) /\ firsts \subseteq 1 .. Len(names)
    BY <1>1, FS_Interval
  <2> HIDE DEF firsts
  <2> QED BY <2>1, FS_Subset
<1>4. UniqueNodeIds(names) = [k \in 1 .. Cardinality(firsts) |-> names[place(k)]]
  BY DEF UniqueNodeIds
<1> HIDE DEF firsts, place
<1>5. Cardinality(firsts) \in Nat \ {0}
  BY <1>2, <1>3, FS_EmptySet, FS_CardinalityType
<1> QED BY <1>4, <1>5

LEMMA PlanCovers ==
  ASSUME NEW v \in Views
  PROVE  Covers(PlanEdges(v), v)
<1> DEFINE all == [n \in DOMAIN v.nodes |-> Dependencies(v.nodes[n], DOMAIN v.nodes)]
           ids == UniqueNodeIds(v.submit)
           needed == DependencyClosure(all, Range(ids))
           Good(f) == f = [i \in 1 .. Len(ids) |->
                             IF i = 1 THEN FilterEdges(all, needed)
                             ELSE ChainEdge(f[i - 1], ids[i], ids[i - 1])]
<1>1. CASE v.submit = <<>>
  <2>1. Covers(all, v)
    BY DEF Covers
  <2> QED BY <1>1, <2>1 DEF PlanEdges
<1>2. CASE v.submit # <<>>
  <2>1. Len(ids) \in Nat \ {0}
    BY <1>2, ViewsAssumption, SomeAreFirst
  <2>2. Covers(FilterEdges(all, needed), v)
    BY NeededCovers
  <2>3. PlanEdges(v) = (CHOOSE f : Good(f))[Len(ids)]
    BY <1>2 DEF PlanEdges
  <2> HIDE DEF needed, all, ids
  <2>4. ASSUME NEW f PROVE Good(f) <=> Chained(f, FilterEdges(all, needed), ids, Len(ids))
    BY DEF Chained
  <2> HIDE DEF Good
  <2>5. \E f : Good(f)
    BY <2>1, <2>4, ChainedExists
  <2>6. PICK f : Good(f) /\ PlanEdges(v) = f[Len(ids)]
    BY <2>3, <2>5
  <2> QED BY <2>1, <2>2, <2>4, <2>6, ChainedCovers
<1> QED BY <1>1, <1>2

-----------------------------------------------------------------------------
(* Along a run.                                                            *)

Consistent ==
  /\ view \in Views
  /\ status = "new" => DOMAIN state = {}
  /\ status = "running" => ~Refused(view)
  /\ Covers(edges, view)
  /\ DOMAIN state \subseteq DOMAIN edges
  /\ \A n \in DOMAIN state : edges[n] \subseteq DOMAIN state
  /\ Shaped(state)
  /\ SeesOnlyDependencies

Named(n) == Roots(view.nodes[n]) \cap DOMAIN view.nodes

LEMMA AliasedIs ==
  ASSUME NEW n
  PROVE  /\ Aliased(n) \subseteq DOMAIN state
         /\ view' = view /\ DOMAIN state \subseteq DOMAIN state' => Aliased(n) \subseteq Aliased(n)'
BY DEF Aliased, Spelled

LEMMA ResultShape ==
  ASSUME NEW type, NEW result, Normalized(type, result) # Failure
  PROVE  LET r == Normalized(type, result)
         IN  Is("obj", r) /\ (DOMAIN r.obj = {"value"} \/ DOMAIN r.obj = {"rows", "row"})
<1>1. result # Failure
  BY DEF Normalized
<1>2. CASE type = "query"
  <2> DEFINE row == IF result.arr = <<>> THEN Null ELSE result.arr[1]
  <2>1. Normalized(type, result) = Obj([rows |-> result, row |-> row])
    BY <1>1, <1>2 DEF Normalized
  <2> HIDE DEF row
  <2> QED BY <2>1 DEF Obj, Is
<1>3. CASE type # "query"
  <2>1. Normalized(type, result) = Obj([value |-> result])
    BY <1>1, <1>3 DEF Normalized
  <2> QED BY <2>1 DEF Obj, Is
<1> QED BY <1>2, <1>3

\* Of the results there are, a node sees those it names and those it has an alias for.
LEMMA NodeSees ==
  ASSUME view \in Views, ~Refused(view), Shaped(state), DOMAIN state \subseteq DOMAIN view.nodes,
         NEW n \in DOMAIN view.nodes, Named(n) \subseteq DOMAIN state
  PROVE  Execute(view.nodes[n], state, Context)
           = Execute(view.nodes[n], Restrict(state, Named(n) \cup Aliased(n)), Context)
<1> DEFINE def == view.nodes[n]
           A == Named(n) \cup Aliased(n)
<1>1. def \in Expressions
  BY ViewsAssumption DEF Range
<1>2. A \in SUBSET DOMAIN state
  BY AliasedIs DEF Named
<1>3. ASSUME NEW p \in PathsOf(def) PROVE Reaches(TypeOf(def), state, A, p)
  <2>1. p[1] \in Roots(def)
    BY DEF Roots
  <2>2. p[1] \in DOMAIN view.nodes \/ p[1] \in ContextRoots
    BY <2>1 DEF Refused, Unknown
  <2>3. Shown(state, A, p[1])
    BY <2>1, <2>2 DEF Shown, Named
  <2>4. ASSUME TypeOf(def) = "query", p[1] = "state", Len(p) > 1 PROVE Shown(state, A, p[2])
    <3>1. {p[2], "value"} \cap DOMAIN state \subseteq Aliased(n)
      BY <1>3, <2>4 DEF Aliased, Spelled
    <3> QED BY <3>1 DEF Shown
  <2> QED BY <2>3, <2>4 DEF Reaches
<1> HIDE DEF def, A
<1>4. Execute(def, state, Context) = Execute(def, Restrict(state, A), Context)
  BY <1>1, <1>2, <1>3, ExecuteAlike
<1> QED BY <1>4 DEF def, A

LEMMA InitConsistent == Init => Consistent
<1> SUFFICES ASSUME Init PROVE Consistent
  OBVIOUS
<1>1. DOMAIN edges = {} /\ DOMAIN state = {}
  BY DEF Init
<1> QED BY <1>1 DEF Init, Consistent, Covers, Shaped, SeesOnlyDependencies

\* What stays of the results leaves what was seen as it was.
LEMMA SeenStays ==
  ASSUME Consistent, view' = view, request' = request, DOMAIN state \subseteq DOMAIN state',
         \A n \in DOMAIN state : state'[n] = state[n],
         NEW n \in DOMAIN state
  PROVE  /\ Named(n) \subseteq DOMAIN state'
         /\ \E S \in SUBSET Aliased(n)' :
              state'[n] = Execute(view.nodes[n], Restrict(state', Named(n) \cup S), Context)
<1>1. PICK S \in SUBSET Aliased(n) :
        state[n] = Execute(view.nodes[n], Restrict(state, Named(n) \cup S), Context)
  BY DEF Consistent, SeesOnlyDependencies, Named
<1>2. Named(n) \subseteq DOMAIN state
  BY DEF Consistent, SeesOnlyDependencies, Named
<1>3. Aliased(n) \subseteq DOMAIN state /\ Aliased(n) \subseteq Aliased(n)'
  BY AliasedIs
<1>4. Restrict(state', Named(n) \cup S) = Restrict(state, Named(n) \cup S)
  BY <1>2, <1>3 DEF Restrict
<1> QED BY <1>1, <1>2, <1>3, <1>4

LEMMA CompileConsistent ==
  ASSUME Consistent, Compile
  PROVE  Consistent'
<1>1. view' = view /\ state' = state /\ DOMAIN state = {} /\ view \in Views
  BY DEF Compile, Consistent
<1>2. Covers(edges', view)
  BY <1>1, PlanCovers DEF Compile, Consistent
<1>3. status' = "running" => ~Refused(view)
  BY DEF Compile
<1>4. status' # "new"
  BY DEF Compile
<1> QED BY <1>1, <1>2, <1>3, <1>4 DEF Consistent, Shaped, SeesOnlyDependencies

LEMMA LayerConsistent ==
  ASSUME Consistent, ExecuteLayer
  PROVE  Consistent'
<1> DEFINE layer == NextLayer(edges, DOMAIN state)
           results == [n \in layer |-> Execute(view.nodes[n], state, Context)]
<1>1. /\ view' = view /\ request' = request /\ edges' = edges /\ status = "running"
      /\ ~Refused(view) /\ view \in Views
  BY DEF ExecuteLayer, Consistent
<1>2. CASE state' = state
  <2>1. Context' = Context
    BY <1>1 DEF Context
  <2>2. \A n : Aliased(n)' = Aliased(n)
    BY <1>1, <1>2 DEF Aliased, Spelled
  <2>3. SeesOnlyDependencies'
    BY <1>1, <1>2, <2>1, <2>2 DEF Consistent, SeesOnlyDependencies
  <2>4. status' # "new"
    BY <1>1 DEF ExecuteLayer
  <2> QED BY <1>1, <1>2, <2>3, <2>4 DEF Consistent
<1>3. CASE state' # state
  <2>1. state' = Spread(results, state) /\ \A n \in layer : results[n] # Failure
    BY <1>3 DEF ExecuteLayer
  <2>2. layer \subseteq DOMAIN edges \ DOMAIN state /\ \A n \in layer : edges[n] \subseteq DOMAIN state
    BY DEF NextLayer
  <2>3. /\ DOMAIN state' = layer \cup DOMAIN state
        /\ \A n \in layer : state'[n] = Execute(view.nodes[n], state, Context)
        /\ \A n \in DOMAIN state : state'[n] = state[n]
    <3>1. /\ DOMAIN Spread(results, state) = DOMAIN results \cup DOMAIN state
          /\ \A n \in DOMAIN results \cup DOMAIN state :
               Spread(results, state)[n] = IF n \in DOMAIN results THEN results[n] ELSE state[n]
      <4> HIDE DEF results
      <4> QED BY DEF Spread
    <3>2. DOMAIN results = layer /\ \A n \in layer : results[n] = Execute(view.nodes[n], state, Context)
      OBVIOUS
    <3> HIDE DEF results, layer
    <3> QED BY <2>1, <2>2, <3>1, <3>2
  <2>4. Covers(edges, view) /\ Shaped(state) /\ DOMAIN state \subseteq DOMAIN view.nodes
    BY DEF Consistent, Covers
  <2>5. ASSUME NEW n \in layer
        PROVE  /\ Is("obj", state'[n])
               /\ DOMAIN state'[n].obj = {"value"} \/ DOMAIN state'[n].obj = {"rows", "row"}
    <3>1. PICK result : Execute(view.nodes[n], state, Context) = Normalized(TypeOf(view.nodes[n]), result)
      BY DEF Execute
    <3>2. state'[n] = Normalized(TypeOf(view.nodes[n]), result) /\ state'[n] # Failure
      BY <2>1, <2>3, <3>1
    <3> QED BY <3>2, ResultShape
  <2>6. ASSUME NEW n \in layer
        PROVE  /\ Named(n) \subseteq DOMAIN state'
               /\ \E S \in SUBSET Aliased(n)' :
                    state'[n] = Execute(view.nodes[n], Restrict(state', Named(n) \cup S), Context)
    <3>1. n \in DOMAIN view.nodes /\ Named(n) \subseteq DOMAIN state
      BY <2>2, <2>4 DEF Covers, Dependencies, Named
    <3>2. Execute(view.nodes[n], state, Context)
            = Execute(view.nodes[n], Restrict(state, Named(n) \cup Aliased(n)), Context)
      BY <1>1, <2>4, <3>1, NodeSees
    <3>3. Aliased(n) \subseteq DOMAIN state /\ Aliased(n) \subseteq Aliased(n)'
      BY <1>1, <2>3, AliasedIs
    <3> HIDE DEF layer
    <3>4. Restrict(state', Named(n) \cup Aliased(n)) = Restrict(state, Named(n) \cup Aliased(n))
      BY <2>3, <3>1, <3>3 DEF Restrict
    <3> QED BY <2>3, <3>1, <3>2, <3>3, <3>4
  <2>7. Context' = Context
    BY <1>1 DEF Context
  <2> HIDE DEF layer, results
  <2>8. SeesOnlyDependencies'
    <3>1. ASSUME NEW n \in DOMAIN state'
          PROVE  /\ Named(n) \subseteq DOMAIN state'
                 /\ \E S \in SUBSET Aliased(n)' :
                      state'[n] = Execute(view.nodes[n], Restrict(state', Named(n) \cup S), Context)
      BY <1>1, <2>3, <2>6, SeenStays
    <3> QED BY <1>1, <2>7, <3>1 DEF SeesOnlyDependencies, Named
  <2>9. Shaped(state')
    BY <2>3, <2>4, <2>5 DEF Shaped
  <2>10. /\ DOMAIN state' \subseteq DOMAIN edges
         /\ \A n \in DOMAIN state' : edges[n] \subseteq DOMAIN state'
    BY <2>2, <2>3 DEF Consistent
  <2>11. status' # "new"
    BY <1>1 DEF ExecuteLayer
  <2> QED BY <1>1, <2>4, <2>8, <2>9, <2>10, <2>11 DEF Consistent
<1> QED BY <1>2, <1>3

LEMMA Unmoved ==
  ASSUME Consistent, view' = view, request' = request, edges' = edges, state' = state,
         status' # "new" \/ status = "new", status' = "running" => status = "running"
  PROVE  Consistent'
<1>1. Context' = Context
  BY DEF Context
<1>2. \A n : Aliased(n)' = Aliased(n)
  BY DEF Aliased, Spelled
<1>3. SeesOnlyDependencies'
  BY <1>1, <1>2 DEF Consistent, SeesOnlyDependencies
<1> QED BY <1>3 DEF Consistent

\* Every view in execution is Consistent, whatever it is made of.
THEOREM RunsAreConsistent == Spec => []Consistent
<1>1. ASSUME Consistent, [Next]_vars PROVE Consistent'
  <2>1. CASE Compile
    BY <1>1, <2>1, CompileConsistent
  <2>2. CASE ExecuteLayer
    BY <1>1, <2>2, LayerConsistent
  <2>3. CASE ResolveOutput
    BY <1>1, <2>3, Unmoved DEF ResolveOutput
  <2>4. CASE UNCHANGED vars
    BY <1>1, <2>4, Unmoved DEF vars
  <2> QED BY <1>1, <2>1, <2>2, <2>3, <2>4 DEF Next
<1> QED BY <1>1, InitConsistent, PTL DEF Spec

\* For every view and request, the result of a node is a function of the results it names
\* (and of those a query reaches through {{state.x}}): resolveExecutionOrder makes all of
\* them ready and what else shares the snapshot is not seen.
THEOREM ResultsFollowNames == Spec => []SeesOnlyDependencies
<1>1. Consistent => SeesOnlyDependencies
  BY DEF Consistent
<1> QED BY <1>1, RunsAreConsistent, PTL

-----------------------------------------------------------------------------
(* What an expression means.                                               *)

IsSpread(f, over, under) ==
  /\ DOMAIN f = DOMAIN over \cup DOMAIN under
  /\ \A k \in DOMAIN f : f[k] = IF k \in DOMAIN over THEN over[k] ELSE under[k]

LEMMA SpreadIs ==
  ASSUME NEW over, NEW under
  PROVE  IsSpread(Spread(over, under), over, under)
BY DEF IsSpread, Spread

LEMMA MemberIs ==
  ASSUME NEW f, NEW key
  PROVE  Member(Obj(f), key) = IF key \in DOMAIN f THEN f[key] ELSE Undefined
BY DEF Member, Obj, Is

\* What the request brought is at the top of the context too, but for the reserved names.
LEMMA BroughtIsAtTheTop ==
  ASSUME NEW segment, segment \notin Reserved,
         Member(Member(Context, "context"), segment) # Undefined
  PROVE  Member(Context, segment) = Member(Member(Context, "context"), segment)
<1> DEFINE identity == [requestId |-> Lit("r1"), userId |-> Lit("u1"), tenantId |-> Lit("t1")]
           brought == Spread(request.extra, identity)
           beside == [auth |-> Obj([userId |-> Lit("u1")]), orgScope |-> Obj([userId |-> Lit("u1")]),
                      context |-> Obj(brought)]
           input == [input |-> Obj(request.input)]
           inner == Spread(input, identity)
           middle == Spread(request.extra, inner)
           outer == Spread(beside, middle)
<1>1. Context = Obj(outer)
  BY DEF Context, RuntimeContext
<1>2. DOMAIN beside = Reserved /\ beside["context"] = Obj(brought) /\ "context" \in Reserved
  BY DEF Reserved
<1>3. DOMAIN identity = {"requestId", "userId", "tenantId"} /\ DOMAIN input = {"input"}
  OBVIOUS
<1> HIDE DEF identity, beside, input
<1>4. IsSpread(brought, request.extra, identity)
  BY SpreadIs
<1>5. IsSpread(inner, input, identity)
  BY SpreadIs
<1> HIDE DEF inner, brought
<1>6. IsSpread(middle, request.extra, inner)
  BY SpreadIs
<1> HIDE DEF middle
<1>7. IsSpread(outer, beside, middle)
  BY SpreadIs
<1> HIDE DEF outer
<1>8. Member(Context, "context") = Obj(brought)
  BY <1>1, <1>2, <1>7, MemberIs DEF IsSpread
<1>9. segment \in DOMAIN brought /\ Member(Obj(brought), segment) = brought[segment]
  BY <1>8, MemberIs
<1>10. segment \in DOMAIN outer /\ outer[segment] = middle[segment] /\ segment \in DOMAIN middle
  BY <1>2, <1>4, <1>5, <1>6, <1>7, <1>9 DEF IsSpread
<1>11. middle[segment] = brought[segment]
  BY <1>3, <1>4, <1>5, <1>6, <1>9, <1>10 DEF IsSpread
<1> QED BY <1>1, <1>8, <1>9, <1>10, <1>11, MemberIs

LEMMA Means ==
  ASSUME Consistent, NEW p \in Path
  PROVE  LET look(kind) == Lookup([kind |-> kind, state |-> Obj(state), context |-> Context], p)
             here == look("merge")
             own == GetWithValueFallback(state[p[1]], Tail(p))
         IN  /\ p[1] \notin {"ctx", "context", "state"} => look("query") = here
             /\ look("output") # here => here = Undefined
             /\ p[1] \in DOMAIN state /\ own # Undefined => here = own /\ look("output") = own
             /\ p[1] = "context" /\ p[1] \notin DOMAIN view.nodes /\ here # Undefined =>
                  look("query") = here \/ (Len(p) > 1 /\ p[2] \in Reserved)
<1> DEFINE look(kind) == Lookup([kind |-> kind, state |-> Obj(state), context |-> Context], p)
           here == look("merge")
           own == GetWithValueFallback(state[p[1]], Tail(p))
           found == GetWithValueFallback(Obj(state), p)
           given == GetNested(Context, p)
           rest == Tail(p)
<1>1. here = IF found # Undefined THEN found ELSE given
  BY DEF Lookup, ValueSource
<1>2. look("output") = IF found # Undefined THEN found ELSE GetWithValueFallback(Context, p)
  BY DEF Lookup, OutputSource
<1>3. look("query") = CASE Len(p) > 1 /\ p[1] \in {"context", "ctx"} -> GetNested(Context, rest)
                        [] Len(p) > 1 /\ p[1] = "state" -> GetWithValueFallback(Obj(state), rest)
                        [] OTHER -> IF found # Undefined THEN found ELSE given
  BY DEF Lookup, QuerySource, ValueSource
<1> HIDE DEF look, here
<1>4. p[1] \notin {"ctx", "context", "state"} => look("query") = here
  BY <1>1, <1>3
<1>5. look("output") # here => here = Undefined
  BY <1>1, <1>2, FoundAnyway
<1>6. p[1] \in DOMAIN state /\ own # Undefined => here = own /\ look("output") = own
  <2>1. HAVE p[1] \in DOMAIN state /\ own # Undefined
  <2>2. Step("value", Obj(state), p[1]) = state[p[1]]
    BY <2>1 DEF Step, MemberOrValue, Obj, Is
  <2>3. found = own
    BY <2>2, RestOfPath DEF Get
  <2> QED BY <1>1, <1>2, <2>1, <2>3
<1>7. ASSUME p[1] = "context", p[1] \notin DOMAIN view.nodes, here # Undefined,
             ~(Len(p) > 1 /\ p[2] \in Reserved)
      PROVE  look("query") = here
  <2>1. CASE ~(Len(p) > 1)
    BY <1>1, <1>3, <2>1
  <2>2. CASE Len(p) > 1
    <3>1. rest \in Path /\ rest[1] = p[2] /\ p[2] \notin Reserved
      <4>1. rest \in Path /\ rest[1] = p[2]
        BY <2>2, TailIsPath
      <4> QED BY <1>7, <2>2, <4>1
    <3> DEFINE brought == Member(Context, "context")
    <3>2. Step("value", Obj(state), "context") = Undefined
      <4>1. "context" \notin DOMAIN state /\ Shaped(state)
        BY <1>7 DEF Consistent, Covers
      <4>2. Step("value", Obj(state), "context") = Member(Member(Obj(state), "value"), "context")
        BY <4>1 DEF Step, MemberOrValue, Obj, Is
      <4>3. CASE "value" \in DOMAIN state
        <5>1. Member(Obj(state), "value") = state["value"]
          BY <4>3, MemberIs
        <5>2. "context" \notin {"value", "rows", "row"}
          OBVIOUS
        <5> QED BY <4>1, <4>2, <4>3, <5>1, <5>2 DEF Shaped, Member
      <4>4. CASE "value" \notin DOMAIN state
        <5>1. Member(Obj(state), "value") = Undefined
          BY <4>4, MemberIs
        <5> QED BY <4>2, <5>1 DEF Member, Is, Undefined
      <4> QED BY <4>3, <4>4
    <3>3. found = Undefined
      <4>1. found = GetWithValueFallback(Undefined, rest)
        BY <1>7, <3>2, RestOfPath DEF Get
      <4> QED BY <3>1, <4>1, FromUndefined DEF Get
    <3>4. here = GetNested(brought, rest)
      <4>1. given = GetNested(brought, rest)
        BY <1>7, RestOfPath DEF Get, Step
      <4> QED BY <1>1, <3>3, <4>1
    <3>5. look("query") = GetNested(Context, rest)
      BY <1>3, <1>7, <2>2
    <3> HIDE DEF rest, brought
    <3>6. Member(brought, rest[1]) # Undefined
      <4>1. SUFFICES ASSUME Member(brought, rest[1]) = Undefined PROVE FALSE
        OBVIOUS
      <4>2. Step("own", brought, rest[1]) = Step("own", Undefined, rest[1])
        BY <4>1 DEF Step, Member, Is, Undefined
      <4>3. Get("own", brought, rest) = Undefined
        BY <3>1, <4>2, FirstStep, FromUndefined
      <4> QED BY <1>7, <3>4, <4>3 DEF Get
    <3>7. Step("own", Context, rest[1]) = Step("own", brought, rest[1])
      BY <3>1, <3>6, BroughtIsAtTheTop DEF Step, brought
    <3>8. Get("own", Context, rest) = Get("own", brought, rest)
      BY <3>1, <3>7, FirstStep
    <3> QED BY <3>4, <3>5, <3>8 DEF Get
  <2> QED BY <2>1, <2>2
<1> HIDE DEF own
<1>8. /\ p[1] \notin {"ctx", "context", "state"} => look("query") = here
      /\ look("output") # here => here = Undefined
      /\ p[1] \in DOMAIN state /\ own # Undefined => here = own /\ look("output") = own
      /\ p[1] = "context" /\ p[1] \notin DOMAIN view.nodes /\ here # Undefined =>
           look("query") = here \/ (Len(p) > 1 /\ p[2] \in Reserved)
  BY <1>4, <1>5, <1>6, <1>7
<1> QED BY <1>8 DEF look, here, own

\* For every view and request, an expression means the same in the sources of merge,
\* mutation, transform and query nodes and of the output, but for what OneMeaning names.
THEOREM MeaningIsOne == Spec => []OneMeaning
<1>1. ASSUME Consistent PROVE OneMeaning
  <2>1. \A n \in DOMAIN view.nodes : PathsOf(view.nodes[n]) \subseteq Path
    <3>1. \A n \in DOMAIN view.nodes : view.nodes[n] \in Expressions
      BY <1>1, ViewsAssumption DEF Consistent, Range
    <3> QED BY <3>1, PathsArePaths
  <2>2. PathsOf(view.output) \subseteq Path
    BY <1>1, ViewsAssumption, PathsArePaths DEF Consistent
  <2>3. (UNION {PathsOf(view.nodes[n]) : n \in DOMAIN view.nodes}) \cup PathsOf(view.output) \subseteq Path
    BY <2>1, <2>2
  <2> QED BY <1>1, <2>3, Means DEF OneMeaning
<1> QED BY <1>1, RunsAreConsistent, PTL
=============================================================================
