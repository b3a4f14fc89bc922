-------------------------- MODULE QueryScopeProofs --------------------------
(***************************************************************************)
(* What a query returns, for all contexts, requests and tables: the rows   *)
(* of the context's tenant that the filters ask for and the engine grants. *)
(***************************************************************************)
EXTENDS QueryScope, FiniteSetTheorems, SequenceTheorems, TLAPS

----------------------------------------------------------------------------
(* Numbers.                                                                *)

LEMMA LeastNumber ==
  ASSUME NEW S \in SUBSET Nat, S # {}
  PROVE  \E n \in S : \A m \in S : n <= m
<1>1. PICK n \in S : \A m \in S : <<m, n>> \notin OpToRel(<, Nat)
  BY NatLessThanWellFounded, WFMin
<1>2. ASSUME NEW m \in S PROVE n <= m
  <2>1. ~(m < n)
    BY <1>1 DEF OpToRel
  <2> QED BY <2>1
<1> QED BY <1>2

LEMMA FirstIs ==
  ASSUME NEW S \in SUBSET Nat, S # {}
  PROVE  First(S) \in S
BY LeastNumber DEF First

\* Induction, over a set of numbers.
LEMMA EveryNumber ==
  ASSUME NEW S, 0 \in S, \A n \in Nat : n \in S => n + 1 \in S
  PROVE  Nat \subseteq S
<1>1. SUFFICES ASSUME Nat \ S # {} PROVE FALSE
  OBVIOUS
<1>2. PICK n \in Nat \ S : \A m \in Nat \ S : n <= m
  BY <1>1, LeastNumber
<1>3. n # 0 /\ n - 1 \in Nat /\ n - 1 < n /\ (n - 1) + 1 = n
  BY <1>2
<1>4. n - 1 \in S
  BY <1>2, <1>3
<1> QED BY <1>2, <1>3, <1>4

----------------------------------------------------------------------------
(* The decision.                                                           *)

\* The policies of a scope, whatever the order of its roles.
Held(scope) == {PolicyOf(scope, r) : r \in {q \in Range(scope.roles) : HasPolicy(scope, q)}}

LEMMA PriorityIs ==
  /\ DOMAIN Priority = {"SELF", "DEPT", "DEPT_AND_CHILDREN", "CUSTOM_ORG_SET", "TENANT_ALL"}
  /\ Priority["SELF"] = 10 /\ Priority["DEPT"] = 20 /\ Priority["DEPT_AND_CHILDREN"] = 30
  /\ Priority["CUSTOM_ORG_SET"] = 40 /\ Priority["TENANT_ALL"] = 50
BY DEF Priority

LEMMA StrongestIs ==
  ASSUME NEW policies, DOMAIN policies \subseteq Nat, DOMAIN policies # {},
         \A i \in DOMAIN policies : policies[i].scope \in DOMAIN Priority
  PROVE  \E i \in DOMAIN policies :
           /\ Strongest(policies) = policies[i]
           /\ \A j \in DOMAIN policies :
                Priority[policies[j].scope] <= Priority[policies[i].scope]
<1> DEFINE rank(i) == Priority[policies[i].scope]
           best == {i \in DOMAIN policies : \A j \in DOMAIN policies : rank(j) <= rank(i)}
           gaps == {50 - rank(i) : i \in DOMAIN policies}
<1>1. \A i \in DOMAIN policies : rank(i) \in Nat /\ rank(i) <= 50
  BY PriorityIs
<1> HIDE DEF rank
<1>2. gaps \in SUBSET Nat /\ gaps # {}
  BY <1>1
<1>3. PICK g \in gaps : \A h \in gaps : g <= h
  BY <1>2, LeastNumber
<1>4. PICK i \in DOMAIN policies : g = 50 - rank(i)
  BY <1>3
<1>5. \A j \in DOMAIN policies : rank(j) <= rank(i)
  <2>1. ASSUME NEW j \in DOMAIN policies PROVE rank(j) <= rank(i)
    <3>1. g <= 50 - rank(j)
      BY <1>3
    <3> QED BY <1>1, <1>4, <3>1
  <2> QED BY <2>1
<1>6. best # {} /\ best \in SUBSET Nat
  BY <1>5
<1>7. First(best) \in best
  BY <1>6, FirstIs
<1> USE DEF rank
<1>8. Strongest(policies) = policies[First(best)]
  BY DEF Strongest
<1> QED BY <1>7, <1>8

LEMMA PoliciesAre ==
  ASSUME NEW scope, scope.roles \in Seq(STRING)
  PROVE  /\ DOMAIN Policies(scope) \subseteq Nat
         /\ Range(Policies(scope)) = Held(scope)
<1>1. DOMAIN scope.roles = 1 .. Len(scope.roles) /\ Len(scope.roles) \in Nat
  OBVIOUS
<1> DEFINE D == {j \in DOMAIN scope.roles : HasPolicy(scope, scope.roles[j])}
<1>2. Policies(scope) = [i \in D |-> PolicyOf(scope, scope.roles[i])]
  BY DEF Policies
<1>3. Range(Policies(scope)) = {PolicyOf(scope, scope.roles[i]) : i \in D}
  BY <1>2 DEF Range
<1>4. \A r : r \in Range(scope.roles) <=> \E i \in DOMAIN scope.roles : scope.roles[i] = r
  BY DEF Range
<1>5. {PolicyOf(scope, scope.roles[i]) : i \in D} = Held(scope)
  BY <1>4 DEF Held
<1>6. DOMAIN Policies(scope) = D
  BY <1>2
<1>7. D \subseteq Nat
  BY <1>1
<1> QED BY <1>3, <1>5, <1>6, <1>7

LEMMA PolicyIs ==
  ASSUME NEW scope, NEW role, HasPolicy(scope, role),
         scope.rolePolicies \in Seq(Range(scope.rolePolicies)),
         \A p \in Range(scope.rolePolicies) :
           p.scope \in DOMAIN Priority /\ AreOrganisations(p.customOrgIds)
  PROVE  /\ PolicyOf(scope, role).scope \in DOMAIN Priority
         /\ AreOrganisations(PolicyOf(scope, role).customOrgIds)
<1> DEFINE configured == {i \in DOMAIN scope.rolePolicies : scope.rolePolicies[i].role = role}
<1>1. CASE configured # {}
  <2>1. configured \in SUBSET Nat
    OBVIOUS
  <2>2. First(configured) \in DOMAIN scope.rolePolicies
    BY <1>1, <2>1, FirstIs
  <2> QED BY <1>1, <2>2 DEF PolicyOf, Range
<1>2. CASE configured = {}
  <2>1. AreOrganisations({})
    BY FS_EmptySet DEF AreOrganisations
  <2>2. PolicyOf(scope, role) =
          [role |-> role, customOrgIds |-> {},
           scope |-> IF role = "SUPER_ADMIN" THEN "TENANT_ALL" ELSE "DEPT_AND_CHILDREN"]
    BY <1>2 DEF PolicyOf
  <2> QED BY <2>1, <2>2, PriorityIs
<1> QED BY <1>1, <1>2

\* The strongest policy is one of the highest priority.
LEMMA DecisionIs ==
  ASSUME NEW c, Wellformed(c)
  PROVE  LET scope == c.orgScope
             strongest == Strongest(Policies(scope))
         IN  /\ Held(scope) = {} => strongest = [scope |-> "SELF", customOrgIds |-> {}]
             /\ Held(scope) # {} =>
                  /\ strongest \in Held(scope)
                  /\ \A p \in Held(scope) : Priority[p.scope] <= Priority[strongest.scope]
             /\ strongest.scope \in DOMAIN Priority /\ AreOrganisations(strongest.customOrgIds)
<1> DEFINE scope == c.orgScope
           strongest == Strongest(Policies(scope))
<1>1. /\ scope.roles \in Seq(STRING)
      /\ \A p \in Held(scope) : p.scope \in DOMAIN Priority /\ AreOrganisations(p.customOrgIds)
  BY PolicyIs DEF Wellformed, Held
<1>2. DOMAIN Policies(scope) \subseteq Nat /\ Range(Policies(scope)) = Held(scope)
  BY <1>1, PoliciesAre
<1>3. \A i \in DOMAIN Policies(scope) : Policies(scope)[i] \in Held(scope)
  BY <1>2 DEF Range
<1>4. CASE DOMAIN Policies(scope) = {}
  <2>1. strongest = [scope |-> "SELF", customOrgIds |-> {}]
    BY <1>4 DEF Strongest
  <2>2. Held(scope) = {}
    BY <1>2, <1>4 DEF Range
  <2>3. AreOrganisations({})
    BY FS_EmptySet DEF AreOrganisations
  <2> QED BY <2>1, <2>2, <2>3, PriorityIs
<1>5. CASE DOMAIN Policies(scope) # {}
  <2>1. PICK i \in DOMAIN Policies(scope) :
           /\ strongest = Policies(scope)[i]
           /\ \A j \in DOMAIN Policies(scope) :
                Priority[Policies(scope)[j].scope] <= Priority[Policies(scope)[i].scope]
    BY <1>1, <1>2, <1>3, <1>5, StrongestIs
  <2>2. strongest \in Held(scope)
    BY <1>3, <2>1
  <2>3. ASSUME NEW p \in Held(scope) PROVE Priority[p.scope] <= Priority[strongest.scope]
    <3>1. PICK j \in DOMAIN Policies(scope) : p = Policies(scope)[j]
      BY <1>2 DEF Range
    <3> QED BY <2>1, <3>1
  <2> QED BY <1>1, <2>2, <2>3
<1> QED BY <1>4, <1>5

LEMMA Reordered ==
  ASSUME NEW c, Wellformed(c), NEW r \in [DOMAIN c.orgScope.roles -> Range(c.orgScope.roles)],
         Range(r) = Range(c.orgScope.roles)
  PROVE  LET other == ResolveDataScope([c.orgScope EXCEPT !.roles = r])
             decision == ResolveDataScope(c.orgScope)
         IN  /\ other.scope = decision.scope
             /\ decision.scope # "CUSTOM_ORG_SET" => other = decision
<1> DEFINE scope == c.orgScope
           changed == [scope EXCEPT !.roles = r]
           s == Strongest(Policies(scope))
           t == Strongest(Policies(changed))
<1>1. DOMAIN scope = {"roles", "rolePolicies", "userOrgIds", "orgNodes"}
  BY DEF Wellformed
<1>2. /\ changed.roles = r /\ changed.rolePolicies = scope.rolePolicies
      /\ changed.userOrgIds = scope.userOrgIds /\ changed.orgNodes = scope.orgNodes
      /\ DOMAIN changed = DOMAIN scope
  BY <1>1
<1> HIDE DEF changed
<1>3. r \in Seq(STRING)
  <2>1. scope.roles \in Seq(STRING)
    BY DEF Wellformed
  <2>2. /\ Len(scope.roles) \in Nat /\ DOMAIN scope.roles = 1 .. Len(scope.roles)
        /\ \A i \in DOMAIN scope.roles : scope.roles[i] \in STRING
    BY <2>1
  <2>3. Range(scope.roles) \subseteq STRING
    BY <2>2 DEF Range
  <2>4. r \in [1 .. Len(scope.roles) -> STRING]
    BY <2>2, <2>3
  <2> QED BY <2>2, <2>4
<1>4. Held(changed) = Held(scope)
  BY <1>2 DEF Held, HasPolicy, PolicyOf
<1> DEFINE e == [tenantId |-> c.tenantId, userId |-> c.userId, orgScope |-> changed]
<1>5. Wellformed(e)
  BY <1>1, <1>2, <1>3 DEF Wellformed
<1>6. /\ Held(scope) = {} => s.scope = "SELF" /\ t.scope = "SELF"
      /\ Held(scope) # {} =>
           Priority[t.scope] <= Priority[s.scope] /\ Priority[s.scope] <= Priority[t.scope]
      /\ s.scope \in DOMAIN Priority /\ t.scope \in DOMAIN Priority
  <2>1. e.orgScope = changed
    OBVIOUS
  <2> HIDE DEF e
  <2> QED BY <1>4, <1>5, <2>1, DecisionIs
<1>7. s.scope = t.scope
  <2> HIDE DEF s, t
  <2> QED BY <1>6, PriorityIs
<1>8. Expand(changed) = Expand(scope)
  BY <1>2 DEF Expand
<1> HIDE DEF s, t
<1>9. \A sc, st : 
        (sc \in {scope, changed} /\ st = Strongest(Policies(sc)) /\ st.scope \in DOMAIN Priority) =>
          ResolveDataScope(sc) = [scope |-> st.scope,
             allowedOrgIds |-> CASE st.scope = "CUSTOM_ORG_SET" -> st.customOrgIds
                                 [] st.scope = "DEPT" -> scope.userOrgIds
                                 [] st.scope = "DEPT_AND_CHILDREN" -> Expand(scope)
                                 [] st.scope \in {"SELF", "TENANT_ALL"} -> {}]
  BY <1>2, <1>8, PriorityIs DEF ResolveDataScope
<1> QED BY <1>6, <1>7, <1>9 DEF s, t, changed

----------------------------------------------------------------------------
(* The tree of organisations.                                              *)

\* A beginning, in letters.
Begins(p, q) == Len(p) <= Len(q) /\ \A i \in 1 .. Len(p) : p[i] = q[i]

LEMMA PrefixIs ==
  ASSUME NEW S, NEW T, NEW p \in Seq(S), NEW q \in Seq(T)
  PROVE  IsPrefix(p, q) <=> Begins(p, q)
<1>1. /\ Len(p) \in Nat /\ DOMAIN p = 1 .. Len(p) /\ p = [i \in 1 .. Len(p) |-> p[i]]
      /\ Len(q) \in Nat /\ DOMAIN q = 1 .. Len(q)
  OBVIOUS
<1>2. CASE Len(p) <= Len(q)
  <2>1. SubSeq(q, 1, Len(p)) = [i \in 1 .. Len(p) |-> q[i]]
    BY <1>1, <1>2
  <2>2. IsPrefix(p, q) <=> SubSeq(p, 1, Len(p)) = SubSeq(q, 1, Len(p))
    BY <1>2 DEF IsPrefix
  <2>3. SubSeq(p, 1, Len(p)) = p
    BY <1>1
  <2> QED BY <1>1, <1>2, <2>1, <2>2, <2>3 DEF Begins
<1>3. CASE ~(Len(p) <= Len(q))
  BY <1>3 DEF IsPrefix, Begins
<1> QED BY <1>2, <1>3

LEMMA PathBelowIs ==
  ASSUME NEW p, p # << >>, p \in Seq(Range(p))
  PROVE  LET b == PathBelow(p)
         IN  /\ b \in Seq(Range(p) \cup {"/"}) /\ Len(b) \in Nat
             /\ Len(p) \in Nat /\ Len(p) > 0 /\ Len(p) <= Len(b) /\ Len(b) <= Len(p) + 1
             /\ b[Len(b)] = "/" /\ Begins(p, b)
<1>1. /\ Len(p) \in Nat /\ Len(p) > 0 /\ p = [i \in 1 .. Len(p) |-> p[i]]
      /\ \A i \in 1 .. Len(p) : p[i] \in Range(p)
  BY DEF Range
<1>2. CASE Last(p) = "/"
  <2>1. PathBelow(p) = p
    BY <1>2 DEF PathBelow
  <2> QED BY <1>1, <1>2, <2>1 DEF Last, Begins
<1>3. CASE Last(p) # "/"
  <2>1. PathBelow(p) = Append(p, "/")
    BY <1>3 DEF PathBelow
  <2> QED BY <1>1, <2>1 DEF Begins
<1> QED BY <1>2, <1>3

\* An organisation whose path begins with that of another, and a slash, is
\* the other or has a parent of which the same holds.
LEMMA ParentIsBelow ==
  ASSUME NEW nodes, Spelled(nodes), NEW b \in nodes, NEW m \in nodes, m # b,
         IsPrefix(PathBelow(b.path), m.path)
  PROVE  \E n \in nodes : /\ m.parentId = n.id /\ Len(n.path) < Len(m.path)
                          /\ n = b \/ IsPrefix(PathBelow(b.path), n.path)
<1>1. PICK n \in nodes : m.parentId = n.id
  BY DEF Spelled
<1> DEFINE p == PathBelow(b.path)
           q == PathBelow(n.path)
<1>2. /\ p \in Seq(Range(b.path) \cup {"/"}) /\ Len(p) \in Nat /\ Len(p) > 0 /\ p[Len(p)] = "/"
      /\ q \in Seq(Range(n.path) \cup {"/"}) /\ Len(q) \in Nat /\ q[Len(q)] = "/"
      /\ m.path \in Seq(Range(m.path)) /\ Len(m.path) \in Nat
      /\ n.path \in Seq(Range(n.path)) /\ Len(n.path) \in Nat
      /\ Len(n.path) <= Len(q) /\ Len(q) <= Len(n.path) + 1 /\ Begins(n.path, q)
  <2>1. \A k \in {b, n, m} : k.path # << >> /\ k.path \in Seq(Range(k.path))
    BY DEF Spelled
  <2>2. Len(m.path) \in Nat
    BY <2>1
  <2>3. /\ p \in Seq(Range(b.path) \cup {"/"}) /\ Len(p) \in Nat /\ p[Len(p)] = "/"
        /\ Len(b.path) \in Nat /\ Len(b.path) > 0 /\ Len(b.path) <= Len(p)
    BY <2>1, PathBelowIs
  <2>4. Len(p) > 0
    BY <2>3
  <2>5. /\ q \in Seq(Range(n.path) \cup {"/"}) /\ Len(q) \in Nat /\ q[Len(q)] = "/"
        /\ Len(n.path) \in Nat
        /\ Len(n.path) <= Len(q) /\ Len(q) <= Len(n.path) + 1 /\ Begins(n.path, q)
    BY <2>1, PathBelowIs
  <2> QED BY <2>1, <2>2, <2>3, <2>4, <2>5
<1>3. /\ Begins(p, m.path) /\ Begins(q, m.path) /\ Len(q) < Len(m.path)
      /\ \A i \in Len(q) + 1 .. Len(m.path) : m.path[i] # "/"
  <2>1. /\ IsPrefix(q, m.path) /\ Len(q) < Len(m.path)
        /\ \A i \in Len(q) + 1 .. Len(m.path) : m.path[i] # "/"
    BY <1>1 DEF Spelled
  <2> QED BY <1>2, <2>1, PrefixIs
<1>4. Len(n.path) < Len(m.path)
  BY <1>2, <1>3
<1> HIDE DEF p, q
<1>5. Len(p) <= Len(q)
  <2>1. SUFFICES ASSUME Len(q) + 1 <= Len(p) PROVE FALSE
    BY <1>2
  <2>2. m.path[Len(p)] = "/" /\ Len(p) <= Len(m.path)
    <3>1. Len(p) \in 1 .. Len(p)
      BY <1>2
    <3> QED BY <1>2, <1>3, <3>1 DEF Begins
  <2> QED BY <1>2, <1>3, <2>1, <2>2
<1>6. CASE Len(p) <= Len(n.path)
  <2>1. Begins(p, n.path)
    <3>1. ASSUME NEW i \in 1 .. Len(p) PROVE p[i] = n.path[i]
      <4>1. p[i] = m.path[i] /\ q[i] = m.path[i] /\ n.path[i] = q[i]
        BY <1>2, <1>3, <1>5, <1>6 DEF Begins
      <4> QED BY <4>1
    <3> QED BY <1>6, <3>1 DEF Begins
  <2>2. IsPrefix(p, n.path)
    BY <1>2, <2>1, PrefixIs
  <2> QED BY <1>1, <1>4, <2>2 DEF p
<1>7. CASE Len(p) > Len(n.path)
  <2>1. Len(p) = Len(q)
    BY <1>2, <1>5, <1>7
  <2>2. \A i \in 1 .. Len(p) : p[i] = q[i]
    BY <1>2, <1>3, <2>1 DEF Begins
  <2>3. p = q
    BY <1>2, <2>1, <2>2
  <2>4. n = b
    BY <2>3 DEF Spelled, p, q
  <2> QED BY <1>1, <1>4, <2>4
<1> QED BY <1>2, <1>6, <1>7

LEMMA ChildIsBelow ==
  ASSUME NEW nodes, Spelled(nodes), NEW b \in nodes, NEW n \in nodes, NEW m \in nodes,
         m.parentId = n.id, n = b \/ IsPrefix(PathBelow(b.path), n.path)
  PROVE  IsPrefix(PathBelow(b.path), m.path)
<1>1. IsPrefix(PathBelow(n.path), m.path)
  BY DEF Spelled
<1>2. CASE n = b
  BY <1>1, <1>2
<1>3. CASE IsPrefix(PathBelow(b.path), n.path)
  <2> DEFINE p == PathBelow(b.path)
             q == PathBelow(n.path)
  <2>1. /\ p \in Seq(Range(b.path) \cup {"/"}) /\ Len(p) \in Nat
        /\ q \in Seq(Range(n.path) \cup {"/"}) /\ Len(q) \in Nat
        /\ m.path \in Seq(Range(m.path)) /\ Len(m.path) \in Nat
        /\ n.path \in Seq(Range(n.path)) /\ Len(n.path) \in Nat
        /\ Len(n.path) <= Len(q) /\ Begins(n.path, q)
    BY PathBelowIs DEF Spelled
  <2> HIDE DEF p, q
  <2>2. Begins(p, n.path) /\ Begins(q, m.path)
    BY <1>1, <1>3, <2>1, PrefixIs DEF p, q
  <2>3. Begins(p, m.path)
    <3>1. ASSUME NEW i \in 1 .. Len(p) PROVE p[i] = m.path[i]
      BY <2>1, <2>2 DEF Begins
    <3> QED BY <2>1, <2>2, <3>1 DEF Begins
  <2> QED BY <2>1, <2>3, PrefixIs DEF p
<1> QED BY <1>2, <1>3

\* By path or by parent, the same organisations.
LEMMA ExpandIsBelow ==
  ASSUME NEW scope, Spelled(scope.orgNodes)
  PROVE  Expand(scope) = Below(scope)
<1> DEFINE nodes == scope.orgNodes
           base == {n \in nodes : n.id \in scope.userOrgIds}
           children == Children(nodes)
           seeds == scope.userOrgIds \cap DOMAIN children
           found == {m \in nodes : \E b \in base : m = b \/ IsPrefix(PathBelow(b.path), m.path)}
           ids == {m.id : m \in found}
<1>1. /\ DOMAIN children = {m.id : m \in nodes}
      /\ \A n \in DOMAIN children : children[n] = {m.id : m \in {k \in nodes : k.parentId = n}}
  BY DEF Children
<1>2. \A n, m \in nodes : n.id = m.id \/ n.path = m.path => n = m
  BY DEF Spelled
<1>3. Expand(scope) = scope.userOrgIds \cup ids
  <2>1. \A b \in base, m \in nodes : m.path = b.path <=> m = b
    BY <1>2
  <2>2. Expand(scope) = scope.userOrgIds \cup
          {n.id : n \in {m \in nodes : \E b \in base : m.path = b.path \/ IsPrefix(PathBelow(b.path), m.path)}}
    BY DEF Expand
  <2> QED BY <2>1, <2>2
<1> HIDE DEF children
<1>4. ids \subseteq DependencyClosure(children, seeds)
  <2>1. SUFFICES ASSUME NEW S \in SUBSET DOMAIN children, seeds \subseteq S, ClosedUnder(children, S)
                 PROVE  \A m \in found : m.id \in S
    <3>1. ids \subseteq DOMAIN children
      BY <1>1
    <3> QED BY <2>1, <3>1 DEF DependencyClosure
  <2> DEFINE missed == {m \in found : m.id \notin S}
             lengths == {Len(m.path) : m \in missed}
  <2>2. SUFFICES ASSUME missed # {} PROVE FALSE
    OBVIOUS
  <2>3. lengths # {} /\ lengths \in SUBSET Nat
    <3>1. \A m \in nodes : m.path \in Seq(Range(m.path))
      BY DEF Spelled
    <3>2. \A m \in nodes : Len(m.path) \in Nat
      BY <3>1
    <3> QED BY <2>2, <3>2
  <2>4. PICK l \in lengths : \A k \in lengths : l <= k
    BY <2>3, LeastNumber
  <2>5. PICK m \in missed : l = Len(m.path)
    BY <2>4
  <2>6. PICK b \in base : m = b \/ IsPrefix(PathBelow(b.path), m.path)
    BY <2>5
  <2>7. CASE m = b
    <3>1. m.id \in seeds
      BY <1>1, <2>6, <2>7
    <3> QED BY <2>1, <2>5, <3>1
  <2>8. CASE m # b
    <3>1. PICK n \in nodes : /\ m.parentId = n.id /\ Len(n.path) < Len(m.path)
                             /\ n = b \/ IsPrefix(PathBelow(b.path), n.path)
      BY <2>5, <2>6, <2>8, ParentIsBelow
    <3>2. n \in found
      BY <3>1, <2>6
    <3>3. n.id \in S
      <4>1. SUFFICES ASSUME n \in missed PROVE FALSE
        BY <3>2
      <4>2. Len(n.path) \in lengths /\ Len(n.path) \in Nat /\ l \in Nat
        BY <2>3, <2>4, <4>1
      <4> QED BY <2>4, <2>5, <3>1, <4>2
    <3>4. m.id \in children[n.id] /\ n.id \in DOMAIN children
      BY <1>1, <2>5, <3>1
    <3> QED BY <2>1, <2>5, <3>3, <3>4 DEF ClosedUnder
  <2> QED BY <2>7, <2>8
<1>5. DependencyClosure(children, seeds) \subseteq ids
  <2>1. ids \in SUBSET DOMAIN children /\ seeds \subseteq ids
    BY <1>1
  <2>2. ASSUME NEW x \in ids PROVE children[x] \subseteq ids
    <3>1. PICK n \in found : x = n.id
      OBVIOUS
    <3>2. PICK b \in base : n = b \/ IsPrefix(PathBelow(b.path), n.path)
      OBVIOUS
    <3>3. ASSUME NEW m \in nodes, m.parentId = x PROVE m \in found
      BY <3>1, <3>2, <3>3, ChildIsBelow
    <3> QED BY <1>1, <2>1, <3>3
  <2>3. ClosedUnder(children, ids)
    BY <2>2 DEF ClosedUnder
  <2> QED BY <2>1, <2>3 DEF DependencyClosure
<1> QED BY <1>3, <1>4, <1>5 DEF Below, children

----------------------------------------------------------------------------
(* Sequences.                                                              *)

LEMMA SetToSeqIs ==
  ASSUME NEW S, IsFiniteSet(S)
  PROVE  SetToSeq(S) \in Seq(S) /\ Range(SetToSeq(S)) = S
<1> DEFINE n == Cardinality(S)
           s == SetToSeq(S)
<1>1. n \in Nat /\ \E f \in [1 .. n -> S] : IsInjective(f)
  BY FS_CardinalityType DEF ExistsBijection, Bijection, Injection
<1>2. s \in [1 .. n -> S] /\ IsInjective(s)
  BY <1>1 DEF SetToSeq
<1>3. s \in Injection(1 .. n, S)
  BY <1>2 DEF Injection
<1>4. Cardinality(1 .. n) = n
  BY <1>1, FS_Interval
<1>5. s \in Surjection(1 .. n, S)
  <2> HIDE DEF s, n
  <2>1. Cardinality(S) = n
    BY DEF n
  <2> QED BY <1>3, <1>4, <2>1, FS_Injection
<1>6. Range(s) = S
  <2> HIDE DEF s, n
  <2> QED BY <1>2, <1>5 DEF Surjection, Range
<1> QED BY <1>1, <1>2, <1>6

IsSeq(s) == s \in Seq(Range(s))

LEMMA SeqIs ==
  ASSUME NEW S, NEW s \in Seq(S)
  PROVE  IsSeq(s)
BY DEF IsSeq, Range

LEMMA ConcatIs ==
  ASSUME NEW s, NEW t, IsSeq(s), IsSeq(t)
  PROVE  /\ IsSeq(s \o t)
         /\ Len(s) \in Nat /\ Len(t) \in Nat /\ Len(s \o t) = Len(s) + Len(t)
         /\ \A i \in 1 .. Len(s) : (s \o t)[i] = s[i]
         /\ \A i \in 1 .. Len(t) : (s \o t)[Len(s) + i] = t[i]
         /\ DOMAIN t = 1 .. Len(t)
<1>1. s \in Seq(Range(s) \cup Range(t)) /\ t \in Seq(Range(s) \cup Range(t))
  BY DEF IsSeq, Range
<1>2. s \o t \in Seq(Range(s) \cup Range(t))
  BY <1>1
<1>3. IsSeq(s \o t)
  BY <1>2, SeqIs
<1> QED BY <1>1, <1>3

----------------------------------------------------------------------------
(* Texts.                                                                  *)

\* Units joined by AND or OR.
Joined(operator, us, n) ==
  IF operator = "or" THEN [i \in 1 .. n |-> <<us[i]>>] ELSE <<[i \in 1 .. n |-> us[i]]>>

LEMMA JoinedIs ==
  ASSUME NEW operator, NEW us, NEW n \in Nat, n > 0
  PROVE  /\ Joined(operator, us, 1) = <<<<us[1]>>>>
         /\ JoinTexts(operator, Joined(operator, us, n), <<<<us[n + 1]>>>>) = Joined(operator, us, n + 1)
<1> DEFINE u == us[n + 1]
<1>0. Joined(operator, us, 1) = <<<<us[1]>>>>
  <2>1. [i \in 1 .. 1 |-> <<us[i]>>] = <<<<us[1]>>>> /\ [i \in 1 .. 1 |-> us[i]] = <<us[1]>>
    OBVIOUS
  <2> QED BY <2>1 DEF Joined
<1>1. CASE operator = "or"
  <2> DEFINE s == [i \in 1 .. n |-> <<us[i]>>]
             t == [i \in 1 .. n + 1 |-> <<us[i]>>]
  <2>1. IsSeq(s) /\ Len(s) = n
    BY DEF IsSeq, Range
  <2>2. IsSeq(<<<<u>>>>)
    BY DEF IsSeq, Range
  <2> HIDE DEF s, u
  <2>3. /\ IsSeq(s \o <<<<u>>>>) /\ Len(s \o <<<<u>>>>) = n + 1
        /\ \A i \in 1 .. n : (s \o <<<<u>>>>)[i] = s[i]
        /\ (s \o <<<<u>>>>)[n + 1] = <<u>>
    BY <2>1, <2>2, ConcatIs
  <2>4. s \o <<<<u>>>> = t
    <3>1. \A i \in 1 .. n + 1 : (s \o <<<<u>>>>)[i] = t[i]
      BY <2>3 DEF s, u
    <3> HIDE DEF t
    <3>2. t = [i \in 1 .. n + 1 |-> t[i]]
      BY DEF t
    <3>3. s \o <<<<u>>>> = [i \in 1 .. n + 1 |-> (s \o <<<<u>>>>)[i]]
      BY <2>3 DEF IsSeq
    <3> QED BY <3>1, <3>2, <3>3
  <2> QED BY <1>0, <1>1, <2>4 DEF Joined, JoinTexts, s, u
<1>2. CASE operator # "or"
  <2> DEFINE s == [i \in 1 .. n |-> us[i]]
             t == [i \in 1 .. n + 1 |-> us[i]]
  <2>1. IsSeq(s) /\ Len(s) = n
    BY DEF IsSeq, Range
  <2>2. IsSeq(<<u>>)
    BY DEF IsSeq, Range
  <2> HIDE DEF s, u
  <2>3. /\ IsSeq(s \o <<u>>) /\ Len(s \o <<u>>) = n + 1
        /\ \A i \in 1 .. n : (s \o <<u>>)[i] = s[i]
        /\ (s \o <<u>>)[n + 1] = u
    BY <2>1, <2>2, ConcatIs
  <2>4. s \o <<u>> = t
    <3>1. \A i \in 1 .. n + 1 : (s \o <<u>>)[i] = t[i]
      BY <2>3 DEF s, u
    <3> HIDE DEF t
    <3>2. t = [i \in 1 .. n + 1 |-> t[i]]
      BY DEF t
    <3>3. s \o <<u>> = [i \in 1 .. n + 1 |-> (s \o <<u>>)[i]]
      BY <2>3 DEF IsSeq
    <3> QED BY <3>1, <3>2, <3>3
  <2>5. And(<<s>>, <<<<u>>>>) = <<s \o <<u>>>>
    <3>1. /\ Front(<<s>>) = << >> /\ Last(<<s>>) = s
          /\ Head(<<<<u>>>>) = <<u>> /\ Tail(<<<<u>>>>) = << >>
      BY DEF Front, Last
    <3> DEFINE v == s \o <<u>>
    <3> HIDE DEF v
    <3>2. << >> \o <<v>> \o << >> = <<v>>
      OBVIOUS
    <3> QED BY <3>1, <3>2 DEF And, v
  <2>6. Joined(operator, us, n) = <<s>> /\ Joined(operator, us, n + 1) = <<t>>
    BY <1>2 DEF Joined, s
  <2>7. JoinTexts(operator, <<s>>, <<<<u>>>>) = <<t>>
    BY <1>2, <2>4, <2>5 DEF JoinTexts
  <2> QED BY <1>0, <2>6, <2>7 DEF u
<1> QED BY <1>1, <1>2

----------------------------------------------------------------------------
(* What a compiled text is true of.                                        *)

UnitBy(Inside(_, _, _), u, given, row) ==
  IF u.operator = "()" THEN Inside(u.text, given, row) ELSE IsTrue(u, given, row)

\* A compiled predicate is one unit, true of the rows of V wherever its
\* parameters come after those given.
MeansBy(Inside(_, _, _), c, given, V) ==
  /\ IsSeq(c.params) /\ Begins(given, c.params)
  /\ \E u : /\ c.text = <<<<u>>>>
            /\ \A all : IsSeq(all) /\ Begins(c.params, all) =>
                 \A row \in Table : UnitBy(Inside, u, all, row) <=> row \in V

\* So says each level of the compiler.
Is0(p, V) == \A given : IsSeq(given) => MeansBy(NoText, CompileCondition(p, given), given, V)
Is1(p, V) == \A given : IsSeq(given) => MeansBy(Holds1, Compile1(p, given), given, V)
Is2(p, V) == \A given : IsSeq(given) => MeansBy(Holds2, Compile2(p, given), given, V)
Is3(p, V) == \A given : IsSeq(given) => MeansBy(Holds3, Compile3(p, given), given, V)

\* The rows of all of the sets, or of any.
Combined(operator, V, n) ==
  {row \in Table : IF operator = "or" THEN \E i \in 1 .. n : row \in V[i]
                                      ELSE \A i \in 1 .. n : row \in V[i]}

\* The provers take no lemma about an operator: each level of the compiler has
\* its own, with the same proof.

LEMMA BeginsTransitive ==
  ASSUME NEW p, NEW q, NEW r, IsSeq(p), IsSeq(q), IsSeq(r), Begins(p, q), Begins(q, r)
  PROVE  Begins(p, r)
<1>1. Len(p) \in Nat /\ Len(q) \in Nat /\ Len(r) \in Nat
  BY DEF IsSeq
<1> QED BY <1>1 DEF Begins

LEMMA ConditionsTogether ==
  ASSUME NEW p, NEW given, IsSeq(given), p.type = "logical", NEW n \in Nat, n = Len(p.predicates), n > 0,
         NEW V, \A i \in 1 .. n : Is0(p.predicates[i], V[i])
  PROVE  \E us, after :
           /\ IsSeq(after) /\ Begins(given, after)
           /\ Compile1(p, given) = [text |-> <<<<[operator |-> "()", text |-> Joined(p.operator, us, n)]>>>>, params |-> after]
           /\ \A i \in 1 .. n : \A all : IsSeq(all) /\ Begins(after, all) =>
                \A row \in Table : UnitBy(NoText, us[i], all, row) <=> row \in V[i]
<1> DEFINE Child(i, before) == CompileCondition(p.predicates[i], before)
           Step(i, before) ==
             [text |-> IF i = 1 THEN Child(i, before.params).text
                       ELSE JoinTexts(p.operator, before.text, Child(i, before.params).text),
              params |-> Child(i, before.params).params]
           start == [text |-> << >>, params |-> given]
           Good(f, m) == f = [i \in 0 .. m |-> IF i = 0 THEN start ELSE Step(i, f[i - 1])]
<1>1. \A m \in Nat : \E f : Good(f, m)
  <2> DEFINE S == {m \in Nat : \E f : Good(f, m)}
  <2>1. 0 \in S
    <3> DEFINE f == [i \in 0 .. 0 |-> start]
    <3>1. Good(f, 0)
      OBVIOUS
    <3> QED BY <3>1
  <2>2. ASSUME NEW m \in Nat, m \in S PROVE m + 1 \in S
    <3>1. PICK f : Good(f, m)
      BY <2>2
    <3> DEFINE g == [i \in 0 .. m + 1 |-> IF i = m + 1 THEN Step(i, f[m]) ELSE f[i]]
    <3> HIDE DEF Step, start
    <3>2. ASSUME NEW i \in 0 .. m + 1 PROVE g[i] = IF i = 0 THEN start ELSE Step(i, g[i - 1])
      <4>1. CASE i = m + 1
        <5>1. i # 0 /\ i - 1 = m /\ g[i] = Step(i, f[m]) /\ g[m] = f[m]
          BY <4>1
        <5> QED BY <5>1
      <4>2. CASE i \in 0 .. m
        <5>1. f[i] = IF i = 0 THEN start ELSE Step(i, f[i - 1])
          BY <3>1, <4>2
        <5>2. g[i] = f[i] /\ (i # 0 => g[i - 1] = f[i - 1])
          BY <4>2
        <5> QED BY <5>1, <5>2
      <4> QED BY <4>1, <4>2
    <3>3. g = [i \in 0 .. m + 1 |-> g[i]]
      OBVIOUS
    <3> HIDE DEF g
    <3>4. Good(g, m + 1)
      BY <3>2, <3>3
    <3> QED BY <3>4
  <2> HIDE DEF S
  <2>3. Nat \subseteq S
    BY <2>1, <2>2, EveryNumber
  <2> QED BY <2>3 DEF S
<1>2. PICK f : /\ Good(f, n)
               /\ Compile1(p, given) = [text |-> <<<<[operator |-> "()", text |-> f[n].text]>>>>, params |-> f[n].params]
  <2>1. \E f : Good(f, n)
    BY <1>1
  <2> QED BY <2>1 DEF Compile1, CompileBy, Parenthesize
<1> HIDE DEF Child
<1>3. /\ f[0].params = given
      /\ \A i \in Nat : i < n =>
           /\ f[i + 1].params = Child(i + 1, f[i].params).params
           /\ f[i + 1].text = IF i = 0 THEN Child(i + 1, f[i].params).text
                              ELSE JoinTexts(p.operator, f[i].text, Child(i + 1, f[i].params).text)
  <2>1. f[0] = start
    BY <1>2
  <2>2. ASSUME NEW i \in Nat, i < n PROVE f[i + 1] = Step(i + 1, f[i])
    <3> DEFINE k == i + 1
    <3>1. k \in 0 .. n /\ k # 0 /\ k - 1 = i
      BY <2>2
    <3> HIDE DEF k, Step
    <3>2. f[k] = Step(k, f[k - 1])
      BY <1>2, <3>1
    <3> QED BY <3>1, <3>2 DEF k
  <2>3. ASSUME NEW i \in Nat, i < n
        PROVE  /\ f[i + 1].params = Child(i + 1, f[i].params).params
               /\ f[i + 1].text = IF i = 0 THEN Child(i + 1, f[i].params).text
                                  ELSE JoinTexts(p.operator, f[i].text, Child(i + 1, f[i].params).text)
    <3>1. i + 1 = 1 <=> i = 0
      OBVIOUS
    <3>2. /\ Step(i + 1, f[i]).params = Child(i + 1, f[i].params).params
          /\ Step(i + 1, f[i]).text =
               IF i + 1 = 1 THEN Child(i + 1, f[i].params).text
               ELSE JoinTexts(p.operator, f[i].text, Child(i + 1, f[i].params).text)
      OBVIOUS
    <3>3. f[i + 1] = Step(i + 1, f[i])
      BY <2>2, <2>3
    <3> HIDE DEF Step
    <3> QED BY <3>1, <3>2, <3>3
  <2>4. f[0].params = given
    BY <2>1
  <2> HIDE DEF Good
  <2> QED BY <2>3, <2>4
<1>4. \A i \in 1 .. n : \A before : IsSeq(before) => MeansBy(NoText, Child(i, before), before, V[i])
  BY DEF Child, Is0
<1> DEFINE us == [i \in 1 .. n |-> Child(i, f[i - 1].params).text[1][1]]
           Fine(i) == /\ IsSeq(f[i].params)
                      /\ \A j \in 0 .. i : IsSeq(f[j].params) /\ Begins(f[j].params, f[i].params)
                      /\ i > 0 => f[i].text = Joined(p.operator, us, i)
           S == {i \in Nat : i <= n => Fine(i)}
<1>5. 0 \in S
  BY <1>3 DEF Begins
<1>6. ASSUME NEW i \in Nat, i \in S PROVE i + 1 \in S
  <2>1. SUFFICES ASSUME i < n PROVE Fine(i + 1)
    OBVIOUS
  <2>2. Fine(i)
    BY <1>6, <2>1
  <2>3. MeansBy(NoText, Child(i + 1, f[i].params), f[i].params, V[i + 1])
    BY <1>4, <2>1, <2>2
  <2>4. IsSeq(f[i + 1].params) /\ Begins(f[i].params, f[i + 1].params)
    BY <1>3, <2>1, <2>3 DEF MeansBy
  <2>5. Child(i + 1, f[i].params).text = <<<<us[i + 1]>>>>
    <3>1. PICK u : Child(i + 1, f[i].params).text = <<<<u>>>>
      BY <2>3 DEF MeansBy
    <3>2. us[i + 1] = u
      <4>1. i + 1 \in 1 .. n /\ (i + 1) - 1 = i
        BY <2>1
      <4> QED BY <3>1, <4>1
    <3> QED BY <3>1, <3>2
  <2> HIDE DEF us
  <2>6. f[i + 1].text = Joined(p.operator, us, i + 1)
    <3>1. CASE i = 0
      <4>1. f[i + 1].text = <<<<us[i + 1]>>>> /\ i + 1 = 1
        BY <1>3, <2>1, <2>5, <3>1
      <4>2. Joined(p.operator, us, 1) = <<<<us[1]>>>>
        BY JoinedIs
      <4> QED BY <4>1, <4>2
    <3>2. CASE i > 0
      <4>1. f[i].text = Joined(p.operator, us, i)
        BY <2>2, <3>2
      <4>2. f[i + 1].text = JoinTexts(p.operator, Joined(p.operator, us, i), <<<<us[i + 1]>>>>)
        <5>1. f[i + 1].text = JoinTexts(p.operator, f[i].text, Child(i + 1, f[i].params).text)
          BY <1>3, <2>1, <3>2
        <5> QED BY <2>5, <4>1, <5>1
      <4> QED BY <3>2, <4>2, JoinedIs
    <3> QED BY <3>1, <3>2
  <2>7. ASSUME NEW j \in 0 .. i + 1
        PROVE  IsSeq(f[j].params) /\ Begins(f[j].params, f[i + 1].params)
    <3>1. CASE j = i + 1
      <4>1. Len(f[i + 1].params) \in Nat
        BY <2>4 DEF IsSeq
      <4> QED BY <2>4, <3>1, <4>1 DEF Begins
    <3>2. CASE j \in 0 .. i
      <4>1. IsSeq(f[j].params) /\ Begins(f[j].params, f[i].params) /\ IsSeq(f[i].params)
        BY <2>2, <3>2
      <4> QED BY <2>4, <4>1, BeginsTransitive
    <3> QED BY <3>1, <3>2
  <2> QED BY <2>4, <2>6, <2>7
<1> HIDE DEF us
<1>7. Fine(n)
  <2> HIDE DEF S
  <2>1. Nat \subseteq S
    BY <1>5, <1>6, EveryNumber
  <2> QED BY <2>1 DEF S
<1>8. ASSUME NEW i \in 1 .. n, NEW all, IsSeq(all), Begins(f[n].params, all)
      PROVE  \A row \in Table : UnitBy(NoText, us[i], all, row) <=> row \in V[i]
  <2> DEFINE c == Child(i, f[i - 1].params)
  <2>1. i - 1 \in Nat /\ i - 1 < n /\ (i - 1) + 1 = i /\ i \in 0 .. n /\ i - 1 \in 0 .. n
    OBVIOUS
  <2>2. IsSeq(f[i - 1].params) /\ IsSeq(f[i].params) /\ IsSeq(f[n].params)
        /\ Begins(f[i].params, f[n].params)
    BY <1>7, <2>1
  <2>3. c.params = f[i].params
    <3>1. f[(i - 1) + 1].params = Child((i - 1) + 1, f[i - 1].params).params
      BY <1>3, <2>1
    <3> QED BY <2>1, <3>1
  <2>4. Begins(c.params, all)
    BY <1>8, <2>2, <2>3, BeginsTransitive
  <2>5. PICK u : /\ c.text = <<<<u>>>>
                 /\ \A row \in Table : UnitBy(NoText, u, all, row) <=> row \in V[i]
    <3>1. MeansBy(NoText, c, f[i - 1].params, V[i])
      BY <1>4, <2>2
    <3> HIDE DEF c
    <3> QED BY <1>8, <2>4, <3>1 DEF MeansBy
  <2>6. us[i] = u
    BY <2>5 DEF us
  <2> QED BY <2>5, <2>6
<1>9. /\ IsSeq(f[n].params) /\ Begins(given, f[n].params)
      /\ f[n].text = Joined(p.operator, us, n)
  BY <1>3, <1>7
<1> HIDE DEF Good, Fine, S
<1> QED BY <1>2, <1>8, <1>9

\* One level of AND or OR.
LEMMA FirstLevelMeans ==
  ASSUME NEW p, p.type = "logical", NEW n \in Nat, n = Len(p.predicates), n > 0,
         NEW V, \A i \in 1 .. n : Is0(p.predicates[i], V[i])
  PROVE  Is1(p, Combined(p.operator, V, n))
<1> SUFFICES ASSUME NEW given, IsSeq(given)
             PROVE  MeansBy(Holds1, Compile1(p, given), given, Combined(p.operator, V, n))
  BY DEF Is1
<1>1. PICK us, after :
        /\ IsSeq(after) /\ Begins(given, after)
        /\ Compile1(p, given) =
             [text |-> <<<<[operator |-> "()", text |-> Joined(p.operator, us, n)]>>>>,
              params |-> after]
        /\ \A i \in 1 .. n : \A all : IsSeq(all) /\ Begins(after, all) =>
             \A row \in Table : UnitBy(NoText, us[i], all, row) <=> row \in V[i]
  BY ConditionsTogether
<1> DEFINE u == [operator |-> "()", text |-> Joined(p.operator, us, n)]
<1>2. Compile1(p, given).text = <<<<u>>>> /\ Compile1(p, given).params = after
  BY <1>1
<1>3. ASSUME NEW all, IsSeq(all), Begins(after, all), NEW row \in Table
      PROVE  UnitBy(Holds1, u, all, row) <=> row \in Combined(p.operator, V, n)
  <2>1. UnitBy(Holds1, u, all, row) <=> Holds1(Joined(p.operator, us, n), all, row)
    BY DEF UnitBy
  <2>2. Holds1(Joined(p.operator, us, n), all, row) <=>
          IF p.operator = "or" THEN \E i \in 1 .. n : UnitBy(NoText, us[i], all, row)
                               ELSE \A i \in 1 .. n : UnitBy(NoText, us[i], all, row)
    <3> DEFINE joint == Joined(p.operator, us, n)
    <3>1. Holds1(joint, all, row) <=>
            \E i \in DOMAIN joint : \A j \in DOMAIN joint[i] : UnitBy(NoText, joint[i][j], all, row)
      BY DEF Holds1, HoldsBy, UnitBy
    <3>2. CASE p.operator = "or"
      <4>1. joint = [i \in 1 .. n |-> <<us[i]>>]
        BY <3>2 DEF Joined
      <4>2. /\ DOMAIN joint = 1 .. n
            /\ \A i \in 1 .. n : DOMAIN joint[i] = {1} /\ joint[i][1] = us[i]
        BY <4>1
      <4> HIDE DEF joint
      <4>3. Holds1(joint, all, row) <=> \E i \in 1 .. n : UnitBy(NoText, us[i], all, row)
        BY <3>1, <4>2
      <4> QED BY <3>2, <4>3 DEF joint
    <3>3. CASE p.operator # "or"
      <4>1. joint = <<[i \in 1 .. n |-> us[i]]>>
        BY <3>3 DEF Joined
      <4>2. /\ DOMAIN joint = {1} /\ DOMAIN joint[1] = 1 .. n
            /\ \A i \in 1 .. n : joint[1][i] = us[i]
        BY <4>1
      <4> HIDE DEF joint
      <4>3. Holds1(joint, all, row) <=> \A i \in 1 .. n : UnitBy(NoText, us[i], all, row)
        BY <3>1, <4>2
      <4> QED BY <3>3, <4>3 DEF joint
    <3> QED BY <3>2, <3>3
  <2>3. \A i \in 1 .. n : UnitBy(NoText, us[i], all, row) <=> row \in V[i]
    BY <1>1, <1>3
  <2> QED BY <2>1, <2>2, <2>3 DEF Combined
<1> QED BY <1>1, <1>2, <1>3 DEF MeansBy

LEMMA FirstLevelTogether ==
  ASSUME NEW p, NEW given, IsSeq(given), p.type = "logical", NEW n \in Nat, n = Len(p.predicates), n > 0,
         NEW V, \A i \in 1 .. n : Is1(p.predicates[i], V[i])
  PROVE  \E us, after :
           /\ IsSeq(after) /\ Begins(given, after)
           /\ Compile2(p, given) = [text |-> <<<<[operator |-> "()", text |-> Joined(p.operator, us, n)]>>>>, params |-> after]
           /\ \A i \in 1 .. n : \A all : IsSeq(all) /\ Begins(after, all) =>
                \A row \in Table : UnitBy(Holds1, us[i], all, row) <=> row \in V[i]
<1> DEFINE Child(i, before) == Compile1(p.predicates[i], before)
           Step(i, before) ==
             [text |-> IF i = 1 THEN Child(i, before.params).text
                       ELSE JoinTexts(p.operator, before.text, Child(i, before.params).text),
              params |-> Child(i, before.params).params]
           start == [text |-> << >>, params |-> given]
           Good(f, m) == f = [i \in 0 .. m |-> IF i = 0 THEN start ELSE Step(i, f[i - 1])]
<1>1. \A m \in Nat : \E f : Good(f, m)
  <2> DEFINE S == {m \in Nat : \E f : Good(f, m)}
  <2>1. 0 \in S
    <3> DEFINE f == [i \in 0 .. 0 |-> start]
    <3>1. Good(f, 0)
      OBVIOUS
    <3> QED BY <3>1
  <2>2. ASSUME NEW m \in Nat, m \in S PROVE m + 1 \in S
    <3>1. PICK f : Good(f, m)
      BY <2>2
    <3> DEFINE g == [i \in 0 .. m + 1 |-> IF i = m + 1 THEN Step(i, f[m]) ELSE f[i]]
    <3> HIDE DEF Step, start
    <3>2. ASSUME NEW i \in 0 .. m + 1 PROVE g[i] = IF i = 0 THEN start ELSE Step(i, g[i - 1])
      <4>1. CASE i = m + 1
        <5>1. i # 0 /\ i - 1 = m /\ g[i] = Step(i, f[m]) /\ g[m] = f[m]
          BY <4>1
        <5> QED BY <5>1
      <4>2. CASE i \in 0 .. m
        <5>1. f[i] = IF i = 0 THEN start ELSE Step(i, f[i - 1])
          BY <3>1, <4>2
        <5>2. g[i] = f[i] /\ (i # 0 => g[i - 1] = f[i - 1])
          BY <4>2
        <5> QED BY <5>1, <5>2
      <4> QED BY <4>1, <4>2
    <3>3. g = [i \in 0 .. m + 1 |-> g[i]]
      OBVIOUS
    <3> HIDE DEF g
    <3>4. Good(g, m + 1)
      BY <3>2, <3>3
    <3> QED BY <3>4
  <2> HIDE DEF S
  <2>3. Nat \subseteq S
    BY <2>1, <2>2, EveryNumber
  <2> QED BY <2>3 DEF S
<1>2. PICK f : /\ Good(f, n)
               /\ Compile2(p, given) = [text |-> <<<<[operator |-> "()", text |-> f[n].text]>>>>, params |-> f[n].params]
  <2>1. \E f : Good(f, n)
    BY <1>1
  <2> QED BY <2>1 DEF Compile2, CompileBy, Parenthesize
<1> HIDE DEF Child
<1>3. /\ f[0].params = given
      /\ \A i \in Nat : i < n =>
           /\ f[i + 1].params = Child(i + 1, f[i].params).params
           /\ f[i + 1].text = IF i = 0 THEN Child(i + 1, f[i].params).text
                              ELSE JoinTexts(p.operator, f[i].text, Child(i + 1, f[i].params).text)
  <2>1. f[0] = start
    BY <1>2
  <2>2. ASSUME NEW i \in Nat, i < n PROVE f[i + 1] = Step(i + 1, f[i])
    <3> DEFINE k == i + 1
    <3>1. k \in 0 .. n /\ k # 0 /\ k - 1 = i
      BY <2>2
    <3> HIDE DEF k, Step
    <3>2. f[k] = Step(k, f[k - 1])
      BY <1>2, <3>1
    <3> QED BY <3>1, <3>2 DEF k
  <2>3. ASSUME NEW i \in Nat, i < n
        PROVE  /\ f[i + 1].params = Child(i + 1, f[i].params).params
               /\ f[i + 1].text = IF i = 0 THEN Child(i + 1, f[i].params).text
                                  ELSE JoinTexts(p.operator, f[i].text, Child(i + 1, f[i].params).text)
    <3>1. i + 1 = 1 <=> i = 0
      OBVIOUS
    <3>2. /\ Step(i + 1, f[i]).params = Child(i + 1, f[i].params).params
          /\ Step(i + 1, f[i]).text =
               IF i + 1 = 1 THEN Child(i + 1, f[i].params).text
               ELSE JoinTexts(p.operator, f[i].text, Child(i + 1, f[i].params).text)
      OBVIOUS
    <3>3. f[i + 1] = Step(i + 1, f[i])
      BY <2>2, <2>3
    <3> HIDE DEF Step
    <3> QED BY <3>1, <3>2, <3>3
  <2>4. f[0].params = given
    BY <2>1
  <2> HIDE DEF Good
  <2> QED BY <2>3, <2>4
<1>4. \A i \in 1 .. n : \A before : IsSeq(before) => MeansBy(Holds1, Child(i, before), before, V[i])
  BY DEF Child, Is1
<1> DEFINE us == [i \in 1 .. n |-> Child(i, f[i - 1].params).text[1][1]]
           Fine(i) == /\ IsSeq(f[i].params)
                      /\ \A j \in 0 .. i : IsSeq(f[j].params) /\ Begins(f[j].params, f[i].params)
                      /\ i > 0 => f[i].text = Joined(p.operator, us, i)
           S == {i \in Nat : i <= n => Fine(i)}
<1>5. 0 \in S
  BY <1>3 DEF Begins
<1>6. ASSUME NEW i \in Nat, i \in S PROVE i + 1 \in S
  <2>1. SUFFICES ASSUME i < n PROVE Fine(i + 1)
    OBVIOUS
  <2>2. Fine(i)
    BY <1>6, <2>1
  <2>3. MeansBy(Holds1, Child(i + 1, f[i].params), f[i].params, V[i + 1])
    BY <1>4, <2>1, <2>2
  <2>4. IsSeq(f[i + 1].params) /\ Begins(f[i].params, f[i + 1].params)
    BY <1>3, <2>1, <2>3 DEF MeansBy
  <2>5. Child(i + 1, f[i].params).text = <<<<us[i + 1]>>>>
    <3>1. PICK u : Child(i + 1, f[i].params).text = <<<<u>>>>
      BY <2>3 DEF MeansBy
    <3>2. us[i + 1] = u
      <4>1. i + 1 \in 1 .. n /\ (i + 1) - 1 = i
        BY <2>1
      <4> QED BY <3>1, <4>1
    <3> QED BY <3>1, <3>2
  <2> HIDE DEF us
  <2>6. f[i + 1].text = Joined(p.operator, us, i + 1)
    <3>1. CASE i = 0
      <4>1. f[i + 1].text = <<<<us[i + 1]>>>> /\ i + 1 = 1
        BY <1>3, <2>1, <2>5, <3>1
      <4>2. Joined(p.operator, us, 1) = <<<<us[1]>>>>
        BY JoinedIs
      <4> QED BY <4>1, <4>2
    <3>2. CASE i > 0
      <4>1. f[i].text = Joined(p.operator, us, i)
        BY <2>2, <3>2
      <4>2. f[i + 1].text = JoinTexts(p.operator, Joined(p.operator, us, i), <<<<us[i + 1]>>>>)
        <5>1. f[i + 1].text = JoinTexts(p.operator, f[i].text, Child(i + 1, f[i].params).text)
          BY <1>3, <2>1, <3>2
        <5> QED BY <2>5, <4>1, <5>1
      <4> QED BY <3>2, <4>2, JoinedIs
    <3> QED BY <3>1, <3>2
  <2>7. ASSUME NEW j \in 0 .. i + 1
        PROVE  IsSeq(f[j].params) /\ Begins(f[j].params, f[i + 1].params)
    <3>1. CASE j = i + 1
      <4>1. Len(f[i + 1].params) \in Nat
        BY <2>4 DEF IsSeq
      <4> QED BY <2>4, <3>1, <4>1 DEF Begins
    <3>2. CASE j \in 0 .. i
      <4>1. IsSeq(f[j].params) /\ Begins(f[j].params, f[i].params) /\ IsSeq(f[i].params)
        BY <2>2, <3>2
      <4> QED BY <2>4, <4>1, BeginsTransitive
    <3> QED BY <3>1, <3>2
  <2> QED BY <2>4, <2>6, <2>7
<1> HIDE DEF us
<1>7. Fine(n)
  <2> HIDE DEF S
  <2>1. Nat \subseteq S
    BY <1>5, <1>6, EveryNumber
  <2> QED BY <2>1 DEF S
<1>8. ASSUME NEW i \in 1 .. n, NEW all, IsSeq(all), Begins(f[n].params, all)
      PROVE  \A row \in Table : UnitBy(Holds1, us[i], all, row) <=> row \in V[i]
  <2> DEFINE c == Child(i, f[i - 1].params)
  <2>1. i - 1 \in Nat /\ i - 1 < n /\ (i - 1) + 1 = i /\ i \in 0 .. n /\ i - 1 \in 0 .. n
    OBVIOUS
  <2>2. IsSeq(f[i - 1].params) /\ IsSeq(f[i].params) /\ IsSeq(f[n].params)
        /\ Begins(f[i].params, f[n].params)
    BY <1>7, <2>1
  <2>3. c.params = f[i].params
    <3>1. f[(i - 1) + 1].params = Child((i - 1) + 1, f[i - 1].params).params
      BY <1>3, <2>1
    <3> QED BY <2>1, <3>1
  <2>4. Begins(c.params, all)
    BY <1>8, <2>2, <2>3, BeginsTransitive
  <2>5. PICK u : /\ c.text = <<<<u>>>>
                 /\ \A row \in Table : UnitBy(Holds1, u, all, row) <=> row \in V[i]
    <3>1. MeansBy(Holds1, c, f[i - 1].params, V[i])
      BY <1>4, <2>2
    <3> HIDE DEF c
    <3> QED BY <1>8, <2>4, <3>1 DEF MeansBy
  <2>6. us[i] = u
    BY <2>5 DEF us
  <2> QED BY <2>5, <2>6
<1>9. /\ IsSeq(f[n].params) /\ Begins(given, f[n].params)
      /\ f[n].text = Joined(p.operator, us, n)
  BY <1>3, <1>7
<1> HIDE DEF Good, Fine, S
<1> QED BY <1>2, <1>8, <1>9

\* One level of AND or OR.
LEMMA SecondLevelMeans ==
  ASSUME NEW p, p.type = "logical", NEW n \in Nat, n = Len(p.predicates), n > 0,
         NEW V, \A i \in 1 .. n : Is1(p.predicates[i], V[i])
  PROVE  Is2(p, Combined(p.operator, V, n))
<1> SUFFICES ASSUME NEW given, IsSeq(given)
             PROVE  MeansBy(Holds2, Compile2(p, given), given, Combined(p.operator, V, n))
  BY DEF Is2
<1>1. PICK us, after :
        /\ IsSeq(after) /\ Begins(given, after)
        /\ Compile2(p, given) =
             [text |-> <<<<[operator |-> "()", text |-> Joined(p.operator, us, n)]>>>>,
              params |-> after]
        /\ \A i \in 1 .. n : \A all : IsSeq(all) /\ Begins(after, all) =>
             \A row \in Table : UnitBy(Holds1, us[i], all, row) <=> row \in V[i]
  BY FirstLevelTogether
<1> DEFINE u == [operator |-> "()", text |-> Joined(p.operator, us, n)]
<1>2. Compile2(p, given).text = <<<<u>>>> /\ Compile2(p, given).params = after
  BY <1>1
<1>3. ASSUME NEW all, IsSeq(all), Begins(after, all), NEW row \in Table
      PROVE  UnitBy(Holds2, u, all, row) <=> row \in Combined(p.operator, V, n)
  <2>1. UnitBy(Holds2, u, all, row) <=> Holds2(Joined(p.operator, us, n), all, row)
    BY DEF UnitBy
  <2>2. Holds2(Joined(p.operator, us, n), all, row) <=>
          IF p.operator = "or" THEN \E i \in 1 .. n : UnitBy(Holds1, us[i], all, row)
                               ELSE \A i \in 1 .. n : UnitBy(Holds1, us[i], all, row)
    <3> DEFINE joint == Joined(p.operator, us, n)
    <3>1. Holds2(joint, all, row) <=>
            \E i \in DOMAIN joint : \A j \in DOMAIN joint[i] : UnitBy(Holds1, joint[i][j], all, row)
      BY DEF Holds2, HoldsBy, UnitBy
    <3>2. CASE p.operator = "or"
      <4>1. joint = [i \in 1 .. n |-> <<us[i]>>]
        BY <3>2 DEF Joined
      <4>2. /\ DOMAIN joint = 1 .. n
            /\ \A i \in 1 .. n : DOMAIN joint[i] = {1} /\ joint[i][1] = us[i]
        BY <4>1
      <4> HIDE DEF joint
      <4>3. Holds2(joint, all, row) <=> \E i \in 1 .. n : UnitBy(Holds1, us[i], all, row)
        BY <3>1, <4>2
      <4> QED BY <3>2, <4>3 DEF joint
    <3>3. CASE p.operator # "or"
      <4>1. joint = <<[i \in 1 .. n |-> us[i]]>>
        BY <3>3 DEF Joined
      <4>2. /\ DOMAIN joint = {1} /\ DOMAIN joint[1] = 1 .. n
            /\ \A i \in 1 .. n : joint[1][i] = us[i]
        BY <4>1
      <4> HIDE DEF joint
      <4>3. Holds2(joint, all, row) <=> \A i \in 1 .. n : UnitBy(Holds1, us[i], all, row)
        BY <3>1, <4>2
      <4> QED BY <3>3, <4>3 DEF joint
    <3> QED BY <3>2, <3>3
  <2>3. \A i \in 1 .. n : UnitBy(Holds1, us[i], all, row) <=> row \in V[i]
    BY <1>1, <1>3
  <2> QED BY <2>1, <2>2, <2>3 DEF Combined
<1> QED BY <1>1, <1>2, <1>3 DEF MeansBy

LEMMA SecondLevelTogether ==
  ASSUME NEW p, NEW given, IsSeq(given), p.type = "logical", NEW n \in Nat, n = Len(p.predicates), n > 0,
         NEW V, \A i \in 1 .. n : Is2(p.predicates[i], V[i])
  PROVE  \E us, after :
           /\ IsSeq(after) /\ Begins(given, after)
           /\ Compile3(p, given) = [text |-> <<<<[operator |-> "()", text |-> Joined(p.operator, us, n)]>>>>, params |-> after]
           /\ \A i \in 1 .. n : \A all : IsSeq(all) /\ Begins(after, all) =>
                \A row \in Table : UnitBy(Holds2, us[i], all, row) <=> row \in V[i]
<1> DEFINE Child(i, before) == Compile2(p.predicates[i], before)
           Step(i, before) ==
             [text |-> IF i = 1 THEN Child(i, before.params).text
                       ELSE JoinTexts(p.operator, before.text, Child(i, before.params).text),
              params |-> Child(i, before.params).params]
           start == [text |-> << >>, params |-> given]
           Good(f, m) == f = [i \in 0 .. m |-> IF i = 0 THEN start ELSE Step(i, f[i - 1])]
<1>1. \A m \in Nat : \E f : Good(f, m)
  <2> DEFINE S == {m \in Nat : \E f : Good(f, m)}
  <2>1. 0 \in S
    <3> DEFINE f == [i \in 0 .. 0 |-> start]
    <3>1. Good(f, 0)
      OBVIOUS
    <3> QED BY <3>1
  <2>2. ASSUME NEW m \in Nat, m \in S PROVE m + 1 \in S
    <3>1. PICK f : Good(f, m)
      BY <2>2
    <3> DEFINE g == [i \in 0 .. m + 1 |-> IF i = m + 1 THEN Step(i, f[m]) ELSE f[i]]
    <3> HIDE DEF Step, start
    <3>2. ASSUME NEW i \in 0 .. m + 1 PROVE g[i] = IF i = 0 THEN start ELSE Step(i, g[i - 1])
      <4>1. CASE i = m + 1
        <5>1. i # 0 /\ i - 1 = m /\ g[i] = Step(i, f[m]) /\ g[m] = f[m]
          BY <4>1
        <5> QED BY <5>1
      <4>2. CASE i \in 0 .. m
        <5>1. f[i] = IF i = 0 THEN start ELSE Step(i, f[i - 1])
          BY <3>1, <4>2
        <5>2. g[i] = f[i] /\ (i # 0 => g[i - 1] = f[i - 1])
          BY <4>2
        <5> QED BY <5>1, <5>2
      <4> QED BY <4>1, <4>2
    <3>3. g = [i \in 0 .. m + 1 |-> g[i]]
      OBVIOUS
    <3> HIDE DEF g
    <3>4. Good(g, m + 1)
      BY <3>2, <3>3
    <3> QED BY <3>4
  <2> HIDE DEF S
  <2>3. Nat \subseteq S
    BY <2>1, <2>2, EveryNumber
  <2> QED BY <2>3 DEF S
<1>2. PICK f : /\ Good(f, n)
               /\ Compile3(p, given) = [text |-> <<<<[operator |-> "()", text |-> f[n].text]>>>>, params |-> f[n].params]
  <2>1. \E f : Good(f, n)
    BY <1>1
  <2> QED BY <2>1 DEF Compile3, CompileBy, Parenthesize
<1> HIDE DEF Child
<1>3. /\ f[0].params = given
      /\ \A i \in Nat : i < n =>
           /\ f[i + 1].params = Child(i + 1, f[i].params).params
           /\ f[i + 1].text = IF i = 0 THEN Child(i + 1, f[i].params).text
                              ELSE JoinTexts(p.operator, f[i].text, Child(i + 1, f[i].params).text)
  <2>1. f[0] = start
    BY <1>2
  <2>2. ASSUME NEW i \in Nat, i < n PROVE f[i + 1] = Step(i + 1, f[i])
    <3> DEFINE k == i + 1
    <3>1. k \in 0 .. n /\ k # 0 /\ k - 1 = i
      BY <2>2
    <3> HIDE DEF k, Step
    <3>2. f[k] = Step(k, f[k - 1])
      BY <1>2, <3>1
    <3> QED BY <3>1, <3>2 DEF k
  <2>3. ASSUME NEW i \in Nat, i < n
        PROVE  /\ f[i + 1].params = Child(i + 1, f[i].params).params
               /\ f[i + 1].text = IF i = 0 THEN Child(i + 1, f[i].params).text
                                  ELSE JoinTexts(p.operator, f[i].text, Child(i + 1, f[i].params).text)
    <3>1. i + 1 = 1 <=> i = 0
      OBVIOUS
    <3>2. /\ Step(i + 1, f[i]).params = Child(i + 1, f[i].params).params
          /\ Step(i + 1, f[i]).text =
               IF i + 1 = 1 THEN Child(i + 1, f[i].params).text
               ELSE JoinTexts(p.operator, f[i].text, Child(i + 1, f[i].params).text)
      OBVIOUS
    <3>3. f[i + 1] = Step(i + 1, f[i])
      BY <2>2, <2>3
    <3> HIDE DEF Step
    <3> QED BY <3>1, <3>2, <3>3
  <2>4. f[0].params = given
    BY <2>1
  <2> HIDE DEF Good
  <2> QED BY <2>3, <2>4
<1>4. \A i \in 1 .. n : \A before : IsSeq(before) => MeansBy(Holds2, Child(i, before), before, V[i])
  BY DEF Child, Is2
<1> DEFINE us == [i \in 1 .. n |-> Child(i, f[i - 1].params).text[1][1]]
           Fine(i) == /\ IsSeq(f[i].params)
                      /\ \A j \in 0 .. i : IsSeq(f[j].params) /\ Begins(f[j].params, f[i].params)
                      /\ i > 0 => f[i].text = Joined(p.operator, us, i)
           S == {i \in Nat : i <= n => Fine(i)}
<1>5. 0 \in S
  BY <1>3 DEF Begins
<1>6. ASSUME NEW i \in Nat, i \in S PROVE i + 1 \in S
  <2>1. SUFFICES ASSUME i < n PROVE Fine(i + 1)
    OBVIOUS
  <2>2. Fine(i)
    BY <1>6, <2>1
  <2>3. MeansBy(Holds2, Child(i + 1, f[i].params), f[i].params, V[i + 1])
    BY <1>4, <2>1, <2>2
  <2>4. IsSeq(f[i + 1].params) /\ Begins(f[i].params, f[i + 1].params)
    BY <1>3, <2>1, <2>3 DEF MeansBy
  <2>5. Child(i + 1, f[i].params).text = <<<<us[i + 1]>>>>
    <3>1. PICK u : Child(i + 1, f[i].params).text = <<<<u>>>>
      BY <2>3 DEF MeansBy
    <3>2. us[i + 1] = u
      <4>1. i + 1 \in 1 .. n /\ (i + 1) - 1 = i
        BY <2>1
      <4> QED BY <3>1, <4>1
    <3> QED BY <3>1, <3>2
  <2> HIDE DEF us
  <2>6. f[i + 1].text = Joined(p.operator, us, i + 1)
    <3>1. CASE i = 0
      <4>1. f[i + 1].text = <<<<us[i + 1]>>>> /\ i + 1 = 1
        BY <1>3, <2>1, <2>5, <3>1
      <4>2. Joined(p.operator, us, 1) = <<<<us[1]>>>>
        BY JoinedIs
      <4> QED BY <4>1, <4>2
    <3>2. CASE i > 0
      <4>1. f[i].text = Joined(p.operator, us, i)
        BY <2>2, <3>2
      <4>2. f[i + 1].text = JoinTexts(p.operator, Joined(p.operator, us, i), <<<<us[i + 1]>>>>)
        <5>1. f[i + 1].text = JoinTexts(p.operator, f[i].text, Child(i + 1, f[i].params).text)
          BY <1>3, <2>1, <3>2
        <5> QED BY <2>5, <4>1, <5>1
      <4> QED BY <3>2, <4>2, JoinedIs
    <3> QED BY <3>1, <3>2
  <2>7. ASSUME NEW j \in 0 .. i + 1
        PROVE  IsSeq(f[j].params) /\ Begins(f[j].params, f[i + 1].params)
    <3>1. CASE j = i + 1
      <4>1. Len(f[i + 1].params) \in Nat
        BY <2>4 DEF IsSeq
      <4> QED BY <2>4, <3>1, <4>1 DEF Begins
    <3>2. CASE j \in 0 .. i
      <4>1. IsSeq(f[j].params) /\ Begins(f[j].params, f[i].params) /\ IsSeq(f[i].params)
        BY <2>2, <3>2
      <4> QED BY <2>4, <4>1, BeginsTransitive
    <3> QED BY <3>1, <3>2
  <2> QED BY <2>4, <2>6, <2>7
<1> HIDE DEF us
<1>7. Fine(n)
  <2> HIDE DEF S
  <2>1. Nat \subseteq S
    BY <1>5, <1>6, EveryNumber
  <2> QED BY <2>1 DEF S
<1>8. ASSUME NEW i \in 1 .. n, NEW all, IsSeq(all), Begins(f[n].params, all)
      PROVE  \A row \in Table : UnitBy(Holds2, us[i], all, row) <=> row \in V[i]
  <2> DEFINE c == Child(i, f[i - 1].params)
  <2>1. i - 1 \in Nat /\ i - 1 < n /\ (i - 1) + 1 = i /\ i \in 0 .. n /\ i - 1 \in 0 .. n
    OBVIOUS
  <2>2. IsSeq(f[i - 1].params) /\ IsSeq(f[i].params) /\ IsSeq(f[n].params)
        /\ Begins(f[i].params, f[n].params)
    BY <1>7, <2>1
  <2>3. c.params = f[i].params
    <3>1. f[(i - 1) + 1].params = Child((i - 1) + 1, f[i - 1].params).params
      BY <1>3, <2>1
    <3> QED BY <2>1, <3>1
  <2>4. Begins(c.params, all)
    BY <1>8, <2>2, <2>3, BeginsTransitive
  <2>5. PICK u : /\ c.text = <<<<u>>>>
                 /\ \A row \in Table : UnitBy(Holds2, u, all, row) <=> row \in V[i]
    <3>1. MeansBy(Holds2, c, f[i - 1].params, V[i])
      BY <1>4, <2>2
    <3> HIDE DEF c
    <3> QED BY <1>8, <2>4, <3>1 DEF MeansBy
  <2>6. us[i] = u
    BY <2>5 DEF us
  <2> QED BY <2>5, <2>6
<1>9. /\ IsSeq(f[n].params) /\ Begins(given, f[n].params)
      /\ f[n].text = Joined(p.operator, us, n)
  BY <1>3, <1>7
<1> HIDE DEF Good, Fine, S
<1> QED BY <1>2, <1>8, <1>9

\* One level of AND or OR.
LEMMA ThirdLevelMeans ==
  ASSUME NEW p, p.type = "logical", NEW n \in Nat, n = Len(p.predicates), n > 0,
         NEW V, \A i \in 1 .. n : Is2(p.predicates[i], V[i])
  PROVE  Is3(p, Combined(p.operator, V, n))
<1> SUFFICES ASSUME NEW given, IsSeq(given)
             PROVE  MeansBy(Holds3, Compile3(p, given), given, Combined(p.operator, V, n))
  BY DEF Is3
<1>1. PICK us, after :
        /\ IsSeq(after) /\ Begins(given, after)
        /\ Compile3(p, given) =
             [text |-> <<<<[operator |-> "()", text |-> Joined(p.operator, us, n)]>>>>,
              params |-> after]
        /\ \A i \in 1 .. n : \A all : IsSeq(all) /\ Begins(after, all) =>
             \A row \in Table : UnitBy(Holds2, us[i], all, row) <=> row \in V[i]
  BY SecondLevelTogether
<1> DEFINE u == [operator |-> "()", text |-> Joined(p.operator, us, n)]
<1>2. Compile3(p, given).text = <<<<u>>>> /\ Compile3(p, given).params = after
  BY <1>1
<1>3. ASSUME NEW all, IsSeq(all), Begins(after, all), NEW row \in Table
      PROVE  UnitBy(Holds3, u, all, row) <=> row \in Combined(p.operator, V, n)
  <2>1. UnitBy(Holds3, u, all, row) <=> Holds3(Joined(p.operator, us, n), all, row)
    BY DEF UnitBy
  <2>2. Holds3(Joined(p.operator, us, n), all, row) <=>
          IF p.operator = "or" THEN \E i \in 1 .. n : UnitBy(Holds2, us[i], all, row)
                               ELSE \A i \in 1 .. n : UnitBy(Holds2, us[i], all, row)
    <3> DEFINE joint == Joined(p.operator, us, n)
    <3>1. Holds3(joint, all, row) <=>
            \E i \in DOMAIN joint : \A j \in DOMAIN joint[i] : UnitBy(Holds2, joint[i][j], all, row)
      BY DEF Holds3, HoldsBy, UnitBy
    <3>2. CASE p.operator = "or"
      <4>1. joint = [i \in 1 .. n |-> <<us[i]>>]
        BY <3>2 DEF Joined
      <4>2. /\ DOMAIN joint = 1 .. n
            /\ \A i \in 1 .. n : DOMAIN joint[i] = {1} /\ joint[i][1] = us[i]
        BY <4>1
      <4> HIDE DEF joint
      <4>3. Holds3(joint, all, row) <=> \E i \in 1 .. n : UnitBy(Holds2, us[i], all, row)
        BY <3>1, <4>2
      <4> QED BY <3>2, <4>3 DEF joint
    <3>3. CASE p.operator # "or"
      <4>1. joint = <<[i \in 1 .. n |-> us[i]]>>
        BY <3>3 DEF Joined
      <4>2. /\ DOMAIN joint = {1} /\ DOMAIN joint[1] = 1 .. n
            /\ \A i \in 1 .. n : joint[1][i] = us[i]
        BY <4>1
      <4> HIDE DEF joint
      <4>3. Holds3(joint, all, row) <=> \A i \in 1 .. n : UnitBy(Holds2, us[i], all, row)
        BY <3>1, <4>2
      <4> QED BY <3>3, <4>3 DEF joint
    <3> QED BY <3>2, <3>3
  <2>3. \A i \in 1 .. n : UnitBy(Holds2, us[i], all, row) <=> row \in V[i]
    BY <1>1, <1>3
  <2> QED BY <2>1, <2>2, <2>3 DEF Combined
<1> QED BY <1>1, <1>2, <1>3 DEF MeansBy

LEMMA ThirdLevelTogether ==
  ASSUME NEW p, p.type = "logical", NEW n \in Nat, n = Len(p.predicates), n > 0,
         NEW V, \A i \in 1 .. n : Is3(p.predicates[i], V[i])
  PROVE  \E us, after :
           /\ IsSeq(after) /\ Begins(<< >>, after)
           /\ Compile(p) = [text |-> Joined(p.operator, us, n), params |-> after]
           /\ \A i \in 1 .. n : \A all : IsSeq(all) /\ Begins(after, all) =>
                \A row \in Table : UnitBy(Holds3, us[i], all, row) <=> row \in V[i]
<1> DEFINE Child(i, before) == Compile3(p.predicates[i], before)
           Step(i, before) ==
             [text |-> IF i = 1 THEN Child(i, before.params).text
                       ELSE JoinTexts(p.operator, before.text, Child(i, before.params).text),
              params |-> Child(i, before.params).params]
           start == [text |-> << >>, params |-> << >>]
           Good(f, m) == f = [i \in 0 .. m |-> IF i = 0 THEN start ELSE Step(i, f[i - 1])]
<1>1. \A m \in Nat : \E f : Good(f, m)
  <2> DEFINE S == {m \in Nat : \E f : Good(f, m)}
  <2>1. 0 \in S
    <3> DEFINE f == [i \in 0 .. 0 |-> start]
    <3>1. Good(f, 0)
      OBVIOUS
    <3> QED BY <3>1
  <2>2. ASSUME NEW m \in Nat, m \in S PROVE m + 1 \in S
    <3>1. PICK f : Good(f, m)
      BY <2>2
    <3> DEFINE g == [i \in 0 .. m + 1 |-> IF i = m + 1 THEN Step(i, f[m]) ELSE f[i]]
    <3> HIDE DEF Step, start
    <3>2. ASSUME NEW i \in 0 .. m + 1 PROVE g[i] = IF i = 0 THEN start ELSE Step(i, g[i - 1])
      <4>1. CASE i = m + 1
        <5>1. i # 0 /\ i - 1 = m /\ g[i] = Step(i, f[m]) /\ g[m] = f[m]
          BY <4>1
        <5> QED BY <5>1
      <4>2. CASE i \in 0 .. m
        <5>1. f[i] = IF i = 0 THEN start ELSE Step(i, f[i - 1])
          BY <3>1, <4>2
        <5>2. g[i] = f[i] /\ (i # 0 => g[i - 1] = f[i - 1])
          BY <4>2
        <5> QED BY <5>1, <5>2
      <4> QED BY <4>1, <4>2
    <3>3. g = [i \in 0 .. m + 1 |-> g[i]]
      OBVIOUS
    <3> HIDE DEF g
    <3>4. Good(g, m + 1)
      BY <3>2, <3>3
    <3> QED BY <3>4
  <2> HIDE DEF S
  <2>3. Nat \subseteq S
    BY <2>1, <2>2, EveryNumber
  <2> QED BY <2>3 DEF S
<1>2. PICK f : /\ Good(f, n)
               /\ Compile(p) = [text |-> f[n].text, params |-> f[n].params]
  <2>1. \E f : Good(f, n)
    BY <1>1
  <2> QED BY <2>1 DEF Compile, CompileBy, Parenthesize
<1> HIDE DEF Child
<1>3. /\ f[0].params = << >>
      /\ \A i \in Nat : i < n =>
           /\ f[i + 1].params = Child(i + 1, f[i].params).params
           /\ f[i + 1].text = IF i = 0 THEN Child(i + 1, f[i].params).text
                              ELSE JoinTexts(p.operator, f[i].text, Child(i + 1, f[i].params).text)
  <2>1. f[0] = start
    BY <1>2
  <2>2. ASSUME NEW i \in Nat, i < n PROVE f[i + 1] = Step(i + 1, f[i])
    <3> DEFINE k == i + 1
    <3>1. k \in 0 .. n /\ k # 0 /\ k - 1 = i
      BY <2>2
    <3> HIDE DEF k, Step
    <3>2. f[k] = Step(k, f[k - 1])
      BY <1>2, <3>1
    <3> QED BY <3>1, <3>2 DEF k
  <2>3. ASSUME NEW i \in Nat, i < n
        PROVE  /\ f[i + 1].params = Child(i + 1, f[i].params).params
               /\ f[i + 1].text = IF i = 0 THEN Child(i + 1, f[i].params).text
                                  ELSE JoinTexts(p.operator, f[i].text, Child(i + 1, f[i].params).text)
    <3>1. i + 1 = 1 <=> i = 0
      OBVIOUS
    <3>2. /\ Step(i + 1, f[i]).params = Child(i + 1, f[i].params).params
          /\ Step(i + 1, f[i]).text =
               IF i + 1 = 1 THEN Child(i + 1, f[i].params).text
               ELSE JoinTexts(p.operator, f[i].text, Child(i + 1, f[i].params).text)
      OBVIOUS
    <3>3. f[i + 1] = Step(i + 1, f[i])
      BY <2>2, <2>3
    <3> HIDE DEF Step
    <3> QED BY <3>1, <3>2, <3>3
  <2>4. f[0].params = << >>
    BY <2>1
  <2> HIDE DEF Good
  <2> QED BY <2>3, <2>4
<1>4. \A i \in 1 .. n : \A before : IsSeq(before) => MeansBy(Holds3, Child(i, before), before, V[i])
  BY DEF Child, Is3
<1> DEFINE us == [i \in 1 .. n |-> Child(i, f[i - 1].params).text[1][1]]
           Fine(i) == /\ IsSeq(f[i].params)
                      /\ \A j \in 0 .. i : IsSeq(f[j].params) /\ Begins(f[j].params, f[i].params)
                      /\ i > 0 => f[i].text = Joined(p.operator, us, i)
           S == {i \in Nat : i <= n => Fine(i)}
<1>5. 0 \in S
  <2>1. IsSeq(<< >>)
    BY DEF IsSeq
  <2> QED BY <1>3, <2>1 DEF Begins
<1>6. ASSUME NEW i \in Nat, i \in S PROVE i + 1 \in S
  <2>1. SUFFICES ASSUME i < n PROVE Fine(i + 1)
    OBVIOUS
  <2>2. Fine(i)
    BY <1>6, <2>1
  <2>3. MeansBy(Holds3, Child(i + 1, f[i].params), f[i].params, V[i + 1])
    BY <1>4, <2>1, <2>2
  <2>4. IsSeq(f[i + 1].params) /\ Begins(f[i].params, f[i + 1].params)
    BY <1>3, <2>1, <2>3 DEF MeansBy
  <2>5. Child(i + 1, f[i].params).text = <<<<us[i + 1]>>>>
    <3>1. PICK u : Child(i + 1, f[i].params).text = <<<<u>>>>
      BY <2>3 DEF MeansBy
    <3>2. us[i + 1] = u
      <4>1. i + 1 \in 1 .. n /\ (i + 1) - 1 = i
        BY <2>1
      <4> QED BY <3>1, <4>1
    <3> QED BY <3>1, <3>2
  <2> HIDE DEF us
  <2>6. f[i + 1].text = Joined(p.operator, us, i + 1)
    <3>1. CASE i = 0
      <4>1. f[i + 1].text = <<<<us[i + 1]>>>> /\ i + 1 = 1
        BY <1>3, <2>1, <2>5, <3>1
      <4>2. Joined(p.operator, us, 1) = <<<<us[1]>>>>
        BY JoinedIs
      <4> QED BY <4>1, <4>2
    <3>2. CASE i > 0
      <4>1. f[i].text = Joined(p.operator, us, i)
        BY <2>2, <3>2
      <4>2. f[i + 1].text = JoinTexts(p.operator, Joined(p.operator, us, i), <<<<us[i + 1]>>>>)
        <5>1. f[i + 1].text = JoinTexts(p.operator, f[i].text, Child(i + 1, f[i].params).text)
          BY <1>3, <2>1, <3>2
        <5> QED BY <2>5, <4>1, <5>1
      <4> QED BY <3>2, <4>2, JoinedIs
    <3> QED BY <3>1, <3>2
  <2>7. ASSUME NEW j \in 0 .. i + 1
        PROVE  IsSeq(f[j].params) /\ Begins(f[j].params, f[i + 1].params)
    <3>1. CASE j = i + 1
      <4>1. Len(f[i + 1].params) \in Nat
        BY <2>4 DEF IsSeq
      <4> QED BY <2>4, <3>1, <4>1 DEF Begins
    <3>2. CASE j \in 0 .. i
      <4>1. IsSeq(f[j].params) /\ Begins(f[j].params, f[i].params) /\ IsSeq(f[i].params)
        BY <2>2, <3>2
      <4> QED BY <2>4, <4>1, BeginsTransitive
    <3> QED BY <3>1, <3>2
  <2> QED BY <2>4, <2>6, <2>7
<1> HIDE DEF us
<1>7. Fine(n)
  <2> HIDE DEF S
  <2>1. Nat \subseteq S
    BY <1>5, <1>6, EveryNumber
  <2> QED BY <2>1 DEF S
<1>8. ASSUME NEW i \in 1 .. n, NEW all, IsSeq(all), Begins(f[n].params, all)
      PROVE  \A row \in Table : UnitBy(Holds3, us[i], all, row) <=> row \in V[i]
  <2> DEFINE c == Child(i, f[i - 1].params)
  <2>1. i - 1 \in Nat /\ i - 1 < n /\ (i - 1) + 1 = i /\ i \in 0 .. n /\ i - 1 \in 0 .. n
    OBVIOUS
  <2>2. IsSeq(f[i - 1].params) /\ IsSeq(f[i].params) /\ IsSeq(f[n].params)
        /\ Begins(f[i].params, f[n].params)
    BY <1>7, <2>1
  <2>3. c.params = f[i].params
    <3>1. f[(i - 1) + 1].params = Child((i - 1) + 1, f[i - 1].params).params
      BY <1>3, <2>1
    <3> QED BY <2>1, <3>1
  <2>4. Begins(c.params, all)
    BY <1>8, <2>2, <2>3, BeginsTransitive
  <2>5. PICK u : /\ c.text = <<<<u>>>>
                 /\ \A row \in Table : UnitBy(Holds3, u, all, row) <=> row \in V[i]
    <3>1. MeansBy(Holds3, c, f[i - 1].params, V[i])
      BY <1>4, <2>2
    <3> HIDE DEF c
    <3> QED BY <1>8, <2>4, <3>1 DEF MeansBy
  <2>6. us[i] = u
    BY <2>5 DEF us
  <2> QED BY <2>5, <2>6
<1>9. /\ IsSeq(f[n].params) /\ Begins(<< >>, f[n].params)
      /\ f[n].text = Joined(p.operator, us, n)
  BY <1>3, <1>7
<1> HIDE DEF Good, Fine, S
<1> QED BY <1>2, <1>8, <1>9

----------------------------------------------------------------------------
(* Conditions.                                                             *)

\* What a condition is true of.
Fits(operator, field, values, row) ==
  CASE operator = "FALSE" -> FALSE
    [] operator = "TRUE" -> TRUE
    [] operator = "is_null" -> row[field] = Null
    [] operator \in {"eq", "ilike", "in"} -> row[field] # Null /\ row[field] \in Range(values)

LEMMA ConditionIs ==
  ASSUME NEW operator \in {"FALSE", "TRUE", "is_null", "eq", "ilike", "in"}, NEW field,
         NEW given, IsSeq(given), NEW values, IsSeq(values)
  PROVE  LET c == Condition(operator, field, given, values)
         IN  /\ IsSeq(c.params) /\ Begins(given, c.params)
             /\ \E u : /\ c.text = <<<<u>>>> /\ u.operator # "()"
                       /\ \A all : IsSeq(all) /\ Begins(c.params, all) =>
                            \A row \in Table : IsTrue(u, all, row) <=> Fits(operator, field, values, row)
<1> DEFINE c == Condition(operator, field, given, values)
           u == [operator |-> operator, field |-> field,
                 at |-> {Len(given) + i : i \in DOMAIN values}]
           after == given \o values
<1>1. c = [text |-> <<<<u>>>>, params |-> after]
  BY DEF Condition
<1>2. /\ IsSeq(after) /\ Len(given) \in Nat /\ Len(values) \in Nat
      /\ Len(after) = Len(given) + Len(values)
      /\ \A i \in 1 .. Len(given) : after[i] = given[i]
      /\ \A i \in 1 .. Len(values) : after[Len(given) + i] = values[i]
      /\ DOMAIN values = 1 .. Len(values)
  BY ConcatIs
<1> HIDE DEF after
<1>3. Begins(given, after)
  BY <1>2 DEF Begins
<1>4. ASSUME NEW all, IsSeq(all), Begins(after, all), NEW row \in Table
      PROVE  IsTrue(u, all, row) <=> Fits(operator, field, values, row)
  <2>1. \A i \in 1 .. Len(values) : all[Len(given) + i] = values[i]
    <3>1. ASSUME NEW i \in 1 .. Len(values) PROVE all[Len(given) + i] = values[i]
      <4>1. Len(given) + i \in 1 .. Len(after)
        BY <1>2
      <4> QED BY <1>2, <1>4, <4>1 DEF Begins
    <3> QED BY <3>1
  <2>2. (\E i \in u.at : all[i] = row[field]) <=> row[field] \in Range(values)
    BY <1>2, <2>1 DEF Range
  <2>3. u.operator = operator /\ u.field = field
    OBVIOUS
  <2> HIDE DEF u
  <2>4. CASE operator \in {"eq", "ilike", "in"}
    BY <2>2, <2>3, <2>4 DEF IsTrue, Fits
  <2>5. CASE operator = "is_null"
    BY <2>3, <2>5 DEF IsTrue, Fits
  <2>6. CASE operator \in {"FALSE", "TRUE"}
    BY <2>3, <2>6 DEF IsTrue, Fits
  <2> QED BY <2>4, <2>5, <2>6
<1> HIDE DEF u
<1>5. u.operator # "()"
  BY DEF u
<1> QED BY <1>1, <1>2, <1>3, <1>4, <1>5

\* A condition means the same to every level.
IsLeaf(p, V) ==
  /\ p.type # "logical"
  /\ \A given : IsSeq(given) =>
       LET c == CompileCondition(p, given)
       IN  /\ IsSeq(c.params) /\ Begins(given, c.params)
           /\ \E u : /\ c.text = <<<<u>>>> /\ u.operator # "()"
                     /\ \A all : IsSeq(all) /\ Begins(c.params, all) =>
                          \A row \in Table : IsTrue(u, all, row) <=> row \in V

LEMMA LeafIs ==
  ASSUME NEW p, NEW V, NEW operator \in {"FALSE", "TRUE", "is_null", "eq", "ilike", "in"},
         NEW field, NEW values, IsSeq(values), p.type # "logical",
         \A given : CompileCondition(p, given) = Condition(operator, field, given, values),
         \A row \in Table : Fits(operator, field, values, row) <=> row \in V
  PROVE  IsLeaf(p, V)
<1>1. ASSUME NEW given, IsSeq(given)
      PROVE  LET c == CompileCondition(p, given)
             IN  /\ IsSeq(c.params) /\ Begins(given, c.params)
                 /\ \E u : /\ c.text = <<<<u>>>> /\ u.operator # "()"
                           /\ \A all : IsSeq(all) /\ Begins(c.params, all) =>
                                \A row \in Table : IsTrue(u, all, row) <=> row \in V
  <2> DEFINE c == Condition(operator, field, given, values)
  <2>1. CompileCondition(p, given) = c
    OBVIOUS
  <2>2. /\ IsSeq(c.params) /\ Begins(given, c.params)
        /\ \E u : /\ c.text = <<<<u>>>> /\ u.operator # "()"
                  /\ \A all : IsSeq(all) /\ Begins(c.params, all) =>
                       \A row \in Table : IsTrue(u, all, row) <=> Fits(operator, field, values, row)
    BY <1>1, ConditionIs
  <2> HIDE DEF c
  <2>3. PICK u : /\ c.text = <<<<u>>>> /\ u.operator # "()"
                 /\ \A all : IsSeq(all) /\ Begins(c.params, all) =>
                      \A row \in Table : IsTrue(u, all, row) <=> Fits(operator, field, values, row)
    BY <2>2
  <2>4. \A all : IsSeq(all) /\ Begins(c.params, all) =>
          \A row \in Table : IsTrue(u, all, row) <=> row \in V
    BY <2>3
  <2> QED BY <2>1, <2>2, <2>3, <2>4
<1> QED BY <1>1 DEF IsLeaf

LEMMA LeafMeans ==
  ASSUME NEW p, NEW V, IsLeaf(p, V)
  PROVE  Is0(p, V) /\ Is1(p, V) /\ Is2(p, V) /\ Is3(p, V)
<1>1. Is0(p, V)
  BY DEF IsLeaf, Is0, MeansBy, UnitBy
<1>2. Is1(p, V)
  BY DEF IsLeaf, Is1, MeansBy, UnitBy, Compile1, CompileBy
<1>3. Is2(p, V)
  BY DEF IsLeaf, Is2, MeansBy, UnitBy, Compile2, CompileBy
<1>4. Is3(p, V)
  BY DEF IsLeaf, Is3, MeansBy, UnitBy, Compile3, CompileBy
<1> QED BY <1>1, <1>2, <1>3, <1>4

LEMMA CompareMeans ==
  ASSUME NEW field, NEW operator \in {"eq", "ilike"}, NEW value, value # Null
  PROVE  IsLeaf(Compare(field, operator, value), {row \in Table : row[field] = value})
<1> DEFINE p == Compare(field, operator, value)
<1>1. IsSeq(<<value>>) /\ Range(<<value>>) = {value}
  BY DEF IsSeq, Range
<1>2. p.type = "comparison" /\ p.type # "logical"
      /\ \A given : CompileCondition(p, given) = Condition(operator, field, given, <<value>>)
  BY DEF Compare, CompileCondition
<1>3. \A row : Fits(operator, field, <<value>>, row) <=> row[field] = value
  BY <1>1 DEF Fits
<1> HIDE DEF p
<1> QED BY <1>1, <1>2, <1>3, LeafIs DEF p

LEMMA InMeans ==
  ASSUME NEW field, NEW values, IsSeq(values), values # << >>, Null \notin Range(values)
  PROVE  IsLeaf(In(field, values), {row \in Table : row[field] \in Range(values)})
<1> DEFINE p == In(field, values)
<1>1. p.type # "logical"
      /\ \A given : CompileCondition(p, given) = Condition("in", field, given, values)
  BY DEF In, CompileCondition
<1>2. \A row : Fits("in", field, values, row) <=> row[field] \in Range(values)
  BY DEF Fits
<1> HIDE DEF p
<1> QED BY <1>1, <1>2, LeafIs DEF p

LEMMA IsNullMeans ==
  ASSUME NEW field
  PROVE  IsLeaf(IsNull(field), {row \in Table : row[field] = Null})
<1> DEFINE p == IsNull(field)
<1>1. p.type # "logical"
      /\ \A given : CompileCondition(p, given) = Condition("is_null", field, given, << >>)
  BY DEF IsNull, CompileCondition
<1>2. \A row : Fits("is_null", field, << >>, row) <=> row[field] = Null
  BY DEF Fits
<1>3. IsSeq(<< >>)
  BY DEF IsSeq
<1> HIDE DEF p
<1> QED BY <1>1, <1>2, <1>3, LeafIs DEF p

LEMMA LiteralMeans ==
  IsLeaf(Literal(FALSE), {})
<1> DEFINE p == Literal(FALSE)
           V == {}
<1>1. p.type # "logical"
      /\ \A given : CompileCondition(p, given) = Condition("FALSE", "", given, << >>)
  BY DEF Literal, CompileCondition
<1>2. \A row \in Table : Fits("FALSE", "", << >>, row) <=> row \in V
  BY DEF Fits
<1>3. IsSeq(<< >>)
  BY DEF IsSeq
<1> HIDE DEF p, V
<1>4. IsLeaf(p, V)
  BY <1>1, <1>2, <1>3, LeafIs
<1> QED BY <1>4 DEF p, V

----------------------------------------------------------------------------
(* Predicates.                                                             *)

\* p joins a, true of A, and b, true of B.
IsPair(p, n, W, operator, a, A, b, B) ==
  /\ p = Logical(operator, <<a, b>>) /\ p.type = "logical" /\ p.operator = operator
  /\ n = Len(p.predicates) /\ n \in Nat /\ n > 0 /\ 1 .. n = {1, 2}
  /\ p.predicates[1] = a /\ p.predicates[2] = b /\ W[1] = A /\ W[2] = B
  /\ Combined(p.operator, W, n) = IF operator = "or" THEN A \cup B ELSE A \cap B

LEMMA PairIs ==
  ASSUME NEW operator, NEW a, NEW b, NEW A, NEW B, A \subseteq Table, B \subseteq Table
  PROVE  \E p, n, W : IsPair(p, n, W, operator, a, A, b, B)
<1> DEFINE p == Logical(operator, <<a, b>>)
           W == <<A, B>>
<1>1. /\ p.type = "logical" /\ p.operator = operator /\ Len(p.predicates) = 2
      /\ p.predicates[1] = a /\ p.predicates[2] = b
  BY DEF Logical
<1>2. 1 .. 2 = {1, 2} /\ W[1] = A /\ W[2] = B
  OBVIOUS
<1> HIDE DEF p, W
<1>3. Combined(p.operator, W, 2) = IF operator = "or" THEN A \cup B ELSE A \cap B
  BY <1>1, <1>2 DEF Combined
<1>4. PICK n : n = Len(p.predicates) /\ n \in Nat /\ n > 0 /\ n = 2
  BY <1>1
<1>5. IsPair(p, n, W, operator, a, A, b, B)
  BY <1>1, <1>2, <1>3, <1>4 DEF IsPair, p
<1> QED BY <1>5

LEMMA PairMeans ==
  ASSUME NEW operator, NEW a, NEW b, NEW A, NEW B, A \subseteq Table, B \subseteq Table
  PROVE  LET p == Logical(operator, <<a, b>>)
             V == IF operator = "or" THEN A \cup B ELSE A \cap B
         IN  /\ Is0(a, A) /\ Is0(b, B) => Is1(p, V)
             /\ Is1(a, A) /\ Is1(b, B) => Is2(p, V)
             /\ Is2(a, A) /\ Is2(b, B) => Is3(p, V)
<1>1. PICK p, n, W : IsPair(p, n, W, operator, a, A, b, B)
  BY PairIs
<1>2. ASSUME Is0(a, A), Is0(b, B) PROVE Is1(p, Combined(p.operator, W, n))
  <2>1. \A i \in 1 .. n : Is0(p.predicates[i], W[i])
    BY <1>1, <1>2 DEF IsPair
  <2> QED BY <1>1, <2>1, FirstLevelMeans DEF IsPair
<1>3. ASSUME Is1(a, A), Is1(b, B) PROVE Is2(p, Combined(p.operator, W, n))
  <2>1. \A i \in 1 .. n : Is1(p.predicates[i], W[i])
    BY <1>1, <1>3 DEF IsPair
  <2> QED BY <1>1, <2>1, SecondLevelMeans DEF IsPair
<1>4. ASSUME Is2(a, A), Is2(b, B) PROVE Is3(p, Combined(p.operator, W, n))
  <2>1. \A i \in 1 .. n : Is2(p.predicates[i], W[i])
    BY <1>1, <1>4 DEF IsPair
  <2> QED BY <1>1, <2>1, ThirdLevelMeans DEF IsPair
<1>5. p = Logical(operator, <<a, b>>)
      /\ Combined(p.operator, W, n) = IF operator = "or" THEN A \cup B ELSE A \cap B
  BY <1>1 DEF IsPair
<1> QED BY <1>2, <1>3, <1>4, <1>5

LEMMA AndMeans ==
  ASSUME NEW a, NEW b, NEW A, NEW B, A \subseteq Table, B \subseteq Table, Is2(a, A), Is2(b, B)
  PROVE  Is3(Logical("and", <<a, b>>), A \cap B)
<1> DEFINE operator == "and"
<1>1. operator # "or"
  OBVIOUS
<1> HIDE DEF operator
<1>2. Is3(Logical(operator, <<a, b>>), IF operator = "or" THEN A \cup B ELSE A \cap B)
  BY PairMeans
<1> QED BY <1>1, <1>2 DEF operator

\* What a query selects whose tree is a condition, or two predicates.
LEMMA LeafSelects ==
  ASSUME NEW p, NEW V, V \subseteq Table, IsLeaf(p, V)
  PROVE  Selected(Compile(p).text, Compile(p).params) = V
<1> DEFINE c == CompileCondition(p, << >>)
<1>1. Compile(p) = c
  BY DEF Compile, CompileBy, IsLeaf
<1>2. IsSeq(<< >>)
  BY DEF IsSeq
<1>3. PICK u : /\ c.text = <<<<u>>>> /\ u.operator # "()"
               /\ \A all : IsSeq(all) /\ Begins(c.params, all) =>
                    \A row \in Table : IsTrue(u, all, row) <=> row \in V
  BY <1>2 DEF IsLeaf
<1>4. IsSeq(c.params)
  BY <1>2 DEF IsLeaf
<1> HIDE DEF c
<1>5. Begins(c.params, c.params)
  <2>1. Len(c.params) \in Nat
    BY <1>4 DEF IsSeq
  <2> QED BY <2>1 DEF Begins
<1>6. \A row \in Table : Holds(c.text, c.params, row) <=> IsTrue(u, c.params, row)
  BY <1>3 DEF Holds, HoldsBy
<1> QED BY <1>1, <1>3, <1>4, <1>5, <1>6 DEF Selected

IsRootText(p, us, after, V, n) ==
  /\ IsSeq(after) /\ Begins(<< >>, after)
  /\ Compile(p) = [text |-> Joined(p.operator, us, n), params |-> after]
  /\ \A i \in 1 .. n : \A all : IsSeq(all) /\ Begins(after, all) =>
       \A row \in Table : UnitBy(Holds3, us[i], all, row) <=> row \in V[i]

LEMMA RootText ==
  ASSUME NEW p, p.type = "logical", NEW n \in Nat, n = Len(p.predicates), n > 0,
         NEW V, \A i \in 1 .. n : Is3(p.predicates[i], V[i])
  PROVE  \E us, after : IsRootText(p, us, after, V, n)
<1>1. PICK us, after :
        /\ IsSeq(after) /\ Begins(<< >>, after)
        /\ Compile(p) = [text |-> Joined(p.operator, us, n), params |-> after]
        /\ \A i \in 1 .. n : \A all : IsSeq(all) /\ Begins(after, all) =>
             \A row \in Table : UnitBy(Holds3, us[i], all, row) <=> row \in V[i]
  BY ThirdLevelTogether
<1>2. IsRootText(p, us, after, V, n)
  BY <1>1 DEF IsRootText
<1> QED BY <1>2

LEMMA PairSelects ==
  ASSUME NEW a, NEW b, NEW A, NEW B, A \subseteq Table, B \subseteq Table, Is3(a, A), Is3(b, B)
  PROVE  LET c == Compile(Logical("and", <<a, b>>)) IN Selected(c.text, c.params) = A \cap B
<1>1. PICK p, n, W : IsPair(p, n, W, "and", a, A, b, B)
  BY PairIs
<1>2. \A i \in 1 .. n : Is3(p.predicates[i], W[i])
  BY <1>1 DEF IsPair
<1>3. /\ p.type = "logical" /\ n \in Nat /\ n = Len(p.predicates) /\ n > 0
      /\ p = Logical("and", <<a, b>>) /\ p.operator = "and"
  BY <1>1 DEF IsPair
<1>4. PICK us, after : IsRootText(p, us, after, W, n)
  BY <1>2, <1>3, RootText
<1>5. Begins(after, after)
  <2>1. Len(after) \in Nat
    BY <1>4 DEF IsSeq, IsRootText
  <2> QED BY <2>1 DEF Begins
<1>6. ASSUME NEW row \in Table
      PROVE  Holds(Compile(p).text, Compile(p).params, row) <=> row \in A \cap B
  <2> DEFINE text == <<[i \in 1 .. n |-> us[i]]>>
  <2>1. Compile(p).text = text /\ Compile(p).params = after
    <3>1. Compile(p) = [text |-> Joined("and", us, n), params |-> after]
      BY <1>3, <1>4 DEF IsRootText
    <3>2. Joined("and", us, n) = text
      BY DEF Joined
    <3> QED BY <3>1, <3>2
  <2>2. DOMAIN text = {1} /\ DOMAIN text[1] = 1 .. n /\ \A i \in 1 .. n : text[1][i] = us[i]
    OBVIOUS
  <2> HIDE DEF text
  <2>3. Holds(text, after, row) <=> \A i \in 1 .. n : UnitBy(Holds3, us[i], after, row)
    <3>1. Holds(text, after, row) <=>
            \E i \in DOMAIN text : \A j \in DOMAIN text[i] : UnitBy(Holds3, text[i][j], after, row)
      BY DEF Holds, HoldsBy, UnitBy
    <3> QED BY <2>2, <3>1
  <2>4. \A i \in 1 .. n : UnitBy(Holds3, us[i], after, row) <=> row \in W[i]
    BY <1>4, <1>5 DEF IsRootText
  <2>5. 1 .. n = {1, 2} /\ W[1] = A /\ W[2] = B
    BY <1>1 DEF IsPair
  <2> QED BY <2>1, <2>3, <2>4, <2>5
<1> QED BY <1>3, <1>6 DEF Selected

----------------------------------------------------------------------------
(* Filters.                                                                *)

LEMMA FilterPredicatesAre ==
  ASSUME NEW filters, IsSeq(filters)
  PROVE  /\ IsSeq(FilterPredicates(filters))
         /\ Range(FilterPredicates(filters)) =
              {FilterPredicate(f) : f \in {g \in Range(filters) : Used(g)}}
<1> DEFINE n == Len(filters)
           Step(i, before) ==
             IF Used(filters[i]) THEN Append(before, FilterPredicate(filters[i])) ELSE before
           Good(f, m) == f = [i \in 0 .. m |-> IF i = 0 THEN << >> ELSE Step(i, f[i - 1])]
<1>0. n \in Nat /\ DOMAIN filters = 1 .. n
  BY DEF IsSeq
<1>1. \A m \in Nat : \E f : Good(f, m)
  <2> DEFINE S == {m \in Nat : \E f : Good(f, m)}
  <2>1. 0 \in S
    <3> DEFINE f == [i \in 0 .. 0 |-> << >>]
    <3>1. Good(f, 0)
      OBVIOUS
    <3> QED BY <3>1
  <2>2. ASSUME NEW m \in Nat, m \in S PROVE m + 1 \in S
    <3>1. PICK f : Good(f, m)
      BY <2>2
    <3> DEFINE g == [i \in 0 .. m + 1 |-> IF i = m + 1 THEN Step(i, f[m]) ELSE f[i]]
    <3> HIDE DEF Step
    <3>2. ASSUME NEW i \in 0 .. m + 1 PROVE g[i] = IF i = 0 THEN << >> ELSE Step(i, g[i - 1])
      <4>1. CASE i = m + 1
        <5>1. i # 0 /\ i - 1 = m /\ g[i] = Step(i, f[m]) /\ g[m] = f[m]
          BY <4>1
        <5> QED BY <5>1
      <4>2. CASE i \in 0 .. m
        <5>1. f[i] = IF i = 0 THEN << >> ELSE Step(i, f[i - 1])
          BY <3>1, <4>2
        <5>2. g[i] = f[i] /\ (i # 0 => g[i - 1] = f[i - 1])
          BY <4>2
        <5> QED BY <5>1, <5>2
      <4> QED BY <4>1, <4>2
    <3>3. g = [i \in 0 .. m + 1 |-> g[i]]
      OBVIOUS
    <3> HIDE DEF g
    <3>4. Good(g, m + 1)
      BY <3>2, <3>3
    <3> QED BY <3>4
  <2> HIDE DEF S
  <2>3. Nat \subseteq S
    BY <2>1, <2>2, EveryNumber
  <2> QED BY <2>3 DEF S
<1>2. PICK f : Good(f, n) /\ FilterPredicates(filters) = f[n]
  <2>1. \E f : Good(f, n)
    BY <1>0, <1>1
  <2> QED BY <2>1 DEF FilterPredicates
<1> DEFINE upTo(i) == {filters[j] : j \in {k \in 1 .. i : Used(filters[k])}}
           Fine(i) == IsSeq(f[i]) /\ Range(f[i]) = {FilterPredicate(g) : g \in upTo(i)}
           S == {i \in Nat : i <= n => Fine(i)}
<1>3. 0 \in S
  <2>1. f[0] = << >>
    BY <1>0, <1>2
  <2>2. IsSeq(<< >>) /\ Range(<< >>) = {} /\ upTo(0) = {}
    BY DEF IsSeq, Range
  <2> QED BY <2>1, <2>2
<1>4. ASSUME NEW i \in Nat, i \in S PROVE i + 1 \in S
  <2>1. SUFFICES ASSUME i < n PROVE Fine(i + 1)
    BY <1>0
  <2>2. Fine(i)
    BY <1>0, <1>4, <2>1
  <2> DEFINE k == i + 1
  <2>3. k \in 0 .. n /\ k # 0 /\ k - 1 = i /\ k \in 1 .. k /\ 1 .. k = (1 .. i) \cup {k}
    BY <1>0, <2>1
  <2>4. f[k] = Step(k, f[i])
    <3> HIDE DEF k, Step
    <3>1. f[k] = Step(k, f[k - 1])
      BY <1>2, <2>3
    <3> QED BY <2>3, <3>1
  <2> HIDE DEF k
  <2>5. CASE Used(filters[k])
    <3> DEFINE q == FilterPredicate(filters[k])
    <3>1. f[k] = Append(f[i], q)
      BY <2>4, <2>5
    <3>2. upTo(k) = upTo(i) \cup {filters[k]}
      BY <2>3, <2>5
    <3> HIDE DEF q, upTo
    <3>3. f[i] \in Seq(Range(f[i]) \cup {q})
      BY <2>2 DEF IsSeq
    <3>4. /\ Append(f[i], q) \in Seq(Range(f[i]) \cup {q})
          /\ Range(Append(f[i], q)) = Range(f[i]) \cup {q}
      <4>1. /\ Append(f[i], q) \in Seq(Range(f[i]) \cup {q}) /\ Len(f[i]) \in Nat
            /\ DOMAIN f[i] = 1 .. Len(f[i])
            /\ DOMAIN Append(f[i], q) = 1 .. Len(f[i]) + 1
            /\ Append(f[i], q)[Len(f[i]) + 1] = q
            /\ \A j \in 1 .. Len(f[i]) : Append(f[i], q)[j] = f[i][j]
        BY <3>3
      <4>2. \A x : x \in Range(Append(f[i], q)) <=> x \in Range(f[i]) \cup {q}
        BY <4>1 DEF Range
      <4> QED BY <4>1, <4>2
    <3>5. IsSeq(f[k]) /\ Range(f[k]) = Range(f[i]) \cup {q}
      BY <3>1, <3>4, SeqIs
    <3> QED BY <2>2, <3>2, <3>5 DEF q, k
  <2>6. CASE ~Used(filters[k])
    <3>1. f[k] = f[i]
      BY <2>4, <2>6
    <3>2. upTo(k) = upTo(i)
      BY <2>3, <2>6
    <3> HIDE DEF upTo
    <3> QED BY <2>2, <3>1, <3>2 DEF k
  <2> QED BY <2>5, <2>6
<1>5. Fine(n)
  <2> HIDE DEF S
  <2>1. Nat \subseteq S
    BY <1>3, <1>4, EveryNumber
  <2> QED BY <1>0, <2>1 DEF S
<1>6. upTo(n) = {g \in Range(filters) : Used(g)}
  BY <1>0 DEF Range
<1> HIDE DEF upTo, n
<1> QED BY <1>2, <1>5, <1>6

\* The rows a filter asks for, by its predicate.
Rows(p) ==
  IF p.type = "logical" THEN {row \in Table : p.predicates[1].value \in {row.id, row.owner}}
  ELSE {row \in Table : row[p.field] = p.value}

LEMMA FilterMeans ==
  ASSUME NEW f, f.value # Null
  PROVE  LET p == FilterPredicate(f)
         IN  /\ Is2(p, Rows(p))
             /\ Rows(p) = {row \in Table : IF f.key = "keyword" THEN f.value \in {row.id, row.owner}
                                                                ELSE row[f.key] = f.value}
<1> DEFINE p == FilterPredicate(f)
<1>1. CASE f.key = "keyword"
  <2> DEFINE a == Compare("id", "ilike", f.value)
             b == Compare("owner", "ilike", f.value)
             A == {row \in Table : row["id"] = f.value}
             B == {row \in Table : row["owner"] = f.value}
  <2>1. p = Logical("or", <<a, b>>)
    BY <1>1 DEF FilterPredicate
  <2>2. Is1(a, A) /\ Is1(b, B)
    BY CompareMeans, LeafMeans
  <2>3. Rows(p) = {row \in Table : f.value \in {row.id, row.owner}}
    BY <2>1 DEF Rows, Logical, Compare
  <2>4. Rows(p) = A \cup B
    BY <2>3
  <2>5. A \subseteq Table /\ B \subseteq Table
    OBVIOUS
  <2> HIDE DEF p, a, b, A, B
  <2>6. Is2(Logical("or", <<a, b>>), A \cup B)
    BY <2>2, <2>5, PairMeans
  <2> USE DEF p
  <2> QED BY <1>1, <2>1, <2>3, <2>4, <2>6
<1>2. CASE f.key # "keyword"
  <2>1. p = Compare(f.key, "eq", f.value)
    BY <1>2 DEF FilterPredicate
  <2>2. Rows(p) = {row \in Table : row[f.key] = f.value}
    BY <2>1 DEF Rows, Compare
  <2> DEFINE V == {row \in Table : row[f.key] = f.value}
  <2>3. IsLeaf(p, V)
    BY <2>1, CompareMeans
  <2> HIDE DEF p, V
  <2>4. Is2(p, V)
    BY <2>3, LeafMeans
  <2> USE DEF p, V
  <2> QED BY <1>2, <2>2, <2>4
<1> QED BY <1>1, <1>2

LEMMA FiltersMean ==
  ASSUME NEW filters, IsSeq(filters), \A f \in Range(filters) : f.value # Null,
         FilterPredicates(filters) # << >>
  PROVE  Is3(Logical("and", FilterPredicates(filters)),
             {row \in Table : \A f \in Range(filters) : Used(f) => row \in Rows(FilterPredicate(f))})
<1> DEFINE ps == FilterPredicates(filters)
           V == [i \in DOMAIN ps |-> Rows(ps[i])]
           p == Logical("and", ps)
<1>1. IsSeq(ps) /\ Range(ps) = {FilterPredicate(f) : f \in {g \in Range(filters) : Used(g)}}
  BY FilterPredicatesAre
<1>2. PICK n \in Nat : n = Len(ps) /\ n > 0 /\ DOMAIN ps = 1 .. n
  BY <1>1 DEF IsSeq
<1> HIDE DEF ps
<1>3. p.type = "logical" /\ p.operator = "and" /\ p.predicates = ps
  BY DEF Logical
<1> HIDE DEF p
<1>4. \A i \in 1 .. n : Is2(p.predicates[i], V[i])
  <2>1. ASSUME NEW i \in 1 .. n PROVE Is2(ps[i], Rows(ps[i]))
    <3>1. PICK f \in Range(filters) : ps[i] = FilterPredicate(f)
      BY <1>1, <1>2 DEF Range
    <3> QED BY <3>1, FilterMeans
  <2> QED BY <1>2, <1>3, <2>1
<1>5. Is3(p, Combined(p.operator, V, n))
  <2> HIDE DEF V
  <2> QED BY <1>2, <1>3, <1>4, ThirdLevelMeans
<1>6. Combined(p.operator, V, n) =
        {row \in Table : \A f \in Range(filters) : Used(f) => row \in Rows(FilterPredicate(f))}
  <2>1. ASSUME NEW row \in Table
        PROVE  (\A i \in 1 .. n : row \in V[i]) <=>
                 \A f \in Range(filters) : Used(f) => row \in Rows(FilterPredicate(f))
    <3>1. (\A i \in 1 .. n : row \in V[i]) <=> \A q \in Range(ps) : row \in Rows(q)
      BY <1>2 DEF Range
    <3> QED BY <1>1, <3>1
  <2> QED BY <1>3, <2>1 DEF Combined
<1> QED BY <1>5, <1>6 DEF p, ps

----------------------------------------------------------------------------
(* Permission.                                                             *)

\* The rows a decision grants to the user.
Granted(decision) ==
  {row \in Table :
     /\ row.tenant_id = Permission.tenantId
     /\ CanAccessOrg(decision, row)
     /\ decision.scope \in {"TENANT_ALL", "SELF"} \/ decision.allowedOrgIds # {}}

\* The rows of its organisations, or of none and the user's own.
OrgRows(orgs) ==
  {row \in Table : row.org_id \in orgs \/ (row.org_id = Null /\ row.created_by = Permission.userId)}

LEMMA OrgRowsMean ==
  ASSUME NEW orgs, AreOrganisations(orgs), orgs # {}, Permission.userId # Null
  PROVE  LET own == Compare("created_by", "eq", Permission.userId)
             p == Logical("or", <<In("org_id", SetToSeq(orgs)), Logical("and", <<IsNull("org_id"), own>>)>>)
         IN  Is2(p, OrgRows(orgs)) /\ Is3(p, OrgRows(orgs))
<1> DEFINE a == In("org_id", SetToSeq(orgs))
           A == {row \in Table : row["org_id"] \in Range(SetToSeq(orgs))}
           b == IsNull("org_id")
           B == {row \in Table : row["org_id"] = Null}
           c == Compare("created_by", "eq", Permission.userId)
           C == {row \in Table : row["created_by"] = Permission.userId}
<1>1. SetToSeq(orgs) \in Seq(orgs) /\ Range(SetToSeq(orgs)) = orgs
  BY SetToSeqIs DEF AreOrganisations
<1>2. IsLeaf(a, A)
  <2>1. IsSeq(SetToSeq(orgs))
    BY <1>1, SeqIs
  <2>2. SetToSeq(orgs) # << >>
    BY <1>1 DEF Range
  <2>3. Null \notin Range(SetToSeq(orgs))
    BY <1>1 DEF AreOrganisations
  <2> QED BY <2>1, <2>2, <2>3, InMeans
<1>3. IsLeaf(b, B)
  BY IsNullMeans
<1>4. IsLeaf(c, C)
  BY CompareMeans
<1>5. A \cup (B \cap C) = OrgRows(orgs)
  BY <1>1 DEF OrgRows
<1>6. A \subseteq Table /\ B \subseteq Table /\ C \subseteq Table /\ B \cap C \subseteq Table
  OBVIOUS
<1> HIDE DEF a, A, b, B, c, C
<1> DEFINE d == Logical("and", <<b, c>>)
           D == B \cap C
<1>7. Is1(d, D) /\ Is2(d, D)
  BY <1>3, <1>4, <1>6, LeafMeans, PairMeans
<1> HIDE DEF d, D
<1>8. Is2(Logical("or", <<a, d>>), A \cup D) /\ Is3(Logical("or", <<a, d>>), A \cup D)
  <2>1. D \subseteq Table
    BY <1>6 DEF D
  <2> QED BY <1>2, <1>6, <1>7, <2>1, LeafMeans, PairMeans
<1> QED BY <1>5, <1>8 DEF a, b, c, d, D

LEMMA PermissionMeans ==
  ASSUME NEW decision, decision.scope \in DOMAIN Priority, AreOrganisations(decision.allowedOrgIds),
         Permission.userId # Null, Permission.tenantId # Null
  PROVE  LET p == PermissionPredicate(decision)
             c == Compile(p)
         IN  /\ Is3(p, Granted(decision))
             /\ Selected(c.text, c.params) = Granted(decision)
<1> DEFINE p == PermissionPredicate(decision)
           t == Compare("tenant_id", "eq", Permission.tenantId)
           T == {row \in Table : row["tenant_id"] = Permission.tenantId}
           o == Compare("created_by", "eq", Permission.userId)
           O == {row \in Table : row["created_by"] = Permission.userId}
<1>1. IsLeaf(t, T) /\ IsLeaf(o, O)
  BY CompareMeans
<1>2. T \subseteq Table /\ O \subseteq Table
  OBVIOUS
<1>3. CASE decision.scope = "TENANT_ALL"
  <2>1. Granted(decision) = T
    BY <1>3 DEF Granted, CanAccessOrg
  <2>2. p = t
    BY <1>3 DEF PermissionPredicate
  <2> HIDE DEF p, t, T
  <2>3. Is3(t, T) /\ Selected(Compile(t).text, Compile(t).params) = T
    BY <1>1, <1>2, LeafMeans, LeafSelects
  <2> QED BY <2>1, <2>2, <2>3 DEF p
<1>4. CASE decision.scope = "SELF"
  <2>1. Granted(decision) = T \cap O
    BY <1>4 DEF Granted, CanAccessOrg
  <2>2. p = Logical("and", <<t, o>>)
    BY <1>4 DEF PermissionPredicate
  <2> HIDE DEF p, t, T, o, O
  <2> DEFINE q == Logical("and", <<t, o>>)
  <2>3. Is2(t, T) /\ Is2(o, O) /\ Is3(t, T) /\ Is3(o, O)
    BY <1>1, LeafMeans
  <2>4. Is3(q, T \cap O)
    BY <1>2, <2>3, AndMeans
  <2>5. Selected(Compile(q).text, Compile(q).params) = T \cap O
    BY <1>2, <2>3, PairSelects
  <2> QED BY <2>1, <2>2, <2>4, <2>5 DEF p
<1>5. CASE decision.scope \notin {"TENANT_ALL", "SELF"} /\ decision.allowedOrgIds = {}
  <2>1. Granted(decision) = {}
    BY <1>5 DEF Granted
  <2>2. p = Literal(FALSE)
    BY <1>5 DEF PermissionPredicate
  <2> HIDE DEF p
  <2> DEFINE q == Literal(FALSE)
             Q == {}
  <2>3. IsLeaf(q, Q) /\ Q \subseteq Table
    BY LiteralMeans
  <2> HIDE DEF q, Q
  <2>4. Is3(q, Q) /\ Selected(Compile(q).text, Compile(q).params) = Q
    BY <2>3, LeafMeans, LeafSelects
  <2> QED BY <2>1, <2>2, <2>4 DEF p, q, Q
<1>6. CASE decision.scope \notin {"TENANT_ALL", "SELF"} /\ decision.allowedOrgIds # {}
  <2> DEFINE g == Logical("or", <<In("org_id", SetToSeq(decision.allowedOrgIds)),
                                  Logical("and", <<IsNull("org_id"), o>>)>>)
             G == OrgRows(decision.allowedOrgIds)
  <2>1. Granted(decision) = T \cap G
    BY <1>6 DEF Granted, CanAccessOrg, OrgRows
  <2>2. p = Logical("and", <<t, g>>)
    BY <1>6 DEF PermissionPredicate
  <2>3. Is2(g, G) /\ Is3(g, G)
    BY <1>6, OrgRowsMean
  <2>4. G \subseteq Table
    BY DEF OrgRows
  <2> HIDE DEF p, t, T, o, O, g, G
  <2> DEFINE q == Logical("and", <<t, g>>)
  <2>5. Is2(t, T) /\ Is3(t, T)
    BY <1>1, LeafMeans
  <2>6. Is3(q, T \cap G)
    BY <1>2, <2>3, <2>4, <2>5, AndMeans
  <2>7. Selected(Compile(q).text, Compile(q).params) = T \cap G
    BY <1>2, <2>3, <2>4, <2>5, PairSelects
  <2> QED BY <2>1, <2>2, <2>6, <2>7 DEF p
<1> QED BY <1>3, <1>4, <1>5, <1>6

----------------------------------------------------------------------------
(* The query.                                                              *)

FilterTree ==
  IF FilterPredicates(request.filters) = << >> THEN << >>
  ELSE <<Logical("and", FilterPredicates(request.filters))>>

Tree == MergeWhere(FilterTree, PermissionPredicate(Decision))[1]

LEMMA ContextIs ==
  ASSUME context \in Contexts
  PROVE  Wellformed(Permission) /\ Spelled(Permission.orgScope.orgNodes)
BY ContextsAssumption DEF Permission

LEMMA DecisionFits ==
  ASSUME context \in Contexts
  PROVE  Decision.scope \in DOMAIN Priority /\ AreOrganisations(Decision.allowedOrgIds)
<1> DEFINE scope == Permission.orgScope
           strongest == Strongest(Policies(scope))
           ids == {n.id : n \in scope.orgNodes}
<1>1. Wellformed(Permission)
  BY ContextIs
<1>2. strongest.scope \in DOMAIN Priority /\ AreOrganisations(strongest.customOrgIds)
  BY <1>1, DecisionIs
<1>3. AreOrganisations(scope.userOrgIds) /\ AreOrganisations(ids)
  BY <1>1 DEF Wellformed
<1>4. AreOrganisations(Expand(scope))
  <2>1. Expand(scope) \subseteq scope.userOrgIds \cup ids
    BY DEF Expand
  <2>2. IsFiniteSet(scope.userOrgIds \cup ids) /\ Null \notin scope.userOrgIds \cup ids
    BY <1>3, FS_Union DEF AreOrganisations
  <2> QED BY <2>1, <2>2, FS_Subset DEF AreOrganisations
<1>5. AreOrganisations({})
  BY FS_EmptySet DEF AreOrganisations
<1>6. /\ Decision.scope = strongest.scope
      /\ Decision.allowedOrgIds \in {strongest.customOrgIds, scope.userOrgIds, Expand(scope), {}}
  <2> HIDE DEF strongest
  <2>1. strongest.scope \in {"CUSTOM_ORG_SET", "DEPT", "DEPT_AND_CHILDREN", "SELF", "TENANT_ALL"}
    BY <1>2, PriorityIs
  <2>2. Decision =
          CASE strongest.scope = "CUSTOM_ORG_SET" ->
                 [scope |-> strongest.scope, allowedOrgIds |-> strongest.customOrgIds]
            [] strongest.scope = "DEPT" ->
                 [scope |-> strongest.scope, allowedOrgIds |-> scope.userOrgIds]
            [] strongest.scope = "DEPT_AND_CHILDREN" ->
                 [scope |-> strongest.scope, allowedOrgIds |-> Expand(scope)]
            [] strongest.scope \in {"SELF", "TENANT_ALL"} ->
                 [scope |-> strongest.scope, allowedOrgIds |-> {}]
    BY DEF Decision, ResolveDataScope, strongest
  <2> QED BY <2>1, <2>2
<1> QED BY <1>2, <1>3, <1>4, <1>5, <1>6

LEMMA AskedIs ==
  ASSUME request \in Requests, NEW row \in Table
  PROVE  Asked(row) <=>
           \A f \in Range(request.filters) : Used(f) => row \in Rows(FilterPredicate(f))
<1>1. IsSeq(request.filters)
  BY RequestsAssumption DEF IsSeq
<1>2. Asked(row) <=>
        \A f \in Range(request.filters) :
          /\ f.key = "keyword" => f.value \in {"", row.id, row.owner}
          /\ f.key \in SupportedExactFilters \cap DOMAIN row => f.value = row[f.key]
  BY DEF Asked, Range
<1>3. ASSUME NEW f \in Range(request.filters)
      PROVE  (/\ f.key = "keyword" => f.value \in {"", row.id, row.owner}
              /\ f.key \in SupportedExactFilters \cap DOMAIN row => f.value = row[f.key])
             <=> (Used(f) => row \in Rows(FilterPredicate(f)))
  <2>1. f.value # Null /\ (f.key \in SupportedExactFilters => f.key \in DOMAIN row)
    BY RequestsAssumption
  <2>2. row \in Rows(FilterPredicate(f)) <=>
          IF f.key = "keyword" THEN f.value \in {row.id, row.owner} ELSE row[f.key] = f.value
    BY <2>1, FilterMeans
  <2>3. "keyword" \notin SupportedExactFilters
    BY DEF SupportedExactFilters
  <2>4. CASE f.key = "keyword"
    BY <2>2, <2>3, <2>4 DEF Used
  <2>5. CASE f.key # "keyword"
    BY <2>1, <2>2, <2>5 DEF Used
  <2> QED BY <2>4, <2>5
<1> QED BY <1>2, <1>3

\* The compiled tree selects what is granted and asked for.
LEMMA TreeSelects ==
  ASSUME context \in Contexts, request \in Requests
  PROVE  Selected(Compile(Tree).text, Compile(Tree).params) =
           {row \in Granted(Decision) : Asked(row)}
<1> DEFINE q == PermissionPredicate(Decision)
           f == Logical("and", FilterPredicates(request.filters))
           G == Granted(Decision)
           F == {row \in Table : \A g \in Range(request.filters) : Used(g) => row \in Rows(FilterPredicate(g))}
<1>1. Permission.userId # Null /\ Permission.tenantId # Null
  BY ContextIs DEF Wellformed
<1>2. Is3(q, G) /\ Selected(Compile(q).text, Compile(q).params) = G
  <2> DEFINE d == Decision
  <2>1. d.scope \in DOMAIN Priority /\ AreOrganisations(d.allowedOrgIds)
    BY DecisionFits
  <2> HIDE DEF d
  <2>2. /\ Is3(PermissionPredicate(d), Granted(d))
        /\ LET c == Compile(PermissionPredicate(d)) IN Selected(c.text, c.params) = Granted(d)
    BY <1>1, <2>1, PermissionMeans
  <2> QED BY <2>2 DEF d
<1>3. G \subseteq Table /\ F \subseteq Table
  BY DEF Granted
<1>4. F = {row \in Table : Asked(row)}
  BY AskedIs
<1>5. CASE FilterPredicates(request.filters) = << >>
  <2>1. Tree = q
    BY <1>5 DEF Tree, FilterTree, MergeWhere
  <2>2. F = Table
    <3>1. Range(FilterPredicates(request.filters)) = {}
      BY <1>5 DEF Range
    <3>2. IsSeq(request.filters)
      BY RequestsAssumption DEF IsSeq
    <3> QED BY <3>1, <3>2, FilterPredicatesAre
  <2> HIDE DEF q, G, F
  <2>3. Selected(Compile(Tree).text, Compile(Tree).params) = G
    BY <1>2, <2>1
  <2> QED BY <1>3, <1>4, <2>2, <2>3 DEF G
<1>6. CASE FilterPredicates(request.filters) # << >>
  <2>1. Tree = Logical("and", <<f, q>>)
    BY <1>6 DEF Tree, FilterTree, MergeWhere
  <2>2. Is3(f, F)
    <3>1. IsSeq(request.filters) /\ \A g \in Range(request.filters) : g.value # Null
      BY RequestsAssumption DEF IsSeq
    <3> QED BY <1>6, <3>1, FiltersMean
  <2> HIDE DEF q, f, G, F
  <2>3. Selected(Compile(Tree).text, Compile(Tree).params) = F \cap G
    BY <1>2, <1>3, <2>1, <2>2, PairSelects
  <2> QED BY <1>3, <1>4, <2>3 DEF G
<1> QED BY <1>5, <1>6

LEMMA AppendIs ==
  ASSUME NEW a, NEW b
  PROVE  Append(<<a>>, b) = <<a, b>>
<1> DEFINE s == Append(<<a>>, b)
           t == <<a, b>>
<1>1. <<a>> \in Seq({a, b}) /\ Len(<<a>>) = 1
  OBVIOUS
<1>2. s \in Seq({a, b}) /\ Len(s) = 2 /\ s[1] = a /\ s[2] = b
  BY <1>1
<1>3. t \in Seq({a, b}) /\ Len(t) = 2 /\ t[1] = a /\ t[2] = b
  OBVIOUS
<1>4. s = t
  <2> HIDE DEF s, t
  <2>1. \A i \in 1 .. Len(s) : s[i] = t[i]
    BY <1>2, <1>3
  <2> QED BY <1>2, <1>3, <2>1, SeqEqual
<1> QED BY <1>4

Readable == ~Unreadable(Permission)

\* From step to step, what the query has come to.
Progress ==
  /\ context \in Contexts /\ request \in Requests
  /\ step = "build" => trail = << >>
  /\ step = "transform" => where = FilterTree /\ trail = << >>
  /\ step \in {"compile", "execute", "done"} => Readable
  /\ step = "compile" => where[1] = Tree /\ trail = <<"permission.allow">>
  /\ step = "execute" => /\ sql = Compile(Tree).text /\ params = Compile(Tree).params
                         /\ trail = <<"permission.allow">>
  /\ step = "done" => /\ rows = Selected(Compile(Tree).text, Compile(Tree).params)
                      /\ trail = <<"permission.allow", "datasource.succeeded">>

LEMMA TreeStays ==
  ASSUME context' = context, request' = request
  PROVE  Tree' = Tree /\ FilterTree' = FilterTree /\ Readable' = Readable
<1>1. Permission' = Permission
  BY DEF Permission
<1>2. FilterTree' = FilterTree
  BY DEF FilterTree
<1>3. PermissionPredicate(Decision)' = PermissionPredicate(Decision)
  BY <1>1 DEF PermissionPredicate, Decision
<1>4. Readable' = Readable
  BY <1>1 DEF Readable, Unreadable
<1> QED BY <1>2, <1>3, <1>4 DEF Tree

\* THEOREM: each step builds on what the one before it left.
THEOREM ProgressAlways == Spec => []Progress
<1>1. Init => Progress
  BY DEF Init, Progress
<1>2. Progress /\ [Next]_vars => Progress'
  <2> SUFFICES ASSUME Progress, [Next]_vars PROVE Progress'
    OBVIOUS
  <2>1. context' = context /\ request' = request
    BY DEF Next, BuildAst, Transform, CompileAst, Execute, ExecuteFails, Over, vars
  <2>2. Tree' = Tree /\ FilterTree' = FilterTree /\ Readable' = Readable
    BY <2>1, TreeStays
  <2>3. CASE BuildAst
    BY <2>1, <2>2, <2>3 DEF BuildAst, Progress, FilterTree
  <2>4. CASE Transform
    BY <2>1, <2>2, <2>4 DEF Transform, Progress, Tree, Readable
  <2>5. CASE CompileAst
    BY <2>1, <2>2, <2>5 DEF CompileAst, Progress
  <2>6. CASE Execute
    <3>1. /\ rows' = Selected(sql, params) /\ trail' = Append(trail, "datasource.succeeded")
          /\ step = "execute" /\ step' = "done"
      BY <2>6 DEF Execute
    <3>2. /\ sql = Compile(Tree).text /\ params = Compile(Tree).params
          /\ trail = <<"permission.allow">>
      BY <3>1 DEF Progress
    <3>3. rows' = Selected(Compile(Tree').text, Compile(Tree').params)
      BY <2>2, <3>1, <3>2
    <3>4. trail' = <<"permission.allow", "datasource.succeeded">>
      <4>1. Append(<<"permission.allow">>, "datasource.succeeded")
              = <<"permission.allow", "datasource.succeeded">>
        BY AppendIs
      <4> QED BY <3>1, <3>2, <4>1
    <3>5. Readable'
      BY <2>2, <3>1 DEF Progress
    <3>6. (context \in Contexts /\ request \in Requests)'
      BY <2>1 DEF Progress
    <3> QED BY <3>1, <3>3, <3>4, <3>5, <3>6 DEF Progress
  <2>7. CASE ExecuteFails
    BY <2>1, <2>2, <2>7 DEF ExecuteFails, Progress
  <2>8. CASE Over \/ UNCHANGED vars
    BY <2>1, <2>2, <2>8 DEF Over, vars, Progress
  <2> QED BY <2>3, <2>4, <2>5, <2>6, <2>7, <2>8 DEF Next
<1> QED BY <1>1, <1>2, PTL DEF Spec

\* THEOREM: a query returns exactly the rows of the context's tenant that the
\* filters ask for and canAccessOrg grants, "and children" taken by parent.
THEOREM VisibleRows == Spec => []RowsAreVisible
<1>1. Progress => RowsAreVisible
  <2> SUFFICES ASSUME Progress, step = "done" PROVE RowsAreVisible
    BY DEF RowsAreVisible
  <2> DEFINE decision == IF Decision.scope = "DEPT_AND_CHILDREN"
                           THEN [Decision EXCEPT !.allowedOrgIds = Below(Permission.orgScope)]
                           ELSE Decision
             empty == decision.scope \notin {"TENANT_ALL", "SELF"} /\ decision.allowedOrgIds = {}
  <2>1. context \in Contexts /\ request \in Requests
    BY DEF Progress
  <2>2. decision = Decision
    <3>1. CASE Decision.scope = "DEPT_AND_CHILDREN"
      <4>1. Expand(Permission.orgScope) = Below(Permission.orgScope)
        BY <2>1, ContextIs, ExpandIsBelow
      <4>2. Decision = [scope |-> "DEPT_AND_CHILDREN", allowedOrgIds |-> Expand(Permission.orgScope)]
        <5> DEFINE strongest == Strongest(Policies(Permission.orgScope))
        <5>1. strongest.scope \in DOMAIN Priority
          BY <2>1, ContextIs, DecisionIs
        <5> HIDE DEF strongest
        <5>2. Decision =
                CASE strongest.scope = "CUSTOM_ORG_SET" ->
                       [scope |-> strongest.scope, allowedOrgIds |-> strongest.customOrgIds]
                  [] strongest.scope = "DEPT" ->
                       [scope |-> strongest.scope, allowedOrgIds |-> Permission.orgScope.userOrgIds]
                  [] strongest.scope = "DEPT_AND_CHILDREN" ->
                       [scope |-> strongest.scope, allowedOrgIds |-> Expand(Permission.orgScope)]
                  [] strongest.scope \in {"SELF", "TENANT_ALL"} ->
                       [scope |-> strongest.scope, allowedOrgIds |-> {}]
          BY DEF Decision, ResolveDataScope, strongest
        <5> QED BY <3>1, <5>1, <5>2, PriorityIs
      <4> HIDE DEF Decision
      <4> QED BY <3>1, <4>1, <4>2
    <3>2. CASE Decision.scope # "DEPT_AND_CHILDREN"
      BY <3>2
    <3> QED BY <3>1, <3>2
  <2>3. rows = {row \in Granted(Decision) : Asked(row)}
    BY <2>1, TreeSelects DEF Progress
  <2>4. rows = IF empty THEN {}
               ELSE {row \in Table : /\ row.tenant_id = Permission.tenantId
                                     /\ CanAccessOrg(decision, row)
                                     /\ Asked(row)}
    <3> HIDE DEF decision
    <3> QED BY <2>2, <2>3 DEF Granted
  <2> HIDE DEF decision
  <2>5. trail = <<"permission.allow", "datasource.succeeded">>
    BY DEF Progress
  <2> USE DEF decision
  <2>6. Missing \notin {Permission.tenantId, Permission.userId}
    BY DEF Progress, Readable, Unreadable
  <2> QED BY <2>4, <2>5, <2>6 DEF RowsAreVisible
<1> QED BY <1>1, ProgressAlways, PTL

\* THEOREM: the order of a user's roles decides nothing but which of several
\* custom organisation sets is used.
THEOREM StableDecision == Spec => []DecisionStable
<1>1. Progress => DecisionStable
  <2> SUFFICES ASSUME Progress PROVE DecisionStable
    OBVIOUS
  <2>1. Wellformed(Permission)
    BY ContextIs DEF Progress
  <2> QED BY <2>1, Reordered DEF DecisionStable, Decision
<1> QED BY <1>1, ProgressAlways, PTL
=============================================================================
