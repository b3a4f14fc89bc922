-------------------------- MODULE MCManagerEvents --------------------------
(* Every target writes a key of its own, so that the keys the others read  *)
(* make every acyclic graph over two datasources and two actions.  The     *)
(* pages with rules have three targets, and some of them have a cycle or a *)
(* reference that nothing resolves.                                        *)
EXTENDS ManagerEvents

CONSTANTS d1, d2, a1, a2, kd1, kd2, ka1, ka2, typed, missing

MCTargets == <<d1, d2, a1, a2>>
MCStateKeys == <<ka1, ka2, kd1, kd2, missing, typed>>

Writes == (d1 :> {kd1}) @@ (d2 :> {kd2}) @@ (a1 :> {ka1}) @@ (a2 :> {ka2})
UpTo(n, S) == UNION {kSubset(k, S) : k \in 0..n}

\* What each of ts reads, for every choice of the edges that lead to `readers`.
Reading(ts, readers) ==
  LET pairs == {e \in ts \X readers : e[1] # e[2]}
  IN  {[u \in ts |-> UNION {Writes[t] : t \in {v \in ts : <<v, u>> \in edges}}] :
         edges \in SUBSET pairs}

\* Each mentioned key is one list deeper in the definition than the one before.
Body(keys) ==
  FoldLeft(LAMBDA inner, k : [keys |-> {}, parts |-> <<[keys |-> {k}, parts |-> << >>], inner>>],
           [keys |-> {}, parts |-> << >>], KeysInOrder(keys))

Datasource(id, reads) ==
  [id |-> id, type |-> "api", body |-> Body(reads), output |-> CHOOSE k \in Writes[id] : TRUE]
Action(id, reads, auto, success) ==
  [id |-> id, trigger |-> IF auto THEN "state.changed" ELSE "click",
   steps |-> <<[key |-> NoKey, patch |-> Writes[id]]>>, body |-> Body(reads),
   refresh |-> success \cap Datasources, run |-> success \cap Actions]
Node(id, children) == [id |-> id, type |-> "form", props |-> TRUE, children |-> children]

Each(Op(_), s) == FoldLeft(LAMBDA done, x : Append(done, Op(x)), << >>, s)

Page(ts, reads, auto, success, rules) ==
  [head |-> <<"v1", "orders", "Orders">>,
   state |-> {typed} \cup UNION {Writes[t] : t \in ts},
   datasources |-> Each(LAMBDA t : Datasource(t, reads[t]), InOrder(ts \cap Datasources)),
   actions |-> Each(LAMBDA t : Action(t, reads[t], t \in auto, success), InOrder(ts \cap Actions)),
   rules |-> [i \in DOMAIN rules |-> [rules[i] EXCEPT !.id = i]],
   layout |-> <<Node("root", <<Node("form", << >>)>>)>>]

\* The bodies, conditions and nodes above, and what is inside them.
MCValues == {Body(keys) : keys \in SUBSET StateKey} \cup {[keys |-> {k}, parts |-> << >>] : k \in StateKey}
MCNodes ==
  LET leaf == Node("form", << >>)
  IN  {leaf, [leaf EXCEPT !.props = FALSE]}
      \cup {Node(id, <<l>>) : id \in {"root", d1}, l \in {leaf, [leaf EXCEPT !.props = FALSE]}}

RECURSIVE MCDepth(_)
MCDepth(x) ==
  LET inner == Range(CASE "parts" \in DOMAIN x -> x.parts
                       [] "args" \in DOMAIN x -> x.args
                       [] "children" \in DOMAIN x -> x.children)
  IN  IF inner = {} THEN 0 ELSE 1 + Max({MCDepth(y) : y \in inner})

Changed(keys) == [type |-> "state.changed", keys |-> keys]
Succeeded(a) == [type |-> "mutation.succeeded", action |-> a]
Request(p, e) == [dsl |-> p, event |-> e]

All == {d1, d2, a1, a2}
Acyclic(reads) == ~HasCycle([t \in DOMAIN reads |-> {u \in DOMAIN reads : Writes[u] \subseteq reads[t]}])
Graphs == {reads \in Reading(All, All) : Acyclic(reads)}

\* What a request is made of: a page over ts, and what happens on it.
Choice(ts, reads, auto, success, rules, e) ==
  [ts |-> ts, reads |-> reads, auto |-> auto, success |-> success, rules |-> rules, event |-> e]

StateChoices ==
  {Choice(All, reads, {a1, a2}, {}, << >>, Changed(keys)) :
     reads \in Graphs, keys \in UpTo(2, {kd1, kd2, ka1})}

SuccessChoices ==
  {Choice(All, reads, {a1, a2}, success, << >>, Succeeded(a1)) :
     reads \in Graphs, success \in {{d1}, {a1}, {a1, d2}}}
  \cup {Choice(All, reads, {a1}, {d1, a2}, << >>, Succeeded(a1)) :
          reads \in Graphs}

\* The condition is a function of a function of the state.
State(k) == [source |-> "state", key |-> k, args |-> << >>]
Call(args) == [source |-> "function", key |-> NoKey, args |-> args]
MCArguments == {State(k) : k \in StateKey} \cup {Call(<<State(k)>>) : k \in StateKey} \cup {Call(<< >>)}

Rule(trigger, reads, asked) ==
  LET state == [i \in 1..Cardinality(reads) |-> State(KeysInOrder(reads)[i])]
  IN  [id |-> 0, trigger |-> trigger, name |-> "holds", effects |-> SetToSeq(asked),
       args |-> <<Call(state)>>]
Set(key) == [type |-> "setState", key |-> key]
Ask(target) == [type |-> "target", target |-> target]

RuleLists ==
  LET any == Rule("state.changed", {}, {Set(typed), Ask(a1)})
      some == Rule("state.changed", {kd1}, {Ask(d2), Ask(d1)})
      saved == Rule("mutation.succeeded", {kd1}, {Ask(d1), Set(kd2)})
      broken == Rule("state.changed", {}, {Ask(a2)})
      unsupported == Rule("page.loaded", {}, {Ask(d1)})
  IN  <<<<any, some>>, <<some, saved>>, <<saved, any>>, <<any, broken>>, <<some, unsupported>>>>

RuleChoices ==
  LET ts == {d1, d2, a1}
      reading == Reading(ts, ts) \cup {[t \in ts |-> {missing}]}
  IN  {Choice(ts, reads, {a1}, {d2}, rules, e) :
         reads \in reading, rules \in Range(RuleLists),
         e \in {Changed({kd1}), Changed({kd2}), Changed({kd1, ka1}), Changed({missing}),
                Succeeded(a1), Succeeded(a2)}}
      \cup {Choice(ts, [t \in ts |-> {}], {}, {a2}, << >>, Succeeded(a1))}

\* A page with one thing odd each; the parser accepts the last three.
OddPages ==
  LET good == Page({d1, d2, a1}, (d1 :> {}) @@ (d2 :> {kd1}) @@ (a1 :> {kd2}), {a1}, {d2}, RuleLists[1])
      other == Datasource(d1, {typed})
  IN  {[good EXCEPT !.head[3] = Blank],
       [good EXCEPT !.datasources = Append(@, other)],
       [good EXCEPT !.datasources[1].id = Blank],
       [good EXCEPT !.datasources[2].type = Blank],
       [good EXCEPT !.actions[1].steps = << >>],
       [good EXCEPT !.rules[2].id = 1],
       [good EXCEPT !.rules[1].name = Blank],
       [good EXCEPT !.rules[1].effects = << >>],
       [good EXCEPT !.layout = Append(@, Node("form", << >>))],
       [good EXCEPT !.layout[1].children[1].props = FALSE],
       [good EXCEPT !.rules[1].id = d1],
       [good EXCEPT !.layout[1].id = d1],
       [good EXCEPT !.datasources[1].output = missing]}

OddRequests == {Request(p, e) : p \in OddPages, e \in {Changed({kd1}), Changed({typed}), Succeeded(a1)}}

MCRequests ==
  {Request(Page(c.ts, c.reads, c.auto, c.success, c.rules), c.event) :
     c \in StateChoices \cup SuccessChoices \cup RuleChoices}
  \cup OddRequests
=============================================================================
