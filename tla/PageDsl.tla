------------------------------ MODULE PageDsl ------------------------------
(***************************************************************************)
(* parseRuntimePageDsl: from the page as it is written to the page the     *)
(* dependency graph is built from.  Everything in a datasource or an       *)
(* action is searched for templates {{state.k}}, and the arguments of a    *)
(* rule's condition for references to the state.  A template is the key it *)
(* names; the rest of a string is left out.                                *)
(***************************************************************************)
EXTENDS Naturals, SequencesExt

CONSTANTS
  Blank,      \* a name, an id or a type that is missing or only blanks
  NoKey,      \* no output
  Values, Arguments, Nodes,  \* everything that pages are made of, at any depth
  Depth(_)    \* how deep it goes inside one of them

\* A written value: [keys, parts]; a string has the keys its templates name, a
\* list or an object has parts.  An argument of a rule: [source, key, args].
\* A page: [head, state, datasources, actions, rules, layout], where head are
\* its version, id and title, and its parts are
\*   datasource  [id, type, body, output]
\*   action      [id, trigger, steps, body, refresh, run], step [key, patch]
\*   rule        [id, trigger, name, args, effects]
\*   node        [id, type, props, children]

\* JSON ends somewhere.
ASSUME NestingAssumption ==
  /\ \A v \in Values : Depth(v) \in Nat /\ \A w \in Range(v.parts) : w \in Values /\ Depth(w) < Depth(v)
  /\ \A a \in Arguments : Depth(a) \in Nat /\ \A b \in Range(a.args) : b \in Arguments /\ Depth(b) < Depth(a)
  /\ \A n \in Nodes : Depth(n) \in Nat /\ \A m \in Range(n.children) : m \in Nodes /\ Depth(m) < Depth(n)

\* Only functions have arguments.
ASSUME ArgumentsAssumption == \A a \in Arguments : a.source # "function" => a.args = << >>

\* Slip: templates in lists and objects inside the definition are not seen.
VisitShallow(value) == value.keys \cup UNION {part.keys : part \in Range(value.parts)}

\* collectTemplateDependencies
Visit(value) ==
  LET visit[v \in Values] == v.keys \cup UNION {visit[w] : w \in Range(v.parts)}
  IN  visit[value]

\* Slip: the arguments of the condition's own call only.
VisitOuter(args) == {arg.key : arg \in {a \in Range(args) : a.source = "state"}}

\* collectRuleStateDependencies
VisitArgs(args) ==
  LET visit[a \in Arguments] ==
        IF a.source = "state" THEN {a.key}
        ELSE IF a.source = "function" THEN UNION {visit[b] : b \in Range(a.args)}
        ELSE {}
  IN  UNION {visit[a] : a \in Range(args)}

----------------------------------------------------------------------------
Ids(items) == {item.id : item \in Range(items)}
Named(items) == Blank \notin Ids(items)
Distinct(items) == \A i, j \in DOMAIN items : items[i].id = items[j].id => items[i].id = Blank \/ i = j

\* A node's own templates are not needed here; its id is unique in the page.
Flatten(nodes) ==
  LET flat[n \in Nodes] == <<n>> \o FlattenSeq([i \in DOMAIN n.children |-> flat[n.children[i]]])
  IN  FlattenSeq([i \in DOMAIN nodes |-> flat[nodes[i]]])

\* validateRuntimePageDsl finds no issue.  Ids are compared within a kind.
Accepted(dsl) ==
  LET nodes == Flatten(dsl.layout)
  IN  /\ Blank \notin Range(dsl.head)
      /\ \A items \in {dsl.datasources, dsl.actions, dsl.rules, nodes} :
           Named(items) /\ Distinct(items)
      /\ \A d \in Range(dsl.datasources) : d.type # Blank
      /\ \A a \in Range(dsl.actions) : a.steps # << >>
      /\ \A r \in Range(dsl.rules) : r.trigger # Blank /\ r.name # Blank /\ r.effects # << >>
      /\ \A n \in Range(nodes) : n.type # Blank /\ n.props

\* extractPatchStateKeys, getActionOutputStateKeys, getDatasourceOutputStateKeys
Outputs(definition) ==
  (IF "steps" \in DOMAIN definition
     THEN UNION {{step.key} \cup step.patch : step \in Range(definition.steps)}
     ELSE {definition.output}) \ {NoKey}

OnId(items, values) ==
  [id \in Ids(items) |-> values[CHOOSE i \in DOMAIN items : items[i].id = id]]

\* The parsed page, as buildDependencyGraph registers it.
Parse(dsl) ==
  LET all == dsl.datasources \o dsl.actions
  IN  [keys |-> dsl.state,
       targets |-> Ids(all),
       reads |-> OnId(all, [i \in DOMAIN all |-> Visit(all[i].body)]),
       writes |-> OnId(all, [i \in DOMAIN all |-> Outputs(all[i])]),
       auto |-> {a.id : a \in {b \in Range(dsl.actions) : b.trigger = "state.changed"}},
       onSuccess |-> OnId(dsl.actions, [i \in DOMAIN dsl.actions |->
                                           dsl.actions[i].refresh \cup dsl.actions[i].run]),
       rules |-> [i \in DOMAIN dsl.rules |->
                    [trigger |-> dsl.rules[i].trigger, reads |-> VisitArgs(dsl.rules[i].args),
                     effects |-> Range(dsl.rules[i].effects)]]]
=============================================================================
