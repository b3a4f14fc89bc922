--------------------------- MODULE ManagerEvents ---------------------------
(***************************************************************************)
(* One event of a page, from planManagerEvent to the summary that is       *)
(* announced to other browsers: the page is parsed, its dependency graph   *)
(* built, the refresh planned, the rules are asked, the manager's commands *)
(* made and executed by the host.  Targets are datasources and actions.  Everything up to the   *)
(* commands happens in memory; only executing a command leaves the runtime *)
(* and may fail.  Values of the page's state are left out.                 *)
(***************************************************************************)
EXTENDS PlanGraph, PageDsl

CONSTANTS
  Targets,      \* sequence: all targets in stable order (toStableTargetOrder)
  Datasources,  \* which of them are datasources
  StateKeys,    \* sequence: all state keys in stable order
  Patch,        \* the patchState command
  Requests      \* [dsl, event]: a page as it is written

Target == Range(Targets)
StateKey == Range(StateKeys)
Actions == Target \ Datasources

\* A parsed page: [keys, targets, reads, writes, auto, onSuccess, rules].  reads[t]
\* and writes[t] are state keys, auto the actions with trigger "state.changed",
\* onSuccess[a] what a mutation of action a refreshes and runs.  A rule is
\* [trigger, reads, effects], an effect [type |-> "setState", key] or
\* [type |-> "target", target]; an event [type, keys] or [type, action].

ASSUME TargetsAssumption ==
  /\ Targets \in Seq(Target) /\ IsInjective(Targets) /\ Datasources \subseteq Target
  /\ StateKeys \in Seq(StateKey) /\ IsInjective(StateKeys)
  /\ Patch \notin Target /\ Blank \notin Target

\* What a page is made of is among Values and Arguments.
ASSUME PagesAssumption ==
  /\ {d.body : d \in UNION {Range(r.dsl.datasources \o r.dsl.actions) : r \in Requests}} \subseteq Values
  /\ UNION {Range(q.args) : q \in UNION {Range(r.dsl.rules) : r \in Requests}} \subseteq Arguments

\* It names its datasources and actions by targets of their kind, in onSuccess too,
\* where an id that only the other kind has is a name no target of the page has.
\* What happens on it is one of two things; the second names an action.
ASSUME RequestsAssumption ==
  \A r \in Requests :
    /\ r.dsl.datasources \in Seq(Range(r.dsl.datasources))
    /\ r.dsl.actions \in Seq(Range(r.dsl.actions)) /\ r.dsl.rules \in Seq(Range(r.dsl.rules))
    /\ Ids(r.dsl.datasources) \subseteq Datasources \cup {Blank}
    /\ Ids(r.dsl.actions) \subseteq Actions \cup {Blank}
    /\ \A a \in Range(r.dsl.actions) : a.refresh \cap Actions = {} /\ a.run \cap Datasources = {}
    /\ r.dsl.state \subseteq StateKey
    /\ r.event.type \in {"state.changed", "mutation.succeeded"}
    /\ r.event.type = "mutation.succeeded" => r.event.action \in Actions

VARIABLES
  dsl,       \* the page as it is written
  event,
  page,      \* the page as it is parsed
  phase,     \* "parse", "build", "expand", "sort", "rules", "execute", "done", "rejected"
  queue,     \* targets scheduled by planRefresh
  next,      \* how many of them have been expanded
  degree,    \* topologicallySortTargets: edges from unordered targets
  order,     \* targetOrder so far
  rule,      \* how many rules have been looked at
  effects,   \* [patch, targets]: what the matched rules ask for
  commands,  \* managerCommands
  calls,     \* history: [command, ok], what the host was given and how it ended
  results    \* commandResults

planning == <<queue, next, degree, order>>
vars == <<dsl, page, event, phase, planning, rule, effects, commands, calls, results>>

\* The members of s that are in S, in their order.
Kept(s, S) ==
  LET upto[n \in 0 .. Len(s)] ==
        IF n = 0 THEN << >>
        ELSE IF s[n] \in S THEN Append(upto[n - 1], s[n]) ELSE upto[n - 1]
  IN  upto[Len(s)]

InOrder(S) == Kept(Targets, S)
KeysInOrder(S) == Kept(StateKeys, S)

----------------------------------------------------------------------------
\* stateToTargets[k]: who reads k and is refreshed when it changes.
Readers(p, k) ==
  {t \in p.targets : k \in p.reads[t] /\ (t \in Actions => t \in p.auto)}

\* node.downstream of every node.
Downstream(p) ==
  [t \in p.targets |-> (UNION {Readers(p, k) : k \in p.writes[t]}) \ {t}]

\* References that buildDependencyGraph and planRefresh look up and miss.
UnknownInPage(p) ==
  \/ \E t \in p.targets : ~(p.reads[t] \subseteq p.keys)
  \/ \E a \in p.targets \cap Actions : ~(p.onSuccess[a] \subseteq p.targets)

UnknownInEvent(p, e) ==
  IF e.type = "state.changed" THEN ~(e.keys \subseteq p.keys)
                              ELSE e.action \notin p.targets

\* enqueue, for each of a list of targets.
Enqueue(q, refs) ==
  LET upto[n \in 0 .. Len(refs)] ==
        IF n = 0 THEN q
        ELSE LET before == upto[n - 1]
             IN  IF refs[n] \in Range(before) THEN before ELSE Append(before, refs[n])
  IN  upto[Len(refs)]

\* The targets an event names, as planRefresh enqueues them.
Roots(p, e) ==
  IF e.type = "state.changed"
    THEN LET keys == KeysInOrder(e.keys)
             upto[n \in 0 .. Len(keys)] ==
               IF n = 0 THEN << >> ELSE Enqueue(upto[n - 1], InOrder(Readers(p, keys[n])))
         IN  upto[Len(keys)]
    ELSE Enqueue(<< >>, InOrder(p.onSuccess[e.action]))

----------------------------------------------------------------------------
NoPage == [keys |-> {}, targets |-> {}, rules |-> << >>]

Init ==
  /\ \E r \in Requests : dsl = r.dsl /\ event = r.event
  /\ page = NoPage
  /\ phase = "parse"
  /\ queue = << >> /\ next = 0 /\ order = << >>
  /\ degree = [t \in {} |-> 0]
  /\ rule = 0
  /\ effects = [patch |-> {}, targets |-> {}]
  /\ commands = << >> /\ calls = << >> /\ results = << >>

\* parseRuntimePageDsl
ParsePage ==
  /\ phase = "parse"
  /\ IF Accepted(dsl) THEN page' = Parse(dsl) /\ phase' = "build"
                     ELSE UNCHANGED page /\ phase' = "rejected"
  /\ UNCHANGED <<dsl, event, planning, rule, effects, commands, calls, results>>

\* buildDependencyGraph with assertAcyclic, then planRefresh up to its loop.
BuildGraph ==
  /\ phase = "build"
  /\ LET refused == \/ UnknownInPage(page)
                    \/ HasCycle(Downstream(page))
                    \/ UnknownInEvent(page, event)
     IN  \/ /\ refused
            /\ phase' = "rejected"
            /\ UNCHANGED queue
         \/ /\ ~refused
            /\ queue' = Roots(page, event)
            /\ phase' = "expand"
  /\ UNCHANGED <<dsl, page, event, next, degree, order, rule, effects, commands, calls, results>>

\* One turn of planRefresh's loop.
Expand ==
  /\ phase = "expand" /\ next < Len(queue)
  /\ queue' = Enqueue(queue, InOrder(Downstream(page)[queue[next + 1]]))
  /\ next' = next + 1
  /\ UNCHANGED <<dsl, page, event, phase, degree, order, rule, effects, commands, calls, results>>

\* topologicallySortTargets counts the edges between scheduled targets.
CountEdges ==
  /\ phase = "expand" /\ next = Len(queue)
  /\ degree' = [t \in Range(queue) |->
                  Cardinality({u \in Range(queue) : t \in Downstream(page)[u]})]
  /\ phase' = "sort"
  /\ UNCHANGED <<dsl, page, event, queue, next, order, rule, effects, commands, calls, results>>

Ready == {t \in Range(queue) \ Range(order) : degree[t] = 0}

\* ... orders the first ready one and discounts its edges, ...
Emit ==
  /\ phase = "sort" /\ Ready # {}
  /\ LET t == InOrder(Ready)[1] IN
       /\ order' = Append(order, t)
       /\ degree' = [u \in DOMAIN degree |->
                       IF u \in Downstream(page)[t] THEN degree[u] - 1 ELSE degree[u]]
  /\ UNCHANGED <<dsl, page, event, phase, queue, next, rule, effects, commands, calls, results>>

\* ... and throws if some are never ready.
FinishSort ==
  /\ phase = "sort" /\ Ready = {}
  /\ phase' = IF Len(order) = Len(queue) THEN "rules" ELSE "rejected"
  /\ UNCHANGED <<dsl, page, event, planning, rule, effects, commands, calls, results>>

----------------------------------------------------------------------------
\* The rule is asked: right trigger, and one of the keys it reads has changed.
Triggered(r) ==
  /\ r.trigger = event.type
  /\ event.type = "state.changed" /\ r.reads # {} => r.reads \cap event.keys # {}

\* applyRuleEffect finds what the effect names.
Known(e) == IF e.type = "setState" THEN e.key \in page.keys ELSE e.target \in page.targets

Matched(r) ==
  [patch |-> effects.patch \cup {e.key : e \in {f \in r.effects : f.type = "setState"}},
   targets |-> effects.targets \cup {e.target : e \in {f \in r.effects : f.type = "target"}}]

\* One turn of evaluateRules.  The condition is a function of the host's
\* registry: it answers anything, or throws.
EvaluateRule ==
  /\ phase = "rules" /\ rule < Len(page.rules)
  /\ LET r == page.rules[rule + 1] IN
       \/ /\ r.trigger \notin {"state.changed", "mutation.succeeded"}
          /\ phase' = "rejected"
          /\ UNCHANGED effects
       \/ /\ r.trigger \in {"state.changed", "mutation.succeeded"}
          /\ UNCHANGED <<phase, effects>>     \* not asked, or not met
       \/ /\ Triggered(r)
          /\ phase' = "rejected"              \* the condition or an effect throws
          /\ UNCHANGED effects
       \/ /\ Triggered(r) /\ \A e \in r.effects : Known(e)
          /\ effects' = Matched(r)
          /\ UNCHANGED phase
  /\ rule' = rule + 1
  /\ UNCHANGED <<dsl, page, event, planning, commands, calls, results>>

\* Slip: what the rules ask for goes first.
MergeBackward(planned, asked) == InOrder(asked) \o Kept(planned, Range(planned) \ asked)

\* mergeStableIds: what the rules add comes after the plan, once.
Merge(planned, asked) == planned \o InOrder(asked \ Range(planned))

\* buildManagerCommands
BuildCommands ==
  /\ phase = "rules" /\ rule = Len(page.rules)
  /\ LET of(kind) == Merge(Kept(order, kind), effects.targets \cap kind)
     IN  commands' = (IF effects.patch = {} THEN << >> ELSE <<Patch>>)
                     \o of(Datasources) \o of(Actions)
  /\ phase' = "execute"
  /\ UNCHANGED <<dsl, page, event, planning, rule, effects, calls, results>>

----------------------------------------------------------------------------
Command == commands[Len(results) + 1]

\* One turn of executeRuntimeInteractionPlan: the host did it ...
CommandSucceeds ==
  /\ phase = "execute" /\ Len(results) < Len(commands)
  /\ calls' = Append(calls, [command |-> Command, ok |-> TRUE])
  /\ results' = Append(results, Command)
  /\ UNCHANGED <<dsl, page, event, phase, planning, rule, effects, commands>>

\* Slip: a failure is recorded and the loop goes on.
CommandFailureRecorded ==
  /\ phase = "execute" /\ Len(results) < Len(commands)
  /\ calls' = Append(calls, [command |-> Command, ok |-> FALSE])
  /\ results' = Append(results, Command)
  /\ UNCHANGED <<dsl, page, event, phase, planning, rule, effects, commands>>

\* ... or threw: the results so far are lost with the call.
CommandFails ==
  /\ phase = "execute" /\ Len(results) < Len(commands)
  /\ calls' = Append(calls, [command |-> Command, ok |-> FALSE])
  /\ phase' = "rejected"
  /\ UNCHANGED <<dsl, page, event, planning, rule, effects, commands, results>>

FinishExecution ==
  /\ phase = "execute" /\ Len(results) = Len(commands)
  /\ phase' = "done"
  /\ UNCHANGED <<dsl, page, event, planning, rule, effects, commands, calls, results>>

\* createRuntimeManagerExecutionWsEvent, made of what execution returned.
ExecutedEvent ==
  [patch |-> IF Patch \in Range(results) THEN effects.patch ELSE {},
   refreshed |-> Kept(results, Datasources),
   ran |-> Kept(results, Actions)]

Over == phase \in {"done", "rejected"} /\ UNCHANGED vars

Next ==
  \/ ParsePage \/ BuildGraph \/ Expand \/ CountEdges \/ Emit \/ FinishSort
  \/ EvaluateRule \/ BuildCommands
  \/ CommandSucceeds \/ CommandFails \/ FinishExecution
  \/ Over

Spec == Init /\ [][Next]_vars

----------------------------------------------------------------------------
\* What the page says as it is written: all that is inside a value, the state
\* keys mentioned anywhere in a definition, what a change of keys refreshes, what
\* feeds what, and what the event reaches.
Inside(value) ==
  LET upto[n \in 0 .. Depth(value)] ==
        IF n = 0 THEN {value}
        ELSE LET outer == upto[n - 1] IN outer \cup UNION {Range(v.parts) : v \in outer}
  IN  upto[Depth(value)]

Definitions == Range(dsl.datasources \o dsl.actions)
Mentioned(d) == UNION {v.keys : v \in Inside(d.body)}

Refreshed(keys) ==
  {d.id : d \in {c \in Definitions :
                   /\ Mentioned(c) \cap keys # {}
                   /\ c \in Range(dsl.actions) => c.trigger = "state.changed"}}

Feeds ==
  [t \in {d.id : d \in Definitions} |->
     Refreshed(UNION {Outputs(d) : d \in {c \in Definitions : c.id = t}}) \ {t}]

Planned ==
  DependencyClosure(Feeds,
    IF event.type = "state.changed"
      THEN Refreshed(event.keys)
      ELSE UNION {a.refresh \cup a.run : a \in {b \in Range(dsl.actions) : b.id = event.action}})

ArgumentsInside(arg) ==
  LET upto[n \in 0 .. Depth(arg)] ==
        IF n = 0 THEN {arg}
        ELSE LET outer == upto[n - 1] IN outer \cup UNION {Range(a.args) : a \in outer}
  IN  upto[Depth(arg)]

\* A rule the event concerns: it waits for this kind of event, and if its
\* condition looks at the state, at a key that has changed.
Concerns(r) ==
  LET inside == UNION {ArgumentsInside(a) : a \in Range(r.args)}
      looked == {a.key : a \in {b \in inside : b.source = "state"}}
  IN  /\ r.trigger = event.type
      /\ event.type = "state.changed" /\ looked # {} => looked \cap event.keys # {}

\* parseRuntimePageDsl, buildDependencyGraph and planRefresh: the plan is what
\* the event reaches by what the page mentions at any depth of its definitions,
\* each target once and after every planned target that feeds it.  A page that
\* passed assertAcyclic never gets "contains a dependency cycle".
PlanIsExact ==
  (phase = "sort" /\ Ready = {}) \/ phase \in {"rules", "execute", "done"} =>
    /\ Range(order) = Planned
    /\ \A i, j \in DOMAIN order :
         i < j => order[i] # order[j] /\ order[i] \notin Feeds[order[j]]

\* evaluateRules: an effect comes from a rule the event concerns, however deep in
\* its condition the state is looked at.
EffectsAreAskedFor ==
  LET asked == UNION {Range(r.effects) : r \in {q \in Range(dsl.rules) : Concerns(q)}}
  IN  /\ \A k \in effects.patch : \E e \in asked : e.type = "setState" /\ e.key = k
      /\ \A t \in effects.targets : \E e \in asked : e.type = "target" /\ e.target = t

\* buildManagerCommands: all that was planned or asked for by a rule is
\* commanded once, the patch before everything else; and of two planned targets
\* of a kind the one that feeds the other goes first, even if the way from one to
\* the other leads through the other kind.
CommandsFollowPlan ==
  phase \in {"execute", "done"} =>
    LET before(t, u) == \E i, j \in DOMAIN commands :
                          i < j /\ commands[i] = t /\ commands[j] = u
    IN  /\ Range(commands) \ {Patch} = Planned \cup effects.targets
        /\ \A c \in Range(commands) : ~before(c, c)
        /\ effects.patch # {} <=> Patch \in Range(commands)
        /\ \A t \in Range(commands) : ~before(t, Patch)
        /\ \A t \in Planned : \A u \in DependencyClosure(Feeds, {t}) \ {t} :
             (t \in Datasources <=> u \in Datasources) => before(t, u)

\* executeRuntimeInteractionPlan fails fast: after a command that failed the
\* host is given nothing more and nothing is announced; what is announced after
\* a success is what was done, all of it and in the order it was done.
ToldIsDone ==
  /\ \A i \in DOMAIN calls :
       /\ calls[i].command = commands[i]
       /\ ~calls[i].ok => i = Len(calls) /\ phase = "rejected"
  /\ phase = "done" =>
       /\ Len(calls) = Len(commands)
       /\ ExecutedEvent.patch = effects.patch
       /\ Planned \cup effects.targets = Range(ExecutedEvent.refreshed \o ExecutedEvent.ran)
=============================================================================
