----------------------------- MODULE NodeValues -----------------------------
(***************************************************************************)
(* What the nodes of a view compute from each other: expressions, the      *)
(* places they are looked up in, the four kinds of node, and the edges the *)
(* compiler finds in a definition.  RuntimeExecutor takes edges as given   *)
(* and results as opaque; here a layer is one step and the values in it    *)
(* are what the executors return.                                          *)
(*                                                                         *)
(* A value is tagged: [undef |-> TRUE], [null |-> TRUE], [num |-> n],      *)
(* [bool |-> b], [text |-> pieces], [arr |-> items], [obj |-> members].    *)
(* An expression is a value in which a text may hold pieces                *)
(* [path |-> segments] for {{a.b}} beside [lit |-> characters].            *)
(***************************************************************************)
EXTENDS PlanGraph, Integers, SequencesExt

CONSTANTS
  Views,    \* [nodes, output, submit]: definitions by node id, and the expressions of the output
  Contexts, \* what a request brings: [input, extra], members of request.input and request.context
  KeyOrder, \* the order in which Object.entries lists the keys of an object
  Hooks,    \* the merge hooks the host has registered
  Expressions,  \* everything the definitions are made of, at any depth
  Depth(_)      \* how deep it goes inside one of them

VARIABLES
  view, request,
  status,   \* "new", "running", "done", or what refused or failed the plan
  edges,    \* of the plan being executed
  state,    \* currentState: results by node id
  viewModel

vars == <<view, request, status, edges, state, viewModel>>

-----------------------------------------------------------------------------
(* Values.                                                                 *)

Undefined == [undef |-> TRUE]
Null == [null |-> TRUE]
Failure == [failure |-> TRUE]     \* an executor threw
Num(n) == [num |-> n]
Bool(b) == [bool |-> b]
Arr(s) == [arr |-> s]
Obj(f) == [obj |-> f]
Text(s) == [text |-> s]
Lit(s) == Text(<<[lit |-> s]>>)
At(path) == Text(<<[path |-> path]>>)   \* the expression {{path}}

Is(tag, v) == tag \in DOMAIN v
Absent(v) == Is("undef", v) \/ Is("null", v)
Falsy(v) == Absent(v) \/ v \in {Bool(FALSE), Num(0), Text(<<>>)}
Entries(f) == SelectSeq(KeyOrder, LAMBDA k : k \in DOMAIN f)

\* {...under, ...over}
Spread(over, under) ==
  [k \in DOMAIN over \cup DOMAIN under |-> IF k \in DOMAIN over THEN over[k] ELSE under[k]]

Parts(e) ==
  CASE Is("arr", e) -> Range(e.arr)
    [] Is("obj", e) -> Range(e.obj)
    [] OTHER -> {}

\* One tag each, and JSON ends somewhere.
ASSUME NestingAssumption ==
  \A e \in Expressions :
    /\ \E tag \in DOMAIN e : DOMAIN e = {tag}
    /\ Depth(e) \in Nat
    /\ \A part \in Parts(e) : part \in Expressions /\ Depth(part) < Depth(e)

\* EXPRESSION_PATTERN matches no path without a segment.
ASSUME PathsAssumption ==
  \A e \in Expressions : Is("text", e) =>
    /\ e.text \in Seq(Range(e.text))
    /\ \A i \in DOMAIN e.text : Is("path", e.text[i]) => e.text[i].path \in Seq(STRING) \ {<<>>}

\* Definitions and the output are such values, a submit list is one of names.
ASSUME ViewsAssumption ==
  \A v \in Views : Range(v.nodes) \cup {v.output} \subseteq Expressions /\ v.submit \in Seq(STRING)

\* current[segment]
Member(v, segment) ==
  IF Is("obj", v) /\ segment \in DOMAIN v.obj THEN v.obj[segment] ELSE Undefined

\* Node results other than a query's are {value: ...}; a path may leave that out.
MemberOrValue(v, segment) ==
  IF Is("obj", v) /\ segment \in DOMAIN v.obj
    THEN v.obj[segment]
    ELSE Member(Member(v, "value"), segment)

GetNested(source, path) ==
  LET current[i \in 0 .. Len(path)] ==
        IF i = 0 THEN source ELSE Member(current[i - 1], path[i])
  IN  current[Len(path)]

GetWithValueFallback(source, path) ==
  LET current[i \in 0 .. Len(path)] ==
        IF i = 0 THEN source ELSE MemberOrValue(current[i - 1], path[i])
  IN  current[Len(path)]

-----------------------------------------------------------------------------
(* Where an expression is looked up: env is [kind, state, context], kind   *)
(* the node's type or "output".                                            *)

\* Slip: the request's context comes before the results of the nodes.
ContextFirst(env, path) ==
  IF GetNested(env.context, path) # Undefined
    THEN GetNested(env.context, path)
    ELSE GetWithValueFallback(env.state, path)

\* The sources of merge, mutation and transform nodes, three copies of one class.
ValueSource(env, path) ==
  IF GetWithValueFallback(env.state, path) # Undefined
    THEN GetWithValueFallback(env.state, path)
    ELSE GetNested(env.context, path)

\* QueryExpressionStateSource: two names for the context and one for the state.
QuerySource(env, path) ==
  CASE Len(path) > 1 /\ path[1] \in {"context", "ctx"} -> GetNested(env.context, Tail(path))
    [] Len(path) > 1 /\ path[1] = "state" -> GetWithValueFallback(env.state, Tail(path))
    [] OTHER -> ValueSource(env, path)

\* createRuntimeExpressionStateSource, for the output.
OutputSource(env, path) ==
  IF GetWithValueFallback(env.state, path) # Undefined
    THEN GetWithValueFallback(env.state, path)
    ELSE GetWithValueFallback(env.context, path)

Lookup(env, path) ==
  CASE env.kind = "query" -> QuerySource(env, path)
    [] env.kind = "output" -> OutputSource(env, path)
    [] OTHER -> ValueSource(env, path)

\* What an expression inside a longer text turns into.
Rendered(v) ==
  CASE Absent(v) -> <<>>
    [] Is("text", v) -> v.text
    [] Is("obj", v) -> <<[lit |-> "[object Object]"]>>
    [] OTHER -> <<v>>

\* A text that is one expression keeps the type of its value.
ResolveString(pieces, env) ==
  IF Len(pieces) = 1 /\ Is("path", pieces[1])
    THEN Lookup(env, pieces[1].path)
    ELSE Text(FlattenSeq([i \in DOMAIN pieces |->
                IF Is("path", pieces[i]) THEN Rendered(Lookup(env, pieces[i].path))
                                         ELSE <<pieces[i]>>]))

Resolve(expression, env) ==
  LET resolve[e \in Expressions] ==
        IF Is("text", e) THEN ResolveString(e.text, env)
        ELSE IF Is("arr", e) THEN Arr([i \in DOMAIN e.arr |-> resolve[e.arr[i]]])
        ELSE IF Is("obj", e) THEN Obj([k \in DOMAIN e.obj |-> resolve[e.obj[k]]])
        ELSE e
  IN  resolve[expression]

\* The paths an expression mentions.
PathsIn(pieces) == {pieces[i].path : i \in {j \in DOMAIN pieces : Is("path", pieces[j])}}

PathsOf(expression) ==
  LET visit[e \in Expressions] ==
        IF Is("text", e) THEN PathsIn(e.text) ELSE UNION {visit[part] : part \in Parts(e)}
  IN  visit[expression]

Roots(e) == {p[1] : p \in PathsOf(e)}

-----------------------------------------------------------------------------
(* The executors.  What a failed one throws is not told apart.             *)

\* What the parties outside answer: the rows of a datasource show what the request
\* filtered on, a written row is its payload, a hook returns what it was given.
RowsOf(query) ==
  IF Is("obj", Member(query, "filters")) THEN <<Member(query, "filters")>> ELSE <<>>
AdapterRow(payload) == payload
HookResult(inputs) == Obj([hooked |-> Obj(inputs)])

\* resolveMergeInputs, but for the refusal of what stays undefined.
ResolveInputs(def, env) ==
  LET inputs == Member(def, "inputs")
  IN  [k \in IF Is("obj", inputs) THEN DOMAIN inputs.obj ELSE {} |-> Resolve(inputs.obj[k], env)]

\* executeMergeNode: every input must resolve; then by strategy.
ExecuteMerge(def, resolved) ==
  LET strategy == IF Absent(Member(def, "strategy")) THEN Lit("objectMerge")
                                                     ELSE Member(def, "strategy")
      keys == Entries(resolved)
  IN  CASE DOMAIN resolved = {} -> Failure
        [] \E k \in DOMAIN resolved : resolved[k] = Undefined -> Failure
        [] strategy = Lit("objectMerge") -> Obj(resolved)
        [] strategy = Lit("arrayConcat") ->
             IF \A k \in DOMAIN resolved : Is("arr", resolved[k])
               THEN Arr(FlattenSeq([i \in DOMAIN keys |-> resolved[keys[i]].arr]))
               ELSE Failure
        [] strategy = Lit("custom") ->
             IF Member(def, "hook") \in Hooks THEN HookResult(resolved) ELSE Failure
        [] OTHER -> Failure

\* executeMutationNode: a condition that resolves to nothing does not hold it back.
ExecuteMutation(node) ==
  LET condition == Member(node, "condition")
      payload == IF Member(node, "payload") = Undefined THEN Obj([k \in {} |-> Null])
                                                         ELSE Member(node, "payload")
      report(skipped, row) ==
        Obj([skipped |-> Bool(skipped), model |-> Member(node, "model"),
             payload |-> payload, row |-> row])
  IN  CASE ~(Is("text", Member(node, "model")) /\ Member(node, "model").text # <<>>) -> Failure
        [] Member(node, "operation") \notin {Lit("create"), Lit("update"), Lit("delete")} -> Failure
        [] ~Is("obj", payload) -> Failure
        [] ~Absent(condition) /\ Falsy(condition) -> report(TRUE, Null)
        [] OTHER -> report(FALSE, AdapterRow(payload))

\* buildQueryRequest and its readers.
ValidRequest(source) ==
  LET name(v) == Is("text", v) /\ v.text # <<>>
      scalar(v) == Is("text", v) \/ Is("num", v) \/ Is("bool", v)
      fields == Member(source, "fields")
      filters == Member(source, "filters")
      limit == Member(source, "limit")
  IN  /\ name(Member(source, "table"))
      /\ Is("arr", fields) /\ fields.arr # <<>> /\ \A i \in DOMAIN fields.arr : name(fields.arr[i])
      /\ \/ filters = Undefined
         \/ Is("obj", filters) /\ \A k \in DOMAIN filters.obj : scalar(filters.obj[k])
      /\ Absent(limit) \/ limit = Text(<<>>) \/ Is("num", limit)

\* executeQueryNode, the permission and the SQL of which are QueryScope's.
ExecuteQuery(node) ==
  LET source == IF Is("obj", Member(node, "request")) THEN Member(node, "request") ELSE node
  IN  IF ValidRequest(source) THEN Arr(RowsOf(source)) ELSE Failure

\* normalizeNodeResult
Normalized(type, result) ==
  CASE result = Failure -> Failure
    [] result # Failure /\ type = "query" ->
         Obj([rows |-> result, row |-> IF result.arr = <<>> THEN Null ELSE result.arr[1]])
    [] OTHER -> Obj([value |-> result])

TypeOf(def) == Member(def, "type").text[1].lit

\* executeNode and the executors of createRuntimeViewExecutors.
Execute(def, results, context) ==
  LET env == [kind |-> TypeOf(def), state |-> Obj(results), context |-> context]
      type == TypeOf(def)
  IN  Normalized(type, CASE type = "query" -> ExecuteQuery(Resolve(def, env))
                         [] type = "mutation" -> ExecuteMutation(Resolve(def, env))
                         [] type = "merge" -> ExecuteMerge(def, ResolveInputs(def, env))
                         [] OTHER -> Resolve(def, env))

-----------------------------------------------------------------------------
(* The plan.                                                               *)

ContextRoots == {"input", "params", "user", "ctx", "context", "state"}

\* Slip: the names of the context are taken out before the nodes are looked for.
ContextRootsFirst(e, known) == (Roots(e) \ ContextRoots) \cap known

\* collectExpressionDependencies: a node of the view hides a root of the context.
Dependencies(e, known) == Roots(e) \cap known

Unknown(e, known) == Roots(e) \ (known \cup ContextRoots)

\* buildExecutionPlan and compileViewDefinition refuse the view.
Refused(v) ==
  LET known == DOMAIN v.nodes
  IN  \/ known = {}
      \/ \E n \in known : TypeOf(v.nodes[n]) \notin {"query", "mutation", "transform", "merge"}
      \/ \E e \in {v.nodes[n] : n \in known} \cup {v.output} : Unknown(e, known) # {}
      \/ ~(Range(v.submit) \subseteq known)
      \/ ~Is("obj", v.output)

\* Of the names of a submit list, each where it stands first.
UniqueNodeIds(names) ==
  LET firsts == {i \in DOMAIN names : \A j \in 1 .. i - 1 : names[j] # names[i]}
      place(k) == CHOOSE i \in firsts : Cardinality({j \in firsts : j <= i}) = k
  IN  [k \in 1 .. Cardinality(firsts) |-> names[place(k)]]

\* executeSubmitPlan: the needs of the submit list, chained; without a list the view.
PlanEdges(v) ==
  LET all == [n \in DOMAIN v.nodes |-> Dependencies(v.nodes[n], DOMAIN v.nodes)]
      ids == UniqueNodeIds(v.submit)
      needed == DependencyClosure(all, Range(ids))
      chained[i \in 1 .. Len(ids)] ==
        IF i = 1 THEN FilterEdges(all, needed) ELSE ChainEdge(chained[i - 1], ids[i], ids[i - 1])
  IN  IF v.submit = <<>> THEN all ELSE chained[Len(ids)]

\* buildRuntimeGatewayContext: what the request brings is found at the top and again
\* under "context", and hides there what the gateway puts beside it.
RuntimeContext(r) ==
  LET identity == [requestId |-> Lit("r1"), userId |-> Lit("u1"), tenantId |-> Lit("t1")]
      beside == [auth |-> Obj([userId |-> Lit("u1")]), orgScope |-> Obj([userId |-> Lit("u1")]),
                 context |-> Obj(Spread(r.extra, identity))]
  IN  Obj(Spread(beside, Spread(r.extra, Spread([input |-> Obj(r.input)], identity))))

Context == RuntimeContext(request)

Init ==
  /\ view \in Views
  /\ request \in Contexts
  /\ status = "new"
  /\ edges = <<>>
  /\ state = <<>>
  /\ viewModel = Undefined

\* compileViewDefinition, executeSubmitPlan and the cycle check.
Compile ==
  /\ status = "new"
  /\ IF Refused(view)
       THEN status' = "refused" /\ UNCHANGED edges
       ELSE /\ edges' = PlanEdges(view)
            /\ status' = IF HasCycle(PlanEdges(view)) THEN "cyclic" ELSE "running"
  /\ UNCHANGED <<view, request, state, viewModel>>

\* One iteration of the layer loop: all nodes of the layer read the same snapshot;
\* when one of them fails none of their results is committed.
ExecuteLayer ==
  /\ status = "running"
  /\ DOMAIN state # DOMAIN edges
  /\ LET layer == NextLayer(edges, DOMAIN state)
          results == [n \in layer |-> Execute(view.nodes[n], state, Context)]
      IN  IF \E n \in layer : results[n] = Failure
            THEN status' = "failed" /\ UNCHANGED state
            ELSE state' = Spread(results, state) /\ UNCHANGED status
  /\ UNCHANGED <<view, request, edges, viewModel>>

\* The output of the plan is resolved; nothing in it can fail.
ResolveOutput ==
  /\ status = "running"
  /\ DOMAIN state = DOMAIN edges
  /\ status' = "done"
  /\ viewModel' = Resolve(view.output, [kind |-> "output", state |-> Obj(state), context |-> Context])
  /\ UNCHANGED <<view, request, edges, state>>

Next == Compile \/ ExecuteLayer \/ ResolveOutput

Spec == Init /\ [][Next]_vars

-----------------------------------------------------------------------------
(* Properties.                                                             *)

\* The results a query reaches by {{state.x}}, a spelling that its lookup follows and
\* that the compiler finds no dependency in: that of x and, as a "value" may be left
\* out, one called "value" that x may be inside.
Spelled(n) == {q \in PathsOf(view.nodes[n]) : q[1] = "state" /\ Len(q) > 1}

Aliased(n) ==
  {m \in DOMAIN state :
     TypeOf(view.nodes[n]) = "query" /\ \E q \in Spelled(n) : m \in {q[2], "value"}}

\* A node's result is a function of the results it names and of the request: whatever
\* else shared its snapshot, because of layers or of the order of a submit list, made
\* no difference.  Only a result a query reaches through {{state.x}} may or may not have
\* been there.
SeesOnlyDependencies ==
  \A n \in DOMAIN state :
    LET named == Roots(view.nodes[n]) \cap DOMAIN view.nodes
    IN  /\ named \subseteq DOMAIN state
        /\ \E S \in SUBSET Aliased(n) :
             state[n] = Execute(view.nodes[n], Restrict(state, named \cup S), Context)

\* What the gateway sets at the top of the context whatever the request brought.
Reserved == {"auth", "orgScope", "context"}

\* An expression means the same wherever it stands: in a merge, mutation or transform,
\* in a query unless it begins with one of the three roots only queries know (there it
\* means no less: what "context" holds is at the top as well, but for the reserved
\* names), and in the output unless it means nothing elsewhere and leaves out a "value".
\* What a node's result says is what is meant, whatever the request brought.
OneMeaning ==
  \A p \in (UNION {PathsOf(view.nodes[n]) : n \in DOMAIN view.nodes}) \cup PathsOf(view.output) :
    LET look(kind) == Lookup([kind |-> kind, state |-> Obj(state), context |-> Context], p)
        here == look("merge")
        own == GetWithValueFallback(state[p[1]], Tail(p))
    IN  /\ p[1] \notin {"ctx", "context", "state"} => look("query") = here
        /\ look("output") # here => here = Undefined
        /\ p[1] \in DOMAIN state /\ own # Undefined => here = own /\ look("output") = own
        /\ p[1] = "context" /\ p[1] \notin DOMAIN view.nodes /\ here # Undefined =>
             look("query") = here \/ (Len(p) > 1 /\ p[2] \in Reserved)

=============================================================================
