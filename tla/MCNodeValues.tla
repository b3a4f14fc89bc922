---------------------------- MODULE MCNodeValues ----------------------------
(***************************************************************************)
(* Views of three nodes for NodeValues: a query, a node called "user" like *)
(* one of the roots of the context, and a mutation, each with expressions  *)
(* that name each other, the request in its several spellings, themselves, *)
(* and nothing at all.                                                     *)
(***************************************************************************)
EXTENDS NodeValues

MCKeyOrder == <<"a", "b", "who">>

MCHooks == {Lit("join")}

Query(filters) ==
  Obj([type |-> Lit("query"), table |-> Lit("orders"), fields |-> Arr(<<Lit("id")>>),
       filters |-> Obj(filters)])

Orders ==
  {Query([id |-> At(path)]) :
     path \in {<<"input", "id">>, <<"input", "none">>, <<"ctx", "region">>, <<"context", "region">>,
               <<"user", "name">>, <<"state", "user", "name">>}}
  \cup {Obj([type |-> Lit("query"), table |-> Lit("orders"), fields |-> Arr(<<>>)]),
        Obj([type |-> Lit("query"), request |-> Query([id |-> Num(1)])]),
        Obj([type |-> Lit("query"), table |-> At(<<"input", "id">>), fields |-> Arr(<<Lit("id")>>),
             limit |-> At(<<"input", "list">>)])}

Merge(strategy, inputs) ==
  Obj([type |-> Lit("merge"), strategy |-> strategy, hook |-> Lit("join"), inputs |-> Obj(inputs)])

Users ==
  {Obj([type |-> Lit("transform"), name |-> At(<<"input", "id">>)]),
   Obj([type |-> Lit("transform"),
        name |-> Text(<<[lit |-> "no. "], [path |-> <<"orders", "row", "id">>], [path |-> <<"input", "none">>]>>)]),
   Merge(Undefined, [name |-> At(<<"orders", "row", "id">>), a |-> At(<<"user2", "x">>)]),
   Merge(Undefined, [name |-> At(<<"orders", "row">>), a |-> At(<<"context", "region">>)]),
   Merge(Undefined, [name |-> At(<<"ctx", "region">>)]),
   Merge(Lit("arrayConcat"), [a |-> At(<<"orders", "rows">>), b |-> At(<<"input", "list">>)]),
   Merge(Lit("arrayConcat"), [a |-> At(<<"input", "id">>)]),
   Merge(Lit("custom"), [a |-> At(<<"orders">>)]),
   Merge(Lit("zip"), [a |-> Num(1)]),
   Obj([type |-> Lit("merge"), strategy |-> Lit("custom"), hook |-> Lit("gone"), inputs |-> Obj([a |-> Num(1)])]),
   Obj([type |-> Lit("script")])}

Mutation(operation, payload, condition) ==
  Obj([type |-> Lit("mutation"), model |-> Lit("orders"), operation |-> Lit(operation),
       payload |-> payload, condition |-> condition])

Saves ==
  {Mutation("create", Obj([who |-> At(<<"user", "name">>)]), Undefined),
   Mutation("update", At(<<"orders", "row">>), At(<<"user", "name">>)),
   Mutation("delete", Undefined, At(<<"input", "flag">>)),
   Mutation("update", Obj([who |-> At(<<"user", "id">>)]), At(<<"input", "none">>)),
   Mutation("upsert", Undefined, Undefined),
   Mutation("create", At(<<"save", "row">>), Undefined),
   Mutation("create", At(<<"input", "id">>), Undefined)}

Output ==
  Obj([rows |-> At(<<"orders", "rows">>), name |-> At(<<"user", "name">>),
       who |-> At(<<"save", "row", "who">>), skipped |-> At(<<"save", "value", "skipped">>),
       note |-> At(<<"input", "note">>), nick |-> At(<<"user", "nick">>),
       kind |-> At(<<"context", "auth", "kind">>)])

\* A query called "value", and one that looks into it without naming it.
Rows == Query([id |-> Num(1)])
Late == Query([id |-> At(<<"state", "row", "id">>)])

\* Outputs of that view: one of a node, one of no node, and one that is no object.
Answers == {Obj([a |-> At(<<"late">>)]), Obj([a |-> At(<<"nobody">>)]), At(<<"late">>)}

MCViews ==
  {[nodes |-> [orders |-> q, user |-> u, save |-> s], output |-> Output, submit |-> l] :
     q \in Orders, u \in Users, s \in Saves,
     l \in {<<>>, <<"save">>, <<"user", "save", "user">>, <<"save", "orders">>}}
  \cup
  {[nodes |-> [value |-> Rows, late |-> Late], output |-> o, submit |-> l] :
     o \in Answers, l \in {<<>>, <<"value", "late">>, <<"late", "value">>, <<"nobody">>}}

RECURSIVE MCDepth(_)
MCDepth(e) == IF Parts(e) = {} THEN 0 ELSE 1 + Max({MCDepth(part) : part \in Parts(e)})

WithParts(S) == S \cup UNION {Parts(e) : e \in S}

\* A query that has its request inside is the deepest.
AllExpressions ==
  WithParts(WithParts(WithParts(Orders \cup Users \cup Saves \cup
                                {Output, Rows, Late} \cup Answers)))

MCExpressions == AllExpressions

MCContexts ==
  {[input |-> [id |-> Num(7), flag |-> f, list |-> Arr(<<Num(1), Num(2)>>),
               value |-> Obj([note |-> Lit("wrapped")])],
    extra |-> [region |-> Lit("north"), auth |-> Obj([kind |-> Lit("brought")]),
               user |-> Obj([id |-> Lit("u1"), name |-> Lit("brought"),
                             value |-> Obj([nick |-> Lit("u")])])]] :
     f \in {Bool(TRUE), Bool(FALSE)}}
=============================================================================
