----------------------------- MODULE QueryScope -----------------------------
(***************************************************************************)
(* One query node: the data scope of the user, the permission predicate    *)
(* that goes into the query tree, the compilation of the tree to SQL and   *)
(* its execution, with the audit events of executeQueryNode.  SQL text is  *)
(* kept as far as AND and OR next to each other need it: a text is a       *)
(* sequence of alternatives, an alternative a sequence of units, because   *)
(* AND binds tighter, and a unit is a condition or a text in parentheses.  *)
(* Limits and the selected columns are left out.                           *)
(***************************************************************************)
EXTENDS PlanGraph, SequencesExt, Integers

CONSTANTS
  Contexts,   \* [tenantId, userId, roles, brought, orgScope]: whom a request is sent as,
              \* what request.context calls so, and the scope resolved for the former
  Read(_),    \* readContextString: the text of a value without blanks around it
  Requests,   \* [filters, identifiers]: resolved query nodes
  Table,      \* the rows of the queried table
  Null,       \* null
  Missing     \* read where there is no text, or only blanks

VARIABLES
  context, request,
  step,      \* "build", "transform", "compile", "execute", "done", "failed"
  where,     \* the predicate of the tree, << >> if it has none
  sql,       \* the compiled condition
  params,    \* and its parameters
  rows,      \* what the database returned
  trail      \* audit events

vars == <<context, request, step, where, sql, params, rows, trail>>

Priority == [SELF |-> 10, DEPT |-> 20, DEPT_AND_CHILDREN |-> 30,
             CUSTOM_ORG_SET |-> 40, TENANT_ALL |-> 50]

SupportedExactFilters ==
  {"status", "owner", "channel", "priority", "org_id", "tenant_id", "created_by"}

\* buildRuntimeGatewayContext spreads request.context over what the request is sent as,
\* and context[key] ?? auth[key] gets the latter back where the former is null.
Given(c, key) ==
  IF key \in DOMAIN c.brought /\ c.brought[key] # Null THEN c.brought[key] ELSE c[key]

\* readContextStringArray; what is no array stands as one without a text.
ReadAll(list) == [i \in DOMAIN list |-> Read(list[i])]

\* buildPermissionContext: the scope is of the user the request is sent as, whatever
\* tenantId and userId say.
PermissionOf(c) ==
  [tenantId |-> Read(Given(c, "tenantId")), userId |-> Read(Given(c, "userId")),
   roles |-> ReadAll(Given(c, "roles")),
   orgScope |-> [c.orgScope EXCEPT !.roles = ReadAll(@), !.userOrgIds = {Read(id) : id \in @}]]

\* readContextString throws.
Unreadable(p) ==
  Missing \in {p.tenantId, p.userId} \cup Range(p.roles)
                \cup Range(p.orgScope.roles) \cup p.orgScope.userOrgIds

Permission == PermissionOf(context)

\* What the path of everything below an organisation begins with.
PathBelow(path) == IF Last(path) = "/" THEN path ELSE Append(path, "/")

\* Identifiers are not null, and a query names finitely many organisations.
AreOrganisations(ids) == IsFiniteSet(ids) /\ Null \notin ids

Wellformed(p) ==
  LET scope == p.orgScope IN
  /\ Null \notin {p.tenantId, p.userId}
  /\ DOMAIN scope = {"roles", "rolePolicies", "userOrgIds", "orgNodes"}
  /\ scope.roles \in Seq(STRING)
  /\ scope.rolePolicies \in Seq(Range(scope.rolePolicies))
  /\ \A policy \in Range(scope.rolePolicies) :
       policy.scope \in DOMAIN Priority /\ AreOrganisations(policy.customOrgIds)
  /\ AreOrganisations(scope.userOrgIds) /\ AreOrganisations({n.id : n \in scope.orgNodes})

\* Stored paths spell the tree: an organisation's path is its parent's, a slash
\* and a name, and one without parent lies below no other.
Spelled(nodes) ==
  /\ \A n \in nodes : n.path # << >> /\ n.path \in Seq(Range(n.path))
  /\ \A n, m \in nodes : n.id = m.id \/ PathBelow(n.path) = PathBelow(m.path) => n = m
  /\ \A n, m \in nodes : LET start == Len(PathBelow(n.path)) IN
       m.parentId = n.id => /\ IsPrefix(PathBelow(n.path), m.path) /\ start < Len(m.path)
                            /\ \A i \in start + 1 .. Len(m.path) : m.path[i] # "/"
  /\ \A n, m \in nodes :
       n # m /\ IsPrefix(PathBelow(n.path), m.path) => \E k \in nodes : m.parentId = k.id

ASSUME ContextsAssumption ==
  \A c \in Contexts : Wellformed(PermissionOf(c)) /\ Spelled(PermissionOf(c).orgScope.orgNodes)

\* Filters are values of columns.
ASSUME RequestsAssumption ==
  \A r \in Requests :
    /\ r.filters \in Seq(Range(r.filters))
    /\ \A f \in Range(r.filters) :
         /\ f.value # Null
         /\ f.key \in SupportedExactFilters => \A row \in Table : f.key \in DOMAIN row

First(S) == CHOOSE n \in S : \A m \in S : n <= m

----------------------------------------------------------------------------
\* The policy of a role: configured or built in, if it has one.
HasPolicy(scope, role) ==
  role \in {p.role : p \in Range(scope.rolePolicies)} \cup {"SUPER_ADMIN", "MANAGER"}

PolicyOf(scope, role) ==
  LET configured == {i \in DOMAIN scope.rolePolicies : scope.rolePolicies[i].role = role}
  IN  IF configured # {} THEN scope.rolePolicies[First(configured)]
      ELSE [role |-> role, customOrgIds |-> {},
            scope |-> IF role = "SUPER_ADMIN" THEN "TENANT_ALL" ELSE "DEPT_AND_CHILDREN"]

\* The policies of the user's roles, each at the place of its role.
Policies(scope) ==
  [i \in {j \in DOMAIN scope.roles : HasPolicy(scope, scope.roles[j])} |->
     PolicyOf(scope, scope.roles[i])]

\* Slip: the first policy, whatever its priority.
FirstPolicy(policies) ==
  IF DOMAIN policies = {} THEN [scope |-> "SELF", customOrgIds |-> {}]
  ELSE policies[First(DOMAIN policies)]

\* pickStrongestPolicy: the first one of the highest priority.
Strongest(policies) ==
  LET rank(i) == Priority[policies[i].scope]
  IN  IF DOMAIN policies = {} THEN [scope |-> "SELF", customOrgIds |-> {}]
      ELSE policies[First({i \in DOMAIN policies : \A j \in DOMAIN policies : rank(j) <= rank(i)})]

\* expandDeptAndChildrenOrgIds: the user's organisations and all that is below
\* them, by path.
Expand(scope) ==
  LET base == {n \in scope.orgNodes : n.id \in scope.userOrgIds}
  IN  scope.userOrgIds \cup
        {n.id : n \in {m \in scope.orgNodes :
           \E b \in base : m.path = b.path \/ IsPrefix(PathBelow(b.path), m.path)}}

ResolveDataScope(scope) ==
  LET strongest == Strongest(Policies(scope))
      decision(orgs) == [scope |-> strongest.scope, allowedOrgIds |-> orgs]
  IN  CASE strongest.scope = "CUSTOM_ORG_SET" -> decision(strongest.customOrgIds)
        [] strongest.scope = "DEPT" -> decision(scope.userOrgIds)
        [] strongest.scope = "DEPT_AND_CHILDREN" -> decision(Expand(scope))
        [] strongest.scope \in {"SELF", "TENANT_ALL"} -> decision({})

Decision == ResolveDataScope(Permission.orgScope)

----------------------------------------------------------------------------
\* Predicates of a query tree

Compare(field, operator, value) ==
  [type |-> "comparison", field |-> field, operator |-> operator, value |-> value]
In(field, values) == [type |-> "in", field |-> field, values |-> values]
IsNull(field) == [type |-> "is_null", field |-> field]
Literal(value) == [type |-> "literal", value |-> value]
Logical(operator, predicates) ==
  [type |-> "logical", operator |-> operator, predicates |-> predicates]

\* buildSelectQueryAst: a blank keyword and an unsupported filter are dropped.
Used(f) == f.key \in SupportedExactFilters \/ (f.key = "keyword" /\ f.value # "")
FilterPredicate(f) ==
  IF f.key = "keyword"
    THEN Logical("or", <<Compare("id", "ilike", f.value), Compare("owner", "ilike", f.value)>>)
    ELSE Compare(f.key, "eq", f.value)
FilterPredicates(filters) ==
  LET predicates[n \in 0 .. Len(filters)] ==
        IF n = 0 THEN << >>
        ELSE IF Used(filters[n]) THEN Append(predicates[n - 1], FilterPredicate(filters[n]))
        ELSE predicates[n - 1]
  IN  predicates[Len(filters)]

\* buildPermissionPredicate
PermissionPredicate(decision) ==
  LET tenant == Compare("tenant_id", "eq", Permission.tenantId)
      own == Compare("created_by", "eq", Permission.userId)
  IN  CASE decision.scope = "TENANT_ALL" -> tenant
        [] decision.scope = "SELF" -> Logical("and", <<tenant, own>>)
        [] decision.scope \notin {"TENANT_ALL", "SELF"} ->
             IF decision.allowedOrgIds = {} THEN Literal(FALSE)
             ELSE Logical("and", <<tenant,
                    Logical("or", <<In("org_id", SetToSeq(decision.allowedOrgIds)),
                                    Logical("and", <<IsNull("org_id"), own>>)>>)>>)

\* mergeWhere
MergeWhere(existing, permission) ==
  IF existing = << >> THEN <<permission>>
  ELSE <<Logical("and", <<existing[1], permission>>)>>

----------------------------------------------------------------------------
\* Compilation

\* Texts joined by AND or OR, as text.
And(a, b) == Front(a) \o <<Last(a) \o Head(b)>> \o Tail(b)
JoinTexts(operator, a, b) == IF operator = "or" THEN a \o b ELSE And(a, b)

\* Slip: no parentheses.
Bare(text, isRoot) == text

Parenthesize(text, isRoot) ==
  IF isRoot THEN text ELSE <<<<[operator |-> "()", text |-> text]>>>>

\* A condition, and the parameters with the values it pushes onto them.
Condition(operator, field, given, values) ==
  [text |-> <<<<[operator |-> operator, field |-> field,
                 at |-> {Len(given) + i : i \in DOMAIN values}]>>>>,
   params |-> given \o values]

CompileCondition(p, given) ==
  CASE p.type = "comparison" -> Condition(p.operator, p.field, given, <<p.value>>)
    [] p.type = "in" -> Condition(IF p.values = << >> THEN "FALSE" ELSE "in", p.field, given, p.values)
    [] p.type = "is_null" -> Condition("is_null", p.field, given, << >>)
    [] p.type = "literal" -> Condition(IF p.value THEN "TRUE" ELSE "FALSE", "", given, << >>)

\* compilePredicate, with what it does to the predicates inside: their texts are
\* joined in order, and each pushes its parameters after those before it.
CompileBy(Inside(_, _), p, given, isRoot) ==
  IF p.type # "logical" THEN CompileCondition(p, given)
  ELSE LET joined[n \in 0 .. Len(p.predicates)] ==
             IF n = 0 THEN [text |-> << >>, params |-> given]
             ELSE LET child == Inside(p.predicates[n], joined[n - 1].params)
                  IN  [text |-> IF n = 1 THEN child.text
                                ELSE JoinTexts(p.operator, joined[n - 1].text, child.text),
                       params |-> child.params]
           all == joined[Len(p.predicates)]
       IN  [text |-> Parenthesize(all.text, isRoot), params |-> all.params]

\* The trees of executeQueryNode hold three levels of AND and OR below the root.
Compile1(p, given) == CompileBy(CompileCondition, p, given, FALSE)
Compile2(p, given) == CompileBy(Compile1, p, given, FALSE)
Compile3(p, given) == CompileBy(Compile2, p, given, FALSE)
Compile(p) == CompileBy(Compile3, p, << >>, TRUE)

----------------------------------------------------------------------------
\* Postgres: whether a condition is true of a row.  Nothing negates, so unknown,
\* what a comparison with NULL is, selects no more than false does.
IsTrue(u, given, row) ==
  CASE u.operator = "FALSE" -> FALSE
    [] u.operator = "TRUE" -> TRUE
    [] u.operator = "is_null" -> row[u.field] = Null
    [] u.operator \in {"eq", "ilike", "in"} ->
         row[u.field] # Null /\ \E i \in u.at : given[i] = row[u.field]

HoldsBy(Inside(_, _, _), text, given, row) ==
  \E i \in DOMAIN text : \A j \in DOMAIN text[i] :
    IF text[i][j].operator = "()" THEN Inside(text[i][j].text, given, row)
    ELSE IsTrue(text[i][j], given, row)

NoText(text, given, row) == FALSE
Holds1(text, given, row) == HoldsBy(NoText, text, given, row)
Holds2(text, given, row) == HoldsBy(Holds1, text, given, row)
Holds3(text, given, row) == HoldsBy(Holds2, text, given, row)
Holds(text, given, row) == HoldsBy(Holds3, text, given, row)

Selected(text, given) == {row \in Table : Holds(text, given, row)}

----------------------------------------------------------------------------
Init ==
  /\ context \in Contexts /\ request \in Requests
  /\ step = "build"
  /\ where = << >> /\ sql = << >> /\ params = << >> /\ rows = {} /\ trail = << >>

\* compiler.buildAst
BuildAst ==
  /\ step = "build"
  /\ LET predicates == FilterPredicates(request.filters)
     IN  where' = IF predicates = << >> THEN << >> ELSE <<Logical("and", predicates)>>
  /\ step' = "transform"
  /\ UNCHANGED <<context, request, sql, params, rows, trail>>

\* buildPermissionContext and permission.transform: a context in which a text is
\* missing is denied.
Transform ==
  /\ step = "transform"
  /\ \/ /\ Unreadable(Permission)
        /\ trail' = Append(trail, "permission.deny")
        /\ step' = "failed"
        /\ UNCHANGED where
     \/ /\ ~Unreadable(Permission)
        /\ where' = MergeWhere(where, PermissionPredicate(Decision))
        /\ trail' = Append(trail, "permission.allow")
        /\ step' = "compile"
  /\ UNCHANGED <<context, request, sql, params, rows>>

\* compiler.compileAst, which refuses a name that is no identifier.
CompileAst ==
  /\ step = "compile"
  /\ \/ /\ request.identifiers
        /\ LET c == Compile(where[1])
           IN  sql' = c.text /\ params' = c.params
        /\ step' = "execute"
     \/ /\ ~request.identifiers
        /\ step' = "failed"
        /\ UNCHANGED <<sql, params>>
  /\ UNCHANGED <<context, request, where, rows, trail>>

\* datasource.execute is answered ...
Execute ==
  /\ step = "execute"
  /\ rows' = Selected(sql, params)
  /\ trail' = Append(trail, "datasource.succeeded")
  /\ step' = "done"
  /\ UNCHANGED <<context, request, where, sql, params>>

\* ... or rejected.
ExecuteFails ==
  /\ step = "execute"
  /\ trail' = Append(trail, "datasource.failed")
  /\ step' = "failed"
  /\ UNCHANGED <<context, request, where, sql, params, rows>>

Over == step \in {"done", "failed"} /\ UNCHANGED vars

Next == BuildAst \/ Transform \/ CompileAst \/ Execute \/ ExecuteFails \/ Over

Spec == Init /\ [][Next]_vars

----------------------------------------------------------------------------
\* canAccessOrg: what the engine says of a single row, next to the predicate.
CanAccessOrg(decision, row) ==
  \/ decision.scope = "TENANT_ALL"
  \/ decision.scope = "SELF" /\ row.created_by = Permission.userId
  \/ /\ decision.scope \notin {"TENANT_ALL", "SELF"}
     /\ \/ row.org_id \in decision.allowedOrgIds
        \/ row.org_id = Null /\ row.created_by = Permission.userId

\* Each node's children in the tree of organisations.
Children(nodes) == [n \in {m.id : m \in nodes} |-> {m.id : m \in {k \in nodes : k.parentId = n}}]

\* The organisations of a user and everything below them, by parent.
Below(scope) ==
  LET children == Children(scope.orgNodes)
  IN  scope.userOrgIds \cup DependencyClosure(children, scope.userOrgIds \cap DOMAIN children)

\* A row passes the filters of the request.
Asked(row) ==
  \A i \in DOMAIN request.filters : LET f == request.filters[i] IN
    /\ f.key = "keyword" => f.value \in {"", row.id, row.owner}
    /\ f.key \in SupportedExactFilters \cap DOMAIN row => f.value = row[f.key]

\* The query returns exactly the rows of the tenant in the permission context that
\* pass the filters and that canAccessOrg grants its user for the organisations the
\* roles of the scope stand for, "and children" taken by parent and not by path.  A
\* scope without organisations returns nothing, not even the rows canAccessOrg leaves
\* to their creator.  Without a tenant and a user it returns nothing at all.
RowsAreVisible ==
  step = "done" =>
    LET decision == IF Decision.scope = "DEPT_AND_CHILDREN"
                      THEN [Decision EXCEPT !.allowedOrgIds = Below(Permission.orgScope)]
                      ELSE Decision
        empty == decision.scope \notin {"TENANT_ALL", "SELF"} /\ decision.allowedOrgIds = {}
    IN  /\ Missing \notin {Permission.tenantId, Permission.userId}
        /\ trail = <<"permission.allow", "datasource.succeeded">>
        /\ rows = IF empty THEN {}
                  ELSE {row \in Table : /\ row.tenant_id = Permission.tenantId
                                        /\ CanAccessOrg(decision, row)
                                        /\ Asked(row)}

\* The order in which the database returns a user's roles, which no ORDER BY
\* fixes, decides nothing but which of several custom organisation sets is used.
DecisionStable ==
  LET scope == Permission.orgScope
      orders == {r \in [DOMAIN scope.roles -> Range(scope.roles)] : Range(r) = Range(scope.roles)}
  IN  \A r \in orders :
        LET other == ResolveDataScope([scope EXCEPT !.roles = r])
        IN  /\ other.scope = Decision.scope
            /\ Decision.scope # "CUSTOM_ORG_SET" => other = Decision
=============================================================================
