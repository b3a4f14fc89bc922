---------------------------- MODULE MCQueryScope ----------------------------
(* An organisation with a child and a sibling whose path begins with the   *)
(* same letters; two tenants, two users; rows of every combination.        *)
EXTENDS QueryScope

Node(id, parent, path) == [id |-> id, parentId |-> parent, path |-> path]
Tree == {Node("root", Null, <<"r">>), Node("a", "root", <<"r", "/", "a">>),
         Node("c", "a", <<"r", "/", "a", "/", "c">>), Node("ab", "root", <<"r", "/", "a", "b">>)}

Policy(role, scope, orgs) == [role |-> role, scope |-> scope, customOrgIds |-> orgs]
Configured ==
  {<< >>, <<Policy("R", "DEPT", {})>>, <<Policy("MANAGER", "SELF", {}), Policy("R", "DEPT_AND_CHILDREN", {})>>,
   <<Policy("R", "CUSTOM_ORG_SET", {"c", "ab"}), Policy("S", "CUSTOM_ORG_SET", {"a"})>>,
   <<Policy("R", "CUSTOM_ORG_SET", {}), Policy("S", "TENANT_ALL", {})>>}
Roles == {<<r>> : r \in {"R", "S"}}
         \cup {<< >>, <<"MANAGER", "R">>, <<"R", "S">>, <<"R", "S", "MANAGER">>, <<"SUPER_ADMIN", "R">>}
Memberships == {{}, {"a"}, {"ab", "c"}, {"gone"}}

\* Blanks come before a text, and by themselves.
MCRead(v) == CASE v = " me" -> "me" [] v = " U" -> "U" [] v = " R" -> "R" [] v = " " -> Missing
               [] OTHER -> v

Sent(roles, scope, brought) ==
  [tenantId |-> "T", userId |-> " me", roles |-> roles, brought |-> brought, orgScope |-> scope]
Scope(roles, members, policies, nodes) ==
  [roles |-> roles, userOrgIds |-> members, rolePolicies |-> policies, orgNodes |-> nodes]
Plain == Scope(<<" R">>, {"a"}, <<Policy("R", "DEPT", {})>>, Tree)

MCContexts ==
  {Sent(r, Scope(r, m, p, n), << >>) : r \in Roles, m \in Memberships, p \in Configured, n \in {Tree, {}}}
  \cup {Sent(<<"R">>, Plain, b) :
          b \in {[tenantId |-> " U"], [userId |-> "you"], [tenantId |-> Null, userId |-> "you"],
                 [tenantId |-> " "], [userId |-> " "], [roles |-> <<" ">>], [roles |-> <<"MANAGER">>]}}
  \cup {Sent(<<"R">>, [Plain EXCEPT !.roles = <<"R", " ">>], << >>),
        Sent(<<"R">>, [Plain EXCEPT !.userOrgIds = {"a", " "}], << >>)}

Filter(k, v) == [key |-> k, value |-> v]
MCRequests ==
  [identifiers : {TRUE},
   filters : {<< >>, <<Filter("keyword", "k")>>, <<Filter("tenant_id", "U")>>,
              <<Filter("keyword", "k"), Filter("org_id", "a"), Filter("unknown", "k")>>,
              <<Filter("created_by", "you"), Filter("keyword", "k")>>, <<Filter("keyword", "")>>}]
  \cup {[identifiers |-> FALSE, filters |-> << >>]}

MCTable == [tenant_id : {"T", "U"}, org_id : {"a", "c", "ab", "gone", Null}, created_by : {"me", "you", Null},
            id : {"k", "1"}, owner : {"k", "l"}]
=============================================================================
