---------------------------- MODULE MetaVersions ----------------------------
(***************************************************************************)
(* The version histories of one app: that of its schema (publishSchema and *)
(* rollback of MetaKernelService) and one for every view, datasource and   *)
(* permission policy (publishDefinition).  A new version is the latest one *)
(* plus one.  Postgres reads the latest in one statement and inserts in    *)
(* another with nothing but the unique key between them, so calls of       *)
(* several processes interleave; the in-memory repository does both at     *)
(* once.                                                                   *)
(***************************************************************************)
EXTENDS Naturals

CONSTANTS
  Call,           \* calls that publish or roll back, over the life of the app
  History,        \* the schema's history and one per kind and id of definition
  SchemaHistory,
  Document,       \* schemas and definitions, valid ones
  None            \* no document, no row

ASSUME NoneAssumption == None \notin Document
ASSUME HistoryAssumption == SchemaHistory \in History

VARIABLES
  repository,  \* "postgres" or "memory", chosen when the kernel is built
  rows,        \* rows[h][v] is the row of version v of history h
  pc,          \* pc[c]: the statement call c is about to send
  of,          \* of[c]: the history c writes to
  document,    \* document[c]: what c is going to insert
  target,      \* target[c]: the version c rolls back to, 0 for a publication
  next,        \* next[c]: nextVersion of c, once computed
  answer       \* answer[c]: the version the caller was given, 0 if none

vars == <<repository, rows, pc, of, document, target, next, answer>>

\* A stored version: its document and metadata.rollbackFromVersion (0: null).
Row == [document : Document, rollbackFrom : Nat]
Version(h) == DOMAIN rows[h]

\* ORDER BY version DESC LIMIT 1; 0 if there is no row.
Latest(table) == IF \E v \in DOMAIN table : \A w \in DOMAIN table : w <= v
                   THEN CHOOSE v \in DOMAIN table : \A w \in DOMAIN table : w <= v
                   ELSE 0

With(table, v, row) == [w \in DOMAIN table \cup {v} |-> IF w = v THEN row ELSE table[w]]

\* What c puts in a row, and its history with that row under number v.
RowOf(c) == [document |-> document[c], rollbackFrom |-> target[c]]
Put(c, v) == rows' = [rows EXCEPT ![of[c]] = With(rows[of[c]], v, RowOf(c))]

Init ==
  /\ repository \in {"postgres", "memory"}
  /\ rows = [h \in History |-> [v \in {} |-> None]]
  /\ pc = [c \in Call |-> "idle"]
  /\ of = [c \in Call |-> SchemaHistory]
  /\ document = [c \in Call |-> None]
  /\ target = [c \in Call |-> 0]
  /\ next = [c \in Call |-> 0]
  /\ answer = [c \in Call |-> 0]

\* publishSchema and publishDefinition, the document having passed validation.
Publish(c, h, d) ==
  /\ pc[c] = "idle"
  /\ pc' = [pc EXCEPT ![c] = "latest"]
  /\ of' = [of EXCEPT ![c] = h]
  /\ document' = [document EXCEPT ![c] = d]
  /\ UNCHANGED <<repository, rows, target, next, answer>>

\* rollback(v), of the schema: the target version is read first.
Rollback(c, v) ==
  /\ pc[c] = "idle"
  /\ pc' = [pc EXCEPT ![c] = "target"]
  /\ target' = [target EXCEPT ![c] = v]
  /\ UNCHANGED <<repository, rows, of, document, next, answer>>

\* Slip: the document is read again from the latest version.
ReadLatestAsTarget(c) ==
  /\ pc[c] = "target"
  /\ IF target[c] \in Version(of[c])
       THEN /\ pc' = [pc EXCEPT ![c] = "latest"]
            /\ document' = [document EXCEPT ![c] =
                              rows[of[c]][Latest(rows[of[c]])].document]
       ELSE /\ pc' = [pc EXCEPT ![c] = "failed"]
            /\ UNCHANGED document
  /\ UNCHANGED <<repository, rows, of, target, next, answer>>

\* getVersion(targetVersion), which may not exist.
ReadTarget(c) ==
  /\ pc[c] = "target"
  /\ IF target[c] \in Version(of[c])
       THEN /\ pc' = [pc EXCEPT ![c] = "latest"]
            /\ document' = [document EXCEPT ![c] = rows[of[c]][target[c]].document]
       ELSE /\ pc' = [pc EXCEPT ![c] = "failed"]
            /\ UNCHANGED document
  /\ UNCHANGED <<repository, rows, of, target, next, answer>>

\* Slip: numbers come from a sequence, and a call that fails does not give its
\* number back.
TakeNumber(c) ==
  /\ pc[c] = "latest"
  /\ repository = "postgres"
  /\ pc' = [pc EXCEPT ![c] = "insert"]
  /\ next' = [next EXCEPT ![c] = 1 + Latest([n \in {next[d] : d \in Call} |-> n])]
  /\ UNCHANGED <<repository, rows, of, document, target, answer>>

\* createVersion and createDefinitionVersion: the latest version, then nextVersion.
ReadLatest(c) ==
  /\ pc[c] = "latest"
  /\ repository = "postgres"
  /\ pc' = [pc EXCEPT ![c] = "insert"]
  /\ next' = [next EXCEPT ![c] = Latest(rows[of[c]]) + 1]
  /\ UNCHANGED <<repository, rows, of, document, target, answer>>

\* Slip: INSERT ... ON CONFLICT DO UPDATE.
UpsertVersion(c) ==
  /\ pc[c] = "insert"
  /\ Put(c, next[c])
  /\ pc' = [pc EXCEPT ![c] = "done"]
  /\ answer' = [answer EXCEPT ![c] = next[c]]
  /\ UNCHANGED <<repository, of, document, target, next>>

\* The INSERT, refused if the version was taken meanwhile.
InsertVersion(c) ==
  /\ pc[c] = "insert"
  /\ IF next[c] \in Version(of[c])
       THEN /\ pc' = [pc EXCEPT ![c] = "conflict"]
            /\ UNCHANGED <<rows, answer>>
       ELSE /\ Put(c, next[c])
            /\ pc' = [pc EXCEPT ![c] = "done"]
            /\ answer' = [answer EXCEPT ![c] = next[c]]
  /\ UNCHANGED <<repository, of, document, target, next>>

\* A statement's answer is lost, or the process dies: the caller never learns
\* whether the INSERT was executed.
CallLost(c) ==
  /\ pc[c] \in {"target", "latest", "insert"}
  /\ repository = "postgres"
  /\ pc' = [pc EXCEPT ![c] = "failed"]
  /\ \/ UNCHANGED rows
     \/ /\ pc[c] = "insert"
        /\ next[c] \notin Version(of[c])
        /\ Put(c, next[c])
  /\ UNCHANGED <<repository, of, document, target, next, answer>>

\* createVersion and createDefinitionVersion of InMemoryMetaKernelRepository.
CreateInMemory(c) ==
  /\ pc[c] = "latest"
  /\ repository = "memory"
  /\ Put(c, Latest(rows[of[c]]) + 1)
  /\ pc' = [pc EXCEPT ![c] = "done"]
  /\ answer' = [answer EXCEPT ![c] = Latest(rows[of[c]]) + 1]
  /\ UNCHANGED <<repository, of, document, target, next>>

Next ==
  \E c \in Call :
    \/ \E h \in History, d \in Document : Publish(c, h, d)
    \/ \E v \in Version(SchemaHistory) \cup {Latest(rows[SchemaHistory]) + 1} :
         Rollback(c, v)
    \/ ReadTarget(c)
    \/ ReadLatest(c)
    \/ InsertVersion(c)
    \/ CreateInMemory(c)
    \/ CallLost(c)

Spec == Init /\ [][Next]_vars

-----------------------------------------------------------------------------
(* Properties.                                                             *)

Ended == {"done", "conflict", "failed"}

\* Types of every variable.
TypeOK ==
  /\ repository \in {"postgres", "memory"}
  /\ DOMAIN rows = History
  /\ \A h \in History : /\ rows[h] \in [Version(h) -> Row]
                        /\ Version(h) \subseteq Nat \ {0}
  /\ pc \in [Call -> {"idle", "target", "latest", "insert"} \cup Ended]
  /\ of \in [Call -> History]
  /\ document \in [Call -> Document \cup {None}]
  /\ target \in [Call -> Nat]
  /\ next \in [Call -> Nat]
  /\ answer \in [Call -> Nat]

\* A version number that was returned belongs to one caller, and holds what that
\* caller published (or the document it rolled back to).
OneCallerPerVersion ==
  \A c \in Call : pc[c] = "done" =>
    /\ answer[c] \in Version(of[c])
    /\ rows[of[c]][answer[c]] = RowOf(c)
    /\ \A d \in Call \ {c} : pc[d] = "done" /\ of[d] = of[c] => answer[d] # answer[c]

\* A version made by a rollback is a copy of an earlier version of the history.
RollbackIsCopy ==
  \A h \in History : \A v \in Version(h) : rows[h][v].rollbackFrom # 0 =>
    /\ rows[h][v].rollbackFrom \in Version(h)
    /\ rows[h][v].rollbackFrom < v
    /\ rows[h][v].document = rows[h][rows[h][v].rollbackFrom].document

\* What the histories are for their readers: replayFromVersion, which stops at the
\* first version it does not find, and everyone who keeps a version number.
Kept == INSTANCE AppendOnlyHistory WITH history <- rows

\* Whatever calls overlap, fail or are lost, the statements implement append-only
\* histories without gaps.
ImplementsHistory == Kept!Spec
=============================================================================
