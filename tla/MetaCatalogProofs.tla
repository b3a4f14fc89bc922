------------------------- MODULE MetaCatalogProofs --------------------------
(***************************************************************************)
(* Theorems about the version histories and their readers, for every       *)
(* number of callers, requests, kinds, histories and documents.            *)
(***************************************************************************)
EXTENDS MetaCatalog, TLAPS

\* No history has a gap.
Contiguous == \A h \in History : \E n \in Nat : Version(h) = 1 .. n

\* A call about to insert has seen all versions below its number, and what it is
\* going to insert is what it was asked to.
Ready(c) ==
  /\ pc[c] = "idle" => target[c] = 0
  /\ pc[c] \in {"latest", "insert"} =>
       /\ document[c] \in Document
       /\ target[c] # 0 => /\ target[c] \in Version(of[c])
                           /\ rows[of[c]][target[c]].document = document[c]
  /\ pc[c] = "insert" =>
       /\ next[c] # 0
       /\ \A w \in 1 .. next[c] - 1 : w \in Version(of[c])
       /\ target[c] < next[c]

Prepared == \A c \in Call : Ready(c)

IInv == TypeOK /\ Contiguous /\ Prepared /\ OneCallerPerVersion /\ RollbackIsCopy

\* On a history without gaps the latest version is its length.
LEMMA LatestIsLength ==
  ASSUME NEW table, NEW n \in Nat, DOMAIN table = 1 .. n
  PROVE  Latest(table) = n
<1>1. CASE n = 0
  BY <1>1 DEF Latest
<1>2. CASE n # 0
  <2>1. n \in DOMAIN table /\ \A w \in DOMAIN table : w <= n
    BY <1>2
  <2>2. \A v \in DOMAIN table : (\A w \in DOMAIN table : w <= v) => v = n
    BY <2>1
  <2> QED BY <2>1, <2>2 DEF Latest
<1> QED BY <1>1, <1>2

\* A row put under the number after the latest, by a call that copies an earlier version
\* if it copies one, makes its history one version longer and changes nothing else.
Extends(c, v) ==
  /\ v \in Nat \ {0}
  /\ Version(of[c]) = 1 .. v - 1
  /\ DOMAIN rows'[of[c]] = 1 .. v
  /\ DOMAIN rows' = History
  /\ \A h \in History \ {of[c]} : rows'[h] = rows[h]
  /\ \A w \in Version(of[c]) : rows'[of[c]][w] = rows[of[c]][w]
  /\ rows'[of[c]] = [w \in 1 .. v |-> rows'[of[c]][w]]
  /\ rows' = [rows EXCEPT ![of[c]] = rows'[of[c]]]
  /\ rows'[of[c]][v] = RowOf(c)
  /\ RowOf(c) \in Row
  /\ target[c] # 0 => /\ target[c] \in Version(of[c])
                      /\ target[c] < v
                      /\ rows[of[c]][target[c]].document = document[c]

LEMMA PutExtends ==
  ASSUME IInv, NEW c \in Call, NEW v \in Nat \ {0}, Version(of[c]) = 1 .. v - 1,
         document[c] \in Document, Put(c, v),
         target[c] # 0 => /\ target[c] \in Version(of[c])
                          /\ target[c] < v
                          /\ rows[of[c]][target[c]].document = document[c]
  PROVE  Extends(c, v)
<1> DEFINE h == of[c]
<1>1. h \in History /\ DOMAIN rows = History /\ target[c] \in Nat
  BY DEF IInv, TypeOK
<1>2. /\ rows'[h] = With(rows[h], v, RowOf(c))
      /\ DOMAIN rows' = History
      /\ \A k \in History \ {h} : rows'[k] = rows[k]
      /\ rows' = [rows EXCEPT ![h] = rows'[h]]
  BY <1>1 DEF Put
<1>3. /\ DOMAIN rows'[h] = (1 .. v - 1) \cup {v}
      /\ rows'[h] = [w \in DOMAIN rows'[h] |-> rows'[h][w]]
      /\ rows'[h][v] = RowOf(c)
  BY <1>2 DEF With, Version
<1>4. \A w \in 1 .. v - 1 : rows'[h][w] = rows[h][w]
  BY <1>2, <1>3 DEF With, Version
<1>5. (1 .. v - 1) \cup {v} = 1 .. v
  OBVIOUS
<1>6. RowOf(c) \in Row
  BY <1>1 DEF RowOf, Row
<1>7. rows'[h] = [w \in 1 .. v |-> rows'[h][w]]
  BY <1>3, <1>5
<1> QED BY <1>1, <1>2, <1>3, <1>4, <1>5, <1>6, <1>7 DEF Extends, Version

\* The invariant holds of an app nobody has published.
LEMMA InitEstablishes == Init => IInv
<1> SUFFICES ASSUME Init PROVE IInv
  OBVIOUS
<1>1. TypeOK /\ Prepared /\ OneCallerPerVersion /\ RollbackIsCopy
  BY HistoryAssumption
     DEF Init, TypeOK, Prepared, Ready, OneCallerPerVersion, RollbackIsCopy, Version
<1>2. Contiguous
  <2>1. \A h \in History : Version(h) = 1 .. 0
    BY DEF Init, Version
  <2> QED BY <2>1 DEF Contiguous
<1> QED BY <1>1, <1>2 DEF IInv

\* A step of c that writes no row, and after which c is ready or has failed, keeps
\* the invariant.
LEMMA ReadsPreserve ==
  ASSUME IInv, NEW c \in Call, UNCHANGED <<rows, answer>>, TypeOK', Ready(c)',
         pc[c] # "done", pc'[c] # "done",
         \A d \in Call \ {c} : /\ pc'[d] = pc[d] /\ document'[d] = document[d]
                               /\ of'[d] = of[d]
                               /\ target'[d] = target[d] /\ next'[d] = next[d]
  PROVE  IInv'
<1>1. Contiguous' /\ RollbackIsCopy'
  BY DEF IInv, Contiguous, RollbackIsCopy, Version
<1>2. Prepared'
  BY DEF IInv, Prepared, Ready, Version
<1>3. OneCallerPerVersion'
  BY DEF IInv, OneCallerPerVersion, Version, RowOf
<1> QED BY <1>1, <1>2, <1>3 DEF IInv

LEMMA PublishPreserves ==
  ASSUME IInv, NEW c \in Call, NEW h \in History, NEW d \in Document, Publish(c, h, d)
  PROVE  IInv'
<1>1. TypeOK'
  BY DEF Publish, IInv, TypeOK, Version
<1>2. Ready(c)'
  BY DEF Publish, IInv, TypeOK, Prepared, Ready
<1> QED BY <1>1, <1>2, ReadsPreserve DEF Publish, IInv, TypeOK

LEMMA RollbackPreserves ==
  ASSUME IInv, NEW c \in Call,
         NEW v \in Version(SchemaHistory) \cup {Latest(rows[SchemaHistory]) + 1},
         Rollback(c, v)
  PROVE  IInv'
<1>1. v \in Nat
  <2>1. PICK n \in Nat : Version(SchemaHistory) = 1 .. n
    BY HistoryAssumption DEF IInv, Contiguous
  <2>2. Latest(rows[SchemaHistory]) = n
    BY <2>1, LatestIsLength DEF Version
  <2> QED BY <2>1, <2>2
<1>2. TypeOK'
  BY <1>1 DEF Rollback, IInv, TypeOK, Version
<1>3. Ready(c)'
  BY DEF Rollback, IInv, TypeOK, Ready
<1> QED BY <1>2, <1>3, ReadsPreserve DEF Rollback, IInv, TypeOK

LEMMA ReadTargetPreserves ==
  ASSUME IInv, NEW c \in Call, ReadTarget(c)
  PROVE  IInv'
<1>1. target[c] \in Version(of[c]) => rows[of[c]][target[c]].document \in Document
  BY DEF IInv, TypeOK, Version, Row
<1>2. TypeOK'
  BY <1>1 DEF ReadTarget, IInv, TypeOK, Ended, Version
<1>3. Ready(c)'
  BY <1>1 DEF ReadTarget, IInv, TypeOK, Ready, Version
<1> QED BY <1>2, <1>3, ReadsPreserve DEF ReadTarget, IInv, TypeOK

LEMMA ReadLatestPreserves ==
  ASSUME IInv, NEW c \in Call, ReadLatest(c)
  PROVE  IInv'
<1>1. PICK n \in Nat : Version(of[c]) = 1 .. n
  BY DEF IInv, TypeOK, Contiguous
<1>2. Latest(rows[of[c]]) = n
  BY <1>1, LatestIsLength DEF Version
<1>3. TypeOK'
  BY <1>2 DEF ReadLatest, IInv, TypeOK, Version
<1>4. /\ next'[c] = n + 1 /\ pc'[c] = "insert" /\ target[c] \in Nat
      /\ Version(of[c])' = Version(of[c])
  BY <1>2 DEF ReadLatest, IInv, TypeOK, Version
<1>5. target[c] < n + 1
  BY <1>1 DEF ReadLatest, IInv, TypeOK, Prepared, Ready
<1>6. \A w \in 1 .. next'[c] - 1 : w \in Version(of[c])'
  BY <1>1, <1>4
<1>7. Ready(c)'
  BY <1>4, <1>5, <1>6 DEF ReadLatest, IInv, Prepared, Ready
<1> QED BY <1>3, <1>7, ReadsPreserve DEF ReadLatest, IInv, TypeOK

\* A call that ends without having written.
LEMMA EndingPreserves ==
  ASSUME IInv, NEW c \in Call, pc[c] \in {"target", "latest", "insert"},
         NEW q \in {"conflict", "failed"}, pc' = [pc EXCEPT ![c] = q],
         UNCHANGED <<repository, rows, of, document, target, next, answer>>
  PROVE  IInv'
<1>1. TypeOK'
  BY DEF IInv, TypeOK, Ended, Version
<1>2. Ready(c)'
  BY DEF IInv, TypeOK, Ready
<1> QED BY <1>1, <1>2, ReadsPreserve DEF IInv, TypeOK

\* A call that writes its row, whether it learns so ("done") or not.
LEMMA WritingPreserves ==
  ASSUME IInv, NEW c \in Call, NEW v, Extends(c, v), pc[c] \in {"latest", "insert"},
         UNCHANGED <<repository, of, document, target, next>>,
         \/ /\ pc' = [pc EXCEPT ![c] = "done"]
            /\ answer' = [answer EXCEPT ![c] = v]
         \/ /\ pc' = [pc EXCEPT ![c] = "failed"]
            /\ UNCHANGED answer
  PROVE  IInv'
<1> DEFINE row == RowOf(c)
           h == of[c]
<1>1. /\ v \in Nat \ {0} /\ h \in History /\ of' = of
      /\ Version(h) = 1 .. v - 1 /\ DOMAIN rows'[h] = 1 .. v
      /\ \A w \in Version(h) : rows'[h][w] = rows[h][w]
      /\ rows'[h][v] = row /\ row \in Row
      /\ row.document = document[c] /\ row.rollbackFrom = target[c]
      /\ \A k \in History \ {h} : rows'[k] = rows[k]
  BY DEF Extends, IInv, TypeOK, RowOf
<1>2. /\ DOMAIN rows'[h] = Version(h) \cup {v}
      /\ \A k \in History : /\ DOMAIN rows[k] \subseteq DOMAIN rows'[k]
                            /\ \A w \in DOMAIN rows[k] : rows'[k][w] = rows[k][w]
  BY <1>1 DEF Version
<1>3. /\ \A d \in Call \ {c} : pc'[d] = pc[d] /\ answer'[d] = answer[d]
      /\ pc'[c] \in {"done", "failed"}
      /\ pc'[c] = "done" => answer'[c] = v
  BY DEF IInv, TypeOK
<1>4. TypeOK'
  <2>1. \A k \in History : rows'[k] \in [DOMAIN rows'[k] -> Row]
    <3>1. rows'[h] = [w \in DOMAIN rows'[h] |-> rows'[h][w]]
      BY DEF Extends
    <3>2. \A w \in DOMAIN rows'[h] : rows'[h][w] \in Row
      BY <1>1, <1>2 DEF IInv, TypeOK, Version
    <3>3. rows'[h] \in [DOMAIN rows'[h] -> Row]
      BY <3>1, <3>2
    <3> QED BY <1>1, <3>3 DEF IInv, TypeOK, Version
  <2>2. \A k \in History : DOMAIN rows'[k] \subseteq Nat \ {0}
    <3>1. DOMAIN rows'[h] \subseteq Nat \ {0}
      BY <1>1
    <3>2. \A k \in History \ {h} : DOMAIN rows[k] \subseteq Nat \ {0}
      BY DEF IInv, TypeOK, Version
    <3>3. \A k \in History \ {h} : DOMAIN rows'[k] \subseteq Nat \ {0}
      BY <1>1, <3>2
    <3> QED BY <3>1, <3>3
  <2>3. pc' \in [Call -> {"idle", "target", "latest", "insert"} \cup Ended]
    BY DEF IInv, TypeOK, Ended
  <2>4. answer' \in [Call -> Nat]
    BY <1>1 DEF IInv, TypeOK
  <2>5. DOMAIN rows' = History
    BY DEF Extends
  <2> QED BY <2>1, <2>2, <2>3, <2>4, <2>5 DEF IInv, TypeOK, Version
<1>5. Contiguous'
  <2>1. \A k \in History \ {h} : \E n \in Nat : DOMAIN rows'[k] = 1 .. n
    BY <1>1 DEF IInv, Contiguous, Version
  <2> QED BY <1>1, <2>1 DEF Contiguous, Version
<1>6. Prepared'
  <2>1. \A d \in Call : \A w : w \in Version(of[d]) =>
          w \in Version(of[d])' /\ rows'[of[d]][w] = rows[of[d]][w]
    BY <1>1, <1>2 DEF Version, IInv, TypeOK
  <2>2. \A d \in Call \ {c} : Ready(d)'
    BY <1>3, <2>1 DEF IInv, Prepared, Ready
  <2>3. Ready(c)'
    BY <1>3 DEF Ready
  <2> QED BY <2>2, <2>3 DEF Prepared
<1>7. OneCallerPerVersion'
  <2>1. \A d \in Call \ {c} : pc'[d] = "done" =>
          /\ answer'[d] \in Version(of[d])
          /\ rows[of[d]][answer'[d]] = RowOf(d)
          /\ of[d] \in History
    BY <1>3 DEF IInv, OneCallerPerVersion, TypeOK
  <2>2. \A d \in Call \ {c} : pc'[d] = "done" =>
          /\ answer'[d] \in DOMAIN rows'[of[d]]
          /\ rows'[of[d]][answer'[d]] = RowOf(d)
          /\ of[d] = h => answer'[d] # v
    BY <1>1, <1>2, <2>1 DEF Version
  <2>3. pc'[c] = "done" => /\ answer'[c] = v
                           /\ answer'[c] \in DOMAIN rows'[h]
                           /\ rows'[h][answer'[c]] = row
    BY <1>1, <1>2, <1>3
  <2>4. \A d, e \in Call \ {c} :
          d # e /\ pc'[d] = "done" /\ pc'[e] = "done" /\ of[e] = of[d] => answer'[e] # answer'[d]
    <3> TAKE d, e \in Call \ {c}
    <3> HAVE d # e /\ pc'[d] = "done" /\ pc'[e] = "done" /\ of[e] = of[d]
    <3>1. pc[d] = "done" /\ pc[e] = "done" /\ e \in Call \ {d}
      BY <1>3
    <3>2. answer[e] # answer[d]
      BY <3>1 DEF IInv, OneCallerPerVersion
    <3> QED BY <1>3, <3>2
  <2>5. \A d \in Call : RowOf(d)' = RowOf(d)
    BY DEF RowOf
  <2>6. SUFFICES ASSUME NEW d \in Call, pc'[d] = "done"
        PROVE  /\ answer'[d] \in DOMAIN rows'[of[d]]
               /\ rows'[of[d]][answer'[d]] = RowOf(d)
               /\ \A e \in Call \ {d} : pc'[e] = "done" /\ of[e] = of[d] =>
                                          answer'[e] # answer'[d]
    BY <1>1, <2>5 DEF OneCallerPerVersion, Version
  <2>7. CASE d = c
    BY <2>2, <2>3, <2>6, <2>7
  <2>8. CASE d # c
    BY <2>2, <2>3, <2>4, <2>6, <2>8
  <2> QED BY <2>7, <2>8
<1>8. RollbackIsCopy'
  <2> DEFINE Copied(k, w, table) == table[k][w].rollbackFrom # 0 =>
               /\ table[k][w].rollbackFrom \in DOMAIN table[k]
               /\ table[k][w].rollbackFrom < w
               /\ table[k][w].document = table[k][table[k][w].rollbackFrom].document
  <2>1. \A k \in History : \A w \in DOMAIN rows[k] : Copied(k, w, rows)
    BY DEF IInv, RollbackIsCopy, Version
  <2>2. \A k \in History : \A w \in DOMAIN rows[k] : Copied(k, w, rows')
    BY <1>2, <2>1
  <2>3. Copied(h, v, rows')
    <3>1. target[c] # 0 => /\ target[c] \in Version(h)
                           /\ target[c] < v
                           /\ rows[h][target[c]].document = document[c]
      BY DEF Extends
    <3> QED BY <1>1, <1>2, <3>1 DEF Version
  <2>4. \A k \in History : \A w \in DOMAIN rows'[k] :
          w \in DOMAIN rows[k] \/ (k = h /\ w = v)
    BY <1>1, <1>2 DEF Version
  <2>5. \A k \in History : \A w \in DOMAIN rows'[k] : Copied(k, w, rows')
    BY <2>2, <2>3, <2>4
  <2> QED BY <2>5 DEF RollbackIsCopy, Version
<1> QED BY <1>4, <1>5, <1>6, <1>7, <1>8 DEF IInv

\* The ways a call that has read what it needs goes on: it ends without having written,
\* or puts its row under the number after the latest.
LEMMA CreateCases ==
  ASSUME IInv, NEW c \in Call, InsertVersion(c) \/ CallLost(c) \/ CreateInMemory(c)
  PROVE  \/ /\ pc[c] \in {"target", "latest", "insert"}
            /\ \E q \in {"conflict", "failed"} : pc' = [pc EXCEPT ![c] = q]
            /\ UNCHANGED <<repository, rows, of, document, target, next, answer>>
         \/ \E v \in Nat :
              /\ Extends(c, v)
              /\ pc[c] \in {"latest", "insert"}
              /\ UNCHANGED <<repository, of, document, target, next>>
              /\ \/ /\ pc' = [pc EXCEPT ![c] = "done"]
                    /\ answer' = [answer EXCEPT ![c] = v]
                 \/ /\ pc' = [pc EXCEPT ![c] = "failed"]
                    /\ UNCHANGED answer
<1>1. PICK n \in Nat : Version(of[c]) = 1 .. n
  BY DEF IInv, TypeOK, Contiguous
<1>2. /\ next[c] \in Nat /\ target[c] \in Nat
      /\ pc[c] \in {"latest", "insert"} =>
           /\ document[c] \in Document
           /\ target[c] # 0 => /\ target[c] \in Version(of[c])
                               /\ rows[of[c]][target[c]].document = document[c]
  BY DEF IInv, TypeOK, Prepared, Ready
<1>3. ASSUME pc[c] = "insert", next[c] \notin Version(of[c]), Put(c, next[c])
      PROVE  Extends(c, next[c])
  <2>1. next[c] # 0 /\ 1 .. next[c] - 1 \subseteq Version(of[c]) /\ target[c] < next[c]
    BY <1>3 DEF IInv, Prepared, Ready
  <2>2. n = next[c] - 1
    <3>1. n < next[c]
      BY <1>1, <1>2, <1>3, <2>1
    <3>2. next[c] = 1 \/ next[c] - 1 \in Version(of[c])
      BY <1>2, <2>1
    <3> QED BY <1>1, <1>2, <2>1, <3>1, <3>2
  <2>3. next[c] \in Nat \ {0} /\ Version(of[c]) = 1 .. next[c] - 1
    BY <1>1, <1>2, <2>1, <2>2
  <2> QED BY <1>2, <1>3, <2>1, <2>3, PutExtends
<1>4. CASE CreateInMemory(c)
  <2>1. Latest(rows[of[c]]) = n
    BY <1>1, LatestIsLength DEF Version
  <2>2. n + 1 \in Nat \ {0} /\ Version(of[c]) = 1 .. (n + 1) - 1 /\ Put(c, n + 1)
    BY <1>1, <1>4, <2>1 DEF CreateInMemory
  <2>3. target[c] # 0 => target[c] < n + 1
    BY <1>1, <1>2, <1>4 DEF CreateInMemory
  <2>4. Extends(c, n + 1)
    BY <1>2, <1>4, <2>2, <2>3, PutExtends DEF CreateInMemory
  <2>5. /\ pc' = [pc EXCEPT ![c] = "done"]
        /\ answer' = [answer EXCEPT ![c] = n + 1]
        /\ pc[c] = "latest"
        /\ UNCHANGED <<repository, of, document, target, next>>
    BY <1>4, <2>1 DEF CreateInMemory
  <2>6. \E v \in Nat : /\ Extends(c, v)
                       /\ pc' = [pc EXCEPT ![c] = "done"]
                       /\ answer' = [answer EXCEPT ![c] = v]
    BY <2>2, <2>4, <2>5
  <2> QED BY <2>5, <2>6
<1>5. CASE InsertVersion(c)
  BY <1>2, <1>3, <1>5 DEF InsertVersion
<1>6. CASE CallLost(c)
  BY <1>2, <1>3, <1>6 DEF CallLost
<1> QED BY <1>4, <1>5, <1>6

LEMMA StepPreserves == IInv /\ [Next]_vars => IInv'
<1> SUFFICES ASSUME IInv, [Next]_vars PROVE IInv'
  OBVIOUS
<1>1. CASE UNCHANGED vars
  <2>1. UNCHANGED <<repository, rows, pc, of, document, target, next, answer>>
    BY <1>1 DEF vars
  <2>2. TypeOK'
    BY <2>1 DEF IInv, TypeOK, Version
  <2>3. Contiguous'
    BY <2>1 DEF IInv, Contiguous, Version
  <2>4. Prepared'
    BY <2>1 DEF IInv, Prepared, Ready, Version
  <2>5. OneCallerPerVersion'
    BY <2>1 DEF IInv, OneCallerPerVersion, Version, RowOf
  <2>6. RollbackIsCopy'
    BY <2>1 DEF IInv, RollbackIsCopy, Version
  <2> QED BY <2>2, <2>3, <2>4, <2>5, <2>6 DEF IInv
<1>2. ASSUME NEW c \in Call, NEW h \in History, NEW d \in Document, Publish(c, h, d)
      PROVE  IInv'
  BY <1>2, PublishPreserves
<1>3. ASSUME NEW c \in Call,
             NEW v \in Version(SchemaHistory) \cup {Latest(rows[SchemaHistory]) + 1},
             Rollback(c, v)
      PROVE  IInv'
  BY <1>3, RollbackPreserves
<1>4. ASSUME NEW c \in Call, ReadTarget(c) PROVE IInv'
  BY <1>4, ReadTargetPreserves
<1>5. ASSUME NEW c \in Call, ReadLatest(c) PROVE IInv'
  BY <1>5, ReadLatestPreserves
<1>6. ASSUME NEW c \in Call, InsertVersion(c) \/ CallLost(c) \/ CreateInMemory(c)
      PROVE  IInv'
  BY <1>6, CreateCases, EndingPreserves, WritingPreserves
<1> QED BY <1>1, <1>2, <1>3, <1>4, <1>5, <1>6 DEF Next

\* Whatever calls overlap, fail or are lost, the invariant holds.
THEOREM Invariant == Spec => []IInv
<1> QED BY InitEstablishes, StepPreserves, PTL DEF Spec

\* The variables keep their types.
THEOREM TypeCorrect == Spec => []TypeOK
<1>1. IInv => TypeOK
  BY DEF IInv
<1> QED BY <1>1, Invariant, PTL

\* No two callers that publish to one history are given the same version number, and each
\* finds its own document under the number it was given: the unique key is enough for a
\* number read in one statement and used in another.
THEOREM VersionsAreOwned == Spec => []OneCallerPerVersion
<1>1. IInv => OneCallerPerVersion
  BY DEF IInv
<1> QED BY <1>1, Invariant, PTL

\* What rollback() writes is a copy of an earlier version, though it reads the target
\* and inserts the copy in different statements.
THEOREM RollbacksAreCopies == Spec => []RollbackIsCopy
<1>1. IInv => RollbackIsCopy
  BY DEF IInv
<1> QED BY <1>1, Invariant, PTL

\* Every step appends one version to one history or leaves all of them alone.
LEMMA StepAppends == IInv /\ [Next]_vars => [Kept!Next]_rows
<1> SUFFICES ASSUME IInv, [Next]_vars, rows' # rows PROVE Kept!Next
  OBVIOUS
<1>1. PICK c \in Call : InsertVersion(c) \/ CallLost(c) \/ CreateInMemory(c)
  BY DEF Next, vars, Publish, Rollback, ReadTarget, ReadLatest
<1>2. PICK v \in Nat : Extends(c, v)
  BY <1>1, CreateCases
<1>3. of[c] \in History
  BY DEF IInv, TypeOK
<1>4. rows'[of[c]][v] \in Kept!Entry
  BY <1>2 DEF Extends, Kept!Entry, Row
<1>5. Kept!AppendVersion(of[c], v)
  BY <1>2, <1>4 DEF Extends, Kept!AppendVersion, Version
<1>6. v \in DOMAIN rows'[of[c]]
  BY <1>2 DEF Extends
<1> QED BY <1>3, <1>5, <1>6 DEF Kept!Next

\* Publications and rollbacks implement append-only histories: a version is never
\* changed, never removed, and never leaves a gap behind it.
THEOREM HistoryImplemented == Spec => ImplementsHistory
<1>1. Init => Kept!Init
  BY DEF Init, Kept!Init
<1> QED BY <1>1, StepAppends, Invariant, PTL DEF Spec, ImplementsHistory, Kept!Spec
-----------------------------------------------------------------------------
(* The readers.                                                            *)

Item == [version : Nat, row : Row]
Listings == UNION {[D -> Item] : D \in SUBSET History}
Loaded == Listings \cup Row \cup {None}

CatalogTypes ==
  /\ cache \in [Key -> Seq(Loaded) \cup {None}]
  /\ rpc \in [Reader -> {"idle", "load", "store", "read", "done", "failed"}]
  /\ DOMAIN ask = Reader
  /\ ask = [r \in Reader |-> ask[r]]
  /\ got \in [Reader -> Seq(Loaded)]

\* What one read of a kind showed is still so.
Holds(listing) ==
  \A h \in DOMAIN listing :
    /\ h \in History
    /\ listing[h].version \in Version(h)
    /\ listing[h].row = rows[h][listing[h].version]

AllHold(answer_) == \A i \in DOMAIN answer_ : Holds(answer_[i])

\* What the first and second read of a diff showed is still so.
ReadHolds(r) ==
  \A i \in 1 .. Len(got[r]) :
    got[r][i] # None =>
      /\ ask[r].versions[i] \in Version(ask[r].of)
      /\ got[r][i] = rows[ask[r].of][ask[r].versions[i]]

CacheHolds == \A k \in Key : cache[k] # None => AllHold(cache[k])

Serving(r) ==
  /\ rpc[r] = "idle" => got[r] = <<>>
  /\ rpc[r] \in {"load", "store"} => /\ ask[r] = [key |-> ask[r].key]
                                     /\ AllHold(got[r])
  /\ rpc[r] = "read" \/ (rpc[r] = "done" /\ "versions" \in DOMAIN ask[r]) =>
       /\ ask[r].of \in History
       /\ ReadHolds(r)
       /\ rpc[r] = "read" => Len(got[r]) \in {0, 1}
       /\ rpc[r] = "done" => /\ Len(got[r]) = 2
                             /\ got[r][1] # None /\ got[r][2] # None

CInv == IInv /\ CatalogTypes /\ CacheHolds /\ \A r \in Reader : Serving(r)

\* The writers of the histories do not know that they are read.
LEMMA CatalogStep == CatalogNext => [Next]_vars
BY DEF CatalogNext, Serve, Remember, Load, Store, Diff, ReadVersion, ReadFails

\* MetaCatalog implements MetaVersions: everything proved of the histories holds of them
\* while they are read.
THEOREM CatalogImplementsVersions == CatalogSpec => Spec
<1>1. CatalogInit => Init
  BY DEF CatalogInit
<1>2. [CatalogNext]_<<vars, catalogVars>> => [Next]_vars
  BY CatalogStep
<1> QED BY <1>1, <1>2, PTL DEF CatalogSpec, Spec

\* A listing of the latest versions is well formed and true when it is read.
LEMMA ListingHolds ==
  ASSUME IInv, NEW k
  PROVE  Listing(k) \in Listings /\ Holds(Listing(k))
<1> DEFINE D == {d \in History \ {SchemaHistory} : KindOf[d] = k /\ Version(d) # {}}
<1>1. ASSUME NEW h \in D
      PROVE  /\ h \in History
             /\ Latest(rows[h]) \in Version(h)
             /\ Latest(rows[h]) \in Nat
             /\ rows[h][Latest(rows[h])] \in Row
  <2>1. PICK n \in Nat : Version(h) = 1 .. n
    BY DEF IInv, Contiguous
  <2>2. Latest(rows[h]) = n /\ n # 0
    BY <2>1, LatestIsLength DEF Version
  <2>3. n \in Version(h)
    BY <2>1, <2>2
  <2> QED BY <2>1, <2>2, <2>3 DEF IInv, TypeOK, Version
<1>2. Listing(k) = [h \in D |-> [version |-> Latest(rows[h]), row |-> rows[h][Latest(rows[h])]]]
  BY DEF Listing
<1>3. Listing(k) \in [D -> Item]
  BY <1>1, <1>2 DEF Item
<1>4. D \in SUBSET History
  OBVIOUS
<1>5. Listing(k) \in Listings
  BY <1>3, <1>4 DEF Listings
<1>6. Holds(Listing(k))
  BY <1>1, <1>2 DEF Holds
<1> QED BY <1>5, <1>6

\* Rows that are there stay there, so what held goes on to hold.
LEMMA RowsStay ==
  ASSUME IInv, [Next]_vars
  PROVE  \A h \in History : \A w \in Version(h) : w \in Version(h)' /\ rows'[h][w] = rows[h][w]
<1>1. CASE rows' = rows
  BY <1>1 DEF Version
<1>2. CASE rows' # rows
  <2>0. PICK h \in History : \E u \in DOMAIN rows'[h] : Kept!AppendVersion(h, u)
    BY <1>2, StepAppends DEF Kept!Next
  <2>1. PICK v \in DOMAIN rows'[h] : Kept!AppendVersion(h, v)
    BY <2>0
  <2>2. /\ DOMAIN rows[h] = 1 .. v - 1 /\ DOMAIN rows'[h] = 1 .. v
        /\ \A w \in 1 .. v - 1 : rows'[h][w] = rows[h][w]
        /\ \A k \in History \ {h} : rows'[k] = rows[k]
    BY <2>1 DEF Kept!AppendVersion, IInv, TypeOK
  <2>3. PICK n \in Nat : DOMAIN rows[h] = 1 .. n
    BY DEF IInv, Contiguous, Version
  <2>4. DOMAIN rows[h] \subseteq DOMAIN rows'[h]
    <3>1. PICK m \in Nat : DOMAIN rows'[h] = 1 .. m
      BY StepPreserves DEF IInv, Contiguous, Version
    <3> QED BY <2>2, <2>3, <3>1
  <2> QED BY <2>2, <2>4 DEF Version
<1> QED BY <1>1, <1>2

LEMMA CatalogInitEstablishes == CatalogInit => CInv
<1> SUFFICES ASSUME CatalogInit PROVE CInv
  OBVIOUS
<1>1. IInv
  BY InitEstablishes DEF CatalogInit
<1>2. CatalogTypes /\ CacheHolds
  BY DEF CatalogInit, CatalogTypes, CacheHolds
<1>3. \A r \in Reader : Serving(r)
  BY DEF CatalogInit, Serving
<1> QED BY <1>1, <1>2, <1>3 DEF CInv

\* A step of the writers leaves what was read as true as it was.
LEMMA WritersPreserve ==
  ASSUME CInv, [Next]_vars, UNCHANGED catalogVars
  PROVE  CInv'
<1>1. IInv'
  BY StepPreserves DEF CInv
<1>2. \A h \in History : \A w \in Version(h) : w \in Version(h)' /\ rows'[h][w] = rows[h][w]
  BY RowsStay DEF CInv
<1>3. CatalogTypes'
  BY DEF CInv, CatalogTypes, catalogVars, Loaded, Listings, Item, Row, Key, Kind
<1>4. ASSUME NEW a, AllHold(a) PROVE AllHold(a)'
  BY <1>2, <1>4 DEF AllHold, Holds
<1>5. CacheHolds'
  BY <1>4 DEF CInv, CacheHolds, catalogVars, Key, Kind
<1>6. ASSUME NEW r \in Reader PROVE Serving(r)'
  <2>1. Serving(r)
    BY DEF CInv
  <2>2. ask[r].of \in History /\ ReadHolds(r) => ReadHolds(r)'
    BY <1>2 DEF ReadHolds, catalogVars
  <2> QED BY <1>4, <2>1, <2>2 DEF Serving, catalogVars
<1> QED BY <1>1, <1>3, <1>5, <1>6 DEF CInv

\* A request's own step: what has to be shown of it is its own part.
LEMMA OthersUndisturbed ==
  ASSUME CInv, NEW r \in Reader, UNCHANGED vars, CatalogTypes', CacheHolds', Serving(r)',
         \A q \in Reader \ {r} : rpc'[q] = rpc[q] /\ ask'[q] = ask[q] /\ got'[q] = got[q]
  PROVE  CInv'
<1>1. IInv'
  BY StepPreserves DEF CInv
<1>2. \A h : Version(h)' = Version(h)
  BY DEF vars, Version
<1>3. rows' = rows
  BY DEF vars
<1>4. ASSUME NEW q \in Reader \ {r} PROVE Serving(q)'
  <2>1. Serving(q)
    BY DEF CInv
  <2>2. ReadHolds(q) => ReadHolds(q)'
    BY <1>2, <1>3 DEF ReadHolds
  <2>3. \A a : AllHold(a) => AllHold(a)'
    BY <1>2, <1>3 DEF AllHold, Holds
  <2> QED BY <2>1, <2>2, <2>3 DEF Serving
<1> QED BY <1>1, <1>4 DEF CInv

LEMMA RememberPreserves ==
  ASSUME CInv, NEW r \in Reader, NEW k \in Key, Remember(r, k)
  PROVE  CInv'
<1>1. cache[k] # None => cache[k] \in Seq(Loaded)
  BY DEF CInv, CatalogTypes
<1>2. CatalogTypes'
  BY <1>1 DEF Remember, CInv, CatalogTypes, vars, Loaded, Listings, Item, Row, Key, Kind
<1>3. CacheHolds'
  BY DEF Remember, CInv, CacheHolds, AllHold, Holds, vars, Version, Key, Kind
<1>4. /\ ask'[r] = [key |-> k] /\ rpc'[r] \in {"load", "done"}
      /\ rpc'[r] = "load" => got'[r] = <<>>
  BY DEF Remember, CInv, CatalogTypes, Serving
<1>5. "versions" \notin DOMAIN ask'[r] /\ ask'[r] = [key |-> ask'[r].key]
  BY <1>4
<1>6. Serving(r)'
  BY <1>4, <1>5 DEF Serving, AllHold
<1> QED BY <1>2, <1>3, <1>6, OthersUndisturbed DEF Remember, CInv, CatalogTypes

LEMMA LoadPreserves ==
  ASSUME CInv, NEW r \in Reader, Load(r)
  PROVE  CInv'
<1> DEFINE listing == Listing(Loads(ask[r].key)[Len(got[r]) + 1])
<1>1. listing \in Listings /\ Holds(listing)
  BY ListingHolds DEF CInv
<1>2. got[r] \in Seq(Loaded) /\ listing \in Loaded
  BY <1>1 DEF CInv, CatalogTypes, Loaded
<1>3. /\ got' = [got EXCEPT ![r] = Append(got[r], listing)]
      /\ rpc[r] = "load" /\ \E p \in {"store", "load"} : rpc' = [rpc EXCEPT ![r] = p]
      /\ UNCHANGED <<vars, cache, ask>>
  BY DEF Load
<1>4. got'[r] = Append(got[r], listing) /\ got'[r] \in Seq(Loaded)
  BY <1>2, <1>3 DEF CInv, CatalogTypes
<1>5. CatalogTypes'
  BY <1>3, <1>4 DEF CInv, CatalogTypes, vars, Loaded, Listings, Item, Row, Key, Kind
<1>6. CacheHolds'
  BY <1>3 DEF CInv, CacheHolds, AllHold, Holds, vars, Version, Key, Kind
<1>7. AllHold(got'[r])
  <2>1. AllHold(got[r])
    BY <1>3 DEF CInv, Serving
  <2>2. \A i \in DOMAIN got'[r] : got'[r][i] = listing \/ (i \in DOMAIN got[r] /\ got'[r][i] = got[r][i])
    BY <1>2, <1>4
  <2> QED BY <1>1, <2>1, <2>2 DEF AllHold
<1>8. AllHold(got[r])'
  BY <1>3, <1>7 DEF AllHold, Holds, vars, Version
<1>9. rpc'[r] \in {"store", "load"}
  BY <1>3 DEF CInv, CatalogTypes
<1>10. Serving(r)'
  BY <1>3, <1>8, <1>9 DEF Serving, CInv
<1> QED BY <1>3, <1>5, <1>6, <1>10, OthersUndisturbed DEF CInv, CatalogTypes

LEMMA StorePreserves ==
  ASSUME CInv, NEW r \in Reader, Store(r)
  PROVE  CInv'
<1>1. rpc[r] = "store" /\ AllHold(got[r]) /\ got[r] \in Seq(Loaded)
  BY DEF Store, CInv, Serving, CatalogTypes
<1>2. CatalogTypes'
  BY <1>1 DEF Store, CInv, CatalogTypes, vars, Loaded, Listings, Item, Row, Key, Kind
<1>3. \A k \in Key : cache'[k] = cache[k] \/ cache'[k] = got[r]
  BY DEF Store, CInv, CatalogTypes
<1>4. \A k \in Key : cache'[k] # None => AllHold(cache'[k])
  BY <1>1, <1>3 DEF CInv, CacheHolds
<1>5. CacheHolds'
  BY <1>4 DEF Store, CacheHolds, AllHold, Holds, vars, Version, Key, Kind
<1>6. rpc'[r] = "done" /\ "versions" \notin DOMAIN ask'[r]
  BY <1>1 DEF Store, CInv, CatalogTypes, Serving
<1>7. Serving(r)'
  BY <1>6 DEF Serving
<1> QED BY <1>2, <1>5, <1>7, OthersUndisturbed DEF Store, CInv, CatalogTypes

LEMMA DiffPreserves ==
  ASSUME CInv, NEW r \in Reader, NEW h \in History, NEW from, NEW to, Diff(r, h, from, to)
  PROVE  CInv'
<1>1. CatalogTypes'
  BY DEF Diff, CInv, CatalogTypes, vars, Loaded, Listings, Item, Row, Key, Kind
<1>2. CacheHolds'
  BY DEF Diff, CInv, CacheHolds, AllHold, Holds, vars, Version, Key, Kind
<1>3. /\ rpc'[r] = "read" /\ ask'[r].of = h /\ got'[r] = <<>>
  BY DEF Diff, CInv, CatalogTypes, Serving
<1>4. Serving(r)'
  BY <1>3 DEF Serving, ReadHolds
<1> QED BY <1>1, <1>2, <1>4, OthersUndisturbed DEF Diff, CInv, CatalogTypes

LEMMA ReadVersionPreserves ==
  ASSUME CInv, NEW r \in Reader, ReadVersion(r)
  PROVE  CInv'
<1> DEFINE n == Len(got[r]) + 1
           v == ask[r].versions[n]
           h == ask[r].of
           row == IF v \in Version(h) THEN rows[h][v] ELSE None
<1>1. /\ rpc[r] = "read" /\ h \in History /\ ReadHolds(r) /\ Len(got[r]) \in {0, 1}
      /\ got[r] \in Seq(Loaded)
  BY DEF ReadVersion, CInv, Serving, CatalogTypes
<1>2. row \in Loaded
  BY <1>1 DEF CInv, IInv, TypeOK, Version, Loaded
<1>3. /\ got' = [got EXCEPT ![r] = Append(got[r], row)]
      /\ UNCHANGED <<vars, cache, ask>>
  BY DEF ReadVersion
<1>4. got'[r] = Append(got[r], row) /\ got'[r] \in Seq(Loaded) /\ Len(got'[r]) = n
  BY <1>1, <1>2, <1>3 DEF CInv, CatalogTypes
<1>5. \E p \in {"read", "failed", "done"} :
        /\ rpc' = [rpc EXCEPT ![r] = p]
        /\ p = "read" => n = 1
        /\ p = "done" => n = 2 /\ got'[r][1] # None /\ got'[r][2] # None
  <2> DEFINE p == IF n = 1 THEN "read"
                  ELSE IF None \in {got'[r][1], got'[r][2]} THEN "failed"
                  ELSE "done"
  <2>1. rpc' = [rpc EXCEPT ![r] = p]
    BY <1>4 DEF ReadVersion
  <2>2. \A m \in {0, 1} : m + 1 = 1 \/ m + 1 = 2
    OBVIOUS
  <2>3. n = 1 \/ n = 2
    BY <1>1, <2>2, Zenon
  <2>4. /\ p \in {"read", "failed", "done"}
        /\ p = "read" => n = 1
        /\ p = "done" => n = 2 /\ got'[r][1] # None /\ got'[r][2] # None
    BY <2>3
  <2> QED BY <2>1, <2>4
<1>6. CatalogTypes'
  BY <1>3, <1>4, <1>5 DEF CInv, CatalogTypes, vars, Loaded, Listings, Item, Row, Key, Kind
<1>7. CacheHolds'
  BY <1>3 DEF CInv, CacheHolds, AllHold, Holds, vars, Version, Key, Kind
<1>8. ReadHolds(r)'
  <2>1. \A i \in 1 .. n : (got'[r][i] = row /\ i = n) \/ (i \in 1 .. Len(got[r]) /\ got'[r][i] = got[r][i])
    BY <1>1, <1>2, <1>4
  <2>2. \A i \in 1 .. n : got'[r][i] # None =>
          /\ ask[r].versions[i] \in Version(h)
          /\ got'[r][i] = rows[h][ask[r].versions[i]]
    BY <1>1, <2>1 DEF ReadHolds
  <2> QED BY <1>3, <1>4, <2>2 DEF ReadHolds, vars, Version
<1>9. Serving(r)'
  <2>1. /\ rpc'[r] \in {"read", "failed", "done"}
        /\ rpc'[r] = "read" => n = 1
        /\ rpc'[r] = "done" => n = 2 /\ got'[r][1] # None /\ got'[r][2] # None
    BY <1>5 DEF CInv, CatalogTypes
  <2> QED BY <1>1, <1>3, <1>4, <1>8, <2>1 DEF Serving
<1> QED BY <1>3, <1>5, <1>6, <1>7, <1>9, OthersUndisturbed DEF CInv, CatalogTypes

LEMMA ReadFailsPreserves ==
  ASSUME CInv, NEW r \in Reader, ReadFails(r)
  PROVE  CInv'
<1>1. CatalogTypes'
  BY DEF ReadFails, CInv, CatalogTypes, vars, Loaded, Listings, Item, Row, Key, Kind
<1>2. CacheHolds'
  BY DEF ReadFails, CInv, CacheHolds, AllHold, Holds, vars, Version, Key, Kind
<1>3. Serving(r)'
  BY DEF ReadFails, CInv, CatalogTypes, Serving
<1> QED BY <1>1, <1>2, <1>3, OthersUndisturbed DEF ReadFails, CInv, CatalogTypes

LEMMA CatalogStepPreserves == CInv /\ [CatalogNext]_<<vars, catalogVars>> => CInv'
<1> SUFFICES ASSUME CInv, [CatalogNext]_<<vars, catalogVars>> PROVE CInv'
  OBVIOUS
<1>1. CASE UNCHANGED <<vars, catalogVars>>
  BY <1>1, WritersPreserve
<1>2. CASE Next /\ UNCHANGED catalogVars
  BY <1>2, WritersPreserve
<1>3. ASSUME NEW r \in Reader, Serve(r) PROVE CInv'
  <2>1. Asked \subseteq Key
    BY AskedAssumption DEF Key, Kind
  <2> QED BY <1>3, <2>1, RememberPreserves, LoadPreserves, StorePreserves, DiffPreserves,
             ReadVersionPreserves, ReadFailsPreserves DEF Serve
<1> QED BY <1>1, <1>2, <1>3 DEF CatalogNext

THEOREM CatalogInvariant == CatalogSpec => []CInv
<1> QED BY CatalogInitEstablishes, CatalogStepPreserves, PTL DEF CatalogSpec

\* Whatever is published meanwhile, what a cached listing or a finished diff shows of a
\* version is what that version still is: the statements of a diff need no transaction.
THEOREM ShownIsTrue == CatalogSpec => []ShownStaysTrue
<1>1. CInv => ShownStaysTrue
  <2> SUFFICES ASSUME CInv PROVE ShownStaysTrue
    OBVIOUS
  <2>1. ASSUME NEW k \in Key, cache[k] # None, NEW item \in Listed(cache[k])
        PROVE  /\ item[2].version \in Version(item[1])
               /\ item[2].row = rows[item[1]][item[2].version]
    <3>0. PICK i \in DOMAIN cache[k] : \E h \in DOMAIN cache[k][i] : item = <<h, cache[k][i][h]>>
      BY <2>1 DEF Listed
    <3>1. PICK h \in DOMAIN cache[k][i] : item = <<h, cache[k][i][h]>>
      BY <3>0
    <3>2. Holds(cache[k][i])
      BY <2>1, <3>1 DEF CInv, CacheHolds, AllHold
    <3> QED BY <3>1, <3>2 DEF Holds
  <2>2. ASSUME NEW r \in Reader, rpc[r] = "done", "versions" \in DOMAIN ask[r],
               NEW i \in 1 .. 2
        PROVE  got[r][i] = rows[ask[r].of][ask[r].versions[i]]
    <3>1. Len(got[r]) = 2 /\ got[r][1] # None /\ got[r][2] # None /\ ReadHolds(r)
      BY <2>2 DEF CInv, Serving
    <3>2. i \in 1 .. Len(got[r]) /\ got[r][i] # None
      BY <2>2, <3>1
    <3> QED BY <3>1, <3>2 DEF ReadHolds
  <2> QED BY <2>1, <2>2 DEF ShownStaysTrue
<1> QED BY <1>1, CatalogInvariant, PTL

\* Once the requests that found a key empty are through, nobody loads it again and it
\* keeps what it holds for good.
THEOREM CacheIsSettled == CatalogSpec => CacheSettles
<1>1. ASSUME CInv, [CatalogNext]_<<vars, catalogVars>>, NEW k \in Key, Settled(k)
      PROVE  Settled(k)' /\ cache'[k] = cache[k]
  <2>1. CASE UNCHANGED catalogVars
    BY <1>1, <2>1 DEF Settled, catalogVars
  <2>2. ASSUME NEW r \in Reader, Serve(r) PROVE Settled(k)' /\ cache'[k] = cache[k]
    <3>1. ASSUME NEW j \in Key, Remember(r, j)
          PROVE  Settled(k)' /\ cache'[k] = cache[k]
      BY <1>1, <3>1 DEF Remember, CInv, CatalogTypes, Settled
    <3>2. CASE Load(r)
      BY <1>1, <3>2 DEF Load, CInv, CatalogTypes, Settled
    <3>3. CASE Store(r)
      BY <1>1, <3>3 DEF Store, CInv, CatalogTypes, Settled
    <3>4. ASSUME NEW h, NEW from, NEW to, Diff(r, h, from, to)
          PROVE  Settled(k)' /\ cache'[k] = cache[k]
      BY <1>1, <3>4 DEF Diff, CInv, CatalogTypes, Settled
    <3>5. CASE ReadVersion(r)
      <4>1. UNCHANGED <<cache, ask>> /\ \E p : /\ rpc' = [rpc EXCEPT ![r] = p]
                                               /\ p \in {"read", "failed", "done"}
        BY <3>5 DEF ReadVersion
      <4> QED BY <1>1, <4>1 DEF CInv, CatalogTypes, Settled
    <3>6. CASE ReadFails(r)
      BY <1>1, <3>6 DEF ReadFails, CInv, CatalogTypes, Settled
    <3>7. Asked \subseteq Key
      BY AskedAssumption DEF Key, Kind
    <3> QED BY <2>2, <3>1, <3>2, <3>3, <3>4, <3>5, <3>6, <3>7 DEF Serve
  <2> QED BY <1>1, <2>1, <2>2 DEF CatalogNext, catalogVars
<1>2. CInv /\ [CatalogNext]_<<vars, catalogVars>>
        => [\A k \in Key : Settled(k) => Settled(k)' /\ cache'[k] = cache[k]]_<<vars, catalogVars>>
  BY <1>1
<1> QED BY <1>2, CatalogInvariant, PTL DEF CatalogSpec, CacheSettles
=============================================================================
