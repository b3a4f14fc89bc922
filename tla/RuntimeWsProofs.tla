-------------------------- MODULE RuntimeWsProofs --------------------------
(***************************************************************************)
(* What sockets are shown is kept in Redis, for every number of instances, *)
(* sockets, updates and faults, every store and either bus; and with the   *)
(* stream store nothing falls through between the replay of a subscription *)
(* and the live updates, whatever the replay limit.                        *)
(***************************************************************************)
EXTENDS RuntimeWs, SequenceTheorems, TLAPS

----------------------------------------------------------------------------
(* Queues.                                                                 *)

LEMMA MembersOfAppend ==
  ASSUME NEW S, NEW q \in Seq(S), NEW x \in S
  PROVE  Append(q, x) \in Seq(S) /\ Members(Append(q, x)) = Members(q) \cup {x}
<1>1. /\ Append(q, x) \in Seq(S) /\ Len(Append(q, x)) = Len(q) + 1
      /\ Append(q, x)[Len(q) + 1] = x
      /\ \A n \in 1 .. Len(q) : Append(q, x)[n] = q[n]
  OBVIOUS
<1> QED BY <1>1 DEF Members

LEMMA MembersOfTail ==
  ASSUME NEW S, NEW q \in Seq(S), q # <<>>
  PROVE  /\ Tail(q) \in Seq(S) /\ Members(Tail(q)) \subseteq Members(q)
         /\ Head(q) \in Members(q) /\ Head(q) \in S
<1>1. /\ Tail(q) \in Seq(S) /\ Len(Tail(q)) = Len(q) - 1 /\ Len(q) > 0
      /\ \A n \in 1 .. Len(q) - 1 : Tail(q)[n] = q[n + 1]
      /\ Head(q) = q[1]
  OBVIOUS
<1> QED BY <1>1 DEF Members

LEMMA MembersOfBoth ==
  ASSUME NEW S, NEW q \in Seq(S), NEW r \in Seq(S)
  PROVE  q \o r \in Seq(S) /\ Members(q \o r) = Members(q) \cup Members(r)
<1>1. /\ q \o r \in Seq(S) /\ Len(q \o r) = Len(q) + Len(r)
      /\ \A n \in 1 .. Len(q) : (q \o r)[n] = q[n]
      /\ \A n \in 1 .. Len(r) : (q \o r)[Len(q) + n] = r[n]
      /\ \A n \in 1 .. Len(q \o r) : n > Len(q) => (q \o r)[n] = r[n - Len(q)]
  OBVIOUS
<1>2. Members(q) \subseteq Members(q \o r)
  BY <1>1 DEF Members
<1>3. Members(r) \subseteq Members(q \o r)
  <2> SUFFICES ASSUME NEW n \in 1 .. Len(r) PROVE r[n] \in Members(q \o r)
    BY DEF Members
  <2>1. Len(q) + n \in 1 .. Len(q \o r) /\ (q \o r)[Len(q) + n] = r[n]
    BY <1>1
  <2> QED BY <2>1, <1>1 DEF Members
<1>4. Members(q \o r) \subseteq Members(q) \cup Members(r)
  <2> SUFFICES ASSUME NEW n \in 1 .. Len(q \o r) PROVE (q \o r)[n] \in Members(q) \cup Members(r)
    BY <1>1 DEF Members
  <2>1. CASE n \in 1 .. Len(q)
    BY <2>1, <1>1 DEF Members
  <2>2. CASE n > Len(q)
    <3>1. n - Len(q) \in 1 .. Len(r)
      BY <2>2, <1>1
    <3> QED BY <2>2, <3>1, <1>1 DEF Members
  <2> QED BY <2>1, <2>2
<1> QED BY <1>1, <1>2, <1>3, <1>4

LEMMA MembersHaveType ==
  ASSUME NEW S, NEW q \in Seq(S)
  PROVE  Members(q) \subseteq S /\ DOMAIN q = 1 .. Len(q) /\ Len(q) \in Nat
BY DEF Members

LEMMA SequenceOfFunction ==
  ASSUME NEW S, NEW l \in Nat, NEW f \in [1 .. l -> S]
  PROVE  f \in Seq(S)
OBVIOUS

\* The queues of every instance when one of them grows or shrinks.
LEMMA QueuesPush ==
  ASSUME NEW T, NEW f \in [Instance -> Seq(T)], NEW i \in Instance, NEW x \in T,
         NEW g, g = [f EXCEPT ![i] = Append(@, x)]
  PROVE  /\ g \in [Instance -> Seq(T)]
         /\ \A j \in Instance : Members(g[j]) \subseteq Members(f[j]) \cup {x}
<1>1. Append(f[i], x) \in Seq(T) /\ Members(Append(f[i], x)) = Members(f[i]) \cup {x}
  BY MembersOfAppend
<1> QED BY <1>1

LEMMA QueuesPop ==
  ASSUME NEW T, NEW f \in [Instance -> Seq(T)], NEW i \in Instance, f[i] # <<>>,
         NEW g, g = [f EXCEPT ![i] = Tail(@)]
  PROVE  /\ g \in [Instance -> Seq(T)]
         /\ \A j \in Instance : Members(g[j]) \subseteq Members(f[j])
         /\ Head(f[i]) \in Members(f[i]) /\ Head(f[i]) \in T
<1>1. /\ Tail(f[i]) \in Seq(T) /\ Members(Tail(f[i])) \subseteq Members(f[i])
      /\ Head(f[i]) \in Members(f[i]) /\ Head(f[i]) \in T
  BY MembersOfTail
<1> QED BY <1>1

LEMMA QueuesClear ==
  ASSUME NEW T, NEW f \in [Instance -> Seq(T)], NEW i \in Instance,
         NEW g, g = [f EXCEPT ![i] = <<>>]
  PROVE  /\ g \in [Instance -> Seq(T)]
         /\ \A j \in Instance : Members(g[j]) \subseteq Members(f[j])
<1>1. <<>> \in Seq(T) /\ Members(<<>>) = {}
  BY DEF Members
<1> QED BY <1>1

----------------------------------------------------------------------------
(* What the store hands back.                                              *)

LEMMA ReadIsOfLog ==
  ASSUME NEW log \in Seq(Event), NEW after \in Nat
  PROVE  /\ Read(log, after) \in Seq(Update)
         /\ \A u \in Members(Read(log, after)) : \E n \in 1 .. Len(log) : u = Stamp(log[n], n)
<1> DEFINE Smaller(x, y) == IF x < y THEN x ELSE y
           from == IF after = 0 THEN Len(log) - 1 ELSE after
           upto == IF after = 0 THEN Smaller(1, Len(log))
                   ELSE IF Stream THEN Smaller(ReplayLimit, Len(log) - from) ELSE 0
<1>1. Len(log) \in Nat /\ ReplayLimit \in Nat
  BY LimitAssumption
<1>2. from \in Int /\ upto \in Int /\ \A n \in 1 .. upto : from + n \in 1 .. Len(log)
  BY <1>1
<1> DEFINE result == [n \in 1 .. upto |-> Stamp(log[from + n], from + n)]
<1>3. Read(log, after) = result
  BY DEF Read
<1>4. PICK l \in Nat : 1 .. upto = 1 .. l
  <2>1. CASE upto \in Nat BY <2>1
  <2>2. CASE upto \notin Nat
    <3>1. 1 .. upto = 1 .. 0 BY <2>2, <1>2
    <3> QED BY <3>1
  <2> QED BY <2>1, <2>2
<1>5. \A n \in 1 .. l : Stamp(log[from + n], from + n) \in Update
  <2> SUFFICES ASSUME NEW n \in 1 .. l PROVE Stamp(log[from + n], from + n) \in Update
    OBVIOUS
  <2>1. from + n \in 1 .. Len(log)
    BY <1>2, <1>4
  <2>2. log[from + n] \in Event /\ from + n \in Nat
    BY <2>1, <1>1
  <2> HIDE DEF from
  <2> QED BY <2>2 DEF Stamp, Update
<1> HIDE DEF from, upto
<1>6. result \in Seq(Update) /\ DOMAIN result = 1 .. l
  <2>1. result \in [1 .. l -> Update] /\ DOMAIN result = 1 .. l
    BY <1>4, <1>5
  <2> HIDE DEF result
  <2> QED BY <2>1, SequenceOfFunction
<1>7. \A u \in Members(result) : \E n \in 1 .. Len(log) : u = Stamp(log[n], n)
  BY <1>2, <1>6, <1>4 DEF Members
<1> QED BY <1>3, <1>6, <1>7

----------------------------------------------------------------------------
(* The invariant.  An update is kept from the moment the store answers,     *)
(* and the answers, the messages and the sockets are the only places an     *)
(* update is ever in; the store only grows, so it stays kept.               *)

Kept(u) == IF Stream THEN u.id \in DOMAIN Log /\ Log[u.id] = u.event
           ELSE u.event \in Members(Log)

AllKept ==
  /\ \A i \in Instance : \A r \in Members(replies[i]) : \A u \in Members(r.events) : Kept(u)
  /\ \A i \in Instance : \A m \in Members(pubs[i]) : Kept(m.update)
  /\ \A i \in Instance : \A m \in Members(inbox[i]) : Kept(m.update)
  /\ \A c \in Conn : \A x \in Members(shown[c]) : Kept(x.update)

SavesReturnOne ==
  \A i \in Instance : \A r \in Members(replies[i]) :
    r.ok /\ r.op.kind # "read" => Len(r.events) = 1

KeptInv == TypeOK /\ SavesReturnOne /\ (StoreMode # "memory" => AllKept)

Grows == \A n \in DOMAIN Log : n \in DOMAIN Log' /\ Log'[n] = Log[n]

LEMMA KeptStays ==
  ASSUME TypeOK, TypeOK', Grows, NEW u, Kept(u)
  PROVE  Kept(u)'
<1>1. Log \in Seq(Event) /\ Log' \in Seq(Event)
  BY DEF TypeOK, Log
<1> QED BY <1>1 DEF Kept, Grows, Members, Stream

\* It is enough to look at what is new in a step.
LEMMA NewIsEnough ==
  ASSUME TypeOK, TypeOK', AllKept, Grows,
         \A i \in Instance : \A r \in Members(replies'[i]) :
           r \in Members(replies[i]) \/ \A u \in Members(r.events) : Kept(u)',
         \A i \in Instance : \A m \in Members(pubs'[i]) :
           m \in Members(pubs[i]) \/ Kept(m.update)',
         \A i \in Instance : \A m \in Members(inbox'[i]) :
           m \in Members(inbox[i]) \/ Kept(m.update)',
         \A c \in Conn : \A x \in Members(shown'[c]) :
           x \in Members(shown[c]) \/ Kept(x.update)'
  PROVE  AllKept'
<1>1. \A u : Kept(u) => Kept(u)'
  BY KeptStays
<1> QED BY <1>1 DEF AllKept, Members

LEMMA OperationFields ==
  ASSUME NEW op \in Operation
  PROVE  /\ op.kind \in {"read", "save", "resave"}
         /\ op.kind = "read" => op.conn \in Conn /\ op.after \in Nat
         /\ op.kind # "read" => op.event \in Event
BY DEF Operation

LEMMA EmitShows ==
  ASSUME TypeOK, NEW i \in Instance, NEW u \in Update, EmitToTopic(i, u)
  PROVE  /\ shown' \in [Conn -> Seq([how : {"live", "replay"}, update : Update])]
         /\ \A c \in Conn : \A x \in Members(shown'[c]) :
              x \in Members(shown[c]) \/ x.update = u
<1> DEFINE S == [how : {"live", "replay"}, update : Update]
           new == [how |-> "live", update |-> u]
<1>1. new \in S /\ new.update = u
  OBVIOUS
<1>2. \A c \in Conn : shown[c] \in Seq(S)
  BY DEF TypeOK
<1> HIDE DEF S, new
<1>3. \A c \in Conn : Append(shown[c], new) \in Seq(S)
                     /\ Members(Append(shown[c], new)) = Members(shown[c]) \cup {new}
  BY <1>1, <1>2, MembersOfAppend
<1>4. shown' = [c \in Conn |-> IF c \in RoomAt(i) THEN Append(shown[c], new) ELSE shown[c]]
  BY DEF EmitToTopic, new
<1>5. \A c \in Conn : shown'[c] \in Seq(S) /\ Members(shown'[c]) \subseteq Members(shown[c]) \cup {new}
  BY <1>2, <1>3, <1>4
<1>6. shown' \in [Conn -> Seq(S)]
  BY <1>4, <1>5
<1> QED BY <1>1, <1>5, <1>6 DEF S

----------------------------------------------------------------------------
(* Sockets.                                                                *)

LEMMA SocketsKeep ==
  ASSUME KeptInv, NEW c \in Conn,
         \/ \E i \in Instance : Connect(c, i)
         \/ Disconnect(c)
         \/ \E after \in Cursors : SubscribePage(c, after)
  PROVE  KeptInv'
<1> USE DEF KeptInv
<1>1. CASE \E i \in Instance : Connect(c, i)
  <2>1. TypeOK'
    BY <1>1 DEF Connect, TypeOK
  <2>2. SavesReturnOne' /\ (AllKept => AllKept')
    BY <1>1 DEF Connect, SavesReturnOne, AllKept, Kept, Log
  <2> QED BY <2>1, <2>2
<1>2. CASE Disconnect(c)
  <2>1. TypeOK'
    BY <1>2 DEF Disconnect, TypeOK
  <2>2. SavesReturnOne' /\ (AllKept => AllKept')
    BY <1>2 DEF Disconnect, SavesReturnOne, AllKept, Kept, Log
  <2> QED BY <2>1, <2>2
<1>3. ASSUME NEW after \in Cursors, SubscribePage(c, after) PROVE KeptInv'
  <2> DEFINE op == [kind |-> "read", conn |-> c, after |-> after]
  <2>1. after \in Nat /\ at[c] \in Instance
    BY <1>3 DEF Cursors, Stamp, SubscribePage, TypeOK, Log
  <2>2. op \in Operation
    BY <2>1 DEF Operation
  <2>3. ops' = [ops EXCEPT ![at[c]] = Append(@, op)]
    BY <1>3 DEF SubscribePage, Ask
  <2> HIDE DEF op
  <2>4. ops' \in [Instance -> Seq(Operation)]
    BY <2>1, <2>2, <2>3, QueuesPush DEF TypeOK
  <2>5. TypeOK'
    BY <1>3, <2>1, <2>4 DEF SubscribePage, TypeOK
  <2>6. SavesReturnOne' /\ (AllKept => AllKept')
    BY <1>3 DEF SubscribePage, SavesReturnOne, AllKept, Kept, Log
  <2> QED BY <2>5, <2>6
<1> QED BY <1>1, <1>2, <1>3

----------------------------------------------------------------------------
(* The store.                                                              *)

\* An answer takes the place of its call.
LEMMA AnswerIsTyped ==
  ASSUME TypeOK, NEW i \in Instance, ops[i] # <<>>, NEW events \in Seq(Update),
         NEW ok \in BOOLEAN, NEW head \in Nat, Answer(i, events, ok, head)
  PROVE  /\ Head(ops[i]) \in Operation
         /\ ops' \in [Instance -> Seq(Operation)]
         /\ replies' \in [Instance -> Seq(Reply)]
         /\ \A j \in Instance : \A r \in Members(replies'[j]) :
              \/ r \in Members(replies[j])
              \/ r = [op |-> Head(ops[i]), ok |-> ok, events |-> events, head |-> head]
<1>1. Head(ops[i]) \in Operation /\ ops' \in [Instance -> Seq(Operation)]
  BY QueuesPop DEF Answer, TypeOK
<1> DEFINE new == [op |-> Head(ops[i]), ok |-> ok, events |-> events, head |-> head]
<1>2. new \in Reply
  BY <1>1 DEF Reply
<1>3. replies' = [replies EXCEPT ![i] = Append(@, new)]
  BY DEF Answer
<1> HIDE DEF new
<1>4. /\ replies' \in [Instance -> Seq(Reply)]
      /\ \A j \in Instance : Members(replies'[j]) \subseteq Members(replies[j]) \cup {new}
  <2>1. replies \in [Instance -> Seq(Reply)]
    BY DEF TypeOK
  <2>2. /\ Append(replies[i], new) \in Seq(Reply)
        /\ Members(Append(replies[i], new)) = Members(replies[i]) \cup {new}
    BY <1>2, <2>1, MembersOfAppend
  <2> QED BY <1>3, <2>1, <2>2
<1> QED BY <1>1, <1>4 DEF new

LEMMA SavedGrows ==
  ASSUME TypeOK, NEW s \in Instance \cup {Shared}, NEW e \in Event,
         saved' = [saved EXCEPT ![s] = Append(@, e)]
  PROVE  /\ saved' \in [Instance \cup {Shared} -> Seq(Event)]
         /\ Grows
         /\ s = Shared => Log' = Append(Log, e) /\ Len(Log) + 1 \in DOMAIN Log'
                          /\ Log'[Len(Log) + 1] = e
<1>1. saved[s] \in Seq(Event) /\ Append(saved[s], e) \in Seq(Event)
  BY DEF TypeOK
<1>2. Log \in Seq(Event) /\ saved' \in [Instance \cup {Shared} -> Seq(Event)]
  BY <1>1 DEF TypeOK, Log
<1>3. CASE s = Shared
  <2>1. Log' = Append(Log, e)
    BY <1>3 DEF Log, TypeOK
  <2> QED BY <1>2, <2>1 DEF Grows
<1>4. CASE s # Shared
  <2>1. Log' = Log
    BY <1>4 DEF Log, TypeOK
  <2> QED BY <1>2, <1>4, <2>1 DEF Grows
<1> QED BY <1>3, <1>4

LEMMA StampIsUpdate ==
  ASSUME NEW e \in Event, NEW n \in Nat
  PROVE  Stamp(e, n) \in Update
BY DEF Stamp, Update

LEMMA StampIsKept ==
  ASSUME Log \in Seq(Event), NEW n \in 1 .. Len(Log)
  PROVE  Kept(Stamp(Log[n], n))
BY DEF Stamp, Kept, Members

LEMMA StoreExecutesKeeps ==
  ASSUME KeptInv, NEW i \in Instance, StoreExecutes(i)
  PROVE  KeptInv'
<1> DEFINE op == Head(ops[i])
           s == StoreOf(i)
<1>1. ops[i] # <<>> /\ TypeOK /\ op \in Operation
  BY MembersOfTail DEF StoreExecutes, KeptInv, TypeOK
<1>2. s \in Instance \cup {Shared} /\ saved[s] \in Seq(Event) /\ Len(saved[s]) \in Nat
  BY <1>1 DEF StoreOf, TypeOK
<1>3. CASE op.kind = "read"
  <2> DEFINE events == Read(saved[s], op.after)
  <2>1. /\ events \in Seq(Update)
        /\ \A u \in Members(events) : \E n \in 1 .. Len(saved[s]) : u = Stamp(saved[s][n], n)
    BY <1>1, <1>2, <1>3, OperationFields, ReadIsOfLog
  <2>2. Answer(i, events, TRUE, Len(saved[s])) /\ UNCHANGED saved
    BY <1>3 DEF StoreExecutes
  <2>3. StoreMode # "memory" => \A u \in Members(events) : Kept(u)
    <3> SUFFICES ASSUME StoreMode # "memory", NEW n \in 1 .. Len(Log)
                 PROVE  Kept(Stamp(Log[n], n))
      BY <2>1 DEF StoreOf, Log
    <3> QED BY <1>1, StampIsKept DEF TypeOK, Log
  <2> DEFINE new == [op |-> op, ok |-> TRUE, events |-> events, head |-> Len(saved[s])]
  <2> HIDE DEF events
  <2>4. /\ ops' \in [Instance -> Seq(Operation)] /\ replies' \in [Instance -> Seq(Reply)]
        /\ \A j \in Instance : \A r \in Members(replies'[j]) :
             r \in Members(replies[j]) \/ r = new
    BY <1>1, <1>2, <2>1, <2>2, AnswerIsTyped
  <2>5. TypeOK'
    BY <1>1, <2>2, <2>4 DEF TypeOK, StoreExecutes
  <2>6. SavesReturnOne'
    BY <1>3, <2>4 DEF SavesReturnOne, KeptInv
  <2>7. Grows /\ \A u : Kept(u) <=> Kept(u)'
    BY <2>2 DEF Grows, Log, Kept
  <2>8. StoreMode # "memory" => AllKept'
    BY <1>1, <2>3, <2>4, <2>5, <2>7, NewIsEnough DEF StoreExecutes, KeptInv
  <2> QED BY <2>5, <2>6, <2>8 DEF KeptInv
<1>4. CASE op.kind # "read"
  <2> DEFINE stamp == Stamp(op.event, Len(saved[s]) + 1)
             new == [op |-> op, ok |-> TRUE, events |-> <<stamp>>, head |-> 0]
  <2>1. op.event \in Event
    BY <1>1, <1>4, OperationFields
  <2>2. saved' = [saved EXCEPT ![s] = Append(@, op.event)] /\ Answer(i, <<stamp>>, TRUE, 0)
    BY <1>4 DEF StoreExecutes
  <2>3. stamp \in Update /\ <<stamp>> \in Seq(Update)
    BY <1>2, <2>1, StampIsUpdate
  <2>4. /\ saved' \in [Instance \cup {Shared} -> Seq(Event)] /\ Grows
        /\ s = Shared => /\ Len(Log) + 1 \in DOMAIN Log'
                         /\ Log'[Len(Log) + 1] = op.event
    BY <1>1, <1>2, <2>1, <2>2, SavedGrows
  <2>5. ASSUME StoreMode # "memory", NEW u, u = stamp PROVE Kept(u)'
    <3>1. s = Shared /\ u = Stamp(op.event, Len(Log) + 1)
      BY <2>5 DEF StoreOf, Log
    <3>2. u.event = op.event /\ (Stream => u.id = Len(Log) + 1)
      BY <3>1 DEF Stamp
    <3> QED BY <2>4, <3>1, <3>2 DEF Kept, Members, Stream
  <2> HIDE DEF stamp
  <2>6. /\ ops' \in [Instance -> Seq(Operation)] /\ replies' \in [Instance -> Seq(Reply)]
        /\ \A j \in Instance : \A r \in Members(replies'[j]) :
             r \in Members(replies[j]) \/ r = new
    BY <1>1, <2>2, <2>3, AnswerIsTyped
  <2>7. TypeOK'
    BY <1>1, <2>4, <2>6 DEF TypeOK, StoreExecutes
  <2>8. Len(new.events) = 1 /\ \A u \in Members(new.events) : u = stamp
    BY DEF Members
  <2>9. SavesReturnOne'
    BY <2>6, <2>8 DEF SavesReturnOne, KeptInv
  <2>10. StoreMode # "memory" => AllKept'
    BY <1>1, <2>4, <2>5, <2>6, <2>7, <2>8, NewIsEnough DEF StoreExecutes, KeptInv
  <2> QED BY <2>7, <2>9, <2>10 DEF KeptInv
<1> QED BY <1>3, <1>4

\* A rejected call leaves an answer without updates, executed or not.
LEMMA StoreFailsKeeps ==
  ASSUME KeptInv, NEW i \in Instance, StoreFails(i)
  PROVE  KeptInv'
<1> DEFINE op == Head(ops[i])
           new == [op |-> op, ok |-> FALSE, events |-> <<>>, head |-> 0]
<1>1. ops[i] # <<>> /\ TypeOK /\ op \in Operation
  BY MembersOfTail DEF StoreFails, KeptInv, TypeOK
<1>2. Answer(i, <<>>, FALSE, 0) /\ <<>> \in Seq(Update) /\ faults' \in Nat
  <2>1. Answer(i, <<>>, FALSE, 0) /\ faults' = faults + 1
    BY DEF StoreFails
  <2>2. faults \in Nat
    BY <1>1 DEF TypeOK
  <2>3. faults' \in Nat /\ <<>> \in Seq(Update)
    BY <2>1, <2>2
  <2> QED BY <2>1, <2>3, Zenon
<1>3. /\ ops' \in [Instance -> Seq(Operation)] /\ replies' \in [Instance -> Seq(Reply)]
      /\ \A j \in Instance : \A r \in Members(replies'[j]) : r \in Members(replies[j]) \/ r = new
  BY <1>1, <1>2, AnswerIsTyped
<1>4. /\ saved' \in [Instance \cup {Shared} -> Seq(Event)]
      /\ Grows
  <2>1. CASE UNCHANGED saved
    BY <1>1, <2>1 DEF TypeOK, Grows, Log
  <2>2. CASE op.kind # "read" /\ saved' = [saved EXCEPT ![Shared] = Append(@, op.event)]
    BY <1>1, <2>2, OperationFields, SavedGrows
  <2> QED BY <2>1, <2>2 DEF StoreFails
<1>5. TypeOK'
  BY <1>1, <1>2, <1>3, <1>4 DEF TypeOK, StoreFails
<1>6. SavesReturnOne'
  BY <1>3 DEF SavesReturnOne, KeptInv
<1>7. Members(new.events) = {}
  BY DEF Members
<1>8. StoreMode # "memory" => AllKept'
  BY <1>1, <1>3, <1>4, <1>5, <1>7, NewIsEnough DEF StoreFails, KeptInv
<1> QED BY <1>5, <1>6, <1>8 DEF KeptInv

----------------------------------------------------------------------------
(* The gateway.                                                            *)

\* What an answer that is taken holds.
LEMMA TakenReply ==
  ASSUME KeptInv, NEW i \in Instance, NEW kind, Resume(i, kind)
  PROVE  LET r == Head(replies[i])
         IN  /\ r \in Reply /\ r.op.kind = kind /\ r.op \in Operation
             /\ r.events \in Seq(Update)
             /\ StoreMode # "memory" => \A u \in Members(r.events) : Kept(u)
             /\ r.ok /\ kind # "read" => /\ r.events[1] \in Members(r.events)
                                         /\ r.events[1] \in Update
             /\ replies' \in [Instance -> Seq(Reply)]
             /\ \A j \in Instance : Members(replies'[j]) \subseteq Members(replies[j])
<1> DEFINE r == Head(replies[i])
<1>1. replies \in [Instance -> Seq(Reply)] /\ replies[i] # <<>>
      /\ replies' = [replies EXCEPT ![i] = Tail(@)] /\ r.op.kind = kind
  BY DEF KeptInv, TypeOK, Resume
<1>2. /\ Tail(replies[i]) \in Seq(Reply)
      /\ Members(Tail(replies[i])) \subseteq Members(replies[i])
      /\ r \in Members(replies[i]) /\ r \in Reply
  BY <1>1, MembersOfTail
<1>3. /\ replies' \in [Instance -> Seq(Reply)]
      /\ \A j \in Instance : Members(replies'[j]) \subseteq Members(replies[j])
  BY <1>1, <1>2
<1>4. r.op \in Operation /\ r.events \in Seq(Update)
  BY <1>2 DEF Reply
<1>5. StoreMode # "memory" => \A u \in Members(r.events) : Kept(u)
  BY <1>2 DEF KeptInv, AllKept
<1>6. r.ok /\ kind # "read" => Len(r.events) = 1
  BY <1>1, <1>2 DEF KeptInv, SavesReturnOne
<1>7. Len(r.events) = 1 => r.events[1] \in Members(r.events) /\ r.events[1] \in Update
  BY <1>4 DEF Members
<1> QED BY <1>1, <1>2, <1>3, <1>4, <1>5, <1>6, <1>7

LEMMA SubscriptionMoves ==
  ASSUME NEW S, S = [stage : {"none", "reading", "done", "failed", "left"}, after : Nat, head : Nat],
         sub \in [Conn -> S], NEW c \in Conn, NEW head \in Nat,
         \/ UNCHANGED sub
         \/ sub' = [sub EXCEPT ![c].stage = "failed"]
         \/ sub' = [sub EXCEPT ![c] = [stage |-> "done", after |-> @.after, head |-> head]]
  PROVE  sub' \in [Conn -> S]
OBVIOUS

LEMMA ResumeSubscribeKeeps ==
  ASSUME KeptInv, NEW i \in Instance, ResumeSubscribe(i)
  PROVE  KeptInv'
<1> DEFINE r == Head(replies[i])
           c == r.op.conn
           Sent == [how : {"live", "replay"}, update : Update]
           sent == [n \in DOMAIN r.events |-> [how |-> "replay", update |-> r.events[n]]]
<1>1. /\ TypeOK /\ r \in Reply /\ r.op \in Operation /\ r.events \in Seq(Update) /\ c \in Conn
      /\ StoreMode # "memory" => \A u \in Members(r.events) : Kept(u)
      /\ replies' \in [Instance -> Seq(Reply)]
      /\ \A j \in Instance : Members(replies'[j]) \subseteq Members(replies[j])
  BY TakenReply, OperationFields DEF ResumeSubscribe, KeptInv
<1>2. /\ sent \in Seq(Sent)
      /\ \A x \in Members(sent) : x.update \in Members(r.events)
  <2>1. DOMAIN r.events = 1 .. Len(r.events) /\ Len(r.events) \in Nat
        /\ \A n \in 1 .. Len(r.events) : r.events[n] \in Update
    BY <1>1
  <2>2. sent \in [1 .. Len(r.events) -> Sent]
    BY <2>1
  <2>3. sent \in Seq(Sent)
    BY <2>1, <2>2, SequenceOfFunction
  <2> QED BY <2>1, <2>3 DEF Members
<1>3. shown[c] \in Seq(Sent)
  BY <1>1 DEF TypeOK
<1> HIDE DEF Sent, sent
<1>4. /\ shown[c] \o sent \in Seq(Sent)
      /\ Members(shown[c] \o sent) = Members(shown[c]) \cup Members(sent)
  BY <1>2, <1>3, MembersOfBoth
<1>5. UNCHANGED shown \/ shown' = [shown EXCEPT ![c] = @ \o sent]
  BY DEF ResumeSubscribe, sent
<1>6. shown' \in [Conn -> Seq(Sent)]
  <2>1. shown \in [Conn -> Seq(Sent)]
    BY <1>1 DEF TypeOK, Sent
  <2> QED BY <1>1, <1>4, <1>5, <2>1
<1>7. \A d \in Conn : \A x \in Members(shown'[d]) :
        x \in Members(shown[d]) \/ x.update \in Members(r.events)
  BY <1>1, <1>2, <1>4, <1>5 DEF TypeOK
<1>8. r.head \in Nat
  BY <1>1 DEF Reply
<1>9. TypeOK'
  <2>1. /\ sub' \in [Conn -> [stage : {"none", "reading", "done", "failed", "left"},
                              after : Nat, head : Nat]]
        /\ lastError' \in [Instance -> {"none", "replay", "broadcast"}]
    <3> DEFINE SubT == [stage : {"none", "reading", "done", "failed", "left"},
                        after : Nat, head : Nat]
    <3>1. sub \in [Conn -> SubT] /\ lastError \in [Instance -> {"none", "replay", "broadcast"}]
      BY <1>1 DEF TypeOK
    <3>2. lastError' \in [Instance -> {"none", "replay", "broadcast"}]
      BY <3>1 DEF ResumeSubscribe
    <3>3. \/ UNCHANGED sub
          \/ sub' = [sub EXCEPT ![c].stage = "failed"]
          \/ sub' = [sub EXCEPT ![c] = [stage |-> "done", after |-> @.after, head |-> r.head]]
      BY DEF ResumeSubscribe
    <3>4. sub' \in [Conn -> SubT]
      BY <1>1, <1>8, <3>1, <3>3, SubscriptionMoves
    <3> QED BY <3>2, <3>4
  <2> QED BY <1>1, <1>6, <2>1 DEF TypeOK, ResumeSubscribe, Sent
<1>10. SavesReturnOne'
  BY <1>1 DEF SavesReturnOne, KeptInv
<1>11. Grows /\ \A u : Kept(u) <=> Kept(u)'
  BY DEF Grows, Log, Kept, ResumeSubscribe
<1>12. StoreMode # "memory" => AllKept'
  BY <1>1, <1>7, <1>9, <1>11, NewIsEnough DEF ResumeSubscribe, KeptInv
<1> QED BY <1>9, <1>10, <1>12 DEF KeptInv

LEMMA BroadcastKeeps ==
  ASSUME KeptInv, NEW e \in Event, NEW i \in Instance, Broadcast(e, i)
  PROVE  KeptInv'
<1> DEFINE op == [kind |-> "save", event |-> e]
<1>1. op \in Operation /\ ops' = [ops EXCEPT ![i] = Append(@, op)] /\ TypeOK
  BY DEF Operation, Broadcast, Ask, KeptInv
<1> HIDE DEF op
<1>2. ops' \in [Instance -> Seq(Operation)]
  BY <1>1, QueuesPush DEF TypeOK
<1>3. TypeOK'
  BY <1>1, <1>2 DEF TypeOK, Broadcast
<1>4. SavesReturnOne' /\ (AllKept => AllKept')
  BY DEF Broadcast, SavesReturnOne, AllKept, Kept, Log, KeptInv
<1> QED BY <1>3, <1>4 DEF KeptInv

LEMMA ResumeBroadcastKeeps ==
  ASSUME KeptInv, NEW i \in Instance, ResumeBroadcast(i)
  PROVE  KeptInv'
<1> DEFINE r == Head(replies[i])
           m == [origin |-> i, update |-> r.events[1]]
<1>1. /\ TypeOK /\ r.op.event \in Event
      /\ StoreMode # "memory" => \A u \in Members(r.events) : Kept(u)
      /\ r.ok => r.events[1] \in Members(r.events) /\ r.events[1] \in Update
      /\ replies' \in [Instance -> Seq(Reply)]
      /\ \A j \in Instance : Members(replies'[j]) \subseteq Members(replies[j])
  <2>1. Resume(i, "save") /\ "save" # "read" /\ TypeOK
    BY DEF ResumeBroadcast, KeptInv
  <2>2. r.op.kind = "save" /\ r.op \in Operation
    BY <2>1, TakenReply
  <2> QED BY <2>1, <2>2, TakenReply, OperationFields
<1>2. SavesReturnOne'
  BY <1>1 DEF SavesReturnOne, KeptInv
<1>3. Grows /\ \A u : Kept(u) <=> Kept(u)'
  BY DEF Grows, Log, Kept, ResumeBroadcast
<1>4. call' \in [Event -> {"new", "saving", "publishing", "done", "failed"}]
  BY <1>1 DEF TypeOK, ResumeBroadcast
<1>5. CASE r.ok
  <2>1. /\ shown' \in [Conn -> Seq([how : {"live", "replay"}, update : Update])]
        /\ \A c \in Conn : \A x \in Members(shown'[c]) :
             x \in Members(shown[c]) \/ x.update = r.events[1]
    BY <1>1, <1>5, EmitShows DEF ResumeBroadcast
  <2>2. m \in Message /\ m.update = r.events[1] /\ pubs' = [pubs EXCEPT ![i] = Append(@, m)]
    BY <1>1, <1>5 DEF Message, ResumeBroadcast
  <2> HIDE DEF m
  <2>3. pubs[i] \in Seq(Message) /\ pubs \in [Instance -> Seq(Message)]
    BY <1>1 DEF TypeOK
  <2>4. Append(pubs[i], m) \in Seq(Message) /\ Members(Append(pubs[i], m)) = Members(pubs[i]) \cup {m}
    BY <2>2, <2>3, MembersOfAppend
  <2>5. /\ pubs' \in [Instance -> Seq(Message)]
        /\ \A j \in Instance : Members(pubs'[j]) \subseteq Members(pubs[j]) \cup {m}
    BY <2>2, <2>3, <2>4
  <2>6. TypeOK'
    BY <1>1, <1>4, <1>5, <2>1, <2>5 DEF TypeOK, ResumeBroadcast
  <2>7. StoreMode # "memory" => AllKept'
    BY <1>1, <1>3, <1>5, <2>1, <2>2, <2>5, <2>6, NewIsEnough DEF ResumeBroadcast, KeptInv
  <2> QED BY <1>2, <2>6, <2>7 DEF KeptInv
<1>6. CASE ~r.ok
  <2>1. TypeOK'
    BY <1>1, <1>4, <1>6 DEF TypeOK, ResumeBroadcast
  <2>2. StoreMode # "memory" => AllKept'
    BY <1>1, <1>3, <1>6, <2>1, NewIsEnough DEF ResumeBroadcast, KeptInv
  <2> QED BY <1>2, <2>1, <2>2 DEF KeptInv
<1> QED BY <1>5, <1>6

LEMMA ResumeHandlerKeeps ==
  ASSUME KeptInv, NEW i \in Instance, ResumeHandler(i)
  PROVE  KeptInv'
<1> DEFINE r == Head(replies[i])
<1>1. /\ TypeOK
      /\ StoreMode # "memory" => \A u \in Members(r.events) : Kept(u)
      /\ r.ok => r.events[1] \in Members(r.events) /\ r.events[1] \in Update
      /\ replies' \in [Instance -> Seq(Reply)]
      /\ \A j \in Instance : Members(replies'[j]) \subseteq Members(replies[j])
  <2>1. Resume(i, "resave") /\ "resave" # "read" /\ TypeOK
    BY DEF ResumeHandler, KeptInv
  <2>2. r.op.kind = "resave"
    BY <2>1, TakenReply
  <2> QED BY <2>1, <2>2, TakenReply
<1>2. /\ shown' \in [Conn -> Seq([how : {"live", "replay"}, update : Update])]
      /\ \A c \in Conn : \A x \in Members(shown'[c]) :
           x \in Members(shown[c]) \/ x.update \in Members(r.events)
  <2>1. CASE r.ok
    <3>1. EmitToTopic(i, r.events[1])
      BY <2>1 DEF ResumeHandler
    <3> QED BY <1>1, <2>1, <3>1, EmitShows
  <2>2. CASE ~r.ok
    <3>1. UNCHANGED shown
      BY <2>2 DEF ResumeHandler
    <3> QED BY <1>1, <3>1 DEF TypeOK
  <2> QED BY <2>1, <2>2
<1>3. TypeOK'
  BY <1>1, <1>2 DEF TypeOK, ResumeHandler
<1>4. SavesReturnOne'
  BY <1>1 DEF SavesReturnOne, KeptInv
<1>5. Grows /\ \A u : Kept(u) <=> Kept(u)'
  BY DEF Grows, Log, Kept, ResumeHandler
<1>6. StoreMode # "memory" => AllKept'
  BY <1>1, <1>2, <1>3, <1>5, NewIsEnough DEF ResumeHandler, KeptInv
<1> QED BY <1>3, <1>4, <1>6 DEF KeptInv

----------------------------------------------------------------------------
(* The bus and crashes.                                                    *)

\* A message that leaves its instance goes to inboxes only.
LEMMA PublishedMessage ==
  ASSUME TypeOK, NEW i \in Instance, pubs[i] # <<>>, pubs' = [pubs EXCEPT ![i] = Tail(@)],
         Deliver(i, Head(pubs[i])) \/ UNCHANGED inbox
  PROVE  /\ Head(pubs[i]) \in Message /\ Head(pubs[i]) \in Members(pubs[i])
         /\ pubs' \in [Instance -> Seq(Message)] /\ inbox' \in [Instance -> Seq(Message)]
         /\ \A j \in Instance : Members(pubs'[j]) \subseteq Members(pubs[j])
         /\ \A j \in Instance : Members(inbox'[j]) \subseteq Members(inbox[j]) \cup {Head(pubs[i])}
<1> DEFINE m == Head(pubs[i])
<1>1. pubs \in [Instance -> Seq(Message)] /\ inbox \in [Instance -> Seq(Message)]
  BY DEF TypeOK
<1>2. /\ m \in Message /\ m \in Members(pubs[i])
      /\ Tail(pubs[i]) \in Seq(Message) /\ Members(Tail(pubs[i])) \subseteq Members(pubs[i])
  BY <1>1, MembersOfTail
<1>3. pubs' \in [Instance -> Seq(Message)]
      /\ \A j \in Instance : Members(pubs'[j]) \subseteq Members(pubs[j])
  BY <1>1, <1>2
<1> HIDE DEF m
<1>4. \A j \in Instance : /\ Append(inbox[j], m) \in Seq(Message)
                          /\ Members(Append(inbox[j], m)) = Members(inbox[j]) \cup {m}
  BY <1>1, <1>2, MembersOfAppend
<1>5. \/ UNCHANGED inbox
      \/ inbox' = [j \in Instance |-> IF j \in Subscribers(i) THEN Append(inbox[j], m) ELSE inbox[j]]
  BY DEF Deliver, m
<1>6. inbox' \in [Instance -> Seq(Message)]
      /\ \A j \in Instance : Members(inbox'[j]) \subseteq Members(inbox[j]) \cup {m}
  BY <1>1, <1>4, <1>5
<1> QED BY <1>2, <1>3, <1>6 DEF m

LEMMA PublishKeeps ==
  ASSUME KeptInv, NEW i \in Instance, Publish(i) \/ PublishFails(i)
  PROVE  KeptInv'
<1> DEFINE m == Head(pubs[i])
<1>1. /\ TypeOK /\ pubs[i] # <<>> /\ pubs' = [pubs EXCEPT ![i] = Tail(@)]
      /\ Deliver(i, m) \/ UNCHANGED inbox
      /\ UNCHANGED <<saved, ops, replies, at, room, sub, shown>>
  BY DEF Publish, PublishFails, KeptInv
<1>2. /\ m \in Message /\ m \in Members(pubs[i])
      /\ pubs' \in [Instance -> Seq(Message)] /\ inbox' \in [Instance -> Seq(Message)]
      /\ \A j \in Instance : Members(pubs'[j]) \subseteq Members(pubs[j])
      /\ \A j \in Instance : Members(inbox'[j]) \subseteq Members(inbox[j]) \cup {m}
  BY <1>1, PublishedMessage
<1>3. m.update.event \in Event
  BY <1>2 DEF Message, Update
<1>4. /\ call' \in [Event -> {"new", "saving", "publishing", "done", "failed"}]
      /\ lastError' \in [Instance -> {"none", "replay", "broadcast"}]
      /\ faults' \in Nat
  <2>1. /\ call \in [Event -> {"new", "saving", "publishing", "done", "failed"}]
        /\ lastError \in [Instance -> {"none", "replay", "broadcast"}] /\ faults \in Nat
    BY <1>1 DEF TypeOK
  <2>2. CASE Publish(i)
    BY <1>3, <2>1, <2>2 DEF Publish
  <2>3. CASE PublishFails(i)
    <3>1. faults' = faults + 1
      BY <2>3 DEF PublishFails
    <3>2. /\ call' = [call EXCEPT ![m.update.event] = "failed"]
          /\ lastError' = [lastError EXCEPT ![i] = "broadcast"]
      BY <2>3 DEF PublishFails
    <3> QED BY <1>3, <2>1, <3>1, <3>2
  <2> QED BY <2>2, <2>3
<1>5. TypeOK'
  BY <1>1, <1>2, <1>4 DEF TypeOK
<1>6. SavesReturnOne'
  BY <1>1 DEF SavesReturnOne, KeptInv
<1>7. Grows /\ \A u : Kept(u) <=> Kept(u)'
  BY <1>1 DEF Grows, Log, Kept
<1>8. StoreMode # "memory" => Kept(m.update)
  BY <1>2 DEF AllKept, KeptInv
<1>9. StoreMode # "memory" => AllKept'
  BY <1>1, <1>2, <1>5, <1>7, <1>8, NewIsEnough DEF KeptInv
<1> QED BY <1>5, <1>6, <1>9 DEF KeptInv

LEMMA HandleMessageKeeps ==
  ASSUME KeptInv, NEW i \in Instance, HandleMessage(i)
  PROVE  KeptInv'
<1> DEFINE m == Head(inbox[i])
           op == [kind |-> "resave", event |-> m.update.event]
<1>1. /\ TypeOK /\ inbox \in [Instance -> Seq(Message)] /\ inbox[i] # <<>>
      /\ inbox' = [inbox EXCEPT ![i] = Tail(@)]
      /\ UNCHANGED <<saved, call, replies, pubs, at, room, sub, faults>>
  BY DEF HandleMessage, KeptInv, TypeOK
<1>2. /\ m \in Message /\ m \in Members(inbox[i])
      /\ Tail(inbox[i]) \in Seq(Message) /\ Members(Tail(inbox[i])) \subseteq Members(inbox[i])
  BY <1>1, MembersOfTail
<1>3. /\ inbox' \in [Instance -> Seq(Message)]
      /\ \A j \in Instance : Members(inbox'[j]) \subseteq Members(inbox[j])
  BY <1>1, <1>2
<1>4. m.update \in Update /\ op \in Operation
  BY <1>2 DEF Message, Update, Operation
<1>5. ops' \in [Instance -> Seq(Operation)]
  <2>1. UNCHANGED ops \/ ops' = [ops EXCEPT ![i] = Append(@, op)]
    BY DEF HandleMessage, Ask
  <2> HIDE DEF op
  <2>2. ops \in [Instance -> Seq(Operation)]
    BY <1>1 DEF TypeOK
  <2> QED BY <1>4, <2>1, <2>2, QueuesPush
<1>6. /\ shown' \in [Conn -> Seq([how : {"live", "replay"}, update : Update])]
      /\ \A c \in Conn : \A x \in Members(shown'[c]) :
           x \in Members(shown[c]) \/ x.update = m.update
  <2>1. UNCHANGED shown \/ EmitToTopic(i, m.update)
    BY DEF HandleMessage
  <2>2. CASE UNCHANGED shown
    BY <1>1, <2>2 DEF TypeOK
  <2>3. CASE EmitToTopic(i, m.update)
    BY <1>1, <1>4, <2>3, EmitShows
  <2> QED BY <2>1, <2>2, <2>3
<1>7. lastError' \in [Instance -> {"none", "replay", "broadcast"}]
  BY <1>1 DEF TypeOK, HandleMessage
<1>8. TypeOK'
  BY <1>1, <1>3, <1>5, <1>6, <1>7 DEF TypeOK
<1>9. SavesReturnOne'
  BY <1>1 DEF SavesReturnOne, KeptInv
<1>10. Grows /\ \A u : Kept(u) <=> Kept(u)'
  BY <1>1 DEF Grows, Log, Kept
<1>11. StoreMode # "memory" => Kept(m.update)
  BY <1>2 DEF AllKept, KeptInv
<1>12. StoreMode # "memory" => AllKept'
  BY <1>1, <1>3, <1>6, <1>8, <1>10, <1>11, NewIsEnough DEF KeptInv
<1> QED BY <1>8, <1>9, <1>12 DEF KeptInv

LEMMA CrashKeeps ==
  ASSUME KeptInv, NEW i \in Instance, Crash(i)
  PROVE  KeptInv'
<1>1. TypeOK /\ UNCHANGED shown
      /\ ops' = [ops EXCEPT ![i] = <<>>] /\ replies' = [replies EXCEPT ![i] = <<>>]
      /\ pubs' = [pubs EXCEPT ![i] = <<>>] /\ inbox' = [inbox EXCEPT ![i] = <<>>]
  BY DEF Crash, KeptInv
<1>2. /\ ops' \in [Instance -> Seq(Operation)] /\ replies' \in [Instance -> Seq(Reply)]
      /\ pubs' \in [Instance -> Seq(Message)] /\ inbox' \in [Instance -> Seq(Message)]
      /\ \A j \in Instance : /\ Members(replies'[j]) \subseteq Members(replies[j])
                             /\ Members(pubs'[j]) \subseteq Members(pubs[j])
                             /\ Members(inbox'[j]) \subseteq Members(inbox[j])
  BY <1>1, QueuesClear DEF TypeOK
<1>3. /\ saved' \in [Instance \cup {Shared} -> Seq(Event)]
      /\ Log' = Log
  <2>1. <<>> \in Seq(Event) /\ i # Shared
    BY NamesAssumption
  <2> QED BY <1>1, <2>1 DEF Crash, TypeOK, Log
<1>4. call' \in [Event -> {"new", "saving", "publishing", "done", "failed"}]
  BY <1>1 DEF Crash, TypeOK
<1>5. at' \in [Conn -> Instance \cup {Nowhere}] /\ room' \subseteq Conn
  BY <1>1 DEF Crash, TypeOK
<1>6. /\ lastError' \in [Instance -> {"none", "replay", "broadcast"}]
      /\ faults' \in Nat
  BY <1>1 DEF Crash, TypeOK
<1>7. sub' \in [Conn -> [stage : {"none", "reading", "done", "failed", "left"},
                        after : Nat, head : Nat]]
  <2> DEFINE S == [stage : {"none", "reading", "done", "failed", "left"}, after : Nat, head : Nat]
  <2>1. sub \in [Conn -> S]
    BY <1>1 DEF TypeOK
  <2>2. \A s \in S : [s EXCEPT !.stage = "left"] \in S
    OBVIOUS
  <2>3. sub' = [c \in Conn |-> IF at[c] = i THEN [sub[c] EXCEPT !.stage = "left"] ELSE sub[c]]
    BY DEF Crash
  <2> HIDE DEF S
  <2>4. sub' \in [Conn -> S]
    BY <2>1, <2>2, <2>3
  <2> QED BY <2>4 DEF S
<1>8. TypeOK'
  BY <1>1, <1>2, <1>3, <1>4, <1>5, <1>6, <1>7 DEF TypeOK
<1>9. SavesReturnOne'
  BY <1>2 DEF SavesReturnOne, KeptInv
<1>10. Grows /\ \A u : Kept(u) <=> Kept(u)'
  BY <1>3 DEF Grows, Kept
<1>11. StoreMode # "memory" => AllKept'
  BY <1>1, <1>2, <1>8, <1>10, NewIsEnough DEF KeptInv
<1> QED BY <1>8, <1>9, <1>11 DEF KeptInv

----------------------------------------------------------------------------
(* The theorems.                                                           *)

LEMMA KeptInitially ==
  ASSUME Init PROVE KeptInv
<1>1. <<>> \in Seq(Event) /\ <<>> \in Seq(Operation) /\ <<>> \in Seq(Reply)
      /\ <<>> \in Seq(Message) /\ <<>> \in Seq([how : {"live", "replay"}, update : Update])
      /\ Members(<<>>) = {}
  BY DEF Members
<1>2. Earlier \in Seq(Event)
  BY EarlierAssumption
<1>3. TypeOK
  BY <1>1, <1>2 DEF Init, TypeOK, NoSub
<1>4. SavesReturnOne /\ AllKept
  BY <1>1 DEF Init, SavesReturnOne, AllKept
<1> QED BY <1>3, <1>4 DEF KeptInv

LEMMA StepsKeep ==
  ASSUME KeptInv, [Next]_vars PROVE KeptInv'
<1>1. ASSUME NEW c \in Conn,
             \/ \E i \in Instance : Connect(c, i)
             \/ Disconnect(c)
             \/ \E after \in Cursors : SubscribePage(c, after)
      PROVE  KeptInv'
  BY <1>1, SocketsKeep
<1>2. ASSUME NEW e \in Event, NEW i \in Instance, Broadcast(e, i) PROVE KeptInv'
  BY <1>2, BroadcastKeeps
<1>3. ASSUME NEW i \in Instance, Gateway(i) PROVE KeptInv'
  BY <1>3, ResumeSubscribeKeeps, ResumeBroadcastKeeps, ResumeHandlerKeeps, HandleMessageKeeps
     DEF Gateway
<1>4. ASSUME NEW i \in Instance, StoreExecutes(i) \/ StoreFails(i) PROVE KeptInv'
  BY <1>4, StoreExecutesKeeps, StoreFailsKeeps
<1>5. ASSUME NEW i \in Instance, Publish(i) \/ PublishFails(i) PROVE KeptInv'
  BY <1>5, PublishKeeps
<1>6. ASSUME NEW i \in Instance, Crash(i) PROVE KeptInv'
  BY <1>6, CrashKeeps
<1>7. CASE UNCHANGED vars
  <2>1. TypeOK'
    BY <1>7 DEF vars, KeptInv, TypeOK
  <2>2. SavesReturnOne' /\ (AllKept => AllKept')
    BY <1>7 DEF vars, KeptInv, SavesReturnOne, AllKept, Kept, Log
  <2> QED BY <2>1, <2>2 DEF KeptInv
<1> QED BY <1>1, <1>2, <1>3, <1>4, <1>5, <1>6, <1>7 DEF Next

\* The invariant holds in every reachable state.
THEOREM KeptAlways == Spec => []KeptInv
<1>1. Init => KeptInv
  BY KeptInitially
<1>2. KeptInv /\ [Next]_vars => KeptInv'
  BY StepsKeep
<1> QED BY <1>1, <1>2, PTL DEF Spec

\* The queues between gateway, store and bus only ever hold what the handlers that
\* take from them expect.
THEOREM GatewayTypes == Spec => []TypeOK
<1>1. KeptInv => TypeOK
  BY DEF KeptInv
<1> QED BY <1>1, KeptAlways, PTL

\* Whatever a socket was sent, live or replayed, is in Redis under the replay id it
\* was sent with: a failed save announces nothing, and the store never loses an
\* update to a crash, a rejected call or a later save.
THEOREM ShownUpdatesAreSaved == Spec => []ShownIsSaved
<1>1. KeptInv => ShownIsSaved
  <2> SUFFICES ASSUME KeptInv, StoreMode # "memory", NEW c \in Conn,
                      NEW u \in ShownTo(c, {"live", "replay"})
               PROVE  Kept(u)
    BY DEF ShownIsSaved, Kept
  <2>1. PICK x \in Members(shown[c]) : u = x.update
    BY DEF ShownTo
  <2> QED BY <2>1 DEF KeptInv, AllKept
<1> QED BY <1>1, KeptAlways, PTL
-----------------------------------------------------------------------------
(* No update is announced to a socket twice.                               *)

----------------------------------------------------------------------------
(* Queues in which a set T is met at most once.                            *)

Has(q, T) == \E x \in Members(q) : x \in T
OnlyOnce(q, T) == \A m, n \in DOMAIN q : q[m] \in T /\ q[n] \in T => m = n

LEMMA NothingInNothing ==
  ASSUME NEW T PROVE ~Has(<<>>, T) /\ OnlyOnce(<<>>, T)
BY DEF Has, OnlyOnce, Members

LEMMA OnceAppend ==
  ASSUME NEW S, NEW q \in Seq(S), NEW x \in S, NEW T,
         OnlyOnce(q, T), x \in T => ~Has(q, T)
  PROVE  /\ OnlyOnce(Append(q, x), T)
         /\ Has(Append(q, x), T) <=> Has(q, T) \/ x \in T
<1>1. /\ DOMAIN Append(q, x) = 1 .. Len(q) + 1 /\ DOMAIN q = 1 .. Len(q) /\ Len(q) \in Nat
      /\ Append(q, x)[Len(q) + 1] = x
      /\ \A n \in 1 .. Len(q) : Append(q, x)[n] = q[n]
  OBVIOUS
<1>2. Members(Append(q, x)) = Members(q) \cup {x}
  BY MembersOfAppend
<1>3. \A n \in 1 .. Len(q) : x \in T => q[n] \notin T
  BY <1>1 DEF Has, Members
<1>4. OnlyOnce(Append(q, x), T)
  BY <1>1, <1>3 DEF OnlyOnce
<1> QED BY <1>2, <1>4 DEF Has

LEMMA OnceTail ==
  ASSUME NEW S, NEW q \in Seq(S), q # <<>>, NEW T, OnlyOnce(q, T)
  PROVE  /\ OnlyOnce(Tail(q), T)
         /\ Has(Tail(q), T) => Has(q, T)
         /\ Head(q) \in T => Has(q, T) /\ ~Has(Tail(q), T)
<1>1. /\ Len(q) \in Nat /\ Len(q) > 0 /\ DOMAIN q = 1 .. Len(q)
      /\ DOMAIN Tail(q) = 1 .. Len(q) - 1
      /\ \A n \in 1 .. Len(q) - 1 : Tail(q)[n] = q[n + 1]
      /\ Head(q) = q[1]
  OBVIOUS
<1>2. OnlyOnce(Tail(q), T)
  BY <1>1 DEF OnlyOnce
<1>3. Has(Tail(q), T) => Has(q, T)
  BY MembersOfTail DEF Has
<1>4. ASSUME Head(q) \in T PROVE Has(q, T) /\ ~Has(Tail(q), T)
  <2>1. \A n \in 1 .. Len(q) - 1 : Tail(q)[n] \notin T
    BY <1>1, <1>4 DEF OnlyOnce
  <2> QED BY <1>1, <1>4, <2>1 DEF Has, Members
<1> QED BY <1>2, <1>3, <1>4

LEMMA OnceConcat ==
  ASSUME NEW S, NEW q \in Seq(S), NEW r \in Seq(S), NEW T, OnlyOnce(q, T), ~Has(r, T)
  PROVE  OnlyOnce(q \o r, T) /\ (Has(q \o r, T) => Has(q, T))
<1>1. /\ DOMAIN (q \o r) = 1 .. Len(q) + Len(r) /\ DOMAIN q = 1 .. Len(q)
      /\ DOMAIN r = 1 .. Len(r) /\ Len(q) \in Nat /\ Len(r) \in Nat
      /\ \A n \in 1 .. Len(q) : (q \o r)[n] = q[n]
      /\ \A n \in 1 .. Len(q) + Len(r) :
           n > Len(q) => n - Len(q) \in 1 .. Len(r) /\ (q \o r)[n] = r[n - Len(q)]
  OBVIOUS
<1>2. \A n \in 1 .. Len(r) : r[n] \notin T
  BY <1>1 DEF Has, Members
<1>3. \A n \in 1 .. Len(q) + Len(r) : (q \o r)[n] \in T => n \in 1 .. Len(q)
  BY <1>1, <1>2
<1>4. OnlyOnce(q \o r, T)
  BY <1>1, <1>3 DEF OnlyOnce
<1>5. Members(q \o r) = Members(q) \cup Members(r)
  BY MembersOfBoth
<1> QED BY <1>4, <1>5 DEF Has

\* What the gateway's steps do to the queues.
LEMMA AskOnce ==
  ASSUME TypeOK, NEW i \in Instance, NEW op \in Operation, Ask(i, op), NEW T,
         \A j \in Instance : OnlyOnce(ops[j], T), op \in T => ~Has(ops[i], T)
  PROVE  \A j \in Instance : /\ OnlyOnce(ops'[j], T)
                             /\ Has(ops'[j], T) => Has(ops[j], T) \/ (j = i /\ op \in T)
<1>1. ops \in [Instance -> Seq(Operation)] /\ ops' = [ops EXCEPT ![i] = Append(@, op)]
  BY DEF TypeOK, Ask
<1>2. /\ OnlyOnce(Append(ops[i], op), T)
      /\ Has(Append(ops[i], op), T) => Has(ops[i], T) \/ op \in T
  BY <1>1, OnceAppend
<1> QED BY <1>1, <1>2

LEMMA AnsweredOnce ==
  ASSUME TypeOK, NEW i \in Instance, ops[i] # <<>>, ops' = [ops EXCEPT ![i] = Tail(@)],
         NEW T, \A j \in Instance : OnlyOnce(ops[j], T)
  PROVE  /\ \A j \in Instance : OnlyOnce(ops'[j], T) /\ (Has(ops'[j], T) => Has(ops[j], T))
         /\ Head(ops[i]) \in T => Has(ops[i], T) /\ ~Has(ops'[i], T)
<1>1. ops \in [Instance -> Seq(Operation)]
  BY DEF TypeOK
<1>2. /\ OnlyOnce(Tail(ops[i]), T) /\ (Has(Tail(ops[i]), T) => Has(ops[i], T))
      /\ Head(ops[i]) \in T => Has(ops[i], T) /\ ~Has(Tail(ops[i]), T)
  BY <1>1, OnceTail
<1> QED BY <1>1, <1>2

LEMMA AnswerOnce ==
  ASSUME TypeOK, NEW i \in Instance, NEW r \in Reply, replies' = [replies EXCEPT ![i] = Append(@, r)],
         NEW T, \A j \in Instance : OnlyOnce(replies[j], T), r \in T => ~Has(replies[i], T)
  PROVE  \A j \in Instance : /\ OnlyOnce(replies'[j], T)
                             /\ Has(replies'[j], T) => Has(replies[j], T) \/ (j = i /\ r \in T)
<1>1. replies \in [Instance -> Seq(Reply)]
  BY DEF TypeOK
<1>2. /\ OnlyOnce(Append(replies[i], r), T)
      /\ Has(Append(replies[i], r), T) => Has(replies[i], T) \/ r \in T
  BY <1>1, OnceAppend
<1> QED BY <1>1, <1>2

LEMMA ResumeOnce ==
  ASSUME TypeOK, NEW i \in Instance, NEW kind, Resume(i, kind), NEW T,
         \A j \in Instance : OnlyOnce(replies[j], T)
  PROVE  /\ \A j \in Instance :
              OnlyOnce(replies'[j], T) /\ (Has(replies'[j], T) => Has(replies[j], T))
         /\ Head(replies[i]) \in T => Has(replies[i], T) /\ ~Has(replies'[i], T)
<1>1. /\ replies \in [Instance -> Seq(Reply)] /\ replies[i] # <<>>
      /\ replies' = [replies EXCEPT ![i] = Tail(@)]
  BY DEF TypeOK, Resume
<1>2. /\ OnlyOnce(Tail(replies[i]), T) /\ (Has(Tail(replies[i]), T) => Has(replies[i], T))
      /\ Head(replies[i]) \in T => Has(replies[i], T) /\ ~Has(Tail(replies[i]), T)
  BY <1>1, OnceTail
<1> QED BY <1>1, <1>2

LEMMA TakeMessageOnce ==
  ASSUME TypeOK, NEW i \in Instance, inbox[i] # <<>>, inbox' = [inbox EXCEPT ![i] = Tail(@)],
         NEW T, OnlyOnce(inbox[i], T)
  PROVE  /\ OnlyOnce(inbox'[i], T) /\ (Has(inbox'[i], T) => Has(inbox[i], T))
         /\ Head(inbox[i]) \in T => Has(inbox[i], T) /\ ~Has(inbox'[i], T)
<1>1. inbox \in [Instance -> Seq(Message)] /\ inbox'[i] = Tail(inbox[i])
  BY DEF TypeOK
<1> QED BY <1>1, OnceTail

LEMMA AnnounceOnce ==
  ASSUME TypeOK, NEW i \in Instance, NEW m \in Message, pubs' = [pubs EXCEPT ![i] = Append(@, m)],
         NEW T, \A j \in Instance : OnlyOnce(pubs[j], T), m \in T => ~Has(pubs[i], T)
  PROVE  \A j \in Instance : /\ OnlyOnce(pubs'[j], T)
                             /\ Has(pubs'[j], T) => Has(pubs[j], T) \/ (j = i /\ m \in T)
<1>1. pubs \in [Instance -> Seq(Message)]
  BY DEF TypeOK
<1>2. /\ OnlyOnce(Append(pubs[i], m), T)
      /\ Has(Append(pubs[i], m), T) => Has(pubs[i], T) \/ m \in T
  BY <1>1, OnceAppend
<1> QED BY <1>1, <1>2

LEMMA PublishOnce ==
  ASSUME TypeOK, NEW i \in Instance, pubs[i] # <<>>, pubs' = [pubs EXCEPT ![i] = Tail(@)],
         NEW T, \A j \in Instance : OnlyOnce(pubs[j], T)
  PROVE  /\ \A j \in Instance : OnlyOnce(pubs'[j], T) /\ (Has(pubs'[j], T) => Has(pubs[j], T))
         /\ Head(pubs[i]) \in T => Has(pubs[i], T) /\ ~Has(pubs'[i], T)
<1>1. pubs \in [Instance -> Seq(Message)]
  BY DEF TypeOK
<1>2. /\ OnlyOnce(Tail(pubs[i]), T) /\ (Has(Tail(pubs[i]), T) => Has(pubs[i], T))
      /\ Head(pubs[i]) \in T => Has(pubs[i], T) /\ ~Has(Tail(pubs[i]), T)
  BY <1>1, OnceTail
<1> QED BY <1>1, <1>2

LEMMA DeliverOnce ==
  ASSUME TypeOK, NEW i \in Instance, NEW m \in Message, Deliver(i, m) \/ UNCHANGED inbox,
         NEW j \in Instance, NEW T, OnlyOnce(inbox[j], T), m \in T => ~Has(inbox[j], T)
  PROVE  OnlyOnce(inbox'[j], T) /\ (Has(inbox'[j], T) => Has(inbox[j], T) \/ m \in T)
<1>1. inbox[j] \in Seq(Message)
  BY DEF TypeOK
<1>2. /\ OnlyOnce(Append(inbox[j], m), T)
      /\ Has(Append(inbox[j], m), T) => Has(inbox[j], T) \/ m \in T
  BY <1>1, OnceAppend
<1>3. inbox'[j] = inbox[j] \/ inbox'[j] = Append(inbox[j], m)
  BY DEF Deliver
<1> QED BY <1>2, <1>3

----------------------------------------------------------------------------
(* An update e on its way: its save, then its publication, then what each  *)
(* other instance still has to do about it, then the sockets told of it.   *)

Saves(e) == {op \in Operation : op.kind = "save" /\ op.event = e}
Resaves(e) == {op \in Operation : op.kind = "resave" /\ op.event = e}
SaveAnswers(e) == {r \in Reply : r.op \in Saves(e)}
ResaveAnswers(e) == {r \in Reply : r.op \in Resaves(e)}
Announcements(e) == {m \in Message : m.update.event = e}
Foreign(e, i) == {m \in Announcements(e) : m.origin # i}
Lives(e) == {x \in [how : {"live"}, update : Update] : x.update.event = e}

Saving(e, i) == Has(ops[i], Saves(e)) \/ Has(replies[i], SaveAnswers(e))
Publishing(e, i) == Has(pubs[i], Announcements(e))
Due(e, i) == \/ Has(inbox[i], Foreign(e, i))
             \/ Has(ops[i], Resaves(e))
             \/ Has(replies[i], ResaveAnswers(e))
Told(e, c) == Has(shown[c], Lives(e))

\* One save of e is under way, while its broadcast waits for it.
OneSave(e) ==
  \A i \in Instance : Saving(e, i) =>
    /\ call[e] = "saving"
    /\ \A j \in Instance : Saving(e, j) => j = i
    /\ ~(Has(ops[i], Saves(e)) /\ Has(replies[i], SaveAnswers(e)))

\* One publication of e is under way, after its own room heard of e and before any
\* other.
OnePublish(e) ==
  \A i \in Instance : Publishing(e, i) =>
    /\ call[e] = "publishing"
    /\ \A j \in Instance : Publishing(e, j) => j = i
    /\ \A c \in Conn : Told(e, c) => at[c] \in {i, Nowhere}

\* An instance that still has to announce e has one reason to, and has not yet.
OneDue(e) ==
  \A i \in Instance : Due(e, i) =>
    /\ call[e] \in {"done", "failed"}
    /\ ~(Has(inbox[i], Foreign(e, i)) /\ Has(ops[i], Resaves(e)))
    /\ ~(Has(inbox[i], Foreign(e, i)) /\ Has(replies[i], ResaveAnswers(e)))
    /\ ~(Has(ops[i], Resaves(e)) /\ Has(replies[i], ResaveAnswers(e)))
    /\ \A c \in Conn : Told(e, c) => at[c] # i

\* A socket has heard of e after it was saved, and once connected.
ToldLater(e) ==
  \A c \in Conn : Told(e, c) =>
    /\ call[e] \notin {"new", "saving"}
    /\ at[c] = Nowhere => sub[c].stage # "none"

\* No queue, and no socket, has e twice.
NoDoubles(e) ==
  /\ \A i \in Instance :
       /\ OnlyOnce(ops[i], Saves(e)) /\ OnlyOnce(ops[i], Resaves(e))
       /\ OnlyOnce(replies[i], SaveAnswers(e)) /\ OnlyOnce(replies[i], ResaveAnswers(e))
       /\ OnlyOnce(pubs[i], Announcements(e)) /\ OnlyOnce(inbox[i], Foreign(e, i))
  /\ \A c \in Conn : OnlyOnce(shown[c], Lives(e))

\* The stream numbers e once: what carries a number is never saved again.
StreamedOnce(e) ==
  Stream => /\ OnlyOnce(Log, {e})
            /\ \A i \in Instance : ~Has(ops[i], Resaves(e))
            /\ Has(Log, {e}) => /\ call[e] # "new"
                                /\ \A i \in Instance : ~Has(ops[i], Saves(e))

\* Messages and answers say what they are about.
WellFormed ==
  /\ \A i \in Instance : \A m \in Members(pubs[i]) : m.origin = i
  /\ \A i \in Instance : \A m \in Members(pubs[i]) : Stream => m.update.id # 0
  /\ \A i \in Instance : \A m \in Members(inbox[i]) : Stream => m.update.id # 0
  /\ \A i \in Instance : \A r \in Members(replies[i]) :
       r.ok /\ r.op.kind # "read" =>
         r.events[1].event = r.op.event /\ (Stream => r.events[1].id # 0)

EventInv(e) ==
  OneSave(e) /\ OnePublish(e) /\ OneDue(e) /\ ToldLater(e) /\ NoDoubles(e) /\ StreamedOnce(e)

OnceInv == KeptInv /\ WellFormed /\ \A e \in Event : EventInv(e)

----------------------------------------------------------------------------
(* Steps that bring nothing new about e.                                   *)

NothingNewFor(e) ==
  /\ \A i \in Instance :
       /\ Has(ops'[i], Saves(e)) => Has(ops[i], Saves(e))
       /\ Has(replies'[i], SaveAnswers(e)) => Has(replies[i], SaveAnswers(e))
       /\ Has(pubs'[i], Announcements(e)) => Has(pubs[i], Announcements(e))
       /\ Has(inbox'[i], Foreign(e, i)) => Has(inbox[i], Foreign(e, i))
       /\ Has(ops'[i], Resaves(e)) => Has(ops[i], Resaves(e))
       /\ Has(replies'[i], ResaveAnswers(e)) => Has(replies[i], ResaveAnswers(e))
  /\ \A c \in Conn : Has(shown'[c], Lives(e)) => Has(shown[c], Lives(e))

\* Where a socket that heard of e may go: away.
OnlyLeaves(e) ==
  \A c \in Conn : Told(e, c) => \/ at'[c] = at[c] /\ sub'[c] = sub[c]
                                \/ sub'[c].stage # "none" /\ at'[c] \in {at[c], Nowhere}

LEMMA NothingNew ==
  ASSUME NEW e \in Event, EventInv(e), NothingNewFor(e), NoDoubles(e)', OnlyLeaves(e),
         StreamedOnce(e)',
         \/ call'[e] = call[e]
         \/ /\ call'[e] \in {"done", "failed"}
            /\ \A i \in Instance : ~Saving(e, i)' /\ ~Publishing(e, i)'
  PROVE  EventInv(e)'
<1> USE DEF EventInv, NothingNewFor
<1>1. OneSave(e)'
  BY DEF OneSave, Saving
<1>2. \A c \in Conn : Told(e, c)' => Told(e, c)
  BY DEF Told
<1>3. OnePublish(e)'
  BY <1>2, NamesAssumption DEF OnePublish, Publishing, OnlyLeaves
<1>4. OneDue(e)'
  BY <1>2, NamesAssumption DEF OneDue, Due, OnlyLeaves
<1>5. ToldLater(e)'
  BY <1>2, NamesAssumption DEF ToldLater, OnlyLeaves
<1> QED BY <1>1, <1>3, <1>4, <1>5

LEMMA WellFormedStays ==
  ASSUME WellFormed,
         \A j \in Instance : Members(replies'[j]) \subseteq Members(replies[j]),
         \A j \in Instance : Members(pubs'[j]) \subseteq Members(pubs[j]),
         \A j \in Instance : Members(inbox'[j]) \subseteq Members(inbox[j])
  PROVE  WellFormed'
BY DEF WellFormed, Stream

LEMMA StreamedStays ==
  ASSUME NEW e \in Event, EventInv(e), NothingNewFor(e), Log' = Log,
         call[e] = "new" \/ call'[e] # "new"
  PROVE  StreamedOnce(e)'
BY DEF StreamedOnce, EventInv, NothingNewFor, Stream

----------------------------------------------------------------------------
(* Sockets.                                                                *)

LEMMA SocketsOnce ==
  ASSUME OnceInv, KeptInv', NEW c \in Conn,
         \/ \E i \in Instance : Connect(c, i)
         \/ Disconnect(c)
         \/ \E after \in Cursors : SubscribePage(c, after)
  PROVE  OnceInv'
<1>1. UNCHANGED <<saved, call, replies, pubs, inbox, shown>>
  BY DEF Connect, Disconnect, SubscribePage
<1>2. WellFormed'
  BY <1>1 DEF WellFormed, OnceInv
<1> SUFFICES ASSUME NEW e \in Event PROVE EventInv(e)'
  BY <1>2 DEF OnceInv
<1>3. EventInv(e) /\ TypeOK /\ TypeOK'
  BY DEF OnceInv, KeptInv
<1>4. OnlyLeaves(e)
  <2>1. CASE \E i \in Instance : Connect(c, i)
    BY <1>3, <2>1 DEF Connect, EventInv, ToldLater, OnlyLeaves, TypeOK
  <2>2. CASE Disconnect(c)
    BY <1>3, <2>2 DEF Disconnect, OnlyLeaves, TypeOK
  <2>3. CASE \E after \in Cursors : SubscribePage(c, after)
    BY <1>3, <2>3 DEF SubscribePage, OnlyLeaves, TypeOK
  <2> QED BY <2>1, <2>2, <2>3
<1>5. \A j \in Instance :
        /\ OnlyOnce(ops'[j], Saves(e)) /\ (Has(ops'[j], Saves(e)) => Has(ops[j], Saves(e)))
        /\ OnlyOnce(ops'[j], Resaves(e)) /\ (Has(ops'[j], Resaves(e)) => Has(ops[j], Resaves(e)))
  <2>1. CASE UNCHANGED ops
    BY <1>3, <2>1 DEF EventInv, NoDoubles
  <2>2. ASSUME NEW after \in Cursors, SubscribePage(c, after)
        PROVE  \A j \in Instance :
                 /\ OnlyOnce(ops'[j], Saves(e)) /\ (Has(ops'[j], Saves(e)) => Has(ops[j], Saves(e)))
                 /\ OnlyOnce(ops'[j], Resaves(e)) /\ (Has(ops'[j], Resaves(e)) => Has(ops[j], Resaves(e)))
    <3> DEFINE op == [kind |-> "read", conn |-> c, after |-> after]
               i == at[c]
    <3>1. i \in Instance /\ after \in Nat
      BY <1>3, <2>2 DEF SubscribePage, TypeOK, Cursors, Stamp, Log
    <3>2. op \in Operation /\ op \notin Saves(e) /\ op \notin Resaves(e)
      BY <3>1 DEF Operation, Saves, Resaves
    <3>3. Ask(i, op)
      BY <2>2 DEF SubscribePage
    <3> HIDE DEF op, i
    <3>4. \A j \in Instance : OnlyOnce(ops[j], Saves(e)) /\ OnlyOnce(ops[j], Resaves(e))
      BY <1>3 DEF EventInv, NoDoubles
    <3>5. \A j \in Instance : OnlyOnce(ops'[j], Saves(e)) /\ (Has(ops'[j], Saves(e)) => Has(ops[j], Saves(e)))
      BY <1>3, <3>1, <3>2, <3>3, <3>4, AskOnce
    <3>6. \A j \in Instance : OnlyOnce(ops'[j], Resaves(e)) /\ (Has(ops'[j], Resaves(e)) => Has(ops[j], Resaves(e)))
      BY <1>3, <3>1, <3>2, <3>3, <3>4, AskOnce
    <3> QED BY <3>5, <3>6
  <2>3. UNCHANGED ops \/ \E after \in Cursors : SubscribePage(c, after)
    BY DEF Connect, Disconnect
  <2> QED BY <2>1, <2>2, <2>3
<1>6. NothingNewFor(e) /\ NoDoubles(e)'
  BY <1>1, <1>3, <1>5 DEF NothingNewFor, NoDoubles, EventInv
<1>7. StreamedOnce(e)'
  BY <1>1, <1>3, <1>6, StreamedStays DEF Log
<1> QED BY <1>1, <1>3, <1>4, <1>6, <1>7, NothingNew

----------------------------------------------------------------------------
(* The store.                                                              *)

LEMMA StoreOnce ==
  ASSUME OnceInv, KeptInv', NEW i \in Instance, StoreExecutes(i) \/ StoreFails(i)
  PROVE  OnceInv'
<1> DEFINE op == Head(ops[i])
<1>1. /\ TypeOK /\ TypeOK' /\ ops[i] # <<>> /\ ops[i] \in Seq(Operation)
      /\ UNCHANGED <<call, pubs, inbox, at, sub, shown>>
  BY DEF OnceInv, KeptInv, StoreExecutes, StoreFails, TypeOK
<1>2. op \in Operation /\ op \in Members(ops[i])
  BY <1>1, MembersOfTail
<1>3. PICK events \in Seq(Update), ok \in BOOLEAN, head \in Nat :
        /\ Answer(i, events, ok, head)
        /\ ok /\ op.kind # "read" => events[1].event = op.event /\ (Stream => events[1].id # 0)
  <2>1. CASE StoreFails(i)
    <3>1. Answer(i, <<>>, FALSE, 0)
      BY <2>1 DEF StoreFails
    <3>2. <<>> \in Seq(Update)
      OBVIOUS
    <3> QED BY <3>1, <3>2
  <2>2. CASE StoreExecutes(i) /\ op.kind = "read"
    <3> DEFINE log == saved[StoreOf(i)]
    <3>1. log \in Seq(Event) /\ op.after \in Nat
      BY <1>1, <1>2, <2>2, OperationFields DEF StoreOf, TypeOK
    <3>2. Read(log, op.after) \in Seq(Update) /\ Len(log) \in Nat
      BY <3>1, ReadIsOfLog
    <3>3. Answer(i, Read(log, op.after), TRUE, Len(log))
      BY <2>2 DEF StoreExecutes
    <3> QED BY <2>2, <3>2, <3>3
  <2>3. CASE StoreExecutes(i) /\ op.kind # "read"
    <3> DEFINE n == Len(saved[StoreOf(i)]) + 1
               stamp == Stamp(op.event, n)
    <3>1. n \in Nat \ {0} /\ op.event \in Event
      BY <1>1, <1>2, <2>3, OperationFields DEF StoreOf, TypeOK
    <3>2. Answer(i, <<stamp>>, TRUE, 0)
      BY <2>3 DEF StoreExecutes
    <3> HIDE DEF n
    <3>3. stamp \in Update /\ stamp.event = op.event /\ (Stream => stamp.id # 0)
      BY <3>1, StampIsUpdate DEF Stamp
    <3> HIDE DEF stamp
    <3>4. <<stamp>> \in Seq(Update) /\ <<stamp>>[1] = stamp
      BY <3>3
    <3> QED BY <3>2, <3>3, <3>4
  <2> QED BY <2>1, <2>2, <2>3
<1>4. \/ Log' = Log
      \/ op.kind # "read" /\ op.event \in Event /\ Log' = Append(Log, op.event)
  <2>1. \/ UNCHANGED saved
        \/ op.kind # "read" /\ saved' = [saved EXCEPT ![StoreOf(i)] = Append(@, op.event)]
    BY DEF StoreExecutes, StoreFails, StoreOf
  <2> QED BY <1>1, <1>2, <2>1, OperationFields, NamesAssumption DEF Log, TypeOK, StoreOf
<1>5. WellFormed'
  <2>1. \A j \in Instance : \A r \in Members(replies'[j]) :
          \/ r \in Members(replies[j])
          \/ r = [op |-> op, ok |-> ok, events |-> events, head |-> head]
    BY <1>1, <1>3, AnswerIsTyped
  <2> QED BY <1>1, <1>3, <2>1 DEF WellFormed, OnceInv, Stream
<1> DEFINE r == [op |-> op, ok |-> ok, events |-> events, head |-> head]
<1>5a. /\ r \in Reply /\ r.op = op
      /\ replies' = [replies EXCEPT ![i] = Append(@, r)] /\ ops' = [ops EXCEPT ![i] = Tail(@)]
  BY <1>2, <1>3 DEF Answer, Reply
<1> HIDE DEF r
<1> SUFFICES ASSUME NEW e \in Event PROVE EventInv(e)'
  BY <1>5 DEF OnceInv
<1>6. EventInv(e)
  BY DEF OnceInv
<1>7. /\ op \in Saves(e) => Has(ops[i], Saves(e)) /\ ~Has(replies[i], SaveAnswers(e))
      /\ op \in Resaves(e) => Has(ops[i], Resaves(e)) /\ ~Has(replies[i], ResaveAnswers(e))
  <2>1. \A T : op \in T => Has(ops[i], T)
    BY <1>2 DEF Has
  <2> QED BY <1>6, <2>1 DEF EventInv, OneSave, OneDue, Saving, Due
<1>8. /\ \A j \in Instance :
           /\ OnlyOnce(ops'[j], Saves(e)) /\ OnlyOnce(replies'[j], SaveAnswers(e))
           /\ Has(ops'[j], Saves(e)) => Has(ops[j], Saves(e))
           /\ Has(replies'[j], SaveAnswers(e)) =>
                Has(replies[j], SaveAnswers(e)) \/ (j = i /\ op \in Saves(e))
      /\ op \in Saves(e) => ~Has(ops'[i], Saves(e))
  <2>1. \A j \in Instance : OnlyOnce(ops[j], Saves(e)) /\ OnlyOnce(replies[j], SaveAnswers(e))
    BY <1>6 DEF EventInv, NoDoubles
  <2>2. r \in SaveAnswers(e) <=> op \in Saves(e)
    BY <1>5a DEF SaveAnswers
  <2>3. \A j \in Instance :
          /\ OnlyOnce(replies'[j], SaveAnswers(e))
          /\ Has(replies'[j], SaveAnswers(e)) =>
               Has(replies[j], SaveAnswers(e)) \/ (j = i /\ r \in SaveAnswers(e))
    BY <1>1, <1>7, <1>5a, <2>1, <2>2, AnswerOnce
  <2>4. /\ \A j \in Instance :
             OnlyOnce(ops'[j], Saves(e)) /\ (Has(ops'[j], Saves(e)) => Has(ops[j], Saves(e)))
        /\ op \in Saves(e) => ~Has(ops'[i], Saves(e))
    BY <1>1, <1>5a, <2>1, AnsweredOnce
  <2> QED BY <2>2, <2>3, <2>4
<1>9. /\ \A j \in Instance :
           /\ OnlyOnce(ops'[j], Resaves(e)) /\ OnlyOnce(replies'[j], ResaveAnswers(e))
           /\ Has(ops'[j], Resaves(e)) => Has(ops[j], Resaves(e))
           /\ Has(replies'[j], ResaveAnswers(e)) =>
                Has(replies[j], ResaveAnswers(e)) \/ (j = i /\ op \in Resaves(e))
      /\ op \in Resaves(e) => ~Has(ops'[i], Resaves(e))
  <2>1. \A j \in Instance : OnlyOnce(ops[j], Resaves(e)) /\ OnlyOnce(replies[j], ResaveAnswers(e))
    BY <1>6 DEF EventInv, NoDoubles
  <2>2. r \in ResaveAnswers(e) <=> op \in Resaves(e)
    BY <1>5a DEF ResaveAnswers
  <2>3. \A j \in Instance :
          /\ OnlyOnce(replies'[j], ResaveAnswers(e))
          /\ Has(replies'[j], ResaveAnswers(e)) =>
               Has(replies[j], ResaveAnswers(e)) \/ (j = i /\ r \in ResaveAnswers(e))
    BY <1>1, <1>7, <1>5a, <2>1, <2>2, AnswerOnce
  <2>4. /\ \A j \in Instance :
             OnlyOnce(ops'[j], Resaves(e)) /\ (Has(ops'[j], Resaves(e)) => Has(ops[j], Resaves(e)))
        /\ op \in Resaves(e) => ~Has(ops'[i], Resaves(e))
    BY <1>1, <1>5a, <2>1, AnsweredOnce
  <2> QED BY <2>2, <2>3, <2>4
<1>10. OneSave(e)'
  BY <1>1, <1>6, <1>7, <1>8 DEF OneSave, Saving, EventInv
<1>11. OnePublish(e)' /\ ToldLater(e)'
  BY <1>1, <1>6 DEF OnePublish, ToldLater, Publishing, Told, EventInv
<1>12. OneDue(e)'
  BY <1>1, <1>6, <1>7, <1>9 DEF OneDue, Due, Told, EventInv
<1>13. NoDoubles(e)'
  BY <1>1, <1>6, <1>8, <1>9 DEF NoDoubles, EventInv
<1>14. StreamedOnce(e)'
  <2> SUFFICES ASSUME Stream
               PROVE  /\ OnlyOnce(Log', {e}) /\ \A j \in Instance : ~Has(ops'[j], Resaves(e))
                      /\ Has(Log', {e}) => /\ call'[e] # "new"
                                           /\ \A j \in Instance : ~Has(ops'[j], Saves(e))
    BY DEF StreamedOnce, Stream
  <2>1. /\ OnlyOnce(Log, {e}) /\ \A j \in Instance : ~Has(ops'[j], Resaves(e))
        /\ Has(Log, {e}) => /\ call'[e] # "new"
                            /\ \A j \in Instance : ~Has(ops'[j], Saves(e)) /\ ~Has(ops[j], Saves(e))
    BY <1>1, <1>6, <1>8, <1>9 DEF StreamedOnce, EventInv
  <2>2. ASSUME op.kind # "read", op.event = e, op.event \in Event, Log' = Append(Log, op.event)
        PROVE  /\ OnlyOnce(Log', {e}) /\ call'[e] # "new"
               /\ \A j \in Instance : ~Has(ops'[j], Saves(e))
    <3>1. op \in Saves(e)
      <4>1. op \in Saves(e) \/ op \in Resaves(e)
        BY <1>2, <2>2, OperationFields DEF Saves, Resaves
      <4> QED BY <1>6, <1>7, <4>1 DEF EventInv, StreamedOnce
    <3>2. call[e] = "saving" /\ \A j \in Instance : Has(ops[j], Saves(e)) => j = i
      BY <1>6, <1>7, <3>1 DEF EventInv, OneSave, Saving
    <3>3. ~Has(Log, {e})
      BY <1>7, <2>1, <3>1
    <3>4. Log \in Seq(Event)
      BY <1>1 DEF TypeOK, Log
    <3>5. OnlyOnce(Log', {e})
      BY <2>1, <2>2, <3>3, <3>4, OnceAppend
    <3> QED BY <1>1, <1>8, <3>1, <3>2, <3>5
  <2>3. ASSUME op.event # e, op.event \in Event, Log' = Append(Log, op.event)
        PROVE  OnlyOnce(Log', {e}) /\ (Has(Log', {e}) => Has(Log, {e}))
    <3>1. Log \in Seq(Event) /\ op.event \notin {e}
      BY <1>1, <2>3 DEF TypeOK, Log
    <3> QED BY <2>1, <2>3, <3>1, OnceAppend
  <2> QED BY <1>4, <2>1, <2>2, <2>3
<1> QED BY <1>10, <1>11, <1>12, <1>13, <1>14 DEF EventInv

----------------------------------------------------------------------------
(* Broadcasts.                                                             *)

LEMMA BroadcastOnce ==
  ASSUME OnceInv, KeptInv', NEW e0 \in Event, NEW i \in Instance, Broadcast(e0, i)
  PROVE  OnceInv'
<1> DEFINE op == [kind |-> "save", event |-> e0]
<1>1. /\ TypeOK /\ TypeOK' /\ Ask(i, op) /\ op \in Operation /\ call[e0] = "new"
      /\ call' = [call EXCEPT ![e0] = "saving"]
      /\ UNCHANGED <<saved, replies, pubs, inbox, at, sub, shown>>
  BY DEF OnceInv, KeptInv, Broadcast, Operation
<1>2. WellFormed'
  BY <1>1 DEF WellFormed, OnceInv
<1> SUFFICES ASSUME NEW e \in Event PROVE EventInv(e)'
  BY <1>2 DEF OnceInv
<1>3. EventInv(e)
  BY DEF OnceInv
<1>4. op \notin Resaves(e) /\ (op \in Saves(e) => e = e0)
  BY DEF Saves, Resaves
<1> HIDE DEF op
<1>5. e = e0 => /\ \A j \in Instance : ~Saving(e, j) /\ ~Publishing(e, j) /\ ~Due(e, j)
                /\ \A c \in Conn : ~Told(e, c)
  BY <1>1, <1>3 DEF EventInv, OneSave, OnePublish, OneDue, ToldLater
<1>6. \A j \in Instance :
        OnlyOnce(ops'[j], Resaves(e)) /\ (Has(ops'[j], Resaves(e)) => Has(ops[j], Resaves(e)))
  <2>1. \A j \in Instance : OnlyOnce(ops[j], Resaves(e))
    BY <1>3 DEF EventInv, NoDoubles
  <2> QED BY <1>1, <1>4, <2>1, AskOnce
<1>7. \A j \in Instance :
        /\ OnlyOnce(ops'[j], Saves(e))
        /\ Has(ops'[j], Saves(e)) => Has(ops[j], Saves(e)) \/ (j = i /\ e = e0)
  <2>1. \A j \in Instance : OnlyOnce(ops[j], Saves(e))
    BY <1>3 DEF EventInv, NoDoubles
  <2>2. op \in Saves(e) => ~Has(ops[i], Saves(e))
    BY <1>4, <1>5 DEF Saving
  <2> QED BY <1>1, <1>4, <2>1, <2>2, AskOnce
<1>8. NoDoubles(e)'
  BY <1>1, <1>3, <1>6, <1>7 DEF NoDoubles, EventInv
<1>9. CASE e = e0
  <2>1. call'[e] = "saving"
    BY <1>1, <1>9 DEF TypeOK
  <2>2. OneSave(e)'
    BY <1>1, <1>5, <1>7, <1>9, <2>1 DEF OneSave, Saving
  <2>3. OnePublish(e)' /\ OneDue(e)' /\ ToldLater(e)'
    BY <1>1, <1>5, <1>6, <1>9 DEF OnePublish, OneDue, ToldLater, Publishing, Due, Told
  <2>4. StreamedOnce(e)'
    BY <1>1, <1>3, <1>6, <1>9 DEF StreamedOnce, EventInv, Log, Stream
  <2> QED BY <1>8, <2>2, <2>3, <2>4 DEF EventInv
<1>10. CASE e # e0
  <2>1. call'[e] = call[e]
    BY <1>1, <1>10 DEF TypeOK
  <2>2. NothingNewFor(e) /\ OnlyLeaves(e)
    BY <1>1, <1>6, <1>7, <1>10 DEF NothingNewFor, OnlyLeaves
  <2>3. StreamedOnce(e)'
    BY <1>1, <1>3, <2>1, <2>2, StreamedStays DEF Log
  <2> QED BY <1>3, <1>8, <2>1, <2>2, <2>3, NothingNew
<1> QED BY <1>9, <1>10

----------------------------------------------------------------------------
(* The gateway.                                                            *)

LEMMA EmitOnce ==
  ASSUME TypeOK, NEW i \in Instance, NEW u \in Update, EmitToTopic(i, u), NEW e,
         \A c \in Conn : OnlyOnce(shown[c], Lives(e)),
         u.event = e => \A c \in Conn : at[c] = i => ~Has(shown[c], Lives(e))
  PROVE  \A c \in Conn :
           /\ OnlyOnce(shown'[c], Lives(e))
           /\ Has(shown'[c], Lives(e)) => Has(shown[c], Lives(e)) \/ (at[c] = i /\ u.event = e)
<1> DEFINE S == [how : {"live", "replay"}, update : Update]
           new == [how |-> "live", update |-> u]
<1>1. new \in S /\ (new \in Lives(e) <=> u.event = e)
  BY DEF Lives
<1>2. \A c \in Conn : shown[c] \in Seq(S)
  BY DEF TypeOK
<1>3. \A c \in Conn : shown'[c] = shown[c] \/ (at[c] = i /\ shown'[c] = Append(shown[c], new))
  <2>1. shown' = [c \in Conn |-> IF c \in RoomAt(i) THEN Append(shown[c], new) ELSE shown[c]]
    BY DEF EmitToTopic
  <2>2. \A c \in RoomAt(i) : at[c] = i
    BY DEF RoomAt
  <2> HIDE DEF new
  <2> QED BY <2>1, <2>2
<1> HIDE DEF S, new
<1> SUFFICES ASSUME NEW c \in Conn, at[c] = i, shown'[c] = Append(shown[c], new)
             PROVE  /\ OnlyOnce(shown'[c], Lives(e))
                    /\ Has(shown'[c], Lives(e)) => Has(shown[c], Lives(e)) \/ u.event = e
  BY <1>3
<1> QED BY <1>1, <1>2, OnceAppend

LEMMA StageMoves ==
  ASSUME NEW d \in Conn, NEW head,
         sub \in [Conn -> [stage : {"none", "reading", "done", "failed", "left"},
                          after : Nat, head : Nat]],
         \/ UNCHANGED sub
         \/ sub' = [sub EXCEPT ![d].stage = "failed"]
         \/ sub' = [sub EXCEPT ![d] = [stage |-> "done", after |-> @.after, head |-> head]]
  PROVE  \A c \in Conn : sub'[c] = sub[c] \/ sub'[c].stage # "none"
OBVIOUS

LEMMA ResumeSubscribeOnce ==
  ASSUME OnceInv, KeptInv', NEW i \in Instance, ResumeSubscribe(i)
  PROVE  OnceInv'
<1> DEFINE r == Head(replies[i])
           d == r.op.conn
           Sent == [how : {"live", "replay"}, update : Update]
           sent == [n \in DOMAIN r.events |-> [how |-> "replay", update |-> r.events[n]]]
<1>1. /\ TypeOK /\ TypeOK' /\ Resume(i, "read")
      /\ UNCHANGED <<saved, call, ops, pubs, inbox, at>>
  BY DEF OnceInv, KeptInv, ResumeSubscribe
<1>2. /\ r \in Reply /\ d \in Conn /\ r.events \in Seq(Update)
      /\ \A j \in Instance : Members(replies'[j]) \subseteq Members(replies[j])
  <2>1. KeptInv
    BY DEF OnceInv
  <2>2. /\ r \in Reply /\ r.op \in Operation /\ r.op.kind = "read" /\ r.events \in Seq(Update)
        /\ \A j \in Instance : Members(replies'[j]) \subseteq Members(replies[j])
    BY <1>1, <2>1, TakenReply
  <2> QED BY <2>2, OperationFields
<1>3. WellFormed'
  BY <1>1, <1>2, WellFormedStays DEF OnceInv
<1>4. \A x \in Members(sent) : x.how = "replay"
  <2>1. \A n \in DOMAIN sent : sent[n].how = "replay"
    OBVIOUS
  <2> HIDE DEF sent
  <2> QED BY <2>1 DEF Members
<1>5. sent \in Seq(Sent)
  <2>1. DOMAIN r.events = 1 .. Len(r.events) /\ Len(r.events) \in Nat
        /\ \A n \in 1 .. Len(r.events) : r.events[n] \in Update
    BY <1>2
  <2>2. sent \in [1 .. Len(r.events) -> Sent]
    BY <2>1
  <2> QED BY <2>1, <2>2, SequenceOfFunction
<1>6. UNCHANGED shown \/ shown' = [shown EXCEPT ![d] = @ \o sent]
  BY DEF ResumeSubscribe
<1>7. shown \in [Conn -> Seq(Sent)]
  BY <1>1 DEF TypeOK
<1> HIDE DEF Sent, sent
<1> SUFFICES ASSUME NEW e \in Event PROVE EventInv(e)'
  BY <1>3 DEF OnceInv
<1>8. EventInv(e)
  BY DEF OnceInv
<1>9. \A c \in Conn : /\ OnlyOnce(shown'[c], Lives(e))
                      /\ Has(shown'[c], Lives(e)) => Has(shown[c], Lives(e))
  <2>1. \A c \in Conn : OnlyOnce(shown[c], Lives(e))
    BY <1>8 DEF EventInv, NoDoubles
  <2>2. ~Has(sent, Lives(e))
    BY <1>4 DEF Lives, Has
  <2>3. /\ OnlyOnce(shown[d] \o sent, Lives(e))
        /\ Has(shown[d] \o sent, Lives(e)) => Has(shown[d], Lives(e))
    BY <1>2, <1>5, <1>7, <2>1, <2>2, OnceConcat
  <2> QED BY <1>2, <1>6, <1>7, <2>1, <2>3
<1>10. \A j \in Instance :
         /\ OnlyOnce(replies'[j], SaveAnswers(e))
         /\ Has(replies'[j], SaveAnswers(e)) => Has(replies[j], SaveAnswers(e))
         /\ OnlyOnce(replies'[j], ResaveAnswers(e))
         /\ Has(replies'[j], ResaveAnswers(e)) => Has(replies[j], ResaveAnswers(e))
  <2>1. \A j \in Instance : OnlyOnce(replies[j], SaveAnswers(e)) /\ OnlyOnce(replies[j], ResaveAnswers(e))
    BY <1>8 DEF EventInv, NoDoubles
  <2> QED BY <1>1, <2>1, ResumeOnce
<1>11. NoDoubles(e)' /\ NothingNewFor(e)
  BY <1>1, <1>8, <1>9, <1>10 DEF NoDoubles, NothingNewFor, EventInv
<1>12. OnlyLeaves(e)
  <2>1. \A c \in Conn : sub'[c] = sub[c] \/ sub'[c].stage # "none"
    <3>1. \/ UNCHANGED sub
          \/ sub' = [sub EXCEPT ![d].stage = "failed"]
          \/ sub' = [sub EXCEPT ![d] = [stage |-> "done", after |-> @.after, head |-> r.head]]
      BY DEF ResumeSubscribe
    <3>2. sub \in [Conn -> [stage : {"none", "reading", "done", "failed", "left"},
                           after : Nat, head : Nat]]
      BY <1>1 DEF TypeOK
    <3> QED BY <1>2, <3>1, <3>2, StageMoves
  <2> QED BY <1>1, <2>1 DEF OnlyLeaves
<1>13. StreamedOnce(e)'
  BY <1>1, <1>8, <1>11, StreamedStays DEF Log
<1> QED BY <1>1, <1>8, <1>11, <1>12, <1>13, NothingNew

\* The instance that broadcast e announces it, to its room and on the bus.
LEMMA ResumeBroadcastOnce ==
  ASSUME OnceInv, KeptInv', NEW i \in Instance, ResumeBroadcast(i)
  PROVE  OnceInv'
<1> DEFINE r == Head(replies[i])
           e0 == r.op.event
           u == r.events[1]
           m == [origin |-> i, update |-> u]
<1>1. /\ TypeOK /\ TypeOK' /\ Resume(i, "save") /\ "save" # "read"
      /\ UNCHANGED <<saved, ops, inbox, at, sub>>
  BY DEF OnceInv, KeptInv, ResumeBroadcast
<1>2. /\ r \in Reply /\ r.op \in Operation /\ r.op.kind = "save" /\ r \in Members(replies[i])
      /\ \A j \in Instance : Members(replies'[j]) \subseteq Members(replies[j])
  <2>1. replies[i] \in Seq(Reply) /\ replies[i] # <<>>
    BY <1>1 DEF Resume, TypeOK
  <2>2. KeptInv
    BY DEF OnceInv
  <2>3. r \in Members(replies[i])
    BY <2>1, MembersOfTail
  <2>4. r \in Reply /\ r.op \in Operation /\ r.op.kind = "save"
        /\ \A j \in Instance : Members(replies'[j]) \subseteq Members(replies[j])
    BY <1>1, <2>2, TakenReply
  <2> QED BY <2>3, <2>4
<1>3. e0 \in Event
  BY <1>2, OperationFields
<1>4. r.ok => u \in Update
  <2>1. KeptInv
    BY DEF OnceInv
  <2> QED BY <1>1, <2>1, TakenReply
<1>5. r.ok => u.event = e0 /\ (Stream => u.id # 0)
  BY <1>2 DEF OnceInv, WellFormed
<1>6. call' = [call EXCEPT ![e0] = IF r.ok THEN "publishing" ELSE "failed"]
  BY DEF ResumeBroadcast
<1>7. r.ok => m \in Message /\ pubs' = [pubs EXCEPT ![i] = Append(@, m)] /\ EmitToTopic(i, u)
  BY <1>4 DEF ResumeBroadcast, Message
<1>8. ~r.ok => UNCHANGED <<pubs, shown>>
  BY DEF ResumeBroadcast
<1>9. m.origin = i /\ m.update = u
  OBVIOUS
<1> HIDE DEF r, e0, u, m
<1>10. WellFormed'
  <2>1. CASE r.ok
    <3>1. \A j \in Instance : Members(pubs'[j]) \subseteq Members(pubs[j]) \cup (IF j = i THEN {m} ELSE {})
      <4>1. pubs \in [Instance -> Seq(Message)] /\ m \in Message
        BY <1>1, <1>7, <2>1 DEF TypeOK
      <4>2. Members(Append(pubs[i], m)) = Members(pubs[i]) \cup {m}
        BY <4>1, MembersOfAppend
      <4> QED BY <1>7, <2>1, <4>1, <4>2
    <3>2. \A j \in Instance : \A x \in Members(pubs'[j]) : x \in Members(pubs[j]) \/ (j = i /\ x = m)
      BY <3>1
    <3>3. \A j \in Instance : \A x \in Members(pubs'[j]) : x.origin = j /\ (Stream => x.update.id # 0)
      BY <1>5, <1>9, <2>1, <3>2 DEF WellFormed, OnceInv
    <3> QED BY <1>1, <1>2, <3>3 DEF WellFormed, OnceInv, Stream
  <2>2. CASE ~r.ok
    BY <1>1, <1>2, <1>8, <2>2 DEF WellFormed, OnceInv
  <2> QED BY <2>1, <2>2
<1> SUFFICES ASSUME NEW e \in Event PROVE EventInv(e)'
  BY <1>10 DEF OnceInv
<1>11. EventInv(e)
  BY DEF OnceInv
<1>12. r \in SaveAnswers(e) <=> e = e0
  BY <1>2 DEF SaveAnswers, Saves, e0
<1>13. r \notin ResaveAnswers(e)
  BY <1>2 DEF ResaveAnswers, Resaves
<1>14. /\ \A j \in Instance :
             /\ OnlyOnce(replies'[j], SaveAnswers(e))
             /\ Has(replies'[j], SaveAnswers(e)) => Has(replies[j], SaveAnswers(e))
             /\ OnlyOnce(replies'[j], ResaveAnswers(e))
             /\ Has(replies'[j], ResaveAnswers(e)) => Has(replies[j], ResaveAnswers(e))
       /\ e = e0 => Has(replies[i], SaveAnswers(e)) /\ ~Has(replies'[i], SaveAnswers(e))
  <2>1. \A j \in Instance : OnlyOnce(replies[j], SaveAnswers(e)) /\ OnlyOnce(replies[j], ResaveAnswers(e))
    BY <1>11 DEF EventInv, NoDoubles
  <2>2. e = e0 => Head(replies[i]) \in SaveAnswers(e)
    BY <1>12 DEF r
  <2> QED BY <1>1, <2>1, <2>2, ResumeOnce
\* While e is being saved nothing else about it is under way.
<1>15. e = e0 => /\ \A j \in Instance : /\ ~Publishing(e, j) /\ ~Due(e, j)
                                        /\ ~Saving(e, j)'
                 /\ \A c \in Conn : ~Told(e, c)
  <2> SUFFICES ASSUME e = e0
               PROVE  /\ \A j \in Instance : /\ ~Publishing(e, j) /\ ~Due(e, j)
                                             /\ ~Saving(e, j)'
                      /\ \A c \in Conn : ~Told(e, c)
    OBVIOUS
  <2>1. /\ call[e] = "saving" /\ \A j \in Instance : Saving(e, j) => j = i
        /\ ~Has(ops[i], Saves(e))
    BY <1>11, <1>14 DEF EventInv, OneSave, Saving
  <2>2. \A j \in Instance : ~Saving(e, j)'
    BY <1>1, <1>14, <2>1 DEF Saving
  <2>3. \A j \in Instance : ~Publishing(e, j) /\ ~Due(e, j)
    BY <1>11, <2>1 DEF EventInv, OnePublish, OneDue
  <2>4. \A c \in Conn : ~Told(e, c)
    BY <1>11, <2>1 DEF EventInv, ToldLater
  <2> QED BY <2>2, <2>3, <2>4
<1>16. \A j \in Instance :
         /\ OnlyOnce(pubs'[j], Announcements(e))
         /\ Has(pubs'[j], Announcements(e)) =>
              Has(pubs[j], Announcements(e)) \/ (j = i /\ e = e0 /\ r.ok)
  <2>1. \A j \in Instance : OnlyOnce(pubs[j], Announcements(e))
    BY <1>11 DEF EventInv, NoDoubles
  <2>2. CASE r.ok
    <3>1. m \in Announcements(e) <=> e = e0
      BY <1>5, <1>7, <1>9, <2>2 DEF Announcements
    <3>2. m \in Announcements(e) => ~Has(pubs[i], Announcements(e))
      BY <1>15, <3>1 DEF Publishing
    <3> QED BY <1>1, <1>7, <2>1, <2>2, <3>1, <3>2, AnnounceOnce
  <2>3. CASE ~r.ok
    BY <1>8, <2>1, <2>3
  <2> QED BY <2>2, <2>3
<1>17. \A c \in Conn :
         /\ OnlyOnce(shown'[c], Lives(e))
         /\ Has(shown'[c], Lives(e)) =>
              Has(shown[c], Lives(e)) \/ (at[c] = i /\ e = e0 /\ r.ok)
  <2>1. \A c \in Conn : OnlyOnce(shown[c], Lives(e))
    BY <1>11 DEF EventInv, NoDoubles
  <2>2. CASE r.ok
    <3>1. u.event = e => \A c \in Conn : at[c] = i => ~Has(shown[c], Lives(e))
      BY <1>5, <1>15, <2>2 DEF Told
    <3> QED BY <1>1, <1>4, <1>5, <1>7, <2>1, <2>2, <3>1, EmitOnce
  <2>3. CASE ~r.ok
    BY <1>8, <2>1, <2>3
  <2> QED BY <2>2, <2>3
<1>18. NoDoubles(e)'
  BY <1>1, <1>11, <1>14, <1>16, <1>17 DEF NoDoubles, EventInv
<1>19. CASE e = e0 /\ r.ok
  <2>1. call'[e] = "publishing"
    BY <1>1, <1>3, <1>6, <1>19 DEF TypeOK
  <2>2. OneSave(e)'
    BY <1>15, <1>19 DEF OneSave
  <2>3. OnePublish(e)'
    BY <1>1, <1>15, <1>16, <1>17, <1>19, <2>1 DEF OnePublish, Publishing, Told
  <2>4. OneDue(e)'
    <3>1. \A j \in Instance : ~Due(e, j)'
      BY <1>1, <1>14, <1>15, <1>19 DEF Due
    <3> QED BY <3>1 DEF OneDue
  <2>5. ToldLater(e)'
    BY <1>1, <1>15, <1>17, <1>19, <2>1, NamesAssumption DEF ToldLater, Told
  <2>6. StreamedOnce(e)'
    BY <1>1, <1>11, <2>1 DEF StreamedOnce, EventInv, Log, Stream
  <2> QED BY <1>18, <2>2, <2>3, <2>4, <2>5, <2>6 DEF EventInv
<1>20. CASE ~(e = e0 /\ r.ok)
  <2>1. NothingNewFor(e) /\ OnlyLeaves(e)
    BY <1>1, <1>14, <1>16, <1>17, <1>20 DEF NothingNewFor, OnlyLeaves
  <2>2. \/ call'[e] = call[e]
        \/ e = e0 /\ call'[e] = "failed"
    BY <1>1, <1>3, <1>6, <1>20 DEF TypeOK
  <2>3. StreamedOnce(e)'
    BY <1>1, <1>11, <2>1, <2>2, StreamedStays DEF Log
  <2>4. e = e0 => \A j \in Instance : ~Saving(e, j)' /\ ~Publishing(e, j)'
    BY <1>15, <1>16, <1>20 DEF Publishing
  <2> QED BY <1>11, <1>18, <2>1, <2>2, <2>3, <2>4, NothingNew
<1> QED BY <1>19, <1>20

\* An instance that saved e again announces it to its room.
LEMMA ResumeHandlerOnce ==
  ASSUME OnceInv, KeptInv', NEW i \in Instance, ResumeHandler(i)
  PROVE  OnceInv'
<1> DEFINE r == Head(replies[i])
           e0 == r.op.event
           u == r.events[1]
<1>1. /\ TypeOK /\ TypeOK' /\ Resume(i, "resave") /\ "resave" # "read" /\ KeptInv
      /\ UNCHANGED <<saved, call, ops, pubs, inbox, at, sub>>
  BY DEF OnceInv, KeptInv, ResumeHandler
<1>2. /\ r \in Reply /\ r.op \in Operation /\ r.op.kind = "resave"
      /\ \A j \in Instance : Members(replies'[j]) \subseteq Members(replies[j])
  BY <1>1, TakenReply
<1>3. r \in Members(replies[i])
  <2>1. replies[i] \in Seq(Reply) /\ replies[i] # <<>>
    BY <1>1 DEF Resume, TypeOK
  <2> QED BY <2>1, MembersOfTail
<1>4. r.ok => u \in Update
  BY <1>1, TakenReply
<1>5. r.ok => u.event = e0
  BY <1>2, <1>3 DEF OnceInv, WellFormed
<1>6. r.ok => EmitToTopic(i, u)
  BY DEF ResumeHandler
<1>7. ~r.ok => UNCHANGED shown
  BY DEF ResumeHandler
<1>8. WellFormed'
  BY <1>1, <1>2, WellFormedStays DEF OnceInv
<1> HIDE DEF r, e0, u
<1> SUFFICES ASSUME NEW e \in Event PROVE EventInv(e)'
  BY <1>8 DEF OnceInv
<1>9. EventInv(e)
  BY DEF OnceInv
<1>10. r \notin SaveAnswers(e) /\ (r \in ResaveAnswers(e) <=> e = e0)
  BY <1>2 DEF SaveAnswers, ResaveAnswers, Saves, Resaves, e0
<1>11. /\ \A j \in Instance :
            /\ OnlyOnce(replies'[j], SaveAnswers(e))
            /\ Has(replies'[j], SaveAnswers(e)) => Has(replies[j], SaveAnswers(e))
            /\ OnlyOnce(replies'[j], ResaveAnswers(e))
            /\ Has(replies'[j], ResaveAnswers(e)) => Has(replies[j], ResaveAnswers(e))
       /\ e = e0 => Has(replies[i], ResaveAnswers(e)) /\ ~Has(replies'[i], ResaveAnswers(e))
  <2>1. \A j \in Instance : OnlyOnce(replies[j], SaveAnswers(e)) /\ OnlyOnce(replies[j], ResaveAnswers(e))
    BY <1>9 DEF EventInv, NoDoubles
  <2>2. e = e0 => Head(replies[i]) \in ResaveAnswers(e)
    BY <1>10 DEF r
  <2> QED BY <1>1, <2>1, <2>2, ResumeOnce
\* That was its only reason to announce e, and it had not.
<1>12. e = e0 => /\ call[e] \in {"done", "failed"} /\ ~Due(e, i)'
                 /\ \A c \in Conn : Told(e, c) => at[c] # i
  BY <1>1, <1>9, <1>11 DEF EventInv, OneDue, Due
<1>13. \A c \in Conn :
         /\ OnlyOnce(shown'[c], Lives(e))
         /\ Has(shown'[c], Lives(e)) => Has(shown[c], Lives(e)) \/ (at[c] = i /\ e = e0)
  <2>1. \A c \in Conn : OnlyOnce(shown[c], Lives(e))
    BY <1>9 DEF EventInv, NoDoubles
  <2>2. CASE r.ok
    <3>1. u.event = e => \A c \in Conn : at[c] = i => ~Has(shown[c], Lives(e))
      BY <1>5, <1>12, <2>2 DEF Told
    <3> QED BY <1>1, <1>4, <1>5, <1>6, <2>1, <2>2, <3>1, EmitOnce
  <2>3. CASE ~r.ok
    BY <1>7, <2>1, <2>3
  <2> QED BY <2>2, <2>3
<1>14. NoDoubles(e)'
  BY <1>1, <1>9, <1>11, <1>13 DEF NoDoubles, EventInv
<1>15. OnlyLeaves(e)
  BY <1>1 DEF OnlyLeaves
<1>16. CASE e = e0
  <2>1. OneSave(e)'
    BY <1>1, <1>9, <1>11 DEF OneSave, Saving, EventInv
  <2>2. OnePublish(e)'
    BY <1>1, <1>9, <1>12, <1>16 DEF OnePublish, Publishing, EventInv
  <2>3. OneDue(e)'
    BY <1>1, <1>9, <1>11, <1>12, <1>13, <1>16 DEF OneDue, Due, Told, EventInv
  <2>4. ToldLater(e)'
    BY <1>1, <1>9, <1>12, <1>13, <1>16, NamesAssumption DEF ToldLater, Told, EventInv
  <2>5. StreamedOnce(e)'
    BY <1>1, <1>9 DEF StreamedOnce, EventInv, Log, Stream
  <2> QED BY <1>14, <2>1, <2>2, <2>3, <2>4, <2>5 DEF EventInv
<1>17. CASE e # e0
  <2>1. NothingNewFor(e)
    BY <1>1, <1>11, <1>13, <1>17 DEF NothingNewFor
  <2>2. StreamedOnce(e)'
    BY <1>1, <1>9, <2>1, StreamedStays DEF Log
  <2> QED BY <1>1, <1>9, <1>14, <1>15, <2>1, <2>2, NothingNew
<1> QED BY <1>16, <1>17

----------------------------------------------------------------------------
(* The bus.                                                                *)

\* Once published, e is due at every instance it reaches but its own.
LEMMA PublishesOnce ==
  ASSUME OnceInv, KeptInv', NEW i \in Instance, Publish(i) \/ PublishFails(i)
  PROVE  OnceInv'
<1> DEFINE m == Head(pubs[i])
           e0 == m.update.event
<1>1. /\ TypeOK /\ TypeOK' /\ pubs[i] # <<>> /\ pubs' = [pubs EXCEPT ![i] = Tail(@)]
      /\ Deliver(i, m) \/ UNCHANGED inbox
      /\ UNCHANGED <<saved, ops, replies, at, sub, shown>>
  BY DEF Publish, PublishFails, OnceInv, KeptInv
<1>2. /\ m \in Message /\ m \in Members(pubs[i])
      /\ \A j \in Instance : Members(pubs'[j]) \subseteq Members(pubs[j])
      /\ \A j \in Instance : Members(inbox'[j]) \subseteq Members(inbox[j]) \cup {m}
  BY <1>1, PublishedMessage
<1>3. e0 \in Event
  BY <1>2 DEF Message, Update
<1>4. m.origin = i /\ (Stream => m.update.id # 0)
  BY <1>2 DEF OnceInv, WellFormed
<1>5. \/ call' = [call EXCEPT ![e0] = "done"]
      \/ call' = [call EXCEPT ![e0] = "failed"]
  BY DEF Publish, PublishFails
<1> HIDE DEF m
<1>6. WellFormed'
  <2>1. \A j \in Instance : \A x \in Members(pubs'[j]) : x.origin = j /\ (Stream => x.update.id # 0)
    BY <1>2 DEF WellFormed, OnceInv
  <2>2. \A j \in Instance : \A x \in Members(inbox'[j]) : Stream => x.update.id # 0
    <3>1. \A j \in Instance : \A x \in Members(inbox'[j]) : x \in Members(inbox[j]) \/ x = m
      BY <1>2
    <3> QED BY <1>4, <3>1 DEF WellFormed, OnceInv
  <2> QED BY <1>1, <2>1, <2>2 DEF WellFormed, OnceInv, Stream
<1> SUFFICES ASSUME NEW e \in Event PROVE EventInv(e)'
  BY <1>6 DEF OnceInv
<1>7. EventInv(e)
  BY DEF OnceInv
<1>8. /\ m \in Announcements(e) <=> e = e0
      /\ \A j \in Instance : m \in Foreign(e, j) => e = e0 /\ j # i
  BY <1>2, <1>4 DEF Announcements, Foreign
<1> HIDE DEF e0
<1>9. /\ \A j \in Instance :
           /\ OnlyOnce(pubs'[j], Announcements(e))
           /\ Has(pubs'[j], Announcements(e)) => Has(pubs[j], Announcements(e))
      /\ e = e0 => Has(pubs[i], Announcements(e)) /\ ~Has(pubs'[i], Announcements(e))
  <2>1. \A j \in Instance : OnlyOnce(pubs[j], Announcements(e))
    BY <1>7 DEF EventInv, NoDoubles
  <2>2. e = e0 => Head(pubs[i]) \in Announcements(e)
    BY <1>8 DEF m
  <2> QED BY <1>1, <2>1, <2>2, PublishOnce
\* While e is being published nobody has to announce it yet.
<1>10. e = e0 => /\ \A j \in Instance : /\ ~Saving(e, j) /\ ~Due(e, j)
                                        /\ ~Publishing(e, j)'
                 /\ \A c \in Conn : Told(e, c) => at[c] \in {i, Nowhere}
  <2> SUFFICES ASSUME e = e0
               PROVE  /\ \A j \in Instance : ~Saving(e, j) /\ ~Due(e, j) /\ ~Publishing(e, j)'
                      /\ \A c \in Conn : Told(e, c) => at[c] \in {i, Nowhere}
    OBVIOUS
  <2>1. /\ call[e] = "publishing" /\ \A j \in Instance : Publishing(e, j) => j = i
        /\ \A c \in Conn : Told(e, c) => at[c] \in {i, Nowhere}
    BY <1>7, <1>9 DEF EventInv, OnePublish, Publishing
  <2>2. \A j \in Instance : ~Saving(e, j) /\ ~Due(e, j)
    BY <1>7, <2>1 DEF EventInv, OneSave, OneDue
  <2>3. \A j \in Instance : ~Publishing(e, j)'
    BY <1>9, <2>1 DEF Publishing
  <2> QED BY <2>1, <2>2, <2>3
<1>11. \A j \in Instance :
         /\ OnlyOnce(inbox'[j], Foreign(e, j))
         /\ Has(inbox'[j], Foreign(e, j)) => Has(inbox[j], Foreign(e, j)) \/ (e = e0 /\ j # i)
  <2> SUFFICES ASSUME NEW j \in Instance
               PROVE  /\ OnlyOnce(inbox'[j], Foreign(e, j))
                      /\ Has(inbox'[j], Foreign(e, j)) => Has(inbox[j], Foreign(e, j)) \/ m \in Foreign(e, j)
    BY <1>8
  <2>1. OnlyOnce(inbox[j], Foreign(e, j))
    BY <1>7 DEF EventInv, NoDoubles
  <2>2. m \in Foreign(e, j) => ~Has(inbox[j], Foreign(e, j))
    BY <1>8, <1>10 DEF Due
  <2>3. Deliver(i, m) \/ UNCHANGED inbox
    BY <1>1 DEF m
  <2> QED BY <1>1, <1>2, <2>1, <2>2, <2>3, DeliverOnce
<1>12. NoDoubles(e)'
  BY <1>1, <1>7, <1>9, <1>11 DEF NoDoubles, EventInv
<1>13. CASE e = e0
  <2>1. call'[e] \in {"done", "failed"}
    BY <1>1, <1>3, <1>5, <1>13 DEF TypeOK
  <2>2. OneSave(e)' /\ OnePublish(e)'
    BY <1>1, <1>10, <1>13 DEF OneSave, OnePublish, Saving
  <2>3. OneDue(e)'
    <3>1. \A j \in Instance : /\ ~Has(ops'[j], Resaves(e)) /\ ~Has(replies'[j], ResaveAnswers(e))
                              /\ Has(inbox'[j], Foreign(e, j)) => j # i
      BY <1>1, <1>10, <1>11, <1>13 DEF Due
    <3>2. \A c \in Conn : Told(e, c)' => at'[c] \in {i, Nowhere}
      BY <1>1, <1>10, <1>13 DEF Told
    <3> QED BY <2>1, <3>1, <3>2, NamesAssumption DEF OneDue, Due
  <2>4. ToldLater(e)'
    BY <1>1, <1>7, <2>1 DEF ToldLater, Told, EventInv
  <2>5. StreamedOnce(e)'
    BY <1>1, <1>7, <2>1 DEF StreamedOnce, EventInv, Log, Stream
  <2> QED BY <1>12, <2>2, <2>3, <2>4, <2>5 DEF EventInv
<1>14. CASE e # e0
  <2>1. call'[e] = call[e]
    BY <1>1, <1>5, <1>14 DEF TypeOK
  <2>2. NothingNewFor(e) /\ OnlyLeaves(e)
    BY <1>1, <1>9, <1>11, <1>14 DEF NothingNewFor, OnlyLeaves
  <2>3. StreamedOnce(e)'
    BY <1>1, <1>7, <2>1, <2>2, StreamedStays DEF Log
  <2> QED BY <1>7, <1>12, <2>1, <2>2, <2>3, NothingNew
<1> QED BY <1>13, <1>14

\* An instance hears of e: its own message is ignored, a numbered update is announced
\* at once, another is saved again first.
LEMMA HandleMessageOnce ==
  ASSUME OnceInv, KeptInv', NEW i \in Instance, HandleMessage(i)
  PROVE  OnceInv'
<1> DEFINE m == Head(inbox[i])
           e0 == m.update.event
           op == [kind |-> "resave", event |-> e0]
<1>1. /\ TypeOK /\ TypeOK' /\ inbox[i] # <<>> /\ inbox[i] \in Seq(Message)
      /\ inbox' = [inbox EXCEPT ![i] = Tail(@)]
      /\ UNCHANGED <<saved, call, replies, pubs, at, sub>>
  BY DEF HandleMessage, OnceInv, KeptInv, TypeOK
<1>2. /\ m \in Message /\ m \in Members(inbox[i])
      /\ Members(Tail(inbox[i])) \subseteq Members(inbox[i])
  BY <1>1, MembersOfTail
<1>3. \A j \in Instance : Members(inbox'[j]) \subseteq Members(inbox[j])
  BY <1>1, <1>2 DEF TypeOK
<1>4. e0 \in Event /\ m.update \in Update
  BY <1>2 DEF Message, Update
<1>5. Stream => m.update.id # 0
  BY <1>2 DEF OnceInv, WellFormed
<1>6. \/ m.origin = i /\ UNCHANGED <<ops, shown>>
      \/ m.origin # i /\ EmitToTopic(i, m.update) /\ UNCHANGED ops
      \/ m.origin # i /\ m.update.id = 0 /\ Ask(i, op) /\ UNCHANGED shown
  BY DEF HandleMessage
<1>7. op \in Operation
  BY <1>4 DEF Operation
<1>8. WellFormed'
  BY <1>1, <1>3, WellFormedStays DEF OnceInv
<1> SUFFICES ASSUME NEW e \in Event PROVE EventInv(e)'
  BY <1>8 DEF OnceInv
<1>9. EventInv(e)
  BY DEF OnceInv
<1>10. m \in Foreign(e, i) <=> e = e0 /\ m.origin # i
  BY <1>2 DEF Announcements, Foreign
<1>11. op \notin Saves(e) /\ (op \in Resaves(e) <=> e = e0)
  BY <1>7 DEF Saves, Resaves
<1> HIDE DEF m, e0, op
<1>12. /\ \A j \in Instance :
            /\ OnlyOnce(inbox'[j], Foreign(e, j))
            /\ Has(inbox'[j], Foreign(e, j)) => Has(inbox[j], Foreign(e, j))
       /\ e = e0 /\ m.origin # i => Has(inbox[i], Foreign(e, i)) /\ ~Has(inbox'[i], Foreign(e, i))
  <2>1. \A j \in Instance : OnlyOnce(inbox[j], Foreign(e, j))
    BY <1>9 DEF EventInv, NoDoubles
  <2>2. e = e0 /\ m.origin # i => Head(inbox[i]) \in Foreign(e, i)
    BY <1>10 DEF m
  <2>3. /\ OnlyOnce(inbox'[i], Foreign(e, i)) /\ (Has(inbox'[i], Foreign(e, i)) => Has(inbox[i], Foreign(e, i)))
        /\ Head(inbox[i]) \in Foreign(e, i) => Has(inbox[i], Foreign(e, i)) /\ ~Has(inbox'[i], Foreign(e, i))
    BY <1>1, <2>1, TakeMessageOnce
  <2>4. \A j \in Instance \ {i} : inbox'[j] = inbox[j]
    BY <1>1 DEF TypeOK
  <2> QED BY <2>1, <2>2, <2>3, <2>4
\* The message was i's only reason to announce e, and it had not.
<1>13. e = e0 /\ m.origin # i =>
         /\ call[e] \in {"done", "failed"}
         /\ ~Has(ops[i], Resaves(e)) /\ ~Has(replies[i], ResaveAnswers(e))
         /\ \A c \in Conn : Told(e, c) => at[c] # i
  BY <1>9, <1>12 DEF EventInv, OneDue, Due
<1>14. OnlyLeaves(e)
  BY <1>1 DEF OnlyLeaves
<1>15. CASE m.origin = i /\ UNCHANGED <<ops, shown>>
  <2>1. NoDoubles(e)' /\ NothingNewFor(e)
    BY <1>1, <1>9, <1>12, <1>15 DEF NoDoubles, NothingNewFor, EventInv
  <2>2. StreamedOnce(e)'
    BY <1>1, <1>9, <2>1, StreamedStays DEF Log
  <2> QED BY <1>1, <1>9, <1>14, <2>1, <2>2, NothingNew
<1>16. CASE m.origin # i /\ EmitToTopic(i, m.update) /\ UNCHANGED ops
  <2>1. \A c \in Conn :
          /\ OnlyOnce(shown'[c], Lives(e))
          /\ Has(shown'[c], Lives(e)) => Has(shown[c], Lives(e)) \/ (at[c] = i /\ e = e0)
    <3>1. \A c \in Conn : OnlyOnce(shown[c], Lives(e))
      BY <1>9 DEF EventInv, NoDoubles
    <3>2. m.update.event = e => \A c \in Conn : at[c] = i => ~Has(shown[c], Lives(e))
      BY <1>13, <1>16 DEF Told, e0
    <3>3. m.update.event = e <=> e = e0
      BY DEF e0
    <3> QED BY <1>1, <1>4, <1>16, <3>1, <3>2, <3>3, EmitOnce
  <2>2. NoDoubles(e)'
    BY <1>1, <1>9, <1>12, <1>16, <2>1 DEF NoDoubles, EventInv
  <2>3. CASE e = e0
    <3>1. OneSave(e)'
      BY <1>1, <1>9, <1>16 DEF OneSave, Saving, EventInv
    <3>2. OnePublish(e)'
      BY <1>1, <1>9, <1>13, <1>16, <2>3 DEF OnePublish, Publishing, EventInv
    <3>3. OneDue(e)'
      BY <1>1, <1>9, <1>12, <1>13, <1>16, <2>1, <2>3 DEF OneDue, Due, Told, EventInv
    <3>4. ToldLater(e)'
      BY <1>1, <1>9, <1>13, <1>16, <2>1, <2>3, NamesAssumption DEF ToldLater, Told, EventInv
    <3>5. StreamedOnce(e)'
      BY <1>1, <1>9, <1>16 DEF StreamedOnce, EventInv, Log, Stream
    <3> QED BY <2>2, <3>1, <3>2, <3>3, <3>4, <3>5 DEF EventInv
  <2>4. CASE e # e0
    <3>1. NothingNewFor(e)
      BY <1>1, <1>12, <1>16, <2>1, <2>4 DEF NothingNewFor
    <3>2. StreamedOnce(e)'
      BY <1>1, <1>9, <3>1, StreamedStays DEF Log
    <3> QED BY <1>1, <1>9, <1>14, <2>2, <3>1, <3>2, NothingNew
  <2> QED BY <2>3, <2>4
<1>17. CASE m.origin # i /\ m.update.id = 0 /\ Ask(i, op) /\ UNCHANGED shown
  <2>1. \A j \in Instance :
          /\ OnlyOnce(ops'[j], Resaves(e))
          /\ Has(ops'[j], Resaves(e)) => Has(ops[j], Resaves(e)) \/ (j = i /\ e = e0)
    <3>1. \A j \in Instance : OnlyOnce(ops[j], Resaves(e))
      BY <1>9 DEF EventInv, NoDoubles
    <3>2. op \in Resaves(e) => ~Has(ops[i], Resaves(e))
      BY <1>11, <1>13, <1>17
    <3> QED BY <1>1, <1>7, <1>11, <1>17, <3>1, <3>2, AskOnce
  <2>2. \A j \in Instance :
          OnlyOnce(ops'[j], Saves(e)) /\ (Has(ops'[j], Saves(e)) => Has(ops[j], Saves(e)))
    <3>1. \A j \in Instance : OnlyOnce(ops[j], Saves(e))
      BY <1>9 DEF EventInv, NoDoubles
    <3> QED BY <1>1, <1>7, <1>11, <1>17, <3>1, AskOnce
  <2>3. NoDoubles(e)'
    BY <1>1, <1>9, <1>12, <1>17, <2>1, <2>2 DEF NoDoubles, EventInv
  <2>4. ~Stream
    BY <1>5, <1>17
  <2>5. StreamedOnce(e)'
    BY <2>4 DEF StreamedOnce, Stream
  <2>6. CASE e = e0
    <3>1. OneSave(e)'
      BY <1>1, <1>9, <2>2 DEF OneSave, Saving, EventInv
    <3>2. OnePublish(e)'
      BY <1>1, <1>9, <1>17 DEF OnePublish, Publishing, Told, EventInv
    <3>3. OneDue(e)'
      BY <1>1, <1>9, <1>12, <1>13, <1>17, <2>1, <2>6 DEF OneDue, Due, Told, EventInv
    <3>4. ToldLater(e)'
      BY <1>1, <1>9, <1>17 DEF ToldLater, Told, EventInv
    <3> QED BY <2>3, <2>5, <3>1, <3>2, <3>3, <3>4 DEF EventInv
  <2>7. CASE e # e0
    <3>1. NothingNewFor(e)
      BY <1>1, <1>12, <1>17, <2>1, <2>2, <2>7 DEF NothingNewFor
    <3> QED BY <1>1, <1>9, <1>14, <2>3, <2>5, <3>1, NothingNew
  <2> QED BY <2>6, <2>7
<1> QED BY <1>6, <1>15, <1>16, <1>17

----------------------------------------------------------------------------
(* Crashes.                                                                *)

LEMMA StageLeft ==
  ASSUME TypeOK, NEW c \in Conn
  PROVE  [sub[c] EXCEPT !.stage = "left"].stage = "left"
<1>1. sub[c] \in [stage : {"none", "reading", "done", "failed", "left"}, after : Nat, head : Nat]
  BY DEF TypeOK
<1> QED BY <1>1

\* A call is lost with its save, its answer or its message.
LEMMA LostCalls ==
  ASSUME TypeOK, NEW i \in Instance, Crash(i), NEW e \in Event
  PROVE  \/ call'[e] = call[e]
         \/ call'[e] = "failed" /\ (Saving(e, i) \/ Publishing(e, i))
<1> DEFINE lost == {ops[i][n] : n \in DOMAIN ops[i]} \cup {replies[i][n].op : n \in DOMAIN replies[i]}
           calls == {op.event : op \in {o \in lost : o.kind = "save"}} \cup
                    {pubs[i][n].update.event : n \in DOMAIN pubs[i]}
<1>1. call' = [x \in Event |-> IF x \in calls THEN "failed" ELSE call[x]]
  BY DEF Crash
<1>2. /\ \A x \in Members(ops[i]) : x \in Operation
      /\ \A r \in Members(replies[i]) : r \in Reply
      /\ \A m \in Members(pubs[i]) : m \in Message
  BY MembersHaveType DEF TypeOK
<1>3. ASSUME e \in calls PROVE Saving(e, i) \/ Publishing(e, i)
  <2>1. CASE \E n \in DOMAIN ops[i] : ops[i][n].kind = "save" /\ ops[i][n].event = e
    BY <1>2, <2>1 DEF Saving, Has, Members, Saves
  <2>2. CASE \E n \in DOMAIN replies[i] : replies[i][n].op.kind = "save" /\ replies[i][n].op.event = e
    <3>1. PICK r \in Members(replies[i]) : r.op.kind = "save" /\ r.op.event = e
      BY <2>2 DEF Members
    <3>2. r \in SaveAnswers(e)
      BY <1>2, <3>1 DEF SaveAnswers, Saves, Reply
    <3> QED BY <3>1, <3>2 DEF Saving, Has
  <2>3. CASE \E n \in DOMAIN pubs[i] : pubs[i][n].update.event = e
    BY <1>2, <2>3 DEF Publishing, Has, Members, Announcements
  <2> QED BY <1>3, <2>1, <2>2, <2>3
<1> HIDE DEF calls
<1> QED BY <1>1, <1>3

\* What a crash takes away of e is its save or its publication, and its broadcast
\* fails; or what the instance's own sockets, now gone, were still to hear.
LEMMA CrashOnce ==
  ASSUME OnceInv, KeptInv', NEW i \in Instance, Crash(i)
  PROVE  OnceInv'
<1>1. /\ TypeOK /\ TypeOK' /\ UNCHANGED shown
      /\ ops' = [ops EXCEPT ![i] = <<>>] /\ replies' = [replies EXCEPT ![i] = <<>>]
      /\ pubs' = [pubs EXCEPT ![i] = <<>>] /\ inbox' = [inbox EXCEPT ![i] = <<>>]
  BY DEF Crash, OnceInv, KeptInv
<1>2. /\ ops'[i] = <<>> /\ replies'[i] = <<>> /\ pubs'[i] = <<>> /\ inbox'[i] = <<>>
      /\ \A j \in Instance \ {i} : /\ ops'[j] = ops[j] /\ replies'[j] = replies[j]
                                   /\ pubs'[j] = pubs[j] /\ inbox'[j] = inbox[j]
  BY <1>1 DEF TypeOK
<1>3. Members(<<>>) = {}
  BY DEF Members
<1>4. WellFormed'
  BY <1>2, <1>3 DEF WellFormed, OnceInv, Stream
<1>5. Log' = Log
  BY <1>1, NamesAssumption DEF Crash, Log, TypeOK
<1> SUFFICES ASSUME NEW e \in Event PROVE EventInv(e)'
  BY <1>4 DEF OnceInv
<1>6. EventInv(e)
  BY DEF OnceInv
<1>7. \A T : ~Has(<<>>, T) /\ OnlyOnce(<<>>, T)
  BY NothingInNothing
<1>8. NoDoubles(e)' /\ NothingNewFor(e)
  BY <1>1, <1>2, <1>6, <1>7 DEF NoDoubles, NothingNewFor, EventInv
<1>9. ~Saving(e, i)' /\ ~Publishing(e, i)'
  BY <1>2, <1>7 DEF Saving, Publishing
<1>10. OnlyLeaves(e)
  <2>1. \A c \in Conn : \/ at'[c] = at[c] /\ sub'[c] = sub[c]
                        \/ at'[c] = Nowhere /\ sub'[c] = [sub[c] EXCEPT !.stage = "left"]
    BY DEF Crash
  <2>2. \A c \in Conn : [sub[c] EXCEPT !.stage = "left"].stage = "left"
    BY <1>1, StageLeft
  <2> QED BY <2>1, <2>2 DEF OnlyLeaves
<1>11. \/ call'[e] = call[e]
       \/ call'[e] = "failed" /\ (Saving(e, i) \/ Publishing(e, i))
  BY <1>1, LostCalls
<1>12. StreamedOnce(e)'
  BY <1>5, <1>6, <1>8, <1>11, StreamedStays
<1>13. Saving(e, i) \/ Publishing(e, i) => \A j \in Instance : ~Saving(e, j)' /\ ~Publishing(e, j)'
  <2>1. \A j \in Instance : (Saving(e, j)' => Saving(e, j)) /\ (Publishing(e, j)' => Publishing(e, j))
    BY <1>8 DEF NothingNewFor, Saving, Publishing
  <2>2. CASE Saving(e, i)
    <3>1. \A j \in Instance : (Saving(e, j) => j = i) /\ ~Publishing(e, j)
      BY <1>6, <2>2 DEF EventInv, OneSave, OnePublish
    <3> QED BY <1>9, <2>1, <3>1
  <2>3. CASE Publishing(e, i)
    <3>1. \A j \in Instance : (Publishing(e, j) => j = i) /\ ~Saving(e, j)
      BY <1>6, <2>3 DEF EventInv, OneSave, OnePublish
    <3> QED BY <1>9, <2>1, <3>1
  <2> QED BY <2>2, <2>3
<1> QED BY <1>6, <1>8, <1>10, <1>11, <1>12, <1>13, NothingNew

----------------------------------------------------------------------------
(* The theorem.                                                            *)

LEMMA OnceInitially ==
  ASSUME Init PROVE OnceInv
<1>1. \A T : ~Has(<<>>, T) /\ OnlyOnce(<<>>, T)
  BY NothingInNothing
<1>2. Members(<<>>) = {}
  BY DEF Members
<1>3. WellFormed
  BY <1>2 DEF Init, WellFormed
<1>4. ASSUME NEW e \in Event PROVE EventInv(e)
  <2>1. OneSave(e) /\ OnePublish(e) /\ OneDue(e) /\ ToldLater(e) /\ NoDoubles(e)
    BY <1>1 DEF Init, OneSave, OnePublish, OneDue, ToldLater, NoDoubles, Saving, Publishing, Due, Told
  <2>2. StreamedOnce(e)
    <3>1. Log = Earlier /\ \A j \in Instance : ops[j] = <<>>
      BY DEF Init, Log
    <3>2. OnlyOnce(Log, {e})
      BY <3>1, EarlierAssumption DEF OnlyOnce
    <3>3. Has(Log, {e}) => call[e] # "new"
      BY <3>1 DEF Has, Init
    <3> QED BY <1>1, <3>1, <3>2, <3>3 DEF StreamedOnce
  <2> QED BY <2>1, <2>2 DEF EventInv
<1> QED BY <1>3, <1>4, KeptInitially DEF OnceInv

LEMMA StepsOnce ==
  ASSUME OnceInv, [Next]_vars PROVE OnceInv'
<1>1. KeptInv'
  BY StepsKeep DEF OnceInv
<1>2. ASSUME NEW c \in Conn,
             \/ \E i \in Instance : Connect(c, i)
             \/ Disconnect(c)
             \/ \E after \in Cursors : SubscribePage(c, after)
      PROVE  OnceInv'
  BY <1>1, <1>2, SocketsOnce
<1>3. ASSUME NEW e \in Event, NEW i \in Instance, Broadcast(e, i) PROVE OnceInv'
  BY <1>1, <1>3, BroadcastOnce
<1>4. ASSUME NEW i \in Instance, Gateway(i) PROVE OnceInv'
  BY <1>1, <1>4, ResumeSubscribeOnce, ResumeBroadcastOnce, ResumeHandlerOnce, HandleMessageOnce
     DEF Gateway
<1>5. ASSUME NEW i \in Instance, StoreExecutes(i) \/ StoreFails(i) PROVE OnceInv'
  BY <1>1, <1>5, StoreOnce
<1>6. ASSUME NEW i \in Instance, Publish(i) \/ PublishFails(i) PROVE OnceInv'
  BY <1>1, <1>6, PublishesOnce
<1>7. ASSUME NEW i \in Instance, Crash(i) PROVE OnceInv'
  BY <1>1, <1>7, CrashOnce
<1>8. CASE UNCHANGED vars
  <2>1. WellFormed'
    BY <1>8 DEF vars, OnceInv, WellFormed, Stream
  <2>2. ASSUME NEW e \in Event PROVE EventInv(e)'
    BY <1>8 DEF vars, OnceInv, EventInv, OneSave, OnePublish, OneDue, ToldLater, NoDoubles,
                StreamedOnce, Saving, Publishing, Due, Told, Log, Stream
  <2> QED BY <1>1, <2>1, <2>2 DEF OnceInv
<1> QED BY <1>2, <1>3, <1>4, <1>5, <1>6, <1>7, <1>8 DEF Next

\* No socket is told of an update twice, whatever instances broadcast, relay, crash or
\* lose their Redis, and the stream gives no update two replay ids.
THEOREM UpdatesAnnouncedOnce == Spec => []AnnouncedOnce
<1>1. Init => OnceInv
  BY OnceInitially
<1>2. OnceInv /\ [Next]_vars => OnceInv'
  BY StepsOnce
<1>3. OnceInv => AnnouncedOnce
  <2> SUFFICES ASSUME OnceInv PROVE AnnouncedOnce
    OBVIOUS
  <2>1. TypeOK /\ \A e \in Event : NoDoubles(e) /\ StreamedOnce(e)
    BY DEF OnceInv, KeptInv, EventInv
  <2>2. ASSUME NEW c \in Conn, NEW m \in DOMAIN shown[c], NEW n \in DOMAIN shown[c],
               shown[c][m].how = "live", shown[c][n].how = "live",
               shown[c][m].update.event = shown[c][n].update.event
        PROVE  m = n
    <3> DEFINE e == shown[c][m].update.event
    <3>1. /\ shown[c][m] \in [how : {"live", "replay"}, update : Update]
          /\ shown[c][n] \in [how : {"live", "replay"}, update : Update]
      <4>1. shown[c] \in Seq([how : {"live", "replay"}, update : Update])
        BY <2>1 DEF TypeOK
      <4>2. Members(shown[c]) \subseteq [how : {"live", "replay"}, update : Update]
        BY <4>1, MembersHaveType
      <4> QED BY <4>2 DEF Members
    <3>2. e \in Event /\ shown[c][m] \in Lives(e) /\ shown[c][n] \in Lives(e)
      BY <2>2, <3>1 DEF Lives, Update
    <3>3. OnlyOnce(shown[c], Lives(e))
      BY <2>1, <3>2 DEF NoDoubles
    <3> QED BY <3>2, <3>3 DEF OnlyOnce
  <2>3. ASSUME Stream, NEW m \in DOMAIN Log, NEW n \in DOMAIN Log, Log[m] = Log[n]
        PROVE  m = n
    <3>1. Log[m] \in Event
      BY <2>1 DEF TypeOK, Log
    <3>2. OnlyOnce(Log, {Log[m]})
      BY <2>1, <2>3, <3>1 DEF StreamedOnce
    <3> QED BY <2>3, <3>2 DEF OnlyOnce
  <2> QED BY <2>2, <2>3 DEF AnnouncedOnce
<1> QED BY <1>1, <1>2, <1>3, PTL DEF Spec

----------------------------------------------------------------------------
(* Between a replay and the live updates: the invariant behind NoGap.      *)

Connected == BusMode = "redis" \/ \A i, j \in Instance : i = j

LEMMA EveryoneHears ==
  ASSUME Connected, NEW i \in Instance, NEW j \in Instance
  PROVE  j \in Subscribers(i)
BY DEF Connected, Subscribers

Nth(n) == Stamp(Log[n], n)

\* Socket c has u, or will get it, or the broadcast of u fails.
Reaches(u, c) ==
  u \in ShownTo(c, {"live", "replay"}) \/ Coming(u, at[c]) \/ Failing(u.event)

\* What was saved after the replay was read at `head` reaches c.
ReachedFrom(c, head) ==
  head <= Len(Log) /\ \A n \in DOMAIN Log : n > head => Reaches(Nth(n), c)

\* A replay read at `head` with the cursor `after` has to hold the n-th update.
Owed(n, after, head) ==
  IF after = 0 THEN n = head ELSE n > after /\ n <= after + ReplayLimit /\ n <= head

\* The answer r holds all it has to, and nothing has slipped by since.
Answered(c, r) ==
  /\ ReachedFrom(c, r.head)
  /\ \A n \in DOMAIN Log : Owed(n, r.op.after, r.head) => Nth(n) \in Members(r.events)

\* So does a socket that was sent its replay.
Caught(c) ==
  /\ ReachedFrom(c, sub[c].head)
  /\ \A n \in DOMAIN Log :
       Owed(n, sub[c].after, sub[c].head) => Nth(n) \in ShownTo(c, {"live", "replay"})

\* The replay r was read for socket c.
ReplayFor(r, c) == r.op.kind = "read" /\ r.op.conn = c

InRoom(c) ==
  /\ at[c] \in Instance /\ sub[c].stage # "none"
  /\ \A r \in Members(replies[at[c]]) : ReplayFor(r, c) /\ r.ok => Answered(c, r)
  /\ sub[c].stage = "done" => Caught(c)

\* A socket asks for its replay when it subscribes, with the cursor it came with.
AsksOnce(c) ==
  /\ \A i \in Instance : \A op \in Members(ops[i]) :
       op.kind = "read" /\ op.conn = c => sub[c].stage # "none" /\ op.after = sub[c].after
  /\ \A i \in Instance : \A r \in Members(replies[i]) :
       ReplayFor(r, c) => sub[c].stage # "none" /\ r.op.after = sub[c].after

FailuresAreEmpty == \A i \in Instance : \A r \in Members(replies[i]) : ~r.ok => r.events = <<>>

GapInv == FailuresAreEmpty /\ \A c \in Conn : AsksOnce(c) /\ (c \in room => InRoom(c))

\* What holds before a step and what of it has been shown to hold after.
Premises == OnceInv /\ OnceInv' /\ GapInv /\ Stream /\ Connected

LEMMA PremisesGive ==
  ASSUME Premises
  PROVE  /\ TypeOK /\ TypeOK' /\ KeptInv /\ KeptInv' /\ WellFormed /\ SavesReturnOne
         /\ FailuresAreEmpty /\ \A e \in Event : EventInv(e) /\ EventInv(e)'
BY DEF Premises, OnceInv, KeptInv, GapInv

----------------------------------------------------------------------------
(* What is on its way arrives.                                             *)

LEMMA HeadOrTail ==
  ASSUME NEW S, NEW q \in Seq(S), q # <<>>
  PROVE  Members(q) = {Head(q)} \cup Members(Tail(q))
<1>1. /\ Tail(q) \in Seq(S) /\ Len(Tail(q)) = Len(q) - 1 /\ Len(q) > 0 /\ Len(q) \in Nat
      /\ \A n \in 1 .. Len(q) - 1 : Tail(q)[n] = q[n + 1]
      /\ Head(q) = q[1]
  OBVIOUS
<1>2. ASSUME NEW n \in 1 .. Len(q), n # 1 PROVE q[n] \in Members(Tail(q))
  <2>1. n - 1 \in 1 .. Len(q) - 1 /\ (n - 1) + 1 = n
    BY <1>1, <1>2
  <2>2. Tail(q)[n - 1] = q[n] /\ n - 1 \in DOMAIN Tail(q)
    BY <1>1, <2>1
  <2> QED BY <2>2 DEF Members
<1>3. Members(Tail(q)) \subseteq Members(q) /\ Head(q) \in Members(q)
  BY MembersOfTail
<1>4. Members(q) \subseteq {Head(q)} \cup Members(Tail(q))
  BY <1>1, <1>2 DEF Members
<1> QED BY <1>3, <1>4

\* Steps that take nothing away from where updates are on their way.
LEMMA ReachesBySteps ==
  ASSUME NEW c \in Conn, NEW u, Reaches(u, c), at'[c] = at[c], at[c] \in Instance,
         Members(shown[c]) \subseteq Members(shown'[c]),
         \A h \in Instance : \A r \in Members(replies[h]) :
           r.op.kind = "save" /\ (u \in Members(r.events) \/ (~r.ok /\ r.op.event = u.event)) =>
             r \in Members(replies'[h]) \/ Reaches(u, c)',
         \A h \in Instance \ {at[c]} : \A m \in Members(pubs[h]) :
           m.update = u => m \in Members(pubs'[h]) \/ Reaches(u, c)',
         \A m \in Members(inbox[at[c]]) :
           m.update = u /\ m.origin # at[c] => m \in Members(inbox'[at[c]]) \/ Reaches(u, c)',
         call[u.event] = "failed" => call'[u.event] = "failed" \/ Reaches(u, c)'
  PROVE  Reaches(u, c)'
<1> SUFFICES ASSUME ~Reaches(u, c)' PROVE FALSE
  OBVIOUS
<1>1. ~(u \in ShownTo(c, {"live", "replay"}))
  BY DEF Reaches, ShownTo
<1>2. ~Coming(u, at[c])
  BY DEF Reaches, Coming
<1>3. ~Failing(u.event)
  BY DEF Reaches, Failing
<1> QED BY <1>1, <1>2, <1>3 DEF Reaches

LEMMA TakenStays ==
  ASSUME TypeOK, NEW h \in Instance, NEW kind, Resume(h, kind)
  PROVE  \A j \in Instance : \A r \in Members(replies[j]) :
           r \in Members(replies'[j]) \/ (j = h /\ r = Head(replies[h]) /\ r.op.kind = kind)
<1>1. /\ replies \in [Instance -> Seq(Reply)] /\ replies[h] # <<>>
      /\ replies' = [replies EXCEPT ![h] = Tail(@)] /\ Head(replies[h]).op.kind = kind
  BY DEF TypeOK, Resume
<1>2. Members(replies[h]) = {Head(replies[h])} \cup Members(Tail(replies[h]))
  BY <1>1, HeadOrTail
<1> QED BY <1>1, <1>2

LEMMA EmitAdds ==
  ASSUME TypeOK, NEW i \in Instance, NEW u \in Update, EmitToTopic(i, u)
  PROVE  \A c \in Conn :
           /\ Members(shown[c]) \subseteq Members(shown'[c])
           /\ c \in room /\ at[c] = i => u \in ShownTo(c, {"live", "replay"})'
<1> DEFINE S == [how : {"live", "replay"}, update : Update]
           new == [how |-> "live", update |-> u]
<1>1. new \in S /\ new.update = u /\ new.how = "live"
  OBVIOUS
<1>2. \A c \in Conn : shown[c] \in Seq(S)
  BY DEF TypeOK
<1>3. \A c \in Conn : shown'[c] = IF c \in RoomAt(i) THEN Append(shown[c], new) ELSE shown[c]
  BY DEF EmitToTopic
<1> HIDE DEF S, new
<1>4. \A c \in Conn : Members(Append(shown[c], new)) = Members(shown[c]) \cup {new}
  BY <1>1, <1>2, MembersOfAppend
<1>5. ASSUME NEW c \in Conn, c \in room, at[c] = i PROVE u \in ShownTo(c, {"live", "replay"})'
  <2>1. new \in Members(shown'[c])
    BY <1>3, <1>4, <1>5 DEF RoomAt
  <2> QED BY <1>1, <2>1 DEF ShownTo
<1> QED BY <1>3, <1>4, <1>5

\* Steps of sockets, stores and handlers of other answers.
LEMMA QuietStep ==
  ASSUME TypeOK, NEW c \in Conn, NEW u, Reaches(u, c), at'[c] = at[c], at[c] \in Instance,
         UNCHANGED <<pubs, inbox>>, call[u.event] = "failed" => call'[u.event] = "failed",
         Members(shown[c]) \subseteq Members(shown'[c]),
         \A h \in Instance : \A r \in Members(replies[h]) :
           r.op.kind = "save" => r \in Members(replies'[h])
  PROVE  Reaches(u, c)'
BY ReachesBySteps

LEMMA AnswerStays ==
  ASSUME TypeOK, NEW i \in Instance, ops[i] # <<>>, NEW events \in Seq(Update),
         NEW ok \in BOOLEAN, NEW head \in Nat, Answer(i, events, ok, head)
  PROVE  /\ \A j \in Instance : Members(replies[j]) \subseteq Members(replies'[j])
         /\ [op |-> Head(ops[i]), ok |-> ok, events |-> events, head |-> head] \in Members(replies'[i])
<1> DEFINE new == [op |-> Head(ops[i]), ok |-> ok, events |-> events, head |-> head]
<1>1. replies \in [Instance -> Seq(Reply)] /\ replies' = [replies EXCEPT ![i] = Append(@, new)]
  BY DEF Answer, TypeOK
<1>2. new \in Reply
  BY AnswerIsTyped DEF Reply
<1> HIDE DEF new
<1>3. Members(Append(replies[i], new)) = Members(replies[i]) \cup {new}
  BY <1>1, <1>2, MembersOfAppend
<1> QED BY <1>1, <1>3 DEF new

\* The answer of a save: the room of its instance gets the update, the others will.
LEMMA ResumeBroadcastReaches ==
  ASSUME Premises, NEW i \in Instance, ResumeBroadcast(i), NEW c \in Conn, c \in room,
         at[c] \in Instance, NEW u \in Update, Reaches(u, c)
  PROVE  Reaches(u, c)'
<1> DEFINE r == Head(replies[i])
<1>1. /\ TypeOK /\ TypeOK' /\ KeptInv /\ WellFormed /\ SavesReturnOne /\ FailuresAreEmpty
      /\ \A e \in Event : EventInv(e)
  BY PremisesGive
<1>2. /\ Resume(i, "save") /\ replies[i] # <<>> /\ UNCHANGED <<saved, ops, inbox, at, room, sub>>
      /\ r \in Members(replies[i]) /\ r \in Reply /\ r.op.kind = "save" /\ r.op \in Operation
      /\ r.op.event \in Event /\ r.events \in Seq(Update)
  BY <1>1, MembersOfTail, OperationFields, TakenReply DEF ResumeBroadcast, Resume, TypeOK
<1>3. call[r.op.event] = "saving"
  <2>1. r \in SaveAnswers(r.op.event)
    BY <1>2 DEF SaveAnswers, Saves
  <2>2. Saving(r.op.event, i)
    BY <1>2, <2>1 DEF Saving, Has
  <2> QED BY <1>1, <1>2, <2>2 DEF EventInv, OneSave
<1>4. \A j \in Instance : \A x \in Members(replies[j]) :
        x \in Members(replies'[j]) \/ (j = i /\ x = r)
  BY <1>1, <1>2, TakenStays
<1>5. u.event \in Event
  BY DEF Update
<1>6. CASE r.ok
  <2> DEFINE m == [origin |-> i, update |-> r.events[1]]
  <2>1. /\ r.events[1] \in Update /\ Members(r.events) = {r.events[1]}
    <3>1. Len(r.events) = 1
      BY <1>1, <1>2, <1>6 DEF SavesReturnOne
    <3> QED BY <1>2, <3>1 DEF Members
  <2>2. /\ EmitToTopic(i, r.events[1]) /\ pubs' = [pubs EXCEPT ![i] = Append(@, m)]
        /\ call' = [call EXCEPT ![r.op.event] = "publishing"]
    BY <1>6 DEF ResumeBroadcast
  <2>3. /\ Members(shown[c]) \subseteq Members(shown'[c])
        /\ at[c] = i => r.events[1] \in ShownTo(c, {"live", "replay"})'
    BY <1>1, <2>1, <2>2, EmitAdds
  <2>4. \A j \in Instance : Members(pubs'[j]) = IF j = i THEN Members(pubs[j]) \cup {m}
                                                       ELSE Members(pubs[j])
    <3>1. pubs \in [Instance -> Seq(Message)] /\ m \in Message
      BY <1>1, <2>1 DEF TypeOK, Message
    <3> HIDE DEF m
    <3>2. Members(Append(pubs[i], m)) = Members(pubs[i]) \cup {m}
      BY <3>1, MembersOfAppend
    <3> QED BY <2>2, <3>1, <3>2
  <2>5. u = r.events[1] => Reaches(u, c)'
    <3>1. CASE at[c] = i
      BY <2>3, <3>1 DEF Reaches
    <3>2. CASE at[c] # i
      <4>1. u = r.events[1] => m \in Members(pubs'[i]) /\ m.update = u
        BY <2>4
      <4> QED BY <1>2, <3>2, <4>1 DEF Reaches, Coming
    <3> QED BY <3>1, <3>2
  <2>6. call[u.event] = "failed" => call'[u.event] = "failed"
    BY <1>1, <1>3, <1>5, <2>2 DEF TypeOK
  <2>7. \A h \in Instance : \A x \in Members(replies[h]) :
          x.op.kind = "save" /\ (u \in Members(x.events) \/ (~x.ok /\ x.op.event = u.event)) =>
            x \in Members(replies'[h]) \/ Reaches(u, c)'
    BY <1>4, <1>6, <2>1, <2>5
  <2> QED BY <1>2, <2>3, <2>4, <2>6, <2>7, ReachesBySteps
<1>7. CASE ~r.ok
  <2>1. call' = [call EXCEPT ![r.op.event] = "failed"] /\ UNCHANGED <<shown, pubs>>
    BY <1>7 DEF ResumeBroadcast
  <2>2. r.op.event = u.event => Reaches(u, c)'
    BY <1>1, <1>2, <2>1 DEF Reaches, Failing, TypeOK
  <2>3. ~(u \in Members(r.events))
    BY <1>1, <1>2, <1>7 DEF FailuresAreEmpty, Members
  <2>4. call[u.event] = "failed" => call'[u.event] = "failed"
    BY <1>1, <1>5, <2>1 DEF TypeOK
  <2>5. \A h \in Instance : \A x \in Members(replies[h]) :
          x.op.kind = "save" /\ (u \in Members(x.events) \/ (~x.ok /\ x.op.event = u.event)) =>
            x \in Members(replies'[h]) \/ Reaches(u, c)'
    BY <1>4, <2>2, <2>3
  <2> QED BY <1>2, <2>1, <2>4, <2>5, ReachesBySteps
<1> QED BY <1>6, <1>7

\* A message taken by the bus is in the inbox of every other instance, or its
\* broadcast fails.
LEMMA PublishReaches ==
  ASSUME Premises, NEW i \in Instance, Publish(i) \/ PublishFails(i), NEW c \in Conn,
         at[c] \in Instance, NEW u \in Update, Reaches(u, c)
  PROVE  Reaches(u, c)'
<1> DEFINE m == Head(pubs[i])
<1>1. /\ TypeOK /\ TypeOK' /\ KeptInv /\ WellFormed
      /\ \A e \in Event : EventInv(e)
  BY PremisesGive
<1>2. /\ pubs \in [Instance -> Seq(Message)] /\ pubs[i] # <<>>
      /\ pubs' = [pubs EXCEPT ![i] = Tail(@)]
      /\ UNCHANGED <<saved, ops, replies, at, room, sub, shown>>
  BY <1>1 DEF Publish, PublishFails, TypeOK
<1>3. m \in Members(pubs[i]) /\ m \in Message /\ m.update.event \in Event /\ m.origin = i
  <2>1. m \in Members(pubs[i]) /\ m \in Message
    BY <1>2, MembersOfTail
  <2> QED BY <1>1, <2>1 DEF WellFormed, Message, Update
<1>4. Members(pubs[i]) = {m} \cup Members(Tail(pubs[i]))
  BY <1>2, HeadOrTail
<1>5. call[m.update.event] = "publishing"
  <2>1. m \in Announcements(m.update.event)
    BY <1>3 DEF Announcements
  <2>2. Publishing(m.update.event, i)
    BY <1>3, <2>1 DEF Publishing, Has
  <2> QED BY <1>1, <1>3, <2>2 DEF EventInv, OnePublish
<1>6. u.event \in Event
  BY DEF Update
<1>7. Deliver(i, m) \/ UNCHANGED inbox
  BY DEF Publish, PublishFails
<1>8. Members(inbox[at[c]]) \subseteq Members(inbox'[at[c]])
      /\ (Deliver(i, m) => m \in Members(inbox'[at[c]]))
  <2>1. inbox[at[c]] \in Seq(Message)
    BY <1>1 DEF TypeOK
  <2> HIDE DEF m
  <2>2. Members(Append(inbox[at[c]], m)) = Members(inbox[at[c]]) \cup {m}
    BY <1>3, <2>1, MembersOfAppend
  <2>3. Deliver(i, m) => inbox'[at[c]] = Append(inbox[at[c]], m)
    BY EveryoneHears DEF Deliver, Premises
  <2> QED BY <1>7, <2>2, <2>3
<1>9. i # at[c] /\ m.update = u => Reaches(u, c)'
  <2>1. SUFFICES ASSUME i # at[c], m.update = u PROVE Reaches(u, c)'
    OBVIOUS
  <2>2. CASE Deliver(i, m)
    <3>1. Coming(u, at[c])'
      BY <1>2, <1>3, <1>8, <2>1, <2>2 DEF Coming
    <3> QED BY <3>1 DEF Reaches
  <2>3. CASE ~Deliver(i, m)
    <3>1. call'[m.update.event] = "failed"
      BY <1>1, <1>3, <2>3 DEF Publish, PublishFails, TypeOK
    <3> QED BY <2>1, <3>1 DEF Reaches, Failing
  <2> QED BY <2>2, <2>3
<1>10. call[u.event] = "failed" => call'[u.event] = "failed"
  BY <1>1, <1>3, <1>5, <1>6 DEF Publish, PublishFails, TypeOK
<1>11. \A h \in Instance \ {at[c]} : \A x \in Members(pubs[h]) :
         x.update = u => x \in Members(pubs'[h]) \/ Reaches(u, c)'
  BY <1>2, <1>4, <1>9
<1> QED BY <1>2, <1>8, <1>10, <1>11, ReachesBySteps

\* A message that is handled is emitted, unless it is the instance's own.
LEMMA HandleMessageReaches ==
  ASSUME Premises, NEW i \in Instance, HandleMessage(i), NEW c \in Conn, c \in room,
         at[c] \in Instance, NEW u \in Update, Reaches(u, c)
  PROVE  Reaches(u, c)'
<1> DEFINE m == Head(inbox[i])
<1>1. TypeOK /\ WellFormed
  BY PremisesGive
<1>2. /\ inbox \in [Instance -> Seq(Message)] /\ inbox[i] # <<>>
      /\ inbox' = [inbox EXCEPT ![i] = Tail(@)]
      /\ UNCHANGED <<saved, call, replies, pubs, at, room, sub>>
  BY <1>1 DEF HandleMessage, TypeOK
<1>3. m \in Members(inbox[i]) /\ m \in Message /\ m.update \in Update /\ m.update.id # 0
  <2>1. m \in Members(inbox[i]) /\ m \in Message
    BY <1>2, MembersOfTail
  <2> QED BY <1>1, <2>1 DEF WellFormed, Message, Premises
<1>4. Members(inbox[i]) = {m} \cup Members(Tail(inbox[i]))
  BY <1>2, HeadOrTail
<1>5. m.origin # i => EmitToTopic(i, m.update)
  BY <1>3 DEF HandleMessage
<1>6. UNCHANGED shown \/ EmitToTopic(i, m.update)
  BY DEF HandleMessage
<1>7. Members(shown[c]) \subseteq Members(shown'[c])
  BY <1>1, <1>3, <1>6, EmitAdds
<1>8. i = at[c] /\ m.origin # i /\ m.update = u => Reaches(u, c)'
  BY <1>1, <1>3, <1>5, EmitAdds DEF Reaches
<1>9. \A x \in Members(inbox[at[c]]) :
        x.update = u /\ x.origin # at[c] => x \in Members(inbox'[at[c]]) \/ Reaches(u, c)'
  BY <1>2, <1>4, <1>8
<1> QED BY <1>2, <1>7, <1>9, ReachesBySteps

\* With an instance its own sockets are gone; the broadcasts it had not finished fail.
LEMMA CrashReaches ==
  ASSUME Premises, NEW i \in Instance, Crash(i), NEW c \in Conn,
         at[c] \in Instance, at[c] # i, NEW u \in Update, Reaches(u, c)
  PROVE  Reaches(u, c)'
<1>1. /\ TypeOK /\ WellFormed /\ FailuresAreEmpty /\ SavesReturnOne
  BY PremisesGive
<1>2. /\ replies' = [replies EXCEPT ![i] = <<>>] /\ pubs' = [pubs EXCEPT ![i] = <<>>]
      /\ inbox' = [inbox EXCEPT ![i] = <<>>] /\ UNCHANGED shown /\ at'[c] = at[c]
  BY DEF Crash
<1>3. u.event \in Event
  BY DEF Update
<1>4. \A e \in Event : call'[e] = "failed" \/ call'[e] = call[e]
  BY DEF Crash
<1>5. ASSUME NEW r \in Members(replies[i]), r.op.kind = "save",
             u \in Members(r.events) \/ r.op.event = u.event
      PROVE  call'[u.event] = "failed"
  <2>1. r.op.event = u.event
    <3>1. CASE u \in Members(r.events)
      <4>1. replies[i] \in Seq(Reply)
        BY <1>1 DEF TypeOK
      <4>2. r \in Reply
        BY <4>1, MembersHaveType
      <4>3. r.events \in Seq(Update)
        BY <4>2 DEF Reply
      <4>4. r.ok
        BY <1>1, <3>1 DEF FailuresAreEmpty, Members
      <4>5. Len(r.events) = 1 /\ r.events[1].event = r.op.event
        BY <1>1, <1>5, <4>4 DEF SavesReturnOne, WellFormed
      <4> QED BY <3>1, <4>3, <4>5 DEF Members
    <3> QED BY <1>5, <3>1
  <2>2. r.op \in {replies[i][n].op : n \in DOMAIN replies[i]}
    BY DEF Members
  <2> QED BY <1>3, <1>5, <2>1, <2>2 DEF Crash
<1>6. ASSUME NEW m \in Members(pubs[i]), m.update = u PROVE call'[u.event] = "failed"
  <2>1. u.event \in {pubs[i][n].update.event : n \in DOMAIN pubs[i]}
    BY <1>6 DEF Members
  <2> QED BY <1>3, <2>1 DEF Crash
<1>7. call'[u.event] = "failed" => Reaches(u, c)'
  BY DEF Reaches, Failing
<1>8. \A h \in Instance : \A r \in Members(replies[h]) :
        r.op.kind = "save" /\ (u \in Members(r.events) \/ (~r.ok /\ r.op.event = u.event)) =>
          r \in Members(replies'[h]) \/ Reaches(u, c)'
  BY <1>1, <1>2, <1>5, <1>7 DEF TypeOK
<1>9. \A h \in Instance \ {at[c]} : \A m \in Members(pubs[h]) :
        m.update = u => m \in Members(pubs'[h]) \/ Reaches(u, c)'
  BY <1>1, <1>2, <1>6, <1>7 DEF TypeOK
<1>10. inbox'[at[c]] = inbox[at[c]]
  BY <1>1, <1>2 DEF TypeOK
<1> QED BY <1>2, <1>3, <1>4, <1>8, <1>9, <1>10, ReachesBySteps

----------------------------------------------------------------------------
(* A step keeps what it does not touch.                                    *)

\* What the stream hands back for a cursor.
LEMMA ReadHasOwed ==
  ASSUME Stream, NEW log \in Seq(Event), NEW after \in Nat,
         NEW n \in 1 .. Len(log), Owed(n, after, Len(log))
  PROVE  Stamp(log[n], n) \in Members(Read(log, after))
<1> DEFINE Smaller(x, y) == IF x < y THEN x ELSE y
           from == IF after = 0 THEN Len(log) - 1 ELSE after
           upto == IF after = 0 THEN Smaller(1, Len(log))
                   ELSE IF Stream THEN Smaller(ReplayLimit, Len(log) - from) ELSE 0
           result == [k \in 1 .. upto |-> Stamp(log[from + k], from + k)]
<1>1. Len(log) \in Nat /\ ReplayLimit \in Nat /\ n \in Nat
  BY LimitAssumption
<1>2. Read(log, after) = result
  BY DEF Read
<1>3. n - from \in 1 .. upto /\ from + (n - from) = n
  BY <1>1 DEF Owed
<1> HIDE DEF from, upto
<1>4. result[n - from] = Stamp(log[n], n) /\ n - from \in DOMAIN result
  BY <1>3
<1> QED BY <1>2, <1>4 DEF Members

LEMMA LogGrows ==
  ASSUME TypeOK, TypeOK', Grows
  PROVE  /\ Log \in Seq(Event) /\ Log' \in Seq(Event) /\ Len(Log) \in Nat /\ Len(Log') \in Nat
         /\ Len(Log) <= Len(Log') /\ DOMAIN Log = 1 .. Len(Log) /\ DOMAIN Log' = 1 .. Len(Log')
         /\ \A n \in DOMAIN Log : Nth(n)' = Nth(n) /\ Nth(n) \in Update
<1>1. /\ Log \in Seq(Event) /\ Log' \in Seq(Event) /\ Len(Log) \in Nat /\ Len(Log') \in Nat
      /\ DOMAIN Log = 1 .. Len(Log) /\ DOMAIN Log' = 1 .. Len(Log')
  BY DEF TypeOK, Log
<1>2. \A n \in DOMAIN Log : n \in DOMAIN Log' /\ Log'[n] = Log[n]
  BY DEF Grows
<1>3. Len(Log) <= Len(Log')
  BY <1>1, <1>2
<1>4. \A n \in DOMAIN Log : Nth(n)' = Nth(n)
  BY <1>2 DEF Nth, Stamp, Stream
<1>5. \A n \in DOMAIN Log : Nth(n) \in Update
  BY <1>1, StampIsUpdate DEF Nth
<1> QED BY <1>1, <1>3, <1>4, <1>5

LEMMA RoomStays ==
  ASSUME TypeOK, TypeOK', Grows, NEW c \in Conn, InRoom(c), at'[c] = at[c],
         Members(shown[c]) \subseteq Members(shown'[c]),
         \A u \in Update : Reaches(u, c) => Reaches(u, c)',
         \A n \in DOMAIN Log' : n > Len(Log) => Reaches(Nth(n), c)',
         \A r \in Members(replies'[at[c]]) :
           ReplayFor(r, c) /\ r.ok => r \in Members(replies[at[c]]) \/ Answered(c, r)',
         sub'[c].stage # "none",
         sub'[c].stage = "done" => sub'[c] = sub[c] \/ Caught(c)'
  PROVE  InRoom(c)'
<1>1. /\ Len(Log) \in Nat /\ Len(Log') \in Nat /\ Len(Log) <= Len(Log')
      /\ DOMAIN Log = 1 .. Len(Log) /\ DOMAIN Log' = 1 .. Len(Log')
      /\ \A n \in DOMAIN Log : Nth(n)' = Nth(n) /\ Nth(n) \in Update
  BY LogGrows
<1>2. ASSUME NEW head \in Nat, ReachedFrom(c, head) PROVE ReachedFrom(c, head)'
  <2>1. head <= Len(Log')
    BY <1>1, <1>2 DEF ReachedFrom
  <2>2. ASSUME NEW n \in DOMAIN Log', n > head PROVE Reaches(Nth(n), c)'
    <3>1. CASE n > Len(Log)
      BY <3>1
    <3>2. CASE n <= Len(Log)
      <4>1. n \in DOMAIN Log
        BY <1>1, <3>2
      <4>2. Reaches(Nth(n), c)
        BY <1>2, <2>2, <4>1 DEF ReachedFrom
      <4>3. \A u : u = Nth(n) => (u \in Update /\ (Reaches(u, c) => Reaches(u, c)'))
        BY <1>1, <4>1
      <4>4. \A u : u = Nth(n)' /\ Reaches(u, c)' => Reaches(Nth(n), c)'
        BY DEF Reaches, ShownTo, Coming, Failing
      <4> QED BY <1>1, <4>1, <4>2, <4>3, <4>4
    <3> QED BY <1>1, <3>1, <3>2
  <2> QED BY <2>1, <2>2 DEF ReachedFrom
<1>3. ASSUME NEW n \in DOMAIN Log', NEW after \in Nat, NEW head \in Nat, head <= Len(Log),
             Owed(n, after, head)
      PROVE  n \in DOMAIN Log
  BY <1>1, <1>3 DEF Owed
<1>4. ASSUME NEW r \in Members(replies[at[c]]), r \in Reply, ReplayFor(r, c), r.ok
      PROVE  Answered(c, r)'
  <2>1. Answered(c, r) /\ r.head \in Nat /\ r.op.after \in Nat
    BY <1>4 DEF InRoom, Reply, Operation, ReplayFor
  <2>2. ReachedFrom(c, r.head)'
    BY <1>2, <2>1 DEF Answered
  <2>3. r.head <= Len(Log)
    BY <2>1 DEF Answered, ReachedFrom
  <2>4. \A n \in DOMAIN Log' : Owed(n, r.op.after, r.head) => Nth(n)' \in Members(r.events)
    BY <1>1, <1>3, <2>1, <2>3 DEF Answered
  <2> QED BY <2>2, <2>4 DEF Answered
<1>5. at[c] \in Instance /\ replies[at[c]] \in Seq(Reply)
  BY DEF InRoom, TypeOK
<1>6. \A r \in Members(replies'[at[c]]) : ReplayFor(r, c) /\ r.ok => Answered(c, r)'
  BY <1>4, <1>5, MembersHaveType
<1>7. ASSUME sub'[c].stage = "done", sub'[c] = sub[c] PROVE Caught(c)'
  <2>1. Caught(c) /\ sub[c].head \in Nat /\ sub[c].after \in Nat
    BY <1>7 DEF InRoom, TypeOK
  <2>2. ReachedFrom(c, sub[c].head)'
    <3>1. \A head \in Nat : ReachedFrom(c, head) => ReachedFrom(c, head)'
      BY <1>2
    <3>2. ReachedFrom(c, sub[c].head)
      BY <2>1 DEF Caught
    <3>3. \A head : head = sub[c].head /\ ReachedFrom(c, head)' => ReachedFrom(c, sub[c].head)'
      BY <1>7 DEF ReachedFrom
    <3> QED BY <2>1, <3>1, <3>2, <3>3
  <2>3. sub[c].head <= Len(Log)
    BY <2>1 DEF Caught, ReachedFrom
  <2>4. \A u : u \in ShownTo(c, {"live", "replay"}) => u \in ShownTo(c, {"live", "replay"})'
    BY DEF ShownTo
  <2>5. \A n \in DOMAIN Log' : Owed(n, sub[c].after, sub[c].head) =>
          Nth(n)' \in ShownTo(c, {"live", "replay"})'
    BY <1>1, <1>3, <2>1, <2>3, <2>4 DEF Caught
  <2> QED BY <1>7, <2>2, <2>5 DEF Caught
<1> QED BY <1>5, <1>6, <1>7 DEF InRoom

LEMMA AsksStay ==
  ASSUME NEW c \in Conn, AsksOnce(c), sub'[c].after = sub[c].after,
         sub[c].stage # "none" => sub'[c].stage # "none",
         \A i \in Instance : \A op \in Members(ops'[i]) :
           op.kind = "read" /\ op.conn = c => op \in Members(ops[i]),
         \A i \in Instance : \A r \in Members(replies'[i]) :
           ReplayFor(r, c) => r \in Members(replies[i]) \/ r.op \in Members(ops[i])
  PROVE  AsksOnce(c)'
BY DEF AsksOnce, ReplayFor

\* Steps that leave sockets and subscriptions alone and bring no answer.
LEMMA GapByQuietSteps ==
  ASSUME Premises, UNCHANGED <<saved, at, room, sub>>,
         \A c \in Conn : Members(shown[c]) \subseteq Members(shown'[c]),
         \A c \in room : \A u \in Update :
           at[c] \in Instance /\ Reaches(u, c) => Reaches(u, c)',
         \A i \in Instance : Members(replies'[i]) \subseteq Members(replies[i]),
         \A i \in Instance : \A op \in Members(ops'[i]) :
           op.kind = "read" => op \in Members(ops[i])
  PROVE  GapInv'
<1>1. TypeOK /\ TypeOK' /\ Grows /\ Log' = Log /\ room \subseteq Conn /\ Len(Log) \in Nat
      /\ DOMAIN Log = 1 .. Len(Log)
  <2>1. TypeOK /\ TypeOK' /\ Log' = Log
    BY PremisesGive DEF Log
  <2>2. Log \in Seq(Event) /\ room \subseteq Conn
    BY <2>1 DEF TypeOK, Log
  <2> QED BY <2>1, <2>2 DEF Grows
<1>2. FailuresAreEmpty'
  BY DEF FailuresAreEmpty, Premises, GapInv
<1>3. \A c \in Conn : AsksOnce(c)'
  <2> SUFFICES ASSUME NEW c \in Conn PROVE AsksOnce(c)'
    OBVIOUS
  <2>1. AsksOnce(c)
    BY DEF Premises, GapInv
  <2> QED BY <2>1, AsksStay
<1>4. ASSUME NEW c \in Conn, c \in room PROVE InRoom(c)'
  <2>1. InRoom(c)
    BY <1>4 DEF Premises, GapInv
  <2>2. at[c] \in Instance /\ sub[c].stage # "none"
    BY <2>1 DEF InRoom
  <2>3. \A n \in DOMAIN Log' : ~(n > Len(Log))
    BY <1>1
  <2> QED BY <1>1, <1>4, <2>1, <2>2, <2>3, RoomStays
<1> QED BY <1>2, <1>3, <1>4 DEF GapInv

----------------------------------------------------------------------------
(* The steps.                                                              *)

LEMMA BroadcastGap ==
  ASSUME Premises, NEW e \in Event, NEW i \in Instance, Broadcast(e, i)
  PROVE  GapInv'
<1> DEFINE op == [kind |-> "save", event |-> e]
<1>1. TypeOK /\ UNCHANGED <<saved, replies, pubs, inbox, at, room, sub, shown>>
      /\ call[e] = "new" /\ call' = [call EXCEPT ![e] = "saving"] /\ Ask(i, op)
  BY PremisesGive DEF Broadcast
<1>2. \A j \in Instance : \A x \in Members(ops'[j]) : x \in Members(ops[j]) \/ x = op
  <2>1. op \in Operation /\ ops \in [Instance -> Seq(Operation)]
    BY <1>1 DEF Operation, TypeOK
  <2>2. ops' = [ops EXCEPT ![i] = Append(@, op)]
    BY <1>1 DEF Ask
  <2> HIDE DEF op
  <2>3. Members(Append(ops[i], op)) = Members(ops[i]) \cup {op}
    BY <2>1, MembersOfAppend
  <2> QED BY <2>1, <2>2, <2>3
<1>3. \A x : x = op => x.kind # "read"
  OBVIOUS
<1>4. \A u \in Update : call[u.event] = "failed" => call'[u.event] = "failed"
  BY <1>1 DEF TypeOK
<1>5. \A c \in room : \A u \in Update :
        at[c] \in Instance /\ Reaches(u, c) => Reaches(u, c)'
  <2> SUFFICES ASSUME NEW c \in Conn, NEW u \in Update, at[c] \in Instance, Reaches(u, c)
               PROVE  Reaches(u, c)'
    BY <1>1 DEF TypeOK
  <2> QED BY <1>1, <1>4, QuietStep
<1> QED BY <1>1, <1>2, <1>3, <1>5, GapByQuietSteps

LEMMA ResumeBroadcastGap ==
  ASSUME Premises, NEW i \in Instance, ResumeBroadcast(i)
  PROVE  GapInv'
<1>1. TypeOK /\ KeptInv /\ room \subseteq Conn /\ UNCHANGED <<saved, ops, inbox, at, room, sub>>
      /\ Resume(i, "save")
  BY PremisesGive DEF ResumeBroadcast, TypeOK
<1>2. \A j \in Instance : Members(replies'[j]) \subseteq Members(replies[j])
  BY <1>1, TakenReply
<1>3. \A c \in Conn : Members(shown[c]) \subseteq Members(shown'[c])
  <2>1. UNCHANGED shown \/ (Head(replies[i]).ok /\ EmitToTopic(i, Head(replies[i]).events[1]))
    BY DEF ResumeBroadcast
  <2>2. Head(replies[i]).ok => Head(replies[i]).events[1] \in Update
    BY <1>1, TakenReply
  <2> QED BY <1>1, <2>1, <2>2, EmitAdds
<1>4. \A c \in room : \A u \in Update :
        at[c] \in Instance /\ Reaches(u, c) => Reaches(u, c)'
  BY <1>1, ResumeBroadcastReaches
<1> QED BY <1>1, <1>2, <1>3, <1>4, GapByQuietSteps

LEMMA ResumeHandlerGap ==
  ASSUME Premises, NEW i \in Instance, ResumeHandler(i)
  PROVE  GapInv'
<1>1. TypeOK /\ KeptInv /\ room \subseteq Conn
      /\ UNCHANGED <<saved, call, ops, pubs, inbox, at, room, sub>> /\ Resume(i, "resave")
  BY PremisesGive DEF ResumeHandler, TypeOK
<1>2. \A j \in Instance : Members(replies'[j]) \subseteq Members(replies[j])
  BY <1>1, TakenReply
<1>3. \A c \in Conn : Members(shown[c]) \subseteq Members(shown'[c])
  <2>1. UNCHANGED shown \/ (Head(replies[i]).ok /\ EmitToTopic(i, Head(replies[i]).events[1]))
    BY DEF ResumeHandler
  <2>2. Head(replies[i]).ok => Head(replies[i]).events[1] \in Update
    BY <1>1, TakenReply
  <2> QED BY <1>1, <2>1, <2>2, EmitAdds
<1>4. \A h \in Instance : \A r \in Members(replies[h]) :
        r.op.kind = "save" => r \in Members(replies'[h])
  BY <1>1, TakenStays
<1>5. \A c \in room : \A u \in Update :
        at[c] \in Instance /\ Reaches(u, c) => Reaches(u, c)'
  <2> SUFFICES ASSUME NEW c \in Conn, NEW u \in Update, at[c] \in Instance, Reaches(u, c)
               PROVE  Reaches(u, c)'
    BY <1>1
  <2> QED BY <1>1, <1>3, <1>4, QuietStep
<1> QED BY <1>1, <1>2, <1>3, <1>5, GapByQuietSteps

LEMMA PublishGap ==
  ASSUME Premises, NEW i \in Instance, Publish(i) \/ PublishFails(i)
  PROVE  GapInv'
<1>1. TypeOK /\ room \subseteq Conn /\ UNCHANGED <<saved, ops, replies, at, room, sub, shown>>
  BY PremisesGive DEF Publish, PublishFails, TypeOK
<1>2. \A c \in room : \A u \in Update :
        at[c] \in Instance /\ Reaches(u, c) => Reaches(u, c)'
  BY <1>1, PublishReaches
<1> QED BY <1>1, <1>2, GapByQuietSteps

LEMMA HandleMessageGap ==
  ASSUME Premises, NEW i \in Instance, HandleMessage(i)
  PROVE  GapInv'
<1> DEFINE m == Head(inbox[i])
           op == [kind |-> "resave", event |-> m.update.event]
<1>1. TypeOK /\ room \subseteq Conn /\ UNCHANGED <<saved, call, replies, pubs, at, room, sub>>
      /\ inbox[i] # <<>>
  BY PremisesGive DEF HandleMessage, TypeOK
<1>2. m \in Message /\ m.update \in Update /\ op \in Operation
  <2>1. m \in Message
    BY <1>1, MembersOfTail DEF TypeOK
  <2> QED BY <2>1 DEF Message, Update, Operation
<1>3. \A c \in Conn : Members(shown[c]) \subseteq Members(shown'[c])
  <2>1. UNCHANGED shown \/ EmitToTopic(i, m.update)
    BY DEF HandleMessage
  <2> QED BY <1>1, <1>2, <2>1, EmitAdds
<1>4. \A j \in Instance : \A x \in Members(ops'[j]) : x \in Members(ops[j]) \/ x = op
  <2>1. UNCHANGED ops \/ ops' = [ops EXCEPT ![i] = Append(@, op)]
    BY DEF HandleMessage, Ask
  <2>2. ops \in [Instance -> Seq(Operation)]
    BY <1>1 DEF TypeOK
  <2> HIDE DEF op
  <2>3. ops' = [ops EXCEPT ![i] = Append(@, op)] =>
          \A j \in Instance : Members(ops'[j]) \subseteq Members(ops[j]) \cup {op}
    BY <1>2, <2>2, QueuesPush
  <2> QED BY <2>1, <2>3
<1>5. \A x : x = op => x.kind # "read"
  OBVIOUS
<1>6. \A c \in room : \A u \in Update :
        at[c] \in Instance /\ Reaches(u, c) => Reaches(u, c)'
  BY <1>1, HandleMessageReaches
<1> HIDE DEF op
<1> QED BY <1>1, <1>3, <1>4, <1>5, <1>6, GapByQuietSteps

\* The store answers: enough if the answer holds what it owes, and what has been saved
\* is on its way.
LEMMA AnswerGap ==
  ASSUME Premises, NEW i \in Instance, ops[i] # <<>>, NEW events \in Seq(Update),
         NEW ok \in BOOLEAN, NEW head \in Nat, Answer(i, events, ok, head), Grows,
         UNCHANGED <<call, pubs, inbox, at, room, sub, shown>>, ~ok => events = <<>>,
         NEW new, new = [op |-> Head(ops[i]), ok |-> ok, events |-> events, head |-> head],
         \A c \in Conn : ReplayFor(new, c) /\ ok => Answered(c, new)',
         \A c \in Conn : at[c] \in Instance =>
           \A n \in DOMAIN Log' : n > Len(Log) => Reaches(Nth(n), c)'
  PROVE  GapInv'
<1>1. TypeOK /\ TypeOK' /\ FailuresAreEmpty /\ room \subseteq Conn
  BY PremisesGive DEF TypeOK
<1>2. /\ \A j \in Instance : Members(replies[j]) \subseteq Members(replies'[j])
      /\ \A j \in Instance : \A r \in Members(replies'[j]) : r \in Members(replies[j]) \/ r = new
      /\ Head(ops[i]) \in Members(ops[i])
      /\ \A j \in Instance : Members(ops'[j]) \subseteq Members(ops[j])
  <2>1. ops' = [ops EXCEPT ![i] = Tail(@)]
    BY DEF Answer
  <2>2. ops \in [Instance -> Seq(Operation)]
    BY <1>1 DEF TypeOK
  <2>3. /\ Head(ops[i]) \in Members(ops[i])
        /\ Members(Tail(ops[i])) \subseteq Members(ops[i])
    BY <2>2, MembersOfTail
  <2>4. \A j \in Instance : Members(replies[j]) \subseteq Members(replies'[j])
    BY <1>1, AnswerStays
  <2>5. \A j \in Instance : \A r \in Members(replies'[j]) : r \in Members(replies[j]) \/ r = new
    BY <1>1, AnswerIsTyped
  <2> QED BY <2>1, <2>2, <2>3, <2>4, <2>5
<1>3. FailuresAreEmpty'
  BY <1>1, <1>2 DEF FailuresAreEmpty
<1>4. \A c \in Conn : AsksOnce(c)'
  <2> SUFFICES ASSUME NEW c \in Conn PROVE AsksOnce(c)'
    OBVIOUS
  <2>1. AsksOnce(c)
    BY DEF Premises, GapInv
  <2>0. new.op = Head(ops[i])
    OBVIOUS
  <2>4. \A j \in Instance : \A op \in Members(ops'[j]) : op \in Members(ops[j])
    BY <1>2
  <2>2. \A j \in Instance : \A r \in Members(replies'[j]) :
          r \in Members(replies[j]) \/ r.op = Head(ops[i])
    BY <1>2, <2>0
  <2>3. \A op \in Members(ops[i]) :
          op.kind = "read" /\ op.conn = c => sub[c].stage # "none" /\ op.after = sub[c].after
    BY <2>1 DEF AsksOnce
  <2> QED BY <1>2, <2>1, <2>2, <2>3, <2>4 DEF AsksOnce, ReplayFor
<1>5. ASSUME NEW c \in Conn, c \in room PROVE InRoom(c)'
  <2>1. InRoom(c)
    BY <1>5 DEF Premises, GapInv
  <2>2. at[c] \in Instance /\ sub[c].stage # "none"
    BY <2>1 DEF InRoom
  <2>3. \A u \in Update : Reaches(u, c) => Reaches(u, c)'
    BY <1>1, <1>2, <2>2, QuietStep
  <2>4. \A n \in DOMAIN Log' : n > Len(Log) => Reaches(Nth(n), c)'
    BY <2>2
  <2>5. \A r \in Members(replies'[at[c]]) :
          ReplayFor(r, c) /\ r.ok => r \in Members(replies[at[c]]) \/ Answered(c, r)'
    BY <1>2, <2>2
  <2> QED BY <1>1, <2>1, <2>2, <2>3, <2>4, <2>5, RoomStays
<1> QED BY <1>1, <1>3, <1>4, <1>5 DEF GapInv

\* What is said of the last entry of a log that has grown by one.
LEMMA OnlyTheLast ==
  ASSUME TypeOK, NEW e \in Event, saved' = [saved EXCEPT ![Shared] = Append(@, e)]
  PROVE  /\ Log' = Append(Log, e) /\ Len(Log) \in Nat
         /\ \A n \in DOMAIN Log' : n > Len(Log) => n = Len(Log) + 1 /\ Log'[n] = e
<1>1. Log \in Seq(Event) /\ Log' = Append(Log, e)
  BY DEF TypeOK, Log
<1> QED BY <1>1

LEMMA StreamIsShared == ASSUME Stream, NEW i PROVE StoreOf(i) = Shared /\ StoreMode # "memory"
BY DEF Stream, StoreOf

LEMMA NoResaves ==
  ASSUME Premises, NEW i \in Instance, NEW op \in Members(ops[i]), op.kind # "read"
  PROVE  op.kind = "save" /\ op.event \in Event
<1>1. TypeOK /\ \A e \in Event : StreamedOnce(e)
  BY PremisesGive DEF EventInv
<1>2. op \in Operation
  BY <1>1, MembersHaveType DEF TypeOK
<1>3. op.kind \in {"save", "resave"} /\ op.event \in Event
  BY <1>2, OperationFields
<1>4. op.kind # "resave"
  <2>1. ~Has(ops[i], Resaves(op.event))
    BY <1>1, <1>3 DEF StreamedOnce, Premises
  <2> QED BY <1>2, <2>1 DEF Has, Resaves
<1> QED BY <1>3, <1>4

LEMMA StoreExecutesGap ==
  ASSUME Premises, NEW i \in Instance, StoreExecutes(i)
  PROVE  GapInv'
<1> PICK op : op = Head(ops[i])
  OBVIOUS
<1>1. /\ TypeOK /\ TypeOK' /\ Stream /\ ops[i] # <<>>
      /\ UNCHANGED <<call, pubs, inbox, at, room, sub, shown>>
  BY PremisesGive DEF StoreExecutes, Premises
<1>2. op \in Operation /\ op \in Members(ops[i])
  BY <1>1, MembersOfTail DEF TypeOK
<1>3. Log \in Seq(Event) /\ Len(Log) \in Nat /\ saved[StoreOf(i)] = Log
  BY <1>1, StreamIsShared DEF TypeOK, Log
<1>4. CASE op.kind = "read"
  <2> PICK events : events = Read(Log, op.after)
    OBVIOUS
  <2> PICK new : new = [op |-> op, ok |-> TRUE, events |-> events, head |-> Len(Log)]
    OBVIOUS
  <2>1. Answer(i, events, TRUE, Len(Log)) /\ UNCHANGED saved
    BY <1>3, <1>4 DEF StoreExecutes
  <2>2. op.after \in Nat
    BY <1>2, <1>4, OperationFields
  <2>3. events \in Seq(Update)
    BY <1>3, <2>2, ReadIsOfLog
  <2>4. Grows /\ Log' = Log
    BY <2>1 DEF Grows, Log
  <2>5. DOMAIN Log = 1 .. Len(Log)
    BY <1>3
  <2>6. \A n \in DOMAIN Log : Nth(n)' = Nth(n)
    BY <2>4 DEF Nth, Stamp, Stream
  <2>7. \A n \in DOMAIN Log : Owed(n, op.after, Len(Log)) => Nth(n) \in Members(events)
    BY <1>1, <1>3, <2>2, <2>5, ReadHasOwed DEF Nth
  <2>8. new.op.after = op.after /\ new.head = Len(Log) /\ new.events = events
    OBVIOUS
  <2>11. new = [op |-> Head(ops[i]), ok |-> TRUE, events |-> events, head |-> Len(Log)]
    OBVIOUS
  <2>10. \A n \in DOMAIN Log' : ~(n > Len(Log))
    BY <1>3, <2>4, <2>5
  <2>9. ASSUME NEW c \in Conn PROVE Answered(c, new)'
    <3>1. ReachedFrom(c, Len(Log))'
      BY <1>3, <2>4, <2>10 DEF ReachedFrom
    <3>2. \A n \in DOMAIN Log' : Owed(n, op.after, Len(Log))' => Nth(n)' \in Members(events)
      BY <2>4, <2>6, <2>7 DEF Owed
    <3> QED BY <2>4, <2>8, <3>1, <3>2 DEF Answered
  <2> QED BY <1>1, <1>3, <2>1, <2>3, <2>4, <2>9, <2>10, <2>11, AnswerGap
<1>5. CASE op.kind # "read"
  <2> PICK stamp : stamp = Stamp(op.event, Len(Log) + 1)
    OBVIOUS
  <2> PICK new : new = [op |-> op, ok |-> TRUE, events |-> <<stamp>>, head |-> 0]
    OBVIOUS
  <2>1. op.kind = "save" /\ op.event \in Event
    BY <1>2, <1>5, NoResaves
  <2>2. /\ saved' = [saved EXCEPT ![Shared] = Append(@, op.event)]
        /\ Answer(i, <<stamp>>, TRUE, 0)
    BY <1>1, <1>3, <1>5, StreamIsShared DEF StoreExecutes
  <2>3. stamp \in Update /\ <<stamp>> \in Seq(Update)
    BY <1>3, <2>1, StampIsUpdate
  <2>4. Grows
    BY <1>1, <2>1, <2>2, SavedGrows
  <2>5. \A n \in DOMAIN Log' : n > Len(Log) => Nth(n)' = stamp
    BY <1>1, <2>1, <2>2, OnlyTheLast DEF Nth, Stamp, Stream
  <2>6. new \in Members(replies'[i])
    BY <1>1, <2>2, <2>3, AnswerStays
  <2>7. new.op.kind = "save" /\ stamp \in Members(new.events)
    BY <2>1 DEF Members
  <2>8. \A c \in Conn : at[c] \in Instance => \A u : u = stamp => Coming(u, at[c])'
    BY <1>1, <2>6, <2>7 DEF Coming
  <2>9. \A c \in Conn : at[c] \in Instance =>
          \A n \in DOMAIN Log' : n > Len(Log) => Reaches(Nth(n), c)'
    BY <2>5, <2>8 DEF Reaches
  <2>10. \A c \in Conn : ~ReplayFor(new, c)
    BY <2>7 DEF ReplayFor
  <2> QED BY <1>1, <2>2, <2>3, <2>4, <2>9, <2>10, AnswerGap
<1> QED BY <1>4, <1>5

LEMMA StoreFailsGap ==
  ASSUME Premises, NEW i \in Instance, StoreFails(i)
  PROVE  GapInv'
<1> PICK op : op = Head(ops[i])
  OBVIOUS
<1> PICK new : new = [op |-> op, ok |-> FALSE, events |-> <<>>, head |-> 0]
  OBVIOUS
<1>1. /\ TypeOK /\ TypeOK' /\ ops[i] # <<>>
      /\ UNCHANGED <<call, pubs, inbox, at, room, sub, shown>>
  BY PremisesGive DEF StoreFails
<1>2. op \in Operation /\ op \in Members(ops[i])
  BY <1>1, MembersOfTail DEF TypeOK
<1>3. Answer(i, <<>>, FALSE, 0) /\ <<>> \in Seq(Update) /\ 0 \in Nat
  <2>1. Answer(i, <<>>, FALSE, 0)
    BY DEF StoreFails
  <2>2. <<>> \in Seq(Update) /\ 0 \in Nat
    OBVIOUS
  <2> QED BY <2>1, <2>2
<1>4. new \in Members(replies'[i])
  BY <1>1, <1>3, AnswerStays
<1>5. new.op = op /\ ~new.ok
  OBVIOUS
<1>6. Log \in Seq(Event)
  BY <1>1 DEF TypeOK, Log
<1>7. /\ Grows
      /\ \A c \in Conn : at[c] \in Instance =>
           \A n \in DOMAIN Log' : n > Len(Log) => Reaches(Nth(n), c)'
  <2>1. CASE UNCHANGED saved
    BY <1>6, <2>1 DEF Grows, Log
  <2>2. CASE op.kind # "read" /\ saved' = [saved EXCEPT ![Shared] = Append(@, op.event)]
    <3>1. op.kind = "save" /\ op.event \in Event
      BY <1>2, <2>2, NoResaves
    <3>2. Grows
      BY <1>1, <2>2, <3>1, SavedGrows
    <3>3. \A n \in DOMAIN Log' : n > Len(Log) => Nth(n)'.event = op.event
      BY <1>1, <2>2, <3>1, OnlyTheLast DEF Nth, Stamp
    <3>4. \A e : e = op.event => Failing(e)'
      BY <1>4, <1>5, <3>1 DEF Failing
    <3>5. \A c \in Conn : \A n \in DOMAIN Log' : n > Len(Log) => Reaches(Nth(n), c)'
      BY <3>3, <3>4 DEF Reaches
    <3> QED BY <3>2, <3>5
  <2> QED BY <2>1, <2>2 DEF StoreFails
<1> QED BY <1>1, <1>3, <1>7, AnswerGap

\* Steps that save nothing and bring no answer.
LEMMA StillInRoom ==
  ASSUME Premises, UNCHANGED saved, NEW c \in Conn, c \in room, at'[c] = at[c],
         Members(shown[c]) \subseteq Members(shown'[c]),
         \A u \in Update : at[c] \in Instance /\ Reaches(u, c) => Reaches(u, c)',
         \A i \in Instance : Members(replies'[i]) \subseteq Members(replies[i]),
         sub'[c].stage # "none",
         sub'[c].stage = "done" => sub'[c] = sub[c] \/ Caught(c)'
  PROVE  InRoom(c)'
<1>1. TypeOK /\ TypeOK' /\ Log' = Log /\ InRoom(c)
  BY PremisesGive DEF Log, Premises, GapInv
<1>2. Log \in Seq(Event) /\ at[c] \in Instance
  BY <1>1 DEF TypeOK, Log, InRoom
<1>3. Grows /\ \A n \in DOMAIN Log' : ~(n > Len(Log))
  BY <1>1, <1>2 DEF Grows
<1>4. \A u \in Update : Reaches(u, c) => Reaches(u, c)'
  BY <1>2
<1>5. \A r \in Members(replies'[at[c]]) : r \in Members(replies[at[c]])
  BY <1>2
<1> QED BY <1>1, <1>3, <1>4, <1>5, RoomStays

LEMMA SocketsGap ==
  ASSUME Premises, NEW c \in Conn,
         \/ \E i \in Instance : Connect(c, i)
         \/ Disconnect(c)
         \/ \E after \in Cursors : SubscribePage(c, after)
  PROVE  GapInv'
<1>1. /\ TypeOK /\ TypeOK' /\ room \subseteq Conn
      /\ UNCHANGED <<saved, call, replies, pubs, inbox, shown>>
      /\ \A d \in Conn \ {c} : at'[d] = at[d] /\ sub'[d] = sub[d]
  <2>1. TypeOK /\ TypeOK'
    BY PremisesGive
  <2> QED BY <2>1 DEF TypeOK, Connect, Disconnect, SubscribePage
<1>2. ASSUME NEW d \in Conn, d \in room, at'[d] = at[d], sub'[d] = sub[d] PROVE InRoom(d)'
  <2>1. sub[d].stage # "none"
    BY <1>2 DEF Premises, GapInv, InRoom
  <2>2. \A u \in Update : at[d] \in Instance /\ Reaches(u, d) => Reaches(u, d)'
    BY <1>1, <1>2, QuietStep
  <2> QED BY <1>1, <1>2, <2>1, <2>2, StillInRoom
<1>3. FailuresAreEmpty'
  BY <1>1 DEF FailuresAreEmpty, Premises, GapInv
<1>4. CASE \E i \in Instance : Connect(c, i)
  <2>1. at[c] = Nowhere /\ UNCHANGED <<ops, sub, room>>
    BY <1>4 DEF Connect
  <2>2. c \notin room
    BY <2>1, NamesAssumption DEF Premises, GapInv, InRoom
  <2>3. \A d \in room : InRoom(d)'
    BY <1>1, <1>2, <2>2
  <2>4. \A d \in Conn : AsksOnce(d)'
    BY <1>1, <2>1 DEF Premises, GapInv, AsksOnce, ReplayFor
  <2> QED BY <1>3, <2>1, <2>3, <2>4 DEF GapInv
<1>5. CASE Disconnect(c)
  <2>1. room' = room \ {c} /\ UNCHANGED ops /\ sub' = [sub EXCEPT ![c].stage = "left"]
    BY <1>5 DEF Disconnect
  <2>2. \A d \in room' : InRoom(d)'
    BY <1>1, <1>2, <2>1
  <2>3. \A d \in Conn : sub'[d].after = sub[d].after /\ (sub[d].stage # "none" => sub'[d].stage # "none")
    BY <1>1, <2>1 DEF TypeOK
  <2>4. ASSUME NEW d \in Conn PROVE AsksOnce(d)'
    <3>1. AsksOnce(d)
      BY DEF Premises, GapInv
    <3> QED BY <1>1, <2>1, <2>3, <3>1, AsksStay
  <2> QED BY <1>3, <2>1, <2>2, <2>4 DEF GapInv
<1>6. ASSUME NEW after \in Cursors, SubscribePage(c, after) PROVE GapInv'
  <2> DEFINE op == [kind |-> "read", conn |-> c, after |-> after]
  <2>1. /\ at[c] # Nowhere /\ sub[c].stage = "none" /\ room' \in {room \cup {c}, room}
        /\ sub' = [sub EXCEPT ![c] = [stage |-> "reading", after |-> after, head |-> 0]]
        /\ ops' = [ops EXCEPT ![at[c]] = Append(@, op)] /\ UNCHANGED at
    BY <1>6 DEF SubscribePage, Ask
  <2>2. c \notin room /\ AsksOnce(c)
    BY <2>1 DEF Premises, GapInv, InRoom
  <2>3. sub'[c] = [stage |-> "reading", after |-> after, head |-> 0] /\ at[c] \in Instance
    BY <1>1, <2>1 DEF TypeOK
  <2>4. InRoom(c)'
    <3>1. \A i \in Instance : \A r \in Members(replies'[i]) : ~ReplayFor(r, c)
      BY <1>1, <2>1, <2>2 DEF AsksOnce
    <3> QED BY <2>1, <2>3, <3>1 DEF InRoom
  <2>5. \A d \in room' : InRoom(d)'
    BY <1>1, <1>2, <2>1, <2>2, <2>4
  <2>6. \A i \in Instance : \A x \in Members(ops'[i]) : x \in Members(ops[i]) \/ x = op
    <3>1. ops \in [Instance -> Seq(Operation)]
      BY <1>1 DEF TypeOK
    <3>2. op \in Operation
      <4>1. after \in Nat
        <5>1. Log \in Seq(Event)
          BY <1>1 DEF TypeOK, Log
        <5> QED BY <5>1 DEF Cursors, Stamp
      <4> QED BY <4>1 DEF Operation
    <3> HIDE DEF op
    <3>3. Members(Append(ops[at[c]], op)) = Members(ops[at[c]]) \cup {op}
      BY <2>3, <3>1, <3>2, MembersOfAppend
    <3> QED BY <2>1, <2>3, <3>1, <3>3
  <2>7. \A x : x = op => x.conn = c /\ x.after = after
    OBVIOUS
  <2> HIDE DEF op
  <2>8. AsksOnce(c)'
    <3>1. sub'[c].stage # "none" /\ sub'[c].after = after
      BY <2>3
    <3>2. \A i \in Instance : \A x \in Members(ops'[i]) :
            x.kind = "read" /\ x.conn = c => x.after = after
      BY <2>1, <2>2, <2>6, <2>7 DEF AsksOnce
    <3>3. \A i \in Instance : \A x \in Members(replies'[i]) : ~ReplayFor(x, c)
      BY <1>1, <2>1, <2>2 DEF AsksOnce
    <3> QED BY <3>1, <3>2, <3>3 DEF AsksOnce, ReplayFor
  <2>9. ASSUME NEW d \in Conn, d # c PROVE AsksOnce(d)'
    <3>1. AsksOnce(d) /\ sub'[d] = sub[d]
      BY <1>1, <2>9 DEF Premises, GapInv
    <3>2. \A i \in Instance : \A x \in Members(ops'[i]) :
            x.kind = "read" /\ x.conn = d => x \in Members(ops[i])
      BY <2>6, <2>7, <2>9
    <3> QED BY <1>1, <3>1, <3>2, AsksStay
  <2> QED BY <1>1, <1>3, <2>1, <2>5, <2>8, <2>9 DEF GapInv
<1> QED BY <1>4, <1>5, <1>6

\* A socket is sent the replay it asked for.
LEMMA ResumeSubscribeGap ==
  ASSUME Premises, NEW i \in Instance, ResumeSubscribe(i)
  PROVE  GapInv'
<1> PICK r : r = Head(replies[i])
  OBVIOUS
<1> PICK c : c = r.op.conn
  OBVIOUS
<1> DEFINE S == [how : {"live", "replay"}, update : Update]
           replay == [n \in DOMAIN r.events |-> [how |-> "replay", update |-> r.events[n]]]
<1>1. /\ TypeOK /\ TypeOK' /\ KeptInv /\ FailuresAreEmpty /\ room \subseteq Conn
      /\ Resume(i, "read") /\ UNCHANGED <<saved, call, ops, pubs, inbox, at, room>>
  BY PremisesGive DEF ResumeSubscribe, TypeOK
<1>2. /\ r \in Reply /\ r.op.kind = "read" /\ r.op \in Operation /\ r.events \in Seq(Update)
      /\ \A j \in Instance : Members(replies'[j]) \subseteq Members(replies[j])
  BY <1>1, TakenReply
<1>3. r \in Members(replies[i])
  BY <1>1, MembersOfTail DEF Resume, TypeOK
<1>4. c \in Conn /\ r.head \in Nat /\ ReplayFor(r, c)
  BY <1>2, OperationFields DEF Reply, ReplayFor
<1>5. AsksOnce(c) /\ sub[c].stage # "none" /\ r.op.after = sub[c].after
  BY <1>3, <1>4 DEF Premises, GapInv, AsksOnce
<1>6. replay \in Seq(S) /\ Members(replay) = {[how |-> "replay", update |-> u] : u \in Members(r.events)}
  <2>1. DOMAIN r.events = 1 .. Len(r.events) /\ Len(r.events) \in Nat
        /\ \A n \in DOMAIN r.events : r.events[n] \in Update
    BY <1>2
  <2>2. \A n \in 1 .. Len(r.events) : replay[n] \in S
    BY <2>1
  <2>3. replay \in Seq(S)
    BY <2>1, <2>2, SequenceOfFunction
  <2> QED BY <2>3 DEF Members
<1> HIDE DEF replay, S
<1>7. \/ UNCHANGED shown
      \/ r.ok /\ at[c] = i /\ shown' = [shown EXCEPT ![c] = @ \o replay]
  BY DEF ResumeSubscribe, replay
<1>8. shown \in [Conn -> Seq(S)]
  BY <1>1 DEF TypeOK, S
<1>9. Members(shown[c] \o replay) = Members(shown[c]) \cup Members(replay)
  BY <1>4, <1>6, <1>8, MembersOfBoth
<1>10. \A d \in Conn : Members(shown[d]) \subseteq Members(shown'[d])
  BY <1>7, <1>8, <1>9
<1>11. ASSUME NEW d \in Conn, NEW u \in Update, at[d] \in Instance, Reaches(u, d)
       PROVE  Reaches(u, d)'
  <2>1. \A j \in Instance : \A x \in Members(replies[j]) :
          x.op.kind = "save" => x \in Members(replies'[j])
    BY <1>1, TakenStays
  <2> QED BY <1>1, <1>10, <1>11, <2>1, QuietStep
<1>12. \/ UNCHANGED sub
       \/ at[c] = i /\ sub' = [sub EXCEPT ![c].stage = "failed"]
       \/ /\ r.ok /\ at[c] = i /\ shown' = [shown EXCEPT ![c] = @ \o replay]
          /\ sub' = [sub EXCEPT ![c] = [stage |-> "done", after |-> @.after, head |-> r.head]]
  <2>1. CASE r.ok /\ at[c] = i
    <3>1. shown' = [shown EXCEPT ![c] = @ \o replay]
      BY <2>1 DEF ResumeSubscribe, replay
    <3>2. sub' = [sub EXCEPT ![c] = [stage |-> "done", after |-> @.after, head |-> r.head]]
      BY <2>1 DEF ResumeSubscribe
    <3> QED BY <2>1, <3>1, <3>2
  <2>2. CASE ~r.ok /\ at[c] = i
    BY <2>2 DEF ResumeSubscribe
  <2>3. CASE at[c] # i
    BY <2>3 DEF ResumeSubscribe
  <2> QED BY <2>1, <2>2, <2>3
<1>13. \A d \in Conn : /\ sub'[d].after = sub[d].after
                       /\ sub[d].stage # "none" => sub'[d].stage # "none"
  <2> SUFFICES ASSUME NEW d \in Conn
               PROVE  /\ sub'[d].after = sub[d].after
                      /\ sub[d].stage # "none" => sub'[d].stage # "none"
    OBVIOUS
  <2>1. CASE d = c
    <3>1. sub \in [Conn -> [stage : {"none", "reading", "done", "failed", "left"},
                            after : Nat, head : Nat]]
      BY <1>1 DEF TypeOK
    <3>2. CASE UNCHANGED sub
      BY <3>2
    <3>3. CASE sub' = [sub EXCEPT ![c].stage = "failed"]
      BY <1>4, <2>1, <3>1, <3>3
    <3>4. CASE sub' = [sub EXCEPT ![c] = [stage |-> "done", after |-> @.after, head |-> r.head]]
      <4>1. sub'[c] = [stage |-> "done", after |-> sub[c].after, head |-> r.head]
        BY <1>4, <3>1, <3>4
      <4> QED BY <2>1, <4>1
    <3> QED BY <1>12, <3>2, <3>3, <3>4
  <2>2. CASE d # c
    BY <1>1, <1>12, <2>2 DEF TypeOK
  <2> QED BY <2>1, <2>2
<1>14. ASSUME c \in room, sub'[c].stage = "done", sub'[c] # sub[c] PROVE Caught(c)'
  <2>1. /\ r.ok /\ at[c] = i /\ shown' = [shown EXCEPT ![c] = @ \o replay]
        /\ sub' = [sub EXCEPT ![c] = [stage |-> "done", after |-> @.after, head |-> r.head]]
    <3>1. sub' = [sub EXCEPT ![c].stage = "failed"] => sub'[c].stage = "failed"
      BY <1>1, <1>4 DEF TypeOK
    <3> QED BY <1>12, <1>14, <3>1
  <2>2. sub'[c].head = r.head /\ sub'[c].after = r.op.after
    BY <1>1, <1>4, <1>5, <2>1 DEF TypeOK
  <2>3. Answered(c, r)
    BY <1>3, <1>4, <1>14, <2>1 DEF Premises, GapInv, InRoom
  <2>4. Log' = Log /\ Log \in Seq(Event)
    BY <1>1 DEF Log, TypeOK
  <2>5. \A n \in DOMAIN Log : Nth(n)' = Nth(n) /\ Nth(n) \in Update
    BY <2>4, StampIsUpdate DEF Nth, Stamp, Stream
  <2>6. ReachedFrom(c, r.head)'
    <3>1. \A n \in DOMAIN Log : n > r.head => Reaches(Nth(n), c)
      BY <2>3 DEF Answered, ReachedFrom
    <3>2. \A u \in Update : Reaches(u, c) => Reaches(u, c)'
      BY <1>4, <1>11, <2>1
    <3>3. ASSUME NEW n \in DOMAIN Log, n > r.head PROVE Reaches(Nth(n), c)'
      <4>1. PICK u : u = Nth(n)
        OBVIOUS
      <4>2. Reaches(u, c)'
        BY <2>5, <3>1, <3>2, <3>3, <4>1
      <4>3. u = Nth(n)'
        BY <2>5, <4>1
      <4> QED BY <4>2, <4>3 DEF Reaches, ShownTo, Coming, Failing
    <3>4. r.head <= Len(Log)
      BY <2>3 DEF Answered, ReachedFrom
    <3> QED BY <2>4, <3>3, <3>4 DEF ReachedFrom
  <2>7. \A u : u \in Members(r.events) => u \in ShownTo(c, {"live", "replay"})'
    <3>1. Members(shown'[c]) = Members(shown[c]) \cup Members(replay)
      BY <1>4, <1>8, <1>9, <2>1
    <3>2. \A u : u \in Members(r.events) => [how |-> "replay", update |-> u] \in Members(shown'[c])
      BY <1>6, <3>1
    <3> SUFFICES ASSUME NEW u, u \in Members(r.events)
                 PROVE  \E x \in Members(shown'[c]) : x.update = u /\ x.how = "replay"
      BY DEF ShownTo
    <3>3. PICK x : x = [how |-> "replay", update |-> u]
      OBVIOUS
    <3> QED BY <3>2, <3>3
  <2>8. \A n \in DOMAIN Log : Owed(n, r.op.after, r.head) => Nth(n) \in Members(r.events)
    BY <2>3 DEF Answered
  <2>9. \A n \in DOMAIN Log' : Owed(n, sub[c].after, sub[c].head)' =>
          Nth(n)' \in ShownTo(c, {"live", "replay"})'
    BY <2>2, <2>4, <2>5, <2>7, <2>8 DEF Owed
  <2>10. \A head : head = r.head /\ ReachedFrom(c, head)' => ReachedFrom(c, sub[c].head)'
    BY <2>2 DEF ReachedFrom
  <2> QED BY <2>6, <2>9, <2>10 DEF Caught
<1>15. FailuresAreEmpty'
  BY <1>1, <1>2 DEF FailuresAreEmpty
<1>16. ASSUME NEW d \in Conn PROVE AsksOnce(d)'
  <2>1. AsksOnce(d)
    BY DEF Premises, GapInv
  <2> QED BY <1>1, <1>2, <1>13, <2>1, AsksStay
<1>17. ASSUME NEW d \in room PROVE InRoom(d)'
  <2>1. d \in Conn /\ sub[d].stage # "none"
    BY <1>1, <1>17 DEF Premises, GapInv, InRoom
  <2>2. d # c => sub'[d] = sub[d]
    BY <1>1, <1>4, <1>12, <2>1 DEF TypeOK
  <2> QED BY <1>1, <1>2, <1>10, <1>11, <1>13, <1>14, <1>17, <2>1, <2>2, StillInRoom
<1> QED BY <1>1, <1>15, <1>16, <1>17 DEF GapInv

LEMMA CrashGap ==
  ASSUME Premises, NEW i \in Instance, Crash(i)
  PROVE  GapInv'
<1>1. /\ TypeOK /\ TypeOK' /\ room \subseteq Conn /\ UNCHANGED <<saved, shown>>
      /\ room' = {c \in room : at[c] # i}
      /\ ops' = [ops EXCEPT ![i] = <<>>] /\ replies' = [replies EXCEPT ![i] = <<>>]
      /\ at' = [c \in Conn |-> IF at[c] = i THEN Nowhere ELSE at[c]]
      /\ sub' = [c \in Conn |-> IF at[c] = i THEN [sub[c] EXCEPT !.stage = "left"] ELSE sub[c]]
  <2>1. TypeOK /\ TypeOK'
    BY PremisesGive
  <2>2. UNCHANGED saved
    BY DEF Crash, Premises, Stream
  <2> QED BY <2>1, <2>2 DEF Crash, TypeOK
<1>2. /\ \A j \in Instance : Members(replies'[j]) \subseteq Members(replies[j])
      /\ \A j \in Instance : Members(ops'[j]) \subseteq Members(ops[j])
  <2>1. Members(<<>>) = {}
    BY DEF Members
  <2> QED BY <1>1, <2>1 DEF TypeOK
<1>3. FailuresAreEmpty'
  BY <1>2 DEF FailuresAreEmpty, Premises, GapInv
<1>4. \A c \in Conn : /\ sub'[c].after = sub[c].after
                      /\ sub[c].stage # "none" => sub'[c].stage # "none"
  BY <1>1 DEF TypeOK
<1>5. ASSUME NEW c \in Conn PROVE AsksOnce(c)'
  <2>1. AsksOnce(c)
    BY DEF Premises, GapInv
  <2> QED BY <1>2, <1>4, <2>1, AsksStay
<1>6. ASSUME NEW c \in room' PROVE InRoom(c)'
  <2>1. c \in Conn /\ c \in room /\ at[c] # i /\ at'[c] = at[c] /\ sub'[c] = sub[c]
    BY <1>1
  <2>2. sub[c].stage # "none"
    BY <2>1 DEF Premises, GapInv, InRoom
  <2>3. \A u \in Update : at[c] \in Instance /\ Reaches(u, c) => Reaches(u, c)'
    BY <2>1, CrashReaches
  <2> QED BY <1>1, <1>2, <2>1, <2>2, <2>3, StillInRoom
<1> QED BY <1>1, <1>3, <1>5, <1>6 DEF GapInv

----------------------------------------------------------------------------
(* The theorem.                                                            *)

LEMMA GapInitially ==
  ASSUME Init PROVE GapInv
<1>1. Members(<<>>) = {}
  BY DEF Members
<1> QED BY <1>1 DEF Init, GapInv, FailuresAreEmpty, AsksOnce

LEMMA StepsLeaveNoGap ==
  ASSUME OnceInv, GapInv, Stream, Connected, [Next]_vars PROVE GapInv'
<1>1. CASE UNCHANGED vars
  BY <1>1 DEF vars, GapInv, FailuresAreEmpty, AsksOnce, InRoom, Answered, Caught, ReachedFrom,
              ReplayFor, Owed, Nth, Stamp, Stream, Log, Reaches, ShownTo, Coming, Failing
<1>2. Premises
  BY StepsOnce DEF Premises
<1>3. ASSUME NEW c \in Conn,
             \/ \E i \in Instance : Connect(c, i)
             \/ Disconnect(c)
             \/ \E after \in Cursors : SubscribePage(c, after)
      PROVE  GapInv'
  BY <1>2, <1>3, SocketsGap
<1>4. ASSUME NEW e \in Event, NEW i \in Instance, Broadcast(e, i) PROVE GapInv'
  BY <1>2, <1>4, BroadcastGap
<1>5. ASSUME NEW i \in Instance, Gateway(i) PROVE GapInv'
  BY <1>2, <1>5, ResumeSubscribeGap, ResumeBroadcastGap, ResumeHandlerGap, HandleMessageGap
     DEF Gateway
<1>6. ASSUME NEW i \in Instance, StoreExecutes(i) \/ StoreFails(i) PROVE GapInv'
  BY <1>2, <1>6, StoreExecutesGap, StoreFailsGap
<1>7. ASSUME NEW i \in Instance, Publish(i) \/ PublishFails(i) PROVE GapInv'
  BY <1>2, <1>7, PublishGap
<1>8. ASSUME NEW i \in Instance, Crash(i) PROVE GapInv'
  BY <1>2, <1>8, CrashGap
<1> QED BY <1>1, <1>3, <1>4, <1>5, <1>6, <1>7, <1>8 DEF Next

\* With the stream store a socket that was sent its replay misses no update: what was
\* saved later is shown to it, is on its way, or its broadcast fails; what the replay
\* owed it, it was sent.
THEOREM NothingFallsThrough == Spec => []NoGap
<1> DEFINE GapFree == OnceInv /\ (Stream /\ Connected => GapInv)
<1>1. Init => GapFree
  BY OnceInitially, GapInitially
<1>2. GapFree /\ [Next]_vars => GapFree'
  <2>1. (Stream /\ Connected)' => Stream /\ Connected
    BY DEF Stream, Connected
  <2> QED BY <2>1, StepsOnce, StepsLeaveNoGap
<1>3. GapFree => NoGap
  <2> SUFFICES ASSUME OnceInv, GapInv, Stream, NEW c \in room, sub[c].stage = "done",
                      NEW n \in DOMAIN Log
               PROVE  LET owed == IF sub[c].after = 0 THEN n = sub[c].head
                                  ELSE n > sub[c].after /\ n <= sub[c].after + ReplayLimit
                          u == Stamp(Log[n], n)
                      IN  (n > sub[c].head \/ (n <= sub[c].head /\ owed)) =>
                            \/ u \in ShownTo(c, {"live", "replay"})
                            \/ n > sub[c].head /\ (Coming(u, at[c]) \/ Failing(Log[n]))
    BY DEF NoGap, Connected
  <2>1. TypeOK /\ Caught(c)
    BY DEF OnceInv, KeptInv, TypeOK, GapInv, InRoom
  <2>2. n > sub[c].head => Reaches(Nth(n), c)
    BY <2>1 DEF Caught, ReachedFrom
  <2>3. Owed(n, sub[c].after, sub[c].head) => Nth(n) \in ShownTo(c, {"live", "replay"})
    BY <2>1 DEF Caught
  <2>4. Nth(n).event = Log[n]
    BY DEF Nth, Stamp
  <2> QED BY <2>2, <2>3, <2>4 DEF Reaches, Owed, Nth
<1> QED BY <1>1, <1>2, <1>3, PTL DEF Spec

=============================================================================
