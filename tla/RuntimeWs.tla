------------------------------ MODULE RuntimeWs ------------------------------
(***************************************************************************)
(* The runtime WebSocket gateway of packages/bff: RuntimeWsGateway, its    *)
(* replay store, its broadcast bus and its operations state, on several    *)
(* instances behind one Redis.                                             *)
(*                                                                         *)
(* One page topic is modelled: rooms, streams and keys are all per topic.  *)
(* A connection is one socket; a client that comes back is another one.    *)
(* The three Redis connections of an instance (replay client, publisher,   *)
(* subscriber) answer in the order they were asked, and independently of   *)
(* one another.                                                            *)
(***************************************************************************)
EXTENDS Naturals, Sequences

CONSTANTS
  Instance,     \* gateway processes
  Conn,         \* sockets
  Event,        \* manager-executed updates the host broadcasts
  Earlier,      \* those already in the Redis store, oldest first
  StoreMode,    \* LC_RUNTIME_WS_REPLAY_STORE
  BusMode,      \* LC_RUNTIME_WS_BROADCAST_BUS
  ReplayLimit,  \* LC_RUNTIME_WS_REPLAY_LIMIT
  Shared,       \* the store in Redis
  Nowhere,      \* where a socket is before it connects and after it is gone
  MaxFaults     \* bound: failed store or bus calls, and crashes

ASSUME ModesAssumption ==
  /\ StoreMode \in {"memory", "redis", "redis-stream"}
  /\ BusMode \in {"local", "redis"}
ASSUME LimitAssumption == ReplayLimit \in Nat \ {0}
ASSUME EarlierAssumption ==
  /\ Earlier \in Seq(Event)
  /\ StoreMode = "memory" => Earlier = <<>>
  /\ \A m, n \in DOMAIN Earlier : Earlier[m] = Earlier[n] => m = n
ASSUME NamesAssumption == Shared \notin Instance /\ Nowhere \notin Instance

VARIABLES
  saved,      \* saved[s]: the topic's events in the order store s took them
  call,       \* call[e]: where broadcastRuntimeManagerExecuted(e) stands
  ops,        \* ops[i]: store calls of instance i the store has not executed
  replies,    \* replies[i]: executed store calls instance i has not resumed from
  pubs,       \* pubs[i]: bus messages instance i is publishing
  inbox,      \* inbox[i]: bus messages instance i has not handled
  at,         \* at[c]: the instance socket c is connected to
  room,       \* sockets that joined the topic's room
  sub,        \* sub[c]: what is known of c's subscription
  shown,      \* shown[c]: the updates c was sent, with how they reached it
  lastError,  \* lastError[i]: RuntimeWsOperationsState.lastError
  faults      \* how many faults there have been

vars == <<saved, call, ops, replies, pubs, inbox, at, room, sub, shown,
          lastError, faults>>

Stream == StoreMode = "redis-stream"
NoSub == [stage |-> "none", after |-> 0, head |-> 0]
\* An update is [event, id], a bus message [origin, update], a store call
\* [kind |-> "save" or "resave", event] or [kind |-> "read", conn, after].

Members(q) == {q[n] : n \in DOMAIN q}
StoreOf(i) == IF StoreMode = "memory" THEN i ELSE Shared

\* An event as the store hands it back: only the stream store numbers events.
Stamp(e, n) == [event |-> e, id |-> IF Stream THEN n ELSE 0]

\* Slip: the range starts one entry late.
ReadSkipsOne(log, after) ==
  LET Smaller(x, y) == IF x < y THEN x ELSE y
      from == IF after = 0 THEN Len(log) - 1 ELSE after + 1
      upto == IF after = 0 THEN Smaller(1, Len(log))
              ELSE IF Stream THEN Smaller(ReplayLimit, Len(log) - from) ELSE 0
  IN  [n \in 1 .. upto |-> Stamp(log[from + n], from + n)]

\* getLatest without a cursor; getAfter(cursor), which only the stream answers.
Read(log, after) ==
  LET Smaller(x, y) == IF x < y THEN x ELSE y
      from == IF after = 0 THEN Len(log) - 1 ELSE after
      upto == IF after = 0 THEN Smaller(1, Len(log))
              ELSE IF Stream THEN Smaller(ReplayLimit, Len(log) - from) ELSE 0
  IN  [n \in 1 .. upto |-> Stamp(log[from + n], from + n)]

\* server.to(topic): the sockets of the room on this instance.
RoomAt(i) == {c \in room : at[c] = i}

\* Slip: the bus only ever reaches its own process.
OnlySelf(i) == {i}

\* Who a message published by instance i reaches: every subscriber of the Redis
\* channel, i included, or just the in-process handlers.
Subscribers(i) == IF BusMode = "redis" THEN Instance ELSE {i}

\* emitRuntimeManagerExecutedToTopic.
EmitToTopic(i, u) ==
  shown' = [c \in Conn |-> IF c \in RoomAt(i)
                             THEN Append(shown[c], [how |-> "live", update |-> u])
                             ELSE shown[c]]

Ask(i, op) == ops' = [ops EXCEPT ![i] = Append(@, op)]

Init ==
  /\ saved = [s \in Instance \cup {Shared} |-> IF s = Shared THEN Earlier ELSE <<>>]
  /\ call = [e \in Event |-> IF e \in Members(Earlier) THEN "done" ELSE "new"]
  /\ ops = [i \in Instance |-> <<>>]
  /\ replies = [i \in Instance |-> <<>>]
  /\ pubs = [i \in Instance |-> <<>>]
  /\ inbox = [i \in Instance |-> <<>>]
  /\ at = [c \in Conn |-> Nowhere]
  /\ room = {}
  /\ sub = [c \in Conn |-> NoSub]
  /\ shown = [c \in Conn |-> <<>>]
  /\ lastError = [i \in Instance |-> "none"]
  /\ faults = 0

-----------------------------------------------------------------------------
(* Sockets.                                                                *)

\* handleConnection.
Connect(c, i) ==
  /\ at[c] = Nowhere
  /\ sub[c].stage = "none"
  /\ at' = [at EXCEPT ![c] = i]
  /\ UNCHANGED <<saved, call, ops, replies, pubs, inbox, room, sub, shown,
                 lastError, faults>>

\* handleDisconnect: the socket leaves its rooms; it does not come back.
Disconnect(c) ==
  /\ at[c] # Nowhere
  /\ at' = [at EXCEPT ![c] = Nowhere]
  /\ room' = room \ {c}
  /\ sub' = [sub EXCEPT ![c].stage = "left"]
  /\ UNCHANGED <<saved, call, ops, replies, pubs, inbox, shown, lastError, faults>>

\* subscribePage up to its await: the socket joins the room (a failing join is only
\* logged), is told it is subscribed, and the replay is asked for.
SubscribePage(c, after) ==
  /\ at[c] # Nowhere
  /\ sub[c].stage = "none"
  /\ room' \in {room \cup {c}, room}
  /\ sub' = [sub EXCEPT ![c] = [stage |-> "reading", after |-> after, head |-> 0]]
  /\ Ask(at[c], [kind |-> "read", conn |-> c, after |-> after])
  /\ UNCHANGED <<saved, call, replies, pubs, inbox, at, shown, lastError, faults>>

-----------------------------------------------------------------------------
(* The replay store (Redis, or a Map of the process).                      *)

Answer(i, events, ok, head) ==
  /\ ops' = [ops EXCEPT ![i] = Tail(@)]
  /\ replies' = [replies EXCEPT ![i] =
       Append(@, [op |-> Head(ops[i]), ok |-> ok, events |-> events, head |-> head])]

\* The store executes the next call of an instance.
StoreExecutes(i) ==
  /\ ops[i] # <<>>
  /\ LET op == Head(ops[i])
         s == StoreOf(i)
     IN  IF op.kind = "read"
           THEN /\ Answer(i, Read(saved[s], op.after), TRUE, Len(saved[s]))
                /\ UNCHANGED saved
           ELSE /\ saved' = [saved EXCEPT ![s] = Append(@, op.event)]
                /\ Answer(i, <<Stamp(op.event, Len(saved[s]) + 1)>>, TRUE, 0)
  /\ UNCHANGED <<call, pubs, inbox, at, room, sub, shown, lastError, faults>>

\* A call to Redis is rejected, having been executed or not.
StoreFails(i) ==
  /\ ops[i] # <<>>
  /\ StoreMode # "memory"
  /\ faults < MaxFaults
  /\ faults' = faults + 1
  /\ Answer(i, <<>>, FALSE, 0)
  /\ LET op == Head(ops[i])
     IN  \/ UNCHANGED saved
         \/ /\ op.kind # "read"
            /\ saved' = [saved EXCEPT ![Shared] = Append(@, op.event)]
  /\ UNCHANGED <<call, pubs, inbox, at, room, sub, shown, lastError>>

-----------------------------------------------------------------------------
(* What an instance does when a store call returns.                        *)

Resume(i, kind) ==
  /\ replies[i] # <<>>
  /\ Head(replies[i]).op.kind = kind
  /\ replies' = [replies EXCEPT ![i] = Tail(@)]

\* subscribePage after its await: each replayed update is sent to the socket, if
\* it is still there.
ResumeSubscribe(i) ==
  /\ Resume(i, "read")
  /\ LET r == Head(replies[i])
         c == r.op.conn
     IN  IF r.ok
           THEN /\ lastError' = [lastError EXCEPT ![i] = "none"]
                /\ IF at[c] = i
                     THEN /\ shown' = [shown EXCEPT ![c] = @ \o
                               [n \in DOMAIN r.events |->
                                  [how |-> "replay", update |-> r.events[n]]]]
                          /\ sub' = [sub EXCEPT ![c] =
                               [stage |-> "done", after |-> @.after, head |-> r.head]]
                     ELSE UNCHANGED <<shown, sub>>
           ELSE /\ lastError' = [lastError EXCEPT ![i] = "replay"]
                /\ IF at[c] = i
                     THEN sub' = [sub EXCEPT ![c].stage = "failed"]
                     ELSE UNCHANGED sub
                /\ UNCHANGED shown
  /\ UNCHANGED <<saved, call, ops, pubs, inbox, at, room, faults>>

\* broadcastRuntimeManagerExecuted.
Broadcast(e, i) ==
  /\ call[e] = "new"
  /\ call' = [call EXCEPT ![e] = "saving"]
  /\ Ask(i, [kind |-> "save", event |-> e])
  /\ UNCHANGED <<saved, replies, pubs, inbox, at, room, sub, shown, lastError, faults>>

\* Slip: an update the store did not take is announced all the same.
ResumeBroadcastUnsaved(i) ==
  /\ Resume(i, "save")
  /\ LET r == Head(replies[i])
         u == IF r.ok THEN r.events[1] ELSE [event |-> r.op.event, id |-> 0]
     IN  /\ EmitToTopic(i, u)
         /\ pubs' = [pubs EXCEPT ![i] = Append(@, [origin |-> i, update |-> u])]
         /\ call' = [call EXCEPT ![r.op.event] = "publishing"]
         /\ UNCHANGED lastError
  /\ UNCHANGED <<saved, ops, inbox, at, room, sub, faults>>

\* ... after saveLatest: the local room hears of the update as it was saved, then
\* the bus.
ResumeBroadcast(i) ==
  /\ Resume(i, "save")
  /\ LET r == Head(replies[i])
     IN  IF r.ok
           THEN /\ EmitToTopic(i, r.events[1])
                /\ pubs' = [pubs EXCEPT ![i] =
                     Append(@, [origin |-> i, update |-> r.events[1]])]
                /\ call' = [call EXCEPT ![r.op.event] = "publishing"]
                /\ UNCHANGED lastError
           ELSE /\ call' = [call EXCEPT ![r.op.event] = "failed"]
                /\ lastError' = [lastError EXCEPT ![i] = "broadcast"]
                /\ UNCHANGED <<shown, pubs>>
  /\ UNCHANGED <<saved, ops, inbox, at, room, sub, faults>>

\* handleBroadcastMessage after its saveLatest.
ResumeHandler(i) ==
  /\ Resume(i, "resave")
  /\ LET r == Head(replies[i])
     IN  IF r.ok
           THEN /\ EmitToTopic(i, r.events[1])
                /\ lastError' = [lastError EXCEPT ![i] = "none"]
           ELSE /\ lastError' = [lastError EXCEPT ![i] = "broadcast"]
                /\ UNCHANGED shown
  /\ UNCHANGED <<saved, call, ops, pubs, inbox, at, room, sub, faults>>

-----------------------------------------------------------------------------
(* The bus.                                                                *)

Deliver(i, m) ==
  inbox' = [j \in Instance |-> IF j \in Subscribers(i) THEN Append(inbox[j], m)
                               ELSE inbox[j]]

\* The bus takes the next message of an instance and its broadcast returns.
Publish(i) ==
  /\ pubs[i] # <<>>
  /\ pubs' = [pubs EXCEPT ![i] = Tail(@)]
  /\ Deliver(i, Head(pubs[i]))
  /\ call' = [call EXCEPT ![Head(pubs[i]).update.event] = "done"]
  /\ lastError' = [lastError EXCEPT ![i] = "none"]
  /\ UNCHANGED <<saved, ops, replies, at, room, sub, shown, faults>>

\* The publish is rejected, after the message went out or before: the broadcast
\* fails although the update is saved and the local room has it.
PublishFails(i) ==
  /\ pubs[i] # <<>>
  /\ BusMode = "redis"
  /\ faults < MaxFaults
  /\ faults' = faults + 1
  /\ pubs' = [pubs EXCEPT ![i] = Tail(@)]
  /\ Deliver(i, Head(pubs[i])) \/ UNCHANGED inbox
  /\ call' = [call EXCEPT ![Head(pubs[i]).update.event] = "failed"]
  /\ lastError' = [lastError EXCEPT ![i] = "broadcast"]
  /\ UNCHANGED <<saved, ops, replies, at, room, sub, shown>>

\* Slip: an instance handles its own messages too.
HandleEveryMessage(i) ==
  /\ inbox[i] # <<>>
  /\ inbox' = [inbox EXCEPT ![i] = Tail(@)]
  /\ LET m == Head(inbox[i])
     IN  IF m.update.id # 0
           THEN /\ EmitToTopic(i, m.update)
                /\ lastError' = [lastError EXCEPT ![i] = "none"]
                /\ UNCHANGED ops
           ELSE /\ Ask(i, [kind |-> "resave", event |-> m.update.event])
                /\ UNCHANGED <<shown, lastError>>
  /\ UNCHANGED <<saved, call, replies, pubs, at, room, sub, faults>>

\* handleBroadcastMessage: own messages are ignored, numbered updates go straight
\* to the room, others are saved (again) first.
HandleMessage(i) ==
  /\ inbox[i] # <<>>
  /\ inbox' = [inbox EXCEPT ![i] = Tail(@)]
  /\ LET m == Head(inbox[i])
     IN  IF m.origin = i
           THEN UNCHANGED <<ops, shown, lastError>>
           ELSE IF m.update.id # 0
             THEN /\ EmitToTopic(i, m.update)
                  /\ lastError' = [lastError EXCEPT ![i] = "none"]
                  /\ UNCHANGED ops
             ELSE /\ Ask(i, [kind |-> "resave", event |-> m.update.event])
                  /\ UNCHANGED <<shown, lastError>>
  /\ UNCHANGED <<saved, call, replies, pubs, at, room, sub, faults>>

\* The process dies and is started again under a new instance id: its sockets, its
\* unfinished calls, its messages and its in-memory store are gone.
Crash(i) ==
  /\ faults < MaxFaults
  /\ faults' = faults + 1
  /\ saved' = IF StoreMode = "memory" THEN [saved EXCEPT ![i] = <<>>] ELSE saved
  /\ LET lost == {ops[i][n] : n \in DOMAIN ops[i]} \cup
                 {replies[i][n].op : n \in DOMAIN replies[i]}
         calls == {op.event : op \in {o \in lost : o.kind = "save"}} \cup
                  {pubs[i][n].update.event : n \in DOMAIN pubs[i]}
     IN  call' = [e \in Event |-> IF e \in calls THEN "failed" ELSE call[e]]
  /\ ops' = [ops EXCEPT ![i] = <<>>]
  /\ replies' = [replies EXCEPT ![i] = <<>>]
  /\ pubs' = [pubs EXCEPT ![i] = <<>>]
  /\ inbox' = [inbox EXCEPT ![i] = <<>>]
  /\ at' = [c \in Conn |-> IF at[c] = i THEN Nowhere ELSE at[c]]
  /\ sub' = [c \in Conn |-> IF at[c] = i THEN [sub[c] EXCEPT !.stage = "left"] ELSE sub[c]]
  /\ room' = {c \in room : at[c] # i}
  /\ lastError' = [lastError EXCEPT ![i] = "none"]
  /\ UNCHANGED shown

-----------------------------------------------------------------------------
Log == saved[Shared]

\* The replay ids a client may hold, from this socket or an earlier one: those of
\* what has been saved.
Cursors == {0} \cup {Stamp(Log[n], n).id : n \in DOMAIN Log}

Gateway(i) ==
  \/ ResumeSubscribe(i)
  \/ ResumeBroadcast(i)
  \/ ResumeHandler(i)
  \/ HandleMessage(i)

Next ==
  \/ \E c \in Conn, i \in Instance : Connect(c, i)
  \/ \E c \in Conn : Disconnect(c)
  \/ \E c \in Conn : \E after \in Cursors : SubscribePage(c, after)
  \/ \E e \in Event, i \in Instance : Broadcast(e, i)
  \/ \E i \in Instance : \/ Gateway(i) \/ StoreExecutes(i) \/ Publish(i)
                         \/ StoreFails(i) \/ PublishFails(i) \/ Crash(i)

Spec == Init /\ [][Next]_vars

\* Every instance runs its continuations and handlers, and Redis serves every
\* connection; nobody has to connect, broadcast or fail.
FairSpec ==
  Spec /\ \A i \in Instance : /\ WF_vars(ResumeSubscribe(i))
                              /\ WF_vars(ResumeBroadcast(i))
                              /\ WF_vars(ResumeHandler(i))
                              /\ WF_vars(HandleMessage(i))
                              /\ WF_vars(StoreExecutes(i))
                              /\ WF_vars(Publish(i))
-----------------------------------------------------------------------------
(* Properties.                                                             *)

Update == [event : Event, id : Nat]
Message == [origin : Instance, update : Update]
Operation == [kind : {"save", "resave"}, event : Event]
             \cup [kind : {"read"}, conn : Conn, after : Nat]
Reply == [op : Operation, ok : BOOLEAN, events : Seq(Update), head : Nat]

\* Types of every variable.
TypeOK ==
  /\ saved \in [Instance \cup {Shared} -> Seq(Event)]
  /\ call \in [Event -> {"new", "saving", "publishing", "done", "failed"}]
  /\ ops \in [Instance -> Seq(Operation)]
  /\ replies \in [Instance -> Seq(Reply)]
  /\ pubs \in [Instance -> Seq(Message)]
  /\ inbox \in [Instance -> Seq(Message)]
  /\ at \in [Conn -> Instance \cup {Nowhere}]
  /\ room \subseteq Conn
  /\ sub \in [Conn -> [stage : {"none", "reading", "done", "failed", "left"},
                       after : Nat, head : Nat]]
  /\ shown \in [Conn -> Seq([how : {"live", "replay"}, update : Update])]
  /\ lastError \in [Instance -> {"none", "replay", "broadcast"}]
  /\ faults \in Nat

ShownTo(c, how) == {m.update : m \in {x \in Members(shown[c]) : x.how \in how}}

\* Redis keeps what it was given: whatever a socket was sent, live or replayed, can
\* be found in the store again, under the replay id the socket was given.
ShownIsSaved ==
  StoreMode # "memory" =>
    \A c \in Conn : \A u \in ShownTo(c, {"live", "replay"}) :
      IF Stream THEN u.id \in DOMAIN Log /\ Log[u.id] = u.event
      ELSE u.event \in Members(Log)

\* An update is announced to a socket at most once, its origin's echo on the bus
\* and concurrent broadcasts notwithstanding, and has one replay id.
AnnouncedOnce ==
  /\ \A c \in Conn : \A m, n \in DOMAIN shown[c] :
       /\ shown[c][m].how = "live" /\ shown[c][n].how = "live"
       /\ shown[c][m].update.event = shown[c][n].update.event
       => m = n
  /\ Stream => \A m, n \in DOMAIN Log : Log[m] = Log[n] => m = n

\* Update u is still on its way to the sockets of instance i.
Coming(u, i) ==
  \/ \E r \in Members(replies[i]) : r.op.kind = "save" /\ u \in Members(r.events)
  \/ \E h \in Instance \ {i} :
       \/ \E r \in Members(replies[h]) : r.op.kind = "save" /\ u \in Members(r.events)
       \/ \E m \in Members(pubs[h]) : m.update = u
  \/ \E m \in Members(inbox[i]) : m.update = u /\ m.origin # i

\* The broadcast of e fails, or has failed, towards its caller.
Failing(e) ==
  \/ call[e] = "failed"
  \/ \E i \in Instance : \E r \in Members(replies[i]) :
       ~r.ok /\ r.op.kind = "save" /\ r.op.event = e

\* Between the replay and the live updates nothing falls through: a socket in the
\* room has every update saved since its replay was read, and what the replay owed
\* it (the next ReplayLimit updates after its cursor, or the latest one), unless
\* the update is still on its way or its broadcast failed.  Several instances need
\* a bus between them.
NoGap ==
  Stream /\ (BusMode = "redis" \/ \A i, j \in Instance : i = j) =>
    \A c \in room : sub[c].stage = "done" =>
      \A n \in DOMAIN Log :
        LET owed == IF sub[c].after = 0 THEN n = sub[c].head
                    ELSE n > sub[c].after /\ n <= sub[c].after + ReplayLimit
            u == Stamp(Log[n], n)
        IN  (n > sub[c].head \/ (n <= sub[c].head /\ owed)) =>
              \/ u \in ShownTo(c, {"live", "replay"})
              \/ n > sub[c].head /\ (Coming(u, at[c]) \/ Failing(Log[n]))

\* Every broadcast that does not fail reaches the sockets that were in the room when
\* it was called and stay there, on whatever instance.
AnnouncementArrives ==
  \A e \in Event, c \in Conn :
    (call[e] = "saving" /\ c \in room) ~>
      \/ \E u \in ShownTo(c, {"live"}) : u.event = e
      \/ c \notin room
      \/ call[e] = "failed"

\* No store call and no message is under way.
Settled ==
  \A i \in Instance : /\ ops[i] = <<>> /\ replies[i] = <<>>
                      /\ pubs[i] = <<>> /\ inbox[i] = <<>>

\* Once everything has settled, what a socket that subscribes without a cursor is
\* sent is the latest update: every other one was in the store before it.
LastIsLatest ==
  Settled /\ Log # <<>> =>
    LET last == Log[Len(Log)]
        first == CHOOSE n \in DOMAIN Log :
                   Log[n] = last /\ \A m \in 1 .. n - 1 : Log[m] # last
    IN  Members(Log) = {Log[n] : n \in 1 .. first}
=============================================================================
