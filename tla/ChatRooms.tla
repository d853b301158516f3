------------------------------ MODULE ChatRooms ------------------------------
(***************************************************************************)
(* Chat over MongoDB: rooms of two, their messages, leaving, and the event *)
(* handler that keeps a room's last message up to date.                    *)
(*                                                                         *)
(* Every await is one MongoDB operation on one collection, and between two *)
(* of them any other request or handler may run.  A request is a slot that *)
(* holds the operation it executes next; its reads and checks are the      *)
(* action that starts it, and one that is refused is no step.  Only        *)
(* leaveChatroom uses a transaction, and only on a replica set: from its   *)
(* first write to its commit it keeps other writers off the room document, *)
(* and it sees the messages as they were at that first write.              *)
(***************************************************************************)
EXTENDS Naturals, FiniteSets

CONSTANTS
  Users, Products,
  Rooms,      \* ids a room document may take; an id is used once
  Messages,   \* ids a message document may take; an id is used once
  Slots,      \* bound: how many requests overlap
  NoDoc,      \* "findOne returned null", and a room without a last message
  maxRetries, \* of BaseEventHandler: 3, a subclass may set its own
  Faults      \* whether an operation may fail, or the process stop, half-way

ASSUME ChatRoomsAssumption ==
  /\ Faults \in BOOLEAN
  /\ maxRetries \in Nat
  /\ NoDoc \notin Rooms \cup Messages
  /\ NoDoc \notin [product : Products, people : [1..2 -> Users], left : SUBSET (1..2),
                   count : 0..2, last : Messages \cup {NoDoc}]

VARIABLES
  room,         \* collection chat_rooms: id -> document
  message,      \* collection messages: id -> the room it belongs to
  replicaSet,   \* whether MongoDB runs as a replica set; fixed by the deployment
  request,      \* slot -> the operation the request in it executes next
  handler,      \* message id -> UpdateLastMessageHandler's run for its event
  \* History, read by properties and by the bounds only:
  opened,       \* rooms ever created
  newest,       \* room -> the message inserted into it last, while it existed
  stray,        \* messages inserted after their room was removed, or during a
                \* transaction that may remove it
  overlapped,   \* rooms that got a message while an earlier event was unhandled
  broken        \* rooms that a leave without a transaction died in

documents == <<room, message, replicaSet>>
history   == <<opened, newest, stray, overlapped, broken>>
vars      == <<room, message, replicaSet, request, handler,
               opened, newest, stray, overlapped, broken>>

-----------------------------------------------------------------------------
\* people are the two entries of participants, left those whose leftAt is set.
RoomDoc == [product : Products, people : [1..2 -> Users], left : SUBSET (1..2),
            count : 0..2, last : Messages \cup {NoDoc}]

Idle == [pc |-> "idle"]

Request ==
  {Idle}
  \cup [pc : {"saveRoom"}, product : Products, people : [1..2 -> Users]]
  \cup [pc : {"insertMessage", "checkEmpty", "deleteRoom", "deleteMessages"}, room : Rooms]
  \cup [pc : {"commit"}, room : Rooms, entry : 1..2, seen : SUBSET Messages]

Handler == [state : {"none", "running", "done", "dropped"}, retryCount : 0..maxRetries]

\* Types of every variable.
TypeOK ==
  /\ room \in [Rooms -> RoomDoc \cup {NoDoc}]
  /\ message \in [Messages -> Rooms \cup {NoDoc}]
  /\ replicaSet \in BOOLEAN
  /\ request \in [Slots -> Request]
  /\ handler \in [Messages -> Handler]
  /\ opened \subseteq Rooms
  /\ newest \in [Rooms -> Messages \cup {NoDoc}]
  /\ stray \subseteq Messages
  /\ overlapped \subseteq Rooms
  /\ broken \subseteq Rooms

Init ==
  /\ room = [r \in Rooms |-> NoDoc]
  /\ message = [m \in Messages |-> NoDoc]
  /\ replicaSet \in BOOLEAN
  /\ request = [s \in Slots |-> Idle]
  /\ handler = [m \in Messages |-> [state |-> "none", retryCount |-> 0]]
  /\ opened = {}
  /\ newest = [r \in Rooms |-> NoDoc]
  /\ stray = {} /\ overlapped = {} /\ broken = {}

-----------------------------------------------------------------------------
RoomExists(r) == room[r] # NoDoc
At(s, pc)     == request[s].pc = pc
Goto(s, next) == request' = [request EXCEPT ![s] = next]
Finish(s)     == Goto(s, Idle)

\* A transaction has written the room and has not committed.
Locked(r) == \E s \in Slots : At(s, "commit") /\ request[s].room = r

Unhandled(m) == handler[m].state \in {"running", "dropped"}
Fresh(m)     == handler[m].state = "none"

\* Bounds: a document is created only while an id is left for it.
Owing(pc)      == Cardinality({s \in Slots : At(s, pc)})
IdForRoom      == Owing("saveRoom") < Cardinality(Rooms \ opened)
IdForMessage   == Owing("insertMessage") < Cardinality({m \in Messages : Fresh(m)})

-----------------------------------------------------------------------------
(***************************************************************************)
(* Rooms and messages                                                      *)
(***************************************************************************)

\* The find of findOrCreateChatRoom: $all asks that both users are among the
\* participants, so for a user who writes to himself any room of his will do.
Matches(r, a, b, p) ==
  /\ RoomExists(r)
  /\ room[r].product = p
  /\ {a, b} \subseteq {room[r].people[1], room[r].people[2]}
  /\ room[r].count = 2

\* Seeded fault: every request opens a room of its own.
FindRoomAlways(s, a, b, p) ==
  /\ request[s] = Idle
  /\ IdForRoom
  /\ Goto(s, [pc |-> "saveRoom", product |-> p, people |-> <<a, b>>])
  /\ UNCHANGED <<documents, handler, history>>

\* Nothing found: a room will be saved.  A room found is returned as it is.
FindRoom(s, a, b, p) ==
  /\ request[s] = Idle
  /\ \A r \in Rooms : ~Matches(r, a, b, p)
  /\ IdForRoom
  /\ Goto(s, [pc |-> "saveRoom", product |-> p, people |-> <<a, b>>])
  /\ UNCHANGED <<documents, handler, history>>

SaveRoom(s, r) ==
  /\ At(s, "saveRoom")
  /\ r \notin opened
  /\ room' = [room EXCEPT ![r] =
       [product |-> request[s].product, people |-> request[s].people,
        left |-> {}, count |-> 2, last |-> NoDoc]]
  /\ opened' = opened \cup {r}
  /\ Finish(s)
  /\ UNCHANGED <<message, replicaSet, handler, newest, stray, overlapped, broken>>

\* sendMessage: the room must exist.  Nobody asks whether the sender and the
\* receiver are in it, so they play no part.
CheckRoom(s, r) ==
  /\ request[s] = Idle
  /\ RoomExists(r)
  /\ IdForMessage
  /\ Goto(s, [pc |-> "insertMessage", room |-> r])
  /\ UNCHANGED <<documents, handler, history>>

\* createMessage; its answer makes afterMessageSent emit MESSAGE_SENT, which
\* starts the handler.  An insert whose answer is lost is announced by nobody.
InsertMessage(s, m) ==
  /\ At(s, "insertMessage")
  /\ Fresh(m)
  /\ LET r == request[s].room IN
       /\ message' = [message EXCEPT ![m] = r]
       /\ IF RoomExists(r)
            THEN newest' = [newest EXCEPT ![r] = m] ELSE newest' = newest
       /\ stray' = IF RoomExists(r) /\ ~Locked(r) THEN stray ELSE stray \cup {m}
       /\ overlapped' = IF \E k \in Messages : message[k] = r /\ Unhandled(k)
                          THEN overlapped \cup {r} ELSE overlapped
  /\ \E announced \in {"running"} \cup (IF Faults THEN {"dropped"} ELSE {}) :
       handler' = [handler EXCEPT ![m].state = announced]
  /\ Finish(s)
  /\ UNCHANGED <<room, replicaSet, opened, broken>>

-----------------------------------------------------------------------------
(***************************************************************************)
(* UpdateLastMessageHandler, run by BaseEventHandler.execute               *)
(***************************************************************************)

\* An updateOne that matches no room is no error; one on a room that a
\* transaction has written waits for it.
SetLast(m) ==
  /\ ~Locked(message[m])
  /\ room' = [r \in Rooms |-> IF r = message[m] /\ RoomExists(r)
                                THEN [room[r] EXCEPT !.last = m] ELSE room[r]]

\* Seeded fault: the handler is done before its update.
HandleEventIdly(m) ==
  /\ handler[m].state = "running"
  /\ handler' = [handler EXCEPT ![m].state = "done"]
  /\ UNCHANGED <<documents, request, history>>

HandleEvent(m) ==
  /\ handler[m].state = "running"
  /\ SetLast(m)
  /\ handler' = [handler EXCEPT ![m].state = "done"]
  /\ UNCHANGED <<message, replicaSet, request, history>>

\* Seeded fault: the retry passes on the count it was given.
HandlerFailsForever(m) ==
  /\ Faults
  /\ handler[m].state = "running"
  /\ SetLast(m) \/ UNCHANGED room
  /\ UNCHANGED <<message, replicaSet, request, handler, history>>

\* An attempt fails, the update done or not: it is made again after a pause,
\* up to maxRetries times; then the event is given up.
HandlerFails(m) ==
  /\ Faults
  /\ handler[m].state = "running"
  /\ SetLast(m) \/ UNCHANGED room
  /\ handler' = IF handler[m].retryCount < maxRetries
                  THEN [handler EXCEPT ![m].retryCount = @ + 1]
                  ELSE [handler EXCEPT ![m].state = "dropped"]
  /\ UNCHANGED <<message, replicaSet, request, history>>

-----------------------------------------------------------------------------
(***************************************************************************)
(* Leaving                                                                 *)
(***************************************************************************)

\* Seeded fault: an entry that has left is found again.
PresentEver(r, u) == {i \in 1..2 : room[r].people[i] = u}

\* The entries of u that have not left, and the one that the positional
\* operator of markParticipantsAsLeft updates: the first.
Present(r, u) == {i \in 1..2 \ room[r].left : room[r].people[i] = u}
First(S)      == CHOOSE i \in S : \A j \in S : i <= j

WithLeft(r, i) == [room[r] EXCEPT !.left = @ \cup {i}, !.count = @ - 1]

Remove(r) == room' = [room EXCEPT ![r] = NoDoc]

MessagesOf(r) == {m \in Messages : message[m] = r}

\* deleteMany on conversationId, over the messages it sees.
RemoveMessages(seen) ==
  message' = [m \in Messages |-> IF m \in seen THEN NoDoc ELSE message[m]]

\* leaveChatroomWithTransaction, to its first write: another transaction that
\* has written the room is a conflict, and this one is made again later.
BeginLeave(s, r, u) ==
  /\ request[s] = Idle
  /\ replicaSet
  /\ RoomExists(r) /\ ~Locked(r)
  /\ Present(r, u) # {}
  /\ Goto(s, [pc |-> "commit", room |-> r, entry |-> First(Present(r, u)),
              seen |-> MessagesOf(r)])
  /\ UNCHANGED <<documents, handler, history>>

\* Its commit: the room is left, or removed with the messages seen.
CommitLeave(s) ==
  /\ At(s, "commit")
  /\ LET r == request[s].room
         d == WithLeft(r, request[s].entry) IN
       IF d.count = 0
         THEN Remove(r) /\ RemoveMessages(request[s].seen)
         ELSE room' = [room EXCEPT ![r] = d] /\ UNCHANGED message
  /\ Finish(s)
  /\ UNCHANGED <<replicaSet, handler, history>>

\* leaveChatroomWithoutTransaction, also on a replica set whenever the status
\* query of isReplicaSetAvailable fails.  Its first operation marks the entry,
\* and fails when there is none to mark.
MarkAsLeft(s, r, u) ==
  /\ request[s] = Idle
  /\ ~replicaSet \/ Faults
  /\ RoomExists(r) /\ ~Locked(r)
  /\ Present(r, u) # {}
  /\ room' = [room EXCEPT ![r] = WithLeft(r, First(Present(r, u)))]
  /\ Goto(s, [pc |-> "checkEmpty", room |-> r])
  /\ UNCHANGED <<message, replicaSet, handler, history>>

\* Seeded fault: the room is removed as soon as somebody has left it.
CheckEmptyTooEager(s) ==
  /\ At(s, "checkEmpty")
  /\ LET r == request[s].room IN
       IF RoomExists(r) /\ room[r].count <= 1
         THEN Goto(s, [pc |-> "deleteRoom", room |-> r])
         ELSE Finish(s)
  /\ UNCHANGED <<documents, handler, history>>

\* Seeded fault: a room is never found empty.
CheckEmptyNever(s) ==
  /\ At(s, "checkEmpty")
  /\ Finish(s)
  /\ UNCHANGED <<documents, handler, history>>

\* isChatRoomEmpty reads the room anew; a room that is gone is not empty.
CheckEmpty(s) ==
  /\ At(s, "checkEmpty")
  /\ LET r == request[s].room IN
       IF RoomExists(r) /\ room[r].count = 0
         THEN Goto(s, [pc |-> "deleteRoom", room |-> r])
         ELSE Finish(s)
  /\ UNCHANGED <<documents, handler, history>>

\* Seeded fault: the messages are forgotten.
DeleteRoomOnly(s) ==
  /\ At(s, "deleteRoom")
  /\ ~Locked(request[s].room)
  /\ Remove(request[s].room)
  /\ Finish(s)
  /\ UNCHANGED <<message, replicaSet, handler, history>>

DeleteRoom(s) ==
  /\ At(s, "deleteRoom")
  /\ ~Locked(request[s].room)
  /\ Remove(request[s].room)
  /\ Goto(s, [pc |-> "deleteMessages", room |-> request[s].room])
  /\ UNCHANGED <<message, replicaSet, handler, history>>

DeleteMessages(s) ==
  /\ At(s, "deleteMessages")
  /\ RemoveMessages(MessagesOf(request[s].room))
  /\ Finish(s)
  /\ UNCHANGED <<room, replicaSet, handler, history>>

-----------------------------------------------------------------------------
Leaving(s) == request[s].pc \in {"checkEmpty", "deleteRoom", "deleteMessages"}

\* An operation fails and the request ends where it stands.
Fail(s) ==
  /\ Faults
  /\ request[s] # Idle
  /\ broken' = IF Leaving(s) THEN broken \cup {request[s].room} ELSE broken
  /\ Finish(s)
  /\ UNCHANGED <<documents, handler, opened, newest, stray, overlapped>>

\* The process stops: requests and the events in its memory are gone.
Crash ==
  /\ Faults
  /\ broken' = broken \cup {request[s].room : s \in {x \in Slots : Leaving(x)}}
  /\ request' = [s \in Slots |-> Idle]
  /\ handler' = [m \in Messages |-> IF handler[m].state = "running"
                   THEN [handler[m] EXCEPT !.state = "dropped"] ELSE handler[m]]
  /\ UNCHANGED <<documents, opened, newest, stray, overlapped>>

\* What an admitted request does next.
Continue(s) ==
  \/ \E r \in Rooms : SaveRoom(s, r)
  \/ \E m \in Messages : InsertMessage(s, m)
  \/ CommitLeave(s) \/ CheckEmpty(s) \/ DeleteRoom(s) \/ DeleteMessages(s)

Attempt(m) == HandleEvent(m) \/ HandlerFails(m)

Next ==
  \/ \E s \in Slots :
       \/ \E a, b \in Users, p \in Products : FindRoom(s, a, b, p)
       \/ \E r \in Rooms : CheckRoom(s, r)
       \/ \E r \in Rooms, u \in Users : BeginLeave(s, r, u) \/ MarkAsLeft(s, r, u)
       \/ Continue(s) \/ Fail(s)
  \/ \E m \in Messages : Attempt(m)
  \/ Crash

\* Every operation that was sent is answered, if only by an error, and the
\* event loop starves no continuation.
Fairness ==
  /\ \A s \in Slots : WF_vars(Continue(s) \/ Fail(s))
  /\ \A m \in Messages : WF_vars(Attempt(m))

Spec == Init /\ [][Next]_vars /\ Fairness

-----------------------------------------------------------------------------
(***************************************************************************)
(* Properties                                                              *)
(***************************************************************************)

\* A room that nobody is left in is being removed by one of those who left,
\* unless a leave without a transaction died in it: whichever way two leaves
\* interleave, at least one of them finds the count at zero.
EmptyRoomIsRemoved ==
  \A r \in Rooms : RoomExists(r) /\ room[r].count = 0 /\ r \notin broken =>
    \E s \in Slots : request[s].pc \in {"checkEmpty", "deleteRoom"} /\ request[s].room = r

\* No message stays behind its room, other than one inserted after the removal,
\* or while the removing transaction ran, by a request that still saw the room.
NoMessageLeftBehind ==
  \A m \in Messages \ stray :
    message[m] # NoDoc /\ ~RoomExists(message[m]) /\ message[m] \notin broken =>
      \E s \in Slots : At(s, "deleteMessages") /\ request[s].room = message[m]

\* The comment above findOrCreateChatRoom accepts duplicate rooms for want of
\* concurrency control: there are never more of them than overlapping requests.
Asked(s, r)  == /\ At(s, "saveRoom")
                /\ request[s].product = room[r].product
                /\ {request[s].people[i] : i \in 1..2} = {room[r].people[i] : i \in 1..2}
Twins(r)     == {x \in Rooms : /\ RoomExists(x)
                               /\ room[x].count = 2
                               /\ room[x].product = room[r].product
                               /\ {room[x].people[i] : i \in 1..2}
                                    = {room[r].people[i] : i \in 1..2}}
DuplicatesBounded ==
  \A r \in Rooms : RoomExists(r) /\ room[r].count = 2 =>
    Cardinality(Twins(r)) + Cardinality({s \in Slots : Asked(s, r)}) <= Cardinality(Slots)

\* Once its events are handled a room shows the message inserted into it last,
\* provided no message was inserted while the event of an earlier one was still
\* to be handled: only overlapping events can leave an older message on show.
LastMessageIsNewest ==
  \A r \in Rooms \ overlapped :
    RoomExists(r) /\ (\A m \in Messages : message[m] = r => ~Unhandled(m))
      => room[r].last = newest[r]

\* The chat keeps the promise of RoomLife: a room opens with two entries, each of
\* them is left once, and the room is removed only when both are left or by the
\* commit that leaves the last, although the removal acts on a count read earlier;
\* and a room that was removed never comes back.
HalfLeft(r) == {request[s].entry : s \in {t \in Slots : At(t, "commit") /\ request[t].room = r}}

LifeOf(r) ==
  IF r \notin opened    THEN [is |-> "unopened", staying |-> {}, leaving |-> {}]
  ELSE IF RoomExists(r) THEN [is |-> "open", staying |-> 1..2 \ room[r].left, leaving |-> HalfLeft(r)]
                        ELSE [is |-> "gone", staying |-> {}, leaving |-> {}]

Life == INSTANCE RoomLife WITH Rooms <- Rooms, Members <- 1..2,
                               lives <- [r \in Rooms |-> LifeOf(r)]

FollowsRoomLife == Life!Spec

\* A room everybody has left goes away.
EmptyRoomGoes ==
  \A r \in Rooms :
    RoomExists(r) /\ room[r].count = 0 ~> ~RoomExists(r) \/ r \in broken

\* Every event is dealt with in the end: handled, or given up.
EventSettles ==
  \A m \in Messages : handler[m].state = "running" ~> handler[m].state \in {"done", "dropped"}

\* chat-room.schema.ts: lastMessage is the content of the last message.
LastMessageIsLast ==
  \A r \in Rooms :
    RoomExists(r) /\ (\A m \in Messages : message[m] = r => ~Unhandled(m))
      => room[r].last = newest[r]
=============================================================================
