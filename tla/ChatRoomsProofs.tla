--------------------------- MODULE ChatRoomsProofs ---------------------------
(***************************************************************************)
(* Proofs about the chat over MongoDB, for any number of users, rooms,     *)
(* messages and overlapping requests, on a replica set or not, with or     *)
(* without faults.  One inductive invariant carries the safety properties; *)
(* the bound on duplicate rooms has one of its own.                        *)
(***************************************************************************)
EXTENDS ChatRooms, FiniteSetTheorems, TLAPS

USE ChatRoomsAssumption

\* How many of the two entries have not left.
Staying(left) == (IF 1 \in left THEN 0 ELSE 1) + (IF 2 \in left THEN 0 ELSE 1)

\* participantCount is decremented beside the mark it counts, never apart from it.
CountsRight ==
  \A r \in Rooms : RoomExists(r) => room[r].count = Staying(room[r].left)

\* An id that has not been used is referred to by nothing.
IdsOnce ==
  /\ \A r \in Rooms \ opened : ~RoomExists(r) /\ newest[r] = NoDoc /\ MessagesOf(r) = {}
  /\ \A s \in Slots : request[s].pc \notin {"idle", "saveRoom"} => request[s].room \in opened
  /\ \A m \in Messages : Fresh(m) => message[m] = NoDoc

\* Until it commits, a transaction has the room to itself: its entry has not left,
\* no other transaction has written the room, and the messages it will remove are
\* those of the room, all but the ones that came after it began.
CommitsSound ==
  \A s \in Slots : At(s, "commit") =>
    LET r == request[s].room IN
      /\ RoomExists(r) /\ request[s].entry \notin room[r].left
      /\ \A t \in Slots : At(t, "commit") /\ request[t].room = r => t = s
      /\ MessagesOf(r) \ stray \subseteq request[s].seen
      /\ \A m \in request[s].seen : message[m] \in {r, NoDoc} /\ ~Fresh(m)

\* A count of zero that has been read is zero for good; what follows the removal
\* of a room finds it removed.
RemovalsSound ==
  \A s \in Slots :
    /\ At(s, "deleteRoom") /\ RoomExists(request[s].room) => room[request[s].room].count = 0
    /\ At(s, "deleteMessages") => ~RoomExists(request[s].room)

\* Of a room whose events never overlapped, only the newest message's is pending.
OnlyNewestUnhandled ==
  \A r \in Rooms \ overlapped : \A m \in MessagesOf(r) :
    RoomExists(r) /\ Unhandled(m) => m = newest[r]

Base == TypeOK /\ CountsRight /\ IdsOnce /\ CommitsSound /\ RemovalsSound

IInv ==
  /\ Base
  /\ EmptyRoomIsRemoved
  /\ NoMessageLeftBehind
  /\ OnlyNewestUnhandled
  /\ LastMessageIsNewest

-----------------------------------------------------------------------------
\* What the type of a request says of its fields.
LEMMA RequestFields ==
  ASSUME TypeOK, NEW s \in Slots
  PROVE  /\ request[s].pc \in {"idle", "saveRoom", "insertMessage", "checkEmpty",
                               "deleteRoom", "deleteMessages", "commit"}
         /\ request[s].pc = "idle" <=> request[s] = Idle
         /\ request[s].pc \notin {"idle", "saveRoom"} => request[s].room \in Rooms
         /\ At(s, "commit") => request[s].entry \in 1..2 /\ request[s].seen \in SUBSET Messages
         /\ At(s, "saveRoom") => /\ request[s].product \in Products
                                 /\ request[s].people \in [1..2 -> Users]
<1>1. request[s] \in Request
  BY DEF TypeOK
<1>2. Idle.pc = "idle"
  BY DEF Idle
<1>. QED
  BY <1>1, <1>2 DEF Request, At

LEMMA RoomFields ==
  ASSUME TypeOK, NEW r \in Rooms, RoomExists(r)
  PROVE  room[r] \in RoomDoc
  BY DEF TypeOK, RoomExists

LEMMA DocIsNotNoDoc == \A d \in RoomDoc : d # NoDoc
  BY DEF RoomDoc

LEMMA IdleIsRequest == Idle \in Request /\ Idle.pc = "idle"
  BY DEF Request, Idle

\* Where Goto leaves the slots.
LEMMA Moved ==
  ASSUME TypeOK, NEW s \in Slots, NEW next \in Request, Goto(s, next)
  PROVE  /\ request' \in [Slots -> Request]
         /\ request'[s] = next
         /\ \A t \in Slots \ {s} : request'[t] = request[t]
  BY DEF Goto, TypeOK

-----------------------------------------------------------------------------
(***************************************************************************)
(* Steps that write no document                                            *)
(***************************************************************************)

\* A request goes on, or ends, without a write.  It may not leave behind what it
\* was the one to do: the removal of an empty room, or of a removed room's messages.
LEMMA RequestMoves ==
  ASSUME IInv, NEW s \in Slots, NEW next \in Request, Goto(s, next),
         UNCHANGED <<room, message, replicaSet, handler, opened, newest, stray, overlapped>>,
         broken \subseteq broken', broken' \subseteq Rooms,
         next.pc \notin {"idle", "saveRoom"} => next.room \in opened,
         next.pc \notin {"commit", "deleteMessages"},
         next.pc = "deleteRoom" /\ RoomExists(next.room) => room[next.room].count = 0,
         At(s, "checkEmpty") \/ At(s, "deleteRoom") =>
           \/ next.pc \in {"checkEmpty", "deleteRoom"} /\ next.room = request[s].room
           \/ ~(RoomExists(request[s].room) /\ room[request[s].room].count = 0)
           \/ request[s].room \in broken',
         At(s, "deleteMessages") => request[s].room \in broken'
  PROVE  IInv'
<1>1. TypeOK
  BY DEF IInv, Base
<1>2. /\ request' \in [Slots -> Request]
      /\ request'[s] = next
      /\ \A t \in Slots \ {s} : request'[t] = request[t]
  BY <1>1, Moved
<1>3. TypeOK' /\ CountsRight'
  BY <1>1, <1>2 DEF IInv, Base, TypeOK, CountsRight, RoomExists
<1>4. IdsOnce'
  BY <1>2 DEF IInv, Base, IdsOnce, RoomExists, MessagesOf, Fresh
<1>5. CommitsSound'
  BY <1>2 DEF IInv, Base, CommitsSound, RoomExists, MessagesOf, Fresh, At
<1>6. RemovalsSound'
  BY <1>2 DEF IInv, Base, RemovalsSound, RoomExists, At
<1>7. EmptyRoomIsRemoved'
  BY <1>2 DEF IInv, EmptyRoomIsRemoved, RoomExists, At
<1>8. NoMessageLeftBehind'
  BY <1>2 DEF IInv, NoMessageLeftBehind, RoomExists, At
<1>9. OnlyNewestUnhandled' /\ LastMessageIsNewest'
  BY DEF IInv, OnlyNewestUnhandled, LastMessageIsNewest, RoomExists, MessagesOf, Unhandled
<1>. QED
  BY <1>3, <1>4, <1>5, <1>6, <1>7, <1>8, <1>9 DEF IInv, Base

LEMMA FindRoomStep ==
  ASSUME IInv, NEW s \in Slots, NEW a \in Users, NEW b \in Users, NEW p \in Products,
         FindRoom(s, a, b, p)
  PROVE  IInv'
<1> DEFINE next == [pc |-> "saveRoom", product |-> p, people |-> <<a, b>>]
<1>1. next \in Request
  BY DEF Request
<1>2. next.pc = "saveRoom" /\ Goto(s, next) /\ request[s].pc = "idle"
  BY IdleIsRequest DEF FindRoom
<1>. HIDE DEF next
<1>. QED
  BY <1>1, <1>2, RequestMoves DEF FindRoom, documents, history, At, IInv, Base, TypeOK

LEMMA CheckRoomStep ==
  ASSUME IInv, NEW s \in Slots, NEW r \in Rooms, CheckRoom(s, r)
  PROVE  IInv'
<1> DEFINE next == [pc |-> "insertMessage", room |-> r]
<1>1. next \in Request
  BY DEF Request
<1>2. next.pc = "insertMessage" /\ next.room = r /\ Goto(s, next) /\ request[s].pc = "idle"
  BY IdleIsRequest DEF CheckRoom
<1>3. r \in opened
  BY DEF CheckRoom, IInv, Base, IdsOnce
<1>. HIDE DEF next
<1>. QED
  BY <1>1, <1>2, <1>3, RequestMoves DEF CheckRoom, documents, history, At, IInv, Base, TypeOK

\* The count is read again: whoever finds it at zero goes on to the removal.
LEMMA CheckEmptyStep ==
  ASSUME IInv, NEW s \in Slots, CheckEmpty(s)
  PROVE  IInv'
<1> DEFINE r == request[s].room
           next == [pc |-> "deleteRoom", room |-> r]
<1>1. /\ request[s].pc = "checkEmpty" /\ r \in Rooms /\ r \in opened
      /\ UNCHANGED <<room, message, replicaSet, handler, opened, newest, stray, overlapped, broken>>
      /\ broken \subseteq Rooms
  BY RequestFields DEF CheckEmpty, At, IInv, Base, IdsOnce, documents, history, TypeOK
<1>2. CASE RoomExists(r) /\ room[r].count = 0
  <2>1. next \in Request /\ next.pc = "deleteRoom" /\ next.room = r
    BY <1>1 DEF Request
  <2>2. Goto(s, next)
    BY <1>2 DEF CheckEmpty
  <2>. HIDE DEF next
  <2>. QED
    BY <1>1, <1>2, <2>1, <2>2, RequestMoves DEF At
<1>3. CASE ~(RoomExists(r) /\ room[r].count = 0)
  <2>1. Goto(s, Idle)
    BY <1>3 DEF CheckEmpty, Finish
  <2>. QED
    BY <1>1, <1>3, <2>1, RequestMoves, IdleIsRequest DEF At
<1>. QED
  BY <1>2, <1>3

LEMMA FailStep ==
  ASSUME IInv, NEW s \in Slots, Fail(s)
  PROVE  IInv'
<1>1. /\ Goto(s, Idle)
      /\ UNCHANGED <<room, message, replicaSet, handler, opened, newest, stray, overlapped>>
      /\ broken' = IF Leaving(s) THEN broken \cup {request[s].room} ELSE broken
  BY DEF Fail, Finish, documents
<1>2. broken \subseteq broken' /\ broken' \subseteq Rooms
  BY <1>1, RequestFields DEF IInv, Base, TypeOK, Leaving
<1>3. At(s, "checkEmpty") \/ At(s, "deleteRoom") \/ At(s, "deleteMessages") =>
        request[s].room \in broken'
  BY <1>1 DEF At, Leaving
<1>. QED
  BY <1>1, <1>2, <1>3, RequestMoves, IdleIsRequest

\* A transaction begins: it takes the room that no other has, an entry that has
\* not left, and the messages of that moment.
LEMMA BeginLeaveStep ==
  ASSUME IInv, NEW s \in Slots, NEW r \in Rooms, NEW u \in Users, BeginLeave(s, r, u)
  PROVE  IInv'
<1> DEFINE i == First(Present(r, u))
           next == [pc |-> "commit", room |-> r, entry |-> i, seen |-> MessagesOf(r)]
<1>1. i \in Present(r, u)
  <2>1. Present(r, u) # {} /\ Present(r, u) \subseteq 1..2
    BY DEF BeginLeave, Present
  <2>2. \E k \in Present(r, u) : \A j \in Present(r, u) : k <= j
    BY <2>1
  <2>. QED
    BY <2>2 DEF First
<1>2. i \in 1..2 /\ i \notin room[r].left
  BY <1>1 DEF Present
<1>. HIDE DEF i
<1>3. TypeOK
  BY DEF IInv, Base
<1>4. next \in Request
  BY <1>2 DEF Request, MessagesOf
<1>5. /\ Goto(s, next) /\ RoomExists(r) /\ ~Locked(r) /\ request[s].pc = "idle"
      /\ UNCHANGED <<room, message, replicaSet, handler, opened, newest, stray, overlapped, broken>>
  BY IdleIsRequest DEF BeginLeave, documents, history, i
<1>6. next.pc = "commit" /\ next.room = r /\ next.entry = i /\ next.seen = MessagesOf(r)
  OBVIOUS
<1>. HIDE DEF next
<1>7. /\ request' \in [Slots -> Request]
      /\ request'[s] = next
      /\ \A t \in Slots \ {s} : request'[t] = request[t]
  BY <1>3, <1>4, <1>5, Moved
<1>8. TypeOK' /\ CountsRight'
  BY <1>3, <1>5, <1>7 DEF IInv, Base, TypeOK, CountsRight, RoomExists
<1>9. IdsOnce'
  BY <1>5, <1>6, <1>7 DEF IInv, Base, IdsOnce, RoomExists, MessagesOf, Fresh
<1>10. CommitsSound'
  <2> SUFFICES ASSUME NEW t \in Slots, At(t, "commit")', NEW x, x = request'[t].room
               PROVE  /\ room'[x] # NoDoc /\ request'[t].entry \notin room'[x].left
                      /\ \A v \in Slots : At(v, "commit")' /\ request'[v].room = x => v = t
                      /\ {m \in Messages : message'[m] = x} \ stray' \subseteq request'[t].seen
                      /\ \A m \in request'[t].seen :
                           message'[m] \in {x, NoDoc} /\ handler'[m].state # "none"
    BY DEF CommitsSound, RoomExists, MessagesOf, Fresh
  <2>1. \A v \in Slots \ {s} : At(v, "commit") => request[v].room # r
    BY <1>5 DEF Locked
  <2>2. CASE t = s
    <3>1. \A m \in MessagesOf(r) : message[m] = r /\ ~Fresh(m)
      BY DEF MessagesOf, IInv, Base, IdsOnce
    <3>. QED
      BY <1>2, <1>5, <1>6, <1>7, <2>1, <2>2, <3>1 DEF At, RoomExists, MessagesOf, Fresh
  <2>3. CASE t # s
    BY <1>5, <1>6, <1>7, <2>1, <2>3
       DEF IInv, Base, CommitsSound, At, RoomExists, MessagesOf, Fresh
  <2>. QED
    BY <2>2, <2>3
<1>11. RemovalsSound'
  BY <1>5, <1>6, <1>7 DEF IInv, Base, RemovalsSound, RoomExists, At
<1>12. EmptyRoomIsRemoved' /\ NoMessageLeftBehind'
  BY <1>5, <1>7 DEF IInv, EmptyRoomIsRemoved, NoMessageLeftBehind, RoomExists, At
<1>13. OnlyNewestUnhandled' /\ LastMessageIsNewest'
  BY <1>5 DEF IInv, OnlyNewestUnhandled, LastMessageIsNewest, RoomExists, MessagesOf, Unhandled
<1>. QED
  BY <1>8, <1>9, <1>10, <1>11, <1>12, <1>13 DEF IInv, Base

-----------------------------------------------------------------------------
(***************************************************************************)
(* Steps that write documents                                              *)
(***************************************************************************)

\* The room takes an id that nothing refers to.
LEMMA SaveRoomStep ==
  ASSUME IInv, NEW s \in Slots, NEW r \in Rooms, SaveRoom(s, r)
  PROVE  IInv'
<1> DEFINE doc == [product |-> request[s].product, people |-> request[s].people,
                   left |-> {}, count |-> 2, last |-> NoDoc]
<1>1. TypeOK
  BY DEF IInv, Base
<1>2. doc \in RoomDoc /\ doc # NoDoc /\ doc.left = {} /\ doc.count = 2 /\ doc.last = NoDoc
  <2>1. doc \in RoomDoc
    BY <1>1, RequestFields DEF SaveRoom, RoomDoc
  <2>. QED
    BY <2>1, DocIsNotNoDoc
<1>3. room' = [room EXCEPT ![r] = doc]
  BY DEF SaveRoom
<1>. HIDE DEF doc
<1>4. /\ room'[r] = doc /\ \A x \in Rooms \ {r} : room'[x] = room[x]
      /\ room' \in [Rooms -> RoomDoc \cup {NoDoc}]
  BY <1>1, <1>2, <1>3 DEF TypeOK
<1>5. /\ request' \in [Slots -> Request]
      /\ request'[s] = Idle /\ \A t \in Slots \ {s} : request'[t] = request[t]
  BY <1>1, Moved, IdleIsRequest DEF SaveRoom, Finish
<1>6. /\ request[s].pc = "saveRoom" /\ r \notin opened /\ opened' = opened \cup {r}
      /\ UNCHANGED <<message, replicaSet, handler, newest, stray, overlapped, broken>>
  BY DEF SaveRoom, At
<1>7. ~RoomExists(r) /\ newest[r] = NoDoc /\ MessagesOf(r) = {}
  BY <1>6 DEF IInv, Base, IdsOnce
<1>8. \A t \in Slots : request'[t].pc \notin {"idle", "saveRoom"} =>
        request'[t] = request[t] /\ request[t].room \in opened /\ request[t].room # r
  BY <1>5, <1>6, IdleIsRequest DEF IInv, Base, IdsOnce
<1>9. TypeOK'
  BY <1>1, <1>4, <1>5, <1>6 DEF TypeOK
<1>10. CountsRight'
  BY <1>2, <1>4 DEF IInv, Base, CountsRight, RoomExists, Staying
<1>11. IdsOnce'
  BY <1>4, <1>6, <1>8 DEF IInv, Base, IdsOnce, RoomExists, MessagesOf, Fresh
<1>12. CommitsSound'
  <2> SUFFICES ASSUME NEW t \in Slots, At(t, "commit")', NEW x, x = request'[t].room
               PROVE  /\ room'[x] # NoDoc /\ request'[t].entry \notin room'[x].left
                      /\ \A v \in Slots : At(v, "commit")' /\ request'[v].room = x => v = t
                      /\ {m \in Messages : message'[m] = x} \ stray' \subseteq request'[t].seen
                      /\ \A m \in request'[t].seen :
                           message'[m] \in {x, NoDoc} /\ handler'[m].state # "none"
    BY DEF CommitsSound, RoomExists, MessagesOf, Fresh
  <2>1. request'[t] = request[t] /\ x # r /\ x \in Rooms /\ At(t, "commit")
    BY <1>1, <1>8, RequestFields DEF At
  <2>2. room'[x] = room[x]
    BY <1>4, <2>1
  <2>. QED
    BY <1>6, <1>8, <2>1, <2>2 DEF IInv, Base, CommitsSound, RoomExists, MessagesOf, Fresh, At
<1>13. RemovalsSound'
  BY <1>1, <1>4, <1>8, RequestFields DEF IInv, Base, RemovalsSound, RoomExists, At
<1>14. EmptyRoomIsRemoved'
  BY <1>2, <1>4, <1>5, <1>6 DEF IInv, EmptyRoomIsRemoved, RoomExists
<1>15. NoMessageLeftBehind'
  <2>1. \A m \in Messages : message[m] # NoDoc => message[m] \in Rooms \ {r}
    BY <1>1, <1>7 DEF TypeOK, MessagesOf
  <2>. QED
    BY <1>4, <1>5, <1>6, <2>1 DEF IInv, NoMessageLeftBehind, RoomExists, At
<1>16. OnlyNewestUnhandled' /\ LastMessageIsNewest'
  BY <1>2, <1>4, <1>6, <1>7
     DEF IInv, OnlyNewestUnhandled, LastMessageIsNewest, RoomExists, MessagesOf, Unhandled
<1>. QED
  BY <1>9, <1>10, <1>11, <1>12, <1>13, <1>14, <1>15, <1>16 DEF IInv, Base

\* A message that comes while its room is being removed is a stray, one that comes
\* while an earlier event is pending marks the room.
LEMMA InsertMessageStep ==
  ASSUME IInv, NEW s \in Slots, NEW n \in Messages, InsertMessage(s, n)
  PROVE  IInv'
<1>1. TypeOK
  BY DEF IInv, Base
<1>2. PICK r \in Rooms : r = request[s].room
  BY <1>1, RequestFields DEF InsertMessage, At
<1>3. /\ request[s].pc = "insertMessage" /\ r \in opened /\ Fresh(n) /\ message[n] = NoDoc
      /\ UNCHANGED <<room, replicaSet, opened, broken>>
  BY <1>2 DEF InsertMessage, At, IInv, Base, IdsOnce
<1>4. /\ request' \in [Slots -> Request]
      /\ request'[s] = Idle /\ \A t \in Slots \ {s} : request'[t] = request[t]
  BY <1>1, Moved, IdleIsRequest DEF InsertMessage, Finish
<1>5. /\ message' \in [Messages -> Rooms \cup {NoDoc}]
      /\ message'[n] = r /\ \A m \in Messages \ {n} : message'[m] = message[m]
  BY <1>1, <1>2 DEF InsertMessage, TypeOK
<1>6. /\ newest' \in [Rooms -> Messages \cup {NoDoc}]
      /\ RoomExists(r) => newest'[r] = n
      /\ ~RoomExists(r) => newest' = newest
      /\ \A x \in Rooms \ {r} : newest'[x] = newest[x]
  BY <1>1, <1>2 DEF InsertMessage, TypeOK
<1>7. /\ stray \subseteq stray' /\ stray' \subseteq stray \cup {n} /\ stray' \subseteq Messages
      /\ ~RoomExists(r) \/ Locked(r) => n \in stray'
  BY <1>1, <1>2 DEF InsertMessage, TypeOK
<1>8. /\ overlapped \subseteq overlapped' /\ overlapped' \subseteq overlapped \cup {r}
      /\ r \notin overlapped' => \A k \in MessagesOf(r) : ~Unhandled(k)
  BY <1>2 DEF InsertMessage, MessagesOf
<1>9. /\ handler' \in [Messages -> Handler]
      /\ handler'[n].state \in {"running", "dropped"}
      /\ \A m \in Messages \ {n} : handler'[m] = handler[m]
  BY <1>1 DEF InsertMessage, TypeOK, Handler
<1>10. Idle.pc = "idle"
  BY IdleIsRequest
<1>11. TypeOK' /\ CountsRight'
  BY <1>1, <1>3, <1>4, <1>5, <1>6, <1>7, <1>8, <1>9 DEF IInv, Base, TypeOK, CountsRight, RoomExists
<1>12. IdsOnce'
  BY <1>3, <1>4, <1>5, <1>6, <1>9, <1>10 DEF IInv, Base, IdsOnce, RoomExists, MessagesOf, Fresh
<1>13. CommitsSound'
  <2> SUFFICES ASSUME NEW t \in Slots, At(t, "commit")', NEW x, x = request'[t].room
               PROVE  /\ room'[x] # NoDoc /\ request'[t].entry \notin room'[x].left
                      /\ \A v \in Slots : At(v, "commit")' /\ request'[v].room = x => v = t
                      /\ {m \in Messages : message'[m] = x} \ stray' \subseteq request'[t].seen
                      /\ \A m \in request'[t].seen :
                           message'[m] \in {x, NoDoc} /\ handler'[m].state # "none"
    BY DEF CommitsSound, RoomExists, MessagesOf, Fresh
  <2>1. request'[t] = request[t] /\ At(t, "commit") /\ request[t].seen \subseteq Messages
    BY <1>1, <1>4, <1>10, RequestFields DEF At
  <2>2. x = r => n \in stray'
    BY <1>7, <2>1 DEF Locked
  <2>3. n \notin request[t].seen
    BY <1>3, <2>1 DEF IInv, Base, CommitsSound
  <2>. QED
    BY <1>3, <1>4, <1>5, <1>7, <1>9, <1>10, <2>1, <2>2, <2>3
       DEF IInv, Base, CommitsSound, RoomExists, MessagesOf, Fresh, At
<1>14. RemovalsSound'
  BY <1>3, <1>4, <1>10 DEF IInv, Base, RemovalsSound, RoomExists, At
<1>15. EmptyRoomIsRemoved'
  BY <1>3, <1>4 DEF IInv, EmptyRoomIsRemoved, RoomExists
<1>16. NoMessageLeftBehind'
  BY <1>3, <1>4, <1>5, <1>7 DEF IInv, NoMessageLeftBehind, RoomExists, At
<1>17. OnlyNewestUnhandled'
  BY <1>3, <1>5, <1>6, <1>8, <1>9 DEF IInv, OnlyNewestUnhandled, RoomExists, MessagesOf, Unhandled
<1>18. LastMessageIsNewest'
  BY <1>3, <1>5, <1>6, <1>8, <1>9 DEF IInv, LastMessageIsNewest, RoomExists, MessagesOf, Unhandled
<1>. QED
  BY <1>11, <1>12, <1>13, <1>14, <1>15, <1>16, <1>17, <1>18 DEF IInv, Base

\* An attempt of the handler, successful or not: it writes nothing but `last`, and
\* that only of a room no transaction has written.
LEMMA AttemptStep ==
  ASSUME IInv, NEW n \in Messages, Attempt(n)
  PROVE  IInv'
<1>1. TypeOK
  BY DEF IInv, Base
<1>2. /\ handler[n].state = "running"
      /\ UNCHANGED <<message, replicaSet, request, opened, newest, stray, overlapped, broken>>
      /\ SetLast(n) \/ UNCHANGED room
  BY DEF Attempt, HandleEvent, HandlerFails, history
<1>3. /\ handler' \in [Messages -> Handler]
      /\ \A m \in Messages \ {n} : handler'[m] = handler[m]
      /\ handler'[n].state \in {"running", "done", "dropped"}
      /\ handler'[n].state = "done" => SetLast(n)
  <2>1. CASE HandleEvent(n)
    BY <1>1, <2>1 DEF HandleEvent, TypeOK, Handler
  <2>2. CASE HandlerFails(n)
    <3>1. handler[n] \in Handler
      BY <1>1 DEF TypeOK
    <3>2. CASE handler[n].retryCount < maxRetries
      BY <1>1, <2>2, <3>1, <3>2 DEF HandlerFails, TypeOK, Handler
    <3>3. CASE ~(handler[n].retryCount < maxRetries)
      BY <1>1, <2>2, <3>1, <3>3 DEF HandlerFails, TypeOK, Handler
    <3>. QED
      BY <3>2, <3>3
  <2>. QED
    BY <2>1, <2>2 DEF Attempt
<1>4. ASSUME NEW r \in Rooms
      PROVE  /\ room'[r] \in RoomDoc \cup {NoDoc} /\ RoomExists(r)' = RoomExists(r)
             /\ RoomExists(r) => /\ room'[r].left = room[r].left
                                 /\ room'[r].count = room[r].count
                                 /\ room'[r].last \in {room[r].last, n}
                                 /\ message[n] # r => room'[r].last = room[r].last
                                 /\ SetLast(n) /\ message[n] = r => room'[r].last = n
  <2>1. CASE UNCHANGED room
    <3>1. SetLast(n) /\ message[n] = r /\ RoomExists(r) => room[r].last = n
      <4>1. ASSUME SetLast(n), message[n] = r, RoomExists(r)
            PROVE  room[r].last = n
        <5>1. room[r] = [room[r] EXCEPT !.last = n]
          BY <2>1, <4>1 DEF SetLast
        <5>2. room[r] \in RoomDoc
          BY <1>1, <4>1, RoomFields
        <5>. QED
          BY <5>1, <5>2 DEF RoomDoc
      <4>. QED
        BY <4>1
    <3>. QED
      BY <1>1, <2>1, <3>1 DEF TypeOK, RoomExists
  <2>2. CASE SetLast(n)
    <3>1. room'[r] = IF r = message[n] /\ RoomExists(r)
                       THEN [room[r] EXCEPT !.last = n] ELSE room[r]
      BY <2>2 DEF SetLast
    <3>2. CASE r = message[n] /\ RoomExists(r)
      <4>1. room[r] \in RoomDoc
        BY <1>1, <3>2, RoomFields
      <4>2. room'[r] = [room[r] EXCEPT !.last = n]
        BY <3>1, <3>2
      <4>3. room'[r] \in RoomDoc
        BY <4>1, <4>2 DEF RoomDoc
      <4>4. room'[r] # NoDoc
        BY <4>3, DocIsNotNoDoc
      <4>. QED
        BY <3>2, <4>1, <4>2, <4>3, <4>4 DEF RoomDoc, RoomExists
    <3>3. CASE ~(r = message[n] /\ RoomExists(r))
      BY <1>1, <3>1, <3>3 DEF TypeOK, RoomExists
    <3>. QED
      BY <3>2, <3>3
  <2>. QED
    BY <1>2, <2>1, <2>2
<1>5. room' \in [Rooms -> RoomDoc \cup {NoDoc}]
  <2>1. CASE UNCHANGED room
    BY <1>1, <2>1 DEF TypeOK
  <2>2. CASE SetLast(n)
    BY <1>4, <2>2 DEF SetLast
  <2>. QED
    BY <1>2, <2>1, <2>2
<1>6. TypeOK'
  BY <1>1, <1>2, <1>3, <1>5 DEF TypeOK
<1>7. CountsRight'
  BY <1>4 DEF IInv, Base, CountsRight
<1>8. IdsOnce'
  BY <1>2, <1>3, <1>4 DEF IInv, Base, IdsOnce, MessagesOf, Fresh
<1>9. CommitsSound'
  <2> SUFFICES ASSUME NEW t \in Slots, At(t, "commit"), NEW x, x = request[t].room
               PROVE  /\ RoomExists(x)' /\ request[t].entry \notin room'[x].left
                      /\ \A v \in Slots : At(v, "commit") /\ request[v].room = x => v = t
                      /\ {m \in Messages : message[m] = x} \ stray \subseteq request[t].seen
                      /\ \A m \in request[t].seen :
                           message[m] \in {x, NoDoc} /\ handler'[m].state # "none"
    BY <1>2 DEF CommitsSound, RoomExists, MessagesOf, Fresh, At
  <2>1. x \in Rooms /\ request[t].seen \subseteq Messages
    BY <1>1, RequestFields DEF At
  <2>2. /\ RoomExists(x) /\ request[t].entry \notin room[x].left
        /\ \A v \in Slots : At(v, "commit") /\ request[v].room = x => v = t
        /\ MessagesOf(x) \ stray \subseteq request[t].seen
        /\ \A m \in request[t].seen : message[m] \in {x, NoDoc} /\ ~Fresh(m)
    BY DEF IInv, Base, CommitsSound
  <2>3. RoomExists(x)' /\ room'[x].left = room[x].left
    BY <1>4, <2>1, <2>2
  <2>. QED
    BY <1>3, <2>1, <2>2, <2>3 DEF MessagesOf, Fresh
<1>10. RemovalsSound'
  BY <1>1, <1>2, <1>4, RequestFields DEF IInv, Base, RemovalsSound, At
<1>11. EmptyRoomIsRemoved'
  BY <1>2, <1>4 DEF IInv, EmptyRoomIsRemoved
<1>12. NoMessageLeftBehind'
  BY <1>1, <1>2, <1>4 DEF IInv, NoMessageLeftBehind, At, TypeOK
<1>13. OnlyNewestUnhandled'
  BY <1>2, <1>3, <1>4 DEF IInv, OnlyNewestUnhandled, MessagesOf, Unhandled
<1>14. LastMessageIsNewest'
  <2> SUFFICES ASSUME NEW r \in Rooms \ overlapped, RoomExists(r),
                      \A m \in Messages : message[m] = r => ~Unhandled(m)'
               PROVE  room'[r].last = newest[r]
    BY <1>2, <1>4 DEF LastMessageIsNewest
  <2>1. CASE message[n] = r
    <3>1. n = newest[r]
      BY <1>2, <2>1 DEF IInv, OnlyNewestUnhandled, MessagesOf, Unhandled
    <3>2. SetLast(n)
      BY <1>3, <2>1 DEF Unhandled
    <3>. QED
      BY <1>4, <2>1, <3>1, <3>2
  <2>2. CASE message[n] # r
    BY <1>3, <1>4, <2>2 DEF IInv, LastMessageIsNewest, Unhandled
  <2>. QED
    BY <2>1, <2>2
<1>. QED
  BY <1>6, <1>7, <1>8, <1>9, <1>10, <1>11, <1>12, <1>13, <1>14 DEF IInv, Base

-----------------------------------------------------------------------------
(***************************************************************************)
(* Leaving                                                                 *)
(***************************************************************************)

\* One more entry is marked, one less is counted.
LEMMA LeftOnceMore ==
  ASSUME IInv, NEW r \in Rooms, RoomExists(r), NEW i \in 1..2, i \notin room[r].left
  PROVE  /\ WithLeft(r, i) \in RoomDoc
         /\ WithLeft(r, i).left = room[r].left \cup {i}
         /\ WithLeft(r, i).count = Staying(room[r].left \cup {i})
         /\ WithLeft(r, i).count = room[r].count - 1
         /\ WithLeft(r, i).last = room[r].last
         /\ room[r].count # 0
<1>1. PICK d \in RoomDoc : d = room[r]
  BY RoomFields DEF IInv, Base
<1>2. d.count = Staying(d.left) /\ d.left \in SUBSET (1..2)
  BY <1>1 DEF IInv, Base, CountsRight, RoomDoc
<1>3. i = 1 \/ i = 2
  OBVIOUS
<1>4. /\ Staying(d.left \cup {i}) = d.count - 1
      /\ d.count - 1 \in 0..2
      /\ d.count # 0
  BY <1>1, <1>2, <1>3 DEF Staying
<1>5. WithLeft(r, i) = [d EXCEPT !.left = d.left \cup {i}, !.count = d.count - 1]
  BY <1>1 DEF WithLeft
<1>6. WithLeft(r, i) = [product |-> d.product, people |-> d.people,
                       left |-> d.left \cup {i}, count |-> d.count - 1, last |-> d.last]
  BY <1>5 DEF RoomDoc
<1>7. d.left \cup {i} \in SUBSET (1..2)
  BY <1>2, <1>3
<1>8. WithLeft(r, i) \in RoomDoc
  BY <1>4, <1>6, <1>7 DEF RoomDoc
<1>9. /\ WithLeft(r, i).left = d.left \cup {i}
      /\ WithLeft(r, i).count = d.count - 1
      /\ WithLeft(r, i).last = d.last
  BY <1>6
<1>. QED
  BY <1>1, <1>4, <1>8, <1>9

LEMMA MarkAsLeftStep ==
  ASSUME IInv, NEW s \in Slots, NEW r \in Rooms, NEW u \in Users, MarkAsLeft(s, r, u)
  PROVE  IInv'
<1> DEFINE next == [pc |-> "checkEmpty", room |-> r]
<1>1. TypeOK
  BY DEF IInv, Base
<1>2. PICK i \in 1..2 : i = First(Present(r, u)) /\ i \notin room[r].left
  <2>1. Present(r, u) # {} /\ Present(r, u) \subseteq 1..2
    BY DEF MarkAsLeft, Present
  <2>2. \E k \in Present(r, u) : \A j \in Present(r, u) : k <= j
    BY <2>1
  <2>3. First(Present(r, u)) \in Present(r, u)
    BY <2>2 DEF First
  <2>. QED
    BY <2>3 DEF Present
<1>3. RoomExists(r) /\ ~Locked(r) /\ request[s].pc = "idle" /\ r \in opened
  BY IdleIsRequest DEF MarkAsLeft, IInv, Base, IdsOnce
<1>4. /\ UNCHANGED <<message, replicaSet, handler, opened, newest, stray, overlapped, broken>>
      /\ room' = [room EXCEPT ![r] = WithLeft(r, i)]
      /\ Goto(s, next)
  BY <1>2 DEF MarkAsLeft, history
<1>5. next \in Request /\ next.pc = "checkEmpty" /\ next.room = r
  BY DEF Request
<1>. HIDE DEF next
<1>6. /\ request' \in [Slots -> Request]
      /\ request'[s] = next
      /\ \A t \in Slots \ {s} : request'[t] = request[t]
  BY <1>1, <1>4, <1>5, Moved
<1>7. /\ room' \in [Rooms -> RoomDoc \cup {NoDoc}]
      /\ RoomExists(r)'
      /\ room'[r].left = room[r].left \cup {i}
      /\ room'[r].count = Staying(room'[r].left)
      /\ room'[r].last = room[r].last
      /\ room[r].count # 0
      /\ \A x \in Rooms \ {r} : room'[x] = room[x]
  <2>1. /\ WithLeft(r, i) \in RoomDoc
        /\ WithLeft(r, i).left = room[r].left \cup {i}
        /\ WithLeft(r, i).count = Staying(room[r].left \cup {i})
        /\ WithLeft(r, i).last = room[r].last
        /\ room[r].count # 0
    BY <1>2, <1>3, LeftOnceMore
  <2>2. WithLeft(r, i) # NoDoc
    BY <2>1, DocIsNotNoDoc
  <2>3. room'[r] = WithLeft(r, i) /\ \A x \in Rooms \ {r} : room'[x] = room[x]
    BY <1>1, <1>4 DEF TypeOK
  <2>4. room' \in [Rooms -> RoomDoc \cup {NoDoc}]
    BY <1>1, <1>4, <2>1 DEF TypeOK
  <2>. QED
    BY <2>1, <2>2, <2>3, <2>4 DEF RoomExists
<1>8. TypeOK' /\ CountsRight'
  BY <1>1, <1>4, <1>6, <1>7 DEF IInv, Base, TypeOK, CountsRight, RoomExists
<1>9. IdsOnce'
  BY <1>3, <1>4, <1>5, <1>6, <1>7 DEF IInv, Base, IdsOnce, RoomExists, MessagesOf, Fresh
<1>10. CommitsSound'
  <2> SUFFICES ASSUME NEW t \in Slots, At(t, "commit")', NEW x, x = request'[t].room
               PROVE  /\ room'[x] # NoDoc /\ request'[t].entry \notin room'[x].left
                      /\ \A v \in Slots : At(v, "commit")' /\ request'[v].room = x => v = t
                      /\ {m \in Messages : message'[m] = x} \ stray' \subseteq request'[t].seen
                      /\ \A m \in request'[t].seen :
                           message'[m] \in {x, NoDoc} /\ handler'[m].state # "none"
    BY DEF CommitsSound, RoomExists, MessagesOf, Fresh
  <2>1. request'[t] = request[t] /\ At(t, "commit") /\ x \in Rooms /\ x # r
    BY <1>1, <1>3, <1>5, <1>6, RequestFields DEF At, Locked
  <2>. QED
    BY <1>4, <1>5, <1>6, <1>7, <2>1
       DEF IInv, Base, CommitsSound, RoomExists, MessagesOf, Fresh, At
<1>11. RemovalsSound'
  <2>1. \A t \in Slots : At(t, "deleteRoom") => request[t].room # r
    BY <1>3, <1>7 DEF IInv, Base, RemovalsSound
  <2>2. \A t \in Slots : At(t, "deleteMessages") => request[t].room # r
    BY <1>3 DEF IInv, Base, RemovalsSound
  <2>. QED
    BY <1>1, <1>5, <1>6, <1>7, <2>1, <2>2, RequestFields
       DEF IInv, Base, RemovalsSound, RoomExists, At
<1>12. EmptyRoomIsRemoved'
  BY <1>3, <1>4, <1>5, <1>6, <1>7 DEF IInv, EmptyRoomIsRemoved, RoomExists
<1>13. NoMessageLeftBehind'
  BY <1>1, <1>3, <1>4, <1>6, <1>7 DEF IInv, NoMessageLeftBehind, RoomExists, At, TypeOK
<1>14. OnlyNewestUnhandled' /\ LastMessageIsNewest'
  BY <1>3, <1>4, <1>7
     DEF IInv, OnlyNewestUnhandled, LastMessageIsNewest, RoomExists, MessagesOf, Unhandled
<1>. QED
  BY <1>8, <1>9, <1>10, <1>11, <1>12, <1>13, <1>14 DEF IInv, Base

\* RemoveMessages takes messages away and adds none.
LEMMA MessagesRemoved ==
  ASSUME TypeOK, NEW seen \in SUBSET Messages, RemoveMessages(seen)
  PROVE  /\ message' \in [Messages -> Rooms \cup {NoDoc}]
         /\ \A m \in seen : message'[m] = NoDoc
         /\ \A m \in Messages \ seen : message'[m] = message[m]
  BY DEF RemoveMessages, TypeOK

\* What the removal of a room's messages, or of none, leaves true.
LEMMA CommitLeaveStep ==
  ASSUME IInv, NEW s \in Slots, CommitLeave(s)
  PROVE  IInv'
<1>1. TypeOK
  BY DEF IInv, Base
<1>2. PICK r \in Rooms, i \in 1..2, seen \in SUBSET Messages :
        r = request[s].room /\ i = request[s].entry /\ seen = request[s].seen
  BY <1>1, RequestFields DEF CommitLeave, At
<1>3. /\ request[s].pc = "commit" /\ RoomExists(r) /\ i \notin room[r].left
      /\ \A t \in Slots \ {s} : At(t, "commit") => request[t].room # r
      /\ MessagesOf(r) \ stray \subseteq seen
      /\ \A m \in seen : message[m] \in {r, NoDoc} /\ ~Fresh(m)
      /\ r \in opened
  BY <1>2 DEF CommitLeave, At, IInv, Base, CommitsSound, IdsOnce
<1>4. /\ request' \in [Slots -> Request]
      /\ request'[s] = Idle /\ \A t \in Slots \ {s} : request'[t] = request[t]
  BY <1>1, Moved, IdleIsRequest DEF CommitLeave, Finish
<1>5. UNCHANGED <<replicaSet, handler, opened, newest, stray, overlapped, broken>>
  BY DEF CommitLeave, history
<1>6. Idle.pc = "idle" /\ room[r].count # 0
  BY <1>2, <1>3, IdleIsRequest, LeftOnceMore
\* The two outcomes have in common:
<1>7. /\ room' \in [Rooms -> RoomDoc \cup {NoDoc}]
      /\ message' \in [Messages -> Rooms \cup {NoDoc}]
      /\ \A x \in Rooms \ {r} : room'[x] = room[x]
      /\ \A m \in Messages : message'[m] # message[m] => message[m] = r /\ message'[m] = NoDoc
      /\ RoomExists(r)' => /\ message' = message /\ room'[r].last = room[r].last
                           /\ room'[r].count = Staying(room'[r].left)
                           /\ room'[r].count # 0
      /\ ~RoomExists(r)' => \A m \in Messages \ stray : message'[m] # r
  <2>1. CASE WithLeft(r, i).count = 0
    <3>1. room' = [room EXCEPT ![r] = NoDoc] /\ RemoveMessages(seen)
      BY <1>2, <2>1 DEF CommitLeave, Remove
    <3>2. /\ message' \in [Messages -> Rooms \cup {NoDoc}]
          /\ \A m \in seen : message'[m] = NoDoc
          /\ \A m \in Messages \ seen : message'[m] = message[m]
      BY <1>1, <3>1, MessagesRemoved
    <3>3. ~RoomExists(r)' /\ \A x \in Rooms \ {r} : room'[x] = room[x]
      BY <1>1, <3>1 DEF TypeOK, RoomExists
    <3>4. room' \in [Rooms -> RoomDoc \cup {NoDoc}]
      BY <1>1, <3>1 DEF TypeOK
    <3>5. \A m \in Messages \ stray : message'[m] # r
      BY <1>3, <3>2 DEF MessagesOf
    <3>. QED
      BY <1>3, <3>2, <3>3, <3>4, <3>5
  <2>2. CASE WithLeft(r, i).count # 0
    <3>1. room' = [room EXCEPT ![r] = WithLeft(r, i)] /\ message' = message
      BY <1>2, <2>2 DEF CommitLeave
    <3>2. /\ WithLeft(r, i) \in RoomDoc
          /\ WithLeft(r, i).left = room[r].left \cup {i}
          /\ WithLeft(r, i).count = Staying(room[r].left \cup {i})
          /\ WithLeft(r, i).last = room[r].last
      BY <1>3, LeftOnceMore
    <3>3. WithLeft(r, i) # NoDoc
      BY <3>2, DocIsNotNoDoc
    <3>4. room'[r] = WithLeft(r, i) /\ \A x \in Rooms \ {r} : room'[x] = room[x]
      BY <1>1, <3>1 DEF TypeOK
    <3>5. room' \in [Rooms -> RoomDoc \cup {NoDoc}]
      BY <1>1, <3>1, <3>2 DEF TypeOK
    <3>6. RoomExists(r)'
      BY <3>3, <3>4 DEF RoomExists
    <3>. QED
      BY <1>1, <2>2, <3>1, <3>2, <3>4, <3>5, <3>6 DEF TypeOK
  <2>. QED
    BY <2>1, <2>2
<1>8. TypeOK' /\ CountsRight'
  BY <1>1, <1>4, <1>5, <1>7 DEF IInv, Base, TypeOK, CountsRight, RoomExists
<1>9. IdsOnce'
  BY <1>3, <1>4, <1>5, <1>6, <1>7 DEF IInv, Base, IdsOnce, RoomExists, MessagesOf, Fresh
<1>10. CommitsSound'
  <2> SUFFICES ASSUME NEW t \in Slots, At(t, "commit")', NEW x, x = request'[t].room
               PROVE  /\ room'[x] # NoDoc /\ request'[t].entry \notin room'[x].left
                      /\ \A v \in Slots : At(v, "commit")' /\ request'[v].room = x => v = t
                      /\ {m \in Messages : message'[m] = x} \ stray' \subseteq request'[t].seen
                      /\ \A m \in request'[t].seen :
                           message'[m] \in {x, NoDoc} /\ handler'[m].state # "none"
    BY DEF CommitsSound, RoomExists, MessagesOf, Fresh
  <2>1. /\ request'[t] = request[t] /\ At(t, "commit") /\ x \in Rooms /\ x # r
        /\ request[t].seen \subseteq Messages
    BY <1>1, <1>3, <1>4, <1>6, RequestFields DEF At
  <2>. QED
    BY <1>4, <1>5, <1>6, <1>7, <2>1
       DEF IInv, Base, CommitsSound, RoomExists, MessagesOf, Fresh, At
<1>11. RemovalsSound'
  <2>1. \A t \in Slots : At(t, "deleteRoom") \/ At(t, "deleteMessages") => request[t].room # r
    BY <1>3, <1>6 DEF IInv, Base, RemovalsSound
  <2>. QED
    BY <1>1, <1>4, <1>6, <1>7, <2>1, RequestFields
       DEF IInv, Base, RemovalsSound, RoomExists, At
<1>12. EmptyRoomIsRemoved'
  BY <1>3, <1>4, <1>5, <1>7 DEF IInv, EmptyRoomIsRemoved, RoomExists
<1>13. NoMessageLeftBehind'
  BY <1>1, <1>3, <1>4, <1>5, <1>7 DEF IInv, NoMessageLeftBehind, RoomExists, At, TypeOK
<1>14. OnlyNewestUnhandled' /\ LastMessageIsNewest'
  <2>1. ASSUME NEW x \in Rooms, RoomExists(x)', NEW m \in Messages
        PROVE  message'[m] = x <=> message[m] = x
    BY <1>7, <2>1
  <2>. QED
    BY <1>3, <1>5, <1>7, <2>1
       DEF IInv, OnlyNewestUnhandled, LastMessageIsNewest, RoomExists, MessagesOf, Unhandled
<1>. QED
  BY <1>8, <1>9, <1>10, <1>11, <1>12, <1>13, <1>14 DEF IInv, Base

LEMMA DeleteRoomStep ==
  ASSUME IInv, NEW s \in Slots, DeleteRoom(s)
  PROVE  IInv'
<1>1. TypeOK
  BY DEF IInv, Base
<1>2. PICK r \in Rooms : r = request[s].room
  BY <1>1, RequestFields DEF DeleteRoom, At
<1> DEFINE next == [pc |-> "deleteMessages", room |-> r]
<1>3. /\ request[s].pc = "deleteRoom" /\ ~Locked(r) /\ r \in opened /\ Goto(s, next)
      /\ room' = [room EXCEPT ![r] = NoDoc]
      /\ UNCHANGED <<message, replicaSet, handler, opened, newest, stray, overlapped, broken>>
  BY <1>2 DEF DeleteRoom, At, Remove, IInv, Base, IdsOnce, history
<1>4. next \in Request /\ next.pc = "deleteMessages" /\ next.room = r
  BY DEF Request
<1>. HIDE DEF next
<1>5. /\ request' \in [Slots -> Request]
      /\ request'[s] = next
      /\ \A t \in Slots \ {s} : request'[t] = request[t]
  BY <1>1, <1>3, <1>4, Moved
<1>6. /\ room' \in [Rooms -> RoomDoc \cup {NoDoc}]
      /\ room'[r] = NoDoc /\ \A x \in Rooms \ {r} : room'[x] = room[x]
  BY <1>1, <1>3 DEF TypeOK
<1>7. TypeOK' /\ CountsRight'
  BY <1>1, <1>3, <1>5, <1>6 DEF IInv, Base, TypeOK, CountsRight, RoomExists
<1>8. IdsOnce'
  BY <1>3, <1>4, <1>5, <1>6 DEF IInv, Base, IdsOnce, RoomExists, MessagesOf, Fresh
<1>9. CommitsSound'
  <2> SUFFICES ASSUME NEW t \in Slots, At(t, "commit")', NEW x, x = request'[t].room
               PROVE  /\ room'[x] # NoDoc /\ request'[t].entry \notin room'[x].left
                      /\ \A v \in Slots : At(v, "commit")' /\ request'[v].room = x => v = t
                      /\ {m \in Messages : message'[m] = x} \ stray' \subseteq request'[t].seen
                      /\ \A m \in request'[t].seen :
                           message'[m] \in {x, NoDoc} /\ handler'[m].state # "none"
    BY DEF CommitsSound, RoomExists, MessagesOf, Fresh
  <2>1. request'[t] = request[t] /\ At(t, "commit") /\ x \in Rooms /\ x # r
    BY <1>1, <1>3, <1>4, <1>5, RequestFields DEF At, Locked
  <2>. QED
    BY <1>3, <1>4, <1>5, <1>6, <2>1
       DEF IInv, Base, CommitsSound, RoomExists, MessagesOf, Fresh, At
<1>10. RemovalsSound'
  BY <1>1, <1>4, <1>5, <1>6, RequestFields DEF IInv, Base, RemovalsSound, RoomExists, At
<1>11. EmptyRoomIsRemoved'
  BY <1>2, <1>3, <1>5, <1>6 DEF IInv, EmptyRoomIsRemoved, RoomExists
<1>12. NoMessageLeftBehind'
  BY <1>1, <1>3, <1>4, <1>5, <1>6 DEF IInv, NoMessageLeftBehind, RoomExists, At, TypeOK
<1>13. OnlyNewestUnhandled' /\ LastMessageIsNewest'
  BY <1>3, <1>6
     DEF IInv, OnlyNewestUnhandled, LastMessageIsNewest, RoomExists, MessagesOf, Unhandled
<1>. QED
  BY <1>7, <1>8, <1>9, <1>10, <1>11, <1>12, <1>13 DEF IInv, Base

\* Only messages of rooms that are gone are removed.
LEMMA DeleteMessagesStep ==
  ASSUME IInv, NEW s \in Slots, DeleteMessages(s)
  PROVE  IInv'
<1>1. TypeOK
  BY DEF IInv, Base
<1>2. PICK r \in Rooms : r = request[s].room
  BY <1>1, RequestFields DEF DeleteMessages, At
<1>3. /\ request[s].pc = "deleteMessages" /\ ~RoomExists(r)
      /\ UNCHANGED <<room, replicaSet, handler, opened, newest, stray, overlapped, broken>>
  BY <1>2 DEF DeleteMessages, At, IInv, Base, RemovalsSound, history
<1>4. /\ request' \in [Slots -> Request]
      /\ request'[s] = Idle /\ \A t \in Slots \ {s} : request'[t] = request[t]
      /\ Idle.pc = "idle"
  BY <1>1, Moved, IdleIsRequest DEF DeleteMessages, Finish
<1>5. /\ message' \in [Messages -> Rooms \cup {NoDoc}]
      /\ \A m \in Messages : message'[m] = IF message[m] = r THEN NoDoc ELSE message[m]
  <2>1. MessagesOf(r) \in SUBSET Messages /\ RemoveMessages(MessagesOf(r))
    BY <1>2 DEF DeleteMessages, MessagesOf
  <2>. QED
    BY <1>1, <2>1, MessagesRemoved DEF MessagesOf
<1>6. TypeOK' /\ CountsRight'
  BY <1>1, <1>3, <1>4, <1>5 DEF IInv, Base, TypeOK, CountsRight, RoomExists
<1>7. IdsOnce'
  BY <1>3, <1>4, <1>5 DEF IInv, Base, IdsOnce, RoomExists, MessagesOf, Fresh
<1>8. CommitsSound'
  <2> SUFFICES ASSUME NEW t \in Slots, At(t, "commit")', NEW x, x = request'[t].room
               PROVE  /\ room'[x] # NoDoc /\ request'[t].entry \notin room'[x].left
                      /\ \A v \in Slots : At(v, "commit")' /\ request'[v].room = x => v = t
                      /\ {m \in Messages : message'[m] = x} \ stray' \subseteq request'[t].seen
                      /\ \A m \in request'[t].seen :
                           message'[m] \in {x, NoDoc} /\ handler'[m].state # "none"
    BY DEF CommitsSound, RoomExists, MessagesOf, Fresh
  <2>1. request'[t] = request[t] /\ At(t, "commit") /\ x \in Rooms
        /\ request[t].seen \subseteq Messages
    BY <1>1, <1>4, RequestFields DEF At
  <2>. QED
    BY <1>3, <1>4, <1>5, <2>1 DEF IInv, Base, CommitsSound, RoomExists, MessagesOf, Fresh, At
<1>9. RemovalsSound'
  BY <1>3, <1>4 DEF IInv, Base, RemovalsSound, RoomExists, At
<1>10. EmptyRoomIsRemoved'
  BY <1>3, <1>4 DEF IInv, EmptyRoomIsRemoved, RoomExists
<1>11. NoMessageLeftBehind'
  BY <1>1, <1>2, <1>3, <1>4, <1>5 DEF IInv, NoMessageLeftBehind, RoomExists, At, TypeOK
<1>12. OnlyNewestUnhandled' /\ LastMessageIsNewest'
  <2>1. ASSUME NEW x \in Rooms, RoomExists(x), NEW m \in Messages
        PROVE  message'[m] = x <=> message[m] = x
    BY <1>3, <1>5, <2>1 DEF RoomExists
  <2>. QED
    BY <1>3, <2>1
       DEF IInv, OnlyNewestUnhandled, LastMessageIsNewest, RoomExists, MessagesOf, Unhandled
<1>. QED
  BY <1>6, <1>7, <1>8, <1>9, <1>10, <1>11, <1>12 DEF IInv, Base

\* The process stops: what was being removed is broken, and no event is forgotten.
LEMMA CrashStep ==
  ASSUME IInv, Crash
  PROVE  IInv'
<1>1. TypeOK
  BY DEF IInv, Base
<1>2. /\ UNCHANGED <<room, message, replicaSet, opened, newest, stray, overlapped>>
      /\ broken' = broken \cup {request[s].room : s \in {x \in Slots : Leaving(x)}}
      /\ request' = [s \in Slots |-> Idle]
      /\ handler' = [m \in Messages |-> IF handler[m].state = "running"
                       THEN [handler[m] EXCEPT !.state = "dropped"] ELSE handler[m]]
  BY DEF Crash, documents
<1>3. \A s \in Slots : request'[s].pc = "idle"
  BY <1>2, IdleIsRequest
<1>4. \A s \in Slots : Leaving(s) => request[s].room \in Rooms /\ request[s].room \in broken'
  BY <1>1, <1>2, RequestFields DEF Leaving
<1>5. /\ handler' \in [Messages -> Handler]
      /\ \A m \in Messages : (Unhandled(m)' <=> Unhandled(m)) /\ (Fresh(m)' <=> Fresh(m))
  <2>1. ASSUME NEW m \in Messages
        PROVE  handler'[m] \in Handler /\ (Unhandled(m)' <=> Unhandled(m))
                 /\ (Fresh(m)' <=> Fresh(m))
    <3>1. handler[m] \in Handler
      BY <1>1 DEF TypeOK
    <3>. QED
      BY <1>2, <3>1 DEF Handler, Unhandled, Fresh
  <2>. QED
    BY <1>2, <2>1
<1>6. TypeOK'
  BY <1>1, <1>2, <1>4, <1>5, IdleIsRequest DEF TypeOK
<1>7. CountsRight' /\ IdsOnce'
  BY <1>2, <1>3, <1>5 DEF IInv, Base, CountsRight, IdsOnce, RoomExists, MessagesOf
<1>8. CommitsSound' /\ RemovalsSound'
  BY <1>3 DEF CommitsSound, RemovalsSound, At
<1>9. EmptyRoomIsRemoved' /\ NoMessageLeftBehind'
  BY <1>2, <1>4 DEF IInv, EmptyRoomIsRemoved, NoMessageLeftBehind, RoomExists, At, Leaving
<1>10. OnlyNewestUnhandled' /\ LastMessageIsNewest'
  BY <1>2, <1>5 DEF IInv, OnlyNewestUnhandled, LastMessageIsNewest, RoomExists, MessagesOf
<1>. QED
  BY <1>6, <1>7, <1>8, <1>9, <1>10 DEF IInv, Base

-----------------------------------------------------------------------------
(***************************************************************************)
(* The invariant, and what follows from it                                 *)
(***************************************************************************)
LEMMA InitIInv == Init => IInv
<1> SUFFICES ASSUME Init PROVE IInv
  OBVIOUS
<1>1. /\ \A r \in Rooms : ~RoomExists(r) /\ newest[r] = NoDoc
      /\ \A m \in Messages : message[m] = NoDoc /\ Fresh(m)
      /\ \A s \in Slots : request[s] = Idle /\ request[s].pc = "idle"
      /\ NoDoc \notin Rooms
  BY IdleIsRequest DEF Init, RoomExists, Fresh
<1>2. TypeOK
  <2>1. [state |-> "none", retryCount |-> 0] \in Handler
    BY DEF Handler
  <2>. QED
    BY <2>1, IdleIsRequest DEF Init, TypeOK
<1>3. CountsRight /\ EmptyRoomIsRemoved /\ OnlyNewestUnhandled /\ LastMessageIsNewest
  BY <1>1 DEF CountsRight, EmptyRoomIsRemoved, OnlyNewestUnhandled, LastMessageIsNewest
<1>4. IdsOnce
  BY <1>1 DEF IdsOnce, MessagesOf
<1>5. CommitsSound /\ RemovalsSound
  BY <1>1 DEF CommitsSound, RemovalsSound, At
<1>6. NoMessageLeftBehind
  BY <1>1 DEF NoMessageLeftBehind
<1>. QED
  BY <1>2, <1>3, <1>4, <1>5, <1>6 DEF IInv, Base

LEMMA NextIInv ==
  ASSUME IInv, [Next]_vars
  PROVE  IInv'
<1>1. CASE UNCHANGED vars
  BY <1>1 DEF vars, IInv, Base, TypeOK, CountsRight, IdsOnce, CommitsSound, RemovalsSound,
       EmptyRoomIsRemoved, NoMessageLeftBehind, OnlyNewestUnhandled, LastMessageIsNewest,
       RoomExists, MessagesOf, Fresh, Unhandled, At
<1>2. CASE \E s \in Slots, a, b \in Users, p \in Products : FindRoom(s, a, b, p)
  BY <1>2, FindRoomStep
<1>3. CASE \E s \in Slots, r \in Rooms : CheckRoom(s, r)
  BY <1>3, CheckRoomStep
<1>4. CASE \E s \in Slots, r \in Rooms, u \in Users : BeginLeave(s, r, u)
  BY <1>4, BeginLeaveStep
<1>5. CASE \E s \in Slots, r \in Rooms, u \in Users : MarkAsLeft(s, r, u)
  BY <1>5, MarkAsLeftStep
<1>6. CASE \E s \in Slots : Continue(s)
  BY <1>6, SaveRoomStep, InsertMessageStep, CommitLeaveStep, CheckEmptyStep,
     DeleteRoomStep, DeleteMessagesStep DEF Continue
<1>7. CASE \E s \in Slots : Fail(s)
  BY <1>7, FailStep
<1>8. CASE \E m \in Messages : Attempt(m)
  BY <1>8, AttemptStep
<1>9. CASE Crash
  BY <1>9, CrashStep
<1>. QED
  BY <1>1, <1>2, <1>3, <1>4, <1>5, <1>6, <1>7, <1>8, <1>9 DEF Next

LEMMA Invariance == Spec => []IInv
<1>1. IInv /\ [Next]_vars => IInv'
  BY NextIInv
<1>. QED
  BY InitIInv, <1>1, PTL DEF Spec

\* The types of every variable.
THEOREM TypeCorrect == Spec => []TypeOK
<1>1. IInv => TypeOK
  BY DEF IInv, Base
<1>. QED
  BY <1>1, Invariance, PTL

\* However many leaves overlap, a room that everybody has left is being removed
\* by one of them, unless a leave without a transaction died in it.
THEOREM EmptyRoomsRemoved == Spec => []EmptyRoomIsRemoved
<1>1. IInv => EmptyRoomIsRemoved
  BY DEF IInv
<1>. QED
  BY <1>1, Invariance, PTL

\* Of a removed room, the only messages that stay for good are those inserted
\* after the removal, or while the transaction that removed it ran.
THEOREM NoMessagesLeft == Spec => []NoMessageLeftBehind
<1>1. IInv => NoMessageLeftBehind
  BY DEF IInv
<1>. QED
  BY <1>1, Invariance, PTL

\* A room whose events never overlapped shows, once they are handled, the message
\* inserted into it last; retries and given-up events included.
THEOREM LastMessageShown == Spec => []LastMessageIsNewest
<1>1. IInv => LastMessageIsNewest
  BY DEF IInv
<1>. QED
  BY <1>1, Invariance, PTL

-----------------------------------------------------------------------------
(***************************************************************************)
(* What a step may do to a room                                            *)
(***************************************************************************)

\* The entries of a room whose leave is under way: that of its transaction.
LEMMA HalfLeftIs ==
  ASSUME IInv, NEW r \in Rooms
  PROVE  /\ ~Locked(r) => HalfLeft(r) = {}
         /\ \A s \in Slots : At(s, "commit") /\ request[s].room = r =>
              HalfLeft(r) = {request[s].entry} /\ request[s].entry \in 1..2 \ room[r].left
<1>1. ~Locked(r) => HalfLeft(r) = {}
  BY DEF Locked, HalfLeft
<1>2. ASSUME NEW s \in Slots, At(s, "commit"), request[s].room = r
      PROVE  HalfLeft(r) = {request[s].entry} /\ request[s].entry \in 1..2 \ room[r].left
  <2>1. \A t \in Slots : At(t, "commit") /\ request[t].room = r => t = s
    BY <1>2 DEF IInv, Base, CommitsSound
  <2>2. request[s].entry \in 1..2 /\ request[s].entry \notin room[r].left
    BY <1>2, RequestFields DEF IInv, Base, CommitsSound
  <2>. QED
    BY <1>2, <2>1, <2>2 DEF HalfLeft
<1>. QED
  BY <1>1, <1>2

\* A request that begins no transaction may end the one it is in.
LEMMA HalfLeftAfter ==
  ASSUME IInv, NEW s \in Slots, NEW next \in Request, Goto(s, next), next.pc # "commit",
         NEW r \in Rooms
  PROVE  HalfLeft(r)' = IF At(s, "commit") /\ request[s].room = r THEN {} ELSE HalfLeft(r)
<1>1. /\ request'[s] = next
      /\ \A t \in Slots \ {s} : request'[t] = request[t]
  BY Moved DEF IInv, Base
<1>2. CASE At(s, "commit") /\ request[s].room = r
  <2>1. \A t \in Slots : At(t, "commit") /\ request[t].room = r => t = s
    BY <1>2 DEF IInv, Base, CommitsSound
  <2>2. \A t \in Slots : ~(request'[t].pc = "commit" /\ request'[t].room = r)
    BY <1>1, <2>1 DEF At
  <2>. QED
    BY <1>2, <2>2 DEF HalfLeft, At
<1>3. CASE ~(At(s, "commit") /\ request[s].room = r)
  <2>1. \A t \in Slots : /\ (request'[t].pc = "commit" /\ request'[t].room = r)
                              <=> (request[t].pc = "commit" /\ request[t].room = r)
                         /\ (request[t].pc = "commit" /\ request[t].room = r)
                              => request'[t].entry = request[t].entry
    BY <1>1, <1>3 DEF At
  <2>2. {t \in Slots : request'[t].pc = "commit" /\ request'[t].room = r}
          = {t \in Slots : request[t].pc = "commit" /\ request[t].room = r}
    BY <2>1
  <2>. QED
    BY <1>3, <2>1, <2>2 DEF HalfLeft, At
<1>. QED
  BY <1>2, <1>3

\* Of a room that stays, a step changes neither product nor people, and never
\* brings a member back; one leaves at a time, and no other leave is under way.
LeftBy(x, i) ==
  /\ i \notin room[x].left /\ room'[x].left = room[x].left \cup {i}
  /\ HalfLeft(x) \subseteq {i} /\ HalfLeft(x)' = {}

Kept(x) ==
  /\ RoomExists(x) /\ RoomExists(x)'
  /\ room'[x].product = room[x].product
  /\ room'[x].people = room[x].people
  /\ room'[x].count = room[x].count \/ room'[x].count # 2
  /\ room'[x].left = room[x].left \/ \E i \in 1..2 : LeftBy(x, i)

\* The last to leave does so by the commit that removes the room.
LastOneLeaves(r) ==
  \E s \in Slots : /\ At(s, "commit") /\ request[s].room = r
                   /\ room[r].left \cup {request[s].entry} = 1..2

Saved(x)   == x \notin opened /\ \E s \in Slots : SaveRoom(s, x)
Removed(x) == RoomExists(x) /\ ~RoomExists(x)' /\ (room[x].left = 1..2 \/ LastOneLeaves(x))

LEMMA KeptWhenLeft ==
  ASSUME IInv, NEW r \in Rooms, RoomExists(r), NEW i \in 1..2, i \notin room[r].left,
         room' = [room EXCEPT ![r] = WithLeft(r, i)],
         HalfLeft(r) \subseteq {i}, HalfLeft(r)' = {}
  PROVE  Kept(r)
<1>1. room'[r] = WithLeft(r, i)
  BY DEF IInv, Base, TypeOK
<1>2. PICK d \in RoomDoc : d = room[r]
  BY RoomFields DEF IInv, Base
<1>3. /\ WithLeft(r, i) \in RoomDoc
      /\ WithLeft(r, i).count = d.count - 1
      /\ WithLeft(r, i).left = d.left \cup {i}
  BY <1>2, LeftOnceMore
<1>4. WithLeft(r, i) # NoDoc
  BY <1>3, DocIsNotNoDoc
<1>5. d.count \in 0..2
  BY DEF RoomDoc
<1>6. WithLeft(r, i).product = d.product /\ WithLeft(r, i).people = d.people
  BY <1>2 DEF WithLeft, RoomDoc
<1>7. RoomExists(r)' /\ room'[r].count # 2
  BY <1>1, <1>3, <1>4, <1>5 DEF RoomExists
<1>8. LeftBy(r, i)
  BY <1>1, <1>2, <1>3 DEF LeftBy
<1>. QED
  BY <1>1, <1>2, <1>6, <1>7, <1>8 DEF Kept

LEMMA FateOfRoom ==
  ASSUME IInv, [Next]_vars, NEW x \in Rooms
  PROVE  room'[x] = room[x] \/ Saved(x) \/ Removed(x) \/ Kept(x)
<1>1. TypeOK
  BY DEF IInv, Base
<1>2. ASSUME UNCHANGED room PROVE room'[x] = room[x]
  BY <1>2
<1>3. CASE UNCHANGED vars
  BY <1>3 DEF vars
<1>4. CASE \E s \in Slots, a, b \in Users, p \in Products : FindRoom(s, a, b, p)
  BY <1>4 DEF FindRoom, documents
<1>5. CASE \E s \in Slots, r \in Rooms : CheckRoom(s, r)
  BY <1>5 DEF CheckRoom, documents
<1>6. CASE \E s \in Slots, r \in Rooms, u \in Users : BeginLeave(s, r, u)
  BY <1>6 DEF BeginLeave, documents
<1>7. ASSUME NEW s \in Slots, NEW r \in Rooms, NEW u \in Users, MarkAsLeft(s, r, u)
      PROVE  room'[x] = room[x] \/ Kept(x)
  <2>1. PICK i \in 1..2 : i = First(Present(r, u)) /\ i \notin room[r].left
    <3>1. Present(r, u) # {} /\ Present(r, u) \subseteq 1..2
      BY <1>7 DEF MarkAsLeft, Present
    <3>2. \E k \in Present(r, u) : \A j \in Present(r, u) : k <= j
      BY <3>1
    <3>3. First(Present(r, u)) \in Present(r, u)
      BY <3>2 DEF First
    <3>. QED
      BY <3>3 DEF Present
  <2>2. RoomExists(r) /\ room' = [room EXCEPT ![r] = WithLeft(r, i)]
    BY <1>7, <2>1 DEF MarkAsLeft
  <2>3. HalfLeft(r) = {} /\ HalfLeft(r)' = {}
    <3> DEFINE next == [pc |-> "checkEmpty", room |-> r]
    <3>1. next \in Request /\ next.pc # "commit"
      BY DEF Request
    <3>2. Goto(s, next) /\ ~Locked(r)
      BY <1>7 DEF MarkAsLeft
    <3>. HIDE DEF next
    <3>3. HalfLeft(r) = {}
      BY <3>2, HalfLeftIs
    <3>4. HalfLeft(r)' = IF At(s, "commit") /\ request[s].room = r THEN {} ELSE HalfLeft(r)
      BY <3>1, <3>2, HalfLeftAfter
    <3>. QED
      BY <3>3, <3>4
  <2>4. Kept(r)
    BY <2>1, <2>2, <2>3, KeptWhenLeft
  <2>. QED
    BY <1>1, <2>2, <2>4 DEF TypeOK
<1>8. ASSUME NEW s \in Slots, NEW r \in Rooms, SaveRoom(s, r)
      PROVE  room'[x] = room[x] \/ Saved(x)
  BY <1>1, <1>8 DEF SaveRoom, Saved, TypeOK
<1>9. CASE \E s \in Slots, m \in Messages : InsertMessage(s, m)
  BY <1>9 DEF InsertMessage
<1>10. ASSUME NEW s \in Slots, CommitLeave(s)
       PROVE  room'[x] = room[x] \/ Removed(x) \/ Kept(x)
  <2>1. PICK r \in Rooms, i \in 1..2 : r = request[s].room /\ i = request[s].entry
    BY <1>1, <1>10, RequestFields DEF CommitLeave, At
  <2>2. At(s, "commit") /\ RoomExists(r) /\ i \notin room[r].left
    BY <1>10, <2>1 DEF CommitLeave, IInv, Base, CommitsSound
  <2>3. CASE WithLeft(r, i).count = 0
    <3>1. room' = [room EXCEPT ![r] = NoDoc]
      BY <1>10, <2>1, <2>3 DEF CommitLeave, Remove
    <3>2. room[r].left \cup {i} = 1..2
      <4>1. Staying(room[r].left \cup {i}) = 0
        BY <2>2, <2>3, LeftOnceMore
      <4>2. room[r].left \subseteq 1..2
        BY <1>1, <2>2, RoomFields DEF RoomDoc
      <4>. QED
        BY <4>1, <4>2 DEF Staying
    <3>3. Removed(r)
      BY <1>1, <2>1, <2>2, <3>1, <3>2 DEF Removed, LastOneLeaves, RoomExists, TypeOK
    <3>. QED
      BY <1>1, <3>1, <3>3 DEF TypeOK
  <2>4. CASE WithLeft(r, i).count # 0
    <3>1. room' = [room EXCEPT ![r] = WithLeft(r, i)]
      BY <1>10, <2>1, <2>4 DEF CommitLeave
    <3>2. HalfLeft(r) = {i}
      BY <2>1, <2>2, HalfLeftIs
    <3>3. Goto(s, Idle)
      BY <1>10 DEF CommitLeave, Finish
    <3>4. HalfLeft(r)' = IF At(s, "commit") /\ request[s].room = r THEN {} ELSE HalfLeft(r)
      BY <3>3, IdleIsRequest, HalfLeftAfter
    <3>5. HalfLeft(r)' = {}
      BY <2>1, <2>2, <3>4
    <3>6. Kept(r)
      BY <2>2, <3>1, <3>2, <3>5, KeptWhenLeft
    <3>. QED
      BY <1>1, <3>1, <3>6 DEF TypeOK
  <2>. QED
    BY <2>3, <2>4
<1>11. CASE \E s \in Slots : CheckEmpty(s)
  BY <1>11 DEF CheckEmpty, documents
<1>12. ASSUME NEW s \in Slots, DeleteRoom(s)
       PROVE  room'[x] = room[x] \/ Removed(x)
  <2>1. PICK r \in Rooms : r = request[s].room
    BY <1>1, <1>12, RequestFields DEF DeleteRoom, At
  <2>2. room' = [room EXCEPT ![r] = NoDoc]
    BY <1>12, <2>1 DEF DeleteRoom, Remove
  <2>3. ASSUME RoomExists(r) PROVE Removed(r)
    <3>1. room[r].count = 0 /\ room[r].count = Staying(room[r].left)
      BY <1>12, <2>1, <2>3 DEF DeleteRoom, IInv, Base, RemovalsSound, CountsRight
    <3>2. room[r].left \subseteq 1..2
      BY <1>1, <2>3, RoomFields DEF RoomDoc
    <3>3. room[r].left = 1..2
      BY <3>1, <3>2 DEF Staying
    <3>. QED
      BY <1>1, <2>2, <2>3, <3>3 DEF Removed, RoomExists, TypeOK
  <2>. QED
    BY <1>1, <2>2, <2>3 DEF TypeOK, RoomExists
<1>13. CASE \E s \in Slots : DeleteMessages(s)
  BY <1>13 DEF DeleteMessages
<1>14. CASE \E s \in Slots : Fail(s)
  BY <1>14 DEF Fail, documents
<1>15. ASSUME NEW n \in Messages, Attempt(n)
       PROVE  room'[x] = room[x] \/ Kept(x)
  <2>1. SetLast(n) \/ UNCHANGED room
    BY <1>15 DEF Attempt, HandleEvent, HandlerFails
  <2>2. CASE SetLast(n) /\ x = message[n] /\ RoomExists(x)
    <3>1. room'[x] = [room[x] EXCEPT !.last = n]
      BY <2>2 DEF SetLast
    <3>2. room[x] \in RoomDoc
      BY <1>1, <2>2, RoomFields
    <3>3. room'[x] \in RoomDoc
      BY <3>1, <3>2 DEF RoomDoc
    <3>4. RoomExists(x)'
      BY <3>3, DocIsNotNoDoc DEF RoomExists
    <3>. QED
      BY <2>2, <3>1, <3>2, <3>4 DEF Kept, RoomDoc
  <2>3. CASE SetLast(n) /\ ~(x = message[n] /\ RoomExists(x))
    BY <2>3 DEF SetLast
  <2>. QED
    BY <2>1, <2>2, <2>3
<1>16. CASE Crash
  BY <1>16 DEF Crash, documents
<1>. QED
  BY <1>3, <1>4, <1>5, <1>6, <1>7, <1>8, <1>9, <1>10, <1>11, <1>12, <1>13, <1>14,
     <1>15, <1>16 DEF Next, Continue

-----------------------------------------------------------------------------
(***************************************************************************)
(* The chat implements RoomLife                                            *)
(***************************************************************************)
\* A leave comes under way, or is given up, while nobody else does anything to
\* the room.
BeginsIn(x) ==
  /\ HalfLeft(x) = {} /\ RoomExists(x) /\ room' = room
  /\ \E i \in 1..2 \ room[x].left : HalfLeft(x)' = {i}

LEMMA FateOfLeave ==
  ASSUME IInv, [Next]_vars, NEW x \in Rooms
  PROVE  HalfLeft(x)' = HalfLeft(x) \/ HalfLeft(x)' = {} \/ BeginsIn(x)
<1>1. ASSUME NEW s \in Slots, NEW next \in Request, Goto(s, next), next.pc # "commit"
      PROVE  HalfLeft(x)' = HalfLeft(x) \/ HalfLeft(x)' = {}
  <2>1. HalfLeft(x)' = IF At(s, "commit") /\ request[s].room = x THEN {} ELSE HalfLeft(x)
    BY <1>1, HalfLeftAfter
  <2>. QED
    BY <2>1
<1>2. ASSUME UNCHANGED request PROVE HalfLeft(x)' = HalfLeft(x)
  BY <1>2 DEF HalfLeft, At
<1>3. CASE UNCHANGED vars
  BY <1>2, <1>3 DEF vars
<1>4. ASSUME NEW s \in Slots, NEW a \in Users, NEW b \in Users, NEW p \in Products,
             FindRoom(s, a, b, p)
      PROVE  HalfLeft(x)' = HalfLeft(x) \/ HalfLeft(x)' = {}
  <2> DEFINE next == [pc |-> "saveRoom", product |-> p, people |-> <<a, b>>]
  <2>1. <<a, b>> \in [1..2 -> Users]
    OBVIOUS
  <2>2. next \in Request /\ next.pc # "commit" /\ Goto(s, next)
    BY <1>4, <2>1 DEF FindRoom, Request
  <2>. HIDE DEF next
  <2>. QED
    BY <1>1, <2>2
<1>5. ASSUME NEW s \in Slots, NEW r \in Rooms, CheckRoom(s, r)
      PROVE  HalfLeft(x)' = HalfLeft(x) \/ HalfLeft(x)' = {}
  <2> DEFINE next == [pc |-> "insertMessage", room |-> r]
  <2>1. next \in Request /\ next.pc # "commit" /\ Goto(s, next)
    BY <1>5 DEF CheckRoom, Request
  <2>. HIDE DEF next
  <2>. QED
    BY <1>1, <2>1
<1>6. ASSUME NEW s \in Slots, NEW r \in Rooms, NEW u \in Users, BeginLeave(s, r, u)
      PROVE  HalfLeft(x)' = HalfLeft(x) \/ BeginsIn(x)
  <2>1. PICK i : i = First(Present(r, u))
    OBVIOUS
  <2>2. i \in 1..2 \ room[r].left
    <3>1. Present(r, u) # {} /\ Present(r, u) \subseteq 1..2
      BY <1>6 DEF BeginLeave, Present
    <3>2. \E k \in Present(r, u) : \A j \in Present(r, u) : k <= j
      BY <3>1
    <3>3. First(Present(r, u)) \in Present(r, u)
      BY <3>2 DEF First
    <3>. QED
      BY <2>1, <3>3 DEF Present
  <2> DEFINE next == [pc |-> "commit", room |-> r, entry |-> i, seen |-> MessagesOf(r)]
  <2>3. next \in Request /\ next.pc = "commit" /\ next.room = r /\ next.entry = i
    BY <2>2 DEF Request, MessagesOf
  <2>4. /\ Goto(s, next) /\ request[s] = Idle /\ RoomExists(r) /\ ~Locked(r) /\ room' = room
    BY <1>6, <2>1 DEF BeginLeave, documents
  <2>. HIDE DEF next
  <2>5. request'[s] = next /\ \A t \in Slots \ {s} : request'[t] = request[t]
    BY <2>3, <2>4, Moved DEF IInv, Base
  <2>6. request[s].pc # "commit"
    BY <2>4, IdleIsRequest
  <2>7. CASE x = r
    <3>1. HalfLeft(x) = {}
      BY <2>4, <2>7, HalfLeftIs
    <3>2. \A t \in Slots : (request'[t].pc = "commit" /\ request'[t].room = r) <=> t = s
      BY <2>3, <2>4, <2>5, <2>6 DEF Locked, At
    <3>3. HalfLeft(x)' = {i}
      BY <2>3, <2>5, <2>7, <3>2 DEF HalfLeft, At
    <3>. QED
      BY <2>2, <2>4, <2>7, <3>1, <3>3 DEF BeginsIn
  <2>8. CASE x # r
    <3>1. \A t \in Slots : /\ (request'[t].pc = "commit" /\ request'[t].room = x)
                                <=> (request[t].pc = "commit" /\ request[t].room = x)
                           /\ (request[t].pc = "commit" /\ request[t].room = x)
                                => request'[t].entry = request[t].entry
      BY <2>3, <2>5, <2>6, <2>8
    <3>2. {t \in Slots : request'[t].pc = "commit" /\ request'[t].room = x}
            = {t \in Slots : request[t].pc = "commit" /\ request[t].room = x}
      BY <3>1
    <3>. QED
      BY <3>1, <3>2 DEF HalfLeft, At
  <2>. QED
    BY <2>7, <2>8
<1>7. ASSUME NEW s \in Slots, NEW r \in Rooms, NEW u \in Users, MarkAsLeft(s, r, u)
      PROVE  HalfLeft(x)' = HalfLeft(x) \/ HalfLeft(x)' = {}
  <2> DEFINE next == [pc |-> "checkEmpty", room |-> r]
  <2>1. next \in Request /\ next.pc # "commit" /\ Goto(s, next)
    BY <1>7 DEF MarkAsLeft, Request
  <2>. HIDE DEF next
  <2>. QED
    BY <1>1, <2>1
<1>8. ASSUME NEW s \in Slots, Goto(s, Idle)
      PROVE  HalfLeft(x)' = HalfLeft(x) \/ HalfLeft(x)' = {}
  BY <1>1, <1>8, IdleIsRequest
<1>9. ASSUME NEW s \in Slots, CheckEmpty(s) \/ DeleteRoom(s)
      PROVE  HalfLeft(x)' = HalfLeft(x) \/ HalfLeft(x)' = {}
  <2>1. request[s].room \in Rooms
    BY <1>9, RequestFields DEF CheckEmpty, DeleteRoom, At, IInv, Base
  <2>2. ASSUME NEW pc \in {"deleteRoom", "deleteMessages"}, Goto(s, [pc |-> pc, room |-> request[s].room])
        PROVE  HalfLeft(x)' = HalfLeft(x) \/ HalfLeft(x)' = {}
    <3> DEFINE next == [pc |-> pc, room |-> request[s].room]
    <3>1. next \in Request /\ next.pc # "commit" /\ Goto(s, next)
      BY <2>1, <2>2 DEF Request
    <3>. HIDE DEF next
    <3>. QED
      BY <1>1, <3>1
  <2>. QED
    BY <1>8, <1>9, <2>2 DEF CheckEmpty, DeleteRoom, Finish
<1>10. CASE \E s \in Slots : \/ \E r \in Rooms : SaveRoom(s, r)
                             \/ \E m \in Messages : InsertMessage(s, m)
                             \/ CommitLeave(s) \/ DeleteMessages(s) \/ Fail(s)
  BY <1>8, <1>10 DEF SaveRoom, InsertMessage, CommitLeave, DeleteMessages, Fail, Finish
<1>11. CASE \E m \in Messages : Attempt(m)
  BY <1>2, <1>11 DEF Attempt, HandleEvent, HandlerFails
<1>12. CASE Crash
  <2>1. \A t \in Slots : request'[t].pc # "commit"
    BY <1>12, IdleIsRequest DEF Crash
  <2>2. HalfLeft(x)' = {}
    BY <2>1 DEF HalfLeft, At
  <2>. QED
    BY <2>2
<1>. QED
  BY <1>3, <1>4, <1>5, <1>6, <1>7, <1>9, <1>10, <1>11, <1>12 DEF Next, Continue

\* Only the save of a room makes it one that was opened.
LEMMA OpenedBySaving ==
  ASSUME [Next]_vars, NEW x \in Rooms, ~Saved(x)
  PROVE  x \in opened' <=> x \in opened
<1>1. ASSUME NEW s \in Slots, NEW r \in Rooms, SaveRoom(s, r)
      PROVE  x \in opened' <=> x \in opened
  BY <1>1 DEF SaveRoom, Saved
<1>2. CASE UNCHANGED opened
  BY <1>2
<1>3. CASE \E s \in Slots :
             \/ \E a, b \in Users, p \in Products : FindRoom(s, a, b, p)
             \/ \E r \in Rooms : CheckRoom(s, r)
             \/ \E r \in Rooms, u \in Users : BeginLeave(s, r, u) \/ MarkAsLeft(s, r, u)
  BY <1>2, <1>3 DEF FindRoom, CheckRoom, BeginLeave, MarkAsLeft, history
<1>4. CASE \E s \in Slots : \/ \E m \in Messages : InsertMessage(s, m)
                            \/ CommitLeave(s) \/ CheckEmpty(s) \/ DeleteRoom(s)
  BY <1>2, <1>4 DEF InsertMessage, CommitLeave, CheckEmpty, DeleteRoom, history
<1>5. CASE \E s \in Slots : DeleteMessages(s) \/ Fail(s)
  BY <1>2, <1>5 DEF DeleteMessages, Fail, history
<1>6. CASE \E m \in Messages : Attempt(m)
  BY <1>2, <1>6 DEF Attempt, HandleEvent, HandlerFails, history
<1>7. CASE Crash
  BY <1>2, <1>7 DEF Crash
<1>8. CASE UNCHANGED vars
  BY <1>2, <1>8 DEF vars, history
<1>. QED
  BY <1>1, <1>3, <1>4, <1>5, <1>6, <1>7, <1>8 DEF Next, Continue

\* A step of the chat is, for each room, one of RoomLife or none.
LifeGoesOn(before, after) ==
  \/ after = before
  \/ Life!Opens(before, after)
  \/ Life!BeginsToLeave(before, after) \/ Life!GivesUp(before, after)
  \/ Life!Leaves(before, after)
  \/ Life!Goes(before, after)

LEMMA LifeIs ==
  ASSUME NEW x \in Rooms
  PROVE  /\ x \notin opened => LifeOf(x) = [is |-> "unopened", staying |-> {}, leaving |-> {}]
         /\ x \in opened /\ RoomExists(x) =>
              LifeOf(x) = [is |-> "open", staying |-> 1..2 \ room[x].left, leaving |-> HalfLeft(x)]
         /\ x \in opened /\ ~RoomExists(x) =>
              LifeOf(x) = [is |-> "gone", staying |-> {}, leaving |-> {}]
  BY DEF LifeOf

LEMMA LifeStep ==
  ASSUME IInv, IInv', [Next]_vars, NEW x \in Rooms
  PROVE  LifeGoesOn(LifeOf(x), LifeOf(x)')
<1>1. /\ x \notin opened => LifeOf(x) = [is |-> "unopened", staying |-> {}, leaving |-> {}]
      /\ x \in opened /\ RoomExists(x) =>
           LifeOf(x) = [is |-> "open", staying |-> 1..2 \ room[x].left, leaving |-> HalfLeft(x)]
      /\ x \in opened /\ ~RoomExists(x) =>
           LifeOf(x) = [is |-> "gone", staying |-> {}, leaving |-> {}]
  BY LifeIs
<1>2. /\ x \notin opened' => LifeOf(x)' = [is |-> "unopened", staying |-> {}, leaving |-> {}]
      /\ x \in opened' /\ RoomExists(x)' =>
           LifeOf(x)' = [is |-> "open", staying |-> 1..2 \ room'[x].left, leaving |-> HalfLeft(x)']
      /\ x \in opened' /\ ~RoomExists(x)' =>
           LifeOf(x)' = [is |-> "gone", staying |-> {}, leaving |-> {}]
  BY DEF LifeOf
<1>3. x \notin opened => ~RoomExists(x)
  BY DEF IInv, Base, IdsOnce
<1>4. room'[x] = room[x] \/ Saved(x) \/ Removed(x) \/ Kept(x)
  BY FateOfRoom
<1>5. HalfLeft(x)' = HalfLeft(x) \/ HalfLeft(x)' = {} \/ BeginsIn(x)
  BY FateOfLeave
<1>6. CASE Saved(x)
  <2>1. PICK s \in Slots : SaveRoom(s, x)
    BY <1>6 DEF Saved
  <2>2. /\ At(s, "saveRoom") /\ x \notin opened /\ x \in opened' /\ Goto(s, Idle)
        /\ room' = [room EXCEPT ![x] =
             [product |-> request[s].product, people |-> request[s].people,
              left |-> {}, count |-> 2, last |-> NoDoc]]
    BY <2>1 DEF SaveRoom, Finish
  <2>3. room'[x].left = {}
    BY <2>2 DEF IInv, Base, TypeOK
  <2>4. RoomExists(x)'
    <3>1. /\ request[s].product \in Products /\ request[s].people \in [1..2 -> Users]
      BY <2>2, RequestFields DEF IInv, Base
    <3>2. [product |-> request[s].product, people |-> request[s].people,
           left |-> {}, count |-> 2, last |-> NoDoc] \in RoomDoc
      BY <3>1 DEF RoomDoc
    <3>3. room'[x] \in RoomDoc
      BY <2>2, <3>2 DEF IInv, Base, TypeOK
    <3>. QED
      BY <3>3, DocIsNotNoDoc DEF RoomExists
  <2>5. HalfLeft(x)' = {}
    <3>1. ~Locked(x)
      BY <1>3, <2>2 DEF Locked, IInv, Base, CommitsSound
    <3>2. HalfLeft(x) = {}
      BY <3>1, HalfLeftIs
    <3>3. HalfLeft(x)' = IF At(s, "commit") /\ request[s].room = x THEN {} ELSE HalfLeft(x)
      BY <2>2, IdleIsRequest, HalfLeftAfter
    <3>. QED
      BY <3>2, <3>3
  <2>6. LifeOf(x)' = [is |-> "open", staying |-> {1, 2}, leaving |-> {}]
    <3>1. 1..2 \ {} = {1, 2}
      OBVIOUS
    <3>. QED
      BY <1>2, <2>2, <2>3, <2>4, <2>5, <3>1
  <2>7. Life!Opens(LifeOf(x), LifeOf(x)')
    <3>1. 1 \in 1..2 /\ 2 \in 1..2 /\ 1 # 2
      OBVIOUS
    <3>. QED
      BY <1>1, <2>2, <2>6, <3>1 DEF Life!Opens, Life!Unopened, Life!Open
  <2>. QED
    BY <2>7 DEF LifeGoesOn
<1>7. CASE ~Saved(x)
  <2>1. x \in opened' <=> x \in opened
    BY <1>7, OpenedBySaving
  <2>2. CASE ~RoomExists(x)
    <3>1. ~RoomExists(x)'
      BY <1>4, <1>7, <2>2 DEF RoomExists, Removed, Kept
    <3>2. LifeOf(x)' = LifeOf(x)
      BY <1>1, <1>2, <2>1, <2>2, <3>1
    <3>. QED
      BY <3>2 DEF LifeGoesOn
  <2>3. CASE RoomExists(x) /\ ~RoomExists(x)'
    <3>1. Removed(x)
      BY <1>4, <1>7, <2>3 DEF RoomExists, Kept
    <3>2. LifeOf(x) = [is |-> "open", staying |-> 1..2 \ room[x].left, leaving |-> HalfLeft(x)]
      BY <1>1, <1>3, <2>3
    <3>3. LifeOf(x)' = [is |-> "gone", staying |-> {}, leaving |-> {}]
      BY <1>2, <1>3, <2>1, <2>3
    <3>4. 1..2 \ room[x].left \subseteq HalfLeft(x)
      <4>1. CASE room[x].left = 1..2
        BY <4>1
      <4>2. CASE LastOneLeaves(x)
        <5>1. PICK s \in Slots : /\ At(s, "commit") /\ request[s].room = x
                                 /\ room[x].left \cup {request[s].entry} = 1..2
          BY <4>2 DEF LastOneLeaves
        <5>2. HalfLeft(x) = {request[s].entry}
          BY <5>1, HalfLeftIs
        <5>. QED
          BY <5>1, <5>2
      <4>. QED
        BY <3>1, <4>1, <4>2 DEF Removed
    <3>5. Life!Goes(LifeOf(x), LifeOf(x)')
      BY <3>2, <3>3, <3>4 DEF Life!Goes, Life!Gone
    <3>. QED
      BY <3>5 DEF LifeGoesOn
  <2>4. CASE RoomExists(x) /\ RoomExists(x)'
    <3>1. LifeOf(x) = [is |-> "open", staying |-> 1..2 \ room[x].left, leaving |-> HalfLeft(x)]
      BY <1>1, <1>3, <2>4
    <3>2. LifeOf(x)' = [is |-> "open", staying |-> 1..2 \ room'[x].left, leaving |-> HalfLeft(x)']
      BY <1>2, <1>3, <2>1, <2>4
    <3>3. room'[x].left = room[x].left \/ \E i \in 1..2 : LeftBy(x, i)
      BY <1>4, <1>7, <2>4 DEF Removed, Kept
    <3>4. ASSUME NEW i \in 1..2, LeftBy(x, i)
          PROVE  Life!Leaves(LifeOf(x), LifeOf(x)')
      <4>1. /\ i \in 1..2 \ room[x].left
            /\ 1..2 \ room'[x].left = (1..2 \ room[x].left) \ {i}
            /\ HalfLeft(x) \subseteq {i} /\ HalfLeft(x)' = {}
        BY <3>4 DEF LeftBy
      <4>2. PICK before : before = LifeOf(x)
        OBVIOUS
      <4>3. PICK after : after = LifeOf(x)'
        OBVIOUS
      <4>4. /\ before.is = "open" /\ i \in before.staying /\ before.leaving \subseteq {i}
            /\ after = [is |-> "open", staying |-> before.staying \ {i}, leaving |-> {}]
        <5>1. /\ before.is = "open" /\ before.staying = 1..2 \ room[x].left
              /\ before.leaving = HalfLeft(x)
          BY <3>1, <4>2
        <5>2. 1..2 \ room'[x].left = before.staying \ {i}
          BY <4>1, <5>1
        <5>3. after = [is |-> "open", staying |-> before.staying \ {i}, leaving |-> {}]
          BY <3>2, <4>1, <4>3, <5>2, Zenon
        <5>. QED
          BY <4>1, <5>1, <5>3
      <4>5. Life!Leaves(before, after)
        BY <4>4 DEF Life!Leaves, Life!Open
      <4>. QED
        BY <4>2, <4>3, <4>5
    <3>5. CASE room'[x].left = room[x].left /\ HalfLeft(x)' = HalfLeft(x)
      BY <3>1, <3>2, <3>5 DEF LifeGoesOn
    <3>6. CASE room'[x].left = room[x].left /\ HalfLeft(x)' = {}
      <4>1. PICK before : before = LifeOf(x)
        OBVIOUS
      <4>2. before.is = "open" /\ before.staying = 1..2 \ room[x].left
        BY <3>1, <4>1
      <4>3. LifeOf(x)' = [is |-> "open", staying |-> before.staying, leaving |-> {}]
        BY <3>2, <3>6, <4>2, Zenon
      <4>4. Life!GivesUp(before, LifeOf(x)')
        BY <4>2, <4>3 DEF Life!GivesUp, Life!Open
      <4>. QED
        BY <4>1, <4>4 DEF LifeGoesOn
    <3>7. CASE BeginsIn(x)
      <4>1. PICK i \in 1..2 \ room[x].left : HalfLeft(x)' = {i}
        BY <3>7 DEF BeginsIn
      <4>2. HalfLeft(x) = {} /\ room'[x].left = room[x].left
        BY <3>7 DEF BeginsIn
      <4>3. Life!BeginsToLeave(LifeOf(x), LifeOf(x)')
        <5>1. PICK before : before = LifeOf(x)
          OBVIOUS
        <5>2. PICK after : after = LifeOf(x)'
          OBVIOUS
        <5>3. /\ before.is = "open" /\ before.staying = 1..2 \ room[x].left
              /\ before.leaving = HalfLeft(x)
          BY <3>1, <5>1
        <5>4. i \in before.staying /\ before.leaving = {}
          BY <4>2, <5>3
        <5>5. 1..2 \ room'[x].left = before.staying
          BY <4>2, <5>3
        <5>6. after = [is |-> "open", staying |-> before.staying, leaving |-> {i}]
          BY <3>2, <4>1, <5>2, <5>5, Zenon
        <5>7. Life!BeginsToLeave(before, after)
          BY <5>3, <5>4, <5>6 DEF Life!BeginsToLeave, Life!Open
        <5>. QED
          BY <5>1, <5>2, <5>7
      <4>. QED
        BY <4>3 DEF LifeGoesOn
    <3>. QED
      BY <1>5, <3>3, <3>4, <3>5, <3>6, <3>7 DEF LifeGoesOn
  <2>. QED
    BY <2>2, <2>3, <2>4
<1>. QED
  BY <1>6, <1>7

\* However leaves, with and without a transaction, overlap and fail: a room that
\* was opened is left by each of its two entries once, it is removed only when
\* both are left or by the commit that leaves the last, although DeleteRoom acts on
\* a count read two operations earlier, and a removed room never comes back.
THEOREM RoomsLiveAsPromised == Spec => FollowsRoomLife
<1> DEFINE lives == [r \in Rooms |-> LifeOf(r)]
<1>1. Init => Life!Init
  <2> SUFFICES ASSUME Init, NEW r \in Rooms PROVE LifeOf(r) = Life!Unopened
    BY DEF Life!Init
  <2>1. r \notin opened
    BY DEF Init
  <2>. QED
    BY <2>1, LifeIs DEF Life!Unopened
<1>2. IInv /\ IInv' /\ [Next]_vars => [Life!Next]_lives
  <2> SUFFICES ASSUME IInv, IInv', [Next]_vars PROVE Life!Next
    OBVIOUS
  <2>1. \A r \in Rooms : LifeGoesOn(LifeOf(r), LifeOf(r)')
    BY LifeStep
  <2>2. lives' = [r \in Rooms |-> LifeOf(r)']
    OBVIOUS
  <2>. QED
    BY <2>1, <2>2 DEF Life!Next, LifeGoesOn
<1>. QED
  BY <1>1, <1>2, Invariance, PTL DEF Spec, FollowsRoomLife, Life!Spec

-----------------------------------------------------------------------------
(***************************************************************************)
(* Duplicate rooms                                                         *)
(*                                                                         *)
(* Rooms of two members for one product and the same people, and the       *)
(* requests about to save another: a request joins the second only when    *)
(* the first are none, and leaves it when it adds one to them.             *)
(***************************************************************************)
TheTwo(people)  == {people[i] : i \in 1..2}
Duplicates(p, S) == {x \in Rooms : /\ RoomExists(x) /\ room[x].count = 2
                                   /\ room[x].product = p /\ TheTwo(room[x].people) = S}
Awaited(p, S)    == {s \in Slots : /\ At(s, "saveRoom") /\ request[s].product = p
                                   /\ TheTwo(request[s].people) = S}
Few(p, S) == /\ IsFiniteSet(Duplicates(p, S))
             /\ Cardinality(Duplicates(p, S)) + Cardinality(Awaited(p, S))
                  <= Cardinality(Slots)
FewDuplicates == \A p \in Products, S \in SUBSET Users : Few(p, S)

\* A step that neither starts a request for a room nor saves one makes no more of
\* either.
LEMMA NoMoreDuplicates ==
  ASSUME IsFiniteSet(Slots), NEW p, NEW S, Few(p, S),
         Duplicates(p, S)' \subseteq Duplicates(p, S),
         Awaited(p, S)' \subseteq Awaited(p, S)
  PROVE  Few(p, S)'
<1>1. IsFiniteSet(Awaited(p, S))
  BY FS_Subset DEF Awaited
<1>2. /\ IsFiniteSet(Duplicates(p, S)') /\ IsFiniteSet(Awaited(p, S)')
      /\ Cardinality(Duplicates(p, S)') <= Cardinality(Duplicates(p, S))
      /\ Cardinality(Awaited(p, S)') <= Cardinality(Awaited(p, S))
  BY <1>1, FS_Subset DEF Few
<1>3. /\ Cardinality(Duplicates(p, S)') \in Nat /\ Cardinality(Duplicates(p, S)) \in Nat
      /\ Cardinality(Awaited(p, S)') \in Nat /\ Cardinality(Awaited(p, S)) \in Nat
      /\ Cardinality(Slots) \in Nat
  BY <1>1, <1>2, FS_CardinalityType DEF Few
<1>. QED
  BY <1>2, <1>3 DEF Few

\* Rooms that are removed, or left, are no duplicates any more.
LEMMA DuplicatesOnlyBySaving ==
  ASSUME IInv, [Next]_vars, NEW p, NEW S, \A x \in Rooms : ~Saved(x)
  PROVE  Duplicates(p, S)' \subseteq Duplicates(p, S)
<1> SUFFICES ASSUME NEW x \in Rooms, room'[x] # NoDoc, room'[x].count = 2,
                    room'[x].product = p, TheTwo(room'[x].people) = S
             PROVE  x \in Duplicates(p, S)
  BY DEF Duplicates, RoomExists, TheTwo
<1>1. room'[x] = room[x] \/ Removed(x) \/ Kept(x)
  BY FateOfRoom
<1>. QED
  BY <1>1 DEF Duplicates, RoomExists, Removed, Kept

LEMMA FindRoomFew ==
  ASSUME IInv, IsFiniteSet(Slots), FewDuplicates, NEW s \in Slots,
         NEW a \in Users, NEW b \in Users, NEW q \in Products, FindRoom(s, a, b, q),
         NEW p \in Products, NEW S \in SUBSET Users
  PROVE  Few(p, S)'
<1> DEFINE next == [pc |-> "saveRoom", product |-> q, people |-> <<a, b>>]
<1>1. next \in Request /\ next.pc = "saveRoom" /\ next.product = q /\ TheTwo(next.people) = {a, b}
  <2>1. <<a, b>> \in [1..2 -> Users]
    OBVIOUS
  <2>2. TheTwo(<<a, b>>) = {a, b}
    BY DEF TheTwo
  <2>. QED
    BY <2>1, <2>2 DEF Request
<1>2. Goto(s, next) /\ UNCHANGED room /\ \A r \in Rooms : ~Matches(r, a, b, q)
  BY DEF FindRoom, documents
<1>. HIDE DEF next
<1>3. request'[s] = next /\ \A t \in Slots \ {s} : request'[t] = request[t]
  BY <1>1, <1>2, Moved DEF IInv, Base
<1>4. Duplicates(p, S)' = Duplicates(p, S)
  BY <1>2 DEF Duplicates, RoomExists
<1>5. CASE p = q /\ S = {a, b}
  <2>1. Duplicates(p, S) = {}
    <3> SUFFICES ASSUME NEW x \in Duplicates(p, S) PROVE FALSE
      OBVIOUS
    <3>1. {a, b} = {room[x].people[1], room[x].people[2]}
      BY <1>5 DEF Duplicates, TheTwo
    <3>2. Matches(x, a, b, q)
      BY <1>5, <3>1 DEF Duplicates, Matches
    <3>. QED
      BY <1>2, <3>2 DEF Duplicates
  <2>2. Cardinality(Duplicates(p, S)') = 0 /\ IsFiniteSet(Duplicates(p, S)')
    BY <1>4, <2>1, FS_EmptySet
  <2>3. Awaited(p, S)' \subseteq Slots
    BY DEF Awaited
  <2>4. /\ Cardinality(Awaited(p, S)') <= Cardinality(Slots)
        /\ IsFiniteSet(Awaited(p, S)')
    BY <2>3, FS_Subset
  <2>5. Cardinality(Awaited(p, S)') \in Nat /\ Cardinality(Slots) \in Nat
    BY <2>4, FS_CardinalityType
  <2>. QED
    BY <2>2, <2>4, <2>5 DEF Few
<1>6. CASE ~(p = q /\ S = {a, b})
  <2>1. Awaited(p, S)' \subseteq Awaited(p, S)
    <3> SUFFICES ASSUME NEW t \in Slots, request'[t].pc = "saveRoom",
                        request'[t].product = p, TheTwo(request'[t].people) = S
                 PROVE  t \in Awaited(p, S)
      BY DEF Awaited, At, TheTwo
    <3>1. t # s
      BY <1>1, <1>3, <1>6
    <3>. QED
      BY <1>3, <3>1 DEF Awaited, At
  <2>2. Few(p, S)
    BY DEF FewDuplicates
  <2>. QED
    BY <1>4, <2>1, <2>2, NoMoreDuplicates
<1>. QED
  BY <1>5, <1>6

LEMMA SaveRoomFew ==
  ASSUME IInv, IsFiniteSet(Slots), FewDuplicates, NEW s \in Slots, NEW r \in Rooms,
         SaveRoom(s, r), NEW p \in Products, NEW S \in SUBSET Users
  PROVE  Few(p, S)'
<1>1. TypeOK /\ ~RoomExists(r)
  BY DEF SaveRoom, IInv, Base, IdsOnce
<1>2. /\ At(s, "saveRoom")
      /\ request'[s] = Idle /\ \A t \in Slots \ {s} : request'[t] = request[t]
      /\ Idle.pc = "idle"
  BY <1>1, Moved, IdleIsRequest DEF SaveRoom, Finish
<1>3. /\ \A x \in Rooms \ {r} : room'[x] = room[x]
      /\ room'[r].product = request[s].product
      /\ room'[r].people = request[s].people
  BY <1>1 DEF SaveRoom, TypeOK
<1>4. Few(p, S)
  BY DEF FewDuplicates
<1>5. IsFiniteSet(Awaited(p, S))
  BY FS_Subset DEF Awaited
<1>6. CASE s \in Awaited(p, S)
  <2>1. Awaited(p, S)' = Awaited(p, S) \ {s}
    BY <1>2 DEF Awaited, At
  <2>2. Duplicates(p, S)' \subseteq Duplicates(p, S) \cup {r}
    BY <1>3 DEF Duplicates, RoomExists
  <2>3. /\ IsFiniteSet(Awaited(p, S)')
        /\ Cardinality(Awaited(p, S)') = Cardinality(Awaited(p, S)) - 1
    BY <1>5, <1>6, <2>1, FS_RemoveElement
  <2>4. r \notin Duplicates(p, S)
    BY <1>1 DEF Duplicates
  <2>5. /\ IsFiniteSet(Duplicates(p, S) \cup {r})
        /\ Cardinality(Duplicates(p, S) \cup {r}) = Cardinality(Duplicates(p, S)) + 1
    BY <1>4, <2>4, FS_AddElement DEF Few
  <2>6. /\ IsFiniteSet(Duplicates(p, S)')
        /\ Cardinality(Duplicates(p, S)') <= Cardinality(Duplicates(p, S)) + 1
    BY <2>2, <2>5, FS_Subset
  <2>7. /\ Cardinality(Duplicates(p, S)') \in Nat /\ Cardinality(Duplicates(p, S)) \in Nat
        /\ Cardinality(Awaited(p, S)') \in Nat /\ Cardinality(Awaited(p, S)) \in Nat
        /\ Cardinality(Slots) \in Nat
    BY <1>4, <1>5, <2>3, <2>6, FS_CardinalityType DEF Few
  <2>. QED
    BY <1>4, <2>3, <2>6, <2>7 DEF Few
<1>7. CASE s \notin Awaited(p, S)
  <2>1. ~(request[s].product = p /\ TheTwo(request[s].people) = S)
    BY <1>2, <1>7 DEF Awaited
  <2>2. Awaited(p, S)' \subseteq Awaited(p, S)
    BY <1>2 DEF Awaited, At
  <2>3. Duplicates(p, S)' \subseteq Duplicates(p, S)
    BY <1>3, <2>1 DEF Duplicates, RoomExists, TheTwo
  <2>. QED
    BY <1>4, <2>2, <2>3, NoMoreDuplicates
<1>. QED
  BY <1>6, <1>7

\* No other step makes a request wait to save a room.
LEMMA OthersAwaitNothing ==
  ASSUME IInv, [Next]_vars, NEW t \in Slots, request'[t].pc = "saveRoom",
         \A s \in Slots, a, b \in Users, p \in Products : ~FindRoom(s, a, b, p)
  PROVE  request'[t] = request[t]
<1>1. TypeOK
  BY DEF IInv, Base
<1>2. ASSUME NEW s \in Slots, NEW next \in Request, Goto(s, next), next.pc # "saveRoom"
      PROVE  request'[t] = request[t]
  BY <1>1, <1>2, Moved
<1>3. ASSUME UNCHANGED request PROVE request'[t] = request[t]
  BY <1>3
<1>4. ASSUME NEW s \in Slots, Finish(s) PROVE request'[t] = request[t]
  BY <1>2, <1>4, IdleIsRequest DEF Finish
<1>5. \A x \in Rooms, pc \in {"insertMessage", "checkEmpty", "deleteRoom", "deleteMessages"} :
        [pc |-> pc, room |-> x] \in Request
  BY DEF Request
<1>6. CASE UNCHANGED vars
  BY <1>6 DEF vars
<1>7. CASE \E s \in Slots, r \in Rooms : CheckRoom(s, r)
  BY <1>2, <1>5, <1>7 DEF CheckRoom
<1>8. ASSUME NEW s \in Slots, NEW r \in Rooms, NEW u \in Users, BeginLeave(s, r, u)
      PROVE  request'[t] = request[t]
  <2>1. PICK next : Goto(s, next) /\ next.pc = "commit"
    BY <1>8 DEF BeginLeave
  <2>. QED
    BY <1>1, <2>1 DEF Goto, TypeOK
<1>9. CASE \E s \in Slots, r \in Rooms, u \in Users : MarkAsLeft(s, r, u)
  BY <1>2, <1>5, <1>9 DEF MarkAsLeft
<1>10. ASSUME NEW s \in Slots, Continue(s)
       PROVE  request'[t] = request[t]
  <2>1. At(s, "checkEmpty") \/ At(s, "deleteRoom") => request[s].room \in Rooms
    BY <1>1, RequestFields DEF At
  <2>2. CASE CheckEmpty(s)
    BY <1>2, <1>4, <1>5, <2>1, <2>2 DEF CheckEmpty
  <2>3. CASE DeleteRoom(s)
    BY <1>2, <1>5, <2>1, <2>3 DEF DeleteRoom
  <2>4. CASE ~CheckEmpty(s) /\ ~DeleteRoom(s)
    BY <1>4, <1>10, <2>4 DEF Continue, SaveRoom, InsertMessage, CommitLeave, DeleteMessages
  <2>. QED
    BY <2>2, <2>3, <2>4
<1>11. CASE \E s \in Slots : Fail(s)
  BY <1>4, <1>11 DEF Fail
<1>12. CASE \E m \in Messages : Attempt(m)
  BY <1>12 DEF Attempt, HandleEvent, HandlerFails
<1>13. CASE Crash
  BY <1>13, IdleIsRequest DEF Crash
<1>. QED
  BY <1>6, <1>7, <1>8, <1>9, <1>10, <1>11, <1>12, <1>13 DEF Next

LEMMA NextFew ==
  ASSUME IInv, IsFiniteSet(Slots), FewDuplicates, [Next]_vars
  PROVE  FewDuplicates'
<1> SUFFICES ASSUME NEW p \in Products, NEW S \in SUBSET Users
             PROVE  Few(p, S)'
  BY DEF FewDuplicates
<1>1. CASE \E s \in Slots, a, b \in Users, q \in Products : FindRoom(s, a, b, q)
  BY <1>1, FindRoomFew
<1>2. CASE \E s \in Slots, r \in Rooms : SaveRoom(s, r)
  BY <1>2, SaveRoomFew
<1>3. CASE /\ \A s \in Slots, a, b \in Users, q \in Products : ~FindRoom(s, a, b, q)
           /\ \A s \in Slots, r \in Rooms : ~SaveRoom(s, r)
  <2>1. Duplicates(p, S)' \subseteq Duplicates(p, S)
    BY <1>3, DuplicatesOnlyBySaving DEF Saved
  <2>2. Awaited(p, S)' \subseteq Awaited(p, S)
    BY <1>3, OthersAwaitNothing DEF Awaited, At
  <2>3. Few(p, S)
    BY DEF FewDuplicates
  <2>. QED
    BY <2>1, <2>2, <2>3, NoMoreDuplicates
<1>. QED
  BY <1>1, <1>2, <1>3

\* However many requests look for a room at once, there are never more rooms of
\* two for one product and the same people than requests that overlap.  Only
\* finitely many overlap.
THEOREM DuplicatesAreBounded ==
  ASSUME IsFiniteSet(Slots) PROVE Spec => []DuplicatesBounded
<1>1. Init => FewDuplicates
  <2> SUFFICES ASSUME Init, NEW p \in Products, NEW S \in SUBSET Users PROVE Few(p, S)
    BY DEF FewDuplicates
  <2>1. Duplicates(p, S) = {} /\ Awaited(p, S) = {}
    BY IdleIsRequest DEF Init, Duplicates, Awaited, RoomExists, At
  <2>. QED
    BY <2>1, FS_EmptySet, FS_CardinalityType DEF Few
<1>2. IInv /\ FewDuplicates /\ [Next]_vars => FewDuplicates'
  BY NextFew
<1>3. IInv /\ FewDuplicates => DuplicatesBounded
  <2> SUFFICES ASSUME IInv, FewDuplicates, NEW r \in Rooms, RoomExists(r), room[r].count = 2
               PROVE  Cardinality(Twins(r)) + Cardinality({s \in Slots : Asked(s, r)})
                        <= Cardinality(Slots)
    BY DEF DuplicatesBounded
  <2>1. room[r].product \in Products /\ room[r].people \in [1..2 -> Users]
    BY RoomFields DEF IInv, Base, RoomDoc
  <2>2. TheTwo(room[r].people) \in SUBSET Users
    BY <2>1 DEF TheTwo
  <2>3. Few(room[r].product, TheTwo(room[r].people))
    BY <2>1, <2>2 DEF FewDuplicates
  <2>4. Twins(r) = Duplicates(room[r].product, TheTwo(room[r].people))
    BY DEF Twins, Duplicates, TheTwo
  <2>5. {s \in Slots : Asked(s, r)} = Awaited(room[r].product, TheTwo(room[r].people))
    BY DEF Asked, Awaited, TheTwo
  <2>. QED
    BY <2>3, <2>4, <2>5 DEF Few
<1>4. Spec => [](IInv /\ FewDuplicates)
  BY <1>1, <1>2, Invariance, PTL DEF Spec
<1>. QED
  BY <1>3, <1>4, PTL
=============================================================================
