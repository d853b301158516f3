------------------------------ MODULE DirectChat ------------------------------
(***************************************************************************)
(* Chat kept in PostgreSQL: MessagesService and MessageRepository.         *)
(*                                                                         *)
(* No operation here runs in a transaction: each query is a step, and the  *)
(* requests of one user overlap with each other as well as with those of   *)
(* the other side.  Rooms have no unique key; members are unique per room  *)
(* and, like messages, go with the room (ON DELETE CASCADE).  A request    *)
(* refused by its first read changes nothing and is no step.               *)
(***************************************************************************)
EXTENDS Naturals, FiniteSets, Sequences

CONSTANTS
  Talkers,      \* users
  Items,        \* products
  Vendor,       \* item -> its seller
  ChatSlots,    \* bound: how many requests overlap
  MaxDmRooms,   \* bound: rooms ever created
  MaxDmTexts,   \* bound: messages ever sent
  MaxDmAsks     \* bound: requests ever made

ASSUME DirectChatAssumption ==
  /\ Vendor \in [Items -> Talkers]
  /\ MaxDmRooms \in Nat /\ MaxDmTexts \in Nat /\ MaxDmAsks \in Nat

VARIABLES
  dmRoom,      \* tables chat_rooms and chat_room_members, in order of creation
  dmText,      \* table chat_messages, in order of creation
  withdrawn,   \* items whose status is DELETED
  asked,       \* slot -> what is left of the request in it
  dmAsks,      \* requests made, for the bound
  \* History, read by properties only:
  overlapped,  \* who opened a room while a second request of his did, per item
  slipped,     \* messages sent between the two updates of a reader's mark
  deserted     \* rooms whose last leaver's request died before it removed them

dmVars == <<dmRoom, dmText, withdrawn, asked, dmAsks, overlapped, slipped, deserted>>
-----------------------------------------------------------------------------
DmRooms == 1..MaxDmRooms
DmTexts == 1..MaxDmTexts
NoRow   == [gone |-> TRUE]

\* A member's lastReadAt is the number of messages there were at that time.
DmRoomRow == [item : Items, lastRead : UNION {[m -> 0..MaxDmTexts] : m \in SUBSET Talkers}]
DmTextRow == [room : DmRooms, sender : Talkers, isRead : BOOLEAN]

NothingAsked == [pc |-> "none"]
Asked ==
  {NothingAsked}
  \cup [pc : {"createRoom"}, user : Talkers, item : Items]
  \cup [pc : {"insert", "touch", "readTexts", "readMark",
              "removeMember", "countMembers", "removeRoom"}, user : Talkers, room : DmRooms]

\* Types of every variable; a row that is deleted leaves its place behind.
DirectTypeOK ==
  /\ dmRoom \in Seq(DmRoomRow \cup {NoRow}) /\ Len(dmRoom) <= MaxDmRooms
  /\ dmText \in Seq(DmTextRow \cup {NoRow}) /\ Len(dmText) <= MaxDmTexts
  /\ withdrawn \subseteq Items /\ asked \in [ChatSlots -> Asked]
  /\ dmAsks \in 0..MaxDmAsks /\ overlapped \subseteq Talkers \X Items
  /\ slipped \subseteq DmTexts /\ deserted \subseteq DmRooms

Kept(table)   == {x \in DOMAIN table : table[x] # NoRow}
Joined(r)     == IF r \in Kept(dmRoom) THEN DOMAIN dmRoom[r].lastRead ELSE {}
RoomsOf(u, i) == {r \in Kept(dmRoom) : dmRoom[r].item = i /\ u \in Joined(r)}
TextsOf(r)    == {m \in Kept(dmText) : dmText[m].room = r}
At(s, pc)     == asked[s].pc = pc
Working(s, pc, r) == At(s, pc) /\ asked[s].room = r

\* getUnreadCount counts these.
Unread(r, u) == {m \in TextsOf(r) : dmText[m].sender # u /\ ~dmText[m].isRead}

DmInit ==
  /\ dmRoom = <<>> /\ dmText = <<>> /\ withdrawn = {}
  /\ asked = [s \in ChatSlots |-> NothingAsked] /\ dmAsks = 0
  /\ overlapped = {} /\ slipped = {} /\ deserted = {}
-----------------------------------------------------------------------------
Ask(s, next) ==
  /\ At(s, "none") /\ asked' = [asked EXCEPT ![s] = next]
  /\ dmAsks < MaxDmAsks /\ dmAsks' = dmAsks + 1
  /\ UNCHANGED <<dmRoom, dmText, withdrawn, slipped, deserted>>

Then(s, pc) == asked' = [asked EXCEPT ![s].pc = pc] /\ UNCHANGED dmAsks
Answer(s)   == asked' = [asked EXCEPT ![s] = NothingAsked] /\ UNCHANGED dmAsks

\* Seeded fault: only a room the buyer shares with the seller is found.
OpenDirectShared(s, u, i) ==
  /\ u # Vendor[i] /\ i \notin withdrawn
  /\ \A r \in RoomsOf(u, i) : Vendor[i] \notin Joined(r)
  /\ Ask(s, [pc |-> "createRoom", user |-> u, item |-> i])
  /\ overlapped' = overlapped \cup
       {<<u, i>> : t \in {t \in ChatSlots : At(t, "createRoom") /\ asked[t].user = u /\ asked[t].item = i}}

\* findOrCreateChatRoom() as far as there is no room of the buyer to return.
OpenDirect(s, u, i) ==
  /\ u # Vendor[i] /\ i \notin withdrawn /\ RoomsOf(u, i) = {}
  /\ Ask(s, [pc |-> "createRoom", user |-> u, item |-> i])
  /\ overlapped' = overlapped \cup
       {<<u, i>> : t \in {t \in ChatSlots : At(t, "createRoom") /\ asked[t].user = u /\ asked[t].item = i}}

\* The nested create of the room and its two members, one statement.
\* Bound: MaxDmRooms.
CreateDirect(s) ==
  /\ At(s, "createRoom") /\ Len(dmRoom) < MaxDmRooms
  /\ dmRoom' = Append(dmRoom, [item |-> asked[s].item,
                 lastRead |-> [m \in {asked[s].user, Vendor[asked[s].item]} |-> 0]])
  /\ Answer(s)
  /\ UNCHANGED <<dmText, withdrawn, overlapped, slipped, deserted>>

\* The check that begins sendMessage(), markAsRead() and leaveChatRoom().
Enter(s, u, r, pc) ==
  /\ u \in Joined(r)
  /\ Ask(s, [pc |-> pc, user |-> u, room |-> r])
  /\ UNCHANGED overlapped

\* createMessage.  The foreign key asks for the room, nobody for the member.
\* Bound: MaxDmTexts.
InsertDirect(s) ==
  /\ At(s, "insert") /\ Len(dmText) < MaxDmTexts
  /\ LET r == asked[s].room  u == asked[s].user IN
       /\ r \in Kept(dmRoom)
       /\ dmText' = Append(dmText, [room |-> r, sender |-> u, isRead |-> FALSE])
       /\ slipped' = IF \E t \in ChatSlots : Working(t, "readMark", r) /\ asked[t].user # u
                       THEN slipped \cup {Len(dmText) + 1} ELSE slipped
  /\ Then(s, "touch")
  /\ UNCHANGED <<dmRoom, withdrawn, overlapped, deserted>>

\* updateChatRoomTimestamp, then message.created, which nobody listens to.
TouchDirect(s) ==
  /\ At(s, "touch") /\ asked[s].room \in Kept(dmRoom)
  /\ Answer(s)
  /\ UNCHANGED <<dmRoom, dmText, withdrawn, overlapped, slipped, deserted>>

\* markMessagesAsRead: the messages of the others,
ReadDirect(s) ==
  /\ At(s, "readTexts")
  /\ dmText' = [m \in DOMAIN dmText |->
       IF m \in Unread(asked[s].room, asked[s].user)
         THEN [dmText[m] EXCEPT !.isRead = TRUE] ELSE dmText[m]]
  /\ Then(s, "readMark")
  /\ UNCHANGED <<dmRoom, withdrawn, overlapped, slipped, deserted>>

\* and then the reader's lastReadAt; updateMany of a member who left is none.
MarkDirect(s) ==
  /\ At(s, "readMark")
  /\ LET r == asked[s].room  u == asked[s].user IN
       dmRoom' = IF u \in Joined(r) THEN [dmRoom EXCEPT ![r].lastRead[u] = Len(dmText)]
                                    ELSE dmRoom
  /\ Answer(s)
  /\ UNCHANGED <<dmText, withdrawn, overlapped, slipped, deserted>>

\* leaveChatRoom(): the member goes,
RemoveMember(s) ==
  /\ At(s, "removeMember")
  /\ LET r == asked[s].room  stay == Joined(r) \ {asked[s].user} IN
       dmRoom' = IF r \in Kept(dmRoom)
                   THEN [dmRoom EXCEPT ![r].lastRead = [m \in stay |-> @[m]]] ELSE dmRoom
  /\ Then(s, "countMembers")
  /\ UNCHANGED <<dmText, withdrawn, overlapped, slipped, deserted>>

\* Seeded fault: the room goes when one member is left besides the leaver.
CountMembersEarly(s) ==
  /\ At(s, "countMembers")
  /\ IF Cardinality(Joined(asked[s].room)) = 1 THEN Then(s, "removeRoom") ELSE Answer(s)
  /\ UNCHANGED <<dmRoom, dmText, withdrawn, overlapped, slipped, deserted>>

\* those that are left are counted,
CountMembers(s) ==
  /\ At(s, "countMembers")
  /\ IF Joined(asked[s].room) = {} THEN Then(s, "removeRoom") ELSE Answer(s)
  /\ UNCHANGED <<dmRoom, dmText, withdrawn, overlapped, slipped, deserted>>

\* and the room goes with its messages when there are none.
RemoveRoom(s) ==
  /\ At(s, "removeRoom")
  /\ LET r == asked[s].room IN
       /\ r \in Kept(dmRoom)
       /\ dmRoom' = [dmRoom EXCEPT ![r] = NoRow]
       /\ dmText' = [m \in DOMAIN dmText |-> IF m \in TextsOf(r) THEN NoRow ELSE dmText[m]]
  /\ Answer(s)
  /\ UNCHANGED <<withdrawn, overlapped, slipped, deserted>>

\* A query of the request raises: its row is gone, or the connection fails.
FailDirect(s) ==
  /\ ~At(s, "none")
  /\ deserted' = IF (At(s, "countMembers") \/ At(s, "removeRoom")) /\ asked[s].room \in Kept(dmRoom)
                   THEN deserted \cup {asked[s].room} ELSE deserted
  /\ Answer(s)
  /\ UNCHANGED <<dmRoom, dmText, withdrawn, overlapped, slipped>>

\* The seller deletes the product; its rooms stay.
WithdrawItem(i) ==
  /\ i \notin withdrawn /\ withdrawn' = withdrawn \cup {i}
  /\ UNCHANGED <<dmRoom, dmText, asked, dmAsks, overlapped, slipped, deserted>>

DmNext ==
  \/ \E s \in ChatSlots :
       \/ \E u \in Talkers : \E i \in Items : OpenDirect(s, u, i)
       \/ CreateDirect(s)
       \/ \E u \in Talkers, r \in DOMAIN dmRoom, pc \in {"insert", "readTexts", "removeMember"} :
            Enter(s, u, r, pc)
       \/ InsertDirect(s)
       \/ TouchDirect(s)
       \/ ReadDirect(s)
       \/ MarkDirect(s)
       \/ RemoveMember(s)
       \/ CountMembers(s)
       \/ RemoveRoom(s)
       \/ FailDirect(s)
  \/ \E i \in Items : WithdrawItem(i)

\* The database answers the queries of a request that leaves.
DmFairness ==
  \A s \in ChatSlots : WF_dmVars(CountMembers(s) \/ RemoveRoom(s))

DmSpec == DmInit /\ [][DmNext]_dmVars /\ DmFairness
-----------------------------------------------------------------------------
(***************************************************************************)
(* Properties                                                              *)
(***************************************************************************)
\* A buyer has one room for an item at a time, unless two of his requests for
\* it looked for a room before either had made one: neither leaving and coming
\* back nor what the seller does gives a second.  The overlap is the only cause of
\* what OneRoomPerPair below says never happens.
OneRoomUnlessOverlap ==
  \A u \in Talkers, i \in Items :
    u # Vendor[i] /\ <<u, i>> \notin overlapped =>
      \A r, q \in RoomsOf(u, i) : r = q

\* messages.repository.integration.spec.ts: when several requests come at the
\* same time, one room only is created.  findOrCreateChatRoom does not keep it,
\* and its comment says that this was left so.
OneRoomPerPair ==
  \A u \in Talkers, i \in Items :
    u # Vendor[i] => Cardinality(RoomsOf(u, i)) <= 1

\* A message that is older than its reader's mark and still counts as unread
\* was sent between the two updates of a mark: mark and counter, two columns
\* written one after the other, disagree about nothing else.
MarkCoversUnread ==
  \A r \in Kept(dmRoom) : \A u \in Joined(r) :
    \A m \in Unread(r, u) : m <= dmRoom[r].lastRead[u] => m \in slipped

\* What two statements of one request leave inconsistent, a second room or a
\* message that is marked and unread, is due to a request between the two.
DirectChatSound == OneRoomUnlessOverlap /\ MarkCoversUnread

\* A room all members of which have left is removed by one of their requests,
\* however the requests overlap, unless the last to count died.
EmptyDirectRoomGoes ==
  \A r \in DmRooms :
    []<>(r \in Kept(dmRoom) /\ Joined(r) = {} => r \in deserted)

\* The chat keeps the promise of RoomLife, and here no leave is ever under way,
\* since a member goes by one statement: a room opens with a buyer and the seller,
\* nobody comes back who has left it, and no request removes it, with the messages,
\* while somebody is a member of it.
DmLifeOf(r) ==
  IF r \notin DOMAIN dmRoom    THEN [is |-> "unopened", staying |-> {}, leaving |-> {}]
  ELSE IF r \in Kept(dmRoom)   THEN [is |-> "open", staying |-> Joined(r), leaving |-> {}]
                               ELSE [is |-> "gone", staying |-> {}, leaving |-> {}]

DmLife == INSTANCE RoomLife WITH Rooms <- DmRooms, Members <- Talkers,
                                 lives <- [r \in DmRooms |-> DmLifeOf(r)]

FollowsRoomLife == DmLife!Spec

\* A room goes with its messages when the last member has left it, and only
\* then: leaving is delete, count, delete, and those who leave overlap.
RoomsGoWhenEmpty == EmptyDirectRoomGoes /\ FollowsRoomLife
=============================================================================
