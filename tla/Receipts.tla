------------------------------- MODULE Receipts -------------------------------
(***************************************************************************)
(* The reading marks of one room of the chat over MongoDB.                 *)
(*                                                                         *)
(* PATCH .../read is one updateMany.  MongoDB writes its documents one     *)
(* after the other and looks at the filter again for each; meanwhile       *)
(* messages are sent, another mark of the same user runs, and the messages *)
(* of the room may go.  ChatRooms has the rooms and who leaves them.       *)
(***************************************************************************)
EXTENDS Naturals, FiniteSets

CONSTANTS
  Readers,     \* users
  Letters,     \* bound: ids a message may take; an id is used once
  MarkSlots,   \* bound: how many marks overlap
  NoLetter,    \* no document, and nobody
  MaxMarks     \* bound: marks ever asked for

ASSUME ReceiptsAssumption ==
  /\ NoLetter \notin [to : Readers, read : BOOLEAN] /\ NoLetter \notin Readers
  /\ MaxMarks \in Nat

VARIABLES
  letter,    \* collection messages, of the room: id -> document
  mark,      \* slot -> the updateMany that runs in it
  marks,     \* marks asked for, for the bound
  \* History, read by properties and by the bound on ids:
  sentTo,      \* id -> to whom the message went
  everRead,  \* messages that were marked
  covered,   \* messages that were unread when a mark began that was answered
  told       \* user -> sum of the modifiedCounts he was answered, or would have been

receiptVars == <<letter, mark, marks, sentTo, everRead, covered, told>>
-----------------------------------------------------------------------------
Letter == [to : Readers, read : BOOLEAN]

\* `ahead`: documents found and not yet written; `began`: those unread at first.
NoMark == [pc |-> "none"]
Mark   == [pc : {"marking"}, user : Readers, ahead : SUBSET Letters,
           began : SUBSET Letters, modifiedCount : Nat]

\* Types of every variable.
ReceiptsTypeOK ==
  /\ letter \in [Letters -> Letter \cup {NoLetter}]
  /\ mark \in [MarkSlots -> Mark \cup {NoMark}] /\ marks \in 0..MaxMarks
  /\ sentTo \in [Letters -> Readers \cup {NoLetter}]
  /\ everRead \subseteq Letters /\ covered \subseteq Letters /\ told \in [Readers -> Nat]

ReceiptsInit ==
  /\ letter = [m \in Letters |-> NoLetter] /\ sentTo = [m \in Letters |-> NoLetter]
  /\ mark = [s \in MarkSlots |-> NoMark] /\ marks = 0
  /\ everRead = {} /\ covered = {} /\ told = [u \in Readers |-> 0]

Marking(s)        == mark[s].pc = "marking"
UnreadBy(u)       == {m \in Letters : letter[m] = [to |-> u, read |-> FALSE]}
Told(u, count)    == told' = [told EXCEPT ![u] = @ + count]
-----------------------------------------------------------------------------

\* sendMessage: the receiver is whom the client names.
SendLetter(m, u) ==
  /\ sentTo[m] = NoLetter
  /\ letter' = [letter EXCEPT ![m] = [to |-> u, read |-> FALSE]]
  /\ sentTo' = [sentTo EXCEPT ![m] = u]
  /\ UNCHANGED <<mark, marks, everRead, covered, told>>

\* markMessagesAsRead: nothing is asked but who it is for.
StartMark(s, u) ==
  /\ mark[s] = NoMark /\ marks < MaxMarks /\ marks' = marks + 1
  /\ mark' = [mark EXCEPT ![s] = [pc |-> "marking", user |-> u, ahead |-> UnreadBy(u),
                                  began |-> UnreadBy(u), modifiedCount |-> 0]]
  /\ UNCHANGED <<letter, sentTo, everRead, covered, told>>

\* The scan may also come by a message that has been sent meanwhile.
FindLater(s) ==
  /\ Marking(s)
  /\ \E m \in UnreadBy(mark[s].user) \ mark[s].ahead :
       mark' = [mark EXCEPT ![s].ahead = @ \cup {m}]
  /\ UNCHANGED <<letter, marks, sentTo, everRead, covered, told>>

\* Seeded fault: the documents are the ones that were unread when they were found.
MarkOneFound(s) ==
  /\ Marking(s)
  /\ \E m \in mark[s].ahead :
       /\ letter' = [letter EXCEPT ![m] = IF @ = NoLetter THEN @ ELSE [@ EXCEPT !.read = TRUE]]
       /\ everRead' = everRead \cup {m}
       /\ mark' = [mark EXCEPT ![s].ahead = @ \ {m}, ![s].modifiedCount = @ + 1]
  /\ UNCHANGED <<marks, sentTo, covered, told>>

\* The next document, if it still is unread.
MarkOne(s) ==
  /\ Marking(s)
  /\ \E m \in mark[s].ahead :
       IF m \in UnreadBy(mark[s].user)
         THEN /\ letter' = [letter EXCEPT ![m].read = TRUE]
              /\ everRead' = everRead \cup {m}
              /\ mark' = [mark EXCEPT ![s].ahead = @ \ {m}, ![s].modifiedCount = @ + 1]
         ELSE /\ mark' = [mark EXCEPT ![s].ahead = @ \ {m}]
              /\ UNCHANGED <<letter, everRead>>
  /\ UNCHANGED <<marks, sentTo, covered, told>>

\* All are written; the client is told how many.
AnswerMark(s) ==
  /\ Marking(s) /\ mark[s].ahead = {}
  /\ Told(mark[s].user, mark[s].modifiedCount)
  /\ covered' = covered \cup mark[s].began
  /\ mark' = [mark EXCEPT ![s] = NoMark]
  /\ UNCHANGED <<letter, marks, sentTo, everRead>>

\* The operation fails half-way: some documents are written, nobody is told.
FailMark(s) ==
  /\ Marking(s)
  /\ Told(mark[s].user, mark[s].modifiedCount)
  /\ mark' = [mark EXCEPT ![s] = NoMark]
  /\ UNCHANGED <<letter, marks, sentTo, everRead, covered>>

\* The room is over and its messages go, one by one.
DeleteLetter(m) ==
  /\ letter[m] # NoLetter
  /\ letter' = [letter EXCEPT ![m] = NoLetter]
  /\ UNCHANGED <<mark, marks, sentTo, everRead, covered, told>>

ReceiptsNext ==
  \/ \E m \in Letters :
       \/ \E u \in Readers : SendLetter(m, u)
       \/ DeleteLetter(m)
  \/ \E s \in MarkSlots :
       \/ \E u \in Readers : StartMark(s, u)
       \/ FindLater(s)
       \/ MarkOne(s)
       \/ AnswerMark(s)
       \/ FailMark(s)

ReceiptsSpec == ReceiptsInit /\ [][ReceiptsNext]_receiptVars
-----------------------------------------------------------------------------
(***************************************************************************)
(* Properties                                                              *)
(***************************************************************************)
\* What the marks of u under way have written so far: one pair for each document.
MarksOf(u) == {s \in MarkSlots : Marking(s) /\ mark[s].user = u}
Written(u) == UNION {{s} \X (1..mark[s].modifiedCount) : s \in MarksOf(u)}
InHand(u)  == Cardinality(Written(u))

\* However the marks of a user overlap, no message is counted for two of them:
\* the counts add up to the messages that were read, the lost answers included.
ReadsCountedOnce ==
  \A u \in Readers :
    told[u] + InHand(u) = Cardinality({m \in everRead : sentTo[m] = u})

\* A mark that is answered has left no message unread that was there when it
\* began, whoever of several marks has written it; and none is unread again.
MarkedStaysRead ==
  \A m \in covered : letter[m] # NoLetter => m \in everRead /\ letter[m].read

\* Marks that overlap each other and the sending of messages neither count a
\* message twice nor leave out one they were answered for.
ReceiptsSound == ReadsCountedOnce /\ MarkedStaysRead
=============================================================================
