------------------------------- MODULE RoomLife -------------------------------
(***************************************************************************)
(* What both chats promise about a room, whatever requests overlap and     *)
(* whichever of them die half-way: it opens with two members, each of them *)
(* leaves it once, and it goes, once, when nobody is left in it.  A leave  *)
(* may be under way for a while, then nobody else leaves; it may be given  *)
(* up, and the last one may take the room along.  When an empty room must  *)
(* go, and what becomes of its messages, is said by the chats.             *)
(***************************************************************************)
CONSTANTS Rooms, Members

VARIABLE lives   \* room -> whether it is there, who stays in it, whose leave is under way

Unopened            == [is |-> "unopened", staying |-> {}, leaving |-> {}]
Open(stay, leaving) == [is |-> "open", staying |-> stay, leaving |-> leaving]
Gone                == [is |-> "gone", staying |-> {}, leaving |-> {}]

Init == lives = [r \in Rooms |-> Unopened]

Opens(before, after) ==
  before = Unopened /\ \E a, b \in Members : a # b /\ after = Open({a, b}, {})

BeginsToLeave(before, after) ==
  /\ before.is = "open" /\ before.leaving = {}
  /\ \E m \in before.staying : after = Open(before.staying, {m})

GivesUp(before, after) ==
  before.is = "open" /\ after = Open(before.staying, {})

Leaves(before, after) ==
  /\ before.is = "open"
  /\ \E m \in before.staying :
       before.leaving \subseteq {m} /\ after = Open(before.staying \ {m}, {})

Goes(before, after) ==
  before.is = "open" /\ before.staying \subseteq before.leaving /\ after = Gone

\* Several rooms may move at once: when the process stops, every leave that is
\* under way is given up.
Next ==
  /\ DOMAIN lives' = Rooms
  /\ \A r \in Rooms :
       \/ lives'[r] = lives[r]
       \/ Opens(lives[r], lives'[r])
       \/ BeginsToLeave(lives[r], lives'[r]) \/ GivesUp(lives[r], lives'[r])
       \/ Leaves(lives[r], lives'[r])
       \/ Goes(lives[r], lives'[r])

Spec == Init /\ [][Next]_lives
=============================================================================
