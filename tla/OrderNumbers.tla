------------------------------ MODULE OrderNumbers ------------------------------
(***************************************************************************)
(* The number of an order: generateOrderNumber of OrdersRepository and the *)
(* INSERT that uses it.                                                    *)
(*                                                                         *)
(* A number is the day and one of a million that is drawn at random and    *)
(* looked up; the order is inserted by a later query, and the unique index *)
(* on the number has the last word.  Deleting an order frees its number.   *)
(* The rest of create() is in Marketplace.                                 *)
(***************************************************************************)
EXTENDS Naturals, FiniteSets, Sequences

CONSTANTS
  Serials,      \* the random part of a number: a million of them
  DrawSlots,    \* bound: how many requests overlap
  MaxDays,      \* bound: days that pass
  MaxDraws      \* bound: requests made

ASSUME OrderNumbersAssumption == MaxDays \in Nat /\ MaxDraws \in Nat

VARIABLES
  numbered,  \* table orders: order -> its number; an order is named by its request
  today,
  draw,      \* slot -> what is left of the request in it
  draws,     \* requests made
  \* History, read by properties only:
  twins,     \* orders that held one number at the same time, in pairs
  refused    \* an order that the index refused, with the one that has its number

numberVars == <<numbered, today, draw, draws, twins, refused>>
-----------------------------------------------------------------------------
NoDraw == [pc |-> "none"]
Number == (0..MaxDays) \X Serials

\* Types of every variable.
OrderNumbersTypeOK ==
  /\ DOMAIN numbered \subseteq 1..draws
  /\ \A o \in DOMAIN numbered : numbered[o] \in Number
  /\ today \in 0..MaxDays /\ draws \in 0..MaxDraws
  /\ draw \in [DrawSlots -> {NoDraw} \cup [pc : {"draw"}, order : 1..MaxDraws]
                 \cup [pc : {"insert"}, order : 1..MaxDraws, number : Number]]
  /\ twins \subseteq (1..MaxDraws) \X (1..MaxDraws)
  /\ refused \subseteq (1..MaxDraws) \X (1..MaxDraws)

TakenNumbers == {numbered[o] : o \in DOMAIN numbered}
DayIsFull    == \A n \in Serials : <<today, n>> \in TakenNumbers

\* The orders whose requests are about to use a number.
Holders(number) ==
  {draw[t].order : t \in {t \in DrawSlots : draw[t].pc = "insert" /\ draw[t].number = number}}

NumberInit ==
  /\ numbered = <<>> /\ today = 0
  /\ draw = [s \in DrawSlots |-> NoDraw] /\ draws = 0
  /\ twins = {} /\ refused = {}

\* create() of OrdersService has come to generateOrderNumber.
AskNumber(s) ==
  /\ draw[s] = NoDraw /\ draws < MaxDraws
  /\ draw' = [draw EXCEPT ![s] = [pc |-> "draw", order |-> draws + 1]]
  /\ draws' = draws + 1
  /\ UNCHANGED <<numbered, today, twins, refused>>

Take(s, number) ==
  /\ draw' = [draw EXCEPT ![s] = [pc |-> "insert", order |-> @.order, number |-> number]]
  /\ LET o == draw[s].order IN
       twins' = twins \cup {<<o, x>> : x \in Holders(number)}
                      \cup {<<x, o>> : x \in Holders(number)}
  /\ UNCHANGED <<numbered, today, draws, refused>>

\* Seeded fault: the number that is drawn is not looked up.
generateOrderNumberBlindly(s, n) == draw[s].pc = "draw" /\ Take(s, <<today, n>>)

\* One turn of the loop: a number of this day; while it is taken, another.
generateOrderNumber(s, n) ==
  /\ draw[s].pc = "draw" /\ <<today, n>> \notin TakenNumbers
  /\ Take(s, <<today, n>>)

\* The INSERT of the order.
InsertNumbered(s) ==
  /\ draw[s].pc = "insert" /\ draw[s].number \notin TakenNumbers
  /\ numbered' = [o \in DOMAIN numbered \cup {draw[s].order} |->
                    IF o = draw[s].order THEN draw[s].number ELSE numbered[o]]
  /\ draw' = [draw EXCEPT ![s] = NoDraw]
  /\ UNCHANGED <<today, draws, twins, refused>>

\* The unique index refuses it, and the buyer is told that the order failed.
RefuseNumber(s) ==
  /\ draw[s].pc = "insert" /\ draw[s].number \in TakenNumbers
  /\ refused' = refused \cup
       {<<draw[s].order, o>> : o \in {o \in DOMAIN numbered : numbered[o] = draw[s].number}}
  /\ draw' = [draw EXCEPT ![s] = NoDraw]
  /\ UNCHANGED <<numbered, today, draws, twins>>

\* The request dies.
FailDraw(s) ==
  /\ draw[s] # NoDraw
  /\ draw' = [draw EXCEPT ![s] = NoDraw]
  /\ UNCHANGED <<numbered, today, draws, twins, refused>>

\* delete() of OrdersService.
DeleteNumbered(o) ==
  /\ o \in DOMAIN numbered
  /\ numbered' = [x \in DOMAIN numbered \ {o} |-> numbered[x]]
  /\ UNCHANGED <<today, draw, draws, twins, refused>>

Midnight ==
  /\ today < MaxDays /\ today' = today + 1
  /\ UNCHANGED <<numbered, draw, draws, twins, refused>>

NumberNext ==
  \/ \E s \in DrawSlots :
       \/ AskNumber(s)
       \/ \E n \in Serials : generateOrderNumber(s, n)
       \/ InsertNumbered(s)
       \/ RefuseNumber(s)
       \/ FailDraw(s)
  \/ \E o \in 1..MaxDraws : DeleteNumbered(o)
  \/ Midnight

\* The loop keeps drawing, and a number that stays free is drawn one day.
NumberFairness ==
  \A s \in DrawSlots : WF_numberVars(\E n \in Serials : generateOrderNumber(s, n))

NumberSpec == NumberInit /\ [][NumberNext]_numberVars /\ NumberFairness
-----------------------------------------------------------------------------
\* An order fails for its number only if it had drawn that number while another
\* request held it, and then that other has got it: neither an order that was
\* there before, nor one that was deleted, nor the change of the day makes the
\* index refuse what the look-up of generateOrderNumber has found free.
RefusedToTwin == refused \subseteq twins

\* The loop ends unless every number of the day is in use for good; the numbers
\* of the next day are as many again.
DrawEnds ==
  \A s \in DrawSlots : []<>(draw[s].pc = "draw" => DayIsFull)
=============================================================================
