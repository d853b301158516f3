---------------------------- MODULE ServicesProofs ----------------------------
(***************************************************************************)
(* Proofs about the components of Services: first eight of them by         *)
(* themselves (the order numbers, the health probe, the seed script, the   *)
(* lists, the favorites, the receipts, the chat over PostgreSQL, the       *)
(* conversions of values), then all of them side by side.                  *)
(*                                                                         *)
(* Each component has an inductive invariant of its own, `...Inv`, that    *)
(* holds what its requests know between two of their steps; a lemma for    *)
(* each kind of step; and a theorem about its specification.  A behaviour  *)
(* of Services is one of every component, and so the theorems hold of it.  *)
(***************************************************************************)
EXTENDS Services, AccountsProofs, SwaggerRefreshProofs, CategoryTreeProofs, ChannelPoolProofs,
        FiniteSetTheorems, SequenceTheorems, WellFoundedInduction, TLAPS

-----------------------------------------------------------------------------
(***************************************************************************)
(* OrderNumbers                                                            *)
(***************************************************************************)
\* Requests are named in the order in which they come.
DrawsNamed == \A s \in DrawSlots : draw[s] # NoDraw => draw[s].order <= draws

Inserting(s) == draw[s].pc = "insert"
Order(s)     == draw[s].order

\* Two requests that hold one number are known as twins.
HoldersAreTwins ==
  \A s, t \in DrawSlots :
    s # t /\ Inserting(s) /\ Inserting(t) /\ draw[s].number = draw[t].number =>
      <<Order(s), Order(t)>> \in twins

\* The look-up is done by the time a number is held: an order that has the number
\* of a request has got it since, from a twin of that request.
TakenByTwin ==
  \A s \in DrawSlots : \A o \in DOMAIN numbered :
    Inserting(s) /\ numbered[o] = draw[s].number => <<Order(s), o>> \in twins

NumbersInv ==
  OrderNumbersTypeOK /\ DrawsNamed /\ HoldersAreTwins /\ TakenByTwin /\ RefusedToTwin

LEMMA NumbersStart == NumberInit => NumbersInv
  <1> SUFFICES ASSUME NumberInit PROVE NumbersInv
    OBVIOUS
  <1> USE OrderNumbersAssumption DEF NumberInit
  <1>1. DOMAIN numbered = {}
    OBVIOUS
  <1>2. OrderNumbersTypeOK
    BY <1>1 DEF OrderNumbersTypeOK
  <1>3. \A s \in DrawSlots : draw[s] = NoDraw /\ draw[s].pc = "none"
    BY DEF NoDraw
  <1> QED
    BY <1>1, <1>2, <1>3
       DEF NumbersInv, DrawsNamed, HoldersAreTwins, TakenByTwin, Inserting, RefusedToTwin

\* What a request that is about to insert holds.
LEMMA HeldNumber ==
  ASSUME NumbersInv, NEW s \in DrawSlots, Inserting(s)
  PROVE  /\ draw[s] \in [pc : {"insert"}, order : 1..MaxDraws, number : Number]
         /\ Order(s) \in 1..draws /\ Order(s) \in 1..MaxDraws /\ draw[s] # NoDraw
         /\ draw[s].number \in Number
  <1>1. /\ draw[s] \in [pc : {"insert"}, order : 1..MaxDraws, number : Number]
        /\ draw[s] # NoDraw
    BY DEF NumbersInv, OrderNumbersTypeOK, Inserting, NoDraw
  <1>2. draw[s].order \in 1..MaxDraws /\ draw[s].number \in Number
    BY <1>1
  <1>3. draw[s].order <= draws /\ draws \in Nat
    BY <1>1 DEF NumbersInv, DrawsNamed, OrderNumbersTypeOK
  <1> QED
    BY <1>1, <1>2, <1>3, OrderNumbersAssumption DEF Order

\* A slot that is left takes nothing with it.
LEMMA SlotLeft ==
  ASSUME NumbersInv, NEW s \in DrawSlots, draw' = [draw EXCEPT ![s] = NoDraw]
  PROVE  /\ draw' \in [DrawSlots -> {NoDraw} \cup [pc : {"draw"}, order : 1..MaxDraws]
                         \cup [pc : {"insert"}, order : 1..MaxDraws, number : Number]]
         /\ \A t \in DrawSlots : t # s => draw'[t] = draw[t]
         /\ draw'[s] = NoDraw /\ draw'[s].pc # "insert"
  BY DEF NumbersInv, OrderNumbersTypeOK, NoDraw

\* An order that is inserted takes a number that is free: what holds it as well
\* are its twins.
LEMMA NumberedKeeps ==
  ASSUME NumbersInv, NEW s \in DrawSlots, InsertNumbered(s)
  PROVE  NumbersInv'
  <1> USE OrderNumbersAssumption
  <1> DEFINE o == draw[s].order
             n == draw[s].number
  <1>1. Inserting(s) /\ draw' = [draw EXCEPT ![s] = NoDraw]
    BY DEF InsertNumbered, Inserting
  <1>2. /\ DOMAIN numbered' = DOMAIN numbered \cup {o}
        /\ \A x \in DOMAIN numbered' : numbered'[x] = IF x = o THEN n ELSE numbered[x]
        /\ UNCHANGED <<today, draws, twins, refused>>
    BY DEF InsertNumbered
  <1>3. o \in 1..draws /\ o \in 1..MaxDraws /\ n \in Number
    BY <1>1, HeldNumber DEF Order
  <1>4. /\ \A t \in DrawSlots : t # s => draw'[t] = draw[t]
        /\ draw'[s] = NoDraw /\ draw'[s].pc # "insert"
    BY <1>1, SlotLeft
  <1>5. OrderNumbersTypeOK'
    <2>1. DOMAIN numbered' \subseteq 1..draws'
      BY <1>2, <1>3 DEF NumbersInv, OrderNumbersTypeOK
    <2>2. \A x \in DOMAIN numbered' : numbered'[x] \in Number
      BY <1>2, <1>3 DEF NumbersInv, OrderNumbersTypeOK
    <2>3. draw' \in [DrawSlots -> {NoDraw} \cup [pc : {"draw"}, order : 1..MaxDraws]
                 \cup [pc : {"insert"}, order : 1..MaxDraws, number : Number]]
      BY <1>1, SlotLeft
    <2> QED
      BY <1>2, <2>1, <2>2, <2>3 DEF NumbersInv, OrderNumbersTypeOK
  <1>6. DrawsNamed'
    BY <1>2, <1>4 DEF NumbersInv, DrawsNamed
  <1>7. HoldersAreTwins'
    BY <1>2, <1>4 DEF NumbersInv, HoldersAreTwins, Inserting, Order
  <1>8. TakenByTwin'
    <2> SUFFICES ASSUME NEW t \in DrawSlots, NEW x \in DOMAIN numbered',
                        Inserting(t)', numbered'[x] = draw'[t].number
                 PROVE  <<draw'[t].order, x>> \in twins'
      BY DEF TakenByTwin, Order
    <2>1. t # s /\ draw'[t] = draw[t] /\ Inserting(t)
      BY <1>4 DEF Inserting
    <2>2. CASE x = o
      BY <1>1, <1>2, <2>1, <2>2 DEF NumbersInv, HoldersAreTwins, Order
    <2>3. CASE x # o
      BY <1>2, <2>1, <2>3 DEF NumbersInv, TakenByTwin, Order
    <2> QED
      BY <2>2, <2>3
  <1> QED
    BY <1>2, <1>5, <1>6, <1>7, <1>8 DEF NumbersInv, RefusedToTwin

\* A number that is drawn was free when it was looked up; whoever holds it as
\* well becomes a twin.
LEMMA DrawKeeps ==
  ASSUME NumbersInv, NEW s \in DrawSlots, NEW d \in Serials, generateOrderNumber(s, d)
  PROVE  NumbersInv'
  <1> USE OrderNumbersAssumption
  <1> DEFINE o == draw[s].order
             n == <<today, d>>
             held == [pc |-> "insert", order |-> o, number |-> n]
  <1>1. /\ draw[s] \in [pc : {"draw"}, order : 1..MaxDraws] /\ draw[s] # NoDraw
        /\ o \in 1..MaxDraws /\ o <= draws /\ n \in Number
    BY DEF generateOrderNumber, NoDraw, NumbersInv, DrawsNamed, OrderNumbersTypeOK, Number
  <1>2. /\ draw' = [draw EXCEPT ![s] = held]
        /\ twins' = twins \cup {<<o, x>> : x \in Holders(n)} \cup {<<x, o>> : x \in Holders(n)}
        /\ UNCHANGED <<numbered, today, draws, refused>>
        /\ \A x \in DOMAIN numbered : numbered[x] # n
    BY DEF generateOrderNumber, Take, TakenNumbers
  <1>3. held \in [pc : {"insert"}, order : 1..MaxDraws, number : Number]
    BY <1>1
  <1>4. /\ \A t \in DrawSlots : t # s => draw'[t] = draw[t]
        /\ draw'[s] = held
    BY <1>2 DEF NumbersInv, OrderNumbersTypeOK
  <1>5. \A t \in DrawSlots : Inserting(t) /\ draw[t].number = n =>
          /\ Order(t) \in Holders(n)
          /\ <<o, Order(t)>> \in twins' /\ <<Order(t), o>> \in twins'
    BY <1>2 DEF Holders, Inserting, Order
  <1>6. Holders(n) \subseteq 1..MaxDraws
    BY HeldNumber DEF Holders, Inserting, Order
  <1>7. OrderNumbersTypeOK'
    <2>1. draw' \in [DrawSlots -> {NoDraw} \cup [pc : {"draw"}, order : 1..MaxDraws]
                 \cup [pc : {"insert"}, order : 1..MaxDraws, number : Number]]
      BY <1>2, <1>3 DEF NumbersInv, OrderNumbersTypeOK
    <2>2. twins' \subseteq (1..MaxDraws) \X (1..MaxDraws)
      BY <1>1, <1>2, <1>6 DEF NumbersInv, OrderNumbersTypeOK
    <2> QED
      BY <1>2, <2>1, <2>2 DEF NumbersInv, OrderNumbersTypeOK
  <1>8. DrawsNamed'
    BY <1>1, <1>2, <1>4 DEF NumbersInv, DrawsNamed
  <1>9. HoldersAreTwins'
    <2> SUFFICES ASSUME NEW t \in DrawSlots, NEW u \in DrawSlots, t # u,
                        draw'[t].pc = "insert", draw'[u].pc = "insert",
                        draw'[t].number = draw'[u].number
                 PROVE  <<draw'[t].order, draw'[u].order>> \in twins'
      BY DEF HoldersAreTwins, Inserting, Order
    <2>1. CASE t = s
      <3>1. u # s /\ draw'[t] = held /\ draw'[u] = draw[u]
        BY <1>4, <2>1
      <3>2. Inserting(u) /\ draw[u].number = n /\ draw'[t].order = o
        BY <3>1 DEF Inserting
      <3>3. draw'[u].order = Order(u)
        BY <3>1 DEF Order
      <3> QED
        BY <1>5, <3>2, <3>3
    <2>2. CASE u = s
      <3>1. t # s /\ draw'[u] = held /\ draw'[t] = draw[t]
        BY <1>4, <2>2
      <3>2. Inserting(t) /\ draw[t].number = n /\ draw'[u].order = o
        BY <3>1 DEF Inserting
      <3>3. draw'[t].order = Order(t)
        BY <3>1 DEF Order
      <3> QED
        BY <1>5, <3>2, <3>3
    <2>3. CASE t # s /\ u # s
      BY <1>2, <1>4, <2>3 DEF NumbersInv, HoldersAreTwins, Inserting, Order
    <2> QED
      BY <2>1, <2>2, <2>3
  <1>10. TakenByTwin'
    <2> SUFFICES ASSUME NEW t \in DrawSlots, NEW x \in DOMAIN numbered,
                        draw'[t].pc = "insert", numbered[x] = draw'[t].number
                 PROVE  <<draw'[t].order, x>> \in twins'
      BY <1>2 DEF TakenByTwin, Inserting, Order
    <2>1. t # s
      BY <1>2, <1>4
    <2> QED
      BY <1>2, <1>4, <2>1 DEF NumbersInv, TakenByTwin, Inserting, Order
  <1> QED
    BY <1>2, <1>7, <1>8, <1>9, <1>10 DEF NumbersInv, RefusedToTwin

\* What the index refuses is what a twin has got.
LEMMA RefuseKeeps ==
  ASSUME NumbersInv, NEW s \in DrawSlots, RefuseNumber(s)
  PROVE  NumbersInv'
  <1> USE OrderNumbersAssumption
  <1> DEFINE owners == {x \in DOMAIN numbered : numbered[x] = draw[s].number}
  <1>1. /\ Inserting(s) /\ draw' = [draw EXCEPT ![s] = NoDraw]
        /\ refused' = refused \cup {<<draw[s].order, x>> : x \in owners}
        /\ UNCHANGED <<numbered, today, draws, twins>>
    BY DEF RefuseNumber, Inserting
  <1>2. {<<draw[s].order, x>> : x \in owners} \subseteq twins
    BY <1>1 DEF NumbersInv, TakenByTwin, Order
  <1>3. /\ \A t \in DrawSlots : t # s => draw'[t] = draw[t]
        /\ draw'[s] = NoDraw /\ draw'[s].pc # "insert"
    BY <1>1, SlotLeft
  <1>4. RefusedToTwin'
    BY <1>1, <1>2 DEF NumbersInv, RefusedToTwin
  <1>5. OrderNumbersTypeOK'
    <2>1. draw' \in [DrawSlots -> {NoDraw} \cup [pc : {"draw"}, order : 1..MaxDraws]
                 \cup [pc : {"insert"}, order : 1..MaxDraws, number : Number]]
      BY <1>1, SlotLeft
    <2>2. refused' \subseteq (1..MaxDraws) \X (1..MaxDraws)
      BY <1>1, <1>2 DEF NumbersInv, OrderNumbersTypeOK
    <2> QED
      BY <1>1, <2>1, <2>2 DEF NumbersInv, OrderNumbersTypeOK
  <1>6. DrawsNamed' /\ HoldersAreTwins' /\ TakenByTwin'
    BY <1>1, <1>3 DEF NumbersInv, DrawsNamed, HoldersAreTwins, TakenByTwin, Inserting, Order
  <1> QED
    BY <1>4, <1>5, <1>6 DEF NumbersInv

LEMMA AskKeeps ==
  ASSUME NumbersInv, NEW s \in DrawSlots, AskNumber(s)
  PROVE  NumbersInv'
  <1> USE OrderNumbersAssumption
  <1> DEFINE inLoop == [pc |-> "draw", order |-> draws + 1]
  <1>1. /\ draws' = draws + 1 /\ draws \in Nat /\ draws' \in 0..MaxDraws
        /\ draw' = [draw EXCEPT ![s] = inLoop]
        /\ UNCHANGED <<numbered, today, twins, refused>>
    BY DEF AskNumber, NumbersInv, OrderNumbersTypeOK
  <1>2. /\ inLoop \in [pc : {"draw"}, order : 1..MaxDraws]
        /\ inLoop.pc = "draw" /\ inLoop.order = draws + 1
    BY <1>1
  <1> HIDE DEF inLoop
  <1>3. /\ \A t \in DrawSlots : t # s => draw'[t] = draw[t]
        /\ draw'[s] = inLoop
    BY <1>1 DEF NumbersInv, OrderNumbersTypeOK
  <1>4. OrderNumbersTypeOK'
    <2>1. draw' \in [DrawSlots -> {NoDraw} \cup [pc : {"draw"}, order : 1..MaxDraws]
                 \cup [pc : {"insert"}, order : 1..MaxDraws, number : Number]]
      BY <1>1, <1>2 DEF NumbersInv, OrderNumbersTypeOK
    <2>2. DOMAIN numbered' \subseteq 1..draws'
      BY <1>1 DEF NumbersInv, OrderNumbersTypeOK
    <2> QED
      BY <1>1, <2>1, <2>2 DEF NumbersInv, OrderNumbersTypeOK
  <1>5. DrawsNamed'
    <2> SUFFICES ASSUME NEW t \in DrawSlots, draw'[t] # NoDraw PROVE draw'[t].order <= draws'
      BY DEF DrawsNamed
    <2>1. CASE t = s
      BY <1>1, <1>2, <1>3, <2>1
    <2>2. CASE t # s
      <3>1. draw[t] # NoDraw /\ draw'[t] = draw[t]
        BY <1>3, <2>2
      <3>2. draw[t].order <= draws /\ draw[t].order \in 1..MaxDraws
        BY <3>1 DEF NumbersInv, OrderNumbersTypeOK, DrawsNamed
      <3> QED
        BY <1>1, <3>1, <3>2
    <2> QED
      BY <2>1, <2>2
  <1>6. HoldersAreTwins' /\ TakenByTwin'
    BY <1>1, <1>2, <1>3 DEF NumbersInv, HoldersAreTwins, TakenByTwin, Inserting, Order
  <1> QED
    BY <1>1, <1>4, <1>5, <1>6 DEF NumbersInv, RefusedToTwin

LEMMA NumbersStep == NumbersInv /\ [NumberNext]_numberVars => NumbersInv'
  <1> SUFFICES ASSUME NumbersInv, [NumberNext]_numberVars PROVE NumbersInv'
    OBVIOUS
  <1> USE OrderNumbersAssumption
  <1>1. ASSUME NEW s \in DrawSlots, FailDraw(s) PROVE NumbersInv'
    <2>1. /\ draw' = [draw EXCEPT ![s] = NoDraw]
          /\ UNCHANGED <<numbered, today, draws, twins, refused>>
      BY <1>1 DEF FailDraw
    <2>2. OrderNumbersTypeOK'
      BY <2>1, SlotLeft DEF NumbersInv, OrderNumbersTypeOK
    <2>3. DrawsNamed' /\ HoldersAreTwins' /\ TakenByTwin'
      <3>1. /\ \A t \in DrawSlots : t # s => draw'[t] = draw[t]
            /\ draw'[s] = NoDraw /\ draw'[s].pc # "insert"
        BY <2>1, SlotLeft
      <3> QED
        BY <2>1, <3>1
           DEF NumbersInv, DrawsNamed, HoldersAreTwins, TakenByTwin, Inserting, Order
    <2> QED
      BY <2>1, <2>2, <2>3 DEF NumbersInv, RefusedToTwin
  <1>2. ASSUME NEW o \in 1..MaxDraws, DeleteNumbered(o) PROVE NumbersInv'
    BY <1>2
       DEF DeleteNumbered, NumbersInv, OrderNumbersTypeOK, DrawsNamed, HoldersAreTwins,
           TakenByTwin, Inserting, Order, RefusedToTwin
  <1>3. CASE Midnight
    BY <1>3
       DEF Midnight, NumbersInv, OrderNumbersTypeOK, DrawsNamed, HoldersAreTwins,
           TakenByTwin, Inserting, Order, RefusedToTwin
  <1>4. CASE UNCHANGED numberVars
    BY <1>4
       DEF numberVars, NumbersInv, OrderNumbersTypeOK, DrawsNamed, HoldersAreTwins,
           TakenByTwin, Inserting, Order, RefusedToTwin
  <1> QED
    BY <1>1, <1>2, <1>3, <1>4, NumberedKeeps, DrawKeeps, RefuseKeeps, AskKeeps DEF NumberNext

LEMMA NumbersHold == NumberSpec => []NumbersInv
  BY NumbersStart, NumbersStep, PTL DEF NumberSpec

\* However many requests draw at the same time, while orders are deleted and the
\* day changes: the unique index refuses an order only for a number that another
\* request held when this one drew it, or drew while this one held it.  The
\* look-up of generateOrderNumber is never made wrong by anything else.
THEOREM RefusalsHaveTwins == NumberSpec => [](OrderNumbersTypeOK /\ RefusedToTwin)
  <1>1. NumbersInv => OrderNumbersTypeOK /\ RefusedToTwin
    BY DEF NumbersInv
  <1> QED
    BY <1>1, NumbersHold, PTL

-----------------------------------------------------------------------------
(***************************************************************************)
(* Health                                                                  *)
(***************************************************************************)
\* A client that tries again has attempts left, and one that is connected
\* leads to a Redis that runs.
LinkSound ==
  /\ Client = "retrying" => link.times <= RedisTries
  /\ Client = "connected" => "redis" \in up

\* A check has seen what runs now and all that it has found healthy, a MongoDB
\* excepted whose going mongoose had not noticed when it began; and one that began
\* when Redis was given up will not find it.
CheckSound ==
  Checking =>
    /\ up \subseteq check.seen
    /\ \A x \in Stores : check.probed[x] = "healthy" =>
                         x \in check.seen \/ (x = "mongodb" /\ check.stale)
    /\ connected => "mongodb" \in check.seen \/ check.stale
    /\ check.lost => Client = "ended" /\ check.probed["redis"] # "healthy"

HealthInv == HealthTypeOK /\ LinkSound /\ CheckSound /\ VerdictsSound

LEMMA NoCheckIsNone == NoCheck \notin Check
  BY DEF NoCheck, Check

LEMMA CheckFields ==
  ASSUME HealthTypeOK, Checking
  PROVE  /\ check \in Check
         /\ check.kind \in {"detailed", "ready"} /\ check.probed \in [Stores -> Condition]
         /\ check.seen \subseteq Stores /\ check.lost \in BOOLEAN /\ check.stale \in BOOLEAN
         /\ ProbedBy(check.kind) \subseteq Stores /\ "redis" \in ProbedBy(check.kind)
  BY DEF HealthTypeOK, Checking, Check, NoCheck, ProbedBy, Stores

LEMMA HealthStart == HealthInit => HealthInv
  BY HealthAssumption
     DEF HealthInit, HealthInv, HealthTypeOK, LinkSound, CheckSound, VerdictsSound, Client,
         Checking, VerdictGrounded, GivenUpStaysDown, NoVerdict, Verdict, NoCheck, Stores

\* The client's next attempt leads to a link of the right type, and a failed one
\* to one that has attempts left or is at its end.
LEMMA StrategyBounded ==
  ASSUME NEW n \in 0..RedisTries
  PROVE  /\ retryStrategy(n + 1) \in
              [state : {"none", "connected", "retrying", "ended"}, times : 0..RedisTries + 1]
         /\ retryStrategy(n + 1).state \in {"retrying", "ended"}
         /\ retryStrategy(n + 1).state = "retrying" => retryStrategy(n + 1).times <= RedisTries
  BY HealthAssumption DEF retryStrategy

\* A probe that has looked at what it asks for writes down what it saw.
LEMMA ProbeKeeps ==
  ASSUME HealthInv, NEW x \in Stores, NEW healthy \in BOOLEAN, Checking, Found(x, healthy),
         healthy => x \in up \/ (x = "mongodb" /\ connected),
         (x = "redis" /\ healthy) => Client # "ended"
  PROVE  HealthInv'
  <1> DEFINE c == IF healthy THEN "healthy" ELSE "unhealthy"
  <1>1. /\ check' = [check EXCEPT !.probed = [check.probed EXCEPT ![x] = c]]
        /\ up' = up /\ link' = link /\ connected' = connected
        /\ verdict' = verdict /\ flips' = flips
    BY DEF Found
  <1>2. /\ check \in Check
        /\ check.kind \in {"detailed", "ready"} /\ check.probed \in [Stores -> Condition]
        /\ check.seen \subseteq Stores /\ check.lost \in BOOLEAN /\ check.stale \in BOOLEAN
    BY CheckFields DEF HealthInv
  <1>3. c \in Condition /\ (c = "healthy" => healthy)
    BY DEF Condition
  <1> HIDE DEF c
  <1>4. /\ check' \in Check
        /\ check'.probed = [check.probed EXCEPT ![x] = c]
        /\ check'.seen = check.seen /\ check'.lost = check.lost /\ check'.kind = check.kind
        /\ check'.stale = check.stale
    BY <1>1, <1>2, <1>3 DEF Check
  <1>5. HealthTypeOK' /\ LinkSound' /\ VerdictsSound'
    BY <1>1, <1>4
       DEF HealthInv, HealthTypeOK, LinkSound, VerdictsSound, VerdictGrounded,
           GivenUpStaysDown, Client
  <1>6. CheckSound'
    <2>1. /\ up \subseteq check.seen
          /\ \A y \in Stores : check.probed[y] = "healthy" =>
                               y \in check.seen \/ (y = "mongodb" /\ check.stale)
          /\ connected => "mongodb" \in check.seen \/ check.stale
          /\ check.lost => Client = "ended" /\ check.probed["redis"] # "healthy"
      BY DEF HealthInv, CheckSound
    <2>2. \A y \in Stores : check'.probed[y] = IF y = x THEN c ELSE check.probed[y]
      BY <1>2, <1>4
    <2>3. up' \subseteq check'.seen
      BY <1>1, <1>4, <2>1
    <2>4. \A y \in Stores : check'.probed[y] = "healthy" =>
                            y \in check'.seen \/ (y = "mongodb" /\ check'.stale)
      BY <1>3, <1>4, <2>1, <2>2
    <2>6. connected' => "mongodb" \in check'.seen \/ check'.stale
      BY <1>1, <1>4, <2>1
    <2>5. check'.lost => Client' = "ended" /\ check'.probed["redis"] # "healthy"
      BY <1>1, <1>3, <1>4, <2>1, <2>2 DEF Client, Stores
    <2> QED
      BY <2>3, <2>4, <2>5, <2>6 DEF CheckSound
  <1> QED
    BY <1>5, <1>6 DEF HealthInv

LEMMA AnswerKeeps ==
  ASSUME HealthInv, AnswerCheck
  PROVE  HealthInv'
  <1>1. /\ check \in Check /\ Checking
        /\ check.kind \in {"detailed", "ready"} /\ check.probed \in [Stores -> Condition]
        /\ check.seen \subseteq Stores /\ check.lost \in BOOLEAN /\ check.stale \in BOOLEAN
        /\ ProbedBy(check.kind) \subseteq Stores /\ "redis" \in ProbedBy(check.kind)
    BY CheckFields DEF HealthInv, AnswerCheck
  <1>2. /\ verdict' = [kind |-> check.kind, good |-> AllHealthy, seen |-> check.seen,
                       lost |-> check.lost, stale |-> check.stale]
        /\ check' = NoCheck /\ UNCHANGED <<up, link, connected, flips>>
    BY DEF AnswerCheck
  <1>3. AllHealthy \in BOOLEAN
    BY DEF AllHealthy
  <1>4. AllHealthy =>
          /\ \A x \in ProbedBy(check.kind) \ check.seen : x = "mongodb" /\ check.stale
          /\ ~check.lost
    BY <1>1 DEF AllHealthy, HealthInv, CheckSound
  <1>5. verdict' \in Verdict
    BY <1>1, <1>2, <1>3 DEF Verdict
  <1>6. /\ verdict'.good = AllHealthy /\ verdict'.kind = check.kind
        /\ verdict'.seen = check.seen /\ verdict'.lost = check.lost
        /\ verdict'.stale = check.stale
    BY <1>2
  <1>7. VerdictsSound'
    <2>1. VerdictGrounded'
      BY <1>4, <1>6 DEF VerdictGrounded, ProbedBy
    <2>2. GivenUpStaysDown'
      BY <1>4, <1>6 DEF GivenUpStaysDown
    <2> QED
      BY <2>1, <2>2 DEF VerdictsSound
  <1>8. HealthTypeOK' /\ LinkSound'
    BY <1>2, <1>5 DEF HealthInv, HealthTypeOK, LinkSound, Client
  <1>9. CheckSound'
    BY <1>2 DEF CheckSound, Checking
  <1> QED
    BY <1>7, <1>8, <1>9 DEF HealthInv

LEMMA HealthStep == HealthInv /\ [HealthNext]_healthVars => HealthInv'
  <1> SUFFICES ASSUME HealthInv, [HealthNext]_healthVars PROVE HealthInv'
    OBVIOUS
  <1> USE HealthAssumption
  <1>1. ASSUME NEW x \in Stores, StoreDown(x) PROVE HealthInv'
    <2>1. /\ up' = up \ {x} /\ flips' \in 0..MaxFlips
          /\ connected' = connected /\ check' = check /\ verdict' = verdict
          /\ link' = IF x = "redis" /\ Client = "connected" THEN retryStrategy(1) ELSE link
      BY <1>1 DEF StoreDown, HealthInv, HealthTypeOK
    <2>2. /\ retryStrategy(1) \in
               [state : {"none", "connected", "retrying", "ended"}, times : 0..RedisTries + 1]
          /\ retryStrategy(1).state \in {"retrying", "ended"}
          /\ retryStrategy(1).state = "retrying" => retryStrategy(1).times <= RedisTries
      <3>1. 0 \in 0..RedisTries /\ 0 + 1 = 1
        OBVIOUS
      <3> QED
        BY <3>1, StrategyBounded
    <2>3. HealthTypeOK'
      BY <2>1, <2>2 DEF HealthInv, HealthTypeOK
    <2>4. LinkSound'
      BY <2>1, <2>2 DEF HealthInv, LinkSound, Client
    <2>5. CheckSound'
      BY <2>1, <2>2 DEF HealthInv, CheckSound, Client, Checking
    <2> QED
      BY <2>1, <2>3, <2>4, <2>5 DEF HealthInv, VerdictsSound, VerdictGrounded, GivenUpStaysDown
  <1>2. ASSUME NEW x \in Stores, StoreUp(x) PROVE HealthInv'
    <2>1. /\ up' = up \cup {x} /\ flips' \in 0..MaxFlips
          /\ check' = IF Checking THEN [check EXCEPT !.seen = check.seen \cup {x}] ELSE check
          /\ link' = link /\ connected' = connected /\ verdict' = verdict
      BY <1>2 DEF StoreUp, HealthInv, HealthTypeOK, Seen
    <2>2. Checking =>
            /\ check' \in Check
            /\ check'.seen = check.seen \cup {x} /\ check'.probed = check.probed
            /\ check'.lost = check.lost /\ check'.stale = check.stale
      BY <2>1, CheckFields DEF HealthInv, Check
    <2>3. HealthTypeOK'
      BY <2>1, <2>2 DEF HealthInv, HealthTypeOK
    <2>4. LinkSound'
      BY <2>1 DEF HealthInv, LinkSound, Client
    <2>5. CheckSound'
      BY <2>1, <2>2 DEF HealthInv, CheckSound, Client, Checking
    <2> QED
      BY <2>1, <2>3, <2>4, <2>5 DEF HealthInv, VerdictsSound, VerdictGrounded, GivenUpStaysDown
  <1>3. CASE CreateClient
    BY <1>3 DEF CreateClient, HealthInv, HealthTypeOK, LinkSound, CheckSound, Client, Checking,
                VerdictsSound, VerdictGrounded, GivenUpStaysDown
  <1>4. CASE RetryRedis
    <2>1. /\ Client = "retrying" /\ link.times \in 0..RedisTries
          /\ link' = IF "redis" \in up THEN [state |-> "connected", times |-> 0]
                                       ELSE retryStrategy(link.times + 1)
          /\ UNCHANGED <<up, connected, check, verdict, flips>>
      BY <1>4 DEF RetryRedis, HealthInv, HealthTypeOK, LinkSound, Client
    <2>2. /\ retryStrategy(link.times + 1) \in
               [state : {"none", "connected", "retrying", "ended"}, times : 0..RedisTries + 1]
          /\ retryStrategy(link.times + 1).state \in {"retrying", "ended"}
          /\ retryStrategy(link.times + 1).state = "retrying" =>
               retryStrategy(link.times + 1).times <= RedisTries
      BY <2>1, StrategyBounded
    <2>3. HealthTypeOK'
      BY <2>1, <2>2 DEF HealthInv, HealthTypeOK
    <2>4. LinkSound'
      BY <2>1, <2>2 DEF HealthInv, LinkSound, Client
    <2>5. CheckSound'
      BY <2>1 DEF HealthInv, CheckSound, Client, Checking
    <2> QED
      BY <2>1, <2>3, <2>4, <2>5 DEF HealthInv, VerdictsSound, VerdictGrounded, GivenUpStaysDown
  <1>5. ASSUME NEW kind \in {"detailed", "ready"}, StartCheck(kind) PROVE HealthInv'
    <2>1. /\ check' = [kind |-> kind, probed |-> [x \in Stores |-> "unknown"], seen |-> up,
                       lost |-> Client = "ended",
                       stale |-> connected /\ "mongodb" \notin up]
          /\ verdict' = NoVerdict /\ UNCHANGED <<up, link, connected, flips>>
      BY <1>5 DEF StartCheck
    <2>2. /\ check' \in Check /\ check'.seen = up
          /\ \A x \in Stores : check'.probed[x] = "unknown"
          /\ check'.lost = (Client = "ended")
          /\ check'.stale = (connected /\ "mongodb" \notin up)
      BY <2>1 DEF Check, HealthInv, HealthTypeOK, Condition
    <2>3. HealthTypeOK' /\ LinkSound'
      BY <2>1, <2>2 DEF HealthInv, HealthTypeOK, LinkSound, Client, NoVerdict, Verdict
    <2>4. CheckSound'
      BY <2>1, <2>2 DEF CheckSound, Client, Stores
    <2>5. VerdictsSound'
      BY <2>1 DEF VerdictsSound, VerdictGrounded, GivenUpStaysDown, NoVerdict
    <2> QED
      BY <2>3, <2>4, <2>5 DEF HealthInv
  <1>6. CASE checkPostgreSQL
    <2>1. /\ Checking /\ Found("postgres", "postgres" \in up)
          /\ "postgres" \in Stores /\ ("postgres" \in up) \in BOOLEAN
      BY <1>6 DEF checkPostgreSQL, Unanswered, AskedFor, Stores
    <2> QED
      BY <2>1, ProbeKeeps
  <1>7. CASE checkMongoDB
    <2>1. /\ Checking /\ Found("mongodb", connected)
          /\ "mongodb" \in Stores /\ connected \in BOOLEAN
      BY <1>7 DEF checkMongoDB, Unanswered, AskedFor, Stores, HealthInv, HealthTypeOK
    <2> QED
      BY <2>1, ProbeKeeps
  <1>8. CASE checkRedis
    <2>1. Checking /\ Found("redis", Client = "connected") /\ "redis" \in Stores
      BY <1>8 DEF checkRedis, Unanswered, AskedFor, Stores
    <2>2. Client = "connected" => "redis" \in up
      BY DEF HealthInv, LinkSound
    <2> QED
      BY <2>1, <2>2, ProbeKeeps
  <1>9. CASE AnswerCheck
    BY <1>9, AnswerKeeps
  <1>10. CASE HeartbeatMongo
    <2>1. /\ connected' = ("mongodb" \in up)
          /\ UNCHANGED <<up, link, check, verdict, flips>>
      BY <1>10 DEF HeartbeatMongo
    <2>2. HealthTypeOK' /\ LinkSound' /\ VerdictsSound'
      BY <2>1 DEF HealthInv, HealthTypeOK, LinkSound, Client, VerdictsSound, VerdictGrounded,
                  GivenUpStaysDown
    <2>3. CheckSound'
      BY <2>1 DEF HealthInv, CheckSound, Client, Checking
    <2> QED
      BY <2>2, <2>3 DEF HealthInv
  <1>11. CASE UNCHANGED healthVars
    BY <1>11 DEF healthVars, HealthInv, HealthTypeOK, LinkSound, CheckSound, Client, Checking,
                 VerdictsSound, VerdictGrounded, GivenUpStaysDown
  <1> QED
    BY <1>1, <1>2, <1>3, <1>4, <1>5, <1>6, <1>7, <1>8, <1>9, <1>10, <1>11 DEF HealthNext

LEMMA HealthHolds == HealthSpec => []HealthInv
  BY HealthStart, HealthStep, PTL DEF HealthSpec

\* For any number of attempts of the client: a good verdict names stores each of
\* which ran during the check, a MongoDB excepted that was gone before it began
\* while readyState still said connected, and none is good once the client has
\* given up (detailedCheck, readinessCheck, isConnected, retryStrategy).
THEOREM VerdictsAreSound == HealthSpec => [](HealthTypeOK /\ VerdictsSound)
  <1>1. HealthInv => HealthTypeOK /\ VerdictsSound
    BY DEF HealthInv
  <1> QED
    BY <1>1, HealthHolds, PTL

-----------------------------------------------------------------------------
(***************************************************************************)
(* SeedRun                                                                 *)
(***************************************************************************)
\* The script has been undisturbed by the server.
Undisturbed == guests = 0

\* What the statements so far have come to: a table that was emptied stays empty
\* until the script fills it again.
RunSound ==
  /\ visited => ~Undisturbed
  /\ stage # 0 => outcome = "none"
  /\ Cleaning /\ ~visited =>
       \A i \in 1..10 : i < stage => content[cleanDatabase[i]] = "empty"
  /\ Creating /\ Undisturbed =>
       /\ \A i \in 1..5 : i < stage - 10 => content[main[i]] = "seed"
       /\ \A t \in Tables :
            (\A i \in 1..5 : i < stage - 10 => main[i] # t) => content[t] = "empty"

SeedInv == SeedTypeOK /\ RunSound /\ SeedSound

LEMMA CleanTables ==
  /\ cleanDatabase[1] = "favorite" /\ cleanDatabase[2] = "review"
  /\ cleanDatabase[3] = "chatMessage" /\ cleanDatabase[4] = "chatRoomMember"
  /\ cleanDatabase[5] = "chatRoom" /\ cleanDatabase[6] = "notification"
  /\ cleanDatabase[7] = "order" /\ cleanDatabase[8] = "product"
  /\ cleanDatabase[9] = "category" /\ cleanDatabase[10] = "user"
  BY DEF cleanDatabase

LEMMA MainTables ==
  /\ main[1] = "user" /\ main[2] = "category" /\ main[3] = "product"
  /\ main[4] = "order" /\ main[5] = "favorite"
  BY DEF main

LEMMA MainDomain == DOMAIN main = 1..5
  BY DEF main

LEMMA CleanCovers == \A t \in Tables : \E i \in 1..10 : cleanDatabase[i] = t
  <1>1. \A i \in 1..10 : i \in Nat
    OBVIOUS
  <1> QED
    BY CleanTables DEF Tables

LEMMA CleanedAreTables == \A k \in 1..10 : cleanDatabase[k] \in Tables
  BY CleanTables DEF Tables

LEMMA MainAreTables == \A k \in 1..5 : main[k] \in Tables
  BY MainTables DEF Tables

\* The order of cleanDatabase: what refuses the deletion of a table is emptied
\* before it.
LEMMA RestrictersGoFirst ==
  ASSUME NEW k \in 1..10, NEW u \in Tables, <<u, cleanDatabase[k]>> \in Restricts
  PROVE  \E i \in 1..10 : i < k /\ cleanDatabase[i] = u
  <1>1. \/ u = "product" /\ cleanDatabase[k] = "category"
        \/ u = "product" /\ cleanDatabase[k] = "user"
        \/ u = "order" /\ cleanDatabase[k] = "user"
        \/ u = "order" /\ cleanDatabase[k] = "product"
        \/ u = "review" /\ cleanDatabase[k] = "user"
    BY DEF Restricts
  <1>2. /\ cleanDatabase[k] = "category" => k = 9
        /\ cleanDatabase[k] = "user" => k = 10
        /\ cleanDatabase[k] = "product" => k = 8
    BY CleanTables
  <1> QED
    BY <1>1, <1>2, CleanTables

LEMMA SeedStart == SeedInit => SeedInv
  <1> SUFFICES ASSUME SeedInit PROVE SeedInv
    OBVIOUS
  <1> USE SeedRunAssumption
  <1>1. content \in [Tables -> {"empty", "seed", "other"}]
    BY DEF SeedInit
  <1>2. stage = 0 /\ runs = 0 /\ guests = 0 /\ outcome = "none" /\ visited = FALSE
    BY DEF SeedInit
  <1>3. ~Cleaning /\ ~Creating /\ ~visited /\ outcome # "refused" /\ outcome # "done"
    BY <1>2 DEF Cleaning, Creating
  <1>4. SeedTypeOK
    <2>1. visited \in BOOLEAN
      BY <1>2
    <2>2. stage \in 0..15 /\ runs \in 0..MaxRuns /\ guests \in 0..MaxGuests
      BY <1>2
    <2> QED
      BY <1>1, <1>2, <2>1, <2>2 DEF SeedTypeOK
  <1>5. RunSound
    BY <1>2, <1>3 DEF RunSound
  <1> QED
    BY <1>3, <1>4, <1>5 DEF SeedInv, SeedSound, CleanRefusedByServerOnly, DoneMeansSeeded

LEMMA CleanTableKeeps ==
  ASSUME SeedInv, CleanTable
  PROVE  SeedInv'
  <1> USE SeedRunAssumption
  <1>1. stage \in 1..10 /\ Deleted \in Tables /\ outcome = "none"
    BY CleanedAreTables DEF CleanTable, Cleaning, Deleted, SeedInv, RunSound
  <1>2. CASE NeededBy(Deleted) # {}
    <2>1. /\ stage' = 0 /\ outcome' = "refused"
          /\ runs' = runs /\ guests' = guests /\ visited' = visited /\ content' = content
      BY <1>2 DEF CleanTable, Quit
    <2>2. PICK u \in Tables : <<u, cleanDatabase[stage]>> \in Restricts /\ content[u] # "empty"
      BY <1>2 DEF NeededBy, Filled, Deleted
    <2>3. PICK i \in 1..10 : i < stage /\ cleanDatabase[i] = u
      BY <1>1, <2>2, RestrictersGoFirst
    <2>4. visited
      BY <1>1, <2>2, <2>3 DEF SeedInv, RunSound, Cleaning, SeedTypeOK
    <2> QED
      BY <2>1, <2>4
         DEF SeedInv, SeedTypeOK, RunSound, SeedSound, CleanRefusedByServerOnly,
             DoneMeansSeeded, Cleaning, Creating, Undisturbed
  <1>3. CASE NeededBy(Deleted) = {}
    <2>1. /\ content' = [t \in Tables |-> IF t \in {Deleted} \cup WithRows(Deleted)
                                            THEN "empty" ELSE content[t]]
          /\ stage' = stage + 1 /\ outcome' = "none"
          /\ runs' = runs /\ guests' = guests /\ visited' = visited
      BY <1>1, <1>3 DEF CleanTable, Continue
    <2>2. /\ content' \in [Tables -> {"empty", "seed", "other"}]
          /\ content'[Deleted] = "empty"
          /\ \A t \in Tables : content[t] = "empty" => content'[t] = "empty"
      BY <1>1, <2>1 DEF SeedInv, SeedTypeOK
    <2>3. SeedTypeOK'
      BY <1>1, <2>1, <2>2 DEF SeedInv, SeedTypeOK
    <2>4. ~visited => \A i \in 1..10 : i < stage' => content'[cleanDatabase[i]] = "empty"
      <3> SUFFICES ASSUME ~visited, NEW i \in 1..10, i < stage'
                   PROVE  content'[cleanDatabase[i]] = "empty"
        OBVIOUS
      <3>1. CASE i = stage
        BY <3>1, <2>2 DEF Deleted
      <3>2. CASE i < stage
        BY <1>1, <3>2, <2>2, CleanedAreTables DEF SeedInv, RunSound, Cleaning
      <3> QED
        BY <1>1, <2>1, <3>1, <3>2
    <2>5. stage' = 11 /\ Undisturbed => \A t \in Tables : content'[t] = "empty"
      BY <2>4, CleanCovers DEF SeedInv, RunSound
    <2>6. RunSound'
      <3>1. visited' => ~Undisturbed'
        BY <2>1 DEF SeedInv, RunSound, Undisturbed
      <3>2. Cleaning' /\ ~visited' =>
              \A i \in 1..10 : i < stage' => content'[cleanDatabase[i]] = "empty"
        BY <2>1, <2>4
      <3>3. Creating' => stage' = 11
        BY <1>1, <2>1 DEF Creating
      <3>4. Creating' /\ Undisturbed' =>
              /\ \A i \in 1..5 : i < stage' - 10 => content'[main[i]] = "seed"
              /\ \A t \in Tables : content'[t] = "empty"
        BY <2>1, <2>5, <3>3 DEF Undisturbed
      <3> QED
        BY <2>1, <3>1, <3>2, <3>4 DEF RunSound
    <2> QED
      BY <2>1, <2>3, <2>6
         DEF SeedInv, SeedSound, CleanRefusedByServerOnly, DoneMeansSeeded
  <1> QED
    BY <1>2, <1>3

\* A table that the script fills was empty, and what it has filled is done.
LEMMA FillKeeps ==
  ASSUME SeedInv, Creating, Continue, NEW kind \in {"seed", "other"},
         content' = [content EXCEPT ![Created] = kind],
         Undisturbed /\ Created # "favorite" => kind = "seed"
  PROVE  SeedInv'
  <1> USE SeedRunAssumption
  <1>1. /\ stage \in 11..15 /\ stage - 10 \in 1..5
        /\ Created = main[stage - 10] /\ Created \in Tables /\ outcome = "none"
    BY MainAreTables DEF Creating, Created, SeedInv, RunSound
  <1>2. /\ stage' = IF stage = 15 THEN 0 ELSE stage + 1
        /\ outcome' = IF stage = 15 THEN "done" ELSE "none"
        /\ runs' = runs /\ guests' = guests /\ visited' = visited
    BY <1>1 DEF Continue
  <1>3. /\ content' \in [Tables -> {"empty", "seed", "other"}]
        /\ \A t \in Tables : content'[t] = IF t = Created THEN kind ELSE content[t]
    BY <1>1 DEF SeedInv, SeedTypeOK
  <1>4. SeedTypeOK'
    BY <1>1, <1>2, <1>3 DEF SeedInv, SeedTypeOK
  <1>5. Undisturbed =>
          /\ \A i \in 1..5 : i < stage - 10 => content[main[i]] = "seed"
          /\ \A t \in Tables :
               (\A i \in 1..5 : i < stage - 10 => main[i] # t) => content[t] = "empty"
    BY DEF SeedInv, RunSound
  <1>6. \A i \in 1..5 : i # stage - 10 => main[i] # Created
    BY <1>1, MainTables
  <1>7. Undisturbed =>
          /\ \A i \in 1..5 : i < stage - 9 /\ main[i] # "favorite" => content'[main[i]] = "seed"
          /\ \A t \in Tables :
               (\A i \in 1..5 : i < stage - 9 => main[i] # t) => content'[t] = "empty"
    <2> SUFFICES ASSUME Undisturbed
                 PROVE /\ \A i \in 1..5 :
                            i < stage - 9 /\ main[i] # "favorite" => content'[main[i]] = "seed"
                       /\ \A t \in Tables :
                            (\A i \in 1..5 : i < stage - 9 => main[i] # t) => content'[t] = "empty"
      OBVIOUS
    <2>1. ASSUME NEW i \in 1..5, i < stage - 9, main[i] # "favorite"
          PROVE  content'[main[i]] = "seed"
      <3>1. CASE i = stage - 10
        BY <1>1, <1>3, <2>1, <3>1
      <3>2. CASE i < stage - 10
        BY <1>1, <1>3, <1>5, <1>6, <3>2, MainAreTables
      <3> QED
        BY <1>1, <2>1, <3>1, <3>2
    <2>2. ASSUME NEW t \in Tables, \A i \in 1..5 : i < stage - 9 => main[i] # t
          PROVE  content'[t] = "empty"
      <3>1. t # Created
        BY <1>1, <2>2
      <3>2. \A i \in 1..5 : i < stage - 10 => main[i] # t
        BY <1>1, <2>2
      <3> QED
        BY <1>3, <1>5, <3>1, <3>2
    <2> QED
      BY <2>1, <2>2
  <1>8. RunSound'
    <2>1. ~Cleaning' /\ (Creating' => stage' = stage + 1 /\ stage # 15)
      BY <1>1, <1>2 DEF Cleaning, Creating
    <2>2. Creating' /\ Undisturbed' =>
            /\ \A i \in 1..5 : i < stage' - 10 => content'[main[i]] = "seed"
            /\ \A t \in Tables :
                 (\A i \in 1..5 : i < stage' - 10 => main[i] # t) => content'[t] = "empty"
      <3> SUFFICES ASSUME Creating', Undisturbed'
            PROVE /\ \A i \in 1..5 : i < stage' - 10 => content'[main[i]] = "seed"
                  /\ \A t \in Tables :
                       (\A i \in 1..5 : i < stage' - 10 => main[i] # t) => content'[t] = "empty"
        OBVIOUS
      <3>1. stage' - 10 = stage - 9 /\ stage - 9 \in 2..5 /\ Undisturbed
        BY <1>1, <1>2, <2>1 DEF Undisturbed
      <3>2. \A i \in 1..5 : i < stage - 9 => main[i] # "favorite"
        BY <3>1, MainTables
      <3> QED
        BY <1>7, <3>1, <3>2
    <2> QED
      BY <1>1, <1>2, <2>1, <2>2 DEF SeedInv, RunSound, Undisturbed
  <1>9. DoneMeansSeeded'
    <2> SUFFICES ASSUME outcome' = "done", guests' = 0, NEW t \in Tables \ {"favorite"}
                 PROVE content'[t] = IF \E i \in DOMAIN main : main[i] = t THEN "seed" ELSE "empty"
      BY DEF DoneMeansSeeded
    <2>1. stage = 15 /\ Undisturbed
      BY <1>2 DEF Undisturbed
    <2>2. CASE \E i \in 1..5 : main[i] = t
      BY <1>7, <2>1, <2>2, MainDomain
    <2>3. CASE ~ \E i \in 1..5 : main[i] = t
      BY <1>7, <2>1, <2>3, MainDomain
    <2> QED
      BY <2>2, <2>3
  <1> QED
    BY <1>2, <1>4, <1>8, <1>9 DEF SeedInv, SeedSound, CleanRefusedByServerOnly

\* A table of the script is filled when it was empty, which it was unless the
\* server had filled it.
LEMMA FillsEmpty ==
  ASSUME SeedInv, Creating, Undisturbed
  PROVE  content[Created] = "empty"
  <1>1. stage - 10 \in 1..5 /\ Created = main[stage - 10] /\ Created \in Tables
    BY MainAreTables DEF Creating, Created
  <1>2. \A i \in 1..5 : i < stage - 10 => main[i] # Created
    BY <1>1, MainTables
  <1> QED
    BY <1>1, <1>2 DEF SeedInv, RunSound

LEMMA CreateStepKeeps ==
  ASSUME SeedInv, NEW t \in Tables, Create(t)
  PROVE  SeedInv'
  <1> DEFINE kind == IF content[Created] = "empty" THEN "seed" ELSE "other"
  <1>1. Creating /\ Continue /\ content' = [content EXCEPT ![Created] = kind]
    BY DEF Create
  <1>2. Undisturbed => kind = "seed"
    BY <1>1, FillsEmpty
  <1>3. kind \in {"seed", "other"}
    OBVIOUS
  <1> HIDE DEF kind
  <1> QED
    BY <1>1, <1>2, <1>3, FillKeeps

LEMMA CreateFavoritesKeeps ==
  ASSUME SeedInv, createFavorites
  PROVE  SeedInv'
  <1>1. Creating /\ Continue /\ Created = "favorite"
    BY MainTables DEF createFavorites, Creating, Created
  <1>2. PICK all \in BOOLEAN :
          content' = [content EXCEPT !["favorite"] =
            IF content["favorite"] # "empty" \/ ~all THEN "other" ELSE "seed"]
    BY DEF createFavorites
  <1> DEFINE kind == IF content["favorite"] # "empty" \/ ~all THEN "other" ELSE "seed"
  <1>3. content' = [content EXCEPT ![Created] = kind] /\ kind \in {"seed", "other"}
    BY <1>1, <1>2
  <1> HIDE DEF kind
  <1> QED
    BY <1>1, <1>3, FillKeeps

LEMMA SeedStep == SeedInv /\ [SeedNext]_seedVars => SeedInv'
  <1> SUFFICES ASSUME SeedInv, [SeedNext]_seedVars PROVE SeedInv'
    OBVIOUS
  <1> USE SeedRunAssumption
  <1>1. CASE StartSeed
    <2>0. visited' = FALSE /\ stage' = 1 /\ outcome' = "none" /\ runs < MaxRuns
          /\ runs' = runs + 1 /\ content' = content /\ guests' = guests
      BY <1>1 DEF StartSeed
    <2>1. /\ stage' = 1 /\ runs' \in 0..MaxRuns /\ outcome' = "none" /\ ~visited'
          /\ content' = content /\ guests' = guests
      BY <2>0 DEF SeedInv, SeedTypeOK
    <2>2. SeedTypeOK'
      <3>1. visited' \in BOOLEAN
        BY <2>0
      <3> QED
        BY <2>1, <3>1 DEF SeedInv, SeedTypeOK
    <2>3. ~Creating' /\ \A i \in 1..10 : ~(i < stage')
      BY <2>1 DEF Creating
    <2>4. RunSound'
      BY <2>1, <2>3 DEF RunSound
    <2> QED
      BY <2>1, <2>2, <2>4 DEF SeedInv, SeedSound, CleanRefusedByServerOnly, DoneMeansSeeded
  <1>2. CASE CleanTable
    BY <1>2, CleanTableKeeps
  <1>3. CASE createUsers
    BY <1>3, CreateStepKeeps DEF createUsers, Tables
  <1>4. CASE createCategories
    BY <1>4, CreateStepKeeps DEF createCategories, Tables
  <1>5. CASE createProducts
    BY <1>5, CreateStepKeeps DEF createProducts, Tables
  <1>6. CASE createOrders
    BY <1>6, CreateStepKeeps DEF createOrders, Tables
  <1>7. CASE createFavorites
    BY <1>7, CreateFavoritesKeeps
  <1>8. CASE Die
    <2>1. /\ stage' = 0 /\ outcome' = "died"
          /\ runs' = runs /\ guests' = guests /\ visited' = visited
      BY <1>8 DEF Die, Quit
    <2>2. content' \in [Tables -> {"empty", "seed", "other"}]
      <3>1. CASE content' = content
        BY <3>1 DEF SeedInv, SeedTypeOK
      <3>2. CASE Creating /\ content' = [content EXCEPT ![Created] = "other"]
        BY <3>2 DEF SeedInv, SeedTypeOK
      <3> QED
        BY <1>8, <3>1, <3>2 DEF Die
    <2> QED
      BY <2>1, <2>2
         DEF SeedInv, SeedTypeOK, RunSound, SeedSound, CleanRefusedByServerOnly,
             DoneMeansSeeded, Cleaning, Creating, Undisturbed
  <1>9. ASSUME NEW t \in Tables, ServerInserts(t) PROVE SeedInv'
    <2>1. /\ guests' \in 0..MaxGuests /\ guests' # 0
          /\ visited' = (stage # 0 \/ visited) /\ visited' \in BOOLEAN
          /\ content' \in [Tables -> {"empty", "seed", "other"}]
          /\ stage' = stage /\ runs' = runs /\ outcome' = outcome
      BY <1>9 DEF ServerInserts, SeedInv, SeedTypeOK
    <2>2. SeedTypeOK'
      BY <2>1 DEF SeedInv, SeedTypeOK
    <2>3. /\ ~Undisturbed' /\ (stage' # 0 => outcome' = "none")
          /\ Cleaning' => visited'
      <3>1. stage # 0 => visited'
        BY <1>9, Zenon DEF ServerInserts
      <3>2. Cleaning' => stage # 0
        BY <2>1 DEF Cleaning
      <3> QED
        BY <2>1, <3>1, <3>2 DEF SeedInv, RunSound, Undisturbed
    <2>4. RunSound'
      BY <2>3 DEF RunSound
    <2>5. CleanRefusedByServerOnly'
      BY <2>1 DEF SeedInv, SeedSound, CleanRefusedByServerOnly
    <2> QED
      BY <2>1, <2>2, <2>4, <2>5 DEF SeedInv, SeedSound, DoneMeansSeeded
  <1>10. CASE UNCHANGED seedVars
    BY <1>10 DEF seedVars, SeedInv, SeedTypeOK, RunSound, SeedSound, CleanRefusedByServerOnly,
                 DoneMeansSeeded, Cleaning, Creating, Undisturbed
  <1> QED
    BY <1>1, <1>2, <1>3, <1>4, <1>5, <1>6, <1>7, <1>8, <1>9, <1>10 DEF SeedNext

LEMMA SeedHolds == SeedSpec => []SeedInv
  BY SeedStart, SeedStep, PTL DEF SeedSpec

\* For any number of runs that died anywhere: no DELETE of the script is refused
\* by a foreign key unless the server wrote during the run, and a run that ends
\* leaves what the script holds and nothing else (cleanDatabase, main).
THEOREM SeedIsSound == SeedSpec => [](SeedTypeOK /\ SeedSound)
  <1>1. SeedInv => SeedTypeOK /\ SeedSound
    BY DEF SeedInv
  <1> QED
    BY <1>1, SeedHolds, PTL

-----------------------------------------------------------------------------
(***************************************************************************)
(* Listings                                                                *)
(***************************************************************************)
\* Rows are finitely many and have ids and stamps of their own, in the past; a
\* row that came has an id that no row had before.
RowsSound ==
  /\ IsFiniteSet(rows)
  /\ \A q, r \in rows : q.id = r.id \/ q.stamp = r.stamp => q = r
  /\ \A r \in rows : r.stamp <= FirstRows + edits /\ (r.id <= edits \/ r.id > MaxEdits)
  /\ \A i \in during.came : i <= edits

\* The rows of the pages that were turned, and of the page that is read.
Turned == (walk.page - 1) * Limit
Ahead  == walk.page * Limit

\* What a client has missed had a cause.
Causeless == ~Located /\ list.name \notin Chats /\ during.went = {} /\ ~during.between

MissSound ==
  Causeless =>
    /\ Done => \A r \in Selected : r.id \notin during.came => r.id \in walk.shown
    /\ \A r \in Selected : r.id \notin during.came /\ Rank(r) <= Turned => r.id \in walk.shown
    /\ Answered("items") =>
         \A r \in Selected : r.id \notin during.came /\ Rank(r) <= Ahead =>
           r.id \in walk.shown \cup walk.answer.items
    /\ Answered("total") => walk.answer.total = Cardinality(Selected)

\* What a client has seen is behind him: nothing moves back.
RepeatSound ==
  during.came = {} /\ during.touched = {} =>
    /\ walk.again = {}
    /\ walk.phase = "on" =>
         /\ walk.shown \cap walk.answer.items = {}
         /\ \A r \in Selected : /\ r.id \in walk.shown => Rank(r) <= Turned
                                /\ r.id \in walk.answer.items => Rank(r) <= Ahead

\* A walk through a table that stands still has shown what it passed.  A location
\* search ends on its first page, and the pages of a chat are 1, 2 and far away.
Passed(r) == Rank(r) <= (IF walk.page = 1 THEN 0 ELSE IF walk.page = 2 THEN Limit ELSE 2 * Limit)

LocatedSound ==
  Located /\ walk.phase = "on" =>
    /\ walk.page = 1 /\ walk.shown = {}
    /\ Answered("items") => walk.answer.total <= Limit

ChatSound ==
  list.name \in Chats =>
    /\ walk.text <=> walk.page # 1
    /\ walk.page <= 2 \/ walk.page > 20
    /\ Still /\ walk.phase = "on" =>
         /\ \A r \in Selected : Near(r) => (r.id \in walk.shown <=> Passed(r))
         /\ Answered("total") => walk.answer.total = Cardinality(Selected)

StillSound ==
  Still =>
    /\ walk.shown \cup walk.answer.items \subseteq Ids(Selected)
    /\ Answered("items") =>
         walk.answer.items = Ids(IF Located THEN findByLocation(walk.page) ELSE Page(walk.page))
    /\ Done => \A r \in Selected : Near(r) => (r.id \in walk.shown <=> Reached(r))

AnswersSound == walk.answer.items # {} => Answered("items")

ListingsInv ==
  /\ ListingsTypeOK /\ RowsSound /\ AnswersSound
  /\ MissSound /\ RepeatSound
  /\ LocatedSound /\ ChatSound /\ StillSound

\* Whole pages: what turning one adds.
LEMMA PageBounds ==
  ASSUME NEW p \in Nat \ {0}
  PROVE  /\ Limit \in Nat \ {0} /\ (p - 1) * Limit \in Nat /\ p * Limit \in Nat
         /\ p * Limit = (p - 1) * Limit + Limit
  BY ListingsAssumption DEF ListingsAssumption

LEMMA PagesGrow ==
  ASSUME NEW p \in Nat, NEW q \in Nat, p <= q
  PROVE  p * Limit <= q * Limit
  BY ListingsAssumption DEF ListingsAssumption

\* There is another page as long as the rows of the pages so far are fewer than
\* the total.
LEMMA MorePages ==
  ASSUME NEW p \in Nat, NEW t \in Nat
  PROVE  p < CeilDiv(t, Limit) <=> p * Limit < t
  <1>1. PICK l \in Nat \ {0} : l = Limit
    BY ListingsAssumption DEF ListingsAssumption
  <1>2. PICK n \in Nat : n = t + l - 1
    BY <1>1
  <1>3. n \div l \in Nat /\ l * (n \div l) <= n /\ n < l * (n \div l) + l
    BY <1>2
  <1>4. PICK q \in Nat : q = n \div l
    BY <1>3
  <1>5. l * q <= n /\ n < l * q + l
    BY <1>3, <1>4
  <1>6. p < q => l * p + l <= l * q
    <2>1. ASSUME p < q PROVE l * (p + 1) <= l * q
      BY <2>1
    <2> QED
      BY <2>1
  <1>7. ~(p < q) => l * q <= l * p
    OBVIOUS
  <1>8. p < q <=> l * p < t
    <2>1. PICK x \in Nat : x = l * p
      OBVIOUS
    <2>2. PICK y \in Nat : y = l * q
      OBVIOUS
    <2> QED
      BY <1>2, <1>5, <1>6, <1>7, <2>1, <2>2
  <1>9. p * Limit = l * p
    BY <1>1
  <1> QED
    BY <1>1, <1>2, <1>4, <1>8, <1>9 DEF CeilDiv

\* The rows that are selected, and the set that gives a row its rank.
LEMMA SelectedIsFinite ==
  ASSUME IsFiniteSet(rows)
  PROVE  IsFiniteSet(Selected) /\ Cardinality(Selected) \in Nat
  BY FS_Subset, FS_CardinalityType DEF Selected

LEMMA RankRange ==
  ASSUME IsFiniteSet(rows), NEW r
  PROVE  Rank(r) \in Nat /\ Rank(r) <= Cardinality(Selected)
  <1>1. {q \in Selected : Before(q, r)} \subseteq Selected
    OBVIOUS
  <1> QED
    BY <1>1, SelectedIsFinite, FS_Subset, FS_CardinalityType DEF Rank

\* Each selected row has a rank of its own, from one on.
LEMMA RankPositive ==
  ASSUME ListingsTypeOK, RowsSound, NEW r \in Selected
  PROVE  Rank(r) >= 1
  <1>1. r \in Row
    BY DEF ListingsTypeOK, Selected
  <1>2. r \in {q \in Selected : Before(q, r)}
    BY <1>1 DEF Before, Row
  <1>3. IsFiniteSet({q \in Selected : Before(q, r)})
    BY SelectedIsFinite, FS_Subset DEF RowsSound
  <1> QED
    BY <1>2, <1>3, FS_EmptySet, FS_CardinalityType DEF Rank

LEMMA RanksDiffer ==
  ASSUME ListingsTypeOK, RowsSound, NEW q \in Selected, NEW r \in Selected, Rank(q) = Rank(r)
  PROVE  q = r
  <1>1. q \in Row /\ r \in Row /\ q \in rows /\ r \in rows
    BY DEF ListingsTypeOK, Selected
  <1>2. ASSUME NEW x \in Selected, NEW y \in Selected, x \in Row, y \in Row,
               Before(x, y), Rank(x) = Rank(y)
        PROVE  Before(y, x)
    <2>1. {z \in Selected : Before(z, x)} \subseteq {z \in Selected : Before(z, y)}
      BY <1>2 DEF Before, Row, Selected, ListingsTypeOK
    <2>2. IsFiniteSet({z \in Selected : Before(z, y)})
      BY SelectedIsFinite, FS_Subset DEF RowsSound
    <2>3. {z \in Selected : Before(z, x)} = {z \in Selected : Before(z, y)}
      BY <1>2, <2>1, <2>2, FS_Subset DEF Rank
    <2>4. y \in {z \in Selected : Before(z, y)}
      BY <1>2 DEF Before, Row
    <2> QED
      BY <2>3, <2>4
  <1>3. Before(q, r) \/ Before(r, q)
    BY <1>1 DEF Before, Row
  <1>4. Before(q, r) /\ Before(r, q)
    BY <1>1, <1>2, <1>3
  <1> QED
    BY <1>1, <1>4 DEF Before, Row, RowsSound

\* A page holds no more than its limit.
LEMMA PageSize ==
  ASSUME ListingsTypeOK, RowsSound, NEW S, S \subseteq Slice(0)
  PROVE  IsFiniteSet(S) /\ Cardinality(S) \in Nat /\ Cardinality(S) <= Limit
  <1>1. Limit \in Nat \ {0}
    BY ListingsAssumption DEF ListingsAssumption
  <1>2. \A r \in S : r \in Selected /\ Rank(r) \in 1..Limit
    BY <1>1, RankRange DEF Slice, RowsSound
  <1>3. [r \in S |-> Rank(r)] \in Injection(S, 1..Limit)
    BY <1>2, RanksDiffer DEF Injection, IsInjective
  <1>4. 1 \in Int /\ Limit \in Int
    BY <1>1
  <1>5. IsFiniteSet(1..Limit) /\ Cardinality(1..Limit) = IF 1 > Limit THEN 0 ELSE Limit - 1 + 1
    BY <1>4, FS_Interval, Zenon
  <1>6. Cardinality(1..Limit) = Limit
    BY <1>1, <1>5
  <1> QED
    BY <1>3, <1>5, <1>6, FS_Injection, FS_CardinalityType

\* Ids name rows.
LEMMA IdsName ==
  ASSUME RowsSound, NEW S, S \subseteq Selected, NEW r \in Selected
  PROVE  r.id \in Ids(S) <=> r \in S
  BY DEF Ids, RowsSound, Selected

-----------------------------------------------------------------------------
\* What a query leaves alone.
LEMMA RowsStand ==
  ASSUME UNCHANGED <<list, rows>>
  PROVE  /\ Selected' = Selected /\ Located' = Located
         /\ \A r : Rank(r)' = Rank(r) /\ Near(r)' = Near(r) /\ Reached(r)' = Reached(r)
  <1>1. Selected' = Selected
    BY DEF Selected, Selects, search, Branch, searchKeyword, findBySeller, findMyProducts,
           findByCategory, findAll
  <1>2. Located' = Located
    BY DEF Located, Branch
  <1>3. \A r : Rank(r)' = Rank(r)
    BY <1>1 DEF Rank, Before
  <1> QED
    BY <1>1, <1>2, <1>3 DEF Near, Reached

\* The rows of the page that is read.
PageRows == IF Located THEN findByLocation(walk.page) ELSE Page(walk.page)

LEMMA FoundRows ==
  ASSUME ListingsTypeOK, RowsSound
  PROVE  /\ PageRows \subseteq Selected /\ Ids(PageRows) \subseteq Ids(Selected)
         /\ Ids(Selected) \in SUBSET Nat
         /\ \A r \in Selected : r.id \in Ids(PageRows) => Turned < Rank(r) /\ Rank(r) <= Ahead
         /\ ~Located => \A r \in Selected : r.id \in Ids(PageRows) <=> Turned < Rank(r) /\ Rank(r) <= Ahead
  <1>1. walk.page \in Nat \ {0}
    BY DEF ListingsTypeOK
  <1>2. Turned \in Nat /\ Ahead = Turned + Limit
    BY <1>1, PageBounds DEF Turned, Ahead
  <1>3. \A r : r \in Page(walk.page) <=> r \in Selected /\ Turned < Rank(r) /\ Rank(r) <= Ahead
    BY <1>2 DEF Page, Slice, Turned
  <1>4. findByLocation(walk.page) \subseteq Page(walk.page)
    BY DEF findByLocation
  <1>5. PageRows \subseteq Selected
    BY <1>3, <1>4 DEF PageRows
  <1>6. \A r \in Selected : r.id \in Ids(PageRows) <=> r \in PageRows
    BY <1>5, IdsName
  <1>7. Ids(Selected) \in SUBSET Nat
    BY DEF Ids, Selected, ListingsTypeOK, Row
  <1>8. Ids(PageRows) \subseteq Ids(Selected)
    BY <1>5 DEF Ids
  <1> QED
    BY <1>3, <1>4, <1>5, <1>6, <1>7, <1>8 DEF PageRows

\* A step of the client that only changes what he has been answered.
LEMMA AnswerFields ==
  ASSUME ListingsTypeOK, NEW a \in PageAnswer, walk' = [walk EXCEPT !.answer = a],
         UNCHANGED <<list, rows, edits, during>>
  PROVE  /\ walk'.phase = walk.phase /\ walk'.page = walk.page /\ walk'.text = walk.text
         /\ walk'.shown = walk.shown /\ walk'.again = walk.again /\ walk'.answer = a
         /\ ListingsTypeOK'
  BY DEF ListingsTypeOK

LEMMA QueryItemsStep ==
  ASSUME ListingsInv, QueryItems
  PROVE  ListingsInv'
  <1>1. ListingsTypeOK /\ RowsSound /\ UNCHANGED <<list, rows, edits, during>>
    BY DEF ListingsInv, QueryItems
  <1>2. walk.phase = "on" /\ "items" \notin walk.answer.has /\ walk.answer.items = {}
    BY DEF ListingsInv, QueryItems, Answered, AnswersSound
  <1>3. walk.answer \in PageAnswer /\ walk.page \in Nat \ {0}
    BY <1>1 DEF ListingsTypeOK
  <1>4. ASSUME Located PROVE walk.page = 1 /\ PageRows \subseteq Slice(0)
    <2>1. walk.page = 1
      BY <1>2, <1>4 DEF ListingsInv, LocatedSound
    <2>2. (1 - 1) * Limit = 0
      BY ListingsAssumption DEF ListingsAssumption
    <2> QED
      BY <1>4, <2>1, <2>2 DEF PageRows, findByLocation, Page
  <1>5. PICK a \in PageAnswer :
          /\ walk' = [walk EXCEPT !.answer = a]
          /\ a.items = Ids(PageRows) /\ "items" \in a.has
          /\ Located => a.total <= Limit
          /\ ~Located => a.total = walk.answer.total /\ ("total" \in a.has <=> "total" \in walk.answer.has)
    <2>1. CASE Located
      <3>1. IsFiniteSet(PageRows) /\ Cardinality(PageRows) \in Nat /\ Cardinality(PageRows) <= Limit
        BY <1>1, <1>4, <2>1, PageSize
      <3>2. PICK a : a = [items |-> Ids(PageRows), total |-> Cardinality(PageRows), has |-> {"items", "total"}]
        OBVIOUS
      <3>3. a \in PageAnswer
        BY <1>1, <3>1, <3>2, FoundRows DEF PageAnswer
      <3>4. walk' = [walk EXCEPT !.answer = a]
        BY <2>1, <3>2 DEF QueryItems, PageRows
      <3> QED
        BY <2>1, <3>1, <3>2, <3>3, <3>4
    <2>2. CASE ~Located
      <3>1. PICK a : a = [items |-> Ids(PageRows), total |-> walk.answer.total,
                          has |-> walk.answer.has \cup {"items"}]
        OBVIOUS
      <3>2. a \in PageAnswer
        BY <1>1, <1>3, <3>1, FoundRows DEF PageAnswer
      <3>3. walk' = [walk EXCEPT !.answer = a]
        BY <1>1, <2>2, <3>1 DEF QueryItems, PageRows, ListingsTypeOK, PageAnswer
      <3> QED
        BY <2>2, <3>1, <3>2, <3>3
    <2> QED
      BY <2>1, <2>2
  <1>6. /\ walk'.phase = "on" /\ walk'.page = walk.page /\ walk'.text = walk.text
        /\ walk'.shown = walk.shown /\ walk'.again = walk.again /\ walk'.answer = a
        /\ ListingsTypeOK'
    BY <1>1, <1>2, <1>5, AnswerFields
  <1>7. /\ Selected' = Selected /\ Located' = Located /\ Turned' = Turned /\ Ahead' = Ahead
        /\ \A r : Rank(r)' = Rank(r) /\ Near(r)' = Near(r) /\ Passed(r)' = Passed(r)
    BY <1>1, <1>6, RowsStand DEF Turned, Ahead, Passed
  <1>8. PageRows' = PageRows /\ Ids(PageRows)' = Ids(PageRows)
    BY <1>1, <1>6, <1>7 DEF PageRows, findByLocation, Page, Slice, Ids
  <1>9. RowsSound' /\ AnswersSound'
    BY <1>1, <1>5, <1>6 DEF RowsSound, AnswersSound, Answered
  <1>10. MissSound'
    <2> SUFFICES ASSUME Causeless' PROVE /\ ~Done'
                                         /\ (\A r \in Selected : r.id \notin during.came /\ Rank(r) <= Turned => r.id \in walk.shown)
                                         /\ (\A r \in Selected : r.id \notin during.came /\ Rank(r) <= Ahead =>
                                               r.id \in walk.shown \cup a.items)
                                         /\ ("total" \in a.has => a.total = Cardinality(Selected))
      BY <1>1, <1>6, <1>7 DEF MissSound, Answered, Done
    <2>1. Causeless /\ ~Located
      BY <1>1, <1>7 DEF Causeless
    <2>2. \A r \in Selected : r.id \notin during.came /\ Rank(r) <= Turned => r.id \in walk.shown
      BY <2>1 DEF ListingsInv, MissSound
    <2>3. \A r \in Selected : Rank(r) \in Nat
      BY <1>1, RankRange DEF RowsSound
    <2>4. Turned \in Nat
      BY <1>3, PageBounds DEF Turned
    <2>5. "total" \in a.has => a.total = Cardinality(Selected)
      BY <1>2, <1>5, <2>1 DEF ListingsInv, MissSound, Answered
    <2> QED
      BY <1>1, <1>5, <1>6, <2>1, <2>2, <2>3, <2>4, <2>5, FoundRows DEF Done
  <1>11. RepeatSound'
    <2> SUFFICES ASSUME during.came = {}, during.touched = {}
                 PROVE  /\ walk.again = {} /\ walk.shown \cap a.items = {}
                        /\ \A r \in Selected : /\ r.id \in walk.shown => Rank(r) <= Turned
                                               /\ r.id \in a.items => Rank(r) <= Ahead
      BY <1>1, <1>6, <1>7 DEF RepeatSound
    <2>1. walk.again = {} /\ \A r \in Selected : r.id \in walk.shown => Rank(r) <= Turned
      BY <1>2 DEF ListingsInv, RepeatSound
    <2>2. \A r \in Selected : r.id \in a.items => Turned < Rank(r) /\ Rank(r) <= Ahead
      BY <1>1, <1>5, FoundRows
    <2>3. a.items \subseteq Ids(Selected)
      BY <1>1, <1>5, FoundRows
    <2>4. \A r \in Selected : Rank(r) \in Nat
      BY <1>1, RankRange DEF RowsSound
    <2>5. Turned \in Nat
      BY <1>3, PageBounds DEF Turned
    <2> QED
      BY <2>1, <2>2, <2>3, <2>4, <2>5 DEF Ids
  <1>12. LocatedSound'
    BY <1>2, <1>5, <1>6, <1>7 DEF ListingsInv, LocatedSound, Answered
  <1>13. ChatSound'
    <2> SUFFICES ASSUME list.name \in Chats PROVE ChatSound'
      BY <1>1 DEF ChatSound
    <2>1. ~Located
      BY DEF Located, Chats
    <2>2. "total" \in a.has => "total" \in walk.answer.has /\ a.total = walk.answer.total
      BY <1>5, <2>1
    <2> QED
      BY <1>1, <1>2, <1>6, <1>7, <2>2 DEF ListingsInv, ChatSound, Answered, Still
  <1>14. StillSound'
    <2> SUFFICES ASSUME Still PROVE /\ walk.shown \cup a.items \subseteq Ids(Selected)'
                                    /\ a.items = Ids(PageRows)' /\ ~Done'
      BY <1>1, <1>6, <1>7 DEF StillSound, Still, PageRows
    <2>1. Ids(Selected)' = Ids(Selected)
      BY <1>7 DEF Ids
    <2> QED
      BY <1>1, <1>5, <1>6, <1>8, <2>1, FoundRows DEF ListingsInv, StillSound, Done
  <1> QED
    BY <1>6, <1>9, <1>10, <1>11, <1>12, <1>13, <1>14 DEF ListingsInv

LEMMA QueryTotalStep ==
  ASSUME ListingsInv, QueryTotal
  PROVE  ListingsInv'
  <1>1. ListingsTypeOK /\ RowsSound /\ UNCHANGED <<list, rows, edits, during>>
    BY DEF ListingsInv, QueryTotal
  <1>2. walk.phase = "on" /\ "total" \notin walk.answer.has /\ ~Located
    BY DEF QueryTotal, Answered
  <1>3. walk.answer \in PageAnswer /\ walk.page \in Nat \ {0} /\ Cardinality(Selected) \in Nat
    BY <1>1, SelectedIsFinite DEF ListingsTypeOK, RowsSound
  <1>4. PICK a : a = [items |-> walk.answer.items, total |-> Cardinality(Selected),
                      has |-> walk.answer.has \cup {"total"}]
    OBVIOUS
  <1>5. a \in PageAnswer /\ a.items = walk.answer.items /\ a.total = Cardinality(Selected)
        /\ ("items" \in a.has <=> "items" \in walk.answer.has)
    BY <1>3, <1>4 DEF PageAnswer
  <1>6. walk' = [walk EXCEPT !.answer = a]
    BY <1>1, <1>4 DEF QueryTotal, ListingsTypeOK, PageAnswer
  <1>7. /\ walk'.phase = "on" /\ walk'.page = walk.page /\ walk'.text = walk.text
        /\ walk'.shown = walk.shown /\ walk'.again = walk.again /\ walk'.answer = a
        /\ ListingsTypeOK'
    BY <1>1, <1>2, <1>5, <1>6, AnswerFields
  <1>8. /\ Selected' = Selected /\ Located' = Located /\ Turned' = Turned /\ Ahead' = Ahead
        /\ \A r : Rank(r)' = Rank(r) /\ Near(r)' = Near(r) /\ Passed(r)' = Passed(r)
    BY <1>1, <1>7, RowsStand DEF Turned, Ahead, Passed
  <1>9. Ids(PageRows)' = Ids(PageRows) /\ Ids(Selected)' = Ids(Selected)
    BY <1>1, <1>7, <1>8 DEF PageRows, findByLocation, Page, Slice, Ids
  <1>10. RowsSound' /\ AnswersSound'
    BY <1>1, <1>5, <1>7 DEF ListingsInv, RowsSound, AnswersSound, Answered
  <1>11. MissSound'
    BY <1>1, <1>2, <1>5, <1>7, <1>8 DEF ListingsInv, MissSound, Answered, Done, Causeless
  <1>12. RepeatSound'
    BY <1>1, <1>2, <1>5, <1>7, <1>8 DEF ListingsInv, RepeatSound
  <1>13. LocatedSound'
    BY <1>2, <1>8 DEF LocatedSound
  <1>14. ChatSound'
    BY <1>1, <1>2, <1>5, <1>7, <1>8 DEF ListingsInv, ChatSound, Answered, Still
  <1>15. StillSound'
    BY <1>1, <1>2, <1>5, <1>7, <1>8, <1>9 DEF ListingsInv, StillSound, Answered, Still, Done, PageRows
  <1> QED
    BY <1>7, <1>10, <1>11, <1>12, <1>13, <1>14, <1>15 DEF ListingsInv

\* The client turns to the next page, or is done.
LEMMA ReadFields ==
  ASSUME ListingsTypeOK, NEW phase \in Walking, NEW page \in Nat \ {0}, NEW text \in BOOLEAN,
         walk' = Read(phase, page, text), UNCHANGED <<list, rows, edits, during>>
  PROVE  /\ walk'.phase = phase /\ walk'.page = page /\ walk'.text = text
         /\ walk'.shown = walk.shown \cup walk.answer.items
         /\ walk'.again = walk.again \cup (walk.shown \cap walk.answer.items)
         /\ walk'.answer.items = {} /\ walk'.answer.has = {}
         /\ ListingsTypeOK'
  <1>1. PICK w : w = Read(phase, page, text)
    OBVIOUS
  <1>2. walk.shown \in SUBSET Nat /\ walk.again \in SUBSET Nat /\ walk.answer.items \in SUBSET Nat
    BY DEF ListingsTypeOK, PageAnswer
  <1>3. NoAnswer \in PageAnswer /\ NoAnswer.items = {} /\ NoAnswer.has = {}
    BY DEF NoAnswer, PageAnswer
  <1>4. /\ w.phase = phase /\ w.page = page /\ w.text = text
        /\ w.shown = walk.shown \cup walk.answer.items
        /\ w.again = walk.again \cup (walk.shown \cap walk.answer.items)
        /\ w.answer = NoAnswer
        /\ w \in [phase : Walking, page : Nat \ {0}, text : BOOLEAN,
                  shown : SUBSET Nat, again : SUBSET Nat, answer : PageAnswer]
    BY <1>1, <1>2, <1>3 DEF Read
  <1>5. walk' = w
    BY <1>1
  <1> QED
    BY <1>3, <1>4, <1>5 DEF ListingsTypeOK

\* Each page of a chat that is turned leads to the second or far away.
LEMMA NextPage ==
  ASSUME ListingsInv, list.name \in Chats
  PROVE  /\ createMeta \in Nat \ {0} /\ createMeta >= walk.page + 1
         /\ createMeta = 2 \/ createMeta > 20
         /\ createMeta = 2 <=> walk.page = 1
  BY DEF ListingsInv, ListingsTypeOK, ChatSound, createMeta

\* Where the page under way lies among the rows.
LEMMA PagePlace ==
  ASSUME ListingsTypeOK
  PROVE  /\ Limit \in Nat \ {0} /\ Turned \in Nat /\ Ahead = Turned + Limit
         /\ walk.page = 1 => Turned = 0
         /\ walk.page = 2 => Turned = Limit
         /\ walk.page > 20 => Turned >= 20 * Limit
  <1>1. walk.page \in Nat \ {0} /\ 20 \in Nat
    BY DEF ListingsTypeOK
  <1>2. Limit \in Nat \ {0} /\ Turned \in Nat /\ Ahead = Turned + Limit
    BY <1>1, PageBounds DEF Turned, Ahead
  <1>3. walk.page = 1 => Turned = 0
    BY <1>2 DEF Turned
  <1>4. walk.page = 2 => Turned = Limit
    BY <1>2 DEF Turned
  <1>5. ASSUME walk.page > 20 PROVE Turned >= 20 * Limit
    <2>1. walk.page - 1 \in Nat /\ 20 <= walk.page - 1
      BY <1>1, <1>5
    <2>2. 20 * Limit <= (walk.page - 1) * Limit
      BY <1>1, <2>1, PagesGrow
    <2> QED
      BY <1>2, <2>2 DEF Turned
  <1> QED
    BY <1>2, <1>3, <1>4, <1>5

\* The rows of a chat that are shown when the page under way has been read.
LEMMA ChatShown ==
  ASSUME ListingsInv, list.name \in Chats, Still, Answered("items"), NEW r \in Selected, Near(r)
  PROVE  r.id \in walk.shown \cup walk.answer.items
           <=> Rank(r) <= (IF walk.page = 1 THEN Limit ELSE 2 * Limit)
  <1>1. ListingsTypeOK /\ RowsSound /\ ~Located /\ walk.phase = "on"
    BY DEF ListingsInv, Located, Chats, Answered
  <1>2. r.id \in walk.shown <=> Passed(r)
    BY <1>1 DEF ListingsInv, ChatSound
  <1>3. walk.answer.items = Ids(PageRows)
    BY DEF ListingsInv, StillSound, PageRows
  <1>4. r.id \in walk.answer.items <=> Turned < Rank(r) /\ Rank(r) <= Ahead
    BY <1>1, <1>3, FoundRows
  <1>5. walk.page \in Nat \ {0} /\ (walk.page <= 2 \/ walk.page > 20)
    BY <1>1 DEF ListingsInv, ChatSound, ListingsTypeOK
  <1>6. Rank(r) \in Nat /\ Rank(r) >= 1 /\ Rank(r) <= 20 * Limit
    BY <1>1, RankRange, RankPositive DEF RowsSound, Near
  <1> QED
    BY <1>1, <1>2, <1>4, <1>5, <1>6, PagePlace DEF Passed

LEMMA TurnPageStep ==
  ASSUME ListingsInv, TurnPage
  PROVE  ListingsInv'
  <1>1. ListingsTypeOK /\ RowsSound /\ UNCHANGED <<list, rows, edits, during>>
    BY DEF ListingsInv, TurnPage
  <1>2. walk.phase = "on" /\ "items" \in walk.answer.has /\ "total" \in walk.answer.has
        /\ Answered("items") /\ Answered("total")
    BY DEF TurnPage, Answered
  <1>3. walk.page \in Nat \ {0} /\ walk.text \in BOOLEAN /\ walk.answer.total \in Nat
    BY <1>1 DEF ListingsTypeOK, PageAnswer
  <1>4. walk.page < TotalPages <=> Ahead < walk.answer.total
    BY <1>3, MorePages DEF TotalPages, Ahead
  <1>5. TotalPages \in Int
    <2>1. PICK l \in Nat \ {0} : l = Limit
      BY ListingsAssumption DEF ListingsAssumption
    <2>2. PICK n \in Nat : n = walk.answer.total + l - 1
      BY <1>3, <2>1
    <2>3. n \div l \in Int
      BY <2>1, <2>2
    <2> QED
      BY <2>1, <2>2, <2>3 DEF TotalPages, CeilDiv
  <1>6. PICK phase \in Walking, page \in Nat \ {0}, text \in BOOLEAN :
          /\ walk' = Read(phase, page, text)
          /\ \/ /\ phase = "on" /\ Ahead < walk.answer.total
                /\ page >= walk.page + 1
                /\ IF list.name \in Chats THEN page = createMeta /\ text = TRUE
                                          ELSE page = walk.page + 1
             \/ phase = "done" /\ page = walk.page /\ text = walk.text /\ ~(Ahead < walk.answer.total)
    <2>1. CASE walk.page < TotalPages /\ list.name \in Chats
      <3>1. ~(walk.page >= TotalPages)
        BY <1>3, <1>5, <2>1
      <3>2. walk' = Read("on", createMeta, TRUE)
        BY <2>1, <3>1, Zenon DEF TurnPage
      <3> QED
        BY <1>4, <2>1, <3>2, NextPage DEF Walking
    <2>2. CASE walk.page < TotalPages /\ list.name \notin Chats
      <3>1. ~(walk.page >= TotalPages)
        BY <1>3, <1>5, <2>2
      <3>2. PICK next \in Nat \ {0} : next = walk.page + 1
        BY <1>3
      <3>3. walk' = Read("on", next, FALSE)
        BY <2>2, <3>1, <3>2, Zenon DEF TurnPage
      <3>4. next >= walk.page + 1
        BY <1>3, <3>2
      <3> QED
        BY <1>4, <2>2, <3>2, <3>3, <3>4, Zenon DEF Walking
    <2>3. CASE ~(walk.page < TotalPages)
      <3>1. walk' = Read("done", walk.page, walk.text)
        BY <1>3, <1>5, <2>3 DEF TurnPage
      <3> QED
        BY <1>3, <1>4, <2>3, <3>1 DEF Walking
    <2> QED
      BY <2>1, <2>2, <2>3
  <1>7. /\ walk'.phase = phase /\ walk'.page = page /\ walk'.text = text
        /\ walk'.shown = walk.shown \cup walk.answer.items
        /\ walk'.again = walk.again \cup (walk.shown \cap walk.answer.items)
        /\ walk'.answer.items = {} /\ walk'.answer.has = {}
        /\ ListingsTypeOK'
    BY <1>1, <1>6, ReadFields
  <1>8. /\ Selected' = Selected /\ Located' = Located /\ Ids(Selected)' = Ids(Selected)
        /\ \A r : Rank(r)' = Rank(r) /\ Near(r)' = Near(r) /\ Reached(r)' = Reached(r)
    BY <1>1, RowsStand DEF Ids
  <1>9. \A r \in Selected : Rank(r) \in Nat /\ Rank(r) <= Cardinality(Selected) /\ Rank(r) >= 1
    BY <1>1, RankRange, RankPositive DEF RowsSound
  <1>10. Cardinality(Selected) \in Nat
    BY <1>1, SelectedIsFinite DEF RowsSound
  <1>11. /\ Limit \in Nat \ {0} /\ Turned \in Nat /\ Ahead = Turned + Limit
         /\ walk.page = 1 => Turned = 0
    BY <1>1, PagePlace
  <1>12. /\ Turned' \in Nat
         /\ phase = "on" => Turned' >= Ahead
         /\ phase = "on" /\ list.name \notin Chats => Turned' = Ahead
         /\ phase = "done" => Turned' = Turned
    <2>1. PICK n \in Nat : n = page - 1
      OBVIOUS
    <2>2. Turned' = n * Limit
      BY <1>7, <2>1 DEF Turned
    <2>3. n * Limit \in Nat
      BY <1>11
    <2>4. ASSUME phase = "on" PROVE n * Limit >= walk.page * Limit
      <3>1. walk.page <= n
        BY <1>3, <1>6, <2>1, <2>4
      <3> QED
        BY <1>3, <1>11, <3>1, PagesGrow, <2>3
    <2>5. phase = "on" /\ list.name \notin Chats => n = walk.page
      BY <1>3, <1>6, <2>1
    <2>6. phase = "done" => n = walk.page - 1
      BY <1>6, <2>1
    <2> QED
      BY <2>2, <2>3, <2>4, <2>5, <2>6 DEF Turned, Ahead
  <1>13. RowsSound' /\ AnswersSound'
    BY <1>1, <1>7 DEF RowsSound, AnswersSound
  <1>14. ~Answered("items")' /\ ~Answered("total")'
    BY <1>7 DEF Answered
  <1>15. MissSound'
    <2> SUFFICES ASSUME Causeless
                 PROVE  /\ phase = "done" => \A r \in Selected : r.id \notin during.came =>
                                               r.id \in walk.shown \cup walk.answer.items
                        /\ \A r \in Selected : r.id \notin during.came /\ Rank(r) <= Turned' =>
                             r.id \in walk.shown \cup walk.answer.items
      BY <1>1, <1>7, <1>8, <1>14 DEF MissSound, Causeless, Done
    <2>1. \A r \in Selected : r.id \notin during.came /\ Rank(r) <= Ahead =>
            r.id \in walk.shown \cup walk.answer.items
      BY <1>2 DEF ListingsInv, MissSound
    <2>2. walk.answer.total = Cardinality(Selected)
      BY <1>2 DEF ListingsInv, MissSound
    <2>3. phase = "done" => \A r \in Selected : Rank(r) <= Ahead
      BY <1>6, <1>9, <1>10, <1>11, <2>2
    <2>4. Turned' <= Ahead
      BY <1>6, <1>11, <1>12 DEF Causeless, Walking
    <2> QED
      BY <1>9, <1>11, <1>12, <2>1, <2>3, <2>4
  <1>16. RepeatSound'
    <2> SUFFICES ASSUME during.came = {}, during.touched = {}
                 PROVE  /\ walk.again \cup (walk.shown \cap walk.answer.items) = {}
                        /\ phase = "on" => \A r \in Selected :
                             r.id \in walk.shown \cup walk.answer.items => Rank(r) <= Turned'
      BY <1>1, <1>7, <1>8 DEF RepeatSound
    <2>1. /\ walk.again = {} /\ walk.shown \cap walk.answer.items = {}
          /\ \A r \in Selected : /\ r.id \in walk.shown => Rank(r) <= Turned
                                 /\ r.id \in walk.answer.items => Rank(r) <= Ahead
      BY <1>2 DEF ListingsInv, RepeatSound
    <2> QED
      BY <1>9, <1>11, <1>12, <2>1
  <1>17. LocatedSound'
    <2> SUFFICES ASSUME Located, phase = "on" PROVE FALSE
      BY <1>7, <1>8 DEF LocatedSound
    <2>1. walk.page = 1 /\ walk.answer.total <= Limit
      BY <1>2 DEF ListingsInv, LocatedSound
    <2> QED
      BY <1>3, <1>6, <1>11, <2>1
  <1>18. ChatSound'
    <2> SUFFICES ASSUME list.name \in Chats
                 PROVE  /\ text <=> page # 1
                        /\ page <= 2 \/ page > 20
                        /\ Still /\ phase = "on" =>
                             \A r \in Selected : Near(r) =>
                               (r.id \in walk.shown \cup walk.answer.items <=> Passed(r)')
      BY <1>1, <1>7, <1>8, <1>14 DEF ChatSound, Still
    <2>1. walk.text <=> walk.page # 1
      BY DEF ListingsInv, ChatSound
    <2>2. walk.page <= 2 \/ walk.page > 20
      BY DEF ListingsInv, ChatSound
    <2>3. text <=> page # 1
      BY <1>6, <2>1, NextPage
    <2>4. page <= 2 \/ page > 20
      BY <1>6, <2>2, NextPage
    <2>5. ASSUME Still, phase = "on", NEW r \in Selected, Near(r)
          PROVE  r.id \in walk.shown \cup walk.answer.items <=> Passed(r)'
      <3>1. page = createMeta
        BY <1>6, <2>5
      <3>2. Passed(r)' <=> Rank(r) <= (IF walk.page = 1 THEN Limit ELSE 2 * Limit)
        BY <1>7, <1>8, <3>1, NextPage DEF Passed
      <3> QED
        BY <1>2, <2>5, <3>2, ChatShown
    <2> QED
      BY <2>3, <2>4, <2>5
  <1>19. StillSound'
    <2> SUFFICES ASSUME Still
                 PROVE  /\ walk.shown \cup walk.answer.items \subseteq Ids(Selected)
                        /\ phase = "done" => \A r \in Selected : Near(r) =>
                             (r.id \in walk.shown \cup walk.answer.items <=> Reached(r))
      BY <1>1, <1>7, <1>8, <1>14 DEF StillSound, Still, Done
    <2>1. walk.shown \cup walk.answer.items \subseteq Ids(Selected)
      BY DEF ListingsInv, StillSound
    <2>2. ASSUME phase = "done", NEW r \in Selected, Near(r)
          PROVE  r.id \in walk.shown \cup walk.answer.items <=> Reached(r)
      <3>1. CASE Located
        <4>1. walk.page = 1 /\ walk.shown = {}
          BY <1>2, <3>1 DEF ListingsInv, LocatedSound
        <4>2. walk.answer.items = Ids(PageRows)
          BY <1>2 DEF ListingsInv, StillSound, PageRows
        <4>3. PageRows \subseteq Selected
          BY <1>1, FoundRows
        <4>4. r.id \in walk.answer.items <=> r \in PageRows
          BY <1>1, <4>2, <4>3, IdsName
        <4>5. (1 - 1) * Limit = 0
          BY <1>11
        <4>6. r \in PageRows <=> 0 < Rank(r) /\ Rank(r) <= 0 + Limit /\ r.kind.place = "near"
          BY <3>1, <4>1, <4>5 DEF PageRows, findByLocation, Page, Slice
        <4>7. list.name \notin Chats
          BY <3>1 DEF Located, Chats
        <4> QED
          BY <1>9, <1>11, <3>1, <4>1, <4>4, <4>6, <4>7 DEF Reached
      <3>2. CASE list.name \in Chats
        <4>1. r.id \in walk.shown \cup walk.answer.items
                <=> Rank(r) <= (IF walk.page = 1 THEN Limit ELSE 2 * Limit)
          BY <1>2, <2>2, <3>2, ChatShown
        <4>2. walk.answer.total = Cardinality(Selected)
          BY <1>2, <3>2 DEF ListingsInv, ChatSound
        <4>3. walk.page = 1 => Rank(r) <= Limit
          BY <1>6, <1>9, <1>10, <1>11, <2>2, <4>2
        <4>4. ~Located
          BY <3>2 DEF Located, Chats
        <4>5. Reached(r) <=> Rank(r) <= 2 * Limit
          BY <3>2, <4>4 DEF Reached
        <4> QED
          BY <1>9, <1>11, <4>1, <4>3, <4>5
      <3>3. CASE ~Located /\ list.name \notin Chats
        <4>1. Causeless /\ during.came = {}
          BY <3>3 DEF Causeless, Still, Quiet
        <4>2. r.id \in walk.shown \cup walk.answer.items
          BY <1>1, <1>7, <1>8, <1>15, <2>2, <4>1 DEF MissSound, Causeless, Done
        <4> QED
          BY <3>3, <4>2 DEF Reached
      <3> QED
        BY <3>1, <3>2, <3>3
    <2> QED
      BY <2>1, <2>2
  <1> QED
    BY <1>7, <1>13, <1>15, <1>16, <1>17, <1>18, <1>19 DEF ListingsInv

-----------------------------------------------------------------------------
\* A row that the list asks for comes to those there are, and takes no place that
\* is ahead of its own.
LEMMA NewRow ==
  ASSUME ListingsTypeOK, RowsSound, NEW k \in Kinds, Arrive(k)
  PROVE  /\ walk.phase = "on" /\ UNCHANGED <<list, walk>>
         /\ ListingsTypeOK' /\ RowsSound'
         /\ edits + 1 \in Nat
         /\ \E n \in Row : /\ n.id = edits + 1 /\ n.kind = k /\ rows' = rows \cup {n}
  <1>1. walk.phase = "on" /\ UNCHANGED <<list, walk>>
    BY DEF Arrive, Edited
  <1>2. edits \in Nat /\ edits < MaxEdits /\ edits' = edits + 1 /\ MaxEdits \in Nat /\ FirstRows \in Nat
    BY ListingsAssumption DEF Arrive, Edited, ListingsTypeOK, ListingsAssumption
  <1>3. PICK n : n = [id |-> edits + 1, kind |-> k, stamp |-> Now]
    OBVIOUS
  <1>4. n \in Row /\ n.id = edits + 1 /\ n.kind = k /\ n.stamp = FirstRows + edits + 1
    BY <1>2, <1>3 DEF Row, Now
  <1>5. rows' = rows \cup {n}
    BY <1>3 DEF Arrive, Edited
  <1>6. during' \in [came : SUBSET Nat, went : SUBSET Nat, touched : SUBSET Nat, between : BOOLEAN]
        /\ during'.came \subseteq during.came \cup {edits + 1}
    <2>1. CASE Selects(k)
      <3>1. PICK d : d = [came |-> during.came \cup {edits + 1}, went |-> during.went,
                          touched |-> during.touched, between |-> during.between \/ Answered("total")]
        OBVIOUS
      <3>2. d.came = during.came \cup {edits + 1} /\
            d \in [came : SUBSET Nat, went : SUBSET Nat, touched : SUBSET Nat, between : BOOLEAN]
        BY <1>2, <3>1 DEF ListingsTypeOK
      <3> QED
        BY <2>1, <3>1, <3>2 DEF Arrive
    <2>2. CASE ~Selects(k)
      BY <2>2 DEF Arrive, ListingsTypeOK
    <2> QED
      BY <2>1, <2>2
  <1>7. ListingsTypeOK'
    BY <1>1, <1>2, <1>4, <1>5, <1>6 DEF ListingsTypeOK
  <1>8. RowsSound'
    <2>1. IsFiniteSet(rows')
      BY <1>5, FS_AddElement DEF RowsSound
    <2>2. \A r \in rows : /\ r.stamp \in Nat /\ r.id \in Nat
                          /\ r.stamp <= FirstRows + edits /\ (r.id <= edits \/ r.id > MaxEdits)
      BY DEF RowsSound, ListingsTypeOK, Row
    <2>3. \A q, r \in rows' : q.id = r.id \/ q.stamp = r.stamp => q = r
      BY <1>2, <1>4, <1>5, <2>2 DEF RowsSound
    <2>4. \A r \in rows' : r.stamp <= FirstRows + edits' /\ (r.id <= edits' \/ r.id > MaxEdits)
      BY <1>2, <1>4, <1>5, <2>2
    <2>5. \A i \in during'.came : i <= edits'
      BY <1>2, <1>6 DEF RowsSound, ListingsTypeOK
    <2> QED
      BY <2>1, <2>3, <2>4, <2>5 DEF RowsSound
  <1> QED
    BY <1>1, <1>2, <1>4, <1>5, <1>7, <1>8

LEMMA ArriveStep ==
  ASSUME ListingsInv, NEW k \in Kinds, Arrive(k)
  PROVE  ListingsInv'
  <1>1. ListingsTypeOK /\ RowsSound
    BY DEF ListingsInv
  <1>2. walk.phase = "on" /\ UNCHANGED <<list, walk>> /\ ListingsTypeOK' /\ RowsSound'
    BY <1>1, NewRow
  <1>3. PICK n \in Row : n.id = edits + 1 /\ n.kind = k /\ rows' = rows \cup {n}
    BY <1>1, NewRow
  <1>4. \A c \in Kinds : Selects(c)' = Selects(c)
    BY <1>2 DEF Selects, search, Branch, searchKeyword, findBySeller, findMyProducts,
           findByCategory, findAll
  <1>5. Selected' = IF Selects(k) THEN Selected \cup {n} ELSE Selected
    BY <1>1, <1>3, <1>4 DEF Selected, ListingsTypeOK, Row
  <1>6. Located' = Located /\ Turned' = Turned /\ Ahead' = Ahead
        /\ \A part : Answered(part)' = Answered(part)
    BY <1>2 DEF Located, Branch, Turned, Ahead, Answered
  <1>7. AnswersSound'
    BY <1>2, <1>6 DEF ListingsInv, AnswersSound
  <1>8. LocatedSound'
    BY <1>2, <1>6 DEF ListingsInv, LocatedSound
  <1>9. CASE ~Selects(k)
    <2>1. Selected' = Selected /\ during' = during
      BY <1>5, <1>9 DEF Arrive
    <2>2. \A r : Rank(r)' = Rank(r)
      BY <1>2, <2>1 DEF Rank, Before
    <2>3. \A r : Near(r)' = Near(r) /\ Passed(r)' = Passed(r) /\ Reached(r)' = Reached(r)
      BY <1>2, <1>6, <2>2 DEF Near, Passed, Reached
    <2>4. Ids(PageRows)' = Ids(PageRows) /\ Ids(Selected)' = Ids(Selected)
      BY <1>2, <1>6, <2>1, <2>2 DEF PageRows, findByLocation, Page, Slice, Ids
    <2>5. MissSound'
      BY <1>2, <1>6, <2>1, <2>2 DEF ListingsInv, MissSound, Causeless, Done
    <2>6. RepeatSound'
      BY <1>2, <1>6, <2>1, <2>2 DEF ListingsInv, RepeatSound
    <2>7. ChatSound'
      BY <1>2, <1>6, <2>1, <2>3 DEF ListingsInv, ChatSound, Still
    <2>8. StillSound'
      BY <1>2, <1>6, <2>1, <2>3, <2>4 DEF ListingsInv, StillSound, Still, Done, PageRows
    <2> QED
      BY <1>2, <1>7, <1>8, <2>5, <2>6, <2>7, <2>8 DEF ListingsInv
  <1>10. CASE Selects(k)
    <2>1. /\ during'.came = during.came \cup {edits + 1} /\ during'.went = during.went
          /\ during'.between = (during.between \/ Answered("total"))
      BY <1>10 DEF Arrive
    <2>2. during'.came # {} /\ ~Still'
      BY <2>1 DEF Still, Quiet
    <2>3. Selected' = Selected \cup {n} /\ n.id \in during'.came
      BY <1>3, <1>5, <1>10, <2>1
    <2>4. \A r \in Selected : Rank(r) \in Nat /\ Rank(r)' \in Nat /\ Rank(r) <= Rank(r)'
      <3> TAKE r \in Selected
      <3>1. IsFiniteSet(Selected') /\ IsFiniteSet(Selected)
        BY <1>1, <1>2, <2>3, SelectedIsFinite, FS_AddElement DEF RowsSound
      <3>2. {q \in Selected : Before(q, r)} \subseteq {q \in Selected : Before(q, r)}'
        BY <1>2, <2>3 DEF Before
      <3>3. IsFiniteSet({q \in Selected : Before(q, r)}')
        BY <3>1, FS_Subset
      <3> QED
        BY <3>2, <3>3, FS_Subset, FS_CardinalityType DEF Rank
    <2>5. MissSound'
      <3> SUFFICES ASSUME Causeless'
                   PROVE  /\ ~Done
                          /\ \A r \in Selected' : r.id \notin during'.came /\ Rank(r)' <= Turned =>
                               r.id \in walk.shown
                          /\ Answered("items") =>
                               \A r \in Selected' : r.id \notin during'.came /\ Rank(r)' <= Ahead =>
                                 r.id \in walk.shown \cup walk.answer.items
                          /\ ~Answered("total")
        BY <1>2, <1>6 DEF MissSound, Done
      <3>1. Causeless /\ ~Answered("total")
        BY <1>2, <1>6, <2>1 DEF Causeless
      <3>2. Turned \in Nat /\ Ahead \in Nat
        BY <1>1, PageBounds DEF Turned, Ahead, ListingsTypeOK
      <3>3. \A r \in Selected' : r.id \notin during'.came => r \in Selected /\ r.id \notin during.came
        BY <2>1, <2>3
      <3> QED
        BY <1>2, <2>4, <3>1, <3>2, <3>3 DEF ListingsInv, MissSound, Done
    <2>6. RepeatSound'
      BY <2>2 DEF RepeatSound
    <2>7. ChatSound'
      BY <1>2, <2>2 DEF ListingsInv, ChatSound
    <2>8. StillSound'
      BY <2>2 DEF StillSound
    <2> QED
      BY <1>2, <1>7, <1>8, <2>5, <2>6, <2>7, <2>8 DEF ListingsInv
  <1> QED
    BY <1>9, <1>10

LEMMA DropStep ==
  ASSUME ListingsInv, NEW x \in rows, Drop(x)
  PROVE  ListingsInv'
  <1>1. ListingsTypeOK /\ RowsSound
    BY DEF ListingsInv
  <1>2. /\ walk.phase = "on" /\ UNCHANGED <<list, walk>> /\ rows' = rows \ {x}
        /\ during' = [during EXCEPT !.went = @ \cup {x.id}]
    BY DEF Drop, Edited
  <1>3. edits \in Nat /\ edits < MaxEdits /\ edits' = edits + 1 /\ MaxEdits \in Nat /\ FirstRows \in Nat
    <2>1. edits < MaxEdits /\ edits' = edits + 1
      BY Zenon DEF Drop, Edited
    <2> QED
      BY <1>1, <2>1, ListingsAssumption DEF ListingsTypeOK, ListingsAssumption
  <1>4. x \in Row
    BY <1>1 DEF ListingsTypeOK
  <1>5. /\ during'.came = during.came /\ during'.touched = during.touched /\ during'.went # {}
        /\ during' \in [came : SUBSET Nat, went : SUBSET Nat, touched : SUBSET Nat, between : BOOLEAN]
    BY <1>1, <1>2, <1>4 DEF ListingsTypeOK, Row
  <1>6. ListingsTypeOK'
    BY <1>1, <1>2, <1>3, <1>5 DEF ListingsTypeOK
  <1>7. RowsSound'
    <2>1. IsFiniteSet(rows')
      BY <1>1, <1>2, FS_RemoveElement DEF RowsSound
    <2>2. \A r \in rows : /\ r.stamp \in Nat /\ r.id \in Nat
                          /\ r.stamp <= FirstRows + edits /\ (r.id <= edits \/ r.id > MaxEdits)
      BY <1>1 DEF RowsSound, ListingsTypeOK, Row
    <2>3. \A r \in rows' : r.stamp <= FirstRows + edits' /\ (r.id <= edits' \/ r.id > MaxEdits)
      BY <1>2, <1>3, <2>2
    <2>4. \A i \in during'.came : i <= edits'
      BY <1>1, <1>3, <1>5 DEF RowsSound, ListingsTypeOK
    <2>5. \A q, r \in rows' : q.id = r.id \/ q.stamp = r.stamp => q = r
      BY <1>1, <1>2 DEF RowsSound
    <2> QED
      BY <2>1, <2>3, <2>4, <2>5 DEF RowsSound
  <1>8. Selected' \subseteq Selected
    BY <1>2 DEF Selected, Selects, search, Branch, searchKeyword, findBySeller, findMyProducts,
           findByCategory, findAll
  <1>9. \A r \in Selected' : Rank(r) \in Nat /\ Rank(r)' \in Nat /\ Rank(r)' <= Rank(r)
    <2> TAKE r \in Selected'
    <2>1. IsFiniteSet(Selected)
      BY <1>1, SelectedIsFinite DEF RowsSound
    <2>2. {q \in Selected : Before(q, r)}' \subseteq {q \in Selected : Before(q, r)}
      BY <1>2, <1>8 DEF Before
    <2>3. IsFiniteSet({q \in Selected : Before(q, r)})
      BY <2>1, FS_Subset
    <2> QED
      BY <2>2, <2>3, FS_Subset, FS_CardinalityType DEF Rank
  <1>10. Located' = Located /\ Turned' = Turned /\ Ahead' = Ahead
         /\ \A part : Answered(part)' = Answered(part)
    BY <1>2 DEF Located, Branch, Turned, Ahead, Answered
  <1>11. AnswersSound' /\ LocatedSound'
    BY <1>2, <1>10 DEF ListingsInv, AnswersSound, LocatedSound
  <1>12. ~Causeless' /\ ~Still'
    BY <1>5 DEF Causeless, Still, Quiet
  <1>13. RepeatSound'
    <2>1. Turned \in Nat /\ Ahead \in Nat
      BY <1>1, PageBounds DEF Turned, Ahead, ListingsTypeOK
    <2> QED
      BY <1>2, <1>5, <1>8, <1>9, <1>10, <2>1 DEF ListingsInv, RepeatSound
  <1>14. ChatSound'
    BY <1>2, <1>12 DEF ListingsInv, ChatSound
  <1> QED
    BY <1>6, <1>7, <1>11, <1>12, <1>13, <1>14 DEF ListingsInv, MissSound, StillSound

LEMMA TouchStep ==
  ASSUME ListingsInv, NEW x \in rows, Touch(x)
  PROVE  ListingsInv'
  <1>1. ListingsTypeOK /\ RowsSound
    BY DEF ListingsInv
  <1>2. PICK y : y = [x EXCEPT !.stamp = Now]
    OBVIOUS
  <1>3. /\ walk.phase = "on" /\ UNCHANGED <<list, walk>> /\ rows' = (rows \ {x}) \cup {y}
        /\ during' = [during EXCEPT !.touched = @ \cup {x.id}] /\ list.name \in Chats
    BY <1>2 DEF Touch, Edited
  <1>4. edits \in Nat /\ edits < MaxEdits /\ edits' = edits + 1 /\ MaxEdits \in Nat /\ FirstRows \in Nat
    <2>1. edits < MaxEdits /\ edits' = edits + 1
      BY Zenon DEF Touch, Edited
    <2> QED
      BY <1>1, <2>1, ListingsAssumption DEF ListingsTypeOK, ListingsAssumption
  <1>5. x \in Row
    BY <1>1 DEF ListingsTypeOK
  <1>6. y \in Row /\ y.id = x.id /\ y.stamp = FirstRows + edits + 1
    BY <1>2, <1>4, <1>5 DEF Row, Now
  <1>7. /\ during'.came = during.came /\ during'.touched # {}
        /\ during' \in [came : SUBSET Nat, went : SUBSET Nat, touched : SUBSET Nat, between : BOOLEAN]
    BY <1>1, <1>3, <1>5 DEF ListingsTypeOK, Row
  <1>8. ListingsTypeOK'
    BY <1>1, <1>3, <1>4, <1>6, <1>7 DEF ListingsTypeOK
  <1>9. RowsSound'
    <2>1. IsFiniteSet(rows')
      BY <1>1, <1>3, FS_RemoveElement, FS_AddElement DEF RowsSound
    <2>2. \A r \in rows : /\ r.stamp \in Nat /\ r.id \in Nat
                          /\ r.stamp <= FirstRows + edits /\ (r.id <= edits \/ r.id > MaxEdits)
      BY <1>1 DEF RowsSound, ListingsTypeOK, Row
    <2>3. \A r \in rows' : r.stamp <= FirstRows + edits' /\ (r.id <= edits' \/ r.id > MaxEdits)
      BY <1>3, <1>4, <1>5, <1>6, <2>2
    <2>4. \A i \in during'.came : i <= edits'
      BY <1>1, <1>4, <1>7 DEF RowsSound, ListingsTypeOK
    <2>5. \A q, r \in rows' : q.id = r.id \/ q.stamp = r.stamp => q = r
      BY <1>1, <1>3, <1>4, <1>6, <2>2 DEF RowsSound
    <2> QED
      BY <2>1, <2>3, <2>4, <2>5 DEF RowsSound
  <1>10. Located' = Located /\ \A part : Answered(part)' = Answered(part)
    BY <1>3 DEF Located, Branch, Answered
  <1>11. AnswersSound' /\ LocatedSound'
    BY <1>3, <1>10 DEF ListingsInv, AnswersSound, LocatedSound
  <1>12. ~Causeless' /\ ~Still'
    BY <1>3, <1>7 DEF Causeless, Still, Quiet
  <1>13. RepeatSound'
    BY <1>7 DEF RepeatSound
  <1>14. ChatSound'
    BY <1>3, <1>12 DEF ListingsInv, ChatSound
  <1> QED
    BY <1>8, <1>9, <1>11, <1>12, <1>13, <1>14 DEF ListingsInv, MissSound, StillSound

-----------------------------------------------------------------------------
LEMMA ListingsStart == ListingsInit => ListingsInv
  <1> SUFFICES ASSUME ListingsInit PROVE ListingsInv
    OBVIOUS
  <1>0. PICK n \in 0..FirstRows : \E kind \in [1..n -> Kinds] :
          rows = {[id |-> MaxEdits + i, kind |-> kind[i], stamp |-> i] : i \in 1..n}
    BY Zenon DEF ListingsInit
  <1>1. PICK kind \in [1..n -> Kinds] :
          rows = {[id |-> MaxEdits + i, kind |-> kind[i], stamp |-> i] : i \in 1..n}
    BY <1>0
  <1>2. FirstRows \in Nat /\ MaxEdits \in Nat /\ n \in Nat /\ n <= FirstRows
    BY <1>1, ListingsAssumption DEF ListingsAssumption
  <1>3. edits = 0 /\ during = Quiet /\ list \in Walks
        /\ walk = [phase |-> "on", page |-> 1, text |-> FALSE, shown |-> {}, again |-> {},
                   answer |-> NoAnswer]
    BY Zenon DEF ListingsInit
  <1>4. \A r \in rows : \E i \in 1..n : /\ r \in Row /\ r.id = MaxEdits + i /\ r.stamp = i
                                        /\ r = [id |-> MaxEdits + i, kind |-> kind[i], stamp |-> i]
    BY <1>1, <1>2 DEF Row
  <1>5. NoAnswer \in PageAnswer /\ NoAnswer.items = {} /\ NoAnswer.has = {}
    BY DEF NoAnswer, PageAnswer
  <1>6. /\ during.came = {} /\ during \in [came : SUBSET Nat, went : SUBSET Nat,
                                            touched : SUBSET Nat, between : BOOLEAN]
    BY <1>3 DEF Quiet
  <1>7. ListingsTypeOK
    BY <1>2, <1>3, <1>4, <1>5, <1>6 DEF ListingsTypeOK, Walking
  <1>8. RowsSound
    <2>1. IsFiniteSet(rows)
      <3>1. PICK f : f = [i \in 1..n |-> [id |-> MaxEdits + i, kind |-> kind[i], stamp |-> i]]
        OBVIOUS
      <3>2. f \in Surjection(1..n, rows)
        BY <1>1, <3>1 DEF Surjection
      <3>3. 1 \in Int /\ n \in Int
        BY <1>2
      <3>4. IsFiniteSet(1..n)
        BY <3>3, FS_Interval, Zenon
      <3> QED
        BY <3>2, <3>4, FS_Surjection
    <2>2. \A q, r \in rows : q.id = r.id \/ q.stamp = r.stamp => q = r
      <3> SUFFICES ASSUME NEW q \in rows, NEW r \in rows, q.id = r.id \/ q.stamp = r.stamp
                   PROVE  q = r
        OBVIOUS
      <3>1. PICK i \in 1..n : q.id = MaxEdits + i /\ q.stamp = i
                                /\ q = [id |-> MaxEdits + i, kind |-> kind[i], stamp |-> i]
        BY <1>4
      <3>2. PICK j \in 1..n : r.id = MaxEdits + j /\ r.stamp = j
                                /\ r = [id |-> MaxEdits + j, kind |-> kind[j], stamp |-> j]
        BY <1>4
      <3>3. i = j
        BY <1>2, <3>1, <3>2
      <3> QED
        BY <3>1, <3>2, <3>3
    <2>3. \A r \in rows : r.stamp <= FirstRows + edits /\ r.id > MaxEdits
      BY <1>2, <1>3, <1>4
    <2> QED
      BY <1>6, <2>1, <2>2, <2>3 DEF RowsSound
  <1>9. walk.answer = NoAnswer /\ walk.shown = {} /\ walk.again = {} /\ walk.page = 1
        /\ walk.phase = "on" /\ walk.text = FALSE
    BY <1>3
  <1>10. Turned = 0
    BY <1>7, <1>9, PagePlace
  <1>11. \A r \in Selected : Rank(r) \in Nat /\ Rank(r) >= 1
    BY <1>7, <1>8, RankRange, RankPositive DEF RowsSound
  <1>12. ~Done /\ ~Answered("items") /\ ~Answered("total") /\ walk.answer.items = {}
    BY <1>5, <1>9 DEF Done, Answered
  <1>13. AnswersSound /\ LocatedSound /\ StillSound
    BY <1>9, <1>12 DEF AnswersSound, LocatedSound, StillSound
  <1>14. MissSound
    BY <1>10, <1>11, <1>12 DEF MissSound
  <1>15. RepeatSound
    BY <1>9, <1>12 DEF RepeatSound
  <1>16. ChatSound
    BY <1>9, <1>11, <1>12 DEF ChatSound, Passed
  <1> QED
    BY <1>7, <1>8, <1>13, <1>14, <1>15, <1>16 DEF ListingsInv

LEMMA ListingsRest == ASSUME ListingsInv, UNCHANGED listVars PROVE ListingsInv'
  <1>1. UNCHANGED <<list, rows, edits, walk, during>>
    BY DEF listVars
  <1>2. /\ Selected' = Selected /\ Located' = Located /\ Turned' = Turned /\ Ahead' = Ahead
        /\ \A r : Rank(r)' = Rank(r) /\ Near(r)' = Near(r) /\ Reached(r)' = Reached(r)
        /\ \A r : Passed(r)' = Passed(r)
        /\ \A part : Answered(part)' = Answered(part)
    BY <1>1, RowsStand DEF Turned, Ahead, Passed, Answered
  <1>3. Ids(PageRows)' = Ids(PageRows) /\ Ids(Selected)' = Ids(Selected)
    BY <1>1, <1>2 DEF PageRows, findByLocation, Page, Slice, Ids
  <1>4. ListingsTypeOK' /\ RowsSound' /\ AnswersSound'
    BY <1>1, <1>2 DEF ListingsInv, ListingsTypeOK, RowsSound, AnswersSound
  <1>5. MissSound' /\ RepeatSound' /\ LocatedSound'
    BY <1>1, <1>2 DEF ListingsInv, MissSound, RepeatSound, LocatedSound, Causeless, Done
  <1>6. ChatSound' /\ StillSound'
    BY <1>1, <1>2, <1>3 DEF ListingsInv, ChatSound, StillSound, Still, Done, PageRows
  <1> QED
    BY <1>4, <1>5, <1>6 DEF ListingsInv

LEMMA ListingsStep == ListingsInv /\ [ListingsNext]_listVars => ListingsInv'
  BY QueryItemsStep, QueryTotalStep, TurnPageStep, ArriveStep, DropStep, TouchStep, ListingsRest
     DEF ListingsNext

LEMMA ListingsHolds == ListingsSpec => []ListingsInv
  BY ListingsStart, ListingsStep, PTL DEF ListingsSpec

\* A client who walks a list page by page sees each row once, or there is a cause
\* for what he missed or saw again (findMany of the repositories, the queries of
\* a page and its count, PaginationUtil.createMeta).
THEOREM WalksAreSound == ListingsSpec => [](ListingsTypeOK /\ WalksSound)
  <1>1. ListingsInv => ListingsTypeOK /\ WalksSound
    <2> SUFFICES ASSUME ListingsInv PROVE WalksSound
      BY DEF ListingsInv
    <2>1. UndisturbedWalkComplete
      BY DEF ListingsInv, UndisturbedWalkComplete, StillSound, RepeatSound, Still, Quiet
    <2>2. MissNeedsCause
      BY DEF ListingsInv, MissNeedsCause, MissSound, Causeless, Ids
    <2>3. RepeatNeedsCause
      BY DEF ListingsInv, RepeatNeedsCause, RepeatSound
    <2> QED
      BY <2>1, <2>2, <2>3 DEF WalksSound
  <1> QED
    BY <1>1, ListingsHolds, PTL

-----------------------------------------------------------------------------
(***************************************************************************)
(* Favorites                                                               *)
(***************************************************************************)
\* The requests that will announce a row of x, and those that may insert one.
Announcing(x) == {s \in WishSlots : Wishing(s, "emit") /\ Pair(s) = x}
Hoping(x)     == {s \in WishSlots : wish[s].pc \in {"exist", "create"} /\ Pair(s) = x}

\* Each row that was ever inserted is there or was removed, and it took a
\* request of its own to insert it.
RowsAddUp ==
  \A x \in Pairs :
    /\ likes[x].inserted = likes[x].removed + Present(x)
    /\ likes[x].inserted + Cardinality(Hoping(x)) <= wishes

FavoritesInv == FavoritesTypeOK /\ RowsAddUp /\ CountsAddUp

LEMMA AnnouncingIsDue == \A x \in Pairs : Due(x) = Cardinality(Announcing(x))
  BY DEF Due, Announcing

\* The sizes of both sets are numbers, and how one request changes them.
LEMMA SlotSets ==
  ASSUME IsFiniteSet(WishSlots), NEW x
  PROVE  /\ IsFiniteSet(Announcing(x)) /\ Cardinality(Announcing(x)) \in Nat
         /\ IsFiniteSet(Hoping(x)) /\ Cardinality(Hoping(x)) \in Nat
  <1>1. Announcing(x) \subseteq WishSlots /\ Hoping(x) \subseteq WishSlots
    BY DEF Announcing, Hoping
  <1> QED
    BY <1>1, FS_Subset, FS_CardinalityType

LEMMA SlotSetsAfter ==
  ASSUME IsFiniteSet(WishSlots)
  PROVE  \A x \in Pairs : /\ Cardinality(Announcing(x)') \in Nat
                          /\ Cardinality(Hoping(x)') \in Nat
  <1> TAKE x \in Pairs
  <1>1. Announcing(x)' \subseteq WishSlots /\ Hoping(x)' \subseteq WishSlots
    BY DEF Announcing, Hoping
  <1> QED
    BY <1>1, FS_Subset, FS_CardinalityType

\* What a slot that gets a new state does to the sets.
LEMMA SetsAfter ==
  ASSUME FavoritesTypeOK, NEW s \in WishSlots, NEW w \in Wish, wish' = [wish EXCEPT ![s] = w],
         NEW x \in Pairs
  PROVE  /\ Announcing(x)' = IF w.pc = "emit" /\ w.pair = x THEN Announcing(x) \cup {s}
                                                           ELSE Announcing(x) \ {s}
         /\ Hoping(x)' = IF w.pc \in {"exist", "create"} /\ w.pair = x
                           THEN Hoping(x) \cup {s} ELSE Hoping(x) \ {s}
  <1>1. wish \in [WishSlots -> Wish]
    BY DEF FavoritesTypeOK
  <1>2. \A t \in WishSlots : wish'[t] = IF t = s THEN w ELSE wish[t]
    BY <1>1
  <1>3. Announcing(x)' = {t \in WishSlots : wish'[t].pc = "emit" /\ wish'[t].pair = x}
    BY DEF Announcing, Wishing, Pair
  <1>4. Hoping(x)' = {t \in WishSlots : wish'[t].pc \in {"exist", "create"} /\ wish'[t].pair = x}
    BY DEF Hoping, Pair
  <1>5. Announcing(x) = {t \in WishSlots : wish[t].pc = "emit" /\ wish[t].pair = x}
    BY DEF Announcing, Wishing, Pair
  <1>6. Hoping(x) = {t \in WishSlots : wish[t].pc \in {"exist", "create"} /\ wish[t].pair = x}
    BY DEF Hoping, Pair
  <1>7. Announcing(x)' = IF w.pc = "emit" /\ w.pair = x THEN Announcing(x) \cup {s}
                                                        ELSE Announcing(x) \ {s}
    BY <1>2, <1>3, <1>5
  <1>8. Hoping(x)' = IF w.pc \in {"exist", "create"} /\ w.pair = x
                       THEN Hoping(x) \cup {s} ELSE Hoping(x) \ {s}
    BY <1>2, <1>4, <1>6
  <1> QED
    BY <1>7, <1>8

LEMMA FavoritesStart == ASSUME IsFiniteSet(WishSlots) PROVE FavInit => FavoritesInv
  <1> SUFFICES ASSUME FavInit PROVE FavoritesInv
    OBVIOUS
  <1> USE FavoritesAssumption
  <1>1. FavoritesTypeOK
    BY DEF FavInit, FavoritesTypeOK, Wish, Small
  <1>2. \A x \in Pairs : Announcing(x) = {} /\ Hoping(x) = {} /\ Present(x) = 0
    BY DEF FavInit, Announcing, Hoping, Wishing, NoWish, Present
  <1>3. Cardinality({}) = 0
    BY FS_EmptySet
  <1>4. RowsAddUp
    <2>1. ASSUME NEW x \in Pairs
          PROVE  /\ likes[x].inserted = 0 /\ likes[x].removed = 0 /\ wishes = 0
                 /\ Present(x) = 0 /\ Cardinality(Hoping(x)) = 0
      BY <1>2, <1>3 DEF FavInit
    <2> QED
      BY <2>1 DEF RowsAddUp
  <1>5. LikesAddUp
    <2>1. \A x \in Pairs : Due(x) = 0
      BY <1>2, <1>3, AnnouncingIsDue
    <2> QED
      BY <1>2, <2>1 DEF LikesAddUp, FavInit
  <1>6. ViewsAddUp
    BY DEF ViewsAddUp, FavInit
  <1> QED
    BY <1>1, <1>4, <1>5, <1>6 DEF FavoritesInv, CountsAddUp

Announces(w, x) == IF w.pc = "emit" /\ w.pair = x THEN 1 ELSE 0
Hopes(w, x)     == IF w.pc \in {"exist", "create"} /\ w.pair = x THEN 1 ELSE 0

LEMMA SizesAfter ==
  ASSUME IsFiniteSet(WishSlots), FavoritesTypeOK, NEW s \in WishSlots, NEW w \in Wish,
         wish' = [wish EXCEPT ![s] = w], NEW x \in Pairs
  PROVE  /\ Cardinality(Announcing(x)') =
              Cardinality(Announcing(x)) - Announces(wish[s], x) + Announces(w, x)
         /\ Cardinality(Hoping(x)') =
              Cardinality(Hoping(x)) - Hopes(wish[s], x) + Hopes(w, x)
  <1>1. /\ Announcing(x)' = IF w.pc = "emit" /\ w.pair = x THEN Announcing(x) \cup {s}
                                                           ELSE Announcing(x) \ {s}
        /\ Hoping(x)' = IF w.pc \in {"exist", "create"} /\ w.pair = x
                           THEN Hoping(x) \cup {s} ELSE Hoping(x) \ {s}
    BY SetsAfter
  <1>2. /\ IsFiniteSet(Announcing(x)) /\ Cardinality(Announcing(x)) \in Nat
        /\ IsFiniteSet(Hoping(x)) /\ Cardinality(Hoping(x)) \in Nat
    BY SlotSets
  <1>3. /\ s \in Announcing(x) <=> (wish[s].pc = "emit" /\ wish[s].pair = x)
        /\ s \in Hoping(x) <=> (wish[s].pc \in {"exist", "create"} /\ wish[s].pair = x)
    BY DEF Announcing, Hoping, Wishing, Pair
  <1>4. Cardinality(Announcing(x)') =
          Cardinality(Announcing(x)) - Announces(wish[s], x) + Announces(w, x)
    <2>1. /\ Cardinality(Announcing(x) \cup {s}) =
               IF s \in Announcing(x) THEN Cardinality(Announcing(x))
                                      ELSE Cardinality(Announcing(x)) + 1
          /\ Cardinality(Announcing(x) \ {s}) =
               IF s \in Announcing(x) THEN Cardinality(Announcing(x)) - 1
                                      ELSE Cardinality(Announcing(x))
      BY <1>2, FS_AddElement, FS_RemoveElement
    <2> QED
      BY <1>1, <1>2, <1>3, <2>1 DEF Announces
  <1>5. Cardinality(Hoping(x)') = Cardinality(Hoping(x)) - Hopes(wish[s], x) + Hopes(w, x)
    <2>1. /\ Cardinality(Hoping(x) \cup {s}) =
               IF s \in Hoping(x) THEN Cardinality(Hoping(x)) ELSE Cardinality(Hoping(x)) + 1
          /\ Cardinality(Hoping(x) \ {s}) =
               IF s \in Hoping(x) THEN Cardinality(Hoping(x)) - 1 ELSE Cardinality(Hoping(x))
      BY <1>2, FS_AddElement, FS_RemoveElement
    <2> QED
      BY <1>1, <1>2, <1>3, <2>1 DEF Hopes
  <1> QED
    BY <1>4, <1>5

\* What the invariant says of one pair, in numbers.
Account(l, present, announcing, hoping, came) ==
  /\ l \in [inserted : Nat, removed : Nat, emitted : Nat, lost : Nat]
  /\ present \in Nat /\ announcing \in Nat /\ hoping \in Nat
  /\ l.inserted = l.removed + present
  /\ l.inserted + hoping <= came
  /\ l.emitted + l.lost + announcing = l.removed + present

LEMMA AccountOf ==
  ASSUME IsFiniteSet(WishSlots), FavoritesInv, NEW x \in Pairs
  PROVE  Account(likes[x], Present(x), Cardinality(Announcing(x)), Cardinality(Hoping(x)), wishes)
  <1>1. likes[x] \in [inserted : Nat, removed : Nat, emitted : Nat, lost : Nat]
    <2>1. likes[x] \in [inserted : Small, removed : Small, emitted : Small, lost : Small]
      BY DEF FavoritesInv, FavoritesTypeOK
    <2>2. Small \subseteq Nat
      BY FavoritesAssumption DEF Small
    <2> QED
      BY <2>1, <2>2
  <1>2. likes[x].emitted + likes[x].lost + Cardinality(Announcing(x)) =
          likes[x].removed + Present(x)
    BY AnnouncingIsDue DEF FavoritesInv, CountsAddUp, LikesAddUp
  <1> QED
    BY <1>1, <1>2, SlotSets DEF Account, FavoritesInv, RowsAddUp, Present

\* Enough of the new state for the invariant: the rest follows from the sums.
LEMMA FromAccounts ==
  ASSUME wishes' \in Small, favorite' \subseteq Pairs, wish' \in [WishSlots -> Wish],
         DOMAIN likes' = Pairs, likes' = [x \in DOMAIN likes' |-> likes'[x]],
         \A x \in Pairs :
           Account(likes'[x], Present(x)', Cardinality(Announcing(x)'), Cardinality(Hoping(x)'),
                   wishes')
  PROVE  /\ likes' \in [Pairs -> [inserted : Small, removed : Small, emitted : Small, lost : Small]]
         /\ RowsAddUp' /\ LikesAddUp'
  <1>1. ASSUME NEW x \in Pairs
        PROVE  likes'[x] \in [inserted : Small, removed : Small, emitted : Small, lost : Small]
    <2>1. Account(likes'[x], Present(x)', Cardinality(Announcing(x)'), Cardinality(Hoping(x)'),
                  wishes')
      OBVIOUS
    <2>2. /\ likes'[x] \in [inserted : Nat, removed : Nat, emitted : Nat, lost : Nat]
          /\ likes'[x].inserted <= wishes' /\ likes'[x].removed <= wishes'
          /\ likes'[x].emitted <= wishes' /\ likes'[x].lost <= wishes'
          /\ wishes' \in Nat
      BY <2>1, FavoritesAssumption DEF Account, Small
    <2>3. /\ likes'[x].inserted \in Small /\ likes'[x].removed \in Small
          /\ likes'[x].emitted \in Small /\ likes'[x].lost \in Small
      BY <2>2, FavoritesAssumption DEF Small
    <2> QED
      BY <2>2, <2>3
  <1>2. \A x \in Pairs : Due(x)' = Cardinality(Announcing(x)')
    BY DEF Due, Announcing
  <1>3. RowsAddUp'
    BY DEF RowsAddUp, Account
  <1>4. LikesAddUp'
    BY <1>2 DEF LikesAddUp, Account
  <1> QED
    BY <1>1, <1>3, <1>4

\* The part of the invariant about views.
ViewsInv ==
  /\ viewCount \in [Wares -> Nat] /\ counting \in [Wares -> Nat]
  /\ looked \in [Wares -> Nat] /\ uncounted \in [Wares -> Nat]
  /\ ViewsAddUp

LEMMA ViewsUnchanged ==
  ASSUME ViewsInv, UNCHANGED <<viewCount, counting, looked, uncounted>>
  PROVE  ViewsInv'
  BY DEF ViewsInv, ViewsAddUp

\* A view that is begun, and one that is counted or not.
LEMMA ViewBegins ==
  ASSUME ViewsInv, NEW p \in Wares, findById(p), UNCHANGED <<viewCount, uncounted>>
  PROVE  ViewsInv'
  <1>1. /\ looked' = [looked EXCEPT ![p] = looked[p] + 1]
        /\ counting' = [counting EXCEPT ![p] = counting[p] + 1]
        /\ viewCount' = viewCount /\ uncounted' = uncounted
    BY DEF findById
  <1> QED
    BY <1>1 DEF ViewsInv, ViewsAddUp

LEMMA ViewEnds ==
  ASSUME ViewsInv, NEW p \in Wares, CountView(p) \/ CountViewFails(p)
  PROVE  ViewsInv'
  <1>1. counting[p] > 0 /\ counting' = [counting EXCEPT ![p] = counting[p] - 1] /\ looked' = looked
    BY DEF CountView, CountViewFails
  <1>2. counting' \in [Wares -> Nat]
    BY <1>1 DEF ViewsInv
  <1>3. CASE CountView(p)
    BY <1>1, <1>2, <1>3 DEF CountView, ViewsInv, ViewsAddUp
  <1>4. CASE CountViewFails(p)
    BY <1>1, <1>2, <1>4 DEF CountViewFails, ViewsInv, ViewsAddUp
  <1> QED
    BY <1>3, <1>4

\* What a step has to show besides the sums.
LEMMA FavoritesFrom ==
  ASSUME ViewsInv', wishes' \in Small, favorite' \subseteq Pairs, wish' \in [WishSlots -> Wish],
         DOMAIN likes' = Pairs, likes' = [x \in DOMAIN likes' |-> likes'[x]],
         \A x \in Pairs :
           Account(likes'[x], Present(x)', Cardinality(Announcing(x)'), Cardinality(Hoping(x)'),
                   wishes')
  PROVE  FavoritesInv'
  <1>1. /\ likes' \in [Pairs -> [inserted : Small, removed : Small, emitted : Small, lost : Small]]
        /\ RowsAddUp' /\ LikesAddUp'
    BY FromAccounts
  <1> QED
    BY <1>1 DEF FavoritesInv, FavoritesTypeOK, CountsAddUp, ViewsInv

LEMMA FavoritesStep ==
  ASSUME IsFiniteSet(WishSlots) PROVE FavoritesInv /\ [FavNext]_favVars => FavoritesInv'
  <1> SUFFICES ASSUME FavoritesInv, [FavNext]_favVars PROVE FavoritesInv'
    OBVIOUS
  <1> USE FavoritesAssumption
  <1>a. /\ ViewsInv /\ FavoritesTypeOK /\ wishes \in Nat /\ wishes \in Small
        /\ wish \in [WishSlots -> Wish] /\ favorite \subseteq Pairs
        /\ likes \in [Pairs -> [inserted : Small, removed : Small, emitted : Small, lost : Small]]
    BY DEF FavoritesInv, FavoritesTypeOK, CountsAddUp, ViewsInv, Small
  <1>b. \A x \in Pairs :
          Account(likes[x], Present(x), Cardinality(Announcing(x)), Cardinality(Hoping(x)), wishes)
    BY AccountOf
  <1>c. \A s \in WishSlots : wish[s].pc # "none" =>
          /\ wish[s] \in [pc : {"exist", "create", "emit"}, pair : Pairs]
          /\ Pair(s) = wish[s].pair /\ Pair(s) \in Pairs
    BY <1>a DEF Wish, NoWish, Pair
  <1>d. NoWish \in Wish /\ \A x : Announces(NoWish, x) = 0 /\ Hopes(NoWish, x) = 0
    BY DEF NoWish, Wish, Announces, Hopes
  <1>e. Made => wishes' = wishes + 1 /\ wishes' \in Small
    BY <1>a DEF Made, Small
  <1>1. ASSUME NEW p \in Wares, ViewProduct(p) PROVE FavoritesInv'
    <2>1. /\ wishes' = wishes + 1 /\ wishes' \in Small
          /\ favorite' = favorite /\ wish' = wish /\ likes' = likes /\ ViewsInv'
      BY <1>1, <1>a, <1>e, ViewBegins DEF ViewProduct
    <2>2. \A x \in Pairs : /\ Announcing(x)' = Announcing(x) /\ Hoping(x)' = Hoping(x)
                           /\ Present(x)' = Present(x)
      BY <2>1 DEF Announcing, Hoping, Wishing, Pair, Present
    <2>3. \A x \in Pairs :
            Account(likes'[x], Present(x)', Cardinality(Announcing(x)'), Cardinality(Hoping(x)'),
                    wishes')
      BY <1>a, <1>b, <2>1, <2>2 DEF Account
    <2> QED
      BY <1>a, <2>1, <2>3, FavoritesFrom
  <1>2. ASSUME NEW p \in Wares, CountView(p) \/ CountViewFails(p) PROVE FavoritesInv'
    <2>1. /\ wishes' = wishes /\ favorite' = favorite /\ wish' = wish /\ likes' = likes
          /\ ViewsInv'
      BY <1>2, <1>a, ViewEnds DEF CountView, CountViewFails
    <2>2. \A x \in Pairs : /\ Announcing(x)' = Announcing(x) /\ Hoping(x)' = Hoping(x)
                           /\ Present(x)' = Present(x)
      BY <2>1 DEF Announcing, Hoping, Wishing, Pair, Present
    <2>3. \A x \in Pairs :
            Account(likes'[x], Present(x)', Cardinality(Announcing(x)'), Cardinality(Hoping(x)'),
                    wishes')
      BY <1>b, <2>1, <2>2
    <2> QED
      BY <1>a, <2>1, <2>3, FavoritesFrom
  <1>3. ASSUME NEW s \in WishSlots, NEW u \in Fans, NEW p \in Wares, AddFavorite(s, u, p)
        PROVE  FavoritesInv'
    <2> DEFINE w == IF Maker[p] = u THEN NoWish ELSE [pc |-> "exist", pair |-> <<u, p>>]
    <2>1. /\ wishes' = wishes + 1 /\ wishes' \in Small
          /\ favorite' = favorite /\ likes' = likes /\ ViewsInv'
          /\ wish' = [wish EXCEPT ![s] = w] /\ wish[s].pc = "none"
      BY <1>3, <1>a, <1>e, ViewBegins DEF AddFavorite, Wishing
    <2>2. w \in Wish
      BY <1>d DEF Wish, Pairs
    <2>3. \A x : Announces(w, x) = 0 /\ Hopes(w, x) \in {0, 1}
      BY DEF Announces, Hopes, NoWish
    <2>4. \A x : Announces(wish[s], x) = 0 /\ Hopes(wish[s], x) = 0
      BY <2>1 DEF Announces, Hopes
    <2> HIDE DEF w
    <2>5. \A x \in Pairs :
            /\ Cardinality(Announcing(x)') =
                 Cardinality(Announcing(x)) - Announces(wish[s], x) + Announces(w, x)
            /\ Cardinality(Hoping(x)') =
                 Cardinality(Hoping(x)) - Hopes(wish[s], x) + Hopes(w, x)
      BY <1>a, <2>1, <2>2, SizesAfter
    <2>6. \A x \in Pairs : Present(x)' = Present(x)
      BY <2>1 DEF Present
    <2>7. \A x \in Pairs :
            Account(likes'[x], Present(x)', Cardinality(Announcing(x)'), Cardinality(Hoping(x)'),
                    wishes')
      BY <1>a, <1>b, <2>1, <2>3, <2>4, <2>5, <2>6 DEF Account
    <2>8. wish' \in [WishSlots -> Wish]
      BY <1>a, <2>1, <2>2
    <2> QED
      BY <1>a, <2>1, <2>7, <2>8, FavoritesFrom
  <1>4. ASSUME NEW s \in WishSlots, exist(s) PROVE FavoritesInv'
    <2> DEFINE w == IF Pair(s) \in favorite THEN NoWish ELSE [wish[s] EXCEPT !.pc = "create"]
    <2>1. /\ wishes' = wishes /\ favorite' = favorite /\ likes' = likes /\ ViewsInv'
          /\ wish' = [wish EXCEPT ![s] = w] /\ wish[s].pc = "exist"
      BY <1>4, <1>a, ViewsUnchanged DEF exist, Wishing, Over, Onward
    <2>2. w \in Wish /\ (w = NoWish \/ (w.pc = "create" /\ w.pair = wish[s].pair))
      <3>1. wish[s] \in [pc : {"exist", "create", "emit"}, pair : Pairs]
        BY <1>c, <2>1
      <3>2. /\ [wish[s] EXCEPT !.pc = "create"] \in [pc : {"exist", "create", "emit"}, pair : Pairs]
            /\ [wish[s] EXCEPT !.pc = "create"].pc = "create"
            /\ [wish[s] EXCEPT !.pc = "create"].pair = wish[s].pair
        BY <3>1
      <3>3. CASE Pair(s) \in favorite
        <4>1. w = NoWish
          BY <3>3
        <4> HIDE DEF w
        <4> QED
          BY <1>d, <4>1
      <3>4. CASE Pair(s) \notin favorite
        <4>1. w = [wish[s] EXCEPT !.pc = "create"]
          BY <3>4
        <4> HIDE DEF w
        <4>2. w \in Wish
          BY <3>2, <4>1 DEF Wish
        <4> QED
          BY <3>2, <4>1, <4>2
      <3> QED
        BY <3>3, <3>4
    <2>3. \A x : Announces(w, x) = 0 /\ (Hopes(w, x) = 0 \/ Hopes(w, x) = Hopes(wish[s], x))
      BY <1>d, <2>1, <2>2 DEF Announces, Hopes
    <2>4. \A x : Announces(wish[s], x) = 0 /\ Hopes(wish[s], x) \in {0, 1}
      BY <2>1 DEF Announces, Hopes
    <2> HIDE DEF w
    <2>5. \A x \in Pairs :
            /\ Cardinality(Announcing(x)') =
                 Cardinality(Announcing(x)) - Announces(wish[s], x) + Announces(w, x)
            /\ Cardinality(Hoping(x)') =
                 Cardinality(Hoping(x)) - Hopes(wish[s], x) + Hopes(w, x)
            /\ Cardinality(Hoping(x)') \in Nat
      BY <1>a, <2>1, <2>2, SizesAfter, SlotSetsAfter
    <2>6. \A x \in Pairs : Present(x)' = Present(x)
      BY <2>1 DEF Present
    <2>7. \A x \in Pairs :
            Account(likes'[x], Present(x)', Cardinality(Announcing(x)'), Cardinality(Hoping(x)'),
                    wishes')
      BY <1>a, <1>b, <2>1, <2>3, <2>4, <2>5, <2>6 DEF Account
    <2>8. wish' \in [WishSlots -> Wish]
      BY <1>a, <2>1, <2>2
    <2> QED
      BY <1>a, <2>1, <2>7, <2>8, FavoritesFrom
  <1>5. ASSUME NEW s \in WishSlots, CreateFavorite(s) PROVE FavoritesInv'
    <2> DEFINE w == [wish[s] EXCEPT !.pc = "emit"]
               y == wish[s].pair
    <2>1. /\ wishes' = wishes /\ favorite' = favorite \cup {y} /\ y \notin favorite /\ ViewsInv'
          /\ wish' = [wish EXCEPT ![s] = w] /\ wish[s].pc = "create"
          /\ y \in Pairs
          /\ likes' = [likes EXCEPT ![y] = [likes[y] EXCEPT !.inserted = likes[y].inserted + 1]]
      BY <1>5, <1>a, <1>c, ViewsUnchanged DEF CreateFavorite, Wishing, Onward
    <2>2. w \in Wish /\ w.pc = "emit" /\ w.pair = y
      BY <1>c, <2>1 DEF Wish
    <2> HIDE DEF w
    <2>3. /\ DOMAIN likes' = Pairs /\ likes' = [x \in DOMAIN likes' |-> likes'[x]]
          /\ \A x \in Pairs : x # y => likes'[x] = likes[x]
          /\ likes'[y] = [likes[y] EXCEPT !.inserted = likes[y].inserted + 1]
      BY <1>a, <2>1
    <2>w. \A x \in Pairs :
            /\ Cardinality(Announcing(x)') =
                 Cardinality(Announcing(x)) - Announces(wish[s], x) + Announces(w, x)
            /\ Cardinality(Hoping(x)') = Cardinality(Hoping(x)) - Hopes(wish[s], x) + Hopes(w, x)
      BY <1>a, <2>1, <2>2, SizesAfter
    <2>4. \A x \in Pairs :
            /\ Announces(wish[s], x) = 0 /\ Hopes(w, x) = 0
            /\ Announces(w, x) = (IF x = y THEN 1 ELSE 0)
            /\ Hopes(wish[s], x) = (IF x = y THEN 1 ELSE 0)
            /\ Present(x)' = (IF x = y THEN 1 ELSE Present(x))
            /\ x = y => Present(x) = 0
      BY <2>1, <2>2 DEF Announces, Hopes, Present
    <2>5. \A x \in Pairs : Cardinality(Hoping(x)') \in Nat
      BY SlotSetsAfter
    <2>7. \A x \in Pairs :
            Account(likes'[x], Present(x)', Cardinality(Announcing(x)'), Cardinality(Hoping(x)'),
                    wishes')
      <3> TAKE x \in Pairs
      <3>1. Account(likes[x], Present(x), Cardinality(Announcing(x)), Cardinality(Hoping(x)), wishes)
        BY <1>b
      <3>2. CASE x = y
        <4>1. likes'[x] \in [inserted : Nat, removed : Nat, emitted : Nat, lost : Nat]
          BY <2>3, <3>1, <3>2 DEF Account
        <4>2. /\ likes'[x].inserted = likes[x].inserted + 1 /\ likes'[x].removed = likes[x].removed
              /\ likes'[x].emitted = likes[x].emitted /\ likes'[x].lost = likes[x].lost
          BY <2>3, <3>1, <3>2 DEF Account
        <4> QED
          BY <2>1, <2>w, <2>4, <2>5, <3>1, <3>2, <4>1, <4>2 DEF Account
      <3>3. CASE x # y
        BY <2>1, <2>w, <2>3, <2>4, <2>5, <3>1, <3>3 DEF Account
      <3> QED
        BY <3>2, <3>3
    <2>8. wish' \in [WishSlots -> Wish]
      BY <1>a, <2>1, <2>2
    <2>9. favorite' \subseteq Pairs
      BY <1>a, <2>1
    <2> QED
      BY <1>a, <2>1, <2>3, <2>7, <2>8, <2>9, FavoritesFrom
  <1>6. ASSUME NEW s \in WishSlots, EmitLiked(s), wish[s].pc = "emit" PROVE FavoritesInv'
    <2> DEFINE y == wish[s].pair
    <2>1. /\ wishes' = wishes /\ favorite' = favorite /\ ViewsInv'
          /\ wish' = [wish EXCEPT ![s] = NoWish] /\ y \in Pairs
          /\ likes' = [likes EXCEPT ![y] = [likes[y] EXCEPT !.emitted = likes[y].emitted + 1]]
      BY <1>6, <1>a, <1>c, ViewsUnchanged DEF EmitLiked, Over, Pair
    <2>3. /\ DOMAIN likes' = Pairs /\ likes' = [x \in DOMAIN likes' |-> likes'[x]]
          /\ \A x \in Pairs : x # y => likes'[x] = likes[x]
          /\ likes'[y] = [likes[y] EXCEPT !.emitted = likes[y].emitted + 1]
      BY <1>a, <2>1
    <2>w. \A x \in Pairs :
            /\ Cardinality(Announcing(x)') =
                 Cardinality(Announcing(x)) - Announces(wish[s], x) + Announces(NoWish, x)
            /\ Cardinality(Hoping(x)') =
                 Cardinality(Hoping(x)) - Hopes(wish[s], x) + Hopes(NoWish, x)
      BY <1>a, <1>d, <2>1, SizesAfter
    <2>4. \A x \in Pairs :
            /\ Announces(wish[s], x) = (IF x = y THEN 1 ELSE 0) /\ Announces(NoWish, x) = 0
            /\ Hopes(wish[s], x) = 0 /\ Hopes(NoWish, x) = 0
            /\ Present(x)' = Present(x)
      BY <1>6, <1>d, <2>1 DEF Announces, Hopes, Present
    <2>5. \A x \in Pairs : Cardinality(Announcing(x)') \in Nat
      BY SlotSetsAfter
    <2>7. \A x \in Pairs :
            Account(likes'[x], Present(x)', Cardinality(Announcing(x)'), Cardinality(Hoping(x)'),
                    wishes')
      <3> TAKE x \in Pairs
      <3>1. Account(likes[x], Present(x), Cardinality(Announcing(x)), Cardinality(Hoping(x)), wishes)
        BY <1>b
      <3>2. CASE x = y
        <4>1. likes'[x] \in [inserted : Nat, removed : Nat, emitted : Nat, lost : Nat]
          BY <2>3, <3>1, <3>2 DEF Account
        <4>2. /\ likes'[x].inserted = likes[x].inserted /\ likes'[x].removed = likes[x].removed
              /\ likes'[x].emitted = likes[x].emitted + 1
              /\ likes'[x].lost = likes[x].lost
          BY <2>3, <3>1, <3>2 DEF Account
        <4> QED
          BY <2>1, <2>w, <2>4, <2>5, <3>1, <3>2, <4>1, <4>2 DEF Account
      <3>3. CASE x # y
        BY <2>1, <2>w, <2>3, <2>4, <2>5, <3>1, <3>3 DEF Account
      <3> QED
        BY <3>2, <3>3
    <2>8. wish' \in [WishSlots -> Wish]
      BY <1>a, <1>d, <2>1
    <2> QED
      BY <1>a, <2>1, <2>3, <2>7, <2>8, FavoritesFrom
  <1>7. ASSUME NEW s \in WishSlots, FailWish(s), wish[s].pc = "emit" PROVE FavoritesInv'
    <2> DEFINE y == wish[s].pair
    <2>1. /\ wishes' = wishes /\ favorite' = favorite /\ ViewsInv'
          /\ wish' = [wish EXCEPT ![s] = NoWish] /\ y \in Pairs
          /\ likes' = [likes EXCEPT ![y] = [likes[y] EXCEPT !.lost = likes[y].lost + 1]]
      BY <1>7, <1>a, <1>c, ViewsUnchanged DEF FailWish, Wishing, Over, Pair
    <2>3. /\ DOMAIN likes' = Pairs /\ likes' = [x \in DOMAIN likes' |-> likes'[x]]
          /\ \A x \in Pairs : x # y => likes'[x] = likes[x]
          /\ likes'[y] = [likes[y] EXCEPT !.lost = likes[y].lost + 1]
      BY <1>a, <2>1
    <2>w. \A x \in Pairs :
            /\ Cardinality(Announcing(x)') =
                 Cardinality(Announcing(x)) - Announces(wish[s], x) + Announces(NoWish, x)
            /\ Cardinality(Hoping(x)') =
                 Cardinality(Hoping(x)) - Hopes(wish[s], x) + Hopes(NoWish, x)
      BY <1>a, <1>d, <2>1, SizesAfter
    <2>4. \A x \in Pairs :
            /\ Announces(wish[s], x) = (IF x = y THEN 1 ELSE 0) /\ Announces(NoWish, x) = 0
            /\ Hopes(wish[s], x) = 0 /\ Hopes(NoWish, x) = 0
            /\ Present(x)' = Present(x)
      BY <1>7, <1>d, <2>1 DEF Announces, Hopes, Present
    <2>5. \A x \in Pairs : Cardinality(Announcing(x)') \in Nat
      BY SlotSetsAfter
    <2>7. \A x \in Pairs :
            Account(likes'[x], Present(x)', Cardinality(Announcing(x)'), Cardinality(Hoping(x)'),
                    wishes')
      <3> TAKE x \in Pairs
      <3>1. Account(likes[x], Present(x), Cardinality(Announcing(x)), Cardinality(Hoping(x)), wishes)
        BY <1>b
      <3>2. CASE x = y
        <4>1. likes'[x] \in [inserted : Nat, removed : Nat, emitted : Nat, lost : Nat]
          BY <2>3, <3>1, <3>2 DEF Account
        <4>2. /\ likes'[x].inserted = likes[x].inserted /\ likes'[x].removed = likes[x].removed
              /\ likes'[x].emitted = likes[x].emitted
              /\ likes'[x].lost = likes[x].lost + 1
          BY <2>3, <3>1, <3>2 DEF Account
        <4> QED
          BY <2>1, <2>w, <2>4, <2>5, <3>1, <3>2, <4>1, <4>2 DEF Account
      <3>3. CASE x # y
        BY <2>1, <2>w, <2>3, <2>4, <2>5, <3>1, <3>3 DEF Account
      <3> QED
        BY <3>2, <3>3
    <2>8. wish' \in [WishSlots -> Wish]
      BY <1>a, <1>d, <2>1
    <2> QED
      BY <1>a, <2>1, <2>3, <2>7, <2>8, FavoritesFrom
  <1>8. ASSUME NEW s \in WishSlots, FailWish(s), wish[s].pc # "emit" PROVE FavoritesInv'
    <2>1. /\ wishes' = wishes /\ favorite' = favorite /\ likes' = likes /\ ViewsInv'
          /\ wish' = [wish EXCEPT ![s] = NoWish]
      BY <1>8, <1>a, ViewsUnchanged DEF FailWish, Wishing, Over
    <2>2. \A x \in Pairs :
            /\ Cardinality(Announcing(x)') =
                 Cardinality(Announcing(x)) - Announces(wish[s], x) + Announces(NoWish, x)
            /\ Cardinality(Hoping(x)') =
                 Cardinality(Hoping(x)) - Hopes(wish[s], x) + Hopes(NoWish, x)
      BY <1>a, <1>d, <2>1, SizesAfter
    <2>3. \A x \in Pairs :
            /\ Announces(wish[s], x) = 0 /\ Announces(NoWish, x) = 0
            /\ Hopes(wish[s], x) \in {0, 1} /\ Hopes(NoWish, x) = 0
            /\ Present(x)' = Present(x)
      BY <1>8, <1>d, <2>1 DEF Announces, Hopes, Present
    <2>4. \A x \in Pairs : Cardinality(Hoping(x)') \in Nat
      BY SlotSetsAfter
    <2>7. \A x \in Pairs :
            Account(likes'[x], Present(x)', Cardinality(Announcing(x)'), Cardinality(Hoping(x)'),
                    wishes')
      <3> TAKE x \in Pairs
      <3>1. Account(likes[x], Present(x), Cardinality(Announcing(x)), Cardinality(Hoping(x)), wishes)
        BY <1>b
      <3>2. /\ Cardinality(Announcing(x)') = Cardinality(Announcing(x))
            /\ Cardinality(Hoping(x)') <= Cardinality(Hoping(x))
            /\ Cardinality(Hoping(x)') \in Nat
        BY <2>2, <2>3, <2>4, <3>1 DEF Account
      <3> QED
        BY <1>a, <2>1, <2>3, <3>1, <3>2 DEF Account
    <2>8. wish' \in [WishSlots -> Wish]
      BY <1>a, <1>d, <2>1
    <2> QED
      BY <1>a, <2>1, <2>7, <2>8, FavoritesFrom
  <1>9. ASSUME NEW u \in Fans, NEW p \in Wares, RemoveFavorite(u, p) PROVE FavoritesInv'
    <2> DEFINE y == <<u, p>>
    <2>1. /\ wishes' = wishes + 1 /\ wishes' \in Small /\ favorite' = favorite \ {y}
          /\ y \in favorite /\ y \in Pairs /\ ViewsInv' /\ wish' = wish
          /\ likes' = [likes EXCEPT ![y] = [likes[y] EXCEPT !.removed = likes[y].removed + 1]]
      BY <1>9, <1>a, <1>e, ViewsUnchanged DEF RemoveFavorite, Pairs
    <2> HIDE DEF y
    <2>3. /\ DOMAIN likes' = Pairs /\ likes' = [x \in DOMAIN likes' |-> likes'[x]]
          /\ \A x \in Pairs : x # y => likes'[x] = likes[x]
          /\ likes'[y] = [likes[y] EXCEPT !.removed = likes[y].removed + 1]
      BY <1>a, <2>1
    <2>4. \A x \in Pairs :
            /\ Announcing(x)' = Announcing(x) /\ Hoping(x)' = Hoping(x)
            /\ Present(x)' = (IF x = y THEN 0 ELSE Present(x))
            /\ x = y => Present(x) = 1
      BY <2>1 DEF Announcing, Hoping, Wishing, Pair, Present
    <2>7. \A x \in Pairs :
            Account(likes'[x], Present(x)', Cardinality(Announcing(x)'), Cardinality(Hoping(x)'),
                    wishes')
      <3> TAKE x \in Pairs
      <3>1. Account(likes[x], Present(x), Cardinality(Announcing(x)), Cardinality(Hoping(x)), wishes)
        BY <1>b
      <3>2. CASE x = y
        <4>1. likes'[x] \in [inserted : Nat, removed : Nat, emitted : Nat, lost : Nat]
          BY <2>3, <3>1, <3>2 DEF Account
        <4>2. /\ likes'[x].inserted = likes[x].inserted /\ likes'[x].removed = likes[x].removed + 1
              /\ likes'[x].emitted = likes[x].emitted /\ likes'[x].lost = likes[x].lost
          BY <2>3, <3>1, <3>2 DEF Account
        <4> QED
          BY <1>a, <2>1, <2>4, <3>1, <3>2, <4>1, <4>2 DEF Account
      <3>3. CASE x # y
        BY <1>a, <2>1, <2>3, <2>4, <3>1, <3>3 DEF Account
      <3> QED
        BY <3>2, <3>3
    <2> QED
      BY <1>a, <2>1, <2>3, <2>7, FavoritesFrom
  <1>10. CASE UNCHANGED favVars
    <2>1. /\ wishes' = wishes /\ favorite' = favorite /\ wish' = wish /\ likes' = likes /\ ViewsInv'
      BY <1>10, <1>a, ViewsUnchanged DEF favVars
    <2>2. \A x \in Pairs : /\ Announcing(x)' = Announcing(x) /\ Hoping(x)' = Hoping(x)
                           /\ Present(x)' = Present(x)
      BY <2>1 DEF Announcing, Hoping, Wishing, Pair, Present
    <2>7. \A x \in Pairs :
            Account(likes'[x], Present(x)', Cardinality(Announcing(x)'), Cardinality(Hoping(x)'),
                    wishes')
      BY <1>b, <2>1, <2>2
    <2> QED
      BY <1>a, <2>1, <2>7, FavoritesFrom
  <1>11. ASSUME NEW s \in WishSlots,
                \/ \E u \in Fans, p \in Wares : AddFavorite(s, u, p)
                \/ exist(s) \/ CreateFavorite(s) \/ EmitLiked(s) \/ FailWish(s)
         PROVE  FavoritesInv'
    <2>1. EmitLiked(s) => wish[s].pc = "emit"
      BY DEF EmitLiked, Wishing
    <2> QED
      BY <1>3, <1>4, <1>5, <1>6, <1>7, <1>8, <1>11, <2>1
  <1> QED
    BY <1>1, <1>2, <1>9, <1>10, <1>11 DEF FavNext

\* A favourite is announced once for each time it was inserted, and a view
\* counted once for each time a product was read, however many requests overlap
\* (addFavorite, removeFavorite, findById, incrementViewCount).
THEOREM FavoritesAddUp ==
  ASSUME IsFiniteSet(WishSlots)
  PROVE  FavSpec => [](FavoritesTypeOK /\ CountsAddUp)
  <1>1. FavInit => FavoritesInv
    BY FavoritesStart
  <1>2. FavoritesInv /\ [FavNext]_favVars => FavoritesInv'
    BY FavoritesStep
  <1>3. FavoritesInv => FavoritesTypeOK /\ CountsAddUp
    BY DEF FavoritesInv
  <1> QED
    BY <1>1, <1>2, <1>3, PTL DEF FavSpec

-----------------------------------------------------------------------------
(***************************************************************************)
(* Receipts                                                                *)
(***************************************************************************)
\* An id is used once, and what is read was marked.
LettersSound ==
  /\ \A m \in Letters : letter[m] # NoLetter =>
       /\ sentTo[m] = letter[m].to
       /\ letter[m].read <=> m \in everRead
  /\ \A m \in everRead : sentTo[m] \in Readers

\* A mark looks at messages to its user only, and has written, or has still to
\* look at, those it began with that are there.
MarkSound(s) ==
  Marking(s) =>
    /\ \A m \in mark[s].ahead \cup mark[s].began : sentTo[m] = mark[s].user
    /\ \A m \in mark[s].began : m \in mark[s].ahead \/ letter[m] = NoLetter \/ m \in everRead

CoveredSound ==
  \A m \in covered : sentTo[m] \in Readers /\ (letter[m] = NoLetter \/ m \in everRead)

ReadBy(u) == {m \in everRead : sentTo[m] = u}

CountsSound ==
  \A u \in Readers :
    /\ IsFiniteSet(Written(u)) /\ IsFiniteSet(ReadBy(u))
    /\ told[u] + Cardinality(Written(u)) = Cardinality(ReadBy(u))

ReceiptsInv ==
  /\ ReceiptsTypeOK /\ LettersSound
  /\ \A s \in MarkSlots : MarkSound(s)
  /\ CoveredSound /\ CountsSound

LEMMA ReceiptsAreSound == ReceiptsInv => ReceiptsSound
  <1> SUFFICES ASSUME ReceiptsInv PROVE ReceiptsSound
    OBVIOUS
  <1>1. ReadsCountedOnce
    BY DEF ReceiptsInv, CountsSound, ReadsCountedOnce, InHand, ReadBy
  <1>2. MarkedStaysRead
    BY DEF ReceiptsInv, CoveredSound, LettersSound, MarkedStaysRead, ReceiptsTypeOK
  <1> QED
    BY <1>1, <1>2 DEF ReceiptsSound

LEMMA ReceiptValues ==
  /\ NoLetter \notin Letter /\ NoLetter \notin Readers
  /\ NoMark.pc # "marking" /\ NoMark \notin Mark
  BY ReceiptsAssumption DEF Letter, NoMark, Mark

LEMMA MarkFields ==
  ASSUME ReceiptsTypeOK, NEW s \in MarkSlots
  PROVE  /\ Marking(s) => /\ mark[s] \in Mark /\ mark[s].user \in Readers
                          /\ mark[s].ahead \subseteq Letters /\ mark[s].began \subseteq Letters
                          /\ mark[s].modifiedCount \in Nat
         /\ ~Marking(s) => mark[s] = NoMark
  BY ReceiptValues DEF ReceiptsTypeOK, Marking, Mark

LEMMA LetterFields ==
  ASSUME ReceiptsTypeOK, NEW m \in Letters, letter[m] # NoLetter
  PROVE  /\ letter[m] \in Letter /\ letter[m].to \in Readers /\ letter[m].read \in BOOLEAN
         /\ letter[m] = [to |-> letter[m].to, read |-> letter[m].read]
  BY DEF ReceiptsTypeOK, Letter

LEMMA UnreadIs ==
  ASSUME ReceiptsInv, NEW u \in Readers, NEW m \in Letters
  PROVE  m \in UnreadBy(u) <=> (letter[m] # NoLetter /\ sentTo[m] = u /\ m \notin everRead)
  <1>1. m \in UnreadBy(u) <=> letter[m] = [to |-> u, read |-> FALSE]
    BY DEF UnreadBy
  <1>2. CASE letter[m] = NoLetter
    <2>1. [to |-> u, read |-> FALSE] \in Letter
      BY DEF Letter
    <2> QED
      BY <1>1, <1>2, <2>1, ReceiptValues
  <1>3. CASE letter[m] # NoLetter
    <2>1. /\ letter[m].read \in BOOLEAN /\ letter[m] = [to |-> letter[m].to, read |-> letter[m].read]
          /\ sentTo[m] = letter[m].to /\ (letter[m].read <=> m \in everRead)
      BY <1>3, LetterFields DEF ReceiptsInv, LettersSound
    <2>2. letter[m] = [to |-> u, read |-> FALSE] <=> (letter[m].to = u /\ ~letter[m].read)
      <3>1. ASSUME letter[m] = [to |-> u, read |-> FALSE] PROVE letter[m].to = u /\ ~letter[m].read
        BY <3>1
      <3>2. ASSUME letter[m].to = u, ~letter[m].read PROVE letter[m] = [to |-> u, read |-> FALSE]
        <4>1. letter[m].read = FALSE
          BY <2>1, <3>2
        <4> QED
          BY <2>1, <3>2, <4>1
      <3> QED
        BY <3>1, <3>2
    <2> QED
      BY <1>1, <1>3, <2>1, <2>2
  <1> QED
    BY <1>2, <1>3

\* The pairs that one mark stands for.
InMark(k, s, u, x) ==
  k.pc = "marking" /\ k.user = u /\ \E n \in 1..k.modifiedCount : x = <<s, n>>

LEMMA WrittenIs ==
  /\ \A u, x : x \in Written(u) <=> \E s \in MarkSlots : InMark(mark[s], s, u, x)
  /\ \A u, x : x \in Written(u)' <=> \E s \in MarkSlots : InMark(mark'[s], s, u, x)
  BY DEF Written, MarksOf, Marking, InMark

\* A slot that changes in a way that has nothing to do with a user or his count.
LEMMA SameWritten ==
  ASSUME \A s \in MarkSlots :
           \/ mark'[s] = mark[s]
           \/ /\ mark[s].pc = "marking" /\ mark'[s].pc = "marking" /\ mark'[s].user = mark[s].user
              /\ mark'[s].modifiedCount = mark[s].modifiedCount
           \/ mark[s].pc # "marking" /\ (mark'[s].pc # "marking" \/ mark'[s].modifiedCount = 0)
  PROVE  \A u : Written(u)' = Written(u)
  <1> SUFFICES ASSUME NEW u, NEW x PROVE x \in Written(u)' <=> x \in Written(u)
    OBVIOUS
  <1>1. \A s \in MarkSlots : InMark(mark'[s], s, u, x) <=> InMark(mark[s], s, u, x)
    <2>1. 1..0 = {}
      OBVIOUS
    <2> QED
      BY <2>1 DEF InMark
  <1> QED
    BY <1>1, WrittenIs

LEMMA ReceiptsStart == ReceiptsInit => ReceiptsInv
  <1> SUFFICES ASSUME ReceiptsInit PROVE ReceiptsInv
    OBVIOUS
  <1> USE ReceiptsAssumption
  <1>1. ReceiptsTypeOK
    BY DEF ReceiptsInit, ReceiptsTypeOK
  <1>2. LettersSound /\ CoveredSound /\ \A s \in MarkSlots : MarkSound(s)
    BY ReceiptValues DEF ReceiptsInit, LettersSound, CoveredSound, MarkSound, Marking
  <1>3. \A u : Written(u) = {} /\ ReadBy(u) = {}
    BY WrittenIs, ReceiptValues DEF ReceiptsInit, ReadBy, InMark
  <1>4. IsFiniteSet({}) /\ Cardinality({}) = 0
    BY FS_EmptySet
  <1>5. CountsSound
    <2>1. \A u \in Readers : told[u] = 0
      BY DEF ReceiptsInit
    <2>2. \A u : /\ IsFiniteSet(Written(u)) /\ IsFiniteSet(ReadBy(u))
                 /\ Cardinality(Written(u)) = 0 /\ Cardinality(ReadBy(u)) = 0
      BY <1>3, <1>4
    <2> QED
      BY <2>1, <2>2 DEF CountsSound
  <1> QED
    BY <1>1, <1>2, <1>5 DEF ReceiptsInv

\* A new message is nobody's business but its receiver's.
LEMMA SendKeeps ==
  ASSUME ReceiptsInv, NEW m \in Letters, NEW u \in Readers, SendLetter(m, u)
  PROVE  ReceiptsInv'
  <1> DEFINE new == [to |-> u, read |-> FALSE]
  <1>1. /\ sentTo[m] = NoLetter /\ letter' = [letter EXCEPT ![m] = new]
        /\ sentTo' = [sentTo EXCEPT ![m] = u]
        /\ UNCHANGED <<mark, marks, everRead, covered, told>>
    BY DEF SendLetter
  <1>2. new \in Letter /\ new.to = u /\ ~new.read /\ new # NoLetter
    <2>1. new \in Letter
      BY DEF Letter
    <2> QED
      BY <2>1, ReceiptValues
  <1> HIDE DEF new
  <1>3. m \notin everRead /\ m \notin covered
    BY <1>1, ReceiptValues DEF ReceiptsInv, LettersSound, CoveredSound
  <1>4. \A s \in MarkSlots : Marking(s) => m \notin mark[s].ahead \cup mark[s].began
    BY <1>1, MarkFields, ReceiptValues DEF ReceiptsInv, MarkSound
  <1>5. ReceiptsTypeOK'
    BY <1>1, <1>2 DEF ReceiptsInv, ReceiptsTypeOK
  <1>6. /\ letter'[m] = new /\ sentTo'[m] = u
        /\ \A x \in Letters : x # m => letter'[x] = letter[x] /\ sentTo'[x] = sentTo[x]
    BY <1>1 DEF ReceiptsInv, ReceiptsTypeOK
  <1>7. everRead \subseteq Letters /\ covered \subseteq Letters
    BY DEF ReceiptsInv, ReceiptsTypeOK
  <1>8. LettersSound'
    BY <1>1, <1>2, <1>3, <1>6, <1>7 DEF ReceiptsInv, LettersSound
  <1>9. CoveredSound'
    BY <1>1, <1>3, <1>6, <1>7 DEF ReceiptsInv, CoveredSound
  <1>10. ASSUME NEW s \in MarkSlots PROVE MarkSound(s)'
    <2>1. MarkSound(s)' = (mark[s].pc = "marking" =>
            /\ \A x \in mark[s].ahead \cup mark[s].began : sentTo'[x] = mark[s].user
            /\ \A x \in mark[s].began : x \in mark[s].ahead \/ letter'[x] = NoLetter \/ x \in everRead)
      BY <1>1 DEF MarkSound, Marking
    <2> QED
      BY <1>4, <1>6, <2>1, MarkFields DEF ReceiptsInv, MarkSound, Marking
  <1>11. CountsSound'
    <2>1. \A v : Written(v)' = Written(v)
      BY <1>1, SameWritten
    <2>2. \A v : ReadBy(v)' = ReadBy(v)
      BY <1>1, <1>3, <1>6, <1>7 DEF ReadBy
    <2> QED
      BY <1>1, <2>1, <2>2 DEF ReceiptsInv, CountsSound
  <1> QED
    BY <1>5, <1>8, <1>9, <1>10, <1>11 DEF ReceiptsInv

LEMMA DeleteKeeps ==
  ASSUME ReceiptsInv, NEW m \in Letters, DeleteLetter(m)
  PROVE  ReceiptsInv'
  <1>1. /\ letter' = [letter EXCEPT ![m] = NoLetter]
        /\ UNCHANGED <<mark, marks, sentTo, everRead, covered, told>>
    BY DEF DeleteLetter
  <1>2. ReceiptsTypeOK'
    BY <1>1 DEF ReceiptsInv, ReceiptsTypeOK
  <1>3. \A x \in Letters : letter'[x] = NoLetter \/ letter'[x] = letter[x]
    BY <1>1 DEF ReceiptsInv, ReceiptsTypeOK
  <1>4. LettersSound' /\ CoveredSound'
    BY <1>1, <1>3 DEF ReceiptsInv, ReceiptsTypeOK, LettersSound, CoveredSound
  <1>5. ASSUME NEW s \in MarkSlots PROVE MarkSound(s)'
    <2>1. MarkSound(s)' = (mark[s].pc = "marking" =>
            /\ \A x \in mark[s].ahead \cup mark[s].began : sentTo[x] = mark[s].user
            /\ \A x \in mark[s].began : x \in mark[s].ahead \/ letter'[x] = NoLetter \/ x \in everRead)
      BY <1>1 DEF MarkSound, Marking
    <2> QED
      BY <1>3, <2>1, MarkFields DEF ReceiptsInv, MarkSound, Marking
  <1>6. CountsSound'
    <2>1. \A v : Written(v)' = Written(v) /\ ReadBy(v)' = ReadBy(v)
      BY <1>1, SameWritten DEF ReadBy
    <2> QED
      BY <1>1, <2>1 DEF ReceiptsInv, CountsSound
  <1> QED
    BY <1>2, <1>4, <1>5, <1>6 DEF ReceiptsInv

\* One mark changes; nobody is told and nothing is read.
LEMMA MarkOnlyKeeps ==
  ASSUME ReceiptsInv, NEW s \in MarkSlots, NEW k \in Mark \cup {NoMark}, mark' = [mark EXCEPT ![s] = k],
         UNCHANGED <<letter, sentTo, everRead, covered, told>>, marks' \in 0..MaxMarks,
         k.pc = "marking",
         \A m \in k.ahead \cup k.began : sentTo[m] = k.user,
         \A m \in k.began : m \in k.ahead \/ letter[m] = NoLetter \/ m \in everRead,
         \/ mark[s].pc # "marking" /\ k.modifiedCount = 0
         \/ /\ mark[s].pc = "marking" /\ k.user = mark[s].user
            /\ k.modifiedCount = mark[s].modifiedCount
  PROVE  ReceiptsInv'
  <1>1. mark'[s] = k /\ \A t \in MarkSlots : t # s => mark'[t] = mark[t]
    BY DEF ReceiptsInv, ReceiptsTypeOK
  <1>2. ReceiptsTypeOK'
    BY DEF ReceiptsInv, ReceiptsTypeOK
  <1>3. LettersSound' /\ CoveredSound'
    BY DEF ReceiptsInv, LettersSound, CoveredSound
  <1>4. ASSUME NEW t \in MarkSlots PROVE MarkSound(t)'
    <2>1. MarkSound(t)' = (mark'[t].pc = "marking" =>
            /\ \A x \in mark'[t].ahead \cup mark'[t].began : sentTo[x] = mark'[t].user
            /\ \A x \in mark'[t].began :
                 x \in mark'[t].ahead \/ letter[x] = NoLetter \/ x \in everRead)
      BY DEF MarkSound, Marking
    <2>2. CASE t = s
      BY <1>1, <2>1, <2>2
    <2>3. CASE t # s
      BY <1>1, <2>1, <2>3 DEF ReceiptsInv, MarkSound, Marking
    <2> QED
      BY <2>2, <2>3
  <1>5. CountsSound'
    <2>1. \A v : Written(v)' = Written(v)
      BY <1>1, SameWritten
    <2>2. \A v : ReadBy(v)' = ReadBy(v)
      BY DEF ReadBy
    <2> QED
      BY <2>1, <2>2 DEF ReceiptsInv, CountsSound
  <1> QED
    BY <1>2, <1>3, <1>4, <1>5 DEF ReceiptsInv

LEMMA StartMarkKeeps ==
  ASSUME ReceiptsInv, NEW s \in MarkSlots, NEW u \in Readers, StartMark(s, u)
  PROVE  ReceiptsInv'
  <1> DEFINE k == [pc |-> "marking", user |-> u, ahead |-> UnreadBy(u), began |-> UnreadBy(u),
                   modifiedCount |-> 0]
  <1>1. /\ mark' = [mark EXCEPT ![s] = k] /\ mark[s] = NoMark
        /\ marks < MaxMarks /\ marks' = marks + 1
        /\ UNCHANGED <<letter, sentTo, everRead, covered, told>>
    BY DEF StartMark
  <1>2. UnreadBy(u) \subseteq Letters
    BY DEF UnreadBy
  <1>3. k \in Mark
    BY <1>2 DEF Mark
  <1>4. /\ k.pc = "marking" /\ k.user = u /\ k.ahead = UnreadBy(u) /\ k.began = UnreadBy(u)
        /\ k.modifiedCount = 0
    OBVIOUS
  <1> HIDE DEF k
  <1>5. \A m \in UnreadBy(u) : sentTo[m] = u
    BY <1>2, UnreadIs
  <1>6. marks' \in 0..MaxMarks
    BY <1>1, ReceiptsAssumption DEF ReceiptsInv, ReceiptsTypeOK
  <1>7. /\ \A m \in k.ahead \cup k.began : sentTo[m] = k.user
        /\ \A m \in k.began : m \in k.ahead
    BY <1>4, <1>5
  <1>8. mark[s].pc # "marking"
    BY <1>1, ReceiptValues
  <1> QED
    BY <1>1, <1>3, <1>4, <1>6, <1>7, <1>8, MarkOnlyKeeps

\* What one field of a mark does to it.
LEMMA MarkWith ==
  ASSUME NEW k \in Mark, NEW later \in SUBSET Letters
  PROVE  /\ [k EXCEPT !.ahead = later] \in Mark
         /\ [k EXCEPT !.ahead = later].pc = k.pc /\ [k EXCEPT !.ahead = later].user = k.user
         /\ [k EXCEPT !.ahead = later].ahead = later /\ [k EXCEPT !.ahead = later].began = k.began
         /\ [k EXCEPT !.ahead = later].modifiedCount = k.modifiedCount
  BY DEF Mark

LEMMA MarkCounting ==
  ASSUME NEW k \in Mark, NEW n \in Nat
  PROVE  /\ [k EXCEPT !.modifiedCount = n] \in Mark
         /\ [k EXCEPT !.modifiedCount = n].pc = k.pc
         /\ [k EXCEPT !.modifiedCount = n].user = k.user
         /\ [k EXCEPT !.modifiedCount = n].ahead = k.ahead
         /\ [k EXCEPT !.modifiedCount = n].began = k.began
         /\ [k EXCEPT !.modifiedCount = n].modifiedCount = n
  BY DEF Mark

LEMMA FindLaterKeeps ==
  ASSUME ReceiptsInv, NEW s \in MarkSlots, FindLater(s)
  PROVE  ReceiptsInv'
  <1>1. /\ mark[s] \in Mark /\ mark[s].user \in Readers /\ mark[s].ahead \subseteq Letters
        /\ mark[s].pc = "marking"
    BY MarkFields DEF FindLater, ReceiptsInv, Marking
  <1>2. PICK m \in UnreadBy(mark[s].user) :
          mark' = [mark EXCEPT ![s] = [mark[s] EXCEPT !.ahead = mark[s].ahead \cup {m}]]
    BY DEF FindLater
  <1>3. m \in Letters
    BY DEF UnreadBy
  <1>4. sentTo[m] = mark[s].user
    BY <1>1, <1>3, UnreadIs
  <1>5. PICK later \in SUBSET Letters : later = mark[s].ahead \cup {m}
    BY <1>1, <1>3
  <1>6. PICK k \in Mark : k = [mark[s] EXCEPT !.ahead = later]
    BY <1>1, MarkWith
  <1>7. /\ k.pc = "marking" /\ k.user = mark[s].user /\ k.ahead = later /\ k.began = mark[s].began
        /\ k.modifiedCount = mark[s].modifiedCount
    BY <1>1, <1>6, MarkWith
  <1>8. /\ mark' = [mark EXCEPT ![s] = k]
        /\ UNCHANGED <<letter, sentTo, everRead, covered, told>> /\ marks' \in 0..MaxMarks
    BY <1>2, <1>5, <1>6 DEF FindLater, ReceiptsInv, ReceiptsTypeOK
  <1>9. /\ \A x \in k.ahead \cup k.began : sentTo[x] = k.user
        /\ \A x \in k.began : x \in k.ahead \/ letter[x] = NoLetter \/ x \in everRead
    BY <1>1, <1>4, <1>5, <1>7 DEF ReceiptsInv, MarkSound, Marking
  <1> QED
    BY <1>1, <1>7, <1>8, <1>9, MarkOnlyKeeps

\* A document that is found read by now is passed over.
LEMMA PassOverKeeps ==
  ASSUME ReceiptsInv, NEW s \in MarkSlots, Marking(s), NEW m \in mark[s].ahead,
         m \notin UnreadBy(mark[s].user),
         mark' = [mark EXCEPT ![s] = [mark[s] EXCEPT !.ahead = mark[s].ahead \ {m}]],
         UNCHANGED <<letter, marks, sentTo, everRead, covered, told>>
  PROVE  ReceiptsInv'
  <1>1. /\ mark[s] \in Mark /\ mark[s].user \in Readers /\ mark[s].ahead \subseteq Letters
        /\ mark[s].pc = "marking"
    BY MarkFields DEF ReceiptsInv, Marking
  <1>2. m \in Letters /\ sentTo[m] = mark[s].user
    BY <1>1 DEF ReceiptsInv, MarkSound
  <1>3. letter[m] = NoLetter \/ m \in everRead
    BY <1>1, <1>2, UnreadIs
  <1>5. PICK later \in SUBSET Letters : later = mark[s].ahead \ {m}
    BY <1>1
  <1>6. PICK k \in Mark : k = [mark[s] EXCEPT !.ahead = later]
    BY <1>1, MarkWith
  <1>7. /\ k.pc = "marking" /\ k.user = mark[s].user /\ k.ahead = later /\ k.began = mark[s].began
        /\ k.modifiedCount = mark[s].modifiedCount
    BY <1>1, <1>6, MarkWith
  <1>8. mark' = [mark EXCEPT ![s] = k] /\ marks' \in 0..MaxMarks
    BY <1>5, <1>6 DEF ReceiptsInv, ReceiptsTypeOK
  <1>9. /\ \A x \in k.ahead \cup k.began : sentTo[x] = k.user
        /\ \A x \in k.began : x \in k.ahead \/ letter[x] = NoLetter \/ x \in everRead
    BY <1>1, <1>3, <1>5, <1>7 DEF ReceiptsInv, MarkSound, Marking
  <1> QED
    BY <1>1, <1>7, <1>8, <1>9, MarkOnlyKeeps

\* A document that is written was not read before: the mark's count and the
\* messages read grow together.
LEMMA WriteKeeps ==
  ASSUME ReceiptsInv, NEW s \in MarkSlots, Marking(s), NEW m \in mark[s].ahead,
         m \in UnreadBy(mark[s].user),
         letter' = [letter EXCEPT ![m].read = TRUE], everRead' = everRead \cup {m},
         mark' = [mark EXCEPT ![s].ahead = @ \ {m}, ![s].modifiedCount = @ + 1],
         UNCHANGED <<marks, sentTo, covered, told>>
  PROVE  ReceiptsInv'
  <1>1. /\ mark[s] \in Mark /\ mark[s].user \in Readers /\ mark[s].ahead \subseteq Letters
        /\ mark[s].pc = "marking" /\ mark[s].modifiedCount \in Nat
        /\ mark \in [MarkSlots -> Mark \cup {NoMark}]
    BY MarkFields DEF ReceiptsInv, ReceiptsTypeOK, Marking
  <1>2. PICK u \in Readers, c \in Nat, later \in SUBSET Letters :
          /\ u = mark[s].user /\ c = mark[s].modifiedCount /\ later = mark[s].ahead \ {m}
    BY <1>1
  <1>3. PICK j \in Mark : j = [mark[s] EXCEPT !.ahead = later]
    BY <1>1, MarkWith
  <1>4. PICK k \in Mark : k = [j EXCEPT !.modifiedCount = c + 1]
    <2>1. c + 1 \in Nat
      BY <1>2
    <2> QED
      BY <1>3, <2>1, MarkCounting
  <1>5. /\ k.pc = "marking" /\ k.user = u /\ k.ahead = later /\ k.began = mark[s].began
        /\ k.modifiedCount = c + 1
    <2>1. /\ j.pc = "marking" /\ j.user = u /\ j.ahead = later /\ j.began = mark[s].began
      BY <1>1, <1>2, <1>3, MarkWith
    <2> QED
      BY <1>2, <1>4, <2>1, MarkCounting
  <1>6. mark' = [mark EXCEPT ![s] = k]
    <2>1. mark' = [[mark EXCEPT ![s] = [mark[s] EXCEPT !.ahead = mark[s].ahead \ {m}]]
                    EXCEPT ![s] = [[mark[s] EXCEPT !.ahead = mark[s].ahead \ {m}]
                                    EXCEPT !.modifiedCount = c + 1]]
      BY <1>1, <1>2, <1>3, MarkWith
    <2> QED
      BY <1>1, <1>2, <1>3, <1>4, <2>1
  <1>7. mark'[s] = k /\ \A t \in MarkSlots : t # s => mark'[t] = mark[t]
    BY <1>1, <1>6
  <1>8. m \in Letters /\ letter[m] # NoLetter /\ sentTo[m] = u /\ m \notin everRead
    BY <1>1, <1>2, UnreadIs
  <1>9. /\ letter[m] \in Letter /\ letter \in [Letters -> Letter \cup {NoLetter}]
    BY <1>8, LetterFields DEF ReceiptsInv, ReceiptsTypeOK
  <1>10. PICK new \in Letter : new = [letter[m] EXCEPT !.read = TRUE]
    BY <1>9 DEF Letter
  <1>11. new.to = letter[m].to /\ new.read /\ new # NoLetter
    BY <1>9, <1>10, ReceiptValues DEF Letter
  <1>12. letter'[m] = new /\ \A x \in Letters : x # m => letter'[x] = letter[x]
    BY <1>8, <1>9, <1>10
  <1>13. ReceiptsTypeOK'
    <2>1. letter' \in [Letters -> Letter \cup {NoLetter}]
      BY <1>8, <1>9, <1>10
    <2>2. mark' \in [MarkSlots -> Mark \cup {NoMark}]
      BY <1>1, <1>6
    <2> QED
      BY <1>8, <2>1, <2>2 DEF ReceiptsInv, ReceiptsTypeOK
  <1>14. LettersSound'
    <2>1. ASSUME NEW x \in Letters, letter'[x] # NoLetter
          PROVE  sentTo'[x] = letter'[x].to /\ (letter'[x].read <=> x \in everRead')
      <3>1. CASE x = m
        BY <1>8, <1>11, <1>12, <3>1 DEF ReceiptsInv, LettersSound
      <3>2. CASE x # m
        BY <1>12, <2>1, <3>2 DEF ReceiptsInv, LettersSound
      <3> QED
        BY <3>1, <3>2
    <2>2. \A x \in everRead' : sentTo'[x] \in Readers
      BY <1>8 DEF ReceiptsInv, LettersSound
    <2> QED
      BY <2>1, <2>2 DEF LettersSound
  <1>15. CoveredSound'
    BY <1>8, <1>12 DEF ReceiptsInv, CoveredSound, ReceiptsTypeOK
  <1>16. ASSUME NEW t \in MarkSlots PROVE MarkSound(t)'
    <2>1. MarkSound(t)' = (mark'[t].pc = "marking" =>
            /\ \A x \in mark'[t].ahead \cup mark'[t].began : sentTo[x] = mark'[t].user
            /\ \A x \in mark'[t].began :
                 x \in mark'[t].ahead \/ letter'[x] = NoLetter \/ x \in everRead')
      BY DEF MarkSound, Marking
    <2>2. CASE t = s
      <3>1. /\ \A x \in mark[s].ahead \cup mark[s].began : sentTo[x] = u
            /\ \A x \in mark[s].began :
                 x \in mark[s].ahead \/ letter[x] = NoLetter \/ x \in everRead
            /\ mark[s].began \subseteq Letters
        BY <1>2, MarkFields DEF ReceiptsInv, MarkSound
      <3> QED
        BY <1>2, <1>5, <1>7, <1>12, <2>1, <2>2, <3>1
    <2>3. CASE t # s
      <3>1. mark[t].pc = "marking" =>
            /\ \A x \in mark[t].ahead \cup mark[t].began : sentTo[x] = mark[t].user
            /\ \A x \in mark[t].began :
                 x \in mark[t].ahead \/ letter[x] = NoLetter \/ x \in everRead
            /\ mark[t].began \subseteq Letters
        BY MarkFields DEF ReceiptsInv, MarkSound, Marking
      <3> QED
        BY <1>7, <1>12, <2>1, <2>3, <3>1
    <2> QED
      BY <2>2, <2>3
  <1>17. CountsSound'
    <2> SUFFICES ASSUME NEW v \in Readers
                 PROVE  /\ IsFiniteSet(Written(v)') /\ IsFiniteSet(ReadBy(v)')
                        /\ told'[v] + Cardinality(Written(v)') = Cardinality(ReadBy(v)')
      BY DEF CountsSound
    <2>1. /\ IsFiniteSet(Written(v)) /\ IsFiniteSet(ReadBy(v))
          /\ told[v] + Cardinality(Written(v)) = Cardinality(ReadBy(v))
          /\ told[v] \in Nat /\ told' = told
      BY DEF ReceiptsInv, CountsSound, ReceiptsTypeOK
    <2>2. CASE v = u
      <3>1. ReadBy(v)' = ReadBy(v) \cup {m} /\ m \notin ReadBy(v)
        BY <1>8, <2>2 DEF ReadBy
      <3>2. Written(v)' = Written(v) \cup {<<s, c + 1>>} /\ <<s, c + 1>> \notin Written(v)
        <4>1. 1..(c + 1) = (1..c) \cup {c + 1} /\ c + 1 \notin 1..c
          BY <1>2
        <4>2. ASSUME NEW x PROVE x \in Written(v)' <=> x \in Written(v) \cup {<<s, c + 1>>}
          <5>1. InMark(mark'[s], s, v, x) <=> InMark(mark[s], s, v, x) \/ x = <<s, c + 1>>
            BY <1>1, <1>2, <1>5, <1>7, <2>2, <4>1 DEF InMark
          <5>2. \A t \in MarkSlots \ {s} : InMark(mark'[t], t, v, x) <=> InMark(mark[t], t, v, x)
            BY <1>7
          <5> QED
            BY <5>1, <5>2, WrittenIs
        <4>3. <<s, c + 1>> \notin Written(v)
          <5>1. ASSUME NEW t \in MarkSlots, InMark(mark[t], t, v, <<s, c + 1>>) PROVE FALSE
            <6>1. t = s /\ c + 1 \in 1..mark[t].modifiedCount
              BY <5>1 DEF InMark
            <6> QED
              BY <1>2, <4>1, <6>1
          <5> QED
            BY <5>1, WrittenIs
        <4> QED
          BY <4>2, <4>3
      <3>3. /\ IsFiniteSet(Written(v)') /\ Cardinality(Written(v)') = Cardinality(Written(v)) + 1
            /\ IsFiniteSet(ReadBy(v)') /\ Cardinality(ReadBy(v)') = Cardinality(ReadBy(v)) + 1
            /\ Cardinality(Written(v)) \in Nat /\ Cardinality(ReadBy(v)) \in Nat
        <4>1. /\ IsFiniteSet(Written(v)') /\ Cardinality(Written(v)') = Cardinality(Written(v)) + 1
              /\ Cardinality(Written(v)) \in Nat
          BY <2>1, <3>2, FS_AddElement, FS_CardinalityType
        <4>2. /\ IsFiniteSet(ReadBy(v)') /\ Cardinality(ReadBy(v)') = Cardinality(ReadBy(v)) + 1
              /\ Cardinality(ReadBy(v)) \in Nat
          BY <2>1, <3>1, FS_AddElement, FS_CardinalityType
        <4> QED
          BY <4>1, <4>2
      <3> QED
        BY <2>1, <3>3
    <2>3. CASE v # u
      <3>1. ReadBy(v)' = ReadBy(v)
        BY <1>8, <2>3 DEF ReadBy
      <3>2. Written(v)' = Written(v)
        <4>1. ASSUME NEW x, NEW t \in MarkSlots
              PROVE  InMark(mark'[t], t, v, x) <=> InMark(mark[t], t, v, x)
          <5>1. CASE t = s
            BY <1>2, <1>5, <1>7, <2>3, <5>1 DEF InMark
          <5>2. CASE t # s
            BY <1>7, <5>2
          <5> QED
            BY <5>1, <5>2
        <4>2. ASSUME NEW x PROVE x \in Written(v)' <=> x \in Written(v)
          BY <4>1, WrittenIs
        <4> QED
          BY <4>2
      <3> QED
        BY <2>1, <3>1, <3>2
    <2> QED
      BY <2>2, <2>3
  <1> QED
    BY <1>13, <1>14, <1>15, <1>16, <1>17 DEF ReceiptsInv

\* A mark that ends, answered or not: its count passes from what is in hand to
\* what was told.
LEMMA EndKeeps ==
  ASSUME ReceiptsInv, NEW s \in MarkSlots, AnswerMark(s) \/ FailMark(s)
  PROVE  ReceiptsInv'
  <1>1. /\ mark[s] \in Mark /\ mark[s].user \in Readers /\ mark[s].pc = "marking"
        /\ mark[s].modifiedCount \in Nat /\ mark[s].began \subseteq Letters
        /\ mark \in [MarkSlots -> Mark \cup {NoMark}] /\ told \in [Readers -> Nat]
    BY MarkFields DEF ReceiptsInv, ReceiptsTypeOK, AnswerMark, FailMark, Marking
  <1>2. PICK u \in Readers, c \in Nat : u = mark[s].user /\ c = mark[s].modifiedCount
    BY <1>1
  <1>3. /\ mark' = [mark EXCEPT ![s] = NoMark] /\ told' = [told EXCEPT ![u] = told[u] + c]
        /\ UNCHANGED <<letter, marks, sentTo, everRead>>
    BY <1>2 DEF AnswerMark, FailMark, Told
  <1>4. /\ mark'[s] = NoMark /\ \A t \in MarkSlots : t # s => mark'[t] = mark[t]
        /\ told'[u] = told[u] + c /\ \A v \in Readers : v # u => told'[v] = told[v]
    BY <1>1, <1>2, <1>3
  <1>5. covered' \subseteq covered \cup mark[s].began /\ covered \subseteq Letters
    BY DEF AnswerMark, FailMark, ReceiptsInv, ReceiptsTypeOK
  <1>6. \A m \in covered' \ covered : sentTo[m] \in Readers /\ (letter[m] = NoLetter \/ m \in everRead)
    <2>1. CASE AnswerMark(s)
      <3>1. mark[s].ahead = {} /\ \A m \in mark[s].began :
              sentTo[m] = u /\ (letter[m] = NoLetter \/ m \in everRead)
        BY <1>2, <2>1 DEF AnswerMark, ReceiptsInv, MarkSound
      <3> QED
        BY <1>2, <1>5, <3>1
    <2>2. CASE FailMark(s)
      BY <2>2 DEF FailMark
    <2> QED
      BY <2>1, <2>2
  <1>7. ReceiptsTypeOK'
    <2>1. told' \in [Readers -> Nat]
      BY <1>1, <1>2, <1>3
    <2>2. mark' \in [MarkSlots -> Mark \cup {NoMark}]
      BY <1>1, <1>3
    <2> QED
      BY <1>1, <1>3, <1>5, <2>1, <2>2 DEF ReceiptsInv, ReceiptsTypeOK
  <1>8. LettersSound'
    BY <1>3 DEF ReceiptsInv, LettersSound
  <1>9. CoveredSound'
    BY <1>3, <1>6 DEF ReceiptsInv, CoveredSound
  <1>10. ASSUME NEW t \in MarkSlots PROVE MarkSound(t)'
    <2>1. MarkSound(t)' = (mark'[t].pc = "marking" =>
            /\ \A x \in mark'[t].ahead \cup mark'[t].began : sentTo[x] = mark'[t].user
            /\ \A x \in mark'[t].began :
                 x \in mark'[t].ahead \/ letter[x] = NoLetter \/ x \in everRead)
      BY <1>3 DEF MarkSound, Marking
    <2>2. CASE t = s
      BY <1>4, <2>1, <2>2, ReceiptValues
    <2>3. CASE t # s
      BY <1>4, <2>1, <2>3 DEF ReceiptsInv, MarkSound, Marking
    <2> QED
      BY <2>2, <2>3
  <1>11. CountsSound'
    <2> SUFFICES ASSUME NEW v \in Readers
                 PROVE  /\ IsFiniteSet(Written(v)') /\ IsFiniteSet(ReadBy(v)')
                        /\ told'[v] + Cardinality(Written(v)') = Cardinality(ReadBy(v)')
      BY DEF CountsSound
    <2>1. /\ IsFiniteSet(Written(v)) /\ IsFiniteSet(ReadBy(v))
          /\ told[v] + Cardinality(Written(v)) = Cardinality(ReadBy(v))
          /\ told[v] \in Nat
      BY DEF ReceiptsInv, CountsSound, ReceiptsTypeOK
    <2>2. ReadBy(v)' = ReadBy(v)
      BY <1>3 DEF ReadBy
    <2> DEFINE own == {s} \X (1..c)
    <2>3. Written(v)' = IF v = u THEN Written(v) \ own ELSE Written(v)
      <3>1. \A x : x \in own <=> \E n \in 1..c : x = <<s, n>>
        OBVIOUS
      <3> HIDE DEF own
      <3>2. ASSUME NEW x PROVE ~InMark(mark'[s], s, v, x)
        BY <1>4, ReceiptValues DEF InMark
      <3>3. ASSUME NEW x, NEW t \in MarkSlots, t # s
            PROVE  InMark(mark'[t], t, v, x) <=> InMark(mark[t], t, v, x)
        BY <1>4, <3>3
      <3>4. ASSUME NEW x PROVE InMark(mark[s], s, v, x) <=> v = u /\ x \in own
        BY <1>1, <1>2, <3>1 DEF InMark
      <3>5. ASSUME NEW x, NEW t \in MarkSlots, t # s, InMark(mark[t], t, v, x) PROVE x \notin own
        BY <3>1, <3>5 DEF InMark
      <3>6. ASSUME NEW x
            PROVE  x \in Written(v)' <=> x \in Written(v) /\ ~(v = u /\ x \in own)
        BY <3>2, <3>3, <3>4, <3>5, WrittenIs
      <3> QED
        BY <3>6
    <2>4. CASE v = u
      <3>1. own \subseteq Written(v)
        <4>1. ASSUME NEW n \in 1..c PROVE <<s, n>> \in Written(v)
          <5>1. InMark(mark[s], s, v, <<s, n>>)
            BY <1>1, <1>2, <2>4 DEF InMark
          <5> QED
            BY <5>1, WrittenIs
        <4> QED
          BY <4>1
      <3>2. IsFiniteSet(own) /\ Cardinality(own) = c
        <4>1. IsFiniteSet({s}) /\ Cardinality({s}) = 1
          BY FS_Singleton
        <4>2. IsFiniteSet(1..c) /\ Cardinality(1..c) = c
          <5>1. /\ IsFiniteSet(1..c)
                /\ Cardinality(1..c) = IF 1 > c THEN 0 ELSE c - 1 + 1
            <6>1. 1 \in Int /\ c \in Int
              BY <1>2
            <6> QED
              BY <6>1, FS_Interval, Zenon
          <5> QED
            BY <1>2, <5>1
        <4> HIDE DEF own
        <4>3. IsFiniteSet({s} \X (1..c)) /\ Cardinality({s} \X (1..c)) = 1 * c
          <5> DEFINE A == {s}
                     B == 1..c
          <5>1. IsFiniteSet(A) /\ IsFiniteSet(B) /\ Cardinality(A) = 1 /\ Cardinality(B) = c
            BY <4>1, <4>2
          <5> HIDE DEF A, B
          <5>2. IsFiniteSet(A \X B) /\ Cardinality(A \X B) = Cardinality(A) * Cardinality(B)
            BY <5>1, FS_Product
          <5> QED
            BY <5>1, <5>2 DEF A, B
        <4>4. 1 * c = c
          BY <1>2
        <4> QED
          BY <4>3, <4>4 DEF own
      <3> HIDE DEF own
      <3>3. Written(v) \cap own = own
        BY <3>1
      <3>4. /\ IsFiniteSet(Written(v) \ own)
            /\ Cardinality(Written(v) \ own) = Cardinality(Written(v)) - c
        <4>1. PICK W, O : W = Written(v) /\ O = own
          OBVIOUS
        <4>2. IsFiniteSet(W) /\ Cardinality(W \cap O) = c
          BY <2>1, <3>2, <3>3, <4>1
        <4>3. IsFiniteSet(W \ O) /\ Cardinality(W \ O) = Cardinality(W) - Cardinality(W \cap O)
          BY <4>2, FS_Difference
        <4> QED
          BY <4>1, <4>2, <4>3
      <3>5. Cardinality(Written(v)) \in Nat /\ Cardinality(ReadBy(v)) \in Nat
        BY <2>1, FS_CardinalityType
      <3> QED
        BY <1>2, <1>4, <2>1, <2>2, <2>3, <2>4, <3>4, <3>5
    <2>5. CASE v # u
      BY <1>4, <2>1, <2>2, <2>3, <2>5
    <2> QED
      BY <2>4, <2>5
  <1> QED
    BY <1>7, <1>8, <1>9, <1>10, <1>11 DEF ReceiptsInv

LEMMA ReceiptsStep == ReceiptsInv /\ [ReceiptsNext]_receiptVars => ReceiptsInv'
  <1> SUFFICES ASSUME ReceiptsInv, [ReceiptsNext]_receiptVars PROVE ReceiptsInv'
    OBVIOUS
  <1>1. ASSUME NEW s \in MarkSlots, MarkOne(s) PROVE ReceiptsInv'
    <2>1. Marking(s) /\ UNCHANGED <<marks, sentTo, covered, told>>
      BY <1>1 DEF MarkOne
    <2>2. PICK m \in mark[s].ahead :
            IF m \in UnreadBy(mark[s].user)
              THEN /\ letter' = [letter EXCEPT ![m].read = TRUE]
                   /\ everRead' = everRead \cup {m}
                   /\ mark' = [mark EXCEPT ![s].ahead = @ \ {m}, ![s].modifiedCount = @ + 1]
              ELSE /\ mark' = [mark EXCEPT ![s].ahead = @ \ {m}]
                   /\ UNCHANGED <<letter, everRead>>
      BY <1>1 DEF MarkOne
    <2>3. CASE m \in UnreadBy(mark[s].user)
      BY <2>1, <2>2, <2>3, WriteKeeps
    <2>4. CASE m \notin UnreadBy(mark[s].user)
      BY <2>1, <2>2, <2>4, PassOverKeeps
    <2> QED
      BY <2>3, <2>4
  <1>2. CASE UNCHANGED receiptVars
    <2>1. UNCHANGED <<letter, mark, marks, sentTo, everRead, covered, told>>
      BY <1>2 DEF receiptVars
    <2>2. \A v : Written(v)' = Written(v) /\ ReadBy(v)' = ReadBy(v)
      BY <2>1, SameWritten DEF ReadBy
    <2>3. CountsSound'
      BY <2>1, <2>2 DEF ReceiptsInv, CountsSound
    <2>4. \A t \in MarkSlots : MarkSound(t)'
      BY <2>1 DEF ReceiptsInv, MarkSound, Marking
    <2> QED
      BY <2>1, <2>3, <2>4 DEF ReceiptsInv, ReceiptsTypeOK, LettersSound, CoveredSound
  <1> QED
    BY <1>1, <1>2, SendKeeps, DeleteKeeps, StartMarkKeeps, FindLaterKeeps, EndKeeps DEF ReceiptsNext

LEMMA ReceiptsHold == ReceiptsSpec => []ReceiptsInv
  BY ReceiptsStart, ReceiptsStep, PTL DEF ReceiptsSpec

\* However marks overlap each other, the sending of messages and their removal:
\* no message is counted for two marks, and none that a mark was answered for
\* stays or becomes unread (markMessagesAsRead).
THEOREM ReceiptsCount == ReceiptsSpec => [](ReceiptsTypeOK /\ ReceiptsSound)
  <1>1. ReceiptsInv => ReceiptsTypeOK /\ ReceiptsSound
    BY ReceiptsAreSound DEF ReceiptsInv
  <1> QED
    BY <1>1, ReceiptsHold, PTL

-----------------------------------------------------------------------------
(***************************************************************************)
(* DirectChat                                                              *)
(***************************************************************************)
RoomSteps == {"insert", "touch", "readTexts", "readMark",
              "removeMember", "countMembers", "removeRoom"}
Opens(s, u, i) == At(s, "createRoom") /\ asked[s].user = u /\ asked[s].item = i

\* A request for a room is for one that was there when it came, and no mark is
\* ahead of the messages.
RowsKnown ==
  /\ \A s \in ChatSlots : asked[s].pc \in RoomSteps => asked[s].room \in DOMAIN dmRoom
  /\ \A r \in Kept(dmRoom) : \A u \in Joined(r) : dmRoom[r].lastRead[u] <= Len(dmText)

\* A request that is about to create a room of a buyer is the only one, and
\* there is none.
OpeningSound ==
  \A u \in Talkers, i \in Items :
    u # Vendor[i] /\ <<u, i>> \notin overlapped =>
      \A s \in ChatSlots : Opens(s, u, i) =>
        RoomsOf(u, i) = {} /\ \A t \in ChatSlots : Opens(t, u, i) => t = s

\* Between the two updates of a mark only what has slipped in is unread.
ReadingSound ==
  \A s \in ChatSlots : At(s, "readMark") => Unread(asked[s].room, asked[s].user) \subseteq slipped

\* Nobody comes back to a room that was found empty.
LeavingSound ==
  \A s \in ChatSlots : At(s, "removeRoom") => Joined(asked[s].room) = {}

DirectInv ==
  /\ DirectTypeOK /\ RowsKnown /\ OpeningSound /\ ReadingSound /\ LeavingSound
  /\ OneRoomUnlessOverlap /\ MarkCoversUnread
-----------------------------------------------------------------------------
LEMMA FunctionIsSeq ==
  ASSUME NEW S, NEW n \in Nat, NEW f \in [1..n -> S]
  PROVE  f \in Seq(S) /\ Len(f) = n
  OBVIOUS

LEMMA NoRowIsNone == NoRow \notin DmRoomRow /\ NoRow \notin DmTextRow
  BY DEF NoRow, DmRoomRow, DmTextRow

LEMMA AskedKinds ==
  ASSUME DirectTypeOK, NEW s \in ChatSlots
  PROVE  /\ asked[s] \in Asked
         /\ asked[s].pc = "createRoom" =>
              asked[s] \in [pc : {"createRoom"}, user : Talkers, item : Items]
         /\ asked[s].pc \in RoomSteps =>
              asked[s] \in [pc : RoomSteps, user : Talkers, room : DmRooms]
         /\ asked[s].pc \in {"none", "createRoom"} \cup RoomSteps
         /\ asked[s].pc = "none" => asked[s] = NothingAsked
  BY DEF DirectTypeOK, Asked, NothingAsked, RoomSteps

LEMMA RoomRows ==
  ASSUME DirectTypeOK
  PROVE  /\ Len(dmRoom) \in Nat /\ Len(dmRoom) <= MaxDmRooms /\ DOMAIN dmRoom = 1..Len(dmRoom)
         /\ DOMAIN dmRoom \subseteq DmRooms
         /\ dmRoom \in [1..Len(dmRoom) -> DmRoomRow \cup {NoRow}]
         /\ \A r \in Kept(dmRoom) : r \in DOMAIN dmRoom /\ dmRoom[r] \in DmRoomRow
  <1>1. dmRoom \in Seq(DmRoomRow \cup {NoRow}) /\ Len(dmRoom) <= MaxDmRooms
    BY DEF DirectTypeOK
  <1>2. /\ Len(dmRoom) \in Nat /\ DOMAIN dmRoom = 1..Len(dmRoom)
        /\ dmRoom \in [1..Len(dmRoom) -> DmRoomRow \cup {NoRow}]
    BY <1>1, LenProperties
  <1>3. DOMAIN dmRoom \subseteq DmRooms
    BY <1>1, <1>2, DirectChatAssumption DEF DmRooms
  <1> QED
    BY <1>1, <1>2, <1>3 DEF Kept

LEMMA TextRows ==
  ASSUME DirectTypeOK
  PROVE  /\ Len(dmText) \in Nat /\ Len(dmText) <= MaxDmTexts /\ DOMAIN dmText = 1..Len(dmText)
         /\ dmText \in [1..Len(dmText) -> DmTextRow \cup {NoRow}]
         /\ \A m \in Kept(dmText) : m \in DOMAIN dmText /\ dmText[m] \in DmTextRow
  <1>1. dmText \in Seq(DmTextRow \cup {NoRow}) /\ Len(dmText) <= MaxDmTexts
    BY DEF DirectTypeOK
  <1>2. /\ Len(dmText) \in Nat /\ DOMAIN dmText = 1..Len(dmText)
        /\ dmText \in [1..Len(dmText) -> DmTextRow \cup {NoRow}]
    BY <1>1, LenProperties
  <1> QED
    BY <1>1, <1>2 DEF Kept

LEMMA RoomRowFields ==
  ASSUME NEW row \in DmRoomRow
  PROVE  /\ row.item \in Items
         /\ row.lastRead \in [DOMAIN row.lastRead -> 0..MaxDmTexts]
         /\ DOMAIN row.lastRead \subseteq Talkers
  <1>1. row.item \in Items /\ row.lastRead \in UNION {[m -> 0..MaxDmTexts] : m \in SUBSET Talkers}
    BY DEF DmRoomRow
  <1>2. PICK m \in SUBSET Talkers : row.lastRead \in [m -> 0..MaxDmTexts]
    BY <1>1
  <1> QED
    BY <1>1, <1>2

LEMMA LastReads ==
  ASSUME NEW m \in SUBSET Talkers, NEW f \in [m -> 0..MaxDmTexts]
  PROVE  f \in UNION {[k -> 0..MaxDmTexts] : k \in SUBSET Talkers}
  OBVIOUS

LEMMA RowWithMarks ==
  ASSUME NEW row \in DmRoomRow, NEW m \in SUBSET Talkers, NEW f \in [m -> 0..MaxDmTexts]
  PROVE  /\ [row EXCEPT !.lastRead = f] \in DmRoomRow
         /\ [row EXCEPT !.lastRead = f].item = row.item
         /\ [row EXCEPT !.lastRead = f].lastRead = f
  <1>1. f \in UNION {[k -> 0..MaxDmTexts] : k \in SUBSET Talkers}
    BY LastReads
  <1> QED
    BY <1>1 DEF DmRoomRow

LEMMA JoinedTalk ==
  ASSUME DirectTypeOK, NEW r
  PROVE  Joined(r) \subseteq Talkers
  <1>1. CASE r \in Kept(dmRoom)
    BY <1>1, RoomRows, RoomRowFields DEF Joined
  <1>2. CASE r \notin Kept(dmRoom)
    BY <1>2 DEF Joined
  <1> QED
    BY <1>1, <1>2

\* A step that changes one request, the row and the number of requests aside.
LEMMA OneAsked ==
  ASSUME DirectTypeOK, NEW s \in ChatSlots, NEW a \in Asked, asked' = [asked EXCEPT ![s] = a]
  PROVE  /\ asked' \in [ChatSlots -> Asked] /\ asked'[s] = a
         /\ \A t \in ChatSlots : t # s => asked'[t] = asked[t]
  BY DEF DirectTypeOK

LEMMA NothingIsAsked == NothingAsked \in Asked /\ NothingAsked.pc = "none"
  BY DEF NothingAsked, Asked

LEMMA Next2Step ==
  ASSUME DirectTypeOK, NEW s \in ChatSlots, asked[s].pc \in RoomSteps, NEW pc \in RoomSteps,
         Then(s, pc)
  PROVE  /\ asked' = [asked EXCEPT ![s] = asked'[s]] /\ asked'[s] \in Asked
         /\ asked'[s].pc = pc /\ asked'[s].user = asked[s].user /\ asked'[s].room = asked[s].room
         /\ asked' \in [ChatSlots -> Asked]
         /\ \A t \in ChatSlots : t # s => asked'[t] = asked[t]
  <1>1. asked[s] \in [pc : RoomSteps, user : Talkers, room : DmRooms]
    BY AskedKinds
  <1>2. asked' = [asked EXCEPT ![s] = [asked[s] EXCEPT !.pc = pc]]
    BY DEF Then
  <1>3. asked \in [ChatSlots -> Asked]
    BY DEF DirectTypeOK
  <1>4. asked'[s] = [asked[s] EXCEPT !.pc = pc]
    BY <1>2, <1>3
  <1>5. /\ [asked[s] EXCEPT !.pc = pc] \in [pc : RoomSteps, user : Talkers, room : DmRooms]
        /\ [asked[s] EXCEPT !.pc = pc].pc = pc
        /\ [asked[s] EXCEPT !.pc = pc].user = asked[s].user
        /\ [asked[s] EXCEPT !.pc = pc].room = asked[s].room
    BY <1>1
  <1>6. asked'[s] \in Asked
    BY <1>4, <1>5 DEF Asked, RoomSteps
  <1> QED
    BY <1>2, <1>3, <1>4, <1>5, <1>6
-----------------------------------------------------------------------------
\* What the steps that open no room do to the rooms: members and rooms go, none
\* comes.
RoomsShrink ==
  /\ DOMAIN dmRoom' = DOMAIN dmRoom
  /\ \A r \in DOMAIN dmRoom : dmRoom'[r] # NoRow =>
       /\ dmRoom[r] # NoRow /\ dmRoom'[r].item = dmRoom[r].item
       /\ DOMAIN dmRoom'[r].lastRead \subseteq DOMAIN dmRoom[r].lastRead

LEMMA ShrinkKept ==
  ASSUME RoomsShrink
  PROVE  /\ Kept(dmRoom)' \subseteq Kept(dmRoom)
         /\ \A r : Joined(r)' \subseteq Joined(r)
         /\ \A u, i : RoomsOf(u, i)' \subseteq RoomsOf(u, i)
  <1>1. Kept(dmRoom)' = {x \in DOMAIN dmRoom' : dmRoom'[x] # NoRow}
    BY DEF Kept
  <1>2. Kept(dmRoom) = {x \in DOMAIN dmRoom : dmRoom[x] # NoRow}
    BY DEF Kept
  <1>3. Kept(dmRoom)' \subseteq Kept(dmRoom)
    BY <1>1, <1>2 DEF RoomsShrink
  <1>4. \A r : Joined(r)' = IF r \in Kept(dmRoom)' THEN DOMAIN dmRoom'[r].lastRead ELSE {}
    BY DEF Joined
  <1>5. \A r \in Kept(dmRoom)' :
          /\ dmRoom'[r].item = dmRoom[r].item
          /\ DOMAIN dmRoom'[r].lastRead \subseteq DOMAIN dmRoom[r].lastRead
    BY <1>1 DEF RoomsShrink
  <1>6. \A r : Joined(r)' \subseteq Joined(r)
    BY <1>3, <1>4, <1>5 DEF Joined
  <1>7. \A u, i : RoomsOf(u, i)' =
                    {r \in Kept(dmRoom)' : dmRoom'[r].item = i /\ u \in Joined(r)'}
    BY DEF RoomsOf
  <1>8. \A u, i : RoomsOf(u, i)' \subseteq RoomsOf(u, i)
    BY <1>3, <1>5, <1>6, <1>7 DEF RoomsOf
  <1> QED
    BY <1>3, <1>6, <1>8

\* Such a step keeps buyers apart, as long as no request to open one is new.
LEMMA ShrinkKeepsOpening ==
  ASSUME DirectInv, RoomsShrink, overlapped' = overlapped,
         \A t \in ChatSlots : asked'[t].pc = "createRoom" => asked'[t] = asked[t]
  PROVE  OpeningSound' /\ OneRoomUnlessOverlap'
  <1>1. \A u, i : RoomsOf(u, i)' \subseteq RoomsOf(u, i)
    BY ShrinkKept
  <1>2. OneRoomUnlessOverlap'
    BY <1>1 DEF DirectInv, OneRoomUnlessOverlap
  <1>3. \A t \in ChatSlots : \A u, i : Opens(t, u, i)' => Opens(t, u, i)
    BY DEF Opens, At
  <1>4. OpeningSound'
    BY <1>1, <1>3 DEF DirectInv, OpeningSound
  <1> QED
    BY <1>2, <1>4

\* And nobody joins the rooms that are about to be removed.
LEMMA ShrinkKeepsLeaving ==
  ASSUME DirectInv, RoomsShrink,
         \A t \in ChatSlots : asked'[t].pc = "removeRoom" =>
           asked'[t].room = asked[t].room /\ (asked[t].pc = "removeRoom" \/ Joined(asked[t].room) = {})
  PROVE  LeavingSound'
  <1>1. \A r : Joined(r)' \subseteq Joined(r)
    BY ShrinkKept
  <1> SUFFICES ASSUME NEW t \in ChatSlots, asked'[t].pc = "removeRoom",
                      NEW r, r = asked'[t].room
               PROVE  Joined(r)' = {}
    BY DEF LeavingSound, At, Joined, Kept
  <1>2. Joined(asked[t].room) = {} /\ asked'[t].room = asked[t].room
    BY DEF DirectInv, LeavingSound, At
  <1> QED
    BY <1>1, <1>2

\* What the steps that send no message do to the messages: they are marked as
\* read, or go.
TextsFade ==
  /\ DOMAIN dmText' = DOMAIN dmText
  /\ \A m \in DOMAIN dmText : dmText'[m] # NoRow =>
       /\ dmText[m] # NoRow /\ dmText'[m].room = dmText[m].room
       /\ dmText'[m].sender = dmText[m].sender
       /\ dmText[m].isRead => dmText'[m].isRead

LEMMA DirectUnreadIs ==
  /\ \A r, u : Unread(r, u) =
       {m \in DOMAIN dmText : /\ dmText[m] # NoRow /\ dmText[m].room = r
                             /\ dmText[m].sender # u /\ ~dmText[m].isRead}
  /\ \A r, u : Unread(r, u)' =
       {m \in DOMAIN dmText' : /\ dmText'[m] # NoRow /\ dmText'[m].room = r
                              /\ dmText'[m].sender # u /\ ~dmText'[m].isRead}
  BY DEF Unread, TextsOf, Kept

LEMMA FadeKept ==
  ASSUME TextsFade
  PROVE  \A r, u : Unread(r, u)' \subseteq Unread(r, u)
  BY DirectUnreadIs DEF TextsFade

LEMMA FadeKeepsReading ==
  ASSUME DirectInv, TextsFade, slipped' = slipped,
         \A t \in ChatSlots : asked'[t].pc = "readMark" =>
           /\ asked'[t].room = asked[t].room /\ asked'[t].user = asked[t].user
           /\ \/ asked[t].pc = "readMark"
              \/ \A r, u : r = asked[t].room /\ u = asked[t].user => Unread(r, u)' = {}
  PROVE  ReadingSound'
  <1>1. \A r, u : Unread(r, u)' \subseteq Unread(r, u)
    BY FadeKept
  <1> SUFFICES ASSUME NEW t \in ChatSlots, asked'[t].pc = "readMark",
                      NEW r, r = asked'[t].room, NEW u, u = asked'[t].user
               PROVE  Unread(r, u)' \subseteq slipped'
    BY DEF ReadingSound, At, Unread, TextsOf, Kept
  <1>2. CASE asked[t].pc = "readMark"
    <2>1. Unread(r, u) \subseteq slipped
      BY <1>2 DEF DirectInv, ReadingSound, At
    <2> QED
      BY <1>1, <2>1
  <1>3. CASE Unread(r, u)' = {}
    BY <1>3
  <1> QED
    BY <1>2, <1>3

\* No mark moves but to where everything unread has slipped in.
LEMMA FadeKeepsMarks ==
  ASSUME DirectInv, RoomsShrink, TextsFade, slipped' = slipped,
         \A r \in Kept(dmRoom)' : \A u \in Joined(r)' :
           \/ dmRoom'[r].lastRead[u] = dmRoom[r].lastRead[u]
           \/ Unread(r, u) \subseteq slipped
  PROVE  MarkCoversUnread'
  <1>1. \A r, u : Unread(r, u)' \subseteq Unread(r, u)
    BY FadeKept
  <1>2. Kept(dmRoom)' \subseteq Kept(dmRoom) /\ \A r : Joined(r)' \subseteq Joined(r)
    BY ShrinkKept
  <1> SUFFICES ASSUME NEW r \in Kept(dmRoom)', NEW u \in Joined(r)', NEW m \in Unread(r, u)',
                      m <= dmRoom'[r].lastRead[u]
               PROVE  m \in slipped'
    BY DEF MarkCoversUnread
  <1>3. r \in Kept(dmRoom) /\ u \in Joined(r) /\ m \in Unread(r, u)
    BY <1>1, <1>2
  <1>4. CASE dmRoom'[r].lastRead[u] = dmRoom[r].lastRead[u]
    BY <1>3, <1>4 DEF DirectInv, MarkCoversUnread
  <1>5. CASE Unread(r, u) \subseteq slipped
    BY <1>3, <1>5
  <1> QED
    BY <1>4, <1>5

\* What a step that opens no room and sends no message has to show.
LEMMA QuietKeeps ==
  ASSUME DirectInv, DirectTypeOK', RoomsShrink, TextsFade,
         slipped' = slipped, overlapped' = overlapped,
         \A r \in Kept(dmRoom)' : \A u \in Joined(r)' :
           \/ dmRoom'[r].lastRead[u] = dmRoom[r].lastRead[u]
           \/ dmRoom'[r].lastRead[u] = Len(dmText) /\ Unread(r, u) \subseteq slipped,
         \A t \in ChatSlots :
           /\ asked'[t].pc = "createRoom" => asked'[t] = asked[t]
           /\ asked'[t].pc \in RoomSteps => asked'[t].room \in DOMAIN dmRoom
           /\ asked'[t].pc = "readMark" =>
                /\ asked'[t].room = asked[t].room /\ asked'[t].user = asked[t].user
                /\ \/ asked[t].pc = "readMark"
                   \/ \A r, u : r = asked[t].room /\ u = asked[t].user => Unread(r, u)' = {}
           /\ asked'[t].pc = "removeRoom" =>
                /\ asked'[t].room = asked[t].room
                /\ asked[t].pc = "removeRoom" \/ Joined(asked[t].room) = {}
  PROVE  DirectInv'
  <1>1. OpeningSound' /\ OneRoomUnlessOverlap'
    BY ShrinkKeepsOpening
  <1>2. LeavingSound'
    BY ShrinkKeepsLeaving
  <1>3. ReadingSound'
    BY FadeKeepsReading
  <1>4. MarkCoversUnread'
    BY FadeKeepsMarks
  <1>5. RowsKnown'
    <2>1. Len(dmText') = Len(dmText) /\ Len(dmText) \in Nat
      <3>1. Len(dmText) \in Nat /\ DOMAIN dmText = 1..Len(dmText)
        BY TextRows DEF DirectInv
      <3>2. Len(dmText') \in Nat /\ DOMAIN dmText' = 1..Len(dmText')
        BY LenProperties DEF DirectTypeOK
      <3> QED
        BY <3>1, <3>2 DEF TextsFade
    <2>2. \A r \in Kept(dmRoom)' : \A u \in Joined(r)' : dmRoom'[r].lastRead[u] <= Len(dmText')
      <3> TAKE r \in Kept(dmRoom)'
      <3> TAKE u \in Joined(r)'
      <3>1. r \in Kept(dmRoom) /\ u \in Joined(r)
        BY ShrinkKept
      <3>2. dmRoom[r].lastRead[u] <= Len(dmText)
        BY <3>1 DEF DirectInv, RowsKnown
      <3> QED
        BY <2>1, <3>2
    <2>3. \A t \in ChatSlots : asked'[t].pc \in RoomSteps => asked'[t].room \in DOMAIN dmRoom'
      BY DEF RoomsShrink
    <2> QED
      BY <2>2, <2>3 DEF RowsKnown
  <1> QED
    BY <1>1, <1>2, <1>3, <1>4, <1>5 DEF DirectInv

\* Rooms and messages that rest.
LEMMA RestingRows ==
  ASSUME dmRoom' = dmRoom
  PROVE  /\ RoomsShrink /\ Kept(dmRoom)' = Kept(dmRoom)
         /\ \A r \in Kept(dmRoom)' : \A u \in Joined(r)' :
              dmRoom'[r].lastRead[u] = dmRoom[r].lastRead[u]
  BY DEF RoomsShrink, Kept

LEMMA RestingTexts == ASSUME dmText' = dmText PROVE TextsFade
  BY DEF TextsFade

\* Only one request changes, and neither a room, nor a message, nor the history
\* but `deserted`.
LEMMA RestKeeps ==
  ASSUME DirectInv, NEW s \in ChatSlots, NEW a \in Asked, asked' = [asked EXCEPT ![s] = a],
         UNCHANGED <<dmRoom, dmText, slipped, overlapped>>, withdrawn' \subseteq Items,
         dmAsks' \in 0..MaxDmAsks, deserted' \subseteq DmRooms,
         a.pc # "createRoom", a.pc \in RoomSteps => a.room \in DOMAIN dmRoom,
         a.pc # "readMark",
         a.pc = "removeRoom" => a.room = asked[s].room /\ Joined(asked[s].room) = {}
  PROVE  DirectInv'
  <1>1. /\ asked' \in [ChatSlots -> Asked] /\ asked'[s] = a
        /\ \A t \in ChatSlots : t # s => asked'[t] = asked[t]
    BY OneAsked DEF DirectInv
  <1>2. DirectTypeOK'
    BY <1>1 DEF DirectInv, DirectTypeOK
  <1>3. \A t \in ChatSlots : asked[t].pc \in RoomSteps => asked[t].room \in DOMAIN dmRoom
    BY DEF DirectInv, RowsKnown
  <1>4. \A t \in ChatSlots :
           /\ asked'[t].pc = "createRoom" => asked'[t] = asked[t]
           /\ asked'[t].pc \in RoomSteps => asked'[t].room \in DOMAIN dmRoom
           /\ asked'[t].pc = "readMark" =>
                /\ asked'[t].room = asked[t].room /\ asked'[t].user = asked[t].user
                /\ asked[t].pc = "readMark"
           /\ asked'[t].pc = "removeRoom" =>
                /\ asked'[t].room = asked[t].room
                /\ asked[t].pc = "removeRoom" \/ Joined(asked[t].room) = {}
    BY <1>1, <1>3
  <1> QED
    BY <1>2, <1>4, QuietKeeps, RestingRows, RestingTexts

-----------------------------------------------------------------------------
LEMMA DirectStart == DmInit => DirectInv
  <1> SUFFICES ASSUME DmInit PROVE DirectInv
    OBVIOUS
  <1> USE DirectChatAssumption
  <1>1. DirectTypeOK
    BY NothingIsAsked, EmptySeq DEF DmInit, DirectTypeOK
  <1>2. Kept(dmRoom) = {} /\ \A s \in ChatSlots : asked[s].pc = "none"
    BY NothingIsAsked DEF DmInit, Kept
  <1>3. \A u, i : RoomsOf(u, i) = {}
    BY <1>2 DEF RoomsOf
  <1> QED
    BY <1>1, <1>2, <1>3
       DEF DirectInv, RowsKnown, OpeningSound, ReadingSound, LeavingSound, Opens, At,
           OneRoomUnlessOverlap, MarkCoversUnread, RoomSteps

LEMMA EnterKeeps ==
  ASSUME DirectInv, NEW s \in ChatSlots, NEW u \in Talkers, NEW r \in DOMAIN dmRoom,
         NEW pc \in {"insert", "readTexts", "removeMember"}, Enter(s, u, r, pc)
  PROVE  DirectInv'
  <1> DEFINE a == [pc |-> pc, user |-> u, room |-> r]
  <1>1. r \in DmRooms
    BY RoomRows DEF DirectInv
  <1>2. a \in Asked /\ a.pc = pc /\ a.room = r
    BY <1>1 DEF Asked
  <1>3. /\ asked' = [asked EXCEPT ![s] = a] /\ dmAsks' = dmAsks + 1 /\ dmAsks < MaxDmAsks
        /\ UNCHANGED <<dmRoom, dmText, withdrawn, slipped, deserted, overlapped>>
    BY DEF Enter, Ask
  <1> HIDE DEF a
  <1>4. dmAsks' \in 0..MaxDmAsks /\ withdrawn' \subseteq Items /\ deserted' \subseteq DmRooms
    BY <1>3, DirectChatAssumption DEF DirectInv, DirectTypeOK
  <1> QED
    BY <1>2, <1>3, <1>4, RestKeeps

\* A request that is answered, or that dies.
LEMMA AnswerRests ==
  ASSUME DirectInv, NEW s \in ChatSlots, TouchDirect(s) \/ FailDirect(s)
  PROVE  DirectInv'
  <1>1. /\ asked' = [asked EXCEPT ![s] = NothingAsked] /\ dmAsks' = dmAsks
        /\ UNCHANGED <<dmRoom, dmText, withdrawn, slipped, overlapped>>
    BY DEF TouchDirect, FailDirect, Answer
  <1>2. deserted' \subseteq DmRooms
    <2>1. CASE TouchDirect(s)
      BY <2>1 DEF TouchDirect, DirectInv, DirectTypeOK
    <2>2. CASE FailDirect(s)
      <3>1. asked[s].room \in Kept(dmRoom) => asked[s].room \in DmRooms
        BY RoomRows DEF DirectInv
      <3> QED
        BY <2>2, <3>1 DEF FailDirect, DirectInv, DirectTypeOK
    <2> QED
      BY <2>1, <2>2
  <1>3. dmAsks' \in 0..MaxDmAsks /\ withdrawn' \subseteq Items
    BY <1>1 DEF DirectInv, DirectTypeOK
  <1>4. NothingAsked \in Asked /\ NothingAsked.pc = "none"
    BY NothingIsAsked
  <1>5. "none" \notin RoomSteps
    BY DEF RoomSteps
  <1> QED
    BY <1>1, <1>2, <1>3, <1>4, <1>5, RestKeeps

LEMMA CountKeeps ==
  ASSUME DirectInv, NEW s \in ChatSlots, CountMembers(s)
  PROVE  DirectInv'
  <1>1. /\ asked[s].pc = "countMembers" /\ asked[s].pc \in RoomSteps
        /\ UNCHANGED <<dmRoom, dmText, withdrawn, slipped, overlapped, deserted, dmAsks>>
    BY DEF CountMembers, At, RoomSteps, Then, Answer
  <1>2. /\ dmAsks' \in 0..MaxDmAsks /\ withdrawn' \subseteq Items /\ deserted' \subseteq DmRooms
    BY <1>1 DEF DirectInv, DirectTypeOK
  <1>3. CASE Joined(asked[s].room) = {}
    <2>1. Then(s, "removeRoom") /\ "removeRoom" \in RoomSteps
      BY <1>3 DEF CountMembers, RoomSteps
    <2>2. /\ asked' = [asked EXCEPT ![s] = asked'[s]] /\ asked'[s] \in Asked
          /\ asked'[s].pc = "removeRoom" /\ asked'[s].room = asked[s].room
      BY <1>1, <2>1, Next2Step DEF DirectInv
    <2>3. asked[s].room \in DOMAIN dmRoom
      BY <1>1 DEF DirectInv, RowsKnown
    <2> QED
      BY <1>1, <1>2, <1>3, <2>2, <2>3, RestKeeps
  <1>4. CASE Joined(asked[s].room) # {}
    <2>1. asked' = [asked EXCEPT ![s] = NothingAsked]
      BY <1>4 DEF CountMembers, Answer
    <2>2. "none" \notin RoomSteps
      BY DEF RoomSteps
    <2> QED
      BY <1>1, <1>2, <2>1, <2>2, NothingIsAsked, RestKeeps
  <1> QED
    BY <1>3, <1>4

\* A request for a room: there is none, and another one counts as overlapped.
LEMMA OpenKeeps ==
  ASSUME DirectInv, NEW s \in ChatSlots, NEW u \in Talkers, NEW i \in Items, OpenDirect(s, u, i)
  PROVE  DirectInv'
  <1> DEFINE a == [pc |-> "createRoom", user |-> u, item |-> i]
  <1>1. a \in Asked /\ a.pc = "createRoom" /\ a.user = u /\ a.item = i
    BY DEF Asked
  <1>2. /\ asked' = [asked EXCEPT ![s] = a] /\ dmAsks' = dmAsks + 1 /\ dmAsks < MaxDmAsks
        /\ UNCHANGED <<dmRoom, dmText, withdrawn, slipped, deserted>>
        /\ RoomsOf(u, i) = {} /\ asked[s].pc = "none"
    BY DEF OpenDirect, Ask, At
  <1>3. overlapped' = overlapped \cup {<<u, i>> : t \in {t \in ChatSlots : Opens(t, u, i)}}
    BY DEF OpenDirect, Opens
  <1> HIDE DEF a
  <1>4. /\ asked' \in [ChatSlots -> Asked] /\ asked'[s] = a
        /\ \A t \in ChatSlots : t # s => asked'[t] = asked[t]
    BY <1>1, <1>2, OneAsked DEF DirectInv
  <1>5. DirectTypeOK'
    <2>1. overlapped' \subseteq Talkers \X Items
      BY <1>3 DEF DirectInv, DirectTypeOK
    <2> QED
      BY <1>2, <1>4, <2>1, DirectChatAssumption DEF DirectInv, DirectTypeOK
  <1>6. RoomsShrink /\ TextsFade
    BY <1>2, RestingRows, RestingTexts
  <1>7. \A v, j : RoomsOf(v, j)' \subseteq RoomsOf(v, j)
    BY <1>6, ShrinkKept
  <1>8. OneRoomUnlessOverlap'
    BY <1>3, <1>7 DEF DirectInv, OneRoomUnlessOverlap
  <1>9. OpeningSound'
    <2> SUFFICES ASSUME NEW v \in Talkers, NEW j \in Items, v # Vendor[j],
                        <<v, j>> \notin overlapped', NEW t \in ChatSlots, Opens(t, v, j)'
                 PROVE  /\ RoomsOf(v, j)' = {}
                        /\ \A q \in ChatSlots : Opens(q, v, j)' => q = t
      BY DEF OpeningSound
    <2>1. \A q \in ChatSlots : Opens(q, v, j)' <=>
             (asked'[q].pc = "createRoom" /\ asked'[q].user = v /\ asked'[q].item = j)
      BY DEF Opens, At
    <2>2. \A q \in ChatSlots : q # s => (Opens(q, v, j)' <=> Opens(q, v, j))
      BY <1>4, <2>1 DEF Opens, At
    <2>3. CASE v = u /\ j = i
      <3>1. \A q \in ChatSlots : ~Opens(q, u, i)
        BY <1>3, <2>3
      <3> QED
        BY <1>2, <1>7, <2>2, <2>3, <3>1
    <2>4. CASE ~(v = u /\ j = i)
      <3>1. ~Opens(s, v, j)'
        BY <1>1, <1>4, <2>1, <2>4
      <3>2. <<v, j>> \notin overlapped /\ Opens(t, v, j)
        BY <1>3, <2>2, <3>1
      <3> QED
        BY <1>7, <2>2, <3>1, <3>2 DEF DirectInv, OpeningSound
    <2> QED
      BY <2>3, <2>4
  <1>10. \A t \in ChatSlots : t # s => asked'[t] = asked[t]
    BY <1>4
  <1>11. ReadingSound'
    BY <1>1, <1>2, <1>4, <1>6, FadeKeepsReading
  <1>12. LeavingSound'
    BY <1>1, <1>4, <1>6, ShrinkKeepsLeaving
  <1>13. MarkCoversUnread'
    BY <1>2, <1>6, RestingRows, FadeKeepsMarks
  <1>14. RowsKnown'
    <2>1. "createRoom" \notin RoomSteps
      BY DEF RoomSteps
    <2>2. \A t \in ChatSlots : asked'[t].pc \in RoomSteps => asked'[t].room \in DOMAIN dmRoom
      BY <1>1, <1>4, <2>1 DEF DirectInv, RowsKnown
    <2>3. \A r \in Kept(dmRoom)' : \A w \in Joined(r)' : dmRoom'[r].lastRead[w] <= Len(dmText')
      BY <1>2, <1>6, ShrinkKept DEF DirectInv, RowsKnown
    <2> QED
      BY <1>2, <2>2, <2>3 DEF RowsKnown
  <1> QED
    BY <1>5, <1>8, <1>9, <1>11, <1>12, <1>13, <1>14 DEF DirectInv

\* The new room is the only one of its buyer.
LEMMA CreateKeeps ==
  ASSUME DirectInv, NEW s \in ChatSlots, CreateDirect(s)
  PROVE  DirectInv'
  <1> USE DirectChatAssumption
  <1>1. PICK u0 \in Talkers, i0 \in Items : u0 = asked[s].user /\ i0 = asked[s].item
    BY AskedKinds DEF CreateDirect, At, DirectInv
  <1> DEFINE owners == {u0, Vendor[i0]}
             row == [item |-> i0, lastRead |-> [m \in owners |-> 0]]
             n == Len(dmRoom) + 1
  <1>2. /\ dmRoom' = Append(dmRoom, row) /\ Len(dmRoom) < MaxDmRooms
        /\ asked' = [asked EXCEPT ![s] = NothingAsked] /\ dmAsks' = dmAsks
        /\ UNCHANGED <<dmText, withdrawn, overlapped, slipped, deserted>>
        /\ Opens(s, u0, i0)
    BY <1>1 DEF CreateDirect, Answer, Opens
  <1>3. /\ row \in DmRoomRow /\ row.item = i0 /\ row.lastRead = [m \in owners |-> 0]
        /\ row # NoRow
    <2>1. [m \in owners |-> 0] \in [owners -> 0..MaxDmTexts] /\ owners \in SUBSET Talkers
      OBVIOUS
    <2>2. [m \in owners |-> 0] \in UNION {[k -> 0..MaxDmTexts] : k \in SUBSET Talkers}
      BY <2>1, LastReads
    <2>3. row \in DmRoomRow
      BY <2>2 DEF DmRoomRow
    <2> QED
      BY <2>3, NoRowIsNone
  <1> HIDE DEF row
  <1>4. /\ Len(dmRoom) \in Nat /\ DOMAIN dmRoom = 1..Len(dmRoom)
        /\ dmRoom \in Seq(DmRoomRow \cup {NoRow})
    BY RoomRows DEF DirectInv, DirectTypeOK
  <1>5. /\ dmRoom' \in Seq(DmRoomRow \cup {NoRow}) /\ Len(dmRoom') = n
        /\ \A r \in 1..Len(dmRoom) : dmRoom'[r] = dmRoom[r]
        /\ dmRoom'[n] = row
    BY <1>2, <1>3, <1>4, AppendProperties
  <1>6. DOMAIN dmRoom' = 1..n
    BY <1>5, LenProperties
  <1>7. /\ asked' \in [ChatSlots -> Asked] /\ asked'[s] = NothingAsked
        /\ \A t \in ChatSlots : t # s => asked'[t] = asked[t]
    BY <1>2, NothingIsAsked, OneAsked DEF DirectInv
  <1>8. DirectTypeOK'
    BY <1>2, <1>4, <1>5, <1>7 DEF DirectInv, DirectTypeOK
  <1>9. Kept(dmRoom)' = Kept(dmRoom) \cup {n} /\ n \notin Kept(dmRoom)
    <2>1. Kept(dmRoom)' = {x \in DOMAIN dmRoom' : dmRoom'[x] # NoRow}
      BY DEF Kept
    <2> QED
      BY <1>3, <1>4, <1>5, <1>6, <2>1 DEF Kept
  <1>10. \A r : Joined(r)' = IF r = n THEN owners ELSE Joined(r)
    <2>1. \A r : Joined(r)' = IF r \in Kept(dmRoom)' THEN DOMAIN dmRoom'[r].lastRead ELSE {}
      BY DEF Joined
    <2>2. \A r \in Kept(dmRoom) : dmRoom'[r] = dmRoom[r]
      BY <1>4, <1>5 DEF Kept
    <2>3. DOMAIN dmRoom'[n].lastRead = owners
      BY <1>3, <1>5
    <2> QED
      BY <1>9, <2>1, <2>2, <2>3 DEF Joined
  <1>11. \A v, j : RoomsOf(v, j)' =
           RoomsOf(v, j) \cup (IF j = i0 /\ v \in owners THEN {n} ELSE {})
    <2>1. \A v, j : RoomsOf(v, j)' =
                      {r \in Kept(dmRoom)' : dmRoom'[r].item = j /\ v \in Joined(r)'}
      BY DEF RoomsOf
    <2>2. \A r \in Kept(dmRoom) : dmRoom'[r] = dmRoom[r] /\ r # n
      BY <1>4, <1>5, <1>9 DEF Kept
    <2>3. dmRoom'[n].item = i0
      BY <1>3, <1>5
    <2> QED
      BY <1>9, <1>10, <2>1, <2>2, <2>3 DEF RoomsOf
  <1> HIDE DEF n
  <1>12. OneRoomUnlessOverlap'
    <2> SUFFICES ASSUME NEW v \in Talkers, NEW j \in Items, v # Vendor[j],
                        <<v, j>> \notin overlapped'
                 PROVE  \A r, q \in RoomsOf(v, j)' : r = q
      BY DEF OneRoomUnlessOverlap
    <2>1. CASE v = u0 /\ j = i0
      <3>1. RoomsOf(v, j) = {}
        BY <1>2, <2>1 DEF DirectInv, OpeningSound
      <3> QED
        BY <1>11, <3>1
    <2>2. CASE ~(v = u0 /\ j = i0)
      <3>1. RoomsOf(v, j)' = RoomsOf(v, j)
        BY <1>11, <2>2
      <3> QED
        BY <1>2, <3>1 DEF DirectInv, OneRoomUnlessOverlap
    <2> QED
      BY <2>1, <2>2
  <1>13. OpeningSound'
    <2> SUFFICES ASSUME NEW v \in Talkers, NEW j \in Items, v # Vendor[j],
                        <<v, j>> \notin overlapped', NEW t \in ChatSlots, Opens(t, v, j)'
                 PROVE  /\ RoomsOf(v, j)' = {}
                        /\ \A q \in ChatSlots : Opens(q, v, j)' => q = t
      BY DEF OpeningSound
    <2>1. \A q \in ChatSlots : Opens(q, v, j)' => q # s /\ Opens(q, v, j)
      <3>1. \A q \in ChatSlots : Opens(q, v, j)' <=>
               (asked'[q].pc = "createRoom" /\ asked'[q].user = v /\ asked'[q].item = j)
        BY DEF Opens, At
      <3> QED
        BY <1>7, <3>1, NothingIsAsked DEF Opens, At
    <2>2. /\ RoomsOf(v, j) = {} /\ \A q \in ChatSlots : Opens(q, v, j) => q = t
      BY <1>2, <2>1 DEF DirectInv, OpeningSound
    <2>3. ~(v = u0 /\ j = i0)
      BY <1>2, <2>1, <2>2
    <2>4. RoomsOf(v, j)' = {}
      BY <1>11, <2>2, <2>3
    <2> QED
      BY <2>1, <2>2, <2>4
  <1>14. LeavingSound'
    <2> SUFFICES ASSUME NEW t \in ChatSlots, asked'[t].pc = "removeRoom",
                        NEW r, r = asked'[t].room
                 PROVE  Joined(r)' = {}
      BY DEF LeavingSound, At, Joined, Kept
    <2>1. t # s /\ asked'[t] = asked[t]
      BY <1>7, NothingIsAsked
    <2>2. Joined(r) = {} /\ r \in DOMAIN dmRoom
      BY <2>1 DEF DirectInv, LeavingSound, RowsKnown, RoomSteps, At
    <2>3. r # n
      BY <1>4, <2>2 DEF n
    <2> QED
      BY <1>10, <2>2, <2>3
  <1>15. ReadingSound'
    BY <1>2, <1>7, NothingIsAsked, RestingTexts, FadeKeepsReading
  <1>16. \A r, u : Unread(r, u)' = Unread(r, u)
    BY <1>2, DirectUnreadIs
  <1>17. \A r \in Kept(dmRoom)' : \A u \in Joined(r)' :
            \/ r = n /\ dmRoom'[r].lastRead[u] = 0
            \/ r \in Kept(dmRoom) /\ u \in Joined(r) /\ dmRoom'[r] = dmRoom[r]
    <2> SUFFICES ASSUME NEW r \in Kept(dmRoom)', NEW u \in Joined(r)'
                 PROVE  \/ r = n /\ dmRoom'[r].lastRead[u] = 0
                        \/ r \in Kept(dmRoom) /\ u \in Joined(r) /\ dmRoom'[r] = dmRoom[r]
      OBVIOUS
    <2>1. CASE r = n
      <3>1. u \in owners /\ dmRoom'[r] = row
        BY <1>5, <1>10, <2>1
      <3> QED
        BY <1>3, <2>1, <3>1
    <2>2. CASE r # n
      <3>1. r \in Kept(dmRoom) /\ u \in Joined(r)
        BY <1>9, <1>10, <2>2
      <3>2. r \in 1..Len(dmRoom)
        BY <1>4, <3>1 DEF Kept
      <3> QED
        BY <1>5, <3>1, <3>2
    <2> QED
      BY <2>1, <2>2
  <1>18. Len(dmText') = Len(dmText) /\ Len(dmText) \in Nat /\ DOMAIN dmText = 1..Len(dmText)
    BY <1>2, TextRows DEF DirectInv
  <1>19. MarkCoversUnread'
    <2> SUFFICES ASSUME NEW r \in Kept(dmRoom)', NEW u \in Joined(r)', NEW m \in Unread(r, u)',
                        m <= dmRoom'[r].lastRead[u]
                 PROVE  m \in slipped'
      BY DEF MarkCoversUnread
    <2>1. m \in Unread(r, u) /\ m \in 1..Len(dmText)
      BY <1>16, <1>18, DirectUnreadIs
    <2>2. r \in Kept(dmRoom) /\ u \in Joined(r) /\ dmRoom'[r] = dmRoom[r]
      BY <1>17, <2>1
    <2> QED
      BY <1>2, <2>1, <2>2 DEF DirectInv, MarkCoversUnread
  <1>20. RowsKnown'
    <2>1. "none" \notin RoomSteps
      BY DEF RoomSteps
    <2>2. \A t \in ChatSlots : asked'[t].pc \in RoomSteps => asked'[t].room \in DOMAIN dmRoom
      BY <1>7, <2>1, NothingIsAsked DEF DirectInv, RowsKnown
    <2>3. DOMAIN dmRoom \subseteq DOMAIN dmRoom'
      BY <1>4, <1>6 DEF n
    <2>4. \A r \in Kept(dmRoom)' : \A u \in Joined(r)' : dmRoom'[r].lastRead[u] <= Len(dmText')
      BY <1>17, <1>18 DEF DirectInv, RowsKnown
    <2> QED
      BY <2>2, <2>3, <2>4 DEF RowsKnown
  <1> QED
    BY <1>8, <1>12, <1>13, <1>14, <1>15, <1>19, <1>20 DEF DirectInv

\* A new message is unread and later than every mark; it has slipped in where a
\* mark is half-way.
LEMMA InsertKeeps ==
  ASSUME DirectInv, NEW s \in ChatSlots, InsertDirect(s)
  PROVE  DirectInv'
  <1> USE DirectChatAssumption
  <1>0. asked[s].pc = "insert" /\ asked[s].pc \in RoomSteps
    BY DEF InsertDirect, At, RoomSteps
  <1>1. PICK r0 \in DmRooms, u0 \in Talkers : r0 = asked[s].room /\ u0 = asked[s].user
    BY <1>0, AskedKinds DEF DirectInv
  <1> DEFINE row == [room |-> r0, sender |-> u0, isRead |-> FALSE]
             n == Len(dmText) + 1
  <1>2. /\ dmText' = Append(dmText, row) /\ Len(dmText) < MaxDmTexts
        /\ UNCHANGED <<dmRoom, withdrawn, overlapped, deserted, dmAsks>>
        /\ slipped' = IF \E t \in ChatSlots : Working(t, "readMark", r0) /\ asked[t].user # u0
                        THEN slipped \cup {n} ELSE slipped
        /\ Then(s, "touch") /\ "touch" \in RoomSteps
    BY <1>1 DEF InsertDirect, Then, RoomSteps
  <1>3. /\ asked'[s].pc = "touch" /\ asked'[s].room = r0
        /\ asked' \in [ChatSlots -> Asked]
        /\ \A t \in ChatSlots : t # s => asked'[t] = asked[t]
    BY <1>0, <1>1, <1>2, Next2Step DEF DirectInv
  <1>4. row \in DmTextRow /\ row # NoRow /\ row.room = r0 /\ row.sender = u0 /\ ~row.isRead
    <2>1. row \in DmTextRow
      BY DEF DmTextRow
    <2> QED
      BY <2>1, NoRowIsNone
  <1> HIDE DEF row
  <1>5. /\ Len(dmText) \in Nat /\ DOMAIN dmText = 1..Len(dmText)
        /\ dmText \in Seq(DmTextRow \cup {NoRow})
    BY TextRows DEF DirectInv, DirectTypeOK
  <1>6. /\ dmText' \in Seq(DmTextRow \cup {NoRow}) /\ Len(dmText') = n
        /\ \A m \in 1..Len(dmText) : dmText'[m] = dmText[m]
        /\ dmText'[n] = row
    BY <1>2, <1>4, <1>5, AppendProperties
  <1>7. DOMAIN dmText' = 1..n
    BY <1>6, LenProperties
  <1>8. slipped' \subseteq DmTexts /\ slipped \subseteq slipped'
    <2>1. n \in DmTexts /\ slipped \subseteq DmTexts
      BY <1>2, <1>5 DEF DirectInv, DirectTypeOK, DmTexts
    <2>2. slipped' = slipped \/ slipped' = slipped \cup {n}
      BY <1>2
    <2> QED
      BY <2>1, <2>2
  <1>9. DirectTypeOK'
    BY <1>2, <1>3, <1>5, <1>6, <1>8 DEF DirectInv, DirectTypeOK
  <1>10. \A r, u : Unread(r, u)' =
            Unread(r, u) \cup (IF r = r0 /\ u # u0 THEN {n} ELSE {})
    BY <1>4, <1>5, <1>6, <1>7, DirectUnreadIs
  <1>11. \A r, u : Unread(r, u) \subseteq 1..Len(dmText)
    BY <1>5, DirectUnreadIs
  <1>12. RoomsShrink
    BY <1>2, RestingRows
  <1>13. OpeningSound' /\ OneRoomUnlessOverlap'
    BY <1>2, <1>3, <1>12, ShrinkKeepsOpening
  <1>14. LeavingSound'
    BY <1>3, <1>12, ShrinkKeepsLeaving
  <1>15. ReadingSound'
    <2> SUFFICES ASSUME NEW t \in ChatSlots, asked'[t].pc = "readMark",
                        NEW r, r = asked'[t].room, NEW u, u = asked'[t].user
                 PROVE  Unread(r, u)' \subseteq slipped'
      BY DEF ReadingSound, At, Unread, TextsOf, Kept
    <2>1. t # s /\ asked'[t] = asked[t] /\ asked[t].pc = "readMark"
      BY <1>3
    <2>2. Unread(r, u) \subseteq slipped
      BY <2>1 DEF DirectInv, ReadingSound, At
    <2>3. r = r0 /\ u # u0 => n \in slipped'
      BY <1>2, <2>1 DEF Working, At
    <2> QED
      BY <1>8, <1>10, <2>2, <2>3
  <1>16. \A r \in Kept(dmRoom)' : \A u \in Joined(r)' :
            /\ r \in Kept(dmRoom) /\ u \in Joined(r)
            /\ dmRoom'[r].lastRead[u] = dmRoom[r].lastRead[u]
            /\ dmRoom[r].lastRead[u] <= Len(dmText) /\ dmRoom[r].lastRead[u] \in Nat
    <2> TAKE r \in Kept(dmRoom)'
    <2> TAKE u \in Joined(r)'
    <2>1. r \in Kept(dmRoom) /\ u \in Joined(r)
      BY <1>12, ShrinkKept
    <2>2. dmRoom[r].lastRead[u] \in 0..MaxDmTexts
      BY <2>1, RoomRows, RoomRowFields DEF DirectInv, Joined
    <2> QED
      BY <1>2, <2>1, <2>2 DEF DirectInv, RowsKnown
  <1>17. MarkCoversUnread'
    <2> SUFFICES ASSUME NEW r \in Kept(dmRoom)', NEW u \in Joined(r)', NEW m \in Unread(r, u)',
                        m <= dmRoom'[r].lastRead[u]
                 PROVE  m \in slipped'
      BY DEF MarkCoversUnread
    <2>1. m \in Unread(r, u)
      BY <1>5, <1>10, <1>16
    <2> QED
      BY <1>8, <1>16, <2>1 DEF DirectInv, MarkCoversUnread
  <1>18. RowsKnown'
    <2>1. \A t \in ChatSlots : asked'[t].pc \in RoomSteps => asked'[t].room \in DOMAIN dmRoom
      BY <1>0, <1>1, <1>3 DEF DirectInv, RowsKnown
    <2>2. \A r \in Kept(dmRoom)' : \A u \in Joined(r)' : dmRoom'[r].lastRead[u] <= Len(dmText')
      BY <1>5, <1>6, <1>16
    <2> QED
      BY <1>2, <2>1, <2>2 DEF RowsKnown
  <1> QED
    BY <1>9, <1>13, <1>14, <1>15, <1>17, <1>18 DEF DirectInv

\* The first update of a mark: what is unread for the reader is read.
LEMMA ReadKeeps ==
  ASSUME DirectInv, NEW s \in ChatSlots, ReadDirect(s)
  PROVE  DirectInv'
  <1>0. asked[s].pc = "readTexts" /\ asked[s].pc \in RoomSteps
    BY DEF ReadDirect, At, RoomSteps
  <1>1. PICK r0 \in DmRooms, u0 \in Talkers : r0 = asked[s].room /\ u0 = asked[s].user
    BY <1>0, AskedKinds DEF DirectInv
  <1>2. /\ dmText' = [m \in DOMAIN dmText |-> IF m \in Unread(r0, u0)
                        THEN [dmText[m] EXCEPT !.isRead = TRUE] ELSE dmText[m]]
        /\ UNCHANGED <<dmRoom, withdrawn, overlapped, slipped, deserted, dmAsks>>
        /\ Then(s, "readMark") /\ "readMark" \in RoomSteps
    BY <1>1 DEF ReadDirect, Then, RoomSteps
  <1>3. /\ asked'[s].pc = "readMark" /\ asked'[s].room = r0 /\ asked'[s].user = u0
        /\ asked' \in [ChatSlots -> Asked]
        /\ \A t \in ChatSlots : t # s => asked'[t] = asked[t]
    BY <1>0, <1>1, <1>2, Next2Step DEF DirectInv
  <1>4. /\ Len(dmText) \in Nat /\ Len(dmText) <= MaxDmTexts /\ DOMAIN dmText = 1..Len(dmText)
        /\ dmText \in [1..Len(dmText) -> DmTextRow \cup {NoRow}]
    BY TextRows DEF DirectInv
  <1>5. \A m \in Unread(r0, u0) : m \in DOMAIN dmText /\ dmText[m] \in DmTextRow
    BY <1>4, DirectUnreadIs
  <1>6. \A row \in DmTextRow :
          /\ [row EXCEPT !.isRead = TRUE] \in DmTextRow
          /\ [row EXCEPT !.isRead = TRUE].room = row.room
          /\ [row EXCEPT !.isRead = TRUE].sender = row.sender
          /\ [row EXCEPT !.isRead = TRUE].isRead
    BY DEF DmTextRow
  <1>7. /\ DOMAIN dmText' = DOMAIN dmText
        /\ \A m \in DOMAIN dmText :
             \/ m \notin Unread(r0, u0) /\ dmText'[m] = dmText[m]
             \/ /\ m \in Unread(r0, u0) /\ dmText[m] \in DmTextRow /\ dmText'[m] \in DmTextRow
                /\ dmText'[m].room = dmText[m].room /\ dmText'[m].sender = dmText[m].sender
                /\ dmText'[m].isRead
    BY <1>2, <1>5, <1>6
  <1>8. TextsFade
    BY <1>7, NoRowIsNone DEF TextsFade
  <1>9. Unread(r0, u0)' = {}
    <2>1. Unread(r0, u0)' \subseteq Unread(r0, u0)
      BY <1>8, FadeKept
    <2>2. \A m \in Unread(r0, u0)' : m \in DOMAIN dmText /\ ~dmText'[m].isRead
      BY <1>7, DirectUnreadIs
    <2> QED
      BY <1>7, <2>1, <2>2
  <1>10. DirectTypeOK'
    <2>1. dmText' \in [1..Len(dmText) -> DmTextRow \cup {NoRow}]
      BY <1>2, <1>4, <1>7
    <2>2. dmText' \in Seq(DmTextRow \cup {NoRow}) /\ Len(dmText') = Len(dmText)
      BY <1>4, <2>1, FunctionIsSeq
    <2> QED
      BY <1>2, <1>3, <1>4, <2>2 DEF DirectInv, DirectTypeOK
  <1>11. RoomsShrink /\ \A r \in Kept(dmRoom)' : \A u \in Joined(r)' :
           dmRoom'[r].lastRead[u] = dmRoom[r].lastRead[u]
    BY <1>2, RestingRows
  <1>12. \A t \in ChatSlots : asked[t].pc \in RoomSteps => asked[t].room \in DOMAIN dmRoom
    BY DEF DirectInv, RowsKnown
  <1>13. \A t \in ChatSlots :
           /\ asked'[t].pc = "createRoom" => asked'[t] = asked[t]
           /\ asked'[t].pc \in RoomSteps => asked'[t].room \in DOMAIN dmRoom
           /\ asked'[t].pc = "readMark" =>
                /\ asked'[t].room = asked[t].room /\ asked'[t].user = asked[t].user
                /\ \/ asked[t].pc = "readMark"
                   \/ \A r, u : r = asked[t].room /\ u = asked[t].user => Unread(r, u)' = {}
           /\ asked'[t].pc = "removeRoom" =>
                /\ asked'[t].room = asked[t].room
                /\ asked[t].pc = "removeRoom" \/ Joined(asked[t].room) = {}
    <2> TAKE t \in ChatSlots
    <2>1. CASE t = s
      BY <1>0, <1>1, <1>3, <1>9, <1>12, <2>1
    <2>2. CASE t # s
      BY <1>3, <1>12, <2>2
    <2> QED
      BY <2>1, <2>2
  <1> QED
    BY <1>2, <1>8, <1>10, <1>11, <1>13, QuietKeeps

\* The rooms of a table in which one row has changed.
LEMMA OneRoomChanged ==
  ASSUME DirectTypeOK, NEW r0 \in DOMAIN dmRoom, NEW row \in DmRoomRow \cup {NoRow},
         dmRoom' = [dmRoom EXCEPT ![r0] = row]
  PROVE  /\ dmRoom' \in Seq(DmRoomRow \cup {NoRow}) /\ Len(dmRoom') = Len(dmRoom)
         /\ DOMAIN dmRoom' = DOMAIN dmRoom /\ dmRoom'[r0] = row
         /\ \A r \in DOMAIN dmRoom : r # r0 => dmRoom'[r] = dmRoom[r]
  <1>1. /\ Len(dmRoom) \in Nat /\ DOMAIN dmRoom = 1..Len(dmRoom)
        /\ dmRoom \in [1..Len(dmRoom) -> DmRoomRow \cup {NoRow}]
    BY RoomRows
  <1>2. dmRoom' \in [1..Len(dmRoom) -> DmRoomRow \cup {NoRow}]
    BY <1>1
  <1> QED
    BY <1>1, <1>2, FunctionIsSeq

\* What one request that ends, or goes on to a step that is neither a mark nor
\* a removal, does not do.
LEMMA OthersWait ==
  ASSUME DirectInv, NEW s \in ChatSlots,
         asked'[s].pc \notin {"createRoom", "readMark", "removeRoom"},
         asked'[s].pc \in RoomSteps => asked'[s].room \in DOMAIN dmRoom,
         \A t \in ChatSlots : t # s => asked'[t] = asked[t]
  PROVE  \A t \in ChatSlots :
           /\ asked'[t].pc = "createRoom" => asked'[t] = asked[t]
           /\ asked'[t].pc \in RoomSteps => asked'[t].room \in DOMAIN dmRoom
           /\ asked'[t].pc = "readMark" =>
                /\ asked'[t].room = asked[t].room /\ asked'[t].user = asked[t].user
                /\ asked[t].pc = "readMark"
           /\ asked'[t].pc = "removeRoom" =>
                /\ asked'[t].room = asked[t].room
                /\ asked[t].pc = "removeRoom" \/ Joined(asked[t].room) = {}
  <1>1. \A t \in ChatSlots : asked[t].pc \in RoomSteps => asked[t].room \in DOMAIN dmRoom
    BY DEF DirectInv, RowsKnown
  <1> QED
    BY <1>1

\* The second update of a mark: all that is unread below it has slipped in.
LEMMA MarkKeeps ==
  ASSUME DirectInv, NEW s \in ChatSlots, MarkDirect(s)
  PROVE  DirectInv'
  <1>0. asked[s].pc = "readMark" /\ asked[s].pc \in RoomSteps
    BY DEF MarkDirect, At, RoomSteps
  <1>1. PICK r0 \in DmRooms, u0 \in Talkers : r0 = asked[s].room /\ u0 = asked[s].user
    BY <1>0, AskedKinds DEF DirectInv
  <1>2. /\ asked' = [asked EXCEPT ![s] = NothingAsked] /\ dmAsks' = dmAsks
        /\ UNCHANGED <<dmText, withdrawn, overlapped, slipped, deserted>>
    BY DEF MarkDirect, Answer
  <1>3. dmRoom' = IF u0 \in Joined(r0) THEN [dmRoom EXCEPT ![r0].lastRead[u0] = Len(dmText)]
                                        ELSE dmRoom
    BY <1>1 DEF MarkDirect
  <1>4. /\ asked' \in [ChatSlots -> Asked] /\ asked'[s] = NothingAsked
        /\ \A t \in ChatSlots : t # s => asked'[t] = asked[t]
    BY <1>2, NothingIsAsked, OneAsked DEF DirectInv
  <1>5. Unread(r0, u0) \subseteq slipped
    BY <1>0, <1>1 DEF DirectInv, ReadingSound, At
  <1>6. /\ dmRoom' \in Seq(DmRoomRow \cup {NoRow}) /\ Len(dmRoom') = Len(dmRoom)
        /\ RoomsShrink
        /\ \A r \in Kept(dmRoom)' : \A u \in Joined(r)' :
              \/ dmRoom'[r].lastRead[u] = dmRoom[r].lastRead[u]
              \/ dmRoom'[r].lastRead[u] = Len(dmText) /\ Unread(r, u) \subseteq slipped
    <2>1. CASE u0 \notin Joined(r0)
      BY <1>3, <2>1, RestingRows DEF DirectInv, DirectTypeOK
    <2>2. CASE u0 \in Joined(r0)
      <3>1. r0 \in Kept(dmRoom) /\ r0 \in DOMAIN dmRoom /\ dmRoom[r0] \in DmRoomRow
        BY <2>2, RoomRows DEF Joined, DirectInv
      <3> DEFINE old == dmRoom[r0].lastRead
                 new == [old EXCEPT ![u0] = Len(dmText)]
                 row == [dmRoom[r0] EXCEPT !.lastRead = new]
      <3>2. /\ old \in [DOMAIN old -> 0..MaxDmTexts] /\ DOMAIN old \in SUBSET Talkers
            /\ u0 \in DOMAIN old
        BY <2>2, <3>1, RoomRowFields DEF Joined
      <3>3. Len(dmText) \in 0..MaxDmTexts
        BY TextRows, DirectChatAssumption DEF DirectInv
      <3>4. /\ new \in [DOMAIN old -> 0..MaxDmTexts] /\ new[u0] = Len(dmText)
            /\ \A u \in DOMAIN old : u # u0 => new[u] = old[u]
        BY <3>2, <3>3
      <3>5. dmRoom' = [dmRoom EXCEPT ![r0] = row]
        BY <1>3, <2>2
      <3> HIDE DEF new
      <3>6. row \in DmRoomRow /\ row.item = dmRoom[r0].item /\ row.lastRead = new
        <4>1. PICK m \in SUBSET Talkers : new \in [m -> 0..MaxDmTexts]
          BY <3>2, <3>4
        <4>2. dmRoom[r0] \in DmRoomRow
          BY <3>1
        <4> QED
          BY <4>1, <4>2, RowWithMarks
      <3> HIDE DEF row
      <3>7. /\ dmRoom' \in Seq(DmRoomRow \cup {NoRow}) /\ Len(dmRoom') = Len(dmRoom)
            /\ DOMAIN dmRoom' = DOMAIN dmRoom /\ dmRoom'[r0] = row
            /\ \A r \in DOMAIN dmRoom : r # r0 => dmRoom'[r] = dmRoom[r]
        BY <3>1, <3>5, <3>6, OneRoomChanged DEF DirectInv
      <3>8. RoomsShrink
        BY <3>1, <3>4, <3>6, <3>7 DEF RoomsShrink, Kept
      <3>9. \A r \in Kept(dmRoom)' : \A u \in Joined(r)' :
              \/ dmRoom'[r].lastRead[u] = dmRoom[r].lastRead[u]
              \/ dmRoom'[r].lastRead[u] = Len(dmText) /\ Unread(r, u) \subseteq slipped
        <4> TAKE r \in Kept(dmRoom)'
        <4> TAKE u \in Joined(r)'
        <4>1. r \in DOMAIN dmRoom /\ u \in Joined(r) /\ r \in Kept(dmRoom)
          BY <3>8, ShrinkKept DEF Kept
        <4>2. CASE r # r0
          BY <3>7, <4>1, <4>2
        <4>3. CASE r = r0 /\ u # u0
          BY <3>4, <3>6, <3>7, <4>1, <4>3 DEF Joined
        <4>4. CASE r = r0 /\ u = u0
          BY <1>5, <3>4, <3>6, <3>7, <4>4
        <4> QED
          BY <4>2, <4>3, <4>4
      <3> QED
        BY <3>7, <3>8, <3>9
    <2> QED
      BY <2>1, <2>2
  <1>7. DirectTypeOK'
    BY <1>2, <1>4, <1>6 DEF DirectInv, DirectTypeOK
  <1>8. \A t \in ChatSlots :
           /\ asked'[t].pc = "createRoom" => asked'[t] = asked[t]
           /\ asked'[t].pc \in RoomSteps => asked'[t].room \in DOMAIN dmRoom
           /\ asked'[t].pc = "readMark" =>
                /\ asked'[t].room = asked[t].room /\ asked'[t].user = asked[t].user
                /\ asked[t].pc = "readMark"
           /\ asked'[t].pc = "removeRoom" =>
                /\ asked'[t].room = asked[t].room
                /\ asked[t].pc = "removeRoom" \/ Joined(asked[t].room) = {}
    <2>1. "none" \notin RoomSteps
      BY DEF RoomSteps
    <2> QED
      BY <1>4, <2>1, NothingIsAsked, OthersWait
  <1> QED
    BY <1>2, <1>6, <1>7, <1>8, RestingTexts, QuietKeeps

\* A member goes; the others keep their marks.
LEMMA LeaveKeeps ==
  ASSUME DirectInv, NEW s \in ChatSlots, RemoveMember(s)
  PROVE  DirectInv'
  <1>0. asked[s].pc = "removeMember" /\ asked[s].pc \in RoomSteps
    BY DEF RemoveMember, At, RoomSteps
  <1>1. PICK r0 \in DmRooms, u0 \in Talkers : r0 = asked[s].room /\ u0 = asked[s].user
    BY <1>0, AskedKinds DEF DirectInv
  <1>2. /\ UNCHANGED <<dmText, withdrawn, overlapped, slipped, deserted, dmAsks>>
        /\ Then(s, "countMembers") /\ "countMembers" \in RoomSteps
    BY DEF RemoveMember, Then, RoomSteps
  <1>3. dmRoom' = IF r0 \in Kept(dmRoom)
                    THEN [dmRoom EXCEPT ![r0].lastRead =
                            [m \in Joined(r0) \ {u0} |-> dmRoom[r0].lastRead[m]]]
                    ELSE dmRoom
    BY <1>1 DEF RemoveMember
  <1>4. /\ asked'[s].pc = "countMembers" /\ asked'[s].room = r0
        /\ asked' \in [ChatSlots -> Asked]
        /\ \A t \in ChatSlots : t # s => asked'[t] = asked[t]
    BY <1>0, <1>1, <1>2, Next2Step DEF DirectInv
  <1>5. /\ dmRoom' \in Seq(DmRoomRow \cup {NoRow}) /\ Len(dmRoom') = Len(dmRoom)
        /\ RoomsShrink
        /\ \A r \in Kept(dmRoom)' : \A u \in Joined(r)' :
              dmRoom'[r].lastRead[u] = dmRoom[r].lastRead[u]
    <2>1. CASE r0 \notin Kept(dmRoom)
      BY <1>3, <2>1, RestingRows DEF DirectInv, DirectTypeOK
    <2>2. CASE r0 \in Kept(dmRoom)
      <3>1. r0 \in DOMAIN dmRoom /\ dmRoom[r0] \in DmRoomRow /\ dmRoom[r0] # NoRow
        BY <2>2, RoomRows DEF Kept, DirectInv
      <3> DEFINE old == dmRoom[r0].lastRead
                 stay == Joined(r0) \ {u0}
                 new == [m \in stay |-> old[m]]
                 row == [dmRoom[r0] EXCEPT !.lastRead = new]
      <3>2. /\ old \in [DOMAIN old -> 0..MaxDmTexts] /\ DOMAIN old \in SUBSET Talkers
            /\ stay \subseteq DOMAIN old
        BY <2>2, <3>1, RoomRowFields DEF Joined
      <3>3. /\ new \in [stay -> 0..MaxDmTexts] /\ stay \in SUBSET Talkers
            /\ DOMAIN new = stay /\ \A u \in stay : new[u] = old[u]
        BY <3>2
      <3>4. dmRoom' = [dmRoom EXCEPT ![r0] = row]
        BY <1>3, <2>2
      <3> HIDE DEF new
      <3>5. row \in DmRoomRow /\ row.item = dmRoom[r0].item /\ row.lastRead = new
        <4>1. PICK m \in SUBSET Talkers : new \in [m -> 0..MaxDmTexts]
          BY <3>3
        <4>2. dmRoom[r0] \in DmRoomRow
          BY <3>1
        <4> QED
          BY <4>1, <4>2, RowWithMarks
      <3> HIDE DEF row
      <3>6. /\ dmRoom' \in Seq(DmRoomRow \cup {NoRow}) /\ Len(dmRoom') = Len(dmRoom)
            /\ DOMAIN dmRoom' = DOMAIN dmRoom /\ dmRoom'[r0] = row
            /\ \A r \in DOMAIN dmRoom : r # r0 => dmRoom'[r] = dmRoom[r]
        BY <3>1, <3>4, <3>5, OneRoomChanged DEF DirectInv
      <3>7. RoomsShrink
        BY <3>1, <3>2, <3>3, <3>5, <3>6 DEF RoomsShrink
      <3>8. \A r \in Kept(dmRoom)' : \A u \in Joined(r)' :
              dmRoom'[r].lastRead[u] = dmRoom[r].lastRead[u]
        <4> TAKE r \in Kept(dmRoom)'
        <4> TAKE u \in Joined(r)'
        <4>1. r \in DOMAIN dmRoom /\ u \in DOMAIN dmRoom'[r].lastRead
          BY <3>6 DEF Kept, Joined
        <4>2. CASE r # r0
          BY <3>6, <4>1, <4>2
        <4>3. CASE r = r0
          BY <3>3, <3>5, <3>6, <4>1, <4>3
        <4> QED
          BY <4>2, <4>3
      <3> QED
        BY <3>6, <3>7, <3>8
    <2> QED
      BY <2>1, <2>2
  <1>6. DirectTypeOK'
    BY <1>2, <1>4, <1>5 DEF DirectInv, DirectTypeOK
  <1>7. asked'[s].room \in DOMAIN dmRoom
    BY <1>0, <1>1, <1>4 DEF DirectInv, RowsKnown
  <1>8. \A t \in ChatSlots :
           /\ asked'[t].pc = "createRoom" => asked'[t] = asked[t]
           /\ asked'[t].pc \in RoomSteps => asked'[t].room \in DOMAIN dmRoom
           /\ asked'[t].pc = "readMark" =>
                /\ asked'[t].room = asked[t].room /\ asked'[t].user = asked[t].user
                /\ asked[t].pc = "readMark"
           /\ asked'[t].pc = "removeRoom" =>
                /\ asked'[t].room = asked[t].room
                /\ asked[t].pc = "removeRoom" \/ Joined(asked[t].room) = {}
    BY <1>4, <1>7, OthersWait
  <1> QED
    BY <1>2, <1>5, <1>6, <1>8, RestingTexts, QuietKeeps

\* A room that was found empty goes with its messages.
LEMMA RemoveKeeps ==
  ASSUME DirectInv, NEW s \in ChatSlots, RemoveRoom(s)
  PROVE  DirectInv'
  <1>0. asked[s].pc = "removeRoom" /\ asked[s].pc \in RoomSteps
    BY DEF RemoveRoom, At, RoomSteps
  <1>1. PICK r0 \in DmRooms : r0 = asked[s].room
    BY <1>0, AskedKinds DEF DirectInv
  <1>2. /\ asked' = [asked EXCEPT ![s] = NothingAsked] /\ dmAsks' = dmAsks
        /\ UNCHANGED <<withdrawn, overlapped, slipped, deserted>>
        /\ r0 \in Kept(dmRoom) /\ dmRoom' = [dmRoom EXCEPT ![r0] = NoRow]
        /\ dmText' = [m \in DOMAIN dmText |-> IF m \in TextsOf(r0) THEN NoRow ELSE dmText[m]]
    BY <1>1 DEF RemoveRoom, Answer
  <1>3. /\ asked' \in [ChatSlots -> Asked] /\ asked'[s] = NothingAsked
        /\ \A t \in ChatSlots : t # s => asked'[t] = asked[t]
    BY <1>2, NothingIsAsked, OneAsked DEF DirectInv
  <1>4. /\ dmRoom' \in Seq(DmRoomRow \cup {NoRow}) /\ Len(dmRoom') = Len(dmRoom)
        /\ DOMAIN dmRoom' = DOMAIN dmRoom /\ dmRoom'[r0] = NoRow
        /\ \A r \in DOMAIN dmRoom : r # r0 => dmRoom'[r] = dmRoom[r]
    BY <1>2, OneRoomChanged DEF DirectInv, Kept
  <1>5. RoomsShrink
    BY <1>4 DEF RoomsShrink
  <1>6. \A r \in Kept(dmRoom)' : \A u \in Joined(r)' :
          dmRoom'[r].lastRead[u] = dmRoom[r].lastRead[u]
    BY <1>4 DEF Kept
  <1>7. /\ Len(dmText) \in Nat /\ Len(dmText) <= MaxDmTexts /\ DOMAIN dmText = 1..Len(dmText)
        /\ dmText \in [1..Len(dmText) -> DmTextRow \cup {NoRow}]
    BY TextRows DEF DirectInv
  <1>8. /\ DOMAIN dmText' = DOMAIN dmText
        /\ \A m \in DOMAIN dmText : dmText'[m] = NoRow \/ dmText'[m] = dmText[m]
    BY <1>2
  <1>9. TextsFade
    BY <1>8 DEF TextsFade
  <1>10. dmText' \in Seq(DmTextRow \cup {NoRow}) /\ Len(dmText') = Len(dmText)
    <2>1. dmText' \in [1..Len(dmText) -> DmTextRow \cup {NoRow}]
      BY <1>2, <1>7
    <2> QED
      BY <1>7, <2>1, FunctionIsSeq
  <1>11. DirectTypeOK'
    BY <1>2, <1>3, <1>4, <1>10 DEF DirectInv, DirectTypeOK
  <1>12. \A t \in ChatSlots :
           /\ asked'[t].pc = "createRoom" => asked'[t] = asked[t]
           /\ asked'[t].pc \in RoomSteps => asked'[t].room \in DOMAIN dmRoom
           /\ asked'[t].pc = "readMark" =>
                /\ asked'[t].room = asked[t].room /\ asked'[t].user = asked[t].user
                /\ asked[t].pc = "readMark"
           /\ asked'[t].pc = "removeRoom" =>
                /\ asked'[t].room = asked[t].room
                /\ asked[t].pc = "removeRoom" \/ Joined(asked[t].room) = {}
    <2>1. "none" \notin RoomSteps
      BY DEF RoomSteps
    <2> QED
      BY <1>3, <2>1, NothingIsAsked, OthersWait
  <1>13. \A r \in Kept(dmRoom)' : \A u \in Joined(r)' :
           \/ dmRoom'[r].lastRead[u] = dmRoom[r].lastRead[u]
           \/ dmRoom'[r].lastRead[u] = Len(dmText) /\ Unread(r, u) \subseteq slipped
    BY <1>6
  <1>14. \A t \in ChatSlots :
           /\ asked'[t].pc = "createRoom" => asked'[t] = asked[t]
           /\ asked'[t].pc \in RoomSteps => asked'[t].room \in DOMAIN dmRoom
           /\ asked'[t].pc = "readMark" =>
                /\ asked'[t].room = asked[t].room /\ asked'[t].user = asked[t].user
                /\ \/ asked[t].pc = "readMark"
                   \/ \A r, u : r = asked[t].room /\ u = asked[t].user => Unread(r, u)' = {}
           /\ asked'[t].pc = "removeRoom" =>
                /\ asked'[t].room = asked[t].room
                /\ asked[t].pc = "removeRoom" \/ Joined(asked[t].room) = {}
    BY <1>12
  <1> QED
    BY <1>2, <1>5, <1>9, <1>11, <1>13, <1>14, QuietKeeps

\* Nothing but the set of withdrawn items changes.
LEMMA IdleKeeps ==
  ASSUME DirectInv, withdrawn' \subseteq Items,
         UNCHANGED <<dmRoom, dmText, asked, dmAsks, overlapped, slipped, deserted>>
  PROVE  DirectInv'
  <1>1. DirectTypeOK'
    BY DEF DirectInv, DirectTypeOK
  <1>2. \A t \in ChatSlots : asked[t].pc \in RoomSteps => asked[t].room \in DOMAIN dmRoom
    BY DEF DirectInv, RowsKnown
  <1> QED
    BY <1>1, <1>2, RestingRows, RestingTexts, QuietKeeps

LEMMA DirectStep == DirectInv /\ [DmNext]_dmVars => DirectInv'
  <1> SUFFICES ASSUME DirectInv, [DmNext]_dmVars PROVE DirectInv'
    OBVIOUS
  <1>1. ASSUME NEW s \in ChatSlots,
               \/ \E u \in Talkers : \E i \in Items : OpenDirect(s, u, i)
               \/ CreateDirect(s)
               \/ \E u \in Talkers, r \in DOMAIN dmRoom,
                    pc \in {"insert", "readTexts", "removeMember"} : Enter(s, u, r, pc)
        PROVE  DirectInv'
    BY <1>1, OpenKeeps, CreateKeeps, EnterKeeps
  <1>2. ASSUME NEW s \in ChatSlots,
               \/ InsertDirect(s) \/ TouchDirect(s) \/ ReadDirect(s) \/ MarkDirect(s)
               \/ RemoveMember(s) \/ CountMembers(s) \/ RemoveRoom(s) \/ FailDirect(s)
        PROVE  DirectInv'
    BY <1>2, InsertKeeps, AnswerRests, ReadKeeps, MarkKeeps, LeaveKeeps, CountKeeps, RemoveKeeps
  <1>3. ASSUME NEW i \in Items, WithdrawItem(i) PROVE DirectInv'
    <2>1. withdrawn' \subseteq Items
      BY <1>3 DEF WithdrawItem, DirectInv, DirectTypeOK
    <2> QED
      BY <1>3, <2>1, IdleKeeps DEF WithdrawItem
  <1>4. CASE UNCHANGED dmVars
    <2>1. withdrawn' \subseteq Items
      BY <1>4 DEF dmVars, DirectInv, DirectTypeOK
    <2> QED
      BY <1>4, <2>1, IdleKeeps DEF dmVars
  <1> QED
    BY <1>1, <1>2, <1>3, <1>4 DEF DmNext

LEMMA DirectHolds == DmSpec => []DirectInv
  BY DirectStart, DirectStep, PTL DEF DmSpec

\* However the queries of requests overlap: a buyer has two rooms for an item
\* only if two of his requests looked for one at the same time, and a message
\* that is older than its reader's mark counts as unread only if it came between
\* the two updates of the mark (findOrCreateChatRoom, markAsRead).
THEOREM DirectChatIsSound == DmSpec => [](DirectTypeOK /\ DirectChatSound)
  <1>1. DirectInv => DirectTypeOK /\ DirectChatSound
    BY DEF DirectInv, DirectChatSound
  <1> QED
    BY <1>1, DirectHolds, PTL
-----------------------------------------------------------------------------
(***************************************************************************)
(* The chat implements RoomLife                                            *)
(***************************************************************************)
\* The two members of a room that is about to be created are two: nobody asks
\* for a room with himself.
OpensWithTwo ==
  \A s \in ChatSlots : At(s, "createRoom") => asked[s].user # Vendor[asked[s].item]

LEMMA OpensWithTwoStep ==
  ASSUME DirectInv, OpensWithTwo, [DmNext]_dmVars
  PROVE  OpensWithTwo'
  <1> SUFFICES ASSUME NEW t \in ChatSlots, asked'[t].pc = "createRoom"
               PROVE  asked'[t].user # Vendor[asked'[t].item]
    BY DEF OpensWithTwo, At
  <1>1. CASE asked'[t] = asked[t]
    BY <1>1 DEF OpensWithTwo, At
  <1>2. ASSUME NEW s \in ChatSlots, NEW a \in Asked, asked' = [asked EXCEPT ![s] = a],
               a.pc # "createRoom"
        PROVE  asked'[t] = asked[t]
    BY <1>2, OneAsked DEF DirectInv
  <1>3. ASSUME NEW s \in ChatSlots, Answer(s) PROVE asked'[t] = asked[t]
    BY <1>2, <1>3, NothingIsAsked DEF Answer
  <1>4. ASSUME NEW s \in ChatSlots, asked[s].pc \in RoomSteps, NEW pc \in RoomSteps, Then(s, pc)
        PROVE  asked'[t] = asked[t]
    <2>1. pc # "createRoom"
      BY DEF RoomSteps
    <2>2. asked'[s].pc = pc /\ \A q \in ChatSlots : q # s => asked'[q] = asked[q]
      BY <1>4, Next2Step DEF DirectInv
    <2> QED
      BY <2>1, <2>2
  <1>5. ASSUME NEW s \in ChatSlots, NEW u \in Talkers, NEW i \in Items, OpenDirect(s, u, i)
        PROVE  asked'[t].user # Vendor[asked'[t].item]
    <2> DEFINE a == [pc |-> "createRoom", user |-> u, item |-> i]
    <2>1. a \in Asked /\ a.user = u /\ a.item = i
      BY DEF Asked
    <2>2. asked' = [asked EXCEPT ![s] = a] /\ u # Vendor[i]
      BY <1>5 DEF OpenDirect, Ask
    <2> HIDE DEF a
    <2>3. asked'[s] = a /\ \A q \in ChatSlots : q # s => asked'[q] = asked[q]
      BY <2>1, <2>2, OneAsked DEF DirectInv
    <2> QED
      BY <1>1, <2>1, <2>2, <2>3
  <1>6. ASSUME NEW s \in ChatSlots, NEW u \in Talkers, NEW r \in DOMAIN dmRoom,
               NEW pc \in {"insert", "readTexts", "removeMember"}, Enter(s, u, r, pc)
        PROVE  asked'[t] = asked[t]
    <2> DEFINE a == [pc |-> pc, user |-> u, room |-> r]
    <2>1. r \in DmRooms
      BY RoomRows DEF DirectInv
    <2>2. a \in Asked /\ a.pc # "createRoom"
      BY <2>1 DEF Asked
    <2>3. asked' = [asked EXCEPT ![s] = a]
      BY <1>6 DEF Enter, Ask
    <2> HIDE DEF a
    <2> QED
      BY <1>2, <2>2, <2>3
  <1>7. ASSUME NEW s \in ChatSlots,
               CreateDirect(s) \/ TouchDirect(s) \/ MarkDirect(s) \/ RemoveRoom(s) \/ FailDirect(s)
        PROVE  asked'[t] = asked[t]
    BY <1>3, <1>7 DEF CreateDirect, TouchDirect, MarkDirect, RemoveRoom, FailDirect
  <1>8. ASSUME NEW s \in ChatSlots,
               InsertDirect(s) \/ ReadDirect(s) \/ RemoveMember(s) \/ CountMembers(s)
        PROVE  asked'[t] = asked[t]
    <2>1. asked[s].pc \in RoomSteps
      BY <1>8 DEF InsertDirect, ReadDirect, RemoveMember, CountMembers, At, RoomSteps
    <2>2. Answer(s) \/ \E pc \in RoomSteps : Then(s, pc)
      BY <1>8 DEF InsertDirect, ReadDirect, RemoveMember, CountMembers, RoomSteps
    <2> QED
      BY <1>3, <1>4, <2>1, <2>2
  <1>9. CASE asked' = asked
    BY <1>1, <1>9
  <1> QED
    BY <1>1, <1>5, <1>6, <1>7, <1>8, <1>9 DEF DmNext, dmVars, WithdrawItem

\* What a step does to one room.
DmStays(r) ==
  /\ r \in DOMAIN dmRoom' <=> r \in DOMAIN dmRoom
  /\ r \in Kept(dmRoom)' <=> r \in Kept(dmRoom)
  /\ Joined(r)' = Joined(r)
DmOpens(r) ==
  /\ r \notin DOMAIN dmRoom /\ r \in DOMAIN dmRoom' /\ r \in Kept(dmRoom)'
  /\ \E a, b \in Talkers : a # b /\ Joined(r)' = {a, b}
DmLeft(r) ==
  /\ r \in DOMAIN dmRoom /\ r \in DOMAIN dmRoom'
  /\ r \in Kept(dmRoom) /\ r \in Kept(dmRoom)'
  /\ \E u \in Joined(r) : Joined(r)' = Joined(r) \ {u}
DmRemoved(r) ==
  /\ r \in DOMAIN dmRoom /\ r \in DOMAIN dmRoom'
  /\ r \in Kept(dmRoom) /\ r \notin Kept(dmRoom)' /\ Joined(r) = {}

LEMMA SameRoomStays ==
  ASSUME NEW r, (r \in DOMAIN dmRoom') <=> (r \in DOMAIN dmRoom), dmRoom'[r] = dmRoom[r]
  PROVE  DmStays(r)
  BY DEF DmStays, Kept, Joined

LEMMA CreateOpens ==
  ASSUME DirectInv, OpensWithTwo, NEW s \in ChatSlots, CreateDirect(s), NEW r \in DmRooms
  PROVE  DmStays(r) \/ DmOpens(r)
  <1>1. PICK u0 \in Talkers, i0 \in Items : u0 = asked[s].user /\ i0 = asked[s].item
    BY AskedKinds DEF CreateDirect, At, DirectInv
  <1>2. PICK v0 \in Talkers : v0 = Vendor[i0]
    BY DirectChatAssumption
  <1>3. u0 # v0
    BY <1>1, <1>2 DEF OpensWithTwo, CreateDirect
  <1> DEFINE row == [item |-> i0, lastRead |-> [m \in {u0, v0} |-> 0]]
             n == Len(dmRoom) + 1
  <1>4. dmRoom' = Append(dmRoom, row)
    BY <1>1, <1>2 DEF CreateDirect
  <1>5. row \in DmRoomRow /\ DOMAIN row.lastRead = {u0, v0} /\ row # NoRow
    <2>1. [m \in {u0, v0} |-> 0] \in [{u0, v0} -> 0..MaxDmTexts] /\ {u0, v0} \in SUBSET Talkers
      BY DirectChatAssumption
    <2>2. [m \in {u0, v0} |-> 0] \in UNION {[k -> 0..MaxDmTexts] : k \in SUBSET Talkers}
      BY <2>1, LastReads
    <2>3. row \in DmRoomRow
      BY <2>2 DEF DmRoomRow
    <2> QED
      BY <2>3, NoRowIsNone
  <1> HIDE DEF row
  <1>6. /\ Len(dmRoom) \in Nat /\ DOMAIN dmRoom = 1..Len(dmRoom)
        /\ dmRoom \in Seq(DmRoomRow \cup {NoRow})
    BY RoomRows DEF DirectInv, DirectTypeOK
  <1>7. /\ dmRoom' \in Seq(DmRoomRow \cup {NoRow}) /\ Len(dmRoom') = n
        /\ \A x \in 1..Len(dmRoom) : dmRoom'[x] = dmRoom[x]
        /\ dmRoom'[n] = row
    BY <1>4, <1>5, <1>6, AppendProperties
  <1>8. DOMAIN dmRoom' = 1..n
    BY <1>7, LenProperties
  <1>9. CASE r = n
    <2>1. r \notin DOMAIN dmRoom /\ r \in DOMAIN dmRoom' /\ dmRoom'[r] = row
      BY <1>6, <1>7, <1>8, <1>9
    <2>2. r \in Kept(dmRoom)' /\ Joined(r)' = {u0, v0}
      BY <1>5, <2>1 DEF Kept, Joined
    <2> QED
      BY <1>3, <2>1, <2>2 DEF DmOpens
  <1>10. CASE r # n /\ r \in DOMAIN dmRoom
    <2>1. r \in DOMAIN dmRoom' /\ dmRoom'[r] = dmRoom[r]
      BY <1>6, <1>7, <1>8, <1>10
    <2> QED
      BY <1>10, <2>1, SameRoomStays
  <1>11. CASE r # n /\ r \notin DOMAIN dmRoom
    <2>1. r \notin DOMAIN dmRoom'
      BY <1>6, <1>8, <1>11 DEF DmRooms
    <2> QED
      BY <1>11, <2>1 DEF DmStays, Kept, Joined
  <1> QED
    BY <1>9, <1>10, <1>11

LEMMA EditedRow ==
  ASSUME NEW row \in DmRoomRow, NEW f
  PROVE  [row EXCEPT !.lastRead = f] # NoRow /\ [row EXCEPT !.lastRead = f].lastRead = f
  BY DEF DmRoomRow, NoRow

\* A row whose marks change is the same room.
LEMMA MarksOnly ==
  ASSUME DirectInv, NEW r0 \in Kept(dmRoom), NEW f, NEW r \in DmRooms,
         dmRoom' = [dmRoom EXCEPT ![r0] = [dmRoom[r0] EXCEPT !.lastRead = f]]
  PROVE  /\ r # r0 => DmStays(r)
         /\ r0 \in DOMAIN dmRoom /\ r0 \in DOMAIN dmRoom' /\ r0 \in Kept(dmRoom)'
         /\ Joined(r0) = DOMAIN dmRoom[r0].lastRead /\ Joined(r0)' = DOMAIN f
  <1>1. r0 \in DOMAIN dmRoom /\ dmRoom[r0] \in DmRoomRow
    BY RoomRows DEF DirectInv
  <1> DEFINE row == [dmRoom[r0] EXCEPT !.lastRead = f]
  <1>2. row # NoRow /\ row.lastRead = f
    BY <1>1, EditedRow
  <1> HIDE DEF row
  <1>3. /\ DOMAIN dmRoom' = DOMAIN dmRoom /\ dmRoom'[r0] = row
        /\ \A x \in DOMAIN dmRoom : x # r0 => dmRoom'[x] = dmRoom[x]
    BY <1>1 DEF row
  <1>4. r # r0 => DmStays(r)
    <2>1. CASE r \in DOMAIN dmRoom
      BY <1>3, <2>1, SameRoomStays
    <2>2. CASE r \notin DOMAIN dmRoom
      BY <1>3, <2>2 DEF DmStays, Kept, Joined
    <2> QED
      BY <2>1, <2>2
  <1>5. r0 \in Kept(dmRoom)'
    BY <1>1, <1>2, <1>3 DEF Kept
  <1>6. Joined(r0)' = DOMAIN f
    BY <1>2, <1>3, <1>5 DEF Joined
  <1> QED
    BY <1>1, <1>3, <1>4, <1>5, <1>6 DEF Joined

LEMMA MarkStays ==
  ASSUME DirectInv, NEW s \in ChatSlots, MarkDirect(s), NEW r \in DmRooms
  PROVE  DmStays(r)
  <1>1. PICK r0, u0 : r0 = asked[s].room /\ u0 = asked[s].user
    OBVIOUS
  <1>2. CASE u0 \notin Joined(r0)
    <2>1. dmRoom' = dmRoom
      BY <1>1, <1>2 DEF MarkDirect
    <2> QED
      BY <2>1, SameRoomStays
  <1>3. CASE u0 \in Joined(r0)
    <2>1. PICK f : f = [dmRoom[r0].lastRead EXCEPT ![u0] = Len(dmText)]
      OBVIOUS
    <2>2. dmRoom' = [dmRoom EXCEPT ![r0] = [dmRoom[r0] EXCEPT !.lastRead = f]]
      BY <1>1, <1>3, <2>1 DEF MarkDirect
    <2>3. r0 \in Kept(dmRoom)
      BY <1>3 DEF Joined
    <2>4. /\ r # r0 => DmStays(r)
          /\ r0 \in DOMAIN dmRoom /\ r0 \in DOMAIN dmRoom' /\ r0 \in Kept(dmRoom)'
          /\ Joined(r0) = DOMAIN dmRoom[r0].lastRead /\ Joined(r0)' = DOMAIN f
      BY <2>2, <2>3, MarksOnly
    <2>5. DOMAIN f = DOMAIN dmRoom[r0].lastRead
      BY <2>1
    <2> QED
      BY <2>3, <2>4, <2>5 DEF DmStays
  <1> QED
    BY <1>2, <1>3

LEMMA LeaveLeaves ==
  ASSUME DirectInv, NEW s \in ChatSlots, RemoveMember(s), NEW r \in DmRooms
  PROVE  DmStays(r) \/ DmLeft(r)
  <1>1. PICK r0, u0 : r0 = asked[s].room /\ u0 = asked[s].user
    OBVIOUS
  <1>2. CASE r0 \notin Kept(dmRoom)
    <2>1. dmRoom' = dmRoom
      BY <1>1, <1>2 DEF RemoveMember
    <2> QED
      BY <2>1, SameRoomStays
  <1>3. CASE r0 \in Kept(dmRoom)
    <2>1. PICK f : f = [m \in Joined(r0) \ {u0} |-> dmRoom[r0].lastRead[m]]
      OBVIOUS
    <2>2. dmRoom' = [dmRoom EXCEPT ![r0] = [dmRoom[r0] EXCEPT !.lastRead = f]]
      BY <1>1, <1>3, <2>1 DEF RemoveMember
    <2>3. /\ r # r0 => DmStays(r)
          /\ r0 \in DOMAIN dmRoom /\ r0 \in DOMAIN dmRoom' /\ r0 \in Kept(dmRoom)'
          /\ Joined(r0)' = DOMAIN f
      BY <1>3, <2>2, MarksOnly
    <2>4. DOMAIN f = Joined(r0) \ {u0}
      BY <2>1
    <2>5. CASE u0 \in Joined(r0)
      <3>1. DmLeft(r0)
        BY <1>3, <2>3, <2>4, <2>5 DEF DmLeft
      <3> QED
        BY <2>3, <3>1
    <2>6. CASE u0 \notin Joined(r0)
      <3>1. DmStays(r0)
        BY <1>3, <2>3, <2>4, <2>6 DEF DmStays
      <3> QED
        BY <2>3, <3>1
    <2> QED
      BY <2>5, <2>6
  <1> QED
    BY <1>2, <1>3

\* The room was found empty by an earlier query, and is empty still.
LEMMA RemoveRemoves ==
  ASSUME DirectInv, NEW s \in ChatSlots, RemoveRoom(s), NEW r \in DmRooms
  PROVE  DmStays(r) \/ DmRemoved(r)
  <1>1. PICK r0 : r0 = asked[s].room
    OBVIOUS
  <1>2. r0 \in Kept(dmRoom) /\ dmRoom' = [dmRoom EXCEPT ![r0] = NoRow] /\ At(s, "removeRoom")
    BY <1>1 DEF RemoveRoom
  <1>3. Joined(r0) = {}
    BY <1>1, <1>2 DEF DirectInv, LeavingSound
  <1>4. /\ r0 \in DOMAIN dmRoom /\ DOMAIN dmRoom' = DOMAIN dmRoom /\ dmRoom'[r0] = NoRow
        /\ \A x \in DOMAIN dmRoom : x # r0 => dmRoom'[x] = dmRoom[x]
    BY <1>2 DEF Kept
  <1>5. r = r0 => DmRemoved(r)
    BY <1>2, <1>3, <1>4 DEF DmRemoved, Kept
  <1>6. CASE r # r0 /\ r \in DOMAIN dmRoom
    BY <1>4, <1>6, SameRoomStays
  <1>7. CASE r # r0 /\ r \notin DOMAIN dmRoom
    BY <1>4, <1>7 DEF DmStays, Kept, Joined
  <1> QED
    BY <1>5, <1>6, <1>7

LEMMA FateOfDirectRoom ==
  ASSUME DirectInv, OpensWithTwo, [DmNext]_dmVars, NEW r \in DmRooms
  PROVE  DmStays(r) \/ DmOpens(r) \/ DmLeft(r) \/ DmRemoved(r)
  <1>1. CASE dmRoom' = dmRoom
    BY <1>1, SameRoomStays
  <1>2. CASE dmRoom' # dmRoom
    <2>1. PICK s \in ChatSlots :
            CreateDirect(s) \/ MarkDirect(s) \/ RemoveMember(s) \/ RemoveRoom(s)
      BY <1>2 DEF DmNext, dmVars, OpenDirect, Enter, Ask, InsertDirect, TouchDirect, ReadDirect,
                  CountMembers, FailDirect, WithdrawItem
    <2> QED
      BY <2>1, CreateOpens, MarkStays, LeaveLeaves, RemoveRemoves
  <1> QED
    BY <1>1, <1>2

DmLifeGoesOn(before, after) ==
  \/ after = before
  \/ DmLife!Opens(before, after)
  \/ DmLife!BeginsToLeave(before, after) \/ DmLife!GivesUp(before, after)
  \/ DmLife!Leaves(before, after)
  \/ DmLife!Goes(before, after)

LEMMA DmLifeIs ==
  ASSUME NEW r
  PROVE  /\ r \notin DOMAIN dmRoom =>
              DmLifeOf(r) = [is |-> "unopened", staying |-> {}, leaving |-> {}]
         /\ r \in DOMAIN dmRoom /\ r \in Kept(dmRoom) =>
              DmLifeOf(r) = [is |-> "open", staying |-> Joined(r), leaving |-> {}]
         /\ r \in DOMAIN dmRoom /\ r \notin Kept(dmRoom) =>
              DmLifeOf(r) = [is |-> "gone", staying |-> {}, leaving |-> {}]
         /\ r \notin DOMAIN dmRoom' =>
              DmLifeOf(r)' = [is |-> "unopened", staying |-> {}, leaving |-> {}]
         /\ r \in DOMAIN dmRoom' /\ r \in Kept(dmRoom)' =>
              DmLifeOf(r)' = [is |-> "open", staying |-> Joined(r)', leaving |-> {}]
         /\ r \in DOMAIN dmRoom' /\ r \notin Kept(dmRoom)' =>
              DmLifeOf(r)' = [is |-> "gone", staying |-> {}, leaving |-> {}]
  BY DEF DmLifeOf

LEMMA DmLifeStep ==
  ASSUME DirectInv, OpensWithTwo, [DmNext]_dmVars, NEW r \in DmRooms
  PROVE  DmLifeGoesOn(DmLifeOf(r), DmLifeOf(r)')
  <1>1. PICK before : before = DmLifeOf(r)
    OBVIOUS
  <1>2. PICK after : after = DmLifeOf(r)'
    OBVIOUS
  <1>3. CASE DmStays(r)
    <2>1. after = before
      <3>1. CASE r \notin DOMAIN dmRoom
        BY <1>1, <1>2, <1>3, <3>1, DmLifeIs DEF DmStays
      <3>2. CASE r \in DOMAIN dmRoom /\ r \in Kept(dmRoom)
        BY <1>1, <1>2, <1>3, <3>2, DmLifeIs DEF DmStays
      <3>3. CASE r \in DOMAIN dmRoom /\ r \notin Kept(dmRoom)
        BY <1>1, <1>2, <1>3, <3>3, DmLifeIs DEF DmStays
      <3> QED
        BY <3>1, <3>2, <3>3
    <2> QED
      BY <1>1, <1>2, <2>1 DEF DmLifeGoesOn
  <1>4. CASE DmOpens(r)
    <2>1. PICK a \in Talkers, b \in Talkers : a # b /\ Joined(r)' = {a, b}
      BY <1>4 DEF DmOpens
    <2>2. before = [is |-> "unopened", staying |-> {}, leaving |-> {}]
      BY <1>1, <1>4, DmLifeIs DEF DmOpens
    <2>3. after = [is |-> "open", staying |-> {a, b}, leaving |-> {}]
      BY <1>2, <1>4, <2>1, DmLifeIs DEF DmOpens
    <2>4. DmLife!Opens(before, after)
      BY <2>1, <2>2, <2>3 DEF DmLife!Opens, DmLife!Unopened, DmLife!Open
    <2> QED
      BY <1>1, <1>2, <2>4 DEF DmLifeGoesOn
  <1>5. CASE DmLeft(r)
    <2>1. PICK u \in Joined(r) : Joined(r)' = Joined(r) \ {u}
      BY <1>5 DEF DmLeft
    <2>2. before = [is |-> "open", staying |-> Joined(r), leaving |-> {}]
      BY <1>1, <1>5, DmLifeIs DEF DmLeft
    <2>3. after = [is |-> "open", staying |-> Joined(r) \ {u}, leaving |-> {}]
      BY <1>2, <1>5, <2>1, DmLifeIs DEF DmLeft
    <2>4. /\ before.is = "open" /\ before.leaving = {} /\ u \in before.staying
          /\ before.staying = Joined(r)
      BY <2>1, <2>2
    <2>5. DmLife!Leaves(before, after)
      BY <2>3, <2>4 DEF DmLife!Leaves, DmLife!Open
    <2> QED
      BY <1>1, <1>2, <2>5 DEF DmLifeGoesOn
  <1>6. CASE DmRemoved(r)
    <2>1. before = [is |-> "open", staying |-> {}, leaving |-> {}]
      BY <1>1, <1>6, DmLifeIs DEF DmRemoved
    <2>2. after = [is |-> "gone", staying |-> {}, leaving |-> {}]
      BY <1>2, <1>6, DmLifeIs DEF DmRemoved
    <2>3. DmLife!Goes(before, after)
      BY <2>1, <2>2 DEF DmLife!Goes, DmLife!Gone
    <2> QED
      BY <1>1, <1>2, <2>3 DEF DmLifeGoesOn
  <1> QED
    BY <1>3, <1>4, <1>5, <1>6, FateOfDirectRoom

\* However the queries of those who leave overlap: a room opens with a buyer and
\* the seller, each leaves it once, it is removed only when both have left,
\* although it was found empty by an earlier query, and it never comes back
\* (findOrCreateChatRoom, leaveChatRoom).
THEOREM DirectRoomsLiveAsPromised == DmSpec => FollowsRoomLife
  <1> DEFINE dmLives == [r \in DmRooms |-> DmLifeOf(r)]
  <1>1. DmInit => DmLife!Init /\ OpensWithTwo
    <2> SUFFICES ASSUME DmInit PROVE DmLife!Init /\ OpensWithTwo
      OBVIOUS
    <2>1. ASSUME NEW r \in DmRooms PROVE DmLifeOf(r) = DmLife!Unopened
      <3>1. r \notin DOMAIN dmRoom
        BY DEF DmInit
      <3> QED
        BY <3>1, DmLifeIs DEF DmLife!Unopened
    <2>2. DmLife!Init
      BY <2>1 DEF DmLife!Init
    <2>3. OpensWithTwo
      BY NothingIsAsked DEF DmInit, OpensWithTwo, At
    <2> QED
      BY <2>2, <2>3
  <1>2. DirectInv /\ OpensWithTwo /\ [DmNext]_dmVars => OpensWithTwo'
    BY OpensWithTwoStep
  <1>3. DirectInv /\ OpensWithTwo /\ [DmNext]_dmVars => [DmLife!Next]_dmLives
    <2> SUFFICES ASSUME DirectInv, OpensWithTwo, [DmNext]_dmVars PROVE DmLife!Next
      OBVIOUS
    <2>1. \A r \in DmRooms : DmLifeGoesOn(DmLifeOf(r), DmLifeOf(r)')
      BY DmLifeStep
    <2>2. dmLives' = [r \in DmRooms |-> DmLifeOf(r)']
      BY DEF DmRooms
    <2> QED
      BY <2>1, <2>2 DEF DmLife!Next, DmLifeGoesOn
  <1> QED
    BY <1>1, <1>2, <1>3, DirectHolds, PTL DEF DmSpec, FollowsRoomLife, DmLife!Spec

-----------------------------------------------------------------------------
(***************************************************************************)
(* Conversions                                                             *)
(*                                                                         *)
(* A client's walk has as many pages as the list makes it have.  That he   *)
(* gets to each of them is shown by the first one he would not get to.     *)
(***************************************************************************)
LessThan == {p \in Nat \X Nat : p[1] < p[2]}

LEMMA LessThanIsLess == OpToRel(<, Nat) = LessThan
  BY DEF OpToRel, LessThan

\* A set of numbers that is not empty has a least one.
LEMMA LeastNumber ==
  ASSUME NEW T \in SUBSET Nat, T # {}
  PROVE  \E n \in T : \A m \in T : n <= m
  <1>1. IsWellFoundedOn(LessThan, Nat)
    BY NatLessThanWellFounded, LessThanIsLess
  <1>2. PICK n \in T : \A m \in T : <<m, n>> \notin LessThan
    BY <1>1, WFMin
  <1>3. \A m \in T : ~(m < n)
    BY <1>2 DEF LessThan
  <1> QED
    BY <1>3

\* m steps of a walk, each of which leads on to the next.
Leads(at, m, next) ==
  \A k \in 0..m : /\ at[k] \in DOMAIN next
                  /\ k < m => next[at[k]] = at[k + 1]

\* Where a client is after steps that each lead him on is followed.
LEMMA StepsAreFollowed ==
  ASSUME NEW first, NEW next, NEW at, NEW m \in Nat, at[0] = first, Leads(at, m, next)
  PROVE  at[m] \in Followed(first, next)
  <1> SUFFICES ASSUME NEW S \in SUBSET DOMAIN next, first \in S,
                      \A y \in S : next[y] \in DOMAIN next => next[y] \in S
               PROVE  at[m] \in S
    BY DEF Followed, Leads
  <1>1. PICK T : T = {k \in 0..m : at[k] \notin S}
    OBVIOUS
  <1>2. T = {}
    <2> SUFFICES ASSUME T # {} PROVE FALSE
      OBVIOUS
    <2>1. T \in SUBSET Nat
      BY <1>1
    <2>2. PICK n \in T : \A k \in T : n <= k
      BY <2>1, LeastNumber
    <2>3. n \in 0..m /\ at[n] \notin S
      BY <1>1, <2>2
    <2>4. n # 0
      BY <2>3
    <2>5. n - 1 \in 0..m /\ n - 1 < m /\ n - 1 + 1 = n
      BY <2>3, <2>4
    <2>6. n - 1 \notin T
      BY <2>2, <2>5
    <2>7. at[n - 1] \in S
      BY <1>1, <2>5, <2>6
    <2>8. next[at[n - 1]] = at[n]
      BY <2>5 DEF Leads
    <2> QED
      BY <2>3, <2>7, <2>8 DEF Leads
  <1> QED
    BY <1>1, <1>2

\* A function on 1..n is a sequence of its values.
LEMMA SpanIs ==
  ASSUME NEW a \in Nat, NEW b \in Int
  PROVE  /\ Span(a, b) \in Seq(Nat)
         /\ Len(Span(a, b)) = IF b >= a THEN b + 1 - a ELSE 0
         /\ \A i \in 1..Len(Span(a, b)) : Span(a, b)[i] = a + i - 1
         /\ DOMAIN Span(a, b) = 1..Len(Span(a, b))
         /\ Span(a, b) # <<>> <=> a <= b
  <1>1. PICK n : n = IF b >= a THEN b + 1 - a ELSE 0
    OBVIOUS
  <1>0. n \in Nat
    BY <1>1
  <1>2. PICK s : s = Span(a, b)
    OBVIOUS
  <1>3. s = [i \in 1..n |-> a + i - 1]
    BY <1>1, <1>2 DEF Span
  <1>4. s \in [1..n -> Nat] /\ \A i \in 1..n : s[i] = a + i - 1
    BY <1>0, <1>3
  <1>5. s \in Seq(Nat) /\ Len(s) = n
    BY <1>0, <1>4
  <1>6. s # <<>> <=> n # 0
    BY <1>0, <1>5
  <1>7. n # 0 <=> a <= b
    BY <1>1
  <1> QED
    BY <1>0, <1>1, <1>2, <1>3, <1>4, <1>5, <1>6, <1>7
-----------------------------------------------------------------------------
(***************************************************************************)
(* The page numbers under a list                                           *)
(***************************************************************************)
LEMMA Appended ==
  ASSUME NEW s \in Seq(Nat), NEW t \in Seq(Nat)
  PROVE  /\ s \o t \in Seq(Nat) /\ Len(s \o t) = Len(s) + Len(t)
         /\ Len(s) \in Nat /\ Len(t) \in Nat
         /\ \A i \in 1..Len(s) : (s \o t)[i] = s[i]
         /\ \A i \in 1..Len(t) : (s \o t)[Len(s) + i] = t[i]
  <1>1. s \o t \in Seq(Nat) /\ Len(s \o t) = Len(s) + Len(t)
    BY ConcatProperties
  <1>2. \A i \in 1..Len(s) + Len(t) : (s \o t)[i] = IF i <= Len(s) THEN s[i] ELSE t[i - Len(s)]
    BY ConcatProperties
  <1>3. Len(s) \in Nat /\ Len(t) \in Nat
    OBVIOUS
  <1>4. \A i \in 1..Len(s) : (s \o t)[i] = s[i]
    BY <1>2, <1>3
  <1>5. \A i \in 1..Len(t) : (s \o t)[Len(s) + i] = t[i]
    BY <1>2, <1>3
  <1> QED
    BY <1>1, <1>3, <1>4, <1>5

\* An entry that is there or not.
LEMMA WhenIs ==
  ASSUME NEW b \in BOOLEAN, NEW x \in Nat
  PROVE  \E n \in {0, 1} :
           /\ n = 1 <=> b
           /\ When(b, <<x>>) \in Seq(Nat) /\ Len(When(b, <<x>>)) = n
           /\ n = 1 => When(b, <<x>>)[1] = x
  <1>1. CASE b
    BY <1>1 DEF When
  <1>2. CASE ~b
    BY <1>2 DEF When
  <1> QED
    BY <1>1, <1>2

\* What stands where in the page range: a and b are the gaps, m the pages between
\* them, e the last page.
RangeShape(s, a, m, b, e) ==
  LET r == getPageRange(s)  L == LeftEnd(s)  R == RightEnd(s) IN
  /\ a = 1 <=> L > 2
  /\ m = IF R >= L THEN R + 1 - L ELSE 0
  /\ b = 1 <=> R + 1 < s.total
  /\ e = 1 <=> s.total > 1
  /\ r \in Seq(Nat) /\ Len(r) = 1 + a + m + b + e
  /\ r[1] = 1
  /\ a = 1 => r[2] = Gap
  /\ \A i \in 1..m : r[1 + a + i] = L + i - 1
  /\ b = 1 => r[1 + a + m + 1] = Gap
  /\ e = 1 => r[1 + a + m + b + 1] = s.total

LEMMA RangeIs ==
  ASSUME NEW s, s.current \in Nat, s.total \in Nat, s.delta \in Nat,
         1 <= s.current, s.current <= s.total
  PROVE  \E a \in {0, 1}, m \in Nat, b \in {0, 1}, e \in {0, 1} : RangeShape(s, a, m, b, e)
  <1>1. PICK L \in Nat : L = LeftEnd(s)
    BY DEF LeftEnd
  <1>2. PICK R \in Int : R = RightEnd(s)
    BY DEF RightEnd
  <1>3. PICK A : A = When(L > 2, <<Gap>>)
    OBVIOUS
  <1>4. PICK B : B = When(R + 1 < s.total, <<Gap>>)
    OBVIOUS
  <1>5. PICK E : E = When(s.total > 1, <<s.total>>)
    OBVIOUS
  <1>6. PICK M : M = Span(L, R)
    OBVIOUS
  <1>7. Gap \in Nat /\ (L > 2) \in BOOLEAN /\ (R + 1 < s.total) \in BOOLEAN /\ (s.total > 1) \in BOOLEAN
    BY DEF Gap
  <1>8. PICK a \in {0, 1} : (a = 1 <=> L > 2) /\ A \in Seq(Nat) /\ Len(A) = a /\ (a = 1 => A[1] = Gap)
    BY <1>3, <1>7, WhenIs
  <1>9. PICK b \in {0, 1} : (b = 1 <=> R + 1 < s.total) /\ B \in Seq(Nat) /\ Len(B) = b
                            /\ (b = 1 => B[1] = Gap)
    BY <1>4, <1>7, WhenIs
  <1>10. PICK e \in {0, 1} : (e = 1 <=> s.total > 1) /\ E \in Seq(Nat) /\ Len(E) = e
                             /\ (e = 1 => E[1] = s.total)
    BY <1>5, <1>7, WhenIs
  <1>11. PICK m : m = Len(M)
    OBVIOUS
  <1>0. /\ m = IF R >= L THEN R + 1 - L ELSE 0
        /\ M \in Seq(Nat) /\ Len(M) = m /\ m \in Nat /\ \A i \in 1..m : M[i] = L + i - 1
    <2>1. /\ M \in Seq(Nat)
          /\ Len(M) = IF R >= L THEN R + 1 - L ELSE 0
          /\ \A i \in 1..Len(M) : M[i] = L + i - 1
      BY <1>6, SpanIs, Zenon
    <2>2. Len(M) \in Nat
      BY <2>1
    <2> QED
      BY <1>11, <2>1, <2>2
  <1>12. PICK r1 : r1 = <<1>> \o A
    OBVIOUS
  <1>13. PICK r2 : r2 = r1 \o M
    OBVIOUS
  <1>14. PICK r3 : r3 = r2 \o B
    OBVIOUS
  <1>15. PICK r : r = r3 \o E
    OBVIOUS
  <1>16. r = getPageRange(s)
    BY <1>1, <1>2, <1>3, <1>4, <1>5, <1>6, <1>12, <1>13, <1>14, <1>15 DEF getPageRange
  <1>17. /\ r1 \in Seq(Nat) /\ Len(r1) = 1 + a
         /\ r1[1] = 1 /\ (a = 1 => r1[2] = Gap)
    <2>1. <<1>> \in Seq(Nat) /\ Len(<<1>>) = 1 /\ <<1>>[1] = 1
      OBVIOUS
    <2>2. /\ r1 \in Seq(Nat) /\ Len(r1) = 1 + a
          /\ \A i \in 1..1 : r1[i] = <<1>>[i]
          /\ \A i \in 1..a : r1[1 + i] = A[i]
      BY <2>1, <1>8, <1>12, Appended
    <2> QED
      BY <2>1, <2>2, <1>8
  <1>18. /\ r2 \in Seq(Nat) /\ Len(r2) = 1 + a + m
         /\ \A i \in 1..1 + a : r2[i] = r1[i]
         /\ \A i \in 1..m : r2[1 + a + i] = L + i - 1
    <2>1. /\ r2 \in Seq(Nat) /\ Len(r2) = Len(r1) + Len(M)
          /\ \A i \in 1..Len(r1) : r2[i] = r1[i]
          /\ \A i \in 1..Len(M) : r2[Len(r1) + i] = M[i]
      BY <1>0, <1>13, <1>17, Appended
    <2> QED
      BY <2>1, <1>0, <1>17
  <1>19. /\ r3 \in Seq(Nat) /\ Len(r3) = 1 + a + m + b
         /\ \A i \in 1..1 + a + m : r3[i] = r2[i]
         /\ b = 1 => r3[1 + a + m + 1] = Gap
    <2>1. /\ r3 \in Seq(Nat) /\ Len(r3) = Len(r2) + Len(B)
          /\ \A i \in 1..Len(r2) : r3[i] = r2[i]
          /\ \A i \in 1..Len(B) : r3[Len(r2) + i] = B[i]
      BY <1>9, <1>14, <1>18, Appended
    <2> QED
      BY <2>1, <1>9, <1>18
  <1>20. /\ r \in Seq(Nat) /\ Len(r) = 1 + a + m + b + e
         /\ \A i \in 1..1 + a + m + b : r[i] = r3[i]
         /\ e = 1 => r[1 + a + m + b + 1] = s.total
    <2>1. /\ r \in Seq(Nat) /\ Len(r) = Len(r3) + Len(E)
          /\ \A i \in 1..Len(r3) : r[i] = r3[i]
          /\ \A i \in 1..Len(E) : r[Len(r3) + i] = E[i]
      BY <1>10, <1>15, <1>19, Appended
    <2> QED
      BY <2>1, <1>10, <1>19
  <1>21. a \in Nat /\ b \in Nat /\ m \in Nat
    BY <1>0
  <1>22. r[1] = 1
    BY <1>17, <1>18, <1>19, <1>20, <1>21
  <1>23. a = 1 => r[2] = Gap
    BY <1>17, <1>18, <1>19, <1>20, <1>21
  <1>24. \A i \in 1..m : r[1 + a + i] = L + i - 1
    <2> TAKE i \in 1..m
    <2>1. 1 + a + i \in 1..1 + a + m /\ 1 + a + i \in 1..1 + a + m + b
      BY <1>21
    <2> QED
      BY <2>1, <1>18, <1>19, <1>20
  <1>25. b = 1 => r[1 + a + m + 1] = Gap
    BY <1>19, <1>20, <1>21
  <1>26. RangeShape(s, a, m, b, e)
    BY <1>1, <1>2, <1>8, <1>9, <1>10, <1>0, <1>16, <1>20, <1>22, <1>23, <1>24, <1>25
       DEF RangeShape
  <1> QED
    BY <1>21, <1>26

\* Between the ends there are no pages to leave out that are not left out.
LEMMA RangeEnds ==
  ASSUME NEW s, s.current \in Nat, s.total \in Nat, s.delta \in Nat,
         1 <= s.current, s.current <= s.total
  PROVE  LET L == LeftEnd(s)  R == RightEnd(s) IN
         /\ L \in Nat /\ R \in Nat /\ 2 <= L /\ R <= s.total - 1
         /\ s.total > 1 => L <= R + 1
         /\ L > 2 => L = s.current - s.delta
         /\ R + 1 < s.total => R = s.current + s.delta
         /\ s.current - s.delta <= L /\ R <= s.current + s.delta
  BY DEF LeftEnd, RightEnd

LEMMA RangeShows ==
  ASSUME NEW s, s.current \in Nat, s.total \in Nat, s.delta \in Nat,
         1 <= s.current, s.current <= s.total
  PROVE  ShownPages(s) = {p \in 1..s.total : p \in {1, s.total}
           \/ (p <= s.current + s.delta /\ s.current <= p + s.delta)}
  <1>1. PICK a \in {0, 1}, m \in Nat, b \in {0, 1}, e \in {0, 1} : RangeShape(s, a, m, b, e)
    BY RangeIs
  <1>2. PICK L \in Nat : L = LeftEnd(s)
    BY RangeEnds
  <1>3. PICK R \in Nat : R = RightEnd(s)
    BY RangeEnds
  <1>4. PICK r : r = getPageRange(s)
    OBVIOUS
  <1>5. PICK t \in Nat : t = s.total
    OBVIOUS
  <1>6. /\ a = 1 <=> L > 2
        /\ m = IF R >= L THEN R + 1 - L ELSE 0
        /\ b = 1 <=> R + 1 < t
        /\ e = 1 <=> t > 1
        /\ DOMAIN r = 1..1 + a + m + b + e
        /\ r[1] = 1
        /\ a = 1 => r[2] = 0
        /\ \A i \in 1..m : r[1 + a + i] = L + i - 1
        /\ b = 1 => r[1 + a + m + 1] = 0
        /\ e = 1 => r[1 + a + m + b + 1] = t
    BY <1>1, <1>2, <1>3, <1>4, <1>5 DEF RangeShape, Gap
  <1>7. /\ 2 <= L /\ R <= t - 1 /\ t >= 1
        /\ s.current - s.delta <= L /\ R <= s.current + s.delta
    BY <1>2, <1>3, <1>5, RangeEnds
  <1>8. ASSUME NEW i \in DOMAIN r, r[i] # 0
        PROVE  /\ r[i] \in 1..t
               /\ \/ r[i] \in {1, t}
                  \/ r[i] <= s.current + s.delta /\ s.current <= r[i] + s.delta
    <2>1. i \in Nat /\ 1 <= i /\ i <= 1 + a + m + b + e
      BY <1>6, <1>8
    <2>2. CASE i = 1
      BY <2>2, <1>6, <1>7
    <2>3. CASE 2 <= i /\ i <= 1 + a
      BY <2>1, <2>3, <1>6, <1>8
    <2>4. CASE 1 + a + 1 <= i /\ i <= 1 + a + m
      <3>1. i - 1 - a \in 1..m /\ 1 + a + (i - 1 - a) = i
        BY <2>1, <2>4
      <3>2. PICK k \in 1..m : k = i - 1 - a
        BY <3>1
      <3>3. r[i] = L + k - 1
        BY <3>1, <3>2, <1>6
      <3>4. m = R + 1 - L /\ k <= m /\ 1 <= k
        BY <3>2, <1>6
      <3>5. L <= r[i] /\ r[i] <= R /\ r[i] \in Nat
        BY <3>2, <3>3, <3>4
      <3> QED
        BY <3>5, <1>7
    <2>5. CASE b = 1 /\ i = 1 + a + m + 1
      BY <2>5, <1>6, <1>8
    <2>6. CASE e = 1 /\ i = 1 + a + m + b + 1
      BY <2>6, <1>6, <1>7
    <2> QED
      BY <2>1, <2>2, <2>3, <2>4, <2>5, <2>6
  <1>9. ASSUME NEW p \in 1..t,
               \/ p \in {1, t}
               \/ p <= s.current + s.delta /\ s.current <= p + s.delta
        PROVE  \E i \in DOMAIN r : r[i] = p
    <2>1. CASE p = 1
      BY <2>1, <1>6
    <2>2. CASE p = t /\ p # 1
      <3>1. e = 1 /\ 1 + a + m + b + 1 \in DOMAIN r
        BY <2>2, <1>6
      <3> QED
        BY <3>1, <2>2, <1>6
    <2>3. CASE p # 1 /\ p # t
      <3>1. L <= p /\ p <= R
        BY <2>3, <1>9, <1>2, <1>3, <1>5 DEF LeftEnd, RightEnd
      <3>2. p - L + 1 \in 1..m /\ L + (p - L + 1) - 1 = p
        BY <3>1, <1>6
      <3>3. 1 + a + (p - L + 1) \in DOMAIN r
        BY <3>2, <1>6
      <3> QED
        BY <3>2, <3>3, <1>6
    <2> QED
      BY <2>1, <2>2, <2>3
  <1>10. ShownPages(s) = {r[i] : i \in DOMAIN r} \ {0}
    BY <1>4 DEF ShownPages, Gap
  <1> QED
    BY <1>5, <1>8, <1>9, <1>10

\* '...' stands between two pages that are no neighbours, and only there.
LEMMA GapsFit ==
  ASSUME NEW s, s.current \in Nat, s.total \in Nat, s.delta \in Nat,
         1 <= s.current, s.current <= s.total
  PROVE  LET r == getPageRange(s) IN
         \A i \in DOMAIN r \ {1} :
            IF r[i] = Gap THEN r[i + 1] > r[i - 1] + 1
                          ELSE r[i - 1] = Gap \/ r[i] = r[i - 1] + 1
  <1>1. PICK a \in {0, 1}, m \in Nat, b \in {0, 1}, e \in {0, 1} : RangeShape(s, a, m, b, e)
    BY RangeIs
  <1>2. PICK L \in Nat : L = LeftEnd(s)
    BY RangeEnds
  <1>3. PICK R \in Nat : R = RightEnd(s)
    BY RangeEnds
  <1>4. PICK r : r = getPageRange(s)
    OBVIOUS
  <1>5. PICK t \in Nat : t = s.total
    OBVIOUS
  <1>6. /\ a = 1 <=> L > 2
        /\ m = IF R >= L THEN R + 1 - L ELSE 0
        /\ b = 1 <=> R + 1 < t
        /\ e = 1 <=> t > 1
        /\ DOMAIN r = 1..1 + a + m + b + e
        /\ r[1] = 1
        /\ a = 1 => r[2] = 0
        /\ \A i \in 1..m : r[1 + a + i] = L + i - 1
        /\ b = 1 => r[1 + a + m + 1] = 0
        /\ e = 1 => r[1 + a + m + b + 1] = t
    BY <1>1, <1>2, <1>3, <1>4, <1>5 DEF RangeShape, Gap
  <1>7. /\ 2 <= L /\ R <= t - 1 /\ t >= 1
        /\ t > 1 => L <= R + 1
        /\ L > 2 => L = s.current - s.delta
        /\ R + 1 < t => R = s.current + s.delta
    BY <1>2, <1>3, <1>5, RangeEnds
  <1>8. ASSUME NEW i \in DOMAIN r \ {1}
        PROVE  IF r[i] = 0 THEN r[i + 1] > r[i - 1] + 1
                           ELSE r[i - 1] = 0 \/ r[i] = r[i - 1] + 1
    <2>1. i \in Nat /\ 2 <= i /\ i <= 1 + a + m + b + e
      BY <1>6, <1>8
    <2>2. CASE a = 1 /\ i = 2
      <3>1. r[i] = 0 /\ r[i - 1] = 1
        BY <2>2, <1>6
      <3>2. CASE m = 0
        <4>0. L > 2 /\ L = s.current - s.delta /\ R < L
          BY <2>2, <3>2, <1>6, <1>7
        <4>1. b = 0 /\ e = 1 /\ t > 2
          <5>1. s.current <= t /\ s.current \in Nat /\ s.delta \in Nat
            BY <1>5
          <5>2. t > 2
            BY <4>0, <5>1
          <5>3. ~(R + 1 < t)
            BY <4>0, <5>1, <1>7
          <5> QED
            BY <5>2, <5>3, <1>6
        <4>2. 1 + a + m + b + 1 = i + 1
          BY <4>1, <2>2, <3>2
        <4>3. r[i + 1] = t
          BY <4>1, <4>2, <1>6
        <4> QED
          BY <3>1, <4>1, <4>3
      <3>3. CASE m # 0
        <4>1. 1 \in 1..m /\ 1 + a + 1 = i + 1
          BY <2>2, <3>3
        <4>2. r[i + 1] = L + 1 - 1
          BY <4>1, <1>6
        <4> QED
          BY <3>1, <4>2, <2>2, <1>6
      <3> QED
        BY <3>2, <3>3
    <2>3. CASE 1 + a + 1 <= i /\ i <= 1 + a + m
      <3>1. i - 1 - a \in 1..m /\ 1 + a + (i - 1 - a) = i
        BY <2>1, <2>3
      <3>2. PICK k \in 1..m : k = i - 1 - a
        BY <3>1
      <3>3. r[i] = L + k - 1 /\ r[i] # 0
        <4>1. k \in Nat /\ 1 <= k
          BY <3>2
        <4>2. r[i] = L + k - 1
          BY <3>1, <3>2, <1>6
        <4> QED
          BY <4>1, <4>2, <1>7
      <3>4. CASE k = 1
        <4>1. i - 1 = 1 + a
          BY <3>2, <3>4, <2>1
        <4>2. CASE a = 1
          BY <4>1, <4>2, <3>3, <1>6
        <4>3. CASE a = 0
          BY <4>1, <4>3, <3>3, <3>4, <1>6, <1>7
        <4> QED
          BY <4>2, <4>3
      <3>5. CASE k # 1
        <4>1. k - 1 \in 1..m /\ 1 + a + (k - 1) = i - 1
          BY <3>2, <3>5, <2>1
        <4>2. r[i - 1] = L + (k - 1) - 1
          BY <4>1, <1>6
        <4> QED
          BY <4>2, <3>3
      <3> QED
        BY <3>4, <3>5
    <2>4. (r[1 + a + m] \in {R, 0} /\ (a = 0 \/ m # 0 => r[1 + a + m] = R)) \/ t = 1
      <3>1. CASE t = 1
        BY <3>1
      <3>2. CASE t # 1 /\ m # 0
        <4>1. m \in 1..m /\ L + m - 1 = R
          BY <3>2, <1>6
        <4> QED
          BY <4>1, <1>6
      <3>3. CASE t # 1 /\ m = 0 /\ a = 0
        <4>1. 1 + a + m = 1 /\ R = 1
          BY <3>3, <1>6, <1>7
        <4> QED
          BY <4>1, <1>6
      <3>4. CASE t # 1 /\ m = 0 /\ a = 1
        <4>1. 1 + a + m = 2
          BY <3>4
        <4> QED
          BY <3>4, <4>1, <1>6
      <3> QED
        BY <3>1, <3>2, <3>3, <3>4
    <2>5. CASE b = 1 /\ i = 1 + a + m + 1
      <3>1. t > 1 /\ e = 1 /\ R + 1 < t
        BY <2>5, <1>6, <1>7
      <3>2. a = 0 \/ m # 0
        BY <3>1, <1>6, <1>7
      <3>3. r[i - 1] = R
        <4>1. i - 1 = 1 + a + m
          BY <2>5
        <4> QED
          BY <4>1, <2>4, <3>1, <3>2
      <3>4. r[i] = 0 /\ r[i + 1] = t
        <4>1. i + 1 = 1 + a + m + b + 1
          BY <2>5
        <4> QED
          BY <2>5, <3>1, <4>1, <1>6
      <3> QED
        BY <3>1, <3>3, <3>4
    <2>6. CASE e = 1 /\ i = 1 + a + m + b + 1
      <3>1. r[i] = t /\ r[i] # 0 /\ t > 1
        BY <2>6, <1>6, <1>7
      <3>2. CASE b = 1
        <4>1. i - 1 = 1 + a + m + 1
          BY <2>6, <3>2
        <4> QED
          BY <4>1, <3>1, <3>2, <1>6
      <3>3. CASE b = 0
        <4>1. i - 1 = 1 + a + m /\ R + 1 = t
          BY <2>6, <3>1, <3>3, <1>6, <1>7
        <4> QED
          BY <4>1, <3>1, <2>4
      <3> QED
        BY <3>2, <3>3
    <2> QED
      BY <2>1, <2>2, <2>3, <2>5, <2>6
  <1> QED
    BY <1>4, <1>8 DEF Gap
-----------------------------------------------------------------------------
(***************************************************************************)
(* The pages of a list that is read by offset                              *)
(***************************************************************************)
\* There is another page as long as the rows of the pages so far are fewer than
\* the total.
LEMMA PagesBehind ==
  ASSUME NEW p \in Nat, NEW n \in Nat, NEW l \in Nat \ {0}
  PROVE  p < getTotalPages(n, l) <=> p * l < n
  <1>1. PICK k \in Nat : k = n + l - 1
    OBVIOUS
  <1>2. k \div l \in Nat /\ l * (k \div l) <= k /\ k < l * (k \div l) + l
    BY <1>1
  <1>3. PICK q \in Nat : q = k \div l
    BY <1>2
  <1>4. l * q <= k /\ k < l * q + l
    BY <1>2, <1>3
  <1>5. q = getTotalPages(n, l)
    BY <1>1, <1>3 DEF getTotalPages
  <1>6. p < q => p * l < n
    <2> SUFFICES ASSUME p < q PROVE p * l < n
      OBVIOUS
    <2>1. p * l + l <= l * q
      BY SMT
    <2> QED
      BY <2>1, <1>1, <1>4
  <1>7. p >= q => p * l >= n
    <2> SUFFICES ASSUME p >= q PROVE p * l >= n
      OBVIOUS
    <2>1. p * l >= l * q
      BY SMT
    <2>2. p * l \in Nat /\ l * q \in Nat
      OBVIOUS
    <2> QED
      BY <2>1, <2>2, <1>1, <1>4
  <1> QED
    BY <1>5, <1>6, <1>7

\* The limit cuts the numbers into pieces, and each row is in one of them.
LEMMA PieceOf ==
  ASSUME NEW r \in Nat \ {0}, NEW l \in Nat \ {0}
  PROVE  \E k \in Nat : k * l < r /\ r <= k * l + l
  <1>1. PICK n \in Nat : n = r - 1
    OBVIOUS
  <1>2. n \div l \in Nat /\ l * (n \div l) <= n /\ n < l * (n \div l) + l
    BY <1>1
  <1>3. PICK k \in Nat : k = n \div l
    BY <1>2
  <1>4. k * l <= n /\ n < k * l + l
    BY <1>2, <1>3
  <1>5. k * l \in Nat
    OBVIOUS
  <1>6. k * l < r /\ r <= k * l + l
    BY <1>1, <1>4, <1>5
  <1> QED
    BY <1>6

LEMMA OnePiece ==
  ASSUME NEW j \in Nat, NEW k \in Nat, NEW l \in Nat \ {0}, NEW r \in Nat,
         j * l < r, r <= j * l + l, k * l < r, r <= k * l + l
  PROVE  j = k
  <1>1. ASSUME NEW x \in Nat, NEW y \in Nat, x < y PROVE x * l + l <= y * l
    BY <1>1
  <1>2. j * l \in Nat /\ k * l \in Nat
    OBVIOUS
  <1>3. ~(j < k)
    BY <1>1, <1>2
  <1>4. ~(k < j)
    BY <1>1, <1>2
  <1> QED
    BY <1>3, <1>4

LEMMA MultipleGrows ==
  ASSUME NEW k \in Nat, NEW l \in Nat \ {0}
  PROVE  /\ k * l \in Nat /\ k <= k * l
         /\ (k + 1) * l = k * l + l
  OBVIOUS

\* What is on page k + 1, and where it leads.
PageShape(this, k, n, l) ==
  /\ this.items \in Seq(Nat)
  /\ DOMAIN this.items = 1..Len(this.items)
  /\ Len(this.items) = IF k * l + l <= n THEN l ELSE IF k * l < n THEN n - k * l ELSE 0
  /\ \A i \in 1..Len(this.items) : this.items[i] = k * l + i
  /\ this.items # <<>> <=> k * l < n
  /\ this.nextPage = IF k * l + l < n THEN k + 2 ELSE 0
  /\ this.previousPage = k
  /\ isValidPage(k + 1, n, l) <=> k * l < n

LEMMA PageIs ==
  ASSUME NEW k \in Nat, NEW n \in Nat, NEW l \in Nat \ {0}
  PROVE  PageShape(paginate(k + 1, n, l), k, n, l)
  <1>1. PICK skip \in Nat : skip = k * l
    OBVIOUS
  <1>2. getSkip(k + 1, l) = skip
    <2>1. k + 1 - 1 = k
      OBVIOUS
    <2> QED
      BY <1>1, <2>1 DEF getSkip
  <1>3. PICK this : this = paginate(k + 1, n, l)
    OBVIOUS
  <1>4. PICK top : top = Lesser(skip + l, n)
    OBVIOUS
  <1>5. top \in Nat /\ top = IF skip + l <= n THEN skip + l ELSE n
    BY <1>4 DEF Lesser
  <1>6. PICK last : last = getTotalPages(n, l)
    OBVIOUS
  <1>7. this = [items        |-> Span(skip + 1, top),
                nextPage     |-> IF k + 1 < last THEN k + 1 + 1 ELSE 0,
                previousPage |-> IF k + 1 > 1 THEN k + 1 - 1 ELSE 0]
    BY <1>2, <1>3, <1>4, <1>6 DEF paginate, getPrismaOptions
  <1>8. k < last <=> skip < n
    BY <1>1, <1>6, PagesBehind
  <1>9. k + 1 < last <=> skip + l < n
    <2>1. k + 1 \in Nat /\ (k + 1) * l = skip + l
      BY <1>1, MultipleGrows
    <2> QED
      BY <2>1, <1>6, PagesBehind
  <1>10. last \in Nat
    <2>1. PICK m \in Nat : m = n + l - 1
      OBVIOUS
    <2>2. m \div l \in Nat
      BY <2>1
    <2> QED
      BY <1>6, <2>1, <2>2 DEF getTotalPages
  <1>11. PICK items : items = Span(skip + 1, top)
    OBVIOUS
  <1>12. /\ items \in Seq(Nat)
         /\ Len(items) = IF top >= skip + 1 THEN top + 1 - (skip + 1) ELSE 0
         /\ \A i \in 1..Len(items) : items[i] = skip + 1 + i - 1
         /\ DOMAIN items = 1..Len(items)
         /\ items # <<>> <=> skip + 1 <= top
    <2>1. skip + 1 \in Nat /\ top \in Int
      BY <1>5
    <2> QED
      BY <2>1, <1>11, SpanIs, Zenon
  <1>13. Len(items) = IF skip + l <= n THEN l ELSE IF skip < n THEN n - skip ELSE 0
    BY <1>5, <1>12
  <1>14. \A i \in 1..Len(items) : items[i] = skip + i
    BY <1>12
  <1>15. items # <<>> <=> skip < n
    <2>1. skip + 1 <= top <=> skip < n
      BY <1>5
    <2> QED
      BY <1>12, <2>1
  <1>16. /\ this.items = items
         /\ this.nextPage = IF k + 1 < last THEN k + 1 + 1 ELSE 0
         /\ this.previousPage = IF k + 1 > 1 THEN k + 1 - 1 ELSE 0
    BY <1>7, <1>11
  <1>17. this.nextPage = IF skip + l < n THEN k + 2 ELSE 0
    BY <1>9, <1>16
  <1>18. this.previousPage = k
    BY <1>16
  <1>19. isValidPage(k + 1, n, l) <=> skip < n
    BY <1>6, <1>8, <1>10 DEF isValidPage
  <1> QED
    BY <1>1, <1>3, <1>12, <1>13, <1>14, <1>15, <1>16, <1>17, <1>18, <1>19 DEF PageShape

\* What a client who follows these pages of n rows, l at a time, has seen.
OffsetSeen(page, next, items, n, l) ==
  /\ EachOnce(Followed(1, next), items, n)
  /\ \A p \in 1..n + 1 :
       /\ isValidPage(p, n, l) <=> items[p] # <<>>
       /\ next[p] # 0 => /\ page[next[p]].previousPage = p
                         /\ InOrder(items[p], items[next[p]])

LEMMA OffsetWalks ==
  ASSUME NEW n \in Nat, NEW l \in Nat \ {0}
  PROVE  LET pages == 1..n + 1
             page  == [p \in pages |-> paginate(p, n, l)]
             next  == [p \in pages |-> page[p].nextPage]
             items == [p \in pages |-> page[p].items]
         IN  OffsetSeen(page, next, items, n, l)
  <1>1. PICK page : page = [p \in 1..n + 1 |-> paginate(p, n, l)]
    OBVIOUS
  <1>2. PICK next : next = [p \in 1..n + 1 |-> page[p].nextPage]
    OBVIOUS
  <1>3. PICK items : items = [p \in 1..n + 1 |-> page[p].items]
    OBVIOUS
  <1>4. ASSUME NEW k \in 0..n
        PROVE  /\ k \in Nat /\ k + 1 \in 1..n + 1
               /\ k * l \in Nat /\ k <= k * l /\ (k + 1) * l = k * l + l
               /\ DOMAIN items[k + 1] = 1..Len(items[k + 1])
               /\ items[k + 1] \in Seq(Nat)
               /\ Len(items[k + 1]) = IF k * l + l <= n THEN l ELSE IF k * l < n THEN n - k * l ELSE 0
               /\ \A i \in 1..Len(items[k + 1]) : items[k + 1][i] = k * l + i
               /\ items[k + 1] # <<>> <=> k * l < n
               /\ next[k + 1] = IF k * l + l < n THEN k + 2 ELSE 0
               /\ page[k + 1].previousPage = k
               /\ isValidPage(k + 1, n, l) <=> k * l < n
    <2>1. k \in Nat /\ k + 1 \in 1..n + 1
      OBVIOUS
    <2>2. k * l \in Nat /\ k <= k * l /\ (k + 1) * l = k * l + l
      BY <2>1, MultipleGrows
    <2>3. PICK this : this = paginate(k + 1, n, l)
      OBVIOUS
    <2>4. page[k + 1] = this /\ items[k + 1] = this.items /\ next[k + 1] = this.nextPage
      BY <1>1, <1>2, <1>3, <2>1, <2>3
    <2>5. PageShape(this, k, n, l)
      BY <2>1, <2>3, PageIs
    <2> QED
      BY <2>1, <2>2, <2>4, <2>5 DEF PageShape
  <1>5. ASSUME NEW k \in 0..n, k * l + l < n
        PROVE  /\ k + 1 \in 0..n /\ next[k + 1] = k + 1 + 1
               /\ page[k + 1 + 1].previousPage = k + 1
               /\ InOrder(items[k + 1], items[k + 1 + 1])
    <2>1. /\ k \in Nat /\ k * l \in Nat /\ k <= k * l /\ (k + 1) * l = k * l + l
          /\ next[k + 1] = k + 2
          /\ items[k + 1] # <<>> /\ Len(items[k + 1]) = l
          /\ \A i \in 1..l : items[k + 1][i] = k * l + i
      <3>1. /\ k \in Nat /\ k * l \in Nat /\ k <= k * l /\ (k + 1) * l = k * l + l
            /\ next[k + 1] = k + 2
        BY <1>4, <1>5
      <3>2. k * l < n /\ k * l + l <= n
        BY <1>5, <3>1
      <3>3. items[k + 1] # <<>> /\ Len(items[k + 1]) = l
        BY <1>4, <3>2
      <3>4. \A i \in 1..l : items[k + 1][i] = k * l + i
        BY <1>4, <3>3
      <3> QED
        BY <3>1, <3>3, <3>4
    <2>2. k + 1 \in 0..n /\ k + 1 + 1 = k + 2
      BY <1>5, <2>1
    <2>3. /\ page[k + 1 + 1].previousPage = k + 1
          /\ items[k + 1 + 1] # <<>> <=> (k + 1) * l < n
          /\ items[k + 1 + 1] \in Seq(Nat)
          /\ \A i \in 1..Len(items[k + 1 + 1]) : items[k + 1 + 1][i] = (k + 1) * l + i
      BY <1>4, <2>2
    <2>4. items[k + 1 + 1] # <<>>
      BY <1>5, <2>1, <2>3
    <2>5. 1 \in 1..Len(items[k + 1 + 1])
      BY <2>3, <2>4
    <2>6. items[k + 1 + 1][1] = k * l + l + 1
      BY <2>1, <2>3, <2>5
    <2>7. items[k + 1][Len(items[k + 1])] = k * l + l
      BY <2>1
    <2>8. InOrder(items[k + 1], items[k + 1 + 1])
      BY <2>1, <2>4, <2>6, <2>7 DEF InOrder
    <2> QED
      BY <2>1, <2>2, <2>3, <2>8
  <1>6. ASSUME NEW p \in 1..n + 1
        PROVE  /\ isValidPage(p, n, l) <=> items[p] # <<>>
               /\ next[p] # 0 => /\ page[next[p]].previousPage = p
                                 /\ InOrder(items[p], items[next[p]])
    <2>1. PICK k \in 0..n : k + 1 = p
      <3>1. p - 1 \in 0..n /\ p - 1 + 1 = p
        OBVIOUS
      <3> QED
        BY <3>1
    <2>2. isValidPage(p, n, l) <=> items[p] # <<>>
      BY <1>4, <2>1
    <2>3. ASSUME next[p] # 0
          PROVE  page[next[p]].previousPage = p /\ InOrder(items[p], items[next[p]])
      <3>1. k * l + l < n
        BY <1>4, <2>1, <2>3
      <3> QED
        BY <1>5, <2>1, <3>1
    <2> QED
      BY <2>2, <2>3
  <1>7. ASSUME NEW m \in 0..n, m * l < n
        PROVE  m + 1 \in Followed(1, next)
    <2>1. PICK at : at = [k \in 0..m |-> k + 1]
      OBVIOUS
    <2>2. at[0] = 1 /\ at[m] = m + 1 /\ m \in Nat
      BY <2>1
    <2>3. \A k \in 0..m : at[k] \in DOMAIN next
      BY <1>2, <2>1
    <2>4. ASSUME NEW k \in 0..m, k < m PROVE next[at[k]] = at[k + 1]
      <3>1. k \in 0..n /\ k + 1 \in 0..m /\ at[k] = k + 1 /\ at[k + 1] = k + 1 + 1
        BY <2>1, <2>4
      <3>2. k * l + l <= m * l /\ k * l \in Nat /\ m * l \in Nat
        <4>1. (k + 1) * l <= m * l
          BY <2>4
        <4> QED
          BY <4>1, <3>1, <1>4
      <3>3. k * l + l < n
        BY <1>7, <3>2
      <3> QED
        BY <1>5, <3>1, <3>3
    <2>5. Leads(at, m, next)
      BY <2>3, <2>4 DEF Leads
    <2>6. at[m] \in Followed(1, next)
      BY <2>2, <2>5, StepsAreFollowed
    <2> QED
      BY <2>2, <2>6
  <1>8. ASSUME NEW k \in 0..n, NEW i \in DOMAIN items[k + 1]
        PROVE  /\ items[k + 1][i] \in Nat /\ i = items[k + 1][i] - k * l
               /\ k * l < items[k + 1][i] /\ items[k + 1][i] <= k * l + l
    <2>1. i \in 1..Len(items[k + 1]) /\ items[k + 1][i] = k * l + i /\ k * l \in Nat
      BY <1>4
    <2>2. PICK c \in Nat : c = k * l
      BY <2>1
    <2>3. PICK z : z = Len(items[k + 1])
      OBVIOUS
    <2>4. z = IF c + l <= n THEN l ELSE IF c < n THEN n - c ELSE 0
      BY <1>4, <2>2, <2>3
    <2>5. z <= l /\ z \in Nat
      BY <2>4
    <2>6. i \in 1..z
      BY <2>1, <2>3
    <2>7. c + i \in Nat /\ i = c + i - c /\ c < c + i /\ c + i <= c + l
      BY <2>5, <2>6
    <2>8. PICK v : v = items[k + 1][i]
      OBVIOUS
    <2>9. v = c + i
      BY <2>1, <2>2, <2>8
    <2>10. v \in Nat /\ i = v - c /\ c < v /\ v <= c + l
      BY <2>5, <2>6, <2>7, <2>9
    <2> QED
      BY <2>2, <2>8, <2>10, Zenon
  <1>9. EachOnce(Followed(1, next), items, n)
    <2> SUFFICES ASSUME NEW r \in 1..n
                 PROVE  \E p \in Followed(1, next) : \E i \in DOMAIN items[p] :
                          /\ items[p][i] = r
                          /\ \A q \in Followed(1, next) : \A j \in DOMAIN items[q] :
                               items[q][j] = r => q = p /\ j = i
      BY DEF EachOnce
    <2>1. PICK k \in Nat : k * l < r /\ r <= k * l + l
      <3>1. r \in Nat \ {0}
        OBVIOUS
      <3> QED
        BY <3>1, PieceOf
    <2>2. k \in 0..n /\ k * l \in Nat /\ k * l < n
      BY <2>1, MultipleGrows
    <2>3. k + 1 \in Followed(1, next)
      BY <1>7, <2>2
    <2>4. PICK i : i = r - k * l
      OBVIOUS
    <2>5. i \in 1..Len(items[k + 1])
      <3>1. Len(items[k + 1]) = IF k * l + l <= n THEN l ELSE IF k * l < n THEN n - k * l ELSE 0
        BY <1>4, <2>2
      <3> QED
        BY <2>1, <2>2, <2>4, <3>1
    <2>6. i \in DOMAIN items[k + 1] /\ items[k + 1][i] = r
      <3>1. DOMAIN items[k + 1] = 1..Len(items[k + 1]) /\ items[k + 1][i] = k * l + i
        BY <1>4, <2>2, <2>5
      <3>2. k * l + i = r
        BY <2>2, <2>4
      <3> QED
        BY <3>1, <3>2, <2>5
    <2>7. ASSUME NEW q \in Followed(1, next), NEW j \in DOMAIN items[q], items[q][j] = r
          PROVE  q = k + 1 /\ j = i
      <3>1. q \in 1..n + 1
        BY <1>2 DEF Followed
      <3>2. PICK h \in 0..n : h + 1 = q
        <4>1. q - 1 \in 0..n /\ q - 1 + 1 = q
          BY <3>1
        <4> QED
          BY <4>1
      <3>3. j = r - h * l /\ h * l < r /\ r <= h * l + l
        BY <1>8, <2>7, <3>2
      <3>4. h = k
        BY <2>1, <3>3, OnePiece
      <3> QED
        BY <2>4, <3>2, <3>3, <3>4
    <2> QED
      BY <2>3, <2>6, <2>7
  <1>10. OffsetSeen(page, next, items, n, l)
    BY <1>6, <1>9 DEF OffsetSeen
  <1> QED
    BY <1>1, <1>2, <1>3, <1>10
-----------------------------------------------------------------------------
(***************************************************************************)
(* The pages of a list that is read by cursor                              *)
(***************************************************************************)
\* What a client gets who shows the cursor c, and where it leads.
CursorShape(this, c, n, l) ==
  /\ this.items \in Seq(Nat)
  /\ DOMAIN this.items = 1..Len(this.items)
  /\ Len(this.items) = IF c + l <= n THEN l ELSE n - c
  /\ \A i \in 1..Len(this.items) : this.items[i] = c + i
  /\ this.more <=> c + l < n
  /\ this.next = IF c + l < n THEN c + l ELSE 0

LEMMA CursorIs ==
  ASSUME NEW s, s.rows \in Nat, s.limit \in Nat \ {0}, NEW c \in 0..s.rows
  PROVE  CursorShape(cursorPaginate(Behind(s, c), s.limit), c, s.rows, s.limit)
  <1>1. PICK n \in Nat : n = s.rows
    OBVIOUS
  <1>2. PICK l \in Nat \ {0} : l = s.limit
    OBVIOUS
  <1>3. PICK top : top = Lesser(c + l + 1, n)
    OBVIOUS
  <1>4. c \in Nat /\ c <= n /\ top \in Nat /\ top = IF c + l + 1 <= n THEN c + l + 1 ELSE n
    BY <1>1, <1>2, <1>3 DEF Lesser
  <1>5. PICK data : data = Span(c + 1, top)
    OBVIOUS
  <1>6. data = Behind(s, c)
    BY <1>1, <1>2, <1>3, <1>5 DEF Behind
  <1>7. /\ data \in Seq(Nat)
        /\ Len(data) = IF top >= c + 1 THEN top + 1 - (c + 1) ELSE 0
        /\ \A i \in 1..Len(data) : data[i] = c + 1 + i - 1
        /\ DOMAIN data = 1..Len(data)
    <2>1. c + 1 \in Nat /\ top \in Int
      BY <1>4
    <2> QED
      BY <2>1, <1>5, SpanIs, Zenon
  <1>8. Len(data) = IF c + l < n THEN l + 1 ELSE n - c
    BY <1>4, <1>7
  <1>9. \A i \in 1..Len(data) : data[i] = c + i
    BY <1>4, <1>7
  <1>10. Len(data) > l <=> c + l < n
    BY <1>4, <1>8
  <1>11. PICK this : this = cursorPaginate(data, l)
    OBVIOUS
  <1>12. /\ this.items = IF Len(data) > l THEN SubSeq(data, 1, l) ELSE data
         /\ this.more = (Len(data) > l)
         /\ this.next = IF Len(data) > l /\ l > 0 THEN data[l] ELSE 0
    BY <1>11 DEF cursorPaginate
  <1>13. CursorShape(this, c, n, l)
    <2>1. CASE c + l < n
      <3>1. Len(data) = l + 1 /\ Len(data) > l
        BY <2>1, <1>8, <1>10
      <3>2. this.items = SubSeq(data, 1, l) /\ this.more /\ this.next = data[l]
        <4>1. this.items = SubSeq(data, 1, l)
          BY <3>1, <1>12
        <4>2. this.more
          BY <3>1, <1>12, Zenon
        <4>3. this.next = data[l]
          BY <3>1, <1>12
        <4> QED
          BY <4>1, <4>2, <4>3
      <3>3. \A i \in 1..l : data[i] = c + i /\ data[i] \in Nat
        BY <3>1, <1>4, <1>9
      <3>4. /\ SubSeq(data, 1, l) \in Seq(Nat)
            /\ Len(SubSeq(data, 1, l)) = IF 1 <= l THEN l - 1 + 1 ELSE 0
            /\ \A i \in 1..l - 1 + 1 : SubSeq(data, 1, l)[i] = data[1 + i - 1]
        <4>1. 1 \in Int /\ l \in Int /\ \A i \in 1..l : data[i] \in Nat
          BY <3>3
        <4> QED
          BY <4>1, SubSeqProperties
      <3>5. /\ this.items \in Seq(Nat) /\ Len(this.items) = l
            /\ \A i \in 1..l : this.items[i] = data[i]
        BY <3>2, <3>4
      <3>6. /\ DOMAIN this.items = 1..Len(this.items)
            /\ \A i \in 1..Len(this.items) : this.items[i] = c + i
        BY <3>3, <3>5
      <3>7. this.next = c + l
        BY <3>2, <3>3
      <3>8. c + l <= n
        BY <2>1, <1>4
      <3> QED
        BY <2>1, <3>2, <3>5, <3>6, <3>7, <3>8 DEF CursorShape
    <2>2. CASE ~(c + l < n)
      <3>1. Len(data) = n - c /\ ~(Len(data) > l)
        BY <2>2, <1>8, <1>10
      <3>2. this.items = data /\ ~this.more /\ this.next = 0
        <4>1. this.items = data
          BY <3>1, <1>12
        <4>2. ~this.more
          BY <3>1, <1>12, Zenon
        <4>3. this.next = 0
          BY <3>1, <1>12
        <4> QED
          BY <4>1, <4>2, <4>3
      <3>3. Len(data) = IF c + l <= n THEN l ELSE n - c
        BY <2>2, <3>1, <1>4
      <3> QED
        BY <2>2, <3>2, <3>3, <1>7, <1>9 DEF CursorShape
    <2> QED
      BY <2>1, <2>2
  <1> QED
    BY <1>1, <1>2, <1>6, <1>11, <1>13

\* What a client who follows these cursors over n rows has seen.
CursorSeen(page, next, items, n) ==
  /\ EachOnce(Followed(0, next), items, n)
  /\ \A c \in 0..n : page[c].more => InOrder(items[c], items[next[c]])

LEMMA CursorWalks ==
  ASSUME NEW s, s.rows \in Nat, s.limit \in Nat \ {0}
  PROVE  LET cursors == 0..s.rows
             page    == [c \in cursors |-> cursorPaginate(Behind(s, c), s.limit)]
             next    == [c \in cursors |-> page[c].next]
             items   == [c \in cursors |-> page[c].items]
         IN  CursorSeen(page, next, items, s.rows)
  <1>1. PICK n \in Nat : n = s.rows
    OBVIOUS
  <1>2. PICK l \in Nat \ {0} : l = s.limit
    OBVIOUS
  <1>3. PICK page : page = [c \in 0..n |-> cursorPaginate(Behind(s, c), l)]
    OBVIOUS
  <1>4. PICK next : next = [c \in 0..n |-> page[c].next]
    OBVIOUS
  <1>5. PICK items : items = [c \in 0..n |-> page[c].items]
    OBVIOUS
  <1>6. ASSUME NEW c \in 0..n
        PROVE  /\ items[c] \in Seq(Nat) /\ DOMAIN items[c] = 1..Len(items[c])
               /\ Len(items[c]) = IF c + l <= n THEN l ELSE n - c
               /\ \A i \in 1..Len(items[c]) : items[c][i] = c + i
               /\ page[c].more <=> c + l < n
               /\ next[c] = IF c + l < n THEN c + l ELSE 0
    <2>1. PICK this : this = cursorPaginate(Behind(s, c), l)
      OBVIOUS
    <2>2. page[c] = this /\ items[c] = this.items /\ next[c] = this.next
      BY <1>3, <1>4, <1>5, <2>1
    <2>3. CursorShape(this, c, n, l)
      BY <1>1, <1>2, <2>1, CursorIs
    <2> QED
      BY <2>2, <2>3 DEF CursorShape
  <1>7. ASSUME NEW c \in 0..n, page[c].more PROVE InOrder(items[c], items[next[c]])
    <2>1. c \in Nat /\ c + l < n /\ next[c] = c + l /\ Len(items[c]) = l
          /\ \A i \in 1..l : items[c][i] = c + i
      BY <1>6, <1>7
    <2>2. c + l \in 0..n
      BY <2>1
    <2>3. /\ Len(items[c + l]) = IF c + l + l <= n THEN l ELSE n - (c + l)
          /\ \A i \in 1..Len(items[c + l]) : items[c + l][i] = c + l + i
          /\ items[c + l] \in Seq(Nat)
      BY <1>6, <2>2
    <2>4. Len(items[c + l]) \in Nat \ {0} /\ Len(items[c]) \in Nat \ {0}
      BY <2>1, <2>3
    <2>5. items[c] # <<>> /\ items[c + l] # <<>>
      BY <2>4
    <2>6. items[c + l][1] = c + l + 1 /\ items[c][Len(items[c])] = c + l
      <3>1. 1 \in 1..Len(items[c + l]) /\ l \in 1..l
        BY <2>4
      <3> QED
        BY <2>1, <2>3, <3>1
    <2> QED
      BY <2>1, <2>5, <2>6 DEF InOrder
  <1>8. ASSUME NEW m \in Nat, m * l < n PROVE m * l \in Followed(0, next)
    <2>1. PICK at : at = [k \in 0..m |-> k * l]
      OBVIOUS
    <2>2. at[0] = 0 /\ at[m] = m * l
      BY <2>1
    <2>3. ASSUME NEW k \in 0..m
          PROVE  /\ k \in Nat /\ k * l \in Nat /\ (k + 1) * l = k * l + l
                 /\ k * l <= m * l /\ m * l \in Nat
      BY <2>3
    <2>4. \A k \in 0..m : at[k] \in DOMAIN next
      <3> TAKE k \in 0..m
      <3>1. at[k] = k * l /\ k * l \in Nat /\ k * l <= m * l /\ m * l \in Nat
        BY <2>1, <2>3
      <3>2. k * l \in 0..n
        BY <3>1, <1>8
      <3> QED
        BY <3>1, <3>2, <1>4
    <2>5. ASSUME NEW k \in 0..m, k < m PROVE next[at[k]] = at[k + 1]
      <3>1. k + 1 \in 0..m /\ at[k] = k * l /\ at[k + 1] = (k + 1) * l
        BY <2>1, <2>5
      <3>2. k * l \in Nat /\ (k + 1) * l = k * l + l /\ (k + 1) * l <= m * l /\ m * l \in Nat
        BY <2>3, <3>1
      <3>3. k * l \in 0..n /\ k * l + l < n
        BY <1>8, <3>2
      <3> QED
        BY <1>6, <3>1, <3>2, <3>3
    <2>6. Leads(at, m, next)
      BY <2>4, <2>5 DEF Leads
    <2>7. at[m] \in Followed(0, next)
      BY <2>2, <2>6, StepsAreFollowed
    <2> QED
      BY <2>2, <2>7
  <1>9. ASSUME NEW c \in Followed(0, next)
        PROVE  c \in 0..n /\ \E k \in Nat : c = k * l
    <2>1. PICK S : S = {x \in 0..n : \E k \in Nat : x = k * l}
      OBVIOUS
    <2>2. S \in SUBSET DOMAIN next /\ 0 \in S
      <3>1. 0 = 0 * l /\ 0 \in 0..n
        OBVIOUS
      <3> QED
        BY <2>1, <3>1, <1>4
    <2>3. ASSUME NEW y \in S, next[y] \in DOMAIN next PROVE next[y] \in S
      <3>1. PICK k \in Nat : y = k * l
        BY <2>1
      <3>2. y \in 0..n /\ next[y] \in 0..n
        BY <2>1, <2>3, <1>4
      <3>3. next[y] = (k + 1) * l \/ next[y] = 0
        BY <1>6, <3>1, <3>2, MultipleGrows
      <3>4. k + 1 \in Nat
        OBVIOUS
      <3> QED
        BY <2>1, <2>2, <3>2, <3>3, <3>4
    <2>4. c \in S
      BY <2>2, <2>3 DEF Followed
    <2> QED
      BY <2>1, <2>4
  <1>10. EachOnce(Followed(0, next), items, n)
    <2> SUFFICES ASSUME NEW r \in 1..n
                 PROVE  \E p \in Followed(0, next) : \E i \in DOMAIN items[p] :
                          /\ items[p][i] = r
                          /\ \A q \in Followed(0, next) : \A j \in DOMAIN items[q] :
                               items[q][j] = r => q = p /\ j = i
      BY DEF EachOnce
    <2>1. PICK k \in Nat : k * l < r /\ r <= k * l + l
      <3>1. r \in Nat \ {0}
        OBVIOUS
      <3> QED
        BY <3>1, PieceOf
    <2>2. PICK c : c = k * l
      OBVIOUS
    <2>3. c \in Nat /\ c < n /\ c \in 0..n
      BY <2>1, <2>2, MultipleGrows
    <2>4. c \in Followed(0, next)
      BY <1>8, <2>2, <2>3
    <2>5. PICK i : i = r - c
      OBVIOUS
    <2>6. i \in 1..Len(items[c])
      <3>1. Len(items[c]) = IF c + l <= n THEN l ELSE n - c
        BY <1>6, <2>3
      <3> QED
        BY <2>1, <2>2, <2>3, <2>5, <3>1
    <2>7. i \in DOMAIN items[c] /\ items[c][i] = r
      <3>1. DOMAIN items[c] = 1..Len(items[c]) /\ items[c][i] = c + i
        BY <1>6, <2>3, <2>6
      <3>2. c + i = r
        BY <2>3, <2>5
      <3> QED
        BY <3>1, <3>2, <2>6
    <2>8. ASSUME NEW q \in Followed(0, next), NEW j \in DOMAIN items[q], items[q][j] = r
          PROVE  q = c /\ j = i
      <3>1. PICK h \in Nat : q = h * l
        BY <1>9
      <3>2. q \in 0..n /\ q \in Nat
        BY <1>9
      <3>3. /\ j \in 1..Len(items[q]) /\ items[q][j] = q + j
            /\ Len(items[q]) = IF q + l <= n THEN l ELSE n - q
        BY <1>6, <2>8, <3>2
      <3>4. j \in Nat /\ 1 <= j /\ j <= l /\ r = q + j
        BY <2>8, <3>2, <3>3
      <3>5. q < r /\ r <= q + l
        BY <3>2, <3>4
      <3>6. h = k
        BY <2>1, <3>1, <3>5, OnePiece
      <3> QED
        BY <2>2, <2>3, <2>5, <3>1, <3>4, <3>6
    <2> QED
      BY <2>4, <2>7, <2>8
  <1>11. CursorSeen(page, next, items, n)
    BY <1>7, <1>10 DEF CursorSeen
  <1> QED
    BY <1>1, <1>2, <1>3, <1>4, <1>5, <1>11
-----------------------------------------------------------------------------
\* Each string is read as what it was kept as, or as what it can be read as again.
LEMMA ValuesRoundTrip ==
  ASSUME NEW v \in Values
  PROVE  LET once == get[v] IN
         /\ get[once] = once /\ parsed[asText[once]] = once
         /\ v \in {"object", "null"} => once = v
         /\ once # parsed[asText[v]] => v = "empty string"
  <1>1. \A x \in Values : asText[x] =
          CASE x \in {"object", "string of object"} -> "object"
            [] x \in {"null", "string of null"}     -> "null"
            [] x = "empty string"                   -> ""
            [] OTHER -> "other"
    BY DEF asText
  <1>2. /\ asText["object"] = "object" /\ asText["string of object"] = "object"
        /\ asText["null"] = "null" /\ asText["string of null"] = "null"
        /\ asText["empty string"] = "" /\ asText["other string"] = "other"
    BY <1>1 DEF Values
  <1>3. /\ parsed["object"] = "object" /\ parsed["null"] = "null"
        /\ parsed[""] = "empty string" /\ parsed["other"] = "other string"
    BY DEF parsed
  <1>4. \A x \in Values : get[x] = IF asText[x] = "" THEN "null" ELSE parsed[asText[x]]
    BY DEF get
  <1>5. /\ get["object"] = "object" /\ get["string of object"] = "object"
        /\ get["null"] = "null" /\ get["string of null"] = "null"
        /\ get["empty string"] = "null" /\ get["other string"] = "other string"
    BY <1>2, <1>3, <1>4 DEF Values
  <1> QED
    BY <1>2, <1>3, <1>5 DEF Values

\* Of a list of any length, at any limit and for any number of neighbours shown:
\* the page numbers are right, both ways of reading it give every row once and in
\* order, and what Redis keeps can be read again.
THEOREM ConversionsAreFaithful == ConversionsSpec => []ConversionsFaithful
  <1>1. sample \in Samples => ConversionsFaithful
    <2> SUFFICES ASSUME sample \in Samples PROVE ConversionsFaithful
      OBVIOUS
    <2> USE ConversionsAssumption DEF ConversionsAssumption
    <2>1. PageRangeFaithful
      <3> SUFFICES ASSUME sample.about = "range", sample.current <= sample.total
                   PROVE  PageRangeFaithful
        BY DEF PageRangeFaithful
      <3>1. sample.current \in 1..MaxPages + 1 /\ sample.total \in 0..MaxPages /\ sample.delta \in 0..MaxDelta
        BY DEF Samples
      <3>2. sample.current \in Nat /\ sample.total \in Nat /\ sample.delta \in Nat /\ 1 <= sample.current
        BY <3>1
      <3>3. PICK s : s = sample
        OBVIOUS
      <3>4. ShownPages(s) = {p \in 1..s.total : p \in {1, s.total}
              \/ (p <= s.current + s.delta /\ s.current <= p + s.delta)}
        BY <3>2, <3>3, RangeShows
      <3>5. LET r == getPageRange(s) IN
            \A i \in DOMAIN r \ {1} :
               IF r[i] = Gap THEN r[i + 1] > r[i - 1] + 1
                             ELSE r[i - 1] = Gap \/ r[i] = r[i - 1] + 1
        BY <3>2, <3>3, GapsFit
      <3> QED
        BY <3>3, <3>4, <3>5 DEF PageRangeFaithful
    <2>2. OffsetWalkComplete
      <3> SUFFICES ASSUME sample.about = "offset" PROVE OffsetWalkComplete
        BY DEF OffsetWalkComplete
      <3>1. sample.rows \in 0..MaxPages /\ sample.limit \in 1..MaxPages
        BY DEF Samples
      <3>2. sample.rows \in Nat /\ sample.limit \in Nat \ {0}
        BY <3>1
      <3> QED
        BY <3>2, OffsetWalks DEF OffsetWalkComplete, OffsetSeen
    <2>3. CursorWalkComplete
      <3> SUFFICES ASSUME sample.about = "cursor" PROVE CursorWalkComplete
        BY DEF CursorWalkComplete
      <3>1. sample.rows \in 0..MaxPages /\ sample.limit \in 1..MaxPages
        BY DEF Samples
      <3>2. sample.rows \in Nat /\ sample.limit \in Nat \ {0}
        BY <3>1
      <3> QED
        BY <3>2, CursorWalks DEF CursorWalkComplete, CursorSeen
    <2>4. RoundTrip
      <3> SUFFICES ASSUME sample.about = "redis" PROVE RoundTrip
        BY DEF RoundTrip
      <3>1. sample.value \in Values
        BY DEF Samples
      <3> QED
        BY <3>1, ValuesRoundTrip DEF RoundTrip
    <2> QED
      BY <2>1, <2>2, <2>3, <2>4 DEF ConversionsFaithful
  <1>2. ConversionsInit => sample \in Samples
    BY DEF ConversionsInit
  <1>3. sample \in Samples /\ [FALSE]_convVars => (sample \in Samples)'
    BY DEF convVars
  <1> QED
    BY <1>1, <1>2, <1>3, PTL DEF ConversionsSpec

-----------------------------------------------------------------------------
(***************************************************************************)
(* All components side by side                                             *)
(***************************************************************************)
\* A step of Services is one of the component in focus, and every other rests.
LEMMA StepOfEach ==
  ASSUME [Next]_vars
  PROVE  /\ [PoolNext]_poolVars     /\ [CatNext]_catVars         /\ [DmNext]_dmVars
         /\ [AccountNext]_accountVars /\ [SwaggerNext]_swaggerVars /\ [FavNext]_favVars
         /\ [NumberNext]_numberVars /\ [HealthNext]_healthVars   /\ [SeedNext]_seedVars
         /\ [ReceiptsNext]_receiptVars /\ [ListingsNext]_listVars /\ [FALSE]_convVars
  BY DEF Next, vars

\* No component can tell that the others are there: a behaviour of Services is a
\* behaviour of each of them, with the fairness it asks for.
THEOREM EachByItself ==
  Spec => /\ PoolSpec /\ CatSpec /\ DmSpec /\ AccountSpec /\ SwaggerSpec /\ FavSpec
          /\ NumberSpec /\ HealthSpec /\ SeedSpec /\ ReceiptsSpec
          /\ ListingsSpec /\ ConversionsSpec
  <1>1. Init => /\ PoolInit /\ CatInit /\ DmInit /\ AccountInit /\ SwaggerInit /\ FavInit
                /\ NumberInit /\ HealthInit /\ SeedInit /\ ReceiptsInit
                /\ ListingsInit /\ ConversionsInit
    BY DEF Init
  <1>2. [Next]_vars =>
          /\ [PoolNext]_poolVars     /\ [CatNext]_catVars         /\ [DmNext]_dmVars
          /\ [AccountNext]_accountVars /\ [SwaggerNext]_swaggerVars /\ [FavNext]_favVars
          /\ [NumberNext]_numberVars /\ [HealthNext]_healthVars   /\ [SeedNext]_seedVars
          /\ [ReceiptsNext]_receiptVars /\ [ListingsNext]_listVars /\ [FALSE]_convVars
    BY StepOfEach
  <1> QED
    BY <1>1, <1>2, PTL
       DEF Spec, Fairness, PoolSpec, CatSpec, DmSpec, AccountSpec, SwaggerSpec, FavSpec,
           NumberSpec, HealthSpec, SeedSpec, ReceiptsSpec, ListingsSpec, ConversionsSpec

\* Every variable of every component keeps its type.
THEOREM AllTypesStayOK ==
  ASSUME IsFiniteSet(Publishers), IsFiniteSet(WishSlots)
  PROVE  Spec => []AllTypesOK
  <1>1. PoolSpec => []PoolTypeOK
    BY PoolTypeCorrect
  <1>2. FavSpec => [](FavoritesTypeOK /\ CountsAddUp)
    BY FavoritesAddUp
  <1>3. (/\ PoolTypeOK /\ CategoryTypeOK /\ DirectTypeOK /\ AccountTypeOK /\ SwaggerTypeOK
         /\ ListingsTypeOK /\ FavoritesTypeOK /\ OrderNumbersTypeOK /\ HealthTypeOK
         /\ SeedTypeOK /\ ReceiptsTypeOK) => AllTypesOK
    BY DEF AllTypesOK
  <1> QED
    BY <1>1, <1>2, <1>3, EachByItself, TreeTypeCorrect, DirectChatIsSound, AccountsTypeCorrect,
       SwaggerTypeCorrect, WalksAreSound, RefusalsHaveTwins, VerdictsAreSound, SeedIsSound,
       ReceiptsCount, PTL

\* What each component promises holds while the others run beside it.
THEOREM ServicesStaySound ==
  ASSUME IsFiniteSet(Publishers), IsFiniteSet(WishSlots)
  PROVE  Spec => [](/\ LendingSound /\ DeliverySound /\ TreeSound /\ TreeShowsAll /\ DirectChatSound
                    /\ AccountsSound /\ OnePendingTimer /\ WalksSound /\ CountsAddUp
                    /\ RefusedToTwin /\ VerdictsSound /\ SeedSound /\ ReceiptsSound
                    /\ ConversionsFaithful)
  <1>1. PoolSpec => []LendingSound
    BY LendingIsSound
  <1>2. PoolSpec => []DeliverySound
    BY DeliveryIsSound
  <1>3. FavSpec => [](FavoritesTypeOK /\ CountsAddUp)
    BY FavoritesAddUp
  <1> QED
    BY <1>1, <1>2, <1>3, EachByItself, TreeStaysSound, TreeStaysWhole, DirectChatIsSound, AccountsStaySound,
       OneTimer, WalksAreSound, RefusalsHaveTwins, VerdictsAreSound, SeedIsSound,
       ReceiptsCount, ConversionsAreFaithful, PTL
=============================================================================
