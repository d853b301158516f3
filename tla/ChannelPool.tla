------------------------------ MODULE ChannelPool ------------------------------
(***************************************************************************)
(* Distributed events: EventPublisherService over the channel pool of      *)
(* RabbitMQConnectionService.                                              *)
(*                                                                         *)
(* emitDistributed takes a channel, publishes, and gives the channel back  *)
(* in its finally block.  A failed publish is retried from inside the      *)
(* catch block, so a retry takes a further channel while its caller still  *)
(* holds one: a running emission is a stack of channels.  The broker is    *)
(* external: it may go away and come back, refuse a message, or take one   *)
(* and lose the connection before it confirms, after which the channel     *)
(* wrapper sends the message again.                                        *)
(***************************************************************************)
EXTENDS Naturals, Sequences, FiniteSets

CONSTANTS
  Publishers,   \* bound: how many emissions overlap
  Emissions,    \* events handed to emitDistributed, each once; by their type
  PoolSize,     \* rabbitmq.channelPoolSize
  MaxRetries,   \* options.maxRetries of each emission
  MaxOutages    \* bound: how often the broker goes away

ASSUME PoolAssumption ==
  /\ PoolSize \in Nat /\ MaxRetries \in [Emissions -> Nat] /\ MaxOutages \in Nat

VARIABLES
  pool,     \* channelPool
  inUse,    \* channelsInUse
  made,     \* channels created so far; a channel is the number it was created as
  job,      \* the emission each publisher runs
  broker,   \* [up, outages]
  closing,  \* how far disconnect() has come
  \* History, read by properties only:
  sent,     \* what became of each emission
  peak      \* the most channels ever lent or being opened at once

poolVars == <<pool, inUse, made, job, broker, closing, sent, peak>>
-----------------------------------------------------------------------------
EventType ==
  [user |-> {"user.registered", "user.verified", "user.updated", "user.deleted"},
   product |-> {"product.created", "product.updated", "product.deleted",
                "product.reserved", "product.sold"},
   order |-> {"order.created", "order.paid", "order.processing", "order.shipped",
              "order.delivered", "order.cancelled", "order.refunded"},
   payment |-> {"payment.requested", "payment.completed", "payment.failed",
                "payment.cancelled", "payment.refunded"},
   notification |-> {"notification.email", "notification.sms", "notification.push"},
   message |-> {"message.sent", "message.read", "message.deleted"}]

\* The queues are bound to secondhand.events by <word>.* for these words.
Bindings == {"order", "payment", "notification", "user", "product"}

HasQueue(e) == \E word \in Bindings : e \in EventType[word]

Job ==
  [pc : {"idle"}]
  \cup [pc : {"connect"}, emission : Emissions, left : Nat, held : Seq(Nat), new : Nat]
  \cup [pc : {"publish", "confirm", "sleep", "published", "failed"},
        emission : Emissions, left : Nat, held : Seq(Nat)]

Idling      == [pc |-> "idle"]
Busy(p)     == job[p].pc # "idle"
Held(p)     == IF Busy(p) THEN {job[p].held[i] : i \in DOMAIN job[p].held} ELSE {}
Opening     == {p \in Publishers : job[p].pc = "connect"}
InPool      == {pool[i] : i \in DOMAIN pool}
Closed(c)   == closing.phase = "done" \/ \E i \in 1..closing.next - 1 : i \in DOMAIN pool /\ pool[i] = c
Top(s)      == s[Len(s)]
Below(s)    == SubSeq(s, 1, Len(s) - 1)
Greater(a, b) == IF a >= b THEN a ELSE b

\* Types of every variable.
PoolTypeOK ==
  /\ pool \in Seq(Nat) /\ inUse \subseteq Nat /\ made \in Nat
  /\ job \in [Publishers -> Job]
  /\ broker \in [up : BOOLEAN, outages : 0..MaxOutages]
  /\ closing \in [phase : {"no", "closing", "failed", "done"}, next : Nat]
  /\ sent \in [Emissions -> [copies : Nat,
                             result : {"unsent", "running", "published", "failed"}]]
  /\ peak \in Nat

\* onModuleInit has returned: the pool is full and nothing is lent.
PoolInit ==
  /\ pool = [i \in 1..PoolSize |-> i] /\ inUse = {} /\ made = PoolSize
  /\ job = [p \in Publishers |-> Idling]
  /\ broker = [up |-> TRUE, outages |-> 0]
  /\ closing = [phase |-> "no", next |-> 1]
  /\ sent = [e \in Emissions |-> [copies |-> 0, result |-> "unsent"]]
  /\ peak = 0
-----------------------------------------------------------------------------
(***************************************************************************)
(* The pool                                                                *)
(***************************************************************************)

FirstFree(i) ==
  /\ i \in DOMAIN pool /\ pool[i] \notin inUse
  /\ \A j \in 1..i - 1 : pool[j] \in inUse

Lent == Cardinality(inUse) + Cardinality(Opening)

\* A free channel is lent at once.
LendFree(p, next) ==
  \E i \in DOMAIN pool :
    /\ FirstFree(i)
    /\ inUse' = inUse \cup {pool[i]}
    /\ job' = [job EXCEPT ![p] = [pc |-> "publish", emission |-> next.emission,
                                  left |-> next.left, held |-> Append(next.held, pool[i])]]
    /\ peak' = Greater(peak, Lent + 1)
    /\ UNCHANGED <<pool, made>>

\* Seeded fault: the pool does not grow, the caller waits for a channel.
OpenNewNever(p, next) == FALSE /\ UNCHANGED <<pool, inUse, made, job, peak>>

\* With none free a new one is created; the caller waits for it to connect.
OpenNew(p, next) ==
  /\ \A i \in DOMAIN pool : ~FirstFree(i)
  /\ made' = made + 1
  /\ job' = [job EXCEPT ![p] = [pc |-> "connect", emission |-> next.emission,
                                left |-> next.left, held |-> next.held, new |-> made + 1]]
  /\ peak' = Greater(peak, Lent + 1)
  /\ UNCHANGED <<pool, inUse>>

GetChannel(p, next) == LendFree(p, next) \/ OpenNew(p, next)

\* Seeded fault: the new channel joins the pool and is not marked as lent.
ConnectedUnmarked(p) ==
  /\ job[p].pc = "connect" /\ broker.up /\ closing.phase # "done"
  /\ pool' = Append(pool, job[p].new)
  /\ job' = [job EXCEPT ![p] = [pc |-> "publish", emission |-> @.emission,
                                left |-> @.left, held |-> Append(@.held, @.new)]]
  /\ UNCHANGED <<inUse, made, broker, closing, sent, peak>>

\* waitForConnect resolves: the new channel joins the pool, lent.
Connected(p) ==
  /\ job[p].pc = "connect" /\ broker.up /\ closing.phase # "done"
  /\ pool' = Append(pool, job[p].new)
  /\ inUse' = inUse \cup {job[p].new}
  /\ job' = [job EXCEPT ![p] = [pc |-> "publish", emission |-> @.emission,
                                left |-> @.left, held |-> Append(@.held, @.new)]]
  /\ UNCHANGED <<made, broker, closing, sent, peak>>
-----------------------------------------------------------------------------
(***************************************************************************)
(* Publishing                                                              *)
(***************************************************************************)
\* emitDistributed, emitAll, emitPriority and emitWithExpiration up to the
\* first await.  emitAll's local part and the options of the message are left
\* out.
Emit(p, e) ==
  /\ ~Busy(p) /\ sent[e].result = "unsent"
  /\ sent' = [sent EXCEPT ![e].result = "running"]
  /\ GetChannel(p, [emission |-> e, left |-> MaxRetries[e], held |-> <<>>])
  /\ UNCHANGED <<broker, closing>>

\* The broker takes the message and routes it; one without a queue is dropped.
Taken(p) ==
  /\ job[p].pc = "publish" /\ broker.up /\ ~Closed(Top(job[p].held))
  /\ job' = [job EXCEPT ![p].pc = "confirm"]
  /\ sent' = [sent EXCEPT ![job[p].emission].copies =
                IF HasQueue(job[p].emission) THEN @ + 1 ELSE @]
  /\ UNCHANGED <<pool, inUse, made, broker, closing, peak>>

\* The broker's confirmation arrives: publish() resolves.
Confirmed(p) ==
  /\ job[p].pc = "confirm" /\ broker.up
  /\ job' = [job EXCEPT ![p].pc = "published"]
  /\ UNCHANGED <<pool, inUse, made, broker, closing, sent, peak>>

\* Seeded fault: the last error is logged and not thrown.
RejectedSwallowed(p) ==
  /\ job[p].pc \in {"publish", "confirm"}
  /\ IF job[p].left > 0
       THEN job' = [job EXCEPT ![p].pc = "sleep", ![p].left = @ - 1]
       ELSE job' = [job EXCEPT ![p].pc = "published"]
  /\ UNCHANGED <<pool, inUse, made, broker, closing, sent, peak>>

\* Seeded fault: nobody asks whether a retry is left.
RejectedUnchecked(p) ==
  /\ job[p].pc \in {"publish", "confirm"}
  /\ job' = [job EXCEPT ![p].pc = "sleep", ![p].left = @ - 1]
  /\ UNCHANGED <<pool, inUse, made, broker, closing, sent, peak>>

\* publish() rejects (the broker refuses, or the channel has been closed): wait
\* and try again while retries are left, holding the channel, else give up.
Rejected(p) ==
  /\ job[p].pc \in {"publish", "confirm"}
  /\ IF job[p].left > 0
       THEN job' = [job EXCEPT ![p].pc = "sleep", ![p].left = @ - 1]
       ELSE job' = [job EXCEPT ![p].pc = "failed"]
  /\ UNCHANGED <<pool, inUse, made, broker, closing, sent, peak>>

\* retryPublish wakes and calls emitDistributed again.
RetryPublish(p) ==
  /\ job[p].pc = "sleep"
  /\ GetChannel(p, job[p])
  /\ UNCHANGED <<broker, closing, sent>>

\* One finally block: the innermost call gives its channel back.  One that
\* disconnect() has forgotten is only warned about.
ReleaseChannel(p) ==
  /\ job[p].pc \in {"published", "failed"}
  /\ inUse' = inUse \ {Top(job[p].held)}
  /\ IF Len(job[p].held) > 1
       THEN job' = [job EXCEPT ![p].held = Below(@)] /\ UNCHANGED sent
       ELSE /\ job' = [job EXCEPT ![p] = Idling]
            /\ sent' = [sent EXCEPT ![job[p].emission].result = job[p].pc]
  /\ UNCHANGED <<pool, made, broker, closing, peak>>
-----------------------------------------------------------------------------
(***************************************************************************)
(* The broker and the shutdown                                             *)
(***************************************************************************)
\* The connection is lost; the wrappers will send again what was not confirmed.
Outage ==
  /\ broker.up /\ broker.outages < MaxOutages
  /\ broker' = [up |-> FALSE, outages |-> broker.outages + 1]
  /\ job' = [p \in Publishers |->
               IF job[p].pc = "confirm" THEN [job[p] EXCEPT !.pc = "publish"] ELSE job[p]]
  /\ UNCHANGED <<pool, inUse, made, closing, sent, peak>>

\* The connection manager has connected again.
Reconnect ==
  /\ ~broker.up
  /\ broker' = [broker EXCEPT !.up = TRUE]
  /\ UNCHANGED <<pool, inUse, made, job, closing, sent, peak>>

\* disconnect() closes the channels one after another ...
CloseChannel ==
  /\ closing.phase \in {"no", "closing"} /\ closing.next \in DOMAIN pool
  /\ closing' = [phase |-> "closing", next |-> closing.next + 1]
  /\ UNCHANGED <<pool, inUse, made, job, broker, sent, peak>>

\* ... stops at the first error, which it only logs ...
CloseFails ==
  /\ closing.phase = "closing"
  /\ closing' = [closing EXCEPT !.phase = "failed"]
  /\ UNCHANGED <<pool, inUse, made, job, broker, sent, peak>>

\* ... and then forgets the pool and closes the connection.
ForgetPool ==
  /\ closing.phase \in {"no", "closing"} /\ closing.next \notin DOMAIN pool
  /\ closing' = [phase |-> "done", next |-> 1]
  /\ pool' = <<>> /\ inUse' = {}
  /\ UNCHANGED <<made, job, broker, sent, peak>>
-----------------------------------------------------------------------------
PublisherStep(p) ==
  \/ Connected(p) \/ Taken(p) \/ Confirmed(p) \/ Rejected(p)
  \/ RetryPublish(p) \/ ReleaseChannel(p)

PoolNext ==
  \/ \E p \in Publishers :
       \/ \E e \in Emissions : Emit(p, e)
       \/ Connected(p)
       \/ Taken(p)
       \/ Confirmed(p)
       \/ Rejected(p)
       \/ RetryPublish(p)
       \/ ReleaseChannel(p)
  \/ Outage
  \/ Reconnect
  \/ CloseChannel
  \/ CloseFails
  \/ ForgetPool

\* The connection manager reconnects every second; an answer to what was sent
\* comes while the connection is up; timers fire.
PoolFairness == (\A p \in Publishers : WF_poolVars(PublisherStep(p))) /\ WF_poolVars(Reconnect)

PoolSpec == PoolInit /\ [][PoolNext]_poolVars /\ PoolFairness
-----------------------------------------------------------------------------
(***************************************************************************)
(* Properties                                                              *)
(***************************************************************************)
\* A channel is lent to one call at a time, the calls of one retried emission
\* included, and a channel that is being opened is nobody else's.
ExclusiveLending ==
  /\ \A p \in Publishers : Busy(p) =>
       \A i, j \in DOMAIN job[p].held : job[p].held[i] = job[p].held[j] => i = j
  /\ \A p, q \in Publishers : p # q => Held(p) \cap Held(q) = {}
  /\ \A p \in Opening : \A q \in Publishers :
       job[p].new \notin Held(q) /\ (q \in Opening /\ p # q => job[p].new # job[q].new)

\* Until the shutdown forgets it, the pool's book is right: what is marked as
\* lent is exactly what running calls hold, so every channel comes back.
LendingBook ==
  closing.phase # "done" =>
    inUse = UNION {Held(p) : p \in Publishers} /\ inUse \subseteq InPool

\* The pool never shrinks, but it outgrows its size only to the demand there
\* once was.
PoolFollowsDemand ==
  closing.phase # "done" => Len(pool) + Cardinality(Opening) <= Greater(PoolSize, peak)

\* However emissions overlap, fail and are retried, the pool lends each channel
\* to one of them, gets every one back, and has no more than were once asked for.
LendingSound == ExclusiveLending /\ LendingBook /\ PoolFollowsDemand

\* An emission that resolved is in its queue, provided that there is one: the
\* error of the last try reaches the caller.
PublishedIsQueued ==
  \A e \in Emissions :
    sent[e].result = "published" /\ HasQueue(e) => sent[e].copies > 0

\* Retries and connections that break may deliver an event more than once, but
\* no more often than there were tries and breaks.
CopiesBounded ==
  \A e \in Emissions : sent[e].copies <= 1 + MaxRetries[e] + broker.outages

\* What the caller of emitDistributed is told is true, and what is repeated is
\* repeated for a reason.
DeliverySound == PublishedIsQueued /\ CopiesBounded

\* Unless the service is shutting down, every emission is settled one day, however
\* many others hold channels while they wait for another one.
EmissionSettles ==
  \A e \in Emissions : []<>(sent[e].result # "running" \/ closing.phase # "no")
==============================================================================
