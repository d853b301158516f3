-------------------------------- MODULE Health --------------------------------
(***************************************************************************)
(* The health endpoints: HealthService, its probes of the three stores,    *)
(* and the reconnecting of the Redis client.                               *)
(*                                                                         *)
(* The probes of a check run at the same time and each answers at a moment *)
(* of its own.  PostgreSQL is asked.  MongoDB is not: the probe answers    *)
(* with what mongoose last noticed of the connection, which may lag behind *)
(* the store either way.  A ping of Redis waits while its client           *)
(* reconnects; after a number of attempts that failed the client gives up  *)
(* for good.                                                               *)
(***************************************************************************)
EXTENDS Naturals, FiniteSets

CONSTANTS
  RedisTries,   \* attempts of retryStrategy: 10
  MaxFlips      \* bound: how often a store goes away or comes back

ASSUME HealthAssumption == RedisTries \in Nat /\ MaxFlips \in Nat

VARIABLES
  up,        \* the stores that are running
  link,      \* the client of Redis: [state, times]
  connected, \* readyState of mongoose: whether it holds MongoDB for connected
  check,     \* the check that runs: [kind, probed, seen, lost, stale]
  verdict,   \* the last answer, with what it was based on
  flips

healthVars == <<up, link, connected, check, verdict, flips>>
-----------------------------------------------------------------------------
Stores == {"postgres", "mongodb", "redis"}
Condition == {"unknown", "healthy", "unhealthy"}
NoCheck == [kind |-> "none"]

\* Seeded fault: Redis is not needed to be ready.
ProbedByPostgres(kind) == IF kind = "detailed" THEN Stores ELSE {"postgres"}

\* detailedCheck asks all stores, readinessCheck those that requests need.
ProbedBy(kind) == IF kind = "detailed" THEN Stores ELSE {"postgres", "redis"}

\* History, of the check: the stores that were running at some time during it, and
\* whether Redis had been given up, or mongoose had not noticed that MongoDB was
\* gone, when it began.
Check == [kind : {"detailed", "ready"}, probed : [Stores -> Condition],
          seen : SUBSET Stores, lost : BOOLEAN, stale : BOOLEAN]
Verdict == [kind : {"none", "detailed", "ready"}, good : BOOLEAN, seen : SUBSET Stores,
            lost : BOOLEAN, stale : BOOLEAN]

NoVerdict == [kind |-> "none", good |-> FALSE, seen |-> {}, lost |-> FALSE, stale |-> FALSE]

\* Types of every variable.
HealthTypeOK ==
  /\ up \subseteq Stores
  /\ link \in [state : {"none", "connected", "retrying", "ended"}, times : 0..RedisTries + 1]
  /\ connected \in BOOLEAN
  /\ check \in Check \cup {NoCheck} /\ verdict \in Verdict /\ flips \in 0..MaxFlips

Client    == link.state
Checking  == check # NoCheck
AskedFor(x) == Checking /\ x \in ProbedBy(check.kind)

\* Prisma has connected, or the process would not have started; nobody waits
\* for the other two, and the client of Redis is still to be made.
HealthInit ==
  /\ up \in {s \in SUBSET Stores : "postgres" \in s}
  /\ link = [state |-> "none", times |-> 0]
  /\ connected = ("mongodb" \in up)
  /\ check = NoCheck
  /\ verdict = NoVerdict
  /\ flips = 0
-----------------------------------------------------------------------------

\* What becomes of the client when its attempt number `times` is due.
retryStrategy(times) ==
  [state |-> IF times > RedisTries THEN "ended" ELSE "retrying", times |-> times]

\* useFactory of the module: the client is made and begins to connect.
CreateClient ==
  /\ Client = "none"
  /\ link' = [state |-> "retrying", times |-> 0]
  /\ UNCHANGED <<up, connected, check, verdict, flips>>

Seen(x) == IF Checking THEN [check EXCEPT !.seen = @ \cup {x}] ELSE check

\* A store stops; a client of Redis that was connected notices at once, mongoose
\* when a heartbeat fails.
StoreDown(x) ==
  /\ x \in up /\ flips < MaxFlips /\ flips' = flips + 1
  /\ up' = up \ {x}
  /\ link' = IF x = "redis" /\ Client = "connected" THEN retryStrategy(1) ELSE link
  /\ UNCHANGED <<connected, check, verdict>>

StoreUp(x) ==
  /\ x \in Stores \ up /\ flips < MaxFlips /\ flips' = flips + 1
  /\ up' = up \cup {x} /\ check' = Seen(x)
  /\ UNCHANGED <<link, connected, verdict>>

\* Mongoose notices that MongoDB has gone or come back.
HeartbeatMongo ==
  /\ connected # ("mongodb" \in up)
  /\ connected' = ("mongodb" \in up)
  /\ UNCHANGED <<up, link, check, verdict, flips>>

\* The client's next attempt.
RetryRedis ==
  /\ Client = "retrying"
  /\ link' = IF "redis" \in up THEN [state |-> "connected", times |-> 0]
                               ELSE retryStrategy(link.times + 1)
  /\ UNCHANGED <<up, connected, check, verdict, flips>>

\* GET /health/detailed and /health/ready, up to the probes.
StartCheck(kind) ==
  /\ ~Checking /\ Client # "none"
  /\ check' = [kind |-> kind, probed |-> [x \in Stores |-> "unknown"], seen |-> up,
               lost |-> Client = "ended", stale |-> connected /\ "mongodb" \notin up]
  /\ verdict' = NoVerdict
  /\ UNCHANGED <<up, link, connected, flips>>

Found(x, healthy) ==
  /\ check' = [check EXCEPT !.probed[x] = IF healthy THEN "healthy" ELSE "unhealthy"]
  /\ UNCHANGED <<up, link, connected, verdict, flips>>

Unanswered(x) == AskedFor(x) /\ check.probed[x] = "unknown"

checkPostgreSQL == Unanswered("postgres") /\ Found("postgres", "postgres" \in up)

\* isConnected looks at readyState and sends nothing.
checkMongoDB == Unanswered("mongodb") /\ Found("mongodb", connected)

\* The ping is sent, or waits for the connection, or is refused for good.
checkRedis ==
  /\ Unanswered("redis") /\ Client # "retrying"
  /\ Found("redis", Client = "connected")

AllHealthy == \A x \in ProbedBy(check.kind) : check.probed[x] = "healthy"

AnswerCheck ==
  /\ Checking /\ \A x \in ProbedBy(check.kind) : check.probed[x] # "unknown"
  /\ verdict' = [kind |-> check.kind, good |-> AllHealthy, seen |-> check.seen,
               lost |-> check.lost, stale |-> check.stale]
  /\ check' = NoCheck
  /\ UNCHANGED <<up, link, connected, flips>>

HealthNext ==
  \/ \E x \in Stores :
       \/ StoreDown(x)
       \/ StoreUp(x)
  \/ CreateClient
  \/ HeartbeatMongo
  \/ RetryRedis
  \/ \E kind \in {"detailed", "ready"} : StartCheck(kind)
  \/ checkPostgreSQL
  \/ checkMongoDB
  \/ checkRedis
  \/ AnswerCheck

\* Drivers answer or time out, and the client's timer fires.
HealthFairness ==
  /\ WF_healthVars(RetryRedis)
  /\ WF_healthVars(checkPostgreSQL \/ checkMongoDB \/ checkRedis \/ AnswerCheck)

HealthSpec == HealthInit /\ [][HealthNext]_healthVars /\ HealthFairness
-----------------------------------------------------------------------------
\* A good verdict was earned: each store that it speaks for was running at some
\* time while it was being reached, although perhaps no two at the same time.
\* MongoDB alone may have been gone all that time, but then it had gone before the
\* check began and mongoose had not noticed: a check never takes a store for
\* healthy that it has not noticed coming back.
VerdictGrounded ==
  verdict.good =>
    \A x \in ProbedBy(verdict.kind) \ verdict.seen : x = "mongodb" /\ verdict.stale

\* Once the client has given Redis up no check that begins is good any more,
\* although Redis may be back: only a restart helps.
GivenUpStaysDown == verdict.lost => ~verdict.good

\* Every check is answered, one that waits for a lost Redis as well: the client
\* connects, or its attempts are used up.
CheckAnswers == []<>~Checking

\* What a check says of the stores is grounded, the bad news of a client that
\* has given up included.
VerdictsSound == VerdictGrounded /\ GivenUpStaysDown
=============================================================================
