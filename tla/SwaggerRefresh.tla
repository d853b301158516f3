----------------------------- MODULE SwaggerRefresh -----------------------------
(***************************************************************************)
(* The script that refreshes tokens in the Swagger page                    *)
(* (public/swagger-custom.js).                                             *)
(*                                                                         *)
(* The store of the page, which outlives it and is shared with its other   *)
(* tabs, holds an access and a refresh token.  A timer refreshes the       *)
(* access token shortly before it expires, a monitor looks every second    *)
(* whether the store has changed, and the dialog's buttons have the store  *)
(* looked at as well; each of them calls setupAutoRefresh, which replaces  *)
(* the timer.  A callback that awaits its answer cannot be cancelled:      *)
(* logging out, or in as somebody else, may overtake it.                   *)
(*                                                                         *)
(* The script waits for window.ui, but not for ever: it may start without, *)
(* and then no refresh writes to the store until window.ui is there.       *)
(***************************************************************************)
EXTENDS Naturals, FiniteSets

CONSTANTS
  Sessions,    \* logins the user may enter
  NoToken,
  NoTimer,
  MaxFlights   \* bound: refresh requests under way at once, per session

ASSUME SwaggerAssumption ==
  /\ MaxFlights \in Nat /\ NoTimer \notin 1..2
  /\ NoToken \notin Sessions /\ NoToken \notin [session : Sessions, odd : BOOLEAN]

VARIABLES
  stored,    \* localStorage.authorized
  lastSeen,  \* lastAuthState of the monitor
  timer,     \* refreshTimer: a timer, though it may have run
  pending,   \* timers the browser will run, with the refresh token each captured
  flight,    \* refresh requests under way
  ui,        \* whether window.ui is there
  \* History, read by properties only:
  broken,    \* since the last login the chain of refreshes has ended
  blind      \* the last timer was set by a refresh that told the store nothing,
             \* after a logout that the monitor has already noticed

swaggerVars == <<stored, lastSeen, timer, pending, flight, ui, broken, blind>>
-----------------------------------------------------------------------------
\* Two access tokens of a session that follow each other differ.
Access    == [session : Sessions, odd : BOOLEAN]
\* Names of timers: one that is set gets a name that no timer to run has.
TimerIds  == 1..2
Timer     == [id : TimerIds, refresh : Sessions]
StoredTokens == [access : Access \cup {NoToken}, refresh : Sessions \cup {NoToken}]

\* Types of every variable.
SwaggerTypeOK ==
  /\ stored \in StoredTokens /\ lastSeen \in StoredTokens
  /\ timer \in TimerIds \cup {NoTimer} /\ pending \subseteq Timer
  /\ flight \in [Sessions -> 0..MaxFlights]
  /\ ui \in BOOLEAN /\ broken \in BOOLEAN /\ blind \in BOOLEAN

Empty       == [access |-> NoToken, refresh |-> NoToken]
Complete(s) == s.access # NoToken /\ s.refresh # NoToken
LoggedOut   == stored.refresh = NoToken
Mixed       == Complete(stored) /\ stored.access.session # stored.refresh
Unnoticed   == stored # lastSeen

\* init(): the store is as an earlier visit has left it, with or without window.ui;
\* checkAndActivateTokens sets a timer for tokens that are there and still good.
SwaggerInit ==
  /\ stored \in StoredTokens /\ lastSeen = stored
  /\ \/ timer = NoTimer /\ pending = {} /\ broken = Complete(stored)
     \/ /\ Complete(stored) /\ timer = 1
        /\ pending = {[id |-> 1, refresh |-> stored.refresh]} /\ broken = FALSE
  /\ flight = [r \in Sessions |-> 0]
  /\ ui \in BOOLEAN /\ blind = FALSE
-----------------------------------------------------------------------------
\* getTokenExpiry, compared with the clock: is there more than a minute left?  A
\* token that cannot be decoded counts as expired.
getTokenExpiry == {TRUE, FALSE}

Cleared == {t \in pending : t.id # timer}

NewId(rest) == CHOOSE id \in TimerIds : \A t \in rest : t.id # id

Schedule(r, rest) ==
  \E inTime \in getTokenExpiry :
    IF inTime
      THEN /\ timer' = NewId(rest)
           /\ pending' = rest \cup {[id |-> NewId(rest), refresh |-> r]}
           /\ UNCHANGED broken
      ELSE timer' = NoTimer /\ pending' = rest /\ broken' = TRUE

\* Seeded fault: the timer that is set is not cleared.
setupAutoRefreshUncleared(r) == Schedule(r, pending)

\* setupAutoRefresh: the timer goes; a new one comes unless it is too late.
setupAutoRefresh(r) == Schedule(r, Cleared)

\* The user fills in the dialog, or logs out there, in this tab or in another.
Authorize(r) ==
  /\ LoggedOut \/ stored.refresh # r
  /\ \E odd \in BOOLEAN :
       stored' = [access |-> [session |-> r, odd |-> odd], refresh |-> r]
  /\ broken' = FALSE
  /\ UNCHANGED <<lastSeen, timer, pending, flight, ui, blind>>

Logout ==
  /\ ~LoggedOut /\ stored' = Empty
  /\ UNCHANGED <<lastSeen, timer, pending, flight, ui, broken, blind>>

\* Swagger UI has loaded after all.
UiLoads ==
  /\ ~ui /\ ui' = TRUE
  /\ UNCHANGED <<stored, lastSeen, timer, pending, flight, broken, blind>>

\* The monitor notices a change.
MonitorTick ==
  /\ Unnoticed /\ lastSeen' = stored
  /\ \/ Complete(stored) /\ setupAutoRefresh(stored.refresh)
     \/ ~Complete(stored) /\ timer' = NoTimer /\ pending' = Cleared /\ UNCHANGED broken
  /\ blind' = FALSE
  /\ UNCHANGED <<stored, flight, ui>>

\* checkAndActivateTokens, half a second after a click.
Click ==
  /\ Complete(stored) /\ setupAutoRefresh(stored.refresh)
  /\ blind' = FALSE
  /\ UNCHANGED <<stored, lastSeen, flight, ui>>

\* The callback runs up to the request.  The monitor looks every second and a
\* timer is minutes away: what is to be noticed has been noticed.
\* Bound: MaxFlights.
TimerFires(r) ==
  /\ ~Unnoticed /\ flight[r] < MaxFlights
  /\ \E t \in {t \in pending : t.refresh = r} : pending' = pending \ {t}
  /\ flight' = [flight EXCEPT ![r] = @ + 1]
  /\ UNCHANGED <<stored, lastSeen, timer, ui, broken, blind>>

\* The request fails: no token, and no further attempt.
RefreshFails(r) ==
  /\ flight[r] > 0 /\ flight' = [flight EXCEPT ![r] = @ - 1]
  /\ broken' = TRUE
  /\ UNCHANGED <<stored, lastSeen, timer, pending, ui, blind>>

\* updateSwaggerAuth: the access token is put into the store, whatever that has
\* become; without window.ui it gives up before that.
updateSwaggerAuth(r) ==
  stored' = IF ui THEN [stored EXCEPT !.access =
                          [session |-> r, odd |-> IF @ = NoToken THEN FALSE ELSE ~@.odd]]
                  ELSE stored

\* It succeeds: the store is told, or is not, and either way the timer is set with
\* the refresh token the callback captured.
Refreshed(r) ==
  /\ flight[r] > 0 /\ flight' = [flight EXCEPT ![r] = @ - 1]
  /\ updateSwaggerAuth(r)
  /\ setupAutoRefresh(r)
  /\ blind' = (~ui /\ LoggedOut /\ ~Unnoticed)
  /\ UNCHANGED <<lastSeen, ui>>

SwaggerNext ==
  \/ \E r \in Sessions :
       \/ Authorize(r)
       \/ TimerFires(r)
       \/ RefreshFails(r)
       \/ Refreshed(r)
  \/ Logout
  \/ UiLoads
  \/ MonitorTick
  \/ Click

\* Timers and intervals fire, requests are answered.
SwaggerFairness ==
  /\ WF_swaggerVars(MonitorTick)
  /\ \A r \in Sessions : WF_swaggerVars(Refreshed(r) \/ RefreshFails(r)) /\ WF_swaggerVars(TimerFires(r))

SwaggerSpec == SwaggerInit /\ [][SwaggerNext]_swaggerVars /\ SwaggerFairness
-----------------------------------------------------------------------------
(***************************************************************************)
(* Properties                                                              *)
(***************************************************************************)
\* At most one timer is to run, and it is the one the script knows and can
\* clear: callbacks that overlap do not start chains of their own.
OnePendingTimer == \A t, u \in pending : t = u /\ t.id = timer

\* After a logout the refreshing stops, although a callback under way stores a
\* new access token and sets a new timer, unless that callback finds no window.ui:
\* then the store stays empty, the monitor notices nothing, and each refresh sets
\* the timer of the next.  If window.ui comes later, that ends as well.
LogoutStopsRefresh ==
  []<>(LoggedOut => \/ pending = {} /\ \A r \in Sessions : flight[r] = 0
                    \/ ~ui /\ blind)

\* An access token of one session does not stay next to the refresh token of
\* another, which a refresh overtaken by a new login brings about: the next
\* refresh is the new session's, unless the chain has ended or no refresh writes.
MixedTokensHeal == []<>(Mixed => broken \/ ~ui)
=============================================================================
