-------------------------- MODULE SwaggerRefreshProofs --------------------------
(***************************************************************************)
(* Proofs about SwaggerRefresh, for any number of sessions and of refresh  *)
(* requests under way.                                                     *)
(***************************************************************************)
EXTENDS SwaggerRefresh, TLAPS

USE SwaggerAssumption

\* The types lean on the other part: a timer that is set finds a free name
\* because what it replaces was the only one.
SwaggerInv == SwaggerTypeOK /\ OnePendingTimer

-----------------------------------------------------------------------------
\* Clearing the timer leaves none to run.
LEMMA ClearedIsEmpty == ASSUME OnePendingTimer PROVE Cleared = {}
BY DEF OnePendingTimer, Cleared

LEMMA FreshName == NewId({}) \in TimerIds
BY DEF NewId, TimerIds

\* setupAutoRefresh leaves one timer at most, the one the script knows.
LEMMA SetupKeepsOne ==
  ASSUME SwaggerInv, NEW r \in Sessions, setupAutoRefresh(r)
  PROVE  /\ timer' \in TimerIds \cup {NoTimer} /\ pending' \subseteq Timer /\ broken' \in BOOLEAN
         /\ OnePendingTimer'
<1>1. Cleared = {}
  BY ClearedIsEmpty DEF SwaggerInv
<1>2. PICK inTime \in getTokenExpiry :
        IF inTime
          THEN /\ timer' = NewId({})
               /\ pending' = {[id |-> NewId({}), refresh |-> r]}
               /\ UNCHANGED broken
          ELSE timer' = NoTimer /\ pending' = {} /\ broken' = TRUE
  BY <1>1 DEF setupAutoRefresh, Schedule
<1>3. CASE inTime
  BY <1>2, <1>3, FreshName DEF SwaggerInv, SwaggerTypeOK, OnePendingTimer, Timer
<1>4. CASE ~inTime
  BY <1>2, <1>4 DEF SwaggerInv, SwaggerTypeOK, OnePendingTimer
<1>5. QED
  BY <1>3, <1>4

\* The same of a store that has lost its tokens: the timer goes.
LEMMA ClearKeepsOne ==
  ASSUME SwaggerInv, timer' = NoTimer, pending' = Cleared
  PROVE  timer' \in TimerIds \cup {NoTimer} /\ pending' \subseteq Timer /\ OnePendingTimer'
BY ClearedIsEmpty DEF SwaggerInv, OnePendingTimer

\* The one timer of the start is that of the tokens of an earlier visit.
LEMMA SwaggerInitInvariant == SwaggerInit => SwaggerInv
<1>1. ASSUME SwaggerInit PROVE SwaggerInv
  <2>1. flight \in [Sessions -> 0..MaxFlights]
    BY <1>1 DEF SwaggerInit, SwaggerAssumption
  <2>2. /\ stored \in StoredTokens /\ lastSeen \in StoredTokens
        /\ ui \in BOOLEAN /\ blind \in BOOLEAN
    BY <1>1 DEF SwaggerInit
  <2>3. CASE timer = NoTimer /\ pending = {} /\ broken = Complete(stored)
    <3>1. broken \in BOOLEAN
      BY <2>3 DEF Complete
    <3>2. QED
      BY <2>1, <2>2, <2>3, <3>1 DEF SwaggerInv, SwaggerTypeOK, OnePendingTimer
  <2>4. CASE /\ Complete(stored) /\ timer = 1
             /\ pending = {[id |-> 1, refresh |-> stored.refresh]} /\ broken = FALSE
    <3>1. stored.refresh \in Sessions
      BY <2>2, <2>4 DEF Complete, StoredTokens
    <3>2. timer \in TimerIds /\ pending \subseteq Timer
      BY <2>4, <3>1 DEF Timer, TimerIds
    <3>3. OnePendingTimer
      BY <2>4 DEF OnePendingTimer
    <3>4. QED
      BY <2>1, <2>2, <2>4, <3>2, <3>3 DEF SwaggerInv, SwaggerTypeOK
  <2>5. QED
    BY <1>1, <2>3, <2>4 DEF SwaggerInit
<1>2. QED
  BY <1>1

LEMMA SwaggerNextInvariant == SwaggerInv /\ [SwaggerNext]_swaggerVars => SwaggerInv'
<1> SUFFICES ASSUME SwaggerInv, [SwaggerNext]_swaggerVars PROVE SwaggerInv'
  OBVIOUS
<1> USE DEF SwaggerInv
<1>1. ASSUME NEW r \in Sessions, Authorize(r) PROVE SwaggerInv'
  <2>1. PICK odd \in BOOLEAN :
          stored' = [access |-> [session |-> r, odd |-> odd], refresh |-> r]
    BY <1>1 DEF Authorize
  <2>2. stored' \in StoredTokens
    BY <2>1 DEF StoredTokens, Access
  <2>3. QED
    BY <1>1, <2>2 DEF Authorize, SwaggerTypeOK, OnePendingTimer
<1>2. ASSUME NEW r \in Sessions, TimerFires(r) PROVE SwaggerInv'
  <2>1. flight' \in [Sessions -> 0..MaxFlights]
    BY <1>2 DEF TimerFires, SwaggerTypeOK
  <2>2. pending' \subseteq pending
    BY <1>2 DEF TimerFires
  <2>3. QED
    BY <1>2, <2>1, <2>2 DEF TimerFires, SwaggerTypeOK, OnePendingTimer
<1>3. ASSUME NEW r \in Sessions, RefreshFails(r) PROVE SwaggerInv'
  <2>1. flight' \in [Sessions -> 0..MaxFlights]
    BY <1>3 DEF RefreshFails, SwaggerTypeOK
  <2>2. QED
    BY <1>3, <2>1 DEF RefreshFails, SwaggerTypeOK, OnePendingTimer
<1>4. ASSUME NEW r \in Sessions, Refreshed(r) PROVE SwaggerInv'
  <2>1. flight' \in [Sessions -> 0..MaxFlights]
    BY <1>4 DEF Refreshed, SwaggerTypeOK
  <2>2. stored' \in StoredTokens
    <3>1. CASE ui
      <4>1. PICK odd \in BOOLEAN :
              stored' = [stored EXCEPT !.access = [session |-> r, odd |-> odd]]
        BY <1>4, <3>1 DEF Refreshed, updateSwaggerAuth, SwaggerTypeOK, StoredTokens, Access
      <4>2. QED
        BY <4>1 DEF SwaggerTypeOK, StoredTokens, Access
    <3>2. CASE ~ui
      BY <1>4, <3>2 DEF Refreshed, updateSwaggerAuth, SwaggerTypeOK
    <3>3. QED
      BY <3>1, <3>2
  <2>3. blind' \in BOOLEAN
    BY <1>4 DEF Refreshed, LoggedOut, Unnoticed
  <2>4. QED
    BY <1>4, <2>1, <2>2, <2>3, SetupKeepsOne DEF Refreshed, SwaggerTypeOK
<1>5. CASE Logout
  <2>1. stored' \in StoredTokens
    BY <1>5 DEF Logout, Empty, StoredTokens
  <2>2. QED
    BY <1>5, <2>1 DEF Logout, SwaggerTypeOK, OnePendingTimer
<1>6. CASE MonitorTick
  <2>1. CASE Complete(stored) /\ setupAutoRefresh(stored.refresh)
    <3>1. stored.refresh \in Sessions
      BY <2>1 DEF Complete, SwaggerTypeOK, StoredTokens
    <3>2. QED
      BY <1>6, <2>1, <3>1, SetupKeepsOne DEF MonitorTick, SwaggerTypeOK
  <2>2. CASE timer' = NoTimer /\ pending' = Cleared /\ UNCHANGED broken
    BY <1>6, <2>2, ClearKeepsOne DEF MonitorTick, SwaggerTypeOK
  <2>3. QED
    BY <1>6, <2>1, <2>2 DEF MonitorTick
<1>7. CASE Click
  <2>1. stored.refresh \in Sessions
    BY <1>7 DEF Click, Complete, SwaggerTypeOK, StoredTokens
  <2>2. QED
    BY <1>7, <2>1, SetupKeepsOne DEF Click, SwaggerTypeOK
<1>8. CASE UiLoads
  BY <1>8 DEF UiLoads, SwaggerTypeOK, OnePendingTimer
<1>9. CASE UNCHANGED swaggerVars
  BY <1>9 DEF swaggerVars, SwaggerTypeOK, OnePendingTimer
<1>10. QED
  BY <1>1, <1>2, <1>3, <1>4, <1>5, <1>6, <1>7, <1>8, <1>9 DEF SwaggerNext

LEMMA SwaggerInvariance == SwaggerSpec => []SwaggerInv
BY SwaggerInitInvariant, SwaggerNextInvariant, PTL DEF SwaggerSpec

\* Every variable of the page's script keeps its type.
THEOREM SwaggerTypeCorrect == SwaggerSpec => []SwaggerTypeOK
BY SwaggerInvariance, PTL DEF SwaggerInv

\* However clicks, the monitor, logins and callbacks that were overtaken follow
\* each other, at most one timer is to run and the script can clear it.
THEOREM OneTimer == SwaggerSpec => []OnePendingTimer
BY SwaggerInvariance, PTL DEF SwaggerInv
=================================================================================
