-------------------------- MODULE TcpClientProofs --------------------------
(***************************************************************************)
(* Theorems about TcpClient, for every value of its constants.             *)
(*                                                                         *)
(* NoEarlyRetry is not inductive: an attempt can fail long before it may   *)
(* be retried.  Spacing strengthens it to a fact about every moment of the *)
(* wait: the time since the attempt began plus the time still to wait is   *)
(* never below MinTimeout, because the interval itself never is.           *)
(***************************************************************************)
EXTENDS TcpClient, TLAPS

\* The interval stays between MinTimeout and kMaxTimeout, and an attempt ended
\* by the remote end keeps the timer waiting (ScheduleNextTry).
Spacing ==
    /\ next_try_interval_ >= MinTimeout
    /\ ended = "remote" => try_age + next_try_in >= MinTimeout

\* The inductive invariant of the client.
Inv ==
    /\ TypeOK
    /\ AssertionsHold
    /\ NoLeakNoDangling
    /\ WaitBounded
    /\ Spacing

-----------------------------------------------------------------------------

\* Facts about the constants: the timeouts a client can have (SetTimeout).
LEMMA TimeoutFacts ==
    /\ ReconnectTimeout \in EffectiveTimeouts
    /\ \A s \in Timeouts : Larger(MinTimeout, s) \in EffectiveTimeouts
    /\ \A t \in EffectiveTimeouts :
          t \in Nat /\ t >= MinTimeout /\ t <= MaxTimeout
<1>1. \A s \in Timeouts : Larger(MinTimeout, s) \in Nat
                          /\ Larger(MinTimeout, s) >= MinTimeout
  BY ConstantsAreSeconds DEF Larger
<1>2. QED
  BY <1>1, ConstantsAreSeconds, ConstantsAreOrdered DEF EffectiveTimeouts

\* One step of the exponential backoff never makes an interval shorter.
LEMMA BackoffGrows ==
    ASSUME NEW f \in BackoffValues, NEW i \in Nat
    PROVE  /\ (f[1] * i) \div f[2] \in Nat
           /\ (f[1] * i) \div f[2] >= i
<1>1. f[1] \in Nat /\ f[2] \in Nat \ {0} /\ f[1] >= f[2]
  BY BackoffsGrow DEF BackoffValues
<1> DEFINE n == f[1]
           d == f[2]
<1>2. n \in Nat /\ d \in Nat \ {0} /\ n >= d
  BY <1>1
<1> HIDE DEF n, d
<1>3. n * i \in Nat /\ n * i >= d * i /\ d * i \in Nat
  BY <1>2, SMTT(30)
<1>4. \A p \in Nat : p >= d * i => p \div d >= i /\ p \div d \in Nat
  BY <1>2, SMTT(30)
<1>5. QED
  BY <1>3, <1>4 DEF n, d

\* ScheduleNextTry keeps the interval and the wait within their bounds and
\* leaves the attempt's age plus the wait at MinTimeout or more.
LEMMA ScheduleSpaces ==
    ASSUME TypeOK, WaitBounded, Spacing,
           NEW since \in 0..TryCap, ScheduleNextTry(since)
    PROVE  /\ next_try_interval_' \in Nat
           /\ next_try_in' \in Nat
           /\ WaitBounded'
           /\ next_try_interval_' >= MinTimeout
           /\ since + next_try_in' >= MinTimeout
<1> DEFINE grown == (backoff_[1] * next_try_interval_) \div backoff_[2]
<1>1. grown \in Nat /\ grown >= next_try_interval_
  BY BackoffGrows DEF TypeOK
<1>2. MinTimeout \in Nat /\ MaxTimeout \in Nat /\ MinTimeout <= MaxTimeout
      /\ MinTimeout <= ShortConnectionInterval /\ ShortConnectionInterval \in Nat
  BY TimeoutFacts, ConstantsAreSeconds, ConstantsAreOrdered
<1>3. reconnect_timeout_ \in Nat /\ reconnect_timeout_ >= MinTimeout
      /\ reconnect_timeout_ <= MaxTimeout
  BY TimeoutFacts DEF TypeOK
<1> HIDE DEF grown
<1>4. CASE since <= ShortConnectionInterval
  <2>1. next_try_in' = next_try_interval_
        /\ next_try_interval_' = Smaller(MaxTimeout, grown)
    BY <1>4 DEF ScheduleNextTry, grown
  <2>2. QED
    BY <2>1, <1>1, <1>2 DEF Smaller, TypeOK, WaitBounded, Spacing, TryCap
<1>5. CASE ~(since <= ShortConnectionInterval)
  <2>1. next_try_in' = 0 /\ next_try_interval_' = reconnect_timeout_
    BY <1>5 DEF ScheduleNextTry
  <2>2. QED
    BY <2>1, <1>2, <1>3, <1>5 DEF WaitBounded, TryCap
<1>6. QED
  BY <1>4, <1>5

\* The pointers and the bufferevents libevent holds, as one fact.
Linked == AssertionsHold /\ NoLeakNoDangling

\* StartConnect, from the timer or from the owner, keeps every part of Inv.
LEMMA StartConnectKeeps ==
    ASSUME Inv, StartConnect
    PROVE  /\ pending_' \in Bevs \cup {NoBev} /\ conn_' \in Bevs \cup {NoBev}
           /\ connecting_' \in BOOLEAN /\ silent' \in BOOLEAN
           /\ dialing' \subseteq Bevs /\ open' \subseteq Bevs
           /\ try_age' \in 0..TryCap /\ active_age' \in 0..ActiveCap
           /\ next_try_interval_' \in Nat /\ next_try_in' \in Nat
           /\ ended' \in {"none", "local", "remote", "owner"}
           /\ Linked' /\ WaitBounded' /\ Spacing'
<1> USE DEF Inv
<1>0. TryCap \in Nat /\ ActiveCap \in Nat /\ 0 \in 0..TryCap
  BY ConstantsAreSeconds DEF TryCap
<1>1. CASE ConnectFailsLocally
  <2>1. Linked'
    BY <1>1, NoBevIsNull DEF ConnectFailsLocally, BeginConnect, Linked, TypeOK,
       AssertionsHold, NoLeakNoDangling
  <2>2. connecting_' \in BOOLEAN /\ silent' \in BOOLEAN
    BY <1>1 DEF ConnectFailsLocally, BeginConnect, TypeOK
  <2>3. WaitBounded' /\ Spacing'
    BY <1>1 DEF ConnectFailsLocally, retry, WaitBounded, Spacing
  <2>4. QED
    BY <1>0, <1>1, <2>1, <2>2, <2>3 DEF ConnectFailsLocally, BeginConnect,
       TypeOK, retry
<1>2. CASE ConnectFailsAtOnce
  <2>1. Linked'
    BY <1>2, NoBevIsNull DEF ConnectFailsAtOnce, BeginConnect, Linked, TypeOK,
       AssertionsHold, NoLeakNoDangling
  <2>2. /\ next_try_interval_' \in Nat /\ next_try_in' \in Nat
        /\ WaitBounded' /\ next_try_interval_' >= MinTimeout
        /\ 0 + next_try_in' >= MinTimeout
    BY <1>0, <1>2, ScheduleSpaces DEF ConnectFailsAtOnce
  <2>3. connecting_' \in BOOLEAN /\ silent' \in BOOLEAN
    BY <1>2 DEF ConnectFailsAtOnce, BeginConnect, TypeOK
  <2>4. Spacing'
    BY <1>2, <2>2 DEF ConnectFailsAtOnce, BeginConnect, Spacing
  <2>5. QED
    BY <1>0, <1>2, <2>1, <2>2, <2>3, <2>4 DEF ConnectFailsAtOnce,
       BeginConnect, TypeOK
<1>3. CASE ConnectPends
  <2>1. PICK b \in Bevs : pending_' = b /\ dialing' = dialing \cup {b}
    BY <1>3 DEF ConnectPends
  <2>2. Linked'
    BY <1>3, <2>1, NoBevIsNull DEF ConnectPends, BeginConnect, Linked, TypeOK,
       AssertionsHold, NoLeakNoDangling
  <2>3. connecting_' \in BOOLEAN /\ silent' \in BOOLEAN
    BY <1>3 DEF ConnectPends, BeginConnect
  <2>4. WaitBounded' /\ Spacing'
    BY <1>3 DEF ConnectPends, retry, WaitBounded, Spacing
  <2>5. QED
    BY <1>0, <1>3, <2>1, <2>2, <2>3, <2>4 DEF ConnectPends, BeginConnect,
       TypeOK, retry
<1>4. QED
  BY <1>1, <1>2, <1>3 DEF StartConnect

\* Close, whoever calls it, leaves the client with no bufferevent at all.
LEMMA CloseKeeps ==
    ASSUME Inv, Close
    PROVE  /\ pending_' = NoBev /\ conn_' = NoBev /\ connecting_' = FALSE
           /\ dialing' = {} /\ open' = {} /\ silent' = FALSE
           /\ Linked'
<1>1. pending_' = NoBev /\ conn_' = NoBev /\ connecting_' = FALSE
      /\ dialing' = {} /\ open' = {}
  BY NoBevIsNull DEF Inv, Close, TypeOK, AssertionsHold, NoLeakNoDangling
<1>2. QED
  BY <1>1 DEF Close, Linked, AssertionsHold, NoLeakNoDangling

\* Init establishes the invariant.
LEMMA InitInv == Init => Inv
<1> SUFFICES ASSUME Init PROVE Inv
  OBVIOUS
<1>1. TypeOK
  <2>1. connecting_ \in BOOLEAN /\ silent \in BOOLEAN
    BY DEF Init
  <2>2. QED
    BY <2>1, ConstantsAreSeconds, TimeoutFacts DEF Init, TypeOK,
       BackoffValues, TryCap
<1>2. AssertionsHold /\ NoLeakNoDangling
  BY DEF Init, AssertionsHold, NoLeakNoDangling
<1>3. WaitBounded /\ Spacing
  BY ConstantsAreSeconds, TimeoutFacts DEF Init, WaitBounded, Spacing
<1>4. QED
  BY <1>1, <1>2, <1>3 DEF Inv

\* Every step of the client keeps the invariant.
LEMMA StepInv == Inv /\ [Next]_vars => Inv'
<1> SUFFICES ASSUME Inv, [Next]_vars PROVE Inv'
  OBVIOUS
<1> USE DEF Inv, Linked
<1>0. /\ TryCap \in Nat /\ ActiveCap \in Nat /\ MinTimeout \in Nat
      /\ MaxTimeout \in Nat /\ MinTimeout <= TryCap
  BY ConstantsAreSeconds, ConstantsAreOrdered DEF TryCap
<1>1. CASE Tick
  <2>1. TypeOK'
    BY <1>0, <1>1 DEF Tick, TypeOK, links, settings, Smaller, Larger
  <2>2. AssertionsHold' /\ NoLeakNoDangling'
    BY <1>1 DEF Tick, links, AssertionsHold, NoLeakNoDangling
  <2>3. WaitBounded' /\ Spacing'
    BY <1>0, <1>1 DEF Tick, TypeOK, Smaller, Larger, WaitBounded, Spacing
  <2>4. QED
    BY <2>1, <2>2, <2>3
<1>2. ASSUME NEW b \in Bevs, OnConnected(b) PROVE Inv'
  <2>1. AssertionsHold' /\ NoLeakNoDangling'
    BY <1>2, NoBevIsNull DEF OnConnected, TypeOK, AssertionsHold,
       NoLeakNoDangling
  <2>2. TypeOK'
    BY <1>2, NoBevIsNull DEF OnConnected, TypeOK, AssertionsHold,
       NoLeakNoDangling, settings, retry, ages, clocks
  <2>3. WaitBounded' /\ Spacing'
    BY <1>2 DEF OnConnected, retry, ages, WaitBounded, Spacing
  <2>4. QED
    BY <2>1, <2>2, <2>3
<1>3. ASSUME NEW b \in Bevs, OnConnectFailed(b) PROVE Inv'
  <2>1. AssertionsHold' /\ NoLeakNoDangling'
    BY <1>3, NoBevIsNull DEF OnConnectFailed, TypeOK, AssertionsHold,
       NoLeakNoDangling
  <2>2. /\ next_try_interval_' \in Nat /\ next_try_in' \in Nat
        /\ WaitBounded' /\ next_try_interval_' >= MinTimeout
        /\ try_age + next_try_in' >= MinTimeout
    BY <1>3, ScheduleSpaces DEF OnConnectFailed, TypeOK
  <2>3. TypeOK'
    BY <1>3, <2>2 DEF OnConnectFailed, TypeOK, settings, ages, clocks
  <2>4. Spacing'
    BY <1>3, <2>2 DEF OnConnectFailed, ages, Spacing
  <2>5. QED
    BY <2>1, <2>2, <2>3, <2>4
<1>4. ASSUME ScheduleNextTry(try_age), Close, ended' = "remote",
             UNCHANGED <<settings, ages, timer_period, calls>>,
             timer_in' \in Nat
      PROVE  Inv'
  <2>1. /\ next_try_interval_' \in Nat /\ next_try_in' \in Nat
        /\ WaitBounded' /\ next_try_interval_' >= MinTimeout
        /\ try_age + next_try_in' >= MinTimeout
    BY <1>4, ScheduleSpaces DEF TypeOK
  <2>2. TypeOK'
    BY <1>4, <2>1, CloseKeeps DEF TypeOK, settings, ages
  <2>3. Spacing'
    BY <1>4, <2>1 DEF ages, Spacing
  <2>4. QED
    BY <1>4, <2>1, <2>2, <2>3, CloseKeeps
<1>5. ASSUME NEW b \in Bevs, OnError(b) PROVE Inv'
  BY <1>4, <1>5 DEF OnError, clocks, TypeOK
<1>6. ASSUME NEW b \in Bevs, OnPacketReceived(b) PROVE Inv'
  <2>1. TypeOK'
    BY <1>0, <1>6 DEF OnPacketReceived, TypeOK, links, settings, retry, clocks
  <2>2. QED
    BY <1>6, <2>1 DEF OnPacketReceived, links, retry, AssertionsHold,
       NoLeakNoDangling, WaitBounded, Spacing
<1>7. CASE TimerExpires
  <2>1. timer_in' \in Nat
    BY <1>7 DEF TimerExpires, TimerFires, TypeOK
  <2>2. QED
    BY <1>4, <1>7, <2>1 DEF TimerExpires
<1>8. CASE TimerPings \/ TimerIdles
  <2>1. TypeOK'
    BY <1>8 DEF TimerPings, TimerIdles, TimerFires, TypeOK, links, settings,
       retry, ages
  <2>2. QED
    BY <1>8, <2>1 DEF TimerPings, TimerIdles, links, retry, ages,
       AssertionsHold, NoLeakNoDangling, WaitBounded, Spacing
<1>9. CASE TimerRetries
  <2>1. TypeOK'
    BY <1>9, StartConnectKeeps DEF TimerRetries, TimerDials, TimerFires,
       TypeOK, settings
  <2>2. QED
    BY <1>9, <2>1, StartConnectKeeps DEF TimerRetries
<1>10. CASE OwnerConnects
  <2>1. calls' \in 0..MaxCalls
    BY <1>10, ConstantsAreSeconds DEF OwnerConnects, Call, TypeOK
  <2>2. CASE StartConnect
    <3>1. TypeOK'
      BY <1>10, <2>1, <2>2, StartConnectKeeps DEF OwnerConnects, TypeOK,
         settings, clocks
    <3>2. QED
      BY <2>2, <3>1, StartConnectKeeps
  <2>3. CASE UNCHANGED <<links, retry, ages, silent, ended>>
    <3>1. TypeOK'
      BY <1>10, <2>1, <2>3 DEF OwnerConnects, TypeOK, links, retry, ages,
         settings, clocks
    <3>2. QED
      BY <2>3, <3>1 DEF links, retry, ages, AssertionsHold, NoLeakNoDangling,
         WaitBounded, Spacing
  <2>4. QED
    BY <1>10, <2>2, <2>3 DEF OwnerConnects
<1>11. CASE OwnerCloses
  <2>1. calls' \in 0..MaxCalls
    BY <1>11, ConstantsAreSeconds DEF OwnerCloses, Call, TypeOK
  <2>2. TypeOK'
    BY <1>11, <2>1, CloseKeeps DEF OwnerCloses, TypeOK, settings, retry, ages,
       clocks
  <2>3. WaitBounded' /\ Spacing'
    BY <1>11 DEF OwnerCloses, retry, WaitBounded, Spacing
  <2>4. QED
    BY <1>11, <2>2, <2>3, CloseKeeps DEF OwnerCloses
<1>12. ASSUME Call, UNCHANGED <<links, retry, ages, silent, ended>>,
              reconnect_timeout_' \in EffectiveTimeouts,
              backoff_' \in BackoffValues,
              timer_period' \in Nat \ {0}, timer_in' \in Nat
       PROVE  Inv'
  <2>1. calls' \in 0..MaxCalls
    BY <1>12, ConstantsAreSeconds DEF Call, TypeOK
  <2>2. TypeOK'
    BY <1>12, <2>1 DEF TypeOK, links, retry, ages
  <2>3. QED
    BY <1>12, <2>2 DEF links, retry, ages, AssertionsHold, NoLeakNoDangling,
       WaitBounded, Spacing
<1>13. ASSUME NEW s \in Timeouts, SetTimeout(s) PROVE Inv'
  BY <1>12, <1>13, TimeoutFacts DEF SetTimeout, clocks, TypeOK
<1>14. ASSUME NEW f \in Backoffs, SetBackoff(f) PROVE Inv'
  BY <1>12, <1>14 DEF SetBackoff, clocks, TypeOK, BackoffValues
<1>15. ASSUME NEW s \in PingIntervals, SetPingInterval(s) PROVE Inv'
  BY <1>12, <1>15, ConstantsAreSeconds DEF SetPingInterval, settings, TypeOK
<1>16. CASE PeerVanishes \/ UNCHANGED vars
  <2>1. TypeOK'
    BY <1>16 DEF PeerVanishes, vars, TypeOK, links, settings, retry, ages,
       clocks
  <2>2. QED
    BY <1>16, <2>1 DEF PeerVanishes, vars, links, retry, ages, AssertionsHold,
       NoLeakNoDangling, WaitBounded, Spacing
<1>17. QED
  BY <1>1, <1>2, <1>3, <1>5, <1>6, <1>7, <1>8, <1>9, <1>10, <1>11, <1>13,
     <1>14, <1>15, <1>16 DEF Next, Dialled, OnTimer

-----------------------------------------------------------------------------

\* The whole invariant, from which the theorems below follow.
THEOREM Invariance == Spec => []Inv
  BY InitInv, StepInv, PTL DEF Spec

\* The client's fields keep their types.
THEOREM TypeCorrect == Spec => []TypeOK
<1>1. Inv => TypeOK
  BY DEF Inv
<1>2. QED
  BY <1>1, Invariance, PTL

\* No assertion of tcp_client.cpp can fail, whatever libevent reports and the
\* owner calls.
THEOREM AssertionsNeverFail == Spec => []AssertionsHold
<1>1. Inv => AssertionsHold
  BY DEF Inv
<1>2. QED
  BY <1>1, Invariance, PTL

\* No bufferevent is leaked and no pointer dangles.
THEOREM BuffereventsAreOwned == Spec => []NoLeakNoDangling
<1>1. Inv => NoLeakNoDangling
  BY DEF Inv
<1>2. QED
  BY <1>1, Invariance, PTL

\* The backoff saturates at kMaxTimeout.
THEOREM WaitIsBounded == Spec => []WaitBounded
<1>1. Inv => WaitBounded
  BY DEF Inv
<1>2. QED
  BY <1>1, Invariance, PTL

\* The timer never dials a failing peer again too early.
THEOREM RetriesAreSpaced == Spec => []NoEarlyRetry
<1>1. Inv => NoEarlyRetry
  BY ConstantsAreSeconds DEF Inv, Spacing, NoEarlyRetry, MayRetry, TypeOK,
     TryCap
<1>2. QED
  BY <1>1, Invariance, PTL
=============================================================================
