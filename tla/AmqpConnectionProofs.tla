------------------------ MODULE AmqpConnectionProofs ------------------------
(***************************************************************************)
(* Safety of AmqpConnection for any number of retries and losses: its type *)
(* invariant, the agreement of timer and flag, the invariant that recovery *)
(* is always under way, and the silence of the reconnect machinery after   *)
(* close.                                                                  *)
(***************************************************************************)
EXTENDS AmqpConnection, TLAPS

\* connectWithInitialRetry sleeps only when a further try is left; without
\* this the loop variable could leave its range.
SleepsBeforeATry == dial = "sleeping" => dialTry < MaxInitialRetries - 1

\* The inductive invariant.  RecoveryUnderway needs TimerAgrees: a loss that
\* finds reconnectPending set schedules nothing and relies on the timer.
IInv ==
    /\ TypeOK
    /\ SleepsBeforeATry
    /\ TimerAgrees
    /\ RecoveryUnderway
    /\ CurrentIsOpen

\* The freshly constructed connection satisfies the strengthened invariant.
LEMMA InitIInv == Init => IInv
<1> SUFFICES ASSUME Init
             PROVE  IInv
  OBVIOUS
<1>1. /\ closed \in BOOLEAN
      /\ reconnectPending \in BOOLEAN
      /\ reconnectTimer \in BOOLEAN
  BY Zenon DEF Init
<1>2. TypeOK
  BY <1>1, ConnectionAssumption DEF ConnectionAssumption, Init, TypeOK
<1> QED
  BY <1>2 DEF Init, IInv, SleepsBeforeATry, TimerAgrees, RecoveryUnderway,
              CurrentIsOpen

\* scheduleReconnect leaves the pending flag set and, when flag and timer
\* agreed before, the timer armed.
LEMMA ScheduleArmsTimer ==
  ASSUME TypeOK, TimerAgrees, ~closed, ScheduleReconnect
  PROVE  /\ reconnectPending' = TRUE
         /\ reconnectTimer' = TRUE
         /\ reconnectAttempt' \in 0..AttemptCap
BY ConnectionAssumption
   DEF ConnectionAssumption, TypeOK, TimerAgrees, ScheduleReconnect

\* Every handler of the connection preserves the strengthened invariant.
LEMMA StepIInv == IInv /\ [Next]_vars => IInv'
<1> SUFFICES ASSUME IInv, [Next]_vars
             PROVE  IInv'
  OBVIOUS
<1> USE ConnectionAssumption
    DEF ConnectionAssumption, IInv, TypeOK, SleepsBeforeATry, TimerAgrees,
        RecoveryUnderway, CurrentIsOpen
<1>1. CASE GetConnection
  BY <1>1 DEF GetConnection
<1>2. CASE InitialConnectOk
  BY <1>2 DEF InitialConnectOk
<1>3. CASE InitialConnectFail
  BY <1>3 DEF InitialConnectFail
<1>4. CASE InitialBackoffOver
  BY <1>4 DEF InitialBackoffOver
<1>5. ASSUME NEW c \in open, HandleLoss(c)
      PROVE  IInv'
  <2>1. CASE closed
    BY <1>5, <2>1 DEF HandleLoss
  <2>2. CASE ~closed
    <3>1. reconnectPending' = TRUE /\ reconnectTimer' = TRUE
            /\ reconnectAttempt' \in 0..AttemptCap
      BY <1>5, <2>2, ScheduleArmsTimer DEF HandleLoss
    <3> QED
      BY <1>5, <2>2, <3>1 DEF HandleLoss
  <2> QED
    BY <2>1, <2>2
<1>6. CASE ReconnectTimerFires
  <2>1. TypeOK'
    <3>1. reconnectTimer' \in BOOLEAN /\ reconnectPending' \in BOOLEAN
      BY <1>6, Zenon DEF ReconnectTimerFires
    <3> QED
      BY <1>6, <3>1 DEF ReconnectTimerFires
  <2>2. SleepsBeforeATry'
    BY <1>6 DEF ReconnectTimerFires
  <2>3. TimerAgrees'
    BY <1>6 DEF ReconnectTimerFires
  <2>4. RecoveryUnderway'
    BY <1>6 DEF ReconnectTimerFires
  <2>5. CurrentIsOpen'
    BY <1>6 DEF ReconnectTimerFires
  <2> QED
    BY <2>1, <2>2, <2>3, <2>4, <2>5
<1>7. CASE ReconnectOk
  <2>1. TypeOK'
    <3>1. redials' \in Nat
      BY <1>7 DEF ReconnectOk
    <3>2. /\ opened' \in Nat
          /\ conn' \in 0..opened'
          /\ open' \subseteq 1..opened'
          /\ reconnectAttempt' \in 0..AttemptCap
          /\ notified' \in 0..opened'
      <4>1. CASE closed
        BY <1>7, <4>1 DEF ReconnectOk
      <4>2. CASE ~closed
        <5>1. /\ opened' = opened + 1
              /\ open' = open \cup {opened'}
              /\ conn' = opened'
              /\ reconnectAttempt' = 0
              /\ notified' = opened'
          BY <1>7, <4>2 DEF ReconnectOk
        <5>2. opened' \in Nat \ {0} /\ opened' \in 1..opened'
          BY <5>1
        <5>3. open' \subseteq 1..opened'
          BY <5>1, <5>2
        <5> QED
          BY <5>1, <5>2, <5>3
      <4> QED
        BY <4>1, <4>2
    <3>3. UNCHANGED <<dial, dialTry, closed, reconnectPending, reconnectTimer,
                      losses>>
      BY <1>7 DEF ReconnectOk
    <3> QED
      BY <3>1, <3>2, <3>3
  <2>2. SleepsBeforeATry'
    BY <1>7 DEF ReconnectOk
  <2>3. TimerAgrees'
    BY <1>7 DEF ReconnectOk
  <2>4. RecoveryUnderway'
    BY <1>7 DEF ReconnectOk
  <2>5. CurrentIsOpen'
    BY <1>7 DEF ReconnectOk
  <2> QED
    BY <2>1, <2>2, <2>3, <2>4, <2>5
<1>8. CASE ReconnectFail
  <2>1. CASE closed
    BY <1>8, <2>1 DEF ReconnectFail
  <2>2. CASE ~closed
    <3>1. reconnectPending' = TRUE /\ reconnectTimer' = TRUE
            /\ reconnectAttempt' \in 0..AttemptCap
      BY <1>8, <2>2, ScheduleArmsTimer DEF ReconnectFail
    <3> QED
      BY <1>8, <2>2, <3>1 DEF ReconnectFail
  <2> QED
    BY <2>1, <2>2
<1>9. CASE Close
  <2>1. TypeOK'
    <3>1. reconnectTimer' \in BOOLEAN /\ closed' \in BOOLEAN
      BY <1>9, Zenon DEF Close
    <3> QED
      BY <1>9, <3>1 DEF Close
  <2>2. SleepsBeforeATry'
    BY <1>9 DEF Close
  <2>3. TimerAgrees'
    BY <1>9 DEF Close
  <2>4. RecoveryUnderway'
    BY <1>9 DEF Close
  <2>5. CurrentIsOpen'
    BY <1>9 DEF Close
  <2> QED
    BY <2>1, <2>2, <2>3, <2>4, <2>5
<1>10. CASE UNCHANGED vars
  BY <1>10 DEF vars
<1> QED
  BY <1>1, <1>2, <1>3, <1>4, <1>5, <1>6, <1>7, <1>8, <1>9, <1>10 DEF Next

\* The strengthened invariant holds in every reachable state.
LEMMA Invariance == Spec => []IInv
BY InitIInv, StepIInv, PTL DEF Spec

\* Every variable of the connection keeps its type, the loop variable of
\* connectWithInitialRetry included.
THEOREM TypeCorrect == Spec => []TypeOK
<1>1. IInv => TypeOK
  BY DEF IInv
<1> QED
  BY <1>1, Invariance, PTL

\* reconnectPending and reconnectTimer never contradict each other while the
\* connection is in use, and close leaves no timer behind.
THEOREM TimerAgreement == Spec => []TimerAgrees
<1>1. IInv => TimerAgrees
  BY DEF IInv
<1> QED
  BY <1>1, Invariance, PTL

\* After the first connection, whenever there is none and close was not
\* called, a reconnect timer is armed or a redial is in flight.
THEOREM RecoveryAlwaysUnderway == Spec => []RecoveryUnderway
<1>1. IInv => RecoveryUnderway
  BY DEF IInv
<1> QED
  BY <1>1, Invariance, PTL

\* getConnection never hands out a connection that has been lost or closed.
THEOREM CurrentAlwaysOpen == Spec => []CurrentIsOpen
<1>1. IInv => CurrentIsOpen
  BY DEF IInv
<1> QED
  BY <1>1, Invariance, PTL

\* What one step may do after close.
AfterClose ==
    closed => /\ closed'
              /\ ~reconnectTimer'
              /\ redials' <= redials
              /\ notified' = notified

\* What a single step does to the reconnect machinery of a closed connection.
LEMMA StepAfterClose == IInv /\ [Next]_vars => AfterClose
<1> SUFFICES ASSUME IInv, [Next]_vars, closed
             PROVE  /\ closed'
                    /\ ~reconnectTimer'
                    /\ redials' <= redials
                    /\ notified' = notified
  BY DEF AfterClose
<1> USE DEF IInv, TypeOK, TimerAgrees
<1>1. CASE GetConnection
  BY <1>1 DEF GetConnection
<1>2. CASE InitialConnectOk
  BY <1>2 DEF InitialConnectOk
<1>3. CASE InitialConnectFail
  BY <1>3 DEF InitialConnectFail
<1>4. CASE InitialBackoffOver
  BY <1>4 DEF InitialBackoffOver
<1>5. ASSUME NEW c \in open, HandleLoss(c)
      PROVE  /\ closed'
             /\ ~reconnectTimer'
             /\ redials' <= redials
             /\ notified' = notified
  BY <1>5 DEF HandleLoss
<1>6. CASE ReconnectTimerFires
  BY <1>6 DEF ReconnectTimerFires
<1>7. CASE ReconnectOk
  BY <1>7 DEF ReconnectOk
<1>8. CASE ReconnectFail
  BY <1>8 DEF ReconnectFail
<1>9. CASE Close
  BY <1>9 DEF Close
<1>10. CASE UNCHANGED vars
  BY <1>10 DEF vars
<1> QED
  BY <1>1, <1>2, <1>3, <1>4, <1>5, <1>6, <1>7, <1>8, <1>9, <1>10 DEF Next

\* Once close has been called the reconnect machinery only runs down.
THEOREM CloseIsFinal == Spec => CloseStopsReconnect
<1>1. IInv /\ [Next]_vars => [AfterClose]_vars
  BY StepAfterClose
<1>2. Spec => [][AfterClose]_vars
  BY <1>1, Invariance, PTL DEF Spec
<1> QED
  BY <1>2 DEF CloseStopsReconnect, AfterClose
=============================================================================
