--------------------------- MODULE AmqpConnection ---------------------------
(***************************************************************************)
(* The AmqpConnection class of packages/messaging: one broker connection,  *)
(* opened lazily by getConnection (with a bounded initial retry), reopened *)
(* by a backoff timer after every loss, and closed for good by close.      *)
(*                                                                         *)
(* A step is one run of the event loop: the promise continuations that     *)
(* follow an I/O event belong to the step of that event, and two steps     *)
(* interleave exactly where the code awaits a socket or a timer.           *)
(*                                                                         *)
(* Connections are numbered in the order they are opened, 0 is null.       *)
(***************************************************************************)
EXTENDS Integers, FiniteSets

CONSTANTS MaxInitialRetries,  \* retry.maxInitialRetries
          AttemptCap,         \* reconnectAttempt from which the delay is maxMs
          MaxLosses           \* bound: connections the network may break

ASSUME ConnectionAssumption ==
    /\ MaxInitialRetries \in Nat \ {0}
    /\ AttemptCap \in Nat \ {0}
    /\ MaxLosses \in Nat

VARIABLES
    conn,              \* this.conn: the connection handed to callers, or 0
    open,              \* connections established and not yet broken or closed
    opened,            \* number of connections established so far
    dial,              \* this.connPromise: connectWithInitialRetry's progress
    dialTry,           \* its loop variable i
    closed,            \* this.closed
    reconnectPending,  \* this.reconnectPending
    reconnectTimer,    \* this.reconnectTimer is set
    reconnectAttempt,  \* this.reconnectAttempt, saturated at AttemptCap
    redials,           \* attemptReconnect calls that await the broker
    notified,          \* the connection the onReconnect listeners last saw
    losses             \* connections broken so far

vars == <<conn, open, opened, dial, dialTry, closed, reconnectPending,
          reconnectTimer, reconnectAttempt, redials, notified, losses>>

TypeOK ==
    /\ opened \in Nat
    /\ conn \in 0..opened
    /\ open \subseteq 1..opened
    /\ dial \in {"idle", "connecting", "sleeping"}
    /\ dialTry \in 0..(MaxInitialRetries - 1)
    /\ closed \in BOOLEAN
    /\ reconnectPending \in BOOLEAN
    /\ reconnectTimer \in BOOLEAN
    /\ reconnectAttempt \in 0..AttemptCap
    /\ redials \in Nat
    /\ notified \in 0..opened
    /\ losses \in 0..MaxLosses

Init ==
    /\ conn = 0
    /\ open = {}
    /\ opened = 0
    /\ dial = "idle"
    /\ dialTry = 0
    /\ closed = FALSE
    /\ reconnectPending = FALSE
    /\ reconnectTimer = FALSE
    /\ reconnectAttempt = 0
    /\ redials = 0
    /\ notified = 0
    /\ losses = 0

-----------------------------------------------------------------------------
(* getConnection: the only call that starts a dial.  A call while closed   *)
(* throws, one while connected or dialling shares what is there; neither   *)
(* changes the state.                                                      *)

GetConnection ==
    /\ ~closed /\ conn = 0 /\ dial = "idle"
    /\ dial' = "connecting"
    /\ dialTry' = 0
    /\ UNCHANGED <<conn, open, opened, closed, reconnectPending,
                   reconnectTimer, reconnectAttempt, redials, notified, losses>>

\* connectRedacted resolves: the events are bound, the counter is reset and
\* getConnection's continuation stores the connection, whatever close or the
\* reconnect timer did in the meantime.
InitialConnectOk ==
    /\ dial = "connecting"
    /\ opened' = opened + 1
    /\ open' = open \cup {opened'}
    /\ conn' = opened'
    /\ reconnectAttempt' = 0
    /\ dial' = "idle"
    /\ dialTry' = 0
    /\ UNCHANGED <<closed, reconnectPending, reconnectTimer, redials,
                   notified, losses>>

\* connectRedacted rejects: sleep before the next try, or give up, which
\* rejects getConnection and clears connPromise.
InitialConnectFail ==
    /\ dial = "connecting"
    /\ IF dialTry < MaxInitialRetries - 1
          THEN dial' = "sleeping" /\ UNCHANGED dialTry
          ELSE dial' = "idle" /\ dialTry' = 0
    /\ UNCHANGED <<conn, open, opened, closed, reconnectPending,
                   reconnectTimer, reconnectAttempt, redials, notified, losses>>

InitialBackoffOver ==
    /\ dial = "sleeping"
    /\ dial' = "connecting"
    /\ dialTry' = dialTry + 1
    /\ UNCHANGED <<conn, open, opened, closed, reconnectPending,
                   reconnectTimer, reconnectAttempt, redials, notified, losses>>

-----------------------------------------------------------------------------
(* Losing and regaining the connection.                                    *)

ScheduleReconnect ==
    IF reconnectPending
       THEN UNCHANGED <<reconnectPending, reconnectTimer, reconnectAttempt>>
       ELSE /\ reconnectPending' = TRUE
            /\ reconnectTimer' = TRUE
            /\ reconnectAttempt' = IF reconnectAttempt < AttemptCap
                                      THEN reconnectAttempt + 1
                                      ELSE AttemptCap

\* 'close' or 'error' of connection c: the handler runs once per connection,
\* forgets c if it is the current one and schedules a reconnect, also when
\* another connection has taken its place.
HandleLoss(c) ==
    /\ c \in open
    /\ losses < MaxLosses
    /\ losses' = losses + 1
    /\ open' = open \ {c}
    /\ conn' = IF conn = c THEN 0 ELSE conn
    /\ IF closed
          THEN UNCHANGED <<reconnectPending, reconnectTimer, reconnectAttempt>>
          ELSE ScheduleReconnect
    /\ UNCHANGED <<opened, dial, dialTry, closed, redials, notified>>

\* Mutant: the callback leaves reconnectPending set.
ReconnectTimerFiresStaysPending ==
    /\ reconnectTimer
    /\ reconnectTimer' = FALSE
    /\ redials' = IF closed THEN redials ELSE redials + 1
    /\ UNCHANGED <<conn, open, opened, dial, dialTry, closed, reconnectPending,
                   reconnectAttempt, notified, losses>>
\* The timer's callback.  close clears the timer, so the callback's own test
\* of closed is only a second guard.
ReconnectTimerFires ==
    /\ reconnectTimer
    /\ reconnectTimer' = FALSE
    /\ reconnectPending' = FALSE
    /\ redials' = IF closed THEN redials ELSE redials + 1
    /\ UNCHANGED <<conn, open, opened, dial, dialTry, closed,
                   reconnectAttempt, notified, losses>>

\* attemptReconnect, connected: a connection that arrives after close is
\* closed again, any other becomes the current one and the listeners run.
ReconnectOk ==
    /\ redials > 0
    /\ redials' = redials - 1
    /\ IF closed
          THEN UNCHANGED <<conn, open, opened, reconnectAttempt, notified>>
          ELSE /\ opened' = opened + 1
               /\ open' = open \cup {opened'}
               /\ conn' = opened'
               /\ reconnectAttempt' = 0
               /\ notified' = opened'
    /\ UNCHANGED <<dial, dialTry, closed, reconnectPending, reconnectTimer,
                   losses>>

\* Mutant: a refused redial is not retried.
ReconnectFailGivesUp ==
    /\ redials > 0
    /\ redials' = redials - 1
    /\ UNCHANGED <<conn, open, opened, dial, dialTry, closed, reconnectPending,
                   reconnectTimer, reconnectAttempt, notified, losses>>

\* Mutant: a refused redial is retried after close, too.
ReconnectFailIgnoresClosed ==
    /\ redials > 0
    /\ redials' = redials - 1
    /\ ScheduleReconnect
    /\ UNCHANGED <<conn, open, opened, dial, dialTry, closed, notified, losses>>

\* attemptReconnect, refused: try again unless closed.
ReconnectFail ==
    /\ redials > 0
    /\ redials' = redials - 1
    /\ IF closed
          THEN UNCHANGED <<reconnectPending, reconnectTimer, reconnectAttempt>>
          ELSE ScheduleReconnect
    /\ UNCHANGED <<conn, open, opened, dial, dialTry, closed, notified, losses>>

-----------------------------------------------------------------------------
(* close: the flag, the timer and the current connection.  A dial or a     *)
(* redial in flight is left to finish on its own.                          *)

Close ==
    /\ ~closed
    /\ closed' = TRUE
    /\ reconnectTimer' = FALSE
    /\ conn' = 0
    /\ open' = open \ {conn}
    /\ UNCHANGED <<opened, dial, dialTry, reconnectPending, reconnectAttempt,
                   redials, notified, losses>>

Next ==
    \/ GetConnection
    \/ InitialConnectOk
    \/ InitialConnectFail
    \/ InitialBackoffOver
    \/ \E c \in open : HandleLoss(c)
    \/ ReconnectTimerFires
    \/ ReconnectOk
    \/ ReconnectFail
    \/ Close

Spec == Init /\ [][Next]_vars

\* Timers fire, and a broker that is dialled again and again answers at last.
Fairness ==
    /\ WF_vars(ReconnectTimerFires)
    /\ SF_vars(ReconnectOk)

FairSpec == Spec /\ Fairness

-----------------------------------------------------------------------------
(* Properties.                                                             *)

\* While the connection is not closed, reconnectPending and the timer say the
\* same thing; after close no timer is left (scheduleReconnect's early return
\* and the timer callback's reset of reconnectPending depend on it).
TimerAgrees ==
    /\ ~closed => (reconnectPending <=> reconnectTimer)
    /\ closed => ~reconnectTimer

\* An outage is always being worked on: once a connection existed and there
\* is none now, a reconnect timer is armed or a redial is in flight, however
\* losses, failed redials and callers' own dials interleave.
RecoveryUnderway ==
    (~closed /\ opened > 0 /\ conn = 0) => (reconnectTimer \/ redials > 0)

\* The connection handed out is one that is still up.
CurrentIsOpen == conn # 0 => conn \in open

\* After close nothing of the reconnect machinery moves forward: no timer is
\* armed, no redial starts and no listener is called.
CloseStopsReconnect ==
    [][closed => /\ closed'
                 /\ ~reconnectTimer'
                 /\ redials' <= redials
                 /\ notified' = notified]_vars

\* Every outage ends: the listeners see a live connection again, unless close
\* is called.
OutageEnds ==
    (~closed /\ opened > 0 /\ conn = 0)
        ~> (closed \/ (conn # 0 /\ notified = conn))

\* README of the package, on shutdown: "then closes channels and the
\* underlying connection".  Once close was called and no dial is in flight,
\* no connection may be left open.
ClosedLeavesNothingOpen ==
    (closed /\ dial = "idle" /\ redials = 0) => open = {}
=============================================================================
