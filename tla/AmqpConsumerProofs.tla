------------------------- MODULE AmqpConsumerProofs -------------------------
(***************************************************************************)
(* Safety of AmqpConsumer for any number of messages, attempts, losses and *)
(* restarts.                                                               *)
(***************************************************************************)
EXTENDS AmqpConsumer, TLAPS

-----------------------------------------------------------------------------
(* The attempt count.                                                      *)

\* Every attempt below a packet's own has failed: nothing but a failed handler
\* raises x-bms-attempt.
Earned(p) == \A a \in Attempts : a < p.att => <<p.msg, a>> \in failed

\* The delivery's own attempt has failed too, and it was not the last one.
FailedOnce(d) ==
    /\ d.pkt.att < MaxRetries
    /\ Earned(d.pkt)
    /\ <<d.pkt.msg, d.pkt.att>> \in failed

AllFailed(m) == \A a \in Attempts : <<m, a>> \in failed

\* The inductive invariant behind DeadLetterAfterAllAttempts: wherever a
\* packet is, its attempt header tells the truth.
AttemptInv ==
    /\ \A p \in ready : Earned(p)
    /\ \A d \in unacked : Earned(d.pkt)
    /\ \A d \in running : Earned(d.pkt)
    /\ \A d \in timers : FailedOnce(d)
    /\ \A d \in publishing : FailedOnce(d)
    /\ \A w \in dlqWait : w.d.pkt.msg \in Malformed \/ AllFailed(w.d.pkt.msg)
    /\ DeadLetterAfterAllAttempts

-----------------------------------------------------------------------------
(* The stable consumer.                                                    *)

Undisturbed == losses = 0 /\ exits = 0

\* Before consume, the queue holds every message and the process nothing.
FreshStart ==
    /\ unacked = {} /\ running = {} /\ dlqWait = {}
    /\ live = 0 /\ reest = "idle" /\ ~chanError /\ ~consuming
    /\ \A m \in Msgs : \E p \in ready : p.msg = m

\* While nothing has gone wrong there is one channel pair, and the tag of a
\* delivery that the process works on still stands for that delivery.
Attached ==
    /\ live # 0 /\ channel = live /\ pub = live
    /\ reest = "idle" /\ ~chanError /\ consuming
    /\ \A u \in unacked : u.tag <= tags
    /\ \A u, v \in unacked : u.tag = v.tag => u = v
    /\ \A d \in running : d \in unacked
    /\ \A w \in dlqWait : w.d \in unacked /\ w.d \notin running
    /\ \A w, x \in dlqWait : w.d = x.d => w = x

\* The inductive invariant behind NothingLostWhileStable: safeAck is right
\* about the delivery it settles only while Attached holds.
ServiceInv ==
    /\ (Undisturbed /\ mode = "off") => FreshStart
    /\ Stable => Attached
    /\ NothingLostWhileStable

-----------------------------------------------------------------------------
(* What the broker's and the retry's operators return.                     *)

\* The packets of a set of deliveries are packets.
LEMMA PacketsType ==
  ASSUME NEW ds \in SUBSET Delivery
  PROVE  Packets(ds) \subseteq Packet
BY DEF Packets, Delivery

\* A retry of an attempt that was not the last one is a well-formed packet,
\* its number one higher.
LEMMA RetryType ==
  ASSUME NEW d \in Delivery, d.pkt.att < MaxRetries
  PROVE  /\ Retry(d) \in Packet
         /\ Retry(d).msg = d.pkt.msg
         /\ Retry(d).att = d.pkt.att + 1
BY ConsumerAssumption
   DEF ConsumerAssumption, Retry, Delivery, Packet, Attempts

\* The retry of a delivery whose attempt has failed is earned.
LEMMA RetryEarned ==
  ASSUME NEW d \in Delivery, FailedOnce(d)
  PROVE  Retry(d) \in Packet /\ Earned(Retry(d))
<1>1. Retry(d) \in Packet /\ Retry(d).msg = d.pkt.msg
        /\ Retry(d).att = d.pkt.att + 1
  BY RetryType DEF FailedOnce
<1>2. d.pkt.att \in Attempts
  BY DEF Delivery, Packet
<1>3. ASSUME NEW a \in Attempts, a < d.pkt.att + 1
      PROVE  <<d.pkt.msg, a>> \in failed
  <2>1. CASE a < d.pkt.att
    BY <2>1 DEF FailedOnce, Earned
  <2>2. CASE a = d.pkt.att
    BY <2>2 DEF FailedOnce
  <2> QED
    BY <1>2, <1>3, <2>1, <2>2, ConsumerAssumption
       DEF Attempts, ConsumerAssumption
<1> QED
  BY <1>1, <1>3 DEF Earned

\* What the broker keeps of the packets and deliveries when the channels go.
LEMMA LinkGoneKeeps ==
  ASSUME TypeOK, AttemptInv,
         NEW arrived \in SUBSET publishing, NEW stored \in SUBSET Confirmable,
         LinkGone(arrived, stored)
  PROVE  /\ ready' \subseteq Packet /\ \A p \in ready' : Earned(p)
         /\ unacked' = {} /\ publishing' = {} /\ live' = 0 /\ tags' = 0
         /\ consuming' = FALSE /\ chanError' = FALSE
         /\ dlq' \subseteq Msgs
         /\ \A m \in dlq' : m \in Malformed \/ AllFailed(m)
<1>1. \A p \in Packets(unacked) : p \in Packet /\ Earned(p)
  BY DEF Packets, TypeOK, Delivery, AttemptInv
<1>2. \A d \in arrived : Retry(d) \in Packet /\ Earned(Retry(d))
  BY RetryEarned DEF TypeOK, AttemptInv
<1>3. \A w \in stored : /\ w.d.pkt.msg \in Msgs
                        /\ w.d.pkt.msg \in Malformed \/ AllFailed(w.d.pkt.msg)
  BY DEF Confirmable, TypeOK, AttemptInv, Delivery, Packet
<1>4. \A m \in dlq : m \in Malformed \/ AllFailed(m)
  BY DEF AttemptInv, DeadLetterAfterAllAttempts, AllFailed
<1> QED
  BY <1>1, <1>2, <1>3, <1>4 DEF LinkGone, TypeOK, AttemptInv

\* Settling a delivery, the right one or a wrong one, invents no packet.
LEMMA SettleKeeps ==
  ASSUME TypeOK, AttemptInv, NEW d, NEW back \in BOOLEAN, Settle(d, back)
  PROVE  /\ ready' \subseteq Packet /\ \A p \in ready' : Earned(p)
         /\ unacked' \subseteq unacked
         /\ consuming' \in BOOLEAN /\ chanError' \in BOOLEAN
<1> DEFINE hit == {u \in unacked : u.tag = d.tag}
           usable == channel # 0 /\ channel = live /\ ~chanError
<1>1. \A p \in Packets(hit) : p \in Packet /\ Earned(p)
  BY DEF Packets, TypeOK, Delivery, AttemptInv
<1>2. CASE ~usable
  BY <1>2 DEF Settle, TypeOK, AttemptInv
<1>3. CASE usable
  <2>1. /\ unacked' = unacked \ hit
        /\ ready' = IF back THEN ready \cup Packets(hit) ELSE ready
        /\ chanError' = (hit = {})
        /\ consuming' = (consuming /\ hit # {})
    BY <1>3, Zenon DEF Settle
  <2>2. consuming' \in BOOLEAN /\ chanError' \in BOOLEAN
    BY <2>1, Zenon
  <2>3. ready' \subseteq Packet /\ \A p \in ready' : Earned(p)
    BY <1>1, <2>1 DEF TypeOK, AttemptInv
  <2> QED
    BY <2>1, <2>2, <2>3
<1> QED
  BY <1>2, <1>3

\* DrainCheck moves the mode to "closing" or nowhere.
LEMMA DrainCheckType ==
  ASSUME TypeOK, DrainCheck
  PROVE  mode' \in {"off", "running"} \cup Shutdown
BY DEF DrainCheck, TypeOK, Shutdown

\* The step case of AttemptInv, for a step that keeps the failures on record.
LEMMA AttemptStep ==
  ASSUME failed \subseteq failed',
         \A p \in ready' : Earned(p),
         \A d \in unacked' : Earned(d.pkt),
         \A d \in running' : Earned(d.pkt),
         \A d \in timers' : FailedOnce(d)',
         \A d \in publishing' : FailedOnce(d)',
         \A w \in dlqWait' : w.d.pkt.msg \in Malformed
                               \/ AllFailed(w.d.pkt.msg)',
         \A m \in dlq' : m \in Malformed \/ AllFailed(m)'
  PROVE  AttemptInv'
BY DEF AttemptInv, Earned, AllFailed, DeadLetterAfterAllAttempts

\* Failures on record stay on record.
LEMMA FailuresStay ==
  ASSUME AttemptInv, failed \subseteq failed'
  PROVE  /\ \A d \in timers : FailedOnce(d)'
         /\ \A d \in publishing : FailedOnce(d)'
         /\ \A w \in dlqWait : w.d.pkt.msg \in Malformed
                                 \/ AllFailed(w.d.pkt.msg)'
         /\ \A m \in dlq : m \in Malformed \/ AllFailed(m)'
BY DEF AttemptInv, FailedOnce, Earned, AllFailed, DeadLetterAfterAllAttempts

-----------------------------------------------------------------------------
(* Types and attempts, step by step.                                       *)

TypedInv == TypeOK /\ AttemptInv

\* A consumer that has not started is well typed and has no failed attempt.
LEMMA InitTypedInv == Init => TypedInv
<1> SUFFICES ASSUME Init
             PROVE  TypedInv
  OBVIOUS
<1>1. consuming \in BOOLEAN /\ chanError \in BOOLEAN /\ timedOut \in BOOLEAN
  BY Zenon DEF Init
<1>2. TypeOK
  BY <1>1, ConsumerAssumption
     DEF ConsumerAssumption, Init, TypeOK, Packet, Attempts
<1>3. \A p \in ready : Earned(p)
  BY DEF Init, Earned, Attempts
<1>4. AttemptInv
  BY <1>3 DEF Init, AttemptInv, DeadLetterAfterAllAttempts
<1> QED
  BY <1>2, <1>4 DEF TypedInv

\* Every step keeps the types and the link between a packet's attempt number
\* and the attempts of its message that have failed.
LEMMA StepTypedInv == TypedInv /\ [Next]_vars => TypedInv'
<1> SUFFICES ASSUME TypeOK, AttemptInv, [Next]_vars
             PROVE  TypeOK' /\ AttemptInv'
  BY DEF TypedInv
<1> USE ConsumerAssumption
    DEF ConsumerAssumption, TypeOK, brokerVars, linkVars, taskVars, history,
        bounds
<1>1. CASE Consume
  <2>1. TypeOK'
    BY <1>1 DEF Consume, OpenPair
  <2>2. AttemptInv'
    BY <1>1, FailuresStay, AttemptStep DEF Consume, AttemptInv, OpenPair
  <2> QED
    BY <2>1, <2>2
<1>2. CASE Reconnect
  <2>1. TypeOK'
    BY <1>2 DEF Reconnect
  <2>2. AttemptInv'
    BY <1>2, FailuresStay, AttemptStep DEF Reconnect, AttemptInv
  <2> QED
    BY <2>1, <2>2
<1>3. CASE OpenChannels
  <2>1. TypeOK'
    BY <1>3 DEF OpenChannels, OpenPair
  <2>2. AttemptInv'
    BY <1>3, FailuresStay, AttemptStep DEF OpenChannels, AttemptInv, OpenPair
  <2> QED
    BY <2>1, <2>2
<1>4. CASE StartConsume
  <2>1. TypeOK'
    BY <1>4 DEF StartConsume
  <2>2. AttemptInv'
    BY <1>4, FailuresStay, AttemptStep DEF StartConsume, AttemptInv
  <2> QED
    BY <2>1, <2>2
<1>5. CASE ReestablishDone
  <2>1. TypeOK'
    BY <1>5 DEF ReestablishDone, DrainCheck, Shutdown
  <2>2. AttemptInv'
    BY <1>5, FailuresStay, AttemptStep DEF ReestablishDone, AttemptInv, DrainCheck, Shutdown
  <2> QED
    BY <2>1, <2>2
<1>6. CASE BeginShutdown
  <2>1. TypeOK'
    BY <1>6 DEF BeginShutdown, Shutdown
  <2>2. AttemptInv'
    BY <1>6, FailuresStay, AttemptStep DEF BeginShutdown, AttemptInv, Shutdown
  <2> QED
    BY <2>1, <2>2
<1>7. CASE CancelDone
  <2>1. TypeOK'
    <3>1. consuming' \in BOOLEAN
      BY <1>7, Zenon DEF CancelDone
    <3> QED
      BY <1>7, <3>1 DEF CancelDone, Shutdown
  <2>2. AttemptInv'
    BY <1>7, FailuresStay, AttemptStep DEF CancelDone, AttemptInv, Shutdown
  <2> QED
    BY <2>1, <2>2
<1>8. CASE DrainTimeout
  <2>1. TypeOK'
    BY <1>8 DEF DrainTimeout, Shutdown
  <2>2. AttemptInv'
    BY <1>8, FailuresStay, AttemptStep DEF DrainTimeout, AttemptInv, Shutdown
  <2> QED
    BY <2>1, <2>2
<1>9. CASE CloseChannel
  <2>1. Packets(unacked) \subseteq Packet
    BY PacketsType
  <2>2. \A q \in Packets(unacked) : Earned(q)
    BY DEF Packets, AttemptInv
  <2>3. /\ ready' \subseteq Packet /\ \A q \in ready' : Earned(q)
        /\ unacked' \subseteq unacked
    BY <1>9, <2>1, <2>2 DEF CloseChannel, AttemptInv
  <2>4. consuming' \in BOOLEAN /\ chanError' \in BOOLEAN
    <3>1. CASE channel = live
      BY <1>9, <3>1, Zenon DEF CloseChannel
    <3>2. CASE channel # live
      BY <1>9, <3>2 DEF CloseChannel
    <3> QED
      BY <3>1, <3>2
  <2>5. TypeOK'
    BY <1>9, <2>3, <2>4 DEF CloseChannel, Shutdown
  <2>6. AttemptInv'
    BY <1>9, <2>3, FailuresStay, AttemptStep DEF CloseChannel, AttemptInv
  <2> QED
    BY <2>5, <2>6
<1>10. CASE ClosePub
  <2>1. \A w \in Confirmable : /\ w.d.pkt.msg \in Msgs
                               /\ w.d.pkt.msg \in Malformed
                                    \/ AllFailed(w.d.pkt.msg)
    BY DEF Confirmable, AttemptInv, Delivery, Packet
  <2>2. \A m \in dlq' : /\ m \in Msgs
                        /\ m \in dlq \/ m \in Malformed \/ AllFailed(m)
    BY <1>10, <2>1 DEF ClosePub
  <2>3. TypeOK'
    BY <1>10, <2>2 DEF ClosePub, Shutdown
  <2>4. \A m \in dlq' : m \in Malformed \/ AllFailed(m)'
    BY <1>10, <2>2, FailuresStay DEF ClosePub, AllFailed
  <2>5. AttemptInv'
    BY <1>10, <2>4, FailuresStay, AttemptStep DEF ClosePub, AttemptInv
  <2> QED
    BY <2>3, <2>5
<1>11. CASE CloseConn
  <2>1. Confirmable \in SUBSET Confirmable /\ {} \in SUBSET publishing
    OBVIOUS
  <2>2. LinkGone({}, Confirmable)
    BY <1>11 DEF CloseConn
  <2>3. /\ ready' \subseteq Packet /\ \A p \in ready' : Earned(p)
        /\ unacked' = {} /\ publishing' = {} /\ live' = 0 /\ tags' = 0
        /\ consuming' \in BOOLEAN /\ chanError' \in BOOLEAN
        /\ dlq' \subseteq Msgs
        /\ \A m \in dlq' : m \in Malformed \/ AllFailed(m)
    BY <2>1, <2>2, LinkGoneKeeps
  <2>4. TypeOK'
    BY <1>11, <2>1, <2>2, <2>3 DEF CloseConn, Shutdown
  <2>5. AttemptInv'
    BY <1>11, <2>3, FailuresStay, AttemptStep DEF CloseConn, AttemptInv, AllFailed
  <2> QED
    BY <2>4, <2>5
<1>12. ASSUME NEW q \in ready, Deliver(q)
       PROVE  TypeOK' /\ AttemptInv'
  <2> DEFINE d == [ch |-> live, tag |-> tags + 1, pkt |-> q]
  <2>1. d \in Delivery /\ d.pkt = q /\ Earned(q)
    BY DEF Delivery, AttemptInv
  <2>2. /\ ready' = ready \ {q}
        /\ unacked' = unacked \cup {d}
        /\ tags' = tags + 1
        /\ inFlight' = inFlight \cup {d}
    BY <1>12 DEF Deliver
  <2>3. CASE q.msg \in Malformed
    <3>1. dlqWait' = dlqWait \cup {[d |-> d, via |-> pub]} /\ running' = running
      BY <1>12, <2>3 DEF Deliver
    <3>2. TypeOK'
      BY <1>12, <2>1, <2>2, <3>1 DEF Deliver
    <3>3. AttemptInv'
      BY <1>12, <2>1, <2>2, <2>3, <3>1, FailuresStay, AttemptStep
         DEF Deliver, AttemptInv
    <3> QED
      BY <3>2, <3>3
  <2>4. CASE q.msg \notin Malformed
    <3>1. running' = running \cup {d} /\ dlqWait' = dlqWait
      BY <1>12, <2>4 DEF Deliver
    <3>2. TypeOK'
      BY <1>12, <2>1, <2>2, <3>1 DEF Deliver
    <3>3. AttemptInv'
      BY <1>12, <2>1, <2>2, <3>1, FailuresStay, AttemptStep
         DEF Deliver, AttemptInv
    <3> QED
      BY <3>2, <3>3
  <2> QED
    BY <2>3, <2>4
<1>13. ASSUME NEW d \in running, HandlerAcks(d)
       PROVE  TypeOK' /\ AttemptInv'
  <2>1. d \in Delivery /\ d.pkt.msg \in Msgs
    BY DEF Delivery, Packet
  <2>2. Settle(d, FALSE) /\ DrainCheck
    BY <1>13 DEF HandlerAcks
  <2>3. TypeOK'
    BY <1>13, <2>1, <2>2, SettleKeeps, DrainCheckType DEF HandlerAcks
  <2>4. AttemptInv'
    BY <1>13, <2>2, SettleKeeps, FailuresStay, AttemptStep
       DEF HandlerAcks, AttemptInv
  <2> QED
    BY <2>3, <2>4
<1>14. ASSUME NEW d \in running, HandlerRequeues(d)
       PROVE  TypeOK' /\ AttemptInv'
  <2>1. Settle(d, TRUE) /\ DrainCheck
    BY <1>14 DEF HandlerRequeues
  <2>2. TypeOK'
    <3>1. /\ ready' \subseteq Packet /\ unacked' \subseteq Delivery
        /\ consuming' \in BOOLEAN /\ chanError' \in BOOLEAN
        /\ mode' \in {"off", "running"} \cup Shutdown
      BY <2>1, SettleKeeps, DrainCheckType
    <3> QED
      BY <1>14, <3>1 DEF HandlerRequeues
  <2>3. AttemptInv'
    BY <1>14, <2>1, SettleKeeps, FailuresStay, AttemptStep
       DEF HandlerRequeues, AttemptInv
  <2> QED
    BY <2>2, <2>3
<1>15. ASSUME NEW d \in running, HandlerFails(d)
       PROVE  TypeOK' /\ AttemptInv'
  <2>1. d \in Delivery /\ d.pkt.msg \in Msgs /\ d.pkt.att \in Attempts
    BY DEF Delivery, Packet
  <2>2. Settle(d, FALSE) /\ DrainCheck
    BY <1>15 DEF HandlerFails
  <2>3. TypeOK'
    <3>1. /\ ready' \subseteq Packet /\ unacked' \subseteq Delivery
        /\ consuming' \in BOOLEAN /\ chanError' \in BOOLEAN
        /\ mode' \in {"off", "running"} \cup Shutdown
      BY <2>2, SettleKeeps, DrainCheckType
    <3> QED
      BY <1>15, <2>1, <3>1 DEF HandlerFails
  <2>4. failed' = failed \cup {<<d.pkt.msg, d.pkt.att>>}
          /\ d.pkt.att < MaxRetries
    BY <1>15 DEF HandlerFails
  <2>5. FailedOnce(d)'
    BY <2>4 DEF FailedOnce, Earned, AttemptInv
  <2>6. \A e \in timers' : FailedOnce(e)'
    BY <1>15, <2>4, <2>5, FailuresStay DEF HandlerFails
  <2>7. AttemptInv'
    BY <1>15, <2>2, <2>4, <2>6, SettleKeeps, FailuresStay, AttemptStep
       DEF HandlerFails, AttemptInv
  <2> QED
    BY <2>3, <2>7
<1>16. ASSUME NEW d \in running, HandlerExhausted(d)
       PROVE  TypeOK' /\ AttemptInv'
  <2>1. d \in Delivery /\ d.pkt.msg \in Msgs /\ d.pkt.att \in Attempts
    BY DEF Delivery, Packet
  <2>2. failed' = failed \cup {<<d.pkt.msg, d.pkt.att>>}
          /\ d.pkt.att >= MaxRetries
    BY <1>16 DEF HandlerExhausted
  <2>3. AllFailed(d.pkt.msg)'
    <3>1. Earned(d.pkt)
      BY DEF AttemptInv
    <3>2. \A a \in Attempts : a < d.pkt.att \/ a = d.pkt.att
      BY <2>1, <2>2 DEF Attempts
    <3> QED
      BY <2>2, <3>1, <3>2 DEF Earned, AllFailed
  <2>4. CASE pub # 0
    <3>1. dlqWait' = dlqWait \cup {[d |-> d, via |-> pub]}
      BY <1>16, <2>4 DEF HandlerExhausted
    <3>2. UNCHANGED <<ready, unacked, consuming, chanError, inFlight, timers,
                      mode>>
      BY <1>16, <2>4 DEF HandlerExhausted
    <3>3. TypeOK'
      BY <1>16, <2>1, <3>1, <3>2 DEF HandlerExhausted
    <3>4. \A w \in dlqWait' : w.d.pkt.msg \in Malformed
                                \/ AllFailed(w.d.pkt.msg)'
      BY <2>2, <2>3, <3>1, FailuresStay
    <3>5. AttemptInv'
      BY <1>16, <2>2, <3>2, <3>4, FailuresStay, AttemptStep
         DEF HandlerExhausted, AttemptInv
    <3> QED
      BY <3>3, <3>5
  <2>5. CASE pub = 0
    <3>1. /\ Settle(d, FALSE) /\ DrainCheck
          /\ inFlight' = inFlight \ {d}
          /\ UNCHANGED <<dlqWait, timers>>
      BY <1>16, <2>5 DEF HandlerExhausted
    <3>2. TypeOK'
      <4>1. /\ ready' \subseteq Packet /\ unacked' \subseteq Delivery
            /\ consuming' \in BOOLEAN /\ chanError' \in BOOLEAN
            /\ mode' \in {"off", "running"} \cup Shutdown
        BY <3>1, SettleKeeps, DrainCheckType
      <4> QED
        BY <1>16, <2>1, <3>1, <4>1 DEF HandlerExhausted
    <3>3. AttemptInv'
      BY <1>16, <2>2, <3>1, SettleKeeps, FailuresStay, AttemptStep
         DEF HandlerExhausted, AttemptInv
    <3> QED
      BY <3>2, <3>3
  <2> QED
    BY <2>4, <2>5
<1>17. ASSUME NEW w \in dlqWait, DlqConfirmed(w)
       PROVE  TypeOK' /\ AttemptInv'
  <2>1. w.d \in Delivery /\ w.d.pkt.msg \in Msgs
    BY DEF Delivery, Packet
  <2>2. Settle(w.d, FALSE) /\ DrainCheck
    BY <1>17 DEF DlqConfirmed
  <2>3. TypeOK'
    BY <1>17, <2>1, <2>2, SettleKeeps, DrainCheckType DEF DlqConfirmed
  <2>4. \A m \in dlq' : m \in Malformed \/ AllFailed(m)'
    BY <1>17, FailuresStay DEF DlqConfirmed
  <2>5. AttemptInv'
    BY <1>17, <2>2, <2>4, SettleKeeps, FailuresStay, AttemptStep
       DEF DlqConfirmed, AttemptInv
  <2> QED
    BY <2>3, <2>5
<1>18. ASSUME NEW d \in timers, RetryTimerFires(d)
       PROVE  TypeOK' /\ AttemptInv'
  <2>1. publishing' \subseteq publishing \cup {d}
    BY <1>18 DEF RetryTimerFires
  <2>2. DrainCheck
    BY <1>18 DEF RetryTimerFires
  <2>3. TypeOK'
    BY <1>18, <2>1, <2>2, DrainCheckType DEF RetryTimerFires
  <2>4. AttemptInv'
    BY <1>18, <2>1, FailuresStay, AttemptStep DEF RetryTimerFires, AttemptInv
  <2> QED
    BY <2>3, <2>4
<1>19. ASSUME NEW d \in publishing, RepublishArrives(d)
       PROVE  TypeOK' /\ AttemptInv'
  <2>1. Retry(d) \in Packet /\ Earned(Retry(d))
    BY RetryEarned DEF AttemptInv
  <2>2. TypeOK'
    BY <1>19, <2>1 DEF RepublishArrives
  <2>3. AttemptInv'
    BY <1>19, <2>1, FailuresStay, AttemptStep DEF RepublishArrives, AttemptInv
  <2> QED
    BY <2>2, <2>3
<1>20. ASSUME NEW arrived \in SUBSET publishing,
              NEW stored \in SUBSET Confirmable, Lose(arrived, stored)
       PROVE  TypeOK' /\ AttemptInv'
  <2>1. LinkGone(arrived, stored)
    BY <1>20 DEF Lose
  <2>2. losses' \in 0..MaxLosses
    BY <1>20 DEF Lose
  <2>3. /\ ready' \subseteq Packet /\ \A p \in ready' : Earned(p)
        /\ unacked' = {} /\ publishing' = {} /\ live' = 0 /\ tags' = 0
        /\ consuming' \in BOOLEAN /\ chanError' \in BOOLEAN
        /\ dlq' \subseteq Msgs
        /\ \A m \in dlq' : m \in Malformed \/ AllFailed(m)
    BY <2>1, <2>2, LinkGoneKeeps
  <2>4. TypeOK'
    BY <1>20, <2>1, <2>2, <2>3 DEF Lose, Shutdown
  <2>5. AttemptInv'
    BY <1>20, <2>3, FailuresStay, AttemptStep DEF Lose, AttemptInv, AllFailed
  <2> QED
    BY <2>4, <2>5
<1>21. ASSUME NEW arrived \in SUBSET publishing,
              NEW stored \in SUBSET Confirmable, Dies(arrived, stored)
       PROVE  TypeOK' /\ AttemptInv'
  <2>1. LinkGone(arrived, stored)
    BY <1>21 DEF Dies
  <2>2. timedOut' \in BOOLEAN
    BY <1>21, Zenon DEF Dies
  <2>3. /\ ready' \subseteq Packet /\ \A p \in ready' : Earned(p)
        /\ unacked' = {} /\ publishing' = {} /\ live' = 0 /\ tags' = 0
        /\ consuming' \in BOOLEAN /\ chanError' \in BOOLEAN
        /\ dlq' \subseteq Msgs
        /\ \A m \in dlq' : m \in Malformed \/ AllFailed(m)
    BY <2>1, <2>2, LinkGoneKeeps
  <2>4. TypeOK'
    BY <1>21, <2>1, <2>2, <2>3 DEF Dies, Shutdown
  <2>5. AttemptInv'
    BY <1>21, <2>3, FailuresStay, AttemptStep DEF Dies, AttemptInv, AllFailed
  <2> QED
    BY <2>4, <2>5
<1>22. CASE UNCHANGED vars
  <2>1. TypeOK'
    BY <1>22 DEF vars
  <2>2. AttemptInv'
    BY <1>22, FailuresStay, AttemptStep DEF vars, AttemptInv
  <2> QED
    BY <2>1, <2>2
<1>23. ASSUME NEW q \in ready, AckUnparsed(q)
       PROVE  TypeOK' /\ AttemptInv'
  <2> DEFINE d == [ch |-> live, tag |-> tags + 1, pkt |-> q]
  <2>1. d \in Delivery /\ d.pkt = q /\ Earned(q)
    BY DEF Delivery, AttemptInv
  <2>2. /\ ready' = ready \ {q} /\ unacked' \subseteq unacked \cup {d}
        /\ tags' = tags + 1
    BY <1>23 DEF AckUnparsed
  <2> HIDE DEF d
  <2>3. TypeOK'
    BY <1>23, <2>1, <2>2 DEF AckUnparsed
  <2>4. AttemptInv'
    BY <1>23, <2>1, <2>2, FailuresStay, AttemptStep DEF AckUnparsed, AttemptInv
  <2> QED
    BY <2>3, <2>4
<1> QED
  BY <1>1, <1>2, <1>3, <1>4, <1>5, <1>6, <1>7, <1>8, <1>9, <1>10, <1>11,
     <1>12, <1>13, <1>14, <1>15, <1>16, <1>17, <1>18, <1>19, <1>20, <1>21,
     <1>22, <1>23
     DEF Next

\* Types and attempt numbers are right in every reachable state.
LEMMA TypedInvariance == Spec => []TypedInv
BY InitTypedInv, StepTypedInv, PTL DEF Spec

\* Broker, channels, tasks and counters of the consumer keep their types; in
\* particular no retry carries an attempt number beyond maxRetries.
THEOREM TypeCorrect == Spec => []TypeOK
<1>1. TypedInv => TypeOK
  BY DEF TypedInv
<1> QED
  BY <1>1, TypedInvariance, PTL

\* No well-formed message reaches the dead-letter queue before every one of
\* its attempts has failed, whatever losses, redeliveries, wrong acks,
\* shutdowns and process deaths happen.
THEOREM DeadLetterIsLastResort == Spec => []DeadLetterAfterAllAttempts
<1>1. TypedInv => DeadLetterAfterAllAttempts
  BY DEF TypedInv, AttemptInv
<1> QED
  BY <1>1, TypedInvariance, PTL

-----------------------------------------------------------------------------
(* The drain.                                                              *)

\* A step that removes the last token or timer also runs the drain's test.
LEMMA StepDrain == DrainNeverMissed /\ [Next]_vars => DrainNeverMissed'
<1> SUFFICES ASSUME DrainNeverMissed, [Next]_vars
             PROVE  DrainNeverMissed'
  OBVIOUS
<1> USE DEF DrainNeverMissed, linkVars, taskVars
<1>1. ASSUME DrainCheck
      PROVE  DrainNeverMissed'
  BY <1>1 DEF DrainCheck
<1>2. CASE Consume \/ Reconnect \/ OpenChannels \/ StartConsume
  BY <1>2 DEF Consume, Reconnect, OpenChannels, StartConsume
<1>3. CASE ReestablishDone
  BY <1>1, <1>3 DEF ReestablishDone
<1>4. ASSUME NEW q \in ready, Deliver(q)
      PROVE  DrainNeverMissed'
  BY <1>4 DEF Deliver
<1>5. ASSUME NEW d \in running,
             HandlerAcks(d) \/ HandlerRequeues(d) \/ HandlerFails(d)
      PROVE  DrainNeverMissed'
  BY <1>1, <1>5 DEF HandlerAcks, HandlerRequeues, HandlerFails
<1>6. ASSUME NEW d \in running, HandlerExhausted(d)
      PROVE  DrainNeverMissed'
  <2>1. CASE pub # 0
    BY <1>6, <2>1 DEF HandlerExhausted
  <2>2. CASE pub = 0
    BY <1>1, <1>6, <2>2 DEF HandlerExhausted
  <2> QED
    BY <2>1, <2>2
<1>7. ASSUME NEW w \in dlqWait, DlqConfirmed(w)
      PROVE  DrainNeverMissed'
  BY <1>1, <1>7 DEF DlqConfirmed
<1>8. ASSUME NEW d \in timers, RetryTimerFires(d)
      PROVE  DrainNeverMissed'
  BY <1>1, <1>8 DEF RetryTimerFires
<1>9. ASSUME NEW d \in publishing, RepublishArrives(d)
      PROVE  DrainNeverMissed'
  BY <1>9 DEF RepublishArrives
<1>10. CASE BeginShutdown \/ CancelDone \/ DrainTimeout
  BY <1>10 DEF BeginShutdown, CancelDone, DrainTimeout
<1>11. CASE CloseChannel \/ ClosePub \/ CloseConn
  BY <1>11 DEF CloseChannel, ClosePub, CloseConn
<1>12. ASSUME NEW arrived \in SUBSET publishing,
              NEW stored \in SUBSET Confirmable,
              Lose(arrived, stored) \/ Dies(arrived, stored)
       PROVE  DrainNeverMissed'
  BY <1>12 DEF Lose, Dies
<1>13. CASE UNCHANGED vars
  BY <1>13 DEF vars
<1>14. ASSUME NEW q \in ready, AckUnparsed(q)
      PROVE  DrainNeverMissed'
  BY <1>14 DEF AckUnparsed
<1> QED
  BY <1>2, <1>3, <1>4, <1>5, <1>6, <1>7, <1>8, <1>9, <1>10, <1>11, <1>12,
     <1>13, <1>14
     DEF Next

\* waitForDrain never waits when there is nothing left to wait for: every
\* removal of a token or a timer is followed by the resolver's test.
THEOREM DrainAlwaysNoticed == Spec => []DrainNeverMissed
<1>1. Init => DrainNeverMissed
  BY DEF Init, DrainNeverMissed
<1> QED
  BY <1>1, StepDrain, PTL DEF Spec

-----------------------------------------------------------------------------
(* No loss on a stable connection.                                       *)

Kept(m) == AtBroker(m) \/ InRetry(m) \/ Settled(m)

\* On the open channel, where no two deliveries have the same tag, an ack
\* settles exactly its own delivery.
LEMMA SettleTag ==
  ASSUME channel # 0, channel = live, ~chanError,
         \A u, v \in unacked : u.tag = v.tag => u = v,
         NEW d \in unacked, NEW back \in BOOLEAN, Settle(d, back)
  PROVE  /\ unacked' = unacked \ {d}
         /\ ready' = IF back THEN ready \cup {d.pkt} ELSE ready
         /\ ~chanError' /\ (consuming' <=> consuming)
<1> DEFINE hit == {u \in unacked : u.tag = d.tag}
<1>1. hit = {d}
  OBVIOUS
<1>2. Packets(hit) = {d.pkt}
  BY <1>1 DEF Packets
<1>3. /\ unacked' = unacked \ hit
      /\ ready' = IF back THEN ready \cup Packets(hit) ELSE ready
      /\ chanError' = (hit = {})
      /\ consuming' = (consuming /\ hit # {})
  BY Zenon DEF Settle
<1>4. hit # {}
  BY <1>1
<1> QED
  BY <1>1, <1>2, <1>3, <1>4, Zenon

\* So does every ack of a stable consumer.
LEMMA SettleOwn ==
  ASSUME Attached, NEW d \in unacked, NEW back \in BOOLEAN, Settle(d, back)
  PROVE  /\ unacked' = unacked \ {d}
         /\ ready' = IF back THEN ready \cup {d.pkt} ELSE ready
         /\ ~chanError' /\ consuming'
<1>1. /\ channel # 0 /\ channel = live /\ ~chanError /\ consuming
      /\ \A u, v \in unacked : u.tag = v.tag => u = v
  BY DEF Attached
<1> QED
  BY <1>1, SettleTag, Zenon

\* A packet that leaves the queue or the unacked deliveries is accounted for
\* when its message is still kept in another way.
LEMMA KeptStep ==
  ASSUME \A m \in Msgs : Kept(m),
         \A p \in ready : (p \in ready' \/ Kept(p.msg)'),
         \A u \in unacked : (u \in unacked' \/ Kept(u.pkt.msg)'),
         \A d \in timers \cup publishing :
            (d \in timers' \cup publishing' \/ Kept(d.pkt.msg)'),
         handled \subseteq handled', dlq \subseteq dlq'
  PROVE  \A m \in Msgs : Kept(m)'
<1> TAKE m \in Msgs
<1>1. CASE AtBroker(m)
  BY <1>1 DEF AtBroker, Kept
<1>2. CASE InRetry(m)
  BY <1>2 DEF InRetry, Kept
<1>3. CASE Settled(m)
  BY <1>3 DEF Settled, Kept
<1> QED
  BY <1>1, <1>2, <1>3 DEF Kept

\* The steps of a stable consumer.
LEMMA StableStep ==
  ASSUME TypeOK, Stable, Attached, \A m \in Msgs : Kept(m), Next, Stable'
  PROVE  Attached' /\ \A m \in Msgs : Kept(m)'
<1> USE DEF Stable, brokerVars, linkVars, taskVars, history, bounds
<1>1. CASE Consume \/ Reconnect \/ OpenChannels \/ StartConsume
             \/ ReestablishDone
  BY <1>1 DEF Consume, Reconnect, OpenChannels, StartConsume, ReestablishDone,
              Attached
<1>2. CASE \/ BeginShutdown \/ CancelDone \/ DrainTimeout
           \/ CloseChannel \/ ClosePub \/ CloseConn
  BY <1>2 DEF BeginShutdown, CancelDone, DrainTimeout, CloseChannel, ClosePub,
              CloseConn
<1>3. ASSUME NEW arrived \in SUBSET publishing,
             NEW stored \in SUBSET Confirmable,
             Lose(arrived, stored) \/ Dies(arrived, stored)
      PROVE  FALSE
  BY <1>3 DEF Lose, Dies, Attached
<1>4. ASSUME NEW q \in ready, Deliver(q)
      PROVE  Attached' /\ \A m \in Msgs : Kept(m)'
  <2> DEFINE d == [ch |-> live, tag |-> tags + 1, pkt |-> q]
  <2>1. /\ ready' = ready \ {q}
        /\ unacked' = unacked \cup {d}
        /\ tags' = tags + 1
        /\ UNCHANGED <<live, consuming, chanError, mode, channel, pub, tag,
                       reest, timers, publishing, dlq, handled>>
    BY <1>4 DEF Deliver
  <2>2. /\ running' \subseteq running \cup {d}
        /\ dlqWait' = dlqWait \/ (/\ dlqWait' = dlqWait \cup
                                       {[d |-> d, via |-> pub]}
                                  /\ running' = running)
    BY <1>4 DEF Deliver
  <2>3. d.tag = tags + 1 /\ tags \in Nat
    BY DEF TypeOK
  <2>4. d \notin unacked
    BY <2>3 DEF Attached
  <2>5. /\ \A u \in unacked' : u.tag <= tags'
        /\ \A u, v \in unacked' : u.tag = v.tag => u = v
    BY <2>1, <2>3 DEF Attached, TypeOK, Delivery
  <2>6. Attached'
    BY <2>1, <2>2, <2>4, <2>5 DEF Attached
  <2>7. Kept(q.msg)'
    <3>1. d \in unacked' /\ d.pkt.msg = q.msg
      BY <2>1
    <3> QED
      BY <3>1, Zenon DEF Kept, AtBroker
  <2>8. \A m \in Msgs : Kept(m)'
    BY <2>1, <2>7, KeptStep
  <2> QED
    BY <2>6, <2>8
<1>5. ASSUME NEW d \in running, HandlerAcks(d)
      PROVE  Attached' /\ \A m \in Msgs : Kept(m)'
  <2>1. d \in unacked /\ FALSE \in BOOLEAN
    BY DEF Attached
  <2>2. unacked' = unacked \ {d} /\ ready' = ready /\ ~chanError' /\ consuming'
    BY <1>5, <2>1, SettleOwn DEF HandlerAcks
  <2>3. Attached'
    BY <1>5, <2>1, <2>2 DEF HandlerAcks, Attached
  <2>4. Kept(d.pkt.msg)'
    BY <1>5 DEF HandlerAcks, Kept, Settled
  <2>5. \A m \in Msgs : Kept(m)'
    BY <1>5, <2>2, <2>4, KeptStep DEF HandlerAcks
  <2> QED
    BY <2>3, <2>5
<1>6. ASSUME NEW d \in running, HandlerRequeues(d)
      PROVE  Attached' /\ \A m \in Msgs : Kept(m)'
  <2>1. d \in unacked /\ TRUE \in BOOLEAN
    BY DEF Attached
  <2>2. /\ unacked' = unacked \ {d} /\ ready' = ready \cup {d.pkt}
        /\ ~chanError' /\ consuming'
    BY <1>6, <2>1, SettleOwn DEF HandlerRequeues
  <2>3. Attached'
    BY <1>6, <2>1, <2>2 DEF HandlerRequeues, Attached
  <2>4. Kept(d.pkt.msg)'
    BY <2>2 DEF Kept, AtBroker
  <2>5. \A m \in Msgs : Kept(m)'
    BY <1>6, <2>2, <2>4, KeptStep DEF HandlerRequeues
  <2> QED
    BY <2>3, <2>5
<1>7. ASSUME NEW d \in running, HandlerFails(d)
      PROVE  Attached' /\ \A m \in Msgs : Kept(m)'
  <2>1. d \in unacked /\ FALSE \in BOOLEAN
    BY DEF Attached
  <2>2. unacked' = unacked \ {d} /\ ready' = ready /\ ~chanError' /\ consuming'
    BY <1>7, <2>1, SettleOwn DEF HandlerFails
  <2>3. Attached'
    BY <1>7, <2>1, <2>2 DEF HandlerFails, Attached
  <2>4. Kept(d.pkt.msg)'
    BY <1>7 DEF HandlerFails, Kept, InRetry
  <2>5. \A m \in Msgs : Kept(m)'
    BY <1>7, <2>2, <2>4, KeptStep DEF HandlerFails
  <2> QED
    BY <2>3, <2>5
<1>8. ASSUME NEW d \in running, HandlerExhausted(d)
      PROVE  Attached' /\ \A m \in Msgs : Kept(m)'
  <2>1. pub # 0 /\ d \in unacked
    BY DEF Attached
  <2>2. /\ dlqWait' = dlqWait \cup {[d |-> d, via |-> pub]}
        /\ running' = running \ {d}
        /\ UNCHANGED <<ready, unacked, live, consuming, chanError, tags, mode,
                       channel, pub, tag, reest, timers, publishing, dlq,
                       handled>>
    BY <1>8, <2>1 DEF HandlerExhausted
  <2>3. Attached'
    BY <2>1, <2>2 DEF Attached
  <2>4. \A m \in Msgs : Kept(m)'
    BY <2>2, KeptStep
  <2> QED
    BY <2>3, <2>4
<1>9. ASSUME NEW w \in dlqWait, DlqConfirmed(w)
      PROVE  Attached' /\ \A m \in Msgs : Kept(m)'
  <2>1. w.d \in unacked /\ FALSE \in BOOLEAN
    BY DEF Attached
  <2>2. /\ unacked' = unacked \ {w.d} /\ ready' = ready
        /\ ~chanError' /\ consuming'
    BY <1>9, <2>1, SettleOwn DEF DlqConfirmed
  <2>3. Attached'
    BY <1>9, <2>1, <2>2 DEF DlqConfirmed, Attached
  <2>4. Kept(w.d.pkt.msg)'
    BY <1>9 DEF DlqConfirmed, Kept, Settled
  <2>5. \A m \in Msgs : Kept(m)'
    BY <1>9, <2>2, <2>4, KeptStep DEF DlqConfirmed
  <2> QED
    BY <2>3, <2>5
<1>10. ASSUME NEW d \in timers, RetryTimerFires(d)
       PROVE  Attached' /\ \A m \in Msgs : Kept(m)'
  <2>1. publishing' = publishing \cup {d} /\ timers' = timers \ {d}
    BY <1>10 DEF RetryTimerFires, Attached
  <2>2. Attached'
    BY <1>10 DEF RetryTimerFires, Attached
  <2>3. \A m \in Msgs : Kept(m)'
    BY <1>10, <2>1, KeptStep DEF RetryTimerFires
  <2> QED
    BY <2>2, <2>3
<1>11. ASSUME NEW d \in publishing, RepublishArrives(d)
       PROVE  Attached' /\ \A m \in Msgs : Kept(m)'
  <2>1. Retry(d) \in ready' /\ Retry(d).msg = d.pkt.msg
    BY <1>11 DEF RepublishArrives, Retry
  <2>2. Kept(d.pkt.msg)'
    BY <2>1 DEF Kept, AtBroker
  <2>3. Attached'
    BY <1>11 DEF RepublishArrives, Attached
  <2>4. \A m \in Msgs : Kept(m)'
    BY <1>11, <2>2, KeptStep DEF RepublishArrives
  <2> QED
    BY <2>3, <2>4
<1>12. ASSUME NEW q \in ready, AckUnparsed(q)
      PROVE  FALSE
  BY <1>12 DEF AckUnparsed, Attached
<1> QED
  BY <1>1, <1>2, <1>3, <1>4, <1>5, <1>6, <1>7, <1>8, <1>9, <1>10, <1>11, <1>12
     DEF Next

\* A process that is not running yet has nothing to do but consume.
LEMMA FreshStep ==
  ASSUME TypeOK, Undisturbed, mode = "off", FreshStart, Next, Undisturbed'
  PROVE  \/ mode' = "off" /\ FreshStart'
         \/ Stable' /\ Attached' /\ \A m \in Msgs : Kept(m)'
<1> USE DEF Undisturbed, FreshStart, brokerVars, linkVars, taskVars, history,
            bounds
<1>1. CASE Consume
  <2>1. /\ live' = pairs + 1 /\ channel' = live' /\ pub' = live'
        /\ mode' = "running" /\ consuming' = TRUE
        /\ UNCHANGED <<ready, unacked, chanError, reest, running, dlqWait>>
    BY <1>1 DEF Consume, OpenPair
  <2>2. live' # 0
    BY <2>1 DEF TypeOK
  <2>3. Stable' /\ Attached'
    BY <2>1, <2>2 DEF Stable, Attached
  <2>4. \A m \in Msgs : Kept(m)'
    BY <2>1 DEF Kept, AtBroker
  <2> QED
    BY <2>3, <2>4
<1>2. CASE Reconnect \/ OpenChannels \/ StartConsume \/ ReestablishDone
  BY <1>2 DEF Reconnect, OpenChannels, StartConsume, ReestablishDone
<1>3. CASE \/ BeginShutdown \/ CancelDone \/ DrainTimeout
           \/ CloseChannel \/ ClosePub \/ CloseConn
  BY <1>3 DEF BeginShutdown, CancelDone, DrainTimeout, CloseChannel, ClosePub,
              CloseConn
<1>4. ASSUME NEW arrived \in SUBSET publishing,
             NEW stored \in SUBSET Confirmable,
             Lose(arrived, stored) \/ Dies(arrived, stored)
      PROVE  FALSE
  BY <1>4 DEF Lose, Dies
<1>5. ASSUME NEW q \in ready, Deliver(q)
      PROVE  FALSE
  BY <1>5 DEF Deliver
<1>6. ASSUME NEW d \in timers, RetryTimerFires(d)
      PROVE  mode' = "off" /\ FreshStart'
  BY <1>6 DEF RetryTimerFires, DrainCheck
<1>7. ASSUME NEW d \in publishing, RepublishArrives(d)
      PROVE  mode' = "off" /\ FreshStart'
  BY <1>7 DEF RepublishArrives
<1>8. ASSUME NEW q \in ready, AckUnparsed(q)
      PROVE  FALSE
  BY <1>8 DEF AckUnparsed
<1> QED
  BY <1>1, <1>2, <1>3, <1>4, <1>5, <1>6, <1>7, <1>8 DEF Next

\* A consumer that is running, or not started, after a step and that nothing
\* has disturbed was so before it.
LEMMA StableBefore ==
  ASSUME TypeOK, Next, Undisturbed'
  PROVE  /\ Undisturbed
         /\ mode' = "off" => mode = "off"
         /\ mode' = "running" => mode \in {"off", "running"}
<1> USE DEF Undisturbed, TypeOK, brokerVars, linkVars, taskVars, history,
            bounds
<1>1. CASE Consume \/ Reconnect \/ OpenChannels \/ StartConsume
             \/ ReestablishDone
  BY <1>1 DEF Consume, Reconnect, OpenChannels, StartConsume, ReestablishDone,
              DrainCheck
<1>2. CASE \/ BeginShutdown \/ CancelDone \/ DrainTimeout
           \/ CloseChannel \/ ClosePub \/ CloseConn
  BY <1>2 DEF BeginShutdown, CancelDone, DrainTimeout, CloseChannel, ClosePub,
              CloseConn
<1>3. ASSUME NEW arrived \in SUBSET publishing,
             NEW stored \in SUBSET Confirmable, Lose(arrived, stored)
      PROVE  /\ Undisturbed /\ mode' = mode
  BY <1>3 DEF Lose
<1>4. ASSUME NEW arrived \in SUBSET publishing,
             NEW stored \in SUBSET Confirmable, Dies(arrived, stored)
      PROVE  FALSE
  BY <1>4 DEF Dies
<1>5. ASSUME NEW q \in ready, Deliver(q)
      PROVE  Undisturbed /\ mode' = mode
  BY <1>5 DEF Deliver
<1>6. ASSUME NEW d \in running, \/ HandlerAcks(d) \/ HandlerRequeues(d)
                                \/ HandlerFails(d)
      PROVE  Undisturbed /\ (mode' = mode \/ mode' = "closing")
  BY <1>6 DEF HandlerAcks, HandlerRequeues, HandlerFails, DrainCheck
<1>7. ASSUME NEW d \in running, HandlerExhausted(d)
      PROVE  Undisturbed /\ (mode' = mode \/ mode' = "closing")
  BY <1>7 DEF HandlerExhausted, DrainCheck
<1>8. ASSUME NEW w \in dlqWait, DlqConfirmed(w)
      PROVE  Undisturbed /\ (mode' = mode \/ mode' = "closing")
  BY <1>8 DEF DlqConfirmed, DrainCheck
<1>9. ASSUME NEW d \in timers, RetryTimerFires(d)
      PROVE  Undisturbed /\ (mode' = mode \/ mode' = "closing")
  BY <1>9 DEF RetryTimerFires, DrainCheck
<1>10. ASSUME NEW d \in publishing, RepublishArrives(d)
       PROVE  Undisturbed /\ mode' = mode
  BY <1>10 DEF RepublishArrives
<1>11. ASSUME NEW q \in ready, AckUnparsed(q)
      PROVE  Undisturbed /\ mode' = mode
  BY <1>11 DEF AckUnparsed
<1> QED
  BY <1>1, <1>2, <1>3, <1>4, <1>5, <1>6, <1>7, <1>8, <1>9, <1>10, <1>11 DEF Next

\* Every step of an undisturbed consumer keeps its messages accounted for.
LEMMA StepServiceInv == TypeOK /\ ServiceInv /\ [Next]_vars => ServiceInv'
<1>1. ASSUME TypeOK, ServiceInv, Next
      PROVE  ServiceInv'
  <2>1. ASSUME Undisturbed', mode' = "off"
        PROVE  FreshStart'
    <3>1. Undisturbed /\ mode = "off"
      BY <1>1, <2>1, StableBefore
    <3>2. FreshStart
      BY <1>1, <3>1 DEF ServiceInv
    <3> QED
      BY <1>1, <2>1, <3>1, <3>2, FreshStep DEF Stable
  <2>2. ASSUME Stable'
        PROVE  Attached' /\ \A m \in Msgs : Kept(m)'
    <3>1. Undisturbed'
      BY <2>2 DEF Stable, Undisturbed
    <3>2. Undisturbed /\ mode \in {"off", "running"}
      BY <1>1, <2>2, <3>1, StableBefore DEF Stable
    <3>3. CASE mode = "off"
      <4>1. FreshStart
        BY <1>1, <3>2, <3>3 DEF ServiceInv
      <4> QED
        BY <1>1, <2>2, <3>1, <3>2, <3>3, <4>1, FreshStep DEF Stable
    <3>4. CASE mode = "running"
      <4>1. Stable
        BY <3>2, <3>4 DEF Stable, Undisturbed
      <4>2. Attached /\ \A m \in Msgs : Kept(m)
        BY <1>1, <4>1 DEF ServiceInv, NothingLostWhileStable, Kept
      <4> QED
        BY <1>1, <2>2, <4>1, <4>2, StableStep
    <3> QED
      BY <3>2, <3>3, <3>4
  <2> QED
    BY <2>1, <2>2 DEF ServiceInv, NothingLostWhileStable, Kept
<1>2. ASSUME ServiceInv, UNCHANGED vars
      PROVE  ServiceInv'
  BY <1>2 DEF ServiceInv, vars, brokerVars, linkVars, taskVars, history, bounds,
     Undisturbed, Stable, FreshStart, Attached, NothingLostWhileStable,
     AtBroker, InRetry, Settled
<1> QED
  BY <1>1, <1>2

\* Before the consumer starts, every message is in the queue.
LEMMA InitServiceInv == Init => ServiceInv
<1> SUFFICES ASSUME Init
             PROVE  ServiceInv
  OBVIOUS
<1>1. ASSUME NEW m \in Msgs
      PROVE  \E p \in ready : p.msg = m
  <2>1. [msg |-> m, att |-> 1, id |-> <<0, 0>>] \in ready
    BY DEF Init
  <2> QED
    BY <2>1
<1>2. FreshStart
  BY <1>1 DEF Init, FreshStart
<1> QED
  BY <1>2 DEF Init, ServiceInv, Stable, NothingLostWhileStable

\* As long as the connection holds, the process lives and no shutdown has
\* begun, handleMessage, retryOrDlq and republishForRetry lose no message.
THEOREM NothingIsLost == Spec => []NothingLostWhileStable
<1>1. TypedInv => TypeOK
  BY DEF TypedInv
<1>2. Spec => []ServiceInv
  BY InitServiceInv, StepServiceInv, TypedInvariance, <1>1, PTL DEF Spec
<1>3. ServiceInv => NothingLostWhileStable
  BY DEF ServiceInv
<1> QED
  BY <1>2, <1>3, PTL
-----------------------------------------------------------------------------
(* One fate on a stable connection.                                        *)

\* The deliveries that wait to be published again, by a timer or a confirm.
Held == timers \cup publishing

\* A message has at most one copy, and none once it is handled or in the
\* dead-letter queue.
OnePlace ==
    /\ \A p, q \in ready : p.msg = q.msg => p = q
    /\ \A u, v \in unacked : u.pkt.msg = v.pkt.msg => u = v
    /\ \A d, e \in Held : d.pkt.msg = e.pkt.msg => d = e
    /\ timers \cap publishing = {}
    /\ \A p \in ready, u \in unacked : u.pkt.msg # p.msg
    /\ \A p \in ready, d \in Held : d.pkt.msg # p.msg
    /\ \A u \in unacked, d \in Held : u.pkt.msg # d.pkt.msg
    /\ \A p \in ready : ~Settled(p.msg)
    /\ \A u \in unacked : ~Settled(u.pkt.msg)
    /\ \A d \in Held : ~Settled(d.pkt.msg)
    /\ handled \cap dlq = {}

\* The inductive invariant behind OneFateWhileStable: a step moves a copy and
\* makes no second one, since the original is acked where its retry starts.
FateInv ==
    /\ Stable => OnePlace
    /\ (Undisturbed /\ mode = "off") => OnePlace /\ Held = {}

\* The delivery d is acked and its message goes to one of the two ends.
LEMMA SettledPlace ==
  ASSUME OnePlace, NEW d \in unacked,
         unacked' = unacked \ {d}, ready' = ready,
         UNCHANGED <<timers, publishing>>,
         \/ handled' = handled \cup {d.pkt.msg} /\ dlq' = dlq
         \/ dlq' = dlq \cup {d.pkt.msg} /\ handled' = handled
  PROVE  OnePlace'
<1>1. \A m \in handled' \cup dlq' : m \in handled \cup dlq \/ m = d.pkt.msg
  OBVIOUS
<1>2. /\ \A p \in ready' : ~Settled(p.msg)'
      /\ \A u \in unacked' : ~Settled(u.pkt.msg)'
      /\ \A e \in Held' : ~Settled(e.pkt.msg)'
  BY <1>1 DEF OnePlace, Settled, Held
<1>3. handled' \cap dlq' = {}
  BY DEF OnePlace, Settled
<1> QED
  BY <1>2, <1>3 DEF OnePlace, Held

\* The steps of a stable consumer keep every message in one place.
LEMMA FateStep ==
  ASSUME TypeOK, Stable, Attached, OnePlace, Next, Stable'
  PROVE  OnePlace'
<1> USE DEF Stable, brokerVars, linkVars, taskVars, history, bounds
<1>1. CASE Consume \/ Reconnect \/ OpenChannels \/ StartConsume
             \/ ReestablishDone
  BY <1>1 DEF Consume, Reconnect, OpenChannels, StartConsume, ReestablishDone,
              Attached
<1>2. CASE \/ BeginShutdown \/ CancelDone \/ DrainTimeout
           \/ CloseChannel \/ ClosePub \/ CloseConn
  BY <1>2 DEF BeginShutdown, CancelDone, DrainTimeout, CloseChannel, ClosePub,
              CloseConn
<1>3. ASSUME NEW arrived \in SUBSET publishing,
             NEW stored \in SUBSET Confirmable,
             Lose(arrived, stored) \/ Dies(arrived, stored)
      PROVE  FALSE
  BY <1>3 DEF Lose, Dies, Attached
<1>4. ASSUME NEW q \in ready, Deliver(q)
      PROVE  OnePlace'
  <2> DEFINE d == [ch |-> live, tag |-> tags + 1, pkt |-> q]
  <2>1. /\ ready' = ready \ {q}
        /\ unacked' = unacked \cup {d}
        /\ UNCHANGED <<timers, publishing, dlq, handled>>
    BY <1>4 DEF Deliver
  <2>2. d.pkt = q
    OBVIOUS
  <2> HIDE DEF d
  <2> QED
    BY <2>1, <2>2 DEF OnePlace, Held, Settled
<1>5. ASSUME NEW d \in running, HandlerAcks(d)
      PROVE  OnePlace'
  <2>1. d \in unacked /\ FALSE \in BOOLEAN
    BY DEF Attached
  <2>2. unacked' = unacked \ {d} /\ ready' = ready
    BY <1>5, <2>1, SettleOwn DEF HandlerAcks
  <2> QED
    BY <1>5, <2>1, <2>2, SettledPlace DEF HandlerAcks
<1>6. ASSUME NEW d \in running, HandlerRequeues(d)
      PROVE  OnePlace'
  <2>1. d \in unacked /\ TRUE \in BOOLEAN
    BY DEF Attached
  <2>2. unacked' = unacked \ {d} /\ ready' = ready \cup {d.pkt}
    BY <1>6, <2>1, SettleOwn DEF HandlerRequeues
  <2>3. UNCHANGED <<timers, publishing, handled, dlq>>
    BY <1>6 DEF HandlerRequeues
  <2> QED
    BY <2>1, <2>2, <2>3 DEF OnePlace, Held, Settled
<1>7. ASSUME NEW d \in running, HandlerFails(d)
      PROVE  OnePlace'
  <2>1. d \in unacked /\ FALSE \in BOOLEAN
    BY DEF Attached
  <2>2. unacked' = unacked \ {d} /\ ready' = ready
    BY <1>7, <2>1, SettleOwn DEF HandlerFails
  <2>3. timers' = timers \cup {d} /\ UNCHANGED <<publishing, handled, dlq>>
    BY <1>7 DEF HandlerFails
  <2> QED
    BY <2>1, <2>2, <2>3 DEF OnePlace, Held, Settled
<1>8. ASSUME NEW d \in running, HandlerExhausted(d)
      PROVE  OnePlace'
  <2>1. pub # 0
    BY DEF Attached
  <2>2. UNCHANGED <<ready, unacked, timers, publishing, dlq, handled>>
    BY <1>8, <2>1 DEF HandlerExhausted
  <2> QED
    BY <2>2 DEF OnePlace, Held, Settled
<1>9. ASSUME NEW w \in dlqWait, DlqConfirmed(w)
      PROVE  OnePlace'
  <2>1. w.d \in unacked /\ FALSE \in BOOLEAN
    BY DEF Attached
  <2>2. unacked' = unacked \ {w.d} /\ ready' = ready
    BY <1>9, <2>1, SettleOwn DEF DlqConfirmed
  <2> QED
    BY <1>9, <2>1, <2>2, SettledPlace DEF DlqConfirmed
<1>10. ASSUME NEW d \in timers, RetryTimerFires(d)
       PROVE  OnePlace'
  <2>1. /\ publishing' = publishing \cup {d} /\ timers' = timers \ {d}
        /\ UNCHANGED <<ready, unacked, handled, dlq>>
    BY <1>10 DEF RetryTimerFires, Attached
  <2> QED
    BY <2>1 DEF OnePlace, Held, Settled
<1>11. ASSUME NEW d \in publishing, RepublishArrives(d)
       PROVE  OnePlace'
  <2>1. Retry(d).msg = d.pkt.msg
    BY DEF Retry
  <2>2. /\ publishing' = publishing \ {d} /\ ready' = ready \cup {Retry(d)}
        /\ UNCHANGED <<unacked, timers, handled, dlq>>
    BY <1>11 DEF RepublishArrives
  <2> QED
    BY <2>1, <2>2 DEF OnePlace, Held, Settled
<1>12. ASSUME NEW q \in ready, AckUnparsed(q)
      PROVE  FALSE
  BY <1>12 DEF AckUnparsed, Attached
<1> QED
  BY <1>1, <1>2, <1>3, <1>4, <1>5, <1>6, <1>7, <1>8, <1>9, <1>10, <1>11, <1>12
     DEF Next
\* Before the consumer has started a step leaves the queue alone or consumes.
LEMMA FreshFate ==
  ASSUME TypeOK, Undisturbed, mode = "off", FreshStart, OnePlace, Held = {},
         Next, Undisturbed'
  PROVE  OnePlace' /\ Held' = {}
<1> USE DEF Undisturbed, FreshStart, Held, brokerVars, linkVars, taskVars,
            history, bounds
<1>1. timers = {} /\ publishing = {}
  OBVIOUS
<1>2. CASE Consume
  <2>1. UNCHANGED <<ready, unacked, timers, publishing, handled, dlq>>
    BY <1>2 DEF Consume
  <2> QED
    BY <2>1 DEF OnePlace, Settled
<1>3. CASE Reconnect \/ OpenChannels \/ StartConsume \/ ReestablishDone
  BY <1>3 DEF Reconnect, OpenChannels, StartConsume, ReestablishDone
<1>4. CASE \/ BeginShutdown \/ CancelDone \/ DrainTimeout
           \/ CloseChannel \/ ClosePub \/ CloseConn
  BY <1>4 DEF BeginShutdown, CancelDone, DrainTimeout, CloseChannel, ClosePub,
              CloseConn
<1>5. ASSUME NEW arrived \in SUBSET publishing,
             NEW stored \in SUBSET Confirmable,
             Lose(arrived, stored) \/ Dies(arrived, stored)
      PROVE  FALSE
  BY <1>5 DEF Lose, Dies
<1>6. ASSUME NEW q \in ready, Deliver(q)
      PROVE  FALSE
  BY <1>6 DEF Deliver
<1>7. ASSUME NEW q \in ready, AckUnparsed(q)
      PROVE  FALSE
  BY <1>7 DEF AckUnparsed
<1> QED
  BY <1>1, <1>2, <1>3, <1>4, <1>5, <1>6, <1>7 DEF Next

\* Before the consumer starts every message has one copy, in the queue.
LEMMA InitFateInv == Init => FateInv
<1> SUFFICES ASSUME Init
             PROVE  FateInv
  OBVIOUS
<1>1. \A p \in ready : /\ p.msg \in Msgs
                       /\ p = [msg |-> p.msg, att |-> 1, id |-> <<0, 0>>]
  BY DEF Init
<1>2. \A p, q \in ready : p.msg = q.msg => p = q
  BY <1>1
<1>3. OnePlace /\ Held = {}
  BY <1>2 DEF Init, OnePlace, Held, Settled
<1> QED
  BY <1>3 DEF FateInv

\* Every step of an undisturbed consumer keeps every message in one place.
LEMMA StepFateInv == TypeOK /\ ServiceInv /\ FateInv /\ [Next]_vars => FateInv'
<1>1. ASSUME TypeOK, ServiceInv, FateInv, Next
      PROVE  FateInv'
  <2>1. ASSUME Undisturbed', mode' = "off"
        PROVE  OnePlace' /\ Held' = {}
    <3>1. Undisturbed /\ mode = "off"
      BY <1>1, <2>1, StableBefore
    <3>2. FreshStart /\ OnePlace /\ Held = {}
      BY <1>1, <3>1 DEF ServiceInv, FateInv
    <3> QED
      BY <1>1, <2>1, <3>1, <3>2, FreshFate
  <2>2. ASSUME Stable'
        PROVE  OnePlace'
    <3>1. Undisturbed'
      BY <2>2 DEF Stable, Undisturbed
    <3>2. Undisturbed /\ mode \in {"off", "running"}
      BY <1>1, <2>2, <3>1, StableBefore DEF Stable
    <3>3. CASE mode = "off"
      <4>1. FreshStart /\ OnePlace /\ Held = {}
        BY <1>1, <3>2, <3>3 DEF ServiceInv, FateInv
      <4> QED
        BY <1>1, <3>1, <3>2, <3>3, <4>1, FreshFate
    <3>4. CASE mode = "running"
      <4>1. Stable
        BY <3>2, <3>4 DEF Stable, Undisturbed
      <4>2. Attached /\ OnePlace
        BY <1>1, <4>1 DEF ServiceInv, FateInv
      <4> QED
        BY <1>1, <2>2, <4>1, <4>2, FateStep
    <3> QED
      BY <3>2, <3>3, <3>4
  <2> QED
    BY <2>1, <2>2 DEF FateInv
<1>2. ASSUME FateInv, UNCHANGED vars
      PROVE  FateInv'
  BY <1>2 DEF FateInv, OnePlace, Held, Settled, Stable, Undisturbed, vars,
              brokerVars, linkVars, taskVars, history, bounds
<1> QED
  BY <1>1, <1>2

\* On a stable connection no message is handled and dead-lettered as well:
\* handleMessage and retryOrDlq ack the original where they let a copy go on.
THEOREM OneFateOnly == Spec => []OneFateWhileStable
<1>1. TypedInv => TypeOK
  BY DEF TypedInv
<1>2. Spec => []ServiceInv
  BY InitServiceInv, StepServiceInv, TypedInvariance, <1>1, PTL DEF Spec
<1>3. Spec => []FateInv
  BY InitFateInv, StepFateInv, TypedInvariance, <1>1, <1>2, PTL DEF Spec
<1>4. FateInv => OneFateWhileStable
  BY DEF FateInv, OnePlace, OneFateWhileStable
<1> QED
  BY <1>3, <1>4, PTL
-----------------------------------------------------------------------------
(* What an end of the process leaves behind.                               *)

\* The modes in which the held channel is the open one: up to channel.close.
Serving == {"running", "cancelling", "draining", "closing"}

\* The tag of a delivery that the process works on stands for that delivery.
Bound ==
    /\ live # 0 /\ channel = live /\ pub = live
    /\ \A u \in unacked : u.tag <= tags
    /\ \A u, v \in unacked : u.tag = v.tag => u = v
    /\ running \subseteq unacked
    /\ \A w \in dlqWait : w.d \in unacked /\ w.d \notin running
    /\ \A w, x \in dlqWait : w.d = x.d => w = x

\* A process that has ended, or not started, holds nothing.
Ended == /\ live = 0 /\ unacked = {} /\ ~consuming
         /\ running = {} /\ dlqWait = {}

\* After channel.close an ack has no channel to go to.
Detached == channel = 0 /\ unacked = {} /\ ~consuming

\* The inductive invariant behind UnfailedSurvivesExit, for a connection that
\* the network has not lost: through shutdowns, ends and restarts of the
\* process an ack settles its own delivery or none.
CalmInv ==
    losses = 0 =>
        /\ ~chanError /\ reest = "idle"
        /\ mode = "off" => Ended
        /\ mode \in Serving => Bound
        /\ mode \in {"closingPub", "closingConn", "closed"} => Detached

\* A handler of the message has failed, or the message is where it survives.
Safe(m) == \/ \E a \in Attempts : <<m, a>> \in failed
           \/ AtBroker(m) \/ Settled(m)

\* A packet that leaves the broker is accounted for when its message is safe
\* in another way.
LEMMA SafeStep ==
  ASSUME \A m \in Msgs : Safe(m), failed \subseteq failed',
         \A p \in ready : (p \in ready' \/ Safe(p.msg)'),
         \A u \in unacked : (u \in unacked' \/ Safe(u.pkt.msg)'),
         handled \subseteq handled', dlq \subseteq dlq'
  PROVE  \A m \in Msgs : Safe(m)'
<1> TAKE m \in Msgs
<1>1. CASE \E a \in Attempts : <<m, a>> \in failed
  BY <1>1 DEF Safe
<1>2. CASE AtBroker(m)
  BY <1>2 DEF AtBroker, Safe
<1>3. CASE Settled(m)
  BY <1>3 DEF Settled, Safe
<1> QED
  BY <1>1, <1>2, <1>3 DEF Safe

\* An ack on a connection that has held settles its own delivery, or, once
\* the channel is closed, nothing at all.
LEMMA CalmSettle ==
  ASSUME TypeOK, CalmInv, losses = 0, NEW d, NEW back \in BOOLEAN,
         d \in running \/ \E w \in dlqWait : d = w.d, Settle(d, back)
  PROVE  \/ /\ mode \in Serving /\ d \in unacked /\ unacked' = unacked \ {d}
            /\ ready' = IF back THEN ready \cup {d.pkt} ELSE ready
            /\ ~chanError'
         \/ /\ mode \in {"closingPub", "closingConn", "closed"}
            /\ UNCHANGED <<ready, unacked, consuming, chanError>>
<1>1. ~chanError /\ mode # "off"
  BY DEF CalmInv, Ended
<1>2. CASE mode \in Serving
  <2>1. Bound
    BY <1>2 DEF CalmInv
  <2>2. d \in unacked
    BY <2>1 DEF Bound
  <2>3. /\ channel # 0 /\ channel = live
        /\ \A u, v \in unacked : u.tag = v.tag => u = v
    BY <2>1 DEF Bound
  <2> QED
    BY <1>1, <1>2, <2>2, <2>3, SettleTag, Zenon
<1>3. CASE mode \in {"closingPub", "closingConn", "closed"}
  <2>1. channel = 0
    BY <1>3 DEF CalmInv, Detached
  <2> QED
    BY <1>3, <2>1 DEF Settle
<1> QED
  BY <1>1, <1>2, <1>3 DEF TypeOK, Shutdown, Serving
\* The drain's resolver moves the shutdown from one serving mode to the next.
LEMMA DrainServes ==
  ASSUME TypeOK, DrainCheck
  PROVE  /\ mode \in Serving => mode' \in Serving
         /\ mode \notin Serving => mode' = mode
BY DEF DrainCheck, Serving

\* The step case of CalmInv for an ack of a delivery that is worked on.
LEMMA CalmAck ==
  ASSUME TypeOK, CalmInv, losses = 0, NEW d, NEW back \in BOOLEAN,
         d \in running \/ \E w \in dlqWait : d = w.d,
         Settle(d, back), DrainCheck,
         UNCHANGED <<live, channel, pub, tags, reest>>,
         running' \subseteq running, dlqWait' \subseteq dlqWait,
         mode \in Serving => /\ d \notin running'
                            /\ \A w \in dlqWait' : w.d # d
  PROVE  CalmInv'
<1>1. ~chanError /\ reest = "idle"
  BY DEF CalmInv
<1>2. CASE /\ mode \in Serving /\ d \in unacked /\ unacked' = unacked \ {d}
           /\ ~chanError'
  <2>1. Bound /\ mode' \in Serving
    BY <1>2, DrainServes DEF CalmInv
  <2>2. Bound'
    BY <1>2, <2>1 DEF Bound
  <2> QED
    BY <1>1, <1>2, <2>1, <2>2 DEF CalmInv, Serving
<1>3. CASE /\ mode \in {"closingPub", "closingConn", "closed"}
           /\ UNCHANGED <<unacked, consuming, chanError>>
  <2>1. Detached /\ mode' = mode
    BY <1>3, DrainServes DEF CalmInv, Serving
  <2> QED
    BY <1>1, <1>3, <2>1 DEF CalmInv, Serving, Detached
<1> QED
  BY <1>2, <1>3, CalmSettle, Zenon

\* The steps on a connection that has held and holds.
LEMMA CalmStep ==
  ASSUME TypeOK, CalmInv, losses = 0, \A m \in Msgs : Safe(m), Next, losses' = 0
  PROVE  CalmInv' /\ \A m \in Msgs : Safe(m)'
<1> USE DEF brokerVars, linkVars, taskVars, history, bounds
<1>0. /\ ~chanError /\ reest = "idle"
      /\ mode = "off" => Ended
      /\ mode \in Serving => Bound
      /\ mode \in {"closingPub", "closingConn", "closed"} => Detached
  BY DEF CalmInv
<1>1. CASE Consume
  <2>1. /\ live' = pairs + 1 /\ channel' = live' /\ pub' = live'
        /\ mode = "off" /\ mode' = "running"
        /\ UNCHANGED <<ready, unacked, chanError, reest, running, dlqWait,
                       failed, handled, dlq>>
    BY <1>1 DEF Consume, OpenPair
  <2>2. live' # 0
    BY <2>1 DEF TypeOK
  <2>3. Bound'
    BY <1>0, <2>1, <2>2 DEF Ended, Bound
  <2>4. CalmInv'
    BY <1>0, <2>1, <2>3 DEF CalmInv
  <2> QED
    BY <2>1, <2>4, SafeStep
<1>2. CASE Reconnect \/ OpenChannels \/ StartConsume \/ ReestablishDone
  BY <1>0, <1>2 DEF Reconnect, OpenChannels, StartConsume, ReestablishDone,
                    Serving, Bound
<1>3. CASE BeginShutdown \/ CancelDone
  <2>1. /\ mode \in Serving /\ mode' \in Serving
        /\ UNCHANGED <<ready, unacked, live, channel, pub, tags, chanError,
                       reest, running, dlqWait, failed, handled, dlq>>
    BY <1>3 DEF BeginShutdown, CancelDone, Serving
  <2>2. CalmInv'
    BY <1>0, <2>1 DEF CalmInv, Serving, Bound
  <2> QED
    BY <2>1, <2>2, SafeStep
<1>4. CASE DrainTimeout
  <2>1. /\ mode \in Serving /\ mode' \in Serving
        /\ UNCHANGED <<ready, unacked, live, channel, pub, tags, chanError,
                       reest, running, dlqWait, failed, handled, dlq>>
    BY <1>4 DEF DrainTimeout, Serving
  <2>2. CalmInv'
    BY <1>0, <2>1 DEF CalmInv, Serving, Bound
  <2> QED
    BY <2>1, <2>2, SafeStep
<1>5. CASE CloseChannel
  <2>1. mode \in Serving /\ channel = live
    BY <1>0, <1>5 DEF CloseChannel, Serving, Bound
  <2>2. /\ ready' = ready \cup Packets(unacked) /\ unacked' = {}
        /\ ~consuming' /\ ~chanError' /\ reest' = "idle"
        /\ mode' = "closingPub" /\ channel' = 0
        /\ UNCHANGED <<failed, handled, dlq>>
    BY <1>0, <1>5, <2>1 DEF CloseChannel
  <2>3. CalmInv'
    BY <2>2 DEF CalmInv, Serving, Detached
  <2>4. \A u \in unacked : Safe(u.pkt.msg)'
    BY <2>2 DEF Packets, Safe, AtBroker
  <2> QED
    BY <2>2, <2>3, <2>4, SafeStep
<1>6. CASE ClosePub
  <2>1. /\ mode = "closingPub" /\ mode' = "closingConn"
        /\ dlq \subseteq dlq'
        /\ UNCHANGED <<ready, unacked, channel, consuming, chanError, reest,
                       failed, handled>>
    BY <1>6 DEF ClosePub
  <2>2. CalmInv'
    BY <1>0, <2>1 DEF CalmInv, Serving, Detached
  <2> QED
    BY <2>1, <2>2, SafeStep
<1>7. CASE CloseConn
  <2>1. /\ ready' = ready \cup Packets(unacked) \cup {Retry(d) : d \in {}}
        /\ unacked' = {} /\ ~consuming' /\ ~chanError' /\ reest' = "idle"
        /\ dlq \subseteq dlq' /\ mode = "closingConn" /\ mode' = "closed"
        /\ UNCHANGED <<channel, failed, handled>>
    BY <1>0, <1>7 DEF CloseConn, LinkGone
  <2>2. CalmInv'
    BY <1>0, <2>1 DEF CalmInv, Serving, Detached
  <2>3. \A u \in unacked : Safe(u.pkt.msg)'
    BY <2>1 DEF Packets, Safe, AtBroker
  <2> QED
    BY <2>1, <2>2, <2>3, SafeStep
<1>8. ASSUME NEW arrived \in SUBSET publishing,
             NEW stored \in SUBSET Confirmable, Lose(arrived, stored)
      PROVE  FALSE
  BY <1>0, <1>8 DEF Lose, TypeOK
<1>9. ASSUME NEW arrived \in SUBSET publishing,
             NEW stored \in SUBSET Confirmable, Dies(arrived, stored)
      PROVE  CalmInv' /\ \A m \in Msgs : Safe(m)'
  <2>1. /\ ready' = ready \cup Packets(unacked)
                          \cup {Retry(d) : d \in arrived}
        /\ unacked' = {} /\ live' = 0 /\ ~consuming' /\ ~chanError'
        /\ dlq \subseteq dlq' /\ reest' = "idle" /\ mode' = "off"
        /\ running' = {} /\ dlqWait' = {}
        /\ UNCHANGED <<failed, handled>>
    BY <1>9 DEF Dies, LinkGone
  <2>2. CalmInv'
    BY <2>1 DEF CalmInv, Serving, Ended
  <2>3. \A u \in unacked : Safe(u.pkt.msg)'
    BY <2>1 DEF Packets, Safe, AtBroker
  <2> QED
    BY <2>1, <2>2, <2>3, SafeStep
<1>10. ASSUME NEW q \in ready, Deliver(q)
       PROVE  CalmInv' /\ \A m \in Msgs : Safe(m)'
  <2> DEFINE d == [ch |-> live, tag |-> tags + 1, pkt |-> q]
  <2>1. /\ ready' = ready \ {q}
        /\ unacked' = unacked \cup {d}
        /\ tags' = tags + 1
        /\ UNCHANGED <<live, chanError, mode, channel, pub, reest, failed,
                       dlq, handled>>
    BY <1>10 DEF Deliver
  <2>2. \/ running' = running \cup {d} /\ dlqWait' = dlqWait
        \/ /\ dlqWait' = dlqWait \cup {[d |-> d, via |-> pub]}
           /\ running' = running
    BY <1>10 DEF Deliver
  <2>3. mode \in Serving
    BY <1>0, <1>10 DEF Deliver, Ended, Detached, TypeOK, Shutdown, Serving
  <2>4. Bound
    BY <1>0, <2>3
  <2>5. d.tag = tags + 1 /\ d.pkt = q /\ tags \in Nat
    BY DEF TypeOK
  <2>6. d \notin unacked
    BY <2>4, <2>5 DEF Bound
  <2>7. /\ \A u \in unacked' : u.tag <= tags'
        /\ \A u, v \in unacked' : u.tag = v.tag => u = v
    BY <2>1, <2>4, <2>5 DEF Bound, TypeOK, Delivery
  <2> HIDE DEF d
  <2>8. Bound'
    BY <2>1, <2>2, <2>4, <2>6, <2>7 DEF Bound
  <2>9. CalmInv'
    BY <1>0, <2>1, <2>3, <2>8 DEF CalmInv, Serving
  <2>10. Safe(q.msg)'
    BY <2>1, <2>5 DEF Safe, AtBroker
  <2> QED
    BY <2>1, <2>9, <2>10, SafeStep
<1>11. ASSUME NEW d \in running, HandlerAcks(d)
       PROVE  CalmInv' /\ \A m \in Msgs : Safe(m)'
  <2>1. /\ Settle(d, FALSE) /\ DrainCheck /\ running' = running \ {d}
        /\ handled' = handled \cup {d.pkt.msg}
        /\ UNCHANGED <<live, channel, pub, tags, reest, dlqWait, failed, dlq>>
    BY <1>11 DEF HandlerAcks
  <2>2. mode \in Serving => \A w \in dlqWait' : w.d # d
    BY <1>0, <2>1 DEF Bound
  <2>3. CalmInv'
    BY <2>1, <2>2, CalmAck
  <2>4. unacked \ {d} \subseteq unacked' /\ ready \subseteq ready'
    BY <2>1, CalmSettle
  <2>5. Safe(d.pkt.msg)'
    BY <2>1 DEF Safe, Settled
  <2> QED
    BY <2>1, <2>3, <2>4, <2>5, SafeStep
<1>12. ASSUME NEW d \in running, HandlerRequeues(d)
       PROVE  CalmInv' /\ \A m \in Msgs : Safe(m)'
  <2>1. /\ Settle(d, TRUE) /\ DrainCheck /\ running' = running \ {d}
        /\ UNCHANGED <<live, channel, pub, tags, reest, dlqWait, failed, dlq,
                       handled>>
    BY <1>12 DEF HandlerRequeues
  <2>2. mode \in Serving => \A w \in dlqWait' : w.d # d
    BY <1>0, <2>1 DEF Bound
  <2>3. CalmInv'
    BY <2>1, <2>2, CalmAck
  <2>4. /\ unacked \ {d} \subseteq unacked' /\ ready \subseteq ready'
        /\ unacked' = unacked \/ d.pkt \in ready'
    BY <2>1, CalmSettle
  <2>5. d \in unacked => d \in unacked' \/ Safe(d.pkt.msg)'
    BY <2>4 DEF Safe, AtBroker
  <2> QED
    BY <2>1, <2>3, <2>4, <2>5, SafeStep
<1>13. ASSUME NEW d \in running, HandlerFails(d)
       PROVE  CalmInv' /\ \A m \in Msgs : Safe(m)'
  <2>1. /\ Settle(d, FALSE) /\ DrainCheck /\ running' = running \ {d}
        /\ failed' = failed \cup {<<d.pkt.msg, d.pkt.att>>}
        /\ UNCHANGED <<live, channel, pub, tags, reest, dlqWait, dlq, handled>>
    BY <1>13 DEF HandlerFails
  <2>2. mode \in Serving => \A w \in dlqWait' : w.d # d
    BY <1>0, <2>1 DEF Bound
  <2>3. CalmInv'
    BY <2>1, <2>2, CalmAck
  <2>4. unacked \ {d} \subseteq unacked' /\ ready \subseteq ready'
    BY <2>1, CalmSettle
  <2>5. d.pkt.att \in Attempts
    BY DEF TypeOK, Delivery, Packet
  <2>6. Safe(d.pkt.msg)'
    BY <2>1, <2>5 DEF Safe
  <2> QED
    BY <2>1, <2>3, <2>4, <2>6, SafeStep
<1>14. ASSUME NEW d \in running, HandlerExhausted(d)
       PROVE  CalmInv' /\ \A m \in Msgs : Safe(m)'
  <2>1. /\ running' = running \ {d}
        /\ failed' = failed \cup {<<d.pkt.msg, d.pkt.att>>}
        /\ UNCHANGED <<live, channel, pub, tags, reest, dlq, handled>>
    BY <1>14 DEF HandlerExhausted
  <2>2. d.pkt.att \in Attempts
    BY DEF TypeOK, Delivery, Packet
  <2>3. Safe(d.pkt.msg)'
    BY <2>1, <2>2 DEF Safe
  <2>4. CASE pub # 0
    <3>1. /\ dlqWait' = dlqWait \cup {[d |-> d, via |-> pub]}
          /\ UNCHANGED <<ready, unacked, consuming, chanError, mode>>
      BY <1>14, <2>4 DEF HandlerExhausted
    <3>2. mode \in Serving => Bound'
      BY <1>0, <2>1, <3>1 DEF Bound
    <3>3. mode # "off"
      BY <1>0 DEF Ended
    <3>4. CalmInv'
      BY <1>0, <2>1, <3>1, <3>2, <3>3 DEF CalmInv, Detached
    <3> QED
      BY <2>1, <3>1, <3>4, SafeStep
  <2>5. CASE pub = 0
    <3>1. Settle(d, FALSE) /\ DrainCheck /\ UNCHANGED dlqWait
      BY <1>14, <2>5 DEF HandlerExhausted
    <3>2. mode \in Serving => \A w \in dlqWait' : w.d # d
      BY <1>0, <3>1 DEF Bound
    <3>3. CalmInv'
      BY <2>1, <3>1, <3>2, CalmAck
    <3>4. unacked \ {d} \subseteq unacked' /\ ready \subseteq ready'
      BY <3>1, CalmSettle
    <3> QED
      BY <2>1, <2>3, <3>3, <3>4, SafeStep
  <2> QED
    BY <2>4, <2>5
<1>15. ASSUME NEW w \in dlqWait, DlqConfirmed(w)
       PROVE  CalmInv' /\ \A m \in Msgs : Safe(m)'
  <2>1. /\ Settle(w.d, FALSE) /\ DrainCheck /\ dlqWait' = dlqWait \ {w}
        /\ dlq' = dlq \cup {w.d.pkt.msg}
        /\ UNCHANGED <<live, channel, pub, tags, reest, running, failed,
                       handled>>
    BY <1>15 DEF DlqConfirmed
  <2>2. mode \in Serving => \A x \in dlqWait' : x.d # w.d
    BY <1>0, <2>1 DEF Bound
  <2>3. mode \in Serving => w.d \notin running
    BY <1>0 DEF Bound
  <2>4. CalmInv'
    BY <2>1, <2>2, <2>3, CalmAck
  <2>5. unacked \ {w.d} \subseteq unacked' /\ ready \subseteq ready'
    BY <2>1, CalmSettle
  <2>6. Safe(w.d.pkt.msg)'
    BY <2>1 DEF Safe, Settled
  <2> QED
    BY <2>1, <2>4, <2>5, <2>6, SafeStep
<1>16. ASSUME NEW d \in timers, RetryTimerFires(d)
       PROVE  CalmInv' /\ \A m \in Msgs : Safe(m)'
  <2>1. /\ DrainCheck
        /\ UNCHANGED <<ready, unacked, live, channel, pub, tags, consuming,
                       chanError, reest, running, dlqWait, failed, dlq,
                       handled>>
    BY <1>16 DEF RetryTimerFires
  <2>2. CalmInv'
    BY <1>0, <2>1, DrainServes
       DEF CalmInv, Bound, Ended, Detached, Serving
  <2> QED
    BY <2>1, <2>2, SafeStep
<1>17. ASSUME NEW d \in publishing, RepublishArrives(d)
       PROVE  CalmInv' /\ \A m \in Msgs : Safe(m)'
  <2>1. /\ ready \subseteq ready'
        /\ UNCHANGED <<unacked, live, channel, pub, tags, consuming, chanError,
                       mode, reest, running, dlqWait, failed, dlq, handled>>
    BY <1>17 DEF RepublishArrives
  <2>2. CalmInv'
    BY <1>0, <2>1 DEF CalmInv, Bound, Ended, Detached
  <2> QED
    BY <2>1, <2>2, SafeStep
<1>18. ASSUME NEW q \in ready, AckUnparsed(q)
       PROVE  FALSE
  <2>1. mode \in Serving
    BY <1>0, <1>18 DEF AckUnparsed, Ended, Detached, TypeOK, Shutdown, Serving
  <2> QED
    BY <1>0, <1>18, <2>1 DEF AckUnparsed, Bound
<1> QED
  BY <1>1, <1>2, <1>3, <1>4, <1>5, <1>6, <1>7, <1>8, <1>9, <1>10, <1>11,
     <1>12, <1>13, <1>14, <1>15, <1>16, <1>17, <1>18
     DEF Next
\* A loss of the connection by the network is never forgotten.
LEMMA LossesStay == TypeOK /\ Next /\ losses' = 0 => losses = 0
<1> SUFFICES ASSUME TypeOK, Next, losses' = 0
             PROVE  losses = 0
  OBVIOUS
<1> USE DEF TypeOK, bounds
<1>1. CASE Consume \/ Reconnect \/ OpenChannels \/ StartConsume
             \/ ReestablishDone
  BY <1>1 DEF Consume, Reconnect, OpenChannels, StartConsume, ReestablishDone
<1>2. CASE \/ BeginShutdown \/ CancelDone \/ DrainTimeout
           \/ CloseChannel \/ ClosePub \/ CloseConn
  BY <1>2 DEF BeginShutdown, CancelDone, DrainTimeout, CloseChannel, ClosePub,
              CloseConn
<1>3. ASSUME NEW arrived \in SUBSET publishing,
             NEW stored \in SUBSET Confirmable,
             Lose(arrived, stored) \/ Dies(arrived, stored)
      PROVE  losses = 0
  BY <1>3 DEF Lose, Dies
<1>4. ASSUME NEW q \in ready, Deliver(q)
      PROVE  losses = 0
  BY <1>4 DEF Deliver
<1>5. ASSUME NEW d \in running, \/ HandlerAcks(d) \/ HandlerRequeues(d)
                                \/ HandlerFails(d) \/ HandlerExhausted(d)
      PROVE  losses = 0
  BY <1>5 DEF HandlerAcks, HandlerRequeues, HandlerFails, HandlerExhausted
<1>6. ASSUME NEW w \in dlqWait, DlqConfirmed(w)
      PROVE  losses = 0
  BY <1>6 DEF DlqConfirmed
<1>7. ASSUME NEW d \in timers, RetryTimerFires(d)
      PROVE  losses = 0
  BY <1>7 DEF RetryTimerFires
<1>8. ASSUME NEW d \in publishing, RepublishArrives(d)
      PROVE  losses = 0
  BY <1>8 DEF RepublishArrives
<1>9. ASSUME NEW q \in ready, AckUnparsed(q)
      PROVE  losses = 0
  BY <1>9 DEF AckUnparsed
<1> QED
  BY <1>1, <1>2, <1>3, <1>4, <1>5, <1>6, <1>7, <1>8, <1>9 DEF Next

ExitInv == CalmInv /\ UnfailedSurvivesExit

\* What the promise says of a message is that it is safe.
LEMMA SafeMeans == UnfailedSurvivesExit <=> (losses = 0 => \A m \in Msgs : Safe(m))
BY DEF UnfailedSurvivesExit, Safe

\* At first every message is in the queue and nothing is attached to it.
LEMMA InitExitInv == Init => ExitInv
<1> SUFFICES ASSUME Init
             PROVE  ExitInv
  OBVIOUS
<1>1. CalmInv
  BY DEF Init, CalmInv, Ended, Serving
<1>2. ASSUME NEW m \in Msgs
      PROVE  Safe(m)
  <2>1. [msg |-> m, att |-> 1, id |-> <<0, 0>>] \in ready
    BY DEF Init
  <2> QED
    BY <2>1 DEF Safe, AtBroker
<1> QED
  BY <1>1, <1>2, SafeMeans DEF ExitInv

\* Every step keeps it, ends and restarts of the process included.
LEMMA StepExitInv == TypeOK /\ ExitInv /\ [Next]_vars => ExitInv'
<1>1. ASSUME TypeOK, ExitInv, Next, losses' = 0
      PROVE  CalmInv' /\ \A m \in Msgs : Safe(m)'
  <2>1. losses = 0
    BY <1>1, LossesStay
  <2>2. CalmInv /\ \A m \in Msgs : Safe(m)
    BY <1>1, <2>1, SafeMeans DEF ExitInv
  <2> QED
    BY <1>1, <2>1, <2>2, CalmStep
<1>2. ASSUME TypeOK, ExitInv, Next
      PROVE  ExitInv'
  <2>1. CASE losses' = 0
    <3>1. CalmInv' /\ \A m \in Msgs : Safe(m)'
      BY <1>1, <1>2, <2>1
    <3> QED
      BY <2>1, <3>1 DEF ExitInv, UnfailedSurvivesExit, Safe
  <2>2. CASE losses' # 0
    BY <2>2 DEF ExitInv, CalmInv, UnfailedSurvivesExit
  <2> QED
    BY <2>1, <2>2
<1>3. ASSUME ExitInv, UNCHANGED vars
      PROVE  ExitInv'
  BY <1>3 DEF ExitInv, CalmInv, UnfailedSurvivesExit, Ended, Bound, Detached,
              AtBroker, Settled, vars, brokerVars, linkVars, taskVars, history,
              bounds
<1> QED
  BY <1>2, <1>3

\* A message none of whose handlers has failed is with the broker, handled or
\* dead-lettered whenever and however often the process ends: the original is
\* acked after a success or a confirmed dead letter and never before.
THEOREM UnfailedAlwaysSurvives == Spec => []UnfailedSurvivesExit
<1>1. TypedInv => TypeOK
  BY DEF TypedInv
<1>2. Spec => []ExitInv
  BY InitExitInv, StepExitInv, TypedInvariance, <1>1, PTL DEF Spec
<1>3. ExitInv => UnfailedSurvivesExit
  BY DEF ExitInv
<1> QED
  BY <1>2, <1>3, PTL
-----------------------------------------------------------------------------
(* What the drain waits for.                                               *)

\* The modes after the drain.
Closing == {"closing", "closingPub", "closingConn", "closed"}

\* While the held channel is open every handler and every awaited dead letter
\* has its token.
TokensHeld ==
    mode \in Serving => /\ running \subseteq inFlight
                        /\ \A w \in dlqWait : w.d \in inFlight

\* The inductive invariant behind DrainWaitsForHandlers: from the answer to
\* cancel on nothing is delivered any more, and a running consumer holds the
\* tag of its own subscription, so that it does wait for that answer.
WaitInv ==
    losses = 0 =>
        /\ TokensHeld
        /\ mode = "running" => tag = live
        /\ mode \in Shutdown \ {"cancelling"} => ~consuming
        /\ mode \in Closing /\ ~timedOut
               => running = {} /\ dlqWait = {} /\ inFlight = {}

\* The end of a delivery: its token goes last and the drain looks at the rest.
LEMMA WaitAck ==
  ASSUME TypeOK, CalmInv, WaitInv, losses = 0, NEW d,
         \/ /\ d \in running /\ running' = running \ {d}
            /\ UNCHANGED dlqWait
         \/ /\ \E w \in dlqWait : d = w.d /\ dlqWait' = dlqWait \ {w}
            /\ UNCHANGED running,
         inFlight' = inFlight \ {d}, DrainCheck, consuming' => consuming,
         UNCHANGED <<tag, live, timedOut>>
  PROVE  WaitInv'
<1>1. CASE mode \in Serving
  <2>1. Bound /\ running \subseteq inFlight /\ \A w \in dlqWait : w.d \in inFlight
    BY <1>1 DEF CalmInv, WaitInv, TokensHeld
  <2>2. running' \subseteq inFlight' /\ \A w \in dlqWait' : w.d \in inFlight'
    BY <2>1 DEF Bound
  <2>3. mode \in Closing /\ ~timedOut => running = {} /\ dlqWait = {}
    BY DEF WaitInv
  <2>4. mode' \in Closing /\ ~timedOut' => inFlight' = {}
    BY <2>3 DEF DrainCheck, Closing
  <2>5. /\ mode' = "running" => mode = "running"
        /\ mode' \in Shutdown \ {"cancelling"} => mode \in Shutdown \ {"cancelling"}
    BY DEF DrainCheck, Shutdown
  <2> QED
    BY <2>2, <2>4, <2>5 DEF WaitInv, TokensHeld
<1>2. CASE mode \notin Serving
  <2>1. mode' = mode
    BY <1>2, DrainServes
  <2> QED
    BY <1>2, <2>1 DEF WaitInv, TokensHeld
<1> QED
  BY <1>1, <1>2

LEMMA WaitStep ==
  ASSUME TypeOK, CalmInv, WaitInv, Next, losses = 0, losses' = 0
  PROVE  WaitInv'
<1> USE DEF brokerVars, linkVars, taskVars, history, bounds
<1>0. /\ ~chanError /\ reest = "idle"
      /\ mode = "off" => Ended
      /\ mode \in Serving => Bound
      /\ mode = "running" => tag = live
      /\ mode \in Shutdown \ {"cancelling"} => ~consuming
      /\ mode \in Closing /\ ~timedOut
             => running = {} /\ dlqWait = {} /\ inFlight = {}
  BY DEF CalmInv, WaitInv
<1>1. CASE Consume
  <2>1. mode = "off" /\ mode' = "running" /\ tag' = live'
        /\ UNCHANGED <<running, dlqWait, inFlight>>
    BY <1>1 DEF Consume, OpenPair
  <2>2. running' = {} /\ dlqWait' = {}
    BY <1>0, <2>1 DEF Ended
  <2> QED
    BY <2>1, <2>2 DEF WaitInv, TokensHeld, Shutdown, Closing
<1>2. CASE Reconnect
  BY <1>0, <1>2 DEF Reconnect, Serving, Bound
<1>3. CASE OpenChannels \/ StartConsume \/ ReestablishDone
  BY <1>0, <1>3 DEF OpenChannels, StartConsume, ReestablishDone
<1>4. ASSUME NEW p \in ready, Deliver(p)
      PROVE  WaitInv'
  <2> DEFINE d == [ch |-> live, tag |-> tags + 1, pkt |-> p]
  <2>1. /\ consuming /\ inFlight' = inFlight \cup {d}
        /\ \/ /\ dlqWait' = dlqWait \cup {[d |-> d, via |-> pub]}
              /\ running' = running
           \/ /\ dlqWait' = dlqWait /\ running' = running \cup {d}
        /\ UNCHANGED <<live, consuming, mode, tag, timedOut>>
    BY <1>4 DEF Deliver
  <2>2. mode \notin Shutdown \ {"cancelling"} /\ mode \notin Closing
    BY <1>0, <2>1 DEF Closing, Shutdown
  <2>3. TokensHeld
    BY DEF WaitInv
  <2>4. TokensHeld'
    BY <2>1, <2>3 DEF TokensHeld
  <2> HIDE DEF d
  <2> QED
    BY <1>0, <2>1, <2>2, <2>4 DEF WaitInv
<1>5. ASSUME NEW d \in running, HandlerAcks(d)
      PROVE  WaitInv'
  <2>1. consuming' => consuming
    BY <1>5 DEF HandlerAcks, Settle
  <2> QED
    BY <1>5, <2>1, WaitAck DEF HandlerAcks
<1>6. ASSUME NEW d \in running, HandlerRequeues(d)
      PROVE  WaitInv'
  <2>1. consuming' => consuming
    BY <1>6 DEF HandlerRequeues, Settle
  <2> QED
    BY <1>6, <2>1, WaitAck DEF HandlerRequeues
<1>7. ASSUME NEW d \in running, HandlerFails(d)
      PROVE  WaitInv'
  <2>1. consuming' => consuming
    BY <1>7 DEF HandlerFails, Settle
  <2> QED
    BY <1>7, <2>1, WaitAck DEF HandlerFails
<1>8. ASSUME NEW d \in running, HandlerExhausted(d)
      PROVE  WaitInv'
  <2>1. CASE pub # 0
    <3>1. /\ running' = running \ {d}
          /\ dlqWait' = dlqWait \cup {[d |-> d, via |-> pub]}
          /\ UNCHANGED <<inFlight, mode, consuming, tag, live, timedOut>>
      BY <1>8, <2>1 DEF HandlerExhausted
    <3>2. TokensHeld /\ ~(mode \in Closing /\ ~timedOut)
      BY <1>0 DEF WaitInv
    <3>3. TokensHeld'
      BY <3>1, <3>2 DEF TokensHeld
    <3> QED
      BY <1>0, <3>1, <3>2, <3>3 DEF WaitInv
  <2>2. CASE pub = 0
    <3>1. consuming' => consuming
      BY <1>8, <2>2 DEF HandlerExhausted, Settle
    <3> QED
      BY <1>8, <2>2, <3>1, WaitAck DEF HandlerExhausted
  <2> QED
    BY <2>1, <2>2
<1>9. ASSUME NEW w \in dlqWait, DlqConfirmed(w)
      PROVE  WaitInv'
  <2>1. consuming' => consuming
    BY <1>9 DEF DlqConfirmed, Settle
  <2> QED
    BY <1>9, <2>1, WaitAck DEF DlqConfirmed
<1>10. ASSUME NEW d \in timers, RetryTimerFires(d)
       PROVE  WaitInv'
  <2>1. /\ DrainCheck
        /\ UNCHANGED <<running, dlqWait, inFlight, consuming, tag, live, timedOut>>
    BY <1>10 DEF RetryTimerFires
  <2>2. TokensHeld
    BY DEF WaitInv
  <2>3. \/ mode' = mode
        \/ mode = "draining" /\ mode' = "closing" /\ inFlight' = {}
    BY <2>1 DEF DrainCheck
  <2>4. CASE mode' = mode
    BY <1>0, <2>1, <2>2, <2>4 DEF WaitInv, TokensHeld
  <2>5. CASE mode = "draining" /\ mode' = "closing" /\ inFlight' = {}
    <3>1. running' = {} /\ dlqWait' = {} /\ ~consuming'
      BY <1>0, <2>1, <2>2, <2>5 DEF TokensHeld, Serving, Shutdown
    <3> QED
      BY <2>5, <3>1 DEF WaitInv, TokensHeld
  <2> QED
    BY <2>3, <2>4, <2>5
<1>11. ASSUME NEW d \in publishing, RepublishArrives(d)
       PROVE  WaitInv'
  BY <1>11 DEF RepublishArrives, WaitInv, TokensHeld
<1>12. CASE BeginShutdown
  <2>1. /\ mode = "running" /\ mode' = "cancelling"
        /\ UNCHANGED <<running, dlqWait, inFlight>>
    BY <1>0, <1>12 DEF BeginShutdown
  <2> QED
    BY <2>1 DEF WaitInv, TokensHeld, Serving, Shutdown, Closing
<1>13. CASE CancelDone
  <2>1. /\ mode = "cancelling" /\ ~consuming'
        /\ mode' \in {"closing", "draining"} /\ (mode' = "closing" => inFlight = {})
        /\ UNCHANGED <<running, dlqWait, inFlight>>
    BY <1>13 DEF CancelDone
  <2>2. running \subseteq inFlight /\ \A w \in dlqWait : w.d \in inFlight
    BY <2>1 DEF WaitInv, TokensHeld, Serving
  <2> QED
    BY <2>1, <2>2 DEF WaitInv, TokensHeld, Closing
<1>14. CASE DrainTimeout
  BY <1>14 DEF DrainTimeout, WaitInv, TokensHeld, Serving, Shutdown, Closing
<1>15. CASE CloseChannel
  <2>1. /\ mode = "closing" /\ mode' = "closingPub"
        /\ consuming' => consuming
        /\ UNCHANGED <<running, dlqWait, inFlight, timedOut>>
    BY <1>15 DEF CloseChannel
  <2> QED
    BY <1>0, <2>1 DEF WaitInv, TokensHeld, Serving, Shutdown, Closing
<1>16. CASE ClosePub
  BY <1>0, <1>16 DEF ClosePub, WaitInv, TokensHeld, Serving, Shutdown, Closing
<1>17. CASE CloseConn
  BY <1>0, <1>17 DEF CloseConn, LinkGone, WaitInv, TokensHeld, Serving, Shutdown,
                     Closing
<1>18. ASSUME NEW arrived \in SUBSET publishing,
              NEW stored \in SUBSET Confirmable, Lose(arrived, stored)
       PROVE  WaitInv'
  BY <1>0, <1>18 DEF Lose
<1>19. ASSUME NEW arrived \in SUBSET publishing,
              NEW stored \in SUBSET Confirmable, Dies(arrived, stored)
       PROVE  WaitInv'
  BY <1>19 DEF Dies, WaitInv, TokensHeld, Serving, Shutdown, Closing
<1>20. ASSUME NEW p \in ready, AckUnparsed(p)
       PROVE  WaitInv'
  <2>1. UNCHANGED <<live, channel, pub, consuming, mode, tag, timedOut, running, dlqWait, inFlight>>
    BY <1>20 DEF AckUnparsed
  <2> QED
    BY <1>0, <2>1 DEF WaitInv, TokensHeld
<1> QED
  BY <1>1, <1>2, <1>3, <1>4, <1>5, <1>6, <1>7, <1>8, <1>9, <1>10, <1>11,
     <1>12, <1>13, <1>14, <1>15, <1>16, <1>17, <1>18, <1>19, <1>20
     DEF Next

LEMMA InitWaitInv == Init => WaitInv
BY DEF Init, WaitInv, TokensHeld, Serving, Shutdown, Closing

LEMMA StepWaitInv == TypeOK /\ CalmInv /\ WaitInv /\ [Next]_vars => WaitInv'
<1>1. ASSUME TypeOK, CalmInv, WaitInv, Next
      PROVE  WaitInv'
  <2>1. CASE losses' = 0
    BY <1>1, <2>1, LossesStay, WaitStep
  <2>2. CASE losses' # 0
    BY <2>2 DEF WaitInv
  <2> QED
    BY <2>1, <2>2
<1>2. ASSUME WaitInv, UNCHANGED vars
      PROVE  WaitInv'
  BY <1>2 DEF WaitInv, TokensHeld, vars, brokerVars, linkVars, taskVars, history,
              bounds
<1> QED
  BY <1>1, <1>2

\* As long as the network has lost no connection, a shutdown whose drain was
\* not cut short by its timeout leaves no handler running and no dead letter
\* waiting for its confirm: the subscription is cancelled before the drain
\* starts and each handler's token outlives it.
THEOREM DrainLeavesNothing == Spec => []DrainWaitsForHandlers
<1>1. TypedInv => TypeOK
  BY DEF TypedInv
<1>2. Spec => []CalmInv
  <2>1. ExitInv => CalmInv
    BY DEF ExitInv
  <2>2. Spec => []ExitInv
    BY InitExitInv, StepExitInv, TypedInvariance, <1>1, PTL DEF Spec
  <2> QED
    BY <2>1, <2>2, PTL
<1>3. Spec => []WaitInv
  BY InitWaitInv, StepWaitInv, TypedInvariance, <1>1, <1>2, PTL DEF Spec
<1>4. WaitInv => DrainWaitsForHandlers
  BY DEF WaitInv, DrainWaitsForHandlers, Shutdown, Closing
<1> QED
  BY <1>3, <1>4, PTL
=============================================================================
