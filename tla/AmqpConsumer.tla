---------------------------- MODULE AmqpConsumer ----------------------------
(***************************************************************************)
(* The AmqpConsumer class of packages/messaging with the broker it talks   *)
(* to: deliveries and acks, the in-process retry (ack, timer, republish),  *)
(* the dead-letter path, reestablish after a connection loss, the graceful *)
(* shutdown with its drain, and the death of the process at any moment.    *)
(*                                                                         *)
(* The consumer's two channels are opened together on one connection and   *)
(* are lost together: a pair of channels has a number, 0 is null.  A       *)
(* delivery is identified by its channel pair and its delivery tag, the    *)
(* only thing that an ack sends to the broker.  The connection below is    *)
(* module AmqpConnection, seen from here as losses and reconnects.         *)
(***************************************************************************)
EXTENDS Integers, FiniteSets

CONSTANTS Msgs,         \* application messages, published once each
          Malformed,    \* the ones whose content is not JSON
          MaxRetries,   \* options.maxRetries
          Prefetch,     \* options.prefetch
          MaxLosses,    \* bound: connection losses by the network
          MaxExits,     \* bound: ends of the process
          MaxRequeues,  \* bound: 'requeue' results
          MaxPairs      \* bound: channel pairs opened

ASSUME ConsumerAssumption ==
    /\ Malformed \subseteq Msgs
    /\ MaxRetries \in Nat \ {0}
    /\ Prefetch \in Nat \ {0}
    /\ MaxLosses \in Nat
    /\ MaxExits \in Nat
    /\ MaxRequeues \in Nat
    /\ MaxPairs \in Nat

VARIABLES
    (* the broker *)
    ready,       \* packets in the queue
    unacked,     \* deliveries of the live pair that wait for an ack
    live,        \* the channel pair that is open, or 0
    consuming,   \* the live pair has a consumer
    chanError,   \* the broker has refused an ack and closes the channel
    tags,        \* last delivery tag of the live pair
    dlq,         \* messages in the dead-letter queue
    (* the process *)
    mode,        \* "off", "running", then the steps of doShutdown
    channel,     \* this.channel
    pub,         \* this.publishChannel
    tag,         \* this.active.consumeTag, as the pair it belongs to
    reest,       \* progress of reestablish
    running,     \* deliveries whose handler runs
    dlqWait,     \* deliveries that await the confirm of a dead-letter publish
    inFlight,    \* this.inFlight, a token named after its delivery
    timers,      \* this.inFlightTimers, a timer named after its delivery
    publishing,  \* republishForRetry calls that await their confirm
    (* history and bounds *)
    pairs,       \* channel pairs opened so far
    handled,     \* messages a handler has finished with 'ack'
    failed,      \* <<message, attempt>> of the handlers that failed
    timedOut,    \* the shutdown's drain has timed out
    losses, exits, requeues

brokerVars == <<ready, unacked, live, consuming, chanError, tags>>
linkVars   == <<mode, channel, pub, tag, reest, pairs>>
taskVars   == <<running, dlqWait, inFlight, timers, publishing>>
history    == <<dlq, handled, failed, timedOut>>
bounds     == <<losses, exits, requeues>>
vars       == <<brokerVars, linkVars, taskVars, history, bounds>>

Attempts == 1..MaxRetries

\* A packet is one copy of a message: its x-bms-attempt header, and the
\* delivery whose failure republished it (<<0, 0>> for the original).
Packet   == [msg : Msgs, att : Attempts, id : Nat \X Nat]
Delivery == [ch : Nat, tag : Nat, pkt : Packet]

Shutdown == {"cancelling", "draining", "closing", "closingPub", "closingConn",
             "closed"}

TypeOK ==
    /\ ready \subseteq Packet
    /\ unacked \subseteq Delivery
    /\ live \in 0..pairs
    /\ consuming \in BOOLEAN
    /\ chanError \in BOOLEAN
    /\ tags \in Nat
    /\ dlq \subseteq Msgs
    /\ mode \in {"off", "running"} \cup Shutdown
    /\ channel \in 0..pairs
    /\ pub \in 0..pairs
    /\ tag \in 0..pairs
    /\ reest \in {"idle", "opening", "consuming", "consumed"}
    /\ running \subseteq Delivery
    /\ dlqWait \subseteq [d : Delivery, via : Nat]
    /\ inFlight \subseteq Delivery
    /\ timers \subseteq Delivery
    /\ publishing \subseteq Delivery
    /\ pairs \in 0..MaxPairs
    /\ handled \subseteq Msgs
    /\ failed \subseteq (Msgs \X Attempts)
    /\ timedOut \in BOOLEAN
    /\ losses \in 0..MaxLosses
    /\ exits \in 0..MaxExits
    /\ requeues \in 0..MaxRequeues

Init ==
    /\ ready = [msg : Msgs, att : {1}, id : {<<0, 0>>}]
    /\ unacked = {}
    /\ live = 0
    /\ consuming = FALSE
    /\ chanError = FALSE
    /\ tags = 0
    /\ dlq = {}
    /\ mode = "off"
    /\ channel = 0 /\ pub = 0 /\ tag = 0
    /\ reest = "idle"
    /\ running = {} /\ dlqWait = {} /\ inFlight = {}
    /\ timers = {} /\ publishing = {}
    /\ pairs = 0
    /\ handled = {}
    /\ failed = {}
    /\ timedOut = FALSE
    /\ losses = 0 /\ exits = 0 /\ requeues = 0

-----------------------------------------------------------------------------
(* What the broker does.                                                   *)

Packets(ds) == {d.pkt : d \in ds}

\* The packet that republishForRetry sends for the failed delivery d.
Retry(d) == [msg |-> d.pkt.msg, att |-> d.pkt.att + 1, id |-> <<d.ch, d.tag>>]

\* The channels are gone: what was not acked goes back to the queue, and of
\* the publishes that were not confirmed some had arrived, some had not.
LinkGone(arrived, stored) ==
    /\ ready' = ready \cup Packets(unacked) \cup {Retry(d) : d \in arrived}
    /\ dlq' = dlq \cup {w.d.pkt.msg : w \in stored}
    /\ unacked' = {}
    /\ live' = 0
    /\ consuming' = FALSE
    /\ chanError' = FALSE
    /\ tags' = 0
    /\ publishing' = {}

\* A confirm of the live pair can still be waited for.
Confirmable == {w \in dlqWait : w.via = live /\ live # 0}

\* safeAck, and safeNack with requeue (back): the tag of d goes to whatever
\* channel this.channel is now.  A dead or null channel makes it a no-op; on a
\* live one the broker settles the delivery that has this tag there, and a tag
\* it does not know is a channel error.
Settle(d, back) ==
    LET usable == channel # 0 /\ channel = live /\ ~chanError
        hit    == {u \in unacked : u.tag = d.tag}
    IN  IF ~usable
           THEN UNCHANGED <<ready, unacked, consuming, chanError>>
           ELSE /\ unacked' = unacked \ hit
                /\ ready' = IF back THEN ready \cup Packets(hit) ELSE ready
                /\ chanError' = (hit = {})
                /\ consuming' = (consuming /\ hit # {})

-----------------------------------------------------------------------------
(* consume and reestablish.                                                *)

OpenPair ==
    /\ pairs < MaxPairs
    /\ pairs' = pairs + 1
    /\ live' = pairs'
    /\ channel' = pairs'
    /\ pub' = pairs'
    /\ tags' = 0

\* consume, called once when the process starts; a failure on the way makes
\* the process exit before it has done anything.
Consume ==
    /\ mode = "off"
    /\ mode' = "running"
    /\ OpenPair
    /\ tag' = pairs'
    /\ consuming' = TRUE
    /\ UNCHANGED <<ready, unacked, chanError, reest, taskVars, history, bounds>>

\* The onReconnect listener; reestablish returns at once when it is already
\* under way or the consumer is shutting down.
Reconnect ==
    /\ live = 0
    /\ reest = "idle"
    /\ mode = "running"
    /\ reest' = "opening"
    /\ UNCHANGED <<brokerVars, mode, channel, pub, tag, pairs, taskVars,
                   history, bounds>>

\* Both channels are open and stored; the topology is still to be asserted.
OpenChannels ==
    /\ reest = "opening"
    /\ mode # "closed"
    /\ reest' = "consuming"
    /\ OpenPair
    /\ UNCHANGED <<ready, unacked, consuming, chanError, mode, tag, taskVars,
                   history, bounds>>

\* The broker has accepted the new consumer: deliveries may follow in the
\* same read, before reestablish runs on.
StartConsume ==
    /\ reest = "consuming"
    /\ ~chanError
    /\ reest' = "consumed"
    /\ consuming' = TRUE
    /\ UNCHANGED <<ready, unacked, live, chanError, tags, mode, channel, pub,
                   tag, pairs, taskVars, history, bounds>>

\* drainResolver, called after every removal from inFlight or the timers.
DrainCheck ==
    mode' = IF mode = "draining" /\ inFlight' = {} /\ timers' = {}
               THEN "closing"
               ELSE mode

ReestablishDone ==
    /\ reest = "consumed"
    /\ reest' = "idle"
    /\ tag' = channel
    /\ inFlight' = {}
    /\ UNCHANGED timers
    /\ DrainCheck
    /\ UNCHANGED <<brokerVars, channel, pub, pairs, running, dlqWait,
                   publishing, history, bounds>>

-----------------------------------------------------------------------------
(* handleMessage.                                                          *)

\* Mutant: the queue is consumed with noAck, the broker forgets on delivery.
DeliverNoAck(p) ==
    LET d == [ch |-> live, tag |-> tags + 1, pkt |-> p] IN
    /\ consuming
    /\ p \in ready
    /\ ready' = ready \ {p}
    /\ tags' = tags + 1
    /\ inFlight' = inFlight \cup {d}
    /\ running' = running \cup {d}
    /\ UNCHANGED <<unacked, live, consuming, chanError, linkVars, dlqWait,
                   timers, publishing, history, bounds>>

\* A delivery starts its handler, or, if it cannot be parsed, the publish to
\* the dead-letter exchange.
Deliver(p) ==
    LET d == [ch |-> live, tag |-> tags + 1, pkt |-> p] IN
    /\ consuming
    /\ p \in ready
    /\ Cardinality(unacked) < Prefetch
    /\ p.msg \in Malformed => pub # 0
    /\ ready' = ready \ {p}
    /\ unacked' = unacked \cup {d}
    /\ tags' = tags + 1
    /\ inFlight' = inFlight \cup {d}
    /\ IF p.msg \in Malformed
          THEN /\ dlqWait' = dlqWait \cup {[d |-> d, via |-> pub]}
               /\ UNCHANGED running
          ELSE /\ running' = running \cup {d}
               /\ UNCHANGED dlqWait
    /\ UNCHANGED <<live, consuming, chanError, linkVars, timers, publishing,
                   history, bounds>>

\* A message that cannot be parsed, without a publish channel (ClosePub, while reestablish
\* was on its way): publishParseFailureToDlq returns, and the message is acked.
AckUnparsed(p) ==
    LET d == [ch |-> live, tag |-> tags + 1, pkt |-> p] IN
    /\ consuming
    /\ p \in ready
    /\ Cardinality(unacked) < Prefetch
    /\ p.msg \in Malformed /\ pub = 0
    /\ ready' = ready \ {p}
    /\ unacked' = IF channel = live THEN unacked ELSE unacked \cup {d}
    /\ tags' = tags + 1
    /\ UNCHANGED <<live, consuming, chanError, linkVars, taskVars, history, bounds>>

\* The handler returns 'ack' or nothing.
HandlerAcks(d) ==
    /\ d \in running
    /\ running' = running \ {d}
    /\ handled' = handled \cup {d.pkt.msg}
    /\ Settle(d, FALSE)
    /\ inFlight' = inFlight \ {d}
    /\ UNCHANGED timers
    /\ DrainCheck
    /\ UNCHANGED <<live, tags, channel, pub, tag, reest, pairs, dlqWait,
                   publishing, dlq, failed, timedOut, bounds>>

\* The handler returns 'requeue'.
HandlerRequeues(d) ==
    /\ d \in running
    /\ requeues < MaxRequeues
    /\ requeues' = requeues + 1
    /\ running' = running \ {d}
    /\ Settle(d, TRUE)
    /\ inFlight' = inFlight \ {d}
    /\ UNCHANGED timers
    /\ DrainCheck
    /\ UNCHANGED <<live, tags, channel, pub, tag, reest, pairs, dlqWait,
                   publishing, history, losses, exits>>

\* Mutant: one retry too many.
HandlerFailsOnceMore(d) ==
    /\ d \in running
    /\ d.pkt.att <= MaxRetries
    /\ running' = running \ {d}
    /\ failed' = failed \cup {<<d.pkt.msg, d.pkt.att>>}
    /\ Settle(d, FALSE)
    /\ timers' = timers \cup {d}
    /\ inFlight' = inFlight \ {d}
    /\ DrainCheck
    /\ UNCHANGED <<live, tags, channel, pub, tag, reest, pairs, dlqWait,
                   publishing, dlq, handled, timedOut, bounds>>

\* Mutant: the original is put back in the queue as well as retried.
HandlerFailsRequeueing(d) ==
    /\ d \in running
    /\ d.pkt.att < MaxRetries
    /\ running' = running \ {d}
    /\ failed' = failed \cup {<<d.pkt.msg, d.pkt.att>>}
    /\ Settle(d, TRUE)
    /\ timers' = timers \cup {d}
    /\ inFlight' = inFlight \ {d}
    /\ DrainCheck
    /\ UNCHANGED <<live, tags, channel, pub, tag, reest, pairs, dlqWait,
                   publishing, dlq, handled, timedOut, bounds>>

\* Mutant: the original is not acked before its retry.
HandlerFailsWithoutAck(d) ==
    /\ d \in running
    /\ d.pkt.att < MaxRetries
    /\ running' = running \ {d}
    /\ failed' = failed \cup {<<d.pkt.msg, d.pkt.att>>}
    /\ UNCHANGED <<ready, unacked, consuming, chanError>>
    /\ timers' = timers \cup {d}
    /\ inFlight' = inFlight \ {d}
    /\ DrainCheck
    /\ UNCHANGED <<live, tags, channel, pub, tag, reest, pairs, dlqWait,
                   publishing, dlq, handled, timedOut, bounds>>

\* The handler throws or returns 'nack' and attempts are left: the original
\* is acked first, then the retry timer starts, then the token goes.
HandlerFails(d) ==
    /\ d \in running
    /\ d.pkt.att < MaxRetries
    /\ running' = running \ {d}
    /\ failed' = failed \cup {<<d.pkt.msg, d.pkt.att>>}
    /\ Settle(d, FALSE)
    /\ timers' = timers \cup {d}
    /\ inFlight' = inFlight \ {d}
    /\ DrainCheck
    /\ UNCHANGED <<live, tags, channel, pub, tag, reest, pairs, dlqWait,
                   publishing, dlq, handled, timedOut, bounds>>

\* Mutant: the original is acked before the dead letter is confirmed.
HandlerExhaustedAcksFirst(d) ==
    /\ d \in running
    /\ d.pkt.att >= MaxRetries
    /\ pub \in {0, live}
    /\ running' = running \ {d}
    /\ failed' = failed \cup {<<d.pkt.msg, d.pkt.att>>}
    /\ dlqWait' = dlqWait \cup {[d |-> d, via |-> pub]}
    /\ Settle(d, FALSE)
    /\ UNCHANGED <<inFlight, mode>>
    /\ UNCHANGED <<live, tags, channel, pub, tag, reest, pairs, timers,
                   publishing, dlq, handled, timedOut, bounds>>

\* Mutant: the message is dead-lettered one attempt early.
HandlerExhaustedEarly(d) ==
    /\ d \in running
    /\ d.pkt.att >= MaxRetries - 1
    /\ pub \in {0, live}
    /\ running' = running \ {d}
    /\ failed' = failed \cup {<<d.pkt.msg, d.pkt.att>>}
    /\ dlqWait' = dlqWait \cup {[d |-> d, via |-> pub]}
    /\ UNCHANGED <<ready, unacked, consuming, chanError, inFlight, mode>>
    /\ UNCHANGED <<live, tags, channel, pub, tag, reest, pairs, timers,
                   publishing, dlq, handled, timedOut, bounds>>

\* The handler fails for the last time: publishExhaustedToDlq sends and waits,
\* or, without a publish channel, returns as if it had.  A publish on a dead
\* channel throws out of handleMessage, see Dies.
HandlerExhausted(d) ==
    /\ d \in running
    /\ d.pkt.att >= MaxRetries
    /\ pub \in {0, live}
    /\ running' = running \ {d}
    /\ failed' = failed \cup {<<d.pkt.msg, d.pkt.att>>}
    /\ IF pub # 0
          THEN /\ dlqWait' = dlqWait \cup {[d |-> d, via |-> pub]}
               /\ UNCHANGED <<ready, unacked, consuming, chanError, inFlight,
                              timers, mode>>
          ELSE /\ Settle(d, FALSE)
               /\ inFlight' = inFlight \ {d}
               /\ UNCHANGED <<dlqWait, timers>>
               /\ DrainCheck
    /\ UNCHANGED <<live, tags, channel, pub, tag, reest, pairs, publishing,
                   dlq, handled, timedOut, bounds>>

\* waitForConfirms resolves: only now is the original acked.
DlqConfirmed(w) ==
    /\ w \in Confirmable
    /\ pub = w.via
    /\ dlqWait' = dlqWait \ {w}
    /\ dlq' = dlq \cup {w.d.pkt.msg}
    /\ Settle(w.d, FALSE)
    /\ inFlight' = inFlight \ {w.d}
    /\ UNCHANGED timers
    /\ DrainCheck
    /\ UNCHANGED <<live, tags, channel, pub, tag, reest, pairs, running,
                   publishing, handled, failed, timedOut, bounds>>

\* Mutant: the timer's callback does not call drainResolver.
RetryTimerFiresSilently(d) ==
    /\ d \in timers
    /\ timers' = timers \ {d}
    /\ publishing' = IF mode = "running" /\ pub = live /\ pub # 0
                        THEN publishing \cup {d}
                        ELSE publishing
    /\ UNCHANGED <<brokerVars, linkVars, running, dlqWait, inFlight, history,
                   bounds>>

\* The retry timer's callback.  While the consumer shuts down, or on a dead
\* publish channel, nothing is republished.
RetryTimerFires(d) ==
    /\ d \in timers
    /\ timers' = timers \ {d}
    /\ UNCHANGED inFlight
    /\ DrainCheck
    /\ publishing' = IF mode = "running" /\ pub = live /\ pub # 0
                        THEN publishing \cup {d}
                        ELSE publishing
    /\ UNCHANGED <<brokerVars, channel, pub, tag, reest, pairs, running,
                   dlqWait, history, bounds>>

RepublishArrives(d) ==
    /\ d \in publishing
    /\ publishing' = publishing \ {d}
    /\ ready' = ready \cup {Retry(d)}
    /\ UNCHANGED <<unacked, live, consuming, chanError, tags, linkVars,
                   running, dlqWait, inFlight, timers, history, bounds>>

-----------------------------------------------------------------------------
(* doShutdown.                                                             *)

\* cancel is awaited only where it can succeed: the held tag is the live one.
BeginShutdown ==
    /\ mode = "running"
    /\ mode' = IF tag = live THEN "cancelling"
               ELSE IF inFlight = {} /\ timers = {} THEN "closing"
               ELSE "draining"
    /\ UNCHANGED <<brokerVars, channel, pub, tag, reest, pairs, taskVars,
                   history, bounds>>

\* cancel resolves, or rejects after a loss; waitForDrain starts.
CancelDone ==
    /\ mode = "cancelling"
    /\ consuming' = FALSE
    /\ mode' = IF inFlight = {} /\ timers = {} THEN "closing" ELSE "draining"
    /\ UNCHANGED <<ready, unacked, live, chanError, tags, channel, pub, tag,
                   reest, pairs, taskVars, history, bounds>>

\* Mutant: the timeout clears the timers and does not resolve the drain.
DrainTimeoutUnresolved ==
    /\ mode = "draining"
    /\ ~timedOut
    /\ timers' = {}
    /\ timedOut' = TRUE
    /\ UNCHANGED <<brokerVars, linkVars, running, dlqWait, inFlight,
                   publishing, dlq, handled, failed, bounds>>

DrainTimeout ==
    /\ mode = "draining"
    /\ mode' = "closing"
    /\ timers' = {}
    /\ timedOut' = TRUE
    /\ UNCHANGED <<brokerVars, channel, pub, tag, reest, pairs, running,
                   dlqWait, inFlight, publishing, dlq, handled, failed, bounds>>

\* channel.close: the broker takes back what was not acked, and a pending
\* call of reestablish on this channel rejects.
CloseChannel ==
    /\ mode = "closing"
    /\ mode' = "closingPub"
    /\ channel' = 0
    /\ IF channel = live
          THEN /\ ready' = ready \cup Packets(unacked)
               /\ unacked' = {}
               /\ consuming' = FALSE
               /\ chanError' = FALSE
          ELSE UNCHANGED <<ready, unacked, consuming, chanError>>
    /\ reest' = IF reest = "consuming" THEN "idle" ELSE reest
    /\ UNCHANGED <<live, tags, pub, tag, pairs, taskVars, history, bounds>>

\* publishChannel.close: the broker has processed what was published on it
\* before; a confirm still awaited does not come.
ClosePub ==
    /\ mode = "closingPub"
    /\ publishing = {}
    /\ mode' = "closingConn"
    /\ pub' = 0
    /\ dlq' = dlq \cup {w.d.pkt.msg : w \in {x \in Confirmable : x.via = pub}}
    /\ UNCHANGED <<brokerVars, channel, tag, reest, pairs, taskVars, handled,
                   failed, timedOut, bounds>>

CloseConn ==
    /\ mode = "closingConn"
    /\ mode' = "closed"
    /\ LinkGone({}, Confirmable)
    /\ reest' = IF reest = "consumed" THEN reest ELSE "idle"
    /\ UNCHANGED <<channel, pub, tag, pairs, running, dlqWait, inFlight,
                   timers, handled, failed, timedOut, bounds>>

-----------------------------------------------------------------------------
(* Failures.                                                               *)

\* Mutant: reestablishing is not reset when reestablish fails.
LoseKeepsReestablishing(arrived, stored) ==
    /\ live # 0
    /\ chanError \/ losses < MaxLosses
    /\ losses' = IF chanError THEN losses ELSE losses + 1
    /\ LinkGone(arrived, stored)
    /\ reest' = IF reest = "consuming" THEN "failed" ELSE reest
    /\ UNCHANGED <<mode, channel, pub, tag, pairs, running, dlqWait, inFlight,
                   timers, handled, failed, timedOut, exits, requeues>>

\* The connection is lost, by the network or because the unhandled channel
\* error takes it down.  reestablish's pending call rejects, unless it has
\* been answered already.
Lose(arrived, stored) ==
    /\ live # 0
    /\ chanError \/ losses < MaxLosses
    /\ losses' = IF chanError THEN losses ELSE losses + 1
    /\ LinkGone(arrived, stored)
    /\ reest' = IF reest = "consumed" THEN reest ELSE "idle"
    /\ UNCHANGED <<mode, channel, pub, tag, pairs, running, dlqWait, inFlight,
                   timers, handled, failed, timedOut, exits, requeues>>

\* The process ends: killed, after its shutdown, or by the unhandled rejection
\* of a publish on a dead channel or of a confirm that was lost.
Dies(arrived, stored) ==
    /\ mode # "off"
    /\ exits < MaxExits
    /\ exits' = exits + 1
    /\ mode' = "off"
    /\ LinkGone(arrived, stored)
    /\ channel' = 0 /\ pub' = 0 /\ tag' = 0
    /\ reest' = "idle"
    /\ running' = {} /\ dlqWait' = {} /\ inFlight' = {} /\ timers' = {}
    /\ timedOut' = FALSE
    /\ UNCHANGED <<pairs, handled, failed, losses, requeues>>

Next ==
    \/ Consume \/ Reconnect \/ OpenChannels \/ StartConsume \/ ReestablishDone
    \/ \E p \in ready : Deliver(p) \/ AckUnparsed(p)
    \/ \E d \in running : \/ HandlerAcks(d) \/ HandlerRequeues(d)
                          \/ HandlerFails(d) \/ HandlerExhausted(d)
    \/ \E w \in dlqWait : DlqConfirmed(w)
    \/ \E d \in timers : RetryTimerFires(d)
    \/ \E d \in publishing : RepublishArrives(d)
    \/ BeginShutdown \/ CancelDone \/ DrainTimeout
    \/ CloseChannel \/ ClosePub \/ CloseConn
    \/ \E arrived \in SUBSET publishing, stored \in SUBSET Confirmable :
          Lose(arrived, stored) \/ Dies(arrived, stored)

Spec == Init /\ [][Next]_vars

\* Handlers are bounded by the bridge's request timeout, timers fire, the
\* broker delivers and answers, and a lost connection is dialled again until
\* it is back (OutageEnds of AmqpConnection).  Nothing forces a fault.
Fairness ==
    /\ WF_vars(Consume)
    /\ WF_vars(Reconnect)
    /\ WF_vars(OpenChannels)
    /\ WF_vars(StartConsume)
    /\ WF_vars(ReestablishDone)
    /\ WF_vars(\E p \in ready : Deliver(p) \/ AckUnparsed(p))
    /\ WF_vars(\E d \in running : HandlerAcks(d) \/ HandlerFails(d)
                                     \/ HandlerExhausted(d))
    /\ WF_vars(\E w \in dlqWait : DlqConfirmed(w))
    /\ WF_vars(\E d \in timers : RetryTimerFires(d))
    /\ WF_vars(\E d \in publishing : RepublishArrives(d))
    /\ WF_vars(CancelDone)
    /\ WF_vars(DrainTimeout)
    /\ WF_vars(CloseChannel)
    /\ WF_vars(ClosePub)
    /\ WF_vars(CloseConn)
    /\ WF_vars(chanError /\ Lose({}, {}))

FairSpec == Spec /\ Fairness

-----------------------------------------------------------------------------
(* Properties.                                                             *)

\* Nothing has gone wrong yet and nobody has asked for a shutdown.
Stable == losses = 0 /\ exits = 0 /\ mode = "running"

AtBroker(m) ==
    \/ \E p \in ready : p.msg = m
    \/ \E u \in unacked : u.pkt.msg = m

\* The message is past its last handler.
Settled(m) == m \in handled \/ m \in dlq

InRetry(m) == \E d \in timers \cup publishing : d.pkt.msg = m

\* On a stable connection no message disappears: each is with the broker, on
\* its way back to it by the retry timer, or settled.  handleMessage acks in
\* three places and each must leave the message somewhere.
NothingLostWhileStable ==
    Stable => \A m \in Msgs : AtBroker(m) \/ InRetry(m) \/ Settled(m)

\* A message none of whose handlers has failed survives kills and restarts of
\* the process: it is acked only after a success or a confirmed dead letter.
UnfailedSurvivesExit ==
    losses = 0 =>
        \A m \in Msgs : (\A a \in Attempts : <<m, a>> \notin failed)
                            => AtBroker(m) \/ Settled(m)

\* A well-formed message is dead-lettered only after each of its maxRetries
\* attempts has failed, whatever is lost, redelivered or acked by mistake.
DeadLetterAfterAllAttempts ==
    \A m \in dlq \ Malformed : \A a \in Attempts : <<m, a>> \in failed

\* On a stable connection a message is never both handled and dead-lettered.
OneFateWhileStable == Stable => handled \cap dlq = {}

\* The drain never waits for nothing: as soon as the last token and the last
\* timer are gone the shutdown goes on (no removal misses drainResolver).
DrainNeverMissed == mode = "draining" => (inFlight # {} \/ timers # {})

\* README of the package, on shutdown: it "waits ... for in-flight handlers".
\* A drain that was not cut short leaves no handler behind, provided the
\* connection held (reestablish clears the tokens of running handlers).
DrainWaitsForHandlers ==
    (losses = 0 /\ ~timedOut /\ mode \in Shutdown \ {"cancelling", "draining"})
        => (running = {} /\ dlqWait = {})

\* A shutdown comes to its end, or the process dies first.
ShutdownEnds == mode = "cancelling" ~> mode \in {"closed", "off"}

\* A running consumer that has lost its subscription gets it back (or the
\* bound on channel pairs is used up).
ConsumptionResumes ==
    (mode = "running" /\ ~consuming)
        ~> (consuming \/ mode # "running" \/ pairs = MaxPairs)

\* On a connection that stays stable every message is settled: no delivery
\* keeps its prefetch slot for ever and no retry is forgotten.
EventuallySettled ==
    (mode = "running") ~> (~Stable \/ \A m \in Msgs : Settled(m))

\* The comment in reestablish: "Stale in-flight handlers' acks on the dead
\* channel will no-op; broker will redeliver."  So no ack but its own may
\* settle the delivery of a handler that is still running on the live channel.
RunningIsUnacked ==
    \A d \in running :
        (d.ch = live /\ channel = live) => d \in unacked

\* README of the package: the shutdown waits for "pending retry timers to
\* drain", and on the retry path "the message is republished".  After a drain
\* that was not cut short, on a connection that held, nothing may be lost.
RetriesSurviveDrain ==
    (losses = 0 /\ exits = 0 /\ ~timedOut /\ mode = "closed")
        => \A m \in Msgs : AtBroker(m) \/ Settled(m)
=============================================================================
