----------------------------- MODULE EventProcess -----------------------------
(***************************************************************************)
(* event-process: the events that the providers report, counted once.      *)
(* A message of the queue is bridged to an HTTP call of the same service,  *)
(* and processWithIdempotency lets one call at a time process a content:   *)
(* it takes a lock in Redis that expires after 60 seconds, and leaves a    *)
(* marker when it is done.  The bridge gives up after 30 seconds; then the *)
(* message is retried and the call goes on.                                *)
(*                                                                         *)
(* What processing means depends on the kind of the events:                *)
(*   "mail"    events of mail providers: those seen in the last ten        *)
(*             minutes are filtered out, contacts and logs are written,    *)
(*             and the statistics are counted;                             *)
(*   "twilio"  (push, too) contacts and logs first, statistics last;       *)
(*   "cloud"   WhatsApp Cloud: the statistics first, the logs last.        *)
(***************************************************************************)
EXTENDS Naturals

CONSTANTS
    Messages, Events,
    Loads,       \* what the messages may carry: the kind and the events of each
    MaxAttempts, \* deliveries of a message before it is dead-lettered
    Free,        \* the lock of a content when there is none
    MaxMishaps   \* bound on timeouts, crashes, failed writes and calls slower than the lock

Tokens == Messages \X (1..MaxAttempts)
Contents == [kind : {"mail", "twilio", "cloud"}, events : SUBSET Events]

ASSUME EventProcessAssumption ==
    /\ Loads \subseteq [Messages -> Contents]
    \* an event comes from one provider
    /\ \A l \in Loads : \A m, n \in Messages :
          l[m].events \cap l[n].events # {} => l[m].kind = l[n].kind
    /\ MaxAttempts \in Nat \ {0} /\ MaxMishaps \in Nat
    /\ Free \notin Tokens

Steps == {"check", "lock", "recheck", "begin", "effects", "count", "mark", "release"}
Calls == [message : Messages, attempt : 1..MaxAttempts, at : Steps, fresh : SUBSET Events, ok : BOOLEAN]

VARIABLES
    load,      \* what each message carries
    message,   \* where each message is, and which attempt it is at
    calls,     \* HTTP calls the service works on
    lock,      \* Redis: the token under processing_lock:<hash of the content>
    processed, \* Redis: contents with a marker
    seen,      \* Redis: events of mail providers that were seen
    count,     \* Redis: what an event adds to its counter
    mishaps,
    outlived,  \* (history) tokens whose lock expired while their call went on
    again,     \* (history) calls of a content that began to process it and left no marker
    dropped    \* (history) contents a call passed over, for the lock or for its events

vars == <<load, message, calls, lock, processed, seen, count, mishaps, outlived, again, dropped>>
broker == <<message>>
redis == <<lock, processed, seen, count>>
history == <<outlived, again, dropped>>

Init ==
    /\ load \in Loads
    /\ message = [m \in Messages |-> [at |-> "queue", attempt |-> 1]]
    /\ calls = {}
    /\ lock = [k \in Contents |-> Free]
    /\ processed = {} /\ seen = {}
    /\ count = [e \in Events |-> 0]
    /\ mishaps = 0
    /\ outlived = {} /\ dropped = {}
    /\ again = [k \in Contents |-> 0]

Content(c) == load[c.message]
Token(c) == <<c.message, c.attempt>>
Mail(c) == Content(c).kind = "mail"
CountsFirst(c) == Content(c).kind = "cloud"
Processing == {"begin", "effects", "count", "mark"}
UnderLock == Processing \cup {"recheck", "release"}

Mishap == mishaps < MaxMishaps /\ mishaps' = mishaps + 1
At(c, step) == c \in calls /\ c.at = step
Moves(c, step, fresh, ok) ==
    calls' = (calls \ {c}) \cup {[message |-> c.message, attempt |-> c.attempt,
                                 at |-> step, fresh |-> fresh, ok |-> ok]}
Goes(c, step) == Moves(c, step, c.fresh, c.ok)

(***************************************************************************)
(* The bridge.                                                             *)
(***************************************************************************)

Deliver(m) ==
    /\ message[m].at = "queue"
    /\ message' = [message EXCEPT ![m].at = "bridge"]
    /\ calls' = calls \cup {[message |-> m, attempt |-> message[m].attempt, at |-> "check",
                            fresh |-> {}, ok |-> TRUE]}
    /\ UNCHANGED <<load, redis, mishaps, history>>

Nacked(s) == IF s.attempt < MaxAttempts THEN [at |-> "queue", attempt |-> s.attempt + 1]
             ELSE [s EXCEPT !.at = "dead"]

Answer(c, ok) ==
    /\ calls' = calls \ {c}
    /\ message' = IF message[c.message] # [at |-> "bridge", attempt |-> c.attempt] THEN message
                  ELSE [message EXCEPT ![c.message] = IF ok THEN [@ EXCEPT !.at = "acked"] ELSE Nacked(@)]

\* The bridge's 30 seconds are over.
TimesOut(m) ==
    /\ message[m].at = "bridge"
    /\ Mishap
    /\ message' = [message EXCEPT ![m] = Nacked(@)]
    /\ UNCHANGED <<load, calls, redis, history>>

\* The service dies with its calls; Redis keeps their locks, and the broker delivers
\* their messages again.
Crash ==
    /\ Mishap
    /\ calls # {}
    /\ calls' = {} /\ outlived' = {}
    /\ message' = [m \in Messages |-> IF message[m].at = "bridge" THEN [message[m] EXCEPT !.at = "queue"]
                                      ELSE message[m]]
    /\ again' = [k \in Contents |-> IF \E c \in calls : Content(c) = k /\ c.at \in Processing
                                    THEN again[k] + 1 ELSE again[k]]
    /\ UNCHANGED <<load, redis, dropped>>

(***************************************************************************)
(* processWithIdempotency.                                                 *)
(***************************************************************************)

IsProcessed(c) ==
    /\ At(c, "check")
    /\ IF Content(c) \in processed THEN Answer(c, TRUE)
       ELSE Goes(c, "lock") /\ UNCHANGED broker
    /\ UNCHANGED <<load, redis, mishaps, history>>

\* Whoever does not get the lock passes the content over, and its message is done with.
AcquireLock(c) ==
    /\ At(c, "lock")
    /\ IF lock[Content(c)] = Free
       THEN /\ lock' = [lock EXCEPT ![Content(c)] = Token(c)]
            /\ Goes(c, "recheck")
            /\ UNCHANGED <<broker, dropped>>
       ELSE /\ Answer(c, TRUE)
            /\ dropped' = dropped \cup {Content(c)}
            /\ UNCHANGED lock
    /\ UNCHANGED <<load, processed, seen, count, mishaps, outlived, again>>

\* (mutant) whoever has the lock need not look again
TrustsFirstCheck(c) ==
    /\ At(c, "recheck")
    /\ Goes(c, "begin")
    /\ UNCHANGED <<load, broker, redis, mishaps, history>>

IsProcessedAfterLock(c) ==
    /\ At(c, "recheck")
    /\ Goes(c, IF Content(c) \in processed THEN "release" ELSE "begin")
    /\ UNCHANGED <<load, broker, redis, mishaps, history>>

CountEvents(events) == count' = [e \in Events |-> IF e \in events THEN count[e] + 1 ELSE count[e]]

\* (mutant) an event is seen when it is there, and is put there in any case
SeenButKept(c) ==
    /\ At(c, "begin")
    /\ IF CountsFirst(c) THEN CountEvents(Content(c).events) ELSE UNCHANGED count
    /\ seen' = IF Mail(c) THEN seen \cup Content(c).events ELSE seen
    /\ dropped' = dropped
    /\ Moves(c, "effects", Content(c).events, c.ok)
    /\ UNCHANGED <<load, broker, lock, processed, mishaps, outlived, again>>

\* The processor begins.  filterDuplicateEvents marks the events of a mail provider
\* as seen before anything is done with them.
Begin(c) ==
    /\ At(c, "begin")
    /\ LET fresh == IF Mail(c) THEN Content(c).events \ seen ELSE Content(c).events
       IN  /\ seen' = IF Mail(c) THEN seen \cup fresh ELSE seen
           /\ IF CountsFirst(c) THEN CountEvents(fresh) ELSE UNCHANGED count
           /\ dropped' = IF fresh = Content(c).events THEN dropped ELSE dropped \cup {Content(c)}
           /\ Moves(c, IF fresh = {} THEN "mark" ELSE "effects", fresh, c.ok)
    /\ UNCHANGED <<load, broker, lock, processed, mishaps, outlived, again>>

\* Contacts, logs and messages to others are written.
Effects(c) ==
    /\ At(c, "effects")
    /\ Goes(c, IF CountsFirst(c) THEN "mark" ELSE "count")
    /\ UNCHANGED <<load, broker, redis, mishaps, history>>

Count(c) ==
    /\ At(c, "count")
    /\ CountEvents(c.fresh)
    /\ Goes(c, "mark")
    /\ UNCHANGED <<load, broker, lock, processed, seen, mishaps, history>>

\* (mutant) the marker is left in any case
FailsMarked(c) ==
    /\ c \in calls /\ c.at \in {"begin", "effects"}
    /\ Mishap
    /\ Moves(c, "release", c.fresh, FALSE)
    /\ processed' = processed \cup {Content(c)}
    /\ again' = [again EXCEPT ![Content(c)] = @ + 1]
    /\ UNCHANGED <<load, broker, lock, seen, count, outlived, dropped>>

\* PostgreSQL or a publisher fails, before the events are filtered or after.
Fails(c) ==
    /\ c \in calls /\ c.at \in {"begin", "effects"}
    /\ Mishap
    /\ Moves(c, "release", c.fresh, FALSE)
    /\ again' = [again EXCEPT ![Content(c)] = @ + 1]
    /\ UNCHANGED <<load, broker, redis, outlived, dropped>>

Mark(c) ==
    /\ At(c, "mark")
    /\ processed' = processed \cup {Content(c)}
    /\ Goes(c, "release")
    /\ UNCHANGED <<load, broker, lock, seen, count, mishaps, history>>

\* (mutant) the lock is deleted, whoever holds it
ReleaseAnyLock(c) ==
    /\ At(c, "release")
    /\ lock' = [lock EXCEPT ![Content(c)] = Free]
    /\ Answer(c, c.ok)
    /\ outlived' = outlived \ {Token(c)}
    /\ UNCHANGED <<load, processed, seen, count, mishaps, again, dropped>>

\* Compare and delete, in one script.
ReleaseLock(c) ==
    /\ At(c, "release")
    /\ lock' = IF lock[Content(c)] = Token(c) THEN [lock EXCEPT ![Content(c)] = Free] ELSE lock
    /\ Answer(c, c.ok)
    /\ outlived' = outlived \ {Token(c)}
    /\ UNCHANGED <<load, processed, seen, count, mishaps, again, dropped>>

\* A lock expires: nobody is left to release it, or its call is slow.
LockExpires(k) ==
    /\ lock[k] # Free
    /\ lock' = [lock EXCEPT ![k] = Free]
    /\ LET slow == {c \in calls : c.at \in UnderLock /\ Token(c) = lock[k]}
       IN  IF slow = {} THEN UNCHANGED <<mishaps, outlived, again>>
           ELSE /\ Mishap
                /\ outlived' = outlived \cup {lock[k]}
                /\ again' = [again EXCEPT ![k] = @ + 1]
    /\ UNCHANGED <<load, broker, calls, processed, seen, count, dropped>>

Work(c) == \/ IsProcessed(c) \/ AcquireLock(c) \/ IsProcessedAfterLock(c) \/ Begin(c)
           \/ Effects(c) \/ Count(c) \/ Mark(c) \/ ReleaseLock(c)

Working == (\E m \in Messages : Deliver(m)) \/ (\E c \in calls : Work(c))
Expiry == \E k \in Contents : LockExpires(k)
Trouble == (\E m \in Messages : TimesOut(m)) \/ Crash \/ (\E c \in calls : Fails(c))

Next == Working \/ Expiry \/ Trouble

Spec == Init /\ [][Next]_vars

\* The broker delivers, a call goes on, and a lock has its time to live.
FairSpec == Spec /\ WF_vars(Working) /\ WF_vars(Expiry)

(***************************************************************************)
(* Properties.                                                             *)
(***************************************************************************)

TypeOK ==
    /\ load \in Loads
    /\ message \in [Messages -> [at : {"queue", "bridge", "acked", "dead"}, attempt : 1..MaxAttempts]]
    /\ calls \subseteq Calls /\ \A c \in calls : c.fresh \subseteq Content(c).events
    /\ lock \in [Contents -> Tokens \cup {Free}]
    /\ processed \subseteq Contents /\ seen \subseteq Events
    /\ count \in [Events -> Nat]
    /\ mishaps \in 0..MaxMishaps
    /\ outlived \subseteq Tokens /\ dropped \subseteq Contents
    /\ again \in [Contents -> Nat]

\* A call that is past the lock holds it, unless it was slower than the lock: nobody
\* else can release it, and two calls process the same content only when one of them
\* has outlived its lock.
HoldsItsLock ==
    \A c \in calls :
        c.at \in UnderLock /\ Token(c) \notin outlived => lock[Content(c)] = Token(c)

\* An event of a mail provider is counted once, however often and in whatever
\* batches it comes, and whatever happens to the calls that process them.
MailCountedOnce == \A m \in Messages, e \in Events : load[m].kind = "mail" /\ e \in load[m].events => count[e] <= 1

\* All batches with an event are repetitions of one.
OneContent(e) == \A m, n \in Messages : e \in load[m].events \cap load[n].events => load[m] = load[n]

\* Any other event, which comes in one content only, is counted once, and once more at
\* most for every call that began to process it and failed, crashed or was slower than
\* the lock.
CountedOncePerFailure ==
    \A m \in Messages : \A e \in load[m].events :
        load[m].kind # "mail" /\ OneContent(e) => count[e] <= 1 + again[load[m]]

\* The message of an event is acknowledged only when the event has been counted,
\* unless a call has passed the content over: somebody else had the lock, or the
\* event had been seen.
AckedIsCounted ==
    \A m \in Messages : \A e \in load[m].events :
        message[m].at = "acked" => count[e] >= 1 \/ load[m] \in dropped

\* Every message is settled in the end, and no lock is left behind.
Settles ==
    /\ \A m \in Messages : <>[](message[m].at \in {"acked", "dead"})
    /\ \A k \in Contents : <>[](lock[k] = Free)

\* Retried deliveries hit the marker and do not process an event again.
RetriesAreNotCounted == \A e \in Events : count[e] <= 1
=============================================================================
