---------------------------- MODULE WhatsappStatus ----------------------------
(***************************************************************************)
(* The statuses that Meta reports for one WhatsApp message, from its       *)
(* webhook in msgops-api to the counters of event-process.                 *)
(*                                                                         *)
(* A delivery of Meta carries several statuses and replies, which are      *)
(* applied one after the other.  A key in Redis holds off a second         *)
(* delivery of the same body for five minutes; a key per status, written   *)
(* after the rows, holds off a status for a day.  The row that a status    *)
(* belongs to is inserted by a consumer of the same service when           *)
(* send-whatsapp reports the send, and may be later than the status.       *)
(* Meta delivers again what is answered with an error or not in time.      *)
(*                                                                         *)
(* event-process takes the events as EventProcess has it: one call at a    *)
(* time under a lock that expires, the counters before the logs, a marker  *)
(* when it is done; its message comes again after a failure, a timeout or  *)
(* a crash.                                                                *)
(***************************************************************************)
EXTENDS Naturals, Sequences

CONSTANTS
    Bodies,      \* the bodies that Meta delivers
    Items,       \* Items[b]: the statuses and replies in a body, in the order they are applied
    MaxPosts,    \* deliveries of a body before Meta gives up
    MaxMishaps   \* bound on failed writes and publications, timeouts, crashes and redeliveries

Verbs == {"sent", "delivered", "read", "failed"}
Reply == "inbound"
Reports == Verbs \cup {Reply}

ASSUME WhatsappStatusAssumption ==
    /\ Items \in [Bodies -> Seq(Reports)]
    /\ \A b \in Bodies : Items[b] # << >>
    /\ MaxPosts \in Nat \ {0} /\ MaxMishaps \in Nat

Steps == {"dedup", "status", "find", "row", "contact", "key", "publish", "release"}
Requests == [body : Bodies, post : 1..MaxPosts, item : Nat, at : Steps]
Calls == [report : Verbs, known : BOOLEAN, token : Nat \ {0}, at : {"count", "log"},
          awaited : BOOLEAN]
Free == 0

VARIABLES
    row,        \* whether the send of the message has its row
    copies,     \* messages that ask for the row, in the queue of the persister
    stored,     \* statuses written to the row, and replies inserted
    mirrored,   \* statuses written to the contact
    bodyKeys,   \* Redis: bodies held off
    statusKeys, \* Redis: statuses held off
    requests,   \* deliveries that the service works on
    post,       \* Meta: what becomes of a body, and how often it was delivered
    queue,      \* events on their way to event-process: with the send they belong to, or plain
    calls,      \* calls of event-process that are past the lock
    lock,       \* Redis: processing_lock of a status, with the token of its call
    tokens,     \* how many tokens were drawn for the lock of a status
    markers,    \* Redis: events that event-process has processed
    count,      \* Redis: what event-process has added to the counter of a status
    mishaps,
    published,   \* (history) how often an event was published
    unknown,     \* (history) statuses of a body that found no row
    premature,   \* (history) bodies whose key was there while their work was not done
    unpublished, \* (history) statuses whose event failed to be published
    plainFirst,  \* (history) events of which a plain one was processed
    again,       \* (history) calls of event-process that lost the lock and had left no marker
    dropped      \* (history) events that met a lock, or whose retries were used up

rows == <<row, copies, stored, mirrored>>
keys == <<bodyKeys, statusKeys>>
working == <<calls, lock, tokens, markers, count>>
processing == <<plainFirst, again, dropped>>
events == <<queue, working>>
history == <<published, unknown, premature, unpublished, processing>>
vars == <<rows, keys, requests, post, events, mishaps, history>>

Events == Verbs \X BOOLEAN
None == [e \in Events |-> 0]

Init ==
    /\ row = FALSE /\ copies \in {0, 1}
    /\ stored = {} /\ mirrored = {}
    /\ bodyKeys = {} /\ statusKeys = {}
    /\ requests = {}
    /\ post = [b \in Bodies |-> [at |-> "due", times |-> 0]]
    /\ queue = None /\ calls = {} /\ markers = {} /\ count = [v \in Verbs |-> 0]
    /\ lock = [v \in Verbs |-> Free] /\ tokens = [v \in Verbs |-> 0]
    /\ mishaps = 0
    /\ published = [v \in Reports |-> 0]
    /\ unknown = {} /\ premature = {} /\ unpublished = {} /\ plainFirst = {}
    /\ again = [v \in Verbs |-> 0] /\ dropped = {}

Mishap == mishaps < MaxMishaps /\ mishaps' = mishaps + 1
At(r, step) == r \in requests /\ r.at = step
Report(r) == Items[r.body][r.item]

(***************************************************************************)
(* Meta.                                                                   *)
(***************************************************************************)

DueAgain(p) == [p EXCEPT !.at = IF p.times < MaxPosts THEN "due" ELSE "stopped"]

Post(b) ==
    /\ post[b].at = "due"
    /\ post' = [post EXCEPT ![b] = [at |-> "waiting", times |-> @.times + 1]]
    /\ requests' = requests \cup {[body |-> b, post |-> post[b].times + 1, item |-> 1, at |-> "dedup"]}
    /\ UNCHANGED <<rows, keys, events, mishaps, history>>

MetaTimesOut(b) ==
    /\ post[b].at = "waiting"
    /\ Mishap
    /\ post' = [post EXCEPT ![b] = DueAgain(@)]
    /\ UNCHANGED <<rows, keys, requests, events, history>>

Answer(r, ok) ==
    /\ requests' = requests \ {r}
    /\ post' = IF post[r.body] # [at |-> "waiting", times |-> r.post] THEN post
               ELSE [post EXCEPT ![r.body] = IF ok THEN [@ EXCEPT !.at = "answered"] ELSE DueAgain(@)]

(***************************************************************************)
(* The webhook.                                                            *)
(***************************************************************************)

\* The steps that a report takes, in their order.
Path(v) ==
    IF v = Reply THEN <<"row", "publish">>
    ELSE IF v = "sent" THEN <<"status", "find", "contact", "key", "publish">>
    ELSE <<"status", "find", "row", "contact", "key", "publish">>

Goes(r, step) == requests' = (requests \ {r}) \cup {[r EXCEPT !.at = step]} /\ UNCHANGED post

NextReport(r) ==
    IF r.item < Len(Items[r.body])
    THEN /\ requests' = (requests \ {r}) \cup
               {[body |-> r.body, post |-> r.post, item |-> r.item + 1,
                 at |-> Head(Path(Items[r.body][r.item + 1]))]}
         /\ UNCHANGED post
    ELSE Answer(r, TRUE)

\* isDuplicate: the key is taken before anything is done.
IsDuplicate(r) ==
    /\ At(r, "dedup")
    /\ IF r.body \in bodyKeys
       THEN /\ Answer(r, TRUE)
            /\ premature' = IF \E o \in requests \ {r} : o.body = r.body /\ o.at # "dedup"
                            THEN premature \cup {r.body} ELSE premature
            /\ UNCHANGED bodyKeys
       ELSE /\ bodyKeys' = bodyKeys \cup {r.body}
            /\ Goes(r, Head(Path(Report(r))))
            /\ UNCHANGED premature
    /\ UNCHANGED <<rows, statusKeys, events, mishaps, published, unknown, unpublished, processing>>

\* Five minutes are over, which is more than a request takes.
BodyKeyExpires(b) ==
    /\ b \in bodyKeys
    /\ \A r \in requests : r.body # b
    /\ bodyKeys' = bodyKeys \ {b}
    /\ UNCHANGED <<rows, statusKeys, requests, post, events, mishaps, history>>

IsStatusKeySet(r) ==
    /\ At(r, "status")
    /\ IF Report(r) \in statusKeys THEN NextReport(r) ELSE Goes(r, "find")
    /\ UNCHANGED <<rows, keys, events, mishaps, history>>

\* The event of a reply belongs to no campaign: event-process counts nothing of it, and
\* it is left out.
Publish(v, known) ==
    /\ queue' = IF v = Reply THEN queue ELSE [queue EXCEPT ![<<v, known>>] = @ + 1]
    /\ published' = [published EXCEPT ![v] = @ + 1]

\* A status without a row gets no key; its event is published without the send.
FindSend(r) ==
    /\ At(r, "find")
    /\ IF row THEN /\ Goes(r, IF Report(r) = "sent" THEN "contact" ELSE "row")
                   /\ UNCHANGED <<queue, published, unknown>>
       ELSE /\ NextReport(r)
            /\ Publish(Report(r), FALSE)
            /\ unknown' = unknown \cup {<<r.body, Report(r)>>}
    /\ UNCHANGED <<rows, keys, working, mishaps, premature, unpublished, processing>>

\* (mutant) the key first: nobody else shall write the same
UpdateRowAfterKey(r) ==
    /\ At(r, "row")
    /\ statusKeys' = IF Report(r) = Reply THEN statusKeys ELSE statusKeys \cup {Report(r)}
    /\ stored' = stored \cup {Report(r)}
    /\ Goes(r, IF Report(r) = Reply THEN "publish" ELSE "contact")
    /\ UNCHANGED <<row, copies, mirrored, bodyKeys, events, mishaps, history>>

\* The row of the send is updated; a reply is inserted unless it is there.
UpdateRow(r) ==
    /\ At(r, "row")
    /\ stored' = stored \cup {Report(r)}
    /\ Goes(r, IF Report(r) = Reply THEN "publish" ELSE "contact")
    /\ UNCHANGED <<row, copies, mirrored, keys, events, mishaps, history>>

\* The contact of a failed message is written when the error says that the number has
\* no WhatsApp, which is taken to be so here.
UpdateContact(r) ==
    /\ At(r, "contact")
    /\ mirrored' = mirrored \cup {Report(r)}
    /\ Goes(r, "key")
    /\ UNCHANGED <<row, copies, stored, keys, events, mishaps, history>>

SetStatusKey(r) ==
    /\ At(r, "key")
    /\ statusKeys' = statusKeys \cup {Report(r)}
    /\ Goes(r, "publish")
    /\ UNCHANGED <<rows, bodyKeys, events, mishaps, history>>

\* A publication that fails is logged, no more.
PublishEvent(r) ==
    /\ At(r, "publish")
    /\ NextReport(r)
    /\ \/ Publish(Report(r), TRUE) /\ UNCHANGED <<mishaps, unpublished>>
       \/ /\ Mishap
          /\ unpublished' = unpublished \cup {Report(r)}
          /\ UNCHANGED <<queue, published>>
    /\ UNCHANGED <<rows, keys, working, unknown, premature, processing>>

\* PostgreSQL fails.
Fails(r) ==
    /\ r \in requests /\ r.at \in {"find", "row", "contact"}
    /\ Mishap
    /\ Goes(r, "release")
    /\ UNCHANGED <<rows, keys, events, history>>

\* (mutant) the failure is answered, and the key stays
KeepsKey(r) ==
    /\ At(r, "release")
    /\ Answer(r, FALSE)
    /\ UNCHANGED <<rows, keys, events, mishaps, history>>

\* The failure is answered with an error, and the body may come again.
ReleaseDedupKey(r) ==
    /\ At(r, "release")
    /\ bodyKeys' = bodyKeys \ {r.body}
    /\ Answer(r, FALSE)
    /\ UNCHANGED <<rows, statusKeys, events, mishaps, history>>

\* The service dies; the body keys of its requests stay.
Crash ==
    /\ Mishap
    /\ requests # {}
    /\ requests' = {}
    /\ post' = [b \in Bodies |-> IF post[b].at = "waiting" THEN DueAgain(post[b]) ELSE post[b]]
    /\ premature' = premature \cup {r.body : r \in requests}
    /\ unpublished' = unpublished \cup {Report(r) : r \in {q \in requests : q.at = "publish"}}
    /\ UNCHANGED <<rows, keys, events, published, unknown, processing>>

(***************************************************************************)
(* The persister of sends, and event-process.                              *)
(***************************************************************************)

\* INSERT ... ON CONFLICT DO NOTHING; the message comes again when it is not acknowledged.
Persist ==
    /\ copies > 0
    /\ row' = TRUE
    /\ \/ copies' = copies - 1 /\ UNCHANGED mishaps
       \/ copies' = copies /\ Mishap
    /\ UNCHANGED <<stored, mirrored, keys, requests, post, events, history>>

\* The insert fails in every attempt.
PersistFails ==
    /\ copies > 0
    /\ Mishap
    /\ copies' = copies - 1
    /\ UNCHANGED <<row, stored, mirrored, keys, requests, post, events, history>>

Put(e) == [queue EXCEPT ![e] = @ + 1]
Take(e) == [queue EXCEPT ![e] = @ - 1]

\* The call of event-process that holds the lock of a status.
Holds(c) == lock[c.report] = c.token

\* processWithIdempotency finds the marker, or somebody's lock; the message is done with.
SkipEvent(v, known) ==
    /\ queue[<<v, known>>] > 0
    /\ v \in markers \/ lock[v] # Free
    /\ queue' = Take(<<v, known>>)
    /\ dropped' = IF v \in markers THEN dropped ELSE dropped \cup {v}
    /\ UNCHANGED <<rows, keys, requests, post, working, mishaps, published, unknown, premature,
                   unpublished, plainFirst, again>>

\* The call has the lock.  Only an event that knows the send is counted.
Locks(v, known) ==
    /\ queue' = Take(<<v, known>>)
    /\ tokens' = [tokens EXCEPT ![v] = @ + 1]
    /\ lock' = [lock EXCEPT ![v] = tokens[v] + 1]
    /\ calls' = calls \cup {[report |-> v, known |-> known, token |-> tokens[v] + 1, awaited |-> TRUE,
                             at |-> IF known THEN "count" ELSE "log"]}
    /\ UNCHANGED <<rows, keys, requests, post, markers, count, mishaps, history>>

\* (mutant) the marker is not looked for again under the lock, nor before
BeginUnasked(v, known) ==
    /\ queue[<<v, known>>] > 0
    /\ lock[v] = Free
    /\ Locks(v, known)

BeginEvent(v, known) ==
    /\ queue[<<v, known>>] > 0
    /\ v \notin markers /\ lock[v] = Free
    /\ Locks(v, known)

\* The counters come first.
CountEvent(c) ==
    /\ c \in calls /\ c.at = "count"
    /\ count' = [count EXCEPT ![c.report] = @ + 1]
    /\ calls' = (calls \ {c}) \cup {[c EXCEPT !.at = "log"]}
    /\ UNCHANGED <<rows, keys, requests, post, queue, lock, tokens, markers, mishaps, history>>

\* releaseLock: compare and delete.
ReleaseLock(c) == lock' = IF Holds(c) THEN [lock EXCEPT ![c.report] = Free] ELSE lock

\* saveWhatsappLogs, and the marker.
LogEvent(c) ==
    /\ c \in calls /\ c.at = "log"
    /\ markers' = markers \cup {c.report}
    /\ plainFirst' = IF c.known THEN plainFirst ELSE plainFirst \cup {c.report}
    /\ calls' = calls \ {c}
    /\ ReleaseLock(c)
    /\ UNCHANGED <<rows, keys, requests, post, queue, tokens, count, mishaps, published, unknown,
                   premature, unpublished, again, dropped>>

\* A negative answer: the message comes again, or its retries are used up, which is one
\* mishap here.
Retried(c) ==
    \/ queue' = Put(<<c.report, c.known>>) /\ UNCHANGED dropped
    \/ dropped' = dropped \cup {c.report} /\ UNCHANGED queue

\* PostgreSQL or a publisher fails, before the counters or after, and nothing is marked.
\* The bridge hears of it unless it has given up.
EventFails(c) ==
    /\ c \in calls
    /\ Mishap
    /\ calls' = calls \ {c}
    /\ ReleaseLock(c)
    /\ again' = IF Holds(c) THEN [again EXCEPT ![c.report] = @ + 1] ELSE again
    /\ IF c.awaited THEN Retried(c) ELSE UNCHANGED <<queue, dropped>>
    /\ UNCHANGED <<rows, keys, requests, post, tokens, markers, count, published, unknown, premature,
                   unpublished, plainFirst>>

\* The bridge gives up after 30 seconds, and the call goes on.
EventTimesOut(c) ==
    /\ c \in calls /\ c.awaited
    /\ Mishap
    /\ calls' = (calls \ {c}) \cup {[c EXCEPT !.awaited = FALSE]}
    /\ Retried(c)
    /\ UNCHANGED <<rows, keys, requests, post, lock, tokens, markers, count, published, unknown,
                   premature, unpublished, plainFirst, again>>

\* event-process dies.  Its locks stay, and its messages come again.
EventCrash ==
    /\ calls # {}
    /\ Mishap
    /\ calls' = {}
    /\ queue' = [e \in Events |-> IF \E c \in calls : c.awaited /\ e = <<c.report, c.known>>
                                  THEN queue[e] + 1 ELSE queue[e]]
    /\ again' = [v \in Verbs |-> IF \E c \in calls : c.report = v /\ Holds(c)
                                   THEN again[v] + 1 ELSE again[v]]
    /\ UNCHANGED <<rows, keys, requests, post, lock, tokens, markers, count, published, unknown,
                   premature, unpublished, plainFirst, dropped>>

\* A lock expires after 60 seconds: its call has died, or is so slow that the bridge has
\* given up on it before.
LockExpires(v) ==
    /\ lock[v] # Free
    /\ lock' = [lock EXCEPT ![v] = Free]
    /\ LET slow == {c \in calls : c.report = v /\ Holds(c)}
       IN  /\ \A c \in slow : ~c.awaited
           /\ again' = IF slow = {} THEN again ELSE [again EXCEPT ![v] = @ + 1]
    /\ UNCHANGED <<rows, keys, requests, post, queue, calls, tokens, markers, count, mishaps, published,
                   unknown, premature, unpublished, plainFirst, dropped>>

Process ==
    \/ \E v \in Verbs, known \in BOOLEAN : SkipEvent(v, known) \/ BeginEvent(v, known)
    \/ \E c \in calls : CountEvent(c) \/ LogEvent(c) \/ EventFails(c) \/ EventTimesOut(c)
    \/ EventCrash
    \/ \E v \in Verbs : LockExpires(v)

Work(r) == \/ IsDuplicate(r) \/ IsStatusKeySet(r) \/ FindSend(r) \/ UpdateRow(r) \/ UpdateContact(r)
           \/ SetStatusKey(r) \/ PublishEvent(r) \/ Fails(r) \/ ReleaseDedupKey(r)

Next ==
    \/ \E b \in Bodies : Post(b) \/ MetaTimesOut(b) \/ BodyKeyExpires(b)
    \/ \E r \in requests : Work(r)
    \/ Crash
    \/ Persist \/ PersistFails
    \/ Process

Spec == Init /\ [][Next]_vars

(***************************************************************************)
(* Properties.                                                             *)
(***************************************************************************)

TypeOK ==
    /\ row \in BOOLEAN /\ copies \in {0, 1}
    /\ stored \subseteq Reports /\ mirrored \subseteq Verbs
    /\ bodyKeys \subseteq Bodies /\ statusKeys \subseteq Verbs
    /\ requests \subseteq Requests
    /\ \A r \in requests : r.item \in 1..Len(Items[r.body])
    /\ post \in [Bodies -> [at : {"due", "waiting", "answered", "stopped"}, times : 0..MaxPosts]]
    /\ \A b \in Bodies : post[b].at = "due" => post[b].times < MaxPosts
    /\ queue \in [Events -> Nat] /\ markers \subseteq Verbs /\ count \in [Verbs -> Nat]
    /\ calls \subseteq Calls /\ lock \in [Verbs -> Nat] /\ tokens \in [Verbs -> Nat]
    /\ mishaps \in 0..MaxMishaps
    /\ published \in [Reports -> Nat] /\ unknown \subseteq Bodies \X Verbs
    /\ premature \subseteq Bodies /\ unpublished \subseteq Reports /\ plainFirst \subseteq Verbs
    /\ again \in [Verbs -> Nat] /\ dropped \subseteq Verbs

\* A status is held off only when the row and the contact have it: a failure between
\* the writes leaves no key that would turn Meta's retry away.
KeyMeansStored ==
    \A v \in statusKeys : v \in mirrored /\ (v # "sent" => v \in stored)

\* Meta is told that a body was taken only when all of it is in the rows, unless a
\* status found no row, or the body came again while an earlier delivery of it was
\* under way or had died with the service.
AnsweredIsStored ==
    \A b \in Bodies : post[b].at = "answered" /\ b \notin premature =>
        \A i \in 1..Len(Items[b]) :
            LET v == Items[b][i]
            IN  \/ <<b, v>> \in unknown
                \/ (v # "sent" => v \in stored) /\ (v # Reply => v \in mirrored)

\* When all is quiet, a status that is held off has been counted, and once more at most
\* for every call of event-process that failed, died or outlived its lock before it had
\* left the marker: exactly once without such a call, whatever bodies brought it.  It
\* is not counted only when its event was not published, was passed over for a lock or
\* dead-lettered, or came after one without the send.
QuietIsCounted ==
    requests = {} /\ queue = None /\ calls = {} =>
        \A v \in statusKeys :
            \/ count[v] \in 1..(1 + again[v])
            \/ count[v] = 0 /\ v \in unpublished \cup plainFirst \cup dropped

\* An event is published once in 24 hours.
PublishedOnce == \A v \in Verbs : published[v] <= 1

\* A status that found no row is written to it after the row is there.
UnknownIsReconciled ==
    requests = {} /\ row /\ (\A b \in Bodies : post[b].at = "answered") =>
        \A b \in Bodies, v \in Verbs \ {"sent"} : <<b, v>> \in unknown => v \in stored
=============================================================================
