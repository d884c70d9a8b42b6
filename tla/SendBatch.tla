------------------------------ MODULE SendBatch ------------------------------
(***************************************************************************)
(* The packages of a campaign, from the queue to the provider.             *)
(* campaign-packer keeps a package in Redis under its campaignKey and      *)
(* publishes the key; the consumer of send-email, or of send-whatsapp,     *)
(* bridges the message to an HTTP call of its own service.  The bridge     *)
(* waits 30 seconds: then the message is retried, and the call it gave up  *)
(* on goes on by itself.                                                   *)
(*                                                                         *)
(* send-email hands a package to its provider at once and deletes the key  *)
(* when it is done; send-whatsapp sends contact by contact and leaves the  *)
(* key to expire.  The service of the other channel lets a package pass.   *)
(***************************************************************************)
EXTENDS Naturals, FiniteSets

CONSTANTS
    Packages, Contacts,
    Campaigns,   \* what the packages may be: their channel and their contacts
    Limit,       \* mails a contact may get in a day (send_limit_per_user)
    MaxAttempts, \* deliveries of a message before it is dead-lettered
    MaxMishaps   \* bound on timeouts, crashes, failed calls and failed counts

ASSUME SendBatchAssumption ==
    /\ Campaigns \subseteq [channel : [Packages -> {"email", "whatsapp"}],
                           audience : [Packages -> SUBSET Contacts]]
    /\ Limit \in Nat \ {0} /\ MaxAttempts \in Nat \ {0} /\ MaxMishaps \in Nat

VARIABLES
    campaign,  \* the channel and the contacts of each package
    message,   \* the message of a package: where it is, and which attempt it is at
    stored,    \* Redis: what is under the campaignKey; contacts only while key is "set"
    calls,     \* HTTP calls the services work on
    counting,  \* saveBatchToRedis: contacts to be counted, in the background
    count,     \* Redis: contact_send:<contact>:<day>, of the contacts that have one
    mishaps,
    mails,     \* (history) mails of a package a contact has got
    emails,    \* (history) mails a contact has got by send-email, of all packages
    reported,  \* (history) packages reported as sent
    trouble,   \* (history) mishaps after which a package is delivered again
    missed     \* (history) contacts with a mail that was not counted, when another one to
               \* them was checked or for good

got == <<mails, emails>>
vars == <<campaign, message, stored, calls, counting, count, mishaps,
          got, reported, trouble, missed>>

Empty == [c \in {} |-> 0]

Init ==
    /\ campaign \in Campaigns
    /\ message = [p \in Packages |-> [at |-> "queue", attempt |-> 1]]
    /\ stored = [p \in Packages |-> [key |-> "set", contacts |-> campaign.audience[p]]]
    /\ calls = {} /\ counting = {} /\ count = Empty
    /\ mishaps = 0
    /\ mails = [p \in Packages |-> [c \in Contacts |-> 0]]
    /\ emails = [c \in Contacts |-> 0]
    /\ reported = {}
    /\ trouble = [p \in Packages |-> 0]
    /\ missed = {}

Mishap == mishaps < MaxMishaps /\ mishaps' = mishaps + 1

(***************************************************************************)
(* The bridge.                                                             *)
(***************************************************************************)

Deliver(p) ==
    /\ message[p].at = "queue"
    /\ message' = [message EXCEPT ![p].at = "bridge"]
    /\ calls' = calls \cup {[package |-> p, attempt |-> message[p].attempt, at |-> "read", left |-> {}]}
    /\ UNCHANGED <<campaign, stored, counting, count, mishaps, got, reported, trouble, missed>>

\* A negative answer: the next attempt, or the end of it.
Nacked(m) == IF m.attempt < MaxAttempts THEN [at |-> "queue", attempt |-> m.attempt + 1]
             ELSE [m EXCEPT !.at = "dead"]

\* The call's answer counts while the bridge waits for it.
Awaited(k) == message[k.package].at = "bridge" /\ message[k.package].attempt = k.attempt

\* (mutant) any answer settles the message
AnswerToAny(k, ok) ==
    /\ calls' = calls \ {k}
    /\ message' = [message EXCEPT ![k.package] = IF ok THEN [@ EXCEPT !.at = "acked"] ELSE Nacked(@)]
    /\ trouble' = IF Awaited(k) /\ ~ok THEN [trouble EXCEPT ![k.package] = @ + 1] ELSE trouble

Answer(k, ok) ==
    /\ calls' = calls \ {k}
    /\ message' = IF ~Awaited(k) THEN message
                  ELSE [message EXCEPT ![k.package] = IF ok THEN [@ EXCEPT !.at = "acked"] ELSE Nacked(@)]
    /\ trouble' = IF Awaited(k) /\ ~ok THEN [trouble EXCEPT ![k.package] = @ + 1] ELSE trouble

\* After the timeout, whatever the call does.
TimesOut(p) ==
    /\ message[p].at = "bridge"
    /\ Mishap
    /\ message' = [message EXCEPT ![p] = Nacked(@)]
    /\ trouble' = [trouble EXCEPT ![p] = @ + 1]
    /\ UNCHANGED <<campaign, stored, calls, counting, count, got, reported, missed>>

\* (mutant) the messages were taken from the queue for good
CrashTakesAll(ch) ==
    /\ Mishap
    /\ \E k \in calls : campaign.channel[k.package] = ch
    /\ calls' = {k \in calls : campaign.channel[k.package] # ch}
    /\ counting' = IF ch = "email" THEN {} ELSE counting
    /\ missed' = IF ch = "email" THEN missed \cup {n.contact : n \in counting} ELSE missed
    /\ UNCHANGED <<campaign, message, stored, count, got, reported, trouble>>

\* A service dies, with its consumer and its calls; its messages are delivered again.
Crash(ch) ==
    /\ Mishap
    /\ \E k \in calls : campaign.channel[k.package] = ch
    /\ calls' = {k \in calls : campaign.channel[k.package] # ch}
    /\ counting' = IF ch = "email" THEN {} ELSE counting
    /\ missed' = IF ch = "email" THEN missed \cup {n.contact : n \in counting} ELSE missed
    /\ LET back == {p \in Packages : campaign.channel[p] = ch /\ message[p].at = "bridge"}
       IN  /\ message' = [p \in Packages |-> IF p \in back THEN [message[p] EXCEPT !.at = "queue"]
                                             ELSE message[p]]
           /\ trouble' = [p \in Packages |-> IF p \in back THEN trouble[p] + 1 ELSE trouble[p]]
    /\ UNCHANGED <<campaign, stored, count, got, reported>>

(***************************************************************************)
(* The services.                                                           *)
(***************************************************************************)

Email(k) == campaign.channel[k.package] = "email"
At(k, step) == k \in calls /\ k.at = step
Goes(k, step, contacts) == calls' = (calls \ {k}) \cup {[k EXCEPT !.at = step, !.left = contacts]}

\* (mutant) the package is read and deleted in one step
ReadAndDelete(k) ==
    /\ At(k, "read")
    /\ LET found == stored[k.package]
       IN  IF found.key = "set"
           THEN Goes(k, IF Email(k) THEN "check" ELSE "send", found.contacts)
                /\ UNCHANGED <<message, trouble>>
           ELSE IF Email(k) THEN Goes(k, "void", {}) /\ UNCHANGED <<message, trouble>>
           ELSE Answer(k, TRUE)
    /\ stored' = [stored EXCEPT ![k.package] = [key |-> "gone", contacts |-> {}]]
    /\ UNCHANGED <<campaign, counting, count, mishaps, got, reported, missed>>

\* Without a package send-email goes the way of an error; send-whatsapp answers
\* that it has expired, and the message is done with.
Read(k) ==
    /\ At(k, "read")
    /\ LET found == stored[k.package]
       IN  IF found.key = "set"
           THEN Goes(k, IF Email(k) THEN "check" ELSE "send", found.contacts)
                /\ UNCHANGED <<message, trouble>>
           ELSE IF Email(k) THEN Goes(k, "void", {}) /\ UNCHANGED <<message, trouble>>
           ELSE Answer(k, TRUE)
    /\ UNCHANGED <<campaign, stored, counting, count, mishaps, got, reported, missed>>

Counted(c) == IF c \in DOMAIN count THEN count[c] ELSE 0

\* Contacts with a mail that was sent, or is about to be, and is not counted.
Uncounted(k) ==
    UNION ({j.left : j \in {j \in calls : j # k /\ Email(j) /\ j.at = "send"}}
           \cup {{n.contact} : n \in counting})

\* (mutant) the limit is compared after the mail is added to it
CheckOneMore(k) ==
    /\ At(k, "check")
    /\ LET free == {c \in k.left : Counted(c) <= Limit}
       IN  Goes(k, IF free = {} THEN "report" ELSE "send", free)
    /\ missed' = missed \cup (k.left \cap Uncounted(k))
    /\ UNCHANGED <<campaign, message, stored, counting, count, mishaps, got, reported, trouble>>

\* cleanupContacts and cleanupContactsQuantity.  The keys of the first check are
\* built without the account, so that it never finds a mail that was sent before.
Check(k) ==
    /\ At(k, "check")
    /\ LET free == {c \in k.left : Counted(c) < Limit}
       IN  Goes(k, IF free = {} THEN "report" ELSE "send", free)
    /\ missed' = missed \cup (k.left \cap Uncounted(k))
    /\ UNCHANGED <<campaign, message, stored, counting, count, mishaps, got, reported, trouble>>

\* The provider takes the whole package.
Send(k) ==
    /\ At(k, "send") /\ Email(k)
    /\ mails' = [mails EXCEPT ![k.package] = [c \in Contacts |-> @[c] + IF c \in k.left THEN 1 ELSE 0]]
    /\ emails' = [c \in Contacts |-> emails[c] + IF c \in k.left THEN 1 ELSE 0]
    /\ counting' = counting \cup {[package |-> k.package, attempt |-> k.attempt, contact |-> c, at |-> "exists"] :
                                     c \in k.left}
    /\ Goes(k, "report", k.left)
    /\ UNCHANGED <<campaign, message, stored, count, mishaps, reported, trouble, missed>>

\* The provider takes one template; or refuses it, which is noted and no more.
SendOne(k, c) ==
    /\ At(k, "send") /\ ~Email(k) /\ c \in k.left
    /\ Goes(k, IF k.left = {c} THEN "report" ELSE "send", k.left \ {c})
    /\ \/ mails' = [mails EXCEPT ![k.package][c] = @ + 1] /\ UNCHANGED mishaps
       \/ Mishap /\ UNCHANGED mails
    /\ UNCHANGED <<campaign, message, stored, counting, count, emails, reported, trouble, missed>>

\* The report that the package was sent is published.
Report(k) ==
    /\ At(k, "report")
    /\ reported' = reported \cup {k.package}
    /\ IF Email(k) THEN Goes(k, "clean", k.left) /\ UNCHANGED <<message, trouble>>
       ELSE Answer(k, TRUE)
    /\ UNCHANGED <<campaign, stored, counting, count, mishaps, got, missed>>

\* A step of the call throws: the provider or a link, the publisher, Redis.  What
\* send-email throws after it has read the package ends in its error path.  When
\* send-whatsapp finds no channel for the account it answers as if all were well.
Fails(k) ==
    /\ k \in calls /\ k.at \in {"read", "check", "send", "report", "clean"}
    /\ Mishap
    /\ \/ /\ Email(k) /\ k.at # "read"
          /\ Goes(k, "error", k.left) /\ UNCHANGED <<message, trouble>>
       \/ ~(Email(k) /\ k.at # "read") /\ Answer(k, FALSE)
       \/ ~Email(k) /\ k.at = "send" /\ k.left = campaign.audience[k.package] /\ Answer(k, TRUE)
    /\ UNCHANGED <<campaign, stored, counting, count, got, reported, missed>>

Clean(k) ==
    /\ At(k, "clean")
    /\ stored' = [stored EXCEPT ![k.package] = [key |-> "gone", contacts |-> {}]]
    /\ Answer(k, TRUE)
    /\ UNCHANGED <<campaign, counting, count, mishaps, got, reported, missed>>

\* The error path puts the package back, whatever is there by now ("null" when the
\* call had none), and publishes an error nobody listens to; if either fails the
\* answer is an error, too.
PutBack(k) ==
    /\ k \in calls /\ k.at \in {"error", "void"}
    /\ \E written \in BOOLEAN, ok \in BOOLEAN :
          /\ ok => written
          /\ IF ok THEN UNCHANGED mishaps ELSE Mishap
          /\ stored' = IF ~written THEN stored
                       ELSE [stored EXCEPT ![k.package] =
                               [key |-> IF k.at = "void" THEN "null" ELSE "set", contacts |-> k.left]]
          /\ Answer(k, ok)
    /\ UNCHANGED <<campaign, counting, count, got, reported, missed>>

(***************************************************************************)
(* saveBatchToRedis: every contact by itself, and nobody waits.            *)
(***************************************************************************)

\* A key that was not there is set to 0 before it is counted up.
CountStep(n) ==
    /\ n \in counting
    /\ IF n.at = "exists"
       THEN /\ counting' = (counting \ {n})
                              \cup {[n EXCEPT !.at = IF n.contact \in DOMAIN count THEN "incr" ELSE "set"]}
            /\ UNCHANGED count
       ELSE /\ counting' = counting \ {n}
            /\ count' = [c \in DOMAIN count \cup {n.contact} |->
                           IF c # n.contact THEN count[c]
                           ELSE IF n.at = "set" THEN 1 ELSE count[c] + 1]
    /\ UNCHANGED <<campaign, message, stored, calls, mishaps, got, reported, trouble, missed>>

\* An error of Redis while a mail is counted is logged and no more.  When the key
\* was set already, it stays at 0, whatever others have counted meanwhile.
CountFails(n) ==
    /\ n \in counting
    /\ Mishap
    /\ counting' = counting \ {n}
    /\ \/ UNCHANGED count
       \/ /\ n.at = "set"
          /\ count' = [c \in DOMAIN count \cup {n.contact} |-> IF c = n.contact THEN 0 ELSE count[c]]
    /\ missed' = missed \cup {n.contact}
    /\ UNCHANGED <<campaign, message, stored, calls, got, reported, trouble>>

Work(k) == \/ Read(k) \/ Check(k) \/ Send(k) \/ Report(k) \/ Clean(k) \/ PutBack(k)
           \/ \E c \in k.left : SendOne(k, c)

Working == (\E p \in Packages : Deliver(p)) \/ (\E k \in calls : Work(k))
Count == \E n \in counting : CountStep(n)
Trouble ==
    \/ \E p \in Packages : TimesOut(p)
    \/ \E ch \in {"email", "whatsapp"} : Crash(ch)
    \/ \E k \in calls : Fails(k)
    \/ \E n \in counting : CountFails(n)

Next == Working \/ Count \/ Trouble

Spec == Init /\ [][Next]_vars

\* The broker delivers and a call that is begun goes on.
FairSpec == Spec /\ WF_vars(Working) /\ WF_vars(Count)

(***************************************************************************)
(* Properties.                                                             *)
(***************************************************************************)

\* A contact gets a package once, and once more at most for every time the message
\* is handed out again.
OncePerDelivery == \A p \in Packages, c \in Contacts : mails[p][c] <= 1 + trouble[p]

\* The package stays in Redis until it has been reported as sent: a failure of any
\* step, or of the service, leaves it there to be sent by hand.
KeptUntilReported == \A p \in Packages : stored[p].key = "set" \/ p \in reported

\* A contact gets no more mails in a day than the limit, over all packages and
\* attempts, unless one is checked while another is not counted yet, or a count is
\* lost, in a crash or to an error of Redis that saveBatchToRedis logs and forgets.
LimitHolds == \A c \in Contacts : c \in missed \/ emails[c] <= Limit

\* Every message is settled in the end, and its package reported or kept.
Settles ==
    \A p \in Packages :
        <>[](/\ message[p].at \in {"acked", "dead"}
             /\ stored[p].key = "set" \/ p \in reported)
=============================================================================
