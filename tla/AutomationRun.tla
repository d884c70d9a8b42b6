---------------------------- MODULE AutomationRun ----------------------------
(***************************************************************************)
(* One contact in one automation, across the services that carry it:       *)
(*                                                                         *)
(*   tag-process      startAutomation, cancelRunningAutomation and         *)
(*                    targetAchieved: the rows of contacts_automations     *)
(*   message-trigger  receiveMessage: one message per step, the stop flags *)
(*                    in Redis, the next step                              *)
(*   send-email       receiveMessage: the dedup key, the send, and the     *)
(*                    message of the step after the email                  *)
(*   send-push        processSingle: the keys "processing" and "processed" *)
(*   twilio-messaging processAutomation: no key at all                     *)
(*                                                                         *)
(* A run is a row, numbered as inserted; its place in the automation is    *)
(* nowhere but in the message that travels.  Steps of the flow are "email",*)
(* "push", "sms", "wait" (any step that only publishes the next one) and   *)
(* "end".  The step after a send arrives by AMQP through the HTTP bridge,  *)
(* which takes a 4xx for success; the others are BullMQ jobs, which have   *)
(* three attempts each.                                                    *)
(***************************************************************************)
EXTENDS Naturals, Sequences, FiniteSets

CONSTANTS
    Steps,        \* bound on the steps of an automation
    Flows,        \* automation.steps: sequences to consider
    Policies,     \* applyFrequency: values to consider
    MaxEntries,   \* bound on the events that start the automation
    MaxMishaps,   \* bound on failures, repeated deliveries and expired dedup keys
    MaxRequests,  \* bound on requests to stop the contact
    MaxTrouble    \* bound on both together

ASSUME AutomationAssumption ==
    /\ Steps \in Nat \ {0}
    /\ Flows \subseteq [1..Steps -> {"email", "push", "sms", "wait", "end"}]
    /\ \A f \in Flows, i \in 1..Steps : f[i] = "end" <=> i = Steps
    /\ Policies \subseteq {"unique", "multiply", "multiply-period"}
    /\ MaxEntries \in Nat \ {0}
    /\ MaxMishaps \in Nat /\ MaxRequests \in Nat /\ MaxTrouble \in Nat

Entries == 1..MaxEntries
Runs == 1..(MaxEntries + MaxMishaps)
Places == 1..Steps

VARIABLES
    policy,      \* triggers.settings.applyFrequency
    flow,        \* automation.steps
    rows,        \* contacts_automations: the status of each row of the contact
    entry,       \* the handlers of the starting events and the row each inserted
    cancels,     \* rows whose cancellation has been decided and not yet written
    queue,       \* step messages, per run and place
    mail,        \* messages for the services that send, per run and place of the send
    mailing,     \* calls about to send, per run and place
    completing,  \* "completed" messages for tag-process, per run
    dedup,       \* emails whose key <account>:<email>:<name> is in Redis
    removeFlag,  \* automation:<id>:remove_contact:<contact>
    target,      \* runs whose automation_target_contact key is in Redis
    achieving,   \* runs completed by targetAchieved, whose keys are not yet set
    checked,     \* calls of send-push that found no key and are to set theirs
    processing,  \* per push, the run that set its key "processing", or 0
    processed,   \* per push, the run that set its key "processed", or 0
    requests, mishaps,
    sent,        \* (history) sends per place
    uncovered,   \* (history) sends that a key could not prevent, per place
    overlapped,  \* (history) two handlers of a starting event were both past the check
    lost,        \* (history) runs whose message was acked without a successor, or was a
                 \* job that has used up its attempts
    removed,     \* (history) runs stopped by the remove flag
    targeted,    \* (history) runs whose target key has been set and has not expired
    late         \* (history) runs that went on canceled, and on reaching the target

automation == <<policy, flow>>
messages == <<queue, mail, mailing, completing>>
pushes == <<checked, processing, processed>>
keys == <<dedup, removeFlag, target, achieving, pushes>>
history == <<sent, uncovered, overlapped, lost, removed, targeted, late>>
vars == <<automation, rows, entry, cancels, messages, keys, requests, mishaps, history>>

Empty == [r \in Runs |-> [i \in Places |-> 0]]
Put(f, r, i) == [f EXCEPT ![r][i] = @ + 1]
Take(f, r, i) == [f EXCEPT ![r][i] = @ - 1]

Running(r) == r \in DOMAIN rows /\ rows[r] = "running"

Mishap ==
    /\ mishaps < MaxMishaps /\ mishaps + requests < MaxTrouble
    /\ mishaps' = mishaps + 1

Request ==
    /\ requests < MaxRequests /\ mishaps + requests < MaxTrouble
    /\ requests' = requests + 1

Init ==
    /\ policy \in Policies /\ flow \in Flows
    /\ rows = <<>>
    /\ entry = [e \in Entries |-> [phase |-> "new", run |-> 0]]
    /\ cancels = {}
    /\ queue = Empty /\ mail = Empty /\ mailing = Empty
    /\ completing = [r \in Runs |-> 0]
    /\ dedup = {} /\ removeFlag = FALSE /\ target = {} /\ achieving = {}
    /\ checked = Empty
    /\ processing = [i \in Places |-> 0] /\ processed = [i \in Places |-> 0]
    /\ requests = 0 /\ mishaps = 0
    /\ sent = [i \in Places |-> 0] /\ uncovered = [i \in Places |-> 0]
    /\ overlapped = FALSE
    /\ lost = {} /\ removed = {} /\ targeted = {}
    /\ late = [canceled |-> {}, target |-> {}]

(***************************************************************************)
(* tag-process: entering the automation.                                   *)
(***************************************************************************)

\* The newest row with one of the statuses S, or 0 (getContactAutomations).
Latest(S) ==
    LET found == {r \in DOMAIN rows : rows[r] \in S}
    IN  IF found = {} THEN 0 ELSE CHOOSE r \in found : \A q \in found : q <= r

Enter(e, phase) == entry' = [entry EXCEPT ![e].phase = phase]

\* (mutant) only a run that is under way makes the contact a duplicate
RefusedWhileRunning == policy = "unique" /\ Latest({"running"}) # 0

\* UNIQUE: any row, whatever became of it, makes the contact a duplicate.
Refused == policy = "unique" /\ rows # <<>>

EntryRefused(e) ==
    /\ Refused
    /\ Enter(e, "done")
    /\ UNCHANGED <<rows, cancels, overlapped>>

\* MULTIPLY_PERIOD, and the last run is younger than timePeriod.
EntryTooEarly(e) ==
    /\ policy = "multiply-period" /\ Latest({"running", "completed"}) # 0
    /\ rows' = Append(rows, "duplicate")
    /\ Enter(e, "done")
    /\ UNCHANGED <<cancels, overlapped>>

\* Otherwise the contact enters; a run that is under way is to be canceled, by
\* a call nobody awaits.
EntryPasses(e) ==
    /\ ~Refused
    /\ Enter(e, "insert")
    /\ cancels' = cancels \cup {r \in {Latest({"running", "completed"})} : Running(r)}
    /\ overlapped' = (overlapped \/ \E f \in Entries \ {e} : entry[f].phase = "insert")
    /\ UNCHANGED rows

\* startAutomation reads the rows of the contact.
EntryCheck(e) ==
    /\ entry[e].phase = "new"
    /\ EntryRefused(e) \/ EntryTooEarly(e) \/ EntryPasses(e)
    /\ UNCHANGED <<automation, messages, keys, requests, mishaps, sent, uncovered, lost, removed,
                   targeted, late>>

EntryInsert(e) ==
    /\ entry[e].phase = "insert"
    /\ rows' = Append(rows, "running")
    /\ entry' = [entry EXCEPT ![e] = [phase |-> "created", run |-> Len(rows) + 1]]
    /\ UNCHANGED <<automation, cancels, messages, keys, requests, mishaps, history>>

\* sendToMessageTrigger: the first step.
EntrySend(e) ==
    /\ entry[e].phase = "created"
    /\ queue' = Put(queue, entry[e].run, 1)
    /\ Enter(e, "done")
    /\ UNCHANGED <<automation, rows, cancels, mail, mailing, completing, keys, requests,
                   mishaps, history>>

\* The handler fails, and a row it inserted has no message; a BullMQ job is
\* retried from the start, an AMQP message is acked (addTag answers 400) or
\* delivered again, also when the handler had done its work.
EntryFails(e) ==
    /\ entry[e].phase # "new"
    /\ Mishap
    /\ \/ Enter(e, "new")
       \/ entry[e].phase # "done" /\ Enter(e, "done")
    /\ lost' = IF entry[e].phase = "created" THEN lost \cup {entry[e].run} ELSE lost
    /\ UNCHANGED <<automation, rows, cancels, messages, keys, requests, sent, uncovered, overlapped,
                   removed, targeted, late>>

(***************************************************************************)
(* tag-process: ending a run from outside.                                 *)
(***************************************************************************)

\* updateContactAutomations writes the row it loaded, whatever it is by now.
\* The key it sets, automation_to_stop:<id>, is one no service reads.
CancelWrite(r) ==
    /\ r \in cancels
    /\ cancels' = cancels \ {r}
    /\ rows' = [rows EXCEPT ![r] = "canceled"]
    /\ UNCHANGED <<automation, entry, messages, keys, requests, mishaps, history>>

\* cancelRunningAutomation, for a tag that is removed.
CancelRequest ==
    /\ Request
    /\ Latest({"running"}) # 0
    /\ cancels' = cancels \cup {Latest({"running"})}
    /\ UNCHANGED <<automation, rows, entry, messages, keys, mishaps, history>>

\* The removeAutomation step of another automation: a key, and no row.
RemoveRequest ==
    /\ Request
    /\ removeFlag' = TRUE
    /\ UNCHANGED <<automation, rows, entry, cancels, messages, dedup, target, achieving, pushes,
                   mishaps, history>>

\* targetAchieved completes the rows, and then sets the keys.
TargetRequest ==
    /\ Request
    /\ achieving' = {r \in DOMAIN rows : Running(r)}
    /\ rows' = [r \in DOMAIN rows |-> IF Running(r) THEN "completed" ELSE rows[r]]
    /\ UNCHANGED <<automation, entry, cancels, messages, dedup, removeFlag, target, pushes, mishaps,
                   history>>

TargetKeys ==
    /\ achieving # {}
    /\ achieving' = {}
    /\ target' = target \cup achieving
    /\ targeted' = targeted \cup achieving
    /\ UNCHANGED <<automation, rows, entry, cancels, messages, dedup, removeFlag, pushes, requests,
                   mishaps, sent, uncovered, overlapped, lost, removed, late>>

\* The keys live for 12 hours (the remove flag) and 24 (the target).
FlagExpires ==
    /\ \/ removeFlag /\ removeFlag' = FALSE /\ UNCHANGED <<target, targeted>>
       \/ \E r \in target : /\ target' = target \ {r} /\ targeted' = targeted \ {r}
                            /\ UNCHANGED removeFlag
    /\ UNCHANGED <<automation, rows, entry, cancels, messages, dedup, achieving, pushes, requests,
                   mishaps, sent, uncovered, overlapped, lost, removed, late>>

(***************************************************************************)
(* message-trigger.                                                        *)
(***************************************************************************)

\* (mutant) the target key is overlooked
StoppedByRemoval(r) == removeFlag

Stopped(r) == removeFlag \/ r \in target

\* A hit on a stop flag deletes every key of the run and drops the message.
StepStopped(r, i) ==
    /\ queue[r][i] > 0 /\ Stopped(r)
    /\ queue' = Take(queue, r, i)
    /\ removeFlag' = FALSE
    /\ target' = target \ {r}
    /\ removed' = IF removeFlag THEN removed \cup {r} ELSE removed
    /\ UNCHANGED <<automation, rows, entry, cancels, mail, mailing, completing, dedup, achieving,
                   pushes, requests, mishaps, sent, uncovered, overlapped, lost, targeted, late>>

Sends == {"email", "push", "sms"}

\* processMessage, with the queue q left by the message it is about: a send
\* takes the step after it along, the end is reported to tag-process, any other
\* step publishes or schedules the next one.
ProcessMessage(r, i, q) ==
    CASE flow[i] \in Sends -> mail' = Put(mail, r, i) /\ queue' = q /\ UNCHANGED completing
      [] flow[i] = "wait"  -> queue' = Put(q, r, i + 1) /\ UNCHANGED <<mail, completing>>
      [] flow[i] = "end"   -> completing' = [completing EXCEPT ![r] = @ + 1]
                              /\ queue' = q /\ UNCHANGED mail

Late(r) ==
    late' = [canceled |-> IF rows[r] = "canceled" THEN late.canceled \cup {r} ELSE late.canceled,
             target |-> IF r \in targeted THEN late.target \cup {r} ELSE late.target]

\* receiveMessage with no flag set.  A flag set while it runs is seen by the
\* next step, as one that is set afterwards.
Step(r, i) ==
    /\ queue[r][i] > 0 /\ ~Stopped(r)
    /\ ProcessMessage(r, i, Take(queue, r, i))
    /\ Late(r)
    /\ UNCHANGED <<automation, rows, entry, cancels, mailing, keys, requests, mishaps, sent,
                   uncovered, overlapped, lost, removed, targeted>>

\* The step is done and comes again (a retried job, a bridge that gave up
\* waiting), or it fails for good: an AMQP message was answered 400 and is acked;
\* a BullMQ job fails three times (attempts: 3), which is one mishap here, and
\* stays in the set of failed jobs, which no service reads.
StepFails(r, i) ==
    /\ queue[r][i] > 0
    /\ Mishap
    /\ \/ ~Stopped(r) /\ ProcessMessage(r, i, queue) /\ Late(r) /\ UNCHANGED lost
       \/ /\ queue' = Take(queue, r, i)
          /\ lost' = lost \cup {r}
          /\ UNCHANGED <<mail, completing, late>>
    /\ UNCHANGED <<automation, rows, entry, cancels, mailing, keys, requests, sent, uncovered,
                   overlapped, removed, targeted>>

(***************************************************************************)
(* send-email.                                                             *)
(***************************************************************************)

\* (mutant) the dedup key is not asked
NeverSkipped(i) == FALSE

\* The dedup key is asked only for "unique"; the next step is published for a
\* message that is not sent, too.
Skipped(i) == policy = "unique" /\ i \in dedup

\* (mutant) a duplicate ends the contact's run, as it does for some accounts
MailStartDropsDuplicates(r, i) ==
    /\ flow[i] = "email" /\ mail[r][i] > 0
    /\ mail' = Take(mail, r, i)
    /\ IF Skipped(i) THEN UNCHANGED <<queue, mailing, uncovered>>
       ELSE /\ mailing' = Put(mailing, r, i)
            /\ uncovered' = [uncovered EXCEPT ![i] =
                               IF \E q \in Runs : mailing[q][i] > 0 THEN @ + 1 ELSE @]
            /\ UNCHANGED queue
    /\ UNCHANGED <<automation, rows, entry, cancels, completing, keys, requests, mishaps, sent,
                   overlapped, lost, removed, targeted, late>>

\* receiveMessage of send-email, up to the send.
MailStart(r, i) ==
    /\ flow[i] = "email" /\ mail[r][i] > 0
    /\ mail' = Take(mail, r, i)
    /\ IF Skipped(i)
       THEN queue' = Put(queue, r, i + 1) /\ UNCHANGED <<mailing, uncovered>>
       ELSE /\ mailing' = Put(mailing, r, i)
            /\ uncovered' = [uncovered EXCEPT ![i] =
                               IF \E q \in Runs : mailing[q][i] > 0 THEN @ + 1 ELSE @]
            /\ UNCHANGED queue
    /\ UNCHANGED <<automation, rows, entry, cancels, completing, keys, requests, mishaps, sent,
                   overlapped, lost, removed, targeted, late>>

\* The provider accepts, the key is written, the next step is published.
MailSend(r, i) ==
    /\ flow[i] = "email" /\ mailing[r][i] > 0
    /\ mailing' = Take(mailing, r, i)
    /\ sent' = [sent EXCEPT ![i] = @ + 1]
    /\ dedup' = dedup \cup {i}
    /\ queue' = Put(queue, r, i + 1)
    /\ UNCHANGED <<automation, rows, entry, cancels, mail, completing, removeFlag, target,
                   achieving, pushes, requests, mishaps, uncovered, overlapped, lost, removed,
                   targeted, late>>

\* The contact may not be mailed: invalid, disengaged, blocked or over the limit
\* of the day goes on with the next step; malformed or a bad user does not.
MailRefuse(r, i) ==
    /\ flow[i] = "email" /\ mail[r][i] > 0
    /\ Mishap
    /\ mail' = Take(mail, r, i)
    /\ \/ queue' = Put(queue, r, i + 1) /\ UNCHANGED lost
       \/ lost' = lost \cup {r} /\ UNCHANGED queue
    /\ UNCHANGED <<automation, rows, entry, cancels, mailing, completing, keys, requests, sent,
                   uncovered, overlapped, removed, targeted, late>>

\* The call fails before the send, between it and the key (when Redis fails the
\* handler just returns) or after the key (the publish fails): it answers 4xx
\* or 200, the message is acked and the run goes no further.  When the process
\* dies instead, the message comes again.
MailFails(r, i) ==
    /\ flow[i] = "email" /\ mailing[r][i] > 0
    /\ Mishap
    /\ mailing' = Take(mailing, r, i)
    /\ \E outcome \in {"refused", "sent", "keyed"}, died \in BOOLEAN :
          /\ sent' = IF outcome = "refused" THEN sent ELSE [sent EXCEPT ![i] = @ + 1]
          /\ uncovered' = IF outcome = "sent" THEN [uncovered EXCEPT ![i] = @ + 1] ELSE uncovered
          /\ dedup' = IF outcome = "keyed" THEN dedup \cup {i} ELSE dedup
          /\ mail' = IF died THEN Put(mail, r, i) ELSE mail
          /\ lost' = IF died THEN lost ELSE lost \cup {r}
    /\ UNCHANGED <<automation, rows, entry, cancels, queue, completing, removeFlag, target,
                   achieving, pushes, requests, overlapped, removed, targeted, late>>

\* The bridge gives up after its timeout and the message of an email or a push
\* comes again, while the first call goes on.
MailTimesOut(r, i) ==
    /\ mailing[r][i] > 0
    /\ Mishap
    /\ mail' = Put(mail, r, i)
    /\ UNCHANGED <<automation, rows, entry, cancels, queue, mailing, completing, keys, requests,
                   history>>

\* The key lives for two hours.
DedupExpires(i) ==
    /\ i \in dedup
    /\ Mishap
    /\ dedup' = dedup \ {i}
    /\ uncovered' = [uncovered EXCEPT ![i] = @ + 1]
    /\ UNCHANGED <<automation, rows, entry, cancels, messages, removeFlag, target, achieving,
                   pushes, requests, sent, overlapped, lost, removed, targeted, late>>

(***************************************************************************)
(* send-push.  The keys name the automation, the message and the contact,  *)
(* and neither the run nor the policy.  Their value is "true"; the model   *)
(* notes who wrote it.                                                     *)
(***************************************************************************)

\* processSingle finds a key: it answers 2xx, and nothing is published.  That is
\* the end of a run whose step is not in the hands of another call and has not
\* been done: another run was here less than three minutes ago, or the call
\* that wrote the key has died.
PushDrop(r, i) ==
    /\ flow[i] = "push" /\ mail[r][i] > 0
    /\ processing[i] # 0 \/ processed[i] # 0
    /\ mail' = Take(mail, r, i)
    /\ lost' = IF checked[r][i] + mailing[r][i] > 0 \/ processed[i] = r THEN lost
               ELSE lost \cup {r}
    /\ UNCHANGED <<automation, rows, entry, cancels, queue, mailing, completing, keys, requests,
                   mishaps, sent, uncovered, overlapped, removed, targeted, late>>

\* It finds none.
PushStart(r, i) ==
    /\ flow[i] = "push" /\ mail[r][i] > 0
    /\ processing[i] = 0 /\ processed[i] = 0
    /\ mail' = Take(mail, r, i)
    /\ checked' = Put(checked, r, i)
    /\ uncovered' = [uncovered EXCEPT ![i] =
                       IF \E q \in Runs : checked[q][i] + mailing[q][i] > 0 THEN @ + 1 ELSE @]
    /\ UNCHANGED <<automation, rows, entry, cancels, queue, mailing, completing, dedup, removeFlag,
                   target, achieving, processing, processed, requests, mishaps, sent, overlapped,
                   lost, removed, targeted, late>>

PushMark(r, i) ==
    /\ checked[r][i] > 0
    /\ checked' = Take(checked, r, i)
    /\ mailing' = Put(mailing, r, i)
    /\ processing' = [processing EXCEPT ![i] = r]
    /\ UNCHANGED <<automation, rows, entry, cancels, queue, mail, completing, dedup, removeFlag,
                   target, achieving, processed, requests, mishaps, history>>

\* Firebase takes the push, or the contact has no device for it; the next step
\* is published and the keys change places.
PushSend(r, i) ==
    /\ flow[i] = "push" /\ mailing[r][i] > 0
    /\ mailing' = Take(mailing, r, i)
    /\ \E devices \in {0, 1} : sent' = [sent EXCEPT ![i] = @ + devices]
    /\ queue' = Put(queue, r, i + 1)
    /\ processing' = [processing EXCEPT ![i] = 0]
    /\ processed' = [processed EXCEPT ![i] = r]
    /\ UNCHANGED <<automation, rows, entry, cancels, mail, completing, dedup, removeFlag, target,
                   achieving, checked, requests, mishaps, uncovered, overlapped, lost, removed,
                   targeted, late>>

\* The call fails: outside the try that clears the key "processing" (an address
\* it cannot parse, the next step of a contact without device); at Firebase;
\* after it (the event of the send, the next step); or when the next step is
\* out.  It answers 400 and is acked.  When the process dies instead, the
\* message comes again and the key is still there.
PushFails(r, i) ==
    /\ flow[i] = "push" /\ mailing[r][i] > 0
    /\ Mishap
    /\ mailing' = Take(mailing, r, i)
    /\ \E outcome \in {"outside", "refused", "sent", "published"}, died \in BOOLEAN :
          /\ sent' = IF outcome \in {"sent", "published"} THEN [sent EXCEPT ![i] = @ + 1] ELSE sent
          /\ uncovered' = IF outcome \in {"sent", "published"}
                          THEN [uncovered EXCEPT ![i] = @ + 1] ELSE uncovered
          /\ queue' = IF outcome = "published" THEN Put(queue, r, i + 1) ELSE queue
          /\ processing' = IF died \/ outcome = "outside" THEN processing
                           ELSE [processing EXCEPT ![i] = 0]
          /\ mail' = IF died THEN Put(mail, r, i) ELSE mail
          /\ lost' = IF died \/ outcome = "published" THEN lost ELSE lost \cup {r}
    /\ UNCHANGED <<automation, rows, entry, cancels, completing, dedup, removeFlag, target,
                   achieving, checked, processed, requests, overlapped, removed, targeted, late>>

\* The keys live for one minute and for three.
PushKeyExpires(i) ==
    /\ \/ /\ processing[i] # 0
          /\ processing' = [processing EXCEPT ![i] = 0]
          /\ UNCHANGED <<processed, uncovered>>
       \/ /\ processed[i] # 0
          /\ processed' = [processed EXCEPT ![i] = 0]
          /\ uncovered' = [uncovered EXCEPT ![i] = @ + 1]
          /\ UNCHANGED processing
    /\ UNCHANGED <<automation, rows, entry, cancels, messages, dedup, removeFlag, target, achieving,
                   checked, requests, mishaps, sent, overlapped, lost, removed, targeted, late>>

(***************************************************************************)
(* twilio-messaging.                                                       *)
(***************************************************************************)

\* processAutomation: an invalid contact goes on, and so does one whose message
\* twilio refuses (the provider returns its error).
SmsSend(r, i) ==
    /\ flow[i] = "sms" /\ mail[r][i] > 0
    /\ mail' = Take(mail, r, i)
    /\ \E valid \in {0, 1} : sent' = [sent EXCEPT ![i] = @ + valid]
    /\ queue' = Put(queue, r, i + 1)
    /\ UNCHANGED <<automation, rows, entry, cancels, mailing, completing, keys, requests, mishaps,
                   uncovered, overlapped, lost, removed, targeted, late>>

\* The call fails, or takes too long: 500, and the message comes again, also when
\* the text and the next step are out, until the retries are used up.
SmsFails(r, i) ==
    /\ flow[i] = "sms" /\ mail[r][i] > 0
    /\ Mishap
    /\ \E texts \in {0, 1}, published, again \in BOOLEAN :
          /\ sent' = [sent EXCEPT ![i] = @ + texts]
          /\ queue' = IF published THEN Put(queue, r, i + 1) ELSE queue
          /\ mail' = IF again THEN mail ELSE Take(mail, r, i)
          /\ lost' = IF again \/ published THEN lost ELSE lost \cup {r}
    /\ UNCHANGED <<automation, rows, entry, cancels, mailing, completing, keys, requests, uncovered,
                   overlapped, removed, targeted, late>>

(***************************************************************************)
(* The end of the automation, in tag-process.                              *)
(***************************************************************************)

\* completeAutomations does not look at the status: a canceled run is completed.
Complete(r) ==
    /\ completing[r] > 0
    /\ completing' = [completing EXCEPT ![r] = @ - 1]
    /\ rows' = [rows EXCEPT ![r] = "completed"]
    /\ UNCHANGED <<automation, entry, cancels, queue, mail, mailing, keys, requests, mishaps,
                   history>>

\* processCompleted is a BullMQ job, too: it is done and runs again, or has failed
\* three times and leaves the row as it is.
CompleteFails(r) ==
    /\ completing[r] > 0
    /\ Mishap
    /\ \/ /\ rows' = [rows EXCEPT ![r] = "completed"]
          /\ UNCHANGED <<completing, lost>>
       \/ /\ completing' = [completing EXCEPT ![r] = @ - 1]
          /\ lost' = lost \cup {r}
          /\ UNCHANGED rows
    /\ UNCHANGED <<automation, entry, cancels, queue, mail, mailing, keys, requests, sent, uncovered,
                   overlapped, removed, targeted, late>>

Entering == \E e \in Entries : EntryCheck(e) \/ EntryInsert(e) \/ EntrySend(e)
Stepping == \E r \in Runs, i \in Places : StepStopped(r, i) \/ Step(r, i)
Sending ==
    \E r \in Runs, i \in Places :
       \/ MailStart(r, i) \/ MailSend(r, i)
       \/ PushDrop(r, i) \/ PushStart(r, i) \/ PushMark(r, i) \/ PushSend(r, i)
       \/ SmsSend(r, i)
Completing == \E r \in Runs : Complete(r)
Stopping ==
    \/ \E r \in Runs : CancelWrite(r)
    \/ CancelRequest \/ RemoveRequest \/ TargetRequest \/ TargetKeys
Failing ==
    \/ FlagExpires
    \/ \E e \in Entries : EntryFails(e)
    \/ \E r \in Runs : CompleteFails(r)
    \/ \E i \in Places : DedupExpires(i) \/ PushKeyExpires(i)
    \/ \E r \in Runs, i \in Places :
          \/ StepFails(r, i) \/ MailRefuse(r, i) \/ MailFails(r, i) \/ MailTimesOut(r, i)
          \/ PushFails(r, i) \/ SmsFails(r, i)

Next == Entering \/ Stepping \/ Sending \/ Completing \/ Stopping \/ Failing

Spec == Init /\ [][Next]_vars

\* The queues deliver and the services answer.
Fairness ==
    /\ WF_vars(Entering)
    /\ WF_vars(Stepping)
    /\ WF_vars(Sending)
    /\ WF_vars(Completing)

FairSpec == Spec /\ Fairness

(***************************************************************************)
(* Properties.                                                             *)
(***************************************************************************)

\* A row that says "running" has a message somewhere that will move it on,
\* unless that message was acked with an error (the bridge takes a 4xx for
\* success), was a job that failed three times (attempts: 3 of the queue
\* publishers), turned away at a key of send-push that another run or a dead
\* call left, or dropped at the remove flag, which leaves the row alone.
Carried(r) ==
    \/ \E e \in Entries : entry[e] = [phase |-> "created", run |-> r]
    \/ \E i \in Places : queue[r][i] + mail[r][i] + checked[r][i] + mailing[r][i] > 0
    \/ completing[r] > 0

RunningIsCarried ==
    \A r \in DOMAIN rows : Running(r) => Carried(r) \/ r \in lost \/ r \in removed

\* "unique" lets a contact in once, whatever became of the first run, unless
\* two events were between the check and the insert of startAutomation together.
UniqueEntersOnce == policy = "unique" /\ ~overlapped => Len(rows) <= 1

\* Of the sends of one push to the contact, and of one email of a "unique"
\* automation, all but the first have an excuse: two were between the read of
\* the keys and their write (receiveMessage of send-email, processSingle of
\* send-push), or the key was not written or had expired.
DedupHolds ==
    \A i \in Places :
       flow[i] = "push" \/ (flow[i] = "email" /\ policy = "unique") =>
          sent[i] <= 1 + uncovered[i]

\* Once targetAchieved has set its keys, the runs it completed take no further
\* step, while the keys live, unless a message was delivered twice.
TargetStops == late.target = {} \/ mishaps > 0

\* message-trigger, receiveMessage: the stop flag is "written by msgops.service
\* when contactAutomation is marked canceled".  A run takes no step once its row
\* says canceled.
CanceledStops == late.canceled = {}

\* A run ends, if no call fails and nobody uses the remove flag, unless send-push
\* turns it away.
RunEnds ==
    [](mishaps = 0 /\ ~removeFlag) =>
       \A r \in Runs : Running(r) ~> ~Running(r) \/ r \in lost
=============================================================================
