----------------------------- MODULE CampaignRun ----------------------------
(***************************************************************************)
(* One campaign from its trigger to its end, across the processes that     *)
(* share its row, its contact list and its Redis keys without a lock:      *)
(*                                                                         *)
(*   campaign-packer    createContactsSend, createTest, createBatches and  *)
(*                      the single worker of campaign-schedule-page        *)
(*   send-email         turns packages into sends and reports each batch   *)
(*   campaign-events-   turns reports into the status of the row, by       *)
(*   tracker            loading the row, merging and writing it whole      *)
(*   msgops-api         stopCampaign and deleteOne                         *)
(*                                                                         *)
(* Pages are the jobs of CampaignPaging, here only their names; LastPages  *)
(* are those with page = totalPages.  A simple campaign has one, queued    *)
(* with ten minutes more than the others; a split campaign has one in each *)
(* group, with no such margin.  A message queue is a count of messages.    *)
(***************************************************************************)
EXTENDS Naturals, FiniteSets

CONSTANTS
    Pages,          \* the pages of the campaign
    SimpleLast,     \* the page with page = totalPages of a simple campaign
    SplitLast,      \* the pages with page = totalPages of a split campaign
    Kinds,          \* the kinds of campaign to consider
    MaxCalls,       \* bound on the runs of the trigger job (attempts: 5)
    MaxSplitCalls,  \* the same for a split campaign
    MaxMishaps      \* bound on failed attempts and on expiries of the dedup key

ASSUME RunAssumption ==
    /\ IsFiniteSet(Pages)
    /\ SimpleLast \in Pages
    /\ SplitLast \subseteq Pages /\ SplitLast # {}
    /\ Kinds \subseteq {"simple", "split"}
    /\ MaxCalls \in Nat \ {0} /\ MaxSplitCalls \in 1..MaxCalls
    /\ MaxMishaps \in Nat

VARIABLES
    kind,       \* the campaign's type
    row,        \* the campaign's row: its status and whether deleted_at is set
    listed,     \* campaigns_contacts has the rows of this campaign
    stopFlag,   \* Redis: stop_campaign_<id>
    dedup,      \* Redis: campaign:<id>
    trigger,    \* the scheduler's job: "scheduled", "reading" or "gone"
    calls,      \* how often the trigger ran
    packs,      \* jobs in the campaign-packer queue
    jobs,       \* jobs in the campaign-schedule-page queue, per page
    worker,     \* the page worker: Idle, or the page it has and how far it is
    sendQueue,  \* packages for send-email, per page
    events,     \* tracker events: "started", and the last pages' reports
    tracking,   \* updates between load and write, per event and status loaded
    api,        \* the operator's request and how far it is
    mishaps,    \* failed attempts and expired keys so far
    out,        \* packages published, per page
    reached,    \* pages published with their contacts
    lost,       \* pages passed over, or packaged empty, with nobody cancelling
    leaked,     \* finished cancellations that a page with contacts started after
    relisted    \* a trigger listed the contacts after a cancellation had begun

work  == <<packs, jobs, worker>>
queues == <<sendQueue, events, tracking>>
history == <<out, reached, lost, leaked, relisted>>
vars == <<kind, row, listed, stopFlag, dedup, trigger, calls, packs, jobs, worker,
          sendQueue, events, tracking, api, mishaps, out, reached, lost, leaked,
          relisted>>

Status == {"scheduled", "sending", "stopped", "completed"}

Idle == [page |-> "none", phase |-> "idle", late |-> "none"]

LastPages == IF kind = "simple" THEN {SimpleLast} ELSE SplitLast

Event == {"started"} \cup Pages

Init ==
    /\ kind \in Kinds
    /\ row = [status |-> "scheduled", deleted |-> FALSE]
    /\ listed = FALSE /\ stopFlag = FALSE /\ dedup = FALSE
    /\ trigger = "scheduled" /\ calls = 0
    /\ packs = 0 /\ jobs = [p \in Pages |-> 0] /\ worker = Idle
    /\ sendQueue = [p \in Pages |-> 0]
    /\ events = [e \in Event |-> 0]
    /\ tracking = [e \in Event |-> [s \in Status |-> 0]]
    /\ api = "none" /\ mishaps = 0
    /\ out = [p \in Pages |-> 0] /\ reached = {} /\ lost = {} /\ leaked = {}
    /\ relisted = FALSE

(***************************************************************************)
(* campaign-packer, called by the scheduler of the API.                    *)
(***************************************************************************)

\* The call did its work; the job may count as failed all the same (a timeout,
\* a lost answer) and run again.
CallAnswered ==
    \/ trigger' = "gone"
    \/ calls < (IF kind = "simple" THEN MaxCalls ELSE MaxSplitCalls) /\ trigger' = "scheduled"

\* createContactsSend, or createTest of a split campaign, reads the flag and
\* the row.  createTest does not look at the flag.  A deleted row is not found,
\* the call throws, and so do its retries.
TriggerStart ==
    /\ trigger = "scheduled"
    /\ calls' = calls + 1
    /\ trigger' = IF row.deleted \/ (kind = "simple" /\ stopFlag) THEN "gone" ELSE "reading"
    /\ UNCHANGED <<kind, row, listed, stopFlag, dedup, work, queues, api, mishaps, history>>

\* The rest of createContactsSend: list the contacts, report, queue the packing.
TriggerSimple ==
    /\ trigger = "reading" /\ kind = "simple"
    /\ listed' = TRUE
    /\ events' = [events EXCEPT !["started"] = @ + 1]
    /\ packs' = packs + 1
    /\ relisted' = (relisted \/ api # "none")
    /\ CallAnswered
    /\ UNCHANGED <<kind, row, stopFlag, dedup, calls, jobs, worker, sendQueue, tracking,
                   api, mishaps, out, reached, lost, leaked>>

\* The rest of createTest: its createBatches calls run in test mode, which
\* never sets the dedup key, but stop at a key that is there.
TriggerSplit ==
    /\ trigger = "reading" /\ kind = "split"
    /\ listed' = TRUE
    /\ jobs' = [p \in Pages |-> IF dedup THEN jobs[p] ELSE jobs[p] + 1]
    /\ events' = [events EXCEPT !["started"] = @ + 1]
    /\ relisted' = (relisted \/ api # "none")
    /\ CallAnswered
    /\ UNCHANGED <<kind, row, stopFlag, dedup, calls, packs, worker, sendQueue, tracking,
                   api, mishaps, out, reached, lost, leaked>>

\* (mutant) createBatches no longer looks at the key
CreateBatchesUnchecked ==
    /\ packs > 0
    /\ packs' = packs - 1
    /\ IF listed
       THEN /\ jobs' = [p \in Pages |-> jobs[p] + 1]
            /\ dedup' = TRUE
       ELSE UNCHANGED <<jobs, dedup>>
    /\ UNCHANGED <<kind, row, listed, stopFlag, trigger, calls, worker, queues, api,
                   mishaps, history>>

\* createBatches for a job of the campaign-packer queue.  With the key set it
\* does nothing; without contacts it throws, in every attempt.
CreateBatches ==
    /\ packs > 0
    /\ packs' = packs - 1
    /\ IF ~dedup /\ listed
       THEN /\ jobs' = [p \in Pages |-> jobs[p] + 1]
            /\ dedup' = TRUE
       ELSE UNCHANGED <<jobs, dedup>>
    /\ UNCHANGED <<kind, row, listed, stopFlag, trigger, calls, worker, queues, api,
                   mishaps, history>>

\* Queueing a page fails: some of the others are queued, the last one is not
\* tried, and the job runs again.
CreateBatchesFails ==
    /\ packs > 0 /\ ~dedup /\ listed
    /\ mishaps < MaxMishaps
    /\ mishaps' = mishaps + 1
    /\ \E queued \in SUBSET (Pages \ LastPages) :
          jobs' = [p \in Pages |-> IF p \in queued THEN jobs[p] + 1 ELSE jobs[p]]
    /\ UNCHANGED <<kind, row, listed, stopFlag, dedup, trigger, calls, packs, worker,
                   queues, api, history>>

\* The key lives for the minutes of spreadSending, or for one minute.
DedupExpires ==
    /\ dedup
    /\ mishaps < MaxMishaps
    /\ mishaps' = mishaps + 1
    /\ dedup' = FALSE
    /\ UNCHANGED <<kind, row, listed, stopFlag, trigger, calls, work, queues, api, history>>

(***************************************************************************)
(* The page worker.                                                        *)
(***************************************************************************)

\* (mutant) the last page of a simple campaign has no margin
InTimeUnordered(p) == TRUE

\* The last page of a simple campaign is due ten minutes after the others, and
\* the queue runs due jobs in order: a page that was never published is first.
InTime(p) ==
    kind = "simple" /\ p \in LastPages =>
        \A q \in Pages \ {p} : jobs[q] > 0 => out[q] > 0

Cancelled == IF api \in {"stopped", "deleted"} THEN api ELSE "none"

\* processPage starts: it reads the stop flag.
TakePage(p) ==
    /\ worker = Idle /\ jobs[p] > 0 /\ InTime(p)
    /\ jobs' = [jobs EXCEPT ![p] = @ - 1]
    /\ worker' = IF stopFlag THEN Idle
                 ELSE [page |-> p, phase |-> "flag", late |-> Cancelled]
    /\ UNCHANGED <<kind, row, listed, stopFlag, dedup, trigger, calls, packs, queues,
                   api, mishaps, history>>

\* processPage reads the row: a deleted, stopped or completed campaign is over.
CheckRow ==
    /\ worker.phase = "flag"
    /\ IF row.deleted \/ row.status \in {"stopped", "completed"}
       THEN /\ worker' = Idle
            /\ lost' = IF api = "none" THEN lost \cup ({worker.page} \ reached) ELSE lost
       ELSE /\ worker' = [worker EXCEPT !.phase = "row"]
            /\ UNCHANGED lost
    /\ UNCHANGED <<kind, row, listed, stopFlag, dedup, trigger, calls, packs, jobs, queues,
                   api, mishaps, out, reached, leaked, relisted>>

\* What publishing the worker's page with the contacts listed now means.
Published ==
    LET p == worker.page IN
    /\ out' = [out EXCEPT ![p] = @ + 1]
    /\ sendQueue' = [sendQueue EXCEPT ![p] = @ + 1]
    /\ reached' = IF listed THEN reached \cup {p} ELSE reached
    /\ lost' = IF ~listed /\ api = "none" THEN lost \cup ({p} \ reached) ELSE lost
    /\ leaked' = IF listed THEN leaked \cup ({worker.late} \ {"none"}) ELSE leaked

\* mountPackages: find the contacts of the page, publish the package.
MountPackages ==
    /\ worker.phase = "row"
    /\ Published
    /\ worker' = Idle
    /\ UNCHANGED <<kind, row, listed, stopFlag, dedup, trigger, calls, packs, jobs, events,
                   tracking, api, mishaps, relisted>>

\* The attempt fails, before the package is out or after, and is made again.
PageFails ==
    /\ worker.phase \in {"flag", "row"}
    /\ mishaps < MaxMishaps
    /\ mishaps' = mishaps + 1
    /\ \/ worker.phase = "row" /\ Published
       \/ UNCHANGED <<sendQueue, out, reached, lost, leaked>>
    /\ jobs' = [jobs EXCEPT ![worker.page] = @ + 1]
    /\ worker' = Idle
    /\ UNCHANGED <<kind, row, listed, stopFlag, dedup, trigger, calls, packs, events,
                   tracking, api, relisted>>

(***************************************************************************)
(* send-email and the events tracker.                                      *)
(***************************************************************************)

\* campaignBatch: the report goes out for an empty package too.  Only the
\* report of a last page changes the row.
SendPackage(p) ==
    /\ sendQueue[p] > 0
    /\ sendQueue' = [sendQueue EXCEPT ![p] = @ - 1]
    /\ events' = IF p \in LastPages THEN [events EXCEPT ![p] = @ + 1] ELSE events
    /\ UNCHANGED <<kind, row, listed, stopFlag, dedup, trigger, calls, work, tracking, api,
                   mishaps, history>>

\* updateStatus loads the row; a deleted one is not found, and the event ends
\* in the dead-letter queue.
LoadRow(e) ==
    /\ events[e] > 0
    /\ events' = [events EXCEPT ![e] = @ - 1]
    /\ tracking' = IF row.deleted THEN tracking
                   ELSE [tracking EXCEPT ![e][row.status] = @ + 1]
    /\ UNCHANGED <<kind, row, listed, stopFlag, dedup, trigger, calls, work, sendQueue, api,
                   mishaps, history>>

Target(e) == IF e = "started" THEN "sending" ELSE "completed"

\* The status after an event is merged into a row loaded with that status.
Merged(e, status) == IF status = "completed" THEN "completed" ELSE Target(e)

\* (mutant) the row is never completed while a last page is being reported
WriteRowKeepsSending(e, status) ==
    /\ tracking[e][status] > 0
    /\ tracking' = [tracking EXCEPT ![e][status] = @ - 1]
    /\ row' = [status |-> IF status = "sending" THEN "sending" ELSE Merged(e, status),
               deleted |-> FALSE]
    /\ listed' = (listed /\ row'.status # "completed")
    /\ UNCHANGED <<kind, stopFlag, dedup, trigger, calls, work, sendQueue, events, api,
                   mishaps, history>>

\* updateStatus writes every column of the row it loaded, deleted_at included;
\* the contacts of a completed campaign are removed before.
WriteRow(e, status) ==
    /\ tracking[e][status] > 0
    /\ tracking' = [tracking EXCEPT ![e][status] = @ - 1]
    /\ row' = [status |-> Merged(e, status), deleted |-> FALSE]
    /\ listed' = (listed /\ row'.status # "completed")
    /\ UNCHANGED <<kind, stopFlag, dedup, trigger, calls, work, sendQueue, events, api,
                   mishaps, history>>

(***************************************************************************)
(* msgops-api: at most one request of the operator.                        *)
(***************************************************************************)

\* stopCampaign, up to the flag.
StopStart ==
    /\ api = "none"
    /\ row.status = "sending" /\ ~row.deleted
    /\ api' = "stopping"
    /\ stopFlag' = TRUE
    /\ UNCHANGED <<kind, row, listed, dedup, trigger, calls, work, queues, mishaps, history>>

\* (mutant) the contacts stay listed
StopClearNothing ==
    /\ api = "stopping"
    /\ api' = "cleared"
    /\ UNCHANGED <<kind, row, listed, stopFlag, dedup, trigger, calls, work, queues,
                   mishaps, history>>

StopClear ==
    /\ api = "stopping"
    /\ api' = "cleared"
    /\ listed' = FALSE
    /\ UNCHANGED <<kind, row, stopFlag, dedup, trigger, calls, work, queues, mishaps, history>>

StopSave ==
    /\ api = "cleared"
    /\ api' = "stopped"
    /\ row' = [row EXCEPT !.status = "stopped"]
    /\ UNCHANGED <<kind, listed, stopFlag, dedup, trigger, calls, work, queues, mishaps, history>>

\* The flag lives for the minutes of spreadSending and an hour.
StopFlagExpires ==
    /\ stopFlag /\ api = "stopped"
    /\ stopFlag' = FALSE
    /\ UNCHANGED <<kind, row, listed, dedup, trigger, calls, work, queues, api, mishaps, history>>

\* deleteOne: a trigger that is running cannot be removed, and the call fails.
DeleteStart ==
    /\ api = "none"
    /\ ~row.deleted
    /\ trigger # "reading"
    /\ api' = "deleting"
    /\ trigger' = "gone"
    /\ UNCHANGED <<kind, row, listed, stopFlag, dedup, calls, work, queues, mishaps, history>>

DeleteSave ==
    /\ api = "deleting"
    /\ api' = "deleted"
    /\ row' = [status |-> "stopped", deleted |-> TRUE]
    /\ UNCHANGED <<kind, listed, stopFlag, dedup, trigger, calls, work, queues, mishaps, history>>

Packer == TriggerStart \/ TriggerSimple \/ TriggerSplit \/ CreateBatches
Worker == (\E p \in Pages : TakePage(p)) \/ CheckRow \/ MountPackages
Sender == \E p \in Pages : SendPackage(p)
Tracker == (\E e \in Event : LoadRow(e)) \/ (\E e \in Event, s \in Status : WriteRow(e, s))
Operator == StopStart \/ StopClear \/ StopSave \/ DeleteStart \/ DeleteSave
Mishap == CreateBatchesFails \/ DedupExpires \/ PageFails \/ StopFlagExpires

Next == Packer \/ Worker \/ Sender \/ Tracker \/ Operator \/ Mishap

Spec == Init /\ [][Next]_vars

\* The processes keep running and their queues deliver.
Fairness ==
    /\ WF_vars(Packer)
    /\ WF_vars(Worker)
    /\ \A p \in Pages : WF_vars(SendPackage(p))
    /\ \A e \in Event : WF_vars(LoadRow(e))
    /\ WF_vars(\E e \in Event, s \in Status : WriteRow(e, s))

FairSpec == Spec /\ Fairness

(***************************************************************************)
(* Properties.                                                             *)
(***************************************************************************)

\* Once stopCampaign has answered, no page that starts afterwards goes out with
\* contacts: not when the tracker puts the status back, and not when the flag
\* has expired, unless a trigger that was under way listed the contacts again
\* (stopCampaign of msgops-api, processPage).
StoppedSendsNothing == "stopped" \in leaked => relisted

\* The same of deleteOne, as the comment in processPage promises it.
DeletedSendsNothing == "deleted" \notin leaked

\* A page is passed over, or packaged without its contacts, only in a campaign
\* that somebody stopped or deleted (processPage's checks of the row against
\* the tracker's completion of the campaign).
SkippedOnlyWhenCancelled == lost = {}

\* That holds of a simple campaign, whose last page has a margin of ten minutes.
SimpleSkipsOnlyWhenCancelled == kind = "simple" => SkippedOnlyWhenCancelled

\* However often the trigger runs, a page of a simple campaign goes out once,
\* and once more for each failed attempt or expired key (the key campaign:<id>
\* of createBatches); a split campaign has no such key, and each run counts.
OncePerMishap ==
    \A p \in Pages : out[p] <= mishaps + (IF kind = "simple" THEN 1 ELSE calls)

\* A campaign that nobody cancels is completed (the tracker, from the report of
\* the last page).
Completes == [](api = "none") => <>(row.status = "completed")

=============================================================================
