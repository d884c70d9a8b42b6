-------------------------- MODULE RecurringSchedule --------------------------
(***************************************************************************)
(* A recurring campaign over days and weeks.  campaign-packer runs the job *)
(* that triggers an occurrence and, when its last page is out, send-email  *)
(* reports it; campaign-events-tracker turns the report into the next      *)
(* occurrence: a date on the row and a delayed job in the queue            *)
(* campaign-trigger.  It handles several reports at once, each of which    *)
(* loads the row, adds the job and then writes the whole row back.         *)
(* msgops-api makes the first job, in a queue of its own, and may stop,    *)
(* delete or reschedule the campaign at any time.                          *)
(*                                                                         *)
(* Time is counted in days, all at the hour of the campaign in the         *)
(* timezone of the account; day 0 is a Sunday.  Monthly campaigns are left *)
(* out.                                                                    *)
(***************************************************************************)
EXTENDS Naturals, Sequences, FiniteSets, FiniteSetsExt

CONSTANTS
    Settings,    \* recurrence settings to consider; an until of 0 stands for null
    Handlers,    \* the reports the tracker handles at once: its prefetch
    Lags,        \* days by which work on an occurrence may lag behind its date
    MaxTriggers, \* bound on the jobs ever made
    MaxTroubles  \* bound on mishaps (messages repeated or put back, failed runs) and
                 \* the operator's requests together

ASSUME RecurringAssumption ==
    /\ \A s \in Settings :
          /\ s.frequency \in {"daily", "weekly"}
          /\ s.interval \in Nat \ {0} /\ s.first \in Nat
          /\ s.untilSend \in Nat /\ s.untilDate \in Nat
          /\ s.weekDays \subseteq 0..6
          \* with no weekday the search of nextOccurrence never ends
          /\ s.frequency = "weekly" => s.weekDays # {}
    /\ Lags \subseteq Nat /\ MaxTriggers \in Nat \ {0}
    /\ MaxTroubles \in Nat

VARIABLES
    settings,  \* recurrence_settings
    row,       \* the campaign: status, schedule_to, recurrence_count, last date sent, the
               \* job it points to (schedule_to_cloud_task_id), whether it is deleted
    jobs,      \* delayed trigger jobs: who made them and for which day
    made,      \* number of jobs made so far
    stopFlag,  \* Redis: stop_campaign_<id>
    running,   \* occurrences being sent
    reports,   \* messages for the tracker, how many "started" and how many "sent"
    tracker,   \* what each handler of the tracker is doing; see Update
    now,
    requests, mishaps,
    sent,      \* (history) the days of the occurrences that were sent, in order
    strayed    \* (history) what went wrong; see Harm

vars == <<settings, row, jobs, made, stopFlag, running, reports, tracker, now,
          requests, mishaps, sent, strayed>>

Mishap == mishaps + requests < MaxTroubles /\ mishaps' = mishaps + 1
Request == mishaps + requests < MaxTroubles /\ requests' = requests + 1

Idle == [at |-> "idle"]

Init ==
    /\ settings \in Settings
    /\ row = [status |-> "scheduled", scheduleTo |-> settings.first, count |-> 0, lastSent |-> 0,
              task |-> 1, deleted |-> FALSE]
    /\ jobs = {[id |-> 1, owner |-> "api", day |-> settings.first]}
    /\ made = 1
    /\ stopFlag = FALSE /\ running = 0
    /\ reports = [e \in {"started", "sent"} |-> 0]
    /\ tracker = [h \in Handlers |-> Idle]
    /\ now = 0
    /\ requests = 0 /\ mishaps = 0
    /\ sent = <<>> /\ strayed = {}

(***************************************************************************)
(* The next date.                                                          *)
(***************************************************************************)

Week(d) == d \div 7

\* (mutant) the week is not compared with that of the last occurrence
SearchAnyWeek(s, current, today) ==
    LET Jump(d) == LET later == {k \in s.weekDays : k > d % 7}
                   IN  IF later # {} THEN d - (d % 7) + Min(later)
                       ELSE d - (d % 7) + 7 + Min(s.weekDays)
        find[d \in Nat] == IF d % 7 \in s.weekDays /\ d >= today THEN d ELSE find[Jump(d)]
    IN  find[current + 1]

\* The search of nextOccurrence: from weekday to weekday of the list; a day that
\* would do, in a week that does not count, sends it to the Sunday after.
NextOccurrence(s, current, today) ==
    LET Jump(d) == LET later == {k \in s.weekDays : k > d % 7}
                   IN  IF later # {} THEN d - (d % 7) + Min(later)
                       ELSE d - (d % 7) + 7 + Min(s.weekDays)
        find[d \in Nat] ==
            IF ~(d % 7 \in s.weekDays /\ d >= today) THEN find[Jump(d)]
            ELSE IF (Week(d) - Week(current)) % s.interval = 0 THEN d
            ELSE find[d - (d % 7) + 7]
    IN  find[current + 1]

NextDate(current) ==
    IF settings.frequency = "daily" THEN current + settings.interval
    ELSE NextOccurrence(settings, current, now)

(***************************************************************************)
(* campaign-packer and send-email: an occurrence.                          *)
(***************************************************************************)

Put(e) == [reports EXCEPT ![e] = @ + 1]
Take(e) == [reports EXCEPT ![e] = @ - 1]

\* createContactsSend, and the pages: the occurrence is on its way.  While one
\* is being sent, createBatches may still have its key and drop the other.
Fire(job) ==
    /\ job \in jobs /\ job.day <= now
    /\ jobs' = jobs \ {job}
    /\ IF stopFlag \/ row.deleted THEN UNCHANGED <<running, reports, sent>>
       ELSE /\ reports' = Put("started")
            /\ \/ running' = running + 1 /\ sent' = Append(sent, job.day)
               \/ running > 0 /\ UNCHANGED <<running, sent>>
    /\ UNCHANGED <<settings, row, made, stopFlag, tracker, now, requests, mishaps, strayed>>

\* (mutant) the page worker wants the row to say "sending", which the tracker
\* may not have written yet
LastPageWhenSending ==
    /\ running > 0
    /\ running' = running - 1
    /\ reports' = IF stopFlag \/ row.deleted \/ row.status # "sending" THEN reports
                  ELSE Put("sent")
    /\ UNCHANGED <<settings, row, jobs, made, stopFlag, tracker, now, requests, mishaps, sent,
                   strayed>>

\* The last page is sent and reported; the page worker skips it when the
\* campaign has been stopped, deleted or completed.
LastPage ==
    /\ running > 0
    /\ running' = running - 1
    /\ reports' = IF stopFlag \/ row.deleted \/ row.status \in {"stopped", "completed"} THEN reports
                  ELSE Put("sent")
    /\ UNCHANGED <<settings, row, jobs, made, stopFlag, tracker, now, requests, mishaps, sent,
                   strayed>>

\* Its batch fails: there is no report, and there will be no next occurrence.
LastPageFails ==
    /\ running > 0
    /\ Mishap
    /\ running' = running - 1
    /\ strayed' = strayed \cup {"unreported"}
    /\ UNCHANGED <<settings, row, jobs, made, stopFlag, reports, tracker, now, requests, sent>>

(***************************************************************************)
(* campaign-events-tracker: updateStatus and setRecurringCampaign.         *)
(***************************************************************************)

\* The row after an occurrence.  When nothing comes after it because of
\* untilDate, scheduleTo goes back to the date sent before it.
Ended(r) ==
    LET counted == [r EXCEPT !.count = @ + 1, !.lastSent = r.scheduleTo, !.status = "completed"]
    IN  IF settings.untilSend # 0 /\ counted.count = settings.untilSend THEN counted
        ELSE [counted EXCEPT !.scheduleTo = r.lastSent]

\* (mutant) the limit on sends is compared before the occurrence is counted
GoesOnOneMore(r) ==
    /\ ~(settings.untilSend # 0 /\ r.count = settings.untilSend)
    /\ settings.untilDate = 0 \/ NextDate(r.scheduleTo) <= settings.untilDate

\* Whether there is an occurrence after this one: untilSend is compared for
\* equality.
GoesOn(r) ==
    /\ ~(settings.untilSend # 0 /\ r.count + 1 = settings.untilSend)
    /\ settings.untilDate = 0 \/ NextDate(r.scheduleTo) <= settings.untilDate

\* (mutant) the row keeps pointing to the job of the occurrence before
ScheduledOldTask(r) ==
    [r EXCEPT !.count = @ + 1, !.lastSent = r.scheduleTo, !.status = "scheduled",
              !.scheduleTo = NextDate(r.scheduleTo)]

Scheduled(r) ==
    [r EXCEPT !.count = @ + 1, !.lastSent = r.scheduleTo, !.status = "scheduled",
              !.scheduleTo = NextDate(r.scheduleTo), !.task = made + 1]

\* A report is merged unless the row says completed; and whenever the row says
\* completed after that, the campaign recurs, whatever the report was about.
Recurs(report) == report = "sent" \/ row.status = "completed"

\* What a handler works on: the report, the row as it was loaded, and the row it
\* will write; "loaded" if the next occurrence is still to be worked out.
Update(report) ==
    IF Recurs(report)
    THEN [at |-> "loaded", report |-> report, loaded |-> row, next |-> row]
    ELSE [at |-> "ready", report |-> report, loaded |-> row,
          next |-> [row EXCEPT !.status = "sending"]]

\* findOneOrFail: the row of a deleted campaign is not found, and the report is
\* given up after its retries.
LoadRow(h, report) ==
    /\ tracker[h] = Idle /\ reports[report] > 0
    /\ reports' = Take(report)
    /\ IF row.deleted THEN UNCHANGED <<tracker, strayed>>
       ELSE /\ tracker' = [tracker EXCEPT ![h] = Update(report)]
            /\ strayed' = strayed \cup {x \in {"completed"} : row.status = x}
    /\ UNCHANGED <<settings, row, jobs, made, stopFlag, running, now, requests, mishaps, sent>>

\* The report is handled, and delivered again all the same.
ReportRepeats(h, report) ==
    /\ tracker[h] = Idle /\ reports[report] > 0 /\ ~row.deleted
    /\ Mishap
    /\ tracker' = [tracker EXCEPT ![h] = Update(report)]
    /\ strayed' = strayed \cup {"repeated"}
    /\ UNCHANGED <<settings, row, jobs, made, stopFlag, running, reports, now, requests, sent>>

\* An update that counts an occurrence, and is about to write the row.
Counting(h) == tracker[h].at = "ready" /\ tracker[h].next.count # tracker[h].loaded.count

\* setRecurringCampaign: the job is added before the row is written.
SetRecurring(h) ==
    /\ tracker[h].at = "loaded"
    /\ LET r == tracker[h].loaded
       IN  /\ \/ /\ GoesOn(r) /\ made < MaxTriggers
                 /\ made' = made + 1
                 /\ jobs' = jobs \cup {[id |-> made + 1, owner |-> "tracker",
                                       day |-> NextDate(r.scheduleTo)]}
                 /\ tracker' = [tracker EXCEPT ![h].at = "ready", ![h].next = Scheduled(r)]
              \/ /\ ~GoesOn(r)
                 /\ tracker' = [tracker EXCEPT ![h].at = "ready", ![h].next = Ended(r)]
                 /\ UNCHANGED <<jobs, made>>
           /\ strayed' = strayed \cup {x \in {"overwritten"} :
                                        r.count # row.count \/ \E k \in Handlers : Counting(k)}
    /\ UNCHANGED <<settings, row, stopFlag, running, reports, now, requests, mishaps, sent>>

\* What a write does to what happened since its row was loaded: an occurrence is
\* no longer counted, a stop or a deletion is undone, or the job that was added,
\* already due, has run before the row points to it.
Harm(h) ==
    LET u == tracker[h]
    IN  {x \in {"overwritten"} : u.loaded.count # row.count}
        \cup {x \in {"stopped"} : row.status = x}
        \cup {x \in {"undeleted"} : row.deleted}
        \cup {x \in {"overtaken"} :
                 u.next.status = "scheduled" /\ ~\E j \in jobs : j.day = u.next.scheduleTo}

\* Every column is written, as it was loaded and merged, deleted_at included.
WriteRow(h) ==
    /\ tracker[h].at = "ready"
    /\ row' = tracker[h].next
    /\ tracker' = [tracker EXCEPT ![h] = Idle]
    /\ strayed' = strayed \cup Harm(h)
    /\ UNCHANGED <<settings, jobs, made, stopFlag, running, reports, now, requests, mishaps, sent>>

\* The update fails, before the job is made or after it, and the report comes
\* again.
UpdateFails(h) ==
    /\ tracker[h] # Idle
    /\ Mishap
    /\ tracker' = [tracker EXCEPT ![h] = Idle]
    /\ reports' = Put(tracker[h].report)
    /\ strayed' = strayed \cup {x \in {"repeated"} : /\ tracker[h].at = "ready"
                                                    /\ tracker[h].next.status = "scheduled"}
    /\ UNCHANGED <<settings, row, jobs, made, stopFlag, running, now, requests, sent>>

(***************************************************************************)
(* msgops-api.                                                             *)
(***************************************************************************)

\* SchedulerService.delete looks through the queues of the API only.
RemoveTask == {j \in jobs : j.owner = "api" /\ j.id = row.task}

Stop ==
    /\ Request
    /\ row.status = "sending" /\ ~row.deleted
    /\ row' = [row EXCEPT !.status = "stopped"]
    /\ stopFlag' = TRUE
    /\ UNCHANGED <<settings, jobs, made, running, reports, tracker, now, mishaps, sent,
                   strayed>>

StopFlagExpires ==
    /\ stopFlag /\ running = 0
    /\ stopFlag' = FALSE
    /\ UNCHANGED <<settings, row, jobs, made, running, reports, tracker, now, requests, mishaps,
                   sent, strayed>>

Delete ==
    /\ Request
    /\ ~row.deleted
    /\ jobs' = jobs \ RemoveTask
    /\ row' = [row EXCEPT !.status = "stopped", !.deleted = TRUE]
    /\ UNCHANGED <<settings, made, stopFlag, running, reports, tracker, now, mishaps, sent,
                   strayed>>

\* update, with another date: the job of a later recurrence is not found, and
\* stays beside the new one.
Reschedule(d) ==
    /\ Request
    /\ row.status = "scheduled" /\ ~row.deleted
    /\ d > now /\ d # row.scheduleTo
    /\ made < MaxTriggers
    /\ made' = made + 1
    /\ jobs' = (jobs \ RemoveTask) \cup {[id |-> made + 1, owner |-> "api", day |-> d]}
    /\ row' = [row EXCEPT !.scheduleTo = d, !.task = made + 1]
    /\ strayed' = strayed \cup {"rescheduled"}
    /\ UNCHANGED <<settings, stopFlag, running, reports, tracker, now, mishaps, sent>>

\* Time passes: to the day of the next job when there is nothing to do, and by
\* one of Lags while there is.
Working ==
    \/ running > 0 \/ reports["started"] + reports["sent"] > 0
    \/ \E h \in Handlers : tracker[h] # Idle
    \/ \E j \in jobs : j.day <= now
Tick ==
    /\ now' \in IF Working THEN {row.scheduleTo + lag : lag \in Lags} ELSE {j.day : j \in jobs}
    /\ now' > now
    /\ \A j \in jobs : ~Working => now' <= j.day
    /\ UNCHANGED <<settings, row, jobs, made, stopFlag, running, reports, tracker, requests,
                   mishaps, sent, strayed>>

Sending == LastPage \/ \E job \in jobs : Fire(job)
Loading == \E h \in Handlers, e \in {"started", "sent"} : LoadRow(h, e)
Updating == \E h \in Handlers : SetRecurring(h) \/ WriteRow(h)
Trouble ==
    \/ LastPageFails
    \/ \E h \in Handlers : UpdateFails(h) \/ \E e \in {"started", "sent"} : ReportRepeats(h, e)
Operating == Stop \/ Delete \/ \E d \in {now + 1, row.scheduleTo + 1} : Reschedule(d)

Next == Sending \/ Loading \/ Updating \/ Trouble \/ Operating \/ StopFlagExpires \/ Tick

Spec == Init /\ [][Next]_vars

\* The queues deliver, the handlers go on, and time goes by.
Fairness == WF_vars(Sending) /\ WF_vars(Loading) /\ WF_vars(Updating) /\ WF_vars(Tick)

FairSpec == Spec /\ Fairness

(***************************************************************************)
(* Properties.                                                             *)
(***************************************************************************)

\* The days a campaign that was sent on day d may be sent on next.
Eligible(d, e) ==
    /\ e > d
    /\ IF settings.frequency = "daily" THEN (e - d) % settings.interval = 0
       ELSE e % 7 \in settings.weekDays /\ (Week(e) - Week(d)) % settings.interval = 0

\* The job of the next occurrence is for a day on the rhythm of the settings, after
\* the day of the row it was worked out from, and for the first such day that is
\* left (setRecurringCampaign and nextOccurrence).
KeepsRhythm ==
    [][\A j \in jobs' \ jobs : j.owner = "tracker" =>
          \E h \in Handlers :
             /\ tracker[h].at = "loaded"
             /\ Eligible(tracker[h].loaded.scheduleTo, j.day)
             /\ \A e \in now..(j.day - 1) : ~Eligible(tracker[h].loaded.scheduleTo, e)]_vars

\* At most untilSend occurrences are sent, unless a report is handled twice or
\* comes when the campaign is over, two updates under way at once undo one
\* another's count, or the operator reschedules an occurrence whose job cannot be
\* called back.  Stops, deletions undone and jobs that overtake their row do no
\* harm (updateStatus and setRecurringCampaign).
LimitKept ==
    /\ settings.untilSend # 0
    /\ strayed \subseteq {"unreported", "stopped", "undeleted", "overtaken"}
    => Len(sent) <= settings.untilSend

\* A campaign that is scheduled, and has nothing under way, has one job, for the
\* day the row says; unless a report is handled twice, a write undoes another, a
\* stop (whose flag makes the packer drop the job) or a deletion, a job that is due
\* at once runs before its row is written, or the operator reschedules it.
OneJob ==
    /\ row.status = "scheduled" /\ ~row.deleted /\ running = 0
    /\ reports["started"] = 0 /\ reports["sent"] = 0 /\ \A h \in Handlers : tracker[h] = Idle
    /\ strayed \subseteq {"unreported", "completed"}
    => \E j \in jobs : j.id = row.task /\ j.day = row.scheduleTo /\ jobs = {j}

\* A campaign with a limit is sent that often, if no message was lost, put back or
\* repeated, none came when it was over, no update undid another, and the operator
\* left it alone.
AllAreSent ==
    /\ [](mishaps = 0 /\ requests = 0 /\ strayed \subseteq {"overtaken"})
    /\ settings.untilSend # 0 /\ settings.untilDate = 0
    => <>(Len(sent) = settings.untilSend /\ row.status = "completed")

\* The claim of recurrence_settings.until_send that two updates under way at once
\* break: with no failure and no request, the limit holds.
LimitWithoutMishap ==
    settings.untilSend # 0 /\ mishaps = 0 /\ requests = 0 => Len(sent) <= settings.untilSend
=============================================================================
