# TLA+ models of open-bms

open-bms sends email, push, SMS and WhatsApp campaigns. Its processes share a
PostgreSQL database, Redis, BullMQ queues and a RabbitMQ broker, and almost
nothing holds a lock across two of them. This directory models the parts in
which the order of events decides what happens: the messaging package every
service stands on; a campaign from its trigger to its last page and to its next
occurrence; a package of it from the queue to the provider; one contact's way
through an automation; the events that providers report back, until they are
counted; and the import of an account from another installation.

## The system

| Component | State | Operations | Talks to |
|---|---|---|---|
| `packages/messaging` connection | the connection, the dial in flight, reconnect flag and timer, `closed` | getConnection, close, loss, timer, redial | the broker; consumer and publisher use it |
| `packages/messaging` consumer | two channels, consumer tag, tokens in flight, retry timers, shutdown progress | consume, reestablish, handleMessage, retryOrDlq, shutdown | the connection, the broker, a handler |
| `packages/messaging` publisher | channel, cached exchange assertions, `closed` | publish, ensureReady, close | the connection, the broker |
| `packages/messaging` http bridge | none | POST a message to a handler, with a timeout | consumer; every service's HTTP endpoint |
| `msgops-api` campaigns | rows of `campaigns`, `stop_campaign_<id>` | create, update, stop, delete, duplicate | scheduler, Redis |
| `msgops-api` scheduler | five BullMQ queues of delayed jobs | create, delete, callRunTask, dispatch by HTTP | campaign-packer and others |
| `campaign-packer` | `campaigns_contacts`, `campaign:<id>`, three BullMQ queues | createContactsSend, createTest, createBatches, processPage, processResult | database, broker (`campaign.send`, `campaign.tracked`) |
| `send-email` | dedup and rate keys in Redis, package bodies | campaignBatch, automationBatch, send | providers, broker (`campaign.tracked`) |
| `campaign-events-tracker` | the row's status and counters | updateStatus, setRecurringCampaign | database, `campaign-trigger` queue |
| `tag-process` | rows of `contacts_automations`, target keys | startAutomation, cancelRunningAutomation, targetAchieved, processCompleted | database, Redis, message-trigger |
| `message-trigger` | none: a contact's place is in the message that travels | receiveMessage, processMessage, removeAutomation | Redis, BullMQ delays, send-* |
| `event-process` | processing locks, markers, events seen, counters in Redis | processWithIdempotency, one processor per provider | Redis, database, bridge |
| `msgops-api` WhatsApp webhooks | body and status keys in Redis, rows of sends and replies | processMetaEvent, applyStatusEvent, applyInboundMessage, persist | Meta, database, broker |
| `event-receiver`, `tracker`, `geolocation` | none | receive, publish, look up | broker |
| `send-push` | the keys `processing` and `processed` of a push in Redis | processSingle, process | Firebase, broker |
| `send-whatsapp`, `twilio-messaging` | none | batch and single sends | providers, broker |
| `msgops-api` enterprise import | one row per import | create, resume, reset | the BullMQ queue of imports |
| `enterprise-import` | checkpoint, progress, id map | process, runPipeline, the importers, onFailed | database, the source's API |
| API administration, frontend, SQL generation, shared packages | rows, pages, text | CRUD | |

PROJECT.json lists them with their sources and says what is modelled.

What is hard in it:

* AMQP deliveries, timers, losses and shutdown interleave in one event loop;
  delivery tags start again on each channel; an ack cannot be taken back.
* A scheduler job or a message may run again although it did its work.
* The tracker loads a row, waits, and writes all of it; the API and the packer
  change the same row meanwhile.
* Keys in Redis guard against duplicates and expire.
* The HTTP bridge stops waiting after a timeout, and the call goes on.
* Duplicates are avoided by reading first and writing later, without constraint
  or lock: dedup keys, rows of automations, rows of an import.
* Whatever carries a piece of work (a job, a message, a report) is the only trace
  that the work is to go on; what drops it leaves a row that never moves again.
* The audience of a campaign is divided with integer arithmetic in SQL and in
  TypeScript, in three variants, and the pages are sent in any order.

What makes each part correct: an outage is always being worked on and close is
final (connection); a message is never lost, handled and dead-lettered, or
dead-lettered early, and a shutdown ends (consumer); every contact gets the
campaign once, within the limits (paging); a cancelled campaign sends nothing,
any other is completed without skipping a page (campaign); a recurring campaign
keeps its rhythm, its limit and one job (recurring); a package goes out once per
delivery and stays until it is reported (send_batch); a running row has a message
that carries it, and the entry policies hold (automation); an event is counted once,
and a status that is held off is in the rows (event_process, whatsapp_status); an
import copies each
row once, completes only when it has all of them, and ends (import).

## The modules

### AmqpConnection

`packages/messaging/src/connection.ts`. A step is one run of the event loop; two
steps interleave exactly where the code awaits a socket or a timer.

| State | Code |
|---|---|
| `conn`, `open`, `opened` | `this.conn`; connections are numbered, 0 is null; `open` are those the broker still has |
| `dial`, `dialTry` | `this.connPromise`: connectWithInitialRetry connecting or sleeping, and its `i` |
| `reconnectPending`, `reconnectTimer`, `reconnectAttempt` | the fields of that name; the attempt is saturated at `AttemptCap`, where its delay is constant |
| `redials` | calls of attemptReconnect that await the broker |
| `notified` | the connection for which the onReconnect listeners last ran |

Each method, event and continuation is an action of the same name. The delay of
a timer is left out.

### AmqpConsumer (with MCAmqpConsumer)

`packages/messaging/src/consumer.ts`, with the broker. Packets are copies of a
message (identity and attempt number); deliveries carry the channel pair and the
delivery tag, which is all an ack sends: `Settle` is safeAck/safeNack on
*whatever channel `this.channel` is now*. `mode` walks through the awaits of
doShutdown. `Lose` and `Reconnect` stand for the connection below. `LinkGone`
returns unacked deliveries to the queue and lets any part of the unconfirmed
publishes have arrived. `Dies` is the end of the process: a kill, the exit after
a shutdown, or the unhandled rejection of a publish on a dead channel, which
Node.js answers by ending the process. An ack with an unknown tag makes the
broker close the channel; the class has no error listener on its channels, so
the error reaches the connection and `Lose` follows.

Decisions: both channels live and die together (they share a connection);
`consume` at boot is one step, since a failure in it ends the process;
`StartConsume` and `ReestablishDone` are two, since deliveries may arrive
between them; a handler result of `undefined` is an ack; a message that cannot be parsed
is dead-lettered, or acked without a trace when there is no publish channel
(`AckUnparsed`).

### CampaignPaging

`campaign-packer`'s arithmetic: `GetLimit`, `Boundaries` (countByTags),
`GroupEnds` (startedTestAB), `PageFirst` and `Batch` (createBatches) are
operators on an audience `1..contacts`; the state machine walks a simple, split
or A/B campaign through trigger, test groups, result and the winner's batches
while workers take pages in any order. Each contact of the list is taken to be
reachable on the channel, so a page addresses its whole range.

### CampaignRun (with MCCampaignRun)

One campaign across processes. `row` is the status and `deleted_at`; `listed`
says that `campaigns_contacts` has its rows; `stopFlag` and `dedup` are the keys
`stop_campaign_<id>` and `campaign:<id>`; `trigger` is the scheduler's job;
`packs` and `jobs` are the two packer queues; `worker` is the single worker of
`campaign-schedule-page`, stopped at each await; `sendQueue` and `events` are
AMQP queues; `tracking` holds the tracker's updates between their load and their
write (the consumer of the tracker has a prefetch of ten). The pages are names:
what a page addresses is CampaignPaging's subject. Deletion while the trigger
runs fails, as BullMQ does not remove a locked job.

`InTime` states the one use of time: the last page of a simple campaign is
queued with ten minutes more than any other, and the one worker takes due jobs
in order, so a page that never went out is taken before it. It assumes that ten
minutes cover the delays of the others; nothing enforces this when a backlog is
longer.

### RecurringSchedule (with MCRecurringSchedule)

A recurring campaign over days: `jobs` are the delayed triggers, with the service
that made them (the API's are in another queue than the tracker's); `running` are
occurrences under way; `reports` is the tracker's queue, and `tracker` the updates it
works on at once, in two handlers of the ten its prefetch allows. Each is taken through
the awaits of updateStatus: `LoadRow` reads and merges (what it is to write is in
`next`), `SetRecurring` works out the next occurrence and adds its job, and `WriteRow`
writes every column as it was loaded and merged; the deletion of the campaign's contacts
and the reading of the timezone, which touch nothing here, are in these. The early returns
are included: the equality with `untilSend`, the return of `scheduleTo` to the date sent before when nothing comes
after, and that *any* report handled while the row says completed makes the
campaign recur. `strayed` records what the properties except, when it happens: a write
that undoes a count, a stop or a deletion (`Harm`), a repeated report, a late one.
`NextOccurrence` is the loop of nextOccurrence, jump by jump;
`KeepsRhythm` compares it with a declarative `Eligible`. Days stand for dates, all
at the campaign's hour; monthly campaigns are left out (Date.setMonth). The
sending of pages is CampaignRun's subject and is one step here.

### SendBatch (with MCSendBatch)

The way of a package: `message` is the AMQP message and its attempt, `stored` what
Redis has under its key ("null" is the string the error path writes when there was
nothing to read), `calls` the HTTP calls a service works on, each at one await of
campaigns and campaignBatch (send-email) or of processCampaign (send-whatsapp).
`mails` and `emails` are history: what a contact got of a package, and by send-email.
`TimesOut` is the bridge giving up; `Answer` counts only while the bridge waits
(`Awaited`). `counting` are the unawaited increments of saveBatchToRedis, which may fail:
the error is logged, the count is lost, and a counter may have been set to zero
(`CountFails`). The
duplicate check is in the model as what it does, which is nothing: campaignBatch
calls it without the account (batch.service.ts:59), and the keys are written with
one.

### AutomationRun (with MCAutomationRun)

One contact in one automation, across tag-process, message-trigger, send-email,
send-push and twilio-messaging. A run is a row of `contacts_automations`; its place is
only in the messages and calls (`queue`, `mail`, `checked`, `mailing`, `completing`). `entry` holds the handlers of starting
events at their awaits. The stop flags are `removeFlag` and `target`. Every step
of the flow that only publishes its successor (delays, conditions, A/B, tags) is
a "wait": which successor a condition chooses changes the place and nothing else.
The steps after a send come by AMQP through the bridge, which takes a 4xx for
success; the others are BullMQ jobs with three attempts, after which a job stays in the
failed set, which no service reads. Either way the step is lost (`StepFails`,
`CompleteFails`); that three attempts fail is one mishap in the model. A push is guarded by
two keys, `processing` and `processed`, which the code reads before it sets the first;
the model notes which run wrote them, so that `PushDrop` can tell a repeated delivery,
which may be dropped, from another run, which ends there. A text is guarded by nothing;
its next step travels as a key of Redis under which twilio-messaging puts the message
for twelve hours, which the model does not tell from the message. The selection and
the update of rows in completeTargetedAutomations are one step. Accounts listed in
send-email for which a duplicate ends the run are the "malformed" outcome of
`MailRefuse`.

### EnterpriseImport (with MCEnterpriseImport) and AccountImport

EnterpriseImport is the row of an import, its BullMQ job and the workers that run
the pipeline, page by page: `Commit` (the transaction of a page), `Record` (its
ids, one by one), `SetCheckpoint`, `UpdateProgress`. Workers crash or lose the lock
of their job at any point, and BullMQ retries, stalls and gives up (the external
operators). The source is constant: rows that change in it while they are read are left out. AccountImport is what whoever asks for an import is promised: a state
machine of a status, the steps that are selected and the number of copies of each row of
the source (`KindOf` is its step). The property
`KeepsPromise` is its specification under the refinement mapping at the end of
EnterpriseImport: `copies` counts the rows of the account an import has made of a
source row, relations being found by the keys of their two ends.

### EventProcess (with MCEventProcess)

Messages of provider events, the calls the bridge makes of them, and what Redis has:
`lock` (`event-process:processing_lock:<hash>`, with the token of its holder),
`processed` (the markers), `seen` (the events of mail providers) and `count`. The key
of a message is a hash of its payload, so the model uses the content itself. A call
walks through the awaits of processWithIdempotency (`IsProcessed`, `AcquireLock`,
`IsProcessedAfterLock`, the processor, `Mark`, `ReleaseLock`), and the processor through
those of its kind: `Begin` (the filter of SendGrid; for WhatsApp Cloud the counters),
`Effects` (contacts, logs, messages to others), `Count`. `Fails` leads to `ReleaseLock`, the
`finally` of the code, and a negative answer. `LockExpires` may happen under a call
that is slow. Events of kinds a processor does not know return early and are left out.
SendGrid stands for the mail providers: the others (Mailersend, Mandrill, Resend, SES,
SparkPost) have the same order of filter and counters.

### WhatsappStatus (with MCWhatsappStatus)

The statuses of one WhatsApp message. `requests` are deliveries of Meta the webhook
works on, with the report they are at and the await within applyStatusEvent or
applyInboundMessage; `Path` is the order of these awaits for each verb. `bodyKeys` and
`statusKeys` are `wa:webhook:meta:<body>` and `wa:webhook:status:<wamid>:<verb>`; `row`,
`stored` and `mirrored` are the send, its columns and replies, and the contact;
`copies` is the queue of the persister. `queue` holds the events on their way to
event-process, with the send they belong to or without. Of event-process this module has
what decides how often a status is counted: `SkipEvent` (the marker, or somebody's lock),
`BeginEvent` (the lock is taken and the marker looked for again), `CountEvent` (the
counters), `LogEvent` (the logs, the marker, the release of the lock), and its failures: `EventFails`,
`EventTimesOut`, `EventCrash` and `LockExpires`. EventProcess has its awaits one by one.
A lock expires under a live call only after the bridge has given up on it (30 seconds
against 60); that the attempts of a message are used up is one mishap. The events of
replies belong to no campaign, so that event-process counts nothing of them, and they are left out.
`Post`, `MetaTimesOut` and
`DueAgain` are Meta, which delivers again what was not answered with success.

The modules meet at these points: AmqpConsumer relies on AmqpConnection's
`OutageEnds` for the fairness of `Reconnect`; CampaignRun's last pages are those
CampaignPaging has one of per batch (`OneLastPage`); its queues deliver at
least once because of AmqpConsumer's `UnfailedSurvivesExit`. RecurringSchedule takes
the occurrence from CampaignRun (one report of a last page, unless something
fails), and SendBatch shows when that report is missing. The negative answers of
SendBatch, AutomationRun and EventProcess are the `nack` of AmqpConsumer, and its
attempts theirs. WhatsappStatus publishes what EventProcess counts.

## The runs

| Run | What it asks | Result |
|---|---|---|
| `connection` | timers, redials, losses and close in every order; outages end | holds |
| `consumer_safety` | what happens to each message, and does the drain wake up | holds |
| `consumer_live` | shutdowns end, subscriptions return, messages are settled | holds |
| `consumer_stale_ack` | do stale acks do nothing? | **violated** |
| `paging` | each contact once, nobody skipped | holds, the seam page excepted |
| `campaign` | stopped campaigns stay silent, others are complete and sent once | holds |
| `recurring` | the next occurrence: its day, its job, the number of them | holds |
| `send_batch` | how often is a package sent, and is it ever lost unreported? | holds |
| `automation` | does a running row have a message; entry, dedup and target | holds |
| `import` | does an interrupted import keep the promise of AccountImport, and end? | holds |
| `event_process` | how often is an event counted, and is what is acked counted? | holds |
| `whatsapp_status` | what do the keys and the answers to Meta promise, and is a status counted once? | holds |

The violated property quotes a statement of the repository; the finding in
PROJECT.json says which and what the counterexample does.

Several properties of passing runs are stated with an exception, because the code
breaks the plain form. The exceptions are worth reading, since each is something
the code does:

* `OneMessageEach` leaves out the seam page, and
  `SimpleSkipsOnlyWhenCancelled` is about simple campaigns (see below).
* `StoppedSendsNothing` excepts a trigger that was under way when the stop began
  and listed the contacts again.
* `LimitKept` and `OneJob` except a campaign whose report was repeated or put back
  after its job was made (`repeated`: it is counted twice), and one that was `rescheduled`: the
  tracker's job is in a queue that SchedulerService.delete does not search, and
  fires beside the new one. Both except an update that undoes the count of another, or
  works out the next occurrence from a row that has been counted since (`overwritten`): the tracker handles ten
  reports at once, and a "started" report loaded before the "sent" one is counted and written after it
  puts count, date and job back, with no failure at all (`LimitWithoutMishap` below).
  `LimitKept` excepts a report that finds the campaign
  `completed`, which counts past `untilSend` and recurs for ever, since the limit is
  compared for equality. `OneJob` excepts a stop or deletion that a write undoes, and a
  job that is due at once and runs before the row points to it (`overtaken`).
* `AllAreSent` is about behaviours without failures and requests in which no report is
  repeated or late and no update undoes another; a job that overtakes its row is allowed.
* `OncePerDelivery` allows one more mail for each time the message is handed out
  again: nothing recognises a package that was sent.
* `LimitHolds` excepts contacts that were checked while another mail to them was
  on its way, or whose count was lost: in a crash, or to an error of Redis that
  saveBatchToRedis logs and forgets (batch.service.ts:274 of send-email).
* `RunningIsCarried` excepts runs whose message was acked with an error, or was a job that
  failed three times (queue.publisher.ts:96 and 128 of message-trigger), dropped at
  the remove flag, or turned away by send-push: the keys of a push name the contact and
  not the run, so a run that reaches the push within three minutes of another one, or
  within a minute after a call that died, is dropped there with a 2xx
  (app.service.ts:45 and 51 of send-push). The rows of all of them say running for ever.
* `UniqueEntersOnce` excepts two events between the check and the insert together;
  `DedupHolds`, about pushes and the emails of "unique" automations, two sends between
  the read and the write of the key, a key that was
  not written, and one that expired; `TargetStops` a message delivered twice.
* `CheckpointCovers` and AccountImport except an import that is resumed with
  another selection (when the step of the checkpoint is not selected, nothing runs
  and the import is completed) and two workers at work on one import, which happens
  when a lock expires under a worker that goes on.
* `CountedOncePerFailure` is about events that come in one content (`OneContent`; the same
  event in two contents is another message to the code) and allows one more count for each
  call that began to process a
  content and left no marker (`again`): twilio, push and WhatsApp Cloud have no filter
  on events, and a call slower than its lock counts beside the next one.
* `AckedIsCounted` excepts contents a call passed over (`dropped`): the lock of a dead
  call turns the redelivered message away, and the filter on mail events takes a
  failed batch for a repeated one. Both are acked and never counted.
* `HoldsItsLock` excepts calls whose lock expired under them (`outlived`).
* `AnsweredIsStored` excepts statuses that found no row (`unknown`, see below) and
  bodies whose key was taken by a delivery still at work or dead (`premature`);
  `QuietIsCounted` an event that was not published, which the code accepts, one that was
  passed over for somebody's lock or whose attempts were used up (`dropped`), and one
  that came first without its send (`plainFirst`), after which the marker turns the
  event that would be counted away; and it allows one more count for each call that
  failed, died or outlived its lock before the marker (`again`), since the
  counters are written before the logs.
* `ImportEnds` (and `ActiveIsCarried`) except a job given up for stalling, and a row
  saved as pending whose job could not be put into the queue: both rows stay as
  they are, and can neither be resumed nor imported again.

### Known divergences

Eleven more properties are defined in the modules and are checked by no run: each fails
when it is added as an INVARIANT to the configuration named. They are kept to say
what the code does not do.

| Property | Configuration | What the code does |
|---|---|---|
| `ClosedLeavesNothingOpen` | AmqpConnection.cfg | getConnection stores the connection of a dial that was under way when close ran (connection.ts:88); README.md:108 of the package says that shutdown closes the underlying connection |
| `RetriesSurviveDrain` | AmqpConsumerSafety.cfg | a retry timer that fires during the drain drops a message that was acked (consumer.ts:304); README.md:108 says that the shutdown waits for pending retry timers to drain |
| `EveryPackageFits` | CampaignPaging.cfg | the only page of an A/B batch starts one contact too low (campaign.service.ts:111 of campaign-packer), and send-email asserts the limit (batch.service.ts:130) |
| `DeletedSendsNothing` | CampaignRun.cfg | an update the tracker loaded before a deletion writes the row back (msgops.service.ts:61 of the tracker); the comment at campaign.service.ts:193 counts on the fresh row |
| `SkippedOnlyWhenCancelled` | CampaignRun.cfg | the last page of a split campaign's first group completes the campaign, and pages of the other groups are skipped (campaign.service.ts:107) |
| `LimitWithoutMishap` | RecurringSchedule.cfg | an update of the tracker that was loaded before another one counted an occurrence writes its row after it (msgops.service.ts:61 of the tracker): with `untilSend` of 2, three occurrences are sent without any failure or request |
| `CanceledStops` | AutomationRun.cfg | message-trigger looks for the stop key of a canceled run under another name than the one tag-process writes (msgops.service.ts:360 of tag-process, app.service.ts:72 and 82 of message-trigger): the run goes on |
| `DeletedWasOrphan` | EnterpriseImport.cfg, with `Existing = {TRUE}` | an import that fails before its first page soft-deletes an account that was there before it (enterprise-import.processor.ts:200; the comment at line 188 speaks of an orphan) |
| `RetriesAreNotCounted` | EventProcess.cfg | a WhatsApp Cloud event is counted before its logs are saved (whatsapp-cloud.service.ts:83), and again in the retry of a call that failed in between; the comment at events.service.ts:106 says that retried deliveries hit the marker |
| `PublishedOnce` | WhatsappStatus.cfg | a status without a row is published without a key (whatsapp-webhooks.service.ts:195), and again when its body comes again; the comment at app.controller.ts:288 of event-process says that the key prevents any republish |
| `UnknownIsReconciled` | WhatsappStatus.cfg | a status that comes before its row is answered with 200 (whatsapp-webhooks.service.ts:203), so that Meta does not deliver it again; the comment at line 164 counts on a retry that reconciles the row |

### Also true

These properties of the modules hold when they are added to the configuration named.
The runs leave them out because what they say follows from the others, or is proved.

| Property | Configuration | Why no run checks it |
|---|---|---|
| `TypeOK`, `TimerAgrees` of AmqpConnection | AmqpConnection.cfg | proved; without them no outage would end |
| `DrainWaitsForHandlers` | AmqpConsumerSafety.cfg | proved |
| `OneLastPage` | CampaignPaging.cfg | proved |
| `PageFitsLimit` | CampaignPaging.cfg | proved |
| `RunEnds` | AutomationRun.cfg, with FairSpec and `MaxMishaps = 0` | `RunningIsCarried` and the fairness of whoever carries |
| `ActiveIsCarried` | EnterpriseImport.cfg | proved |
| `TypeOK` of EventProcess | EventProcess.cfg | proved |
| `TypeOK` of WhatsappStatus | WhatsappStatus.cfg | proved as far as the proofs need it |
| `Settles` of EventProcess | EventProcess.cfg, with FairSpec | attempts are bounded and locks expire |

### Bounds

* `AmqpConnection`: four losses allow two connections to be open together (a
  caller's dial and a redial) and each to be lost twice. Two initial tries show
  both branches of the loop; the attempt counter saturates at three.
* `AmqpConsumer`: two messages are the fewest for a stale tag to hit another
  delivery; with `MaxRetries = 2` there is a retry and a last attempt; a loss, a
  death and a requeue may each happen once, two channel pairs let one reestablish
  succeed. The liveness run has one message and no requeue, but a third channel
  pair: a refused stale ack can then take the connection down while reestablish
  is under way, and `ConsumptionResumes` asks for the attempt after that.
* `CampaignPaging`: with a limit of two, seven contacts give batches of one to
  four pages, full and partial last pages, and spreads that reduce the limit to
  one; two or three messages give groups of unequal size, missing groups and the
  group size of zero.
* `CampaignRun`: two pages (the last one and another), at most two dispatches of
  the trigger, one failed attempt or expired key, one request of the operator.
  Two calls and one mishap already reach duplicated pages, expired keys during a
  second run and a lost last page; a third adds only multiplicity.
* `RecurringSchedule`: every second day twice, daily until a day, and two
  weekdays of every other week twice; work lags by one day or by thirteen,
  more than one of the campaign's periods. Three jobs are the two of a campaign
  and one made by a repeated report, a rescheduling or an update from a stale row; one
  mishap or one request; two handlers, which is the fewest for a write to undo another.
* `SendBatch`: two mail packages to one contact (the fewest for the daily limit),
  or two WhatsApp packages with one and two contacts; `MaxAttempts = 3` of the
  code's four deliveries, so that a late answer can meet a message that has been
  handed out again; two mishaps, one of which may be a timeout and the other a
  failure of the call that was left running.
* `AutomationRun`: an email, a text and the end, or a delay, a push and the end, give
  AMQP and BullMQ steps, each service that sends, and the keys of two of them; two
  starting events overlap or repeat; one failure or one request in a behaviour
  (`MaxTrouble`), at any point, while keys of a push expire at any moment.
* `EnterpriseImport`: tags, two pages of contacts and their relations on one page,
  so that a resumption can fall within a step, between steps and before a step that
  needs the id map; two workers, two attempts, one stall, two requests, two mishaps.
* `EventProcess`: two messages with the same content of each kind, or two mail batches
  of which one contains the other; `MaxAttempts = 2` of the code's four deliveries
  gives a late call beside its retry; two mishaps (a timeout and a slow call, a crash
  and a failure). Markers (an hour), events seen (ten minutes) and counters do not
  expire within a behaviour, and the commands of Redis wait rather than fail.
* `WhatsappStatus`: two bodies, of one status and of the same one after a reply and another
  status, each
  delivered at most twice; two mishaps, so that a status is counted up to three times, and
  an event with its send meets the lock of a dead call or of one without it; the key of a
  body expires only when no request
  for it is at work, the locks of event-process at any time (under a call only when the
  bridge has given up on it), the other keys and the markers not at all. The commands of Redis do not fail
  (when one does in the webhook, the code goes on as if there were no key).

Deadlock is checked in `paging`, whose last step is explicit. The other systems
may rest: a closed connection, a settled queue, a finished campaign, run or import
does nothing more, and the bounds use themselves up.

### Fairness

* connection: timers fire (weak); a broker dialled again and again answers in
  the end (strong fairness of ReconnectOk: a refused redial disables it).
* consumer: the broker delivers and answers, handlers end (every service bounds
  them by the timeout of the bridge), timers fire. Losses, deaths, requeues and
  shutdowns have no fairness, except the loss that follows a channel error.
* campaign: the workers and queues of each process go on. The scheduler, the
  packer and the page worker are fair as processes, not action by action; mishaps
  and the operator have no fairness.
* recurring: jobs fire and pages are sent, the tracker takes reports, the updates it works
  on go on (the queries and the queue answer or throw), and time goes by (weak, each).
* send_batch: the broker delivers and a call that has begun goes on (the provider's
  client and Redis answer or throw), the background counting too.
* automation (`RunEnds`): the entering events, the steps, the mails and the completions are
  each served by a consumer or worker of their own; requests, failures and expiring
  keys have no fairness.
* event_process (`Settles`): the broker delivers and calls go on (weak), locks expire
  (weak); timeouts, crashes and failures have no fairness. whatsapp_status states none.
* import: the API finishes a call it has begun, and each worker that has work goes
  on with it; errors, crashes, lost locks and requests have no fairness.

## The proofs

TLAPS checks the theorems below for every value of the constants that satisfies the
assumption of the module (`ConnectionAssumption`, `ConsumerAssumption`,
`PagingAssumption`, `RecurringAssumption`, `SendBatchAssumption`, `AutomationAssumption`,
`ImportAssumption`, `EventProcessAssumption`, `WhatsappStatusAssumption`). Most of these
say that bounds are natural numbers, and what the code guarantees of the configuration;
sets of messages, packages, pages and contacts need not be finite. `ImportAssumption` says more,
because the promise depends on it: each step of the source has pages (one that is empty, if nothing else), which are finite sets; a row
belongs to one step, and the steps are ordered so that what a relation refers to is an
entity of an earlier one (the order of the pipeline); a relation is known by its ends
(the unique keys of the relation tables); and a selection includes the parents of its
steps (expandSelectedSteps). It also says that `Nobody`, the owner of a job whose lock no process
holds, is not a worker.

Every invariant and every action property that a passing run checks is stated by a
theorem. Each is proved from an inductive invariant that TLC checked first. Of CampaignRun the proofs assume only that the last page of a simple
campaign is one of its pages.

* **AmqpConnectionProofs.** `IInv` is the conjunction of the type invariant, the
  three safety invariants and `SleepsBeforeATry` (the dial sleeps only when tries
  are left, which types the loop variable). The safety invariants need each
  other: `RecoveryUnderway` is inductive only with `TimerAgrees`, because
  scheduleReconnect returns early when the flag is set. From it: `TypeCorrect`,
  `TimerAgreement`, `RecoveryAlwaysUnderway`, `CurrentAlwaysOpen`, and the action
  property `CloseIsFinal`.
* **AmqpConsumerProofs.** `TypedInv` adds to the types that the attempt number of
  a packet, wherever it is, is backed by failures on record (`AttemptInv`); hence
  `TypeCorrect` and `DeadLetterIsLastResort`. `DrainNeverMissed` is inductive by
  itself (`DrainAlwaysNoticed`). `NothingIsLost` needs `ServiceInv`: while nothing
  has gone wrong, the process either has not started, with every message queued,
  or its channels, tag and broker side are one pair (`Attached`), so that an ack
  settles its own delivery and no other (`SettleOwn`), and each step that removes
  a packet leaves its message somewhere (`KeptStep`). `OneFateOnly` is about the same
  times: `FateInv` says that a message has one copy (`OnePlace`: in the queue, unacked, with
  a retry timer or being republished) and none once it is settled; a step moves the
  copy or takes it away, and makes no second. `UnfailedAlwaysSurvives` also holds when the
  process ends and starts again. `CalmInv` follows it through that: while it serves, what it
  holds is bound to the channel it has (`Bound`); once `channel.close` has been called, an
  ack settles nothing, and the broker has taken the deliveries back (`Ended`,
  `Detached`). What is lost then was in a timer or being republished, and had failed before.
  `DrainLeavesNothing` is about the same shutdowns: while the channel is open a handler and
  an awaited dead letter have their token (`TokensHeld`), and nothing is delivered after the
  answer to cancel, so that a drain that ends by itself leaves neither behind (`WaitInv`).
* **CampaignProofs.** Three modules that share no state; the last two are instantiated.
  *CampaignPaging*: lemmas on `Boundaries` and `PageFirst` show that the ranges of a batch are
  disjoint and cover its interval, up to the seam. `PagingInv` carries that over batches:
  pages are apart unless one is the seam page (`Apart`), groups are paged from the
  last to the first, and those to come lie before the pages made (`Plan`), and every contact
  after them is on a page (`NoGap`). From it `PagesNeverMeet` and
  `PagesReachAll`; with `Fits`, `PagesFit`. `OnePageCompletes`: counted from the highest
  boundary down, the pages of a batch have each number up to their total once (`RanksAre`),
  and no two batches have one message: those of the groups are numbered from one, and that
  of a winner or of a simple campaign is zero (`NumberedInv`).
  *CampaignRun*: `MishapsAreCounted` by an account: copies of a page that are out, queued
  or held are at most the mishaps plus what the key or the runs of the trigger still
  allow (`CountInv`). `StoppedStaysStopped`: after StopClear the contacts
  stay unlisted, whatever the tracker writes, unless a trigger relists them, and a page that started
  late finds them so (`StopInv`). `SimpleReachesItsPages`: in a campaign nobody cancels, the
  last page is taken only when all others are out (`InTime`), reports of it exist only when it is
  out, and the row is completed, and the contacts removed, by such a report only (`Whole`).
  *RecurringSchedule*: `TokenInv` says that, as long as `strayed` has none of what breaks it
  (`Undisturbed`), a campaign goes on in one place, as a job, an
  occurrence under way, the report of its last page or the update this leads to
  (`OneToken`), and that of the updates at work one at most counts an occurrence, the row's
  own (`UpdatesInv`: without it a second one could undo the count). With it `LimitIsKept`
  (`LimitInv` compares what was sent with what was counted, an update about to be
  written included) and `OneJobOnly` (`JobInv`:
  the row, or the update about to be written, points to the job). `RhythmIsKept`: some day within reach suits the settings
  (`SomeDaySuits`), so that the recursive search of nextOccurrence is defined and can only
  be the function that gives the first of them (`SearchIsDefined`, `SearchIs`: of the days
  from which it would end elsewhere, one closest to that first day has no next move, because
  each move goes to a day with the same first day, `GoesToWeekDay` and `GoesToSunday`).
  `NextDateIs` says so of both frequencies, and `Days` that the dates are numbers.
* **SendBatchProofs.** `KeptUntilReportedAlways`. The property says nothing of the
  calls; what makes it inductive is `KnownReported`: a call that is about to delete
  the key, or that has found no package, works on one that was reported. `Shape`
  gives the types that the updates of records need. `OnceForEveryDelivery` counts: the
  mails a contact has of a package, the calls that may still send it one (`Open`) and
  the message if it waits are at most one more than the times it was handed out again
  (`OnceInv`). `LimitAlwaysHolds`: as long as a contact is not excused, there is one
  mail to it on its way or one that is not counted yet, never both, and what it has got is
  what is counted with the one that is not (`InStep`); a count that fails excuses its
  contact, and no other (`LostLimit`).
* **AutomationRunProofs.** `UniqueOnlyOnce`, by `OneComesIn`: while a handler is past
  the check and has not inserted, there is no row, and no other such handler unless
  `overlapped` records it. `DedupAlwaysHolds`: the sends of a step and those past its check
  are at most the excused ones and the one the keys allow (`DedupInv`).
  `RunningAlwaysCarried`: every message, call or handler that holds a run is handed to the next
  place in one step, and `CarryInv` says that a running row always has one, or is excused.
  `TargetAlwaysStops`: without mishaps a run is in one place only (`Alone`), so that the call
  that completes it leaves nothing behind that could go on.
* **EnterpriseImportProofs.** `InOrder` is the invariant `ImportInv`: until two processes
  overlap, no row is in the table twice (`TableOK`), the recorded ids are those of rows that
  are there (`IdsOK`), one worker runs the import as its row says (`Solo`), and, unless the
  selection changed, what lies before the checkpoint, or before the page the worker is at, is
  written with its ids recorded (`Covered`). From it `SkippedIsCovered`, and
  `ImportKeepsPromise`: under the refinement mapping every step of the import is a step of
  AccountImport or changes nothing of it. `CompleteAndOnce` says what that amounts
  to, by an invariant of the promise alone: no row is copied twice, and a completed import has
  copied all that was selected, unless two processes overlapped or the selection changed.
  `ActiveHasAJob` is `ActiveIsCarried`, by `CarryInv`: a job is active exactly while a process
  holds its lock, and that process is at work on it (`Locks`); each call of the API makes
  one job at most, so that there is always one to make (`Room`); and the job that carries the import is
  waiting, or its process has not yet called the import failed (`Carries`).
* **EventProcessProofs.** `TypeCorrect`. `LockIsHeld`: two calls never have one token,
  because a message is delivered again only with a higher attempt or when the service
  died with its calls (`AttemptsGrow`, `OneCallEach`); so a release deletes no lock but
  the caller's own. `MailOnce`: for each event of a mail provider, at most one call has
  it among its `fresh` events with the count to come, and only while its counter is
  zero (`OnceTaken`); this needs neither the lock nor the marker, which is why the
  property has no exception. `AckedAreCounted`: a marker, and a call past the count, mean that
  the content is counted (`AckInv`). `CountedOnceAndPerFailure`: with the lock held by one
  call in time, the counts of a content and the calls that may still count it are paid for
  by the marker, that call, or the calls in `again` (`PaidInv`).
* **WhatsappStatusProofs.** `KeysMeanStored`: a request at its "contact" or "key" step
  has written what comes before it on its path (`Ready`), and nothing takes it back.
  `AnsweredAreStored`: a delivery at work has stored the items it is past (`OnWay`), and an
  answer of success comes after the last. `HeldOffIsCounted`: the event of a status that is held off is
  being published, in the queue, with a call that will be answered, behind its marker, or
  excused (`Heading`); a marker means that the status is counted unless an event without the send came
  first (`Marked`); and the tokens drawn for the lock of a status, of which each counts
  once, are paid for by the calls in `again` and the one that holds the lock
  or has left the marker (`Drawn`).

Model-checked only: everything under fairness (`OutageEnds`, the consumer's liveness, `Completes`,
`AllAreSent`, `Settles`, `RunEnds`, `ImportEnds`). Liveness and ENABLED are out of the
prover's reach, and so is induction over data by the theorems of the library. Where a
proof needs a greatest element of a finite set, or what a recursive function computes, it
takes a minimal counterexample instead, among the subsets of the set (`HasMax` of
CampaignProofs) or among the natural numbers (`FirstOf`), which are facts about sets the
library has.

## Not modelled

* the publisher, and failures of a single channel while its connection lives, other
  than by a refused ack; cancellation of a consumer by the broker;
* the winner of an A/B test, monthly recurrence, the fields of create and update of
  campaigns, the counters of IP pools and the sent counters in Redis;
* conditions and A/B steps of automations beyond the choice of a successor, and
  triggers by events and segments;
* imports of a whole instance (they keep ids and run once, into an empty system),
  the update of rows that are there already, and resetForSetup. The last removes the
  jobs with obliterate before it deletes the data "so the worker does not keep
  writing" (enterprise-import.service.ts:158); a worker that is active is not stopped
  by that;
* the campaign batches of send-push and twilio-messaging and the single messages of the
  latter: no queue is bound to them ("Hoje sem fonte AMQP", app.controller.ts:30 and 46 of
  twilio-messaging), so that nothing calls them but HTTP from outside;
* the mapping of provider events and the columns they write; the templates and hub
  events of the WhatsApp webhooks;
* rendering, SQL text, administration, frontend: no behaviour over time that a model checker would add to. They are by far
  the larger part of the lines of the repository.

## Plan

1. `AmqpPublisher` (publisher.ts): the shared channel promise, cached assertions
   of a lost channel, close during a dial.
2. Composition: CampaignRun over CampaignPaging's pages and SendBatch's packages; the
   winner of an A/B test in CampaignRun.
3. The reset of an import, and the import of an instance.
