-------------------------- MODULE EnterpriseImport --------------------------
(***************************************************************************)
(* The import of one account from BMS Enterprise (scope=account), which    *)
(* can be resumed: the service of msgops-api that keeps one row per import *)
(* and puts BullMQ jobs for it, and the processor of enterprise-import     *)
(* that pages through the source, step after step.                         *)
(*                                                                         *)
(* A row of the source stands for its natural key.  A step without Refs is *)
(* a BaseImporter (tags, contacts); one with Refs is a relation whose ends *)
(* are translated by the id map (contact_tags).  A page is fetched and     *)
(* committed, then its ids are recorded, then the checkpoint moves, then   *)
(* progress is reported; a crash can fall between any two.                 *)
(***************************************************************************)
EXTENDS Naturals, Sequences, FiniteSets, SequencesExt

CONSTANTS
    Workers,      \* processes that run the processor, one job at a time each
    Steps,        \* the pipeline: a sequence of step names
    Source,       \* for each step, its pages: sequences of sets of rows
    Refs,         \* for each row, the rows it refers to
    Existing,     \* whether the account may be there before (BOOLEAN, or part of it)
    Selections,   \* the selections of steps an operator may ask for
    MaxAttempts,  \* attempts of a BullMQ job
    MaxStalls,    \* stalls BullMQ allows before it gives a job up
    MaxRequests,  \* bound on calls of the API
    MaxMishaps    \* bound on errors, crashes, stalls and failed enqueues

Names == Range(Steps)
RowsUpTo(s, n) == UNION {Source[s][p] : p \in {q \in DOMAIN Source[s] : q <= n}}
Rows == UNION {RowsUpTo(s, Len(Source[s])) : s \in Names}
Jobs == 1..MaxRequests
Index == [s \in Names |-> CHOOSE i \in DOMAIN Steps : Steps[i] = s]
StepOf == [r \in Rows |-> CHOOSE s \in Names : r \in RowsUpTo(s, Len(Source[s]))]

\* The owner of a job whose lock no process holds.
Nobody == ""

ASSUME ImportAssumption ==
    /\ Steps \in Seq(Names) /\ Len(Steps) > 0 /\ IsInjective(Steps) /\ "" \notin Names
    /\ DOMAIN Source = Names
    /\ \A s \in Names : /\ DOMAIN Source[s] = 1..Len(Source[s]) /\ Len(Source[s]) \in Nat \ {0}
                        /\ \A p \in DOMAIN Source[s] : IsFiniteSet(Source[s][p])
    \* a row belongs to one step, and a relation is known by its ends
    /\ \A s, t \in Names :
          RowsUpTo(s, Len(Source[s])) \cap RowsUpTo(t, Len(Source[t])) # {} => s = t
    /\ \A r, q \in Rows : Refs[r] = Refs[q] /\ Refs[r] # {} => r = q
    /\ "relation" \notin Rows
    \* the steps are ordered: what a relation refers to is an entity of an earlier one
    /\ \A r \in Rows : \A q \in Refs[r] : q \in Rows /\ Refs[q] = {}
                                          /\ Index[StepOf[q]] < Index[StepOf[r]]
    \* expandSelectedSteps: a selection includes the parents of its steps
    /\ \A S \in Selections : S \subseteq Names
                             /\ \A r \in Rows, q \in Rows :
                                   StepOf[r] \in S /\ q \in Refs[r] => StepOf[q] \in S
    /\ Existing \subseteq BOOLEAN
    /\ MaxAttempts \in Nat \ {0} /\ MaxStalls \in Nat /\ MaxMishaps \in Nat
    /\ MaxRequests \in Nat \ {0} /\ Nobody \notin Workers

NoStep == [step |-> "", page |-> 0]

VARIABLES
    row,        \* enterprise_import_jobs: the import
    account,    \* accounts: "none", "live" or soft-"deleted"
    existed,    \* the account was there before the import
    table,      \* the rows of the account, in the order of their ids
    idMap,      \* enterprise_id_mappings: source row -> id
    bull,       \* the BullMQ jobs
    worker,     \* what each process is doing
    enqueuing,  \* rows saved as pending whose job is not yet in the queue
    requests, mishaps,
    overlapped, \* (history) two processes ran the import at once
    reselected, \* (history) it was resumed with another selection
    abandoned   \* (history) its BullMQ job was given up, or never made

world == <<account, existed>>
data == <<table, idMap>>
history == <<overlapped, reselected, abandoned>>
vars == <<row, world, data, bull, worker, enqueuing, requests, mishaps, history>>

Idle == [at |-> "idle", job |-> 0, step |-> "", page |-> 0, cache |-> <<>>, pending |-> <<>>,
         from |-> NoStep]

Mishap == mishaps < MaxMishaps /\ mishaps' = mishaps + 1
Request == requests < MaxRequests /\ requests' = requests + 1

Init ==
    /\ existed \in Existing
    /\ account = IF existed THEN "live" ELSE "none"
    /\ row = [status |-> "none", checkpoint |-> NoStep, progressed |-> FALSE, key |-> FALSE,
              selected |-> Names]
    /\ table = <<>> /\ idMap = <<>>
    /\ bull = [j \in Jobs |-> [state |-> "none", made |-> 0, stalls |-> 0, owner |-> Nobody]]
    /\ worker = [w \in Workers |-> Idle]
    /\ enqueuing = FALSE
    /\ requests = 0 /\ mishaps = 0
    /\ overlapped = FALSE /\ reselected = FALSE /\ abandoned = FALSE

(***************************************************************************)
(* msgops-api: the row and its job.                                        *)
(***************************************************************************)

\* createAccountImport creates the account, or takes the one of that name, and
\* restores it when it had been deleted.  An import that is pending or running
\* is left alone; one that failed is resumed, with the selection it is given;
\* otherwise a new row starts from nothing.
Import(S) ==
    /\ Request
    /\ account' = "live"
    /\ \/ row.status \in {"pending", "running"} /\ UNCHANGED <<row, idMap, enqueuing, reselected>>
       \/ /\ row.status = "failed"
          /\ row' = [row EXCEPT !.status = "pending", !.key = TRUE, !.selected = S]
          /\ enqueuing' = TRUE
          /\ reselected' = (reselected \/ S # row.selected)
          /\ UNCHANGED idMap
       \/ /\ row.status \in {"none", "completed"} /\ \A w \in Workers : worker[w].at = "idle"
          /\ row' = [status |-> "pending", checkpoint |-> NoStep, progressed |-> FALSE,
                     key |-> TRUE, selected |-> S]
          /\ idMap' = <<>>
          /\ enqueuing' = TRUE
          /\ reselected' = FALSE
    /\ UNCHANGED <<existed, table, bull, worker, mishaps, overlapped, abandoned>>

\* resume(jobId): only an import that failed.
Resume ==
    /\ Request
    /\ row.status = "failed"
    /\ row' = [row EXCEPT !.status = "pending", !.key = TRUE]
    /\ enqueuing' = TRUE
    /\ UNCHANGED <<world, data, bull, worker, mishaps, history>>

Enqueue ==
    /\ enqueuing
    /\ enqueuing' = FALSE
    /\ LET j == CHOOSE k \in Jobs : bull[k].state = "none"
       IN  bull' = [bull EXCEPT ![j].state = "waiting"]
    /\ UNCHANGED <<row, world, data, worker, requests, mishaps, history>>

\* The row says pending, and nothing will ever run it.
EnqueueFails ==
    /\ enqueuing
    /\ Mishap
    /\ enqueuing' = FALSE
    /\ abandoned' = TRUE
    /\ UNCHANGED <<row, world, data, bull, worker, requests, overlapped, reselected>>

(***************************************************************************)
(* enterprise-import: a run of the pipeline.                               *)
(***************************************************************************)

\* (mutant) the step of the checkpoint is taken for done
RemainingAfter(selected, from) ==
    IF from = "" THEN selected
    ELSE {s \in selected : from \in selected /\ Index[s] > Index[from]}

\* runPipeline skips what is not selected, and then everything before the step
\* of the checkpoint: all of it, when that step is not selected.
Remaining(selected, from) ==
    IF from = "" THEN selected
    ELSE {s \in selected : from \in selected /\ Index[s] >= Index[from]}

First(S) == CHOOSE s \in S : \A q \in S : Index[s] <= Index[q]

\* resumePage, by the checkpoint a run has found at its start.
ResumePage(from, s) == IF from.step = s THEN from.page ELSE 1

At(w, phase) == worker[w].at = phase

\* Idle processes are alike: one of them takes the job.
Takes(w, j) ==
    /\ bull[j].state = "waiting"
    /\ At(w, "idle") /\ w = CHOOSE v \in Workers : At(v, "idle")

\* Where a process goes when it is through with the steps up to s.
GoOn(me, todo) ==
    IF todo = {} THEN [me EXCEPT !.at = "finish"]
    ELSE [me EXCEPT !.at = "fetch", !.step = First(todo), !.page = ResumePage(me.from, First(todo))]

\* What BullMQ learns of the job, if the process still holds its lock.
Release(w, state) ==
    LET j == worker[w].job
    IN  bull' = IF bull[j].owner = w THEN [bull EXCEPT ![j].state = state, ![j].owner = Nobody]
                ELSE bull

\* process() marks the row running, whatever it said, and reads the checkpoint
\* and the id map of earlier runs.
Start(w, j) ==
    /\ Takes(w, j)
    /\ row.key
    /\ worker' = [worker EXCEPT ![w] =
                    GoOn([Idle EXCEPT !.job = j, !.cache = idMap, !.from = row.checkpoint],
                         Remaining(row.selected, row.checkpoint.step))]
    /\ row' = [row EXCEPT !.status = "running"]
    /\ bull' = [bull EXCEPT ![j].state = "active", ![j].owner = w]
    /\ overlapped' = (overlapped \/ \E v \in Workers \ {w} : worker[v].at # "idle")
    /\ UNCHANGED <<world, data, enqueuing, requests, mishaps, reselected, abandoned>>

\* An import that has lost its key fails at once.
StartWithoutKey(w, j) ==
    /\ Takes(w, j)
    /\ ~row.key
    /\ worker' = [worker EXCEPT ![w] = [Idle EXCEPT !.at = "throw", !.job = j]]
    /\ bull' = [bull EXCEPT ![j].state = "active", ![j].owner = w]
    /\ UNCHANGED <<row, world, data, enqueuing, requests, mishaps, history>>

Page(w) == Source[worker[w].step][worker[w].page]

\* The rows of the page that can be written: those whose ends are in the id map.
Candidates(w) == {r \in Page(w) : Refs[r] \subseteq DOMAIN worker[w].cache}

\* A row of the account: an entity, or a relation between rows given by their ids.
Entry(w, r) ==
    [key |-> IF Refs[r] = {} THEN r ELSE "relation", refs |-> {worker[w].cache[q] : q \in Refs[r]}]

\* The id a natural key is found under: rows are re-read, and the last one wins.
IdOf(rows, e) == CHOOSE i \in DOMAIN rows : /\ rows[i] = e
                                            /\ \A k \in DOMAIN rows : rows[k] = e => k <= i

\* The pre-filter: what the account does not have yet, each natural key once.
Missing(w) == {Entry(w, r) : r \in Candidates(w)} \ Range(table)

\* One page: fetched, translated, and written in a transaction that also finds
\* out the ids of its rows.
Commit(w) ==
    /\ At(w, "fetch")
    /\ table' = table \o SetToSeq(Missing(w))
    /\ LET found == {r \in Candidates(w) : Refs[r] = {}}
       IN  worker' = [worker EXCEPT ![w].at = "record",
                                    ![w].pending = [r \in found |-> IdOf(table', Entry(w, r))]]
    /\ UNCHANGED <<row, world, idMap, bull, enqueuing, requests, mishaps, history>>

\* idMapper.record: ON CONFLICT DO NOTHING keeps the first mapping, the cache of
\* the process has the new one.
Record(w) ==
    /\ At(w, "record")
    /\ \E r \in DOMAIN worker[w].pending :
          LET id == worker[w].pending[r]
          IN  /\ idMap' = [q \in DOMAIN idMap \cup {r} |->
                             IF q \in DOMAIN idMap THEN idMap[q] ELSE id]
              /\ worker' = [worker EXCEPT
                    ![w].cache = [q \in DOMAIN @ \cup {r} |-> IF q = r THEN id ELSE @[q]],
                    ![w].pending = Restrict(@, DOMAIN @ \ {r})]
    /\ UNCHANGED <<row, world, table, bull, enqueuing, requests, mishaps, history>>

\* (mutant) the checkpoint moves when the page is committed
SetCheckpointEarly(w) ==
    /\ At(w, "record")
    /\ row' = [row EXCEPT !.checkpoint = [step |-> worker[w].step, page |-> worker[w].page]]
    /\ worker' = [worker EXCEPT ![w].at = "progress"]
    /\ UNCHANGED <<world, data, bull, enqueuing, requests, mishaps, history>>

SetCheckpoint(w) ==
    /\ At(w, "record") /\ worker[w].pending = <<>>
    /\ row' = [row EXCEPT !.checkpoint = [step |-> worker[w].step, page |-> worker[w].page]]
    /\ worker' = [worker EXCEPT ![w].at = "progress"]
    /\ UNCHANGED <<world, data, bull, enqueuing, requests, mishaps, history>>

\* (mutant) the page is read again instead of the next one
UpdateProgressSamePage(w) ==
    /\ At(w, "progress")
    /\ row' = [row EXCEPT !.progressed = TRUE]
    /\ worker' = [worker EXCEPT ![w] =
                    IF @.page < Len(Source[@.step]) THEN [@ EXCEPT !.at = "fetch"]
                    ELSE GoOn(@, {s \in row.selected : Index[s] > Index[@.step]})]
    /\ UNCHANGED <<world, data, bull, enqueuing, requests, mishaps, history>>

\* The progress of the page, and on to the next page or the next step.
UpdateProgress(w) ==
    /\ At(w, "progress")
    /\ row' = [row EXCEPT !.progressed = TRUE]
    /\ LET me == worker[w]
       IN  worker' = [worker EXCEPT ![w] =
              IF me.page < Len(Source[me.step])
              THEN [me EXCEPT !.at = "fetch", !.page = me.page + 1]
              ELSE GoOn(me, {s \in row.selected : Index[s] > Index[me.step]})]
    /\ UNCHANGED <<world, data, bull, enqueuing, requests, mishaps, history>>

Finish(w) ==
    /\ At(w, "finish")
    /\ row' = [row EXCEPT !.status = "completed", !.key = FALSE]
    /\ worker' = [worker EXCEPT ![w] = Idle]
    /\ Release(w, "done")
    /\ UNCHANGED <<world, data, enqueuing, requests, mishaps, history>>

(***************************************************************************)
(* Failures.                                                               *)
(***************************************************************************)

Busy(w) == worker[w].at \in {"fetch", "record", "progress", "finish"}

\* The source answers 4xx: the import has failed, and is not retried.
ClientError(w) ==
    /\ At(w, "fetch")
    /\ Mishap
    /\ row' = [row EXCEPT !.status = "failed"]
    /\ worker' = [worker EXCEPT ![w].at = "cleanup"]
    /\ UNCHANGED <<world, data, bull, enqueuing, requests, history>>

\* Anything else that fails is thrown on to BullMQ.
Error(w) ==
    /\ Busy(w)
    /\ Mishap
    /\ worker' = [worker EXCEPT ![w].at = "throw"]
    /\ UNCHANGED <<row, world, data, bull, enqueuing, requests, history>>

\* BullMQ counts the attempt, and tries again while there are attempts left; a
\* process that has lost the lock of its job is not heard.
Throw(w) ==
    /\ At(w, "throw")
    /\ LET j == worker[w].job
           heard == bull[j].owner = w
           again == bull[j].made + 1 < MaxAttempts
       IN  /\ bull' = IF heard
                      THEN [bull EXCEPT ![j].state = IF again THEN "waiting" ELSE "done",
                                        ![j].made = @ + 1, ![j].owner = Nobody]
                      ELSE bull
           /\ worker' = [worker EXCEPT ![w] = IF heard /\ ~again THEN [@ EXCEPT !.at = "exhausted"]
                                              ELSE Idle]
    /\ UNCHANGED <<row, world, data, enqueuing, requests, mishaps, history>>

\* onFailed, with no attempt left.
OnFailed(w) ==
    /\ At(w, "exhausted")
    /\ IF row.status \in {"completed", "failed"}
       THEN worker' = [worker EXCEPT ![w] = Idle] /\ UNCHANGED row
       ELSE /\ row' = [row EXCEPT !.status = "failed"]
            /\ worker' = [worker EXCEPT ![w].at = "cleanup"]
    /\ UNCHANGED <<world, data, bull, enqueuing, requests, mishaps, history>>

\* cleanupOrphanAccount.
Cleanup(w) ==
    /\ At(w, "cleanup")
    /\ account' = IF row.progressed THEN account ELSE "deleted"
    /\ worker' = [worker EXCEPT ![w] = Idle]
    /\ Release(w, "done")
    /\ UNCHANGED <<row, existed, data, enqueuing, requests, mishaps, history>>

\* BullMQ sees that the lock of a job has expired: it gives the job to another
\* process, or gives it up, and then onFailed finds attempts left and returns.
Stalled(j) ==
    /\ bull' = [bull EXCEPT
                  ![j].stalls = @ + 1, ![j].owner = Nobody,
                  ![j].state = IF bull[j].stalls < MaxStalls THEN "waiting" ELSE "done"]
    /\ abandoned' = (abandoned \/ bull[j].stalls = MaxStalls)

\* The process dies.
Crash(w) ==
    /\ ~At(w, "idle")
    /\ Mishap
    /\ worker' = [worker EXCEPT ![w] = Idle]
    /\ IF bull[worker[w].job].owner = w THEN Stalled(worker[w].job)
       ELSE UNCHANGED bull /\ abandoned' = (abandoned \/ At(w, "exhausted"))
    /\ UNCHANGED <<row, world, data, enqueuing, requests, overlapped, reselected>>

\* The process is too busy to renew the lock, and goes on without it.
LoseLock(w) ==
    /\ ~At(w, "idle")
    /\ Mishap
    /\ bull[worker[w].job].owner = w
    /\ Stalled(worker[w].job)
    /\ UNCHANGED <<row, world, data, worker, enqueuing, requests, overlapped, reselected>>

Running(w) ==
    \/ \E j \in Jobs : Start(w, j) \/ StartWithoutKey(w, j)
    \/ Commit(w) \/ Record(w) \/ SetCheckpoint(w) \/ UpdateProgress(w) \/ Finish(w)
    \/ Throw(w) \/ OnFailed(w) \/ Cleanup(w)

Next ==
    \/ \E S \in Selections : Import(S)
    \/ Resume
    \/ Enqueue \/ EnqueueFails
    \/ \E w \in Workers : Running(w) \/ ClientError(w) \/ Error(w) \/ Crash(w) \/ LoseLock(w)

Spec == Init /\ [][Next]_vars

\* The API finishes its calls; a process that has work goes on with it.
Fairness == WF_vars(Enqueue) /\ \A w \in Workers : WF_vars(Running(w))

FairSpec == Spec /\ Fairness

(***************************************************************************)
(* Properties.                                                             *)
(***************************************************************************)

\* What the import has made of a source row: its rows in the account.
Imported(r) ==
    {i \in DOMAIN table :
        IF Refs[r] = {} THEN table[i].key = r
        ELSE table[i].key = "relation" /\ {table[k].key : k \in table[i].refs} = Refs[r]}

\* The rows of the selected steps up to the checkpoint.
Passed == {r \in Rows : StepOf[r] \in row.selected /\ row.checkpoint # NoStep
                        /\ \/ Index[StepOf[r]] < Index[row.checkpoint.step]
                           \/ r \in RowsUpTo(row.checkpoint.step, row.checkpoint.page)}

\* What a resumed run skips has been written, and its ids are in the id map,
\* where the steps after it will look for them.
CheckpointCovers ==
    overlapped \/ reselected
    \/ \A r \in Passed : Imported(r) # {} /\ (Refs[r] = {} => r \in DOMAIN idMap)

\* An import that is pending or running has a job that will take it further;
\* if it had none, it could neither be resumed nor imported again.
ActiveIsCarried ==
    row.status \in {"pending", "running"} =>
        \/ abandoned \/ enqueuing
        \/ \E j \in Jobs : bull[j].state \in {"waiting", "active"}
        \/ \E w \in Workers : At(w, "exhausted")

\* Every import ends, unless its job is given up for stalling.
ImportEnds ==
    row.status \in {"pending", "running"} ~> (row.status \in {"completed", "failed"} \/ abandoned)

\* To whoever asked for it, it is the import of AccountImport: a row of the source
\* is one row of the account, though no constraint of the database says so, and a
\* completed import has all of them, however often it was interrupted, resumed or
\* repeated (BaseImporter.run, ContactTagsImporter, runPipeline).
Promise == INSTANCE AccountImport WITH
    status <- IF row.status \in {"pending", "running"} THEN "active" ELSE row.status,
    Kinds <- Names, KindOf <- StepOf, selected <- row.selected,
    copies <- [r \in Rows |-> Cardinality(Imported(r))]

KeepsPromise == Promise!Spec

\* enterprise-import.processor, cleanupOrphanAccount: "If it fails early ... with
\* nothing imported, the account is left orphan and empty."  Only such an
\* account, created for the import, is deleted.
DeletedWasOrphan == account = "deleted" => ~existed /\ table = <<>>
=============================================================================
