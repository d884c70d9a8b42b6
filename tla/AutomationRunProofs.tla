------------------------- MODULE AutomationRunProofs -------------------------
(***************************************************************************)
(* What holds of AutomationRun for any flow, number of starting events,    *)
(* failures and requests.  Each part has its inductive invariant:          *)
(*                                                                         *)
(*  - UniqueInv: "unique" lets a contact in once, as long as no two events *)
(*    are between the check and the insert of startAutomation together;    *)
(*  - DedupInv: a key of a service that sends stands for the send that is  *)
(*    still to come or has come, so every send but one has an excuse;      *)
(*  - CarryInv: a row that is "running" has a message, a call or an event  *)
(*    that carries its run on, or was left by a mishap;                    *)
(*  - AloneInv: as long as there is no mishap a run has one message.       *)
(***************************************************************************)
EXTENDS AutomationRun, SequenceTheorems, FiniteSetTheorems, TLAPS

\* Events that have passed the check and not inserted their row.
Inserting(e) == entry[e].phase = "insert"

Status == {"running", "duplicate", "canceled", "completed"}
Phase == {"new", "insert", "created", "done"}

Shape ==
    /\ rows \in Seq(Status)
    /\ entry \in [Entries -> [phase : Phase, run : Nat]]
    /\ overlapped \in BOOLEAN

\* One event at a time is let in, before there is a row.
OneComesIn ==
    policy = "unique" /\ ~overlapped =>
        /\ Len(rows) <= 1
        /\ \A e \in Entries : Inserting(e) => rows = <<>>
        /\ \A e, f \in Entries : Inserting(e) /\ Inserting(f) => e = f

UniqueInv == Shape /\ OneComesIn

\* In the beginning there is no row, and no event has been looked at.
LEMMA UniqueInit == Init => UniqueInv
<1> SUFFICES ASSUME Init PROVE UniqueInv
    OBVIOUS
<1>1. rows = <<>> /\ rows \in Seq(Status)
    BY DEF Init
<1>2. entry \in [Entries -> [phase : Phase, run : Nat]] /\ overlapped \in BOOLEAN
    BY DEF Init, Phase
<1> QED
    BY <1>1, <1>2 DEF Init, Shape, UniqueInv, OneComesIn, Inserting

\* A step that leaves the entries alone, and no row away and none added.
LEMMA SameLength ==
    ASSUME UniqueInv, UNCHANGED <<policy, entry, overlapped>>,
           rows' \in Seq(Status), Len(rows') = Len(rows)
    PROVE  UniqueInv'
<1>1. rows = <<>> => rows' = <<>>
    BY DEF UniqueInv, Shape
<1> QED
    BY <1>1 DEF UniqueInv, Shape, OneComesIn, Inserting

\* A handler that takes a step stays a handler, and the others do not move.
LEMMA EnterShape ==
    ASSUME Shape, NEW e \in Entries, NEW phase \in Phase, Enter(e, phase)
    PROVE  /\ entry' \in [Entries -> [phase : Phase, run : Nat]]
           /\ entry'[e].phase = phase
           /\ \A f \in Entries \ {e} : entry'[f] = entry[f]
<1> DEFINE new == [entry[e] EXCEPT !.phase = phase]
<1>1. entry \in [Entries -> [phase : Phase, run : Nat]]
    BY DEF Shape
<1>2. entry[e] \in [phase : Phase, run : Nat]
    BY <1>1
<1>3. new \in [phase : Phase, run : Nat] /\ new.phase = phase
    BY <1>2
<1>4. entry' = [entry EXCEPT ![e] = new]
    BY <1>1 DEF Enter
<1> HIDE DEF new
<1> QED
    BY <1>1, <1>3, <1>4

\* Rows that change their status are as many rows.
LEMMA RowChanges ==
    ASSUME rows \in Seq(Status), NEW r, NEW status \in Status,
           rows' = [rows EXCEPT ![r] = status]
    PROVE  rows' \in Seq(Status) /\ Len(rows') = Len(rows)
<1>1. CASE r \in 1..Len(rows)
    BY <1>1, ExceptSeq
<1>2. CASE r \notin 1..Len(rows)
    <2>1. DOMAIN rows = 1..Len(rows) /\ rows = [i \in 1..Len(rows) |-> rows[i]]
        OBVIOUS
    <2>2. rows' = rows
        BY <1>2, <2>1
    <2> QED
        BY <2>2
<1> QED
    BY <1>1, <1>2

\* One row more.
LEMMA RowAdded ==
    ASSUME rows \in Seq(Status), NEW status \in Status, rows' = Append(rows, status)
    PROVE  rows' \in Seq(Status) /\ Len(rows') = Len(rows) + 1
    OBVIOUS

\* The events that start the automation.
LEMMA EntryKeeps ==
    ASSUME UniqueInv, NEW e \in Entries,
           EntryCheck(e) \/ EntryInsert(e) \/ EntrySend(e) \/ EntryFails(e)
    PROVE  UniqueInv'
<1>1. Shape /\ OneComesIn /\ rows \in Seq(Status) /\ entry[e].run \in Nat
      /\ entry \in [Entries -> [phase : Phase, run : Nat]]
    BY DEF UniqueInv, Shape
<1>2. ASSUME NEW phase \in Phase, phase # "insert", Enter(e, phase),
             UNCHANGED <<policy, rows, overlapped>>
      PROVE  UniqueInv'
    BY <1>1, <1>2, EnterShape DEF UniqueInv, Shape, OneComesIn, Inserting
<1>3. CASE EntryCheck(e) /\ EntryRefused(e)
    BY <1>2, <1>3 DEF EntryCheck, EntryRefused, Phase, automation
<1>4. CASE EntryCheck(e) /\ EntryTooEarly(e)
    <2>1. policy' # "unique" /\ UNCHANGED overlapped /\ rows' = Append(rows, "duplicate")
        BY <1>4 DEF EntryCheck, EntryTooEarly, automation
    <2>2. rows' \in Seq(Status)
        BY <1>1, <2>1, RowAdded DEF Status
    <2>3. entry' \in [Entries -> [phase : Phase, run : Nat]]
        BY <1>1, <1>4, EnterShape DEF EntryTooEarly, Phase
    <2> QED
        BY <1>1, <2>1, <2>2, <2>3 DEF UniqueInv, Shape, OneComesIn
<1>5. CASE EntryCheck(e) /\ EntryPasses(e)
    <2>1. /\ UNCHANGED <<policy, rows>> /\ (policy = "unique" => rows = <<>>)
          /\ Enter(e, "insert")
          /\ overlapped' = (overlapped \/ \E f \in Entries \ {e} : entry[f].phase = "insert")
        BY <1>5 DEF EntryCheck, EntryPasses, Refused, automation
    <2>2. entry' \in [Entries -> [phase : Phase, run : Nat]] /\ overlapped' \in BOOLEAN
        BY <1>1, <2>1, EnterShape DEF Shape, Phase
    <2>3. \A f \in Entries \ {e} : entry'[f] = entry[f]
        BY <1>1, <2>1, EnterShape DEF Phase
    <2> QED
        BY <1>1, <2>1, <2>2, <2>3 DEF UniqueInv, Shape, OneComesIn, Inserting
<1>6. CASE EntryInsert(e)
    <2>1. /\ UNCHANGED <<policy, overlapped>> /\ rows' = Append(rows, "running") /\ Inserting(e)
          /\ entry' = [entry EXCEPT ![e] = [phase |-> "created", run |-> Len(rows) + 1]]
        BY <1>6 DEF EntryInsert, Inserting, history, automation
    <2>2. rows' \in Seq(Status) /\ Len(rows') = Len(rows) + 1
        BY <1>1, <2>1, RowAdded DEF Status
    <2>3. entry' \in [Entries -> [phase : Phase, run : Nat]]
        BY <1>1, <2>1 DEF Phase
    <2>4. entry'[e].phase = "created" /\ \A f \in Entries \ {e} : entry'[f] = entry[f]
        BY <1>1, <2>1
    <2>5. policy = "unique" /\ ~overlapped => Len(rows) = 0 /\ \A f \in Entries \ {e} : ~Inserting(f)
        BY <1>1, <2>1 DEF OneComesIn
    <2>6. OneComesIn'
        BY <2>1, <2>2, <2>4, <2>5 DEF OneComesIn, Inserting
    <2> QED
        BY <1>1, <2>1, <2>2, <2>3, <2>6 DEF UniqueInv, Shape
<1>7. CASE EntrySend(e)
    BY <1>2, <1>7 DEF EntrySend, Phase, history, automation
<1>8. CASE EntryFails(e)
    BY <1>2, <1>8 DEF EntryFails, Phase, automation
<1> QED
    BY <1>3, <1>4, <1>5, <1>6, <1>7, <1>8 DEF EntryCheck

\* Every step keeps the invariant.
LEMMA UniqueNext == UniqueInv /\ [Next]_vars => UniqueInv'
<1> SUFFICES ASSUME UniqueInv, [Next]_vars PROVE UniqueInv'
    OBVIOUS
<1>1. rows \in Seq(Status)
    BY DEF UniqueInv, Shape
<1>2. CASE UNCHANGED <<policy, rows, entry, overlapped>>
    BY <1>1, <1>2, SameLength
<1>3. CASE Entering
    BY <1>3, EntryKeeps DEF Entering
<1>4. CASE Stepping
    BY <1>2, <1>4 DEF Stepping, StepStopped, Step, automation
<1>5. CASE Sending
    BY <1>2, <1>5 DEF Sending, MailStart, MailSend, PushDrop, PushStart, PushMark, PushSend,
       SmsSend,
                   automation, history
<1>6. CASE Completing
    <2>1. PICK r \in Runs : Complete(r)
        BY <1>6 DEF Completing
    <2>2. rows' = [rows EXCEPT ![r] = "completed"] /\ UNCHANGED <<policy, entry, overlapped>>
        BY <2>1 DEF Complete, history, automation
    <2>3. rows' \in Seq(Status) /\ Len(rows') = Len(rows)
        BY <1>1, <2>2, RowChanges DEF Status
    <2> QED
        BY <2>2, <2>3, SameLength
<1>7. CASE Stopping
    <2>1. ASSUME NEW r \in Runs, CancelWrite(r) PROVE UniqueInv'
        <3>1. rows' = [rows EXCEPT ![r] = "canceled"] /\ UNCHANGED <<policy, entry, overlapped>>
            BY <2>1 DEF CancelWrite, history, automation
        <3>2. rows' \in Seq(Status) /\ Len(rows') = Len(rows)
            BY <1>1, <3>1, RowChanges DEF Status
        <3> QED
            BY <3>1, <3>2, SameLength
    <2>2. ASSUME TargetRequest PROVE UniqueInv'
        <3> DEFINE after(r) == IF Running(r) THEN "completed" ELSE rows[r]
        <3>1. rows' = [r \in 1..Len(rows) |-> after(r)] /\ UNCHANGED <<policy, entry, overlapped>>
            BY <1>1, <2>2 DEF TargetRequest, history, automation
        <3>2. \A r \in 1..Len(rows) : after(r) \in Status
            BY <1>1 DEF Status
        <3> HIDE DEF after
        <3>3. rows' \in Seq(Status) /\ Len(rows') = Len(rows)
            BY <1>1, <3>1, <3>2
        <3> QED
            BY <3>1, <3>3, SameLength
    <2>3. ASSUME CancelRequest \/ RemoveRequest \/ TargetKeys PROVE UniqueInv'
        BY <1>2, <2>3 DEF CancelRequest, RemoveRequest, TargetKeys, history, automation
    <2> QED
        BY <1>7, <2>1, <2>2, <2>3 DEF Stopping
<1>8. CASE Failing
    <2>1. ASSUME NEW e \in Entries, EntryFails(e) PROVE UniqueInv'
        BY <2>1, EntryKeeps
    <2>2. ASSUME FlagExpires \/ \E i \in Places : DedupExpires(i) \/ PushKeyExpires(i)
          PROVE  UniqueInv'
        BY <1>2, <2>2 DEF FlagExpires, DedupExpires, PushKeyExpires, automation
    <2>3. ASSUME NEW r \in Runs, NEW i \in Places,
                 \/ StepFails(r, i) \/ MailRefuse(r, i) \/ MailFails(r, i) \/ MailTimesOut(r, i)
                 \/ PushFails(r, i) \/ SmsFails(r, i)
          PROVE  UniqueInv'
        BY <1>2, <2>3 DEF StepFails, MailRefuse, MailFails, MailTimesOut, PushFails, SmsFails,
                          automation, history
    <2>4. ASSUME NEW r \in Runs, CompleteFails(r) PROVE UniqueInv'
        <3>1. UNCHANGED rows \/ rows' = [rows EXCEPT ![r] = "completed"]
            BY <2>4 DEF CompleteFails
        <3>2. rows' \in Seq(Status) /\ Len(rows') = Len(rows)
            BY <1>1, <3>1, RowChanges DEF Status
        <3>3. UNCHANGED <<policy, entry, overlapped>>
            BY <2>4 DEF CompleteFails, automation
        <3> QED
            BY <3>2, <3>3, SameLength
    <2> QED
        BY <1>8, <2>1, <2>2, <2>3, <2>4 DEF Failing
<1>9. CASE UNCHANGED vars
    BY <1>2, <1>9 DEF vars, history, automation
<1> QED
    BY <1>3, <1>4, <1>5, <1>6, <1>7, <1>8, <1>9 DEF Next

\* A contact enters a "unique" automation once, unless two events are past the
\* check of startAutomation at the same time.
THEOREM UniqueOnlyOnce == Spec => []UniqueEntersOnce
<1>1. UniqueInv => UniqueEntersOnce
    BY DEF UniqueInv, OneComesIn, UniqueEntersOnce
<1> QED
    BY UniqueInit, UniqueNext, <1>1, PTL DEF Spec

(***************************************************************************)
(* Types.                                                                  *)
(***************************************************************************)

Counts == [Runs -> [Places -> Nat]]

\* The messages and the calls.
MessagesOK ==
    /\ policy \in Policies /\ flow \in Flows
    /\ queue \in Counts /\ mail \in Counts /\ mailing \in Counts /\ checked \in Counts
    /\ completing \in [Runs -> Nat]

\* The rows of the contact, and the handlers that insert them (Shape).
RowsOK == UniqueInv /\ mishaps \in 0..MaxMishaps

\* What is counted at the places of the flow, and the key of send-push.
PlacesOK ==
    /\ processed \in [Places -> Nat]
    /\ sent \in [Places -> Nat] /\ uncovered \in [Places -> Nat]

TypeOK == MessagesOK /\ RowsOK /\ PlacesOK

\* A message more, at one place of one run.
LEMMA PutFacts ==
    ASSUME NEW f \in Counts, NEW r \in Runs, NEW i \in Places
    PROVE  /\ Put(f, r, i) \in Counts
           /\ \A q \in Runs, j \in Places :
                 Put(f, r, i)[q][j] = IF q = r /\ j = i THEN f[q][j] + 1 ELSE f[q][j]
<1>1. f[r] \in [Places -> Nat] /\ f[r][i] \in Nat
    BY DEF Counts
<1>2. PICK row : row = [f[r] EXCEPT ![i] = @ + 1]
    OBVIOUS
<1>3. /\ row \in [Places -> Nat]
      /\ \A j \in Places : row[j] = IF j = i THEN f[r][j] + 1 ELSE f[r][j]
    BY <1>1, <1>2
<1>4. Put(f, r, i) = [f EXCEPT ![r] = row]
    BY <1>2 DEF Put
<1> QED
    BY <1>3, <1>4 DEF Counts

\* A message less.
LEMMA TakeFacts ==
    ASSUME NEW f \in Counts, NEW r \in Runs, NEW i \in Places, f[r][i] > 0
    PROVE  /\ Take(f, r, i) \in Counts
           /\ \A q \in Runs, j \in Places :
                 Take(f, r, i)[q][j] = IF q = r /\ j = i THEN f[q][j] - 1 ELSE f[q][j]
<1>1. f[r] \in [Places -> Nat] /\ f[r][i] \in Nat /\ f[r][i] - 1 \in Nat
    BY DEF Counts
<1>2. PICK row : row = [f[r] EXCEPT ![i] = @ - 1]
    OBVIOUS
<1>3. /\ row \in [Places -> Nat]
      /\ \A j \in Places : row[j] = IF j = i THEN f[r][j] - 1 ELSE f[r][j]
    BY <1>1, <1>2
<1>4. Take(f, r, i) = [f EXCEPT ![r] = row]
    BY <1>2 DEF Take
<1> QED
    BY <1>3, <1>4 DEF Counts

\* The end has no step after it, any other place has.
LEMMA NextPlace ==
    ASSUME MessagesOK, NEW i \in Places, flow[i] # "end"
    PROVE  i + 1 \in Places
<1>1. flow \in [1..Steps -> {"email", "push", "sms", "wait", "end"}] /\ (flow[i] = "end" <=> i = Steps)
    BY AutomationAssumption DEF MessagesOK, Places
<1> QED
    BY <1>1, AutomationAssumption DEF Places

\* What is published, for a message that is taken or comes again.
LEMMA ProcessType ==
    ASSUME MessagesOK, NEW r \in Runs, NEW i \in Places, NEW q \in Counts, ProcessMessage(r, i, q)
    PROVE  queue' \in Counts /\ mail' \in Counts /\ completing' \in [Runs -> Nat]
<1>1. flow[i] \in {"email", "push", "sms", "wait", "end"}
    BY AutomationAssumption DEF MessagesOK, Places
<1>2. CASE flow[i] \in Sends
    <2>1. mail' = Put(mail, r, i) /\ queue' = q /\ UNCHANGED completing
        BY <1>2 DEF ProcessMessage, Sends
    <2> QED
        BY <2>1, PutFacts DEF MessagesOK
<1>3. CASE flow[i] = "wait"
    <2>1. queue' = Put(q, r, i + 1) /\ UNCHANGED <<mail, completing>>
        BY <1>3 DEF ProcessMessage, Sends
    <2> QED
        BY <1>3, <2>1, NextPlace, PutFacts DEF MessagesOK
<1>4. CASE flow[i] = "end"
    <2>1. completing' = [completing EXCEPT ![r] = @ + 1] /\ queue' = q /\ UNCHANGED mail
        BY <1>4 DEF ProcessMessage, Sends
    <2> QED
        BY <2>1 DEF MessagesOK
<1> QED
    BY <1>1, <1>2, <1>3, <1>4 DEF Sends

\* Runs that have no place in the counts leave them alone.
LEMMA PutNowhere ==
    ASSUME NEW f \in Counts, NEW r, r \notin Runs, NEW i
    PROVE  Put(f, r, i) = f
BY DEF Put, Counts

\* Messages stay where a service takes them from.
LEMMA MessagesStep ==
    ASSUME TypeOK, [Next]_vars
    PROVE  MessagesOK'
<1>1. /\ MessagesOK /\ \A i \in Places : flow[i] # "end" => i + 1 \in Places
      /\ 1 \in Places
    BY NextPlace, AutomationAssumption DEF TypeOK, Places
<1>2. CASE UNCHANGED <<automation, messages, checked>>
    BY <1>1, <1>2 DEF MessagesOK, automation, messages
<1>3. ASSUME NEW e \in Entries, EntryCheck(e) \/ EntryInsert(e) \/ EntryFails(e) PROVE MessagesOK'
    BY <1>2, <1>3 DEF EntryCheck, EntryInsert, EntryFails, keys, pushes
<1>4. ASSUME NEW e \in Entries, EntrySend(e) PROVE MessagesOK'
    <2>1. PICK r : r = entry[e].run
        OBVIOUS
    <2>2. queue' = Put(queue, r, 1) /\ queue \in Counts
        BY <1>1, <1>4, <2>1 DEF EntrySend, MessagesOK
    <2>3. queue' \in Counts
        <3>1. CASE r \in Runs
            BY <1>1, <2>2, <3>1, PutFacts
        <3>2. CASE r \notin Runs
            BY <2>2, <3>2, PutNowhere
        <3> QED
            BY <3>1, <3>2
    <2> QED
        BY <1>1, <1>4, <2>3 DEF MessagesOK, EntrySend, automation, keys, pushes
<1>5. ASSUME NEW r \in Runs, NEW i \in Places, StepStopped(r, i) PROVE MessagesOK'
    <2>1. queue' \in Counts
        BY <1>1, <1>5, TakeFacts DEF StepStopped, MessagesOK
    <2> QED
        BY <1>1, <1>5, <2>1 DEF MessagesOK, StepStopped, automation, pushes
<1>6. ASSUME NEW r \in Runs, NEW i \in Places, Step(r, i) \/ StepFails(r, i) PROVE MessagesOK'
    <2>1. queue \in Counts /\ Take(queue, r, i) \in Counts
        BY <1>1, <1>6, TakeFacts DEF Step, StepFails, MessagesOK
    <2>2. \/ ProcessMessage(r, i, queue) \/ ProcessMessage(r, i, Take(queue, r, i))
          \/ queue' = Take(queue, r, i) /\ UNCHANGED <<mail, completing>>
        BY <1>6 DEF Step, StepFails
    <2>3. queue' \in Counts /\ mail' \in Counts /\ completing' \in [Runs -> Nat]
        BY <1>1, <2>1, <2>2, ProcessType DEF MessagesOK
    <2> QED
        BY <1>1, <1>6, <2>3 DEF MessagesOK, Step, StepFails, automation, keys, pushes
<1>7. ASSUME NEW r \in Runs, NEW i \in Places,
             \/ MailStart(r, i) \/ MailSend(r, i) \/ MailRefuse(r, i) \/ MailFails(r, i) \/ MailTimesOut(r, i)
      PROVE  MessagesOK'
    <2>1. /\ queue \in Counts /\ mail \in Counts /\ mailing \in Counts
          /\ flow[i] = "email" => i + 1 \in Places
        BY <1>1 DEF MessagesOK
    <2>2. queue' \in {queue, Put(queue, r, i + 1)} /\ (queue' # queue => i + 1 \in Places)
        BY <1>7, <2>1 DEF MailStart, MailSend, MailRefuse, MailFails, MailTimesOut
    <2>3. \/ mail' \in {mail, Put(mail, r, i)}
          \/ mail[r][i] > 0 /\ mail' = Take(mail, r, i)
        BY <1>7 DEF MailStart, MailSend, MailRefuse, MailFails, MailTimesOut
    <2>4. \/ mailing' \in {mailing, Put(mailing, r, i)}
          \/ mailing[r][i] > 0 /\ mailing' = Take(mailing, r, i)
        BY <1>7 DEF MailStart, MailSend, MailRefuse, MailFails, MailTimesOut
    <2>5. queue' \in Counts /\ mail' \in Counts /\ mailing' \in Counts
        BY <2>1, <2>2, <2>3, <2>4, PutFacts, TakeFacts
    <2> QED
        BY <1>1, <1>7, <2>5 DEF MessagesOK, MailStart, MailSend, MailRefuse, MailFails,
           MailTimesOut,
                                automation, keys, pushes
<1>8. ASSUME NEW r \in Runs, NEW i \in Places,
             PushDrop(r, i) \/ PushStart(r, i) \/ PushMark(r, i) \/ PushSend(r, i) \/ PushFails(r, i)
      PROVE  MessagesOK'
    <2>1. /\ queue \in Counts /\ mail \in Counts /\ mailing \in Counts /\ checked \in Counts
          /\ flow[i] = "push" => i + 1 \in Places
        BY <1>1 DEF MessagesOK
    <2>2. queue' \in {queue, Put(queue, r, i + 1)} /\ (queue' # queue => i + 1 \in Places)
        BY <1>8, <2>1 DEF PushDrop, PushStart, PushMark, PushSend, PushFails
    <2>3. \/ mail' \in {mail, Put(mail, r, i)}
          \/ mail[r][i] > 0 /\ mail' = Take(mail, r, i)
        BY <1>8 DEF PushDrop, PushStart, PushMark, PushSend, PushFails
    <2>4. \/ mailing' \in {mailing, Put(mailing, r, i)}
          \/ mailing[r][i] > 0 /\ mailing' = Take(mailing, r, i)
        BY <1>8 DEF PushDrop, PushStart, PushMark, PushSend, PushFails
    <2>5. \/ checked' \in {checked, Put(checked, r, i)}
          \/ checked[r][i] > 0 /\ checked' = Take(checked, r, i)
        BY <1>8 DEF PushDrop, PushStart, PushMark, PushSend, PushFails, keys, pushes
    <2>6. queue' \in Counts /\ mail' \in Counts /\ mailing' \in Counts /\ checked' \in Counts
        BY <2>1, <2>2, <2>3, <2>4, <2>5, PutFacts, TakeFacts
    <2> QED
        BY <1>1, <1>8, <2>6 DEF MessagesOK, PushDrop, PushStart, PushMark, PushSend, PushFails,
                                automation
<1>9. ASSUME NEW r \in Runs, NEW i \in Places, SmsSend(r, i) \/ SmsFails(r, i) PROVE MessagesOK'
    <2>1. /\ queue \in Counts /\ mail \in Counts /\ mail[r][i] > 0
          /\ i + 1 \in Places
        BY <1>1, <1>9 DEF MessagesOK, SmsSend, SmsFails
    <2>2. queue' \in {queue, Put(queue, r, i + 1)} /\ mail' \in {mail, Take(mail, r, i)}
        BY <1>9 DEF SmsSend, SmsFails
    <2>3. queue' \in Counts /\ mail' \in Counts
        BY <2>1, <2>2, PutFacts, TakeFacts
    <2> QED
        BY <1>1, <1>9, <2>3 DEF MessagesOK, SmsSend, SmsFails, automation, keys, pushes
<1>10. ASSUME NEW r \in Runs, Complete(r) \/ CompleteFails(r) PROVE MessagesOK'
    <2>1. completing' \in [Runs -> Nat]
        BY <1>1, <1>10 DEF MessagesOK, Complete, CompleteFails
    <2> QED
        BY <1>1, <1>10, <2>1 DEF MessagesOK, Complete, CompleteFails, automation, keys, pushes
<1>11. CASE Stopping
    BY <1>2, <1>11 DEF Stopping, CancelWrite, CancelRequest, RemoveRequest, TargetRequest,
       TargetKeys,
                       keys, pushes
<1>12. CASE FlagExpires \/ \E i \in Places : DedupExpires(i) \/ PushKeyExpires(i)
    BY <1>2, <1>12 DEF FlagExpires, DedupExpires, PushKeyExpires, keys, pushes
<1>13. CASE UNCHANGED vars
    BY <1>2, <1>13 DEF vars, keys, pushes
<1> QED
    BY <1>3, <1>4, <1>5, <1>6, <1>7, <1>8, <1>9, <1>10, <1>11, <1>12, <1>13
    DEF Next, Entering, Stepping, Sending, Completing, Failing

\* Counters go up by one at one place, and a key names a run.
LEMMA PlacesStep ==
    ASSUME TypeOK, [Next]_vars
    PROVE  PlacesOK'
<1>1. /\ PlacesOK /\ Runs \subseteq Nat
      /\ processed \in [Places -> Nat] /\ sent \in [Places -> Nat] /\ uncovered \in [Places -> Nat]
    BY DEF TypeOK, PlacesOK, Runs
<1>2. CASE UNCHANGED <<processed, sent, uncovered>>
    BY <1>1, <1>2 DEF PlacesOK
<1>3. ASSUME NEW i \in Places, NEW n \in {0, 1}, NEW r \in Nat,
             processed' \in {processed, [processed EXCEPT ![i] = r]},
             sent' \in {sent, [sent EXCEPT ![i] = @ + n]},
             uncovered' \in {uncovered, [uncovered EXCEPT ![i] = @ + 1]}
      PROVE  PlacesOK'
    <2>1. [processed EXCEPT ![i] = r] \in [Places -> Nat]
        BY <1>1
    <2>2. [sent EXCEPT ![i] = @ + n] \in [Places -> Nat]
        BY <1>1
    <2>3. [uncovered EXCEPT ![i] = @ + 1] \in [Places -> Nat]
        BY <1>1
    <2> QED
        BY <1>1, <1>3, <2>1, <2>2, <2>3 DEF PlacesOK
<1>4. ASSUME NEW r \in Runs, NEW i \in Places,
             \/ MailStart(r, i) \/ MailSend(r, i) \/ MailFails(r, i)
             \/ PushStart(r, i) \/ PushSend(r, i) \/ PushFails(r, i)
             \/ SmsSend(r, i) \/ SmsFails(r, i)
      PROVE  PlacesOK'
    <2>1. /\ r \in Nat
          /\ processed' \in {processed, [processed EXCEPT ![i] = r]}
          /\ uncovered' \in {uncovered, [uncovered EXCEPT ![i] = @ + 1]}
          /\ sent' = sent \/ \E n \in {0, 1} : sent' = [sent EXCEPT ![i] = @ + n]
        BY <1>1, <1>4 DEF MailStart, MailSend, MailFails, PushStart, PushSend, PushFails, SmsSend,
           SmsFails,
                          keys, pushes, history
    <2>2. CASE sent' = sent
        BY <1>3, <2>1, <2>2
    <2>3. ASSUME NEW n \in {0, 1}, sent' = [sent EXCEPT ![i] = @ + n] PROVE PlacesOK'
        BY <1>3, <2>1, <2>3
    <2> QED
        BY <2>1, <2>2, <2>3
<1>5. ASSUME NEW i \in Places, DedupExpires(i) \/ PushKeyExpires(i) PROVE PlacesOK'
    <2>1. /\ processed' \in {processed, [processed EXCEPT ![i] = 0]} /\ sent' = sent
          /\ uncovered' \in {uncovered, [uncovered EXCEPT ![i] = @ + 1]}
        BY <1>5 DEF DedupExpires, PushKeyExpires, pushes
    <2> QED
        BY <1>3, <2>1
<1>6. CASE Entering \/ Stepping \/ Completing \/ Stopping \/ FlagExpires
    BY <1>2, <1>6 DEF Entering, EntryCheck, EntryInsert, EntrySend, Stepping, StepStopped, Step,
       Completing,
                      Complete, Stopping, CancelWrite, CancelRequest, RemoveRequest, TargetRequest,
                      TargetKeys, FlagExpires, keys, pushes, history
<1>7. CASE (\E e \in Entries : EntryFails(e)) \/ (\E r \in Runs : CompleteFails(r)) \/ UNCHANGED vars
    BY <1>2, <1>7 DEF EntryFails, CompleteFails, vars, keys, pushes, history
<1>8. ASSUME NEW r \in Runs, NEW i \in Places,
             \/ PushDrop(r, i) \/ PushMark(r, i) \/ StepFails(r, i) \/ MailRefuse(r, i) \/ MailTimesOut(r, i)
      PROVE  PlacesOK'
    BY <1>2, <1>8 DEF PushDrop, PushMark, StepFails, MailRefuse, MailTimesOut, keys, pushes, history
<1> QED
    BY <1>4, <1>5, <1>6, <1>7, <1>8 DEF Next, Sending, Failing

\* Types are kept, and mishaps within their bound.
LEMMA TypeStep == TypeOK /\ [Next]_vars => TypeOK'
<1> SUFFICES ASSUME TypeOK, [Next]_vars PROVE TypeOK'
    OBVIOUS
<1>1. MaxMishaps \in Nat /\ mishaps \in 0..MaxMishaps
    BY AutomationAssumption DEF TypeOK, RowsOK
<1>2. CASE Mishap
    BY <1>1, <1>2, MessagesStep, PlacesStep, UniqueNext DEF Mishap, TypeOK, RowsOK
<1>3. CASE UNCHANGED mishaps
    BY <1>1, <1>3, MessagesStep, PlacesStep, UniqueNext DEF TypeOK, RowsOK
<1>4. CASE Entering \/ Stepping \/ Completing \/ Stopping
    BY <1>3, <1>4 DEF Entering, EntryCheck, EntryInsert, EntrySend, Stepping, StepStopped, Step,
       Completing,
                      Complete, Stopping, CancelWrite, CancelRequest, RemoveRequest, TargetRequest, TargetKeys
<1>5. CASE Sending \/ UNCHANGED vars
    BY <1>3, <1>5 DEF Sending, MailStart, MailSend, PushDrop, PushStart, PushMark, PushSend,
       SmsSend, vars
<1>6. CASE Failing
    BY <1>2, <1>3, <1>6 DEF Failing, FlagExpires, EntryFails, DedupExpires, PushKeyExpires,
       StepFails, CompleteFails, MailRefuse,
                            MailFails, MailTimesOut, PushFails, SmsFails
<1> QED
    BY <1>4, <1>5, <1>6 DEF Next

\* At the start there is no message.
LEMMA TypeInit == Init => TypeOK
<1> SUFFICES ASSUME Init PROVE TypeOK
    OBVIOUS
<1>1. Empty \in Counts
    BY DEF Empty, Counts
<1>2. MessagesOK
    BY <1>1 DEF Init, MessagesOK
<1>3. PlacesOK
    BY DEF Init, PlacesOK
<1>4. RowsOK
    BY UniqueInit, AutomationAssumption DEF Init, RowsOK
<1> QED
    BY <1>2, <1>3, <1>4 DEF TypeOK
(***************************************************************************)
(* The keys of the services that send.  The sends of a place, and the      *)
(* calls that are about to send, have an excuse each, but for one: the     *)
(* key that was written, or the first of the calls.                        *)
(***************************************************************************)

\* Calls of one run between the read of the keys and the send.
Under(r, i) == IF flow[i] = "push" THEN checked[r][i] + mailing[r][i] ELSE mailing[r][i]

\* These calls, of all runs.
Doing(i) == {t \in Runs \X (Nat \ {0}) : t[2] <= Under(t[1], i)}

Keyed(i) == IF flow[i] = "push" THEN processed[i] # 0 ELSE i \in dedup
Allowed(i) == IF Keyed(i) \/ Doing(i) # {} THEN 1 ELSE 0

Deduped(i) == flow[i] = "push" \/ (flow[i] = "email" /\ policy = "unique")

Excused(i) == IsFiniteSet(Doing(i)) /\ sent[i] + Cardinality(Doing(i)) <= uncovered[i] + Allowed(i)

DedupInv ==
    /\ TypeOK
    /\ \A r \in Runs, i \in Places : checked[r][i] > 0 => flow[i] = "push"
    /\ \A i \in Places : Deduped(i) => Excused(i)

\* There are so many of them.
LEMMA UnderType ==
    ASSUME MessagesOK, NEW r \in Runs, NEW i \in Places
    PROVE  Under(r, i) \in Nat
BY DEF MessagesOK, Counts, Under

\* The counters of a place.
LEMMA PlaceFacts ==
    ASSUME TypeOK, NEW i \in Places
    PROVE  sent[i] \in Nat /\ uncovered[i] \in Nat /\ Allowed(i) \in 0..1
BY DEF TypeOK, PlacesOK, Allowed

\* Nobody is about to send.
LEMMA NobodySends ==
    ASSUME MessagesOK, NEW i \in Places
    PROVE  Doing(i) # {} <=> \E q \in Runs : Under(q, i) > 0
<1>1. ASSUME NEW q \in Runs, Under(q, i) > 0 PROVE <<q, 1>> \in Doing(i)
    BY <1>1, UnderType DEF Doing
<1>2. ASSUME NEW t \in Doing(i) PROVE t[1] \in Runs /\ Under(t[1], i) > 0
    BY <1>2, UnderType DEF Doing
<1> QED
    BY <1>1, <1>2

\* One call more.
LEMMA OneMore ==
    ASSUME MessagesOK, MessagesOK', NEW r \in Runs, NEW i \in Places, IsFiniteSet(Doing(i)),
           Under(r, i)' = Under(r, i) + 1, \A q \in Runs \ {r} : Under(q, i)' = Under(q, i)
    PROVE  /\ IsFiniteSet(Doing(i))'
           /\ Cardinality(Doing(i))' = Cardinality(Doing(i)) + 1
           /\ Doing(i)' # {}
<1> DEFINE x == <<r, Under(r, i) + 1>>
<1>1. \A q \in Runs : Under(q, i) \in Nat /\ Under(q, i)' \in Nat
    BY DEF MessagesOK, Counts, Under
<1>2. x \notin Doing(i)
    BY <1>1 DEF Doing
<1>3. Doing(i)' = Doing(i) \cup {x}
    BY <1>1 DEF Doing
<1>4. PICK S, y : S = Doing(i) /\ y = x
    OBVIOUS
<1>5. IsFiniteSet(S \cup {y}) /\ Cardinality(S \cup {y}) = Cardinality(S) + 1
    BY <1>2, <1>4, FS_AddElement
<1> QED
    BY <1>3, <1>4, <1>5

\* One call less.
LEMMA OneLess ==
    ASSUME MessagesOK, MessagesOK', NEW r \in Runs, NEW i \in Places, IsFiniteSet(Doing(i)),
           Under(r, i) = Under(r, i)' + 1, \A q \in Runs \ {r} : Under(q, i)' = Under(q, i)
    PROVE  /\ IsFiniteSet(Doing(i))'
           /\ Cardinality(Doing(i)) = Cardinality(Doing(i))' + 1
           /\ Doing(i) # {}
<1> DEFINE x == <<r, Under(r, i)>>
<1>1. \A q \in Runs : Under(q, i) \in Nat /\ Under(q, i)' \in Nat
    BY DEF MessagesOK, Counts, Under
<1>2. x \in Doing(i)
    BY <1>1 DEF Doing
<1>3. Doing(i)' = Doing(i) \ {x}
    BY <1>1 DEF Doing
<1>4. PICK S, y : S = Doing(i) /\ y = x
    OBVIOUS
<1>5. IsFiniteSet(S \ {y}) /\ Cardinality(S \ {y}) = Cardinality(S) - 1 /\ Cardinality(S) \in Nat
    BY <1>2, <1>4, FS_RemoveElement, FS_CardinalityType
<1>6. Cardinality(S) = Cardinality(S \ {y}) + 1
    BY <1>5
<1> QED
    BY <1>2, <1>3, <1>4, <1>5, <1>6

\* A step that has no part in the sends of a place.
LEMMA Elsewhere ==
    ASSUME TypeOK, TypeOK', NEW i \in Places, Excused(i),
           \A q \in Runs : Under(q, i)' = Under(q, i),
           UNCHANGED <<flow, sent[i], uncovered[i]>>, Keyed(i) => Keyed(i)'
    PROVE  Excused(i)'
<1>1. Doing(i)' = Doing(i)
    BY DEF Doing
<1>2. Cardinality(Doing(i)) \in Nat /\ Cardinality(Doing(i))' = Cardinality(Doing(i))
    BY <1>1, FS_CardinalityType DEF Excused
<1>3. Allowed(i) <= Allowed(i)'
    BY <1>1 DEF Allowed
<1>4. sent[i] \in Nat /\ uncovered[i] \in Nat /\ Allowed(i) \in 0..1 /\ Allowed(i)' \in 0..1
    BY PlaceFacts DEF Allowed
<1> QED
    BY <1>1, <1>2, <1>3, <1>4 DEF Excused

\* A step that adds to the sends, the calls and the excuses of a place, in numbers.
LEMMA Counted ==
    ASSUME TypeOK, TypeOK', NEW i \in Places, Excused(i), IsFiniteSet(Doing(i))',
           NEW sends \in Nat, sent'[i] = sent[i] + sends,
           NEW excuses \in Nat, uncovered'[i] = uncovered[i] + excuses,
           sends + Cardinality(Doing(i))' + Allowed(i) <= excuses + Cardinality(Doing(i)) + Allowed(i)'
    PROVE  Excused(i)'
<1>1. Cardinality(Doing(i)) \in Nat /\ Cardinality(Doing(i))' \in Nat
    BY FS_CardinalityType DEF Excused
<1>2. sent[i] \in Nat /\ uncovered[i] \in Nat /\ Allowed(i) \in 0..1 /\ Allowed(i)' \in 0..1
    BY PlaceFacts DEF Allowed
<1>3. sent'[i] + Cardinality(Doing(i))' <= uncovered'[i] + Allowed(i)'
    <2>1. sent[i] + Cardinality(Doing(i)) <= uncovered[i] + Allowed(i)
        BY DEF Excused
    <2> QED
        BY <1>1, <1>2, <2>1
<1> QED
    BY <1>3 DEF Excused
\* What a step at one place may do to the calls there.
Touches(f, g, r, i) == g = f \/ g = Put(f, r, i) \/ (f[r][i] > 0 /\ g = Take(f, r, i))

\* Nothing happens to the calls elsewhere.
LEMMA TouchFacts ==
    ASSUME NEW f \in Counts, NEW g, NEW r \in Runs, NEW i \in Places, Touches(f, g, r, i)
    PROVE  /\ g \in Counts
           /\ \A q \in Runs, j \in Places : g[q][j] = f[q][j] \/ (q = r /\ j = i)
<1>1. CASE g = f
    BY <1>1
<1>2. CASE g = Put(f, r, i)
    BY <1>2, PutFacts
<1>3. CASE f[r][i] > 0 /\ g = Take(f, r, i)
    BY <1>3, TakeFacts
<1> QED
    BY <1>1, <1>2, <1>3 DEF Touches

\* The places that a step is not at.
LEMMA OtherPlaces ==
    ASSUME TypeOK, TypeOK', NEW r \in Runs, NEW i \in Places, NEW j \in Places, j # i, Excused(j),
           UNCHANGED flow, Touches(mailing, mailing', r, i), Touches(checked, checked', r, i),
           UNCHANGED <<sent[j], uncovered[j], processed[j]>>, dedup \ {i} \subseteq dedup'
    PROVE  Excused(j)'
<1>1. mailing \in Counts /\ checked \in Counts
    BY DEF TypeOK, MessagesOK
<1>2. \A q \in Runs : mailing'[q][j] = mailing[q][j] /\ checked'[q][j] = checked[q][j]
    BY <1>1, TouchFacts
<1>3. \A q \in Runs : Under(q, j)' = Under(q, j)
    BY <1>2 DEF Under
<1>4. Keyed(j) => Keyed(j)'
    BY DEF Keyed
<1> QED
    BY <1>3, <1>4, Elsewhere

\* The calls of send-email.
LEMMA MailDedup ==
    ASSUME DedupInv, TypeOK', NEW r \in Runs, NEW i \in Places, Deduped(i),
           MailStart(r, i) \/ MailSend(r, i) \/ MailFails(r, i)
    PROVE  Excused(i)'
<1>1. /\ TypeOK /\ MessagesOK /\ MessagesOK' /\ Excused(i) /\ UNCHANGED flow /\ flow[i] = "email"
      /\ policy = "unique" /\ mailing \in Counts /\ UNCHANGED checked
    BY DEF DedupInv, TypeOK, MessagesOK, Deduped, MailStart, MailSend, MailFails, automation,
       keys, pushes
<1>2. /\ \A q \in Runs : Under(q, i) = mailing[q][i] /\ Under(q, i)' = mailing'[q][i]
      /\ \A q \in Runs : mailing[q][i] \in Nat
    BY <1>1 DEF Under, Counts
<1>3. /\ sent \in [Places -> Nat] /\ uncovered \in [Places -> Nat]
      /\ sent[i] \in Nat /\ uncovered[i] \in Nat /\ Cardinality(Doing(i)) \in Nat
      /\ Allowed(i) \in 0..1 /\ Allowed(i)' \in 0..1
    BY <1>1, PlaceFacts, FS_CardinalityType DEF TypeOK, PlacesOK, Excused, Allowed
<1>4. CASE MailStart(r, i) /\ UNCHANGED <<mailing, uncovered>>
    <2>1. UNCHANGED sent /\ UNCHANGED dedup
        BY <1>4 DEF MailStart, keys
    <2>2. \A q \in Runs : Under(q, i)' = Under(q, i)
        BY <1>2, <1>4
    <2>3. Keyed(i) => Keyed(i)'
        BY <1>1, <2>1 DEF Keyed
    <2> QED
        BY <1>1, <1>4, <2>1, <2>2, <2>3, Elsewhere
<1>5. CASE MailStart(r, i) /\ ~Skipped(i)
    <2>1. /\ mailing' = Put(mailing, r, i) /\ UNCHANGED sent /\ ~Keyed(i)
          /\ uncovered' = [uncovered EXCEPT ![i] = IF \E q \in Runs : mailing[q][i] > 0 THEN @ + 1 ELSE @]
        BY <1>1, <1>5 DEF MailStart, Skipped, Keyed
    <2>2. \A q \in Runs : mailing'[q][i] = IF q = r THEN mailing[q][i] + 1 ELSE mailing[q][i]
        BY <1>1, <2>1, PutFacts
    <2>3. Under(r, i)' = Under(r, i) + 1 /\ \A q \in Runs \ {r} : Under(q, i)' = Under(q, i)
        BY <1>2, <2>2
    <2>4. /\ IsFiniteSet(Doing(i))' /\ Cardinality(Doing(i))' = Cardinality(Doing(i)) + 1
          /\ Doing(i)' # {}
        BY <1>1, <2>3, OneMore DEF Excused
    <2>5. Allowed(i)' = 1
        BY <2>4 DEF Allowed
    <2>6. CASE \E q \in Runs : mailing[q][i] > 0
        <3>1. sent'[i] = sent[i] + 0 /\ uncovered'[i] = uncovered[i] + 1
            BY <1>3, <2>1, <2>6
        <3>2. 0 + Cardinality(Doing(i))' + Allowed(i) <= 1 + Cardinality(Doing(i)) + Allowed(i)'
            BY <1>3, <2>4, <2>5
        <3> QED
            BY <1>1, <2>4, <3>1, <3>2, Counted
    <2>7. CASE ~\E q \in Runs : mailing[q][i] > 0
        <3>1. sent'[i] = sent[i] + 0 /\ uncovered'[i] = uncovered[i] + 0
            BY <1>3, <2>1, <2>7
        <3>2. Doing(i) = {}
            BY <1>1, <1>2, <2>7, NobodySends
        <3>3. Allowed(i) = 0
            BY <2>1, <3>2 DEF Allowed
        <3>4. 0 + Cardinality(Doing(i))' + Allowed(i) <= 0 + Cardinality(Doing(i)) + Allowed(i)'
            BY <1>3, <2>4, <2>5, <3>3
        <3> QED
            BY <1>1, <2>4, <3>1, <3>4, Counted
    <2> QED
        BY <2>6, <2>7
<1>6. ASSUME mailing[r][i] > 0, mailing' = Take(mailing, r, i)
      PROVE  /\ IsFiniteSet(Doing(i))' /\ Cardinality(Doing(i)) = Cardinality(Doing(i))' + 1
             /\ Cardinality(Doing(i))' \in Nat /\ Allowed(i) = 1
    <2>1. \A q \in Runs : mailing'[q][i] = IF q = r THEN mailing[q][i] - 1 ELSE mailing[q][i]
        BY <1>1, <1>6, TakeFacts
    <2>2. Under(r, i) = Under(r, i)' + 1 /\ \A q \in Runs \ {r} : Under(q, i)' = Under(q, i)
        BY <1>2, <2>1
    <2>3. /\ IsFiniteSet(Doing(i))' /\ Cardinality(Doing(i)) = Cardinality(Doing(i))' + 1
          /\ Doing(i) # {}
        BY <1>1, <2>2, OneLess DEF Excused
    <2> QED
        BY <2>3, FS_CardinalityType DEF Allowed
<1>7. CASE MailSend(r, i)
    <2>1. /\ mailing[r][i] > 0 /\ mailing' = Take(mailing, r, i)
          /\ sent' = [sent EXCEPT ![i] = @ + 1] /\ UNCHANGED uncovered /\ i \in dedup'
        BY <1>7 DEF MailSend
    <2>2. sent'[i] = sent[i] + 1 /\ uncovered'[i] = uncovered[i] + 0
        BY <1>3, <2>1
    <2>3. Allowed(i)' = 1
        BY <1>1, <2>1 DEF Allowed, Keyed
    <2>4. 1 + Cardinality(Doing(i))' + Allowed(i) <= 0 + Cardinality(Doing(i)) + Allowed(i)'
        BY <1>3, <1>6, <2>1, <2>3
    <2> QED
        BY <1>1, <1>6, <2>1, <2>2, <2>4, Counted
<1>8. CASE MailFails(r, i)
    <2>1. mailing[r][i] > 0 /\ mailing' = Take(mailing, r, i)
        BY <1>8 DEF MailFails
    <2>2. \/ UNCHANGED sent /\ UNCHANGED uncovered
          \/ sent' = [sent EXCEPT ![i] = @ + 1] /\ uncovered' = [uncovered EXCEPT ![i] = @ + 1]
          \/ sent' = [sent EXCEPT ![i] = @ + 1] /\ UNCHANGED uncovered /\ i \in dedup'
        BY <1>8 DEF MailFails
    <2>3. CASE UNCHANGED sent /\ UNCHANGED uncovered
        <3>1. sent'[i] = sent[i] + 0 /\ uncovered'[i] = uncovered[i] + 0
            BY <1>3, <2>3
        <3>2. 0 + Cardinality(Doing(i))' + Allowed(i) <= 0 + Cardinality(Doing(i)) + Allowed(i)'
            BY <1>3, <1>6, <2>1
        <3> QED
            BY <1>1, <1>6, <2>1, <3>1, <3>2, Counted
    <2>4. CASE sent' = [sent EXCEPT ![i] = @ + 1] /\ uncovered' = [uncovered EXCEPT ![i] = @ + 1]
        <3>1. sent'[i] = sent[i] + 1 /\ uncovered'[i] = uncovered[i] + 1
            BY <1>3, <2>4
        <3>2. 1 + Cardinality(Doing(i))' + Allowed(i) <= 1 + Cardinality(Doing(i)) + Allowed(i)'
            BY <1>3, <1>6, <2>1
        <3> QED
            BY <1>1, <1>6, <2>1, <3>1, <3>2, Counted
    <2>5. CASE sent' = [sent EXCEPT ![i] = @ + 1] /\ UNCHANGED uncovered /\ i \in dedup'
        <3>1. sent'[i] = sent[i] + 1 /\ uncovered'[i] = uncovered[i] + 0
            BY <1>3, <2>5
        <3>2. Allowed(i)' = 1
            BY <1>1, <2>5 DEF Allowed, Keyed
        <3>3. 1 + Cardinality(Doing(i))' + Allowed(i) <= 0 + Cardinality(Doing(i)) + Allowed(i)'
            BY <1>3, <1>6, <2>1, <3>2
        <3> QED
            BY <1>1, <1>6, <2>1, <3>1, <3>3, Counted
    <2> QED
        BY <2>2, <2>3, <2>4, <2>5
<1>9. MailStart(r, i) => UNCHANGED <<mailing, uncovered>> \/ ~Skipped(i)
    BY DEF MailStart
<1> QED
    BY <1>4, <1>5, <1>7, <1>8, <1>9
\* The calls of send-push.
LEMMA PushDedup ==
    ASSUME DedupInv, TypeOK', NEW r \in Runs, NEW i \in Places,
           PushStart(r, i) \/ PushMark(r, i) \/ PushSend(r, i) \/ PushFails(r, i)
    PROVE  Excused(i)'
<1>1. /\ TypeOK /\ MessagesOK /\ MessagesOK' /\ UNCHANGED flow /\ flow[i] = "push" /\ Deduped(i) /\ Excused(i)
      /\ mailing \in Counts /\ checked \in Counts /\ r # 0
    BY DEF DedupInv, TypeOK, MessagesOK, Deduped, PushStart, PushMark, PushSend, PushFails,
       automation, Runs
<1>2. /\ \A q \in Runs : Under(q, i) = checked[q][i] + mailing[q][i] /\ Under(q, i)' = checked'[q][i] + mailing'[q][i]
      /\ \A q \in Runs : mailing[q][i] \in Nat /\ checked[q][i] \in Nat
    BY <1>1 DEF Under, Counts
<1>3. /\ sent \in [Places -> Nat] /\ uncovered \in [Places -> Nat] /\ processed \in [Places -> Nat]
      /\ sent[i] \in Nat /\ uncovered[i] \in Nat /\ Cardinality(Doing(i)) \in Nat
      /\ Allowed(i) \in 0..1 /\ Allowed(i)' \in 0..1
    BY <1>1, PlaceFacts, FS_CardinalityType DEF TypeOK, PlacesOK, Excused, Allowed
<1>4. CASE PushStart(r, i)
    <2>1. /\ checked' = Put(checked, r, i) /\ UNCHANGED sent /\ UNCHANGED mailing /\ ~Keyed(i)
          /\ uncovered' = [uncovered EXCEPT ![i] =
                             IF \E q \in Runs : checked[q][i] + mailing[q][i] > 0 THEN @ + 1 ELSE @]
        BY <1>1, <1>4 DEF PushStart, Keyed
    <2>2. \A q \in Runs : checked'[q][i] = IF q = r THEN checked[q][i] + 1 ELSE checked[q][i]
        BY <1>1, <2>1, PutFacts
    <2>3. Under(r, i)' = Under(r, i) + 1 /\ \A q \in Runs \ {r} : Under(q, i)' = Under(q, i)
        BY <1>2, <2>1, <2>2
    <2>4. /\ IsFiniteSet(Doing(i))' /\ Cardinality(Doing(i))' = Cardinality(Doing(i)) + 1
          /\ Doing(i)' # {}
        BY <1>1, <2>3, OneMore DEF Excused
    <2>5. Allowed(i)' = 1
        BY <2>4 DEF Allowed
    <2>6. CASE \E q \in Runs : checked[q][i] + mailing[q][i] > 0
        <3>1. sent'[i] = sent[i] + 0 /\ uncovered'[i] = uncovered[i] + 1
            BY <1>3, <2>1, <2>6
        <3>2. 0 + Cardinality(Doing(i))' + Allowed(i) <= 1 + Cardinality(Doing(i)) + Allowed(i)'
            BY <1>3, <2>4, <2>5
        <3> QED
            BY <1>1, <2>4, <3>1, <3>2, Counted
    <2>7. CASE ~\E q \in Runs : checked[q][i] + mailing[q][i] > 0
        <3>1. sent'[i] = sent[i] + 0 /\ uncovered'[i] = uncovered[i] + 0
            BY <1>3, <2>1, <2>7
        <3>2. Doing(i) = {}
            BY <1>1, <1>2, <2>7, NobodySends
        <3>3. Allowed(i) = 0
            BY <2>1, <3>2 DEF Allowed
        <3>4. 0 + Cardinality(Doing(i))' + Allowed(i) <= 0 + Cardinality(Doing(i)) + Allowed(i)'
            BY <1>3, <2>4, <2>5, <3>3
        <3> QED
            BY <1>1, <2>4, <3>1, <3>4, Counted
    <2> QED
        BY <2>6, <2>7
<1>5. CASE PushMark(r, i)
    <2>1. /\ checked[r][i] > 0 /\ checked' = Take(checked, r, i) /\ mailing' = Put(mailing, r, i)
          /\ UNCHANGED <<sent, uncovered, processed>>
        BY <1>5 DEF PushMark, history
    <2>2. \A q \in Runs : /\ checked'[q][i] = IF q = r THEN checked[q][i] - 1 ELSE checked[q][i]
                          /\ mailing'[q][i] = IF q = r THEN mailing[q][i] + 1 ELSE mailing[q][i]
        BY <1>1, <2>1, PutFacts, TakeFacts
    <2>3. \A q \in Runs : Under(q, i)' = Under(q, i)
        BY <1>2, <2>2
    <2>4. Keyed(i) => Keyed(i)'
        BY <1>1, <2>1 DEF Keyed
    <2> QED
        BY <1>1, <2>1, <2>3, <2>4, Elsewhere
<1>6. ASSUME mailing[r][i] > 0, mailing' = Take(mailing, r, i), UNCHANGED checked
      PROVE  /\ IsFiniteSet(Doing(i))' /\ Cardinality(Doing(i)) = Cardinality(Doing(i))' + 1
             /\ Cardinality(Doing(i))' \in Nat /\ Allowed(i) = 1
    <2>1. \A q \in Runs : mailing'[q][i] = IF q = r THEN mailing[q][i] - 1 ELSE mailing[q][i]
        BY <1>1, <1>6, TakeFacts
    <2>2. Under(r, i) = Under(r, i)' + 1 /\ \A q \in Runs \ {r} : Under(q, i)' = Under(q, i)
        BY <1>2, <1>6, <2>1
    <2>3. /\ IsFiniteSet(Doing(i))' /\ Cardinality(Doing(i)) = Cardinality(Doing(i))' + 1
          /\ Doing(i) # {}
        BY <1>1, <2>2, OneLess DEF Excused
    <2> QED
        BY <2>3, FS_CardinalityType DEF Allowed
<1>7. CASE PushSend(r, i)
    <2>1. /\ mailing[r][i] > 0 /\ mailing' = Take(mailing, r, i) /\ UNCHANGED checked
          /\ UNCHANGED uncovered /\ processed' = [processed EXCEPT ![i] = r]
        BY <1>7 DEF PushSend
    <2>2. PICK devices \in {0, 1} : sent' = [sent EXCEPT ![i] = @ + devices]
        BY <1>7 DEF PushSend
    <2>3. sent'[i] = sent[i] + devices /\ uncovered'[i] = uncovered[i] + 0
        BY <1>3, <2>1, <2>2
    <2>4. Allowed(i)' = 1
        BY <1>1, <1>3, <2>1 DEF Allowed, Keyed
    <2>5. devices + Cardinality(Doing(i))' + Allowed(i) <= 0 + Cardinality(Doing(i)) + Allowed(i)'
        BY <1>3, <1>6, <2>1, <2>4
    <2> QED
        BY <1>1, <1>6, <2>1, <2>3, <2>5, Counted
<1>8. CASE PushFails(r, i)
    <2>1. mailing[r][i] > 0 /\ mailing' = Take(mailing, r, i) /\ UNCHANGED checked
        BY <1>8 DEF PushFails
    <2>2. \/ UNCHANGED sent /\ UNCHANGED uncovered
          \/ sent' = [sent EXCEPT ![i] = @ + 1] /\ uncovered' = [uncovered EXCEPT ![i] = @ + 1]
        BY <1>8 DEF PushFails
    <2>3. CASE UNCHANGED sent /\ UNCHANGED uncovered
        <3>1. sent'[i] = sent[i] + 0 /\ uncovered'[i] = uncovered[i] + 0
            BY <1>3, <2>3
        <3>2. 0 + Cardinality(Doing(i))' + Allowed(i) <= 0 + Cardinality(Doing(i)) + Allowed(i)'
            BY <1>3, <1>6, <2>1
        <3> QED
            BY <1>1, <1>6, <2>1, <3>1, <3>2, Counted
    <2>4. CASE sent' = [sent EXCEPT ![i] = @ + 1] /\ uncovered' = [uncovered EXCEPT ![i] = @ + 1]
        <3>1. sent'[i] = sent[i] + 1 /\ uncovered'[i] = uncovered[i] + 1
            BY <1>3, <2>4
        <3>2. 1 + Cardinality(Doing(i))' + Allowed(i) <= 1 + Cardinality(Doing(i)) + Allowed(i)'
            BY <1>3, <1>6, <2>1
        <3> QED
            BY <1>1, <1>6, <2>1, <3>1, <3>2, Counted
    <2> QED
        BY <2>2, <2>3, <2>4
<1> QED
    BY <1>4, <1>5, <1>7, <1>8

\* A key that expires is an excuse.
LEMMA ExpiryDedup ==
    ASSUME DedupInv, TypeOK', NEW i \in Places, Deduped(i), DedupExpires(i) \/ PushKeyExpires(i)
    PROVE  Excused(i)'
<1>1. /\ TypeOK /\ Excused(i) /\ uncovered \in [Places -> Nat]
      /\ UNCHANGED flow /\ UNCHANGED mailing /\ UNCHANGED checked /\ UNCHANGED sent
    BY DEF DedupInv, TypeOK, PlacesOK, DedupExpires, PushKeyExpires, automation, messages, pushes
<1>2. \A q \in Runs : Under(q, i)' = Under(q, i)
    BY <1>1 DEF Under
<1>3. Doing(i)' = Doing(i)
    BY <1>2 DEF Doing
<1>4. CASE uncovered' = [uncovered EXCEPT ![i] = @ + 1]
    <2>1. IsFiniteSet(Doing(i))' /\ Cardinality(Doing(i))' = Cardinality(Doing(i)) /\ Cardinality(Doing(i)) \in Nat
        BY <1>1, <1>3, FS_CardinalityType DEF Excused
    <2>2. sent[i] \in Nat /\ uncovered[i] \in Nat /\ sent'[i] = sent[i] + 0 /\ uncovered'[i] = uncovered[i] + 1
        BY <1>1, <1>4, PlaceFacts
    <2>3. Allowed(i) \in 0..1 /\ Allowed(i)' \in 0..1
        BY DEF Allowed
    <2>4. 0 + Cardinality(Doing(i))' + Allowed(i) <= 1 + Cardinality(Doing(i)) + Allowed(i)'
        BY <2>1, <2>3
    <2> QED
        BY <1>1, <2>1, <2>2, <2>4, Counted
<1>5. CASE UNCHANGED <<uncovered, processed, dedup>>
    BY <1>1, <1>2, <1>5, Elsewhere DEF Keyed
<1> QED
    BY <1>4, <1>5 DEF DedupExpires, PushKeyExpires

\* The automation is what it is.
LEMMA SameAutomation == [Next]_vars => UNCHANGED <<policy, flow>>
BY DEF Next, vars, automation, Entering, EntryCheck, EntryInsert, EntrySend, Stepping,
   StepStopped, Step,
       Sending, MailStart, MailSend, PushDrop, PushStart, PushMark, PushSend, SmsSend, Completing, Complete,
       Stopping, CancelWrite, CancelRequest, RemoveRequest, TargetRequest, TargetKeys, Failing, FlagExpires,
       EntryFails, DedupExpires, PushKeyExpires, StepFails, CompleteFails, MailRefuse, MailFails,
       MailTimesOut, PushFails, SmsFails

\* Steps that have nothing to do with sends.
Idle == UNCHANGED <<mailing, checked, sent, uncovered, dedup, processed>>

\* The entry, the steps of message-trigger, the end of a run and the requests
\* to stop it are such steps.
LEMMA IdleSteps ==
    ASSUME \/ Entering \/ Stepping \/ Completing \/ Stopping \/ FlagExpires \/ UNCHANGED vars
           \/ \E e \in Entries : EntryFails(e)
           \/ \E r \in Runs : CompleteFails(r)
           \/ \E r \in Runs, i \in Places : PushDrop(r, i) \/ StepFails(r, i) \/ MailRefuse(r, i) \/ MailTimesOut(r, i)
    PROVE  Idle
BY DEF Idle, vars, messages, keys, pushes, history, Entering, EntryCheck, EntryInsert, EntrySend,
   Stepping,
       StepStopped, Step, PushDrop, Completing, Complete, Stopping, CancelWrite, CancelRequest, RemoveRequest,
       TargetRequest, TargetKeys, FlagExpires, EntryFails, StepFails, CompleteFails, MailRefuse,
       MailTimesOut

\* Every step keeps the keys true to the sends.
LEMMA DedupStep == DedupInv /\ [Next]_vars => DedupInv'
<1> SUFFICES ASSUME DedupInv, [Next]_vars PROVE DedupInv'
    OBVIOUS
<1>1. /\ TypeOK /\ TypeOK' /\ UNCHANGED policy /\ UNCHANGED flow /\ mailing \in Counts /\ checked \in Counts
      /\ sent \in [Places -> Nat] /\ uncovered \in [Places -> Nat] /\ processed \in [Places -> Nat]
    BY TypeStep, SameAutomation DEF DedupInv, TypeOK, MessagesOK, PlacesOK
<1>2. ASSUME NEW i \in Places, Deduped(i), Idle PROVE Excused(i)'
    <2>1. Excused(i) /\ (\A q \in Runs : Under(q, i)' = Under(q, i)) /\ (Keyed(i) => Keyed(i)')
        BY <1>1, <1>2 DEF DedupInv, Idle, Under, Keyed
    <2> QED
        BY <1>1, <1>2, <2>1, Elsewhere DEF Idle
<1>3. ASSUME NEW i \in Places, Deduped(i), NEW r \in Runs, NEW k \in Places,
             \/ MailStart(r, k) \/ MailSend(r, k) \/ MailFails(r, k)
             \/ PushStart(r, k) \/ PushMark(r, k) \/ PushSend(r, k) \/ PushFails(r, k)
             \/ SmsSend(r, k) \/ SmsFails(r, k)
      PROVE  Excused(i)'
    <2>1. CASE i # k
        <3>1. /\ Touches(mailing, mailing', r, k) /\ Touches(checked, checked', r, k)
              /\ dedup \subseteq dedup'
            BY <1>3 DEF Touches, MailStart, MailSend, MailFails, PushStart, PushMark, PushSend,
               PushFails,
                        SmsSend, SmsFails, keys, pushes
        <3>2. /\ sent' = sent \/ \E n : sent' = [sent EXCEPT ![k] = n]
              /\ uncovered' = uncovered \/ \E n : uncovered' = [uncovered EXCEPT ![k] = n]
              /\ processed' = processed \/ processed' = [processed EXCEPT ![k] = r]
            BY <1>3 DEF MailStart, MailSend, MailFails, PushStart, PushMark, PushSend, PushFails,
                        SmsSend, SmsFails, keys, pushes, history
        <3>3. UNCHANGED sent[i] /\ UNCHANGED uncovered[i] /\ UNCHANGED processed[i]
            BY <1>1, <2>1, <3>2
        <3>4. Excused(i)
            BY <1>3 DEF DedupInv
        <3> QED
            BY <1>1, <2>1, <3>1, <3>3, <3>4, OtherPlaces
    <2>2. CASE i = k
        BY <1>1, <1>3, <2>2, MailDedup, PushDedup DEF SmsSend, SmsFails, Deduped
    <2> QED
        BY <2>1, <2>2
<1>4. ASSUME NEW i \in Places, Deduped(i), NEW k \in Places, DedupExpires(k) \/ PushKeyExpires(k)
      PROVE  Excused(i)'
    <2>1. CASE i # k
        <3>1. /\ UNCHANGED mailing /\ UNCHANGED checked /\ UNCHANGED sent /\ dedup \ {k} \subseteq dedup'
              /\ uncovered' = uncovered \/ uncovered' = [uncovered EXCEPT ![k] = @ + 1]
              /\ processed' = processed \/ processed' = [processed EXCEPT ![k] = 0]
            BY <1>4 DEF DedupExpires, PushKeyExpires, messages, pushes
        <3>2. UNCHANGED sent[i] /\ UNCHANGED uncovered[i] /\ UNCHANGED processed[i]
            BY <1>1, <2>1, <3>1
        <3>3. (\A q \in Runs : Under(q, i)' = Under(q, i)) /\ (Keyed(i) => Keyed(i)') /\ Excused(i)
            BY <1>1, <1>4, <2>1, <3>1, <3>2 DEF Under, Keyed, DedupInv
        <3> QED
            BY <1>1, <3>2, <3>3, Elsewhere
    <2>2. CASE i = k
        BY <1>1, <1>4, <2>2, ExpiryDedup
    <2> QED
        BY <2>1, <2>2
<1>5. ASSUME NEW i \in Places, Deduped(i) PROVE Excused(i)'
    BY <1>2, <1>3, <1>4, <1>5, IdleSteps DEF Next, Sending, Failing
<1>6. \A r \in Runs, i \in Places : checked'[r][i] > 0 => flow'[i] = "push"
    <2>1. CASE UNCHANGED checked
        BY <1>1, <2>1 DEF DedupInv
    <2>2. ASSUME NEW q \in Runs, NEW k \in Places, PushStart(q, k) \/ PushMark(q, k)
          PROVE  \A r \in Runs, i \in Places : checked'[r][i] > 0 => flow'[i] = "push"
        <3>1. /\ Touches(checked, checked', q, k) /\ flow[k] = "push"
            BY <2>2 DEF DedupInv, PushStart, PushMark, Touches
        <3>2. \A r \in Runs, i \in Places : checked'[r][i] = checked[r][i] \/ i = k
            BY <1>1, <3>1, TouchFacts
        <3> QED
            BY <1>1, <3>1, <3>2 DEF DedupInv
    <2>3. \/ UNCHANGED checked
          \/ \E q \in Runs, k \in Places : PushStart(q, k) \/ PushMark(q, k)
        <3>1. CASE Sending
            BY <3>1 DEF Sending, MailStart, MailSend, PushDrop, PushSend, SmsSend, keys, pushes
        <3>2. CASE Failing
            BY <3>2, IdleSteps DEF Idle, Failing, DedupExpires, PushKeyExpires, MailFails,
               PushFails, SmsFails,
                                   keys, pushes
        <3> QED
            BY <3>1, <3>2, IdleSteps DEF Idle, Next
    <2> QED
        BY <2>1, <2>2, <2>3
<1> QED
    BY <1>1, <1>5, <1>6 DEF DedupInv, Deduped

\* All sends of a push, and of an email of a "unique" automation, but the first are
\* excused: by another call between the keys and the send, or by a key that was not
\* written or has expired.
THEOREM DedupAlwaysHolds == Spec => []DedupHolds
<1>1. Init => DedupInv
    <2> SUFFICES ASSUME Init PROVE DedupInv
        OBVIOUS
    <2>1. TypeOK
        BY TypeInit
    <2>2. \A q \in Runs, i \in Places : checked[q][i] = 0 /\ mailing[q][i] = 0
        BY DEF Init, Empty
    <2>3. ASSUME NEW i \in Places PROVE Excused(i)
        <3>1. Doing(i) = {}
            BY <2>2 DEF Doing, Under
        <3>2. sent[i] = 0 /\ uncovered[i] = 0 /\ Allowed(i) \in 0..1
            BY DEF Init, Allowed
        <3> QED
            BY <3>1, <3>2, FS_EmptySet DEF Excused
    <2> QED
        BY <2>1, <2>2, <2>3 DEF DedupInv
<1>2. DedupInv => DedupHolds
    <2> SUFFICES ASSUME DedupInv, NEW i \in Places, Deduped(i) PROVE sent[i] <= 1 + uncovered[i]
        BY DEF DedupHolds, Deduped
    <2>1. Excused(i) /\ TypeOK
        BY DEF DedupInv
    <2>2. Cardinality(Doing(i)) \in Nat /\ sent[i] \in Nat /\ uncovered[i] \in Nat /\ Allowed(i) \in 0..1
        BY <2>1, FS_CardinalityType, PlaceFacts DEF Excused
    <2> QED
        BY <2>1, <2>2 DEF Excused
<1> QED
    BY <1>1, <1>2, DedupStep, PTL DEF Spec

(***************************************************************************)
(* The messages of a run.  At a place of the flow a run has messages for   *)
(* message-trigger and for the services that send, and calls of these; a   *)
(* step takes one of them away, leaves it, or adds one, there and at the   *)
(* place after it.                                                         *)
(***************************************************************************)

At(r, i) == queue[r][i] + mail[r][i] + checked[r][i] + mailing[r][i]

\* The counts g are the counts f with n more at a place, and m more at the next.
More(f, g, r, i, n, m) ==
    \A q \in Runs, j \in Places :
        g[q][j] = f[q][j] + (IF q = r /\ j = i THEN n ELSE 0) + (IF q = r /\ j = i + 1 THEN m ELSE 0)

Shift(r, i, a, b) ==
    \A q \in Runs, j \in Places :
        At(q, j)' = At(q, j) + (IF q = r /\ j = i THEN a ELSE 0) + (IF q = r /\ j = i + 1 THEN b ELSE 0)

\* Putting and taking, as differences.
LEMMA MoreFacts ==
    ASSUME NEW f \in Counts, NEW r \in Runs, NEW i \in Places
    PROVE  /\ More(f, f, r, i, 0, 0)
           /\ More(f, Put(f, r, i), r, i, 1, 0)
           /\ i + 1 \in Places => More(f, Put(f, r, i + 1), r, i, 0, 1)
           /\ f[r][i] > 0 => /\ Take(f, r, i) \in Counts /\ More(f, Take(f, r, i), r, i, -1, 0)
                             /\ i + 1 \in Places => More(f, Put(Take(f, r, i), r, i + 1), r, i, -1, 1)
<1>1. \A q \in Runs, j \in Places : f[q][j] \in Nat
    BY DEF Counts
<1>2. i \in Nat /\ i + 1 # i /\ Places \subseteq Nat
    BY DEF Places
<1>3. More(f, f, r, i, 0, 0)
    BY <1>1 DEF More
<1>4. More(f, Put(f, r, i), r, i, 1, 0)
    BY <1>1, PutFacts DEF More
<1>5. i + 1 \in Places => More(f, Put(f, r, i + 1), r, i, 0, 1)
    BY <1>1, <1>2, PutFacts DEF More
<1>6. ASSUME f[r][i] > 0
      PROVE  /\ Take(f, r, i) \in Counts /\ More(f, Take(f, r, i), r, i, -1, 0)
             /\ i + 1 \in Places => More(f, Put(Take(f, r, i), r, i + 1), r, i, -1, 1)
    <2>1. PICK g : g = Take(f, r, i)
        OBVIOUS
    <2>2. g \in Counts /\ \A q \in Runs, j \in Places : g[q][j] = IF q = r /\ j = i THEN f[q][j] - 1 ELSE f[q][j]
        BY <1>6, <2>1, TakeFacts
    <2>3. More(f, g, r, i, -1, 0)
        BY <1>1, <2>2 DEF More
    <2>4. ASSUME i + 1 \in Places PROVE More(f, Put(g, r, i + 1), r, i, -1, 1)
        <3>1. \A q \in Runs, j \in Places :
                 Put(g, r, i + 1)[q][j] = IF q = r /\ j = i + 1 THEN g[q][j] + 1 ELSE g[q][j]
            BY <2>2, <2>4, PutFacts
        <3> QED
            BY <1>1, <1>2, <2>2, <3>1 DEF More
    <2> QED
        BY <2>1, <2>2, <2>3, <2>4
<1> QED
    BY <1>3, <1>4, <1>5, <1>6

\* The differences add up.
LEMMA ShiftSum ==
    ASSUME MessagesOK, MessagesOK', NEW r \in Runs, NEW i \in Places,
           NEW x \in Int, NEW y \in Int, NEW z \in Int, NEW w \in Int, NEW b \in Int,
           More(queue, queue', r, i, x, b), More(mail, mail', r, i, y, 0),
           More(checked, checked', r, i, z, 0), More(mailing, mailing', r, i, w, 0),
           NEW a \in Int, a = x + y + z + w
    PROVE  Shift(r, i, a, b)
<1> SUFFICES ASSUME NEW q \in Runs, NEW j \in Places
             PROVE  At(q, j)' = At(q, j) + (IF q = r /\ j = i THEN a ELSE 0)
                                         + (IF q = r /\ j = i + 1 THEN b ELSE 0)
    BY DEF Shift
<1>1. queue[q][j] \in Nat /\ mail[q][j] \in Nat /\ checked[q][j] \in Nat /\ mailing[q][j] \in Nat
    BY DEF MessagesOK, Counts
<1>2. PICK m \in Int, n \in Int : /\ m = IF q = r /\ j = i THEN 1 ELSE 0
                                  /\ n = IF q = r /\ j = i + 1 THEN 1 ELSE 0
    OBVIOUS
<1>3. /\ queue'[q][j] = queue[q][j] + (IF m = 1 THEN x ELSE 0) + (IF n = 1 THEN b ELSE 0)
      /\ mail'[q][j] = mail[q][j] + (IF m = 1 THEN y ELSE 0)
      /\ checked'[q][j] = checked[q][j] + (IF m = 1 THEN z ELSE 0)
      /\ mailing'[q][j] = mailing[q][j] + (IF m = 1 THEN w ELSE 0)
    BY <1>1, <1>2 DEF More
<1>4. At(q, j)' = At(q, j) + (IF m = 1 THEN a ELSE 0) + (IF n = 1 THEN b ELSE 0)
    BY <1>1, <1>3 DEF At
<1> QED
    BY <1>2, <1>4
\* What a step of message-trigger, or of a service that sends, does to the messages of
\* its run.  A message that leaves its place, and is not found at the next one, has
\* reached the end, or is excused.
Travels(r, i) ==
    /\ At(r, i) > 0
    /\ \E a \in {-1, 0, 1}, b \in {0, 1} :
          /\ Shift(r, i, a, b)
          /\ b = 1 => i + 1 \in Places
          /\ a = -1 => \/ b = 1 \/ completing'[r] > 0 \/ r \in lost' \/ r \in removed'
                       \/ r \in target \/ processed[i] = r \/ At(r, i)' > 0
          /\ mishaps' = mishaps => a + b <= 0
          /\ processed' = processed \/ (processed' = [processed EXCEPT ![i] = r] /\ b = 1)
          /\ target' = target \/ (target' = target \ {r} /\ a + b = -1)
    /\ completing' = completing \/ completing' = [completing EXCEPT ![r] = @ + 1]
    /\ lost \subseteq lost' /\ removed \subseteq removed'
    /\ late'.target \subseteq late.target \cup ({r} \cap (targeted \ target))
    /\ UNCHANGED <<rows, entry, achieving, targeted>>

\* The places and the messages are counted.
LEMMA AtFacts ==
    ASSUME MessagesOK, NEW r \in Runs, NEW i \in Places
    PROVE  /\ queue[r][i] \in Nat /\ mail[r][i] \in Nat /\ checked[r][i] \in Nat /\ mailing[r][i] \in Nat
           /\ At(r, i) \in Nat
           /\ At(r, i) > 0 <=> queue[r][i] > 0 \/ mail[r][i] > 0 \/ checked[r][i] > 0 \/ mailing[r][i] > 0
<1>1. queue[r][i] \in Nat /\ mail[r][i] \in Nat /\ checked[r][i] \in Nat /\ mailing[r][i] \in Nat
    BY DEF MessagesOK, Counts
<1>2. PICK a \in Nat, b \in Nat, c \in Nat, d \in Nat :
         a = queue[r][i] /\ b = mail[r][i] /\ c = checked[r][i] /\ d = mailing[r][i]
    BY <1>1
<1>3. a + b + c + d \in Nat /\ (a + b + c + d > 0 <=> a > 0 \/ b > 0 \/ c > 0 \/ d > 0)
    OBVIOUS
<1> QED
    BY <1>2, <1>3 DEF At
\* So they are after a step.
LEMMA AtNext ==
    ASSUME MessagesOK', NEW r \in Runs, NEW i \in Places
    PROVE  At(r, i)' \in Nat
<1>1. queue'[r][i] \in Nat /\ mail'[r][i] \in Nat /\ checked'[r][i] \in Nat /\ mailing'[r][i] \in Nat
    BY DEF MessagesOK, Counts
<1> QED
    BY <1>1 DEF At

\* The steps of message-trigger.
LEMMA SteppingTravels ==
    ASSUME TypeOK, MessagesOK', NEW r \in Runs, NEW i \in Places,
           StepStopped(r, i) \/ Step(r, i) \/ StepFails(r, i)
    PROVE  Travels(r, i)
<1>1. /\ MessagesOK /\ queue \in Counts /\ mail \in Counts /\ checked \in Counts /\ mailing \in Counts
      /\ processed \in [Places -> Nat] /\ completing \in [Runs -> Nat]
      /\ flow[i] # "end" => i + 1 \in Places
      /\ mishaps \in Nat
    BY NextPlace DEF TypeOK, MessagesOK, PlacesOK, RowsOK
<1>2. /\ queue[r][i] > 0 /\ At(r, i) > 0 /\ flow[i] \in {"email", "push", "sms", "wait", "end"}
    BY <1>1, AtFacts, AutomationAssumption DEF StepStopped, Step, StepFails, MessagesOK, Places
<1>3. /\ Take(queue, r, i) \in Counts
      /\ More(queue, queue, r, i, 0, 0) /\ More(queue, Take(queue, r, i), r, i, -1, 0)
      /\ More(mail, mail, r, i, 0, 0) /\ More(mail, Put(mail, r, i), r, i, 1, 0)
      /\ More(checked, checked, r, i, 0, 0) /\ More(mailing, mailing, r, i, 0, 0)
    BY <1>1, <1>2, MoreFacts
<1>4. i + 1 \in Places =>
         /\ More(queue, Put(queue, r, i + 1), r, i, 0, 1)
         /\ More(queue, Put(Take(queue, r, i), r, i + 1), r, i, -1, 1)
    BY <1>1, <1>2, MoreFacts
<1>5. CASE StepStopped(r, i)
    <2>1. UNCHANGED mail /\ UNCHANGED checked /\ UNCHANGED mailing /\ queue' = Take(queue, r, i)
        BY <1>5 DEF StepStopped, pushes
    <2>2. Shift(r, i, -1, 0)
        BY <1>1, <1>3, <2>1, ShiftSum
    <2>3. r \in removed' \/ r \in target
        BY <1>5 DEF StepStopped, Stopped
    <2> QED
        BY <1>2, <1>5, <2>2, <2>3 DEF StepStopped, Travels, pushes
<1>6. ASSUME ProcessMessage(r, i, Take(queue, r, i)), UNCHANGED <<checked, mailing>>
      PROVE  /\ \/ Shift(r, i, 0, 0) /\ UNCHANGED completing
                \/ Shift(r, i, -1, 1) /\ UNCHANGED completing /\ i + 1 \in Places
                \/ Shift(r, i, -1, 0) /\ completing' = [completing EXCEPT ![r] = @ + 1]
    <2>1. CASE flow[i] \in Sends
        <3>1. mail' = Put(mail, r, i) /\ queue' = Take(queue, r, i) /\ UNCHANGED completing
            BY <1>6, <2>1 DEF ProcessMessage, Sends
        <3>2. Shift(r, i, 0, 0)
            BY <1>1, <1>3, <1>6, <3>1, ShiftSum
        <3> QED
            BY <3>1, <3>2
    <2>2. CASE flow[i] = "wait"
        <3>1. queue' = Put(Take(queue, r, i), r, i + 1) /\ UNCHANGED mail /\ UNCHANGED completing
            BY <1>6, <2>2 DEF ProcessMessage, Sends
        <3>2. Shift(r, i, -1, 1)
            BY <1>1, <1>3, <1>4, <1>6, <2>2, <3>1, ShiftSum
        <3> QED
            BY <1>1, <2>2, <3>1, <3>2
    <2>3. CASE flow[i] = "end"
        <3>1. queue' = Take(queue, r, i) /\ UNCHANGED mail /\ completing' = [completing EXCEPT ![r] = @ + 1]
            BY <1>6, <2>3 DEF ProcessMessage, Sends
        <3>2. Shift(r, i, -1, 0)
            BY <1>1, <1>3, <1>6, <3>1, ShiftSum
        <3> QED
            BY <3>1, <3>2
    <2> QED
        BY <1>2, <2>1, <2>2, <2>3 DEF Sends
<1>7. ASSUME ProcessMessage(r, i, queue), UNCHANGED <<checked, mailing>>
      PROVE  /\ \/ Shift(r, i, 1, 0)
                \/ Shift(r, i, 0, 1) /\ i + 1 \in Places
                \/ Shift(r, i, 0, 0)
             /\ completing' = completing \/ completing' = [completing EXCEPT ![r] = @ + 1]
    <2>1. CASE flow[i] \in Sends
        <3>1. mail' = Put(mail, r, i) /\ UNCHANGED queue /\ UNCHANGED completing
            BY <1>7, <2>1 DEF ProcessMessage, Sends
        <3>2. Shift(r, i, 1, 0)
            BY <1>1, <1>3, <1>7, <3>1, ShiftSum
        <3> QED
            BY <3>1, <3>2
    <2>2. CASE flow[i] = "wait"
        <3>1. queue' = Put(queue, r, i + 1) /\ UNCHANGED mail /\ UNCHANGED completing
            BY <1>7, <2>2 DEF ProcessMessage, Sends
        <3>2. Shift(r, i, 0, 1)
            BY <1>1, <1>3, <1>4, <1>7, <2>2, <3>1, ShiftSum
        <3> QED
            BY <1>1, <2>2, <3>1, <3>2
    <2>3. CASE flow[i] = "end"
        <3>1. UNCHANGED queue /\ UNCHANGED mail /\ completing' = [completing EXCEPT ![r] = @ + 1]
            BY <1>7, <2>3 DEF ProcessMessage, Sends
        <3>2. Shift(r, i, 0, 0)
            BY <1>1, <1>3, <1>7, <3>1, ShiftSum
        <3> QED
            BY <3>1, <3>2
    <2> QED
        BY <1>2, <2>1, <2>2, <2>3 DEF Sends
<1>8. Late(r) /\ r \notin target => late'.target \subseteq late.target \cup ({r} \cap (targeted \ target))
    BY DEF Late
<1>9. completing' = [completing EXCEPT ![r] = @ + 1] => completing'[r] > 0
    BY <1>1
<1>10. CASE Step(r, i)
    <2>1. /\ ProcessMessage(r, i, Take(queue, r, i)) /\ Late(r) /\ r \notin target
          /\ UNCHANGED <<checked, mailing, rows, entry, achieving, targeted, processed, target, lost, removed>>
        BY <1>10 DEF Step, Stopped, keys, pushes
    <2>2. CASE Shift(r, i, 0, 0) /\ UNCHANGED completing
        BY <1>2, <1>8, <2>1, <2>2 DEF Travels
    <2>3. CASE Shift(r, i, -1, 1) /\ UNCHANGED completing /\ i + 1 \in Places
        BY <1>2, <1>8, <2>1, <2>3 DEF Travels
    <2>4. CASE Shift(r, i, -1, 0) /\ completing' = [completing EXCEPT ![r] = @ + 1]
        BY <1>2, <1>8, <1>9, <2>1, <2>4 DEF Travels
    <2> QED
        BY <1>6, <2>1, <2>2, <2>3, <2>4
<1>11. CASE StepFails(r, i)
    <2>1. /\ UNCHANGED <<checked, mailing, rows, entry, achieving, targeted, processed, target, removed>>
          /\ mishaps' # mishaps /\ lost \subseteq lost'
        BY <1>1, <1>11 DEF StepFails, Mishap, keys, pushes
    <2>2. CASE r \notin target /\ ProcessMessage(r, i, queue) /\ Late(r)
        <3>1. CASE Shift(r, i, 1, 0)
            BY <1>2, <1>7, <1>8, <2>1, <2>2, <3>1 DEF Travels
        <3>2. CASE Shift(r, i, 0, 1) /\ i + 1 \in Places
            BY <1>2, <1>7, <1>8, <2>1, <2>2, <3>2 DEF Travels
        <3>3. CASE Shift(r, i, 0, 0)
            BY <1>2, <1>7, <1>8, <2>1, <2>2, <3>3 DEF Travels
        <3> QED
            BY <1>7, <2>1, <2>2, <3>1, <3>2, <3>3
    <2>3. CASE queue' = Take(queue, r, i) /\ lost' = lost \cup {r} /\ UNCHANGED <<mail, completing, late>>
        <3>1. Shift(r, i, -1, 0)
            BY <1>1, <1>3, <2>1, <2>3, ShiftSum
        <3> QED
            BY <1>2, <2>1, <2>3, <3>1 DEF Travels
    <2> QED
        BY <1>11, <2>2, <2>3 DEF StepFails, Stopped
<1> QED
    BY <1>5, <1>10, <1>11
\* What the services that send do with messages and calls, place by place.
LEMMA Sent ==
    ASSUME TypeOK, NEW r \in Runs, NEW i \in Places
    PROVE  /\ flow[i] # "end" => i + 1 \in Places /\ More(queue, Put(queue, r, i + 1), r, i, 0, 1)
           /\ More(queue, queue, r, i, 0, 0)
           /\ More(mail, mail, r, i, 0, 0) /\ More(mail, Put(mail, r, i), r, i, 1, 0)
           /\ mail[r][i] > 0 => More(mail, Take(mail, r, i), r, i, -1, 0)
           /\ More(mailing, mailing, r, i, 0, 0) /\ More(mailing, Put(mailing, r, i), r, i, 1, 0)
           /\ mailing[r][i] > 0 => More(mailing, Take(mailing, r, i), r, i, -1, 0)
           /\ More(checked, checked, r, i, 0, 0) /\ More(checked, Put(checked, r, i), r, i, 1, 0)
           /\ checked[r][i] > 0 => More(checked, Take(checked, r, i), r, i, -1, 0)
<1>1. MessagesOK /\ queue \in Counts /\ mail \in Counts /\ checked \in Counts /\ mailing \in Counts
    BY DEF TypeOK, MessagesOK
<1>2. flow[i] # "end" => i + 1 \in Places
    BY <1>1, NextPlace
<1> QED
    BY <1>1, <1>2, MoreFacts

\* The steps of send-email.
LEMMA MailTravels ==
    ASSUME TypeOK, MessagesOK', NEW r \in Runs, NEW i \in Places, flow[i] = "email",
           MailStart(r, i) \/ MailSend(r, i) \/ MailRefuse(r, i) \/ MailFails(r, i)
    PROVE  Travels(r, i)
<1>1. MessagesOK /\ mishaps \in Nat
    BY DEF TypeOK, RowsOK
<1>2. At(r, i) > 0
    BY <1>1, AtFacts DEF MailStart, MailSend, MailRefuse, MailFails
<1>3. /\ UNCHANGED <<checked, completing, rows, entry, achieving, targeted, target, processed, removed, late>>
      /\ lost \subseteq lost'
    BY DEF MailStart, MailSend, MailRefuse, MailFails, keys, pushes
<1>4. CASE MailStart(r, i)
    <2>1. CASE Skipped(i)
        <3>1. /\ More(queue, queue', r, i, 0, 1) /\ More(mail, mail', r, i, -1, 0)
               /\ More(checked, checked', r, i, 0, 0) /\ More(mailing, mailing', r, i, 0, 0)
            BY <1>1, <1>3, <1>4, <2>1, Sent DEF MailStart
        <3>2. Shift(r, i, -1, 1)
            BY <1>1, <3>1, ShiftSum
        <3> QED
            BY <1>2, <1>3, <3>2, Sent DEF Travels
    <2>2. CASE ~Skipped(i)
        <3>1. /\ More(queue, queue', r, i, 0, 0) /\ More(mail, mail', r, i, -1, 0)
               /\ More(checked, checked', r, i, 0, 0) /\ More(mailing, mailing', r, i, 1, 0)
            BY <1>1, <1>3, <1>4, <2>2, Sent DEF MailStart
        <3>2. Shift(r, i, 0, 0)
            BY <1>1, <3>1, ShiftSum
        <3> QED
            BY <1>2, <1>3, <3>2 DEF Travels
    <2> QED
        BY <2>1, <2>2
<1>5. CASE MailSend(r, i)
    <2>1. /\ More(queue, queue', r, i, 0, 1) /\ More(mail, mail', r, i, 0, 0)
           /\ More(checked, checked', r, i, 0, 0) /\ More(mailing, mailing', r, i, -1, 0)
        BY <1>1, <1>3, <1>5, Sent DEF MailSend
    <2>2. Shift(r, i, -1, 1)
        BY <1>1, <2>1, ShiftSum
    <2> QED
        BY <1>2, <1>3, <2>2, Sent DEF Travels
<1>6. CASE MailRefuse(r, i)
    <2>1. CASE queue' = Put(queue, r, i + 1)
        <3>1. /\ More(queue, queue', r, i, 0, 1) /\ More(mail, mail', r, i, -1, 0)
               /\ More(checked, checked', r, i, 0, 0) /\ More(mailing, mailing', r, i, 0, 0)
            BY <1>1, <1>3, <1>6, <2>1, Sent DEF MailRefuse
        <3>2. Shift(r, i, -1, 1)
            BY <1>1, <3>1, ShiftSum
        <3> QED
            BY <1>2, <1>3, <3>2, Sent DEF Travels
    <2>2. CASE lost' = lost \cup {r} /\ UNCHANGED queue
        <3>1. /\ More(queue, queue', r, i, 0, 0) /\ More(mail, mail', r, i, -1, 0)
              /\ More(checked, checked', r, i, 0, 0) /\ More(mailing, mailing', r, i, 0, 0)
            BY <1>3, <1>6, <2>2, Sent DEF MailRefuse
        <3>2. Shift(r, i, -1, 0)
            BY <1>1, <3>1, ShiftSum
        <3> QED
            BY <1>2, <1>3, <2>2, <3>2 DEF Travels
    <2> QED
        BY <1>6, <2>1, <2>2 DEF MailRefuse
<1>7. CASE MailFails(r, i)
    <2>1. UNCHANGED queue /\ mailing' = Take(mailing, r, i) /\ mailing[r][i] > 0
        BY <1>7 DEF MailFails
    <2>2. CASE mail' = Put(mail, r, i)
        <3>1. /\ More(queue, queue', r, i, 0, 0) /\ More(mail, mail', r, i, 1, 0)
               /\ More(checked, checked', r, i, 0, 0) /\ More(mailing, mailing', r, i, -1, 0)
            BY <1>1, <1>3, <2>1, <2>2, Sent
        <3>2. Shift(r, i, 0, 0)
            BY <1>1, <3>1, ShiftSum
        <3> QED
            BY <1>2, <1>3, <3>2 DEF Travels
    <2>3. CASE UNCHANGED mail /\ lost' = lost \cup {r}
        <3>1. /\ More(queue, queue', r, i, 0, 0) /\ More(mail, mail', r, i, 0, 0)
               /\ More(checked, checked', r, i, 0, 0) /\ More(mailing, mailing', r, i, -1, 0)
            BY <1>1, <1>3, <2>1, <2>3, Sent
        <3>2. Shift(r, i, -1, 0)
            BY <1>1, <3>1, ShiftSum
        <3> QED
            BY <1>2, <1>3, <2>3, <3>2 DEF Travels
    <2> QED
        BY <1>7, <2>2, <2>3 DEF MailFails
<1> QED
    BY <1>4, <1>5, <1>6, <1>7

\* A call that takes longer than its caller waits.
LEMMA TimeoutTravels ==
    ASSUME TypeOK, MessagesOK', NEW r \in Runs, NEW i \in Places, MailTimesOut(r, i)
    PROVE  Travels(r, i)
<1>1. MessagesOK /\ mishaps \in Nat
    BY DEF TypeOK, RowsOK
<1>2. At(r, i) > 0
    BY <1>1, AtFacts DEF MailTimesOut
<1>3. /\ UNCHANGED <<queue, mailing, checked, completing, rows, entry, achieving, targeted, target, processed>>
      /\ UNCHANGED <<lost, removed, late>> /\ mishaps' # mishaps
    BY <1>1 DEF MailTimesOut, Mishap, keys, pushes, history
<1>4. /\ More(queue, queue', r, i, 0, 0) /\ More(mail, mail', r, i, 1, 0)
       /\ More(checked, checked', r, i, 0, 0) /\ More(mailing, mailing', r, i, 0, 0)
    BY <1>1, <1>3, Sent DEF MailTimesOut
<1>5. Shift(r, i, 1, 0)
    BY <1>1, <1>4, ShiftSum
<1> QED
    BY <1>2, <1>3, <1>5 DEF Travels
\* The steps of send-push.
LEMMA PushTravels ==
    ASSUME TypeOK, MessagesOK', NEW r \in Runs, NEW i \in Places,
           PushDrop(r, i) \/ PushStart(r, i) \/ PushMark(r, i) \/ PushSend(r, i) \/ PushFails(r, i)
    PROVE  Travels(r, i)
<1>1. MessagesOK /\ mishaps \in Nat
    BY DEF TypeOK, RowsOK
<1>2. At(r, i) > 0
    BY <1>1, AtFacts DEF PushDrop, PushStart, PushMark, PushSend, PushFails
<1>3. /\ UNCHANGED <<completing, rows, entry, achieving, targeted, target, removed, late>>
      /\ lost \subseteq lost'
    BY DEF PushDrop, PushStart, PushMark, PushSend, PushFails, keys, pushes, history
<1>4. CASE PushDrop(r, i)
    <2>1. UNCHANGED <<queue, checked, mailing, processed>> /\ mail[r][i] > 0 /\ mail' = Take(mail, r, i)
        BY <1>4 DEF PushDrop, keys, pushes
    <2>2. /\ More(queue, queue', r, i, 0, 0) /\ More(mail, mail', r, i, -1, 0)
           /\ More(checked, checked', r, i, 0, 0) /\ More(mailing, mailing', r, i, 0, 0)
        BY <1>1, <2>1, Sent
    <2>3. Shift(r, i, -1, 0)
        BY <1>1, <2>2, ShiftSum
    <2>4. checked[r][i] + mailing[r][i] > 0 \/ processed[i] = r \/ r \in lost'
        BY <1>4 DEF PushDrop
    <2>5. checked[r][i] + mailing[r][i] > 0 => At(r, i)' > 0
        <3>1. PICK a \in Nat, b \in Nat : a = checked'[r][i] /\ b = mailing'[r][i]
            BY AtFacts DEF MessagesOK, Counts
        <3>2. a + b > 0 => a > 0 \/ b > 0
            OBVIOUS
        <3>3. checked'[r][i] > 0 \/ mailing'[r][i] > 0 => At(r, i)' > 0
            <4>1. /\ queue'[r][i] \in Nat /\ mail'[r][i] \in Nat /\ checked'[r][i] \in Nat /\ mailing'[r][i] \in Nat
                BY DEF MessagesOK, Counts
            <4> QED
                BY <4>1 DEF At
        <3> QED
            BY <2>1, <3>1, <3>2, <3>3
    <2> QED
        BY <1>2, <1>3, <2>1, <2>3, <2>4, <2>5 DEF Travels
<1>5. CASE PushStart(r, i)
    <2>1. /\ UNCHANGED <<queue, mailing, processed>> /\ mail[r][i] > 0 /\ mail' = Take(mail, r, i)
          /\ checked' = Put(checked, r, i)
        BY <1>5 DEF PushStart
    <2>2. /\ More(queue, queue', r, i, 0, 0) /\ More(mail, mail', r, i, -1, 0)
           /\ More(checked, checked', r, i, 1, 0) /\ More(mailing, mailing', r, i, 0, 0)
        BY <1>1, <2>1, Sent
    <2>3. Shift(r, i, 0, 0)
        BY <1>1, <2>2, ShiftSum
    <2> QED
        BY <1>2, <1>3, <2>1, <2>3 DEF Travels
<1>6. CASE PushMark(r, i)
    <2>1. /\ UNCHANGED <<queue, mail, processed>> /\ checked[r][i] > 0 /\ checked' = Take(checked, r, i)
          /\ mailing' = Put(mailing, r, i)
        BY <1>6 DEF PushMark
    <2>2. /\ More(queue, queue', r, i, 0, 0) /\ More(mail, mail', r, i, 0, 0)
           /\ More(checked, checked', r, i, -1, 0) /\ More(mailing, mailing', r, i, 1, 0)
        BY <1>1, <2>1, Sent
    <2>3. Shift(r, i, 0, 0)
        BY <1>1, <2>2, ShiftSum
    <2> QED
        BY <1>2, <1>3, <2>1, <2>3 DEF Travels
<1>7. CASE PushSend(r, i)
    <2>1. /\ UNCHANGED <<mail, checked>> /\ mailing[r][i] > 0 /\ mailing' = Take(mailing, r, i)
          /\ queue' = Put(queue, r, i + 1) /\ processed' = [processed EXCEPT ![i] = r] /\ flow[i] = "push"
        BY <1>7 DEF PushSend
    <2>2. /\ More(queue, queue', r, i, 0, 1) /\ More(mail, mail', r, i, 0, 0)
           /\ More(checked, checked', r, i, 0, 0) /\ More(mailing, mailing', r, i, -1, 0)
        BY <1>1, <2>1, Sent
    <2>3. Shift(r, i, -1, 1)
        BY <1>1, <2>2, ShiftSum
    <2> QED
        BY <1>2, <1>3, <2>1, <2>3, Sent DEF Travels
<1>8. CASE PushFails(r, i)
    <2>1. /\ UNCHANGED <<checked, processed>> /\ mailing[r][i] > 0 /\ mailing' = Take(mailing, r, i)
          /\ mishaps' # mishaps /\ flow[i] = "push"
        BY <1>1, <1>8 DEF PushFails, Mishap
    <2>2. CASE queue' = Put(queue, r, i + 1) /\ mail' = Put(mail, r, i)
        <3>1. /\ More(queue, queue', r, i, 0, 1) /\ More(mail, mail', r, i, 1, 0)
               /\ More(checked, checked', r, i, 0, 0) /\ More(mailing, mailing', r, i, -1, 0)
            BY <1>1, <2>1, <2>2, Sent
        <3>2. Shift(r, i, 0, 1)
            BY <1>1, <3>1, ShiftSum
        <3> QED
            BY <1>2, <1>3, <2>1, <3>2, Sent DEF Travels
    <2>3. CASE queue' = Put(queue, r, i + 1) /\ UNCHANGED mail
        <3>1. /\ More(queue, queue', r, i, 0, 1) /\ More(mail, mail', r, i, 0, 0)
               /\ More(checked, checked', r, i, 0, 0) /\ More(mailing, mailing', r, i, -1, 0)
            BY <1>1, <2>1, <2>3, Sent
        <3>2. Shift(r, i, -1, 1)
            BY <1>1, <3>1, ShiftSum
        <3> QED
            BY <1>2, <1>3, <2>1, <3>2, Sent DEF Travels
    <2>4. CASE UNCHANGED queue /\ mail' = Put(mail, r, i)
        <3>1. /\ More(queue, queue', r, i, 0, 0) /\ More(mail, mail', r, i, 1, 0)
               /\ More(checked, checked', r, i, 0, 0) /\ More(mailing, mailing', r, i, -1, 0)
            BY <1>1, <2>1, <2>4, Sent
        <3>2. Shift(r, i, 0, 0)
            BY <1>1, <3>1, ShiftSum
        <3> QED
            BY <1>2, <1>3, <2>1, <3>2 DEF Travels
    <2>5. CASE UNCHANGED queue /\ UNCHANGED mail /\ r \in lost'
        <3>1. /\ More(queue, queue', r, i, 0, 0) /\ More(mail, mail', r, i, 0, 0)
               /\ More(checked, checked', r, i, 0, 0) /\ More(mailing, mailing', r, i, -1, 0)
            BY <1>1, <2>1, <2>5, Sent
        <3>2. Shift(r, i, -1, 0)
            BY <1>1, <3>1, ShiftSum
        <3> QED
            BY <1>2, <1>3, <2>1, <2>5, <3>2 DEF Travels
    <2> QED
        BY <1>8, <2>2, <2>3, <2>4, <2>5 DEF PushFails
<1> QED
    BY <1>4, <1>5, <1>6, <1>7, <1>8

\* The steps of twilio-messaging.
LEMMA SmsTravels ==
    ASSUME TypeOK, MessagesOK', NEW r \in Runs, NEW i \in Places, flow[i] = "sms",
           SmsSend(r, i) \/ SmsFails(r, i)
    PROVE  Travels(r, i)
<1>1. MessagesOK /\ mishaps \in Nat
    BY DEF TypeOK, RowsOK
<1>2. At(r, i) > 0
    BY <1>1, AtFacts DEF SmsSend, SmsFails
<1>3. /\ UNCHANGED <<completing, rows, entry, achieving, targeted, target, removed, late>>
      /\ UNCHANGED <<checked, mailing, processed>>
      /\ lost \subseteq lost' /\ mail[r][i] > 0
    BY DEF SmsSend, SmsFails, keys, pushes, history
<1>4. CASE SmsSend(r, i)
    <2>1. mail' = Take(mail, r, i) /\ queue' = Put(queue, r, i + 1)
        BY <1>4 DEF SmsSend
    <2>2. /\ More(queue, queue', r, i, 0, 1) /\ More(mail, mail', r, i, -1, 0)
           /\ More(checked, checked', r, i, 0, 0) /\ More(mailing, mailing', r, i, 0, 0)
        BY <1>1, <1>3, <2>1, Sent
    <2>3. Shift(r, i, -1, 1)
        BY <1>1, <2>2, ShiftSum
    <2> QED
        BY <1>2, <1>3, <2>3, Sent DEF Travels
<1>5. CASE SmsFails(r, i)
    <2>1. mishaps' # mishaps
        BY <1>1, <1>5 DEF SmsFails, Mishap
    <2>2. CASE queue' = Put(queue, r, i + 1) /\ UNCHANGED mail
        <3>1. /\ More(queue, queue', r, i, 0, 1) /\ More(mail, mail', r, i, 0, 0)
               /\ More(checked, checked', r, i, 0, 0) /\ More(mailing, mailing', r, i, 0, 0)
            BY <1>1, <1>3, <2>2, Sent
        <3>2. Shift(r, i, 0, 1)
            BY <1>1, <3>1, ShiftSum
        <3> QED
            BY <1>2, <1>3, <2>1, <3>2, Sent DEF Travels
    <2>3. CASE queue' = Put(queue, r, i + 1) /\ mail' = Take(mail, r, i)
        <3>1. /\ More(queue, queue', r, i, 0, 1) /\ More(mail, mail', r, i, -1, 0)
               /\ More(checked, checked', r, i, 0, 0) /\ More(mailing, mailing', r, i, 0, 0)
            BY <1>1, <1>3, <2>3, Sent
        <3>2. Shift(r, i, -1, 1)
            BY <1>1, <3>1, ShiftSum
        <3> QED
            BY <1>2, <1>3, <2>1, <3>2, Sent DEF Travels
    <2>4. CASE UNCHANGED queue /\ UNCHANGED mail
        <3>1. /\ More(queue, queue', r, i, 0, 0) /\ More(mail, mail', r, i, 0, 0)
               /\ More(checked, checked', r, i, 0, 0) /\ More(mailing, mailing', r, i, 0, 0)
            BY <1>1, <1>3, <2>4, Sent
        <3>2. Shift(r, i, 0, 0)
            BY <1>1, <3>1, ShiftSum
        <3> QED
            BY <1>2, <1>3, <2>1, <3>2 DEF Travels
    <2>5. CASE UNCHANGED queue /\ mail' = Take(mail, r, i) /\ r \in lost'
        <3>1. /\ More(queue, queue', r, i, 0, 0) /\ More(mail, mail', r, i, -1, 0)
               /\ More(checked, checked', r, i, 0, 0) /\ More(mailing, mailing', r, i, 0, 0)
            BY <1>1, <1>3, <2>5, Sent
        <3>2. Shift(r, i, -1, 0)
            BY <1>1, <3>1, ShiftSum
        <3> QED
            BY <1>2, <1>3, <2>1, <2>5, <3>2 DEF Travels
    <2> QED
        BY <1>5, <2>2, <2>3, <2>4, <2>5 DEF SmsFails
<1> QED
    BY <1>4, <1>5
\* Every other step is one of the handlers of the starting events, the report of the
\* end, or leaves the messages alone.
Quiet ==
    /\ UNCHANGED <<messages, checked, entry, lost, removed, late>>
    /\ Len(rows') = Len(rows)
    /\ \A r \in DOMAIN rows : Running(r)' => Running(r)
    /\ \A i \in Places : processed'[i] \in {processed[i], 0}
    /\ \A r \in target' \cup achieving' :
          r \in target \cup achieving \/ (r \in DOMAIN rows /\ ~Running(r)')
    /\ targeted' \cup achieving' \subseteq targeted \cup achieving \cup DOMAIN rows
    /\ targeted' \ target' \subseteq targeted \ target

\* The requests to stop a run and the expiries move no message.
LEMMA StopsAreQuiet ==
    ASSUME TypeOK, \/ Stopping \/ FlagExpires \/ UNCHANGED vars
                   \/ \E i \in Places : DedupExpires(i) \/ PushKeyExpires(i)
    PROVE  Quiet
<1>1. rows \in Seq(Status) /\ DOMAIN rows = 1..Len(rows) /\ processed \in [Places -> Nat]
    BY DEF TypeOK, RowsOK, UniqueInv, Shape, PlacesOK
<1>2. ASSUME UNCHANGED rows, UNCHANGED <<messages, checked, processed, entry, lost, removed, late>>,
             UNCHANGED <<target, achieving, targeted>> \/ TargetKeys \/ FlagExpires
      PROVE  Quiet
    <2>1. CASE UNCHANGED <<target, achieving, targeted>>
        BY <1>2, <2>1 DEF Quiet, Running
    <2>2. CASE TargetKeys
        BY <1>2, <2>2 DEF Quiet, Running, TargetKeys
    <2>3. CASE FlagExpires
        BY <1>2, <2>3 DEF Quiet, Running, FlagExpires
    <2> QED
        BY <1>2, <2>1, <2>2, <2>3
<1>3. ASSUME NEW r, CancelWrite(r) PROVE Quiet
    <2>1. rows' = [rows EXCEPT ![r] = "canceled"] /\ Len(rows') = Len(rows)
        BY <1>1, <1>3, RowChanges DEF CancelWrite, Status
    <2>2. \A q \in DOMAIN rows : Running(q)' => Running(q)
        BY <1>1, <2>1 DEF Running
    <2> QED
        BY <1>1, <1>3, <2>1, <2>2 DEF Quiet, CancelWrite, messages, keys, pushes, history
<1>4. CASE TargetRequest
    <2>1. Len(rows') = Len(rows) /\ \A q \in DOMAIN rows : ~Running(q)'
        BY <1>1, <1>4 DEF TargetRequest, Running
    <2> QED
        BY <1>1, <1>4, <2>1 DEF Quiet, TargetRequest, messages, pushes, history
<1>5. ASSUME NEW i \in Places, PushKeyExpires(i) PROVE Quiet
    <2>1. processed' \in {processed, [processed EXCEPT ![i] = 0]}
        BY <1>5 DEF PushKeyExpires
    <2>2. \A k \in Places : processed'[k] \in {processed[k], 0}
        BY <1>1, <2>1
    <2> QED
        BY <1>5, <2>2 DEF Quiet, PushKeyExpires, messages, Running
<1>6. ASSUME CancelRequest \/ RemoveRequest \/ UNCHANGED vars \/ \E i \in Places : DedupExpires(i)
      PROVE  Quiet
    BY <1>2, <1>6 DEF CancelRequest, RemoveRequest, DedupExpires, vars, messages, keys, pushes,
       history
<1>7. ASSUME TargetKeys \/ FlagExpires PROVE Quiet
    BY <1>2, <1>7 DEF TargetKeys, FlagExpires, messages, pushes
<1> QED
    BY <1>3, <1>4, <1>5, <1>6, <1>7 DEF Stopping

\* A step moves one message on, belongs to the entry, ends a run or moves
\* nothing.
LEMMA StepKinds ==
    ASSUME TypeOK, [Next]_vars
    PROVE  \/ \E r \in Runs, i \in Places : Travels(r, i)
           \/ \E e \in Entries : EntryCheck(e) \/ EntryInsert(e) \/ EntrySend(e) \/ EntryFails(e)
           \/ \E r \in Runs : Complete(r) \/ CompleteFails(r)
           \/ Quiet
<1>1. MessagesOK'
    BY MessagesStep
<1>2. ASSUME NEW r \in Runs, NEW i \in Places,
             \/ StepStopped(r, i) \/ Step(r, i) \/ StepFails(r, i)
             \/ MailStart(r, i) \/ MailSend(r, i) \/ MailRefuse(r, i) \/ MailFails(r, i) \/ MailTimesOut(r, i)
             \/ PushDrop(r, i) \/ PushStart(r, i) \/ PushMark(r, i) \/ PushSend(r, i) \/ PushFails(r, i)
             \/ SmsSend(r, i) \/ SmsFails(r, i)
      PROVE  Travels(r, i)
    <2>1. MailStart(r, i) \/ MailSend(r, i) \/ MailRefuse(r, i) \/ MailFails(r, i) => flow[i] = "email"
        BY DEF MailStart, MailSend, MailRefuse, MailFails
    <2>2. SmsSend(r, i) \/ SmsFails(r, i) => flow[i] = "sms"
        BY DEF SmsSend, SmsFails
    <2> QED
        BY <1>1, <1>2, <2>1, <2>2, SteppingTravels, MailTravels, TimeoutTravels, PushTravels,
           SmsTravels
<1> QED
    BY <1>2, StopsAreQuiet DEF Next, Entering, Stepping, Sending, Completing, Failing
(***************************************************************************)
(* There is room for the runs: every row has an event of its own, or one   *)
(* that failed and came again.                                             *)
(***************************************************************************)

\* Events that may still insert a row.
Waiting == {e \in Entries : entry[e].phase \in {"new", "insert"}}

Room == Len(rows) + Cardinality(Waiting) <= MaxEntries + mishaps

\* The events are finitely many.
LEMMA WaitingFinite ==
    /\ IsFiniteSet(Waiting) /\ Cardinality(Waiting) \in Nat
    /\ IsFiniteSet(Waiting') /\ Cardinality(Waiting') \in Nat
    /\ \A e \in Waiting : Waiting' = Waiting \ {e} => Cardinality(Waiting') = Cardinality(Waiting) - 1
    /\ Waiting' \subseteq Waiting => Cardinality(Waiting') <= Cardinality(Waiting)
    /\ \A e : Waiting' \subseteq Waiting \cup {e} => Cardinality(Waiting') <= Cardinality(Waiting) + 1
<1>1. PICK W, X : W = Waiting /\ X = Waiting'
    OBVIOUS
<1>2. IsFiniteSet(Entries)
    BY FS_Interval, AutomationAssumption DEF Entries
<1>3. W \subseteq Entries /\ X \subseteq Entries
    BY <1>1 DEF Waiting
<1>4. IsFiniteSet(W) /\ Cardinality(W) \in Nat /\ IsFiniteSet(X) /\ Cardinality(X) \in Nat
    BY <1>2, <1>3, FS_Subset, FS_CardinalityType
<1>5. ASSUME NEW e \in W PROVE Cardinality(W \ {e}) = Cardinality(W) - 1
    BY <1>4, FS_RemoveElement
<1>6. X \subseteq W => Cardinality(X) <= Cardinality(W)
    BY <1>4, FS_Subset
<1>7. ASSUME NEW e, X \subseteq W \cup {e} PROVE Cardinality(X) <= Cardinality(W) + 1
    <2>1. IsFiniteSet(W \cup {e}) /\ Cardinality(W \cup {e}) <= Cardinality(W) + 1
        BY <1>4, FS_AddElement
    <2>2. Cardinality(X) <= Cardinality(W \cup {e}) /\ Cardinality(W \cup {e}) \in Nat
        BY <1>7, <2>1, FS_Subset, FS_CardinalityType
    <2> QED
        BY <1>4, <2>1, <2>2
<1> QED
    BY <1>1, <1>4, <1>5, <1>6, <1>7

\* Mishaps are counted.
LEMMA MishapsGrow == ASSUME [Next]_vars PROVE mishaps' = mishaps \/ Mishap
BY DEF Next, vars, Entering, EntryCheck, EntryInsert, EntrySend, Stepping, StepStopped, Step,
   Sending, MailStart,
       MailSend, PushDrop, PushStart, PushMark, PushSend, SmsSend, Completing, Complete, Stopping, CancelWrite,
       CancelRequest, RemoveRequest, TargetRequest, TargetKeys, Failing, FlagExpires, EntryFails, DedupExpires,
       PushKeyExpires, StepFails, CompleteFails, MailRefuse, MailFails, MailTimesOut, PushFails, SmsFails

\* What a handler of a starting event does to the rows and to itself.
LEMMA EntryRows ==
    ASSUME TypeOK, NEW e \in Entries, EntryCheck(e) \/ EntryInsert(e) \/ EntrySend(e) \/ EntryFails(e)
    PROVE  /\ entry \in [Entries -> [phase : Phase, run : Nat]] /\ rows \in Seq(Status)
           /\ \A f \in Entries \ {e} : entry'[f] = entry[f]
           /\ \/ UNCHANGED rows
              \/ \E status \in {"running", "duplicate"} : rows' = Append(rows, status)
           /\ entry'[e].phase \in Phase
<1>1. entry \in [Entries -> [phase : Phase, run : Nat]] /\ rows \in Seq(Status) /\ Shape
    BY DEF TypeOK, RowsOK, UniqueInv, Shape
<1>2. ASSUME NEW phase \in Phase, Enter(e, phase)
      PROVE  (\A f \in Entries \ {e} : entry'[f] = entry[f]) /\ entry'[e].phase \in Phase
    BY <1>1, <1>2, EnterShape
<1>3. CASE EntryCheck(e)
    <2>1. Enter(e, "done") \/ Enter(e, "insert")
        BY <1>3 DEF EntryCheck, EntryRefused, EntryTooEarly, EntryPasses
    <2>2. (\A f \in Entries \ {e} : entry'[f] = entry[f]) /\ entry'[e].phase \in Phase
        BY <1>2, <2>1 DEF Phase
    <2>3. UNCHANGED rows \/ rows' = Append(rows, "duplicate")
        BY <1>3 DEF EntryCheck, EntryRefused, EntryTooEarly, EntryPasses
    <2> QED
        BY <1>1, <2>2, <2>3
<1>4. CASE EntryInsert(e)
    BY <1>1, <1>4 DEF EntryInsert, Phase
<1>5. CASE EntrySend(e) \/ EntryFails(e)
    <2>1. UNCHANGED rows /\ (Enter(e, "done") \/ Enter(e, "new"))
        BY <1>5 DEF EntrySend, EntryFails
    <2>2. (\A f \in Entries \ {e} : entry'[f] = entry[f]) /\ entry'[e].phase \in Phase
        BY <1>2, <2>1 DEF Phase
    <2> QED
        BY <1>1, <2>1, <2>2
<1> QED
    BY <1>3, <1>4, <1>5

\* The rows never outgrow the runs.
LEMMA RoomStep ==
    ASSUME TypeOK, Room, [Next]_vars
    PROVE  Room'
<1>1. /\ rows \in Seq(Status) /\ Len(rows) \in Nat /\ mishaps \in Nat /\ MaxEntries \in Nat
      /\ Cardinality(Waiting) \in Nat /\ Cardinality(Waiting') \in Nat
    BY WaitingFinite, AutomationAssumption DEF TypeOK, RowsOK, UniqueInv, Shape
<1>2. mishaps' \in Nat /\ mishaps' >= mishaps
    BY <1>1, MishapsGrow DEF Mishap
<1>3. Len(rows') + Cardinality(Waiting') <= Len(rows) + Cardinality(Waiting) => Room'
    <2>1. Len(rows') \in Nat
        BY TypeStep DEF TypeOK, RowsOK, UniqueInv, Shape
    <2>2. PICK x \in Nat, y \in Nat, l \in Nat, m \in Nat :
             x = Cardinality(Waiting) /\ y = Cardinality(Waiting') /\ l = Len(rows) /\ m = Len(rows')
        BY <1>1, <2>1
    <2>3. l + x <= MaxEntries + mishaps
        BY <2>2 DEF Room
    <2>4. PICK c \in Nat, p \in Nat, q \in Nat : c = MaxEntries /\ p = mishaps /\ q = mishaps'
        BY <1>1, <1>2
    <2>5. l + x <= c + p /\ p <= q
        BY <1>2, <2>3, <2>4
    <2>6. m + y <= l + x => m + y <= c + q
        BY <2>5
    <2>7. m + y <= l + x => m + y <= MaxEntries + mishaps'
        BY <2>4, <2>6
    <2> QED
        BY <2>2, <2>7 DEF Room
<1>4. CASE UNCHANGED entry /\ Len(rows') = Len(rows)
    <2>1. Waiting' = Waiting
        BY <1>4 DEF Waiting
    <2> QED
        BY <1>1, <1>2, <1>4, <2>1 DEF Room
<1>5. ASSUME NEW e \in Entries, EntryCheck(e) \/ EntryInsert(e) \/ EntrySend(e) \/ EntryFails(e)
      PROVE  Room'
    <2>1. /\ entry \in [Entries -> [phase : Phase, run : Nat]]
          /\ \A f \in Entries \ {e} : entry'[f] = entry[f]
        BY <1>5, EntryRows
    <2>2. CASE UNCHANGED rows /\ (entry'[e].phase \in {"new", "insert"} => e \in Waiting)
        <3>1. Waiting' \subseteq Waiting
            BY <2>1, <2>2 DEF Waiting
        <3>2. Cardinality(Waiting') <= Cardinality(Waiting) /\ Len(rows') = Len(rows)
            BY <2>2, <3>1, WaitingFinite
        <3>3. Len(rows') + Cardinality(Waiting') <= Len(rows) + Cardinality(Waiting)
            BY <1>1, <3>2
        <3> QED
            BY <1>3, <3>3
    <2>3. CASE /\ \E status \in Status : rows' = Append(rows, status)
               /\ e \in Waiting /\ entry'[e].phase \notin {"new", "insert"}
        <3>1. Waiting' = Waiting \ {e}
            BY <2>1, <2>3 DEF Waiting
        <3>2. Len(rows') = Len(rows) + 1
            BY <1>1, <2>3
        <3>3. Cardinality(Waiting') = Cardinality(Waiting) - 1
            BY <2>3, <3>1, WaitingFinite
        <3>4. Len(rows') + Cardinality(Waiting') <= Len(rows) + Cardinality(Waiting)
            BY <1>1, <3>2, <3>3
        <3> QED
            BY <1>3, <3>4
    <2>4. CASE UNCHANGED rows /\ Mishap
        <3>1. Waiting' \subseteq Waiting \cup {e}
            BY <2>1 DEF Waiting
        <3>2. Cardinality(Waiting') <= Cardinality(Waiting) + 1 /\ mishaps' = mishaps + 1
            BY <2>4, <3>1, WaitingFinite DEF Mishap
        <3> QED
            BY <1>1, <2>4, <3>2 DEF Room
    <2>5. Shape
        BY DEF TypeOK, RowsOK, UniqueInv
    <2>6. CASE EntryCheck(e)
        <3>1. e \in Waiting
            BY <2>6 DEF EntryCheck, Waiting
        <3>2. CASE EntryTooEarly(e)
            <4>1. entry'[e].phase = "done"
                BY <2>5, <3>2, EnterShape DEF EntryTooEarly, Phase
            <4> QED
                BY <2>3, <3>1, <3>2, <4>1 DEF EntryTooEarly, Status
        <3> QED
            BY <2>2, <2>6, <3>1, <3>2 DEF EntryCheck, EntryRefused, EntryPasses
    <2>7. CASE EntryInsert(e)
        <3>1. e \in Waiting /\ entry'[e].phase = "created" /\ rows' = Append(rows, "running")
            BY <2>1, <2>7 DEF EntryInsert, Waiting
        <3> QED
            BY <2>3, <3>1 DEF Status
    <2>8. CASE EntrySend(e)
        <3>1. entry'[e].phase = "done"
            BY <2>5, <2>8, EnterShape DEF EntrySend, Phase
        <3> QED
            BY <2>2, <2>8, <3>1 DEF EntrySend
    <2> QED
        BY <1>5, <2>4, <2>6, <2>7, <2>8 DEF EntryFails
<1>6. ASSUME NEW r, Complete(r) \/ CompleteFails(r) PROVE Room'
    <2>1. UNCHANGED entry /\ (UNCHANGED rows \/ rows' = [rows EXCEPT ![r] = "completed"])
        BY <1>6 DEF Complete, CompleteFails
    <2> QED
        BY <1>1, <1>4, <2>1, RowChanges DEF Status
<1> QED
    BY <1>4, <1>5, <1>6, StepKinds DEF Travels, Quiet
(***************************************************************************)
(* What carries a run.                                                     *)
(***************************************************************************)

\* The run is past a place of the flow, or at its end.
Beyond(r, i) == completing[r] > 0 \/ \E j \in Places : j > i /\ At(r, j) > 0

\* Nothing has to carry it any more.
Gone(r) == ~Running(r) \/ r \in lost \/ r \in removed

Created(e) == entry[e].phase = "created"

\* Whatever a message, a handler or a key names is a row of the contact.
Known ==
    /\ \A r \in Runs : Beyond(r, 0) => r \in DOMAIN rows
    /\ \A e \in Entries : Created(e) => entry[e].run \in DOMAIN rows
    /\ \A i \in Places : processed[i] # 0 => processed[i] \in DOMAIN rows
    /\ \A r \in target \cup achieving : r \in DOMAIN rows /\ ~Running(r)

\* A run is with the handler that inserted it, or on its way; the key "processed" of a
\* push is that of a run past the push.
CarryInv ==
    /\ TypeOK /\ Room /\ Known
    /\ \A r \in DOMAIN rows : ~Gone(r) =>
          /\ (\E e \in Entries : Created(e) /\ entry[e].run = r) \/ Beyond(r, 0)
          /\ \A i \in Places : processed[i] = r => Beyond(r, i)

\* A row is a run.
LEMMA RowsAreRuns ==
    ASSUME TypeOK, Room
    PROVE  /\ DOMAIN rows = 1..Len(rows) /\ Len(rows) \in Nat
           /\ DOMAIN rows \subseteq Runs /\ 0 \notin DOMAIN rows
<1>0. rows \in Seq(Status) /\ DOMAIN rows = 1..Len(rows)
    BY DEF TypeOK, RowsOK, UniqueInv, Shape
<1>1. /\ mishaps \in Nat /\ mishaps <= MaxMishaps /\ MaxEntries \in Nat /\ MaxMishaps \in Nat
      /\ Len(rows) \in Nat
    BY <1>0, AutomationAssumption DEF TypeOK, RowsOK
<1>2. PICK w \in Nat : w = Cardinality(Waiting)
    BY WaitingFinite
<1>3. Len(rows) + w <= MaxEntries + mishaps
    BY <1>2 DEF Room
<1>4. Len(rows) <= MaxEntries + MaxMishaps
    <2>1. PICK l \in Nat, c \in Nat, m \in Nat, d \in Nat :
             l = Len(rows) /\ c = MaxEntries /\ m = mishaps /\ d = MaxMishaps
        BY <1>1
    <2>2. l + w <= c + m /\ m <= d
        BY <1>1, <1>3, <2>1
    <2> QED
        BY <2>1, <2>2
<1> QED
    BY <1>0, <1>1, <1>4 DEF Runs

\* A step of a run leaves the others where they are, and this one not behind.
LEMMA TravelFacts ==
    ASSUME CarryInv, MessagesOK', NEW r \in Runs, NEW i \in Places, Travels(r, i)
    PROVE  /\ \A q \in Runs, k \in 0..Steps : q # r => (Beyond(q, k)' <=> Beyond(q, k))
           /\ ~Gone(r)' => \A k \in 0..Steps : Beyond(r, k) => Beyond(r, k)'
           /\ Beyond(r, 0)
           /\ \A k \in Places : processed'[k] = processed[k]
                                \/ (processed'[k] = r /\ (~Gone(r)' => Beyond(r, k)'))
<1>1. /\ MessagesOK /\ completing \in [Runs -> Nat] /\ processed \in [Places -> Nat]
      /\ completing' \in [Runs -> Nat] /\ Known /\ Places \subseteq Nat /\ i \in Nat /\ i > 0
    BY DEF CarryInv, TypeOK, MessagesOK, PlacesOK, Places
<1>2. PICK a \in {-1, 0, 1}, b \in {0, 1} :
          /\ Shift(r, i, a, b)
          /\ b = 1 => i + 1 \in Places
          /\ a = -1 => \/ b = 1 \/ completing'[r] > 0 \/ r \in lost' \/ r \in removed'
                       \/ r \in target \/ processed[i] = r \/ At(r, i)' > 0
          /\ processed' = processed \/ (processed' = [processed EXCEPT ![i] = r] /\ b = 1)
    BY DEF Travels
<1>3. /\ completing' = completing \/ completing' = [completing EXCEPT ![r] = @ + 1]
      /\ lost \subseteq lost' /\ removed \subseteq removed' /\ UNCHANGED rows /\ At(r, i) > 0
    BY DEF Travels
<1>4. \A q \in Runs, j \in Places : At(q, j) \in Nat /\ At(q, j)' \in Nat
    BY <1>1, AtFacts, AtNext
<1>5. \A q \in Runs, j \in Places : q # r => At(q, j)' = At(q, j)
    BY <1>2, <1>4 DEF Shift
<1>6. \A j \in Places : j # i => At(r, j)' >= At(r, j)
    BY <1>2, <1>4 DEF Shift
<1>7. i + 1 \in Places /\ b = 1 => At(r, i + 1)' > 0
    <2>1. ASSUME i + 1 \in Places, b = 1 PROVE At(r, i + 1)' = At(r, i + 1) + 1
        BY <1>1, <1>2, <1>4, <2>1 DEF Shift
    <2> QED
        BY <1>4, <2>1
<1>8. At(r, i)' = At(r, i) + a
    BY <1>1, <1>2, <1>4 DEF Shift
<1>9. \A q \in Runs : completing'[q] >= completing[q] /\ (q # r => completing'[q] = completing[q])
    BY <1>1, <1>3
<1>10. \A q \in Runs, k \in 0..Steps : q # r => (Beyond(q, k)' <=> Beyond(q, k))
    BY <1>5, <1>9 DEF Beyond
<1>11. Beyond(r, 0)
    BY <1>1, <1>3 DEF Beyond
<1>12. ASSUME ~Gone(r)', NEW k \in 0..Steps, Beyond(r, k) PROVE Beyond(r, k)'
    <2>1. k \in Nat /\ r \in DOMAIN rows /\ ~Gone(r)
        BY <1>1, <1>3, <1>11, <1>12 DEF Known, Gone, Running
    <2>2. completing[r] > 0 => Beyond(r, k)'
        BY <1>1, <1>9 DEF Beyond
    <2>3. ASSUME NEW j \in Places, j > k, j # i, At(r, j) > 0 PROVE Beyond(r, k)'
        <3>1. At(r, j)' > 0
            BY <1>4, <1>6, <2>3
        <3> QED
            BY <2>3, <3>1 DEF Beyond
    <2>4. CASE i > k
        <3>1. CASE a # -1
            <4>1. At(r, i)' > 0
                BY <1>3, <1>4, <1>8, <3>1
            <4> QED
                BY <2>4, <4>1 DEF Beyond
        <3>2. CASE b = 1
            BY <1>1, <1>2, <1>7, <2>1, <2>4, <3>2 DEF Beyond
        <3>3. CASE completing'[r] > 0 \/ At(r, i)' > 0
            BY <2>4, <3>3 DEF Beyond
        <3>4. CASE processed[i] = r
            <4>1. Beyond(r, i)
                BY <2>1, <3>4 DEF CarryInv
            <4>2. PICK j \in Places : (j > i /\ At(r, j) > 0) \/ completing[r] > 0
                BY <4>1 DEF Beyond
            <4>3. CASE completing[r] > 0
                BY <2>2, <4>3
            <4>4. CASE j > i /\ At(r, j) > 0
                BY <1>1, <2>1, <2>3, <2>4, <4>4
            <4> QED
                BY <4>2, <4>3, <4>4
        <3>5. r \notin target /\ r \notin lost' /\ r \notin removed'
            BY <1>1, <1>12, <2>1 DEF Known, Gone
        <3> QED
            BY <1>2, <3>1, <3>2, <3>3, <3>4, <3>5
    <2> QED
        BY <1>12, <2>2, <2>3, <2>4 DEF Beyond
<1>13. ASSUME NEW k \in Places
       PROVE  processed'[k] = processed[k] \/ (processed'[k] = r /\ (~Gone(r)' => Beyond(r, k)'))
    <2>1. CASE processed' = processed
        BY <2>1
    <2>2. CASE processed' = [processed EXCEPT ![i] = r] /\ b = 1
        <3>1. CASE k = i
            BY <1>1, <1>2, <1>7, <2>2, <3>1 DEF Beyond
        <3>2. CASE k # i
            BY <1>1, <2>2, <3>2
        <3> QED
            BY <3>1, <3>2
    <2> QED
        BY <1>2, <2>1, <2>2
<1> QED
    BY <1>10, <1>11, <1>12, <1>13
\* A step of a run carries it on.
LEMMA CarryTravels ==
    ASSUME CarryInv, TypeOK', Room', NEW r \in Runs, NEW i \in Places, Travels(r, i)
    PROVE  CarryInv'
<1>1. /\ UNCHANGED <<rows, entry, achieving>> /\ target' \subseteq target
      /\ lost \subseteq lost' /\ removed \subseteq removed' /\ MessagesOK' /\ Known /\ TypeOK /\ Room
    BY DEF Travels, TypeOK, CarryInv
<1>2. DOMAIN rows \subseteq Runs /\ 0 \in 0..Steps /\ Places \subseteq 0..Steps
    BY <1>1, RowsAreRuns, AutomationAssumption DEF Places
<1>3. /\ \A q \in Runs, k \in 0..Steps : q # r => (Beyond(q, k)' <=> Beyond(q, k))
      /\ ~Gone(r)' => \A k \in 0..Steps : Beyond(r, k) => Beyond(r, k)'
      /\ Beyond(r, 0)
      /\ \A k \in Places : processed'[k] = processed[k]
                           \/ (processed'[k] = r /\ (~Gone(r)' => Beyond(r, k)'))
    BY <1>1, TravelFacts
<1>4. \A q \in DOMAIN rows : ~Gone(q)' => ~Gone(q)
    BY <1>1 DEF Gone, Running
<1>5. Known'
    <2>1. \A q \in Runs : Beyond(q, 0)' => q \in DOMAIN rows'
        BY <1>1, <1>2, <1>3 DEF Known
    <2>2. \A k \in Places : processed'[k] # 0 => processed'[k] \in DOMAIN rows'
        BY <1>1, <1>3 DEF Known
    <2>3. /\ \A e \in Entries : Created(e)' => entry'[e].run \in DOMAIN rows'
          /\ \A q \in target' \cup achieving' : q \in DOMAIN rows' /\ ~Running(q)'
        BY <1>1 DEF Known, Created, Running
    <2> QED
        BY <2>1, <2>2, <2>3 DEF Known
<1>6. ASSUME NEW q \in DOMAIN rows, ~Gone(q)'
      PROVE  /\ (\E e \in Entries : Created(e)' /\ entry'[e].run = q) \/ Beyond(q, 0)'
             /\ \A k \in Places : processed'[k] = q => Beyond(q, k)'
    <2>1. /\ (\E e \in Entries : Created(e) /\ entry[e].run = q) \/ Beyond(q, 0)
          /\ \A k \in Places : processed[k] = q => Beyond(q, k)
        BY <1>4, <1>6 DEF CarryInv
    <2>2. \A k \in 0..Steps : Beyond(q, k) => Beyond(q, k)'
        BY <1>2, <1>3, <1>6
    <2>3. (\E e \in Entries : Created(e)' /\ entry'[e].run = q) \/ Beyond(q, 0)'
        BY <1>1, <1>2, <2>1, <2>2 DEF Created
    <2> QED
        BY <1>2, <1>3, <1>6, <2>1, <2>2, <2>3
<1> QED
    BY <1>1, <1>5, <1>6 DEF CarryInv

\* Steps that neither take a message away nor start a run.
LEMMA CarryQuiet ==
    ASSUME CarryInv, TypeOK', Room', Quiet
    PROVE  CarryInv'
<1>1. /\ UNCHANGED entry /\ UNCHANGED lost /\ UNCHANGED removed
      /\ \A r \in DOMAIN rows : Running(r)' => Running(r)
      /\ \A i \in Places : processed'[i] \in {processed[i], 0}
      /\ \A r \in target' \cup achieving' :
            r \in target \cup achieving \/ (r \in DOMAIN rows /\ ~Running(r)')
      /\ Known /\ TypeOK /\ Room
    BY DEF Quiet, CarryInv
<1>2. DOMAIN rows' = DOMAIN rows /\ DOMAIN rows \subseteq Runs /\ 0 \notin DOMAIN rows
    <2>1. DOMAIN rows = 1..Len(rows) /\ DOMAIN rows \subseteq Runs /\ 0 \notin DOMAIN rows
        BY <1>1, RowsAreRuns
    <2>2. DOMAIN rows' = 1..Len(rows')
        BY DEF TypeOK, RowsOK, UniqueInv, Shape
    <2> QED
        BY <2>1, <2>2 DEF Quiet
<1>3. \A r, i : Beyond(r, i)' <=> Beyond(r, i)
    BY DEF Quiet, messages, Beyond, At
<1>4. Known'
    BY <1>1, <1>2, <1>3 DEF Known, Created
<1>5. \A r \in DOMAIN rows : ~Gone(r)' => ~Gone(r)
    BY <1>1 DEF Gone
<1>6. ASSUME NEW q \in DOMAIN rows, ~Gone(q)'
      PROVE  /\ (\E e \in Entries : Created(e)' /\ entry'[e].run = q) \/ Beyond(q, 0)'
             /\ \A k \in Places : processed'[k] = q => Beyond(q, k)'
    <2>1. /\ (\E e \in Entries : Created(e) /\ entry[e].run = q) \/ Beyond(q, 0)
          /\ \A k \in Places : processed[k] = q => Beyond(q, k)
        BY <1>5, <1>6 DEF CarryInv
    <2> QED
        BY <1>1, <1>2, <1>3, <2>1 DEF Created
<1> QED
    BY <1>2, <1>4, <1>6 DEF CarryInv

\* A run that has reached the end is completed, and needs no message any more, or its
\* report is a job that has failed for good.
LEMMA CarryComplete ==
    ASSUME CarryInv, TypeOK', Room', NEW r \in Runs, Complete(r) \/ CompleteFails(r)
    PROVE  CarryInv'
<1>1. /\ UNCHANGED <<entry, removed, processed, target, achieving>>
      /\ UNCHANGED <<queue, mail, checked, mailing>>
      /\ completing[r] > 0 /\ completing' \in {completing, [completing EXCEPT ![r] = @ - 1]}
      /\ rows' = [rows EXCEPT ![r] = "completed"] \/ (UNCHANGED rows /\ r \in lost')
      /\ lost \subseteq lost'
      /\ Known /\ TypeOK /\ Room /\ rows \in Seq(Status)
      /\ completing \in [Runs -> Nat]
    BY DEF Complete, CompleteFails, keys, pushes, history, CarryInv, TypeOK, MessagesOK, RowsOK,
           UniqueInv, Shape
<1>2. /\ r \in DOMAIN rows /\ DOMAIN rows' = DOMAIN rows /\ DOMAIN rows \subseteq Runs
      /\ Gone(r)' /\ \A q \in DOMAIN rows : Running(q)' => Running(q)
    <2>1. r \in DOMAIN rows
        BY <1>1 DEF Known, Beyond
    <2> QED
        BY <1>1, <2>1, RowsAreRuns DEF Running, Gone
<1>3. /\ \A q \in Runs, k \in Nat : Beyond(q, k)' => Beyond(q, k)
      /\ \A q \in Runs, k \in Nat : q # r => (Beyond(q, k) => Beyond(q, k)')
    <2>1. \A q \in Runs : (completing'[q] > 0 => completing[q] > 0) /\ (q # r => completing'[q] = completing[q])
        BY <1>1
    <2>2. \A q, j : At(q, j)' = At(q, j)
        BY <1>1 DEF At
    <2> QED
        BY <2>1, <2>2 DEF Beyond
<1>4. Known'
    BY <1>1, <1>2, <1>3 DEF Known, Created
<1>5. ASSUME NEW q \in DOMAIN rows, ~Gone(q)'
      PROVE  /\ (\E e \in Entries : Created(e)' /\ entry'[e].run = q) \/ Beyond(q, 0)'
             /\ \A k \in Places : processed'[k] = q => Beyond(q, k)'
    <2>1. ~Gone(q) /\ q # r
        BY <1>1, <1>2, <1>5 DEF Gone
    <2>2. /\ (\E e \in Entries : Created(e) /\ entry[e].run = q) \/ Beyond(q, 0)
          /\ \A k \in Places : processed[k] = q => Beyond(q, k)
        BY <2>1 DEF CarryInv
    <2>3. Places \subseteq Nat
        BY DEF Places
    <2> QED
        BY <1>1, <1>2, <1>3, <2>1, <2>2, <2>3 DEF Created
<1> QED
    BY <1>2, <1>4, <1>5 DEF CarryInv
\* A handler of a starting event inserts a row, carries it, and passes it on.
LEMMA CarryEntry ==
    ASSUME CarryInv, TypeOK', Room', NEW e \in Entries,
           EntryCheck(e) \/ EntryInsert(e) \/ EntrySend(e) \/ EntryFails(e)
    PROVE  CarryInv'
<1>1. /\ entry \in [Entries -> [phase : Phase, run : Nat]] /\ rows \in Seq(Status)
      /\ \A f \in Entries \ {e} : entry'[f] = entry[f]
      /\ UNCHANGED rows \/ \E status \in {"running", "duplicate"} : rows' = Append(rows, status)
      /\ Known /\ TypeOK /\ Room /\ MessagesOK
    BY EntryRows DEF CarryInv, TypeOK
<1>2. /\ UNCHANGED <<mail, checked, mailing, completing, processed, target, achieving, removed>>
      /\ lost \subseteq lost'
    BY DEF EntryCheck, EntryInsert, EntrySend, EntryFails, messages, keys, pushes, history
<1>3. DOMAIN rows = 1..Len(rows) /\ Len(rows) \in Nat /\ DOMAIN rows \subseteq Runs /\ 0 \notin DOMAIN rows
    BY <1>1, RowsAreRuns
<1>4. DOMAIN rows \subseteq DOMAIN rows' /\ \A q \in DOMAIN rows : rows'[q] = rows[q]
    <2>1. CASE UNCHANGED rows
        BY <2>1
    <2>2. ASSUME NEW status \in {"running", "duplicate"}, rows' = Append(rows, status)
          PROVE  DOMAIN rows \subseteq DOMAIN rows' /\ \A q \in DOMAIN rows : rows'[q] = rows[q]
        <3>1. status \in Status
            BY DEF Status
        <3>2. /\ DOMAIN rows' = 1..(Len(rows) + 1)
              /\ \A q \in 1..Len(rows) : rows'[q] = rows[q]
            BY <1>1, <2>2, <3>1
        <3> QED
            BY <1>3, <3>2
    <2> QED
        BY <1>1, <2>1, <2>2
<1>5. /\ \A q \in DOMAIN rows : Running(q)' <=> Running(q)
      /\ \A q \in DOMAIN rows : ~Gone(q)' => ~Gone(q)
    BY <1>2, <1>4 DEF Running, Gone
<1>6. ASSUME \A q \in Runs : Beyond(q, 0)' => q \in DOMAIN rows',
             Created(e)' => entry'[e].run \in DOMAIN rows'
      PROVE  Known'
    <2>1. \A f \in Entries : Created(f)' => entry'[f].run \in DOMAIN rows'
        BY <1>1, <1>4, <1>6 DEF Known, Created
    <2>2. \A q \in target \cup achieving : q \in DOMAIN rows' /\ ~Running(q)'
        BY <1>1, <1>4, <1>5 DEF Known
    <2>3. \A i \in Places : processed[i] # 0 => processed[i] \in DOMAIN rows'
        BY <1>1, <1>4 DEF Known
    <2> QED
        BY <1>2, <1>6, <2>1, <2>2, <2>3 DEF Known
\* Rows that were there, with messages that are still there.
<1>7. ASSUME \A q \in Runs, k \in Nat : Beyond(q, k) => Beyond(q, k)', NEW q \in DOMAIN rows, ~Gone(q)',
             Created(e) /\ entry[e].run = q => Beyond(q, 0)'
      PROVE  /\ (\E f \in Entries : Created(f)' /\ entry'[f].run = q) \/ Beyond(q, 0)'
             /\ \A i \in Places : processed'[i] = q => Beyond(q, i)'
    <2>1. /\ (\E f \in Entries : Created(f) /\ entry[f].run = q) \/ Beyond(q, 0)
          /\ \A i \in Places : processed[i] = q => Beyond(q, i)
        BY <1>5, <1>7 DEF CarryInv
    <2>2. Places \subseteq Nat /\ q \in Runs
        BY <1>3 DEF Places
    <2>3. (\E f \in Entries : Created(f)' /\ entry'[f].run = q) \/ Beyond(q, 0)'
        BY <1>1, <1>7, <2>1, <2>2 DEF Created
    <2> QED
        BY <1>2, <1>7, <2>1, <2>2, <2>3
<1>8. CASE UNCHANGED queue
    <2>1. \A q, k : Beyond(q, k)' <=> Beyond(q, k)
        BY <1>2, <1>8 DEF Beyond, At
    <2>2. CASE EntryCheck(e)
        <3>1. ~Created(e) /\ ~Created(e)'
            <4>1. Shape
                BY <1>1 DEF TypeOK, RowsOK, UniqueInv
            <4>2. entry'[e].phase \in {"done", "insert"}
                BY <2>2, <4>1, EnterShape
                   DEF EntryCheck, EntryRefused, EntryTooEarly, EntryPasses, Phase
            <4> QED
                BY <2>2, <4>2 DEF EntryCheck, Created
        <3>2. \A q \in DOMAIN rows' \ DOMAIN rows : Gone(q)'
            <4>1. UNCHANGED rows \/ rows' = Append(rows, "duplicate")
                BY <2>2 DEF EntryCheck, EntryRefused, EntryTooEarly, EntryPasses
            <4> QED
                BY <1>1, <1>3, <4>1 DEF Gone, Running
        <3>3. Known'
            BY <1>1, <1>4, <1>6, <2>1, <3>1 DEF Known
        <3>4. \A q \in DOMAIN rows' : ~Gone(q)' =>
                 /\ (\E f \in Entries : Created(f)' /\ entry'[f].run = q) \/ Beyond(q, 0)'
                 /\ \A i \in Places : processed'[i] = q => Beyond(q, i)'
            BY <1>7, <2>1, <3>1, <3>2
        <3> QED
            BY <3>3, <3>4 DEF CarryInv
    <2>3. CASE EntryInsert(e)
        <3>1. PICK n : n = Len(rows) + 1
            OBVIOUS
        <3>2. /\ rows' = Append(rows, "running") /\ ~Created(e)
              /\ entry' = [entry EXCEPT ![e] = [phase |-> "created", run |-> n]]
            BY <2>3, <3>1 DEF EntryInsert, Created
        <3>3. Created(e)' /\ entry'[e].run = n /\ DOMAIN rows' = DOMAIN rows \cup {n} /\ n \notin DOMAIN rows /\ n # 0
            BY <1>1, <1>3, <3>1, <3>2 DEF Created
        <3>4. Known'
            BY <1>1, <1>4, <1>6, <2>1, <3>3 DEF Known
        <3>5. \A i \in Places : processed'[i] # n
            BY <1>1, <1>2, <3>3 DEF Known
        <3>6. \A q \in DOMAIN rows' : ~Gone(q)' =>
                 /\ (\E f \in Entries : Created(f)' /\ entry'[f].run = q) \/ Beyond(q, 0)'
                 /\ \A i \in Places : processed'[i] = q => Beyond(q, i)'
            BY <1>7, <2>1, <3>2, <3>3, <3>5
        <3> QED
            BY <3>4, <3>6 DEF CarryInv
    <2>4. CASE EntryFails(e)
        <3>1. UNCHANGED rows /\ ~Created(e)' /\ (Created(e) => entry[e].run \in lost')
            <4>1. Shape
                BY <1>1 DEF TypeOK, RowsOK, UniqueInv
            <4>2. entry'[e].phase \in {"done", "new"}
                BY <2>4, <4>1, EnterShape DEF EntryFails, Phase
            <4> QED
                BY <2>4, <4>2 DEF EntryFails, Created
        <3>2. Known'
            BY <1>1, <1>4, <1>6, <2>1, <3>1 DEF Known
        <3>3. \A q \in DOMAIN rows' : ~Gone(q)' =>
                 /\ (\E f \in Entries : Created(f)' /\ entry'[f].run = q) \/ Beyond(q, 0)'
                 /\ \A i \in Places : processed'[i] = q => Beyond(q, i)'
            BY <1>7, <2>1, <3>1 DEF Gone
        <3> QED
            BY <3>2, <3>3 DEF CarryInv
    <2>5. CASE EntrySend(e)
        <3>1. entry[e].run \in Runs /\ queue' = Put(queue, entry[e].run, 1) /\ 1 \in Places /\ queue \in Counts
            BY <1>1, <1>3, <2>5, AutomationAssumption
               DEF EntrySend, Known, Created, MessagesOK, Places
        <3>2. queue'[entry[e].run][1] = queue[entry[e].run][1] + 1
            BY <3>1, PutFacts
        <3> QED
            BY <1>8, <3>1, <3>2 DEF Counts
    <2> QED
        BY <2>2, <2>3, <2>4, <2>5
<1>9. CASE EntrySend(e)
    <2>1. PICK r : r = entry[e].run
        OBVIOUS
    <2>2. /\ r \in DOMAIN rows /\ queue' = Put(queue, r, 1) /\ UNCHANGED rows /\ 1 \in Places
          /\ queue \in Counts
        BY <1>1, <1>9, <2>1, AutomationAssumption DEF EntrySend, Known, Created, MessagesOK, Places
    <2>3. \A q \in Runs, j \in Places : queue'[q][j] = IF q = r /\ j = 1 THEN queue[q][j] + 1 ELSE queue[q][j]
        BY <1>3, <2>2, PutFacts
    <2>4. \A q \in Runs, j \in Places :
             /\ At(q, j) \in Nat
             /\ At(q, j)' = IF q = r /\ j = 1 THEN At(q, j) + 1 ELSE At(q, j)
        <3> SUFFICES ASSUME NEW q \in Runs, NEW j \in Places
                     PROVE  /\ At(q, j) \in Nat
                            /\ At(q, j)' = IF q = r /\ j = 1 THEN At(q, j) + 1 ELSE At(q, j)
            OBVIOUS
        <3>1. PICK a \in Nat, b \in Nat, c \in Nat, d \in Nat :
                 a = queue[q][j] /\ b = mail[q][j] /\ c = checked[q][j] /\ d = mailing[q][j]
            BY <1>1, AtFacts
        <3>2. At(q, j) = a + b + c + d /\ At(q, j)' = queue'[q][j] + b + c + d
            BY <1>2, <3>1 DEF At
        <3>3. queue'[q][j] = IF q = r /\ j = 1 THEN a + 1 ELSE a
            BY <2>3, <3>1
        <3> QED
            BY <3>2, <3>3
    <2>5. \A q \in Runs, k \in Nat : Beyond(q, k) => Beyond(q, k)'
        BY <1>2, <2>4 DEF Beyond
    <2>6. Beyond(r, 0)' /\ \A q \in Runs : Beyond(q, 0)' => Beyond(q, 0) \/ q = r
        BY <1>2, <1>3, <2>2, <2>4 DEF Beyond
    <2>7. ~Created(e)'
        <3>1. Shape
            BY <1>1 DEF TypeOK, RowsOK, UniqueInv
        <3>2. entry'[e].phase = "done"
            BY <1>9, <3>1, EnterShape DEF EntrySend, Phase
        <3> QED
            BY <3>2 DEF Created
    <2>8. Known'
        BY <1>1, <1>4, <1>6, <2>2, <2>6, <2>7 DEF Known
    <2>9. \A q \in DOMAIN rows' : ~Gone(q)' =>
             /\ (\E f \in Entries : Created(f)' /\ entry'[f].run = q) \/ Beyond(q, 0)'
             /\ \A i \in Places : processed'[i] = q => Beyond(q, i)'
        BY <1>7, <2>1, <2>2, <2>5, <2>6
    <2> QED
        BY <2>8, <2>9 DEF CarryInv
<1>10. UNCHANGED queue \/ EntrySend(e)
    BY DEF EntryCheck, EntryInsert, EntryFails, messages
<1> QED
    BY <1>8, <1>9, <1>10

\* At the start there is nothing to carry.
LEMMA CarryInit == Init => CarryInv
<1> SUFFICES ASSUME Init PROVE CarryInv
    OBVIOUS
<1>1. TypeOK /\ rows = <<>> /\ DOMAIN rows = {} /\ target \cup achieving = {}
    BY TypeInit DEF Init
<1>2. Room
    <2>1. Waiting = Entries
        BY DEF Init, Waiting
    <2>2. Cardinality(Entries) = MaxEntries
        BY FS_Interval, AutomationAssumption DEF Entries
    <2>3. Len(rows) = 0 /\ mishaps = 0
        BY DEF Init
    <2> QED
        BY <2>1, <2>2, <2>3, AutomationAssumption DEF Room
<1>3. \A q \in Runs : ~Beyond(q, 0)
    BY DEF Init, Empty, Beyond, At
<1>4. Known
    BY <1>1, <1>3 DEF Known, Init, Created
<1> QED
    BY <1>1, <1>2, <1>4 DEF CarryInv

\* Every step keeps running rows carried.
LEMMA CarryStep == CarryInv /\ [Next]_vars => CarryInv'
<1> SUFFICES ASSUME CarryInv, [Next]_vars PROVE CarryInv'
    OBVIOUS
<1>1. TypeOK' /\ Room' /\ TypeOK
    BY TypeStep, RoomStep DEF CarryInv
<1> QED
    BY <1>1, StepKinds, CarryTravels, CarryEntry, CarryComplete, CarryQuiet

\* A row that says "running" is on its way, unless its message was acked with an error,
\* was a BullMQ job that has used up its three attempts, was turned away at a key of
\* send-push, or dropped at the remove flag.
THEOREM RunningAlwaysCarried == Spec => []RunningIsCarried
<1>1. CarryInv => RunningIsCarried
    <2> SUFFICES ASSUME CarryInv, NEW r \in DOMAIN rows, Running(r), r \notin lost, r \notin removed
                 PROVE  Carried(r)
        BY DEF RunningIsCarried
    <2>1. (\E e \in Entries : Created(e) /\ entry[e].run = r) \/ Beyond(r, 0)
        BY DEF CarryInv, Gone
    <2>2. ASSUME NEW e \in Entries, Created(e), entry[e].run = r PROVE Carried(r)
        <3>1. entry[e] \in [phase : Phase, run : Nat]
            BY DEF CarryInv, TypeOK, RowsOK, UniqueInv, Shape
        <3>2. entry[e] = [phase |-> "created", run |-> r]
            BY <2>2, <3>1 DEF Created
        <3> QED
            BY <3>2 DEF Carried
    <2>3. CASE Beyond(r, 0)
        BY <2>3 DEF Beyond, Carried, At
    <2> QED
        BY <2>1, <2>2, <2>3
<1> QED
    BY <1>1, CarryInit, CarryStep, PTL DEF Spec

(***************************************************************************)
(* As long as nothing goes wrong a run has one message, so the one that    *)
(* finds the target key is the last.                                       *)
(***************************************************************************)

\* No run has two messages, or a message beside the handler that is to send the first;
\* a run whose key was found has none.
Alone ==
    /\ \A r \in Runs, i, j \in Places : At(r, i) <= 1 /\ (At(r, i) > 0 /\ At(r, j) > 0 => i = j)
    /\ \A e, f \in Entries : Created(e) /\ Created(f) /\ entry[e].run = entry[f].run => e = f
    /\ \A e \in Entries, r \in Runs, i \in Places : Created(e) /\ entry[e].run = r => At(r, i) = 0
    /\ targeted \cup achieving \subseteq DOMAIN rows
    /\ \A r \in targeted \ target, i \in Places : At(r, i) = 0
    /\ \A r \in targeted \ target, e \in Entries : Created(e) => entry[e].run # r
    /\ late.target = {}

AloneInv == CarryInv /\ (mishaps = 0 => Alone)

\* A message that goes on is not doubled.
LEMMA AloneTravels ==
    ASSUME CarryInv, Alone, MessagesOK', NEW r \in Runs, NEW i \in Places, Travels(r, i), mishaps' = mishaps
    PROVE  Alone'
<1>1. /\ MessagesOK /\ Known /\ Places \subseteq Nat /\ i \in Nat /\ At(r, i) > 0
      /\ late'.target \subseteq late.target \cup ({r} \cap (targeted \ target))
      /\ UNCHANGED <<rows, entry, achieving, targeted>>
    BY DEF CarryInv, TypeOK, Places, Travels
<1>2. PICK a \in {-1, 0, 1}, b \in {0, 1} :
          /\ Shift(r, i, a, b)
          /\ a + b <= 0
          /\ target' = target \/ (target' = target \ {r} /\ a + b = -1)
    BY DEF Travels
<1>3. \A q \in Runs, j \in Places : At(q, j) \in Nat /\ At(q, j)' \in Nat
    BY <1>1, AtFacts, AtNext
<1>4. \A q \in Runs, j \in Places : q # r => At(q, j)' = At(q, j)
    BY <1>2, <1>3 DEF Shift
<1>5. At(r, i) = 1 /\ \A j \in Places : j # i => At(r, j) = 0
    <2>1. At(r, i) \in Nat /\ At(r, i) > 0 /\ At(r, i) <= 1
        BY <1>1, <1>3 DEF Alone
    <2>2. ASSUME NEW j \in Places, j # i PROVE At(r, j) \in Nat /\ ~(At(r, j) > 0)
        BY <1>1, <1>3, <2>2 DEF Alone
    <2> QED
        BY <2>1, <2>2
<1>6. At(r, i)' = 1 + a /\ \A j \in Places : j # i => At(r, j)' = IF j = i + 1 THEN b ELSE 0
    BY <1>1, <1>2, <1>3, <1>5 DEF Shift
<1>7. (a = 0 /\ b = 0) \/ a = -1
    BY <1>2
<1>8. \A j, k \in Places : At(r, j)' <= 1 /\ (At(r, j)' > 0 /\ At(r, k)' > 0 => j = k)
    <2>1. CASE a = 0 /\ b = 0
        <3>1. \A j \in Places : At(r, j)' = IF j = i THEN 1 ELSE 0
            BY <1>6, <2>1
        <3> QED
            BY <3>1
    <2>2. CASE a = -1
        <3>1. \A j \in Places : At(r, j)' = IF j = i + 1 THEN b ELSE 0
            BY <1>1, <1>6, <2>2
        <3> QED
            BY <3>1
    <2> QED
        BY <1>7, <2>1, <2>2
<1>9. \A e \in Entries : Created(e) => entry[e].run # r /\ entry[e].run \in Runs
    <2>1. DOMAIN rows \subseteq Runs
        BY RowsAreRuns DEF CarryInv
    <2> QED
        BY <1>1, <1>5, <2>1 DEF Alone, Known
<1>10. r \notin targeted \ target
    BY <1>1, <1>5 DEF Alone
<1>11. targeted \subseteq Runs
    BY RowsAreRuns DEF CarryInv, Alone
<1>12. \A q \in targeted' \ target', j \in Places : At(q, j)' = 0
    <2>1. SUFFICES ASSUME NEW q \in targeted' \ target', NEW j \in Places PROVE At(q, j)' = 0
        OBVIOUS
    <2>2. CASE q # r
        BY <1>1, <1>2, <1>4, <1>11, <2>1, <2>2 DEF Alone
    <2>3. CASE q = r
        <3>1. a + b = -1
            BY <1>1, <1>2, <1>10, <2>1, <2>3
        <3>2. a = -1 /\ b = 0
            BY <3>1
        <3> QED
            BY <1>6, <2>3, <3>2
    <2> QED
        BY <2>2, <2>3
<1>13. \A q \in targeted' \ target', e \in Entries : Created(e)' => entry'[e].run # q
    BY <1>1, <1>2, <1>9 DEF Alone, Created
<1>14. \A q \in Runs, j, k \in Places : At(q, j)' <= 1 /\ (At(q, j)' > 0 /\ At(q, k)' > 0 => j = k)
    BY <1>4, <1>8 DEF Alone
<1>15. \A e \in Entries, q \in Runs, j \in Places : Created(e)' /\ entry'[e].run = q => At(q, j)' = 0
    BY <1>1, <1>4, <1>9 DEF Alone, Created
<1>16. late'.target = {}
    BY <1>1, <1>10 DEF Alone
<1>17. \A e, f \in Entries : Created(e)' /\ Created(f)' /\ entry'[e].run = entry'[f].run => e = f
    BY <1>1 DEF Alone, Created
<1>18. targeted' \cup achieving' \subseteq DOMAIN rows'
    BY <1>1 DEF Alone
<1> QED
    BY <1>12, <1>13, <1>14, <1>15, <1>16, <1>17, <1>18 DEF Alone
\* A handler of a starting event sends the first message of its own run.
LEMMA AloneEntry ==
    ASSUME CarryInv, Alone, NEW e \in Entries, mishaps' = mishaps,
           EntryCheck(e) \/ EntryInsert(e) \/ EntrySend(e) \/ EntryFails(e)
    PROVE  Alone'
<1>1. /\ entry \in [Entries -> [phase : Phase, run : Nat]] /\ rows \in Seq(Status) /\ Shape
      /\ \A f \in Entries \ {e} : entry'[f] = entry[f]
      /\ Known /\ MessagesOK /\ mishaps \in Nat
    BY EntryRows DEF CarryInv, TypeOK, RowsOK, UniqueInv
<1>2. /\ UNCHANGED <<mail, checked, mailing, target, achieving, targeted>>
      /\ late'.target = {}
    BY DEF EntryCheck, EntryInsert, EntrySend, EntryFails, Alone, messages, keys, pushes, history
<1>3. /\ DOMAIN rows = 1..Len(rows) /\ Len(rows) \in Nat
      /\ DOMAIN rows \subseteq Runs /\ targeted \cup achieving \subseteq DOMAIN rows
    BY RowsAreRuns DEF CarryInv, Alone
<1>4. ~EntryFails(e)
    BY <1>1 DEF EntryFails, Mishap
<1>5. \A q \in Runs, j \in Places : At(q, j) > 0 => q \in DOMAIN rows
    BY <1>1 DEF Known, Beyond, Places
<1>6. CASE EntryCheck(e)
    <2>1. entry'[e].phase \in {"done", "insert"}
        BY <1>1, <1>6, EnterShape DEF EntryCheck, EntryRefused, EntryTooEarly, EntryPasses, Phase
    <2>2. \A f \in Entries : Created(f)' => Created(f) /\ entry'[f] = entry[f]
        BY <1>1, <2>1 DEF Created
    <2>3. \A q, j : At(q, j)' = At(q, j)
        BY <1>6 DEF EntryCheck, messages, keys, pushes, At
    <2>4. DOMAIN rows \subseteq DOMAIN rows'
        <3>1. UNCHANGED rows \/ rows' = Append(rows, "duplicate")
            BY <1>6 DEF EntryCheck, EntryRefused, EntryTooEarly, EntryPasses
        <3>2. "duplicate" \in Status
            BY DEF Status
        <3> QED
            BY <1>1, <1>3, <3>1, <3>2
    <2> QED
        BY <1>2, <2>2, <2>3, <2>4 DEF Alone
<1>7. CASE EntryInsert(e)
    <2>1. PICK n : n = Len(rows) + 1
        OBVIOUS
    <2>2. entry' = [entry EXCEPT ![e] = [phase |-> "created", run |-> n]] /\ rows' = Append(rows, "running")
        BY <1>7, <2>1 DEF EntryInsert
    <2>3. n \notin DOMAIN rows /\ entry'[e].run = n /\ Created(e)'
        BY <1>1, <1>3, <2>1, <2>2 DEF Created
    <2>4. DOMAIN rows \subseteq DOMAIN rows'
        <3>1. "running" \in Status
            BY DEF Status
        <3> QED
            BY <1>1, <1>3, <2>2, <3>1
    <2>5. \A q, j : At(q, j)' = At(q, j)
        BY <1>7 DEF EntryInsert, messages, keys, pushes, At
    <2>6. \A f \in Entries \ {e} : (Created(f)' <=> Created(f)) /\ (Created(f) => entry[f].run # n)
        BY <1>1, <2>3 DEF Created, Known
    <2>7. \A f, g \in Entries : Created(f)' /\ Created(g)' /\ entry'[f].run = entry'[g].run => f = g
        <3> SUFFICES ASSUME NEW f \in Entries, NEW g \in Entries, Created(f)', Created(g)',
                            entry'[f].run = entry'[g].run
                     PROVE  f = g
            OBVIOUS
        <3>1. CASE f # e /\ g # e
            BY <1>1, <2>6, <3>1 DEF Alone
        <3>2. CASE f = e \/ g = e
            BY <1>1, <2>3, <2>6, <3>2
        <3> QED
            BY <3>1, <3>2
    <2>8. \A q \in Runs, j \in Places : q = n => At(q, j) = 0
        BY <1>1, <1>5, <2>3, AtFacts
    <2>9. \A f \in Entries, q \in Runs, j \in Places : Created(f)' /\ entry'[f].run = q => At(q, j)' = 0
        <3> SUFFICES ASSUME NEW f \in Entries, NEW q \in Runs, NEW j \in Places, Created(f)', entry'[f].run = q
                     PROVE  At(q, j)' = 0
            OBVIOUS
        <3>1. CASE f = e
            BY <2>3, <2>5, <2>8, <3>1
        <3>2. CASE f # e
            BY <1>1, <2>5, <2>6, <3>2 DEF Alone
        <3> QED
            BY <3>1, <3>2
    <2>10. \A q \in targeted' \ target', f \in Entries : Created(f)' => entry'[f].run # q
        <3> SUFFICES ASSUME NEW q \in targeted \ target, NEW f \in Entries, Created(f)'
                     PROVE  entry'[f].run # q
            BY <1>2
        <3>1. CASE f = e
            BY <1>3, <2>3, <3>1
        <3>2. CASE f # e
            BY <1>1, <2>6, <3>2 DEF Alone
        <3> QED
            BY <3>1, <3>2
    <2>11. /\ \A q \in Runs, i, j \in Places : At(q, i)' <= 1 /\ (At(q, i)' > 0 /\ At(q, j)' > 0 => i = j)
           /\ \A q \in targeted' \ target', i \in Places : At(q, i)' = 0
        BY <1>2, <2>5 DEF Alone
    <2> QED
        BY <1>2, <1>3, <2>4, <2>7, <2>9, <2>10, <2>11 DEF Alone
<1>8. CASE EntrySend(e)
    <2>1. PICK r : r = entry[e].run
        OBVIOUS
    <2>2. /\ Created(e) /\ r \in DOMAIN rows /\ r \in Runs /\ queue' = Put(queue, r, 1) /\ UNCHANGED rows
          /\ 1 \in Places /\ queue \in Counts
        BY <1>1, <1>3, <1>8, <2>1, AutomationAssumption
           DEF EntrySend, Known, Created, MessagesOK, Places
    <2>3. \A q \in Runs, j \in Places : queue'[q][j] = IF q = r /\ j = 1 THEN queue[q][j] + 1 ELSE queue[q][j]
        BY <2>2, PutFacts
    <2>4. \A q \in Runs, j \in Places : At(q, j)' = IF q = r /\ j = 1 THEN At(q, j) + 1 ELSE At(q, j)
        <3> SUFFICES ASSUME NEW q \in Runs, NEW j \in Places
                     PROVE  At(q, j)' = IF q = r /\ j = 1 THEN At(q, j) + 1 ELSE At(q, j)
            OBVIOUS
        <3>1. PICK a \in Nat, b \in Nat, c \in Nat, d \in Nat :
                 a = queue[q][j] /\ b = mail[q][j] /\ c = checked[q][j] /\ d = mailing[q][j]
            BY <1>1, AtFacts
        <3>2. At(q, j) = a + b + c + d /\ At(q, j)' = queue'[q][j] + b + c + d
            BY <1>2, <3>1 DEF At
        <3>3. queue'[q][j] = IF q = r /\ j = 1 THEN a + 1 ELSE a
            BY <2>3, <3>1
        <3> QED
            BY <3>2, <3>3
    <2>5. \A j \in Places : At(r, j) = 0
        BY <2>1, <2>2 DEF Alone
    <2>6. \A j \in Places : At(r, j)' = IF j = 1 THEN 1 ELSE 0
        BY <2>2, <2>4, <2>5
    <2>7. \A q \in Runs, j \in Places : q # r => At(q, j)' = At(q, j)
        BY <2>4
    <2>8. entry'[e].phase = "done"
        BY <1>1, <1>8, EnterShape DEF EntrySend, Phase
    <2>9. \A f \in Entries : Created(f)' => Created(f) /\ f # e /\ entry'[f] = entry[f] /\ entry[f].run # r
        BY <1>1, <2>1, <2>2, <2>8 DEF Created, Alone
    <2>10. r \notin targeted \ target
        BY <2>1, <2>2 DEF Alone
    <2>11. \A q \in Runs, i, j \in Places : At(q, i)' <= 1 /\ (At(q, i)' > 0 /\ At(q, j)' > 0 => i = j)
        <3>1. \A i, j \in Places : At(r, i)' <= 1 /\ (At(r, i)' > 0 /\ At(r, j)' > 0 => i = j)
            BY <2>6
        <3> QED
            BY <2>7, <3>1 DEF Alone
    <2>12. \A q \in targeted' \ target', i \in Places : At(q, i)' = 0
        BY <1>2, <1>3, <2>7, <2>10 DEF Alone
    <2>13. \A f \in Entries, q \in Runs, j \in Places : Created(f)' /\ entry'[f].run = q => At(q, j)' = 0
        BY <2>7, <2>9 DEF Alone
    <2> QED
        BY <1>2, <2>2, <2>9, <2>11, <2>12, <2>13 DEF Alone
<1> QED
    BY <1>4, <1>6, <1>7, <1>8

\* Every step keeps a run's message the only one, until a mishap.
LEMMA AloneStep == AloneInv /\ [Next]_vars => AloneInv'
<1> SUFFICES ASSUME AloneInv, [Next]_vars PROVE AloneInv'
    OBVIOUS
<1>1. CarryInv /\ CarryInv' /\ TypeOK /\ MessagesOK' /\ mishaps \in Nat
    BY CarryStep DEF AloneInv, CarryInv, TypeOK, RowsOK
<1>2. SUFFICES ASSUME mishaps' = 0 PROVE Alone'
    BY <1>1 DEF AloneInv
<1>3. Alone /\ mishaps' = mishaps
    BY <1>1, <1>2, MishapsGrow DEF AloneInv, Mishap
<1>4. CASE Quiet
    <2>1. /\ \A q, j : At(q, j)' = At(q, j)
          /\ UNCHANGED entry /\ UNCHANGED late
        BY <1>4 DEF Quiet, messages, At
    <2>2. DOMAIN rows' = DOMAIN rows
        <3>1. DOMAIN rows = 1..Len(rows) /\ DOMAIN rows' = 1..Len(rows')
            BY <1>1 DEF CarryInv, TypeOK, RowsOK, UniqueInv, Shape
        <3> QED
            BY <1>4, <3>1 DEF Quiet
    <2> QED
        BY <1>3, <1>4, <2>1, <2>2 DEF Quiet, Alone, Created
<1>5. ASSUME NEW r \in Runs, Complete(r) \/ CompleteFails(r) PROVE Alone'
    <2>1. Complete(r)
        BY <1>1, <1>3, <1>5 DEF CompleteFails, Mishap
    <2>2. /\ \A q, j : At(q, j)' = At(q, j)
          /\ UNCHANGED <<entry, late, target, targeted, achieving>>
        BY <2>1 DEF Complete, keys, pushes, history, At
    <2>3. DOMAIN rows' = DOMAIN rows
        BY <2>1 DEF Complete
    <2> QED
        BY <1>3, <2>2, <2>3 DEF Alone, Created
<1> QED
    BY <1>1, <1>3, <1>4, <1>5, StepKinds, AloneTravels, AloneEntry

\* Runs that have reached the target take no step after their keys are set, while these
\* live, unless something went wrong that delivered a message twice.
THEOREM TargetAlwaysStops == Spec => []TargetStops
<1>1. Init => AloneInv
    <2> SUFFICES ASSUME Init PROVE AloneInv
        OBVIOUS
    <2>1. \A q \in Runs, j \in Places : At(q, j) = 0
        BY DEF Init, Empty, At
    <2>2. Alone
        BY <2>1 DEF Init, Alone, Created
    <2> QED
        BY <2>2, CarryInit DEF AloneInv
<1>2. AloneInv => TargetStops
    BY DEF AloneInv, Alone, TargetStops, CarryInv, TypeOK, RowsOK
<1> QED
    BY <1>1, <1>2, AloneStep, PTL DEF Spec
=============================================================================
