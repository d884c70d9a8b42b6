------------------------- MODULE WhatsappStatusProofs -------------------------
(***************************************************************************)
(* For any bodies, deliveries and mishaps: a status is held off only when  *)
(* the row and the contact have it (KeysMeanStored), a body is answered    *)
(* only when its reports are in the rows (AnsweredAreStored), and when all *)
(* is quiet a status held off is counted, and once more at most for every  *)
(* call that lost its lock and left no marker (HeldOffIsCounted).          *)
(*                                                                         *)
(* The strengthening follows a request on its way to the key: when it is   *)
(* about to write the contact the row has its status, and when it is about *)
(* to write the key both have it.  Nothing takes a status away again.      *)
(***************************************************************************)
EXTENDS WhatsappStatus, FiniteSetTheorems, TLAPS

RequestsOK ==
    /\ requests \subseteq Requests
    /\ \A r \in requests : r.item \in 1..Len(Items[r.body])

PostOK ==
    /\ post \in [Bodies -> [at : {"due", "waiting", "answered", "stopped"}, times : 0..MaxPosts]]
    /\ \A b \in Bodies : post[b].at = "due" => post[b].times < MaxPosts

\* What the rows have when a request is about to write the contact, or the key.
Ready(r) ==
    /\ r.at = "contact" => (Report(r) # "sent" => Report(r) \in stored)
    /\ r.at = "key" => Report(r) \in mirrored /\ (Report(r) # "sent" => Report(r) \in stored)

KeyInv == RequestsOK /\ PostOK /\ KeyMeansStored /\ \A r \in requests : Ready(r)

\* Requests that are not about to write the contact or the key.
Unready(r) == r.at \notin {"contact", "key"}

\* A report is a status or a reply.
LEMMA ReportIs ==
    ASSUME RequestsOK, NEW r \in requests
    PROVE  Report(r) \in Reports
BY WhatsappStatusAssumption DEF RequestsOK, Requests, Report

\* Meta's deliveries of a body stay within the bound when it is due again.
LEMMA DueAgainOK ==
    ASSUME NEW p \in [at : {"due", "waiting", "answered", "stopped"}, times : 0..MaxPosts]
    PROVE  /\ DueAgain(p) \in [at : {"due", "waiting", "answered", "stopped"}, times : 0..MaxPosts]
           /\ DueAgain(p).at = "due" => DueAgain(p).times < MaxPosts
BY WhatsappStatusAssumption DEF DueAgain

\* An answer ends its request and leaves the others alone.
LEMMA AnswerKeeps ==
    ASSUME RequestsOK, PostOK, NEW r \in requests, NEW ok \in BOOLEAN, Answer(r, ok)
    PROVE  RequestsOK' /\ PostOK' /\ requests' \subseteq requests
<1>1. requests' \subseteq requests
    BY DEF Answer
<1>2. r.body \in Bodies
    BY DEF RequestsOK, Requests
<1>3. post[r.body] \in [at : {"due", "waiting", "answered", "stopped"}, times : 0..MaxPosts]
    BY <1>2 DEF PostOK
<1>4. CASE post' = post
    BY <1>1, <1>4 DEF RequestsOK, PostOK
<1>5. CASE ok /\ post' = [post EXCEPT ![r.body] = [@ EXCEPT !.at = "answered"]]
    BY <1>1, <1>3, <1>5 DEF RequestsOK, PostOK
<1>6. CASE post' = [post EXCEPT ![r.body] = DueAgain(@)]
    BY <1>1, <1>3, <1>6, DueAgainOK DEF RequestsOK, PostOK
<1> QED
    BY <1>4, <1>5, <1>6 DEF Answer

\* A request that goes on is the same request at another step.
LEMMA GoesKeeps ==
    ASSUME RequestsOK, PostOK, NEW r \in requests, NEW step \in Steps, Goes(r, step)
    PROVE  /\ RequestsOK' /\ PostOK'
           /\ \A q \in requests' :
                q \in requests \/ (q.at = step /\ q.body = r.body /\ q.item = r.item)
<1> DEFINE new == [r EXCEPT !.at = step]
<1>1. r \in Requests
    BY DEF RequestsOK
<1>2. new \in Requests /\ new.at = step /\ new.body = r.body /\ new.item = r.item
    BY <1>1 DEF Requests
<1>3. requests' = (requests \ {r}) \cup {new} /\ post' = post
    BY DEF Goes
<1> HIDE DEF new
<1> QED
    BY <1>2, <1>3 DEF RequestsOK, PostOK

\* After a report comes the next one, at its first step, or the answer.
LEMMA NextReportKeeps ==
    ASSUME RequestsOK, PostOK, NEW r \in requests, NextReport(r)
    PROVE  RequestsOK' /\ PostOK' /\ \A q \in requests' : q \in requests \/ Unready(q)
<1>1. CASE r.item < Len(Items[r.body])
    <2> DEFINE first == Head(Path(Items[r.body][r.item + 1]))
               new == [body |-> r.body, post |-> r.post, item |-> r.item + 1, at |-> first]
    <2>1. first \in {"row", "status"}
        BY DEF Path
    <2>2. r \in Requests /\ r.item \in 1..Len(Items[r.body]) /\ Len(Items[r.body]) \in Nat
        BY WhatsappStatusAssumption DEF RequestsOK, Requests
    <2>3. requests' = (requests \ {r}) \cup {new} /\ post' = post
        BY <1>1 DEF NextReport
    <2> HIDE DEF first
    <2>4. new \in Requests /\ new.at = first /\ new.body = r.body /\ new.item = r.item + 1
        <3>1. first \in Steps /\ r.item + 1 \in Nat
            BY <2>1, <2>2 DEF Steps
        <3>2. r \in [body : Bodies, post : 1..MaxPosts, item : Nat, at : Steps]
            BY <2>2 DEF Requests
        <3> QED
            BY <3>1, <3>2 DEF Requests
    <2>5. new.item \in 1..Len(Items[new.body]) /\ Unready(new)
        BY <1>1, <2>1, <2>2, <2>4 DEF Unready
    <2> HIDE DEF new
    <2> QED
        BY <2>3, <2>4, <2>5 DEF RequestsOK, PostOK
<1>2. CASE ~(r.item < Len(Items[r.body]))
    BY <1>2, AnswerKeeps DEF NextReport
<1> QED
    BY <1>1, <1>2

\* A step that takes no status away, writes no key, and moves requests only to steps
\* that need nothing.
LEMMA NothingReady ==
    ASSUME KeyInv, RequestsOK', PostOK', stored \subseteq stored', mirrored \subseteq mirrored',
           UNCHANGED statusKeys, \A q \in requests' : q \in requests \/ Unready(q)
    PROVE  KeyInv'
BY DEF KeyInv, KeyMeansStored, Ready, Unready, Report

\* In the beginning no key is set, and Meta has delivered nothing.
LEMMA KeyInit == Init => KeyInv
<1> SUFFICES ASSUME Init PROVE KeyInv
    OBVIOUS
<1>1. requests = {} /\ statusKeys = {}
    BY DEF Init
<1>2. PostOK
    BY WhatsappStatusAssumption DEF Init, PostOK
<1> QED
    BY <1>1, <1>2 DEF KeyInv, RequestsOK, KeyMeansStored

\* Meta delivers, gives up waiting, or a key expires.
LEMMA MetaKeeps ==
    ASSUME KeyInv, NEW b \in Bodies, Post(b) \/ MetaTimesOut(b) \/ BodyKeyExpires(b)
    PROVE  KeyInv'
<1> USE DEF KeyInv
<1>1. post[b] \in [at : {"due", "waiting", "answered", "stopped"}, times : 0..MaxPosts]
    BY DEF PostOK
<1>2. CASE Post(b)
    <2> DEFINE new == [body |-> b, post |-> post[b].times + 1, item |-> 1, at |-> "dedup"]
    <2>1. post[b].at = "due" /\ post[b].times < MaxPosts
        BY <1>2 DEF Post, PostOK
    <2>2. 1 \in 1..Len(Items[b])
        BY WhatsappStatusAssumption
    <2>3. new \in Requests /\ Unready(new) /\ new.item \in 1..Len(Items[new.body])
        BY <1>1, <2>1, <2>2, WhatsappStatusAssumption DEF Requests, Steps, Unready
    <2>4. requests' = requests \cup {new} /\ UNCHANGED <<rows, keys>>
        BY <1>2 DEF Post
    <2>5. post' = [post EXCEPT ![b] = [at |-> "waiting", times |-> @.times + 1]]
        BY <1>2 DEF Post
    <2>6. PostOK'
        BY <1>1, <2>1, <2>5, WhatsappStatusAssumption DEF PostOK
    <2> HIDE DEF new
    <2>7. RequestsOK' /\ \A q \in requests' : q \in requests \/ Unready(q)
        BY <2>3, <2>4 DEF RequestsOK
    <2> QED
        BY <2>4, <2>6, <2>7, NothingReady DEF rows, keys
<1>3. CASE MetaTimesOut(b)
    <2>1. PostOK'
        BY <1>1, <1>3, DueAgainOK DEF MetaTimesOut, PostOK
    <2> QED
        BY <1>3, <2>1, NothingReady DEF MetaTimesOut, RequestsOK, rows, keys
<1>4. CASE BodyKeyExpires(b)
    BY <1>4, NothingReady DEF BodyKeyExpires, RequestsOK, PostOK, rows
<1> QED
    BY <1>2, <1>3, <1>4

\* The steps of a request.
LEMMA WorkKeeps ==
    ASSUME KeyInv, NEW r \in requests, Work(r)
    PROVE  KeyInv'
<1> USE DEF KeyInv
<1>1. CASE IsDuplicate(r)
    <2>1. UNCHANGED <<stored, mirrored, statusKeys>>
        BY <1>1 DEF IsDuplicate, rows
    <2>2. CASE r.body \in bodyKeys
        BY <1>1, <2>1, <2>2, AnswerKeeps, NothingReady DEF IsDuplicate
    <2>3. CASE r.body \notin bodyKeys
        <3>1. PICK step \in {"row", "status"} : Goes(r, step)
            BY <1>1, <2>3 DEF IsDuplicate, Path
        <3>2. step \in Steps
            BY DEF Steps
        <3> QED
            BY <2>1, <3>1, <3>2, GoesKeeps, NothingReady DEF Unready
    <2> QED
        BY <2>2, <2>3
<1>2. CASE IsStatusKeySet(r)
    <2>1. UNCHANGED <<stored, mirrored, statusKeys>>
        BY <1>2 DEF IsStatusKeySet, rows, keys
    <2>2. CASE NextReport(r)
        BY <2>1, <2>2, NextReportKeeps, NothingReady
    <2>3. CASE Goes(r, "find")
        BY <2>1, <2>3, GoesKeeps, NothingReady DEF Unready, Steps
    <2> QED
        BY <1>2, <2>2, <2>3 DEF IsStatusKeySet
<1>3. CASE FindSend(r)
    <2>1. UNCHANGED <<stored, mirrored, statusKeys>>
        BY <1>3 DEF FindSend, rows, keys
    <2>2. CASE NextReport(r)
        BY <2>1, <2>2, NextReportKeeps, NothingReady
    <2>3. CASE Goes(r, "row")
        BY <2>1, <2>3, GoesKeeps, NothingReady DEF Unready, Steps
    <2>4. CASE Goes(r, "contact") /\ Report(r) = "sent"
        <3>1. /\ RequestsOK' /\ PostOK'
              /\ \A q \in requests' :
                   q \in requests \/ (q.at = "contact" /\ q.body = r.body /\ q.item = r.item)
            BY <2>4, GoesKeeps DEF Steps
        <3> QED
            BY <2>1, <2>4, <3>1 DEF KeyMeansStored, Ready, Report
    <2> QED
        BY <1>3, <2>2, <2>3, <2>4 DEF FindSend
<1>4. CASE UpdateRow(r)
    <2>1. stored' = stored \cup {Report(r)} /\ UNCHANGED <<mirrored, statusKeys>>
        BY <1>4 DEF UpdateRow, keys
    <2>2. PICK step \in {"publish", "contact"} : Goes(r, step)
        BY <1>4 DEF UpdateRow
    <2>3. /\ RequestsOK' /\ PostOK'
          /\ \A q \in requests' :
               q \in requests \/ (q.at = step /\ q.body = r.body /\ q.item = r.item)
        BY <2>2, GoesKeeps DEF Steps
    <2> QED
        BY <2>1, <2>3 DEF KeyMeansStored, Ready, Report
<1>5. CASE UpdateContact(r)
    <2>1. mirrored' = mirrored \cup {Report(r)} /\ UNCHANGED <<stored, statusKeys>>
        BY <1>5 DEF UpdateContact, keys
    <2>2. /\ RequestsOK' /\ PostOK'
          /\ \A q \in requests' :
               q \in requests \/ (q.at = "key" /\ q.body = r.body /\ q.item = r.item)
        BY <1>5, GoesKeeps DEF UpdateContact, Steps
    <2>3. Report(r) # "sent" => Report(r) \in stored
        BY <1>5 DEF UpdateContact, At, Ready
    <2> QED
        BY <2>1, <2>2, <2>3 DEF KeyMeansStored, Ready, Report
<1>6. CASE SetStatusKey(r)
    <2>1. statusKeys' = statusKeys \cup {Report(r)} /\ UNCHANGED <<stored, mirrored>>
        BY <1>6 DEF SetStatusKey, rows
    <2>2. /\ RequestsOK' /\ PostOK'
          /\ \A q \in requests' : q \in requests \/ q.at = "publish"
        BY <1>6, GoesKeeps DEF SetStatusKey, Steps
    <2>3. Report(r) \in mirrored /\ (Report(r) # "sent" => Report(r) \in stored)
        BY <1>6 DEF SetStatusKey, At, Ready
    <2> QED
        BY <2>1, <2>2, <2>3 DEF KeyMeansStored, Ready, Report
<1>7. CASE PublishEvent(r)
    BY <1>7, NextReportKeeps, NothingReady DEF PublishEvent, rows, keys
<1>8. CASE Fails(r)
    BY <1>8, GoesKeeps, NothingReady DEF Fails, Unready, Steps, rows, keys
<1>9. CASE ReleaseDedupKey(r)
    BY <1>9, AnswerKeeps, NothingReady DEF ReleaseDedupKey, rows
<1> QED
    BY <1>1, <1>2, <1>3, <1>4, <1>5, <1>6, <1>7, <1>8, <1>9 DEF Work

\* The service dies with its requests.
LEMMA CrashKeeps ==
    ASSUME KeyInv, Crash
    PROVE  KeyInv'
<1>1. requests' = {} /\ UNCHANGED <<stored, mirrored, statusKeys>>
    BY DEF Crash, rows, keys
<1>2. post' = [b \in Bodies |-> IF post[b].at = "waiting" THEN DueAgain(post[b]) ELSE post[b]]
    BY DEF Crash
<1>3. PostOK
    BY DEF KeyInv
<1>4. PostOK'
    BY <1>2, <1>3, DueAgainOK DEF PostOK
<1> QED
    BY <1>1, <1>4, NothingReady DEF RequestsOK

\* event-process writes neither the rows nor the keys.
LEMMA ProcessLeaves ==
    Process => UNCHANGED <<rows, keys, requests, post, published, unknown, premature, unpublished>>
BY DEF Process, SkipEvent, BeginEvent, Locks, CountEvent, LogEvent, EventFails, EventTimesOut,
       EventCrash, LockExpires, history

\* Every step keeps the invariant.
LEMMA KeyStep == KeyInv /\ [Next]_vars => KeyInv'
<1> SUFFICES ASSUME KeyInv, [Next]_vars PROVE KeyInv'
    OBVIOUS
<1>1. ASSUME UNCHANGED <<requests, post, stored, mirrored, statusKeys>> PROVE KeyInv'
    BY <1>1 DEF KeyInv, RequestsOK, PostOK, KeyMeansStored, Ready, Report
<1>2. CASE \E b \in Bodies : Post(b) \/ MetaTimesOut(b) \/ BodyKeyExpires(b)
    BY <1>2, MetaKeeps
<1>3. CASE \E r \in requests : Work(r)
    BY <1>3, WorkKeeps
<1>4. CASE Crash
    BY <1>4, CrashKeeps
<1>5. CASE Persist
    BY <1>1, <1>5 DEF Persist, keys
<1>6. CASE PersistFails
    BY <1>1, <1>6 DEF PersistFails, keys
<1>7. CASE Process
    BY <1>1, <1>7, ProcessLeaves DEF rows, keys
<1>8. CASE UNCHANGED vars
    BY <1>1, <1>8 DEF vars, rows, keys
<1> QED
    BY <1>2, <1>3, <1>4, <1>5, <1>6, <1>7, <1>8 DEF Next

\* No failure, crash or overlap of deliveries leaves a key for a status that the row
\* or the contact does not have: what Meta delivers again is not turned away unwritten.
THEOREM KeysMeanStored == Spec => []KeyMeansStored
<1>1. KeyInv => KeyMeansStored
    BY DEF KeyInv
<1> QED
    BY <1>1, KeyInit, KeyStep, PTL DEF Spec

(***************************************************************************)
(* What Meta is told.  A request past the first report has the ones before *)
(* in the rows; the key of a body is there while a request works on it, or *)
(* when all of it is in the rows, or it was recorded as premature.         *)
(***************************************************************************)

\* The i-th report of a body is in the rows, or found none.
Has(b, i) ==
    LET v == Items[b][i]
    IN  \/ <<b, v>> \in unknown
        \/ (v # "sent" => v \in stored) /\ (v # Reply => v \in mirrored)

All(b) == \A i \in 1..Len(Items[b]) : Has(b, i)

\* What a request has done.
OnWay(r) ==
    /\ r.at = "dedup" => r.item = 1
    /\ r.at \notin {"dedup", "release"} => \A i \in 1..(r.item - 1) : Has(r.body, i)
    /\ r.at = "publish" => Has(r.body, r.item)

Worked(b) == \E r \in requests : r.body = b /\ r.at # "dedup"

AnswerInv ==
    /\ KeyInv
    /\ \A r \in requests : OnWay(r)
    /\ \A b \in bodyKeys : b \in premature \/ Worked(b) \/ All(b)
    /\ \A b \in Bodies : post[b].at = "answered" => b \in premature \/ All(b)

\* The rows and the histories only grow.
Grows ==
    /\ stored \subseteq stored' /\ mirrored \subseteq mirrored'
    /\ unknown \subseteq unknown' /\ premature \subseteq premature'

\* What the rows have of a report they keep.
LEMMA HasStays == ASSUME Grows PROVE \A b, i : Has(b, i) => Has(b, i)'
BY DEF Grows, Has

\* A step that keeps requests on their way, and what is said of keys and answers.
LEMMA AnswerKept ==
    ASSUME AnswerInv, KeyInv', Grows,
           \A q \in requests' : q \in requests \/ OnWay(q)',
           \A b \in bodyKeys' : b \in premature' \/ Worked(b)' \/ All(b)',
           \A b \in Bodies : post'[b].at = "answered" =>
                                post[b].at = "answered" \/ b \in premature' \/ All(b)'
    PROVE  AnswerInv'
<1>1. \A b, i : Has(b, i) => Has(b, i)'
    BY HasStays
<1>2. \A b : All(b) => All(b)'
    BY <1>1 DEF All
<1>3. ASSUME NEW q \in requests PROVE OnWay(q)'
    <2>1. OnWay(q)
        BY DEF AnswerInv
    <2> QED
        BY <1>1, <2>1 DEF OnWay
<1>4. \A b \in Bodies : post'[b].at = "answered" => b \in premature' \/ All(b)'
    BY <1>2 DEF AnswerInv, Grows
<1> QED
    BY <1>3, <1>4 DEF AnswerInv

\* What is said of the key of a body whose request does not end.
LEMMA KeyKept ==
    ASSUME AnswerInv, Grows, NEW b \in bodyKeys,
           \A q \in requests : q.body = b /\ q.at # "dedup" =>
              \E o \in requests' : o.body = b /\ o.at # "dedup"
    PROVE  b \in premature' \/ Worked(b)' \/ All(b)'
<1>1. \A i : Has(b, i) => Has(b, i)'
    BY HasStays
<1>2. CASE b \in premature
    BY <1>2 DEF Grows
<1>3. CASE Worked(b)
    BY <1>3 DEF Worked
<1>4. CASE All(b)
    BY <1>1, <1>4 DEF All
<1> QED
    BY <1>2, <1>3, <1>4 DEF AnswerInv

\* Meta takes nothing for answered that it was not told of.
LEMMA AnswersAre ==
    ASSUME PostOK, NEW r, r.body \in Bodies, NEW ok \in BOOLEAN, Answer(r, ok)
    PROVE  \A b \in Bodies : post'[b].at = "answered" => post[b].at = "answered" \/ (ok /\ b = r.body)
<1>1. \A p \in [at : {"due", "waiting", "answered", "stopped"}, times : 0..MaxPosts] :
          DueAgain(p).at # "answered"
    BY DEF DueAgain
<1>2. post[r.body] \in [at : {"due", "waiting", "answered", "stopped"}, times : 0..MaxPosts]
    BY DEF PostOK
<1>3. CASE post' = post
    BY <1>3
<1>4. CASE ok /\ post' = [post EXCEPT ![r.body] = [@ EXCEPT !.at = "answered"]]
    BY <1>4 DEF PostOK
<1>5. CASE post' = [post EXCEPT ![r.body] = DueAgain(@)]
    BY <1>1, <1>2, <1>5 DEF PostOK
<1> QED
    BY <1>3, <1>4, <1>5 DEF Answer

\* A request goes on, and has done what its next step supposes.
LEMMA GoesOn ==
    ASSUME AnswerInv, KeyInv', Grows, UNCHANGED premature,
           NEW r \in requests, NEW step \in Steps \ {"dedup"}, Goes(r, step),
           bodyKeys' \subseteq bodyKeys \cup {r.body},
           step # "release" => \A i \in 1..(r.item - 1) : Has(r.body, i)',
           step = "publish" => Has(r.body, r.item)'
    PROVE  AnswerInv'
<1> DEFINE new == [r EXCEPT !.at = step]
<1>1. r \in Requests
    BY DEF AnswerInv, KeyInv, RequestsOK
<1>2. new.at = step /\ new.body = r.body /\ new.item = r.item
    BY <1>1 DEF Requests
<1>3. requests' = (requests \ {r}) \cup {new} /\ post' = post
    BY DEF Goes
<1> HIDE DEF new
<1>4. OnWay(new)'
    BY <1>2 DEF OnWay
<1>5. ASSUME NEW b \in bodyKeys' PROVE b \in premature' \/ Worked(b)' \/ All(b)'
    <2>1. CASE b = r.body
        BY <1>2, <1>3, <2>1 DEF Worked
    <2>2. CASE b # r.body
        BY <1>3, <2>2, KeyKept
    <2> QED
        BY <2>1, <2>2
<1> QED
    BY <1>3, <1>4, <1>5, AnswerKept

\* A request is through with a report.
LEMMA NextGoesOn ==
    ASSUME AnswerInv, KeyInv', Grows, UNCHANGED <<bodyKeys, premature>>,
           NEW r \in requests, r.at \notin {"dedup", "release"}, NextReport(r),
           Has(r.body, r.item)'
    PROVE  AnswerInv'
<1> USE DEF KeyInv
<1>1. r \in Requests /\ r.item \in 1..Len(Items[r.body]) /\ Len(Items[r.body]) \in Nat
      /\ r.body \in Bodies /\ r.item \in Nat
    BY WhatsappStatusAssumption DEF AnswerInv, RequestsOK, Requests
<1>2. \A i \in 1..r.item : Has(r.body, i)'
    <2>1. \A i \in 1..(r.item - 1) : Has(r.body, i)
        BY DEF AnswerInv, OnWay
    <2>2. \A i \in 1..r.item : i = r.item \/ i \in 1..(r.item - 1)
        BY <1>1
    <2> QED
        BY <2>1, <2>2, HasStays
<1>3. CASE r.item < Len(Items[r.body])
    <2> DEFINE first == Head(Path(Items[r.body][r.item + 1]))
               new == [body |-> r.body, post |-> r.post, item |-> r.item + 1, at |-> first]
    <2>1. first \in {"row", "status"}
        BY DEF Path
    <2>2. requests' = (requests \ {r}) \cup {new} /\ post' = post
        BY <1>3 DEF NextReport
    <2> HIDE DEF first
    <2>3. new.at = first /\ new.body = r.body /\ new.item = r.item + 1
        OBVIOUS
    <2> HIDE DEF new
    <2>4. OnWay(new)'
        <3>1. (r.item + 1) - 1 = r.item
            BY <1>1
        <3> QED
            BY <1>2, <2>1, <2>3, <3>1 DEF OnWay
    <2>5. \A b \in bodyKeys' : b \in premature' \/ Worked(b)' \/ All(b)'
        BY <2>1, <2>2, <2>3, KeyKept
    <2> QED
        BY <2>2, <2>4, <2>5, AnswerKept
<1>4. CASE ~(r.item < Len(Items[r.body]))
    <2>1. All(r.body)'
        <3>1. r.item = Len(Items[r.body])
            BY <1>1, <1>4
        <3> QED
            BY <1>2, <3>1 DEF All
    <2>2. Answer(r, TRUE)
        BY <1>4 DEF NextReport
    <2>3. requests' = requests \ {r}
        BY <2>2 DEF Answer
    <2>4. ASSUME NEW b \in bodyKeys' PROVE b \in premature' \/ Worked(b)' \/ All(b)'
        BY <2>1, <2>3, KeyKept
    <2>5. \A b \in Bodies : post'[b].at = "answered" => post[b].at = "answered" \/ b = r.body
        BY <1>1, <2>2, AnswersAre DEF AnswerInv
    <2> QED
        BY <2>1, <2>3, <2>4, <2>5, AnswerKept
<1> QED
    BY <1>3, <1>4

\* In the beginning nothing is answered and no key is set.
LEMMA AnswerInit == Init => AnswerInv
<1> SUFFICES ASSUME Init PROVE AnswerInv
    OBVIOUS
<1>1. requests = {} /\ bodyKeys = {} /\ \A b \in Bodies : post[b].at = "due"
    BY DEF Init
<1> QED
    BY <1>1, KeyInit DEF AnswerInv

\* Meta delivers, gives up waiting, or a key expires.
LEMMA MetaStep ==
    ASSUME AnswerInv, KeyInv', NEW b \in Bodies, Post(b) \/ MetaTimesOut(b) \/ BodyKeyExpires(b)
    PROVE  AnswerInv'
<1>1. Grows
    BY DEF Post, MetaTimesOut, BodyKeyExpires, rows, history, Grows
<1>2. PostOK
    BY DEF AnswerInv, KeyInv
<1>3. CASE Post(b)
    <2>1. PICK new : /\ requests' = requests \cup {new}
                     /\ new.at = "dedup" /\ new.item = 1
        <3> DEFINE n == [body |-> b, post |-> post[b].times + 1, item |-> 1, at |-> "dedup"]
        <3>1. requests' = requests \cup {n}
            BY <1>3 DEF Post
        <3>2. n.at = "dedup" /\ n.item = 1
            OBVIOUS
        <3> HIDE DEF n
        <3> QED
            BY <3>1, <3>2
    <2> /\ bodyKeys' = bodyKeys
        /\ post' = [post EXCEPT ![b] = [at |-> "waiting", times |-> @.times + 1]]
        BY <1>3 DEF Post, keys
    <2>2. OnWay(new)'
        BY <2>1 DEF OnWay
    <2>3. \A c \in bodyKeys' : c \in premature' \/ Worked(c)' \/ All(c)'
        BY <1>1, <2>1, KeyKept
    <2>4. \A c \in Bodies : post'[c].at = "answered" => post[c].at = "answered"
        BY <1>2, <2>1 DEF PostOK
    <2> QED
        BY <1>1, <2>1, <2>2, <2>3, <2>4, AnswerKept
<1>4. CASE MetaTimesOut(b)
    <2>1. requests' = requests /\ bodyKeys' = bodyKeys
          /\ post' = [post EXCEPT ![b] = DueAgain(@)]
        BY <1>4 DEF MetaTimesOut, keys
    <2>2. \A c \in bodyKeys' : c \in premature' \/ Worked(c)' \/ All(c)'
        BY <1>1, <2>1, KeyKept
    <2>3. DueAgain(post[b]).at # "answered"
        BY <1>2 DEF PostOK, DueAgain
    <2>4. \A c \in Bodies : post'[c].at = "answered" => post[c].at = "answered"
        BY <1>2, <2>1, <2>3 DEF PostOK
    <2> QED
        BY <1>1, <2>1, <2>2, <2>4, AnswerKept
<1>5. CASE BodyKeyExpires(b)
    <2>1. UNCHANGED <<requests, post>> /\ bodyKeys' \subseteq bodyKeys
        BY <1>5 DEF BodyKeyExpires
    <2>2. \A c \in bodyKeys' : c \in premature' \/ Worked(c)' \/ All(c)'
        BY <1>1, <2>1, KeyKept
    <2> QED
        BY <1>1, <2>1, <2>2, AnswerKept
<1> QED
    BY <1>3, <1>4, <1>5

\* A request at the key of its body: it takes the key, or is answered with what the
\* key stands for.
LEMMA IsDuplicateStep ==
    ASSUME AnswerInv, KeyInv', NEW r \in requests, IsDuplicate(r)
    PROVE  AnswerInv'
<1>1. Grows /\ r.at = "dedup"
    BY DEF IsDuplicate, At, rows, Grows
<1>2. r.body \in Bodies /\ r.item \in 1..Len(Items[r.body]) /\ PostOK
    BY DEF AnswerInv, KeyInv, RequestsOK, Requests
<1>3. CASE r.body \in bodyKeys
    <2>1. Answer(r, TRUE) /\ requests' = requests \ {r} /\ bodyKeys' = bodyKeys
        BY <1>3 DEF IsDuplicate, Answer
    <2>2. \A b \in bodyKeys' : b \in premature' \/ Worked(b)' \/ All(b)'
        BY <1>1, <2>1, KeyKept
    <2>3. r.body \in premature' \/ All(r.body)
        <3>1. CASE r.body \in premature
            BY <1>1, <3>1 DEF Grows
        <3>2. CASE Worked(r.body)
            <4>1. \E o \in requests \ {r} : o.body = r.body /\ o.at # "dedup"
                BY <1>1, <3>2 DEF Worked
            <4> QED
                BY <1>3, <4>1 DEF IsDuplicate
        <3> QED
            BY <1>3, <3>1, <3>2 DEF AnswerInv
    <2>4. All(r.body) => All(r.body)'
        BY <1>1, HasStays DEF All
    <2>5. \A b \in Bodies : post'[b].at = "answered" => post[b].at = "answered" \/ b = r.body
        BY <1>2, <2>1, AnswersAre
    <2> QED
        BY <1>1, <2>1, <2>2, <2>3, <2>4, <2>5, AnswerKept
<1>4. CASE r.body \notin bodyKeys
    <2>1. /\ Goes(r, Head(Path(Report(r)))) /\ UNCHANGED premature
          /\ bodyKeys' = bodyKeys \cup {r.body}
        BY <1>4 DEF IsDuplicate
    <2>2. PICK step \in {"row", "status"} : Goes(r, step)
        BY <2>1 DEF Path
    <2>3. r.item = 1
        BY <1>1 DEF AnswerInv, OnWay
    <2>4. \A i \in 1..(r.item - 1) : Has(r.body, i)'
        BY <2>3
    <2> QED
        BY <1>1, <2>1, <2>2, <2>4, GoesOn DEF Steps
<1> QED
    BY <1>3, <1>4

\* The other steps of a request.
LEMMA WorkStep ==
    ASSUME AnswerInv, KeyInv', NEW r \in requests, Work(r)
    PROVE  AnswerInv'
<1>1. Grows
    BY DEF Work, IsDuplicate, IsStatusKeySet, FindSend, UpdateRow, UpdateContact, SetStatusKey,
           PublishEvent, Fails, ReleaseDedupKey, rows, history, Grows
<1>2. r.body \in Bodies /\ Report(r) = Items[r.body][r.item] /\ Report(r) \in Reports
    BY ReportIs DEF AnswerInv, KeyInv, RequestsOK, Requests, Report
<1>3. OnWay(r) /\ Ready(r) /\ \A b, i : Has(b, i) => Has(b, i)'
    BY <1>1, HasStays DEF AnswerInv, KeyInv
<1>4. r.at \notin {"dedup", "release"} => \A i \in 1..(r.item - 1) : Has(r.body, i)'
    BY <1>3 DEF OnWay
<1>5. CASE IsDuplicate(r)
    BY <1>5, IsDuplicateStep
<1>6. CASE IsStatusKeySet(r)
    <2>1. r.at = "status" /\ UNCHANGED <<bodyKeys, premature>>
        BY <1>6 DEF IsStatusKeySet, At, keys, history
    <2>2. CASE Report(r) \in statusKeys /\ NextReport(r)
        <3>1. Has(r.body, r.item)
            BY <1>2, <2>2 DEF AnswerInv, KeyInv, KeyMeansStored, Has
        <3> QED
            BY <1>1, <1>3, <2>1, <2>2, <3>1, NextGoesOn
    <2>3. CASE Goes(r, "find")
        BY <1>1, <1>4, <2>1, <2>3, GoesOn DEF Steps
    <2> QED
        BY <1>6, <2>2, <2>3 DEF IsStatusKeySet
<1>7. CASE FindSend(r)
    <2>1. r.at = "find" /\ UNCHANGED <<bodyKeys, premature>>
        BY <1>7 DEF FindSend, At, keys
    <2>2. CASE NextReport(r) /\ unknown' = unknown \cup {<<r.body, Report(r)>>}
        <3>1. Has(r.body, r.item)'
            BY <1>2, <2>2 DEF Has
        <3> QED
            BY <1>1, <2>1, <2>2, <3>1, NextGoesOn
    <2>3. CASE Goes(r, "contact") \/ Goes(r, "row")
        BY <1>1, <1>4, <2>1, <2>3, GoesOn DEF Steps
    <2> QED
        BY <1>7, <2>2, <2>3 DEF FindSend
<1>8. CASE UpdateRow(r)
    <2>1. r.at = "row" /\ UNCHANGED <<bodyKeys, premature>>
        BY <1>8 DEF UpdateRow, At, keys, history
    <2>2. CASE Report(r) = Reply /\ Goes(r, "publish")
        <3>1. Report(r) \in stored'
            BY <1>8 DEF UpdateRow
        <3>2. Has(r.body, r.item)'
            BY <1>2, <2>2, <3>1 DEF Has
        <3> QED
            BY <1>1, <1>4, <2>1, <2>2, <3>2, GoesOn DEF Steps
    <2>3. CASE Goes(r, "contact")
        BY <1>1, <1>4, <2>1, <2>3, GoesOn DEF Steps
    <2> QED
        BY <1>8, <2>2, <2>3 DEF UpdateRow
<1>9. CASE UpdateContact(r)
    <2>1. r.at = "contact" /\ Goes(r, "key") /\ UNCHANGED <<bodyKeys, premature>>
        BY <1>9 DEF UpdateContact, At, keys, history
    <2> QED
        BY <1>1, <1>4, <2>1, GoesOn DEF Steps
<1>10. CASE SetStatusKey(r)
    <2>1. r.at = "key" /\ Goes(r, "publish") /\ UNCHANGED <<bodyKeys, premature>>
        BY <1>10 DEF SetStatusKey, At, history
    <2>2. Has(r.body, r.item)
        BY <1>2, <1>3, <2>1 DEF Ready, Has
    <2> QED
        BY <1>1, <1>3, <1>4, <2>1, <2>2, GoesOn DEF Steps
<1>11. CASE PublishEvent(r)
    <2>1. r.at = "publish" /\ NextReport(r) /\ UNCHANGED <<bodyKeys, premature>>
        BY <1>11 DEF PublishEvent, At, keys
    <2>2. Has(r.body, r.item)'
        BY <1>3, <2>1 DEF OnWay
    <2> QED
        BY <1>1, <2>1, <2>2, NextGoesOn
<1>12. CASE Fails(r)
    BY <1>1, <1>12, GoesOn DEF Fails, Steps, keys, history
<1>13. CASE ReleaseDedupKey(r)
    <2>1. Answer(r, FALSE) /\ requests' = requests \ {r} /\ bodyKeys' = bodyKeys \ {r.body}
        BY <1>13 DEF ReleaseDedupKey, Answer
    <2>2. \A b \in bodyKeys' : b \in premature' \/ Worked(b)' \/ All(b)'
        BY <1>1, <2>1, KeyKept
    <2>3. \A b \in Bodies : post'[b].at = "answered" => post[b].at = "answered"
        BY <1>2, <2>1, AnswersAre DEF AnswerInv, KeyInv
    <2> QED
        BY <1>1, <2>1, <2>2, <2>3, AnswerKept
<1> QED
    BY <1>5, <1>6, <1>7, <1>8, <1>9, <1>10, <1>11, <1>12, <1>13 DEF Work

\* The service dies: the bodies that it worked on are premature, and nothing is answered.
LEMMA CrashStep ==
    ASSUME AnswerInv, KeyInv', Crash
    PROVE  AnswerInv'
<1>1. /\ requests' = {} /\ bodyKeys' = bodyKeys
      /\ premature' = premature \cup {r.body : r \in requests}
    BY DEF Crash, keys
<1>2. Grows
    BY <1>1 DEF Crash, rows, Grows
<1>3. \A b : All(b) => All(b)'
    BY <1>2, HasStays DEF All
<1>4. \A b \in bodyKeys' : b \in premature' \/ Worked(b)' \/ All(b)'
    BY <1>1, <1>3 DEF AnswerInv, Worked
<1>5. ASSUME NEW b \in Bodies, post'[b].at = "answered" PROVE post[b].at = "answered"
    <2>1. post'[b] = IF post[b].at = "waiting" THEN DueAgain(post[b]) ELSE post[b]
        BY DEF Crash
    <2>2. post[b] \in [at : {"due", "waiting", "answered", "stopped"}, times : 0..MaxPosts]
        BY DEF AnswerInv, KeyInv, PostOK
    <2>3. DueAgain(post[b]).at # "answered"
        BY <2>2 DEF DueAgain
    <2> QED
        BY <1>5, <2>1, <2>3
<1> QED
    BY <1>1, <1>2, <1>4, <1>5, AnswerKept

\* Every step keeps the invariant.
LEMMA AnswerStep == AnswerInv /\ [Next]_vars => AnswerInv'
<1> SUFFICES ASSUME AnswerInv, [Next]_vars PROVE AnswerInv'
    OBVIOUS
<1>1. KeyInv'
    BY KeyStep DEF AnswerInv
<1>2. ASSUME UNCHANGED <<requests, post, stored, mirrored, bodyKeys, unknown, premature>>
      PROVE  AnswerInv'
    <2>1. Grows
        BY <1>2 DEF Grows
    <2>2. \A b \in bodyKeys' : b \in premature' \/ Worked(b)' \/ All(b)'
        BY <1>2, <2>1, KeyKept
    <2> QED
        BY <1>1, <1>2, <2>1, <2>2, AnswerKept
<1>3. CASE \E b \in Bodies : Post(b) \/ MetaTimesOut(b) \/ BodyKeyExpires(b)
    BY <1>1, <1>3, MetaStep
<1>4. CASE \E r \in requests : Work(r)
    BY <1>1, <1>4, WorkStep
<1>5. CASE Crash
    BY <1>1, <1>5, CrashStep
<1>6. CASE Persist
    BY <1>2, <1>6 DEF Persist, keys, history
<1>7. CASE PersistFails
    BY <1>2, <1>7 DEF PersistFails, keys, history
<1>8. CASE Process
    BY <1>2, <1>8, ProcessLeaves DEF rows, keys
<1>9. CASE UNCHANGED vars
    BY <1>2, <1>9 DEF vars, rows, keys, history
<1> QED
    BY <1>3, <1>4, <1>5, <1>6, <1>7, <1>8, <1>9 DEF Next

\* Meta is told that a body was taken only when all of it is in the rows, whatever
\* failures and deliveries came before: the answer of the handler, and the one that a
\* second delivery gets at the key of the body.
THEOREM AnsweredAreStored == Spec => []AnsweredIsStored
<1>1. AnswerInv => AnsweredIsStored
    BY DEF AnswerInv, AnsweredIsStored, All, Has
<1> QED
    BY <1>1, AnswerInit, AnswerStep, PTL DEF Spec
(***************************************************************************)
(* What event-process counts.  A call draws a token for the lock of its    *)
(* status and counts once at most, so that the tokens bound the count; a   *)
(* token is drawn while there is no marker, and then every call but the    *)
(* holder of the lock was recorded when it lost it.                        *)
(***************************************************************************)

\* Calls of a status that have not counted yet, and whether one of them has its lock.
Counting(v) == {c \in calls : c.report = v /\ c.at = "count"}
Held(v) == \E c \in calls : c.report = v /\ Holds(c)

CallsOK ==
    /\ markers \subseteq Verbs /\ count \in [Verbs -> Nat]
    /\ lock \in [Verbs -> Nat] /\ tokens \in [Verbs -> Nat] /\ again \in [Verbs -> Nat]
    /\ calls \subseteq Calls /\ IsFiniteSet(calls)
    /\ \A v \in Verbs : lock[v] <= tokens[v]
    /\ \A c \in calls : c.token <= tokens[c.report]
    /\ \A c, d \in calls : c.report = d.report /\ c.token = d.token => c = d

\* Tokens are drawn while no marker is seen, by one call at a time; each counts once.
Drawn(v) ==
    /\ tokens[v] <= again[v] + 1
    /\ v \notin markers /\ ~Held(v) => tokens[v] <= again[v]
    /\ count[v] + Cardinality(Counting(v)) <= tokens[v]

\* The counters come before the logs, and the marker after both.
Counted(c) ==
    /\ c.at = "count" => c.known
    /\ c.at = "log" /\ c.known => count[c.report] > 0

Marked(v) == count[v] > 0 \/ v \in plainFirst

CallsInv ==
    /\ CallsOK
    /\ \A v \in Verbs : Drawn(v)
    /\ \A c \in calls : Counted(c)
    /\ \A v \in markers : Marked(v)

\* Only a status has a key, a row that is found, and a contact that is written.
OfStatus(r) == r.at \in {"status", "find", "contact", "key"} => Report(r) # Reply

\* Where the event of a status is that is held off.
Heading(v) ==
    \/ \E r \in requests : r.at = "publish" /\ Report(r) = v
    \/ queue[<<v, TRUE>>] > 0
    \/ \E c \in calls : c.report = v /\ c.known /\ c.awaited
    \/ v \in markers
    \/ v \in unpublished \cup dropped

CountInv ==
    /\ KeyInv /\ CallsInv
    /\ queue \in [Events -> Nat]
    /\ \A r \in requests : OfStatus(r)
    /\ statusKeys \subseteq Verbs
    /\ \A v \in statusKeys : Heading(v)

\* In the beginning there is no event, and no call.
LEMMA CountInit == Init => CountInv
<1> SUFFICES ASSUME Init PROVE CountInv
    OBVIOUS
<1>1. statusKeys = {} /\ requests = {} /\ calls = {} /\ markers = {}
    BY DEF Init
<1>2. queue \in [Events -> Nat]
    BY DEF Init, None
<1>3. CallsOK
    BY <1>1, FS_EmptySet DEF Init, CallsOK, Free
<1>4. ASSUME NEW v \in Verbs PROVE Drawn(v)
    <2>1. Counting(v) = {}
        BY <1>1 DEF Counting
    <2>2. count[v] = 0 /\ tokens[v] = 0 /\ again[v] = 0
        BY DEF Init
    <2> QED
        BY <2>1, <2>2, FS_EmptySet DEF Drawn
<1> QED
    BY <1>1, <1>2, <1>3, <1>4, KeyInit DEF CountInv, CallsInv

\* A step of one request keeps what is said of statuses.
LEMMA StatusGoes ==
    ASSUME KeyInv, NEW r \in requests, OfStatus(r), NEW step \in Steps, Goes(r, step),
           step \in {"status", "find", "contact", "key"} => Report(r) # Reply
    PROVE  \A q \in requests' : q \in requests \/ OfStatus(q)
<1> DEFINE new == [r EXCEPT !.at = step]
<1>1. requests' = (requests \ {r}) \cup {new}
    BY DEF Goes
<1>2. new.at = step /\ Report(new) = Report(r)
    BY DEF KeyInv, RequestsOK, Requests, Report
<1> HIDE DEF new
<1> QED
    BY <1>1, <1>2 DEF OfStatus

\* The next report starts with its own first step.
LEMMA StatusNext ==
    ASSUME NEW r \in requests, NextReport(r)
    PROVE  \A q \in requests' : q \in requests \/ OfStatus(q)
<1>1. CASE r.item < Len(Items[r.body])
    <2> DEFINE next == Items[r.body][r.item + 1]
               new == [body |-> r.body, post |-> r.post, item |-> r.item + 1,
                       at |-> Head(Path(next))]
    <2>1. requests' = (requests \ {r}) \cup {new}
        BY <1>1 DEF NextReport
    <2>2. new.at = Head(Path(next)) /\ Report(new) = next
        BY DEF Report
    <2> HIDE DEF next
    <2>3. next = Reply => Head(Path(next)) = "row"
        BY DEF Path
    <2> HIDE DEF new
    <2> QED
        BY <2>1, <2>2, <2>3 DEF OfStatus
<1>2. CASE ~(r.item < Len(Items[r.body]))
    BY <1>2 DEF NextReport, Answer
<1> QED
    BY <1>1, <1>2

\* Every step keeps it.
LEMMA StatusesStay ==
    ASSUME KeyInv, \A r \in requests : OfStatus(r), [Next]_vars
    PROVE  (\A r \in requests : OfStatus(r))'
<1> SUFFICES \A q \in requests' : q \in requests \/ OfStatus(q)
    BY DEF OfStatus, Report
<1>1. CASE \E b \in Bodies : Post(b) \/ MetaTimesOut(b) \/ BodyKeyExpires(b)
    BY <1>1 DEF Post, MetaTimesOut, BodyKeyExpires, OfStatus
<1>2. ASSUME NEW r \in requests, Work(r) PROVE \A q \in requests' : q \in requests \/ OfStatus(q)
    <2>1. CASE IsDuplicate(r)
        <3>1. CASE r.body \in bodyKeys
            BY <2>1, <3>1 DEF IsDuplicate, Answer
        <3>2. CASE r.body \notin bodyKeys
            <4>1. PICK step \in {"row", "status"} : Goes(r, step) /\ (Report(r) = Reply => step = "row")
                BY <2>1, <3>2 DEF IsDuplicate, Path
            <4> QED
                BY <4>1, StatusGoes DEF Steps
        <3> QED
            BY <3>1, <3>2
    <2>2. CASE NextReport(r)
        BY <2>2, StatusNext
    <2>3. CASE \E step \in {"find", "row", "contact", "key", "publish", "release"} :
                 Goes(r, step) /\ (step \in {"find", "contact", "key"} => Report(r) # Reply)
        BY <2>3, StatusGoes DEF Steps
    <2>4. CASE IsStatusKeySet(r)
        BY <2>2, <2>3, <2>4 DEF IsStatusKeySet, At, OfStatus
    <2>5. CASE FindSend(r)
        BY <2>2, <2>3, <2>5 DEF FindSend, At, OfStatus
    <2>6. CASE UpdateRow(r)
        BY <2>3, <2>6 DEF UpdateRow
    <2>7. CASE UpdateContact(r)
        BY <2>3, <2>7 DEF UpdateContact, At, OfStatus
    <2>8. CASE SetStatusKey(r)
        BY <2>3, <2>8 DEF SetStatusKey
    <2>9. CASE PublishEvent(r)
        BY <2>2, <2>9 DEF PublishEvent
    <2>10. CASE Fails(r)
        BY <2>3, <2>10 DEF Fails
    <2>11. CASE ReleaseDedupKey(r)
        BY <2>11 DEF ReleaseDedupKey, Answer
    <2> QED
        BY <1>2, <2>1, <2>4, <2>5, <2>6, <2>7, <2>8, <2>9, <2>10, <2>11 DEF Work
<1>3. CASE Crash
    BY <1>3 DEF Crash
<1>4. CASE Persist \/ PersistFails
    BY <1>4 DEF Persist, PersistFails
<1>5. CASE Process
    BY <1>5, ProcessLeaves
<1>6. CASE UNCHANGED vars
    BY <1>6 DEF vars
<1> QED
    BY <1>1, <1>2, <1>3, <1>4, <1>5, <1>6 DEF Next

\* A step that leaves the calls of event-process and what they write alone.
LEMMA CallsStay ==
    ASSUME CallsInv, UNCHANGED <<working, plainFirst, again>>
    PROVE  CallsInv'
BY DEF CallsInv, CallsOK, Drawn, Counting, Held, Holds, Counted, Marked, working

\* A call that loses its lock, or ends, is one of the finite set.
LEMMA Counts ==
    ASSUME CallsInv, NEW v \in Verbs
    PROVE  /\ IsFiniteSet(Counting(v)) /\ Cardinality(Counting(v)) \in Nat
           /\ count[v] \in Nat /\ tokens[v] \in Nat /\ again[v] \in Nat /\ lock[v] \in Nat
<1>1. Counting(v) \subseteq calls /\ IsFiniteSet(calls)
    BY DEF Counting, CallsInv, CallsOK
<1>2. IsFiniteSet(Counting(v))
    BY <1>1, FS_Subset
<1> QED
    BY <1>2, FS_CardinalityType DEF CallsInv, CallsOK

\* Where a call stands.
LEMMA CallIs ==
    ASSUME CallsInv, NEW c \in calls
    PROVE  /\ c \in Calls /\ c.report \in Verbs /\ c.token \in Nat \ {0} /\ c.known \in BOOLEAN
           /\ c.at \in {"count", "log"}
           /\ c = [report |-> c.report, known |-> c.known, token |-> c.token, at |-> c.at,
                   awaited |-> c.awaited]
BY DEF CallsInv, CallsOK, Calls

\* A set with one more element.
LEMMA OneMore ==
    ASSUME NEW S, IsFiniteSet(S), NEW x
    PROVE  /\ Cardinality(S \cup {x}) \in Nat
           /\ Cardinality(S \cup {x}) <= Cardinality(S) + 1
           /\ x \notin S => Cardinality(S \cup {x}) = Cardinality(S) + 1
<1>1. Cardinality(S) \in Nat
    BY FS_CardinalityType
<1>2. CASE x \in S
    <2>1. S \cup {x} = S
        BY <1>2
    <2>2. Cardinality(S \cup {x}) = Cardinality(S)
        BY <2>1
    <2> QED
        BY <1>1, <1>2, <2>2
<1>3. CASE x \notin S
    <2>1. Cardinality(S \cup {x}) = Cardinality(S) + 1
        BY <1>3, FS_AddElement
    <2> QED
        BY <1>1, <2>1
<1> QED
    BY <1>2, <1>3

\* A call gets the lock, while there is no marker and nobody has it.
LEMMA BeginCalls ==
    ASSUME CallsInv, NEW v \in Verbs, NEW known \in BOOLEAN, BeginEvent(v, known)
    PROVE  CallsInv'
<1> DEFINE new == [report |-> v, known |-> known, token |-> tokens[v] + 1, awaited |-> TRUE,
                   at |-> IF known THEN "count" ELSE "log"]
<1>1. /\ v \notin markers /\ lock[v] = 0
      /\ tokens' = [tokens EXCEPT ![v] = @ + 1]
      /\ lock' = [lock EXCEPT ![v] = tokens[v] + 1]
      /\ calls' = calls \cup {new}
      /\ UNCHANGED <<markers, count, plainFirst, again>>
    BY DEF BeginEvent, Locks, Free, history, processing
<1>2. new \in Calls /\ new.report = v /\ new.token = tokens[v] + 1 /\ Counted(new)
      /\ new.at = (IF known THEN "count" ELSE "log")
    BY Counts DEF Calls, Counted
<1> HIDE DEF new
<1>3. CallsOK
    BY DEF CallsInv
<1>4. CallsOK'
    <2>1. IsFiniteSet(calls')
        BY <1>1, <1>3, FS_AddElement DEF CallsOK
    <2>2. calls' \subseteq Calls
        BY <1>1, <1>2, <1>3 DEF CallsOK
    <2>3. \A c \in calls : c.report \in Verbs /\ c.token \in Nat
        BY CallIs
    <2>4. tokens' \in [Verbs -> Nat] /\ lock' \in [Verbs -> Nat] /\ tokens'[v] = tokens[v] + 1
          /\ \A w \in Verbs : tokens[w] <= tokens'[w] /\ lock'[w] <= tokens'[w]
        BY <1>1, <1>3 DEF CallsOK
    <2>5. \A c \in calls' : c.token <= tokens'[c.report]
        BY <1>1, <1>2, <1>3, <2>3, <2>4 DEF CallsOK
    <2>6. \A c \in calls : ~(c.report = v /\ c.token = new.token)
        BY <1>2, <1>3, <2>3, Counts DEF CallsOK
    <2>7. \A c, d \in calls' : c.report = d.report /\ c.token = d.token => c = d
        BY <1>1, <1>2, <1>3, <2>6 DEF CallsOK
    <2> QED
        BY <1>1, <1>3, <2>1, <2>2, <2>4, <2>5, <2>7 DEF CallsOK
<1>5. ASSUME NEW w \in Verbs PROVE Drawn(w)'
    <2>1. Drawn(w)
        BY DEF CallsInv
    <2>2. CASE w # v
        <3>1. tokens'[w] = tokens[w] /\ lock'[w] = lock[w]
            BY <1>1, <1>3, <2>2 DEF CallsOK
        <3>2. Counting(w)' = Counting(w)
            BY <1>1, <1>2, <2>2 DEF Counting
        <3>3. Held(w) => Held(w)'
            BY <1>1, <1>2, <1>3, <2>2, <3>1 DEF Held, Holds, CallsOK
        <3> QED
            BY <1>1, <2>1, <3>1, <3>2, <3>3 DEF Drawn
    <2>3. CASE w = v
        <3>1. tokens'[v] = tokens[v] + 1 /\ lock'[v] = tokens[v] + 1
            BY <1>1, <1>3 DEF CallsOK
        <3>2. ~Held(v) /\ Held(v)'
            BY <1>1, <1>2, <3>1, CallIs DEF Held, Holds
        <3>3. tokens[v] <= again[v]
            BY <1>1, <2>1, <2>3, <3>2 DEF Drawn
        <3>4. /\ Cardinality(Counting(v)') \in Nat
              /\ Cardinality(Counting(v)') <= Cardinality(Counting(v)) + 1
            <4>1. Counting(v)' = Counting(v) \/ Counting(v)' = Counting(v) \cup {new}
                BY <1>1, <1>2 DEF Counting
            <4>2. IsFiniteSet(Counting(v)) /\ Cardinality(Counting(v)) \in Nat
                BY Counts
            <4>3. /\ Cardinality(Counting(v) \cup {new}) \in Nat
                  /\ Cardinality(Counting(v) \cup {new}) <= Cardinality(Counting(v)) + 1
                BY <4>2, OneMore
            <4>4. CASE Counting(v)' = Counting(v)
                BY <4>2, <4>4
            <4>5. CASE Counting(v)' = Counting(v) \cup {new}
                BY <4>3, <4>5
            <4> QED
                BY <4>1, <4>4, <4>5
        <3>5. count[v] + Cardinality(Counting(v)) <= tokens[v]
            BY <2>1, <2>3 DEF Drawn
        <3>6. count'[v] = count[v] /\ again'[v] = again[v]
            BY <1>1
        <3>7. count'[v] + Cardinality(Counting(v)') <= tokens'[v]
            BY <3>1, <3>4, <3>5, <3>6, Counts
        <3>8. tokens'[v] <= again'[v] + 1
            BY <3>1, <3>3, <3>6, Counts
        <3> QED
            BY <2>3, <3>2, <3>7, <3>8 DEF Drawn
    <2> QED
        BY <2>2, <2>3
<1>6. (\A c \in calls : Counted(c))' /\ (\A w \in markers : Marked(w))'
    BY <1>1, <1>2 DEF CallsInv, Counted, Marked
<1> QED
    BY <1>4, <1>5, <1>6 DEF CallsInv
\* A call goes on: it counts, or the bridge gives up on it.
LEMMA CallGoesOn ==
    ASSUME CallsInv, NEW c \in calls,
           NEW new \in Calls, new.report = c.report, new.token = c.token, Counted(new)',
           calls' = (calls \ {c}) \cup {new},
           UNCHANGED <<lock, tokens, markers, again, plainFirst>>,
           count' \in [Verbs -> Nat], \A v \in Verbs : count[v] <= count'[v],
           \A v \in Verbs : count'[v] + Cardinality(Counting(v)') <= tokens[v]
    PROVE  CallsInv'
<1>1. CallsOK
    BY DEF CallsInv
<1>2. IsFiniteSet(calls')
    BY <1>1, FS_RemoveElement, FS_AddElement DEF CallsOK
<1>3. CallsOK'
    <2>1. calls' \subseteq Calls
        BY <1>1 DEF CallsOK
    <2>2. \A d \in calls' : d.token <= tokens[d.report]
        BY <1>1 DEF CallsOK
    <2>3. \A d, e \in calls' : d.report = e.report /\ d.token = e.token => d = e
        BY <1>1 DEF CallsOK
    <2> QED
        BY <1>1, <1>2, <2>1, <2>2, <2>3 DEF CallsOK
<1>4. ASSUME NEW v \in Verbs PROVE Drawn(v)'
    <2>1. Drawn(v)
        BY DEF CallsInv
    <2>2. Held(v) => Held(v)'
        BY DEF Held, Holds
    <2> QED
        BY <2>1, <2>2 DEF Drawn
<1>5. ASSUME NEW d \in calls' PROVE Counted(d)'
    <2>1. CASE d = new
        BY <2>1
    <2>2. CASE d \in calls
        <3>1. Counted(d) /\ count[d.report] \in Nat /\ count'[d.report] \in Nat
              /\ count[d.report] <= count'[d.report]
            BY <2>2, CallIs DEF CallsInv, CallsOK
        <3> QED
            BY <3>1 DEF Counted
    <2> QED
        BY <2>1, <2>2
<1>6. ASSUME NEW v \in markers' PROVE Marked(v)'
    <2>1. v \in markers /\ v \in Verbs /\ Marked(v)
        BY <1>1 DEF CallsInv, CallsOK
    <2>2. count[v] \in Nat /\ count'[v] \in Nat /\ count[v] <= count'[v]
        BY <1>1, <2>1 DEF CallsOK
    <2> QED
        BY <2>1, <2>2 DEF Marked
<1> QED
    BY <1>3, <1>4, <1>5, <1>6 DEF CallsInv

\* The counters are written.
LEMMA CountCalls ==
    ASSUME CallsInv, NEW c \in calls, CountEvent(c)
    PROVE  CallsInv'
<1> DEFINE new == [c EXCEPT !.at = "log"]
<1>1. /\ c.at = "count"
      /\ count' = [count EXCEPT ![c.report] = @ + 1]
      /\ calls' = (calls \ {c}) \cup {new}
      /\ UNCHANGED <<lock, tokens, markers, again, plainFirst>>
    BY DEF CountEvent, history, processing
<1>2. c \in Calls /\ c.report \in Verbs /\ count \in [Verbs -> Nat]
    BY CallIs DEF CallsInv, CallsOK
<1>3. new \in Calls /\ new.report = c.report /\ new.token = c.token /\ new.at = "log"
    BY <1>2 DEF Calls
<1> HIDE DEF new
<1>4. count' \in [Verbs -> Nat] /\ count'[c.report] = count[c.report] + 1
      /\ \A v \in Verbs : count[v] <= count'[v] /\ (v # c.report => count'[v] = count[v])
    BY <1>1, <1>2
<1>5. Counted(new)'
    BY <1>2, <1>3, <1>4 DEF Counted
<1>6. ASSUME NEW v \in Verbs PROVE count'[v] + Cardinality(Counting(v)') <= tokens[v]
    <2>1. count[v] + Cardinality(Counting(v)) <= tokens[v]
        BY DEF CallsInv, Drawn
    <2>2. CASE v # c.report
        <3>1. Counting(v)' = Counting(v)
            BY <1>1, <1>3, <2>2 DEF Counting
        <3> QED
            BY <1>4, <2>1, <2>2, <3>1
    <2>3. CASE v = c.report
        <3>1. Counting(v)' = Counting(v) \ {c} /\ c \in Counting(v)
            BY <1>1, <1>3, <2>3 DEF Counting
        <3>2. IsFiniteSet(Counting(v)) /\ Cardinality(Counting(v)) \in Nat
            BY Counts
        <3>3. Cardinality(Counting(v) \ {c}) = Cardinality(Counting(v)) - 1
            BY <3>1, <3>2, FS_RemoveElement
        <3>4. count'[v] = count[v] + 1 /\ count[v] \in Nat /\ tokens[v] \in Nat
            BY <1>4, <2>3, Counts
        <3> QED
            BY <2>1, <3>1, <3>2, <3>3, <3>4
    <2> QED
        BY <2>2, <2>3
<1> QED
    BY <1>1, <1>3, <1>4, <1>5, <1>6, CallGoesOn

\* The bridge gives up on a call.
LEMMA TimesOutCalls ==
    ASSUME CallsInv, NEW c \in calls, EventTimesOut(c)
    PROVE  CallsInv'
<1> DEFINE new == [c EXCEPT !.awaited = FALSE]
<1>1. /\ calls' = (calls \ {c}) \cup {new}
      /\ UNCHANGED <<lock, tokens, markers, count, again, plainFirst>>
    BY DEF EventTimesOut
<1>2. c \in Calls /\ c.report \in Verbs /\ count \in [Verbs -> Nat]
    BY CallIs DEF CallsInv, CallsOK
<1>3. new \in Calls /\ new.report = c.report /\ new.token = c.token /\ new.at = c.at
      /\ new.known = c.known
    BY <1>2 DEF Calls
<1> HIDE DEF new
<1>4. Counted(new)'
    BY <1>1, <1>3 DEF CallsInv, Counted
<1>5. \A v \in Verbs : count[v] \in Nat
    BY <1>2
<1>6. ASSUME NEW v \in Verbs PROVE count'[v] + Cardinality(Counting(v)') <= tokens[v]
    <2>1. count[v] + Cardinality(Counting(v)) <= tokens[v]
        BY DEF CallsInv, Drawn
    <2>2. IsFiniteSet(Counting(v)) /\ Cardinality(Counting(v)) \in Nat
          /\ count[v] \in Nat /\ tokens[v] \in Nat
        BY Counts
    <2>3. CASE c \in Counting(v)
        <3> DEFINE rest == Counting(v) \ {c}
        <3>1. Counting(v)' = rest \cup {new} /\ new \notin rest
            <4>1. new \notin rest
                BY <1>3 DEF CallsInv, CallsOK, Counting
            <4> QED
                BY <1>1, <1>3, <2>3, <4>1 DEF Counting
        <3>2. IsFiniteSet(rest) /\ Cardinality(rest) = Cardinality(Counting(v)) - 1
            BY <2>2, <2>3, FS_RemoveElement
        <3> HIDE DEF rest
        <3>3. Cardinality(rest \cup {new}) = Cardinality(Counting(v))
            <4>1. Cardinality(rest \cup {new}) = Cardinality(rest) + 1
                BY <3>1, <3>2, OneMore
            <4> QED
                BY <2>2, <3>2, <4>1
        <3> QED
            BY <1>1, <2>1, <3>1, <3>3
    <2>4. CASE c \notin Counting(v)
        <3>1. Counting(v)' = Counting(v)
            BY <1>1, <1>3, <2>4 DEF Counting
        <3> QED
            BY <1>1, <2>1, <3>1
    <2> QED
        BY <2>3, <2>4
<1> QED
    BY <1>1, <1>2, <1>3, <1>4, <1>5, <1>6, CallGoesOn
\* A call ends: it is logged and marked, or it fails.
LEMMA CallEnds ==
    ASSUME CallsInv, NEW c \in calls, LogEvent(c) \/ EventFails(c)
    PROVE  CallsInv'
<1>1. /\ calls' = calls \ {c} /\ UNCHANGED <<tokens, count>>
      /\ lock' = IF Holds(c) THEN [lock EXCEPT ![c.report] = 0] ELSE lock
    BY DEF LogEvent, EventFails, ReleaseLock, Free
<1>2. CallsOK /\ c \in Calls /\ c.report \in Verbs /\ c.token \in Nat \ {0}
    BY CallIs DEF CallsInv
<1>3. again' \in [Verbs -> Nat] /\ \A v \in Verbs : again[v] <= again'[v]
    <2>1. CASE again' = again
        BY <1>2, <2>1 DEF CallsOK
    <2>2. CASE again' = [again EXCEPT ![c.report] = @ + 1]
        BY <1>2, <2>2 DEF CallsOK
    <2> QED
        BY <2>1, <2>2 DEF LogEvent, EventFails
<1>4. markers \subseteq markers' /\ plainFirst \subseteq plainFirst' /\ markers' \subseteq Verbs
    BY <1>2 DEF LogEvent, EventFails, CallsOK
<1>5. CallsOK'
    <2>1. IsFiniteSet(calls')
        BY <1>1, <1>2, FS_RemoveElement DEF CallsOK
    <2>2. lock' \in [Verbs -> Nat] /\ \A v \in Verbs : lock'[v] <= tokens[v]
        BY <1>1, <1>2 DEF CallsOK
    <2> QED
        BY <1>1, <1>2, <1>3, <1>4, <2>1, <2>2 DEF CallsOK
<1>6. ASSUME NEW v \in Verbs PROVE Drawn(v)'
    <2>1. Drawn(v) /\ again[v] \in Nat /\ again'[v] \in Nat /\ again[v] <= again'[v]
          /\ tokens[v] \in Nat /\ count[v] \in Nat
        BY <1>3, Counts DEF CallsInv
    <2>2. tokens'[v] <= again'[v] + 1
        BY <1>1, <2>1 DEF Drawn
    <2>3. count'[v] + Cardinality(Counting(v)') <= tokens'[v]
        <3>1. Counting(v)' \subseteq Counting(v)
            BY <1>1 DEF Counting
        <3>2. Cardinality(Counting(v)') \in Nat /\ Cardinality(Counting(v)) \in Nat
              /\ Cardinality(Counting(v)') <= Cardinality(Counting(v))
            BY <3>1, Counts, FS_Subset, FS_CardinalityType
        <3> QED
            BY <1>1, <2>1, <3>2 DEF Drawn
    <2>4. ASSUME v \notin markers', ~Held(v)' PROVE tokens'[v] <= again'[v]
        <3>1. v \notin markers
            BY <1>4, <2>4
        <3>2. CASE v = c.report /\ Holds(c)
            <4>1. EventFails(c)
                BY <2>4, <3>2 DEF LogEvent
            <4>2. again'[v] = again[v] + 1
                BY <1>2, <3>2, <4>1 DEF EventFails, CallsOK
            <4> QED
                BY <1>1, <2>1, <4>2 DEF Drawn
        <3>3. CASE ~(v = c.report /\ Holds(c))
            <4>1. lock'[v] = lock[v]
                BY <1>1, <1>2, <3>3 DEF CallsOK
            <4>2. Held(v) => Held(v)'
                BY <1>1, <3>3, <4>1 DEF Held, Holds
            <4> QED
                BY <1>1, <2>1, <2>4, <3>1, <4>2 DEF Drawn
        <3> QED
            BY <3>2, <3>3
    <2> QED
        BY <2>2, <2>3, <2>4 DEF Drawn
<1>7. ASSUME NEW v \in markers' PROVE Marked(v)'
    <2>1. CASE v \in markers
        BY <1>1, <1>4, <2>1 DEF CallsInv, Marked
    <2>2. CASE v \notin markers
        <3>1. LogEvent(c) /\ v = c.report
            BY <2>2 DEF LogEvent, EventFails
        <3>2. c.known => count[v] > 0
            BY <3>1 DEF LogEvent, CallsInv, Counted
        <3>3. ~c.known => v \in plainFirst'
            BY <3>1 DEF LogEvent
        <3> QED
            BY <1>1, <3>2, <3>3 DEF Marked
    <2> QED
        BY <2>1, <2>2
<1> QED
    BY <1>1, <1>5, <1>6, <1>7 DEF CallsInv, Counted

\* event-process dies, or a lock expires: the holder of a lock that is lost is recorded.
LEMMA LocksLost ==
    ASSUME CallsInv, EventCrash \/ \E v \in Verbs : LockExpires(v)
    PROVE  CallsInv'
<1>1. CallsOK
    BY DEF CallsInv
<1>2. UNCHANGED <<tokens, markers, count, plainFirst>> /\ calls' \subseteq calls
    BY DEF EventCrash, LockExpires
<1>3. again' \in [Verbs -> Nat] /\ \A v \in Verbs : again[v] <= again'[v]
    <2>1. CASE EventCrash
        BY <1>1, <2>1 DEF EventCrash, CallsOK
    <2>2. ASSUME NEW v \in Verbs, LockExpires(v)
          PROVE  again' \in [Verbs -> Nat] /\ \A w \in Verbs : again[w] <= again'[w]
        <3>1. again' = again \/ again' = [again EXCEPT ![v] = @ + 1]
            BY <2>2 DEF LockExpires
        <3> QED
            BY <1>1, <3>1 DEF CallsOK
    <2> QED
        BY <2>1, <2>2
<1>4. CallsOK'
    <2>1. IsFiniteSet(calls')
        BY <1>1, <1>2, FS_Subset DEF CallsOK
    <2>2. lock' \in [Verbs -> Nat] /\ \A v \in Verbs : lock'[v] <= tokens[v]
        BY <1>1 DEF EventCrash, LockExpires, CallsOK, Free
    <2> QED
        BY <1>1, <1>2, <1>3, <2>1, <2>2 DEF CallsOK
<1>5. ASSUME NEW v \in Verbs PROVE Drawn(v)'
    <2>1. Drawn(v) /\ again[v] \in Nat /\ again'[v] \in Nat /\ again[v] <= again'[v]
          /\ tokens[v] \in Nat /\ count[v] \in Nat
        BY <1>3, Counts DEF CallsInv
    <2>2. tokens'[v] <= again'[v] + 1
        BY <1>2, <2>1 DEF Drawn
    <2>3. count'[v] + Cardinality(Counting(v)') <= tokens'[v]
        <3>1. Counting(v)' \subseteq Counting(v)
            BY <1>2 DEF Counting
        <3>2. Cardinality(Counting(v)') \in Nat /\ Cardinality(Counting(v)) \in Nat
              /\ Cardinality(Counting(v)') <= Cardinality(Counting(v))
            BY <3>1, Counts, FS_Subset, FS_CardinalityType
        <3> QED
            BY <1>2, <2>1, <3>2 DEF Drawn
    <2>4. CASE Held(v) /\ ~Held(v)'
        <3>1. again'[v] = again[v] + 1
            <4>1. CASE EventCrash
                BY <2>4, <4>1 DEF EventCrash, Held
            <4>2. ASSUME NEW w \in Verbs, LockExpires(w) PROVE again'[v] = again[v] + 1
                <5>1. w = v
                    BY <1>1, <2>4, <4>2 DEF LockExpires, Held, Holds, CallsOK
                <5>2. {c \in calls : c.report = v /\ Holds(c)} # {}
                    BY <2>4 DEF Held
                <5> QED
                    BY <1>1, <4>2, <5>1, <5>2 DEF LockExpires, CallsOK
            <4> QED
                BY <4>1, <4>2
        <3> QED
            BY <1>2, <2>1, <2>2, <2>3, <3>1 DEF Drawn
    <2>5. CASE Held(v) => Held(v)'
        BY <1>2, <2>1, <2>2, <2>3, <2>5 DEF Drawn
    <2> QED
        BY <2>4, <2>5
<1> QED
    BY <1>2, <1>4, <1>5 DEF CallsInv, Counted, Marked

\* Every step of event-process keeps what is said of its calls.
LEMMA ProcessCalls ==
    ASSUME CallsInv, Process
    PROVE  CallsInv'
<1>1. CASE \E v \in Verbs, known \in BOOLEAN : SkipEvent(v, known)
    BY <1>1, CallsStay DEF SkipEvent
<1>2. CASE \E v \in Verbs, known \in BOOLEAN : BeginEvent(v, known)
    BY <1>2, BeginCalls
<1>3. CASE \E c \in calls : CountEvent(c)
    BY <1>3, CountCalls
<1>4. CASE \E c \in calls : LogEvent(c) \/ EventFails(c)
    BY <1>4, CallEnds
<1>5. CASE \E c \in calls : EventTimesOut(c)
    BY <1>5, TimesOutCalls
<1>6. CASE EventCrash \/ \E v \in Verbs : LockExpires(v)
    BY <1>6, LocksLost
<1> QED
    BY <1>1, <1>2, <1>3, <1>4, <1>5, <1>6 DEF Process
\* What a step has yet to keep of a request and of the calls.
Kept == KeyInv' /\ CallsInv' /\ (\A r \in requests : OfStatus(r))'

\* A step that leaves the events alone, sets no key, and drops no request that is about
\* to publish.
LEMMA EventsLeft ==
    ASSUME CountInv, Kept, UNCHANGED <<queue, calls, markers, statusKeys, dropped>>,
           unpublished \subseteq unpublished',
           \A r \in requests : r.at = "publish" =>
              r \in requests' \/ Report(r) \in unpublished'
    PROVE  CountInv'
<1>1. ASSUME NEW v \in statusKeys PROVE Heading(v)'
    <2>1. Heading(v)
        BY DEF CountInv
    <2> QED
        BY <2>1 DEF Heading, Report
<1> QED
    BY <1>1 DEF CountInv, Kept

\* A publication adds its event, unless it is of a reply.
LEMMA Published ==
    ASSUME CountInv, Kept, NEW v \in Reports, NEW known \in BOOLEAN, Publish(v, known),
           UNCHANGED <<calls, markers, statusKeys, dropped, unpublished>>,
           \A r \in requests : r.at = "publish" =>
              r \in requests' \/ (known /\ Report(r) = v)
    PROVE  CountInv'
<1>1. CASE v = Reply
    <2>1. queue' = queue
        BY <1>1 DEF Publish
    <2>2. ASSUME NEW w \in statusKeys PROVE Heading(w)'
        <3>1. Heading(w) /\ w # Reply
            BY DEF CountInv, Verbs, Reply
        <3> QED
            BY <1>1, <2>1, <3>1 DEF Heading, Report
    <2> QED
        BY <2>1, <2>2 DEF CountInv, Kept
<1>2. CASE v # Reply
    <2>1. queue' = [queue EXCEPT ![<<v, known>>] = @ + 1]
        BY <1>2 DEF Publish
    <2>2. <<v, known>> \in Events /\ queue \in [Events -> Nat]
        BY <1>2 DEF Events, Reports, CountInv
    <2>3. queue' \in [Events -> Nat] /\ queue'[<<v, known>>] > 0
        BY <2>1, <2>2
    <2>4. ASSUME NEW w \in statusKeys PROVE Heading(w)'
        <3>1. Heading(w) /\ <<w, TRUE>> \in Events
            BY DEF CountInv, Events
        <3>2. CASE known /\ w = v
            BY <2>3, <3>2 DEF Heading
        <3>3. CASE ~(known /\ w = v)
            <4>1. queue'[<<w, TRUE>>] = queue[<<w, TRUE>>]
                BY <2>1, <2>2, <3>1, <3>3
            <4> QED
                BY <3>1, <3>3, <4>1 DEF Heading, Report
        <3> QED
            BY <3>2, <3>3
    <2> QED
        BY <2>3, <2>4 DEF CountInv, Kept
<1> QED
    BY <1>1, <1>2

\* The steps of a request: only a publication adds an event, only SetStatusKey a key.
LEMMA WorkCounts ==
    ASSUME CountInv, Kept, NEW r \in requests, Work(r)
    PROVE  CountInv'
<1>1. Report(r) \in Reports /\ r \in Requests
    BY ReportIs DEF CountInv, KeyInv, RequestsOK
<1>2. CASE IsDuplicate(r) \/ IsStatusKeySet(r) \/ UpdateRow(r) \/ UpdateContact(r)
           \/ Fails(r) \/ ReleaseDedupKey(r)
    <2>1. UNCHANGED <<queue, calls, markers, statusKeys, dropped, unpublished>> /\ r.at # "publish"
        BY <1>2 DEF IsDuplicate, IsStatusKeySet, UpdateRow, UpdateContact, Fails,
                    ReleaseDedupKey, At, keys, events, working, history, processing
    <2>2. \A q \in requests : q = r \/ q \in requests'
        BY <1>2 DEF IsDuplicate, IsStatusKeySet, UpdateRow, UpdateContact, Fails,
                    ReleaseDedupKey, Goes, Answer, NextReport
    <2> QED
        BY <2>1, <2>2, EventsLeft
<1>3. CASE FindSend(r)
    <2>1. UNCHANGED <<calls, markers, statusKeys, dropped, unpublished>> /\ r.at = "find"
        BY <1>3 DEF FindSend, At, keys, working, processing
    <2>2. \A q \in requests : q = r \/ q \in requests'
        BY <1>3 DEF FindSend, Goes, Answer, NextReport
    <2>3. CASE UNCHANGED queue
        BY <2>1, <2>2, <2>3, EventsLeft
    <2>4. CASE Publish(Report(r), FALSE)
        BY <1>1, <2>1, <2>2, <2>4, Published
    <2> QED
        BY <1>3, <2>3, <2>4 DEF FindSend
<1>4. CASE SetStatusKey(r)
    <2>1. /\ UNCHANGED <<queue, calls, markers, dropped, unpublished>> /\ r.at = "key"
          /\ statusKeys' = statusKeys \cup {Report(r)}
        BY <1>4 DEF SetStatusKey, At, events, working, history, processing
    <2> DEFINE new == [r EXCEPT !.at = "publish"]
    <2>2. requests' = (requests \ {r}) \cup {new}
        BY <1>4 DEF SetStatusKey, Goes
    <2>3. new.at = "publish" /\ new.body = r.body /\ new.item = r.item
        BY <1>1 DEF Requests
    <2> HIDE DEF new
    <2>4. \A v : v = Report(r) => Heading(v)'
        BY <2>2, <2>3 DEF Heading, Report
    <2>5. ASSUME NEW v \in statusKeys PROVE Heading(v)'
        <3>1. Heading(v)
            BY DEF CountInv
        <3> QED
            BY <2>1, <2>2, <3>1 DEF Heading, Report
    <2>6. Report(r) \in Verbs
        BY <1>1, <2>1 DEF CountInv, OfStatus, Reports
    <2> QED
        BY <2>1, <2>4, <2>5, <2>6 DEF CountInv, Kept
<1>5. CASE PublishEvent(r)
    <2>1. UNCHANGED <<calls, markers, statusKeys, dropped>>
        BY <1>5 DEF PublishEvent, keys, working, processing
    <2>2. \A q \in requests : q = r \/ q \in requests'
        BY <1>5 DEF PublishEvent, Answer, NextReport
    <2>3. CASE UNCHANGED queue /\ unpublished' = unpublished \cup {Report(r)}
        BY <2>1, <2>2, <2>3, EventsLeft
    <2>4. CASE Publish(Report(r), TRUE) /\ UNCHANGED unpublished
        BY <1>1, <2>1, <2>2, <2>4, Published
    <2> QED
        BY <1>5, <2>3, <2>4 DEF PublishEvent
<1> QED
    BY <1>2, <1>3, <1>4, <1>5 DEF Work
\* What event-process does to the event of a status leaves it heading for its count, or
\* records it as dropped.
LEMMA ProcessCounts ==
    ASSUME CountInv, Kept, Process
    PROVE  CountInv'
<1> USE DEF Heading
<1>1. UNCHANGED <<requests, statusKeys, unpublished>>
    BY ProcessLeaves DEF keys
<1>2. queue \in [Events -> Nat] /\ \A v \in Verbs, known \in BOOLEAN : <<v, known>> \in Events
    BY DEF CountInv, Events
<1>3. SUFFICES queue' \in [Events -> Nat] /\ \A w \in statusKeys : Heading(w) => Heading(w)'
    BY <1>1 DEF CountInv, Kept
<1>4. \A r : Report(r)' = Report(r)
    BY DEF Report
<1>5. ASSUME NEW v \in Verbs, NEW known \in BOOLEAN, SkipEvent(v, known)
      PROVE  queue' \in [Events -> Nat] /\ \A w \in statusKeys : Heading(w) => Heading(w)'
    <2>1. /\ queue' = [queue EXCEPT ![<<v, known>>] = @ - 1] /\ queue[<<v, known>>] > 0
          /\ UNCHANGED <<calls, markers>> /\ dropped \subseteq dropped'
          /\ v \in markers \/ v \in dropped'
        BY <1>5 DEF SkipEvent, Take, working
    <2>2. queue' \in [Events -> Nat]
        BY <1>2, <2>1
    <2>3. ASSUME NEW w \in statusKeys, w # v PROVE queue'[<<w, TRUE>>] = queue[<<w, TRUE>>]
        BY <1>2, <2>1, <2>3 DEF CountInv
    <2> QED
        BY <1>1, <1>4, <2>1, <2>2, <2>3
<1>6. ASSUME NEW v \in Verbs, NEW known \in BOOLEAN, BeginEvent(v, known)
      PROVE  queue' \in [Events -> Nat] /\ \A w \in statusKeys : Heading(w) => Heading(w)'
    <2> DEFINE new == [report |-> v, known |-> known, token |-> tokens[v] + 1, awaited |-> TRUE,
                       at |-> IF known THEN "count" ELSE "log"]
    <2>1. /\ queue' = [queue EXCEPT ![<<v, known>>] = @ - 1] /\ queue[<<v, known>>] > 0
          /\ calls' = calls \cup {new} /\ UNCHANGED <<markers, dropped>>
        BY <1>6 DEF BeginEvent, Locks, Take, history, processing
    <2>2. new \in calls' /\ new.report = v /\ new.known = known /\ new.awaited
        BY <2>1
    <2> HIDE DEF new
    <2>3. queue' \in [Events -> Nat]
        BY <1>2, <2>1
    <2>4. ASSUME NEW w \in statusKeys, ~(w = v /\ known) PROVE queue'[<<w, TRUE>>] = queue[<<w, TRUE>>]
        BY <1>2, <2>1, <2>4 DEF CountInv
    <2> QED
        BY <1>1, <1>4, <2>1, <2>2, <2>3, <2>4
<1>7. ASSUME NEW c \in calls, CountEvent(c)
      PROVE  queue' \in [Events -> Nat] /\ \A w \in statusKeys : Heading(w) => Heading(w)'
    <2> DEFINE new == [c EXCEPT !.at = "log"]
    <2>1. calls' = (calls \ {c}) \cup {new} /\ UNCHANGED <<queue, markers, dropped>>
        BY <1>7 DEF CountEvent, history, processing
    <2>2. new.report = c.report /\ new.known = c.known /\ new.awaited = c.awaited
        BY CallIs DEF CountInv, Calls
    <2> HIDE DEF new
    <2> QED
        BY <1>1, <1>2, <1>4, <2>1, <2>2
<1>8. ASSUME NEW c \in calls, LogEvent(c)
      PROVE  queue' \in [Events -> Nat] /\ \A w \in statusKeys : Heading(w) => Heading(w)'
    BY <1>1, <1>2, <1>4, <1>8 DEF LogEvent
<1>9. ASSUME NEW c \in calls, Retried(c)
      PROVE  /\ queue' \in [Events -> Nat] /\ \A e \in Events : queue[e] > 0 => queue'[e] > 0
             /\ dropped \subseteq dropped'
             /\ c.known => queue'[<<c.report, TRUE>>] > 0 \/ c.report \in dropped'
    <2>1. <<c.report, c.known>> \in Events
        BY <1>2, CallIs DEF CountInv
    <2>2. CASE queue' = [queue EXCEPT ![<<c.report, c.known>>] = @ + 1] /\ UNCHANGED dropped
        <3>1. queue' \in [Events -> Nat] /\ queue'[<<c.report, c.known>>] > 0
              /\ \A e \in Events : queue[e] > 0 => queue'[e] > 0
            BY <1>2, <2>1, <2>2
        <3>2. c.known => c.known = TRUE
            BY CallIs DEF CountInv
        <3> QED
            BY <2>2, <3>1, <3>2
    <2>3. CASE dropped' = dropped \cup {c.report} /\ UNCHANGED queue
        BY <1>2, <2>3
    <2> QED
        BY <1>9, <2>2, <2>3 DEF Retried, Put
<1>10. ASSUME NEW c \in calls, EventFails(c)
       PROVE  queue' \in [Events -> Nat] /\ \A w \in statusKeys : Heading(w) => Heading(w)'
    <2>1. calls' = calls \ {c} /\ UNCHANGED markers
        BY <1>10 DEF EventFails
    <2>2. CASE c.awaited
        <3>1. Retried(c)
            BY <1>10, <2>2 DEF EventFails
        <3>2. ASSUME NEW w \in statusKeys, queue[<<w, TRUE>>] > 0 PROVE queue'[<<w, TRUE>>] > 0
            <4>1. <<w, TRUE>> \in Events
                BY <1>2 DEF CountInv
            <4> QED
                BY <1>9, <3>1, <3>2, <4>1
        <3> QED
            BY <1>1, <1>4, <1>9, <2>1, <3>1, <3>2
    <2>3. CASE ~c.awaited
        <3>1. UNCHANGED <<queue, dropped>>
            BY <1>10, <2>3 DEF EventFails
        <3> QED
            BY <1>1, <1>2, <1>4, <2>1, <2>3, <3>1
    <2> QED
        BY <2>2, <2>3
<1>11. ASSUME NEW c \in calls, EventTimesOut(c)
       PROVE  queue' \in [Events -> Nat] /\ \A w \in statusKeys : Heading(w) => Heading(w)'
    <2>1. /\ calls' = (calls \ {c}) \cup {[c EXCEPT !.awaited = FALSE]}
          /\ Retried(c) /\ UNCHANGED markers
        BY <1>11 DEF EventTimesOut
    <2>2. ASSUME NEW w \in statusKeys, queue[<<w, TRUE>>] > 0 PROVE queue'[<<w, TRUE>>] > 0
        <3>1. <<w, TRUE>> \in Events
            BY <1>2 DEF CountInv
        <3> QED
            BY <1>9, <2>1, <2>2, <3>1
    <2>3. calls \ {c} \subseteq calls'
        BY <2>1
    <2> QED
        BY <1>1, <1>4, <1>9, <2>1, <2>2, <2>3
<1>12. ASSUME EventCrash
       PROVE  queue' \in [Events -> Nat] /\ \A w \in statusKeys : Heading(w) => Heading(w)'
    <2>1. /\ queue' = [e \in Events |-> IF \E c \in calls : c.awaited /\ e = <<c.report, c.known>>
                                        THEN queue[e] + 1 ELSE queue[e]]
          /\ UNCHANGED <<markers, dropped>>
        BY <1>12 DEF EventCrash
    <2>2. queue' \in [Events -> Nat] /\ \A e \in Events : queue[e] > 0 => queue'[e] > 0
        BY <1>2, <2>1
    <2>3. ASSUME NEW w \in statusKeys, NEW c \in calls, c.report = w, c.known, c.awaited
          PROVE  queue'[<<w, TRUE>>] > 0
        <3>1. <<w, TRUE>> \in Events /\ queue[<<w, TRUE>>] \in Nat
            BY <1>2 DEF CountInv
        <3>2. <<w, TRUE>> = <<c.report, c.known>>
            BY <2>3, CallIs DEF CountInv
        <3>3. queue'[<<w, TRUE>>] = queue[<<w, TRUE>>] + 1
            BY <2>1, <2>3, <3>1, <3>2
        <3> QED
            BY <3>1, <3>3
    <2>4. \A w \in statusKeys : <<w, TRUE>> \in Events
        BY <1>2 DEF CountInv
    <2> QED
        BY <1>1, <1>4, <2>1, <2>2, <2>3, <2>4
<1>13. ASSUME NEW v \in Verbs, LockExpires(v)
       PROVE  queue' \in [Events -> Nat] /\ \A w \in statusKeys : Heading(w) => Heading(w)'
    BY <1>1, <1>2, <1>4, <1>13 DEF LockExpires
<1> QED
    BY <1>5, <1>6, <1>7, <1>8, <1>10, <1>11, <1>12, <1>13 DEF Process

\* Every step keeps the invariant.
LEMMA CountStep == CountInv /\ [Next]_vars => CountInv'
<1> SUFFICES ASSUME CountInv, [Next]_vars PROVE CountInv'
    OBVIOUS
<1>1. CallsInv'
    <2>1. CASE Process
        BY <2>1, ProcessCalls DEF CountInv
    <2>2. CASE ~Process
        <3>1. UNCHANGED <<working, plainFirst, again>>
            BY <2>2 DEF Next, Post, MetaTimesOut, BodyKeyExpires, Work, IsDuplicate, IsStatusKeySet,
                        FindSend, UpdateRow, UpdateContact, SetStatusKey, PublishEvent, Fails,
                        ReleaseDedupKey, Crash, Persist, PersistFails, events, history, processing,
                        vars
        <3> QED
            BY <3>1, CallsStay DEF CountInv
    <2> QED
        BY <2>1, <2>2
<1>2. Kept
    BY <1>1, KeyStep, StatusesStay DEF CountInv, Kept
<1>3. ASSUME requests \subseteq requests', UNCHANGED <<events, statusKeys, history>>
      PROVE  CountInv'
    BY <1>2, <1>3, EventsLeft DEF events, working, history, processing
<1>4. CASE \E b \in Bodies : Post(b) \/ MetaTimesOut(b) \/ BodyKeyExpires(b)
    BY <1>3, <1>4 DEF Post, MetaTimesOut, BodyKeyExpires, keys
<1>5. CASE \E r \in requests : Work(r)
    BY <1>2, <1>5, WorkCounts
<1>6. CASE Crash
    BY <1>2, <1>6, EventsLeft DEF Crash, keys, events, working, processing
<1>7. CASE Persist \/ PersistFails
    BY <1>3, <1>7 DEF Persist, PersistFails, keys
<1>8. CASE Process
    BY <1>2, <1>8, ProcessCounts
<1>9. CASE UNCHANGED vars
    BY <1>3, <1>9 DEF vars, keys
<1> QED
    BY <1>4, <1>5, <1>6, <1>7, <1>8, <1>9 DEF Next

\* When no request is worked on, no event is on its way and no call runs, a status that
\* is held off was counted once, and once more at most for every call that lost its lock
\* and had left no marker; not at all only when its event was not published, met a lock
\* or was dead-lettered, or came after one without the send: for any bodies, retries,
\* redeliveries and calls.
THEOREM HeldOffIsCounted == Spec => []QuietIsCounted
<1>1. CountInv => QuietIsCounted
    <2> SUFFICES ASSUME CountInv, requests = {}, queue = None, calls = {}, NEW v \in statusKeys
                 PROVE  \/ count[v] \in 1..(1 + again[v])
                        \/ count[v] = 0 /\ v \in unpublished \cup plainFirst \cup dropped
        BY DEF QuietIsCounted
    <2>1. v \in Verbs /\ <<v, TRUE>> \in Events
        BY DEF CountInv, Events
    <2>2. queue[<<v, TRUE>>] = 0
        BY <2>1 DEF None
    <2>3. v \in markers \/ v \in unpublished \cup dropped
        <3>1. Heading(v)
            BY DEF CountInv
        <3> QED
            BY <2>2, <3>1 DEF Heading
    <2>4. count[v] > 0 \/ v \in unpublished \cup plainFirst \cup dropped
        BY <2>3 DEF CountInv, CallsInv, Marked
    <2>5. count[v] <= again[v] + 1 /\ count[v] \in Nat /\ again[v] \in Nat
        <3>1. Counting(v) = {}
            BY DEF Counting
        <3>2. Cardinality(Counting(v)) = 0
            BY <3>1, FS_EmptySet
        <3>3. Drawn(v)
            BY <2>1 DEF CountInv, CallsInv
        <3>4. count[v] \in Nat /\ tokens[v] \in Nat /\ again[v] \in Nat
            BY <2>1, Counts DEF CountInv
        <3> QED
            BY <3>2, <3>3, <3>4 DEF Drawn
    <2> QED
        BY <2>4, <2>5
<1> QED
    BY <1>1, CountInit, CountStep, PTL DEF Spec
=============================================================================
