--------------------------- MODULE SendBatchProofs ---------------------------
(***************************************************************************)
(* For any packages, contacts, attempts and mishaps: a package is not gone *)
(* from Redis before it has been reported (KeptUntilReportedAlways), a     *)
(* contact gets it once for every time that it is handed out               *)
(* (OnceForEveryDelivery), and no more mails in a day than the limit       *)
(* (LimitAlwaysHolds).                                                     *)
(*                                                                         *)
(* The invariant of the run says nothing of the calls: one that is about   *)
(* to delete the key, or that has found no package, must know that the     *)
(* package has been reported.  That is what the strengthening adds.        *)
(***************************************************************************)
EXTENDS SendBatch, FiniteSetTheorems, TLAPS

Place == {"queue", "bridge", "acked", "dead"}
Key == {"set", "null", "gone"}
Step == {"read", "check", "send", "report", "clean", "error", "void"}

Call == [package : Packages, attempt : Nat, at : Step, left : SUBSET Contacts]

\* The shape of what the steps read and write.
Shape ==
    /\ message \in [Packages -> [at : Place, attempt : Nat]]
    /\ stored \in [Packages -> [key : Key, contacts : SUBSET Contacts]]
    /\ calls \subseteq Call
    /\ reported \subseteq Packages

\* A call that deletes the key, or has found none, works on a reported package.
KnownReported ==
    \A k \in calls : k.at \in {"clean", "void"} => k.package \in reported

KeptInv == Shape /\ KnownReported /\ KeptUntilReported

\* In the beginning every package is stored and there are no calls.
LEMMA KeptInit == Init => KeptInv
<1> SUFFICES ASSUME Init PROVE KeptInv
    OBVIOUS
<1>1. campaign.audience \in [Packages -> SUBSET Contacts]
    BY SendBatchAssumption DEF Init
<1>2. Shape
    BY <1>1 DEF Init, Shape, Place, Key
<1> QED
    BY <1>2 DEF Init, KeptInv, KnownReported, KeptUntilReported

\* A call that goes on knows what its next step has to know.
LEMMA GoesKnown ==
    ASSUME Shape, KnownReported, reported \subseteq reported',
           NEW k \in calls, NEW step \in Step, NEW contacts \in SUBSET Contacts,
           Goes(k, step, contacts), step \in {"clean", "void"} => k.package \in reported'
    PROVE  calls' \subseteq Call /\ KnownReported'
<1> DEFINE new == [k EXCEPT !.at = step, !.left = contacts]
<1>1. k \in Call
    BY DEF Shape
<1>2. new \in Call /\ new.package = k.package /\ new.at = step
    BY <1>1 DEF Call
<1>3. calls' = (calls \ {k}) \cup {new}
    BY DEF Goes
<1>4. calls' \subseteq Call
    BY <1>2, <1>3 DEF Shape
<1>5. ASSUME NEW j \in calls', j.at \in {"clean", "void"} PROVE j.package \in reported'
    <2>1. CASE j = new
        BY <1>2, <1>5, <2>1
    <2>2. CASE j \in calls
        BY <1>5, <2>2 DEF KnownReported
    <2> QED
        BY <1>3, <2>1, <2>2
<1> QED
    BY <1>4, <1>5 DEF KnownReported

\* A negative answer keeps the shape of the message.
LEMMA NackedShape ==
    ASSUME NEW m \in [at : Place, attempt : Nat], MaxAttempts \in Nat
    PROVE  Nacked(m) \in [at : Place, attempt : Nat]
    BY DEF Nacked, Place

\* An answer takes a call away, and keeps the shape of the messages.
LEMMA AnswerKnown ==
    ASSUME Shape, KnownReported, reported \subseteq reported',
           NEW k \in calls, NEW ok \in BOOLEAN, Answer(k, ok)
    PROVE  /\ message' \in [Packages -> [at : Place, attempt : Nat]]
           /\ calls' \subseteq Call
           /\ KnownReported'
<1>1. k.package \in Packages
    BY DEF Shape, Call
<1>2. message[k.package] \in [at : Place, attempt : Nat]
    BY <1>1 DEF Shape
<1>3. Nacked(message[k.package]) \in [at : Place, attempt : Nat]
    BY <1>2, NackedShape, SendBatchAssumption
<1>4. [message[k.package] EXCEPT !.at = "acked"] \in [at : Place, attempt : Nat]
    BY <1>2 DEF Place
<1>5. message' \in [Packages -> [at : Place, attempt : Nat]]
    BY <1>1, <1>3, <1>4 DEF Answer, Shape
<1>6. calls' \subseteq calls
    BY DEF Answer
<1> QED
    BY <1>5, <1>6 DEF Shape, KnownReported

\* What is left to be shown of a step that does not touch Redis.
LEMMA StoredStays ==
    ASSUME KeptInv, UNCHANGED stored,
           reported \subseteq reported', reported' \subseteq Packages,
           message' \in [Packages -> [at : Place, attempt : Nat]],
           calls' \subseteq Call, KnownReported'
    PROVE  KeptInv'
<1>1. KeptUntilReported'
    BY DEF KeptInv, KeptUntilReported
<1>2. Shape'
    BY DEF KeptInv, Shape
<1> QED
    BY <1>1, <1>2 DEF KeptInv

\* What a step of the call k knows of it.
LEMMA OfCall ==
    ASSUME KeptInv, NEW k \in calls
    PROVE  /\ k \in Call /\ k.package \in Packages /\ k.left \in SUBSET Contacts
           /\ stored[k.package].contacts \in SUBSET Contacts
           /\ reported \subseteq Packages
           /\ message \in [Packages -> [at : Place, attempt : Nat]]
<1>1. k \in Call /\ stored \in [Packages -> [key : Key, contacts : SUBSET Contacts]]
    BY DEF KeptInv, Shape
<1>2. k.package \in Packages /\ k.left \in SUBSET Contacts
    BY <1>1 DEF Call
<1>3. stored[k.package] \in [key : Key, contacts : SUBSET Contacts]
    BY <1>1, <1>2
<1> QED
    BY <1>1, <1>2, <1>3 DEF KeptInv, Shape

\* The steps of the bridge.
LEMMA BridgeKeeps ==
    ASSUME KeptInv, \/ \E p \in Packages : Deliver(p) \/ TimesOut(p)
                    \/ \E ch \in {"email", "whatsapp"} : Crash(ch)
    PROVE  KeptInv'
<1>1. message \in [Packages -> [at : Place, attempt : Nat]] /\ calls \subseteq Call
      /\ reported \subseteq Packages /\ KnownReported
    BY DEF KeptInv, Shape
<1>2. ASSUME NEW p \in Packages, Deliver(p) PROVE KeptInv'
    <2> DEFINE new == [package |-> p, attempt |-> message[p].attempt, at |-> "read", left |-> {}]
    <2>1. message[p] \in [at : Place, attempt : Nat]
        BY <1>1
    <2>2. calls' = calls \cup {new} /\ UNCHANGED <<stored, reported>>
        BY <1>2 DEF Deliver
    <2>3. new \in Call /\ new.at = "read"
        BY <2>1 DEF Call, Step
    <2>4. KnownReported'
        BY <1>1, <2>2, <2>3 DEF KnownReported
    <2>5. [message[p] EXCEPT !.at = "bridge"] \in [at : Place, attempt : Nat]
        BY <2>1 DEF Place
    <2>6. message' \in [Packages -> [at : Place, attempt : Nat]]
        BY <1>1, <1>2, <2>5 DEF Deliver
    <2> QED
        BY <1>1, <2>2, <2>3, <2>4, <2>6, StoredStays
<1>3. ASSUME NEW p \in Packages, TimesOut(p) PROVE KeptInv'
    <2>1. Nacked(message[p]) \in [at : Place, attempt : Nat]
        BY <1>1, NackedShape, SendBatchAssumption
    <2>2. message' \in [Packages -> [at : Place, attempt : Nat]]
        BY <1>1, <1>3, <2>1 DEF TimesOut
    <2>3. UNCHANGED <<stored, reported, calls>>
        BY <1>3 DEF TimesOut
    <2>4. KnownReported'
        BY <1>1, <2>3 DEF KnownReported
    <2> QED
        BY <1>1, <2>2, <2>3, <2>4, StoredStays
<1>4. ASSUME NEW ch \in {"email", "whatsapp"}, Crash(ch) PROVE KeptInv'
    <2>1. ASSUME NEW p \in Packages
          PROVE  [message[p] EXCEPT !.at = "queue"] \in [at : Place, attempt : Nat]
        BY <1>1 DEF Place
    <2>2. message' \in [Packages -> [at : Place, attempt : Nat]]
        BY <1>1, <1>4, <2>1 DEF Crash
    <2>3. calls' \subseteq calls /\ UNCHANGED <<stored, reported>>
        BY <1>4 DEF Crash
    <2>4. KnownReported'
        BY <1>1, <2>3 DEF KnownReported
    <2> QED
        BY <1>1, <2>2, <2>3, <2>4, StoredStays
<1> QED
    BY <1>2, <1>3, <1>4

\* The steps of a call up to the report; without a package a call knows that
\* the package has been reported, because it was kept until then.
LEMMA CallKeeps ==
    ASSUME KeptInv, NEW k \in calls,
           \/ Read(k) \/ Check(k) \/ Send(k) \/ Report(k) \/ Fails(k)
           \/ \E c \in k.left : SendOne(k, c)
    PROVE  KeptInv'
<1>1. KnownReported /\ Shape
    BY DEF KeptInv
<1>2. /\ k \in Call /\ k.package \in Packages /\ k.left \in SUBSET Contacts
      /\ stored[k.package].contacts \in SUBSET Contacts
      /\ reported \subseteq Packages
      /\ message \in [Packages -> [at : Place, attempt : Nat]]
    BY OfCall
<1>3. ASSUME Read(k) PROVE KeptInv'
    <2>0. UNCHANGED <<stored, reported>>
        BY <1>3 DEF Read
    <2>1. CASE Answer(k, TRUE)
        BY <1>1, <1>2, <2>0, <2>1, AnswerKnown, StoredStays
    <2>2. CASE UNCHANGED message /\ Goes(k, "check", stored[k.package].contacts)
        <3>1. calls' \subseteq Call /\ KnownReported'
            BY <1>1, <1>2, <2>0, <2>2, GoesKnown DEF Step
        <3> QED
            BY <1>2, <2>0, <2>2, <3>1, StoredStays
    <2>3. CASE UNCHANGED message /\ Goes(k, "send", stored[k.package].contacts)
        <3>1. calls' \subseteq Call /\ KnownReported'
            BY <1>1, <1>2, <2>0, <2>3, GoesKnown DEF Step
        <3> QED
            BY <1>2, <2>0, <2>3, <3>1, StoredStays
    <2>4. CASE stored[k.package].key # "set" /\ UNCHANGED message /\ Goes(k, "void", {})
        <3>1. k.package \in reported
            BY <1>2, <2>4 DEF KeptInv, KeptUntilReported
        <3>2. calls' \subseteq Call /\ KnownReported'
            BY <1>1, <1>2, <2>0, <2>4, <3>1, GoesKnown DEF Step
        <3> QED
            BY <1>2, <2>0, <2>4, <3>2, StoredStays
    <2> QED
        BY <1>3, <2>1, <2>2, <2>3, <2>4 DEF Read
<1>4. ASSUME Check(k) PROVE KeptInv'
    <2> DEFINE free == {c \in k.left : Counted(c) < Limit}
    <2>1. free \in SUBSET Contacts
        BY <1>2
    <2>2. UNCHANGED <<stored, reported, message>>
        BY <1>4 DEF Check
    <2>3. PICK step \in {"report", "send"} : Goes(k, step, free)
        BY <1>4 DEF Check
    <2> HIDE DEF free
    <2>4. calls' \subseteq Call /\ KnownReported'
        BY <1>1, <2>1, <2>2, <2>3, GoesKnown DEF Step
    <2> QED
        BY <1>2, <2>2, <2>4, StoredStays
<1>5. ASSUME Send(k) PROVE KeptInv'
    <2>1. UNCHANGED <<stored, reported, message>> /\ Goes(k, "report", k.left)
        BY <1>5 DEF Send
    <2>2. calls' \subseteq Call /\ KnownReported'
        BY <1>1, <1>2, <2>1, GoesKnown DEF Step
    <2> QED
        BY <1>2, <2>1, <2>2, StoredStays
<1>6. ASSUME NEW c \in k.left, SendOne(k, c) PROVE KeptInv'
    <2> DEFINE left == k.left \ {c}
    <2>1. left \in SUBSET Contacts
        BY <1>2
    <2>2. UNCHANGED <<stored, reported, message>>
        BY <1>6 DEF SendOne
    <2>3. PICK step \in {"report", "send"} : Goes(k, step, left)
        BY <1>6 DEF SendOne
    <2> HIDE DEF left
    <2>4. calls' \subseteq Call /\ KnownReported'
        BY <1>1, <2>1, <2>2, <2>3, GoesKnown DEF Step
    <2> QED
        BY <1>2, <2>2, <2>4, StoredStays
<1>7. ASSUME Report(k) PROVE KeptInv'
    <2>1. /\ UNCHANGED stored /\ reported \subseteq reported' /\ reported' \subseteq Packages
          /\ k.package \in reported'
        BY <1>2, <1>7 DEF Report
    <2>2. CASE Goes(k, "clean", k.left) /\ UNCHANGED message
        <3>1. calls' \subseteq Call /\ KnownReported'
            BY <1>1, <1>2, <2>1, <2>2, GoesKnown DEF Step
        <3> QED
            BY <1>2, <2>1, <2>2, <3>1, StoredStays
    <2>3. CASE Answer(k, TRUE)
        BY <1>1, <1>2, <2>1, <2>3, AnswerKnown, StoredStays
    <2> QED
        BY <1>7, <2>2, <2>3 DEF Report
<1>8. ASSUME Fails(k) PROVE KeptInv'
    <2>1. UNCHANGED <<stored, reported>>
        BY <1>8 DEF Fails
    <2>2. CASE Goes(k, "error", k.left) /\ UNCHANGED message
        <3>1. calls' \subseteq Call /\ KnownReported'
            BY <1>1, <1>2, <2>1, <2>2, GoesKnown DEF Step
        <3> QED
            BY <1>2, <2>1, <2>2, <3>1, StoredStays
    <2>3. CASE Answer(k, FALSE) \/ Answer(k, TRUE)
        BY <1>1, <1>2, <2>1, <2>3, AnswerKnown, StoredStays
    <2> QED
        BY <1>8, <2>2, <2>3 DEF Fails
<1> QED
    BY <1>3, <1>4, <1>5, <1>6, <1>7, <1>8

\* The two steps that write Redis: both may replace the package only when it
\* has been reported, or put it back.
LEMMA WriteKeeps ==
    ASSUME KeptInv, NEW k \in calls, Clean(k) \/ PutBack(k)
    PROVE  KeptInv'
<1>1. /\ k \in Call /\ k.package \in Packages /\ k.left \in SUBSET Contacts
      /\ reported \subseteq Packages
    BY OfCall
<1>2. Shape /\ KnownReported /\ KeptUntilReported
    BY DEF KeptInv
<1>3. UNCHANGED reported /\ \E ok \in BOOLEAN : Answer(k, ok)
    BY DEF Clean, PutBack
<1>4. /\ message' \in [Packages -> [at : Place, attempt : Nat]]
      /\ calls' \subseteq Call /\ KnownReported'
    BY <1>2, <1>3, AnswerKnown
<1>5. CASE UNCHANGED stored
    BY <1>1, <1>3, <1>4, <1>5, StoredStays
<1>6. CASE stored' # stored
    <2>1. PICK new \in [key : Key, contacts : SUBSET Contacts] :
              /\ stored' = [stored EXCEPT ![k.package] = new]
              /\ new.key = "set" \/ k.at \in {"clean", "void"}
        <3>1. CASE Clean(k)
            <4> DEFINE gone == [key |-> "gone", contacts |-> {}]
            <4>1. gone \in [key : Key, contacts : SUBSET Contacts]
                BY DEF Key
            <4> QED
                BY <3>1, <4>1 DEF Clean, At
        <3>2. CASE PutBack(k)
            <4> DEFINE back == [key |-> IF k.at = "void" THEN "null" ELSE "set", contacts |-> k.left]
            <4>1. back \in [key : Key, contacts : SUBSET Contacts]
                BY <1>1 DEF Key
            <4>2. stored' = [stored EXCEPT ![k.package] = back] /\ k.at \in {"error", "void"}
                BY <1>6, <3>2 DEF PutBack
            <4> QED
                BY <4>1, <4>2
        <3> QED
            BY <3>1, <3>2
    <2>2. stored \in [Packages -> [key : Key, contacts : SUBSET Contacts]]
        BY <1>2 DEF Shape
    <2>3. Shape'
        BY <1>1, <1>3, <1>4, <2>1, <2>2 DEF Shape
    <2>4. k.at \in {"clean", "void"} => k.package \in reported
        BY <1>2 DEF KnownReported
    <2>5. ASSUME NEW p \in Packages PROVE stored'[p].key = "set" \/ p \in reported
        <3>1. CASE p = k.package
            BY <1>1, <2>1, <2>2, <2>4, <3>1
        <3>2. CASE p # k.package
            BY <1>2, <2>1, <2>2, <3>2 DEF KeptUntilReported
        <3> QED
            BY <3>1, <3>2
    <2>6. KeptUntilReported'
        BY <1>3, <2>5 DEF KeptUntilReported
    <2> QED
        BY <1>4, <2>3, <2>6 DEF KeptInv
<1> QED
    BY <1>5, <1>6

\* Every step keeps the invariant.
LEMMA KeptNext == KeptInv /\ [Next]_vars => KeptInv'
<1> SUFFICES ASSUME KeptInv, [Next]_vars PROVE KeptInv'
    OBVIOUS
<1>1. CASE Working
    BY <1>1, BridgeKeeps, CallKeeps, WriteKeeps DEF Working, Work
<1>2. CASE UNCHANGED <<message, stored, calls, reported>>
    BY <1>2 DEF KeptInv, Shape, KnownReported, KeptUntilReported
<1>3. CASE Trouble
    BY <1>2, <1>3, BridgeKeeps, CallKeeps DEF Trouble, CountFails
<1> QED
    BY <1>1, <1>2, <1>3 DEF Next, Count, CountStep, vars

\* A package stays under its key until it has been reported as sent
\* (BatchController.campaigns deletes the key last, and its catch puts it back).
THEOREM KeptUntilReportedAlways == Spec => []KeptUntilReported
<1>1. KeptInv => KeptUntilReported
    BY DEF KeptInv
<1> QED
    BY KeptInit, KeptNext, <1>1, PTL DEF Spec
(***************************************************************************)
(* A contact gets a package once for every time it is handed out.  Of the  *)
(* calls that still may mail the contact, and of a message that waits in   *)
(* the queue, each stands for one of those times; the trouble counts them. *)
(***************************************************************************)

\* The call may still mail the contact.
MaySend(k, c) == k.at = "read" \/ (k.at \in {"check", "send"} /\ c \in k.left)

Open(p, c) == {k \in calls : k.package = p /\ MaySend(k, c)}
Waiting(p) == IF message[p].at = "queue" THEN 1 ELSE 0

Tallies ==
    /\ mails \in [Packages -> [Contacts -> Nat]]
    /\ trouble \in [Packages -> Nat]
    /\ IsFiniteSet(calls)

OnceInv ==
    /\ KeptInv /\ Tallies
    /\ \A p \in Packages, c \in Contacts :
          mails[p][c] + Cardinality(Open(p, c)) + Waiting(p) <= 1 + trouble[p]

\* A step gives no contact more than it takes from what stands for it.
Balance(p, c) ==
    mails'[p][c] + Cardinality(Open(p, c)') + Waiting(p)' + trouble[p]
        <= mails[p][c] + Cardinality(Open(p, c)) + Waiting(p) + trouble'[p]

InBalance == Tallies' /\ \A p \in Packages, c \in Contacts : Balance(p, c)

\* The numbers that the balance is about.
NumbersAre ==
    \A p \in Packages, c \in Contacts :
       /\ mails[p][c] \in Nat /\ Cardinality(Open(p, c)) \in Nat
       /\ Waiting(p) \in {0, 1} /\ trouble[p] \in Nat
       /\ IsFiniteSet(Open(p, c))

\* They are numbers.
LEMMA Numbers == Tallies => NumbersAre
<1> SUFFICES ASSUME Tallies, NEW p \in Packages, NEW c \in Contacts
             PROVE  /\ mails[p][c] \in Nat /\ Cardinality(Open(p, c)) \in Nat
                    /\ Waiting(p) \in {0, 1} /\ trouble[p] \in Nat
                    /\ IsFiniteSet(Open(p, c))
    BY DEF NumbersAre
<1>1. IsFiniteSet(Open(p, c)) /\ Cardinality(Open(p, c)) \in Nat
    BY FS_Subset, FS_CardinalityType DEF Open, Tallies
<1>2. mails[p][c] \in Nat /\ trouble[p] \in Nat
    BY DEF Tallies
<1> QED
    BY <1>1, <1>2 DEF Waiting

\* In a set of as many or fewer there are no more, and with one taken away fewer.
LEMMA Fewer ==
    ASSUME NEW S, IsFiniteSet(S), NEW T
    PROVE  /\ T \subseteq S =>
                 Cardinality(T) \in Nat /\ Cardinality(T) <= Cardinality(S)
           /\ \A x : T \subseteq S \cup {x} =>
                 Cardinality(T) \in Nat /\ Cardinality(T) <= Cardinality(S) + 1
           /\ \A k \in S : T \subseteq S \ {k} =>
                 Cardinality(T) \in Nat /\ Cardinality(T) + 1 <= Cardinality(S)
           /\ \A k \in S : \A x : T \subseteq (S \ {k}) \cup {x} =>
                 Cardinality(T) \in Nat /\ Cardinality(T) <= Cardinality(S)
<1>1. Cardinality(S) \in Nat
    BY FS_CardinalityType
<1>2. ASSUME NEW R, IsFiniteSet(R), T \subseteq R
      PROVE  Cardinality(T) \in Nat /\ Cardinality(T) <= Cardinality(R)
    BY <1>2, FS_Subset, FS_CardinalityType
<1>3. ASSUME NEW x
      PROVE  IsFiniteSet(S \cup {x}) /\ Cardinality(S \cup {x}) <= Cardinality(S) + 1
             /\ Cardinality(S \cup {x}) \in Nat
    BY <1>1, FS_AddElement
<1>4. ASSUME NEW k \in S
      PROVE  IsFiniteSet(S \ {k}) /\ Cardinality(S \ {k}) + 1 = Cardinality(S)
             /\ Cardinality(S \ {k}) \in Nat
    <2>1. IsFiniteSet(S \ {k}) /\ Cardinality(S \ {k}) = Cardinality(S) - 1
        BY FS_RemoveElement
    <2>2. Cardinality(S \ {k}) \in Nat
        BY <2>1, FS_CardinalityType
    <2> QED
        BY <1>1, <2>1, <2>2
<1>5. ASSUME NEW k \in S, NEW x
      PROVE  IsFiniteSet((S \ {k}) \cup {x}) /\ Cardinality((S \ {k}) \cup {x}) <= Cardinality(S)
             /\ Cardinality((S \ {k}) \cup {x}) \in Nat
    <2> DEFINE R == S \ {k}
    <2>1. IsFiniteSet(R) /\ Cardinality(R) + 1 = Cardinality(S) /\ Cardinality(R) \in Nat
        BY <1>4
    <2> HIDE DEF R
    <2>2. IsFiniteSet(R \cup {x}) /\ Cardinality(R \cup {x}) <= Cardinality(R) + 1
        <3>1. /\ IsFiniteSet(R \cup {x})
              /\ Cardinality(R \cup {x}) = IF x \in R THEN Cardinality(R) ELSE Cardinality(R) + 1
            BY <2>1, FS_AddElement
        <3> QED
            BY <2>1, <3>1
    <2>3. Cardinality(R \cup {x}) \in Nat
        BY <2>2, FS_CardinalityType
    <2>4. IsFiniteSet(R \cup {x}) /\ Cardinality(R \cup {x}) <= Cardinality(S)
        BY <1>1, <2>1, <2>2, <2>3
    <2> QED
        BY <2>3, <2>4 DEF R
<1>6. T \subseteq S => Cardinality(T) \in Nat /\ Cardinality(T) <= Cardinality(S)
    BY <1>2
<1>7. ASSUME NEW x, T \subseteq S \cup {x}
      PROVE  Cardinality(T) \in Nat /\ Cardinality(T) <= Cardinality(S) + 1
    <2> DEFINE R == S \cup {x}
    <2>1. IsFiniteSet(R) /\ Cardinality(R) <= Cardinality(S) + 1 /\ Cardinality(R) \in Nat
        BY <1>3
    <2>2. T \subseteq R
        BY <1>7
    <2> HIDE DEF R
    <2>3. Cardinality(T) \in Nat /\ Cardinality(T) <= Cardinality(R)
        BY <1>2, <2>1, <2>2
    <2> QED
        BY <1>1, <2>1, <2>3
<1>8. ASSUME NEW k \in S, T \subseteq S \ {k}
      PROVE  Cardinality(T) \in Nat /\ Cardinality(T) + 1 <= Cardinality(S)
    <2> DEFINE R == S \ {k}
    <2>1. IsFiniteSet(R) /\ Cardinality(R) + 1 = Cardinality(S) /\ Cardinality(R) \in Nat
        BY <1>4
    <2>2. T \subseteq R
        BY <1>8
    <2> HIDE DEF R
    <2>3. Cardinality(T) \in Nat /\ Cardinality(T) <= Cardinality(R)
        BY <1>2, <2>1, <2>2
    <2> QED
        BY <1>1, <2>1, <2>3
<1>9. ASSUME NEW k \in S, NEW x, T \subseteq (S \ {k}) \cup {x}
      PROVE  Cardinality(T) \in Nat /\ Cardinality(T) <= Cardinality(S)
    <2> DEFINE R == (S \ {k}) \cup {x}
    <2>1. IsFiniteSet(R) /\ Cardinality(R) <= Cardinality(S) /\ Cardinality(R) \in Nat
        BY <1>5
    <2>2. T \subseteq R
        BY <1>9
    <2> HIDE DEF R
    <2>3. Cardinality(T) \in Nat /\ Cardinality(T) <= Cardinality(R)
        BY <1>2, <2>1, <2>2
    <2> QED
        BY <1>1, <2>1, <2>3
<1> QED
    BY <1>6, <1>7, <1>8, <1>9

\* A step in balance keeps the bound.
LEMMA OnceKept ==
    ASSUME OnceInv, KeptInv', Tallies',
           \A p \in Packages, c \in Contacts : Balance(p, c)
    PROVE  OnceInv'
<1>1. ASSUME NEW p \in Packages, NEW c \in Contacts
      PROVE  (mails[p][c] + Cardinality(Open(p, c)) + Waiting(p) <= 1 + trouble[p])'
    <2>1. NumbersAre
        BY Numbers DEF OnceInv
    <2>2. NumbersAre'
        <3>1. (Tallies => NumbersAre)'
            BY Numbers, PTL
        <3> QED
            BY <3>1
    <2>3. mails[p][c] + Cardinality(Open(p, c)) + Waiting(p) <= 1 + trouble[p]
        BY DEF OnceInv
    <2> QED
        BY <2>1, <2>2, <2>3 DEF Balance, NumbersAre
<1> QED
    BY <1>1 DEF OnceInv

\* The balance of a step of the call k that goes on.
LEMMA GoesBalance ==
    ASSUME OnceInv, NEW k \in calls, NEW step \in Step \ {"read"}, NEW left \in SUBSET Contacts,
           Goes(k, step, left), UNCHANGED <<message, trouble>>,
           NEW p \in Packages, NEW c \in Contacts, mails'[p][c] \in Nat,
           \/ /\ mails'[p][c] = mails[p][c]
              /\ k.package = p /\ step \in {"check", "send"} /\ c \in left => MaySend(k, c)
           \/ /\ mails'[p][c] <= mails[p][c] + 1 /\ k.package = p /\ MaySend(k, c)
              /\ ~(step \in {"check", "send"} /\ c \in left)
    PROVE  Balance(p, c)
<1> DEFINE new == [k EXCEPT !.at = step, !.left = left]
<1>1. k \in Call /\ NumbersAre /\ IsFiniteSet(calls)
    BY Numbers DEF OnceInv, KeptInv, Shape, Tallies
<1>2. new.package = k.package /\ new.at = step /\ new.left = left
    BY <1>1 DEF Call
<1>3. calls' = (calls \ {k}) \cup {new}
    BY DEF Goes
<1> HIDE DEF new
<1>5. Waiting(p)' = Waiting(p) /\ trouble'[p] = trouble[p]
    BY DEF Waiting
<1>6. MaySend(new, c) <=> step \in {"check", "send"} /\ c \in left
    BY <1>2 DEF MaySend
<1>7. Open(p, c)' \subseteq (Open(p, c) \ {k}) \cup {new}
    BY <1>3 DEF Open, MaySend
<1>8. k.package # p \/ ~MaySend(new, c) => Open(p, c)' \subseteq Open(p, c) \ {k}
    BY <1>2, <1>3 DEF Open, MaySend
<1>9. k.package = p /\ MaySend(k, c) => k \in Open(p, c)
    BY DEF Open
<1>10. CASE /\ mails'[p][c] = mails[p][c]
            /\ k.package = p /\ step \in {"check", "send"} /\ c \in left => MaySend(k, c)
    <2>1. Cardinality(Open(p, c)') \in Nat /\ Cardinality(Open(p, c)') <= Cardinality(Open(p, c))
        <3>1. CASE k \in Open(p, c)
            BY <1>1, <1>7, <3>1, Fewer DEF NumbersAre
        <3>2. CASE k \notin Open(p, c)
            <4>1. Open(p, c)' \subseteq Open(p, c)
                BY <1>6, <1>8, <1>9, <1>10, <3>2
            <4> QED
                BY <1>1, <4>1, Fewer DEF NumbersAre
        <3> QED
            BY <3>1, <3>2
    <2> QED
        BY <1>1, <1>5, <1>10, <2>1 DEF Balance, NumbersAre
<1>11. CASE /\ mails'[p][c] <= mails[p][c] + 1 /\ k.package = p /\ MaySend(k, c)
            /\ ~(step \in {"check", "send"} /\ c \in left)
    <2>1. k \in Open(p, c) /\ Open(p, c)' \subseteq Open(p, c) \ {k}
        BY <1>6, <1>8, <1>9, <1>11
    <2>2. Cardinality(Open(p, c)') \in Nat /\ Cardinality(Open(p, c)') + 1 <= Cardinality(Open(p, c))
        BY <1>1, <2>1, Fewer DEF NumbersAre
    <2> QED
        BY <1>1, <1>5, <1>11, <2>2 DEF Balance, NumbersAre
<1> QED
    BY <1>10, <1>11

\* The message of an answered call is handed out again, if at all, with its trouble.
LEMMA AnswerBalance ==
    ASSUME OnceInv, NEW k \in calls, NEW ok \in BOOLEAN, Answer(k, ok), UNCHANGED mails
    PROVE  InBalance
<1>1. /\ k.package \in Packages /\ NumbersAre /\ Tallies
      /\ message \in [Packages -> [at : Place, attempt : Nat]]
    BY Numbers DEF OnceInv, KeptInv, Shape, Call
<1>2. calls' = calls \ {k} /\ IsFiniteSet(calls')
    BY <1>1, FS_RemoveElement DEF Answer, Tallies
<1>3. trouble' \in [Packages -> Nat]
    BY <1>1 DEF Answer, Tallies
<1>4. Tallies'
    BY <1>1, <1>2, <1>3 DEF Tallies
<1>5. ASSUME NEW p \in Packages, NEW c \in Contacts PROVE Balance(p, c)
    <2>1. Open(p, c)' \subseteq Open(p, c)
        BY <1>2 DEF Open, MaySend
    <2>2. Cardinality(Open(p, c)') \in Nat /\ Cardinality(Open(p, c)') <= Cardinality(Open(p, c))
        BY <1>1, <2>1, Fewer DEF NumbersAre
    <2>3. Waiting(p)' \in {0, 1} /\ Waiting(p)' + trouble[p] <= Waiting(p) + trouble'[p]
        <3>1. CASE p # k.package \/ ~Awaited(k)
            <4>1. message'[p] = message[p] /\ trouble'[p] = trouble[p]
                BY <1>1, <3>1 DEF Answer, Tallies
            <4> QED
                BY <1>1, <4>1 DEF Waiting, NumbersAre
        <3>2. CASE p = k.package /\ Awaited(k) /\ ok
            <4>1. message'[p].at = "acked" /\ trouble'[p] = trouble[p]
                BY <1>1, <3>2 DEF Answer, Tallies
            <4> QED
                BY <1>1, <4>1 DEF Waiting, NumbersAre
        <3>3. CASE p = k.package /\ Awaited(k) /\ ~ok
            <4>1. trouble'[p] = trouble[p] + 1
                BY <1>1, <3>3 DEF Answer, Tallies
            <4> QED
                BY <1>1, <4>1 DEF Waiting, NumbersAre
        <3> QED
            BY <3>1, <3>2, <3>3
    <2>4. /\ mails'[p][c] = mails[p][c] /\ mails[p][c] \in Nat
          /\ Cardinality(Open(p, c)) \in Nat /\ Waiting(p) \in {0, 1}
          /\ trouble[p] \in Nat /\ trouble'[p] \in Nat
        BY <1>1, <1>3 DEF NumbersAre
    <2> QED
        BY <2>2, <2>3, <2>4 DEF Balance
<1> QED
    BY <1>4, <1>5 DEF InBalance
\* The steps of the bridge: a delivery turns a waiting message into a call, and what
\* puts a message back into the queue is trouble.
LEMMA BridgeBalance ==
    ASSUME OnceInv, \/ \E p \in Packages : Deliver(p) \/ TimesOut(p)
                    \/ \E ch \in {"email", "whatsapp"} : Crash(ch)
    PROVE  InBalance
<1>1. /\ NumbersAre /\ Tallies /\ message \in [Packages -> [at : Place, attempt : Nat]]
      /\ UNCHANGED mails
    BY Numbers DEF OnceInv, KeptInv, Shape, Deliver, TimesOut, Crash, got
<1>2. ASSUME Tallies', NEW p \in Packages, NEW c \in Contacts
      PROVE  /\ mails'[p][c] = mails[p][c] /\ mails[p][c] \in Nat
             /\ Cardinality(Open(p, c)) \in Nat /\ Waiting(p) \in {0, 1}
             /\ trouble[p] \in Nat /\ trouble'[p] \in Nat /\ IsFiniteSet(Open(p, c))
             /\ Waiting(p)' \in {0, 1}
    BY <1>1, <1>2 DEF NumbersAre, Tallies, Waiting
<1>3. ASSUME Tallies', NEW p \in Packages, NEW c \in Contacts, Open(p, c)' \subseteq Open(p, c),
             \/ Waiting(p)' <= Waiting(p) /\ trouble'[p] = trouble[p]
             \/ Waiting(p) = 0 /\ trouble'[p] = trouble[p] + 1
      PROVE  Balance(p, c)
    <2>1. Cardinality(Open(p, c)') \in Nat /\ Cardinality(Open(p, c)') <= Cardinality(Open(p, c))
        BY <1>2, <1>3, Fewer
    <2> QED
        BY <1>2, <1>3, <2>1 DEF Balance
<1>4. ASSUME NEW q \in Packages, Deliver(q) PROVE InBalance
    <2>1. PICK new : calls' = calls \cup {new} /\ new.package = q
        <3> DEFINE n == [package |-> q, attempt |-> message[q].attempt, at |-> "read", left |-> {}]
        <3>1. calls' = calls \cup {n}
            BY <1>4 DEF Deliver
        <3>2. n.package = q
            OBVIOUS
        <3> HIDE DEF n
        <3> QED
            BY <3>1, <3>2
    <2>2. /\ message[q].at = "queue" /\ message' = [message EXCEPT ![q].at = "bridge"]
          /\ trouble' = trouble
        BY <1>4 DEF Deliver
    <2>3. Tallies'
        BY <1>1, <2>1, <2>2, FS_AddElement DEF Tallies
    <2>4. ASSUME NEW p \in Packages, NEW c \in Contacts PROVE Balance(p, c)
        <3>1. CASE p = q
            <4>1. Open(p, c)' \subseteq Open(p, c) \cup {new}
                BY <2>1 DEF Open, MaySend
            <4>2. /\ Cardinality(Open(p, c)') \in Nat
                  /\ Cardinality(Open(p, c)') <= Cardinality(Open(p, c)) + 1
                BY <1>2, <2>3, <4>1, Fewer
            <4>3. Waiting(p) = 1 /\ Waiting(p)' = 0
                BY <1>1, <2>2, <3>1 DEF Waiting
            <4> QED
                BY <1>2, <2>2, <2>3, <4>2, <4>3 DEF Balance
        <3>2. CASE p # q
            <4>1. Open(p, c)' \subseteq Open(p, c)
                BY <2>1, <3>2 DEF Open, MaySend
            <4>2. Waiting(p)' = Waiting(p)
                BY <1>1, <2>2, <3>2 DEF Waiting
            <4> QED
                BY <1>2, <1>3, <2>2, <2>3, <4>1, <4>2
        <3> QED
            BY <3>1, <3>2
    <2> QED
        BY <2>3, <2>4 DEF InBalance
<1>5. ASSUME NEW q \in Packages, TimesOut(q) PROVE InBalance
    <2>1. /\ message[q].at = "bridge" /\ message' = [message EXCEPT ![q] = Nacked(@)]
          /\ trouble' = [trouble EXCEPT ![q] = @ + 1] /\ calls' = calls
        BY <1>5 DEF TimesOut
    <2>2. Tallies'
        BY <1>1, <2>1 DEF Tallies
    <2>3. ASSUME NEW p \in Packages, NEW c \in Contacts PROVE Balance(p, c)
        <3>1. Open(p, c)' \subseteq Open(p, c)
            BY <2>1 DEF Open, MaySend
        <3>2. CASE p = q
            <4>1. Waiting(p) = 0 /\ trouble'[p] = trouble[p] + 1
                BY <1>1, <2>1, <3>2 DEF Waiting, Tallies
            <4> QED
                BY <1>3, <2>2, <3>1, <4>1
        <3>3. CASE p # q
            <4>1. Waiting(p)' = Waiting(p) /\ trouble'[p] = trouble[p]
                BY <1>1, <2>1, <3>3 DEF Waiting, Tallies
            <4> QED
                BY <1>2, <1>3, <2>2, <3>1, <4>1
        <3> QED
            BY <3>2, <3>3
    <2> QED
        BY <2>2, <2>3 DEF InBalance
<1>6. ASSUME NEW ch \in {"email", "whatsapp"}, Crash(ch) PROVE InBalance
    <2> DEFINE back == {p \in Packages : campaign.channel[p] = ch /\ message[p].at = "bridge"}
    <2>1. /\ message' = [p \in Packages |-> IF p \in back THEN [message[p] EXCEPT !.at = "queue"]
                                           ELSE message[p]]
          /\ trouble' = [p \in Packages |-> IF p \in back THEN trouble[p] + 1 ELSE trouble[p]]
          /\ calls' \subseteq calls
        BY <1>6 DEF Crash
    <2>2. back \subseteq Packages /\ \A p \in back : Waiting(p) = 0
        BY DEF Waiting
    <2> HIDE DEF back
    <2>3. Tallies'
        <3>1. trouble' \in [Packages -> Nat]
            BY <1>1, <2>1 DEF Tallies
        <3> QED
            BY <1>1, <2>1, <3>1, FS_Subset DEF Tallies
    <2>4. ASSUME NEW p \in Packages, NEW c \in Contacts PROVE Balance(p, c)
        <3>1. Open(p, c)' \subseteq Open(p, c)
            BY <2>1 DEF Open, MaySend
        <3>2. CASE p \in back
            <4>1. trouble'[p] = trouble[p] + 1
                BY <2>1, <3>2
            <4> QED
                BY <1>3, <2>2, <2>3, <3>1, <3>2, <4>1
        <3>3. CASE p \notin back
            <4>1. message'[p] = message[p] /\ trouble'[p] = trouble[p]
                BY <2>1, <3>3
            <4>2. Waiting(p)' = Waiting(p)
                BY <4>1 DEF Waiting
            <4> QED
                BY <1>2, <1>3, <2>3, <3>1, <4>1, <4>2
        <3> QED
            BY <3>2, <3>3
    <2> QED
        BY <2>3, <2>4 DEF InBalance
<1> QED
    BY <1>4, <1>5, <1>6
\* A call that goes on leaves finitely many, and the types of the tallies.
LEMMA GoesTallies ==
    ASSUME Tallies, NEW k \in calls, NEW step, NEW left, Goes(k, step, left), UNCHANGED trouble,
           mails' \in [Packages -> [Contacts -> Nat]]
    PROVE  Tallies'
<1>1. IsFiniteSet(calls')
    BY FS_AddElement, FS_RemoveElement DEF Goes, Tallies
<1> QED
    BY <1>1 DEF Tallies

\* A call that goes on without a mail.
LEMMA GoesInBalance ==
    ASSUME OnceInv, NEW k \in calls, NEW step \in Step \ {"read"}, NEW left \in SUBSET Contacts,
           Goes(k, step, left), UNCHANGED <<message, trouble, mails>>,
           \A c \in left : step \in {"check", "send"} => MaySend(k, c)
    PROVE  InBalance
<1>1. Tallies /\ NumbersAre
    BY Numbers DEF OnceInv
<1>2. Tallies'
    BY <1>1, GoesTallies DEF Tallies
<1>3. ASSUME NEW p \in Packages, NEW c \in Contacts PROVE Balance(p, c)
    <2>1. mails'[p][c] = mails[p][c] /\ mails'[p][c] \in Nat
        BY <1>1 DEF NumbersAre
    <2> QED
        BY <2>1, GoesBalance
<1> QED
    BY <1>2, <1>3 DEF InBalance

\* The steps of a call: a mail goes to a contact that the call may mail, and then may not.
LEMMA CallBalance ==
    ASSUME OnceInv, NEW k \in calls,
           \/ Read(k) \/ Check(k) \/ Send(k) \/ Report(k) \/ Fails(k) \/ Clean(k) \/ PutBack(k)
           \/ \E c \in k.left : SendOne(k, c)
    PROVE  InBalance
<1>1. /\ k \in Call /\ k.package \in Packages /\ k.left \in SUBSET Contacts
      /\ stored[k.package].contacts \in SUBSET Contacts
    BY OfCall DEF OnceInv
<1>2. Tallies /\ NumbersAre
    BY Numbers DEF OnceInv
<1>3. CASE Read(k)
    <2>1. UNCHANGED mails /\ k.at = "read"
        BY <1>3 DEF Read, At, got
    <2>2. \A c : MaySend(k, c)
        BY <2>1 DEF MaySend
    <2>3. CASE Answer(k, TRUE)
        BY <2>1, <2>3, AnswerBalance
    <2>4. CASE /\ UNCHANGED <<message, trouble>>
               /\ \E step \in {"check", "send", "void"}, left \in {{}, stored[k.package].contacts} :
                    Goes(k, step, left)
        BY <1>1, <2>1, <2>2, <2>4, GoesInBalance DEF Step
    <2> QED
        BY <1>3, <2>3, <2>4 DEF Read
<1>4. CASE Check(k)
    <2> DEFINE free == {c \in k.left : Counted(c) < Limit}
    <2>1. free \in SUBSET Contacts /\ \A c \in free : c \in k.left
        BY <1>1
    <2>2. UNCHANGED <<message, trouble, mails>> /\ k.at = "check"
        BY <1>4 DEF Check, At, got
    <2>3. PICK step \in {"report", "send"} : Goes(k, step, free)
        BY <1>4 DEF Check
    <2> HIDE DEF free
    <2>4. \A c \in free : MaySend(k, c)
        BY <2>1, <2>2 DEF MaySend
    <2> QED
        BY <2>1, <2>2, <2>3, <2>4, GoesInBalance DEF Step
<1>5. CASE Send(k)
    <2>1. /\ UNCHANGED <<message, trouble>> /\ k.at = "send" /\ Goes(k, "report", k.left)
          /\ mails' = [mails EXCEPT ![k.package] =
                         [c \in Contacts |-> mails[k.package][c] + IF c \in k.left THEN 1 ELSE 0]]
        BY <1>5 DEF Send, At
    <2>2. \A p \in Packages, c \in Contacts :
             mails'[p][c] = IF p = k.package /\ c \in k.left THEN mails[p][c] + 1 ELSE mails[p][c]
        BY <1>1, <1>2, <2>1 DEF Tallies, NumbersAre
    <2>3. mails' \in [Packages -> [Contacts -> Nat]]
        <3>1. [c \in Contacts |-> mails[k.package][c] + IF c \in k.left THEN 1 ELSE 0]
                 \in [Contacts -> Nat]
            BY <1>1, <1>2 DEF NumbersAre
        <3> QED
            BY <1>2, <2>1, <3>1 DEF Tallies
    <2>4. Tallies'
        BY <1>2, <2>1, <2>3, GoesTallies
    <2>5. ASSUME NEW p \in Packages, NEW c \in Contacts PROVE Balance(p, c)
        <3>1. mails[p][c] \in Nat /\ mails'[p][c] \in Nat
            BY <1>2, <2>3 DEF NumbersAre
        <3>2. CASE p = k.package /\ c \in k.left
            <4>1. mails'[p][c] <= mails[p][c] + 1 /\ MaySend(k, c)
                BY <2>1, <2>2, <3>1, <3>2 DEF MaySend
            <4> QED
                BY <1>1, <2>1, <3>1, <3>2, <4>1, GoesBalance DEF Step
        <3>3. CASE ~(p = k.package /\ c \in k.left)
            <4>1. mails'[p][c] = mails[p][c]
                BY <2>2, <3>3
            <4> QED
                BY <1>1, <2>1, <3>1, <4>1, GoesBalance DEF Step
        <3> QED
            BY <3>2, <3>3
    <2> QED
        BY <2>4, <2>5 DEF InBalance
<1>6. ASSUME NEW x \in k.left, SendOne(k, x) PROVE InBalance
    <2> DEFINE left == k.left \ {x}
    <2>1. left \in SUBSET Contacts /\ x \in Contacts /\ x \notin left /\ \A c \in left : c \in k.left
        BY <1>1
    <2>2. UNCHANGED <<message, trouble>> /\ k.at = "send"
        BY <1>6 DEF SendOne, At
    <2>3. PICK step \in {"report", "send"} : Goes(k, step, left)
        BY <1>6 DEF SendOne
    <2> HIDE DEF left
    <2>4. \A c \in k.left : MaySend(k, c)
        BY <2>2 DEF MaySend
    <2>5. CASE UNCHANGED mails
        BY <2>1, <2>2, <2>3, <2>4, <2>5, GoesInBalance DEF Step
    <2>6. CASE mails' = [mails EXCEPT ![k.package][x] = @ + 1]
        <3>1. \A p \in Packages, c \in Contacts :
                 mails'[p][c] = IF p = k.package /\ c = x THEN mails[p][c] + 1 ELSE mails[p][c]
            BY <1>1, <1>2, <2>1, <2>6 DEF Tallies, NumbersAre
        <3>2. mails' \in [Packages -> [Contacts -> Nat]]
            BY <1>1, <1>2, <2>1, <2>6 DEF Tallies
        <3>3. Tallies'
            BY <1>2, <2>2, <2>3, <3>2, GoesTallies
        <3>4. ASSUME NEW p \in Packages, NEW c \in Contacts PROVE Balance(p, c)
            <4>1. mails[p][c] \in Nat /\ mails'[p][c] \in Nat
                BY <1>2, <3>2 DEF NumbersAre
            <4>2. CASE p = k.package /\ c = x
                <5>1. mails'[p][c] <= mails[p][c] + 1 /\ MaySend(k, c)
                    BY <2>4, <3>1, <4>1, <4>2
                <5> QED
                    BY <2>1, <2>2, <2>3, <4>1, <4>2, <5>1, GoesBalance DEF Step
            <4>3. CASE ~(p = k.package /\ c = x)
                <5>1. mails'[p][c] = mails[p][c]
                    BY <3>1, <4>3
                <5> QED
                    BY <2>1, <2>2, <2>3, <2>4, <4>1, <5>1, GoesBalance DEF Step
            <4> QED
                BY <4>2, <4>3
        <3> QED
            BY <3>3, <3>4 DEF InBalance
    <2> QED
        BY <1>6, <2>5, <2>6 DEF SendOne
<1>7. CASE \/ \E ok \in BOOLEAN : Answer(k, ok) /\ UNCHANGED mails
           \/ \E step \in {"clean", "error"} :
                Goes(k, step, k.left) /\ UNCHANGED <<message, trouble, mails>>
    BY <1>1, <1>7, AnswerBalance, GoesInBalance DEF Step
<1>8. CASE Report(k) \/ Fails(k) \/ Clean(k) \/ PutBack(k)
    BY <1>7, <1>8 DEF Report, Fails, Clean, PutBack, got
<1> QED
    BY <1>3, <1>4, <1>5, <1>6, <1>8

\* In the beginning every message waits, and there is no call.
LEMMA OnceInit == Init => OnceInv
<1> SUFFICES ASSUME Init PROVE OnceInv
    OBVIOUS
<1>1. KeptInv
    BY KeptInit
<1>2. Tallies
    BY FS_EmptySet DEF Init, Tallies
<1>3. ASSUME NEW p \in Packages, NEW c \in Contacts
      PROVE  mails[p][c] + Cardinality(Open(p, c)) + Waiting(p) <= 1 + trouble[p]
    <2>1. Open(p, c) = {}
        BY DEF Init, Open
    <2>2. Cardinality(Open(p, c)) = 0
        BY <2>1, FS_EmptySet
    <2>3. mails[p][c] = 0 /\ trouble[p] = 0 /\ Waiting(p) = 1
        BY DEF Init, Waiting
    <2> QED
        BY <2>2, <2>3
<1> QED
    BY <1>1, <1>2, <1>3 DEF OnceInv

\* Every step keeps the invariant.
LEMMA OnceNext == OnceInv /\ [Next]_vars => OnceInv'
<1> SUFFICES ASSUME OnceInv, [Next]_vars PROVE OnceInv'
    OBVIOUS
<1>1. KeptInv'
    BY KeptNext DEF OnceInv
<1>2. CASE UNCHANGED <<message, calls, mails, trouble>>
    BY <1>1, <1>2 DEF OnceInv, Tallies, Open, MaySend, Waiting
<1>3. CASE \E n \in counting : CountFails(n)
    BY <1>2, <1>3 DEF CountFails, got
<1>4. CASE (Working \/ Trouble) /\ ~\E n \in counting : CountFails(n)
    <2>1. InBalance
        BY <1>4, BridgeBalance, CallBalance DEF Working, Work, Trouble
    <2> QED
        BY <1>1, <2>1, OnceKept DEF InBalance
<1> QED
    BY <1>2, <1>3, <1>4 DEF Next, Count, CountStep, vars, got

\* A contact gets a package at most once for every time its message is handed out:
\* a call that the bridge gave up on, and that goes on by itself, is one of those times.
THEOREM OnceForEveryDelivery == Spec => []OncePerDelivery
<1>1. OnceInv => OncePerDelivery
    <2> SUFFICES ASSUME OnceInv, NEW p \in Packages, NEW c \in Contacts
                 PROVE  mails[p][c] <= 1 + trouble[p]
        BY DEF OncePerDelivery
    <2>1. NumbersAre
        BY Numbers DEF OnceInv
    <2>2. mails[p][c] + Cardinality(Open(p, c)) + Waiting(p) <= 1 + trouble[p]
        BY DEF OnceInv
    <2> QED
        BY <2>1, <2>2 DEF NumbersAre
<1> QED
    BY <1>1, OnceInit, OnceNext, PTL DEF Spec
(***************************************************************************)
(* The daily limit.  While nothing to a contact is checked before it is    *)
(* counted, at most one mail to the contact is about to be sent or is not  *)
(* counted yet, and the counter has all the others.                        *)
(***************************************************************************)

Counter == [package : Packages, attempt : Nat, contact : Contacts, at : {"exists", "set", "incr"}]

\* Calls that are about to mail the contact, and mails that are not counted.
Mailing(c) == {k \in calls : Email(k) /\ k.at = "send" /\ c \in k.left}
NotCounted(c) == {n \in counting : n.contact = c}

InStep(c) ==
    /\ \A j, k \in Mailing(c) : j = k
    /\ \A m, n \in NotCounted(c) : m = n
    /\ Mailing(c) = {} \/ NotCounted(c) = {}
    /\ Mailing(c) # {} => Counted(c) < Limit
    /\ emails[c] = Counted(c) + (IF NotCounted(c) = {} THEN 0 ELSE 1)
    /\ emails[c] <= Limit
    /\ \A n \in NotCounted(c) : n.at = "set" => c \notin DOMAIN count

LimitInv ==
    /\ KeptInv
    /\ counting \subseteq Counter
    /\ count \in [DOMAIN count -> Nat]
    /\ \A n \in counting : n.at = "incr" => n.contact \in DOMAIN count
    /\ emails \in [Contacts -> Nat]
    /\ \A c \in Contacts : c \in missed \/ InStep(c)

\* In the beginning nobody has got a mail.
LEMMA LimitInit == Init => LimitInv
<1> SUFFICES ASSUME Init PROVE LimitInv
    OBVIOUS
<1>1. /\ calls = {} /\ counting = {} /\ count = [c \in {} |-> 0]
      /\ emails = [c \in Contacts |-> 0]
    BY DEF Init, Empty
<1>2. DOMAIN count = {} /\ count \in [DOMAIN count -> Nat]
    BY <1>1
<1>3. ASSUME NEW c \in Contacts PROVE InStep(c)
    <2>1. Mailing(c) = {} /\ NotCounted(c) = {} /\ Counted(c) = 0 /\ emails[c] = 0
        BY <1>1, <1>2 DEF Mailing, NotCounted, Counted
    <2> QED
        BY <2>1, SendBatchAssumption DEF InStep
<1> QED
    BY <1>1, <1>2, <1>3, KeptInit DEF LimitInv

\* The counter of a contact is a number.
LEMMA CountedNumber == LimitInv => \A c : Counted(c) \in Nat
BY DEF LimitInv, Counted

\* A step that mails nobody by mail, and lets nobody be about to.
LEMMA NobodyMailed ==
    ASSUME LimitInv, KeptInv', UNCHANGED <<campaign, emails, count>>,
           counting' \subseteq counting, missed \subseteq missed',
           \A n \in counting : n \in counting' \/ n.contact \in missed',
           \A k \in calls' : Email(k) /\ k.at = "send" => k \in calls
    PROVE  LimitInv'
<1>1. ASSUME NEW c \in Contacts, c \notin missed' PROVE InStep(c)'
    <2>1. InStep(c)
        BY <1>1 DEF LimitInv
    <2>2. NotCounted(c)' = NotCounted(c)
        BY <1>1 DEF NotCounted
    <2>3. Mailing(c)' \subseteq Mailing(c) /\ Counted(c)' = Counted(c)
        BY DEF Mailing, Email, Counted
    <2> QED
        BY <2>1, <2>2, <2>3 DEF InStep
<1> QED
    BY <1>1 DEF LimitInv

\* Who is about to be mailed had room, and nothing uncounted.
LEMMA CheckLimit ==
    ASSUME LimitInv, KeptInv', NEW k \in calls, Check(k)
    PROVE  LimitInv'
<1> DEFINE free == {c \in k.left : Counted(c) < Limit}
<1>1. /\ UNCHANGED <<campaign, emails, count, counting>> /\ k.at = "check"
      /\ missed' = missed \cup (k.left \cap Uncounted(k))
    BY DEF Check, At, got
<1>2. PICK step \in {"report", "send"} : Goes(k, step, free)
    BY DEF Check
<1>3. PICK new : /\ calls' = (calls \ {k}) \cup {new}
                 /\ new.left = free /\ new.package = k.package
    <2> HIDE DEF free
    <2> DEFINE n == [k EXCEPT !.at = step, !.left = free]
    <2>1. calls' = (calls \ {k}) \cup {n}
        BY <1>2 DEF Goes
    <2>2. n.left = free /\ n.package = k.package
        BY DEF LimitInv, KeptInv, Shape, Call
    <2> HIDE DEF n
    <2> QED
        BY <2>1, <2>2
<1>4. free \subseteq k.left /\ \A c \in free : Counted(c) < Limit
    OBVIOUS
<1> HIDE DEF free
<1>5. ASSUME NEW c \in Contacts, c \notin missed' PROVE InStep(c)'
    <2>1. InStep(c)
        BY <1>1, <1>5 DEF LimitInv
    <2>2. NotCounted(c)' = NotCounted(c) /\ Counted(c)' = Counted(c)
        BY <1>1 DEF NotCounted, Counted
    <2>3. CASE c \notin free
        <3>1. Mailing(c)' \subseteq Mailing(c)
            BY <1>1, <1>3, <2>3 DEF Mailing, Email
        <3> QED
            BY <1>1, <2>1, <2>2, <3>1 DEF InStep
    <2>4. CASE c \in free
        <3>1. c \notin Uncounted(k)
            BY <1>1, <1>4, <1>5, <2>4
        <3>2. NotCounted(c) = {}
            BY <3>1 DEF Uncounted, NotCounted
        <3>3. \A j \in calls : j # k /\ Email(j) /\ j.at = "send" => c \notin j.left
            BY <3>1 DEF Uncounted
        <3>4. Mailing(c)' \subseteq {new}
            BY <1>1, <1>3, <3>3 DEF Mailing, Email
        <3> QED
            BY <1>1, <1>4, <2>1, <2>2, <2>4, <3>2, <3>4 DEF InStep
    <2> QED
        BY <2>3, <2>4
<1> QED
    BY <1>1, <1>5 DEF LimitInv

\* The mail goes to those who had room, and is to be counted for each of them.
LEMMA SendLimit ==
    ASSUME LimitInv, KeptInv', NEW k \in calls, Send(k)
    PROVE  LimitInv'
<1> DEFINE mark(c) == [package |-> k.package, attempt |-> k.attempt, contact |-> c, at |-> "exists"]
<1>1. /\ UNCHANGED <<campaign, count, missed>> /\ Email(k) /\ k.at = "send"
      /\ counting' = counting \cup {mark(c) : c \in k.left}
      /\ emails' = [c \in Contacts |-> emails[c] + IF c \in k.left THEN 1 ELSE 0]
      /\ Goes(k, "report", k.left)
    BY DEF Send, At
<1>2. k \in Call /\ k.left \subseteq Contacts /\ k.package \in Packages /\ k.attempt \in Nat
    BY DEF LimitInv, KeptInv, Shape, Call
<1>3. \A c \in Contacts : mark(c) \in Counter /\ mark(c).contact = c /\ mark(c).at = "exists"
    BY <1>2 DEF Counter
<1> HIDE DEF mark
<1>4. /\ counting' \subseteq Counter /\ emails' \in [Contacts -> Nat]
      /\ count' \in [DOMAIN count' -> Nat]
      /\ \A n \in counting' : n.at = "incr" => n.contact \in DOMAIN count'
    BY <1>1, <1>2, <1>3 DEF LimitInv
<1>5. \A j \in calls' : j \in calls \ {k} \/ j.at = "report"
    BY <1>1, <1>2 DEF Goes, Call
<1>6. ASSUME NEW c \in Contacts, c \notin missed' PROVE InStep(c)'
    <2>1. InStep(c) /\ emails[c] \in Nat
        BY <1>1, <1>6 DEF LimitInv
    <2>2. Mailing(c)' \subseteq Mailing(c) \ {k} /\ Counted(c)' = Counted(c)
        BY <1>1, <1>5 DEF Mailing, Email, Counted
    <2>3. CASE c \notin k.left
        <3>1. NotCounted(c)' = NotCounted(c)
            BY <1>1, <1>2, <1>3, <2>3 DEF NotCounted
        <3>2. emails'[c] = emails[c]
            BY <1>1, <2>1, <2>3
        <3> QED
            BY <1>1, <2>1, <2>2, <3>1, <3>2 DEF InStep
    <2>4. CASE c \in k.left
        <3>1. k \in Mailing(c)
            BY <1>1, <2>4 DEF Mailing
        <3>2. NotCounted(c) = {} /\ Counted(c) < Limit /\ emails[c] = Counted(c) /\ Mailing(c)' = {}
            <4>1. NotCounted(c) = {} /\ Counted(c) < Limit /\ Mailing(c)' = {}
                BY <2>1, <2>2, <3>1 DEF InStep
            <4>2. emails[c] = Counted(c) + 0 /\ Counted(c) \in Nat
                BY <2>1, <4>1, CountedNumber DEF InStep
            <4> QED
                BY <4>1, <4>2
        <3>3. NotCounted(c)' = {mark(c)}
            BY <1>1, <1>2, <1>3, <2>4, <3>2 DEF NotCounted
        <3>4. emails'[c] = emails[c] + 1
            BY <1>1, <2>4
        <3>5. emails'[c] <= Limit
            BY <2>1, <3>2, <3>4, SendBatchAssumption
        <3> QED
            BY <1>3, <2>1, <2>2, <3>2, <3>3, <3>4, <3>5 DEF InStep
    <2> QED
        BY <2>3, <2>4
<1> QED
    BY <1>4, <1>6 DEF LimitInv

\* A mail is counted, in two steps, and no other one of its contact meanwhile.
LEMMA CountLimit ==
    ASSUME LimitInv, KeptInv', NEW n \in counting, CountStep(n)
    PROVE  LimitInv'
<1>1. UNCHANGED <<campaign, calls, emails, missed>>
    BY DEF CountStep, got
<1>2. n \in Counter /\ n.contact \in Contacts /\ n \in NotCounted(n.contact)
    BY DEF LimitInv, Counter, NotCounted
<1>3. CASE n.at = "exists"
    <2> DEFINE step == IF n.contact \in DOMAIN count THEN "incr" ELSE "set"
               new == [n EXCEPT !.at = step]
    <2>1. counting' = (counting \ {n}) \cup {new} /\ count' = count
        BY <1>3 DEF CountStep
    <2>2. new \in Counter /\ new.contact = n.contact /\ new.at = step
        BY <1>2 DEF Counter
    <2>3. step = "set" => n.contact \notin DOMAIN count
        OBVIOUS
    <2>4. step = "incr" => n.contact \in DOMAIN count
        OBVIOUS
    <2> HIDE DEF new, step
    <2>5. ASSUME NEW c \in Contacts, c \notin missed' PROVE InStep(c)'
        <3>1. InStep(c)
            BY <1>1, <2>5 DEF LimitInv
        <3>2. Mailing(c)' = Mailing(c) /\ Counted(c)' = Counted(c)
            BY <1>1, <2>1 DEF Mailing, Email, Counted
        <3>3. CASE c # n.contact
            <4>1. NotCounted(c)' = NotCounted(c)
                BY <2>1, <2>2, <3>3 DEF NotCounted
            <4> QED
                BY <1>1, <2>1, <3>1, <3>2, <4>1 DEF InStep
        <3>4. CASE c = n.contact
            <4>1. NotCounted(c) = {n}
                BY <1>2, <3>1, <3>4 DEF InStep
            <4>2. NotCounted(c)' = {new}
                BY <2>1, <2>2, <3>4, <4>1 DEF NotCounted
            <4> QED
                BY <1>1, <2>1, <2>2, <2>3, <2>4, <3>1, <3>2, <3>4, <4>1, <4>2 DEF InStep
        <3> QED
            BY <3>3, <3>4
    <2>6. counting' \subseteq Counter /\ \A m \in counting' : m.at = "incr" => m.contact \in DOMAIN count
        BY <2>1, <2>2, <2>4 DEF LimitInv
    <2> QED
        BY <1>1, <2>1, <2>5, <2>6 DEF LimitInv
<1>4. CASE n.at # "exists"
    <2>1. /\ counting' = counting \ {n}
          /\ count' = [c \in DOMAIN count \cup {n.contact} |->
                           IF c # n.contact THEN count[c]
                           ELSE IF n.at = "set" THEN 1 ELSE count[c] + 1]
        BY <1>4 DEF CountStep
    <2>2. n.at = "set" \/ n.at = "incr"
        BY <1>2, <1>4 DEF Counter
    <2>3. DOMAIN count' = DOMAIN count \cup {n.contact}
        BY <2>1
    <2>4. \A c \in DOMAIN count' : count'[c] = IF c # n.contact THEN count[c]
                                             ELSE IF n.at = "set" THEN 1 ELSE count[c] + 1
        BY <2>1
    <2>5. count \in [DOMAIN count -> Nat] /\ (n.at = "incr" => n.contact \in DOMAIN count)
        BY DEF LimitInv
    <2>6. count' \in [DOMAIN count' -> Nat]
        <3>1. ASSUME NEW c \in DOMAIN count' PROVE count'[c] \in Nat
            <4>1. CASE c # n.contact
                BY <2>3, <2>4, <2>5, <4>1
            <4>2. CASE c = n.contact
                BY <2>2, <2>3, <2>4, <2>5, <4>2
            <4> QED
                BY <4>1, <4>2
        <3> QED
            BY <2>1, <3>1
    <2>7. ASSUME NEW c \in Contacts, c \notin missed' PROVE InStep(c)'
        <3>1. InStep(c) /\ Counted(c) \in Nat
            BY <1>1, <2>7, CountedNumber DEF LimitInv
        <3>2. Mailing(c)' = Mailing(c)
            BY <1>1 DEF Mailing, Email
        <3>3. CASE c # n.contact
            <4>1. NotCounted(c)' = NotCounted(c)
                BY <2>1, <3>3 DEF NotCounted
            <4>2. Counted(c)' = Counted(c) /\ (c \in DOMAIN count' <=> c \in DOMAIN count)
                BY <2>3, <2>4, <3>3 DEF Counted
            <4> QED
                BY <1>1, <3>1, <3>2, <4>1, <4>2 DEF InStep
        <3>4. CASE c = n.contact
            <4>1. NotCounted(c) = {n} /\ NotCounted(c) # {}
                BY <1>2, <3>1, <3>4 DEF InStep
            <4>2. NotCounted(c)' = {}
                BY <2>1, <4>1 DEF NotCounted
            <4>3. Mailing(c) = {} /\ emails[c] = Counted(c) + 1 /\ emails[c] <= Limit
                BY <3>1, <4>1 DEF InStep
            <4>4. Counted(c)' = Counted(c) + 1
                <5>1. c \in DOMAIN count' /\ Counted(c)' = count'[c]
                    BY <2>3, <3>4 DEF Counted
                <5>2. CASE n.at = "set"
                    <6>1. c \notin DOMAIN count
                        BY <3>1, <4>1, <5>2 DEF InStep
                    <6>2. Counted(c) = 0
                        BY <6>1 DEF Counted
                    <6> QED
                        BY <2>4, <3>4, <5>1, <5>2, <6>2
                <5>3. CASE n.at = "incr"
                    <6>1. Counted(c) = count[c]
                        BY <2>5, <3>4, <5>3 DEF Counted
                    <6> QED
                        BY <2>4, <3>4, <5>1, <5>3, <6>1
                <5> QED
                    BY <2>2, <5>2, <5>3
            <4>5. emails'[c] = Counted(c)' + 0 /\ emails'[c] <= Limit
                BY <1>1, <3>1, <4>3, <4>4
            <4> QED
                BY <3>2, <4>2, <4>3, <4>5 DEF InStep
        <3> QED
            BY <3>3, <3>4
    <2> QED
        BY <1>1, <2>1, <2>3, <2>6, <2>7 DEF LimitInv
<1> QED
    BY <1>3, <1>4

\* A count that fails may undo others of its contact, who is missed then.
LEMMA LostLimit ==
    ASSUME LimitInv, KeptInv', NEW n \in counting, CountFails(n)
    PROVE  LimitInv'
<1>1. /\ UNCHANGED <<campaign, calls, emails>> /\ counting' = counting \ {n}
      /\ missed' = missed \cup {n.contact}
    BY DEF CountFails, got
<1>2. CASE UNCHANGED count
    BY <1>1, <1>2, NobodyMailed
<1>3. CASE count' = [c \in DOMAIN count \cup {n.contact} |-> IF c = n.contact THEN 0 ELSE count[c]]
    <2>1. DOMAIN count' = DOMAIN count \cup {n.contact}
        BY <1>3
    <2>2. \A c \in DOMAIN count' : count'[c] = IF c = n.contact THEN 0 ELSE count[c]
        BY <1>3
    <2>3. \A c \in DOMAIN count' : count'[c] \in Nat
        BY <2>1, <2>2 DEF LimitInv
    <2>4. count' \in [DOMAIN count' -> Nat]
        BY <1>3, <2>3
    <2>5. ASSUME NEW c \in Contacts, c \notin missed' PROVE InStep(c)'
        <3>1. InStep(c) /\ c # n.contact
            BY <1>1, <2>5 DEF LimitInv
        <3>2. NotCounted(c)' = NotCounted(c) /\ Mailing(c)' = Mailing(c)
            BY <1>1, <3>1 DEF NotCounted, Mailing, Email
        <3>3. Counted(c)' = Counted(c) /\ (c \in DOMAIN count' <=> c \in DOMAIN count)
            BY <2>1, <2>2, <3>1 DEF Counted
        <3> QED
            BY <1>1, <3>1, <3>2, <3>3 DEF InStep
    <2> QED
        BY <1>1, <2>1, <2>4, <2>5 DEF LimitInv
<1> QED
    BY <1>2, <1>3 DEF CountFails

\* Every step keeps the invariant.
LEMMA LimitNext == LimitInv /\ [Next]_vars => LimitInv'
<1> SUFFICES ASSUME LimitInv, [Next]_vars PROVE LimitInv'
    OBVIOUS
<1>1. KeptInv' /\ KeptInv
    BY KeptNext DEF LimitInv
<1>2. ASSUME NEW p \in Packages, Deliver(p) PROVE LimitInv'
    <2>1. UNCHANGED <<campaign, emails, count, counting, missed>>
        BY <1>2 DEF Deliver, got
    <2>2. \A k \in calls' : k.at = "send" => k \in calls
        BY <1>2 DEF Deliver
    <2> QED
        BY <1>1, <2>1, <2>2, NobodyMailed
<1>3. ASSUME NEW p \in Packages, TimesOut(p) PROVE LimitInv'
    BY <1>1, <1>3, NobodyMailed DEF TimesOut, got
<1>4. ASSUME NEW ch \in {"email", "whatsapp"}, Crash(ch) PROVE LimitInv'
    <2>1. /\ UNCHANGED <<campaign, emails, count>> /\ missed \subseteq missed'
          /\ counting' \subseteq counting /\ calls' \subseteq calls
        BY <1>4 DEF Crash, got
    <2>2. \A n \in counting : n \in counting' \/ n.contact \in missed'
        BY <1>4 DEF Crash
    <2> QED
        BY <1>1, <2>1, <2>2, NobodyMailed
<1>5. ASSUME NEW k \in calls,
             \/ Read(k) \/ Report(k) \/ Fails(k) \/ Clean(k) \/ PutBack(k)
             \/ \E c \in k.left : SendOne(k, c)
      PROVE  LimitInv'
    <2>1. UNCHANGED <<campaign, emails, count, counting, missed>>
        BY <1>5 DEF Read, Report, Fails, Clean, PutBack, SendOne, got
    <2>2. k \in Call
        BY <1>1 DEF KeptInv, Shape
    <2>3. \A step, left : Goes(k, step, left) /\ (step = "send" => ~Email(k)) =>
             \A j \in calls' : Email(j) /\ j.at = "send" => j \in calls
        BY <2>2 DEF Goes, Call, Email
    <2>4. \A ok : Answer(k, ok) => calls' \subseteq calls
        BY DEF Answer
    <2>5. \A j \in calls' : Email(j) /\ j.at = "send" => j \in calls
        <3>1. CASE Read(k)
            <4>1. \/ Answer(k, TRUE)
                  \/ \E step \in {"check", "send", "void"}, left \in {{}, stored[k.package].contacts} :
                       Goes(k, step, left) /\ (step = "send" => ~Email(k))
                BY <3>1 DEF Read
            <4>2. CASE Answer(k, TRUE)
                BY <2>4, <4>2
            <4> QED
                BY <2>3, <4>1, <4>2
        <3>2. CASE Report(k)
            BY <2>3, <2>4, <3>2 DEF Report
        <3>3. CASE Fails(k)
            <4>1. \/ Goes(k, "error", k.left) \/ Answer(k, TRUE) \/ Answer(k, FALSE)
                BY <3>3 DEF Fails
            <4>2. CASE Goes(k, "error", k.left)
                BY <2>3, <4>2
            <4> QED
                BY <2>4, <4>1, <4>2
        <3>4. CASE Clean(k) \/ PutBack(k)
            BY <2>4, <3>4 DEF Clean, PutBack
        <3>5. CASE \E c \in k.left : SendOne(k, c)
            BY <2>3, <3>5 DEF SendOne
        <3> QED
            BY <1>5, <3>1, <3>2, <3>3, <3>4, <3>5
    <2> QED
        BY <1>1, <2>1, <2>5, NobodyMailed
<1>6. CASE Working
    BY <1>2, <1>5, <1>6, CheckLimit, SendLimit, <1>1 DEF Working, Work
<1>7. CASE Count
    BY <1>1, <1>7, CountLimit DEF Count
<1>8. CASE Trouble
    BY <1>1, <1>3, <1>4, <1>5, <1>8, LostLimit DEF Trouble
<1>9. CASE UNCHANGED vars
    BY <1>1, <1>9, NobodyMailed DEF vars, got
<1> QED
    BY <1>6, <1>7, <1>8, <1>9 DEF Next

\* The daily limit of mails holds for every contact over all packages and deliveries,
\* unless a mail was not counted when the next one was checked, or its count was lost
\* to a crash or to an error that the catch of saveBatchToRedis forgets.
THEOREM LimitAlwaysHolds == Spec => []LimitHolds
<1>1. LimitInv => LimitHolds
    BY DEF LimitInv, InStep, LimitHolds
<1> QED
    BY <1>1, LimitInit, LimitNext, PTL DEF Spec
=============================================================================
