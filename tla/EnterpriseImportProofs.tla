----------------------- MODULE EnterpriseImportProofs -----------------------
(***************************************************************************)
(* The import of EnterpriseImport implements the promise of AccountImport, *)
(* for every pipeline, source and number of workers; and what the promise  *)
(* amounts to.                                                             *)
(***************************************************************************)
EXTENDS EnterpriseImport, SequenceTheorems, FiniteSetTheorems, TLAPS

(***************************************************************************)
(* The steps and the rows of the source.                                   *)
(***************************************************************************)

\* The index of a step is where the pipeline has it, and no two steps share one.
LEMMA StepsAre ==
    /\ NoStep.step \notin Names
    /\ Len(Steps) \in Nat /\ \A s \in Names : Index[s] \in 1..Len(Steps)
    /\ \A s, t \in Names : Index[s] = Index[t] => s = t
    /\ \A s \in Names : Len(Source[s]) \in Nat \ {0} /\ DOMAIN Source[s] = 1..Len(Source[s])
<1>1. DOMAIN Steps = 1..Len(Steps) /\ Len(Steps) \in Nat
    BY ImportAssumption, LenProperties
<1>2. ASSUME NEW s \in Names
      PROVE  Index[s] \in DOMAIN Steps /\ Steps[Index[s]] = s
    <2>1. \E i \in DOMAIN Steps : Steps[i] = s
        BY DEF Names, Range
    <2>2. Index[s] = CHOOSE i \in DOMAIN Steps : Steps[i] = s
        BY DEF Index
    <2> QED
        BY <2>1, <2>2
<1>3. \A s \in Names : Index[s] \in 1..Len(Steps)
    BY <1>1, <1>2
<1>4. \A s, t \in Names : Index[s] = Index[t] => s = t
    BY <1>2
<1>5. \A s \in Names : Len(Source[s]) \in Nat \ {0} /\ DOMAIN Source[s] = 1..Len(Source[s])
    BY ImportAssumption
<1>6. NoStep.step \notin Names
    <2>1. NoStep.step = ""
        BY Zenon DEF NoStep
    <2> QED
        BY <2>1, ImportAssumption, Zenon
<1> QED
    BY <1>1, <1>3, <1>4, <1>5, <1>6

\* A step of the import has its place in the order.
LEMMA IndexIs == \A s \in Names : Index[s] \in Nat
<1> SUFFICES ASSUME NEW s \in Names PROVE Index[s] \in Nat
    OBVIOUS
<1>1. Len(Steps) \in Nat /\ Index[s] \in 1..Len(Steps)
    BY StepsAre
<1> QED
    BY <1>1

\* The first of a set of steps is one of them, and none comes before it.
LEMMA FirstIs ==
    ASSUME NEW S \in SUBSET Names, S # {}
    PROVE  First(S) \in S /\ \A q \in S : Index[First(S)] <= Index[q]
<1> DEFINE D == {1..Index[s] : s \in S}
<1>1. Len(Steps) \in Nat /\ \A s \in S : Index[s] \in Nat /\ Index[s] <= Len(Steps)
    <2>1. Len(Steps) \in Nat /\ \A s \in S : Index[s] \in 1..Len(Steps)
        BY StepsAre
    <2> QED
        BY <2>1
<1>2. D \subseteq SUBSET (1..Len(Steps)) /\ D # {}
    <2>1. \A s \in S : 1..Index[s] \subseteq 1..Len(Steps)
        BY <1>1
    <2> QED
        BY <2>1
<1>3. IsWellFoundedOn(StrictSubsetOrdering(1..Len(Steps)), SUBSET (1..Len(Steps)))
    <2>1. IsFiniteSet(1..Len(Steps))
        BY <1>1, FS_Interval
    <2> QED
        BY <2>1, FS_StrictSubsetOrderingWellFounded, FS_FiniteSubsetsOfFinite
<1>4. PICK d \in D : \A e \in D : <<e, d>> \notin StrictSubsetOrdering(1..Len(Steps))
    <2> HIDE DEF D
    <2> QED
        BY <1>2, <1>3, WFMin
<1>5. PICK s \in S : d = 1..Index[s]
    OBVIOUS
<1>6. ASSUME NEW q \in S, Index[q] < Index[s] PROVE FALSE
    <2>1. 1..Index[q] \in D
        OBVIOUS
    <2>2. 1..Index[q] \subseteq d /\ 1..Index[q] # d
        <3>1. Index[s] \in 1..Index[s] /\ Index[s] \notin 1..Index[q]
            BY <1>1, <1>6
        <3>2. 1..Index[q] \subseteq 1..Index[s]
            BY <1>1, <1>6
        <3> QED
            BY <1>5, <3>1, <3>2
    <2> HIDE DEF D
    <2> QED
        BY <1>2, <1>4, <2>1, <2>2 DEF StrictSubsetOrdering
<1>7. \A q \in S : Index[s] <= Index[q]
    BY <1>1, <1>6
<1> QED
    BY <1>7 DEF First

\* A row is on a page up to the n-th.
LEMMA UpTo ==
    \A s \in Names : \A n, r :
        r \in RowsUpTo(s, n) <=> \E p \in 1..Len(Source[s]) : p <= n /\ r \in Source[s][p]
BY StepsAre DEF RowsUpTo

\* The rows of a step's pages are its own.
LEMMA RowsAre ==
    /\ \A r \in Rows : StepOf[r] \in Names /\ r \in RowsUpTo(StepOf[r], Len(Source[StepOf[r]]))
    /\ \A s \in Names : \A r \in RowsUpTo(s, Len(Source[s])) : r \in Rows /\ StepOf[r] = s
    /\ \A s \in Names : \A n \in Nat : RowsUpTo(s, n) \subseteq RowsUpTo(s, Len(Source[s]))
    /\ \A s \in Names : \A p \in 1..Len(Source[s]) :
           /\ RowsUpTo(s, p) = RowsUpTo(s, p - 1) \cup Source[s][p]
           /\ Source[s][p] \subseteq RowsUpTo(s, Len(Source[s]))
    /\ \A s \in Names : RowsUpTo(s, 0) = {}
<1>1. ASSUME NEW r \in Rows
      PROVE  StepOf[r] \in Names /\ r \in RowsUpTo(StepOf[r], Len(Source[StepOf[r]]))
    <2>1. \E s \in Names : r \in RowsUpTo(s, Len(Source[s]))
        BY DEF Rows
    <2>2. StepOf[r] = CHOOSE s \in Names : r \in RowsUpTo(s, Len(Source[s]))
        BY DEF StepOf
    <2> QED
        BY <2>1, <2>2
<1>2. ASSUME NEW s \in Names, NEW r \in RowsUpTo(s, Len(Source[s]))
      PROVE  r \in Rows /\ StepOf[r] = s
    <2>1. r \in Rows
        BY DEF Rows
    <2>2. r \in RowsUpTo(StepOf[r], Len(Source[StepOf[r]])) /\ StepOf[r] \in Names
        BY <1>1, <2>1
    <2>3. \A t \in Names :
              RowsUpTo(s, Len(Source[s])) \cap RowsUpTo(t, Len(Source[t])) # {} => s = t
        BY ImportAssumption
    <2> QED
        BY <2>1, <2>2, <2>3
<1>3. \A s \in Names : \A n \in Nat : RowsUpTo(s, n) \subseteq RowsUpTo(s, Len(Source[s]))
    <2> SUFFICES ASSUME NEW s \in Names, NEW n \in Nat, NEW r \in RowsUpTo(s, n)
                 PROVE  r \in RowsUpTo(s, Len(Source[s]))
        OBVIOUS
    <2>1. PICK p \in 1..Len(Source[s]) : r \in Source[s][p]
        BY UpTo
    <2>2. p <= Len(Source[s])
        <3>1. Len(Source[s]) \in Nat
            BY StepsAre
        <3> QED
            BY <3>1
    <2> QED
        BY <2>1, <2>2, UpTo
<1>4. ASSUME NEW s \in Names, NEW p \in 1..Len(Source[s])
      PROVE  /\ RowsUpTo(s, p) = RowsUpTo(s, p - 1) \cup Source[s][p]
             /\ Source[s][p] \subseteq RowsUpTo(s, Len(Source[s]))
    <2>1. \A q \in 1..Len(Source[s]) : q <= p <=> q <= p - 1 \/ q = p
        OBVIOUS
    <2>2. \A r : r \in RowsUpTo(s, p) <=> r \in RowsUpTo(s, p - 1) \/ r \in Source[s][p]
        BY <2>1, UpTo
    <2>3. Source[s][p] \subseteq RowsUpTo(s, Len(Source[s]))
        <3>1. Len(Source[s]) \in Nat
            BY StepsAre
        <3> QED
            BY <3>1, UpTo
    <2> QED
        BY <2>2, <2>3
<1>5. ASSUME NEW s \in Names, NEW r \in RowsUpTo(s, 0) PROVE FALSE
    <2>1. PICK p \in 1..Len(Source[s]) : p <= 0
        BY UpTo
    <2> QED
        BY <2>1
<1> QED
    BY <1>1, <1>2, <1>3, <1>4, <1>5

(***************************************************************************)
(* The inductive invariant.  It says nothing once two processes have run   *)
(* the import at once; the part about what is covered also leaves aside an *)
(* import that was resumed with another selection.                         *)
(***************************************************************************)

Entries == [key : Rows \cup {"relation"}, refs : SUBSET Nat]

\* A row of the account is an entity, known by its key, or relates entities, and
\* is there once.
TableOK ==
    /\ table \in Seq(Entries)
    /\ \A i, k \in DOMAIN table : table[i] = table[k] => i = k
    /\ \A i \in DOMAIN table :
          \/ table[i].key \in Rows /\ Refs[table[i].key] = {} /\ table[i].refs = {}
          \/ /\ table[i].key = "relation"
             /\ \A k \in table[i].refs : k \in DOMAIN table /\ table[k].key \in Rows

\* An id map has the ids of entities that are in the account.
Points(map) ==
    \A q \in DOMAIN map : /\ q \in Rows /\ Refs[q] = {}
                          /\ map[q] \in DOMAIN table /\ table[map[q]].key = q

IdsOK ==
    /\ Points(idMap)
    /\ \A w \in Workers : Points(worker[w].cache) /\ Points(worker[w].pending)

Checkpoints == {NoStep} \cup [step : Names, page : Nat]

ImportTypes ==
    /\ row \in [status : {"none", "pending", "running", "completed", "failed"},
                checkpoint : Checkpoints, progressed : BOOLEAN, key : BOOLEAN,
                selected : Selections \cup {Names}]
    /\ row.checkpoint # NoStep => row.checkpoint.page \in 1..Len(Source[row.checkpoint.step])
    /\ DOMAIN worker = Workers
    /\ \A w \in Workers : DOMAIN worker[w] =
                              {"at", "job", "step", "page", "cache", "pending", "from"}
    /\ reselected \in BOOLEAN

Paging(w) == worker[w].at \in {"fetch", "record", "progress"}

\* A process that runs the import is the only one that does anything for it, and
\* runs it as the row says.
Solo ==
    \A w \in Workers : Busy(w) =>
        /\ row.status = "running" /\ row.key
        /\ \A v \in Workers \ {w} : worker[v].at = "idle"
        /\ Paging(w) =>
              /\ worker[w].step \in row.selected
              /\ worker[w].page \in 1..Len(Source[worker[w].step])
              /\ worker[w].from \in Checkpoints
              /\ worker[w].from # NoStep => Index[worker[w].from.step] <= Index[worker[w].step]

\* An import that has its result, or never began, has no key; and one that never
\* began is not being run.
Settled ==
    /\ row.status \in {"none", "completed"} => ~row.key
    /\ row.status = "none" =>
          /\ ~enqueuing /\ \A j \in Jobs : bull[j].state # "waiting"
          /\ \A w \in Workers : worker[w].at = "idle"

\* A row that need not be looked at again.
Done(r) == Imported(r) # {} /\ (Refs[r] = {} => r \in DOMAIN idMap)

\* The selected rows before the page a process is at.
Before(w) ==
    {r \in Rows : /\ StepOf[r] \in row.selected
                  /\ \/ Index[StepOf[r]] < Index[worker[w].step]
                     \/ r \in RowsUpTo(worker[w].step, worker[w].page - 1)}

CoveredBy(w) ==
    /\ DOMAIN idMap \subseteq DOMAIN worker[w].cache
    /\ Paging(w) => \A r \in Before(w) : Done(r)
    /\ At(w, "record") =>
          \A r \in Page(w) :
              /\ Imported(r) # {}
              /\ Refs[r] = {} => r \in DOMAIN idMap \cup DOMAIN worker[w].pending
    /\ At(w, "progress") => \A r \in Page(w) : Done(r)
    /\ At(w, "finish") => \A r \in Rows : StepOf[r] \in row.selected => Done(r)

Covered ==
    /\ row.checkpoint # NoStep => row.checkpoint.step \in row.selected
    /\ \A r \in Passed : Done(r)
    /\ \A w \in Workers : Busy(w) => CoveredBy(w)

InGoodOrder ==
    ImportTypes /\ TableOK /\ IdsOK /\ Solo /\ Settled /\ (reselected \/ Covered)

ImportInv == overlapped \in BOOLEAN /\ (overlapped \/ InGoodOrder)

(***************************************************************************)
(* The table.                                                              *)
(***************************************************************************)

\* A finite set as a sequence: each element once.
LEMMA SeqOfSet ==
    ASSUME NEW S, IsFiniteSet(S)
    PROVE  /\ SetToSeq(S) \in Seq(S)
           /\ \A e \in S : \E i \in 1..Len(SetToSeq(S)) : SetToSeq(S)[i] = e
           /\ \A i, k \in 1..Len(SetToSeq(S)) : SetToSeq(S)[i] = SetToSeq(S)[k] => i = k
<1> DEFINE n == Cardinality(S)
           f == SetToSeq(S)
<1>1. n \in Nat /\ ExistsBijection(1..n, S)
    BY FS_CardinalityType
<1> HIDE DEF n
<1>2. PICK g \in [1..n -> S] : IsInjective(g)
    BY <1>1 DEF ExistsBijection, Bijection, Injection, IsInjective
<1>3. f \in [1..n -> S] /\ IsInjective(f)
    BY <1>2 DEF SetToSeq, n
<1> HIDE DEF f
<1>4. Len(f) = n /\ f \in Seq(S)
    BY <1>1, <1>3
<1>5. f \in Injection(1..n, S)
    BY <1>3 DEF Injection, IsInjective
<1>6. \A e \in S : \E i \in 1..n : f[i] = e
    <2>1. f \in Surjection(1..n, S)
        <3>1. IsFiniteSet(1..n) /\ Cardinality(1..n) = n
            BY <1>1, FS_Interval
        <3> QED
            BY <1>5, <3>1, FS_Injection DEF n
    <2> QED
        BY <2>1 DEF Surjection
<1> QED
    BY <1>3, <1>4, <1>6 DEF f, IsInjective

\* What a table is when a set of entries is appended.
LEMMA Appended ==
    ASSUME NEW E, NEW t \in Seq(E), NEW M \in SUBSET E, IsFiniteSet(M)
    PROVE  LET u == t \o SetToSeq(M) IN
           /\ u \in Seq(E) /\ Len(t) <= Len(u)
           /\ \A i \in DOMAIN t : i \in DOMAIN u /\ u[i] = t[i]
           /\ \A i \in DOMAIN u : i \in DOMAIN t \/ u[i] \in M
           /\ \A e \in M : \E i \in DOMAIN u : i \notin DOMAIN t /\ u[i] = e
           /\ \A i, k \in DOMAIN u :
                  i \notin DOMAIN t /\ k \notin DOMAIN t /\ u[i] = u[k] => i = k
<1> DEFINE f == SetToSeq(M)
           u == t \o f
<1>1. /\ f \in Seq(M)
      /\ \A e \in M : \E i \in 1..Len(f) : f[i] = e
      /\ \A i, k \in 1..Len(f) : f[i] = f[k] => i = k
    BY SeqOfSet
<1> HIDE DEF f
<1>2. f \in Seq(E) /\ \A i \in 1..Len(f) : f[i] \in M
    BY <1>1, SeqMonotonic, ElementOfSeq
<1>3. /\ u \in Seq(E) /\ Len(u) = Len(t) + Len(f)
      /\ \A i \in 1..Len(t) + Len(f) : u[i] = IF i <= Len(t) THEN t[i] ELSE f[i - Len(t)]
    BY <1>2, ConcatProperties
<1> SUFFICES /\ u \in Seq(E) /\ Len(t) <= Len(u)
             /\ \A i \in DOMAIN t : i \in DOMAIN u /\ u[i] = t[i]
             /\ \A i \in DOMAIN u : i \in DOMAIN t \/ u[i] \in M
             /\ \A e \in M : \E i \in DOMAIN u : i \notin DOMAIN t /\ u[i] = e
             /\ \A i, k \in DOMAIN u :
                    i \notin DOMAIN t /\ k \notin DOMAIN t /\ u[i] = u[k] => i = k
    BY DEF f
<1> HIDE DEF u
<1>4. /\ Len(t) \in Nat /\ Len(f) \in Nat
      /\ DOMAIN t = 1..Len(t) /\ DOMAIN u = 1..(Len(t) + Len(f))
    BY <1>2, <1>3, LenProperties
<1>5. \A i \in DOMAIN u : i \notin DOMAIN t => i - Len(t) \in 1..Len(f) /\ u[i] = f[i - Len(t)]
    BY <1>3, <1>4
<1>6. \A i \in DOMAIN t : i \in DOMAIN u /\ u[i] = t[i]
    BY <1>3, <1>4
<1>7. \A i \in DOMAIN u : i \in DOMAIN t \/ u[i] \in M
    BY <1>2, <1>5
<1>8. ASSUME NEW e \in M
      PROVE  \E i \in DOMAIN u : i \notin DOMAIN t /\ u[i] = e
    <2>1. PICK k \in 1..Len(f) : f[k] = e
        BY <1>1
    <2>2. k + Len(t) \in DOMAIN u /\ k + Len(t) \notin DOMAIN t /\ (k + Len(t)) - Len(t) = k
        BY <1>4
    <2> QED
        BY <1>5, <2>1, <2>2
<1>9. ASSUME NEW i \in DOMAIN u, NEW k \in DOMAIN u,
             i \notin DOMAIN t, k \notin DOMAIN t, u[i] = u[k]
      PROVE  i = k
    <2> DEFINE x == i - Len(t)
               y == k - Len(t)
    <2>1. x \in 1..Len(f) /\ y \in 1..Len(f) /\ f[x] = f[y]
        BY <1>5, <1>9
    <2>2. x = y
        <3> HIDE DEF x, y
        <3> QED
            BY <1>1, <2>1
    <2> QED
        BY <1>4, <2>2
<1> QED
    BY <1>3, <1>4, <1>6, <1>7, <1>8, <1>9

\* An entity is found under its key at one place only.
LEMMA KnownByKey ==
    ASSUME TableOK, NEW i \in DOMAIN table, NEW k \in DOMAIN table,
           table[i].key \in Rows, table[i].key = table[k].key
    PROVE  i = k /\ Refs[table[i].key] = {} /\ table[i].refs = {}
<1>1. table[i] \in Entries /\ table[k] \in Entries
    BY LenProperties, ElementOfSeq DEF TableOK
<1>2. table[i].key # "relation" /\ table[k].key # "relation"
    BY ImportAssumption
<1>3. table[i].refs = {} /\ table[k].refs = {} /\ Refs[table[i].key] = {}
    BY <1>2 DEF TableOK
<1>4. table[i] = table[k]
    BY <1>1, <1>3 DEF Entries
<1> QED
    BY <1>3, <1>4 DEF TableOK

\* Two relations between the rows of the same keys relate the same rows.
LEMMA SameEnds ==
    ASSUME TableOK, NEW a, NEW b,
           \A k \in a \cup b : k \in DOMAIN table /\ table[k].key \in Rows,
           {table[k].key : k \in a} = {table[k].key : k \in b}
    PROVE  a = b
<1>1. ASSUME NEW x \in a PROVE x \in b
    <2>1. PICK k \in b : table[x].key = table[k].key
        OBVIOUS
    <2> QED
        BY <2>1, KnownByKey
<1>2. ASSUME NEW x \in b PROVE x \in a
    <2>1. PICK k \in a : table[x].key = table[k].key
        OBVIOUS
    <2> QED
        BY <2>1, KnownByKey
<1> QED
    BY <1>1, <1>2

\* A row of the source is at most one row of the account.
LEMMA ImportedOnce ==
    ASSUME TableOK, NEW r \in Rows
    PROVE  /\ \A i, k \in Imported(r) : i = k
           /\ Cardinality(Imported(r)) = IF Imported(r) = {} THEN 0 ELSE 1
<1>1. ASSUME NEW i \in Imported(r), NEW k \in Imported(r)
      PROVE  i = k
    <2>1. i \in DOMAIN table /\ k \in DOMAIN table
        BY DEF Imported
    <2>2. CASE Refs[r] = {}
        <3>1. table[i].key = r /\ table[k].key = r
            BY <2>2 DEF Imported
        <3> QED
            BY <2>1, <3>1, KnownByKey
    <2>3. CASE Refs[r] # {}
        <3>1. /\ table[i].key = "relation" /\ {table[x].key : x \in table[i].refs} = Refs[r]
              /\ table[k].key = "relation" /\ {table[x].key : x \in table[k].refs} = Refs[r]
            BY <2>3 DEF Imported
        <3>2. "relation" \notin Rows
            BY ImportAssumption
        <3>3. \A x \in table[i].refs \cup table[k].refs :
                  x \in DOMAIN table /\ table[x].key \in Rows
            BY <2>1, <3>1, <3>2 DEF TableOK
        <3>4. table[i].refs = table[k].refs
            BY <3>1, <3>3, SameEnds
        <3>5. table[i] \in Entries /\ table[k] \in Entries
            BY <2>1, LenProperties, ElementOfSeq DEF TableOK
        <3>6. table[i] = table[k]
            BY <3>1, <3>4, <3>5 DEF Entries
        <3> QED
            BY <2>1, <3>6 DEF TableOK
    <2> QED
        BY <2>2, <2>3
<1>2. CASE Imported(r) = {}
    BY <1>2, FS_EmptySet
<1>3. CASE Imported(r) # {}
    <2>1. PICK i : i \in Imported(r)
        BY <1>3
    <2>2. Imported(r) = {i}
        BY <1>1, <2>1
    <2> QED
        BY <1>1, <2>2, FS_Singleton
<1> QED
    BY <1>1, <1>2, <1>3

(***************************************************************************)
(* A page is committed.                                                    *)
(***************************************************************************)

OnPage(w) == worker[w].step \in Names /\ worker[w].page \in 1..Len(Source[worker[w].step])

\* The page that a worker has read is a finite set of rows.
LEMMA PageIs ==
    ASSUME NEW w, OnPage(w)
    PROVE  /\ IsFiniteSet(Page(w)) /\ Page(w) \subseteq Rows
           /\ \A r \in Page(w) : StepOf[r] = worker[w].step
<1> DEFINE s == worker[w].step
           p == worker[w].page
<1>1. s \in Names /\ p \in 1..Len(Source[s]) /\ p \in DOMAIN Source[s]
    BY StepsAre DEF OnPage
<1>2. Page(w) = Source[s][p]
    BY DEF Page
<1> HIDE DEF s, p
<1>3. IsFiniteSet(Source[s][p])
    BY <1>1, ImportAssumption
<1>4. Source[s][p] \subseteq RowsUpTo(s, Len(Source[s]))
    BY <1>1, RowsAre
<1>5. \A r \in Source[s][p] : r \in Rows /\ StepOf[r] = s
    BY <1>1, <1>4, RowsAre
<1> QED
    BY <1>2, <1>3, <1>5 DEF s

\* What is written for a row that can be.
LEMMA EntryIs ==
    ASSUME TableOK, NEW w, OnPage(w), Points(worker[w].cache), NEW r \in Candidates(w)
    PROVE  /\ Entry(w, r) \in Entries /\ r \in Rows
           /\ Refs[r] = {} => Entry(w, r).key = r /\ Entry(w, r).refs = {}
           /\ Refs[r] # {} =>
                 /\ Entry(w, r).key = "relation"
                 /\ \A k \in Entry(w, r).refs : k \in DOMAIN table /\ table[k].key \in Rows
                 /\ {table[k].key : k \in Entry(w, r).refs} = Refs[r]
<1> DEFINE cache == worker[w].cache
           ids   == {cache[q] : q \in Refs[r]}
<1>1. r \in Rows /\ Refs[r] \subseteq DOMAIN cache
    BY PageIs DEF Candidates
<1>2. \A q \in Refs[r] : q \in Rows /\ cache[q] \in DOMAIN table /\ table[cache[q]].key = q
    BY <1>1 DEF Points
<1>3. DOMAIN table \subseteq Nat
    <2>1. DOMAIN table = 1..Len(table) /\ Len(table) \in Nat
        BY LenProperties DEF TableOK
    <2> QED
        BY <2>1
<1>4. Entry(w, r) = [key |-> IF Refs[r] = {} THEN r ELSE "relation", refs |-> ids]
    BY DEF Entry
<1> HIDE DEF cache
<1>5. ids \in SUBSET Nat
    BY <1>2, <1>3
<1>6. Entry(w, r) \in Entries
    BY <1>1, <1>4, <1>5 DEF Entries
<1>7. Refs[r] = {} => ids = {}
    OBVIOUS
<1>8. \A k \in ids : k \in DOMAIN table /\ table[k].key \in Rows
    BY <1>2
<1>9. {table[k].key : k \in ids} = Refs[r]
    BY <1>2
<1> HIDE DEF ids
<1> QED
    BY <1>1, <1>4, <1>6, <1>7, <1>8, <1>9

\* If the account has the entry of a row, it has the row.
LEMMA EntryIsRow ==
    ASSUME TableOK, NEW w, OnPage(w), Points(worker[w].cache), NEW r \in Candidates(w)
    PROVE  \A i \in DOMAIN table : i \in Imported(r) <=> table[i] = Entry(w, r)
<1> SUFFICES ASSUME NEW i \in DOMAIN table PROVE i \in Imported(r) <=> table[i] = Entry(w, r)
    OBVIOUS
<1>1. r \in Rows /\ r # "relation"
    BY EntryIs, ImportAssumption
<1>2. table[i] \in Entries /\ Entry(w, r) \in Entries
    BY LenProperties, ElementOfSeq, EntryIs DEF TableOK
<1>3. CASE Refs[r] = {}
    <2>1. Entry(w, r).key = r /\ Entry(w, r).refs = {}
        BY <1>3, EntryIs
    <2>2. table[i].key = r => table[i].refs = {}
        BY <1>1 DEF TableOK
    <2>3. i \in Imported(r) <=> table[i].key = r
        BY <1>3 DEF Imported
    <2> QED
        BY <1>2, <2>1, <2>2, <2>3 DEF Entries
<1>4. CASE Refs[r] # {}
    <2> DEFINE e == Entry(w, r)
    <2>1. /\ e.key = "relation"
          /\ \A k \in e.refs : k \in DOMAIN table /\ table[k].key \in Rows
          /\ {table[k].key : k \in e.refs} = Refs[r]
        BY <1>4, EntryIs
    <2>2. i \in Imported(r) <=>
             table[i].key = "relation" /\ {table[k].key : k \in table[i].refs} = Refs[r]
        BY <1>4 DEF Imported
    <2>3. ASSUME i \in Imported(r) PROVE table[i] = e
        <3> HIDE DEF e
        <3>1. \A k \in table[i].refs : k \in DOMAIN table /\ table[k].key \in Rows
            BY <2>2, <2>3, ImportAssumption DEF TableOK
        <3>2. table[i].refs = e.refs
            BY <2>1, <2>2, <2>3, <3>1, SameEnds
        <3> QED
            BY <1>2, <2>1, <2>2, <2>3, <3>2 DEF Entries, e
    <2>4. ASSUME table[i] = e PROVE i \in Imported(r)
        BY <2>1, <2>2, <2>4
    <2> QED
        BY <2>3, <2>4
<1> QED
    BY <1>3, <1>4

\* The entries a page adds are finitely many, and not in the account.
LEMMA MissingIs ==
    ASSUME TableOK, NEW w, OnPage(w), Points(worker[w].cache)
    PROVE  /\ Missing(w) \in SUBSET Entries /\ IsFiniteSet(Missing(w))
           /\ \A e \in Missing(w) : \A i \in DOMAIN table : table[i] # e
           /\ \A e \in Missing(w) : \E r \in Candidates(w) : e = Entry(w, r)
           /\ \A r \in Candidates(w) :
                  Entry(w, r) \in Missing(w) \/ \E i \in DOMAIN table : table[i] = Entry(w, r)
<1> DEFINE all == {Entry(w, r) : r \in Candidates(w)}
<1>1. IsFiniteSet(Candidates(w))
    BY PageIs, FS_Subset DEF Candidates
<1>2. IsFiniteSet(all)
    <2> DEFINE f == [r \in Candidates(w) |-> Entry(w, r)]
    <2>1. f \in Surjection(Candidates(w), all)
        BY DEF Surjection
    <2> HIDE DEF f, all
    <2> QED
        BY <1>1, <2>1, FS_Surjection
<1>3. Missing(w) = all \ {table[i] : i \in DOMAIN table}
    BY DEF Missing, Range
<1>4. IsFiniteSet(Missing(w))
    <2> HIDE DEF all
    <2> QED
        BY <1>2, <1>3, FS_Subset
<1>5. \A e \in all : e \in Entries
    BY EntryIs
<1> QED
    BY <1>3, <1>4, <1>5

\* The table after a page: still sound, with the old rows where they were, and
\* with all the rows of the page that could be written.
LEMMA Committed ==
    ASSUME TableOK, NEW w, OnPage(w), Points(worker[w].cache),
           table' = table \o SetToSeq(Missing(w))
    PROVE  /\ TableOK'
           /\ \A i \in DOMAIN table : i \in DOMAIN table' /\ table'[i] = table[i]
           /\ \A r \in Rows : Imported(r) \subseteq Imported(r)'
           /\ \A r \in Rows : Imported(r)' # {} /\ Imported(r) = {} => r \in Page(w)
           /\ \A r \in Candidates(w) :
                  \E i \in DOMAIN table' : table'[i] = Entry(w, r) /\ i \in Imported(r)'
<1> DEFINE M == Missing(w)
           u == table'
<1>1. /\ M \in SUBSET Entries /\ IsFiniteSet(M)
      /\ \A e \in M : \A i \in DOMAIN table : table[i] # e
      /\ \A e \in M : \E r \in Candidates(w) : e = Entry(w, r)
      /\ \A r \in Candidates(w) :
             Entry(w, r) \in M \/ \E i \in DOMAIN table : table[i] = Entry(w, r)
    BY MissingIs
<1> HIDE DEF M
<1>2. /\ u \in Seq(Entries)
      /\ \A i \in DOMAIN table : i \in DOMAIN u /\ u[i] = table[i]
      /\ \A i \in DOMAIN u : i \in DOMAIN table \/ u[i] \in M
      /\ \A e \in M : \E i \in DOMAIN u : i \notin DOMAIN table /\ u[i] = e
      /\ \A i, k \in DOMAIN u :
             i \notin DOMAIN table /\ k \notin DOMAIN table /\ u[i] = u[k] => i = k
    <2>1. table \in Seq(Entries) /\ u = table \o SetToSeq(M)
        BY DEF TableOK, M
    <2> HIDE DEF u
    <2> QED
        BY <1>1, <2>1, Appended
<1>3. \A e \in M :
          \/ e.key \in Rows /\ Refs[e.key] = {} /\ e.refs = {}
          \/ /\ e.key = "relation"
             /\ \A k \in e.refs : k \in DOMAIN table /\ table[k].key \in Rows
    BY <1>1, EntryIs
<1>4. TableOK'
    <2>1. ASSUME NEW i \in DOMAIN u, NEW k \in DOMAIN u, u[i] = u[k]
          PROVE  i = k
        <3>1. CASE i \in DOMAIN table /\ k \in DOMAIN table
            BY <1>2, <2>1, <3>1 DEF TableOK
        <3>2. CASE i \in DOMAIN table /\ k \notin DOMAIN table
            BY <1>1, <1>2, <2>1, <3>2
        <3>3. CASE i \notin DOMAIN table /\ k \in DOMAIN table
            BY <1>1, <1>2, <2>1, <3>3
        <3>4. CASE i \notin DOMAIN table /\ k \notin DOMAIN table
            BY <1>2, <2>1, <3>4
        <3> QED
            BY <3>1, <3>2, <3>3, <3>4
    <2>2. ASSUME NEW i \in DOMAIN u
          PROVE  \/ u[i].key \in Rows /\ Refs[u[i].key] = {} /\ u[i].refs = {}
                 \/ /\ u[i].key = "relation"
                    /\ \A k \in u[i].refs : k \in DOMAIN u /\ u[k].key \in Rows
        <3>1. CASE i \in DOMAIN table
            BY <1>2, <3>1 DEF TableOK
        <3>2. CASE i \notin DOMAIN table
            <4>1. u[i] \in M
                BY <1>2, <3>2
            <4> QED
                BY <1>2, <1>3, <4>1
        <3> QED
            BY <3>1, <3>2
    <2> QED
        BY <1>2, <2>1, <2>2 DEF TableOK
<1>5. ASSUME NEW r \in Rows, NEW i \in DOMAIN table
      PROVE  i \in Imported(r) <=> i \in Imported(r)'
    <2>1. i \in DOMAIN u /\ u[i] = table[i]
        BY <1>2
    <2>2. CASE Refs[r] = {}
        BY <2>1, <2>2 DEF Imported
    <2>3. CASE Refs[r] # {} /\ table[i].key = "relation"
        <3>1. \A k \in table[i].refs : k \in DOMAIN table /\ u[k] = table[k]
            BY <1>2, <2>3, ImportAssumption DEF TableOK
        <3>2. {table[k].key : k \in table[i].refs} = {u[k].key : k \in table[i].refs}
            BY <3>1
        <3>3. i \in Imported(r) <=> {table[k].key : k \in table[i].refs} = Refs[r]
            BY <2>3 DEF Imported
        <3>4. i \in Imported(r)' <=> {u[k].key : k \in u[i].refs} = Refs[r]
            BY <2>1, <2>3 DEF Imported
        <3> QED
            BY <2>1, <3>2, <3>3, <3>4
    <2>4. CASE Refs[r] # {} /\ table[i].key # "relation"
        BY <2>1, <2>4 DEF Imported
    <2> QED
        BY <2>2, <2>3, <2>4
<1>6. \A r \in Rows : Imported(r) \subseteq Imported(r)'
    <2>1. \A r \in Rows : Imported(r) \subseteq DOMAIN table
        BY DEF Imported
    <2> QED
        BY <1>5, <2>1
<1>7. \A i \in DOMAIN table : table[i].key \in Rows => u[i].key = table[i].key
    BY <1>2
<1>8. ASSUME NEW q \in Candidates(w), NEW i \in DOMAIN u, u[i] = Entry(w, q),
             NEW r \in Rows
      PROVE  i \in Imported(r)' <=> r = q
    <2>1. /\ q \in Rows
          /\ Refs[q] = {} => u[i].key = q /\ u[i].refs = {}
          /\ Refs[q] # {} =>
                /\ u[i].key = "relation"
                /\ \A k \in u[i].refs : k \in DOMAIN table
                /\ {table[k].key : k \in u[i].refs} = Refs[q]
        BY <1>8, EntryIs
    <2>2. q # "relation" /\ r # "relation"
        BY <2>1, ImportAssumption
    <2>3. CASE Refs[q] = {}
        BY <2>1, <2>2, <2>3 DEF Imported
    <2>4. CASE Refs[q] # {}
        <3>1. {u[k].key : k \in u[i].refs} = Refs[q]
            BY <1>2, <2>1, <2>4
        <3>2. i \in Imported(r)' <=> Refs[r] # {} /\ Refs[q] = Refs[r]
            BY <2>1, <2>2, <2>4, <3>1 DEF Imported
        <3> QED
            BY <2>1, <2>4, <3>2, ImportAssumption
    <2> QED
        BY <2>3, <2>4
<1>9. ASSUME NEW r \in Rows, Imported(r)' # {}, Imported(r) = {}
      PROVE  r \in Page(w)
    <2>1. PICK i : i \in Imported(r)'
        BY <1>9
    <2>2. i \in DOMAIN u /\ i \notin DOMAIN table
        BY <1>5, <1>9, <2>1 DEF Imported
    <2>3. PICK q \in Candidates(w) : u[i] = Entry(w, q)
        BY <1>1, <1>2, <2>2
    <2>4. r = q
        BY <1>8, <2>1, <2>2, <2>3
    <2> QED
        BY <2>3, <2>4 DEF Candidates
<1>10. ASSUME NEW r \in Candidates(w)
       PROVE  \E i \in DOMAIN u : u[i] = Entry(w, r) /\ i \in Imported(r)'
    <2>1. r \in Rows
        BY EntryIs
    <2>2. PICK i \in DOMAIN u : u[i] = Entry(w, r)
        BY <1>1, <1>2
    <2> QED
        BY <1>8, <2>1, <2>2
<1> QED
    BY <1>2, <1>4, <1>6, <1>9, <1>10

(***************************************************************************)
(* The steps that write no data.                                           *)
(***************************************************************************)

\* A worker that has no job holds nothing.
LEMMA IdleIs ==
    /\ Idle.at = "idle" /\ DOMAIN Idle.cache = {} /\ DOMAIN Idle.pending = {}
    /\ DOMAIN Idle = {"at", "job", "step", "page", "cache", "pending", "from"}
BY DEF Idle

\* At first nothing is copied and nobody works.
LEMMA ImportInit == Init => ImportInv
<1> SUFFICES ASSUME Init PROVE InGoodOrder
    BY DEF Init, ImportInv
<1>1. ImportTypes
    BY IdleIs DEF Init, ImportTypes, Checkpoints
<1>2. TableOK
    <2>1. table \in Seq(Entries) /\ DOMAIN table = {}
        <3>1. table = <<>>
            BY DEF Init
        <3> QED
            BY <3>1
    <2> QED
        BY <2>1 DEF TableOK
<1>3. IdsOK
    <2>1. DOMAIN idMap = {}
        <3>1. idMap = <<>>
            BY DEF Init
        <3> QED
            BY <3>1
    <2> QED
        BY <2>1, IdleIs DEF Init, IdsOK, Points
<1>4. Solo /\ Settled
    BY IdleIs DEF Init, Solo, Settled, Busy
<1>5. Covered
    BY IdleIs DEF Init, Covered, Passed, Busy
<1> QED
    BY <1>1, <1>2, <1>3, <1>4, <1>5 DEF InGoodOrder

\* Where the data is the same, so is what is said of it.
LEMMA SameData ==
    ASSUME UNCHANGED <<table, idMap>>
    PROVE  /\ TableOK' <=> TableOK
           /\ \A map : Points(map)' <=> Points(map)
           /\ \A r : Imported(r)' = Imported(r) /\ (Done(r)' <=> Done(r))
<1>1. table' = table /\ idMap' = idMap
    OBVIOUS
<1>2. TableOK' <=> TableOK
    BY <1>1 DEF TableOK
<1>3. \A map : Points(map)' <=> Points(map)
    BY <1>1 DEF Points
<1>4. \A r : Imported(r)' = Imported(r)
    BY <1>1 DEF Imported
<1>5. \A r : Done(r)' <=> Done(r)
    BY <1>1, <1>4 DEF Done
<1> QED
    BY <1>2, <1>3, <1>4, <1>5

\* A process that is not idle is the only one at work.
LEMMA OthersRest ==
    ASSUME InGoodOrder, NEW w \in Workers, worker[w].at # "idle"
    PROVE  \A v \in Workers \ {w} : ~Busy(v)
BY DEF InGoodOrder, Solo

\* Nobody is at work after a step that leaves the data and the checkpoint alone,
\* and, but for an import resumed with another selection, the selection.
LEMMA AllRest ==
    ASSUME InGoodOrder, UNCHANGED <<table, idMap>>,
           ImportTypes', Settled', \A v \in Workers : ~Busy(v)',
           row'.checkpoint = row.checkpoint,
           reselected' \/ (~reselected /\ row'.selected = row.selected),
           \A v \in Workers :
               \/ DOMAIN worker'[v].cache = {} /\ DOMAIN worker'[v].pending = {}
               \/ /\ worker'[v].cache = worker[v].cache
                  /\ worker'[v].pending = worker[v].pending
    PROVE  InGoodOrder'
<1>1. TableOK'
    BY SameData DEF InGoodOrder
<1>2. IdsOK'
    <2>1. Points(idMap) /\ idMap' = idMap
        BY DEF InGoodOrder, IdsOK
    <2>2. Points(idMap)'
        BY <2>1 DEF Points
    <2>3. ASSUME NEW v \in Workers
          PROVE  (Points(worker[v].cache) /\ Points(worker[v].pending))'
        <3>1. CASE DOMAIN worker'[v].cache = {} /\ DOMAIN worker'[v].pending = {}
            BY <3>1 DEF Points
        <3>2. CASE worker'[v].cache = worker[v].cache /\ worker'[v].pending = worker[v].pending
            <4>1. Points(worker[v].cache) /\ Points(worker[v].pending)
                BY DEF InGoodOrder, IdsOK
            <4> QED
                BY <3>2, <4>1 DEF Points
        <3> QED
            BY <3>1, <3>2
    <2> QED
        BY <2>2, <2>3 DEF IdsOK
<1>3. Solo'
    BY DEF Solo
<1>4. reselected' \/ Covered'
    <2> SUFFICES ASSUME ~reselected' PROVE Covered'
        OBVIOUS
    <2>1. Covered /\ row'.selected = row.selected
        BY DEF InGoodOrder
    <2>2. Passed' = Passed
        BY <2>1 DEF Passed
    <2>3. \A r : Done(r)' <=> Done(r)
        BY SameData
    <2> QED
        BY <2>1, <2>2, <2>3 DEF Covered
<1> QED
    BY <1>1, <1>2, <1>3, <1>4 DEF InGoodOrder

\* A process stops working, and the row keeps its checkpoint and selection.
LEMMA Rests ==
    ASSUME InGoodOrder, UNCHANGED <<table, idMap, reselected>>,
           ImportTypes', Settled', NEW w \in Workers, worker[w].at # "idle", ~Busy(w)',
           row'.checkpoint = row.checkpoint, row'.selected = row.selected,
           \A v \in Workers \ {w} : worker'[v] = worker[v],
           \/ worker'[w] = Idle
           \/ worker'[w].cache = worker[w].cache /\ worker'[w].pending = worker[w].pending
    PROVE  InGoodOrder'
<1>1. \A v \in Workers \ {w} : ~Busy(v)'
    BY OthersRest DEF Busy
<1>2. \A v \in Workers : ~Busy(v)'
    BY <1>1
<1>3. \A v \in Workers : \/ DOMAIN worker'[v].cache = {} /\ DOMAIN worker'[v].pending = {}
                         \/ /\ worker'[v].cache = worker[v].cache
                            /\ worker'[v].pending = worker[v].pending
    BY IdleIs
<1>4. reselected' \/ ~reselected
    BY DEF InGoodOrder, ImportTypes
<1> QED
    BY <1>2, <1>3, <1>4, AllRest

\* A process that ends, fails or dies: it rests, whatever becomes of its job.
LEMMA Ends ==
    ASSUME InGoodOrder, UNCHANGED <<table, idMap, reselected>>,
           NEW w \in Workers, worker[w].at # "idle",
           \/ worker' = [worker EXCEPT ![w] = Idle]
           \/ worker' = [worker EXCEPT ![w].at = "throw"]
           \/ worker' = [worker EXCEPT ![w].at = "exhausted"]
           \/ worker' = [worker EXCEPT ![w].at = "cleanup"],
           \/ row' = row
           \/ row' = [row EXCEPT !.status = "failed"]
           \/ row' = [row EXCEPT !.status = "completed", !.key = FALSE]
    PROVE  InGoodOrder'
<1>1. DOMAIN worker = Workers /\ DOMAIN worker[w] = DOMAIN Idle
    BY IdleIs DEF InGoodOrder, ImportTypes
<1>2. /\ DOMAIN worker' = Workers
      /\ \A v \in Workers \ {w} : worker'[v] = worker[v]
    BY <1>1
<1>3. /\ DOMAIN worker'[w] = DOMAIN Idle
      /\ \/ worker'[w] = Idle
         \/ worker'[w].cache = worker[w].cache /\ worker'[w].pending = worker[w].pending
      /\ worker'[w].at \in {"idle", "throw", "exhausted", "cleanup"}
    BY <1>1, IdleIs
<1>4. /\ row'.checkpoint = row.checkpoint /\ row'.selected = row.selected
      /\ row'.progressed = row.progressed
      /\ row'.status \in {row.status, "failed", "completed"}
      /\ row'.key \in {row.key, FALSE}
      /\ row'.status = "completed" => row' = row \/ ~row'.key
      /\ row' \in [status : {"none", "pending", "running", "completed", "failed"},
                   checkpoint : Checkpoints, progressed : BOOLEAN, key : BOOLEAN,
                   selected : Selections \cup {Names}]
    BY DEF InGoodOrder, ImportTypes
<1>5. ImportTypes'
    <2>1. reselected' \in BOOLEAN /\ \A v \in Workers : DOMAIN worker'[v] = DOMAIN Idle
        BY <1>2, <1>3, IdleIs DEF InGoodOrder, ImportTypes
    <2>2. row.checkpoint # NoStep => row.checkpoint.page \in 1..Len(Source[row.checkpoint.step])
        BY DEF InGoodOrder, ImportTypes
    <2> QED
        BY <1>2, <1>4, <2>1, <2>2, IdleIs DEF ImportTypes
<1>6. Settled'
    BY <1>4 DEF InGoodOrder, Settled
<1>7. ~Busy(w)'
    BY <1>3 DEF Busy
<1> QED
    BY <1>2, <1>3, <1>4, <1>5, <1>6, <1>7, Rests

\* The steps of a process that ends, fails or dies.
LEMMA EndStep ==
    ASSUME InGoodOrder, NEW w \in Workers,
           \/ Finish(w) \/ ClientError(w) \/ Error(w) \/ Throw(w) \/ OnFailed(w)
           \/ Cleanup(w) \/ Crash(w)
    PROVE  InGoodOrder'
<1>1. CASE Finish(w)
    BY <1>1, Ends DEF Finish, At, data, history
<1>2. CASE ClientError(w)
    BY <1>2, Ends DEF ClientError, At, data, history
<1>3. CASE Error(w)
    BY <1>3, Ends DEF Error, Busy, data, history
<1>4. CASE Throw(w)
    <2>1. /\ worker[w].at # "idle"
          /\ UNCHANGED <<row, table, idMap, reselected>>
          /\ \/ worker' = [worker EXCEPT ![w] = Idle]
             \/ worker' = [worker EXCEPT ![w].at = "exhausted"]
        BY <1>4 DEF Throw, At, data, history
    <2> QED
        BY <2>1, Ends
<1>5. CASE OnFailed(w)
    BY <1>5, Ends DEF OnFailed, At, data, history
<1>6. CASE Cleanup(w)
    BY <1>6, Ends DEF Cleanup, At, data, history
<1>7. CASE Crash(w)
    BY <1>7, Ends DEF Crash, At, data
<1> QED
    BY <1>1, <1>2, <1>3, <1>4, <1>5, <1>6, <1>7

(***************************************************************************)
(* The API, the queue and the lock.                                        *)
(***************************************************************************)

\* Neither the row nor what the processes do changes.
LEMMA SameWork ==
    ASSUME InGoodOrder, UNCHANGED <<row, table, idMap, worker, reselected>>,
           row.status # "none" \/ UNCHANGED <<bull, enqueuing>>
    PROVE  InGoodOrder'
<1>1. ImportTypes' /\ Solo' /\ Settled'
    BY DEF InGoodOrder, ImportTypes, Solo, Settled, Busy, Paging
<1>2. TableOK' /\ IdsOK'
    BY SameData DEF InGoodOrder, IdsOK
<1>3. Covered => Covered'
    <2>1. \A r : Done(r)' <=> Done(r)
        BY SameData
    <2>2. \A r : Imported(r)' = Imported(r)
        BY SameData
    <2>3. Passed' = Passed
        BY DEF Passed
    <2>4. ASSUME NEW w \in Workers, CoveredBy(w)
          PROVE  CoveredBy(w)'
        <3>1. Before(w)' = Before(w) /\ Page(w)' = Page(w)
            BY DEF Before, Page
        <3> QED
            BY <2>1, <2>2, <2>4, <3>1 DEF CoveredBy, Paging, At
    <2> QED
        BY <2>1, <2>3, <2>4 DEF Covered, Busy
<1> QED
    BY <1>1, <1>2, <1>3 DEF InGoodOrder

\* An import is asked for.
LEMMA ImportStep ==
    ASSUME InGoodOrder, NEW S \in Selections, Import(S)
    PROVE  InGoodOrder'
<1>1. CASE row.status \in {"pending", "running"} /\ UNCHANGED <<row, idMap, enqueuing, reselected>>
    BY <1>1, SameWork DEF Import
<1>2. CASE /\ row.status = "failed"
           /\ row' = [row EXCEPT !.status = "pending", !.key = TRUE, !.selected = S]
           /\ enqueuing' = TRUE
           /\ reselected' = (reselected \/ S # row.selected)
           /\ UNCHANGED idMap
    <2>1. UNCHANGED <<table, idMap, worker>>
        BY <1>2 DEF Import
    <2>2. /\ row' \in [status : {"none", "pending", "running", "completed", "failed"},
                       checkpoint : Checkpoints, progressed : BOOLEAN, key : BOOLEAN,
                       selected : Selections \cup {Names}]
          /\ row'.status = "pending" /\ row'.checkpoint = row.checkpoint /\ row'.selected = S
        BY <1>2 DEF InGoodOrder, ImportTypes
    <2>3. ImportTypes'
        BY <1>2, <2>1, <2>2 DEF InGoodOrder, ImportTypes
    <2>4. Settled'
        BY <2>2 DEF Settled
    <2>5. \A v \in Workers : ~Busy(v)'
        BY <1>2, <2>1 DEF InGoodOrder, Solo, Busy
    <2>6. reselected' \/ (~reselected /\ row'.selected = row.selected)
        BY <1>2, <2>2 DEF InGoodOrder, ImportTypes
    <2> QED
        BY <2>1, <2>2, <2>3, <2>4, <2>5, <2>6, AllRest
<1>3. CASE /\ row.status \in {"none", "completed"} /\ \A w \in Workers : worker[w].at = "idle"
           /\ row' = [status |-> "pending", checkpoint |-> NoStep, progressed |-> FALSE,
                      key |-> TRUE, selected |-> S]
           /\ idMap' = <<>>
           /\ enqueuing' = TRUE
           /\ reselected' = FALSE
    <2>1. table' = table /\ worker' = worker /\ DOMAIN idMap' = {}
        BY <1>3 DEF Import
    <2>2. ImportTypes'
        BY <1>3, <2>1 DEF InGoodOrder, ImportTypes, Checkpoints
    <2>3. TableOK'
        BY <2>1 DEF InGoodOrder, TableOK
    <2>4. IdsOK'
        BY <2>1 DEF InGoodOrder, IdsOK, Points
    <2>5. Solo' /\ Settled'
        BY <1>3, <2>1 DEF Solo, Settled, Busy
    <2>6. Covered'
        BY <1>3, <2>1 DEF Covered, Passed, Busy
    <2> QED
        BY <2>2, <2>3, <2>4, <2>5, <2>6 DEF InGoodOrder
<1> QED
    BY <1>1, <1>2, <1>3 DEF Import

\* A failed import is resumed.
LEMMA ResumeStep == ASSUME InGoodOrder, Resume PROVE InGoodOrder'
<1>1. /\ row.status = "failed" /\ row' = [row EXCEPT !.status = "pending", !.key = TRUE]
      /\ UNCHANGED <<table, idMap, worker, reselected>>
    BY DEF Resume, data, history
<1>2. /\ row' \in [status : {"none", "pending", "running", "completed", "failed"},
                   checkpoint : Checkpoints, progressed : BOOLEAN, key : BOOLEAN,
                   selected : Selections \cup {Names}]
      /\ row'.status = "pending" /\ row'.checkpoint = row.checkpoint
      /\ row'.selected = row.selected
    BY <1>1 DEF InGoodOrder, ImportTypes
<1>3. ImportTypes'
    BY <1>1, <1>2 DEF InGoodOrder, ImportTypes
<1>4. Settled'
    BY <1>2 DEF Settled
<1>5. \A v \in Workers : ~Busy(v)'
    BY <1>1 DEF InGoodOrder, Solo, Busy
<1>6. reselected' \/ (~reselected /\ row'.selected = row.selected)
    BY <1>1, <1>2 DEF InGoodOrder, ImportTypes
<1> QED
    BY <1>1, <1>2, <1>3, <1>4, <1>5, <1>6, AllRest

\* The job gets to the queue or not, its lock expires, or nothing happens.
LEMMA QueueStep ==
    ASSUME InGoodOrder,
           \/ Enqueue \/ EnqueueFails \/ UNCHANGED vars
           \/ \E w \in Workers : LoseLock(w)
    PROVE  InGoodOrder'
<1>1. CASE Enqueue
    <2>1. row.status # "none"
        BY <1>1 DEF Enqueue, InGoodOrder, Settled
    <2> QED
        BY <1>1, <2>1, SameWork DEF Enqueue, data, history
<1>2. CASE EnqueueFails
    <2>1. row.status # "none"
        BY <1>2 DEF EnqueueFails, InGoodOrder, Settled
    <2> QED
        BY <1>2, <2>1, SameWork DEF EnqueueFails, data
<1>3. CASE UNCHANGED vars
    BY <1>3, SameWork DEF vars, data, history
<1>4. ASSUME NEW w \in Workers, LoseLock(w) PROVE InGoodOrder'
    <2>1. row.status # "none"
        BY <1>4 DEF LoseLock, At, InGoodOrder, Settled
    <2> QED
        BY <1>4, <2>1, SameWork DEF LoseLock, data
<1> QED
    BY <1>1, <1>2, <1>3, <1>4

\* An import without its key: the process has nothing to do but to throw.
LEMMA KeylessStep ==
    ASSUME InGoodOrder, NEW w \in Workers, NEW j \in Jobs, StartWithoutKey(w, j)
    PROVE  InGoodOrder'
<1> DEFINE me == [Idle EXCEPT !.at = "throw", !.job = j]
<1>1. /\ bull[j].state = "waiting" /\ ~row.key
      /\ worker' = [worker EXCEPT ![w] = me]
      /\ UNCHANGED <<row, table, idMap, reselected>>
    BY DEF StartWithoutKey, Takes, data, history
<1>2. /\ me.at = "throw" /\ DOMAIN me = DOMAIN Idle
      /\ DOMAIN me.cache = {} /\ DOMAIN me.pending = {}
    BY IdleIs
<1> HIDE DEF me
<1>3. DOMAIN worker = Workers
    BY DEF InGoodOrder, ImportTypes
<1>4. DOMAIN worker' = Workers /\ worker'[w] = me /\ \A v \in Workers \ {w} : worker'[v] = worker[v]
    BY <1>1, <1>3
<1>5. \A v \in Workers : DOMAIN worker'[v] = DOMAIN Idle
    BY <1>2, <1>4, IdleIs DEF InGoodOrder, ImportTypes
<1>6. ImportTypes'
    BY <1>1, <1>4, <1>5, IdleIs DEF InGoodOrder, ImportTypes
<1>7. Settled'
    BY <1>1 DEF InGoodOrder, Settled
<1>8. \A v \in Workers : ~Busy(v)'
    BY <1>1, <1>2, <1>4 DEF InGoodOrder, Solo, Busy
<1>9. reselected' \/ ~reselected
    BY <1>1 DEF InGoodOrder, ImportTypes
<1> QED
    BY <1>1, <1>2, <1>4, <1>6, <1>7, <1>8, <1>9, AllRest

(***************************************************************************)
(* The steps of the process that runs the import.                          *)
(***************************************************************************)

\* One process is at work, and what it has done is in order.
LEMMA OneWorks ==
    ASSUME InGoodOrder, NEW w \in Workers, \A v \in Workers \ {w} : worker[v].at = "idle",
           ImportTypes', TableOK', \A map : Points(map) => Points(map)',
           (Points(idMap) /\ Points(worker[w].cache) /\ Points(worker[w].pending))',
           \A v \in Workers \ {w} : worker'[v] = worker[v],
           row'.status = "running", row'.key,
           Paging(w)' => (/\ worker[w].step \in row.selected
                          /\ worker[w].page \in 1..Len(Source[worker[w].step])
                          /\ worker[w].from \in Checkpoints
                          /\ worker[w].from # NoStep =>
                                Index[worker[w].from.step] <= Index[worker[w].step])',
           reselected' \/ (/\ row.checkpoint # NoStep => row.checkpoint.step \in row.selected
                           /\ \A r \in Passed : Done(r)
                           /\ CoveredBy(w))'
    PROVE  InGoodOrder'
<1>1. \A v \in Workers \ {w} : ~Busy(v)' /\ worker'[v].at = "idle"
    BY DEF Busy
<1>2. IdsOK'
    <2>1. ASSUME NEW v \in Workers
          PROVE  (Points(worker[v].cache) /\ Points(worker[v].pending))'
        <3>1. CASE v = w
            BY <3>1
        <3>2. CASE v # w
            <4>1. Points(worker[v].cache) /\ Points(worker[v].pending) /\ worker'[v] = worker[v]
                BY <3>2 DEF InGoodOrder, IdsOK
            <4>2. /\ Points(worker[v].cache)' <=> \A q \in DOMAIN worker[v].cache :
                         /\ q \in Rows /\ Refs[q] = {}
                         /\ worker[v].cache[q] \in DOMAIN table'
                         /\ table'[worker[v].cache[q]].key = q
                  /\ Points(worker[v].pending)' <=> \A q \in DOMAIN worker[v].pending :
                         /\ q \in Rows /\ Refs[q] = {}
                         /\ worker[v].pending[q] \in DOMAIN table'
                         /\ table'[worker[v].pending[q]].key = q
                BY <4>1 DEF Points
            <4>3. \A map : Points(map) => \A q \in DOMAIN map :
                         /\ q \in Rows /\ Refs[q] = {}
                         /\ map[q] \in DOMAIN table' /\ table'[map[q]].key = q
                BY DEF Points
            <4> QED
                BY <4>1, <4>2, <4>3
        <3> QED
            BY <3>1, <3>2
    <2> QED
        BY <2>1 DEF IdsOK
<1>3. Solo'
    BY <1>1 DEF Solo
<1>4. Settled'
    BY DEF Settled
<1>5. reselected' \/ Covered'
    BY <1>1 DEF Covered
<1> QED
    BY <1>2, <1>3, <1>4, <1>5 DEF InGoodOrder

\* The selection is made of steps of the pipeline, with the parents of each.
LEMMA SelectedAre ==
    ASSUME ImportTypes
    PROVE  /\ row.selected \subseteq Names
           /\ \A r \in Rows : \A q \in Refs[r] :
                 /\ q \in Rows /\ Refs[q] = {}
                 /\ Index[StepOf[q]] < Index[StepOf[r]]
                 /\ StepOf[r] \in row.selected => StepOf[q] \in row.selected
<1>1. row.selected \in Selections \cup {Names}
    BY DEF ImportTypes
<1>2. \A r \in Rows : \A q \in Refs[r] :
          q \in Rows /\ Refs[q] = {} /\ Index[StepOf[q]] < Index[StepOf[r]]
    BY ImportAssumption
<1>3. CASE row.selected = Names
    BY <1>2, <1>3, RowsAre
<1>4. CASE row.selected \in Selections
    <2>1. /\ row.selected \subseteq Names
          /\ \A r \in Rows, q \in Rows :
                 StepOf[r] \in row.selected /\ q \in Refs[r] => StepOf[q] \in row.selected
        BY <1>4, ImportAssumption
    <2> QED
        BY <1>2, <2>1
<1> QED
    BY <1>1, <1>3, <1>4

\* Where a process goes next.
LEMMA GoOnIs ==
    ASSUME NEW me, NEW todo, DOMAIN me = DOMAIN Idle
    PROVE  /\ DOMAIN GoOn(me, todo) = DOMAIN Idle
           /\ GoOn(me, todo).cache = me.cache /\ GoOn(me, todo).pending = me.pending
           /\ GoOn(me, todo).from = me.from
           /\ todo = {} => GoOn(me, todo).at = "finish"
           /\ todo # {} => /\ GoOn(me, todo).at = "fetch"
                           /\ GoOn(me, todo).step = First(todo)
                           /\ GoOn(me, todo).page = ResumePage(me.from, First(todo))
BY IdleIs DEF GoOn

\* What a run has to do: all of the selection, or what is from a step of it on.
LEMMA RemainingIs ==
    ASSUME NEW S, NEW from
    PROVE  /\ Remaining(S, from) \subseteq S
           /\ from = NoStep.step => Remaining(S, from) = S
           /\ from # NoStep.step => \A s \in S :
                  s \in Remaining(S, from) <=> from \in S /\ Index[s] >= Index[from]
<1>1. NoStep.step = ""
    BY Zenon DEF NoStep
<1>2. CASE from = NoStep.step
    <2>1. Remaining(S, from) = S
        BY <1>1, <1>2, Zenon DEF Remaining
    <2> QED
        BY <1>2, <2>1
<1>3. CASE from # NoStep.step
    <2> DEFINE later(s) == from \in S /\ Index[s] >= Index[from]
    <2>1. Remaining(S, from) = {s \in S : later(s)}
        BY <1>1, <1>3, Zenon DEF Remaining
    <2> HIDE DEF later
    <2>2. \A s \in S : s \in Remaining(S, from) <=> later(s)
        BY <2>1
    <2>3. Remaining(S, from) \subseteq S
        BY <2>1
    <2> QED
        BY <1>3, <2>2, <2>3 DEF later
<1> QED
    BY <1>2, <1>3

\* A run begins at the page of the checkpoint: what it skips is covered.
LEMMA StartStep ==
    ASSUME InGoodOrder, NEW w \in Workers, NEW j \in Jobs, Start(w, j), ~overlapped'
    PROVE  InGoodOrder'
<1> DEFINE me   == [Idle EXCEPT !.job = j, !.cache = idMap, !.from = row.checkpoint]
           todo == Remaining(row.selected, row.checkpoint.step)
           next == GoOn(me, todo)
<1>1. /\ worker' = [worker EXCEPT ![w] = next]
      /\ row.key /\ row' = [row EXCEPT !.status = "running"]
      /\ UNCHANGED <<table, idMap, reselected>>
      /\ worker[w].at = "idle" /\ \A v \in Workers \ {w} : worker[v].at = "idle"
    BY DEF Start, Takes, At, data
<1>2. /\ DOMAIN me = DOMAIN Idle /\ me.cache = idMap /\ DOMAIN me.pending = {}
      /\ me.from = row.checkpoint
    BY IdleIs DEF Idle
<1>3. /\ DOMAIN next = DOMAIN Idle /\ next.cache = idMap /\ DOMAIN next.pending = {}
      /\ next.from = row.checkpoint
      /\ todo = {} => next.at = "finish"
      /\ todo # {} => /\ next.at = "fetch" /\ next.step = First(todo)
                      /\ next.page = ResumePage(row.checkpoint, First(todo))
    <2> HIDE DEF me, todo
    <2> QED
        BY <1>2, GoOnIs
<1> HIDE DEF me, next
<1>4. DOMAIN worker = Workers /\ \A v \in Workers : DOMAIN worker[v] = DOMAIN Idle
    BY IdleIs DEF InGoodOrder, ImportTypes
<1>5. /\ DOMAIN worker' = Workers /\ worker'[w] = next
      /\ \A v \in Workers \ {w} : worker'[v] = worker[v]
      /\ \A v \in Workers : DOMAIN worker'[v] = DOMAIN Idle
    BY <1>1, <1>3, <1>4
<1>6. /\ row' \in [status : {"none", "pending", "running", "completed", "failed"},
                   checkpoint : Checkpoints, progressed : BOOLEAN, key : BOOLEAN,
                   selected : Selections \cup {Names}]
      /\ row'.status = "running" /\ row'.key
      /\ row'.checkpoint = row.checkpoint /\ row'.selected = row.selected
    BY <1>1 DEF InGoodOrder, ImportTypes
<1>7. ImportTypes'
    BY <1>1, <1>5, <1>6, IdleIs DEF InGoodOrder, ImportTypes
<1>8. TableOK' /\ \A map : Points(map)' <=> Points(map)
    BY <1>1, SameData DEF InGoodOrder
<1>9. (Points(idMap) /\ Points(worker[w].cache) /\ Points(worker[w].pending))'
    <2>1. Points(idMap)
        BY DEF InGoodOrder, IdsOK
    <2> QED
        BY <1>1, <1>3, <1>5, <2>1 DEF Points
<1>10. row.selected \subseteq Names /\ todo \subseteq row.selected
    BY SelectedAre, RemainingIs DEF InGoodOrder
<1>11. /\ row.checkpoint \in Checkpoints
       /\ row.checkpoint # NoStep =>
             /\ row.checkpoint.step \in Names /\ row.checkpoint.step # NoStep.step
             /\ row.checkpoint.page \in 1..Len(Source[row.checkpoint.step])
       /\ row.checkpoint = NoStep => row.checkpoint.step = NoStep.step /\ todo = row.selected
    <2>1. row.checkpoint \in Checkpoints
          /\ (row.checkpoint # NoStep =>
                 row.checkpoint.page \in 1..Len(Source[row.checkpoint.step]))
        BY DEF InGoodOrder, ImportTypes
    <2>2. row.checkpoint # NoStep => row.checkpoint.step \in Names
        BY <2>1 DEF Checkpoints
    <2>3. row.checkpoint = NoStep => row.checkpoint.step = NoStep.step /\ todo = row.selected
        BY RemainingIs
    <2> HIDE DEF todo
    <2> QED
        BY <2>1, <2>2, <2>3, StepsAre
<1>12. todo # {} => First(todo) \in todo /\ \A q \in todo : Index[First(todo)] <= Index[q]
    <2> HIDE DEF todo
    <2> QED
        BY <1>10, FirstIs
<1>13. row.checkpoint # NoStep => \A s \in todo : Index[row.checkpoint.step] <= Index[s]
    <2>1. \A s \in Names : Index[s] \in Nat
        BY IndexIs
    <2> QED
        BY <1>10, <1>11, <2>1, RemainingIs
<1>14. Paging(w)' => (/\ worker[w].step \in row.selected
                      /\ worker[w].page \in 1..Len(Source[worker[w].step])
                      /\ worker[w].from \in Checkpoints
                      /\ worker[w].from # NoStep =>
                            Index[worker[w].from.step] <= Index[worker[w].step])'
    <2> SUFFICES ASSUME Paging(w)'
                 PROVE  /\ next.step \in row.selected
                        /\ next.page \in 1..Len(Source[next.step])
                        /\ next.from \in Checkpoints
                        /\ next.from # NoStep => Index[next.from.step] <= Index[next.step]
        BY <1>5, <1>6
    <2>1. todo # {}
        BY <1>3, <1>5 DEF Paging
    <2>2. next.step = First(todo) /\ First(todo) \in todo
        BY <1>3, <1>12, <2>1
    <2>3. next.page \in 1..Len(Source[next.step])
        <3>1. 1 \in 1..Len(Source[next.step])
            <4>1. next.step \in Names
                BY <1>10, <2>2
            <4>2. Len(Source[next.step]) \in Nat \ {0}
                BY <4>1, StepsAre
            <4> QED
                BY <4>2
        <3>2. CASE row.checkpoint.step = next.step
            <4>1. row.checkpoint # NoStep
                BY <1>10, <1>11, <2>2, <3>2, StepsAre
            <4> QED
                BY <1>3, <1>11, <2>1, <2>2, <3>2, <4>1 DEF ResumePage
        <3>3. CASE row.checkpoint.step # next.step
            BY <1>3, <2>1, <2>2, <3>1, <3>3 DEF ResumePage
        <3> QED
            BY <3>2, <3>3
    <2> QED
        BY <1>3, <1>10, <1>11, <1>13, <2>2, <2>3
<1>15. reselected' \/ (/\ row.checkpoint # NoStep => row.checkpoint.step \in row.selected
                       /\ \A r \in Passed : Done(r)
                       /\ CoveredBy(w))'
    <2> SUFFICES ASSUME ~reselected'
                 PROVE  (/\ row.checkpoint # NoStep => row.checkpoint.step \in row.selected
                         /\ \A r \in Passed : Done(r)
                         /\ CoveredBy(w))'
        OBVIOUS
    <2>1. Covered
        BY <1>1 DEF InGoodOrder
    <2>2. \A r : Done(r)' <=> Done(r)
        BY <1>1, SameData
    <2>3. Passed' = Passed
        BY <1>6 DEF Passed
    <2>4. \A s \in Names : Index[s] \in Nat
        BY IndexIs
    <2>5. ASSUME todo # {}, NEW r \in Before(w)' PROVE Done(r)
        <3>1. /\ r \in Rows /\ StepOf[r] \in row.selected
              /\ Index[StepOf[r]] < Index[First(todo)] \/ r \in RowsUpTo(First(todo), next.page - 1)
            BY <1>3, <1>5, <1>6, <2>5 DEF Before
        <3>2. First(todo) \in Names
            BY <1>10, <1>12, <2>5
        <3>3. CASE row.checkpoint = NoStep
            <4>1. next.page = 1
                BY <1>3, <1>11, <2>5, <3>2, <3>3, StepsAre DEF ResumePage
            <4>2. RowsUpTo(First(todo), 0) = {}
                BY <3>2, RowsAre
            <4>3. Index[First(todo)] <= Index[StepOf[r]]
                BY <1>11, <1>12, <2>5, <3>1, <3>3
            <4>4. Index[First(todo)] \in Nat /\ Index[StepOf[r]] \in Nat
                BY <1>10, <2>4, <3>1, <3>2
            <4> QED
                BY <3>1, <4>1, <4>2, <4>3, <4>4
        <3>4. CASE row.checkpoint # NoStep
            <4> DEFINE c == row.checkpoint.step
            <4>1. c \in row.selected /\ c \in Names /\ c # NoStep.step
                BY <1>11, <2>1, <3>4 DEF Covered
            <4>2. c \in todo
                <5>1. Index[c] \in Nat
                    BY <2>4, <4>1
                <5> QED
                    BY <4>1, <5>1, RemainingIs
            <4>3. Index[First(todo)] <= Index[c] /\ Index[c] <= Index[First(todo)]
                BY <1>12, <1>13, <2>5, <3>4, <4>2
            <4>4. First(todo) = c
                <5>1. Index[First(todo)] \in Nat /\ Index[c] \in Nat
                    BY <2>4, <3>2, <4>1
                <5>2. Index[First(todo)] = Index[c]
                    BY <4>3, <5>1
                <5> QED
                    BY <3>2, <4>1, <5>2, StepsAre
            <4>5. next.page = row.checkpoint.page
                BY <1>3, <2>5, <4>4 DEF ResumePage
            <4>6. RowsUpTo(c, row.checkpoint.page - 1) \subseteq RowsUpTo(c, row.checkpoint.page)
                <5>1. row.checkpoint.page \in 1..Len(Source[c])
                    BY <1>11, <3>4
                <5>2. RowsUpTo(c, row.checkpoint.page) =
                          RowsUpTo(c, row.checkpoint.page - 1) \cup Source[c][row.checkpoint.page]
                    <6> HIDE DEF c
                    <6> QED
                        BY <4>1, <5>1, RowsAre
                <5> QED
                    BY <5>2
            <4>7. r \in Passed
                BY <3>1, <3>4, <4>4, <4>5, <4>6 DEF Passed
            <4> QED
                BY <2>1, <4>7 DEF Covered
        <3> QED
            BY <3>3, <3>4
    <2>6. ASSUME todo = {}, NEW r \in Rows, StepOf[r] \in row.selected PROVE Done(r)
        <3>1. row.checkpoint # NoStep
            BY <1>11, <2>6
        <3>2. row.checkpoint.step \in row.selected /\ row.checkpoint.step \in Names
            BY <1>11, <2>1, <3>1 DEF Covered
        <3>3. row.checkpoint.step \in todo
            <4>1. Index[row.checkpoint.step] \in Nat
                BY <2>4, <3>2
            <4> QED
                BY <1>11, <3>1, <3>2, <4>1, RemainingIs
        <3> QED
            BY <2>6, <3>3
    <2>7. next.at \in {"fetch", "finish"} /\ (next.at = "fetch" <=> todo # {})
        BY <1>3
    <2>8. CoveredBy(w)'
        <3>1. (DOMAIN idMap \subseteq DOMAIN worker[w].cache)'
            BY <1>1, <1>3, <1>5
        <3>2. Paging(w)' => \A r \in Before(w)' : Done(r)'
            BY <1>5, <2>2, <2>5, <2>7 DEF Paging
        <3>3. At(w, "finish")' => (\A r \in Rows : StepOf[r] \in row.selected => Done(r))'
            BY <1>5, <1>6, <2>2, <2>6, <2>7 DEF At
        <3>4. ~At(w, "record")' /\ ~At(w, "progress")'
            BY <1>5, <2>7 DEF At
        <3> QED
            BY <3>1, <3>2, <3>3, <3>4 DEF CoveredBy
    <2> QED
        BY <1>6, <2>1, <2>2, <2>3, <2>8 DEF Covered
<1> QED
    BY <1>1, <1>5, <1>6, <1>7, <1>8, <1>9, <1>14, <1>15, OneWorks

\* What is known of a process on a page.
LEMMA AtWork ==
    ASSUME InGoodOrder, NEW w \in Workers, Paging(w)
    PROVE  /\ row.status = "running" /\ row.key
           /\ \A v \in Workers \ {w} : worker[v].at = "idle"
           /\ OnPage(w) /\ worker[w].step \in row.selected
           /\ worker[w].from \in Checkpoints
           /\ worker[w].from # NoStep => Index[worker[w].from.step] <= Index[worker[w].step]
           /\ TableOK /\ Points(idMap) /\ Points(worker[w].cache) /\ Points(worker[w].pending)
           /\ DOMAIN worker = Workers /\ \A v \in Workers : DOMAIN worker[v] = DOMAIN Idle
           /\ reselected \/ (Covered /\ CoveredBy(w))
<1>1. Busy(w)
    BY DEF Paging, Busy
<1>2. row.selected \subseteq Names
    BY SelectedAre DEF InGoodOrder
<1>3. worker[w].step \in row.selected /\ OnPage(w)
    BY <1>1, <1>2 DEF InGoodOrder, Solo, OnPage
<1>4. \A v \in Workers : DOMAIN worker[v] = DOMAIN Idle
    BY IdleIs DEF InGoodOrder, ImportTypes
<1>5. reselected \/ (Covered /\ CoveredBy(w))
    BY <1>1 DEF InGoodOrder, Covered
<1> QED
    BY <1>1, <1>3, <1>4, <1>5 DEF InGoodOrder, ImportTypes, Solo, IdsOK

\* A page is written: its rows are in the account, and the ids of its entities found.
LEMMA CommitStep ==
    ASSUME InGoodOrder, NEW w \in Workers, Commit(w)
    PROVE  InGoodOrder'
<1> DEFINE found == {r \in Candidates(w) : Refs[r] = {}}
           ids   == [r \in found |-> IdOf(table', Entry(w, r))]
<1>1. /\ worker[w].at = "fetch" /\ Paging(w)
      /\ table' = table \o SetToSeq(Missing(w))
      /\ worker' = [worker EXCEPT ![w].at = "record", ![w].pending = ids]
      /\ UNCHANGED <<row, idMap, reselected>>
    BY DEF Commit, At, Paging, history
<1> HIDE DEF ids
<1>2. /\ row.status = "running" /\ row.key
      /\ \A v \in Workers \ {w} : worker[v].at = "idle"
      /\ OnPage(w) /\ worker[w].step \in row.selected
      /\ worker[w].from \in Checkpoints
      /\ worker[w].from # NoStep => Index[worker[w].from.step] <= Index[worker[w].step]
      /\ TableOK /\ Points(idMap) /\ Points(worker[w].cache) /\ Points(worker[w].pending)
      /\ DOMAIN worker = Workers /\ \A v \in Workers : DOMAIN worker[v] = DOMAIN Idle
      /\ reselected \/ (Covered /\ CoveredBy(w))
    BY <1>1, AtWork
<1>3. /\ TableOK'
      /\ \A i \in DOMAIN table : i \in DOMAIN table' /\ table'[i] = table[i]
      /\ \A r \in Rows : Imported(r) \subseteq Imported(r)'
      /\ \A r \in Candidates(w) :
             \E i \in DOMAIN table' : table'[i] = Entry(w, r) /\ i \in Imported(r)'
    BY <1>1, <1>2, Committed
<1>4. /\ DOMAIN worker' = Workers
      /\ \A v \in Workers \ {w} : worker'[v] = worker[v]
      /\ \A v \in Workers : DOMAIN worker'[v] = DOMAIN Idle
      /\ worker'[w].at = "record" /\ worker'[w].pending = ids
      /\ worker'[w].cache = worker[w].cache /\ worker'[w].from = worker[w].from
      /\ worker'[w].step = worker[w].step /\ worker'[w].page = worker[w].page
    BY <1>1, <1>2, IdleIs
<1>5. ImportTypes'
    BY <1>1, <1>4, IdleIs DEF InGoodOrder, ImportTypes
<1>6. \A map : Points(map) => Points(map)'
    BY <1>3 DEF Points
<1>7. DOMAIN ids = found /\ \A q \in found : /\ q \in Rows /\ Refs[q] = {}
                               /\ ids[q] \in DOMAIN table' /\ table'[ids[q]].key = q
    <2> SUFFICES ASSUME NEW q \in found
                 PROVE  /\ q \in Rows /\ Refs[q] = {}
                        /\ ids[q] \in DOMAIN table' /\ table'[ids[q]].key = q
        BY DEF ids
    <2>1. /\ q \in Rows /\ Refs[q] = {} /\ Entry(w, q).key = q
        BY <1>2, EntryIs
    <2>2. PICK i \in DOMAIN table' : table'[i] = Entry(w, q)
        BY <1>3
    <2>3. DOMAIN table' \subseteq Nat /\ \A k \in DOMAIN table' : table'[k] = table'[i] => k = i
        <3>1. DOMAIN table' = 1..Len(table') /\ Len(table') \in Nat
            BY <1>3, LenProperties DEF TableOK
        <3> QED
            BY <1>3, <3>1 DEF TableOK
    <2>4. i \in DOMAIN table' /\ table'[i] = Entry(w, q)
          /\ \A k \in DOMAIN table' : table'[k] = Entry(w, q) => k <= i
        BY <2>2, <2>3
    <2>5. /\ IdOf(table', Entry(w, q)) \in DOMAIN table'
          /\ table'[IdOf(table', Entry(w, q))] = Entry(w, q)
        BY <2>4 DEF IdOf
    <2> QED
        BY <2>1, <2>5 DEF ids
<1>8. (Points(idMap) /\ Points(worker[w].cache) /\ Points(worker[w].pending))'
    <2>1. Points(idMap)' <=> \A q \in DOMAIN idMap : /\ q \in Rows /\ Refs[q] = {}
                                /\ idMap[q] \in DOMAIN table' /\ table'[idMap[q]].key = q
        BY <1>1 DEF Points
    <2>2. \A q \in DOMAIN idMap : /\ q \in Rows /\ Refs[q] = {}
                                  /\ idMap[q] \in DOMAIN table' /\ table'[idMap[q]].key = q
        BY <1>2, <1>3 DEF Points
    <2>3. Points(worker[w].cache)' <=>
              \A q \in DOMAIN worker[w].cache :
                  /\ q \in Rows /\ Refs[q] = {}
                  /\ worker[w].cache[q] \in DOMAIN table' /\ table'[worker[w].cache[q]].key = q
        BY <1>4 DEF Points
    <2>4. \A q \in DOMAIN worker[w].cache :
              /\ q \in Rows /\ Refs[q] = {}
              /\ worker[w].cache[q] \in DOMAIN table' /\ table'[worker[w].cache[q]].key = q
        BY <1>2, <1>3 DEF Points
    <2>5. Points(worker[w].pending)'
        BY <1>4, <1>7 DEF Points
    <2> QED
        BY <2>1, <2>2, <2>3, <2>4, <2>5
<1>9. Paging(w)' => (/\ worker[w].step \in row.selected
                     /\ worker[w].page \in 1..Len(Source[worker[w].step])
                     /\ worker[w].from \in Checkpoints
                     /\ worker[w].from # NoStep =>
                           Index[worker[w].from.step] <= Index[worker[w].step])'
    BY <1>1, <1>2, <1>4 DEF OnPage
<1>10. reselected' \/ (/\ row.checkpoint # NoStep => row.checkpoint.step \in row.selected
                       /\ \A r \in Passed : Done(r)
                       /\ CoveredBy(w))'
    <2> SUFFICES ASSUME ~reselected'
                 PROVE  (/\ row.checkpoint # NoStep => row.checkpoint.step \in row.selected
                         /\ \A r \in Passed : Done(r)
                         /\ CoveredBy(w))'
        OBVIOUS
    <2>1. Covered /\ CoveredBy(w)
        BY <1>1, <1>2
    <2>2. \A r \in Rows : Done(r) => Done(r)'
        BY <1>1, <1>3 DEF Done
    <2>3. Passed' = Passed /\ Passed \subseteq Rows
        BY <1>1 DEF Passed
    <2>4. Before(w)' = Before(w) /\ Before(w) \subseteq Rows
        BY <1>1, <1>4 DEF Before
    <2>5. Page(w)' = Page(w) /\ Page(w) \subseteq Rows
        BY <1>2, <1>4, PageIs DEF Page
    <2>6. ASSUME NEW r \in Page(w), NEW q \in Refs[r] PROVE q \in DOMAIN worker[w].cache
        <3>1. r \in Rows /\ StepOf[r] = worker[w].step
            BY <1>2, PageIs
        <3>2. /\ q \in Rows /\ Refs[q] = {}
              /\ Index[StepOf[q]] < Index[worker[w].step]
              /\ StepOf[q] \in row.selected
            BY <1>2, <3>1, SelectedAre DEF InGoodOrder
        <3>3. q \in Before(w)
            BY <3>2 DEF Before
        <3> QED
            BY <1>1, <2>1, <3>2, <3>3 DEF CoveredBy, Done
    <2>7. ASSUME NEW r \in Page(w)
          PROVE  /\ Imported(r)' # {}
                 /\ Refs[r] = {} => r \in DOMAIN ids
        <3>1. r \in Candidates(w)
            BY <2>6 DEF Candidates
        <3> QED
            BY <1>3, <3>1 DEF ids
    <2>8. CoveredBy(w)'
        <3>1. (DOMAIN idMap \subseteq DOMAIN worker[w].cache)'
            BY <1>1, <1>4, <2>1 DEF CoveredBy
        <3>2. \A r \in Before(w)' : Done(r)'
            BY <1>1, <2>1, <2>2, <2>4 DEF CoveredBy
        <3>3. (\A r \in Page(w) :
                  /\ Imported(r) # {}
                  /\ Refs[r] = {} => r \in DOMAIN idMap \cup DOMAIN worker[w].pending)'
            BY <1>4, <2>5, <2>7
        <3>4. ~At(w, "progress")' /\ ~At(w, "finish")'
            BY <1>4 DEF At
        <3> QED
            BY <3>1, <3>2, <3>3, <3>4 DEF CoveredBy
    <2> QED
        BY <1>1, <2>1, <2>2, <2>3, <2>8 DEF Covered
<1> QED
    BY <1>1, <1>2, <1>3, <1>4, <1>5, <1>6, <1>8, <1>9, <1>10, OneWorks

\* The id of one entity of the page is recorded.
LEMMA RecordStep ==
    ASSUME InGoodOrder, NEW w \in Workers, Record(w)
    PROVE  InGoodOrder'
<1> DEFINE pending == worker[w].pending
           cache   == worker[w].cache
<1>1. PICK r \in DOMAIN pending :
          /\ idMap' = [q \in DOMAIN idMap \cup {r} |->
                         IF q \in DOMAIN idMap THEN idMap[q] ELSE pending[r]]
          /\ worker' = [worker EXCEPT
                ![w].cache = [q \in DOMAIN @ \cup {r} |-> IF q = r THEN pending[r] ELSE @[q]],
                ![w].pending = Restrict(@, DOMAIN @ \ {r})]
    BY DEF Record
<1>2. /\ worker[w].at = "record" /\ Paging(w)
      /\ UNCHANGED <<row, table, reselected>>
    BY DEF Record, At, Paging, history
<1>3. /\ row.status = "running" /\ row.key
      /\ \A v \in Workers \ {w} : worker[v].at = "idle"
      /\ OnPage(w) /\ worker[w].step \in row.selected
      /\ worker[w].from \in Checkpoints
      /\ worker[w].from # NoStep => Index[worker[w].from.step] <= Index[worker[w].step]
      /\ TableOK /\ Points(idMap) /\ Points(cache) /\ Points(pending)
      /\ DOMAIN worker = Workers /\ \A v \in Workers : DOMAIN worker[v] = DOMAIN Idle
      /\ reselected \/ (Covered /\ CoveredBy(w))
    BY <1>2, AtWork
<1>4. /\ DOMAIN worker' = Workers
      /\ \A v \in Workers \ {w} : worker'[v] = worker[v]
      /\ \A v \in Workers : DOMAIN worker'[v] = DOMAIN Idle
      /\ worker'[w].at = "record" /\ worker'[w].from = worker[w].from
      /\ worker'[w].step = worker[w].step /\ worker'[w].page = worker[w].page
      /\ worker'[w].cache = [q \in DOMAIN cache \cup {r} |-> IF q = r THEN pending[r] ELSE cache[q]]
      /\ worker'[w].pending = Restrict(pending, DOMAIN pending \ {r})
    BY <1>1, <1>2, <1>3, IdleIs
<1>5. /\ DOMAIN idMap' = DOMAIN idMap \cup {r}
      /\ \A q \in DOMAIN idMap' :
             idMap'[q] = IF q \in DOMAIN idMap THEN idMap[q] ELSE pending[r]
    BY <1>1
<1>6. /\ DOMAIN worker'[w].cache = DOMAIN cache \cup {r}
      /\ \A q \in DOMAIN worker'[w].cache :
             worker'[w].cache[q] = IF q = r THEN pending[r] ELSE cache[q]
    <2> HIDE DEF pending, cache
    <2> QED
        BY <1>4
<1>7. /\ DOMAIN worker'[w].pending = DOMAIN pending \ {r}
      /\ \A q \in DOMAIN worker'[w].pending : worker'[w].pending[q] = pending[q]
    <2> HIDE DEF pending, cache
    <2> QED
        BY <1>4 DEF Restrict
<1>8. ImportTypes'
    BY <1>2, <1>4, IdleIs DEF InGoodOrder, ImportTypes
<1>9. TableOK' /\ \A map : Points(map) => Points(map)'
    BY <1>2, <1>3 DEF TableOK, Points
<1>10. (Points(idMap) /\ Points(worker[w].cache) /\ Points(worker[w].pending))'
    <2>1. /\ \A q \in DOMAIN idMap \cup DOMAIN cache \cup DOMAIN pending :
                 q \in Rows /\ Refs[q] = {}
          /\ \A q \in DOMAIN idMap : idMap[q] \in DOMAIN table /\ table[idMap[q]].key = q
          /\ \A q \in DOMAIN cache : cache[q] \in DOMAIN table /\ table[cache[q]].key = q
          /\ \A q \in DOMAIN pending : pending[q] \in DOMAIN table /\ table[pending[q]].key = q
        BY <1>3 DEF Points
    <2> HIDE DEF pending, cache
    <2>2. Points(idMap)'
        BY <1>1, <1>2, <1>5, <2>1 DEF Points
    <2>3. Points(worker[w].cache)'
        <3>1. \A q \in DOMAIN worker'[w].cache :
                  /\ q \in Rows /\ Refs[q] = {}
                  /\ worker'[w].cache[q] \in DOMAIN table /\ table[worker'[w].cache[q]].key = q
            BY <1>6, <2>1
        <3> QED
            BY <1>2, <3>1 DEF Points
    <2>4. Points(worker[w].pending)'
        BY <1>2, <1>7, <2>1 DEF Points
    <2> QED
        BY <2>2, <2>3, <2>4
<1>11. Paging(w)' => (/\ worker[w].step \in row.selected
                      /\ worker[w].page \in 1..Len(Source[worker[w].step])
                      /\ worker[w].from \in Checkpoints
                      /\ worker[w].from # NoStep =>
                            Index[worker[w].from.step] <= Index[worker[w].step])'
    BY <1>2, <1>3, <1>4 DEF OnPage
<1>12. reselected' \/ (/\ row.checkpoint # NoStep => row.checkpoint.step \in row.selected
                       /\ \A q \in Passed : Done(q)
                       /\ CoveredBy(w))'
    <2> SUFFICES ASSUME ~reselected'
                 PROVE  (/\ row.checkpoint # NoStep => row.checkpoint.step \in row.selected
                         /\ \A q \in Passed : Done(q)
                         /\ CoveredBy(w))'
        OBVIOUS
    <2>1. Covered /\ CoveredBy(w)
        BY <1>2, <1>3
    <2>2. \A q : Imported(q)' = Imported(q) /\ (Done(q) => Done(q)')
        BY <1>2, <1>5 DEF Done, Imported
    <2>3. Passed' = Passed /\ Before(w)' = Before(w) /\ Page(w)' = Page(w)
        BY <1>2, <1>4 DEF Passed, Before, Page
    <2>4. CoveredBy(w)'
        <3>1. (DOMAIN idMap \subseteq DOMAIN worker[w].cache)'
            BY <1>5, <1>6, <2>1 DEF CoveredBy
        <3>2. \A q \in Before(w)' : Done(q)'
            BY <1>2, <2>1, <2>2, <2>3 DEF CoveredBy
        <3>3. (\A q \in Page(w) :
                  /\ Imported(q) # {}
                  /\ Refs[q] = {} => q \in DOMAIN idMap \cup DOMAIN worker[w].pending)'
            BY <1>2, <1>5, <1>7, <2>1, <2>2, <2>3 DEF CoveredBy, At
        <3>4. ~At(w, "progress")' /\ ~At(w, "finish")'
            BY <1>4 DEF At
        <3> QED
            BY <3>1, <3>2, <3>3, <3>4 DEF CoveredBy
    <2> QED
        BY <1>2, <2>1, <2>2, <2>3, <2>4 DEF Covered
<1> QED
    BY <1>2, <1>3, <1>4, <1>8, <1>9, <1>10, <1>11, <1>12, OneWorks

\* The selected rows up to a page: those before it, and its own.
LEMMA ThroughPage ==
    ASSUME NEW w, OnPage(w), NEW r \in Rows, StepOf[r] \in row.selected,
           \/ Index[StepOf[r]] < Index[worker[w].step]
           \/ r \in RowsUpTo(worker[w].step, worker[w].page)
    PROVE  r \in Before(w) \/ r \in Page(w)
<1> DEFINE s == worker[w].step
           p == worker[w].page
<1>1. RowsUpTo(s, p) = RowsUpTo(s, p - 1) \cup Source[s][p]
    <2>1. s \in Names /\ p \in 1..Len(Source[s])
        BY DEF OnPage
    <2> HIDE DEF s, p
    <2> QED
        BY <2>1, RowsAre
<1> QED
    BY <1>1 DEF Before, Page

\* The checkpoint moves to the page that has been recorded.
LEMMA SetCheckpointStep ==
    ASSUME InGoodOrder, NEW w \in Workers, SetCheckpoint(w)
    PROVE  InGoodOrder'
<1> DEFINE here == [step |-> worker[w].step, page |-> worker[w].page]
<1>1. /\ worker[w].at = "record" /\ Paging(w)
      /\ DOMAIN worker[w].pending = {}
      /\ row' = [row EXCEPT !.checkpoint = here]
      /\ worker' = [worker EXCEPT ![w].at = "progress"]
      /\ UNCHANGED <<table, idMap, reselected>>
    BY DEF SetCheckpoint, At, Paging, data, history
<1>2. /\ row.status = "running" /\ row.key
      /\ \A v \in Workers \ {w} : worker[v].at = "idle"
      /\ OnPage(w) /\ worker[w].step \in row.selected
      /\ worker[w].from \in Checkpoints
      /\ worker[w].from # NoStep => Index[worker[w].from.step] <= Index[worker[w].step]
      /\ TableOK /\ Points(idMap) /\ Points(worker[w].cache) /\ Points(worker[w].pending)
      /\ DOMAIN worker = Workers /\ \A v \in Workers : DOMAIN worker[v] = DOMAIN Idle
      /\ reselected \/ (Covered /\ CoveredBy(w))
    BY <1>1, AtWork
<1>3. /\ DOMAIN worker' = Workers
      /\ \A v \in Workers \ {w} : worker'[v] = worker[v]
      /\ \A v \in Workers : DOMAIN worker'[v] = DOMAIN Idle
      /\ worker'[w].at = "progress" /\ worker'[w].from = worker[w].from
      /\ worker'[w].step = worker[w].step /\ worker'[w].page = worker[w].page
      /\ worker'[w].cache = worker[w].cache /\ worker'[w].pending = worker[w].pending
    BY <1>1, <1>2, IdleIs
<1>4. here \in Checkpoints /\ here.page \in 1..Len(Source[here.step])
    <2>1. worker[w].page \in Nat
        BY <1>2 DEF OnPage
    <2> QED
        BY <1>2, <2>1 DEF OnPage, Checkpoints
<1>5. here.step = worker[w].step /\ here.page = worker[w].page
    OBVIOUS
<1> HIDE DEF here
<1>6. /\ row' \in [status : {"none", "pending", "running", "completed", "failed"},
                   checkpoint : Checkpoints, progressed : BOOLEAN, key : BOOLEAN,
                   selected : Selections \cup {Names}]
      /\ row'.status = "running" /\ row'.key
      /\ row'.checkpoint = here /\ row'.selected = row.selected
    BY <1>1, <1>2, <1>4 DEF InGoodOrder, ImportTypes
<1>7. ImportTypes'
    BY <1>1, <1>3, <1>4, <1>6, IdleIs DEF InGoodOrder, ImportTypes
<1>8. TableOK' /\ \A map : Points(map)' <=> Points(map)
    BY <1>1, <1>2, SameData
<1>9. (Points(idMap) /\ Points(worker[w].cache) /\ Points(worker[w].pending))'
    BY <1>1, <1>2, <1>3 DEF Points
<1>10. Paging(w)' => (/\ worker[w].step \in row.selected
                      /\ worker[w].page \in 1..Len(Source[worker[w].step])
                      /\ worker[w].from \in Checkpoints
                      /\ worker[w].from # NoStep =>
                            Index[worker[w].from.step] <= Index[worker[w].step])'
    BY <1>2, <1>3, <1>6 DEF OnPage
<1>11. reselected' \/ (/\ row.checkpoint # NoStep => row.checkpoint.step \in row.selected
                       /\ \A r \in Passed : Done(r)
                       /\ CoveredBy(w))'
    <2> SUFFICES ASSUME ~reselected'
                 PROVE  (/\ row.checkpoint # NoStep => row.checkpoint.step \in row.selected
                         /\ \A r \in Passed : Done(r)
                         /\ CoveredBy(w))'
        OBVIOUS
    <2>1. Covered /\ CoveredBy(w)
        BY <1>1, <1>2
    <2>2. \A r : Imported(r)' = Imported(r) /\ (Done(r)' <=> Done(r))
        BY <1>1, SameData
    <2>3. \A r \in Before(w) : Done(r)
        BY <1>1, <2>1 DEF CoveredBy
    <2>4. \A r \in Page(w) : Done(r)
        BY <1>1, <2>1 DEF CoveredBy, At, Done
    <2>5. ASSUME NEW r \in Passed' PROVE Done(r)
        <3>1. /\ r \in Rows /\ StepOf[r] \in row.selected
              /\ \/ Index[StepOf[r]] < Index[worker[w].step]
                 \/ r \in RowsUpTo(worker[w].step, worker[w].page)
            BY <1>5, <1>6, <2>5 DEF Passed
        <3>2. r \in Before(w) \/ r \in Page(w)
            BY <1>2, <3>1, ThroughPage
        <3> QED
            BY <2>3, <2>4, <3>2
    <2>6. Before(w)' = Before(w) /\ Page(w)' = Page(w)
        BY <1>3, <1>6 DEF Before, Page
    <2>7. CoveredBy(w)'
        <3>1. (DOMAIN idMap \subseteq DOMAIN worker[w].cache)'
            BY <1>1, <1>3, <2>1 DEF CoveredBy
        <3>2. ~At(w, "record")' /\ ~At(w, "finish")'
            BY <1>3 DEF At
        <3> QED
            BY <2>2, <2>3, <2>4, <2>6, <3>1, <3>2 DEF CoveredBy
    <2> QED
        BY <1>2, <1>5, <1>6, <2>2, <2>5, <2>7
<1> QED
    BY <1>2, <1>3, <1>6, <1>7, <1>8, <1>9, <1>10, <1>11, OneWorks

\* On to the next page, the next step or the end: nothing is left behind.
LEMMA UpdateProgressStep ==
    ASSUME InGoodOrder, NEW w \in Workers, UpdateProgress(w)
    PROVE  InGoodOrder'
<1> DEFINE me   == worker[w]
           step == me.step
           page == me.page
           todo == {s \in row.selected : Index[s] > Index[step]}
<1>1. /\ me.at = "progress" /\ Paging(w)
      /\ row' = [row EXCEPT !.progressed = TRUE]
      /\ worker' = [worker EXCEPT ![w] =
                      IF page < Len(Source[step])
                      THEN [me EXCEPT !.at = "fetch", !.page = page + 1]
                      ELSE GoOn(me, todo)]
      /\ UNCHANGED <<table, idMap, reselected>>
    <2>1. worker' = [worker EXCEPT ![w] =
                       IF page < Len(Source[step])
                       THEN [me EXCEPT !.at = "fetch", !.page = page + 1]
                       ELSE GoOn(me, todo)]
        BY Zenon DEF UpdateProgress
    <2> QED
        BY <2>1 DEF UpdateProgress, At, Paging, data, history
<1>2. /\ row.status = "running" /\ row.key
      /\ \A v \in Workers \ {w} : worker[v].at = "idle"
      /\ OnPage(w) /\ step \in row.selected
      /\ me.from \in Checkpoints
      /\ me.from # NoStep => Index[me.from.step] <= Index[step]
      /\ TableOK /\ Points(idMap) /\ Points(me.cache) /\ Points(me.pending)
      /\ DOMAIN worker = Workers /\ \A v \in Workers : DOMAIN worker[v] = DOMAIN Idle
      /\ reselected \/ (Covered /\ CoveredBy(w))
    BY <1>1, AtWork
<1>3. /\ row' \in [status : {"none", "pending", "running", "completed", "failed"},
                   checkpoint : Checkpoints, progressed : BOOLEAN, key : BOOLEAN,
                   selected : Selections \cup {Names}]
      /\ row'.status = "running" /\ row'.key
      /\ row'.checkpoint = row.checkpoint /\ row'.selected = row.selected
    BY <1>1, <1>2 DEF InGoodOrder, ImportTypes
<1>4. step \in Names /\ page \in 1..Len(Source[step]) /\ Len(Source[step]) \in Nat
    BY <1>2, StepsAre DEF OnPage
<1>5. row.selected \subseteq Names /\ todo \subseteq Names
    BY SelectedAre DEF InGoodOrder
<1>6. CASE page < Len(Source[step])
    <2>1. /\ DOMAIN worker' = Workers
          /\ \A v \in Workers \ {w} : worker'[v] = worker[v]
          /\ \A v \in Workers : DOMAIN worker'[v] = DOMAIN Idle
          /\ worker'[w].at = "fetch" /\ worker'[w].from = me.from
          /\ worker'[w].step = step /\ worker'[w].page = page + 1
          /\ worker'[w].cache = me.cache /\ worker'[w].pending = me.pending
        BY <1>1, <1>2, <1>6, IdleIs
    <2>2. ImportTypes'
        BY <1>1, <1>3, <2>1, IdleIs DEF InGoodOrder, ImportTypes
    <2>3. TableOK' /\ \A map : Points(map)' <=> Points(map)
        BY <1>1, <1>2, SameData
    <2>4. (Points(idMap) /\ Points(worker[w].cache) /\ Points(worker[w].pending))'
        <3>1. table' = table /\ idMap' = idMap
            BY <1>1
        <3> HIDE DEF me
        <3> QED
            BY <1>2, <2>1, <3>1 DEF Points
    <2>5. Paging(w)' => (/\ worker[w].step \in row.selected
                         /\ worker[w].page \in 1..Len(Source[worker[w].step])
                         /\ worker[w].from \in Checkpoints
                         /\ worker[w].from # NoStep =>
                               Index[worker[w].from.step] <= Index[worker[w].step])'
        <3>1. page + 1 \in 1..Len(Source[step])
            <4> HIDE DEF step, page
            <4> QED
                BY <1>4, <1>6
        <3> QED
            BY <1>2, <1>3, <2>1, <3>1
    <2>6. reselected' \/ (/\ row.checkpoint # NoStep => row.checkpoint.step \in row.selected
                          /\ \A r \in Passed : Done(r)
                          /\ CoveredBy(w))'
        <3> SUFFICES ASSUME ~reselected'
                     PROVE  (/\ row.checkpoint # NoStep => row.checkpoint.step \in row.selected
                             /\ \A r \in Passed : Done(r)
                             /\ CoveredBy(w))'
            OBVIOUS
        <3>1. Covered /\ CoveredBy(w)
            BY <1>1, <1>2
        <3>2. \A r : Done(r)' <=> Done(r)
            BY <1>1, SameData
        <3>3. Passed' = Passed
            BY <1>3 DEF Passed
        <3>4. ASSUME NEW r \in Before(w)' PROVE Done(r)
            <4>1. (page + 1) - 1 = page
                <5> HIDE DEF page, step
                <5> QED
                    BY <1>4
            <4>2. /\ r \in Rows /\ StepOf[r] \in row.selected
                  /\ Index[StepOf[r]] < Index[step] \/ r \in RowsUpTo(step, page)
                BY <1>3, <2>1, <3>4, <4>1 DEF Before
            <4>3. r \in Before(w) \/ r \in Page(w)
                BY <1>2, <4>2, ThroughPage
            <4> QED
                BY <1>1, <3>1, <4>3 DEF CoveredBy, At
        <3>5. CoveredBy(w)'
            <4>1. (DOMAIN idMap \subseteq DOMAIN worker[w].cache)'
                BY <1>1, <2>1, <3>1 DEF CoveredBy
            <4>2. ~At(w, "record")' /\ ~At(w, "progress")' /\ ~At(w, "finish")'
                BY <2>1 DEF At
            <4> QED
                BY <3>2, <3>4, <4>1, <4>2 DEF CoveredBy
        <3> QED
            BY <1>3, <3>1, <3>2, <3>3, <3>5 DEF Covered
    <2> QED
        BY <1>2, <1>3, <2>1, <2>2, <2>3, <2>4, <2>5, <2>6, OneWorks
<1>7. CASE ~(page < Len(Source[step]))
    <2> DEFINE next == GoOn(me, todo)
    <2>1. /\ DOMAIN next = DOMAIN Idle /\ next.cache = me.cache /\ next.pending = me.pending
          /\ next.from = me.from
          /\ todo = {} => next.at = "finish"
          /\ todo # {} => /\ next.at = "fetch" /\ next.step = First(todo)
                          /\ next.page = ResumePage(me.from, First(todo))
        <3> HIDE DEF todo
        <3> QED
            BY <1>2, GoOnIs
    <2> HIDE DEF next
    <2>2. worker' = [worker EXCEPT ![w] = next]
        BY <1>1, <1>7 DEF next
    <2>3. /\ DOMAIN worker' = Workers /\ worker'[w] = next
          /\ \A v \in Workers \ {w} : worker'[v] = worker[v]
          /\ \A v \in Workers : DOMAIN worker'[v] = DOMAIN Idle
        BY <1>2, <2>1, <2>2
    <2>4. ImportTypes'
        BY <1>1, <1>3, <2>3, IdleIs DEF InGoodOrder, ImportTypes
    <2>5. TableOK' /\ \A map : Points(map)' <=> Points(map)
        BY <1>1, <1>2, SameData
    <2>6. (Points(idMap) /\ Points(worker[w].cache) /\ Points(worker[w].pending))'
        <3> HIDE DEF me, todo
        <3> QED
            BY <1>1, <1>2, <2>1, <2>3 DEF Points
    <2>7. ASSUME todo # {}
          PROVE  /\ First(todo) \in row.selected /\ First(todo) \in Names
                 /\ Index[step] < Index[First(todo)]
                 /\ \A q \in todo : Index[First(todo)] <= Index[q]
                 /\ me.from # NoStep => Index[me.from.step] <= Index[First(todo)]
                 /\ next.page = 1 /\ 1 \in 1..Len(Source[First(todo)])
        <3>1. First(todo) \in todo /\ \A q \in todo : Index[First(todo)] <= Index[q]
            <4> HIDE DEF todo
            <4> QED
                BY <1>5, <2>7, FirstIs
        <3>2. /\ First(todo) \in row.selected /\ First(todo) \in Names
              /\ Index[step] < Index[First(todo)]
              /\ Index[step] \in Nat /\ Index[First(todo)] \in Nat
            <4>1. First(todo) \in row.selected /\ Index[First(todo)] > Index[step]
                BY <3>1
            <4>2. Index[step] \in Nat /\ Index[First(todo)] \in Nat
                BY <1>4, <1>5, <4>1, IndexIs
            <4> HIDE DEF todo, step
            <4> QED
                BY <1>5, <4>1, <4>2
        <3>3. 1 \in 1..Len(Source[First(todo)])
            <4>1. Len(Source[First(todo)]) \in Nat \ {0}
                BY <3>2, StepsAre
            <4> QED
                BY <4>1
        <3>4. ASSUME me.from # NoStep
              PROVE  me.from.step # First(todo) /\ Index[me.from.step] <= Index[First(todo)]
            <4>1. me.from.step \in Names
                BY <1>2, <3>4 DEF Checkpoints
            <4>2. Index[me.from.step] \in Nat
                BY <4>1, IndexIs
            <4>3. Index[me.from.step] < Index[First(todo)]
                <5>1. Index[me.from.step] <= Index[step]
                    BY <1>2, <3>4
                <5> HIDE DEF step, todo, me
                <5> QED
                    BY <3>2, <4>2, <5>1
            <4> HIDE DEF step, todo, me
            <4> QED
                BY <3>2, <4>2, <4>3
        <3>5. me.from.step # First(todo)
            <4>1. CASE me.from = NoStep
                BY <3>2, <4>1, StepsAre
            <4> QED
                BY <3>4, <4>1
        <3>6. next.page = 1
            BY <2>1, <2>7, <3>5 DEF ResumePage
        <3> HIDE DEF step, todo, me
        <3> QED
            BY <3>1, <3>2, <3>3, <3>4, <3>6
    <2>8. Paging(w)' => (/\ worker[w].step \in row.selected
                         /\ worker[w].page \in 1..Len(Source[worker[w].step])
                         /\ worker[w].from \in Checkpoints
                         /\ worker[w].from # NoStep =>
                               Index[worker[w].from.step] <= Index[worker[w].step])'
        <3> SUFFICES ASSUME Paging(w)'
                     PROVE  /\ next.step \in row.selected
                            /\ next.page \in 1..Len(Source[next.step])
                            /\ next.from \in Checkpoints
                            /\ next.from # NoStep => Index[next.from.step] <= Index[next.step]
            BY <1>3, <2>3
        <3>1. todo # {}
            BY <2>1, <2>3 DEF Paging
        <3> HIDE DEF todo
        <3> QED
            BY <1>2, <2>1, <2>7, <3>1
    <2>9. reselected' \/ (/\ row.checkpoint # NoStep => row.checkpoint.step \in row.selected
                          /\ \A r \in Passed : Done(r)
                          /\ CoveredBy(w))'
        <3> SUFFICES ASSUME ~reselected'
                     PROVE  (/\ row.checkpoint # NoStep => row.checkpoint.step \in row.selected
                             /\ \A r \in Passed : Done(r)
                             /\ CoveredBy(w))'
            OBVIOUS
        <3>1. Covered /\ CoveredBy(w)
            BY <1>1, <1>2
        <3>2. \A r : Done(r)' <=> Done(r)
            BY <1>1, SameData
        <3>3. Passed' = Passed
            BY <1>3 DEF Passed
        <3>4. ASSUME NEW r \in Rows, StepOf[r] \in row.selected, StepOf[r] \notin todo
              PROVE  Done(r)
            <4>1. StepOf[r] \in Names /\ Index[StepOf[r]] \in Nat /\ Index[step] \in Nat
                BY <1>4, <3>4, RowsAre, IndexIs
            <4>2. ~(Index[StepOf[r]] > Index[step])
                BY <3>4
            <4>3. Index[StepOf[r]] < Index[step] \/ StepOf[r] = step
                <5>1. Index[StepOf[r]] < Index[step] \/ Index[StepOf[r]] = Index[step]
                    <6> HIDE DEF step, todo
                    <6> QED
                        BY <4>1, <4>2
                <5> QED
                    BY <1>4, <4>1, <5>1, StepsAre
            <4>4. page = Len(Source[step])
                <5> HIDE DEF step, page
                <5> QED
                    BY <1>4, <1>7
            <4>5. StepOf[r] = step => r \in RowsUpTo(step, page)
                BY <3>4, <4>4, RowsAre
            <4>6. r \in Before(w) \/ r \in Page(w)
                BY <1>2, <3>4, <4>3, <4>5, ThroughPage
            <4> QED
                BY <1>1, <3>1, <4>6 DEF CoveredBy, At
        <3>5. ASSUME todo # {}, NEW r \in Before(w)' PROVE Done(r)
            <4>1. /\ r \in Rows /\ StepOf[r] \in row.selected
                  /\ Index[StepOf[r]] < Index[First(todo)] \/ r \in RowsUpTo(First(todo), 1 - 1)
                BY <1>3, <2>1, <2>3, <2>7, <3>5 DEF Before
            <4>2. RowsUpTo(First(todo), 1 - 1) = {}
                <5>1. RowsUpTo(First(todo), 0) = {}
                    BY <2>7, <3>5, RowsAre
                <5>2. 1 - 1 = 0
                    OBVIOUS
                <5> QED
                    BY <5>1, <5>2
            <4>3. StepOf[r] \notin todo
                <5>1. Index[StepOf[r]] \in Nat /\ Index[First(todo)] \in Nat
                    BY <1>5, <2>7, <3>5, <4>1, IndexIs
                <5>2. Index[StepOf[r]] < Index[First(todo)]
                    BY <4>1, <4>2
                <5>3. ~(Index[First(todo)] <= Index[StepOf[r]])
                    BY <5>1, <5>2
                <5> QED
                    BY <2>7, <3>5, <5>3
            <4> QED
                BY <3>4, <4>1, <4>3
        <3>6. next.at \in {"fetch", "finish"} /\ (next.at = "fetch" <=> todo # {})
            BY <2>1
        <3>7. CoveredBy(w)'
            <4> HIDE DEF todo
            <4>1. (DOMAIN idMap \subseteq DOMAIN worker[w].cache)'
                BY <1>1, <2>1, <2>3, <3>1 DEF CoveredBy
            <4>2. Paging(w)' => \A r \in Before(w)' : Done(r)'
                BY <2>3, <3>2, <3>5, <3>6 DEF Paging
            <4>3. At(w, "finish")' => (\A r \in Rows : StepOf[r] \in row.selected => Done(r))'
                BY <1>3, <2>3, <3>2, <3>4, <3>6 DEF At
            <4>4. ~At(w, "record")' /\ ~At(w, "progress")'
                BY <2>3, <3>6 DEF At
            <4> QED
                BY <4>1, <4>2, <4>3, <4>4 DEF CoveredBy
        <3> QED
            BY <1>3, <3>1, <3>2, <3>3, <3>7 DEF Covered
    <2> QED
        BY <1>2, <1>3, <2>3, <2>4, <2>5, <2>6, <2>8, <2>9, OneWorks
<1> QED
    BY <1>6, <1>7

(***************************************************************************)
(* The invariant, and what it says of the checkpoint.                      *)
(***************************************************************************)

\* That two processes have run the import at once is not forgotten.
LEMMA OverlapStays ==
    overlapped \in BOOLEAN /\ [Next]_vars => overlapped' \in BOOLEAN /\ (overlapped => overlapped')
<1>1. [Next]_vars =>
          \/ overlapped' = overlapped
          \/ \E w \in Workers :
                overlapped' = (overlapped \/ \E v \in Workers \ {w} : worker[v].at # "idle")
    BY DEF Next, Running, Import, Resume, Enqueue, EnqueueFails, Start, StartWithoutKey, Commit,
           Record, SetCheckpoint, UpdateProgress, Finish, Throw, OnFailed, Cleanup, ClientError,
           Error, Crash, LoseLock, vars, history
<1> QED
    BY <1>1

\* Every step keeps the import in good order, unless a second process joins in.
LEMMA OrderNext == InGoodOrder /\ [Next]_vars /\ ~overlapped' => InGoodOrder'
<1> SUFFICES ASSUME InGoodOrder, [Next]_vars, ~overlapped' PROVE InGoodOrder'
    OBVIOUS
<1>1. ASSUME NEW S \in Selections, Import(S) PROVE InGoodOrder'
    BY <1>1, ImportStep
<1>2. CASE Resume
    BY <1>2, ResumeStep
<1>3. CASE Enqueue \/ EnqueueFails \/ UNCHANGED vars
    BY <1>3, QueueStep
<1>4. ASSUME NEW w \in Workers, Running(w) PROVE InGoodOrder'
    <2>1. ASSUME NEW j \in Jobs, Start(w, j) PROVE InGoodOrder'
        BY <2>1, StartStep
    <2>2. ASSUME NEW j \in Jobs, StartWithoutKey(w, j) PROVE InGoodOrder'
        BY <2>2, KeylessStep
    <2>3. CASE Commit(w)
        BY <2>3, CommitStep
    <2>4. CASE Record(w)
        BY <2>4, RecordStep
    <2>5. CASE SetCheckpoint(w)
        BY <2>5, SetCheckpointStep
    <2>6. CASE UpdateProgress(w)
        BY <2>6, UpdateProgressStep
    <2>7. CASE Finish(w) \/ Throw(w) \/ OnFailed(w) \/ Cleanup(w)
        BY <2>7, EndStep
    <2> QED
        BY <1>4, <2>1, <2>2, <2>3, <2>4, <2>5, <2>6, <2>7 DEF Running
<1>5. ASSUME NEW w \in Workers, ClientError(w) \/ Error(w) \/ Crash(w) PROVE InGoodOrder'
    BY <1>5, EndStep
<1>6. ASSUME NEW w \in Workers, LoseLock(w) PROVE InGoodOrder'
    BY <1>6, QueueStep
<1> QED
    BY <1>1, <1>2, <1>3, <1>4, <1>5, <1>6 DEF Next

\* Every step keeps the import in good order.
LEMMA ImportNext == ImportInv /\ [Next]_vars => ImportInv'
BY OverlapStays, OrderNext DEF ImportInv

\* However often the import is interrupted and resumed, its rows, ids, checkpoint
\* and processes are in good order, until two processes run it at once.
THEOREM InOrder == Spec => []ImportInv
BY ImportInit, ImportNext, PTL DEF Spec

\* What a resumed run skips has been written, and the steps after it find the ids
\* (runPipeline, resumePage, setCheckpoint).
THEOREM SkippedIsCovered == Spec => []CheckpointCovers
<1>1. ImportInv => CheckpointCovers
    BY DEF ImportInv, InGoodOrder, Covered, Done, CheckpointCovers
<1> QED
    BY InOrder, <1>1, PTL

(***************************************************************************)
(* The import keeps the promise of AccountImport.                          *)
(***************************************************************************)

status == IF row.status \in {"pending", "running"} THEN "active" ELSE row.status
copies == [r \in Rows |-> Cardinality(Imported(r))]

\* A row of the source is copied as often as the account has it: never or once.
LEMMA CopiesAre ==
    ASSUME TableOK
    PROVE  /\ copies \in [Rows -> Nat]
           /\ \A r \in Rows : copies[r] = IF Imported(r) = {} THEN 0 ELSE 1
BY ImportedOnce DEF copies

\* To whoever asked, nothing has happened.
LEMMA Quiet ==
    ASSUME UNCHANGED <<table, reselected, overlapped>>, row'.selected = row.selected,
           status' = status
    PROVE  UNCHANGED Promise!promise
<1>1. copies' = copies
    BY DEF copies, Imported
<1> QED
    BY <1>1 DEF Promise!promise, status, copies

\* The first state of the import is one of the promise.
LEMMA PromiseBegins == Init => Promise!Init
<1> SUFFICES ASSUME Init PROVE Promise!Init
    OBVIOUS
<1>1. DOMAIN table = {}
    <2>1. table = <<>>
        BY DEF Init
    <2> QED
        BY <2>1
<1>2. TableOK
    <2>1. ~overlapped
        BY DEF Init
    <2> QED
        BY <2>1, ImportInit DEF ImportInv, InGoodOrder
<1>3. copies = [r \in Rows |-> 0]
    <2>1. \A r \in Rows : Imported(r) = {}
        BY <1>1 DEF Imported
    <2> QED
        BY <1>2, <2>1, CopiesAre DEF copies
<1> QED
    BY <1>3 DEF Init, Promise!Init, status, copies

\* The import is asked for, or resumed.
LEMMA Asked ==
    ASSUME InGoodOrder, Resume \/ \E S \in Selections : Import(S)
    PROVE  Promise!Ask \/ UNCHANGED Promise!promise
<1>1. reselected \in BOOLEAN
    BY DEF InGoodOrder, ImportTypes
<1>2. row \in [status : {"none", "pending", "running", "completed", "failed"},
               checkpoint : Checkpoints, progressed : BOOLEAN, key : BOOLEAN,
               selected : Selections \cup {Names}]
    BY DEF InGoodOrder, ImportTypes
<1>3. ASSUME table' = table, overlapped' = overlapped, status # "active", status' = "active",
             row'.selected \subseteq Names,
             reselected' =
                 (status = "failed" /\ (reselected \/ row'.selected # row.selected))
      PROVE  Promise!Ask
    <2>1. copies' = copies
        BY <1>3 DEF copies, Imported
    <2> QED
        BY <1>3, <2>1 DEF Promise!Ask, status, copies
<1>4. CASE Resume
    <2>1. /\ table' = table /\ overlapped' = overlapped /\ reselected' = reselected
          /\ row.status = "failed" /\ row'.status = "pending" /\ row'.selected = row.selected
        BY <1>2, <1>4 DEF Resume, data, history
    <2>2. row'.selected \subseteq Names
        BY <2>1, SelectedAre DEF InGoodOrder
    <2>3. status = "failed" /\ status' = "active"
        BY <2>1 DEF status
    <2> QED
        BY <1>1, <1>3, <2>1, <2>2, <2>3
<1>5. ASSUME NEW S \in Selections, Import(S)
      PROVE  Promise!Ask \/ UNCHANGED Promise!promise
    <2>1. table' = table /\ overlapped' = overlapped
        BY <1>5 DEF Import
    <2>2. S \subseteq Names
        BY ImportAssumption
    <2>3. CASE /\ row.status \in {"pending", "running"}
               /\ UNCHANGED <<row, idMap, enqueuing, reselected>>
        BY <2>1, <2>3, Quiet DEF status
    <2>4. CASE /\ row.status = "failed"
               /\ row' = [row EXCEPT !.status = "pending", !.key = TRUE, !.selected = S]
               /\ reselected' = (reselected \/ S # row.selected)
        <3>1. row'.status = "pending" /\ row'.selected = S
            BY <1>2, <2>4
        <3>2. status = "failed" /\ status' = "active"
            BY <2>4, <3>1 DEF status
        <3> QED
            BY <1>3, <2>1, <2>2, <2>4, <3>1, <3>2
    <2>5. CASE /\ row.status \in {"none", "completed"}
               /\ row' = [status |-> "pending", checkpoint |-> NoStep, progressed |-> FALSE,
                          key |-> TRUE, selected |-> S]
               /\ reselected' = FALSE
        <3>1. row'.status = "pending" /\ row'.selected = S
            BY <2>5
        <3>2. status \in {"none", "completed"} /\ status' = "active"
            BY <2>5, <3>1 DEF status
        <3> QED
            BY <1>3, <2>1, <2>2, <2>5, <3>1, <3>2
    <2> QED
        BY <1>5, <2>3, <2>4, <2>5 DEF Import
<1> QED
    BY <1>4, <1>5

\* A run begins: of an import that is active, or of one that had failed.
LEMMA Begun ==
    ASSUME InGoodOrder, NEW w \in Workers, NEW j \in Jobs, Start(w, j),
           overlapped \in BOOLEAN, ~overlapped, ~overlapped'
    PROVE  Promise!Restart \/ UNCHANGED Promise!promise
<1>1. row \in [status : {"none", "pending", "running", "completed", "failed"},
               checkpoint : Checkpoints, progressed : BOOLEAN, key : BOOLEAN,
               selected : Selections \cup {Names}]
    BY DEF InGoodOrder, ImportTypes
<1>2. /\ row'.status = "running" /\ row'.selected = row.selected /\ row.key
      /\ table' = table /\ reselected' = reselected
      /\ overlapped' = (overlapped \/ \E v \in Workers \ {w} : worker[v].at # "idle")
    BY <1>1 DEF Start, data
<1>3. overlapped' = overlapped
    BY <1>2
<1>4. row.status \in {"pending", "running", "failed"} /\ status' = "active"
    BY <1>1, <1>2 DEF InGoodOrder, Settled, status
<1>5. CASE row.status \in {"pending", "running"}
    BY <1>2, <1>3, <1>4, <1>5, Quiet DEF status
<1>6. CASE row.status = "failed"
    <2>1. copies' = copies
        BY <1>2 DEF copies, Imported
    <2> QED
        BY <1>2, <1>3, <1>4, <1>6, <2>1 DEF Promise!Restart, status, copies
<1> QED
    BY <1>4, <1>5, <1>6

\* A page is written: rows that are wanted are copied, each once.
LEMMA Copied ==
    ASSUME InGoodOrder, NEW w \in Workers, Commit(w), ~overlapped'
    PROVE  Promise!Copy
<1>1. /\ worker[w].at = "fetch" /\ Paging(w)
      /\ table' = table \o SetToSeq(Missing(w))
      /\ UNCHANGED <<row, reselected, overlapped>>
    BY DEF Commit, At, Paging, history
<1>2. /\ row.status = "running" /\ OnPage(w) /\ worker[w].step \in row.selected
      /\ TableOK /\ Points(worker[w].cache)
    BY <1>1, AtWork
<1>3. /\ TableOK'
      /\ \A r \in Rows : Imported(r) \subseteq Imported(r)'
      /\ \A r \in Rows : Imported(r)' # {} /\ Imported(r) = {} => r \in Page(w)
    BY <1>1, <1>2, Committed
<1>4. /\ copies \in [Rows -> Nat]
      /\ \A r \in Rows : copies[r] = IF Imported(r) = {} THEN 0 ELSE 1
    BY <1>2, CopiesAre
<1>5. /\ copies' \in [Rows -> Nat]
      /\ \A r \in Rows : copies'[r] = IF Imported(r)' = {} THEN 0 ELSE 1
    <2>1. (/\ copies \in [Rows -> Nat]
           /\ \A r \in Rows : copies[r] = IF Imported(r) = {} THEN 0 ELSE 1)'
        BY <1>3, CopiesAre, PTL
    <2> QED
        BY <2>1
<1>6. ASSUME NEW r \in Rows
      PROVE  \/ copies'[r] = copies[r]
             \/ StepOf[r] \in row.selected /\ copies[r] = 0 /\ copies'[r] = 1
    <2>1. CASE Imported(r) # {}
        BY <1>3, <1>4, <1>5, <2>1
    <2>2. CASE Imported(r) = {} /\ Imported(r)' = {}
        BY <1>4, <1>5, <2>2
    <2>3. CASE Imported(r) = {} /\ Imported(r)' # {}
        BY <1>2, <1>3, <1>4, <1>5, <2>3, PageIs
    <2> QED
        BY <2>1, <2>2, <2>3
<1> QED
    BY <1>1, <1>2, <1>5, <1>6 DEF Promise!Copy, Promise!wanted, status, copies

\* A run that ends well has copied all that was wanted.
LEMMA Completed ==
    ASSUME InGoodOrder, NEW w \in Workers, Finish(w)
    PROVE  Promise!Complete
<1>1. /\ worker[w].at = "finish" /\ Busy(w)
      /\ row' = [row EXCEPT !.status = "completed", !.key = FALSE]
      /\ UNCHANGED <<table, reselected, overlapped>>
    BY DEF Finish, At, Busy, data, history
<1>2. row.status = "running" /\ row'.status = "completed" /\ row'.selected = row.selected
    <2>1. row.status = "running"
        BY <1>1 DEF InGoodOrder, Solo
    <2>2. row \in [status : {"none", "pending", "running", "completed", "failed"},
                   checkpoint : Checkpoints, progressed : BOOLEAN, key : BOOLEAN,
                   selected : Selections \cup {Names}]
        BY DEF InGoodOrder, ImportTypes
    <2> QED
        BY <1>1, <2>1, <2>2
<1>3. reselected \/ \A r \in Rows : StepOf[r] \in row.selected => copies[r] = 1
    <2> SUFFICES ASSUME ~reselected, NEW r \in Rows, StepOf[r] \in row.selected
                 PROVE  copies[r] = 1
        OBVIOUS
    <2>1. CoveredBy(w)
        BY <1>1 DEF InGoodOrder, Covered
    <2>2. Imported(r) # {}
        BY <1>1, <2>1 DEF CoveredBy, At, Done
    <2> QED
        BY <2>2, CopiesAre DEF InGoodOrder
<1>4. copies' = copies
    BY <1>1 DEF copies, Imported
<1> QED
    BY <1>1, <1>2, <1>3, <1>4 DEF Promise!Complete, Promise!wanted, status, copies

\* The source refuses, or no attempt is left.
LEMMA Failed ==
    ASSUME InGoodOrder, NEW w \in Workers, ClientError(w) \/ OnFailed(w)
    PROVE  Promise!Fail \/ UNCHANGED Promise!promise
<1>1. UNCHANGED <<table, reselected, overlapped>>
    BY DEF ClientError, OnFailed, data, history
<1>2. CASE UNCHANGED row
    BY <1>1, <1>2, Quiet DEF status
<1>3. CASE ~(UNCHANGED row)
    <2>1. row' = [row EXCEPT !.status = "failed"]
        BY <1>3 DEF ClientError, OnFailed
    <2>2. row.status \in {"pending", "running"}
        <3>1. worker[w].at # "idle" /\ (Busy(w) \/ row.status \notin {"completed", "failed"})
            BY <1>3 DEF ClientError, OnFailed, At, Busy
        <3>2. row.status \in {"none", "pending", "running", "completed", "failed"}
            BY DEF InGoodOrder, ImportTypes
        <3> QED
            BY <3>1, <3>2 DEF InGoodOrder, Solo, Settled
    <2>3. row'.status = "failed" /\ row'.selected = row.selected
        BY <2>1 DEF InGoodOrder, ImportTypes
    <2>4. copies' = copies
        BY <1>1 DEF copies, Imported
    <2> QED
        BY <1>1, <2>2, <2>3, <2>4 DEF Promise!Fail, status, copies
<1> QED
    BY <1>2, <1>3

\* Whatever else happens is nothing to whoever asked.
LEMMA Unseen ==
    ASSUME InGoodOrder,
           \/ UNCHANGED vars \/ Enqueue \/ EnqueueFails
           \/ \E w \in Workers :
                 \/ \E j \in Jobs : StartWithoutKey(w, j)
                 \/ Record(w) \/ SetCheckpoint(w) \/ UpdateProgress(w)
                 \/ Error(w) \/ Throw(w) \/ Cleanup(w) \/ Crash(w) \/ LoseLock(w)
    PROVE  UNCHANGED Promise!promise
<1>1. UNCHANGED <<table, reselected, overlapped>>
    BY DEF vars, Enqueue, EnqueueFails, StartWithoutKey, Record, SetCheckpoint, UpdateProgress,
           Error, Throw, Cleanup, Crash, LoseLock, data, history
<1>2. \/ row' = row
      \/ row' = [row EXCEPT !.progressed = TRUE]
      \/ \E here : row' = [row EXCEPT !.checkpoint = here]
    BY DEF vars, Enqueue, EnqueueFails, StartWithoutKey, Record, SetCheckpoint, UpdateProgress,
           Error, Throw, Cleanup, Crash, LoseLock
<1>3. row'.status = row.status /\ row'.selected = row.selected
    BY <1>2 DEF InGoodOrder, ImportTypes
<1> QED
    BY <1>1, <1>3, Quiet DEF status

\* Every step of the import is one of the promise, or none.
LEMMA PromiseSteps ==
    ImportInv /\ [Next]_vars => [Promise!Next]_(Promise!promise)
<1> SUFFICES ASSUME ImportInv, [Next]_vars PROVE Promise!Next \/ UNCHANGED Promise!promise
    OBVIOUS
<1>1. CASE overlapped'
    BY <1>1 DEF Promise!Next
<1>2. CASE ~overlapped'
    <2>1. InGoodOrder /\ ~overlapped /\ overlapped \in BOOLEAN
        BY <1>2, OverlapStays DEF ImportInv
    <2>2. CASE Resume \/ \E S \in Selections : Import(S)
        BY <2>1, <2>2, Asked DEF Promise!Next
    <2>3. ASSUME NEW w \in Workers, NEW j \in Jobs, Start(w, j)
          PROVE  Promise!Next \/ UNCHANGED Promise!promise
        BY <1>2, <2>1, <2>3, Begun DEF Promise!Next
    <2>4. ASSUME NEW w \in Workers, Commit(w) PROVE Promise!Next
        BY <1>2, <2>1, <2>4, Copied DEF Promise!Next
    <2>5. ASSUME NEW w \in Workers, Finish(w) PROVE Promise!Next
        BY <2>1, <2>5, Completed DEF Promise!Next
    <2>6. ASSUME NEW w \in Workers, ClientError(w) \/ OnFailed(w)
          PROVE  Promise!Next \/ UNCHANGED Promise!promise
        BY <2>1, <2>6, Failed DEF Promise!Next
    <2>7. CASE \/ UNCHANGED vars \/ Enqueue \/ EnqueueFails
               \/ \E w \in Workers :
                     \/ \E j \in Jobs : StartWithoutKey(w, j)
                     \/ Record(w) \/ SetCheckpoint(w) \/ UpdateProgress(w)
                     \/ Error(w) \/ Throw(w) \/ Cleanup(w) \/ Crash(w) \/ LoseLock(w)
        BY <2>1, <2>7, Unseen
    <2> QED
        BY <2>2, <2>3, <2>4, <2>5, <2>6, <2>7 DEF Next, Running
<1> QED
    BY <1>1, <1>2

\* Whatever happens to the processes and jobs that carry it out, the import keeps
\* the promise of AccountImport: its rows are copied once each while it is active,
\* and it is completed when all have been (ImportsService, EnterpriseImportProcessor,
\* BaseImporter.run, ContactTagsImporter).
THEOREM ImportKeepsPromise == Spec => KeepsPromise
<1>1. [Next]_vars /\ ImportInv => [Promise!Next]_(Promise!promise)
    BY PromiseSteps
<1> QED
    BY PromiseBegins, InOrder, <1>1, PTL DEF Spec, KeepsPromise, Promise!Spec

(***************************************************************************)
(* What the promise amounts to.                                            *)
(***************************************************************************)

CopiedOnce == \A r \in Rows : copies[r] \in {0, 1}
CompleteIsWhole == status = "completed" /\ ~reselected => \A r \in Promise!wanted : copies[r] = 1

Kept == overlapped \/ (CopiedOnce /\ CompleteIsWhole)

\* In the beginning nothing is copied.
LEMMA KeptInit == Promise!Init => Kept
<1> SUFFICES ASSUME Promise!Init PROVE CopiedOnce /\ CompleteIsWhole
    BY DEF Kept
<1>1. copies = [r \in Rows |-> 0] /\ status = "none"
    BY DEF Promise!Init, status, copies
<1> QED
    BY <1>1 DEF CopiedOnce, CompleteIsWhole

\* Every step of the promise keeps it so, until two processes have run at once.
LEMMA KeptNext == Kept /\ [Promise!Next]_(Promise!promise) => Kept'
<1> SUFFICES ASSUME Kept, [Promise!Next]_(Promise!promise), ~overlapped'
             PROVE  (CopiedOnce /\ CompleteIsWhole)'
    BY DEF Kept
<1>1. ASSUME UNCHANGED <<copies, overlapped>>, status' # "completed"
      PROVE  (CopiedOnce /\ CompleteIsWhole)'
    BY <1>1 DEF Kept, CopiedOnce, CompleteIsWhole
<1>2. CASE Promise!Ask \/ Promise!Fail \/ Promise!Restart
    BY <1>1, <1>2 DEF Promise!Ask, Promise!Fail, Promise!Restart, status, copies
<1>3. CASE Promise!Copy
    <2>1. /\ overlapped' = overlapped /\ status' # "completed"
          /\ \A r \in Rows : copies'[r] = copies[r] \/ copies'[r] = 1
        BY <1>3 DEF Promise!Copy, status, copies
    <2> QED
        BY <2>1 DEF Kept, CopiedOnce, CompleteIsWhole
<1>4. CASE Promise!Complete
    <2>1. /\ UNCHANGED <<copies, overlapped, reselected>> /\ row'.selected = row.selected
          /\ reselected \/ \A r \in Promise!wanted : copies[r] = 1
        BY <1>4 DEF Promise!Complete, copies
    <2>2. Promise!wanted' = Promise!wanted
        BY <2>1 DEF Promise!wanted
    <2> QED
        BY <2>1, <2>2 DEF Kept, CopiedOnce, CompleteIsWhole
<1>5. CASE UNCHANGED Promise!promise
    <2>1. UNCHANGED <<copies, status, overlapped, reselected>> /\ row'.selected = row.selected
        BY <1>5 DEF Promise!promise, status, copies
    <2>2. Promise!wanted' = Promise!wanted
        BY <2>1 DEF Promise!wanted
    <2> QED
        BY <2>1, <2>2 DEF Kept, CopiedOnce, CompleteIsWhole
<1> QED
    BY <1>2, <1>3, <1>4, <1>5 DEF Promise!Next

\* No row of the source is in the account twice (the natural keys of BaseImporter and
\* ContactTagsImporter, with no constraint in the database), and an import that is
\* completed has brought all that was selected, unless it failed with one selection
\* and was resumed with another, or two processes have run it at once.
THEOREM CompleteAndOnce == Spec => []Kept
BY ImportKeepsPromise, KeptInit, KeptNext, PTL DEF KeepsPromise, Promise!Spec

(***************************************************************************)
(* Whatever fails, and whoever loses the lock of a job: an import that is  *)
(* pending or running has a job that will take it further.                 *)
(***************************************************************************)

Phases == {"idle", "fetch", "record", "progress", "finish", "throw", "exhausted", "cleanup"}

\* The values of what the queue and the processes know of each other.
QueueTypes ==
    /\ row.status \in {"none", "pending", "running", "completed", "failed"}
    /\ DOMAIN row = {"status", "checkpoint", "progressed", "key", "selected"}
    /\ bull \in [Jobs -> [state : {"none", "waiting", "active", "done"}, made : Nat, stalls : Nat,
                          owner : Workers \cup {Nobody}]]
    /\ DOMAIN worker = Workers
    /\ \A w \in Workers :
          /\ DOMAIN worker[w] = {"at", "job", "step", "page", "cache", "pending", "from"}
          /\ worker[w].at \in Phases
          /\ worker[w].at # "idle" => worker[w].job \in Jobs
    /\ enqueuing \in BOOLEAN /\ abandoned \in BOOLEAN

\* A job is active while a process holds its lock, and that process is at work on
\* it; one that stalled too often was given up.
LockOf(j) ==
    /\ bull[j].state = "active" <=> bull[j].owner # Nobody
    /\ bull[j].owner # Nobody =>
          /\ worker[bull[j].owner].job = j
          /\ worker[bull[j].owner].at \notin {"idle", "exhausted"}
    /\ bull[j].stalls > MaxStalls => abandoned

Locks == \A j \in Jobs : LockOf(j)

\* Each call of the API makes one job at most, so there is always one to make.
Used == {j \in Jobs : bull[j].state # "none"}
Room == requests \in 0..MaxRequests
        /\ Cardinality(Used) + (IF enqueuing THEN 1 ELSE 0) <= requests

\* A job that is waiting, or whose process has not yet called the import failed,
\* will take it further.
Carries(j) ==
    \/ bull[j].state = "waiting"
    \/ bull[j].state = "active" /\ worker[bull[j].owner].at # "cleanup"

Carried ==
    row.status \in {"pending", "running"} =>
        \/ abandoned \/ enqueuing
        \/ \E j \in Jobs : Carries(j)
        \/ \E w \in Workers : At(w, "exhausted")

CarryInv == QueueTypes /\ Locks /\ Room /\ Carried

\* The bounds are numbers.
LEMMA BoundsAre == MaxRequests \in Nat /\ MaxStalls \in Nat
<1>1. MaxRequests \in Nat \ {0}
    BY ImportAssumption
<1>2. MaxStalls \in Nat
    BY ImportAssumption
<1> QED
    BY <1>1, <1>2

\* No process is called as the owner of a lock that nobody holds.
LEMMA OwnersAre == Nobody \notin Workers
BY ImportAssumption

\* The jobs in use are finitely many, and fewer of them need no more room.
LEMMA UsedIs ==
    /\ IsFiniteSet(Used) /\ Cardinality(Used) \in Nat
    /\ Used' \subseteq Used => /\ Cardinality(Used') <= Cardinality(Used)
                               /\ IsFiniteSet(Used') /\ Cardinality(Used') \in Nat
<1>1. IsFiniteSet(Jobs)
    <2>1. 1 \in Int /\ MaxRequests \in Int
        BY BoundsAre
    <2> QED
        BY <2>1, FS_Interval DEF Jobs
<1>2. Used \subseteq Jobs
    BY DEF Used
<1>3. IsFiniteSet(Used) /\ Cardinality(Used) \in Nat
    BY <1>1, <1>2, FS_Subset, FS_CardinalityType
<1>4. Used' \subseteq Used => /\ Cardinality(Used') <= Cardinality(Used)
                              /\ IsFiniteSet(Used') /\ Cardinality(Used') \in Nat
    BY <1>3, FS_Subset, FS_CardinalityType
<1> QED
    BY <1>3, <1>4

\* At first there is no job, and no call has been made.
LEMMA CarryInit == Init => CarryInv
<1> SUFFICES ASSUME Init PROVE CarryInv
    OBVIOUS
<1>1. QueueTypes
    <2>1. DOMAIN Idle = {"at", "job", "step", "page", "cache", "pending", "from"} /\ Idle.at = "idle"
        BY DEF Idle
    <2> QED
        BY <2>1 DEF Init, QueueTypes, Phases
<1>2. Locks /\ Carried
    <2>1. \A j \in Jobs : bull[j] = [state |-> "none", made |-> 0, stalls |-> 0, owner |-> Nobody]
        BY DEF Init
    <2>2. \A j \in Jobs : bull[j].state = "none" /\ bull[j].owner = Nobody /\ bull[j].stalls = 0
        BY <2>1
    <2>3. \A j \in Jobs : ~(bull[j].stalls > MaxStalls)
        BY <2>2, BoundsAre
    <2>4. row.status = "none"
        BY DEF Init
    <2> QED
        BY <2>2, <2>3, <2>4 DEF Locks, LockOf, Carried
<1>3. Room
    <2>1. Used = {} /\ requests = 0 /\ ~enqueuing
        BY DEF Used, Init
    <2>2. requests \in 0..MaxRequests
        BY <2>1, BoundsAre
    <2> QED
        BY <2>1, <2>2, FS_EmptySet DEF Room
<1> QED
    BY <1>1, <1>2, <1>3 DEF CarryInv

\* Only the row and the calls of the API change.
LEMMA CallCarries ==
    ASSUME CarryInv, UNCHANGED <<bull, worker, abandoned>>,
           row'.status \in {"none", "pending", "running", "completed", "failed"},
           DOMAIN row' = DOMAIN row, requests' = requests + 1, requests < MaxRequests,
           \/ row' = row /\ enqueuing' = enqueuing
           \/ enqueuing' = TRUE
    PROVE  CarryInv'
<1>1. QueueTypes' /\ Locks' /\ Carried'
    BY DEF CarryInv, QueueTypes, Locks, LockOf, Carried, Carries, At
<1>2. Room'
    <2>1. Used' = Used /\ enqueuing \in BOOLEAN
        BY DEF Used, CarryInv, QueueTypes
    <2>2. requests \in 0..MaxRequests /\ MaxRequests \in Nat
        BY BoundsAre DEF CarryInv, Room
    <2>3. Cardinality(Used) \in Nat /\ Cardinality(Used) <= requests
        BY <2>1, <2>2, UsedIs DEF CarryInv, Room
    <2> QED
        BY <2>1, <2>2, <2>3 DEF CarryInv, Room
<1> QED
    BY <1>1, <1>2 DEF CarryInv

\* The import is asked for, or resumed.
LEMMA ApiCarries ==
    ASSUME CarryInv, Resume \/ \E S \in Selections : Import(S) PROVE CarryInv'
<1>0. DOMAIN row = {"status", "checkpoint", "progressed", "key", "selected"}
      /\ row.status \in {"none", "pending", "running", "completed", "failed"}
    BY DEF CarryInv, QueueTypes
<1>1. UNCHANGED <<bull, worker, abandoned>> /\ requests' = requests + 1 /\ requests < MaxRequests
    BY DEF Resume, Import, Request, history
<1>2. \/ row' = row /\ enqueuing' = enqueuing
      \/ row' = [row EXCEPT !.status = "pending", !.key = TRUE] /\ enqueuing' = TRUE
      \/ /\ \E S : row' = [row EXCEPT !.status = "pending", !.key = TRUE, !.selected = S]
         /\ enqueuing' = TRUE
      \/ /\ \E S : row' = [status |-> "pending", checkpoint |-> NoStep, progressed |-> FALSE,
                           key |-> TRUE, selected |-> S]
         /\ enqueuing' = TRUE
    BY DEF Resume, Import
<1>3. DOMAIN row' = DOMAIN row
      /\ row'.status \in {"none", "pending", "running", "completed", "failed"}
      /\ ((row' = row /\ enqueuing' = enqueuing) \/ enqueuing' = TRUE)
    <2>1. CASE row' = row /\ enqueuing' = enqueuing
        BY <1>0, <2>1
    <2>2. CASE row' = [row EXCEPT !.status = "pending", !.key = TRUE] /\ enqueuing' = TRUE
        BY <1>0, <2>2
    <2>3. ASSUME NEW S, row' = [row EXCEPT !.status = "pending", !.key = TRUE, !.selected = S],
                 enqueuing' = TRUE
          PROVE  DOMAIN row' = DOMAIN row /\ row'.status = "pending"
        BY <1>0, <2>3
    <2>4. ASSUME NEW S, row' = [status |-> "pending", checkpoint |-> NoStep, progressed |-> FALSE,
                                key |-> TRUE, selected |-> S]
          PROVE  DOMAIN row' = DOMAIN row /\ row'.status = "pending"
        BY <1>0, <2>4
    <2> QED
        BY <1>2, <2>1, <2>2, <2>3, <2>4
<1> QED
    BY <1>1, <1>3, CallCarries

\* The job is made, and waits; or it is not, and the import is given up.
LEMMA EnqueueCarries == ASSUME CarryInv, Enqueue PROVE CarryInv'
<1>0. /\ enqueuing = TRUE /\ enqueuing' = FALSE
      /\ UNCHANGED <<row, worker, abandoned, requests>>
    BY DEF Enqueue, history, CarryInv, QueueTypes
<1>1. PICK j : j = CHOOSE k \in Jobs : bull[k].state = "none"
    OBVIOUS
<1>2. j \in Jobs /\ bull[j].state = "none"
    <2>1. Cardinality(Used) \in Nat /\ Cardinality(Used) + 1 <= requests /\ requests <= MaxRequests
          /\ requests \in Nat /\ MaxRequests \in Nat
        BY <1>0, UsedIs, BoundsAre DEF CarryInv, Room
    <2>2. Cardinality(Jobs) = MaxRequests
        BY <2>1, FS_Interval DEF Jobs
    <2>3. Used # Jobs
        BY <2>1, <2>2
    <2>4. \E k \in Jobs : bull[k].state = "none"
        BY <2>3 DEF Used
    <2> QED
        BY <1>1, <2>4
<1>3. bull' = [bull EXCEPT ![j].state = "waiting"]
    BY <1>1 DEF Enqueue
<1>4. /\ bull \in [Jobs -> [state : {"none", "waiting", "active", "done"}, made : Nat,
                            stalls : Nat, owner : Workers \cup {Nobody}]]
      /\ LockOf(j)
    BY <1>2 DEF CarryInv, QueueTypes, Locks
<1>5. /\ bull' \in [Jobs -> [state : {"none", "waiting", "active", "done"}, made : Nat,
                             stalls : Nat, owner : Workers \cup {Nobody}]]
      /\ bull'[j].state = "waiting" /\ bull'[j].owner = bull[j].owner
      /\ bull'[j].stalls = bull[j].stalls
      /\ \A k \in Jobs \ {j} : bull'[k] = bull[k]
    BY <1>2, <1>3, <1>4
<1>6. QueueTypes'
    BY <1>0, <1>5 DEF CarryInv, QueueTypes
<1>7. Locks'
    <2>1. LockOf(j)'
        BY <1>0, <1>2, <1>4, <1>5 DEF LockOf
    <2>2. ASSUME NEW k \in Jobs \ {j} PROVE LockOf(k)'
        BY <1>0, <1>5 DEF CarryInv, Locks, LockOf
    <2> QED
        BY <2>1, <2>2 DEF Locks
<1>8. Room'
    <2>1. Used' = Used \cup {j} /\ j \notin Used
        BY <1>2, <1>5 DEF Used
    <2>2. IsFiniteSet(Used)
        BY UsedIs
    <2>3. Cardinality(Used') = Cardinality(Used) + 1
        BY <2>1, <2>2, FS_AddElement
    <2>4. Cardinality(Used) \in Nat /\ Cardinality(Used) + 1 <= requests /\ requests \in 0..MaxRequests
        BY <1>0, UsedIs DEF CarryInv, Room
    <2> QED
        BY <1>0, <2>3, <2>4 DEF Room
<1>9. Carried'
    BY <1>2, <1>5 DEF Carried, Carries
<1> QED
    BY <1>6, <1>7, <1>8, <1>9 DEF CarryInv

\* The import is given up when its job cannot be made.
LEMMA GivenUp == ASSUME CarryInv, EnqueueFails PROVE CarryInv'
<1>0. /\ enqueuing' = FALSE /\ abandoned' = TRUE
      /\ UNCHANGED <<row, bull, worker, requests>>
    BY DEF EnqueueFails
<1>1. QueueTypes' /\ Locks' /\ Carried'
    BY <1>0 DEF CarryInv, QueueTypes, Locks, LockOf, Carried
<1>2. Room'
    <2>1. Used' = Used
        BY <1>0 DEF Used
    <2>2. Cardinality(Used) \in Nat /\ requests \in Int
        BY UsedIs DEF CarryInv, Room
    <2> QED
        BY <1>0, <2>1, <2>2 DEF CarryInv, Room
<1> QED
    BY <1>1, <1>2 DEF CarryInv

\* A step of one process.
Moves(w) == DOMAIN worker' = Workers /\ \A v \in Workers \ {w} : worker'[v] = worker[v]

\* What is left to show for a step of one process, which touches at most one job:
\* that no job comes into use is clear when it was in use before.
LEMMA ProcessCarries ==
    ASSUME CarryInv, NEW w \in Workers, Moves(w), NEW me, worker'[w] = me,
           DOMAIN me = {"at", "job", "step", "page", "cache", "pending", "from"},
           me.at \in Phases, me.at # "idle" => me.job \in Jobs,
           NEW j \in Jobs,
           bull' \in [Jobs -> [state : {"none", "waiting", "active", "done"}, made : Nat,
                               stalls : Nat, owner : Workers \cup {Nobody}]],
           \A k \in Jobs \ {j} : bull'[k] = bull[k],
           bull'[j] = bull[j] \/ bull[j].state # "none",
           LockOf(j)', \A k \in Jobs \ {j} : bull[k].owner # w,
           row'.status \in {"none", "pending", "running", "completed", "failed"},
           DOMAIN row' = DOMAIN row, UNCHANGED <<enqueuing, requests>>,
           abandoned' \in BOOLEAN, abandoned => abandoned',
           Carried'
    PROVE  CarryInv'
<1>1. /\ DOMAIN worker' = Workers /\ worker'[w] = me
      /\ \A v \in Workers \ {w} : worker'[v] = worker[v]
    BY DEF Moves
<1>2. QueueTypes'
    BY <1>1 DEF CarryInv, QueueTypes
<1>3. ASSUME NEW k \in Jobs \ {j} PROVE LockOf(k)'
    <2>1. LockOf(k) /\ bull[k].owner \in Workers \cup {Nobody} /\ bull'[k] = bull[k]
        BY DEF CarryInv, Locks, QueueTypes
    <2>2. bull[k].owner # Nobody => worker'[bull[k].owner] = worker[bull[k].owner]
        BY <1>1, <2>1
    <2> QED
        BY <2>1, <2>2 DEF LockOf
<1>4. Locks'
    BY <1>3 DEF Locks
<1>5. Room'
    <2>1. Used' \subseteq Used
        BY DEF Used
    <2>2. /\ Cardinality(Used) \in Nat /\ Cardinality(Used') \in Nat /\ requests \in Int
          /\ Cardinality(Used') <= Cardinality(Used)
        BY <2>1, UsedIs DEF CarryInv, Room
    <2> QED
        BY <2>2 DEF CarryInv, Room
<1> QED
    BY <1>2, <1>4, <1>5 DEF CarryInv

\* What a step of one process leaves to carry the import on: the jobs and the other
\* processes that it does not touch.
LEMMA StillCarried ==
    ASSUME CarryInv, NEW w \in Workers, Moves(w), NEW me, worker'[w] = me,
           NEW j \in Jobs,
           \A k \in Jobs \ {j} : bull'[k] = bull[k] /\ bull[k].owner # w,
           At(w, "exhausted") => me.at = "exhausted",
           abandoned => abandoned', enqueuing' = enqueuing,
           row.status \in {"pending", "running"},
           Carries(j) => \/ abandoned' \/ Carries(j)' \/ me.at = "exhausted"
    PROVE  Carried'
<1>1. /\ worker'[w] = me /\ \A v \in Workers \ {w} : worker'[v] = worker[v]
    BY DEF Moves
<1>2. CASE abandoned \/ enqueuing
    BY <1>2 DEF Carried
<1>3. ASSUME NEW v \in Workers, At(v, "exhausted") PROVE Carried'
    <2>1. worker'[v].at = "exhausted"
        BY <1>1, <1>3 DEF At
    <2> QED
        BY <2>1 DEF Carried, At
<1>4. ASSUME NEW k \in Jobs, Carries(k) PROVE Carried'
    <2>1. CASE k = j
        <3>1. abandoned' \/ Carries(j)' \/ worker'[w].at = "exhausted"
            BY <1>1, <1>4, <2>1
        <3> QED
            BY <3>1 DEF Carried, At
    <2>2. CASE k # j
        <3>1. bull[k].owner \in Workers \cup {Nobody} /\ LockOf(k)
            BY DEF CarryInv, Locks, QueueTypes
        <3>2. bull[k].owner # w /\ bull'[k] = bull[k]
            BY <2>2
        <3>3. bull[k].owner # Nobody => worker'[bull[k].owner] = worker[bull[k].owner]
            BY <1>1, <3>1, <3>2
        <3>4. Carries(k)'
            BY <1>4, <3>1, <3>2, <3>3 DEF Carries, LockOf
        <3> QED
            BY <3>4 DEF Carried
    <2> QED
        BY <2>1, <2>2
<1> QED
    BY <1>2, <1>3, <1>4 DEF CarryInv, Carried

\* The job a process works on is the only one whose lock it may hold.
LEMMA OneLock ==
    ASSUME CarryInv, NEW w \in Workers, NEW k \in Jobs, bull[k].owner = w
    PROVE  worker[w].job = k /\ bull[k].state = "active" /\ worker[w].at \notin {"idle", "exhausted"}
BY OwnersAre DEF CarryInv, Locks, LockOf

\* A process at work goes on, or throws, or calls the import failed.
LEMMA WorkCarries ==
    ASSUME CarryInv, NEW w \in Workers, Moves(w), NEW me, worker'[w] = me,
           DOMAIN me = DOMAIN Idle, me.job = worker[w].job, Busy(w),
           me.at \in {"fetch", "record", "progress", "finish", "throw", "cleanup"},
           UNCHANGED <<bull, enqueuing, requests, abandoned>>, DOMAIN row' = DOMAIN row,
           row'.status = "failed" \/ (row'.status = row.status /\ me.at # "cleanup")
    PROVE  CarryInv'
<1>1. PICK j \in Jobs : j = worker[w].job
    BY DEF CarryInv, QueueTypes, Busy
<1>2. \A k \in Jobs \ {j} : bull[k].owner # w
    BY <1>1, OneLock
<1>3. LockOf(j)'
    <2>1. LockOf(j) /\ bull[j].owner \in Workers \cup {Nobody}
        BY DEF CarryInv, Locks, QueueTypes
    <2>2. bull[j].owner \in Workers \ {w} => worker'[bull[j].owner] = worker[bull[j].owner]
        BY DEF Moves
    <2> QED
        BY <1>1, <2>1, <2>2 DEF LockOf
<1>4. Carried'
    <2>1. CASE row'.status = "failed"
        BY <2>1 DEF Carried
    <2>2. CASE row'.status = row.status /\ me.at # "cleanup" /\ row.status \in {"pending", "running"}
        <3>1. Carries(j) => Carries(j)'
            <4>1. LockOf(j) /\ bull[j].owner \in Workers \cup {Nobody}
                BY DEF CarryInv, Locks, QueueTypes
            <4>2. bull[j].owner \in Workers \ {w} => worker'[bull[j].owner] = worker[bull[j].owner]
                BY DEF Moves
            <4> QED
                BY <2>2, <4>1, <4>2 DEF Carries, LockOf
        <3>2. ~At(w, "exhausted")
            BY DEF At, Busy
        <3> QED
            BY <1>2, <2>2, <3>1, <3>2, StillCarried
    <2> QED
        BY <2>1, <2>2 DEF Carried
<1>5. /\ me.at \in Phases /\ row'.status \in {"none", "pending", "running", "completed", "failed"}
      /\ bull \in [Jobs -> [state : {"none", "waiting", "active", "done"}, made : Nat,
                            stalls : Nat, owner : Workers \cup {Nobody}]]
      /\ abandoned \in BOOLEAN /\ DOMAIN me = {"at", "job", "step", "page", "cache", "pending", "from"}
    BY IdleIs DEF CarryInv, QueueTypes, Phases
<1> QED
    BY <1>1, <1>2, <1>3, <1>4, <1>5, ProcessCarries

\* A run of the pipeline, up to its end, and the errors of it.
LEMMA RunCarries ==
    ASSUME CarryInv, NEW w \in Workers,
           \/ Commit(w) \/ Record(w) \/ SetCheckpoint(w) \/ UpdateProgress(w)
           \/ ClientError(w) \/ Error(w)
    PROVE  CarryInv'
<1>0. /\ DOMAIN worker = Workers /\ DOMAIN worker[w] = DOMAIN Idle
      /\ DOMAIN row = {"status", "checkpoint", "progressed", "key", "selected"}
    BY IdleIs DEF CarryInv, QueueTypes
<1>1. UNCHANGED <<bull, enqueuing, requests, abandoned>>
    BY DEF Commit, Record, SetCheckpoint, UpdateProgress, ClientError, Error, history
<1>2. Busy(w)
    BY DEF Commit, Record, SetCheckpoint, UpdateProgress, ClientError, Error, Busy, At
<1>3. CASE Commit(w)
    <2>1. PICK ids : worker' = [worker EXCEPT ![w].at = "record", ![w].pending = ids]
        BY <1>3 DEF Commit
    <2>2. /\ Moves(w) /\ DOMAIN worker'[w] = DOMAIN Idle /\ worker'[w].job = worker[w].job
          /\ worker'[w].at = "record"
        BY <1>0, <2>1, IdleIs DEF Moves
    <2> QED
        BY <1>1, <1>2, <1>3, <2>2, WorkCarries DEF Commit
<1>4. CASE Record(w)
    <2>1. PICK ids, left : worker' = [worker EXCEPT ![w].cache = ids, ![w].pending = left]
        BY <1>4 DEF Record
    <2>2. /\ Moves(w) /\ DOMAIN worker'[w] = DOMAIN Idle /\ worker'[w].job = worker[w].job
          /\ worker'[w].at = worker[w].at
        BY <1>0, <2>1, IdleIs DEF Moves
    <2>3. worker[w].at = "record" /\ row' = row
        BY <1>4 DEF Record, At
    <2> QED
        BY <1>1, <1>2, <2>2, <2>3, WorkCarries
<1>5. CASE SetCheckpoint(w)
    <2>1. /\ Moves(w) /\ DOMAIN worker'[w] = DOMAIN Idle /\ worker'[w].job = worker[w].job
          /\ worker'[w].at = "progress"
        BY <1>0, <1>5, IdleIs DEF SetCheckpoint, Moves
    <2>2. DOMAIN row' = DOMAIN row /\ row'.status = row.status
        BY <1>0, <1>5 DEF SetCheckpoint
    <2> QED
        BY <1>1, <1>2, <2>1, <2>2, WorkCarries
<1>6. CASE UpdateProgress(w)
    <2> DEFINE me   == worker[w]
               todo == {s \in row.selected : Index[s] > Index[me.step]}
               next == IF me.page < Len(Source[me.step])
                       THEN [me EXCEPT !.at = "fetch", !.page = me.page + 1]
                       ELSE GoOn(me, todo)
    <2>1. worker' = [worker EXCEPT ![w] = next]
        BY <1>6, Zenon DEF UpdateProgress
    <2>2. /\ DOMAIN GoOn(me, todo) = DOMAIN Idle /\ GoOn(me, todo).job = me.job
          /\ GoOn(me, todo).at \in {"fetch", "finish"}
        <3> HIDE DEF todo
        <3> QED
            BY <1>0, IdleIs DEF GoOn
    <2>3. /\ DOMAIN next = DOMAIN Idle /\ next.job = me.job /\ next.at \in {"fetch", "finish"}
        <3> HIDE DEF todo
        <3> QED
            BY <1>0, <2>2, IdleIs
    <2>4. /\ Moves(w) /\ worker'[w] = next
        <3> HIDE DEF next
        <3> QED
            BY <1>0, <2>1 DEF Moves
    <2>5. DOMAIN row' = DOMAIN row /\ row'.status = row.status
        BY <1>0, <1>6 DEF UpdateProgress
    <2> HIDE DEF next
    <2> QED
        BY <1>1, <1>2, <2>3, <2>4, <2>5, WorkCarries
<1>7. CASE ClientError(w)
    <2>1. /\ Moves(w) /\ DOMAIN worker'[w] = DOMAIN Idle /\ worker'[w].job = worker[w].job
          /\ worker'[w].at = "cleanup"
        BY <1>0, <1>7, IdleIs DEF ClientError, Moves
    <2>2. DOMAIN row' = DOMAIN row /\ row'.status = "failed"
        BY <1>0, <1>7 DEF ClientError
    <2> QED
        BY <1>1, <1>2, <2>1, <2>2, WorkCarries
<1>8. CASE Error(w)
    <2>1. /\ Moves(w) /\ DOMAIN worker'[w] = DOMAIN Idle /\ worker'[w].job = worker[w].job
          /\ worker'[w].at = "throw" /\ row' = row
        BY <1>0, <1>8, IdleIs DEF Error, Moves
    <2> QED
        BY <1>1, <1>2, <2>1, WorkCarries
<1> QED
    BY <1>3, <1>4, <1>5, <1>6, <1>7, <1>8

\* A process takes a job that was waiting.
LEMMA TakeCarries ==
    ASSUME CarryInv, NEW w \in Workers, NEW j \in Jobs, Start(w, j) \/ StartWithoutKey(w, j)
    PROVE  CarryInv'
<1>0. /\ DOMAIN worker = Workers
      /\ DOMAIN row = {"status", "checkpoint", "progressed", "key", "selected"}
      /\ bull \in [Jobs -> [state : {"none", "waiting", "active", "done"}, made : Nat,
                            stalls : Nat, owner : Workers \cup {Nobody}]]
      /\ row.status \in {"none", "pending", "running", "completed", "failed"}
      /\ abandoned \in BOOLEAN /\ LockOf(j)
    BY DEF CarryInv, QueueTypes, Locks
<1>1. /\ bull[j].state = "waiting" /\ worker[w].at = "idle"
      /\ bull' = [bull EXCEPT ![j].state = "active", ![j].owner = w]
      /\ UNCHANGED <<enqueuing, requests, abandoned>>
    BY DEF Start, StartWithoutKey, Takes, At, history
<1>2. /\ bull' \in [Jobs -> [state : {"none", "waiting", "active", "done"}, made : Nat,
                             stalls : Nat, owner : Workers \cup {Nobody}]]
      /\ bull'[j].state = "active" /\ bull'[j].owner = w /\ bull'[j].stalls = bull[j].stalls
      /\ \A k \in Jobs \ {j} : bull'[k] = bull[k]
    BY <1>0, <1>1
<1>3. \A k \in Jobs : bull[k].owner # w
    BY <1>1, OneLock
<1>4. DOMAIN row' = DOMAIN row /\ row'.status \in {row.status, "running"}
    BY <1>0 DEF Start, StartWithoutKey
<1>5. PICK me : /\ worker' = [worker EXCEPT ![w] = me] /\ DOMAIN me = DOMAIN Idle
                /\ me.job = j /\ me.at \in {"fetch", "finish", "throw"}
    <2>1. CASE Start(w, j)
        <3> DEFINE begin == [Idle EXCEPT !.job = j, !.cache = idMap, !.from = row.checkpoint]
                   todo  == Remaining(row.selected, row.checkpoint.step)
        <3>1. worker' = [worker EXCEPT ![w] = GoOn(begin, todo)]
            BY <2>1, Zenon DEF Start
        <3>2. DOMAIN begin = DOMAIN Idle /\ begin.job = j
            BY IdleIs
        <3> HIDE DEF begin, todo
        <3>3. /\ DOMAIN GoOn(begin, todo) = DOMAIN Idle /\ GoOn(begin, todo).job = j
              /\ GoOn(begin, todo).at \in {"fetch", "finish"}
            BY <3>2, IdleIs DEF GoOn
        <3> QED
            BY <3>1, <3>3
    <2>2. CASE StartWithoutKey(w, j)
        <3> DEFINE me == [Idle EXCEPT !.at = "throw", !.job = j]
        <3>1. worker' = [worker EXCEPT ![w] = me]
            BY <2>2 DEF StartWithoutKey
        <3>2. DOMAIN me = DOMAIN Idle /\ me.job = j /\ me.at = "throw"
            BY IdleIs
        <3> HIDE DEF me
        <3> QED
            BY <3>1, <3>2
    <2> QED
        BY <2>1, <2>2
<1>6. Moves(w) /\ worker'[w] = me
    BY <1>0, <1>5 DEF Moves
<1>7. LockOf(j)'
    BY <1>0, <1>1, <1>2, <1>5, <1>6, OwnersAre DEF LockOf
<1>8. Carried'
    <2>1. Carries(j)'
        BY <1>2, <1>5, <1>6 DEF Carries
    <2> QED
        BY <2>1 DEF Carried
<1>9. /\ DOMAIN me = {"at", "job", "step", "page", "cache", "pending", "from"} /\ me.at \in Phases
      /\ row'.status \in {"none", "pending", "running", "completed", "failed"}
      /\ bull[j].state # "none" /\ me.job \in Jobs
    BY <1>0, <1>1, <1>4, <1>5, IdleIs DEF Phases
<1> QED
    BY <1>0, <1>1, <1>2, <1>3, <1>4, <1>6, <1>7, <1>8, <1>9, ProcessCarries

\* A process is through with its job, and tells BullMQ if it is heard: the import has
\* completed, or failed before.
LEMMA ReleaseCarries ==
    ASSUME CarryInv, NEW w \in Workers, Finish(w) \/ Cleanup(w) PROVE CarryInv'
<1>0. /\ DOMAIN worker = Workers
      /\ DOMAIN row = {"status", "checkpoint", "progressed", "key", "selected"}
      /\ bull \in [Jobs -> [state : {"none", "waiting", "active", "done"}, made : Nat,
                            stalls : Nat, owner : Workers \cup {Nobody}]]
      /\ row.status \in {"none", "pending", "running", "completed", "failed"}
      /\ abandoned \in BOOLEAN
    BY DEF CarryInv, QueueTypes
<1>1. /\ worker[w].at \in {"finish", "cleanup"}
      /\ worker' = [worker EXCEPT ![w] = Idle] /\ UNCHANGED <<enqueuing, requests, abandoned>>
    BY DEF Finish, Cleanup, At, history
<1>2. PICK j \in Jobs : j = worker[w].job
    BY <1>1 DEF CarryInv, QueueTypes
<1>3. \A k \in Jobs \ {j} : bull[k].owner # w
    BY <1>2, OneLock
<1>4. LockOf(j)
    BY DEF CarryInv, Locks
<1>5. \/ /\ bull[j].owner = w
         /\ bull' = [bull EXCEPT ![j].state = "done", ![j].owner = Nobody]
      \/ bull[j].owner # w /\ bull' = bull
    BY <1>2 DEF Finish, Cleanup, Release
<1>6. /\ bull' \in [Jobs -> [state : {"none", "waiting", "active", "done"}, made : Nat,
                             stalls : Nat, owner : Workers \cup {Nobody}]]
      /\ \A k \in Jobs \ {j} : bull'[k] = bull[k]
      /\ \/ /\ bull[j].owner = w /\ bull'[j].state = "done" /\ bull'[j].owner = Nobody
            /\ bull'[j].stalls = bull[j].stalls
         \/ bull[j].owner # w /\ bull'[j] = bull[j]
    <2>1. CASE /\ bull[j].owner = w
               /\ bull' = [bull EXCEPT ![j].state = "done", ![j].owner = Nobody]
        BY <1>0, <2>1
    <2>2. CASE bull[j].owner # w /\ bull' = bull
        BY <1>0, <2>2
    <2> QED
        BY <1>5, <2>1, <2>2
<1>7. Moves(w) /\ worker'[w] = Idle
    BY <1>0, <1>1 DEF Moves
<1>8. LockOf(j)'
    <2>1. bull[j].owner \in Workers \ {w} => worker'[bull[j].owner] = worker[bull[j].owner]
        BY <1>7 DEF Moves
    <2>2. bull[j].owner \in Workers \cup {Nobody}
        BY <1>0
    <2> QED
        BY <1>1, <1>4, <1>6, <2>1, <2>2 DEF LockOf
<1>9. DOMAIN row' = DOMAIN row /\ (row'.status = "completed" \/ (row' = row /\ Cleanup(w)))
    BY <1>0 DEF Finish, Cleanup
<1>10. Carried'
    <2>1. CASE row'.status = "completed"
        BY <2>1 DEF Carried
    <2>2. CASE row' = row /\ Cleanup(w) /\ row.status \in {"pending", "running"}
        <3>1. worker[w].at = "cleanup" /\ ~At(w, "exhausted")
            BY <2>2 DEF Cleanup, At
        <3>2. Carries(j) => Carries(j)'
            <4>1. bull[j].owner \in Workers \cup {Nobody}
                BY <1>0
            <4>2. bull[j].owner \in Workers \ {w} => worker'[bull[j].owner] = worker[bull[j].owner]
                BY <1>7 DEF Moves
            <4>3. bull[j].owner = w => ~Carries(j)
                BY <1>4, <3>1, OneLock DEF Carries
            <4> QED
                BY <1>4, <1>6, <4>1, <4>2, <4>3 DEF Carries, LockOf
        <3> QED
            BY <1>1, <1>3, <1>6, <1>7, <2>2, <3>1, <3>2, StillCarried
    <2> QED
        BY <1>9, <2>1, <2>2 DEF Carried
<1>11. /\ DOMAIN Idle = {"at", "job", "step", "page", "cache", "pending", "from"}
       /\ Idle.at = "idle" /\ Idle.at \in Phases
       /\ row'.status \in {"none", "pending", "running", "completed", "failed"}
    BY <1>0, <1>9, IdleIs DEF Phases
<1>12. bull'[j] = bull[j] \/ bull[j].state # "none"
    <2>1. bull[j].owner = w => bull[j].state = "active"
        BY OneLock
    <2> QED
        BY <1>6, <2>1
<1> QED
    BY <1>0, <1>1, <1>3, <1>6, <1>7, <1>8, <1>9, <1>10, <1>11, <1>12, ProcessCarries

\* An attempt has failed: there is another, or onFailed is called next, or BullMQ has
\* given the job to someone else.
LEMMA ThrowCarries == ASSUME CarryInv, NEW w \in Workers, Throw(w) PROVE CarryInv'
<1>0. /\ DOMAIN worker = Workers /\ DOMAIN worker[w] = DOMAIN Idle
      /\ DOMAIN row = {"status", "checkpoint", "progressed", "key", "selected"}
      /\ bull \in [Jobs -> [state : {"none", "waiting", "active", "done"}, made : Nat,
                            stalls : Nat, owner : Workers \cup {Nobody}]]
      /\ row.status \in {"none", "pending", "running", "completed", "failed"}
      /\ abandoned \in BOOLEAN
    BY IdleIs DEF CarryInv, QueueTypes
<1>1. worker[w].at = "throw" /\ UNCHANGED <<row, enqueuing, requests, abandoned>>
    BY DEF Throw, At, history
<1>2. PICK j \in Jobs : j = worker[w].job
    BY <1>1 DEF CarryInv, QueueTypes
<1>3. \A k \in Jobs \ {j} : bull[k].owner # w
    BY <1>2, OneLock
<1>4. LockOf(j)
    BY DEF CarryInv, Locks
<1>5. \/ /\ bull[j].owner = w
         /\ bull' = [bull EXCEPT ![j].state = "waiting", ![j].made = @ + 1, ![j].owner = Nobody]
         /\ worker' = [worker EXCEPT ![w] = Idle]
      \/ /\ bull[j].owner = w
         /\ bull' = [bull EXCEPT ![j].state = "done", ![j].made = @ + 1, ![j].owner = Nobody]
         /\ worker' = [worker EXCEPT ![w] = [worker[w] EXCEPT !.at = "exhausted"]]
      \/ bull[j].owner # w /\ bull' = bull /\ worker' = [worker EXCEPT ![w] = Idle]
    BY <1>2 DEF Throw
<1>6. /\ bull' \in [Jobs -> [state : {"none", "waiting", "active", "done"}, made : Nat,
                             stalls : Nat, owner : Workers \cup {Nobody}]]
      /\ \A k \in Jobs \ {j} : bull'[k] = bull[k]
      /\ \/ /\ bull[j].owner = w /\ bull'[j].owner = Nobody /\ bull'[j].stalls = bull[j].stalls
            /\ \/ bull'[j].state = "waiting" /\ worker' = [worker EXCEPT ![w] = Idle]
               \/ /\ bull'[j].state = "done"
                  /\ worker' = [worker EXCEPT ![w] = [worker[w] EXCEPT !.at = "exhausted"]]
         \/ bull[j].owner # w /\ bull'[j] = bull[j] /\ worker' = [worker EXCEPT ![w] = Idle]
    <2>1. CASE /\ bull[j].owner = w
               /\ bull' = [bull EXCEPT ![j].state = "waiting", ![j].made = @ + 1,
                                       ![j].owner = Nobody]
               /\ worker' = [worker EXCEPT ![w] = Idle]
        BY <1>0, <2>1
    <2>2. CASE /\ bull[j].owner = w
               /\ bull' = [bull EXCEPT ![j].state = "done", ![j].made = @ + 1, ![j].owner = Nobody]
               /\ worker' = [worker EXCEPT ![w] = [worker[w] EXCEPT !.at = "exhausted"]]
        BY <1>0, <2>2
    <2>3. CASE bull[j].owner # w /\ bull' = bull /\ worker' = [worker EXCEPT ![w] = Idle]
        BY <1>0, <2>3
    <2> QED
        BY <1>5, <2>1, <2>2, <2>3
<1>7. PICK me : /\ worker' = [worker EXCEPT ![w] = me] /\ DOMAIN me = DOMAIN Idle
                /\ \/ me.at = "idle"
                   \/ me.at = "exhausted" /\ me.job = j /\ bull'[j].state = "done"
                /\ bull'[j].state = "waiting" \/ bull'[j] = bull[j] \/ me.at = "exhausted"
                /\ bull'[j] = bull[j] => bull[j].owner # w
    <2>1. CASE worker' = [worker EXCEPT ![w] = Idle]
        <3>1. \/ bull'[j].state = "waiting" /\ bull[j].owner = w /\ bull'[j].owner = Nobody
              \/ bull[j].owner # w /\ bull'[j] = bull[j]
              \/ worker' = [worker EXCEPT ![w] = [worker[w] EXCEPT !.at = "exhausted"]]
            BY <1>6
        <3>2. worker' # [worker EXCEPT ![w] = [worker[w] EXCEPT !.at = "exhausted"]]
            <4>1. worker'[w] = Idle
                BY <1>0, <2>1
            <4>2. [worker EXCEPT ![w] = [worker[w] EXCEPT !.at = "exhausted"]][w].at = "exhausted"
                BY <1>0, IdleIs
            <4> QED
                BY <4>1, <4>2, IdleIs
        <3> QED
            BY <2>1, <3>1, <3>2, IdleIs, OwnersAre
    <2>2. CASE /\ bull[j].owner = w /\ bull'[j].owner = Nobody /\ bull'[j].state = "done"
               /\ worker' = [worker EXCEPT ![w] = [worker[w] EXCEPT !.at = "exhausted"]]
        <3>1. PICK me : me = [worker[w] EXCEPT !.at = "exhausted"]
            OBVIOUS
        <3>2. DOMAIN me = DOMAIN Idle /\ me.at = "exhausted" /\ me.job = j
            BY <1>0, <1>2, <3>1, IdleIs
        <3> QED
            BY <2>2, <3>1, <3>2, OwnersAre
    <2> QED
        BY <1>6, <2>1, <2>2
<1>8. Moves(w) /\ worker'[w] = me
    BY <1>0, <1>7 DEF Moves
<1>9. LockOf(j)'
    <2>1. bull[j].owner \in Workers \ {w} => worker'[bull[j].owner] = worker[bull[j].owner]
        BY <1>8 DEF Moves
    <2>2. bull[j].owner \in Workers \cup {Nobody}
        BY <1>0
    <2>3. CASE bull'[j] = bull[j]
        BY <1>1, <1>4, <1>7, <2>1, <2>2, <2>3 DEF LockOf
    <2>4. CASE /\ bull'[j].owner = Nobody /\ bull'[j].stalls = bull[j].stalls
               /\ bull'[j].state \in {"waiting", "done"}
        BY <1>1, <1>4, <2>4 DEF LockOf
    <2> QED
        BY <1>6, <2>3, <2>4
<1>10. Carried'
    <2> SUFFICES ASSUME row.status \in {"pending", "running"} PROVE Carried'
        BY <1>1 DEF Carried
    <2>1. Carries(j) => Carries(j)' \/ me.at = "exhausted"
        <3>1. bull[j].owner \in Workers \cup {Nobody}
            BY <1>0
        <3>2. bull[j].owner \in Workers \ {w} => worker'[bull[j].owner] = worker[bull[j].owner]
            BY <1>8 DEF Moves
        <3> QED
            BY <1>4, <1>7, <3>1, <3>2 DEF Carries, LockOf
    <2>2. ~At(w, "exhausted")
        BY <1>1 DEF At
    <2> QED
        BY <1>1, <1>3, <1>6, <1>8, <2>1, <2>2, StillCarried
<1>11. /\ DOMAIN me = {"at", "job", "step", "page", "cache", "pending", "from"}
       /\ me.at \in Phases /\ (me.at # "idle" => me.job \in Jobs)
    BY <1>7, IdleIs DEF Phases
<1>12. bull'[j] = bull[j] \/ bull[j].state # "none"
    <2>1. bull[j].owner = w => bull[j].state = "active"
        BY OneLock
    <2> QED
        BY <1>6, <2>1
<1> QED
    BY <1>0, <1>1, <1>3, <1>6, <1>8, <1>9, <1>10, <1>11, <1>12, ProcessCarries

\* onFailed, with no attempt left, calls the import failed, if it has no result yet.
LEMMA OnFailedCarries == ASSUME CarryInv, NEW w \in Workers, OnFailed(w) PROVE CarryInv'
<1>0. /\ DOMAIN worker = Workers /\ DOMAIN worker[w] = DOMAIN Idle
      /\ DOMAIN row = {"status", "checkpoint", "progressed", "key", "selected"}
      /\ bull \in [Jobs -> [state : {"none", "waiting", "active", "done"}, made : Nat,
                            stalls : Nat, owner : Workers \cup {Nobody}]]
      /\ row.status \in {"none", "pending", "running", "completed", "failed"}
      /\ abandoned \in BOOLEAN
    BY IdleIs DEF CarryInv, QueueTypes
<1>1. /\ worker[w].at = "exhausted" /\ UNCHANGED <<bull, enqueuing, requests, abandoned>>
    BY DEF OnFailed, At, history
<1>2. PICK j \in Jobs : j = worker[w].job
    BY <1>1 DEF CarryInv, QueueTypes
<1>3. \A k \in Jobs : bull[k].owner # w
    BY <1>1, OneLock
<1>4. PICK me : /\ worker' = [worker EXCEPT ![w] = me] /\ DOMAIN me = DOMAIN Idle
                /\ me.at = "idle" \/ (me.at = "cleanup" /\ me.job = j)
    <2>1. CASE worker' = [worker EXCEPT ![w] = Idle]
        BY <2>1, IdleIs
    <2>2. CASE worker' = [worker EXCEPT ![w].at = "cleanup"]
        <3>1. PICK me : me = [worker[w] EXCEPT !.at = "cleanup"]
            OBVIOUS
        <3>2. DOMAIN me = DOMAIN Idle /\ me.at = "cleanup" /\ me.job = j
            BY <1>0, <1>2, <3>1, IdleIs
        <3> QED
            BY <2>2, <3>1, <3>2
    <2> QED
        BY <2>1, <2>2 DEF OnFailed
<1>5. Moves(w) /\ worker'[w] = me
    BY <1>0, <1>4 DEF Moves
<1>6. row'.status \in {"completed", "failed"} /\ DOMAIN row' = DOMAIN row
    BY <1>0 DEF OnFailed
<1>7. Carried'
    BY <1>6 DEF Carried
<1>8. LockOf(j)'
    <2>1. bull[j].owner \in Workers \ {w} => worker'[bull[j].owner] = worker[bull[j].owner]
        BY <1>5 DEF Moves
    <2>2. bull[j].owner \in Workers \cup {Nobody} /\ LockOf(j)
        BY <1>0 DEF CarryInv, Locks
    <2> QED
        BY <1>1, <1>3, <2>1, <2>2 DEF LockOf
<1>9. /\ DOMAIN me = {"at", "job", "step", "page", "cache", "pending", "from"} /\ me.at \in Phases
      /\ (me.at # "idle" => me.job \in Jobs)
    BY <1>4, IdleIs DEF Phases
<1> QED
    BY <1>0, <1>1, <1>3, <1>5, <1>6, <1>7, <1>8, <1>9, ProcessCarries

\* The lock of a job expires: the job waits again, or is given up.
LEMMA StalledIs ==
    ASSUME CarryInv, NEW j \in Jobs, bull[j].state # "none", Stalled(j)
    PROVE  /\ bull' \in [Jobs -> [state : {"none", "waiting", "active", "done"}, made : Nat,
                                  stalls : Nat, owner : Workers \cup {Nobody}]]
           /\ \A k \in Jobs \ {j} : bull'[k] = bull[k]
           /\ LockOf(j)'
           /\ abandoned' \/ Carries(j)'
           /\ abandoned' \in BOOLEAN /\ (abandoned => abandoned')
<1>0. /\ bull \in [Jobs -> [state : {"none", "waiting", "active", "done"}, made : Nat,
                            stalls : Nat, owner : Workers \cup {Nobody}]]
      /\ abandoned \in BOOLEAN /\ MaxStalls \in Nat /\ LockOf(j)
    BY BoundsAre DEF CarryInv, QueueTypes, Locks
<1>1. PICK st \in {"waiting", "done"} :
          /\ bull' = [bull EXCEPT ![j].stalls = @ + 1, ![j].owner = Nobody, ![j].state = st]
          /\ st = "waiting" <=> bull[j].stalls < MaxStalls
    BY DEF Stalled
<1>2. /\ bull' \in [Jobs -> [state : {"none", "waiting", "active", "done"}, made : Nat,
                             stalls : Nat, owner : Workers \cup {Nobody}]]
      /\ bull'[j].state = st /\ bull'[j].owner = Nobody /\ bull'[j].stalls = bull[j].stalls + 1
      /\ \A k \in Jobs \ {j} : bull'[k] = bull[k]
    <2>1. PICK n \in Nat : n = bull[j].stalls + 1
        BY <1>0
    <2>2. bull' = [bull EXCEPT ![j].stalls = n, ![j].owner = Nobody, ![j].state = st]
        BY <1>1, <2>1
    <2>3. /\ bull' \in [Jobs -> [state : {"none", "waiting", "active", "done"}, made : Nat,
                                  stalls : Nat, owner : Workers \cup {Nobody}]]
          /\ bull'[j].state = st /\ bull'[j].owner = Nobody /\ bull'[j].stalls = n
          /\ \A k \in Jobs \ {j} : bull'[k] = bull[k]
        BY <1>0, <2>2
    <2> QED
        BY <2>1, <2>3
<1>3. abandoned' <=> (abandoned \/ bull[j].stalls = MaxStalls)
    BY DEF Stalled
<1>4. abandoned' \in BOOLEAN /\ (abandoned => abandoned')
    BY <1>0 DEF Stalled
<1>5. bull[j].stalls >= MaxStalls => abandoned'
    BY <1>0, <1>3 DEF LockOf
<1>6. bull'[j].stalls > MaxStalls => abandoned'
    BY <1>0, <1>2, <1>5
<1>7. LockOf(j)'
    BY <1>1, <1>2, <1>6 DEF LockOf
<1>8. abandoned' \/ Carries(j)'
    <2>1. bull[j].stalls < MaxStalls \/ bull[j].stalls >= MaxStalls
        BY <1>0
    <2> QED
        BY <1>1, <1>2, <1>5, <2>1 DEF Carries
<1> QED
    BY <1>2, <1>4, <1>7, <1>8

\* A process dies, or loses the lock of its job and goes on.
LEMMA StallCarries ==
    ASSUME CarryInv, NEW w \in Workers, Crash(w) \/ LoseLock(w) PROVE CarryInv'
<1>0. /\ DOMAIN worker = Workers /\ DOMAIN worker[w] = DOMAIN Idle /\ worker[w].at \in Phases
      /\ DOMAIN row = {"status", "checkpoint", "progressed", "key", "selected"}
      /\ bull \in [Jobs -> [state : {"none", "waiting", "active", "done"}, made : Nat,
                            stalls : Nat, owner : Workers \cup {Nobody}]]
      /\ row.status \in {"none", "pending", "running", "completed", "failed"}
      /\ abandoned \in BOOLEAN
    BY IdleIs DEF CarryInv, QueueTypes
<1>1. worker[w].at # "idle" /\ UNCHANGED <<row, enqueuing, requests>>
    BY DEF Crash, LoseLock, At
<1>2. PICK j \in Jobs : j = worker[w].job
    BY <1>1 DEF CarryInv, QueueTypes
<1>3. \A k \in Jobs \ {j} : bull[k].owner # w
    BY <1>2, OneLock
<1>4. LockOf(j)
    BY DEF CarryInv, Locks
<1>5. \/ bull[j].owner = w /\ Stalled(j)
      \/ /\ bull[j].owner # w /\ bull' = bull /\ worker' = [worker EXCEPT ![w] = Idle]
         /\ abandoned' = (abandoned \/ At(w, "exhausted"))
    BY <1>2 DEF Crash, LoseLock
<1>6. PICK me \in {Idle, worker[w]} : worker'[w] = me /\ DOMAIN me = DOMAIN Idle
    <2>1. worker' = [worker EXCEPT ![w] = Idle] \/ worker' = worker
        BY DEF Crash, LoseLock
    <2> QED
        BY <1>0, <2>1
<1>7. Moves(w) /\ worker'[w] = me
    BY <1>0, <1>6 DEF Crash, LoseLock, Moves
<1>8. /\ DOMAIN me = {"at", "job", "step", "page", "cache", "pending", "from"} /\ me.at \in Phases
      /\ (me.at # "idle" => me.job \in Jobs)
    BY <1>0, <1>2, <1>6, IdleIs DEF Phases
<1>9. CASE bull[j].owner = w /\ Stalled(j)
    <2>1. bull[j].state = "active" /\ ~At(w, "exhausted")
        BY <1>9, OneLock DEF At
    <2>2. /\ bull' \in [Jobs -> [state : {"none", "waiting", "active", "done"}, made : Nat,
                                 stalls : Nat, owner : Workers \cup {Nobody}]]
          /\ \A k \in Jobs \ {j} : bull'[k] = bull[k]
          /\ LockOf(j)' /\ (abandoned' \/ Carries(j)')
          /\ abandoned' \in BOOLEAN /\ (abandoned => abandoned')
        BY <1>9, <2>1, StalledIs
    <2>3. Carried'
        BY <2>2 DEF Carried
    <2> QED
        BY <1>0, <1>1, <1>3, <1>7, <1>8, <2>1, <2>2, <2>3, ProcessCarries
<1>10. CASE /\ bull[j].owner # w /\ bull' = bull /\ worker' = [worker EXCEPT ![w] = Idle]
            /\ abandoned' = (abandoned \/ At(w, "exhausted"))
    <2>0. worker'[w] = Idle
        BY <1>0, <1>10
    <2>1. bull[j].owner \in Workers \ {w} => worker'[bull[j].owner] = worker[bull[j].owner]
        BY <1>7 DEF Moves
    <2>2. bull[j].owner \in Workers \cup {Nobody}
        BY <1>0
    <2>3. /\ abandoned' \in BOOLEAN /\ (abandoned => abandoned')
        BY <1>0, <1>10
    <2>4. LockOf(j)'
        BY <1>4, <1>10, <2>1, <2>2, <2>3 DEF LockOf
    <2>5. Carries(j) => Carries(j)'
        BY <1>4, <1>10, <2>1, <2>2 DEF Carries, LockOf
    <2>6. Carried'
        <3>1. CASE At(w, "exhausted")
            BY <1>10, <3>1 DEF Carried
        <3>2. CASE ~At(w, "exhausted") /\ row.status \in {"pending", "running"}
            BY <1>1, <1>3, <1>7, <1>10, <2>3, <2>5, <3>2, StillCarried
        <3>3. CASE row.status \notin {"pending", "running"}
            BY <1>1, <3>3 DEF Carried
        <3> QED
            BY <3>1, <3>2, <3>3
    <2> QED
        BY <1>0, <1>1, <1>3, <1>7, <1>8, <1>10, <2>3, <2>4, <2>6, ProcessCarries
<1> QED
    BY <1>5, <1>9, <1>10

\* Every step keeps it.
LEMMA CarryNext == CarryInv /\ [Next]_vars => CarryInv'
<1> SUFFICES ASSUME CarryInv, [Next]_vars PROVE CarryInv'
    OBVIOUS
<1>1. CASE UNCHANGED vars
    <2>1. UNCHANGED <<row, bull, worker, enqueuing, requests, abandoned>>
        BY <1>1 DEF vars, history
    <2>2. Used' = Used
        BY <2>1 DEF Used
    <2> QED
        BY <2>1, <2>2
           DEF CarryInv, QueueTypes, Locks, LockOf, Room, Carried, Carries, At
<1>2. CASE Resume \/ \E S \in Selections : Import(S)
    BY <1>2, ApiCarries
<1>3. CASE Enqueue \/ EnqueueFails
    BY <1>3, EnqueueCarries, GivenUp
<1>4. ASSUME NEW w \in Workers, Running(w) PROVE CarryInv'
    <2>1. CASE \E j \in Jobs : Start(w, j) \/ StartWithoutKey(w, j)
        BY <2>1, TakeCarries
    <2>2. CASE Commit(w) \/ Record(w) \/ SetCheckpoint(w) \/ UpdateProgress(w)
        BY <2>2, RunCarries
    <2>3. CASE Finish(w) \/ Cleanup(w)
        BY <2>3, ReleaseCarries
    <2>4. CASE Throw(w) \/ OnFailed(w)
        BY <2>4, ThrowCarries, OnFailedCarries
    <2> QED
        BY <1>4, <2>1, <2>2, <2>3, <2>4 DEF Running
<1>5. ASSUME NEW w \in Workers, ClientError(w) \/ Error(w) \/ Crash(w) \/ LoseLock(w)
      PROVE  CarryInv'
    BY <1>5, RunCarries, StallCarries
<1> QED
    BY <1>1, <1>2, <1>3, <1>4, <1>5 DEF Next

\* An import that is pending or running has a job that will take it further, or one
\* about to be made or called failed, unless it was given up: however many processes
\* run it, whatever errors, crashes and lost locks there are, and whenever it is
\* resumed (Worker of enterprise-import, and createAccountImport).
THEOREM ActiveHasAJob == Spec => []ActiveIsCarried
<1>1. CarryInv => ActiveIsCarried
    BY DEF CarryInv, Carried, Carries, ActiveIsCarried
<1> QED
    BY <1>1, CarryInit, CarryNext, PTL DEF Spec

=============================================================================
