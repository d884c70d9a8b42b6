--------------------------- MODULE CampaignPaging ---------------------------
(***************************************************************************)
(* How apps/campaign-packer divides the audience of one campaign into      *)
(* pages: the test groups of an A/B or split campaign, the page boundaries *)
(* the database computes, the range of order numbers each page job asks    *)
(* for, and the page workers that take the jobs in any order.              *)
(*                                                                         *)
(* The audience is the set 1..contacts of order numbers that               *)
(* createContactsSend gives the rows of campaigns_contacts.  Every listed  *)
(* contact is taken to be reachable on the channel (the filters of         *)
(* findByTags only remove contacts from a page).  A createBatches call     *)
(* adds all its jobs in one step: the delays of the jobs keep no order     *)
(* among workers, so ProcessPage takes them in every order anyway.         *)
(***************************************************************************)
EXTENDS Naturals, FiniteSets, FiniteSetsExt

CONSTANTS
    Types,          \* the campaign types to consider: "simple", "split", "testab"
    MaxContacts,    \* bound on the size of an audience
    BatchLimit,     \* LIMIT_CONTACT_BATCH
    Spreads,        \* values of spreadSending, in minutes
    Percents,       \* values of testabAudiencePercent
    MaxMessages     \* bound on the messages of a split or A/B campaign

ASSUME PagingAssumption ==
    /\ Types \subseteq {"simple", "split", "testab"}
    /\ MaxContacts \in Nat \ {0}
    /\ BatchLimit \in Nat \ {0}
    /\ Spreads \subseteq Nat
    /\ Percents \subseteq 1..100
    /\ MaxMessages \in Nat \ {0}

VARIABLES
    campaign,    \* the campaign's row, as the packer reads it
    stage,       \* what the packer does next for this campaign
    ends,        \* the last order numbers of the test groups not yet paged
    testabLastId,\* the column of that name: where the tested share ends
    jobs,        \* every page job ever added to campaign-schedule-page
    processed    \* the page jobs a worker has packaged

vars == <<campaign, stage, ends, testabLastId, jobs, processed>>

(***************************************************************************)
(* The database's part.                                                    *)
(***************************************************************************)

CeilDiv(a, b) == (a + b - 1) \div b

\* The page size: spread the audience over the minutes, within the limit.
GetLimit(contacts, spread) ==
    LET perMinute == IF spread > 0 THEN CeilDiv(contacts, spread) ELSE 0
    IN  IF perMinute < BatchLimit /\ perMinute > 0 THEN perMinute ELSE BatchLimit

\* countByTags: every limit-th row of the interval (lastSentId, finalId], and
\* the last one; 0 stands for no end on either side.
Boundaries(contacts, limit, lastSentId, finalId) ==
    LET rows == {n \in 1..contacts : n > lastSentId /\ (finalId = 0 \/ n <= finalId)}
    IN  {n \in rows : (n - lastSentId) % limit = 0 \/ n = Max(rows)}

\* The contacts whose percent_rank is within the tested share: the first ones.
TestedShare(contacts, percent) ==
    Cardinality({n \in 1..contacts : 100 * (n - 1) <= percent * (contacts - 1)})

\* ROUND(countLastLine / quatityMessages)
GroupSize(share, messages) == (2 * share + messages) \div (2 * messages)

\* startedTestAB: where each test group ends.
GroupEnds(share, messages) ==
    LET size == GroupSize(share, messages)
    IN  {n \in 1..share : (n % size = 0 /\ n < messages * size) \/ n = share}

(***************************************************************************)
(* createBatches: one job per boundary, the highest boundary first.  A     *)
(* page runs from just above the next boundary below it; the lowest page   *)
(* of the batch runs from just above lastId.  A batch of a single page     *)
(* takes its start from the type of the campaign.                          *)
(***************************************************************************)

OnlyPageFirst(type, lastId) ==
    IF type = "split" THEN lastId + 1 ELSE IF type = "testab" THEN lastId ELSE 0

\* (mutant) the pages of a batch share their boundary
PageFirstAtBoundary(type, bounds, b, lastId) ==
    LET lower == {x \in bounds : x < b}
    IN  IF lower # {} THEN Max(lower)
        ELSE IF Cardinality(bounds) > 1 THEN IF lastId > 0 THEN lastId + 1 ELSE 0
        ELSE OnlyPageFirst(type, lastId)

PageFirst(type, bounds, b, lastId) ==
    LET lower == {x \in bounds : x < b}
    IN  IF lower # {} THEN Max(lower) + 1
        ELSE IF Cardinality(bounds) > 1 THEN IF lastId > 0 THEN lastId + 1 ELSE 0
        ELSE OnlyPageFirst(type, lastId)

\* (mutant) the lowest page is popped and never queued
BatchDropsLast(message, spread, lastId, finalId) ==
    LET bounds == Boundaries(campaign.contacts, GetLimit(campaign.contacts, spread), lastId, finalId)
    IN  {[message |-> message,
          page    |-> Cardinality({x \in bounds : x >= b}),
          total   |-> Cardinality(bounds),
          first   |-> PageFirst(campaign.type, bounds, b, lastId),
          last    |-> b] : b \in bounds \ {Min(bounds)}}

Batch(message, spread, lastId, finalId) ==
    LET bounds == Boundaries(campaign.contacts, GetLimit(campaign.contacts, spread), lastId, finalId)
    IN  {[message |-> message,
          page    |-> Cardinality({x \in bounds : x >= b}),
          total   |-> Cardinality(bounds),
          first   |-> PageFirst(campaign.type, bounds, b, lastId),
          last    |-> b] : b \in bounds}

(***************************************************************************)
(* The state machine.                                                      *)
(***************************************************************************)

Campaigns ==
    {c \in [type : Types, contacts : 1..MaxContacts, spread : Spreads,
            testSpread : Spreads, percent : Percents, messages : 1..MaxMessages,
            sendWinner : BOOLEAN] :
        /\ c.type = "split"  => c.percent = 100
        /\ c.type = "testab" => c.testSpread <= c.spread
        /\ c.type # "testab" => c.testSpread = c.spread /\ ~c.sendWinner
        /\ (c.type = "simple") = (c.messages = 1)}

Init ==
    /\ campaign \in Campaigns
    /\ stage = IF campaign.type = "simple" THEN "trigger" ELSE "test"
    /\ ends = {}
    /\ testabLastId = 0
    /\ jobs = {}
    /\ processed = {}

\* createContactsSend: list the contacts of a simple campaign (they are the
\* audience already in an A/B one) and hand the campaign to the packer queue.
Trigger ==
    /\ stage = "trigger"
    /\ stage' = "batches"
    /\ UNCHANGED <<campaign, ends, testabLastId, jobs, processed>>

\* createTest, up to the loop.  A group size of zero makes the query divide by
\* zero, and the call fails.
StartTest ==
    /\ stage = "test"
    /\ LET share == TestedShare(campaign.contacts, campaign.percent)
       IN  IF GroupSize(share, campaign.messages) = 0
           THEN /\ stage' = "failed"
                /\ UNCHANGED ends
           ELSE /\ stage' = "groups"
                /\ ends' = GroupEnds(share, campaign.messages)
    /\ UNCHANGED <<campaign, testabLastId, jobs, processed>>

\* One turn of createTest's loop: the group with the highest numbers first,
\* each with a message of its own.  After the last one the end of the tested
\* share is saved in testabLastId.
BatchGroup ==
    /\ stage = "groups"
    /\ LET top  == Max(ends)
           next == IF ends = {top} THEN 0 ELSE Max(ends \ {top})
           message == Cardinality({j.message : j \in jobs}) + 1
       IN  /\ jobs' = jobs \cup Batch(message, campaign.testSpread, next, top)
           /\ ends' = ends \ {top}
    /\ \/ ends' # {} /\ UNCHANGED <<stage, testabLastId>>
       \/ /\ ends' = {}
          /\ stage' = IF campaign.type = "split" THEN "sent" ELSE "result"
          /\ testabLastId' = TestedShare(campaign.contacts, campaign.percent)
    /\ UNCHANGED <<campaign, processed>>

\* processResult: the campaign is over, or its winner goes to the others.
ProcessResult ==
    /\ stage = "result"
    /\ stage' = IF campaign.sendWinner THEN "trigger" ELSE "over"
    /\ UNCHANGED <<campaign, ends, testabLastId, jobs, processed>>

\* createBatches for a whole simple campaign, or for the winner of a test
\* (message 0).  With nobody left it throws, and nothing is queued.
CreateBatches ==
    /\ stage = "batches"
    /\ LET lastId == IF campaign.type = "simple" THEN 0 ELSE testabLastId
       IN  jobs' = jobs \cup Batch(0, campaign.spread, lastId, 0)
    /\ stage' = "sent"
    /\ UNCHANGED <<campaign, ends, testabLastId, processed>>

\* processPage on a campaign that still runs: package the contacts in range.
ProcessPage(j) ==
    /\ j \in jobs \ processed
    /\ processed' = processed \cup {j}
    /\ UNCHANGED <<campaign, stage, ends, testabLastId, jobs>>

\* The plan is carried out.
Finished ==
    /\ stage \in {"sent", "over", "failed"}
    /\ processed = jobs
    /\ UNCHANGED vars

Next ==
    \/ Trigger \/ StartTest \/ BatchGroup \/ ProcessResult \/ CreateBatches
    \/ \E j \in jobs : ProcessPage(j)
    \/ Finished

Spec == Init /\ [][Next]_vars

(***************************************************************************)
(* Properties.                                                             *)
(***************************************************************************)

Addressed(j) == {n \in 1..campaign.contacts : j.first <= n /\ n <= j.last}

Packages(n) == {j \in processed : n \in Addressed(j)}

\* The only page of a batch of an A/B campaign: its range starts at the last
\* contact of the part below it.
SeamPage(j) == campaign.type = "testab" /\ j.total = 1

\* No contact is in two packages of one campaign, whatever the page limit, the
\* groups and the order in which the workers take the pages, as long as an A/B
\* campaign has no batch of a single page (createBatches, the ranges of
\* currentContactId and finalContactId).
OneMessageEach ==
    \A n \in 1..campaign.contacts :
        Cardinality({j \in Packages(n) : ~SeamPage(j)}) <= 1

\* Once the plan is carried out every contact of a simple or a split campaign,
\* and of an A/B campaign whose winner is sent, was in a package.
NobodySkipped ==
    stage = "sent" /\ processed = jobs =>
        \A n \in 1..campaign.contacts : Packages(n) # {}

\* The pages of one batch are numbered without gaps or repetitions, so exactly
\* one of them is the page the events tracker completes the campaign on.
OneLastPage ==
    \A j \in jobs :
        \A p \in 1..j.total :
            Cardinality({k \in jobs : k.message = j.message /\ k.page = p}) = 1

\* A package holds at most LIMIT_CONTACT_BATCH contacts, except on a seam page.
PageFitsLimit ==
    \A j \in jobs : ~SeamPage(j) => Cardinality(Addressed(j)) <= BatchLimit

\* What send-email asserts of every package it gets (validateCampaign in its
\* batch.service.ts): at most LIMIT_CONTACT_BATCH contacts.  A seam page over a
\* part of exactly that size has one more, and send-email rejects it whole.
EveryPackageFits == \A j \in jobs : Cardinality(Addressed(j)) <= BatchLimit

=============================================================================
