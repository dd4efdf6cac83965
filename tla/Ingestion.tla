------------------------------ MODULE Ingestion ------------------------------
(***************************************************************************)
(* Webpage imports: the endpoint that queues one (server/api/index.ts      *)
(* /ingest), the worker that fetches it (server/ingestion/webpage.ts) and  *)
(* the owner's edits of the same card (server/services/content.ts).        *)
(*                                                                         *)
(* A fetch holds no transaction: the card may be edited, and the server    *)
(* stopped or killed, before its result is committed.                      *)
(***************************************************************************)
EXTENDS Integers, FiniteSets

CONSTANTS
    Cards, Owner,   \* webpage cards, each of one account
    Tabs,           \* editors, each with the version it last read
    None,
    UserLimit, TotalLimit,  \* USER_IMPORT_LIMIT, IMPORT_QUEUE_LIMIT
    MaxEdits,       \* bound
    MaxFaults       \* bound: stops, crashes, database errors, low disks

ASSUME IngestionAssumption ==
    /\ {UserLimit, TotalLimit, MaxEdits, MaxFaults} \subseteq Nat /\ DOMAIN Owner = Cards

\* None is no card, no state of the queue and no row of a card.
ASSUME NoneAssumption ==
    /\ None \notin Cards \cup {"queued", "running", "ready", "failed", "manual"}
    /\ None \notin [status : {"pending", "ready", "failed"}, text : {"none", "page", "user"}, version : Nat]

VARIABLES
    card,       \* block_live_state: status, whose text it is, version; None before it is made
    job,        \* ingestions.status, or None
    worker,     \* the row being fetched: its card, version and result
    server,     \* "up" | "stopping" | "fatal" | "down"
    allowed,    \* canClaim: the disk has room
    read,       \* what each tab last read of each card: its version
    counts

vars == <<card, job, worker, server, allowed, read, counts>>

Made == {b \in Cards : card[b] # None}
Waiting == {b \in Cards : job[b] \in {"queued", "running"}}
Idle == [card |-> None, version |-> 0, result |-> "none"]

TypeOK ==
    /\ \A b \in Made : card[b].status \in {"pending", "ready", "failed"} /\ card[b].text \in {"none", "page", "user"}
                       /\ card[b].version \in 0..MaxEdits + 1
    /\ job \in [Cards -> {None, "queued", "running", "ready", "failed", "manual"}]
    /\ worker.card \in Cards \cup {None} /\ worker.result \in {"none", "page", "failed"}
    /\ (worker.card # None => server # "down" /\ job[worker.card] \in {"running", "manual"})
    /\ \A b \in Cards : job[b] = "running" /\ worker.card # b => server \in {"fatal", "down"}
    /\ read \in [Tabs -> [Cards -> 0..MaxEdits + 1]] /\ allowed \in BOOLEAN
    /\ server \in {"up", "stopping", "fatal", "down"}
    /\ counts.edits \in 0..MaxEdits /\ counts.faults \in 0..MaxFaults

Init ==
    /\ card = [b \in Cards |-> None] /\ job = [b \in Cards |-> None]
    /\ worker = Idle /\ server = "up" /\ allowed = TRUE
    /\ read = [t \in Tabs |-> [b \in Cards |-> 0]]
    /\ counts = [edits |-> 0, faults |-> 0]

Fault == counts.faults < MaxFaults /\ counts' = [counts EXCEPT !.faults = @ + 1]
-----------------------------------------------------------------------------
(* The endpoints *)

\* admitImport
Admitted(b) ==
    /\ Cardinality(Waiting) < TotalLimit
    /\ Cardinality({a \in Waiting : Owner[a] = Owner[b]}) < UserLimit

\* POST /ingest: with pasted text the card is ready, and nothing is queued.
Ingest(b) ==
    /\ server = "up" /\ b \notin Made
    /\ \/ /\ card' = [card EXCEPT ![b] = [status |-> "ready", text |-> "user", version |-> 0]]
          /\ UNCHANGED job
       \/ /\ Admitted(b)
          /\ card' = [card EXCEPT ![b] = [status |-> "pending", text |-> "none", version |-> 0]]
          /\ job' = [job EXCEPT ![b] = "queued"]
    /\ UNCHANGED <<worker, server, allowed, read, counts>>

Read(t, b) ==
    /\ server = "up" /\ b \in Made /\ read[t][b] # card[b].version
    /\ read' = [read EXCEPT ![t][b] = card[b].version]
    /\ UNCHANGED <<card, job, worker, server, allowed, counts>>

\* An edit takes the card out of the queue, or out of the worker's hands.
Manual(b) == IF job[b] = None THEN job ELSE [job EXCEPT ![b] = "manual"]

\* updateBlockLiveState; an edit that changes nothing writes nothing, not even "manual".
Edit(t, b) ==
    /\ server = "up" /\ b \in Made /\ counts.edits < MaxEdits
    /\ read[t][b] = card[b].version
    /\ card' = [card EXCEPT ![b] = [status |-> "ready", text |-> "user", version |-> card[b].version + 1]]
    /\ job' = Manual(b)
    /\ read' = [read EXCEPT ![t][b] = card[b].version + 1]
    /\ counts' = [counts EXCEPT !.edits = @ + 1]
    /\ UNCHANGED <<worker, server, allowed>>
-----------------------------------------------------------------------------
(* The worker *)

Marked(b) == [job EXCEPT ![b] = "running"]

\* The half-second poll, when nothing is being fetched.
Claim ==
    /\ server = "up" /\ allowed /\ worker.card = None
    /\ \E b \in Cards :
         /\ job[b] = "queued" /\ job' = Marked(b)
         /\ worker' = [card |-> b, version |-> card[b].version, result |-> "none"]
    /\ UNCHANGED <<card, server, allowed, read, counts>>

\* fetchWebpage: every refusal, limit and timeout is one failure; a stop aborts the fetch.
Fetch ==
    /\ worker.card # None /\ worker.result = "none"
    /\ \E result \in {"page", "failed"} :
         /\ server = "stopping" => result = "failed"
         /\ worker' = [worker EXCEPT !.result = result]
    /\ UNCHANGED <<card, job, server, allowed, read, counts>>

\* Fault: the result is written whatever the version.
CurrentAlways == TRUE

Current == card[worker.card].version = worker.version

Write ==
    IF ~ Current THEN card
    ELSE [card EXCEPT ![worker.card] =
            [status |-> IF worker.result = "page" THEN "ready" ELSE "failed",
             text |-> IF worker.result = "page" THEN "page" ELSE @.text, version |-> @.version + 1]]

Close ==
    IF job[worker.card] # "running" THEN job
    ELSE [job EXCEPT ![worker.card] = IF worker.result = "page" THEN "ready" ELSE "failed"]

\* One transaction; it may fail, which stops the whole server.
Commit ==
    /\ worker.card # None /\ worker.result # "none" /\ worker' = Idle
    /\ \/ card' = Write /\ job' = Close /\ UNCHANGED <<server, counts>>
       \/ Fault /\ server' = "fatal" /\ UNCHANGED <<card, job>>
    /\ UNCHANGED <<allowed, read>>

-----------------------------------------------------------------------------
(* The process *)

\* stop() ends the poll, aborts the fetch and waits for its commit.
Stop == server = "up" /\ Fault /\ server' = "stopping" /\ UNCHANGED <<card, job, worker, allowed, read>>

Down ==
    /\ server \in {"stopping", "fatal"} /\ worker.card = None
    /\ server' = "down" /\ UNCHANGED <<card, job, worker, allowed, read, counts>>

Crash ==
    /\ server # "down" /\ Fault
    /\ server' = "down" /\ worker' = Idle /\ UNCHANGED <<card, job, allowed, read>>

Requeued == [b \in Cards |-> IF job[b] = "running" THEN "queued" ELSE job[b]]

Start ==
    /\ server = "down" /\ server' = "up" /\ job' = Requeued
    /\ UNCHANGED <<card, worker, allowed, read, counts>>

Disk ==
    /\ allowed' = ~allowed /\ IF allowed THEN Fault ELSE UNCHANGED counts
    /\ UNCHANGED <<card, job, worker, server, read>>

Next ==
    \/ \E b \in Cards : Ingest(b) \/ \E t \in Tabs : Read(t, b) \/ Edit(t, b)
    \/ Claim \/ Fetch \/ Commit \/ Stop \/ Down \/ Crash \/ Start \/ Disk

Spec == Init /\ [][Next]_vars

\* A fetch ends within ten seconds, the poll and a restart come, and space is made on the disk.
Fairness ==
    /\ WF_vars(Claim) /\ WF_vars(Fetch) /\ WF_vars(Commit) /\ WF_vars(Down) /\ WF_vars(Start)
    /\ WF_vars(Disk /\ ~allowed)

FairSpec == Spec /\ Fairness

-----------------------------------------------------------------------------
(* Properties *)

\* A card its owner wrote or pasted is never replaced by the page that was being fetched meanwhile.
NoClobber == \A b \in Made : card[b].text = "user" => card'[b].text = "user"

\* The queue and the card tell one story, although an edit and the worker each write both.
Agreement ==
    \A b \in Made :
      CASE job[b] \in {"queued", "running"} -> card[b].status = "pending"
        [] job[b] = "ready" -> card[b].status = "ready" /\ card[b].text = "page"
        [] job[b] = "failed" -> card[b].status = "failed" /\ card[b].text = "none"
        [] OTHER -> card[b].status = "ready" /\ card[b].text = "user"

\* No import waits for ever, whatever stopped the server while it was fetched.
Settles == \A b \in Cards : job[b] = "queued" ~> job[b] \in {"ready", "failed", "manual"}

\* The queue of webpages and their cards tell one story, and no page replaces what its owner wrote
\* (ingestion.ts:30-160).
PagesKept == [][Agreement' /\ NoClobber]_vars

=============================================================================
