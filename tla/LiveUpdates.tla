----------------------------- MODULE LiveUpdates -----------------------------
(***************************************************************************)
(* How a page learns what became of its runs: the event hub and stream of  *)
(* server/sse/hub.ts and server/api/index.ts, src/services/live-updates.ts *)
(* and the reads of src/services/workspace.ts and replica.ts.              *)
(*                                                                         *)
(* The worker's reports are hints.  The server keeps the latest report of  *)
(* each run for a moment, the stream may break and lose them, and a page   *)
(* learns of an outcome only by reading the brane: a moment after a        *)
(* report, a local change or a reconnection.  A page has one gathered read *)
(* pending at most, drops the answer of all but its newest read, and is    *)
(* answered from the replica while local changes wait to be sent.          *)
(*                                                                         *)
(* The page also presses a chain of machines, each once the runs of the    *)
(* one before have ended.                                                  *)
(***************************************************************************)
EXTENDS Integers, SequencesExt

CONSTANTS
    N,          \* machines of the chain; pressing the i-th makes run i
    MaxBreaks,  \* bound: times the stream breaks
    MaxLocal,   \* bound: local changes of the table
    MaxFails,   \* bound: reads that fail
    MaxReads    \* bound: reads under way at a time

ASSUME LiveUpdatesAssumption ==
    /\ N \in Nat \ {0} /\ MaxReads \in Nat \ {0}
    /\ {MaxBreaks, MaxLocal, MaxFails} \subseteq Nat

VARIABLES
    run,        \* the status of each run at the server
    report,     \* the latest report of each run the stream has not sent
    wire,       \* what the stream has sent and the page not received
    stream,     \* whether the stream is "open" or "down"
    cache,      \* the runs the replica last read,
    unsent,     \* and whether it has local changes to send
    shown,      \* the runs the page shows
    gathered,   \* whether a gathered read is pending
    reads,      \* reads under way, oldest first
    chain,      \* the chain being pressed
    count       \* of breaks, local changes, failed reads

serverVars == <<run, report, wire, stream>>
replicaVars == <<cache, unsent>>
pageVars == <<shown, gathered, reads, chain>>
vars == <<serverVars, replicaVars, pageVars, count>>

Runs == 1..N
Settled == {"completed", "failed"}
Active == {"queued", "running"}
Statuses == {"none"} \cup Active \cup Settled
Ready == [run |-> 0, status |-> "ready"]

TypeOK ==
    /\ run \in [Runs -> Statuses] /\ cache \in [Runs -> Statuses] /\ shown \in [Runs -> Statuses]
    /\ report \in [Runs -> Statuses \cup {"text"}]
    /\ \A i \in DOMAIN wire : wire[i] = Ready \/ wire[i].run \in Runs
    /\ stream \in {"open", "down"} /\ unsent \in BOOLEAN /\ gathered \in BOOLEAN
    /\ Len(reads) <= MaxReads
    /\ \A i \in DOMAIN reads :
         /\ reads[i] \in [asks : {"server", "replica"}, answered : BOOLEAN, runs : [Runs -> Statuses],
                          newest : BOOLEAN, overtaken : BOOLEAN, chain : BOOLEAN]
         /\ reads[i].newest => i = Len(reads)
    /\ chain.at \in 1..N /\ chain.phase \in {"idle", "pressing", "refreshing", "waiting", "done", "stopped"}
    /\ count \in [breaks : 0..MaxBreaks, local : 0..MaxLocal, fails : 0..MaxFails]

Init ==
    /\ run = [r \in Runs |-> "none"] /\ report = run /\ cache = run /\ shown = run
    /\ wire = <<>> /\ stream = "open" /\ unsent = FALSE /\ gathered = FALSE
    /\ reads = <<>> /\ chain = [at |-> 1, phase |-> "idle", before |-> {}, waits |-> {}]
    /\ count = [breaks |-> 0, local |-> 0, fails |-> 0]

-----------------------------------------------------------------------------
(* The server *)

\* Only the latest report of a run waits for the stream; without one it reaches nobody.
Publish(r, status) == report' = IF stream = "open" THEN [report EXCEPT ![r] = status] ELSE report

Work(r) ==
    /\ \/ run[r] = "queued" /\ run' = [run EXCEPT ![r] = "running"] /\ Publish(r, "running")
       \/ run[r] = "running" /\ report[r] # "text" /\ Publish(r, "text") /\ UNCHANGED run
       \/ /\ run[r] = "running"
          /\ \E status \in Settled : run' = [run EXCEPT ![r] = status] /\ Publish(r, status)
    /\ UNCHANGED <<wire, stream, replicaVars, pageVars, count>>

\* Every moment the stream sends the reports that wait; text alone changes nothing modelled.
Pump(r) ==
    /\ stream = "open" /\ report[r] # "none"
    /\ wire' = IF report[r] = "text" THEN wire ELSE Append(wire, [run |-> r, status |-> report[r]])
    /\ report' = [report EXCEPT ![r] = "none"]
    /\ UNCHANGED <<run, stream, replicaVars, pageVars, count>>

\* A stream begins by telling the page to reconcile.
Reopened == <<Ready>>

Reopen ==
    /\ stream = "down"
    /\ stream' = "open" /\ wire' = Reopened
    /\ UNCHANGED <<run, report, replicaVars, pageVars, count>>

-----------------------------------------------------------------------------
(* Reads *)

Overtaken(list) == [i \in DOMAIN list |-> [list[i] EXCEPT !.overtaken = TRUE]]

NewRead(ofChain) ==
    [asks |-> IF unsent THEN "replica" ELSE "server", answered |-> FALSE,
     runs |-> [r \in Runs |-> "none"], newest |-> TRUE, overtaken |-> FALSE, chain |-> ofChain]

\* The replica answers a read while it has changes to send.
WithRead(list, ofChain) ==
    Append([i \in DOMAIN list |-> [list[i] EXCEPT !.newest = FALSE]], NewRead(ofChain))

Answer(i) ==
    /\ reads[i].asks = "server" /\ ~reads[i].answered
    /\ reads' = [reads EXCEPT ![i].answered = TRUE, ![i].runs = run]
    /\ UNCHANGED <<serverVars, replicaVars, shown, gathered, chain, count>>

\* The replica takes an answer unless a change or a newer read's answer overtook it.
Installs(read) == read.asks = "server" /\ ~read.overtaken

\* Only the page's newest read is shown.
Finish(i) ==
    LET read == reads[i]
        value == IF Installs(read) THEN read.runs ELSE cache
        rest == IF Installs(read) THEN Overtaken(SubSeq(reads, 1, i - 1)) ELSE SubSeq(reads, 1, i - 1)
    IN
    /\ read.answered \/ read.asks = "replica"
    /\ cache' = value
    /\ shown' = IF read.newest THEN value ELSE shown
    /\ reads' = rest \o SubSeq(reads, i + 1, Len(reads))
    /\ UNCHANGED <<serverVars, unsent, gathered, chain, count>>

\* A failed read is not made again: the replica answers if the server cannot be reached, and
\* nothing is shown if it refuses, which stops a chain that asked.
Fail(i) ==
    /\ count.fails < MaxFails /\ reads[i].asks = "server" /\ ~reads[i].answered
    /\ count' = [count EXCEPT !.fails = @ + 1]
    /\ reads' = RemoveAt(reads, i)
    /\ \/ shown' = (IF reads[i].newest THEN cache ELSE shown) /\ UNCHANGED chain
       \/ /\ chain' = IF reads[i].chain /\ reads[i].newest THEN [chain EXCEPT !.phase = "stopped"] ELSE chain
          /\ UNCHANGED shown
    /\ UNCHANGED <<serverVars, replicaVars, gathered>>

\* The gathered read is made a moment after the first change or report.
Gather ==
    /\ gathered /\ Len(reads) < MaxReads
    /\ gathered' = FALSE /\ reads' = WithRead(reads, FALSE)
    /\ UNCHANGED <<serverVars, replicaVars, shown, chain, count>>

-----------------------------------------------------------------------------
(* The page *)

\* A report that a known run is under way changes its status; one of its end, or of a run not
\* known, brings a read.
OnRun(event) ==
    IF event.status \in Active /\ shown[event.run] # "none"
    THEN shown' = [shown EXCEPT ![event.run] = event.status] /\ UNCHANGED gathered
    ELSE gathered' = TRUE /\ UNCHANGED shown

Receive ==
    /\ wire # <<>>
    /\ wire' = Tail(wire)
    /\ IF Head(wire) = Ready THEN gathered' = TRUE /\ UNCHANGED shown ELSE OnRun(Head(wire))
    /\ UNCHANGED <<run, report, stream, replicaVars, reads, chain, count>>

\* The stream breaks: a network error is retried by the browser, a closed stream reconciles.
Break ==
    /\ stream = "open" /\ count.breaks < MaxBreaks
    /\ count' = [count EXCEPT !.breaks = @ + 1]
    /\ stream' = "down" /\ wire' = <<>> /\ report' = [r \in Runs |-> "none"]
    /\ gathered' \in {gathered, TRUE}
    /\ UNCHANGED <<run, replicaVars, shown, reads, chain>>

\* A change of the table, and its acknowledgement, overtake the reads under way and announce
\* themselves.
Change ==
    /\ \/ /\ ~unsent /\ count.local < MaxLocal
          /\ count' = [count EXCEPT !.local = @ + 1]
          /\ unsent' = TRUE
       \/ unsent /\ unsent' = FALSE /\ UNCHANGED count
    /\ reads' = Overtaken(reads)
    /\ gathered' = TRUE
    /\ UNCHANGED <<serverVars, cache, shown, chain>>

-----------------------------------------------------------------------------
(* The chain *)

\* The page presses the next machine; before it remembers the runs it shows.
Press ==
    /\ chain.phase = "idle"
    /\ run' = [run EXCEPT ![chain.at] = "queued"]
    /\ Publish(chain.at, "queued")
    /\ chain' = [chain EXCEPT !.phase = "pressing", !.before = {r \in Runs : shown[r] # "none"}]
    /\ UNCHANGED <<wire, stream, replicaVars, shown, gathered, reads, count>>

\* The receipt's versions change the replica, which announces itself; the page reads the brane.
Receipt ==
    /\ chain.phase = "pressing" /\ Len(reads) < MaxReads
    /\ reads' = WithRead(Overtaken(reads), TRUE)
    /\ gathered' = TRUE
    /\ chain' = [chain EXCEPT !.phase = "refreshing"]
    /\ UNCHANGED <<serverVars, replicaVars, shown, count>>

\* Once that read is over, shown or not, the runs the page did not show before are waited for.
Wait ==
    /\ chain.phase = "refreshing" /\ \A i \in DOMAIN reads : ~reads[i].chain
    /\ chain' = [chain EXCEPT !.phase = "waiting",
                              !.waits = {r \in Runs : shown[r] # "none"} \ chain.before]
    /\ UNCHANGED <<serverVars, replicaVars, shown, gathered, reads, count>>

\* While it waits, the page reads the brane every few seconds, in case a report was missed; a
\* read takes less than that.
Polling == reads = <<>>

Poll ==
    /\ chain.phase = "waiting" /\ \E r \in chain.waits : shown[r] \in Active
    /\ Polling
    /\ reads' = WithRead(reads, FALSE)
    /\ UNCHANGED <<serverVars, replicaVars, shown, gathered, chain, count>>

\* A run that did not finish its answer stops the chain.
Continue ==
    /\ chain.phase = "waiting" /\ \A r \in chain.waits : shown[r] \notin Active
    /\ chain' =
         IF \E r \in chain.waits : shown[r] # "completed" THEN [chain EXCEPT !.phase = "stopped"]
         ELSE IF chain.at = N THEN [chain EXCEPT !.phase = "done"]
         ELSE [chain EXCEPT !.phase = "idle", !.at = @ + 1]
    /\ UNCHANGED <<serverVars, replicaVars, shown, gathered, reads, count>>

Next ==
    \/ \E r \in Runs : Work(r) \/ Pump(r)
    \/ \E i \in DOMAIN reads : Answer(i) \/ Finish(i) \/ Fail(i)
    \/ Reopen \/ Break \/ Gather \/ Receive \/ Change
    \/ Press \/ Receipt \/ Wait \/ Poll \/ Continue

Spec == Init /\ [][Next]_vars

Reading == \E i \in DOMAIN reads : Answer(i) \/ Finish(i)
Working == \E r \in Runs : run[r] \in Active /\ Work(r) /\ run' # run

\* The worker finishes runs, the stream is reopened and delivers, timers fire, reads are
\* answered, changes are sent, and the page goes on.
Fairness ==
    /\ WF_vars(Working) /\ WF_vars(\E r \in Runs : Pump(r)) /\ WF_vars(Reopen) /\ WF_vars(Receive)
    /\ WF_vars(Gather) /\ WF_vars(Reading) /\ WF_vars(unsent /\ Change)
    /\ WF_vars(Receipt) /\ WF_vars(Wait) /\ WF_vars(Poll) /\ WF_vars(Continue)

FairSpec == Spec /\ Fairness

-----------------------------------------------------------------------------
(* Properties *)

\* "Final results survive missed events": a run that ended is in the end shown so, whatever
\* reports the stream lost and whatever reads were overtaken, as long as no read fails: the one read that
\* a report leads to is not repeated (connectLiveUpdates, onRun, refresh; workspace.ts:540).
Appears == \A r \in Runs : run[r] \in Settled ~> shown[r] = run[r]

\* A chain does not hang: once its runs end it goes on or stops, though reports are lost and a
\* read fails (settled).
ChainEnds == chain.phase # "idle" ~> chain.phase \in {"idle", "done", "stopped"}

=============================================================================
