----------------------------- MODULE RunLifecycle -----------------------------
(***************************************************************************)
(* The database side of a run: the rows of runs, run_attempts,             *)
(* spend_commitments, run_checkpoints and run_outputs, and the immediate   *)
(* transactions of server/services/run-lifecycle.ts that change them.      *)
(*                                                                         *)
(* The module is the most general client of those transactions.  Any       *)
(* worker may call any of them at any moment with any attempt it was ever  *)
(* given, however stale, in any order: what holds here is held by the      *)
(* guards inside the transactions and by nothing the caller promises.      *)
(* RunWorker adds the worker process that really calls them.               *)
(*                                                                         *)
(* A lease is kept as the time it has left, so lease_until > time reads    *)
(* leaseLeft > 0 and expiry at the deadline reads leaseLeft = 0.           *)
(***************************************************************************)
EXTENDS Naturals, FiniteSets

CONSTANTS
    Runs,       \* the run identities submissions may use
    Owners,     \* the libraries that own runs
    Owner,      \* the owner of each run: frozen by the frozen_run_request trigger
    FreeRuns,   \* the runs whose frozen price is zero
    Workers,    \* the identities of worker processes, one per process start
    Attempts,   \* the identities run_attempts rows may take
    Texts,      \* the texts a checkpoint or an output may hold
    LeaseTime,  \* the length of a lease
    MaxCreated, \* bound on the distinct created_at readings
    None        \* SQL's NULL

StopReasons == {"preflight", "provider", "stalled", "deadline", "output_limit",
                "shutdown"}
Reasons     == StopReasons \cup {"lease_expired"}

ASSUME OwnerAssumption == Owner \in [Runs -> Owners]
ASSUME FreeAssumption == FreeRuns \subseteq Runs
ASSUME LeaseAssumption == LeaseTime \in Nat \ {0}
ASSUME CreatedAssumption == MaxCreated \in Nat
ASSUME NoneAssumption ==
    None \notin Runs /\ None \notin Workers /\ None \notin Texts /\ None \notin Reasons

VARIABLES
    status,      \* runs.status, "absent" before the row exists
    created,     \* runs.created_at
    leaseOwner,  \* runs.lease_owner
    leaseLeft,   \* runs.lease_until, as the time left
    failure,     \* runs.failure_reason
    attempt,     \* run_attempts: the run, the worker, the outcome ("open" for NULL)
    cost,        \* spend_commitments.status, "none" before the row exists
    checkpoint,  \* run_checkpoints.text
    output       \* the text of the revision run_outputs names

dbVars == <<status, created, leaseOwner, leaseLeft, failure, attempt, cost,
            checkpoint, output>>

Waiting   == {"queued", "claimed"}
Executing == {"running", "cancel_requested"}
Leased    == {"claimed"} \cup Executing
Active    == Waiting \cup Executing
Terminal  == {"completed", "failed", "cancelled", "interrupted"}
Statuses  == {"absent"} \cup Active \cup Terminal

CostStates == {"none", "reserved", "uncertain", "confirmed", "released"}
Outcomes   == {"open"} \cup Terminal

NoAttempt == [run |-> None, worker |-> None, outcome |-> "open"]

TypeOK ==
    /\ status \in [Runs -> Statuses]
    /\ created \in [Runs -> 0..MaxCreated]
    /\ leaseOwner \in [Runs -> Workers \cup {None}]
    /\ leaseLeft \in [Runs -> 0..LeaseTime]
    /\ failure \in [Runs -> Reasons \cup {None}]
    /\ attempt \in [Attempts -> [run : Runs \cup {None},
                                 worker : Workers \cup {None},
                                 outcome : Outcomes]]
    /\ cost \in [Runs -> CostStates]
    /\ checkpoint \in [Runs -> Texts \cup {None}]
    /\ output \in [Runs -> Texts \cup {None}]

Init ==
    /\ status = [r \in Runs |-> "absent"]
    /\ created = [r \in Runs |-> 0]
    /\ leaseOwner = [r \in Runs |-> None]
    /\ leaseLeft = [r \in Runs |-> 0]
    /\ failure = [r \in Runs |-> None]
    /\ attempt = [a \in Attempts |-> NoAttempt]
    /\ cost = [r \in Runs |-> "none"]
    /\ checkpoint = [r \in Runs |-> None]
    /\ output = [r \in Runs |-> None]

-----------------------------------------------------------------------------
(* Helpers *)

HasAttempt(r) == \E a \in Attempts : attempt[a].run = r

\* Fault: the fence forgets the deadline.
OwnedPastDeadline(a) ==
    /\ attempt[a].run # None /\ attempt[a].outcome = "open"
    /\ status[attempt[a].run] \in Executing
    /\ leaseOwner[attempt[a].run] = attempt[a].worker

\* A lease and its attempt fence every write of an executing worker: the run
\* must be executing, leased to the attempt's worker with time left, and the
\* attempt must be unfinished.
OwnedAttempt(a) ==
    LET r == attempt[a].run IN
    /\ r # None
    /\ status[r] \in Executing
    /\ leaseOwner[r] = attempt[a].worker
    /\ leaseLeft[r] > 0
    /\ attempt[a].outcome = "open"

RunningAttempt(a) == OwnedAttempt(a) /\ status[attempt[a].run] = "running"

\* The runs an owner has under way, which claiming spreads evenly.
UnderWay(o) == Cardinality({r \in Runs : Owner[r] = o /\ status[r] \in Leased})

\* The order of the queue: the owner with the fewest runs under way first, then
\* the oldest run.  Runs of one press may share a created_at.
Before(q, r) ==
    \/ UnderWay(Owner[q]) < UnderWay(Owner[r])
    \/ /\ UnderWay(Owner[q]) = UnderWay(Owner[r])
       /\ created[q] < created[r]

Claimable(r) ==
    /\ status[r] = "queued"
    /\ \A q \in Runs : status[q] = "queued" => ~Before(q, r)

\* Fault: recovery looks for executing runs only.
StaleExecuting(r) == status[r] \in Executing /\ leaseLeft[r] = 0

Stale(r) == status[r] \in Leased /\ leaseLeft[r] = 0

\* Fault: an expired execution is retried instead of interrupted.
RecoveredByRetry(s) == IF s = "cancel_requested" THEN "cancelled" ELSE "queued"

RecoveredStatus(s) ==
    CASE s = "claimed"          -> "queued"
      [] s = "cancel_requested" -> "cancelled"
      [] s = "running"          -> "interrupted"

\* What each accounting call leaves in the run's commitment row.
ReleaseUninvoked(r) == IF cost[r] = "reserved" /\ ~HasAttempt(r) THEN "released" ELSE cost[r]
ReleasePreflight(r) == IF cost[r] = "reserved" THEN "released" ELSE cost[r]
HoldUncertain(r)    == IF cost[r] = "reserved" THEN "uncertain" ELSE cost[r]
Settle(r, usage)    == IF cost[r] # "reserved" THEN cost[r]
                       ELSE IF r \in FreeRuns \/ usage THEN "confirmed"
                       ELSE "uncertain"

-----------------------------------------------------------------------------
(* Transactions *)

\* Admission inserts the queued run and reserves its cost in one transaction.
\* created_at never runs backwards and runs of one press may share it.
Submit(r) ==
    /\ status[r] = "absent"
    /\ \E c \in 0..MaxCreated :
        /\ \A q \in Runs : status[q] # "absent" => created[q] <= c
        /\ created' = [created EXCEPT ![r] = c]
    /\ status' = [status EXCEPT ![r] = "queued"]
    /\ cost' = [cost EXCEPT ![r] = "reserved"]
    /\ UNCHANGED <<leaseOwner, leaseLeft, failure, attempt, checkpoint, output>>

Claim(w, r) ==
    /\ Claimable(r)
    /\ status' = [status EXCEPT ![r] = "claimed"]
    /\ leaseOwner' = [leaseOwner EXCEPT ![r] = w]
    /\ leaseLeft' = [leaseLeft EXCEPT ![r] = LeaseTime]
    /\ UNCHANGED <<created, failure, attempt, cost, checkpoint, output>>

StartAttempt(w, r, a) ==
    /\ status[r] = "claimed" /\ leaseOwner[r] = w /\ leaseLeft[r] > 0
    /\ attempt[a] = NoAttempt
    /\ status' = [status EXCEPT ![r] = "running"]
    /\ attempt' = [attempt EXCEPT ![a] = [run |-> r, worker |-> w, outcome |-> "open"]]
    /\ UNCHANGED <<created, leaseOwner, leaseLeft, failure, cost, checkpoint, output>>

RenewAttempt(a) ==
    /\ RunningAttempt(a)
    /\ leaseLeft' = [leaseLeft EXCEPT ![attempt[a].run] = LeaseTime]
    /\ UNCHANGED <<status, created, leaseOwner, failure, attempt, cost, checkpoint, output>>

SaveCheckpoint(a, text) ==
    /\ RunningAttempt(a)
    /\ checkpoint' = [checkpoint EXCEPT ![attempt[a].run] = text]
    /\ UNCHANGED <<status, created, leaseOwner, leaseLeft, failure, attempt, cost, output>>

\* Fault: a cancelled run keeps the lease of the worker that claimed it.
CancelKeepingLease(r) ==
    /\ \/ /\ status[r] \in Waiting
          /\ status' = [status EXCEPT ![r] = "cancelled"]
          /\ cost' = [cost EXCEPT ![r] = ReleaseUninvoked(r)]
       \/ /\ status[r] = "running"
          /\ status' = [status EXCEPT ![r] = "cancel_requested"]
          /\ UNCHANGED cost
    /\ UNCHANGED <<created, leaseOwner, leaseLeft, failure, attempt, checkpoint, output>>

\* Fault: cancelling ends an executing run at once, and its cost with it.
CancelAtOnce(r) ==
    /\ status[r] \in Active
    /\ status' = [status EXCEPT ![r] = "cancelled"]
    /\ leaseOwner' = [leaseOwner EXCEPT ![r] = None]
    /\ leaseLeft' = [leaseLeft EXCEPT ![r] = 0]
    /\ cost' = [cost EXCEPT ![r] = ReleasePreflight(r)]
    /\ UNCHANGED <<created, failure, attempt, checkpoint, output>>

\* Cancelling a run nobody executes ends it at once; a running one is only asked
\* to stop; a run that has already stopped is left alone.
CancelRun(r) ==
    /\ \/ /\ status[r] \in Waiting
          /\ status' = [status EXCEPT ![r] = "cancelled"]
          /\ leaseOwner' = [leaseOwner EXCEPT ![r] = None]
          /\ leaseLeft' = [leaseLeft EXCEPT ![r] = 0]
          /\ cost' = [cost EXCEPT ![r] = ReleaseUninvoked(r)]
       \/ /\ status[r] = "running"
          /\ status' = [status EXCEPT ![r] = "cancel_requested"]
          /\ UNCHANGED <<leaseOwner, leaseLeft, cost>>
    /\ UNCHANGED <<created, failure, attempt, checkpoint, output>>

\* One transaction recovers every run whose lease has run out.
RecoverStale ==
    /\ \E r \in Runs : Stale(r)
    /\ status' = [r \in Runs |-> IF Stale(r) THEN RecoveredStatus(status[r]) ELSE status[r]]
    /\ cost' = [r \in Runs |->
                  IF Stale(r) /\ RecoveredStatus(status[r]) # "queued"
                  THEN IF HasAttempt(r) THEN HoldUncertain(r) ELSE ReleaseUninvoked(r)
                  ELSE cost[r]]
    /\ attempt' = [a \in Attempts |->
                     LET r == attempt[a].run IN
                     IF r # None /\ attempt[a].outcome = "open" /\ Stale(r)
                                 /\ RecoveredStatus(status[r]) # "queued"
                     THEN [attempt[a] EXCEPT !.outcome = RecoveredStatus(status[r])]
                     ELSE attempt[a]]
    /\ failure' = [r \in Runs |->
                     IF Stale(r) THEN IF status[r] = "running" THEN "lease_expired" ELSE None
                     ELSE failure[r]]
    /\ leaseOwner' = [r \in Runs |-> IF Stale(r) THEN None ELSE leaseOwner[r]]
    /\ UNCHANGED <<created, leaseLeft, checkpoint, output>>

StopAttempt(a, text, reason) ==
    LET r   == attempt[a].run
        end == IF status[r] = "cancel_requested" THEN "cancelled"
               ELSE IF reason = "shutdown" THEN "interrupted" ELSE "failed"
    IN
    /\ OwnedAttempt(a)
    /\ status' = [status EXCEPT ![r] = end]
    /\ failure' = [failure EXCEPT ![r] = IF end = "cancelled" THEN None ELSE reason]
    /\ checkpoint' = [checkpoint EXCEPT ![r] = text]
    /\ cost' = [cost EXCEPT ![r] = IF reason = "preflight" THEN ReleasePreflight(r)
                                   ELSE HoldUncertain(r)]
    /\ attempt' = [attempt EXCEPT ![a].outcome = end]
    /\ leaseOwner' = [leaseOwner EXCEPT ![r] = None]
    /\ leaseLeft' = [leaseLeft EXCEPT ![r] = 0]
    /\ UNCHANGED <<created, output>>

CompleteAttempt(a, text, usage) ==
    LET r == attempt[a].run IN
    /\ RunningAttempt(a)
    /\ status' = [status EXCEPT ![r] = "completed"]
    /\ checkpoint' = [checkpoint EXCEPT ![r] = text]
    /\ output' = [output EXCEPT ![r] = text]
    /\ cost' = [cost EXCEPT ![r] = Settle(r, usage)]
    /\ attempt' = [attempt EXCEPT ![a].outcome = "completed"]
    /\ leaseOwner' = [leaseOwner EXCEPT ![r] = None]
    /\ leaseLeft' = [leaseLeft EXCEPT ![r] = 0]
    /\ UNCHANGED <<created, failure>>

\* The operator records provider evidence for a billing left uncertain.
ReconcileCost(r) ==
    /\ cost[r] = "uncertain"
    /\ cost' = [cost EXCEPT ![r] = "confirmed"]
    /\ UNCHANGED <<status, created, leaseOwner, leaseLeft, failure, attempt, checkpoint, output>>

\* Fault: retention takes any finished run whose billing is closed.
PruneAnyBilled(S) ==
    /\ S # {}
    /\ \A r \in S : /\ status[r] \in Terminal /\ cost[r] \in {"confirmed", "released"}
                    /\ checkpoint[r] # None
    /\ checkpoint' = [r \in Runs |-> IF r \in S THEN None ELSE checkpoint[r]]
    /\ UNCHANGED <<status, created, leaseOwner, leaseLeft, failure, attempt, cost, output>>

\* Retention deletes completed checkpoints that only repeat the published output,
\* once billing is closed: a batch of the old ones, so any non-empty part of them.
PruneCheckpoints(S) ==
    /\ S # {}
    /\ \A r \in S : /\ status[r] = "completed" /\ cost[r] \in {"confirmed", "released"}
                    /\ checkpoint[r] # None /\ checkpoint[r] = output[r]
    /\ checkpoint' = [r \in Runs |-> IF r \in S THEN None ELSE checkpoint[r]]
    /\ UNCHANGED <<status, created, leaseOwner, leaseLeft, failure, attempt, cost, output>>

\* Time passes and every lease shortens.
Tick ==
    /\ \E r \in Runs : leaseLeft[r] > 0
    /\ leaseLeft' = [r \in Runs |-> IF leaseLeft[r] > 0 THEN leaseLeft[r] - 1 ELSE 0]
    /\ UNCHANGED <<status, created, leaseOwner, failure, attempt, cost, checkpoint, output>>

Next ==
    \/ \E r \in Runs : Submit(r) \/ CancelRun(r) \/ ReconcileCost(r)
    \/ \E w \in Workers, r \in Runs : Claim(w, r) \/ \E a \in Attempts : StartAttempt(w, r, a)
    \/ \E a \in Attempts : RenewAttempt(a)
    \/ \E a \in Attempts, text \in Texts :
          \/ SaveCheckpoint(a, text)
          \/ \E reason \in StopReasons : StopAttempt(a, text, reason)
          \/ \E usage \in BOOLEAN : CompleteAttempt(a, text, usage)
    \/ RecoverStale
    \/ \E S \in SUBSET Runs : PruneCheckpoints(S)
    \/ Tick

Spec == Init /\ [][Next]_dbVars

-----------------------------------------------------------------------------
(* Safety *)

\* The lease columns are set exactly while a worker may hold the run, so a run
\* in a waiting or final state can never be written through an old lease.
LeaseExact ==
    \A r \in Runs :
        /\ leaseOwner[r] # None <=> status[r] \in Leased
        /\ leaseLeft[r] > 0 => status[r] \in Leased

\* A run is handed to a provider at most once: one attempt row for its whole
\* life, open exactly while the run executes and then carrying the run's own
\* outcome.  Requeueing after a crash or an expiry never starts a second one.
OneAttempt ==
    /\ \A a, b \in Attempts : attempt[a].run # None /\ attempt[a].run = attempt[b].run => a = b
    /\ \A r \in Runs : status[r] \in Executing => HasAttempt(r)
    /\ \A a \in Attempts : attempt[a].run # None =>
          LET r == attempt[a].run IN
          /\ status[r] \notin {"absent"} \cup Waiting
          /\ attempt[a].outcome = "open" <=> status[r] \in Executing
          /\ attempt[a].outcome = "open" => leaseOwner[r] = attempt[a].worker
          /\ attempt[a].outcome # "open" => attempt[a].outcome = status[r]

\* A reservation stands exactly while the run may still be executed, and is given
\* back only where no provider call was made: the run was cancelled, or its
\* preparation failed.  A run that stopped any other way leaves its cost held.
BillingExact ==
    \A r \in Runs :
        /\ cost[r] = "none" <=> status[r] = "absent"
        /\ cost[r] = "reserved" <=> status[r] \in Active
        /\ cost[r] = "released" => \/ status[r] = "cancelled"
                                   \/ status[r] = "failed" /\ failure[r] = "preflight"
        /\ (status[r] = "cancelled" /\ ~HasAttempt(r)) => cost[r] = "released"

\* Output and completion are one commit: a revision is published exactly when the
\* run completed, and the checkpoint beside it never says anything else.
PublishedExact ==
    \A r \in Runs :
        /\ output[r] # None <=> status[r] = "completed"
        /\ status[r] = "completed" => checkpoint[r] \in {output[r], None}

\* Every stopped run records exactly one reason, and only expiry and shutdown,
\* where nothing is known of the provider, count as interruptions.
ReasonExact ==
    \A r \in Runs :
        /\ failure[r] # None <=> status[r] \in {"failed", "interrupted"}
        /\ status[r] = "interrupted" <=> failure[r] \in {"shutdown", "lease_expired"}

\* The row of a run, its commitment and its output tell one story, although seven transactions write them.
RowsExact == LeaseExact /\ BillingExact /\ PublishedExact /\ ReasonExact

\* Expiry wins at the deadline: text, output and a worker's verdict reach a run
\* only under a lease that still has time left, whatever the caller believes.
Fenced ==
    [][\A r \in Runs :
          (\/ output'[r] # output[r]
           \/ checkpoint'[r] # checkpoint[r] /\ checkpoint'[r] # None
           \/ status'[r] \in {"completed", "failed"} /\ status'[r] # status[r])
          => status[r] \in Executing /\ leaseLeft[r] > 0]_dbVars

\* A finished run is history: its status, reason, output and attempt never change
\* again, and its text goes only when the published output repeats it.
HistoryKept ==
    [][\A r \in Runs : status[r] \in Terminal =>
          /\ status'[r] = status[r] /\ failure'[r] = failure[r] /\ output'[r] = output[r]
          /\ checkpoint'[r] # checkpoint[r] =>
                 checkpoint'[r] = None /\ checkpoint[r] = output[r]
          /\ \A a \in Attempts : attempt[a].run = r => attempt'[a] = attempt[a]]_dbVars

-----------------------------------------------------------------------------
(* The contract each run is held to *)

\* A claim is no promise: a claimed run may return to the queue.
Stage(r) ==
    CASE status[r] \in Waiting          -> "waiting"
      [] status[r] = "running"          -> "executing"
      [] status[r] = "cancel_requested" -> "cancelling"
      [] OTHER                          -> status[r]

Contract == INSTANCE RunContract WITH
                stage <- [r \in Runs |-> Stage(r)], bill <- cost, published <- output

\* Seen from outside, every run follows the diagram of the run lifecycle: it waits,
\* is handed to the provider at most once, ends once, and its bill ends with it.
KeepsContract == Contract!Spec

=============================================================================
