---------------------------- MODULE RunWorkerProofs ----------------------------
(***************************************************************************)
(* Proofs about RunLifecycle, for every set of runs, workers, attempts and *)
(* texts and every lease length, and about RunWorker, for every number of  *)
(* runs, of processes and of concurrent jobs: the worker acts only through *)
(* the transactions of RunLifecycle, calls the provider at most once for a *)
(* run, and attends to every lease it holds.                               *)
(***************************************************************************)
EXTENDS RunWorker, TLAPS

-----------------------------------------------------------------------------
(* The rows: RunLifecycle *)

\* The names a type argument needs wherever a row's columns are compared.
USE NoneAssumption, LeaseAssumption, CreatedAssumption
    DEF Waiting, Executing, Leased, Active, Terminal, Statuses, StopReasons, Reasons,
        CostStates, Outcomes

\* A fenced write names a run that exists and is executing.
LEMMA OwnedRun ==
    ASSUME TypeOK, NEW a \in Attempts, OwnedAttempt(a)
    PROVE  attempt[a].run \in Runs /\ status[attempt[a].run] \in Executing
BY DEF TypeOK, OwnedAttempt

\* Recovery moves every stale run to a real status.
LEMMA RecoveredTyped ==
    ASSUME NEW s \in Leased
    PROVE  /\ RecoveredStatus(s) \in {"queued", "cancelled", "interrupted"}
           /\ RecoveredStatus(s) = "queued" <=> s = "claimed"
           /\ RecoveredStatus(s) = "interrupted" <=> s = "running"
BY DEF RecoveredStatus

\* Every step keeps the rows' types.
LEMMA TypeStep == TypeOK /\ [Next]_dbVars => TypeOK'
<1> SUFFICES ASSUME TypeOK, [Next]_dbVars PROVE TypeOK'
  OBVIOUS
<1> USE DEF TypeOK
<1>1. ASSUME NEW r \in Runs, Submit(r) PROVE TypeOK'
  BY <1>1 DEF Submit
<1>2. ASSUME NEW r \in Runs, CancelRun(r) PROVE TypeOK'
  BY <1>2 DEF CancelRun, ReleaseUninvoked
<1>3. ASSUME NEW r \in Runs, ReconcileCost(r) PROVE TypeOK'
  BY <1>3 DEF ReconcileCost
<1>4. ASSUME NEW w \in Workers, NEW r \in Runs, Claim(w, r) PROVE TypeOK'
  BY <1>4 DEF Claim, Claimable
<1>5. ASSUME NEW w \in Workers, NEW r \in Runs, NEW a \in Attempts, StartAttempt(w, r, a)
      PROVE TypeOK'
  BY <1>5 DEF StartAttempt
<1>6. ASSUME NEW a \in Attempts, RenewAttempt(a) PROVE TypeOK'
  BY <1>6, OwnedRun DEF RenewAttempt, RunningAttempt
<1>7. ASSUME NEW a \in Attempts, NEW text \in Texts, SaveCheckpoint(a, text) PROVE TypeOK'
  BY <1>7 DEF SaveCheckpoint
<1>8. ASSUME NEW a \in Attempts, NEW text \in Texts, NEW reason \in StopReasons,
             StopAttempt(a, text, reason)
      PROVE TypeOK'
  <2> DEFINE r == attempt[a].run
  <2>1. r \in Runs
    BY <1>8, OwnedRun DEF StopAttempt
  <2>2. attempt' \in [Attempts -> [run : Runs \cup {None}, worker : Workers \cup {None},
                                  outcome : Outcomes]]
    BY <1>8 DEF StopAttempt
  <2>3. cost' \in [Runs -> CostStates]
    BY <1>8, <2>1 DEF StopAttempt, ReleasePreflight, HoldUncertain
  <2>4. status' \in [Runs -> Statuses] /\ failure' \in [Runs -> Reasons \cup {None}]
    BY <1>8, <2>1 DEF StopAttempt
  <2>5. QED
    BY <1>8, <2>1, <2>2, <2>3, <2>4 DEF StopAttempt
<1>9. ASSUME NEW a \in Attempts, NEW text \in Texts, NEW usage \in BOOLEAN,
             CompleteAttempt(a, text, usage)
      PROVE TypeOK'
  <2>1. attempt[a].run \in Runs
    BY <1>9, OwnedRun DEF CompleteAttempt, RunningAttempt
  <2>2. Settle(attempt[a].run, usage) \in CostStates
    BY <2>1 DEF Settle
  <2>3. attempt' \in [Attempts -> [run : Runs \cup {None}, worker : Workers \cup {None},
                                  outcome : Outcomes]]
    BY <1>9 DEF CompleteAttempt
  <2>4. QED
    BY <1>9, <2>1, <2>2, <2>3 DEF CompleteAttempt
<1>10. CASE RecoverStale
  <2>1. \A r \in Runs : Stale(r) => RecoveredStatus(status[r]) \in Statuses
    BY RecoveredTyped DEF Stale
  <2>2. status' \in [Runs -> Statuses]
    BY <1>10, <2>1 DEF RecoverStale
  <2>3. attempt' \in [Attempts -> [run : Runs \cup {None}, worker : Workers \cup {None},
                                  outcome : Outcomes]]
    <3>1. \A r \in Runs : Stale(r) /\ RecoveredStatus(status[r]) # "queued"
                           => RecoveredStatus(status[r]) \in Outcomes
      BY RecoveredTyped DEF Stale
    <3>2. \A a \in Attempts : attempt'[a] \in [run : Runs \cup {None},
                                  worker : Workers \cup {None}, outcome : Outcomes]
      BY <1>10, <3>1 DEF RecoverStale
    <3>3. QED
      BY <1>10, <3>2 DEF RecoverStale
  <2>4. cost' \in [Runs -> CostStates]
    BY <1>10 DEF RecoverStale, HoldUncertain, ReleaseUninvoked
  <2>5. QED
    BY <1>10, <2>2, <2>3, <2>4 DEF RecoverStale
<1>11. ASSUME NEW S \in SUBSET Runs, PruneCheckpoints(S) PROVE TypeOK'
  BY <1>11 DEF PruneCheckpoints
<1>12. CASE Tick
  BY <1>12 DEF Tick
<1>13. CASE UNCHANGED dbVars
  BY <1>13 DEF dbVars
<1>14. QED
  BY <1>1, <1>2, <1>3, <1>4, <1>5, <1>6, <1>7, <1>8, <1>9, <1>10, <1>11, <1>12, <1>13 DEF Next

\* The rows keep their types: in particular a lease never exceeds its length and
\* a recovered run takes a real status.
THEOREM TypeCorrect == Spec => []TypeOK
<1>1. Init => TypeOK
  BY DEF Init, TypeOK, NoAttempt
<1>2. QED
  BY <1>1, TypeStep, PTL DEF Spec

-----------------------------------------------------------------------------
(* The inductive invariant.  The conjuncts need each other: an attempt is     *)
(* finished by whoever holds the lease, so the one-attempt rule rests on the  *)
(* lease rule; a waiting run has no attempt, so the billing rule, by which    *)
(* cancelling it really releases the reservation, rests on both.              *)

Exact == LeaseExact /\ OneAttempt /\ BillingExact /\ PublishedExact /\ ReasonExact

IInv == TypeOK /\ Exact

LEMMA InitExact == Init => Exact
<1> SUFFICES ASSUME Init PROVE Exact
  OBVIOUS
<1>1. \A a \in Attempts : attempt[a].run = None
  BY DEF Init, NoAttempt
<1>2. OneAttempt
  BY <1>1 DEF Init, OneAttempt, HasAttempt
<1>3. LeaseExact /\ BillingExact
  BY DEF Init, LeaseExact, BillingExact
<1>4. PublishedExact /\ ReasonExact
  BY DEF Init, PublishedExact, ReasonExact
<1>5. QED
  BY <1>2, <1>3, <1>4 DEF Exact

\* Every step keeps the five facts together.
LEMMA ExactStep == IInv /\ [Next]_dbVars => Exact'
<1> SUFFICES ASSUME IInv, [Next]_dbVars PROVE Exact'
  OBVIOUS
<1> USE DEF IInv, TypeOK, Exact, LeaseExact, OneAttempt, BillingExact, PublishedExact,
            ReasonExact, HasAttempt
<1>1. ASSUME NEW r \in Runs, Submit(r) PROVE Exact'
  BY <1>1 DEF Submit
<1>2. ASSUME NEW r \in Runs, CancelRun(r) PROVE Exact'
  BY <1>2 DEF CancelRun, ReleaseUninvoked
<1>3. ASSUME NEW r \in Runs, ReconcileCost(r) PROVE Exact'
  BY <1>3 DEF ReconcileCost
<1>4. ASSUME NEW w \in Workers, NEW r \in Runs, Claim(w, r) PROVE Exact'
  BY <1>4 DEF Claim, Claimable
<1>5. ASSUME NEW w \in Workers, NEW r \in Runs, NEW a \in Attempts, StartAttempt(w, r, a)
      PROVE Exact'
  BY <1>5 DEF StartAttempt, NoAttempt
<1>6. ASSUME NEW a \in Attempts, RenewAttempt(a) PROVE Exact'
  BY <1>6, OwnedRun DEF RenewAttempt, RunningAttempt, OwnedAttempt
<1>7. ASSUME NEW a \in Attempts, NEW text \in Texts, SaveCheckpoint(a, text)
      PROVE Exact'
  BY <1>7, OwnedRun DEF SaveCheckpoint, RunningAttempt, OwnedAttempt
<1>8. ASSUME NEW a \in Attempts, NEW text \in Texts, NEW reason \in StopReasons,
             StopAttempt(a, text, reason)
      PROVE Exact'
  <2> DEFINE r   == attempt[a].run
             end == IF status[r] = "cancel_requested" THEN "cancelled"
                    ELSE IF reason = "shutdown" THEN "interrupted" ELSE "failed"
  <2>1. r \in Runs /\ status[r] \in Executing /\ attempt[a].outcome = "open"
    BY <1>8, OwnedRun DEF StopAttempt, OwnedAttempt
  <2>2. /\ status' = [status EXCEPT ![r] = end]
        /\ failure' = [failure EXCEPT ![r] = IF end = "cancelled" THEN None ELSE reason]
        /\ UNCHANGED output
    BY <1>8 DEF StopAttempt
  <2>3. LeaseExact'
    BY <1>8, <2>1 DEF StopAttempt
  <2>4. OneAttempt'
    BY <1>8, <2>1 DEF StopAttempt
  <2>5. BillingExact'
    BY <1>8, <2>1 DEF StopAttempt, ReleasePreflight, HoldUncertain
  <2>6. PublishedExact'
    BY <1>8, <2>1 DEF StopAttempt
  <2>7. ReasonExact'
    <3> HIDE DEF end
    <3>1. /\ end = "cancelled" \/ end = "interrupted" \/ end = "failed"
          /\ end = "interrupted" => reason = "shutdown"
          /\ end = "failed" => reason # "shutdown"
      BY DEF end
    <3>2. reason \notin {None, "lease_expired"}
      OBVIOUS
    <3>3. QED
      BY <2>1, <2>2, <3>1, <3>2
  <2>8. QED
    BY <2>3, <2>4, <2>5, <2>6, <2>7
<1>9. ASSUME NEW a \in Attempts, NEW text \in Texts, NEW usage \in BOOLEAN,
             CompleteAttempt(a, text, usage)
      PROVE Exact'
  BY <1>9, OwnedRun DEF CompleteAttempt, Settle, RunningAttempt, OwnedAttempt
<1>10. CASE RecoverStale
  BY <1>10 DEF RecoverStale, Stale, RecoveredStatus, HoldUncertain, ReleaseUninvoked
<1>11. ASSUME NEW S \in SUBSET Runs, PruneCheckpoints(S) PROVE Exact'
  BY <1>11 DEF PruneCheckpoints
<1>12. CASE Tick
  BY <1>12 DEF Tick
<1>13. CASE UNCHANGED dbVars
  BY <1>13 DEF dbVars
<1>14. QED
  BY <1>1, <1>2, <1>3, <1>4, <1>5, <1>6, <1>7, <1>8, <1>9, <1>10, <1>11, <1>12, <1>13 DEF Next

\* The invariant that carries every safety theorem below.
THEOREM Invariance == Spec => []IInv
<1>1. Init => IInv
  BY InitExact DEF IInv, Init, TypeOK, NoAttempt
<1>2. IInv /\ [Next]_dbVars => IInv'
  BY TypeStep, ExactStep DEF IInv
<1>3. QED
  BY <1>1, <1>2, PTL DEF Spec

-----------------------------------------------------------------------------
(* The safety of runs *)

\* What Fenced says of one step.
FencedStep(r) ==
    (\/ output'[r] # output[r]
     \/ checkpoint'[r] # checkpoint[r] /\ checkpoint'[r] # None
     \/ status'[r] \in {"completed", "failed"} /\ status'[r] # status[r])
    => status[r] \in Executing /\ leaseLeft[r] > 0

\* Text, output and a worker's verdict reach a run only under a live lease.
THEOREM FencedWrites == Spec => Fenced
<1>1. TypeOK /\ [Next]_dbVars => \A r \in Runs : FencedStep(r)
  <2> SUFFICES ASSUME TypeOK, [Next]_dbVars, NEW q \in Runs PROVE FencedStep(q)
    OBVIOUS
  <2> USE DEF TypeOK, FencedStep
  <2>1. ASSUME NEW r \in Runs, Submit(r) PROVE FencedStep(q)
    BY <2>1 DEF Submit
  <2>2. ASSUME NEW r \in Runs, CancelRun(r) PROVE FencedStep(q)
    BY <2>2 DEF CancelRun, ReleaseUninvoked
  <2>3. ASSUME NEW r \in Runs, ReconcileCost(r) PROVE FencedStep(q)
    BY <2>3 DEF ReconcileCost
  <2>4. ASSUME NEW w \in Workers, NEW r \in Runs, Claim(w, r) PROVE FencedStep(q)
    BY <2>4 DEF Claim, Claimable
  <2>5. ASSUME NEW w \in Workers, NEW r \in Runs, NEW a \in Attempts, StartAttempt(w, r, a)
        PROVE FencedStep(q)
    BY <2>5 DEF StartAttempt, NoAttempt
  <2>6. ASSUME NEW a \in Attempts, RenewAttempt(a) PROVE FencedStep(q)
    BY <2>6, OwnedRun DEF RenewAttempt, RunningAttempt, OwnedAttempt
  <2>7. ASSUME NEW a \in Attempts, NEW text \in Texts, SaveCheckpoint(a, text)
        PROVE FencedStep(q)
    BY <2>7, OwnedRun DEF SaveCheckpoint, RunningAttempt, OwnedAttempt
  <2>8. ASSUME NEW a \in Attempts, NEW text \in Texts, NEW reason \in StopReasons,
               StopAttempt(a, text, reason)
        PROVE FencedStep(q)
    BY <2>8, OwnedRun DEF StopAttempt, OwnedAttempt
  <2>9. ASSUME NEW a \in Attempts, NEW text \in Texts, NEW usage \in BOOLEAN,
               CompleteAttempt(a, text, usage)
        PROVE FencedStep(q)
    BY <2>9, OwnedRun DEF CompleteAttempt, RunningAttempt, OwnedAttempt
  <2>10. CASE RecoverStale
    BY <2>10 DEF RecoverStale, Stale, RecoveredStatus
  <2>11. ASSUME NEW S \in SUBSET Runs, PruneCheckpoints(S) PROVE FencedStep(q)
    BY <2>11 DEF PruneCheckpoints
  <2>12. CASE Tick
    BY <2>12 DEF Tick
  <2>13. CASE UNCHANGED dbVars
    BY <2>13 DEF dbVars
  <2>14. QED
    BY <2>1, <2>2, <2>3, <2>4, <2>5, <2>6, <2>7, <2>8, <2>9, <2>10, <2>11, <2>12, <2>13 DEF Next
<1>2. QED
  BY <1>1, TypeCorrect, PTL DEF Spec, Fenced, FencedStep

\* What HistoryKept says of one step.
HistoryStep(r) ==
    status[r] \in Terminal =>
        /\ status'[r] = status[r] /\ failure'[r] = failure[r] /\ output'[r] = output[r]
        /\ checkpoint'[r] # checkpoint[r] => checkpoint'[r] = None /\ checkpoint[r] = output[r]
        /\ \A a \in Attempts : attempt[a].run = r => attempt'[a] = attempt[a]

\* A finished run is history.
THEOREM FinishedRunsKept == Spec => HistoryKept
<1>1. IInv /\ [Next]_dbVars => \A r \in Runs : HistoryStep(r)
  <2> SUFFICES ASSUME IInv, [Next]_dbVars, NEW q \in Runs PROVE HistoryStep(q)
    OBVIOUS
  <2> USE DEF IInv, TypeOK, Exact, OneAttempt, HistoryStep
  <2>1. ASSUME NEW r \in Runs, Submit(r) PROVE HistoryStep(q)
    BY <2>1 DEF Submit
  <2>2. ASSUME NEW r \in Runs, CancelRun(r) PROVE HistoryStep(q)
    BY <2>2 DEF CancelRun, ReleaseUninvoked
  <2>3. ASSUME NEW r \in Runs, ReconcileCost(r) PROVE HistoryStep(q)
    BY <2>3 DEF ReconcileCost
  <2>4. ASSUME NEW w \in Workers, NEW r \in Runs, Claim(w, r) PROVE HistoryStep(q)
    BY <2>4 DEF Claim, Claimable
  <2>5. ASSUME NEW w \in Workers, NEW r \in Runs, NEW a \in Attempts, StartAttempt(w, r, a)
        PROVE HistoryStep(q)
    BY <2>5 DEF StartAttempt, NoAttempt
  <2>6. ASSUME NEW a \in Attempts, RenewAttempt(a) PROVE HistoryStep(q)
    BY <2>6, OwnedRun DEF RenewAttempt, RunningAttempt, OwnedAttempt
  <2>7. ASSUME NEW a \in Attempts, NEW text \in Texts, SaveCheckpoint(a, text)
        PROVE HistoryStep(q)
    BY <2>7, OwnedRun DEF SaveCheckpoint, RunningAttempt, OwnedAttempt
  <2>8. ASSUME NEW a \in Attempts, NEW text \in Texts, NEW reason \in StopReasons,
               StopAttempt(a, text, reason)
        PROVE HistoryStep(q)
    BY <2>8, OwnedRun DEF StopAttempt, OwnedAttempt
  <2>9. ASSUME NEW a \in Attempts, NEW text \in Texts, NEW usage \in BOOLEAN,
               CompleteAttempt(a, text, usage)
        PROVE HistoryStep(q)
    BY <2>9, OwnedRun DEF CompleteAttempt, RunningAttempt, OwnedAttempt
  <2>10. CASE RecoverStale
    BY <2>10 DEF RecoverStale, Stale, RecoveredStatus
  <2>11. ASSUME NEW S \in SUBSET Runs, PruneCheckpoints(S) PROVE HistoryStep(q)
    BY <2>11 DEF PruneCheckpoints
  <2>12. CASE Tick
    BY <2>12 DEF Tick
  <2>13. CASE UNCHANGED dbVars
    BY <2>13 DEF dbVars
  <2>14. QED
    BY <2>1, <2>2, <2>3, <2>4, <2>5, <2>6, <2>7, <2>8, <2>9, <2>10, <2>11, <2>12, <2>13 DEF Next
<1>2. QED
  BY <1>1, Invariance, PTL DEF Spec, HistoryKept, HistoryStep

\* No run is ever handed to a provider twice.
THEOREM AtMostOneAttempt == Spec => []OneAttempt
BY Invariance, PTL DEF IInv, Exact

\* A lease stands exactly while a worker may hold the run, a cost is released only where no
\* provider call was made, a revision is published exactly when its run completes, and a
\* stopped run records the one reason that stopped it: whichever transactions wrote them.
THEOREM RowsAgree == Spec => []RowsExact
BY Invariance, PTL DEF IInv, Exact, RowsExact

-----------------------------------------------------------------------------
(* The contract.  A step of the transactions moves each run by one step of    *)
(* the contract or leaves it where it stands: claiming, requeueing, renewing, *)
(* checkpointing and pruning are invisible to it.                             *)

\* One step of one run, in the contract's terms.
ContractStep(r) ==
    \/ Contract!Admit(r) \/ Contract!Begin(r) \/ Contract!Withdraw(r) \/ Contract!AskCancel(r)
    \/ Contract!Complete(r) \/ Contract!Stop(r) \/ Contract!Reconcile(r) \/ Contract!Stays(r)

\* Every step is, for every run, a step of the contract or a stutter.
LEMMA ContractSimulated == IInv /\ [Next]_dbVars => \A r \in Runs : ContractStep(r)
<1> SUFFICES ASSUME IInv, [Next]_dbVars, NEW q \in Runs PROVE ContractStep(q)
  OBVIOUS
<1> USE DEF IInv, TypeOK, Exact, OneAttempt, BillingExact, PublishedExact, HasAttempt, Stage,
            ContractStep, Contract!Admit, Contract!Begin, Contract!Withdraw, Contract!AskCancel,
            Contract!Complete, Contract!Stop, Contract!Reconcile, Contract!Stays,
            Contract!Moves, Contract!KeepsBill, Contract!KeepsPublished
<1>1. ASSUME NEW r \in Runs, Submit(r) PROVE ContractStep(q)
  BY <1>1 DEF Submit
<1>2. ASSUME NEW r \in Runs, CancelRun(r) PROVE ContractStep(q)
  BY <1>2 DEF CancelRun, ReleaseUninvoked
<1>3. ASSUME NEW r \in Runs, ReconcileCost(r) PROVE ContractStep(q)
  BY <1>3 DEF ReconcileCost
<1>4. ASSUME NEW w \in Workers, NEW r \in Runs, Claim(w, r) PROVE ContractStep(q)
  BY <1>4 DEF Claim, Claimable
<1>5. ASSUME NEW w \in Workers, NEW r \in Runs, NEW a \in Attempts, StartAttempt(w, r, a)
      PROVE ContractStep(q)
  BY <1>5 DEF StartAttempt
<1>6. ASSUME NEW a \in Attempts, RenewAttempt(a) PROVE ContractStep(q)
  BY <1>6 DEF RenewAttempt
<1>7. ASSUME NEW a \in Attempts, NEW text \in Texts, SaveCheckpoint(a, text)
      PROVE ContractStep(q)
  BY <1>7 DEF SaveCheckpoint
<1>8. ASSUME NEW a \in Attempts, NEW text \in Texts, NEW reason \in StopReasons,
             StopAttempt(a, text, reason)
      PROVE ContractStep(q)
  BY <1>8, OwnedRun DEF StopAttempt, OwnedAttempt, ReleasePreflight, HoldUncertain
<1>9. ASSUME NEW a \in Attempts, NEW text \in Texts, NEW usage \in BOOLEAN,
             CompleteAttempt(a, text, usage)
      PROVE ContractStep(q)
  BY <1>9, OwnedRun DEF CompleteAttempt, RunningAttempt, OwnedAttempt, Settle
<1>10. CASE RecoverStale
  BY <1>10 DEF RecoverStale, Stale, RecoveredStatus, HoldUncertain, ReleaseUninvoked
<1>11. ASSUME NEW S \in SUBSET Runs, PruneCheckpoints(S) PROVE ContractStep(q)
  BY <1>11 DEF PruneCheckpoints
<1>12. CASE Tick
  BY <1>12 DEF Tick
<1>13. CASE UNCHANGED dbVars
  BY <1>13 DEF dbVars
<1>14. QED
  BY <1>1, <1>2, <1>3, <1>4, <1>5, <1>6, <1>7, <1>8, <1>9, <1>10, <1>11, <1>12, <1>13 DEF Next

\* Every run follows the diagram of the run lifecycle.
THEOREM RunsKeepContract == Spec => KeepsContract
<1>1. Init => Contract!Init
  BY DEF Init, Contract!Init, Stage
<1>2. IInv /\ [Next]_dbVars => [Contract!Next]_(Contract!contractVars)
  BY ContractSimulated DEF ContractStep, Contract!Next
<1>3. QED
  BY <1>1, <1>2, Invariance, PTL DEF Spec, KeepsContract, Contract!Spec

-----------------------------------------------------------------------------
(* The process: RunWorker *)

USE NoneAssumption, LeaseAssumption, CreatedAssumption, WorkersAssumption, TextsAssumption,
    ConcurrencyAssumption
    DEF Waiting, Executing, Leased, Active, Terminal, Statuses, StopReasons, Reasons,
        CostStates, Outcomes, Phases

\* What is true of a job while it exists.  A starting job holds the claim it is
\* about to use; a job in call holds the attempt it made, and its reservation was
\* not given back, so that the provider call it may still make is paid for.
JobExact(r) ==
    /\ Busy(r) => mode # "down"
    /\ job[r].phase = "starting" =>
          mode = "up" /\ status[r] = "claimed" /\ leaseOwner[r] = process
    /\ InCall(r) => /\ job[r].token \in Attempts
                    /\ attempt[job[r].token].run = r
                    /\ attempt[job[r].token].worker = process
                    /\ cost[r] # "released"
    /\ job[r].phase = "preparing" => calls[r] = 0

OneStarting ==
    \A q, r \in Runs : job[q].phase = "starting" /\ job[r].phase = "starting" => q = r

\* Leases name processes that have existed, so a new process starts with none.
ProcessExact ==
    /\ mode # "down" => process \in Workers
    /\ \A r \in Runs : leaseOwner[r] # None => leaseOwner[r] <= process

JobRecord == [phase : Phases, token : Attempts \cup {None},
              text : 0..MaxText, savedText : 0..MaxText]
Jobs == [Runs -> JobRecord]

WorkerTyped ==
    /\ process \in 0..Starts
    /\ mode \in {"down", "up", "stopping"}
    /\ job \in [Runs -> [phase : Phases, token : Attempts \cup {None},
                         text : 0..MaxText, savedText : 0..MaxText]]
    /\ calls \in [Runs -> 0..2]

WorkerInv ==
    /\ WorkerTyped
    /\ \A r \in Runs : JobExact(r)
    /\ OneStarting
    /\ ProcessExact
    /\ LeasesTended
    /\ CalledOnce

WInv == IInv /\ WorkerInv

-----------------------------------------------------------------------------
(* The worker uses the lifecycle transactions *)

\* Whichever way a job is stopped, the rows change by one transaction or not at all.
LEMMA StopJobUses ==
    ASSUME WInv, NEW r \in Runs, InCall(r), NEW text \in 0..MaxText, NEW reason \in StopReasons,
           StopJob(r, text, reason)
    PROVE  [Next]_dbVars
<1>1. job[r].token \in Attempts
  BY DEF WInv, WorkerInv, JobExact
<1>2. QED
  BY <1>1 DEF StopJob, Next, dbVars

LEMMA StepUses == WInv /\ [WNext]_vars => [Next]_dbVars
<1> SUFFICES ASSUME WInv, [WNext]_vars PROVE [Next]_dbVars
  OBVIOUS
<1> USE DEF Verdict
<1>1. \A r \in Runs : /\ job[r].text \in 0..MaxText
                      /\ InCall(r) => job[r].token \in Attempts
  BY DEF WInv, WorkerInv, WorkerTyped, JobExact
<1>2. mode # "down" => process \in Workers
  BY DEF WInv, WorkerInv, ProcessExact
<1>3. ASSUME NEW r \in Runs, TickClaims(r) PROVE [Next]_dbVars
  BY <1>2, <1>3 DEF TickClaims, Next
<1>4. ASSUME NEW r \in Runs, NEW a \in Attempts, StartJob(r, a) PROVE [Next]_dbVars
  <2>1. process \in Workers
    BY <1>2, <1>4 DEF StartJob, WInv, WorkerInv, JobExact, Busy
  <2>2. QED
    BY <2>1, <1>4 DEF StartJob, Next
<1>5. ASSUME NEW r \in Runs, StartMissed(r) \/ Invoke(r) \/ JobFails(r) PROVE [Next]_dbVars
  BY <1>5 DEF StartMissed, Invoke, JobFails, dbVars
<1>6. ASSUME NEW r \in Runs,
             PreflightFails(r) \/ OutputLimit(r) \/ TimedOut(r) \/ ProviderFails(r)
               \/ ShutdownStops(r)
      PROVE [Next]_dbVars
  BY <1>1, <1>6, StopJobUses
  DEF PreflightFails, OutputLimit, TimedOut, ProviderFails, ShutdownStops, InCall
<1>7. ASSUME NEW r \in Runs, Chunk(r) PROVE [Next]_dbVars
  <2> DEFINE text == job[r].text + 1
  <2>1. InCall(r) /\ text \in 0..MaxText
    BY <1>1, <1>7 DEF Chunk, InCall
  <2>2. \/ UNCHANGED dbVars
        \/ SaveCheckpoint(job[r].token, text)
        \/ StopJob(r, text, "provider")
    BY <1>7 DEF Chunk
  <2>3. QED
    BY <1>1, <2>1, <2>2, StopJobUses DEF Next
<1>8. ASSUME NEW r \in Runs, Heartbeat(r) \/ HeartbeatSaves(r) PROVE [Next]_dbVars
  BY <1>1, <1>8, StopJobUses DEF Heartbeat, HeartbeatSaves, Next
<1>9. ASSUME NEW r \in Runs, Finish(r) PROVE [Next]_dbVars
  BY <1>1, <1>9, StopJobUses DEF Finish, InCall, Next
<1>10. ASSUME NEW r \in Runs, Request(r) \/ Operator(r) PROVE [Next]_dbVars
  BY <1>10 DEF Request, Operator, Next
<1>11. CASE TickRecovers \/ Maintain \/ Time
  BY <1>11 DEF TickRecovers, Maintain, Time, Next
<1>12. CASE Boot \/ Shutdown \/ Exit \/ Crash
  BY <1>12 DEF Boot, Shutdown, Exit, Crash
<1>13. CASE UNCHANGED vars
  BY <1>13 DEF vars
<1>14. QED
  BY <1>3, <1>4, <1>5, <1>6, <1>7, <1>8, <1>9, <1>10, <1>11, <1>12, <1>13 DEF WNext

\* The rows keep their invariant under the worker.
LEMMA RowsKept == WInv /\ [WNext]_vars => IInv'
BY StepUses, TypeStep, ExactStep DEF WInv, IInv

-----------------------------------------------------------------------------
(* The jobs *)

\* What the rows of a run say once it has an attempt.
LEMMA AttemptedRun ==
    ASSUME IInv, NEW a \in Attempts, attempt[a].run \in Runs
    PROVE  LET r == attempt[a].run IN
           /\ HasAttempt(r)
           /\ status[r] \in Executing \cup Terminal
           /\ leaseOwner[r] # None /\ leaseLeft[r] > 0 =>
                 leaseOwner[r] = attempt[a].worker /\ OwnedAttempt(a)
BY DEF IInv, TypeOK, Exact, OneAttempt, LeaseExact, HasAttempt, OwnedAttempt

\* Changing fields of one job within their ranges keeps the map well typed.
LEMMA JobChanged ==
    ASSUME WorkerTyped, NEW r \in Runs, NEW phase \in Phases,
           NEW text \in 0..MaxText, NEW savedText \in 0..MaxText
    PROVE  /\ [job EXCEPT ![r].phase = phase] \in Jobs
           /\ [job EXCEPT ![r].text = text] \in Jobs
           /\ [job EXCEPT ![r].text = text, ![r].savedText = savedText] \in Jobs
<1>1. job \in Jobs /\ job[r] \in JobRecord
  BY DEF WorkerTyped, Jobs, JobRecord
<1>2. [job[r] EXCEPT !.phase = phase] \in JobRecord
  BY <1>1 DEF JobRecord
<1>3. [job[r] EXCEPT !.text = text] \in JobRecord
  BY <1>1 DEF JobRecord
<1>4. [job[r] EXCEPT !.text = text, !.savedText = savedText] \in JobRecord
  BY <1>1 DEF JobRecord
<1> HIDE DEF JobRecord
<1>5. \A e \in JobRecord : [job EXCEPT ![r] = e] \in Jobs
  BY <1>1 DEF Jobs
<1>6. QED
  BY <1>1, <1>2, <1>3, <1>4, <1>5

LEMMA InitWorker == WInit => WInv
BY InitExact DEF WInit, WInv, IInv, WorkerInv, WorkerTyped, JobExact, OneStarting, ProcessExact,
   LeasesTended, CalledOnce, Init, TypeOK, NoAttempt, Idle, NewJob, Busy, InCall

\* Stopping a job keeps everything: a verdict clears the lease, and a run that is
\* no longer owned has no live lease left.
LEMMA StopJobKeeps ==
    ASSUME WInv, NEW r \in Runs, InCall(r), NEW text \in 0..MaxText, NEW reason \in StopReasons,
           StopJob(r, text, reason), mode' = mode,
           reason = "preflight" => job[r].phase = "preparing",
           \A q \in Runs : job[q].phase # "starting"
    PROVE  WorkerInv'
<1> DEFINE a == job[r].token
<1> USE DEF WInv, WorkerInv, IInv, TypeOK, WorkerTyped, InCall, Busy
<1>1. /\ a \in Attempts /\ attempt[a].run = r /\ attempt[a].worker = process
      /\ mode # "down" /\ cost[r] # "released"
  BY DEF JobExact
<1>2. /\ job' = [job EXCEPT ![r] = Idle]
      /\ process' = process /\ calls' = calls
  BY DEF StopJob, Drop
<1>3. HasAttempt(r) /\ status[r] \in Executing \cup Terminal
  BY <1>1, AttemptedRun
<1>4. \/ StopAttempt(a, text, reason)
      \/ ~OwnedAttempt(a) /\ RecoverStale
      \/ ~OwnedAttempt(a) /\ UNCHANGED dbVars
  BY DEF StopJob
<1>5. \A b \in Attempts : attempt'[b].run = attempt[b].run /\ attempt'[b].worker = attempt[b].worker
  <2>1. CASE StopAttempt(a, text, reason)
    <3>1. PICK end \in Terminal : attempt' = [attempt EXCEPT ![a].outcome = end]
      BY <2>1 DEF StopAttempt
    <3>2. QED
      BY <3>1, <1>1
  <2>2. CASE RecoverStale
    BY <2>2 DEF RecoverStale
  <2>3. QED
    BY <1>4, <2>1, <2>2 DEF dbVars
<1>6. \A q \in Runs : /\ leaseOwner'[q] \in {leaseOwner[q], None}
                      /\ leaseLeft'[q] \in {leaseLeft[q], 0}
  BY <1>4, <1>1 DEF StopAttempt, RecoverStale, dbVars
<1>7. leaseOwner'[r] = process => leaseLeft'[r] = 0
  <2>1. CASE StopAttempt(a, text, reason)
    BY <2>1, <1>1 DEF StopAttempt, ProcessExact
  <2>2. CASE ~OwnedAttempt(a)
    <3>1. ~(leaseOwner[r] # None /\ leaseLeft[r] > 0)
      BY <2>2, <1>1, AttemptedRun
    <3>2. leaseLeft[r] \in Nat /\ process # None
      BY <1>1 DEF ProcessExact
    <3>3. QED
      BY <3>1, <3>2, <1>6
  <2>3. QED
    BY <1>4, <2>1, <2>2
<1>8. \A q \in Runs : cost'[q] = "released" =>
         cost[q] = "released" \/ ~HasAttempt(q) \/ (q = r /\ calls[r] = 0)
  <2>1. CASE StopAttempt(a, text, reason)
    BY <2>1, <1>1 DEF StopAttempt, ReleasePreflight, HoldUncertain, JobExact
  <2>2. CASE RecoverStale
    BY <2>2 DEF RecoverStale, ReleaseUninvoked, HoldUncertain
  <2>3. QED
    BY <1>4, <2>1, <2>2 DEF dbVars
<1>9. \A q \in Runs : HasAttempt(q) <=> HasAttempt(q)'
  BY <1>5 DEF HasAttempt
<1>10. WorkerTyped'
  BY <1>2 DEF Idle, NewJob
<1>11. \A q \in Runs : JobExact(q)'
  BY <1>2, <1>5, <1>8 DEF JobExact, Idle, NewJob, HasAttempt
<1>12. OneStarting'
  BY <1>2 DEF OneStarting, Idle, NewJob
<1>13. ProcessExact'
  BY <1>2, <1>6 DEF ProcessExact
<1>14. LeasesTended'
  <2> SUFFICES ASSUME NEW q \in Runs, mode' = "up", leaseOwner'[q] = process', leaseLeft'[q] > 0
               PROVE  Busy(q)'
    BY DEF LeasesTended
  <2>1. q # r
    BY <1>2, <1>7
  <2>2. process # None
    BY <1>1 DEF ProcessExact
  <2>3. leaseOwner[q] = process
    BY <1>2, <1>6, <2>2
  <2>4. leaseLeft'[q] = leaseLeft[q]
    <3>1. leaseLeft'[q] # 0
      OBVIOUS
    <3>2. QED
      BY <3>1, <1>6
  <2>5. QED
    BY <1>2, <2>1, <2>3, <2>4 DEF LeasesTended
<1>15. CalledOnce'
  BY <1>2, <1>8, <1>9 DEF CalledOnce
<1>16. QED
  BY <1>10, <1>11, <1>12, <1>13, <1>14, <1>15

\* A step that changes at most the text of a job, shortens or clears leases, and
\* gives back no reservation of a run with an attempt, keeps everything.
LEMMA RowStepKeeps ==
    ASSUME WInv, UNCHANGED <<process, mode, calls>>, WorkerTyped',
           \A r \in Runs : job'[r].phase = job[r].phase /\ job'[r].token = job[r].token,
           \A a \in Attempts : /\ attempt'[a].run = attempt[a].run
                               /\ attempt'[a].worker = attempt[a].worker,
           \A r \in Runs : /\ leaseOwner'[r] \in {leaseOwner[r], None}
                           /\ leaseLeft'[r] > 0 => leaseLeft[r] > 0
                           /\ cost'[r] = "released" => cost[r] = "released" \/ ~HasAttempt(r)
                           /\ job[r].phase = "starting" =>
                                 status'[r] = status[r] /\ leaseOwner'[r] = leaseOwner[r]
    PROVE  WorkerInv'
<1> USE DEF WInv, WorkerInv
<1>1. \A r \in Runs : HasAttempt(r) <=> HasAttempt(r)'
  BY DEF HasAttempt
<1>2. \A r \in Runs : JobExact(r)'
  <2> SUFFICES ASSUME NEW r \in Runs PROVE JobExact(r)'
    OBVIOUS
  <2>1. InCall(r) => HasAttempt(r)
    BY DEF JobExact, HasAttempt
  <2>2. QED
    BY <2>1 DEF JobExact, Busy, InCall
<1>3. OneStarting'
  BY DEF OneStarting
<1>4. ProcessExact'
  BY DEF ProcessExact
<1>5. LeasesTended'
  BY DEF LeasesTended, Busy, ProcessExact
<1>6. CalledOnce'
  BY <1>1 DEF CalledOnce
<1>7. QED
  BY <1>2, <1>3, <1>4, <1>5, <1>6

\* Every step keeps what is true of the jobs.
LEMMA JobsKept == WInv /\ [WNext]_vars => WorkerInv'
<1> SUFFICES ASSUME WInv, [WNext]_vars PROVE WorkerInv'
  OBVIOUS
<1> USE DEF WInv, IInv, TypeOK, Verdict
<1>1. ASSUME NEW r \in Runs, TickClaims(r) PROVE WorkerInv'
  <2>1. /\ process \in Workers /\ mode = "up" /\ status[r] = "queued"
        /\ \A q \in Runs : job[q].phase # "starting"
    BY <1>1 DEF TickClaims, Claim, Claimable, LoopFree, WorkerInv, ProcessExact
  <2>2. /\ job' = [job EXCEPT ![r] = NewJob("starting", None)]
        /\ status' = [status EXCEPT ![r] = "claimed"]
        /\ leaseOwner' = [leaseOwner EXCEPT ![r] = process]
        /\ leaseLeft' = [leaseLeft EXCEPT ![r] = LeaseTime]
        /\ UNCHANGED <<attempt, cost, process, mode, calls>>
    BY <1>1 DEF TickClaims, Claim
  <2>3. WorkerTyped'
    BY <2>2 DEF WorkerInv, WorkerTyped, Idle, NewJob
  <2>4. \A q \in Runs : JobExact(q)'
    BY <2>1, <2>2 DEF WorkerInv, WorkerTyped, JobExact, Idle, NewJob, Busy, InCall
  <2>5. OneStarting' /\ ProcessExact'
    BY <2>1, <2>2 DEF WorkerInv, WorkerTyped, OneStarting, ProcessExact, Idle, NewJob
  <2>6. LeasesTended' /\ CalledOnce'
    BY <2>1, <2>2 DEF WorkerInv, WorkerTyped, LeasesTended, CalledOnce, HasAttempt, Busy, Idle, NewJob
  <2>7. QED
    BY <2>3, <2>4, <2>5, <2>6 DEF WorkerInv
<1>2. ASSUME NEW r \in Runs, NEW a \in Attempts, StartJob(r, a) PROVE WorkerInv'
  <2>1. /\ status[r] = "claimed" /\ leaseOwner[r] = process /\ leaseLeft[r] > 0
        /\ attempt[a].run = None /\ job[r].phase = "starting" /\ mode = "up"
    BY <1>2 DEF StartJob, StartAttempt, NoAttempt, WorkerInv, JobExact
  <2>2. /\ job' = [job EXCEPT ![r] = NewJob("preparing", a)]
        /\ status' = [status EXCEPT ![r] = "running"]
        /\ attempt' = [attempt EXCEPT ![a] = [run |-> r, worker |-> process, outcome |-> "open"]]
        /\ UNCHANGED <<leaseOwner, leaseLeft, cost, process, mode, calls>>
    BY <1>2 DEF StartJob, StartAttempt
  <2>3. cost[r] = "reserved" /\ ~HasAttempt(r)
    BY <2>1 DEF Exact, BillingExact, OneAttempt, HasAttempt
  <2>4. calls[r] = 0
    <3>1. calls[r] \in 0..2 /\ ~(calls[r] > 0)
      BY <2>3 DEF WorkerInv, WorkerTyped, CalledOnce
    <3>2. QED
      BY <3>1
  <2>5. WorkerTyped'
    BY <2>2 DEF WorkerInv, WorkerTyped, Idle, NewJob
  <2>6. \A q \in Runs : JobExact(q)'
    <3>1. ASSUME NEW q \in Runs, q # r PROVE JobExact(q)'
      BY <2>1, <2>2, <3>1 DEF WorkerInv, WorkerTyped, JobExact, OneStarting, Busy, InCall
    <3>2. JobExact(r)'
      BY <2>1, <2>2, <2>3, <2>4 DEF WorkerInv, WorkerTyped, JobExact, Idle, NewJob, Busy, InCall
    <3>3. QED
      BY <3>1, <3>2
  <2>7. OneStarting' /\ ProcessExact'
    BY <2>1, <2>2 DEF WorkerInv, WorkerTyped, OneStarting, ProcessExact, Idle, NewJob
  <2>8. LeasesTended'
    BY <2>1, <2>2 DEF WorkerInv, WorkerTyped, LeasesTended, Busy, Idle, NewJob
  <2>9. CalledOnce'
    <3>1. \A q \in Runs : HasAttempt(q) => HasAttempt(q)'
      BY <2>1, <2>2 DEF HasAttempt
    <3>2. QED
      BY <2>2, <3>1 DEF WorkerInv, CalledOnce
  <2>10. QED
    BY <2>5, <2>6, <2>7, <2>8, <2>9 DEF WorkerInv
<1>3. ASSUME NEW r \in Runs, StartMissed(r) PROVE WorkerInv'
  BY <1>3 DEF StartMissed, Drop, Idle, NewJob, dbVars, WorkerInv, WorkerTyped, JobExact, OneStarting,
              ProcessExact, LeasesTended, CalledOnce, Busy, InCall, HasAttempt
<1>4. ASSUME NEW r \in Runs, Invoke(r) PROVE WorkerInv'
  <2>1. /\ job[r].phase = "preparing" /\ calls[r] = 0 /\ HasAttempt(r) /\ cost[r] # "released"
        /\ job' = [job EXCEPT ![r].phase = "calling"]
        /\ calls' = [calls EXCEPT ![r] = @ + 1]
        /\ UNCHANGED <<dbVars, process, mode>>
    BY <1>4 DEF Invoke, WorkerInv, JobExact, HasAttempt, InCall
  <2>2. WorkerTyped'
    <3>1. calls' \in [Runs -> 0..2]
      BY <2>1 DEF WorkerInv, WorkerTyped
    <3>2. job' \in Jobs
      <4>1. "calling" \in Phases /\ 0 \in 0..MaxText
        OBVIOUS
      <4>2. QED
        BY <2>1, <4>1, JobChanged DEF WorkerInv
    <3>3. QED
      BY <2>1, <3>1, <3>2 DEF WorkerInv, WorkerTyped, Jobs, JobRecord
  <2>7. OneStarting' /\ ProcessExact'
    BY <2>1 DEF WorkerInv, WorkerTyped, OneStarting, ProcessExact, dbVars
  <2>3. \A q \in Runs : JobExact(q)'
    BY <2>1 DEF WorkerInv, WorkerTyped, JobExact, Busy, InCall, dbVars
  <2>4. LeasesTended'
    BY <2>1 DEF WorkerInv, WorkerTyped, LeasesTended, Busy, dbVars
  <2>5. CalledOnce'
    <3>1. \A q \in Runs : HasAttempt(q)' <=> HasAttempt(q)
      BY <2>1 DEF HasAttempt, dbVars
    <3>2. QED
      BY <2>1, <3>1 DEF WorkerInv, WorkerTyped, CalledOnce, dbVars
  <2>6. QED
    BY <2>2, <2>3, <2>4, <2>5, <2>7 DEF WorkerInv
<1>5. ASSUME NEW r \in Runs,
             PreflightFails(r) \/ OutputLimit(r) \/ TimedOut(r) \/ ProviderFails(r)
               \/ ShutdownStops(r)
      PROVE WorkerInv'
  <2>1. InCall(r) /\ job[r].text \in 0..MaxText
    BY <1>5 DEF PreflightFails, OutputLimit, TimedOut, ProviderFails, ShutdownStops, InCall,
                WorkerInv, WorkerTyped
  <2>2. \A q \in Runs : job[q].phase # "starting"
    BY <1>5 DEF PreflightFails, OutputLimit, TimedOut, ProviderFails, ShutdownStops, LoopFree,
                WorkerInv, JobExact
  <2>3. QED
    BY <1>5, <2>1, <2>2, StopJobKeeps
    DEF PreflightFails, OutputLimit, TimedOut, ProviderFails, ShutdownStops
<1>6. ASSUME NEW r \in Runs, Chunk(r) PROVE WorkerInv'
  <2> DEFINE text == job[r].text + 1
  <2>1. text \in 0..MaxText /\ job[r].phase = "calling" /\ LoopFree
    BY <1>6 DEF Chunk, WorkerInv, WorkerTyped
  <2>2. CASE UNCHANGED dbVars /\ job' = [job EXCEPT ![r].text = text]
    <3>1. WorkerTyped'
      <4>1. job' \in Jobs
        BY <2>1, <2>2, JobChanged DEF WorkerInv
      <4>2. UNCHANGED <<process, mode, calls>>
        BY <1>6 DEF Chunk, StopJob
      <4>3. QED
        BY <4>1, <4>2 DEF WorkerInv, WorkerTyped, Jobs, JobRecord
    <3>2. \A q \in Runs : job'[q].phase = job[q].phase /\ job'[q].token = job[q].token
      BY <2>2 DEF WorkerInv, WorkerTyped
    <3>3. QED
      BY <1>6, <2>2, <3>1, <3>2, RowStepKeeps DEF Chunk, StopJob, dbVars
  <2>3. CASE /\ SaveCheckpoint(job[r].token, text)
             /\ job' = [job EXCEPT ![r].text = text, ![r].savedText = text]
    <3>1. WorkerTyped'
      <4>1. job' \in Jobs
        BY <2>1, <2>3, JobChanged DEF WorkerInv
      <4>2. UNCHANGED <<process, mode, calls>>
        BY <1>6 DEF Chunk, StopJob
      <4>3. QED
        BY <4>1, <4>2 DEF WorkerInv, WorkerTyped, Jobs, JobRecord
    <3>2. \A q \in Runs : job'[q].phase = job[q].phase /\ job'[q].token = job[q].token
      BY <2>3 DEF WorkerInv, WorkerTyped
    <3>3. QED
      BY <1>6, <2>3, <3>1, <3>2, RowStepKeeps DEF Chunk, StopJob, SaveCheckpoint
  <2>4. CASE StopJob(r, text, "provider") /\ UNCHANGED mode
    BY <2>1, <2>4, StopJobKeeps DEF LoopFree, InCall
  <2>5. QED
    BY <1>6, <2>2, <2>3, <2>4 DEF Chunk
<1>7. ASSUME NEW r \in Runs, Heartbeat(r) PROVE WorkerInv'
  <2>1. CASE RenewAttempt(job[r].token) /\ UNCHANGED workVars
    <3>1. attempt[job[r].token].run \in Runs
      BY <1>7 DEF Heartbeat, WorkerInv, JobExact
    <3>2. QED
      BY <2>1, <3>1, RowStepKeeps
      DEF RenewAttempt, RunningAttempt, OwnedAttempt, workVars, WorkerInv, WorkerTyped
  <2>2. CASE LoopFree /\ StopJob(r, job[r].text, "provider") /\ UNCHANGED mode
    BY <1>7, <2>2, StopJobKeeps DEF Heartbeat, LoopFree, WorkerInv, WorkerTyped
  <2>3. QED
    BY <1>7, <2>1, <2>2 DEF Heartbeat
<1>8. ASSUME NEW r \in Runs, HeartbeatSaves(r) PROVE WorkerInv'
  <2>1. /\ job' = [job EXCEPT ![r].savedText = job[r].text]
        /\ UNCHANGED <<process, mode, calls>>
    BY <1>8 DEF HeartbeatSaves
  <2>2. WorkerTyped'
    BY <2>1 DEF WorkerInv, WorkerTyped
  <2>3. \A q \in Runs : job'[q].phase = job[q].phase /\ job'[q].token = job[q].token
    BY <2>1 DEF WorkerInv, WorkerTyped
  <2>4. QED
    BY <1>8, <2>1, <2>2, <2>3, RowStepKeeps DEF HeartbeatSaves, SaveCheckpoint
<1>9. ASSUME NEW r \in Runs, Finish(r) PROVE WorkerInv'
  <2> DEFINE a == job[r].token
  <2>1. /\ job[r].text \in 0..MaxText /\ InCall(r) /\ mode # "down" /\ process \in Workers
        /\ a \in Attempts /\ attempt[a].run = r
    BY <1>9 DEF Finish, WorkerInv, WorkerTyped, JobExact, InCall, Busy, ProcessExact
  <2>2. CASE /\ \E usage \in BOOLEAN : CompleteAttempt(a, job[r].text, usage)
             /\ Drop(r) /\ UNCHANGED <<process, mode, calls>>
    <3>1. PICK usage \in BOOLEAN : CompleteAttempt(a, job[r].text, usage)
      BY <2>2
    <3>2. /\ job' = [job EXCEPT ![r] = Idle]
          /\ leaseOwner' = [leaseOwner EXCEPT ![r] = None]
          /\ leaseLeft' = [leaseLeft EXCEPT ![r] = 0]
          /\ attempt' = [attempt EXCEPT ![a].outcome = "completed"]
          /\ cost' = [cost EXCEPT ![r] = Settle(r, usage)]
          /\ status' = [status EXCEPT ![r] = "completed"]
      BY <2>1, <2>2, <3>1 DEF CompleteAttempt, Drop
    <3>3. \A b \in Attempts : attempt'[b].run = attempt[b].run /\ attempt'[b].worker = attempt[b].worker
      BY <3>2
    <3>4. \A q \in Runs : cost'[q] = "released" => cost[q] = "released"
      BY <3>2 DEF Settle
    <3>5. \A q \in Runs : HasAttempt(q)' <=> HasAttempt(q)
      BY <3>3 DEF HasAttempt
    <3>6. WorkerTyped' /\ OneStarting' /\ ProcessExact'
      BY <2>1, <2>2, <3>2 DEF WorkerInv, WorkerTyped, OneStarting, ProcessExact, Idle, NewJob
    <3>7. \A q \in Runs : JobExact(q)'
      BY <2>1, <2>2, <3>2, <3>3, <3>4
      DEF WorkerInv, WorkerTyped, JobExact, Idle, NewJob, Busy, InCall
    <3>8. LeasesTended'
      BY <2>1, <2>2, <3>2 DEF WorkerInv, WorkerTyped, LeasesTended, Busy, Idle, NewJob
    <3>9. CalledOnce'
      BY <2>2, <3>4, <3>5 DEF WorkerInv, CalledOnce
    <3>10. QED
      BY <3>6, <3>7, <3>8, <3>9 DEF WorkerInv
  <2>3. CASE LoopFree /\ StopJob(r, job[r].text, "provider") /\ UNCHANGED mode
    BY <2>1, <2>3, StopJobKeeps DEF LoopFree
  <2>4. QED
    BY <1>9, <2>2, <2>3 DEF Finish
<1>10. ASSUME NEW r \in Runs, JobFails(r) PROVE WorkerInv'
  BY <1>10 DEF JobFails, Drop, Idle, NewJob, dbVars, WorkerInv, WorkerTyped, JobExact, OneStarting,
              ProcessExact, LeasesTended, CalledOnce, Busy, InCall, HasAttempt
<1>11. ASSUME NEW r \in Runs, Request(r) PROVE WorkerInv'
  <2>1. /\ \A q \in Runs : job[q].phase # "starting"
        /\ WorkerTyped' /\ UNCHANGED workVars
    BY <1>11 DEF Request, LoopFree, WorkerInv, WorkerTyped, workVars
  <2>2. CASE Submit(r)
    BY <2>1, <2>2, RowStepKeeps DEF Submit, workVars
  <2>3. CASE CancelRun(r)
    <3>1. \A q \in Runs : /\ leaseOwner'[q] \in {leaseOwner[q], None}
                          /\ leaseLeft'[q] > 0 => leaseLeft[q] > 0
                          /\ cost'[q] = "released" => cost[q] = "released" \/ ~HasAttempt(q)
      BY <2>3 DEF CancelRun, ReleaseUninvoked
    <3>2. UNCHANGED attempt
      BY <2>3 DEF CancelRun
    <3>3. QED
      BY <2>1, <3>1, <3>2, RowStepKeeps DEF workVars
  <2>4. QED
    BY <1>11, <2>2, <2>3 DEF Request
<1>12. ASSUME NEW r \in Runs, Operator(r) PROVE WorkerInv'
  BY <1>12, RowStepKeeps DEF Operator, ReconcileCost, workVars, WorkerInv, WorkerTyped
<1>13. CASE TickRecovers
  <2>1. \A r \in Runs : job[r].phase # "starting"
    BY <1>13 DEF TickRecovers, LoopFree
  <2>2. QED
    <3>1. \A q \in Runs : /\ leaseOwner'[q] \in {leaseOwner[q], None}
                          /\ leaseLeft'[q] > 0 => leaseLeft[q] > 0
                          /\ cost'[q] = "released" => cost[q] = "released" \/ ~HasAttempt(q)
      BY <1>13 DEF TickRecovers, RecoverStale, HoldUncertain, ReleaseUninvoked
    <3>2. \A a \in Attempts : /\ attempt'[a].run = attempt[a].run
                              /\ attempt'[a].worker = attempt[a].worker
      BY <1>13 DEF TickRecovers, RecoverStale
    <3>3. WorkerTyped' /\ UNCHANGED workVars
      BY <1>13 DEF TickRecovers, workVars, WorkerInv, WorkerTyped
    <3>4. QED
      BY <2>1, <3>1, <3>2, <3>3, RowStepKeeps DEF workVars
<1>14. CASE Maintain
  BY <1>14, RowStepKeeps DEF Maintain, PruneCheckpoints, workVars, WorkerInv, WorkerTyped
<1>15. CASE Time
  BY <1>15, RowStepKeeps DEF Time, Tick, workVars, WorkerInv, WorkerTyped
<1>16. CASE Boot
  <2>1. /\ process' = process + 1 /\ process' \in Workers /\ mode = "down" /\ mode' = "up"
        /\ UNCHANGED <<dbVars, job, calls>>
    BY <1>16 DEF Boot, WorkerInv, WorkerTyped
  <2>2. \A r \in Runs : ~Busy(r)
    BY <2>1 DEF WorkerInv, JobExact
  <2>3. \A r \in Runs : leaseOwner[r] # None => leaseOwner[r] \in Nat /\ leaseOwner[r] <= process
    BY DEF WorkerInv, ProcessExact
  <2>4. WorkerTyped' /\ OneStarting'
    BY <2>1 DEF WorkerInv, WorkerTyped, OneStarting
  <2>5. \A r \in Runs : JobExact(r)'
    BY <2>1, <2>2 DEF JobExact, Busy, InCall, dbVars
  <2>6. ProcessExact' /\ LeasesTended'
    BY <2>1, <2>3 DEF WorkerInv, WorkerTyped, ProcessExact, LeasesTended, dbVars
  <2>7. CalledOnce'
    BY <2>1 DEF WorkerInv, CalledOnce, HasAttempt, dbVars
  <2>8. QED
    BY <2>4, <2>5, <2>6, <2>7 DEF WorkerInv
<1>17. CASE Shutdown \/ Exit
  BY <1>17 DEF Shutdown, Exit, LoopFree, dbVars, WorkerInv, WorkerTyped, JobExact, OneStarting,
               ProcessExact, LeasesTended, CalledOnce, Busy, InCall, HasAttempt
<1>18. CASE Crash
  BY <1>18 DEF Crash, Idle, NewJob, dbVars, WorkerInv, WorkerTyped, JobExact, OneStarting,
               ProcessExact, LeasesTended, CalledOnce, Busy, InCall, HasAttempt
<1>19. CASE UNCHANGED vars
  BY <1>19, RowStepKeeps DEF vars, dbVars, workVars, WorkerInv, WorkerTyped
<1>20. QED
  BY <1>1, <1>2, <1>3, <1>4, <1>5, <1>6, <1>7, <1>8, <1>9, <1>10, <1>11, <1>12, <1>13, <1>14,
     <1>15, <1>16, <1>17, <1>18, <1>19 DEF WNext

-----------------------------------------------------------------------------
(* Theorems *)

\* The invariant of the worker and its rows holds in every state.
LEMMA WorkerInvariant == WSpec => []WInv
<1>1. WInit => WInv
  BY InitWorker
<1>2. WInv /\ [WNext]_vars => WInv'
  BY RowsKept, JobsKept DEF WInv
<1>3. QED
  BY <1>1, <1>2, PTL DEF WSpec

\* The worker and its surroundings are well typed in every state.
THEOREM WorkerTypeCorrect == WSpec => []WTypeOK
<1>1. WInv => WTypeOK
  BY DEF WInv, IInv, WorkerInv, WorkerTyped, WTypeOK
<1>2. QED
  BY <1>1, WorkerInvariant, PTL

\* Over any sequence of restarts, expiries, cancellations and late answers, a run
\* is sent to the provider at most once, and a run that was sent keeps its bill.
THEOREM CalledAtMostOnce == WSpec => []CalledOnce
<1>1. WInv => CalledOnce
  BY DEF WInv, WorkerInv
<1>2. QED
  BY <1>1, WorkerInvariant, PTL

\* A worker that accepts work has a job for every live lease in its name.
THEOREM LeasesAlwaysTended == WSpec => []LeasesTended
<1>1. WInv => LeasesTended
  BY DEF WInv, WorkerInv
<1>2. QED
  BY <1>1, WorkerInvariant, PTL

\* The worker is a client of RunLifecycle: every behaviour of the process is a
\* behaviour of the rows under their transactions.
THEOREM WorkerUsesLifecycle == WSpec => UsesLifecycle
<1>1. WInit => Init
  BY DEF WInit
<1>2. WInv /\ [WNext]_vars => [Next]_dbVars
  BY StepUses
<1>3. QED
  BY <1>1, <1>2, WorkerInvariant, PTL DEF WSpec, Spec, UsesLifecycle

\* So whatever is proved of the rows holds with workers that crash and restart:
\* the rows keep the promise made to users.
THEOREM WorkerKeepsContract == WSpec => KeepsContract
BY WorkerUsesLifecycle, RunsKeepContract, PTL DEF UsesLifecycle

\* Only a claim starts a job.
LEMMA OnlyClaimsStart ==
    ASSUME WInv, [WNext]_vars, NEW r \in Runs, job'[r].phase = "starting"
    PROVE  job[r].phase = "starting" \/ TickClaims(r)
<1> USE DEF Verdict, StopJob, Drop, Idle, NewJob
<1>1. job \in Jobs
  BY DEF WInv, WorkerInv, WorkerTyped, Jobs, JobRecord
<1> USE DEF Jobs
<1>2. ASSUME NEW q \in Runs, TickClaims(q), q # r PROVE job[r].phase = "starting"
  BY <1>1, <1>2 DEF TickClaims
<1>3. ASSUME NEW q \in Runs, NEW a \in Attempts, StartJob(q, a) PROVE job[r].phase = "starting"
  BY <1>1, <1>3 DEF StartJob
<1>4. ASSUME NEW q \in Runs, StartMissed(q) \/ JobFails(q) \/ Invoke(q)
      PROVE  job[r].phase = "starting"
  BY <1>1, <1>4 DEF StartMissed, JobFails, Invoke, JobRecord
<1>5. ASSUME NEW q \in Runs,
             PreflightFails(q) \/ OutputLimit(q) \/ TimedOut(q) \/ ProviderFails(q)
               \/ ShutdownStops(q) \/ Finish(q)
      PROVE  job[r].phase = "starting"
  BY <1>1, <1>5 DEF PreflightFails, OutputLimit, TimedOut, ProviderFails, ShutdownStops, Finish
<1>6. ASSUME NEW q \in Runs, Chunk(q) PROVE job[r].phase = "starting"
  <2> DEFINE text == job[q].text + 1
  <2>1. \/ UNCHANGED job
        \/ job' = [job EXCEPT ![q].text = text]
        \/ job' = [job EXCEPT ![q].text = text, ![q].savedText = text]
        \/ job' = [job EXCEPT ![q] = Idle]
    BY <1>6 DEF Chunk
  <2>2. text \in 0..MaxText /\ job[q].phase = "calling"
    BY <1>6 DEF Chunk, WInv, WorkerInv, WorkerTyped
  <2>3. CASE job' = [job EXCEPT ![q].text = text]
    BY <2>2, <2>3 DEF WInv, WorkerInv, WorkerTyped
  <2>4. CASE job' = [job EXCEPT ![q].text = text, ![q].savedText = text]
    BY <2>2, <2>4 DEF WInv, WorkerInv, WorkerTyped
  <2>5. QED
    BY <1>1, <2>1, <2>3, <2>4
<1>7. ASSUME NEW q \in Runs, Heartbeat(q) \/ HeartbeatSaves(q) PROVE job[r].phase = "starting"
  BY <1>1, <1>7 DEF Heartbeat, HeartbeatSaves, workVars, JobRecord
<1>8. ASSUME NEW q \in Runs, Request(q) \/ Operator(q) PROVE job[r].phase = "starting"
  BY <1>8 DEF Request, Operator, workVars
<1>9. CASE TickRecovers \/ Maintain \/ Time \/ Boot \/ Shutdown \/ Exit \/ Crash \/ UNCHANGED vars
  BY <1>9 DEF TickRecovers, Maintain, Time, Boot, Shutdown, Exit, Crash, workVars, vars
<1>10. QED
  BY <1>2, <1>3, <1>4, <1>5, <1>6, <1>7, <1>8, <1>9 DEF WNext

\* Claiming never replaces a job that still runs: a claim takes a queued run, and
\* a run with a job in call has an attempt, so it has left the queue for good.
THEOREM JobsNeverOverlap == WSpec => NoOverlap
<1>1. ASSUME WInv, [WNext]_vars, NEW r \in Runs, job'[r].phase = "starting"
      PROVE  job[r].phase \in {"idle", "starting"}
  <2>1. InCall(r) => status[r] # "queued"
    <3>1. InCall(r) => job[r].token \in Attempts /\ attempt[job[r].token].run = r
      BY <1>1 DEF WInv, WorkerInv, JobExact
    <3>2. QED
      BY <1>1, <3>1, AttemptedRun DEF WInv, IInv, TypeOK
  <2>2. TickClaims(r) => status[r] = "queued"
    BY DEF TickClaims, Claim, Claimable
  <2>3. job[r].phase \in Phases
    BY <1>1 DEF WInv, WorkerInv, WorkerTyped
  <2>4. QED
    BY <1>1, <2>1, <2>2, <2>3, OnlyClaimsStart DEF InCall
<1>2. WInv /\ [WNext]_vars =>
        [\A r \in Runs : job'[r].phase = "starting" => job[r].phase \in {"idle", "starting"}]_vars
  BY <1>1
<1>3. QED
  BY <1>2, WorkerInvariant, PTL DEF WSpec, NoOverlap

-----------------------------------------------------------------------------
(* Text *)

Kept(r) == IF checkpoint[r] = None THEN 0 ELSE checkpoint[r]

\* A job knows what its run's checkpoint holds, and has not received much more.
TextExact(r) ==
    /\ job[r].savedText <= job[r].text /\ job[r].text - job[r].savedText < CheckpointChars
    /\ InCall(r) => Kept(r) = job[r].savedText /\ status[r] # "completed"
    /\ ~HasAttempt(r) => checkpoint[r] = None

TextInv == \A r \in Runs : TextExact(r)

\* What one step may do to the text kept for a run.
TextGrows(r) ==
    /\ checkpoint[r] # None /\ checkpoint'[r] # None => checkpoint'[r] >= checkpoint[r]
    /\ status'[r] \in {"completed", "failed"} /\ status'[r] # status[r] => checkpoint'[r] >= job[r].text

LEMMA TextTyped ==
    ASSUME WInv, NEW r \in Runs
    PROVE  /\ job[r].text \in Nat /\ job[r].text <= MaxText /\ job[r].savedText \in Nat
           /\ checkpoint[r] = None \/ checkpoint[r] \in Nat
           /\ InCall(r) => job[r].token \in Attempts /\ attempt[job[r].token].run = r
           /\ job[r].phase \in Phases
BY DEF WInv, IInv, TypeOK, WorkerInv, WorkerTyped, JobExact

\* A run whose checkpoint and verdict a step leaves alone.
LEMMA TextRests ==
    ASSUME WInv, TextInv, NEW r \in Runs, checkpoint'[r] = checkpoint[r],
           status'[r] \in {"completed", "failed"} => status'[r] = status[r],
           HasAttempt(r) => HasAttempt(r)',
           \/ job'[r].phase \in {"idle", "starting"} /\ job'[r].text = 0 /\ job'[r].savedText = 0
           \/ InCall(r) /\ job'[r].phase \in {"preparing", "calling"} /\ job'[r].savedText = job[r].savedText
              /\ job'[r].savedText <= job'[r].text /\ job'[r].text - job'[r].savedText < CheckpointChars
    PROVE  TextExact(r)' /\ TextGrows(r)
<1>1. TextExact(r)'
    BY TextTyped DEF TextInv, TextExact, InCall, Kept
<1>2. TextGrows(r)
    BY TextTyped DEF TextGrows
<1>3. QED
    BY <1>1, <1>2

\* A job that a step leaves alone, or that it drops, or one that was idle.
LEMMA TextQuiet ==
    ASSUME WInv, TextInv, NEW r \in Runs, checkpoint'[r] = checkpoint[r],
           status'[r] \in {"completed", "failed"} => status'[r] = status[r],
           HasAttempt(r) => HasAttempt(r)',
           job'[r] = job[r] \/ job'[r] = Idle
    PROVE  TextExact(r)' /\ TextGrows(r)
<1>1. CASE job'[r] = Idle
    BY <1>1, TextRests DEF Idle, NewJob
<1>2. CASE job'[r] = job[r] /\ InCall(r)
    BY <1>2, TextRests, TextTyped DEF TextInv, TextExact, InCall
<1>3. CASE job'[r] = job[r] /\ ~InCall(r)
  <2>1. TextExact(r)'
      BY <1>3 DEF TextInv, TextExact, InCall, Kept
  <2>2. TextGrows(r)
      BY TextTyped DEF TextGrows
  <2>3. QED
      BY <2>1, <2>2
<1>4. QED
    BY <1>1, <1>2, <1>3

\* Attempts are never forgotten.
LEMMA AttemptsStay ==
    ASSUME WInv, [WNext]_vars, NEW r \in Runs, HasAttempt(r)
    PROVE  HasAttempt(r)'
<1>1. PICK a \in Attempts : attempt[a].run = r
    BY DEF HasAttempt
<1>2. \/ UNCHANGED attempt
      \/ \E b \in Attempts : /\ attempt[b] = NoAttempt
                             /\ \E e \in [run : Runs \cup {None}, worker : Workers \cup {None}, outcome : Outcomes] :
                                    attempt' = [attempt EXCEPT ![b] = e]
      \/ \E b \in Attempts, end \in Outcomes : attempt' = [attempt EXCEPT ![b].outcome = end]
      \/ RecoverStale
  <2>1. [Next]_dbVars
      BY StepUses
  <2>2. ASSUME NEW w \in Workers, NEW q \in Runs, NEW b \in Attempts, StartAttempt(w, q, b)
        PROVE  /\ attempt[b] = NoAttempt
               /\ \E e \in [run : Runs \cup {None}, worker : Workers \cup {None}, outcome : Outcomes] :
                      attempt' = [attempt EXCEPT ![b] = e]
      BY <2>2 DEF StartAttempt
  <2>3. ASSUME NEW b \in Attempts, NEW text \in Texts, NEW reason \in StopReasons, StopAttempt(b, text, reason)
        PROVE  \E end \in Outcomes : attempt' = [attempt EXCEPT ![b].outcome = end]
      BY <2>3 DEF StopAttempt
  <2>4. ASSUME NEW b \in Attempts, NEW text \in Texts, NEW usage \in BOOLEAN, CompleteAttempt(b, text, usage)
        PROVE  \E end \in Outcomes : attempt' = [attempt EXCEPT ![b].outcome = end]
      BY <2>4 DEF CompleteAttempt
  <2>5. QED
      BY <2>1, <2>2, <2>3, <2>4
      DEF Next, dbVars, Submit, CancelRun, ReconcileCost, Claim, RenewAttempt, SaveCheckpoint, PruneCheckpoints, Tick
<1>3. attempt'[a].run = attempt[a].run
  <2>0. attempt \in [Attempts -> [run : Runs \cup {None}, worker : Workers \cup {None}, outcome : Outcomes]]
      BY DEF WInv, IInv, TypeOK
  <2>1. ASSUME NEW b \in Attempts, attempt[b] = NoAttempt,
               NEW e \in [run : Runs \cup {None}, worker : Workers \cup {None}, outcome : Outcomes],
               attempt' = [attempt EXCEPT ![b] = e]
        PROVE  attempt'[a] = attempt[a]
      BY <1>1, <2>0, <2>1 DEF NoAttempt
  <2>2. ASSUME NEW b \in Attempts, NEW end \in Outcomes, attempt' = [attempt EXCEPT ![b].outcome = end]
        PROVE  attempt'[a].run = attempt[a].run
      BY <2>0, <2>2
  <2>3. CASE RecoverStale
      BY <2>0, <2>3 DEF RecoverStale
  <2>4. QED
      BY <1>2, <2>1, <2>2, <2>3
<1>4. QED
    BY <1>1, <1>3 DEF HasAttempt

\* A checkpoint is never shorter than the one before it.
LEMMA TextSaved ==
    ASSUME WInv, TextInv, [WNext]_vars, NEW r \in Runs, InCall(r), NEW text \in 0..MaxText, text >= job[r].text,
           SaveCheckpoint(job[r].token, text),
           job' = [job EXCEPT ![r].text = text, ![r].savedText = text]
           \/ (text = job[r].text /\ job' = [job EXCEPT ![r].savedText = text])
    PROVE  \A q \in Runs : TextExact(q)' /\ TextGrows(q)
<1>1. job \in Jobs /\ checkpoint \in [Runs -> Texts \cup {None}]
    BY DEF WInv, IInv, TypeOK, WorkerInv, WorkerTyped, Jobs, JobRecord
<1>2. checkpoint' = [checkpoint EXCEPT ![r] = text] /\ UNCHANGED status /\ UNCHANGED attempt
    BY TextTyped DEF SaveCheckpoint
<1>3. job'[r].text = text /\ job'[r].savedText = text /\ job'[r].phase = job[r].phase
    BY <1>1 DEF Jobs, JobRecord
<1>4. text \in Nat /\ text # None /\ checkpoint'[r] = text
    BY <1>1, <1>2
<1>5. TextExact(r)'
  <2>1. HasAttempt(r)'
      BY <1>2, TextTyped DEF HasAttempt
  <2>2. Kept(r)' = text /\ status'[r] # "completed"
      BY <1>2, <1>4 DEF Kept, TextInv, TextExact
  <2>3. text <= text /\ text - text < CheckpointChars
      BY <1>4
  <2>4. QED
      BY <1>3, <2>1, <2>2, <2>3 DEF TextExact
<1>6. TextGrows(r)
    BY <1>2, <1>4, TextTyped DEF TextInv, TextExact, Kept, TextGrows
<1>7. ASSUME NEW q \in Runs, q # r
      PROVE  TextExact(q)' /\ TextGrows(q)
  <2>1. checkpoint'[q] = checkpoint[q] /\ job'[q] = job[q] /\ status'[q] = status[q]
      BY <1>1, <1>2, <1>7 DEF Jobs
  <2>2. QED
      BY <2>1, TextQuiet, AttemptsStay
<1>8. QED
    BY <1>5, <1>6, <1>7

\* A verdict keeps all the text its job received.
LEMMA TextStopped ==
    ASSUME WInv, TextInv, [WNext]_vars, NEW r \in Runs, InCall(r), NEW text \in 0..MaxText, text >= job[r].text,
           NEW reason \in StopReasons, StopJob(r, text, reason)
    PROVE  \A q \in Runs : TextExact(q)' /\ TextGrows(q)
<1>1. job \in Jobs /\ checkpoint \in [Runs -> Texts \cup {None}] /\ status \in [Runs -> Statuses]
    BY DEF WInv, IInv, TypeOK, WorkerInv, WorkerTyped, Jobs, JobRecord
<1>2. job'[r] = Idle /\ \A q \in Runs \ {r} : job'[q] = job[q]
    BY <1>1 DEF StopJob, Drop, Jobs
<1>3. CASE StopAttempt(job[r].token, text, reason)
  <2>1. PICK end \in {"cancelled", "interrupted", "failed"} :
            checkpoint' = [checkpoint EXCEPT ![r] = text] /\ status' = [status EXCEPT ![r] = end]
      BY <1>3, TextTyped DEF StopAttempt
  <2>2. checkpoint'[r] = text /\ text \in Nat /\ text # None
      BY <1>1, <2>1
  <2>3. OwnedAttempt(job[r].token) /\ HasAttempt(r)
      BY <1>3, TextTyped DEF StopAttempt, HasAttempt
  <2>4. TextExact(r)'
      BY <1>2, <2>2, <2>3, AttemptsStay DEF TextExact, Idle, NewJob, InCall
  <2>5. TextGrows(r)
      BY <2>2, TextTyped DEF TextInv, TextExact, Kept, TextGrows
  <2>6. ASSUME NEW q \in Runs, q # r
        PROVE  TextExact(q)' /\ TextGrows(q)
    <3>1. checkpoint'[q] = checkpoint[q] /\ job'[q] = job[q] /\ status'[q] = status[q]
        BY <1>1, <1>2, <2>1, <2>6
    <3>2. QED
        BY <3>1, TextQuiet, AttemptsStay
  <2>7. QED
      BY <2>4, <2>5, <2>6
<1>4. CASE RecoverStale \/ UNCHANGED dbVars
  <2>1. ASSUME NEW q \in Runs
        PROVE  /\ checkpoint'[q] = checkpoint[q] /\ (status'[q] \in {"completed", "failed"} => status'[q] = status[q])
               /\ job'[q] = job[q] \/ job'[q] = Idle
      BY <1>1, <1>2, <1>4, RecoveredTyped DEF RecoverStale, Stale, dbVars
  <2>2. QED
      BY <2>1, TextQuiet, AttemptsStay
<1>5. QED
    BY <1>3, <1>4 DEF StopJob

\* A chunk that is not yet worth a checkpoint.
JobGrows(r) ==
    /\ Chunk(r) /\ UNCHANGED dbVars
    /\ job' = [job EXCEPT ![r].text = job[r].text + 1]
    /\ (job[r].text + 1) - job[r].savedText < CheckpointChars

LEMMA TextStep ==
    ASSUME WInv, TextInv, [WNext]_vars
    PROVE  \A r \in Runs : TextExact(r)' /\ TextGrows(r)
<1> USE DEF Verdict
<1>0. /\ job \in Jobs /\ checkpoint \in [Runs -> Texts \cup {None}] /\ status \in [Runs -> Statuses]
      /\ \A r \in Runs : InCall(r) => job[r].token \in Attempts /\ attempt[job[r].token].run = r
      /\ \A r \in Runs : job[r].text \in 0..MaxText
    BY DEF WInv, IInv, TypeOK, WorkerInv, WorkerTyped, JobExact, Jobs, JobRecord
<1>1. ASSUME \A r \in Runs : /\ checkpoint'[r] = checkpoint[r]
                             /\ status'[r] \in {"completed", "failed"} => status'[r] = status[r]
                             /\ job'[r] = job[r] \/ job'[r] = Idle
      PROVE  \A r \in Runs : TextExact(r)' /\ TextGrows(r)
    BY <1>1, TextQuiet, AttemptsStay
<1>2. ASSUME NEW r \in Runs, TickClaims(r)
      PROVE  \A q \in Runs : TextExact(q)' /\ TextGrows(q)
  <2>1. /\ job' = [job EXCEPT ![r] = NewJob("starting", None)]
        /\ status' = [status EXCEPT ![r] = "claimed"] /\ UNCHANGED checkpoint
      BY <1>2 DEF TickClaims, Claim
  <2>2. TextExact(r)' /\ TextGrows(r)
      BY <1>0, <2>1, TextRests, AttemptsStay DEF NewJob, Jobs
  <2>3. ASSUME NEW q \in Runs, q # r
        PROVE  TextExact(q)' /\ TextGrows(q)
    <3>1. checkpoint'[q] = checkpoint[q] /\ job'[q] = job[q] /\ status'[q] = status[q]
        BY <1>0, <2>1, <2>3 DEF Jobs
    <3>2. QED
        BY <3>1, TextQuiet, AttemptsStay
  <2>4. QED
      BY <2>2, <2>3
<1>3. ASSUME NEW r \in Runs, NEW a \in Attempts, StartJob(r, a)
      PROVE  \A q \in Runs : TextExact(q)' /\ TextGrows(q)
  <2>1. /\ job' = [job EXCEPT ![r] = NewJob("preparing", a)] /\ status[r] = "claimed"
        /\ status' = [status EXCEPT ![r] = "running"] /\ UNCHANGED checkpoint
        /\ attempt' = [attempt EXCEPT ![a] = [run |-> r, worker |-> process, outcome |-> "open"]]
      BY <1>3 DEF StartJob, StartAttempt
  <2>2. ~HasAttempt(r)
      BY <2>1 DEF WInv, IInv, OneAttempt, HasAttempt, Exact, TypeOK
  <2>3. checkpoint[r] = None
      BY <2>2 DEF TextInv, TextExact
  <2>4. HasAttempt(r)'
      BY <2>1 DEF HasAttempt, WInv, IInv, TypeOK
  <2>5. TextExact(r)' /\ TextGrows(r)
      BY <1>0, <2>1, <2>3, <2>4 DEF TextExact, TextGrows, Kept, NewJob, Jobs, InCall
  <2>6. ASSUME NEW q \in Runs, q # r
        PROVE  TextExact(q)' /\ TextGrows(q)
    <3>1. checkpoint'[q] = checkpoint[q] /\ job'[q] = job[q] /\ status'[q] = status[q]
        BY <1>0, <2>1, <2>6 DEF Jobs
    <3>2. QED
        BY <3>1, TextQuiet, AttemptsStay
  <2>7. QED
      BY <2>5, <2>6
<1>4. ASSUME NEW r \in Runs, StartMissed(r) \/ JobFails(r)
      PROVE  \A q \in Runs : TextExact(q)' /\ TextGrows(q)
    BY <1>0, <1>1, <1>4 DEF StartMissed, JobFails, Drop, dbVars, Jobs
<1>5. ASSUME NEW r \in Runs, Invoke(r) \/ JobGrows(r)
      PROVE  \A q \in Runs : TextExact(q)' /\ TextGrows(q)
  <2>1. UNCHANGED <<checkpoint, status>> /\ InCall(r)
      BY <1>5 DEF Invoke, JobGrows, Chunk, dbVars, InCall
  <2>2. /\ job'[r].phase = "calling" /\ job'[r].savedText = job[r].savedText
        /\ job'[r].savedText <= job'[r].text /\ job'[r].text - job'[r].savedText < CheckpointChars
    <3>1. job[r] \in JobRecord /\ job[r].text \in Nat /\ job[r].savedText \in Nat /\ TextExact(r)
        BY <1>0, TextTyped DEF Jobs, TextInv
    <3>2. CASE Invoke(r)
      <4>1. job'[r] = [job[r] EXCEPT !.phase = "calling"]
          BY <1>0, <3>2 DEF Invoke, Jobs
      <4>2. QED
          BY <3>1, <4>1 DEF JobRecord, TextExact
    <3>3. CASE JobGrows(r)
      <4>1. job'[r] = [job[r] EXCEPT !.text = job[r].text + 1] /\ job[r].phase = "calling"
          BY <1>0, <3>3 DEF JobGrows, Chunk, Jobs
      <4>2. job'[r].phase = "calling" /\ job'[r].savedText = job[r].savedText /\ job'[r].text = job[r].text + 1
          BY <3>1, <4>1 DEF JobRecord
      <4>3. QED
          BY <3>1, <3>3, <4>2 DEF JobGrows, TextExact
    <3>4. QED
        BY <1>5, <3>2, <3>3
  <2>3. TextExact(r)' /\ TextGrows(r)
      BY <2>1, <2>2, TextRests, AttemptsStay
  <2>4. ASSUME NEW q \in Runs, q # r
        PROVE  TextExact(q)' /\ TextGrows(q)
    <3>1. checkpoint'[q] = checkpoint[q] /\ job'[q] = job[q] /\ status'[q] = status[q]
        BY <1>0, <1>5, <2>1, <2>4 DEF Invoke, JobGrows, Jobs
    <3>2. QED
        BY <3>1, TextQuiet, AttemptsStay
  <2>5. QED
      BY <2>3, <2>4
<1>6. ASSUME NEW r \in Runs, Chunk(r)
      PROVE  \A q \in Runs : TextExact(q)' /\ TextGrows(q)
  <2> DEFINE text == job[r].text + 1
  <2>1. text \in 0..MaxText /\ text >= job[r].text /\ InCall(r)
      BY <1>0, <1>6 DEF Chunk, InCall
  <2>2. CASE /\ text - job[r].savedText < CheckpointChars
             /\ job' = [job EXCEPT ![r].text = text] /\ UNCHANGED dbVars
    <3>a. job' = [job EXCEPT ![r].text = job[r].text + 1]
        BY <2>2
    <3>b. (job[r].text + 1) - job[r].savedText < CheckpointChars
        BY <2>2
    <3>c. UNCHANGED dbVars
        BY <2>2
    <3>1. JobGrows(r)
        BY <1>6, <3>a, <3>b, <3>c DEF JobGrows
    <3>2. QED
        BY <1>5, <3>1
  <2>3. CASE SaveCheckpoint(job[r].token, text) /\ job' = [job EXCEPT ![r].text = text, ![r].savedText = text]
      BY <2>1, <2>3, TextSaved
  <2>4. CASE StopJob(r, text, "provider")
      BY <2>1, <2>4, TextStopped
  <2>5. QED
      BY <1>6, <2>2, <2>3, <2>4 DEF Chunk
<1>7. ASSUME NEW r \in Runs,
             PreflightFails(r) \/ OutputLimit(r) \/ TimedOut(r) \/ ProviderFails(r) \/ ShutdownStops(r)
      PROVE  \A q \in Runs : TextExact(q)' /\ TextGrows(q)
  <2>1. InCall(r) /\ job[r].text \in 0..MaxText /\ job[r].text >= job[r].text
      BY <1>0, <1>7 DEF PreflightFails, OutputLimit, TimedOut, ProviderFails, ShutdownStops, InCall
  <2>2. \E reason \in StopReasons : StopJob(r, job[r].text, reason)
      BY <1>7 DEF PreflightFails, OutputLimit, TimedOut, ProviderFails, ShutdownStops
  <2>3. QED
      BY <2>1, <2>2, TextStopped
<1>8. ASSUME NEW r \in Runs, Heartbeat(r)
      PROVE  \A q \in Runs : TextExact(q)' /\ TextGrows(q)
  <2>1. CASE RenewAttempt(job[r].token) /\ UNCHANGED workVars
      BY <1>1, <2>1 DEF RenewAttempt, workVars
  <2>2. CASE StopJob(r, job[r].text, "provider")
      BY <1>0, <1>8, <2>2, TextStopped DEF Heartbeat
  <2>3. QED
      BY <1>8, <2>1, <2>2 DEF Heartbeat
<1>9. ASSUME NEW r \in Runs, HeartbeatSaves(r)
      PROVE  \A q \in Runs : TextExact(q)' /\ TextGrows(q)
  <2>1. InCall(r) /\ SaveCheckpoint(job[r].token, job[r].text) /\ job' = [job EXCEPT ![r].savedText = job[r].text]
      BY <1>9 DEF HeartbeatSaves
  <2>2. PICK text \in 0..MaxText : text = job[r].text
      BY <1>0
  <2>3. text >= job[r].text
      BY <2>2
  <2>4. SaveCheckpoint(job[r].token, text) /\ job' = [job EXCEPT ![r].savedText = text]
      BY <2>1, <2>2
  <2>5. QED
      BY <2>1, <2>2, <2>3, <2>4, TextSaved
<1>10. ASSUME NEW r \in Runs, Finish(r)
       PROVE  \A q \in Runs : TextExact(q)' /\ TextGrows(q)
  <2>1. InCall(r) /\ job[r].text \in Nat
      BY <1>0, <1>10 DEF Finish, InCall
  <2>2. CASE (\E usage \in BOOLEAN : CompleteAttempt(job[r].token, job[r].text, usage)) /\ Drop(r)
    <3>1. /\ checkpoint' = [checkpoint EXCEPT ![r] = job[r].text] /\ status' = [status EXCEPT ![r] = "completed"]
          /\ job' = [job EXCEPT ![r] = Idle]
        BY <1>0, <2>1, <2>2 DEF CompleteAttempt, Drop
    <3>2. checkpoint'[r] = job[r].text /\ job'[r] = Idle /\ job[r].text # None
        BY <1>0, <2>1, <3>1 DEF Jobs
    <3>3. HasAttempt(r)
        BY <1>0, <2>1 DEF HasAttempt
    <3>4. TextExact(r)' /\ TextGrows(r)
        BY <2>1, <3>2, <3>3, AttemptsStay, TextTyped DEF TextInv, TextExact, Kept, TextGrows, Idle, NewJob, InCall
    <3>5. ASSUME NEW q \in Runs, q # r
          PROVE  TextExact(q)' /\ TextGrows(q)
      <4>1. checkpoint'[q] = checkpoint[q] /\ job'[q] = job[q] /\ status'[q] = status[q]
          BY <1>0, <3>1, <3>5 DEF Jobs
      <4>2. QED
          BY <4>1, TextQuiet, AttemptsStay
    <3>6. QED
        BY <3>4, <3>5
  <2>3. CASE StopJob(r, job[r].text, "provider")
      BY <1>0, <2>1, <2>3, TextStopped
  <2>4. QED
      BY <1>10, <2>2, <2>3 DEF Finish
<1>11. ASSUME NEW r \in Runs, Request(r) \/ Operator(r)
       PROVE  \A q \in Runs : TextExact(q)' /\ TextGrows(q)
    BY <1>0, <1>1, <1>11 DEF Request, Operator, Submit, CancelRun, ReconcileCost, workVars
<1>12. CASE TickRecovers \/ Time \/ Boot \/ Shutdown \/ Exit \/ UNCHANGED vars
  <2>1. ASSUME NEW q \in Runs
        PROVE  checkpoint'[q] = checkpoint[q] /\ (status'[q] \in {"completed", "failed"} => status'[q] = status[q])
               /\ job'[q] = job[q]
      BY <1>0, <1>12, RecoveredTyped
      DEF TickRecovers, RecoverStale, Stale, Time, Tick, Boot, Shutdown, Exit, vars, workVars, dbVars
  <2>2. QED
      BY <1>1, <2>1
<1>13. CASE Crash
    BY <1>1, <1>13 DEF Crash, dbVars
<1>14. CASE Maintain
  <2>1. PICK S \in SUBSET Runs : PruneCheckpoints(S)
      BY <1>14 DEF Maintain
  <2>2. UNCHANGED <<job, status, attempt>>
      BY <1>14, <2>1 DEF Maintain, workVars, PruneCheckpoints
  <2>3. ASSUME NEW q \in Runs, q \notin S
        PROVE  TextExact(q)' /\ TextGrows(q)
    <3>1. checkpoint'[q] = checkpoint[q]
        BY <2>1, <2>3 DEF PruneCheckpoints
    <3>2. QED
        BY <2>2, <3>1, TextQuiet, AttemptsStay
  <2>4. ASSUME NEW q \in S
        PROVE  TextExact(q)' /\ TextGrows(q)
    <3>1. checkpoint'[q] = None /\ status[q] = "completed"
        BY <2>1 DEF PruneCheckpoints
    <3>2. ~InCall(q)
        BY <3>1 DEF TextInv, TextExact
    <3>3. QED
        BY <2>2, <3>1, <3>2 DEF TextInv, TextExact, TextGrows, InCall
  <2>5. QED
      BY <2>3, <2>4
<1>15. QED
    BY <1>2, <1>3, <1>4, <1>5, <1>6, <1>7, <1>8, <1>9, <1>10, <1>11, <1>12, <1>13, <1>14 DEF WNext

LEMMA TextInvariant == WSpec => [](WInv /\ TextInv)
<1>1. WInit => TextInv
  <2> SUFFICES ASSUME WInit, NEW r \in Runs PROVE TextExact(r)
      BY DEF TextInv
  <2>1. job[r] = Idle /\ checkpoint[r] = None
      BY DEF WInit, Init
  <2>2. QED
      BY <2>1 DEF TextExact, Idle, NewJob, InCall
<1>2. WInv /\ TextInv /\ [WNext]_vars => TextInv'
    BY TextStep DEF TextInv
<1>3. QED
    BY <1>1, <1>2, WorkerInvariant, PTL DEF WSpec

\* A crash loses less than one checkpoint's worth of a run's text (worker.ts:271-330).
THEOREM TextAlwaysSafe == WSpec => []TextSafe
<1>1. WInv /\ TextInv => TextSafe
  <2> SUFFICES ASSUME WInv, TextInv, NEW r \in Runs, InCall(r)
               PROVE  Kept(r) <= job[r].text /\ job[r].text - Kept(r) < CheckpointChars
      BY DEF TextSafe, Kept
  <2>1. QED
      BY DEF TextInv, TextExact
<1>2. QED
    BY <1>1, TextInvariant, PTL

\* The text kept for a run never gets shorter, and a verdict keeps all its worker had received.
THEOREM TextAlwaysKept == WSpec => TextKept
<1>1. WInv /\ TextInv /\ [WNext]_vars => [\A r \in Runs :
          /\ checkpoint[r] # None /\ checkpoint'[r] # None => checkpoint'[r] >= checkpoint[r]
          /\ status'[r] \in {"completed", "failed"} /\ status'[r] # status[r] =>
                 checkpoint'[r] >= job[r].text]_vars
    BY TextStep DEF TextGrows
<1>2. QED
    BY <1>1, TextInvariant, PTL DEF WSpec, TextKept

=============================================================================
