------------------------------- MODULE RunWorker -------------------------------
(***************************************************************************)
(* The worker process that executes runs: server/jobs/worker.ts, wired to  *)
(* a model by server/app/main.ts, over the transactions of RunLifecycle.   *)
(*                                                                         *)
(* A deployment stops the old process before it starts the next one, so    *)
(* processes follow each other.  One process is one event loop: an action  *)
(* is what one callback does up to its last await, so a job that learns of *)
(* its abort stops in the same step.  Two awaits leave a visible gap, and  *)
(* there the process may die: between claiming a run and starting it, and  *)
(* between the jobs that a shutdown stops one after another.               *)
(*                                                                         *)
(* Text is its length: Texts is 0..MaxText.                                *)
(***************************************************************************)
EXTENDS RunLifecycle

CONSTANTS
    Starts,           \* bound on the processes started: Workers is 1..Starts
    Concurrency,      \* WORKER_CONCURRENCY
    MaxText,          \* the character limit of an artifact
    CheckpointChars   \* CHECKPOINT_CHARACTERS

ASSUME WorkersAssumption == Starts \in Nat \ {0} /\ Workers = 1..Starts
ASSUME TextsAssumption == MaxText \in Nat /\ Texts = 0..MaxText
ASSUME ConcurrencyAssumption == Concurrency \in Nat \ {0} /\ CheckpointChars \in Nat \ {0}

VARIABLES
    process,  \* the identity of the current process, 0 before the first
    mode,     \* "down", "up", or "stopping" once it has stopped claiming
    job,      \* the active map: what the process is doing for each run
    calls     \* how often each run was sent to the provider, over all processes

workVars == <<process, mode, job, calls>>
vars     == <<dbVars, workVars>>

\* A job holds its attempt and its text in memory only.  savedText is the length
\* of the text it last checkpointed.
Phases == {"idle", "starting", "preparing", "calling"}
NewJob(phase, a) == [phase |-> phase, token |-> a, text |-> 0, savedText |-> 0]
Idle == NewJob("idle", None)

Busy(r)   == job[r].phase # "idle"
InCall(r) == job[r].phase \in {"preparing", "calling"}

WTypeOK ==
    /\ TypeOK
    /\ process \in 0..Starts
    /\ mode \in {"down", "up", "stopping"}
    /\ job \in [Runs -> [phase : Phases, token : Attempts \cup {None},
                         text : 0..MaxText, savedText : 0..MaxText]]
    /\ calls \in [Runs -> 0..2]

WInit ==
    /\ Init
    /\ process = 0
    /\ mode = "down"
    /\ job = [r \in Runs |-> Idle]
    /\ calls = [r \in Runs |-> 0]

\* The event loop is between callbacks.  A claimed run is started in the callback
\* that claimed it, and the jobs a shutdown aborts all stop before anything else.
LoopFree ==
    /\ mode # "down"
    /\ \A r \in Runs : job[r].phase # "starting"
    /\ mode = "stopping" => \A r \in Runs : ~Busy(r)

-----------------------------------------------------------------------------
(* Stopping a job *)

Drop(r) == job' = [job EXCEPT ![r] = Idle]

\* Fault: a verdict keeps only the text of the last checkpoint.
StopJobSaved(r, text, reason) ==
    LET a == job[r].token IN
    /\ \/ StopAttempt(a, job[r].savedText, reason)
       \/ /\ ~OwnedAttempt(a)
          /\ \/ RecoverStale
             \/ (\A q \in Runs : ~Stale(q)) /\ UNCHANGED dbVars
    /\ Drop(r)
    /\ UNCHANGED <<process, calls>>

\* The end of every job that did not complete: record the verdict, or, when the
\* run is no longer owned, recover whatever has expired.
StopJob(r, text, reason) ==
    LET a == job[r].token IN
    /\ \/ StopAttempt(a, text, reason)
       \/ /\ ~OwnedAttempt(a)
          /\ \/ RecoverStale
             \/ (\A q \in Runs : ~Stale(q)) /\ UNCHANGED dbVars
    /\ Drop(r)
    /\ UNCHANGED <<process, calls>>

\* What stops a job from outside the provider call: a timer, the heartbeat of a
\* run that was cancelled or lost, or the provider itself.
Verdict(r, text, reason) == LoopFree /\ mode = "up" /\ StopJob(r, text, reason) /\ UNCHANGED mode

-----------------------------------------------------------------------------
(* Claiming *)

\* A tick first recovers what has expired, then claims while there is room.  Each
\* recovery and each claim is a transaction of its own.
TickRecovers ==
    /\ mode = "up" /\ LoopFree
    /\ RecoverStale
    /\ UNCHANGED workVars

TickClaims(r) ==
    /\ mode = "up" /\ LoopFree
    /\ Cardinality({q \in Runs : Busy(q)}) < Concurrency
    /\ Claim(process, r)
    /\ job' = [job EXCEPT ![r] = NewJob("starting", None)]
    /\ UNCHANGED <<process, mode, calls>>

\* The claimed run becomes running under a new attempt.
StartJob(r, a) ==
    /\ job[r].phase = "starting"
    /\ StartAttempt(process, r, a)
    /\ job' = [job EXCEPT ![r] = NewJob("preparing", a)]
    /\ UNCHANGED <<process, mode, calls>>

\* The lease ran out between the two transactions: the job is dropped, and a later
\* tick returns the run to the queue.
StartMissed(r) ==
    /\ job[r].phase = "starting"
    /\ ~(status[r] = "claimed" /\ leaseOwner[r] = process /\ leaseLeft[r] > 0)
    /\ Drop(r)
    /\ UNCHANGED <<dbVars, process, mode, calls>>

-----------------------------------------------------------------------------
(* Executing *)

\* The inputs could not be prepared: known to precede any provider call.
PreflightFails(r) ==
    /\ job[r].phase = "preparing"
    /\ Verdict(r, job[r].text, "preflight")

\* The provider is called: the last look at the abort signal is just before.
Invoke(r) ==
    /\ mode = "up" /\ LoopFree
    /\ job[r].phase = "preparing"
    /\ job' = [job EXCEPT ![r].phase = "calling"]
    /\ calls' = [calls EXCEPT ![r] = @ + 1]
    /\ UNCHANGED <<dbVars, process, mode>>

\* Fault: the checkpoint threshold is passed before it is noticed.
ChunkLate(r) ==
    LET text == job[r].text + 1 IN
    /\ mode = "up" /\ LoopFree
    /\ job[r].phase = "calling" /\ text <= MaxText
    /\ text - job[r].savedText <= CheckpointChars
    /\ job' = [job EXCEPT ![r].text = text]
    /\ UNCHANGED <<dbVars, process, mode, calls>>

\* A chunk arrives.  It is checkpointed when enough text, or enough time, has
\* passed since the last checkpoint; a run no longer owned stops the job.
Chunk(r) ==
    LET text == job[r].text + 1 IN
    /\ mode = "up" /\ LoopFree
    /\ job[r].phase = "calling" /\ text <= MaxText
    /\ \/ /\ text - job[r].savedText < CheckpointChars
          /\ job' = [job EXCEPT ![r].text = text]
          /\ UNCHANGED <<dbVars, process, mode, calls>>
       \/ /\ SaveCheckpoint(job[r].token, text)
          /\ job' = [job EXCEPT ![r].text = text, ![r].savedText = text]
          /\ UNCHANGED <<process, mode, calls>>
       \/ /\ ~RunningAttempt(job[r].token)
          /\ Verdict(r, text, "provider")

\* The next chunk would pass the character limit.
OutputLimit(r) ==
    /\ job[r].phase = "calling" /\ job[r].text = MaxText
    /\ Verdict(r, job[r].text, "output_limit")

\* The heartbeat renews the lease; a run that was cancelled or lost is stopped.
Heartbeat(r) ==
    /\ InCall(r)
    /\ \/ /\ mode = "up" /\ LoopFree
          /\ RenewAttempt(job[r].token)
          /\ UNCHANGED workVars
       \/ /\ ~RunningAttempt(job[r].token)
          /\ Verdict(r, job[r].text, "provider")

\* Fault: the heartbeat writes text without the fence.
HeartbeatSavesUnfenced(r) ==
    /\ mode = "up" /\ LoopFree
    /\ InCall(r) /\ job[r].text # job[r].savedText
    /\ checkpoint' = [checkpoint EXCEPT ![r] = job[r].text]
    /\ job' = [job EXCEPT ![r].savedText = job[r].text]
    /\ UNCHANGED <<status, created, leaseOwner, leaseLeft, failure, attempt, cost, output>>
    /\ UNCHANGED <<process, mode, calls>>

\* A heartbeat that has just renewed also checkpoints text grown old.
HeartbeatSaves(r) ==
    /\ mode = "up" /\ LoopFree
    /\ InCall(r) /\ job[r].text # job[r].savedText
    /\ SaveCheckpoint(job[r].token, job[r].text)
    /\ job' = [job EXCEPT ![r].savedText = job[r].text]
    /\ UNCHANGED <<process, mode, calls>>

\* The idle and the total timer.
TimedOut(r) ==
    /\ InCall(r)
    /\ \E reason \in {"stalled", "deadline"} : Verdict(r, job[r].text, reason)

\* Fault: any error before the first chunk counts as a preparation failure.
ProviderFailsAsPreflight(r) ==
    /\ job[r].phase = "calling"
    /\ Verdict(r, job[r].text, IF job[r].text = 0 THEN "preflight" ELSE "provider")

\* The provider fails, or what it is to be sent cannot be read back from the database: the error
\* need not be preceded by a call.
ProviderFails(r) ==
    /\ InCall(r)
    /\ Verdict(r, job[r].text, "provider")

\* The provider confirms success with all the text it streamed.
Finish(r) ==
    /\ job[r].phase = "calling"
    /\ \/ /\ mode = "up" /\ LoopFree
          /\ \E usage \in BOOLEAN : CompleteAttempt(job[r].token, job[r].text, usage)
          /\ Drop(r)
          /\ UNCHANGED <<process, mode, calls>>
       \/ /\ ~RunningAttempt(job[r].token)
          /\ Verdict(r, job[r].text, "provider")

-----------------------------------------------------------------------------
(* The process *)

Boot ==
    /\ mode = "down" /\ process < Starts
    /\ mode' = "up" /\ process' = process + 1
    /\ UNCHANGED <<dbVars, job, calls>>

\* A signal, or an infrastructure failure: claiming stops and every job is aborted.
\* The last process of the bound keeps running.
Shutdown ==
    /\ mode = "up" /\ LoopFree /\ process < Starts
    /\ mode' = "stopping"
    /\ UNCHANGED <<dbVars, process, job, calls>>

ShutdownStops(r) ==
    /\ mode = "stopping" /\ InCall(r)
    /\ StopJob(r, job[r].text, "shutdown")
    /\ UNCHANGED mode

\* Fault: a failed transaction ends the job and the worker carries on.
JobFailsQuietly(r) ==
    /\ Busy(r) /\ process < Starts
    /\ Drop(r)
    /\ UNCHANGED <<dbVars, process, mode, calls>>

\* The database refuses the transaction that would start or stop the job: the job
\* ends with nothing recorded and the worker fails.
JobFails(r) ==
    /\ Busy(r) /\ process < Starts
    /\ \A q \in Runs \ {r} : job[q].phase # "starting"
    /\ mode' = "stopping"
    /\ Drop(r)
    /\ UNCHANGED <<dbVars, process, calls>>

Exit ==
    /\ mode = "stopping" /\ \A r \in Runs : ~Busy(r)
    /\ mode' = "down"
    /\ UNCHANGED <<dbVars, process, job, calls>>

\* The process is killed between any two of its steps; memory is lost.
Crash ==
    /\ mode # "down" /\ process < Starts
    /\ mode' = "down"
    /\ job' = [r \in Runs |-> Idle]
    /\ UNCHANGED <<dbVars, process, calls>>

-----------------------------------------------------------------------------
(* Around the worker *)

\* Requests and maintenance are served by the same process.
Request(r) == LoopFree /\ (Submit(r) \/ CancelRun(r)) /\ UNCHANGED workVars
Maintain   == LoopFree /\ (\E S \in SUBSET Runs : PruneCheckpoints(S)) /\ UNCHANGED workVars

\* The operator's script is a process of its own.
Operator(r) == ReconcileCost(r) /\ UNCHANGED workVars

Time == Tick /\ UNCHANGED workVars

WNext ==
    \/ \E r \in Runs :
          \/ TickClaims(r) \/ StartMissed(r) \/ \E a \in Attempts : StartJob(r, a)
          \/ PreflightFails(r) \/ Invoke(r) \/ Chunk(r) \/ OutputLimit(r)
          \/ Heartbeat(r) \/ HeartbeatSaves(r) \/ TimedOut(r)
          \/ ProviderFails(r) \/ Finish(r)
          \/ ShutdownStops(r) \/ JobFails(r)
          \/ Request(r) \/ Operator(r)
    \/ TickRecovers \/ Boot \/ Shutdown \/ Exit \/ Crash \/ Maintain \/ Time

WSpec == WInit /\ [][WNext]_vars

\* The supervisor starts a process whenever none runs, the event loop runs every
\* timer that is due and drains what a shutdown aborted, the total timer bounds
\* every job, and time passes.  Claiming and starting are two adjacent
\* statements, so a lease cannot run out between them forever.
Fairness ==
    /\ WF_vars(Boot) /\ WF_vars(Exit) /\ WF_vars(TickRecovers) /\ WF_vars(Time)
    /\ WF_vars(\E r \in Runs : TickClaims(r))
    /\ \A r \in Runs :
          /\ WF_vars(StartMissed(r)) /\ SF_vars(\E a \in Attempts : StartJob(r, a))
          /\ WF_vars(TimedOut(r)) /\ WF_vars(ShutdownStops(r))

FairSpec == WSpec /\ Fairness

-----------------------------------------------------------------------------
(* Safety *)

\* No run reaches the provider twice, over any sequence of crashes, expiries and
\* restarts, and a run that reached it never gets its reservation back.
CalledOnce ==
    \A r \in Runs : /\ calls[r] <= 1
                    /\ calls[r] > 0 => HasAttempt(r) /\ cost[r] # "released"

\* A process that accepts work attends to every lease it holds: no run waits out
\* its lease with nobody working on it while its worker is up.
LeasesTended ==
    \A r \in Runs : mode = "up" /\ leaseOwner[r] = process /\ leaseLeft[r] > 0 => Busy(r)

\* A crash loses less than one checkpoint's worth of text of a run that still
\* belongs to its job.
TextSafe ==
    \A r \in Runs : InCall(r) /\ RunningAttempt(job[r].token) =>
        LET kept == IF checkpoint[r] = None THEN 0 ELSE checkpoint[r] IN
        kept <= job[r].text /\ job[r].text - kept < CheckpointChars

\* The worker touches the rows only through the transactions of RunLifecycle, so
\* everything proved of those holds of the running system.
UsesLifecycle == Spec

\* Claiming never replaces a job that still runs: the map of active jobs has one
\* entry for a run, and no two jobs write for the same run.
NoOverlap ==
    [][\A r \in Runs : job'[r].phase = "starting" => job[r].phase \in {"idle", "starting"}]_vars

\* The text kept for a run never gets shorter, and a verdict keeps all that its
\* worker had received.
TextKept ==
    [][\A r \in Runs :
          /\ checkpoint[r] # None /\ checkpoint'[r] # None => checkpoint'[r] >= checkpoint[r]
          /\ status'[r] \in {"completed", "failed"} /\ status'[r] # status[r] =>
                 checkpoint'[r] >= job[r].text]_vars

(* Liveness *)

\* Every admitted run ends, whatever processes die on the way.
RunsEnd == \A r \in Runs : status[r] \in Active ~> status[r] \in Terminal

=============================================================================
