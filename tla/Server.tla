-------------------------------- MODULE Server --------------------------------
(***************************************************************************)
(* The server process (server/app/main.ts): what it lets in, how it ends,  *)
(* and the disk monitor (server/app/disk.ts) both depend on.               *)
(*                                                                         *)
(* What the background jobs do is in modules of their own; here they are   *)
(* at work or not.  Time is how old the last disk check is.                *)
(***************************************************************************)
EXTENDS Integers

CONSTANTS
    Jobs,       \* the run and webpage workers, maintenance, mail and backups
    Claimers,   \* those that ask canClaim: the two workers
    Fatal,      \* those whose error ends the process: the workers and maintenance
    Requests,
    Stale       \* ticks after which a disk check counts for nothing (two intervals)

ASSUME ServerAssumption == Claimers \subseteq Jobs /\ Fatal \subseteq Jobs /\ Stale \in Nat

VARIABLES
    phase,      \* "up" | "closing" | "exited"
    code,       \* exitCode
    job,        \* job -> BOOLEAN: at work
    request,    \* request -> "none" | "read" | "write" | "stream"
    disk,       \* DiskMonitor: state, low, age of checkedAt, the probe under way
    free,       \* room on the disk: "short" of the floor, "enough", or "ample" (a quarter more)
    short,      \* history: the last sample outside "enough" was short
    failure     \* history: a job's error was fatal

serverVars == <<phase, code, job, request, disk, free, short, failure>>

Room == {"short", "enough", "ample"}

ServerTypeOK ==
    /\ phase \in {"up", "closing", "exited"} /\ code \in {0, 1}
    /\ job \in [Jobs -> BOOLEAN] /\ request \in [Requests -> {"none", "read", "write", "stream"}]
    /\ disk \in [state : {"healthy", "low", "unknown"}, low : BOOLEAN, age : 0..Stale + 1, probe : Room \cup {"none"}]
    /\ free \in Room /\ short \in BOOLEAN /\ failure \in BOOLEAN
    /\ (disk.state = "low" => disk.low) /\ (disk.state = "healthy" => ~disk.low)

-----------------------------------------------------------------------------
(* The disk *)

AllowsWrites == disk.state = "healthy" /\ disk.age <= Stale

IsLow(sample) == sample = "short" \/ (disk.low /\ sample # "ample")

Checked(sample) == [state |-> IF IsLow(sample) THEN "low" ELSE "healthy", low |-> IsLow(sample), age |-> 0, probe |-> "none"]

\* start() waits for a first check, so the server begins with its result, or with its failure.
ServerInit ==
    /\ phase = "up" /\ code = 0 /\ failure = FALSE /\ free \in Room
    /\ job = [c \in Jobs |-> FALSE] /\ request = [r \in Requests |-> "none"]
    /\ \/ /\ short = (free = "short")
          /\ disk = [state |-> IF short THEN "low" ELSE "healthy", low |-> short, age |-> 0, probe |-> "none"]
       \/ short = FALSE /\ disk = [state |-> "unknown", low |-> FALSE, age |-> 0, probe |-> "none"]

\* One check at a time; the timer may be late, the sample old when it arrives.
Probe ==
    /\ phase = "up" /\ disk.probe = "none" /\ disk' = [disk EXCEPT !.probe = free]
    /\ UNCHANGED <<phase, code, job, request, free, short, failure>>

ProbeEnds ==
    /\ phase # "exited" /\ disk.probe # "none"
    /\ \/ disk' = Checked(disk.probe) /\ short' = (disk.probe = "short" \/ (short /\ disk.probe = "enough"))
       \/ \* it fails, or takes more than five seconds
          disk' = [disk EXCEPT !.state = "unknown", !.age = 0, !.probe = "none"] /\ UNCHANGED short
    /\ UNCHANGED <<phase, code, job, request, free, failure>>

DiskTick ==
    /\ phase # "exited" /\ disk.age <= Stale /\ disk' = [disk EXCEPT !.age = @ + 1]
    /\ UNCHANGED <<phase, code, job, request, free, short, failure>>

Fill == /\ free' \in Room \ {free} /\ phase # "exited"
        /\ UNCHANGED <<phase, code, job, request, disk, short, failure>>

-----------------------------------------------------------------------------
(* Requests and jobs *)

\* The gates every request passes; cancelling a run and signing out pass like a read.
Arrive(r) ==
    /\ phase = "up" /\ request[r] = "none"
    /\ \E kind \in {"read", "write", "stream"} :
         /\ kind = "write" => AllowsWrites
         /\ request' = [request EXCEPT ![r] = kind]
    /\ UNCHANGED <<phase, code, job, disk, free, short, failure>>

\* A client may leave a stream; the hub ends it when the server closes.
Finish(r) ==
    /\ phase # "exited" /\ request[r] # "none" /\ request' = [request EXCEPT ![r] = "none"]
    /\ UNCHANGED <<phase, code, job, disk, free, short, failure>>

Begin(c) ==
    /\ phase = "up" /\ ~job[c] /\ (c \in Claimers => AllowsWrites)
    /\ job' = [job EXCEPT ![c] = TRUE]
    /\ UNCHANGED <<phase, code, request, disk, free, short, failure>>

Done(c) ==
    /\ phase # "exited" /\ job[c] /\ job' = [job EXCEPT ![c] = FALSE]
    /\ UNCHANGED <<phase, code, request, disk, free, short, failure>>

-----------------------------------------------------------------------------
(* The end *)

\* fatal: the exit code is set even when a shutdown is already under way.
Fails(c) ==
    /\ phase # "exited" /\ c \in Fatal /\ job[c] /\ job' = [job EXCEPT ![c] = FALSE]
    /\ failure' = TRUE /\ code' = 1 /\ phase' = "closing"
    /\ UNCHANGED <<request, disk, free, short>>

Signal ==
    /\ phase = "up" /\ phase' = "closing"
    /\ UNCHANGED <<code, job, request, disk, free, short, failure>>

\* Fault: what was let in is not waited for.
QuietJobs == disk.probe = "none" /\ \A c \in Jobs : ~job[c]

Quiet == disk.probe = "none" /\ (\A c \in Jobs : ~job[c]) /\ \A r \in Requests : request[r] = "none"

\* Everything has stopped: the database is closed and the process ends.
Close ==
    /\ phase = "closing" /\ Quiet /\ phase' = "exited"
    /\ UNCHANGED <<code, job, request, disk, free, short, failure>>

\* Fault: shutdown has no deadline.
NoDeadline == FALSE

Overdue == phase = "closing"

\* SHUTDOWN_MS have passed, or the listener could not be closed.
Deadline ==
    /\ Overdue /\ phase' = "exited" /\ code' = 1
    /\ UNCHANGED <<job, request, disk, free, short, failure>>

ServerNext ==
    \/ Probe \/ ProbeEnds \/ DiskTick \/ Fill \/ Signal \/ Close \/ Deadline
    \/ \E r \in Requests : Arrive(r) \/ Finish(r)
    \/ \E c \in Jobs : Begin(c) \/ Done(c) \/ Fails(c)

ServerSpec == ServerInit /\ [][ServerNext]_serverVars

\* Time passes and timers fire; no job, request or probe need ever end.
ServerFairness == WF_serverVars(DiskTick) /\ WF_serverVars(Deadline)

ServerFairSpec == ServerSpec /\ ServerFairness

-----------------------------------------------------------------------------
(* Properties *)

\* The process reports success only when nothing it had begun or let in was cut off, and nothing was fatal.
CleanExit ==
    phase = "exited" /\ code = 0
      => ~failure /\ (\A c \in Jobs : ~job[c]) /\ \A r \in Requests : request[r] = "none"

\* Once the disk was short, writes wait for a sample with headroom, whatever checks fail in between.
Headroom == AllowsWrites => ~short

\* A disk that stays short ends up refusing writes, even if it is never successfully checked again.
Refuses == <>[](free = "short") => <>[](~AllowsWrites \/ phase = "exited")

\* A shutdown ends, whatever hangs.
Exits == (phase = "closing") ~> (phase = "exited")

\* The process reports success only after a clean end, and writes only with room (main.ts:83-120, disk.ts:20-75).
ServerHolds == CleanExit /\ Headroom

=============================================================================
