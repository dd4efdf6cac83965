------------------------------- MODULE Backups -------------------------------
(***************************************************************************)
(* The daily bundle of database and assets in a remote bucket              *)
(* (server/app/backups.ts, storage/bundle.ts, storage/remote-backup.ts and *)
(* scripts/backup-remote.ts).                                              *)
(*                                                                         *)
(* A job is a process of its own: the server's hourly one, or one started  *)
(* by hand with --force, under a key nobody else has.  It may be killed or *)
(* fail at any step.  A day has two halves, so that an archive has an age  *)
(* and a date.  Assets come and go in the live store meanwhile.            *)
(***************************************************************************)
EXTENDS Integers, FiniteSets

CONSTANTS
    Daily, Forced,      \* jobs: hourly ones and ones started with --force
    Assets,
    NoKey,
    KeepDays,           \* days before an archive expires (fourteen)
    MaxHalves,          \* bound: half-days that pass
    MaxMade,            \* bound: bundles made
    MaxBackupFaults     \* bound: requests lost, uploads damaged, jobs killed

ASSUME BackupsAssumption ==
    NoKey \notin Nat /\ KeepDays \in Nat \ {0} /\ {MaxHalves, MaxMade, MaxBackupFaults} \subseteq Nat

BackupJobs == Daily \cup Forced

VARIABLES
    clock,      \* half-days since the first midnight
    rows,       \* assets of the database
    objects,    \* assets in the live store
    bucket,     \* archives by key, and the checksum in the .verified object beside each
    jobs,
    made,       \* bundles made so far; a bundle's number is its checksum
    faults

backupVars == <<clock, rows, objects, bucket, jobs, made, faults>>

DayOf(h) == h \div 2

\* A key has its date and, for a forced job, its bundle's number.
Keys == [day : 0..MaxHalves, by : {NoKey} \cup 1..MaxMade]
Archives == [sum : 0..MaxMade, holds : SUBSET Assets, needs : SUBSET Assets, made : 0..MaxHalves]
NoArchive == [sum |-> 0, holds |-> {}, needs |-> {}, made |-> 0]
Steps == {"idle", "look", "snapshot", "copy", "upload", "check", "reject", "drop", "complete", "expire", "unmark", "remove"}
Rest == [at |-> "idle", started |-> 0, key |-> NoKey, bundle |-> NoArchive, old |-> {}]

BackupsTypeOK ==
    /\ clock \in 0..MaxHalves /\ rows \subseteq Assets /\ objects \subseteq Assets
    /\ DOMAIN bucket \subseteq Keys
    /\ \A k \in DOMAIN bucket : 2 * k.day <= clock /\ bucket[k].archive \in Archives /\ bucket[k].marker \in 0..MaxMade
    /\ \A j \in BackupJobs :
         /\ jobs[j].at \in Steps /\ jobs[j].started \in 0..MaxHalves /\ jobs[j].bundle \in Archives
         /\ jobs[j].key \in Keys \cup {NoKey} /\ jobs[j].old \subseteq Keys
    /\ made \in 0..MaxMade /\ faults \in 0..MaxBackupFaults

BackupsInit ==
    /\ clock = 0 /\ rows = {} /\ objects = {} /\ bucket = <<>> /\ made = 0 /\ faults = 0
    /\ jobs = [j \in BackupJobs |-> Rest]

-----------------------------------------------------------------------------
(* The live store, beside every job *)

\* Bytes are put before their row, and a purged library's rows go before their objects.
Store(a) == a \notin objects /\ objects' = objects \cup {a} /\ UNCHANGED rows
Commit(a) == a \in objects \ rows /\ rows' = rows \cup {a} /\ UNCHANGED objects
Purge(a) == a \in rows /\ rows' = rows \ {a} /\ UNCHANGED objects
Delete(a) == a \in objects \ rows /\ objects' = objects \ {a} /\ UNCHANGED rows

AssetsMove ==
    /\ \E a \in Assets : Store(a) \/ Commit(a) \/ Purge(a) \/ Delete(a)
    /\ UNCHANGED <<clock, bucket, jobs, made, faults>>

\* An hourly job is stopped after five minutes: midnight or noon may fall into it, not both.  One
\* started by hand is limited by the request only; it is assumed to end before its own archive is old.
Longest(j) == IF j \in Daily THEN 1 ELSE 2 * KeepDays - 1

Pass ==
    /\ clock < MaxHalves /\ clock' = clock + 1
    /\ \A j \in BackupJobs : jobs[j].at = "idle" \/ clock - jobs[j].started < Longest(j)
    /\ UNCHANGED <<rows, objects, bucket, jobs, made, faults>>

-----------------------------------------------------------------------------
(* A job *)

Set(j, r) == jobs' = [jobs EXCEPT ![j] = r]
Go(j, step) == Set(j, [jobs[j] EXCEPT !.at = step])
BackupFault == faults < MaxBackupFaults /\ faults' = faults + 1
World == <<clock, rows, objects>>

Verified(k) == k \in DOMAIN bucket /\ bucket[k].marker # 0

\* run: one hourly job at a time.
Start(j) ==
    /\ jobs[j].at = "idle"
    /\ j \in Daily => \A i \in Daily : jobs[i].at = "idle"
    /\ Set(j, [Rest EXCEPT !.at = "look", !.started = clock])
    /\ UNCHANGED <<World, bucket, made, faults>>

\* Today's verified archive is enough; a forced job has a key of its own.
Look(j) ==
    /\ jobs[j].at = "look" /\ made < MaxMade
    /\ LET k == [day |-> DayOf(jobs[j].started), by |-> IF j \in Forced THEN made + 1 ELSE NoKey]
       IN IF Verified(k) THEN Set(j, Rest) /\ UNCHANGED made
          ELSE Set(j, [jobs[j] EXCEPT !.at = "snapshot", !.key = k, !.bundle.sum = made + 1]) /\ made' = made + 1
    /\ UNCHANGED <<World, bucket, faults>>

Snapshot(j) ==
    /\ jobs[j].at = "snapshot"
    /\ Set(j, [jobs[j] EXCEPT !.at = "copy", !.bundle.needs = rows, !.bundle.made = clock])
    /\ UNCHANGED <<World, bucket, made, faults>>

Copied(j) == jobs[j].bundle.needs \subseteq jobs[j].bundle.holds

\* The assets of the snapshot are read one by one; one that is gone fails the job.
Copy(j) ==
    /\ jobs[j].at = "copy"
    /\ IF Copied(j) THEN Go(j, "upload")
       ELSE \E a \in jobs[j].bundle.needs \ jobs[j].bundle.holds :
              IF a \in objects THEN Set(j, [jobs[j] EXCEPT !.bundle.holds = @ \cup {a}]) ELSE Set(j, Rest)
    /\ UNCHANGED <<World, bucket, made, faults>>

Put(k, archive) ==
    bucket' = [x \in DOMAIN bucket \cup {k} |->
                 IF x # k THEN bucket[x]
                 ELSE [archive |-> archive, marker |-> IF k \in DOMAIN bucket THEN bucket[k].marker ELSE 0]]

\* The upload replaces what is there; damaged on the way, it has no bundle's checksum.
Upload(j) ==
    /\ jobs[j].at = "upload"
    /\ \/ Put(jobs[j].key, jobs[j].bundle) /\ Go(j, "check") /\ UNCHANGED faults
       \/ BackupFault /\ Put(jobs[j].key, [jobs[j].bundle EXCEPT !.sum = 0]) /\ Go(j, "check")
    /\ UNCHANGED <<World, made>>

\* Fault: what was uploaded is not read back.
ReadsBackAlways(j) == TRUE

ReadsBack(j) == bucket[jobs[j].key].archive.sum = jobs[j].bundle.sum

Check(j) ==
    /\ jobs[j].at = "check"
    /\ IF jobs[j].key \notin DOMAIN bucket THEN Set(j, Rest)
       ELSE Go(j, IF ReadsBack(j) THEN "complete" ELSE "reject")
    /\ UNCHANGED <<World, bucket, made, faults>>

\* remove deletes the marker, then the archive.
Unmarked(k) == IF k \in DOMAIN bucket THEN [bucket EXCEPT ![k].marker = 0] ELSE bucket
Removed(k) == [x \in DOMAIN bucket \ {k} |-> bucket[x]]

Reject(j) ==
    /\ jobs[j].at = "reject"
    /\ bucket' = Unmarked(jobs[j].key) /\ Go(j, "drop")
    /\ UNCHANGED <<World, made, faults>>

Drop(j) ==
    /\ jobs[j].at = "drop"
    /\ bucket' = Removed(jobs[j].key) /\ Set(j, Rest)
    /\ UNCHANGED <<World, made, faults>>

Complete(j) ==
    /\ jobs[j].at = "complete"
    /\ bucket' = IF jobs[j].key \in DOMAIN bucket THEN [bucket EXCEPT ![jobs[j].key].marker = jobs[j].bundle.sum] ELSE bucket
    /\ Go(j, "expire")
    /\ UNCHANGED <<World, made, faults>>

\* The midnight of its date is more than fourteen days ago.
Expired(k, at) == 2 * k.day < at - 2 * KeepDays

Listed(j) == {k \in DOMAIN bucket \ {jobs[j].key} : Expired(k, jobs[j].started)}

Expire(j) ==
    /\ jobs[j].at = "expire"
    /\ IF Listed(j) = {} THEN Set(j, Rest) ELSE Set(j, [jobs[j] EXCEPT !.at = "unmark", !.old = Listed(j)])
    /\ UNCHANGED <<World, bucket, made, faults>>

Unmark(j) ==
    /\ jobs[j].at = "unmark"
    /\ \E k \in jobs[j].old : bucket' = Unmarked(k) /\ Set(j, [jobs[j] EXCEPT !.at = "remove", !.old = @ \ {k}, !.key = k])
    /\ UNCHANGED <<World, made, faults>>

Remove(j) ==
    /\ jobs[j].at = "remove"
    /\ bucket' = Removed(jobs[j].key)
    /\ IF jobs[j].old = {} THEN Set(j, Rest) ELSE Go(j, "unmark")
    /\ UNCHANGED <<World, made, faults>>

\* A request is lost, the five minutes are over, or the server is stopped.
Kill(j) == jobs[j].at # "idle" /\ BackupFault /\ Set(j, Rest) /\ UNCHANGED <<World, bucket, made>>

BackupsNext ==
    \/ AssetsMove \/ Pass
    \/ \E j \in BackupJobs :
         \/ Start(j) \/ Look(j) \/ Snapshot(j) \/ Copy(j) \/ Upload(j) \/ Check(j) \/ Reject(j) \/ Drop(j)
         \/ Complete(j) \/ Expire(j) \/ Unmark(j) \/ Remove(j) \/ Kill(j)

BackupsSpec == BackupsInit /\ [][BackupsNext]_backupVars

-----------------------------------------------------------------------------
(* Properties *)

Good(k) == Verified(k) /\ bucket[k].archive.sum = bucket[k].marker

\* "Publishes a .verified marker only after verification": a marker stands beside the archive whose
\* checksum it holds, whichever job uploaded, rejected or expired it last.
MarkedVerified == \A k \in DOMAIN bucket : Verified(k) => Good(k)

\* A verified archive restores: it holds every asset its database refers to, although assets were
\* purged while it was made.
Restorable == \A k \in DOMAIN bucket : Good(k) => bucket[k].archive.needs \subseteq bucket[k].archive.holds

\* However long jobs fail, the last verified archive is not expired: only a newer one replaces it.
NeverBare == [][(\E k \in DOMAIN bucket : Good(k)) => \E k \in DOMAIN bucket' : Good(k)']_backupVars

\* No verified archive of the last KeepDays dates is lost, whatever fails, is rejected or is made again: an
\* archive is as old as its date, hardly KeepDays old by the clock when its date is (remote-backup.ts:49).
RecentKept == [][\A k \in DOMAIN bucket : Good(k) /\ k.day > DayOf(clock) - KeepDays => k \in DOMAIN bucket' /\ Good(k)']_backupVars

\* Archives marked are verified and restore, the last of them outlives failures, and those of the last
\* days are kept (remote-backup.ts:18-58).
BackupsKept == [](BackupsTypeOK /\ MarkedVerified /\ Restorable) /\ NeverBare /\ RecentKept

=============================================================================
