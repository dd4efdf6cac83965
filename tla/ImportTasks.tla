----------------------------- MODULE ImportTasks -----------------------------
(***************************************************************************)
(* The browser's side of file imports: each file is kept in IndexedDB      *)
(* until the server has it, sent at most MaxUploads at a time, looked up   *)
(* again after a reload, retried or dismissed by hand, and handed to the   *)
(* brane's session (src/services/imports.ts, import-storage.ts and         *)
(* deliverImports of src/services/workspace.ts).                           *)
(*                                                                         *)
(* Every asynchronous call is a job that holds the copy of the task it was *)
(* started with.  Writes to the storage are chained; a removal is not part *)
(* of the chain, it only waits for the writes before it.  The server is    *)
(* one word per key: it accepts a file once (module Imports).              *)
(***************************************************************************)
EXTENDS Integers, Sequences, FiniteSets

CONSTANTS
    Files,          \* files, numbered in the order of the map of tasks
    None,           \* no task
    MaxUploads,     \* files sent at once
    MaxBytes,       \* files held at once (50 MB)
    MaxPresses,     \* bound: retries of one file under way at once
    MaxLeaves       \* bound: sessions left and pages closed

ASSUME UploadsAssumption ==
    /\ Files \subseteq Nat \ {0} /\ IsFiniteSet(Files)
    /\ {MaxUploads, MaxBytes, MaxPresses, MaxLeaves} \subseteq Nat

VARIABLES
    here,       \* whether the library of these files is the one activated
    given,      \* files the user gave
    mem,        \* tasks: the page's map
    disk,       \* the object store of IndexedDB
    active,     \* active: files being sent
    jobs,       \* asynchronous calls under way
    writes,     \* the chain of writes
    received,   \* what the server has of each file
    dismissed,  \* how far each file's dismissal is
    leaves      \* sessions left and pages closed so far

uploadVars == <<here, given, mem, disk, active, jobs, writes, received, dismissed, leaves>>

Statuses == {"saving", "queued", "uploading", "ready", "uncertain", "failed", "rejected"}
Task == [status : Statuses, blob : BOOLEAN, delivered : BOOLEAN]

ASSUME NoTaskAssumption == None \notin Task

Puts == {"save", "complete", "settle", "requeue", "mark"}
Job == [kind : {"save", "send", "load", "look", "retry", "dismiss", "deliver"}, id : Files \cup {0},
        n : Nat \ {0}, at : Puts \cup {"server", "wait", "removed", "refresh"}, task : Task \cup {None}, ahead : Nat]

UploadsTypeOK ==
    /\ here \in BOOLEAN /\ given \subseteq Files
    /\ mem \in [Files -> Task \cup {None}] /\ disk \in [Files -> Task \cup {None}]
    /\ active \subseteq Files /\ Cardinality(active) <= MaxUploads
    /\ active = {j.id : j \in {k \in jobs : k.kind = "send"}}
    /\ jobs \subseteq Job /\ \A j \in jobs : j.ahead <= Len(writes)
    /\ writes \in Seq([id : Files, task : Task])
    /\ received \in [Files -> {"none", "sent", "ready"}]
    /\ dismissed \in [Files -> {"no", "asked", "done"}] /\ leaves \in 0..MaxLeaves

UploadsInit ==
    /\ here = TRUE /\ given = {}
    /\ mem = [f \in Files |-> None] /\ disk = [f \in Files |-> None]
    /\ active = {} /\ jobs = {} /\ writes = <<>>
    /\ received = [f \in Files |-> "none"] /\ dismissed = [f \in Files |-> "no"] /\ leaves = 0

-----------------------------------------------------------------------------
(* Tasks and jobs *)

NewJob(kind, f, at, task) == [kind |-> kind, id |-> f, n |-> 1, at |-> at, task |-> task, ahead |-> 0]
At(f, statuses) == mem[f] # None /\ mem[f].status \in statuses
Held == {f \in Files : mem[f] # None /\ mem[f].blob}

\* Job j with its next write at the end of the chain w.
Putting(j, at, task, w) == [j EXCEPT !.at = at, !.task = task, !.ahead = Len(w) + 1]

As(task, status) == [task EXCEPT !.status = status]
Ready(task) == [task EXCEPT !.status = "ready", !.blob = FALSE]

\* Fault: the bytes of a refused file are given up.
SettledDrop(task, known) == IF known THEN [task EXCEPT !.status = "failed", !.blob = FALSE] ELSE As(task, "uncertain")

\* A refusal is known; anything else leaves the delivery uncertain.
Settled(task, known) == As(task, IF known THEN "failed" ELSE "uncertain")

\* Work of an earlier page is uncertain.
Reloaded(task) == IF task.status \in {"saving", "queued", "uploading"} THEN As(task, "uncertain") ELSE task

Room(n) == n < MaxUploads

\* pump: the map m, the files a being sent and the jobs js once room is filled with queued files.
Pump(m, a, js) ==
    LET queued == IF here THEN {f \in Files \ a : m[f] # None /\ m[f].status = "queued"} ELSE {}
        take == {f \in queued : Room(Cardinality(a) + Cardinality({g \in queued : g < f}))}
    IN [mem |-> [f \in Files |-> IF f \in take THEN As(m[f], "uploading") ELSE m[f]],
        active |-> a \cup take,
        jobs |-> js \cup {NewJob("send", f, "server", m[f]) : f \in take}]

Pumped(m, a, js) ==
    LET p == Pump(m, a, js) IN mem' = p.mem /\ active' = p.active /\ jobs' = p.jobs

-----------------------------------------------------------------------------
(* Giving files *)

\* A file that cannot be taken is shown as rejected and not kept.
Enqueue(f, supported) ==
    /\ here /\ f \notin given /\ \A j \in jobs : j.kind # "load"
    /\ LET ok == supported /\ Cardinality(Held) < MaxBytes
           task == [status |-> IF ok THEN "saving" ELSE "rejected", blob |-> ok, delivered |-> FALSE]
       IN /\ mem' = [mem EXCEPT ![f] = task]
          /\ IF ok
             THEN /\ jobs' = jobs \cup {Putting(NewJob("save", f, "save", task), "save", task, writes)}
                  /\ writes' = Append(writes, [id |-> f, task |-> As(task, "queued")])
             ELSE UNCHANGED <<jobs, writes>>
    /\ given' = given \cup {f}
    /\ UNCHANGED <<here, disk, active, received, dismissed, leaves>>

-----------------------------------------------------------------------------
(* The chain of writes *)

\* The job of the write at the head of the chain, and the others one write nearer.
Writer == CHOOSE j \in jobs : j.at \in Puts /\ j.ahead = 1
Nearer == {[j EXCEPT !.ahead = IF @ = 0 THEN 0 ELSE @ - 1] : j \in jobs \ {Writer}}

\* What the page's map holds after job j's write.
Shown(j, ok) ==
    CASE j.at = "save" -> As(j.task, IF ok THEN "queued" ELSE "failed")
      [] j.at = "settle" -> j.task
      [] j.at \in {"complete", "requeue"} /\ ok -> j.task
      [] OTHER -> mem[j.id]

\* A sending that ended makes room, however it ended.
Freed(j) == IF j.kind = "send" THEN active \ {j.id} ELSE active

\* A write of the chain is done or refused, and the call that waited for it goes on.
Write(ok) ==
    /\ writes # <<>>
    /\ LET j == Writer
           w == Head(writes)
           rest == Tail(writes)
           m == [mem EXCEPT ![j.id] = Shown(j, ok)]
           unsent == j.at = "complete" /\ ~ok /\ j.kind = "send"
           unheard == j.at = "complete" /\ ~ok /\ j.kind = "retry" /\ here
           original == [j.task EXCEPT !.blob = TRUE]
       IN /\ disk' = IF ok THEN [disk EXCEPT ![w.id] = w.task] ELSE disk
          /\ writes' = IF unsent THEN Append(rest, [id |-> j.id, task |-> Settled(original, FALSE)])
                       ELSE IF unheard THEN Append(rest, [id |-> j.id, task |-> As(original, "queued")])
                       ELSE rest
          /\ IF unsent
             THEN mem' = m /\ active' = active /\ jobs' = Nearer \cup {Putting(j, "settle", Settled(original, FALSE), rest)}
             ELSE IF unheard
             THEN mem' = m /\ active' = active /\ jobs' = Nearer \cup {Putting(j, "requeue", As(original, "queued"), rest)}
             ELSE IF j.kind \in {"save", "send"} \/ (j.at = "requeue" /\ ok)
             THEN Pumped(m, Freed(j), Nearer)
             ELSE mem' = m /\ active' = active /\ jobs' = Nearer
    /\ UNCHANGED <<here, given, received, dismissed, leaves>>

Persist(j, at, task) ==
    /\ jobs' = (jobs \ {j}) \cup {Putting(j, at, task, writes)}
    /\ writes' = Append(writes, [id |-> j.id, task |-> task])

-----------------------------------------------------------------------------
(* Sending and looking up *)

\* The request reaches the server, before or after its sender stopped waiting.
Sent(j) ==
    /\ j.kind = "send" /\ j.at = "server" /\ received[j.id] = "none"
    /\ received' = [received EXCEPT ![j.id] = "sent"]
    /\ UNCHANGED <<here, given, mem, disk, active, jobs, writes, dismissed, leaves>>

Lands(f) ==
    /\ received[f] = "sent" /\ received' = [received EXCEPT ![f] = "ready"]
    /\ UNCHANGED <<here, given, mem, disk, active, jobs, writes, dismissed, leaves>>

\* The receipt, a refusal, or no answer.
Replied(j) ==
    /\ j.kind = "send" /\ j.at = "server"
    /\ \/ received[j.id] = "ready" /\ Persist(j, "complete", Ready(j.task))
       \/ \E known \in BOOLEAN : Persist(j, "settle", Settled(j.task, known))
    /\ UNCHANGED <<here, given, mem, disk, active, received, dismissed, leaves>>

Confirmed(f) == received[f] = "ready"

\* check: a receipt completes the task; nothing else proves anything, and a retry goes on.
Looked(j) ==
    /\ j.kind \in {"look", "retry"} /\ j.at = "server"
    /\ \/ Confirmed(j.id) /\ Persist(j, "complete", Ready(j.task))
       \/ IF j.kind = "retry" /\ here THEN Persist(j, "requeue", As(j.task, "queued"))
          ELSE jobs' = jobs \ {j} /\ UNCHANGED writes
    /\ UNCHANGED <<here, given, mem, disk, active, received, dismissed, leaves>>

Retry(f, n) ==
    /\ here /\ At(f, {"failed", "uncertain"}) /\ f \notin active
    /\ \A j \in jobs : ~(j.kind = "retry" /\ j.id = f /\ j.n = n)
    /\ jobs' = jobs \cup {[NewJob("retry", f, "server", mem[f]) EXCEPT !.n = n]}
    /\ UNCHANGED <<here, given, mem, disk, active, writes, received, dismissed, leaves>>

-----------------------------------------------------------------------------
(* Dismissing and delivering *)

\* The tray offers it for a file that is ready, failed or rejected.
Dismiss(f) ==
    /\ here /\ At(f, {"ready", "failed", "rejected"}) /\ dismissed[f] = "no"
    /\ jobs' = jobs \cup {[NewJob("dismiss", f, "wait", None) EXCEPT !.ahead = Len(writes)]}
    /\ dismissed' = [dismissed EXCEPT ![f] = "asked"]
    /\ UNCHANGED <<here, given, mem, disk, active, writes, received, leaves>>

Removed(j) ==
    /\ j.kind = "dismiss" /\ j.at = "wait" /\ j.ahead = 0
    /\ disk' = [disk EXCEPT ![j.id] = None]
    /\ jobs' = (jobs \ {j}) \cup {[j EXCEPT !.at = "removed"]}
    /\ UNCHANGED <<here, given, mem, active, writes, received, dismissed, leaves>>

Forgotten(j) ==
    /\ j.kind = "dismiss" /\ j.at = "removed"
    /\ mem' = [mem EXCEPT ![j.id] = None]
    /\ dismissed' = [dismissed EXCEPT ![j.id] = "done"]
    /\ jobs' = jobs \ {j}
    /\ UNCHANGED <<here, given, disk, active, writes, received, leaves>>

\* deliverImports: the session reads its brane again, then marks the receipt.
Deliver(f) ==
    /\ here /\ At(f, {"ready"}) /\ ~mem[f].delivered
    /\ \A j \in jobs : ~(j.kind = "deliver" /\ j.id = f)
    /\ jobs' = jobs \cup {NewJob("deliver", f, "refresh", None)}
    /\ UNCHANGED <<here, given, mem, disk, active, writes, received, dismissed, leaves>>

Refreshed(j) ==
    /\ j.kind = "deliver" /\ j.at = "refresh"
    /\ LET marks == here /\ mem[j.id] # None /\ ~mem[j.id].delivered
       IN \/ /\ marks /\ mem' = [mem EXCEPT ![j.id].delivered = TRUE]
             /\ Persist(j, "mark", [mem[j.id] EXCEPT !.delivered = TRUE])
          \/ jobs' = jobs \ {j} /\ UNCHANGED <<mem, writes>>
    /\ UNCHANGED <<here, given, disk, active, received, dismissed, leaves>>

-----------------------------------------------------------------------------
(* Sessions *)

\* The user signs out or opens another library.
Leave ==
    /\ here /\ here' = FALSE /\ leaves < MaxLeaves /\ leaves' = leaves + 1
    /\ UNCHANGED <<given, mem, disk, active, jobs, writes, received, dismissed>>

\* activate
Return ==
    /\ ~here /\ here' = TRUE
    /\ jobs' = jobs \cup {[NewJob("load", 0, "wait", None) EXCEPT !.ahead = Len(writes)]}
    /\ UNCHANGED <<given, mem, disk, active, writes, received, dismissed, leaves>>

\* The kept tasks replace the page's, but for files being sent, and uncertain ones are looked up.
Load(j) ==
    /\ j.kind = "load" /\ j.ahead = 0
    /\ \/ /\ here
          /\ LET m == [f \in Files |-> IF disk[f] = None \/ f \in active THEN mem[f] ELSE Reloaded(disk[f])]
             IN /\ mem' = m
                /\ jobs' = (jobs \ {j}) \cup
                     {NewJob("look", f, "server", m[f]) : f \in {g \in Files : m[g] # None /\ m[g].status = "uncertain"}}
       \/ jobs' = jobs \ {j} /\ UNCHANGED mem
    /\ UNCHANGED <<here, given, disk, active, writes, received, dismissed, leaves>>

\* The page is closed or reloaded; requests under way may still land.
ClosePage ==
    /\ leaves < MaxLeaves /\ leaves' = leaves + 1
    /\ here' = FALSE /\ mem' = [f \in Files |-> None]
    /\ active' = {} /\ jobs' = {} /\ writes' = <<>>
    /\ dismissed' = [f \in Files |-> IF dismissed[f] = "asked" /\ disk[f] # None THEN "no" ELSE dismissed[f]]
    /\ UNCHANGED <<given, disk, received>>

UploadsNext ==
    \/ \E f \in Files, supported \in BOOLEAN : Enqueue(f, supported)
    \/ \E ok \in BOOLEAN : Write(ok)
    \/ \E j \in jobs : Sent(j) \/ Replied(j) \/ Looked(j) \/ Removed(j) \/ Forgotten(j) \/ Refreshed(j) \/ Load(j)
    \/ \E f \in Files : Lands(f) \/ Dismiss(f) \/ Deliver(f) \/ \E n \in 1..MaxPresses : Retry(f, n)
    \/ Leave \/ Return \/ ClosePage

UploadsSpec == UploadsInit /\ [][UploadsNext]_uploadVars

\* The browser answers every request to its storage; a request to the server ends, if only by failing.
UploadsFairness ==
    /\ WF_uploadVars(\E ok \in BOOLEAN : Write(ok))
    /\ \A f \in Files : WF_uploadVars(\E j \in jobs : j.id = f /\ Replied(j))
UploadsFairSpec == UploadsSpec /\ UploadsFairness

-----------------------------------------------------------------------------
(* Properties *)

\* "persists each accepted blob ... before sending": a file that was sent, or only queued, is in the
\* browser's storage until the server has it, whatever was reloaded, retried, refused or lost since.
\* Nothing is said of one dismissed, which a retry under way may bring back (imports.ts:219).
BytesKept ==
    \A f \in Files :
      (received[f] # "none" \/ At(f, {"queued", "uploading", "uncertain"})) /\ dismissed[f] = "no"
        => received[f] = "ready" \/ (disk[f] # None /\ disk[f].blob)

\* A file shown or kept as ready is in its brane on the server (complete).
ReadyIsTrue ==
    \A f \in Files : \A task \in {mem[f], disk[f]} :
      task # None /\ task.status = "ready" => received[f] = "ready"

\* A file given is in the browser until the server has it or it is dismissed, and is called ready only when
\* the server has it (imports.ts:80-330).
UploadsKept == UploadsTypeOK /\ BytesKept /\ ReadyIsTrue

\* Every file waiting its turn is sent and its sending ends, however many wait, unless the user leaves.
UploadsSettle ==
    \A f \in Files :
      (here /\ At(f, {"saving", "queued", "uploading"})) ~> (~here \/ ~At(f, {"saving", "queued", "uploading"}))

=============================================================================
