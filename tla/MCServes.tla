------------------------------- MODULE MCServes -------------------------------
(***************************************************************************)
(* What the server must eventually do.  Its process closes or runs out of  *)
(* room (process); two servers send the mails of an incident through three *)
(* faults (mail); webpages are fetched while the server stops and starts   *)
(* (pages); two deliveries of one guest's file wait for each other, crash  *)
(* and are purged (imports).                                               *)
(*                                                                         *)
(* They share no state, so one of them, the scope, moves in a behaviour    *)
(* and the others rest where nothing they are fair to is enabled.          *)
(***************************************************************************)
EXTENDS Server, TLC

CONSTANTS worker, backup, r1, r2, None, s1, s2, b1, b2, ann, t1, k1, k2, f1, i1, i2

VARIABLES
    scope,
    now, outbox, used, incident, servers, inbox, counts,                            \* Mail
    card, queue, fetcher, server, allowed, read, edits,                             \* Ingestion
    up, calls, ops, assets, intents, debts, objects, late, guest, made, faults      \* Imports

mailVars   == <<now, outbox, used, incident, servers, inbox, counts>>
pageVars   == <<card, queue, fetcher, server, allowed, read, edits>>
importVars == <<up, calls, ops, assets, intents, debts, objects, late, guest, made, faults>>

Mails == INSTANCE Mail WITH
    Servers <- {s1, s2}, Ids <- 1..2, Rank <- <<1, 2>>, Prompt <- TRUE,
    Lease <- 2, Cap <- 2, Day <- 8, LastReport <- 1, MaxTime <- 10, MaxFaults <- 2

Pages == INSTANCE Ingestion WITH
    job <- queue, worker <- fetcher, counts <- edits, Cards <- {b1, b2}, Owner <- b1 :> ann @@ b2 :> ann, Tabs <- {t1},
    UserLimit <- 2, TotalLimit <- 2, MaxEdits <- 1, MaxFaults <- 2

Delivered == INSTANCE Imports WITH
    Keys <- {k1, k2}, Services <- {i1, i2}, Files <- {f1}, GuestKeys <- {k1}, Absent <- None, Whole <- FALSE,
    MaxActive <- 2, GuestBytes <- 1, TotalBytes <- 1, MaxCalls <- 2, MaxCrashes <- 1, MaxStoreFaults <- 1

-----------------------------------------------------------------------------
MCInit ==
    /\ scope \in {"process", "mail", "pages", "imports"}
    /\ IF scope = "process" THEN ServerInit
       ELSE /\ phase = "exited" /\ code = 0 /\ failure = FALSE /\ free = "ample" /\ short = FALSE
            /\ job = [c \in Jobs |-> FALSE] /\ request = [r \in Requests |-> "none"]
            /\ disk = [state |-> "healthy", low |-> FALSE, age |-> 0, probe |-> "none"]
    /\ IF scope = "mail" THEN Mails!Init
       ELSE /\ now = 10 /\ outbox = <<>> /\ used = {} /\ inbox = <<>> /\ incident = [since |-> None, alert |-> None]
            /\ servers = [s \in {s1, s2} |-> [state |-> "idle", row |-> None]] /\ counts = [faults |-> 0, reported |-> -1]
    /\ Pages!Init /\ Delivered!ImportsInit

MCNext ==
    /\ \/ scope = "process" /\ ServerNext /\ UNCHANGED <<mailVars, pageVars, importVars>>
       \/ scope = "mail" /\ Mails!Next /\ UNCHANGED <<serverVars, pageVars, importVars>>
       \/ scope = "pages" /\ Pages!Next /\ UNCHANGED <<serverVars, mailVars, importVars>>
       \/ scope = "imports" /\ Delivered!ImportsNext /\ UNCHANGED <<serverVars, mailVars, pageVars>>
    /\ UNCHANGED scope

MCSpec ==
    /\ MCInit /\ [][MCNext]_<<scope, serverVars, mailVars, pageVars, importVars>>
    /\ ServerFairness /\ Mails!Fairness /\ Pages!Fairness /\ Delivered!ImportsFairness

-----------------------------------------------------------------------------
\* A shutdown ends and a disk that stays short refuses writes; every mail queued is sent, every webpage
\* imported or given up; every delivery ends, within capacity, and a guest's bytes are freed
\* (main.ts:83, disk.ts:20, mail.ts:37, ingestion.ts:60, imports.ts:92, capacity.ts:17).
Serves ==
    /\ Exits /\ Refuses
    /\ Mails!Sent
    /\ Pages!Settles
    /\ []Delivered!WithinCapacity /\ Delivered!DeliveriesEnd /\ Delivered!Reclaimed

=============================================================================
