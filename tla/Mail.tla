-------------------------------- MODULE Mail --------------------------------
(***************************************************************************)
(* The mail queue and the notices of failed backups it delivers            *)
(* (server/services/mail.ts, backup-alerts.ts).                            *)
(*                                                                         *)
(* Servers share the queue while one is replaced by another.  A server     *)
(* leases one mail, sends it without holding a transaction, and deletes    *)
(* it or puts it off.  The provider, which is external, accepts a mail     *)
(* once per idempotency key; its answer may be lost.                       *)
(***************************************************************************)
EXTENDS Integers, FiniteSets, Sequences

CONSTANTS
    Servers,
    Ids,            \* identifiers of mails, in no order
    Rank,           \* how their random identifiers happen to compare
    None,
    Lease,          \* ticks a lease lasts (thirty seconds)
    Cap,            \* ticks of the longest delay between attempts (five minutes)
    Day,            \* ticks a notice is good for, and between two alerts
    Prompt,         \* whether servers poll and send in time, or may be suspended for longer
    LastReport,     \* bound: backups are reported until then
    MaxTime,        \* bound
    MaxFaults       \* bound: rejections, lost answers and crashes

ASSUME MailAssumption ==
    /\ {Lease, Cap, Day, LastReport, MaxTime, MaxFaults} \subseteq Nat /\ Prompt \in BOOLEAN /\ Rank \in [Ids -> Nat]

VARIABLES
    now,
    outbox,     \* mail_outbox, by identifier
    used,       \* identifiers given so far
    incident,   \* backup_alert_state
    servers,    \* the row each server is sending
    inbox,      \* what the provider accepted, in order
    counts      \* faults, and the time of the last report

vars == <<now, outbox, used, incident, servers, inbox, counts>>

Rows == [subject : {"attention", "recovered"}, expires : Nat, next : Nat, attempts : Nat, lease : Nat]
Sending == [id : Ids, subject : {"attention", "recovered"}, lease : Nat, attempts : Nat]

TypeOK ==
    /\ now \in 0..MaxTime /\ used \subseteq Ids /\ DOMAIN outbox \subseteq used
    /\ \A i \in DOMAIN outbox : outbox[i] \in Rows
    /\ incident.since \in Nat \cup {None} /\ incident.alert \in Nat \cup {None}
    /\ (incident.since = None <=> incident.alert = None)
    /\ \A s \in Servers : servers[s].state \in {"idle", "send", "accepted", "failed"}
                          /\ (servers[s].row = None \/ servers[s].row \in Sending)
    /\ \A n \in 1..Len(inbox) : inbox[n].id \in used
    /\ counts.faults \in 0..MaxFaults /\ counts.reported \in -1..MaxTime

Init ==
    /\ now = 0 /\ outbox = <<>> /\ used = {} /\ inbox = <<>>
    /\ incident = [since |-> None, alert |-> None]
    /\ servers = [s \in Servers |-> [state |-> "idle", row |-> None]]
    /\ counts = [faults |-> 0, reported |-> -1]

Fault == counts.faults < MaxFaults /\ counts' = [counts EXCEPT !.faults = @ + 1]
Sound == UNCHANGED counts
-----------------------------------------------------------------------------
(* Notices *)

Enqueue(subject) ==
    \E i \in Ids \ used :
      /\ used' = used \cup {i}
      /\ outbox' = [j \in DOMAIN outbox \cup {i} |->
                      IF j # i THEN outbox[j]
                      ELSE [subject |-> subject, expires |-> now + Day, next |-> now, attempts |-> 0, lease |-> 0]]

Opened == [since |-> IF incident.since = None THEN now ELSE incident.since, alert |-> now]

\* recordBackupResult: the incident and its mail change in one transaction.
ReportFailure ==
    IF (IF incident.alert = None THEN TRUE ELSE now - incident.alert >= Day)
    THEN Enqueue("attention") /\ incident' = Opened
    ELSE UNCHANGED <<outbox, used, incident>>

ReportSuccess ==
    /\ incident' = [since |-> None, alert |-> None]
    /\ IF incident.since = None THEN UNCHANGED <<outbox, used>> ELSE Enqueue("recovered")

Report ==
    /\ counts.reported < now /\ now <= LastReport
    /\ ReportFailure \/ ReportSuccess
    /\ counts' = [counts EXCEPT !.reported = now]
    /\ UNCHANGED <<now, servers, inbox>>

-----------------------------------------------------------------------------
(* Delivery *)

Without(i) == [j \in DOMAIN outbox \ {i} |-> outbox[j]]
Live == {i \in DOMAIN outbox : outbox[i].expires > now}
Due == {i \in Live : outbox[i].next <= now /\ outbox[i].lease <= now}
Before(i, j) == outbox[i].next < outbox[j].next \/ (outbox[i].next = outbox[j].next /\ Rank[i] < Rank[j])

LeaseEnd == now + Lease

\* Expired mails are deleted; the one due first is leased.
Take(s) ==
    /\ servers[s].state = "idle" /\ (Due # {} \/ Live # DOMAIN outbox)
    /\ LET kept == [i \in Live |-> outbox[i]]
       IN IF Due = {} THEN outbox' = kept /\ UNCHANGED servers
          ELSE \E i \in Due :
                 /\ \A j \in Due \ {i} : Before(i, j)
                 /\ outbox' = [kept EXCEPT ![i].lease = LeaseEnd, ![i].attempts = @ + 1]
                 /\ servers' = [servers EXCEPT ![s] = [state |-> "send",
                                  row |-> [id |-> i, subject |-> outbox[i].subject, lease |-> LeaseEnd,
                                           attempts |-> outbox[i].attempts + 1]]]
    /\ UNCHANGED <<now, used, incident, inbox, counts>>

\* A tick is ten seconds: two polls, or the longest request.
Tick ==
    /\ now < MaxTime /\ now' = now + 1
    /\ Prompt => \A s \in Servers : servers[s].state = "idle" /\ Due = {}
    /\ UNCHANGED <<outbox, used, incident, servers, inbox, counts>>

Become(s, state) == servers' = [servers EXCEPT ![s].state = state]

\* The provider: one mail for one key, whether or not its answer arrives.
Accept(row) ==
    inbox' = IF \E n \in 1..Len(inbox) : inbox[n].id = row.id THEN inbox
             ELSE Append(inbox, [id |-> row.id, subject |-> row.subject])

Send(s) ==
    /\ servers[s].state = "send"
    /\ \/ Accept(servers[s].row) /\ Become(s, "accepted") /\ Sound
       \/ Accept(servers[s].row) /\ Become(s, "failed") /\ Fault
       \/ UNCHANGED inbox /\ Become(s, "failed") /\ Fault
    /\ UNCHANGED <<now, outbox, used, incident>>

\* Fault: the row is written whoever leases it.
MineAlways(s) == servers[s].row.id \in DOMAIN outbox

Mine(s) == IF servers[s].row.id \in DOMAIN outbox THEN outbox[servers[s].row.id].lease = servers[s].row.lease ELSE FALSE

Rested(s) == servers' = [servers EXCEPT ![s] = [state |-> "idle", row |-> None]]

Delivered(s) ==
    /\ servers[s].state = "accepted" /\ Rested(s)
    /\ outbox' = IF Mine(s) THEN Without(servers[s].row.id) ELSE outbox
    /\ UNCHANGED <<now, used, incident, inbox, counts>>

Delay(attempts) == LET d == 2 ^ (attempts - 1) IN IF d < Cap THEN d ELSE Cap

PutOff(s) ==
    /\ servers[s].state = "failed" /\ Rested(s)
    /\ outbox' = IF Mine(s) THEN [outbox EXCEPT ![servers[s].row.id].next = now + Delay(servers[s].row.attempts),
                                                ![servers[s].row.id].lease = 0]
                 ELSE outbox
    /\ UNCHANGED <<now, used, incident, inbox, counts>>

\* A server dies, or is replaced; its lease stays.
Crash(s) == servers[s].state # "idle" /\ Fault /\ Rested(s) /\ UNCHANGED <<now, outbox, used, incident, inbox>>

Next == Tick \/ Report \/ \E s \in Servers : Take(s) \/ Send(s) \/ Delivered(s) \/ PutOff(s) \/ Crash(s)

Spec == Init /\ [][Next]_vars

\* Time passes, the five-second poll goes on, and a request ends within ten seconds.
Fairness ==
    /\ WF_vars(Tick)
    /\ \A s \in Servers : WF_vars(Take(s)) /\ WF_vars(Send(s)) /\ WF_vars(Delivered(s)) /\ WF_vars(PutOff(s))

FairSpec == Spec /\ Fairness

-----------------------------------------------------------------------------
(* Properties *)

\* While a lease lasts, one server is sending the mail; a late answer to an earlier attempt neither
\* frees nor deletes it.  The order of the mails is not said: one put off is overtaken by a later one.
OneSender ==
    \A s \in Servers : servers[s].state = "send" /\ now < servers[s].row.lease
      => \A t \in Servers \ {s} : servers[t].state = "send" /\ now < servers[t].row.lease
           => servers[t].row.id # servers[s].row.id

InInbox(i) == \E n \in 1..Len(inbox) : inbox[n].id = i

\* A queued mail outlasts rejections, lost answers and a restart in the middle of sending.
Sent == \A i \in Ids : i \in used ~> InInbox(i)

=============================================================================
