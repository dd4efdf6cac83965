------------------------------ MODULE RunContract ------------------------------
(***************************************************************************)
(* What the system promises the person who pressed run: the diagram of     *)
(* docs/architecture/04-run-lifecycle.md with its accounting.              *)
(*                                                                         *)
(* Leases, claims, attempts, checkpoints and workers are hidden.  A run    *)
(* that is claimed, dropped by a dying worker and claimed again is simply  *)
(* waiting, and a run that starts executing is never executed again.       *)
(* Runs are independent, and several of them may move in one step.         *)
(***************************************************************************)
CONSTANTS
    Runs,      \* the runs
    FreeRuns,  \* the runs whose frozen price is zero
    Texts,     \* the texts a revision may hold
    None       \* no published revision

VARIABLES
    stage,      \* where each run stands
    bill,       \* where its commitment stands
    published   \* the text of the revision it published

contractVars == <<stage, bill, published>>

Init ==
    /\ stage = [r \in Runs |-> "absent"]
    /\ bill = [r \in Runs |-> "none"]
    /\ published = [r \in Runs |-> None]

Moves(r, from, to)  == stage[r] = from /\ stage'[r] = to
KeepsBill(r)        == bill'[r] = bill[r]
KeepsPublished(r)   == published'[r] = published[r]

\* A submission is admitted with its cost reserved.
Admit(r) == Moves(r, "absent", "waiting") /\ bill'[r] = "reserved" /\ KeepsPublished(r)

\* The run is handed to the provider: the only step that may lead to a call.
Begin(r) == Moves(r, "waiting", "executing") /\ KeepsBill(r) /\ KeepsPublished(r)

\* A waiting run that is cancelled ends at once and costs nothing.
Withdraw(r) == Moves(r, "waiting", "cancelled") /\ bill'[r] = "released" /\ KeepsPublished(r)

\* Cancelling an executing run is only a request.
AskCancel(r) == Moves(r, "executing", "cancelling") /\ KeepsBill(r) /\ KeepsPublished(r)

\* The run publishes its revision and pays what the provider reported.
Complete(r) ==
    /\ Moves(r, "executing", "completed")
    /\ published'[r] \in Texts
    /\ \/ bill'[r] = "confirmed"
       \/ bill'[r] = "uncertain" /\ r \notin FreeRuns

\* The run stops with nothing published.  Its cost stays held unless it is known
\* that the provider was never called.
Stop(r) ==
    /\ \/ Moves(r, "executing", "failed") \/ Moves(r, "cancelling", "cancelled")
       \/ Moves(r, "executing", "interrupted") /\ bill'[r] # "released"
    /\ bill'[r] \in {"uncertain", "released"}
    /\ KeepsPublished(r)

\* An operator closes an uncertain bill from the provider's records.
Reconcile(r) ==
    /\ bill[r] = "uncertain" /\ bill'[r] = "confirmed"
    /\ stage'[r] = stage[r] /\ KeepsPublished(r)

Stays(r) == stage'[r] = stage[r] /\ KeepsBill(r) /\ KeepsPublished(r)

Next ==
    \A r \in Runs : \/ Admit(r) \/ Begin(r) \/ Withdraw(r) \/ AskCancel(r)
                    \/ Complete(r) \/ Stop(r) \/ Reconcile(r) \/ Stays(r)

Spec == Init /\ [][Next]_contractVars

=============================================================================
