----------------------------- MODULE RunAdmission -----------------------------
(***************************************************************************)
(* Admission of runs: what server/services/runs.ts checks and writes when  *)
(* a run is submitted, pressed or retried, and the spend ledger of         *)
(* spend.ts and costs.ts that it reserves from.                            *)
(*                                                                         *)
(* One press of a machine may admit several runs, fanned out over cards or *)
(* over models, all in one transaction.  An ordinary submission is a press *)
(* with one part.  What happens to a run afterwards are the moves that     *)
(* RunContract allows and RunLifecycle is shown to make, written out here  *)
(* with their amounts.                                                     *)
(*                                                                         *)
(* A payload stands for all that the request hash of one part covers: its  *)
(* model, prompt, inputs and output limit.  Days and months are those of   *)
(* UTC; amounts are microdollars.                                          *)
(***************************************************************************)
EXTENDS Naturals, Sequences, FiniteSets, Functions

CONSTANTS
    Runs,             \* the identities runs may take
    FreeRuns,         \* those that runs of unpriced models take
    Owners,           \* the libraries
    Principals,       \* the principals that hold libraries
    Guests,           \* those of them that are anonymous
    Keys,             \* submission keys
    Payloads,         \* the payloads of one part
    Price,            \* the conservative cost bound of each payload
    Requests,         \* the presses a client may send: [owner, key, parts, fanned]
    MaxCharge,        \* bound on the amount a provider reports
    MaxDay, MonthOf,  \* bound on the day, and the month of each day
    GlobalDaily, GlobalMonthly, UserDaily,  \* the budgets
    UserConcurrency, QueueLimit,            \* the bounds on runs under way
    None

ASSUME PriceAssumption == Price \in [Payloads -> Nat]
ASSUME GuestAssumption == Guests \subseteq Principals
ASSUME DaysAssumption == MaxDay \in Nat /\ MonthOf \in [0..MaxDay -> Nat]
ASSUME LimitAssumption == {MaxCharge, UserConcurrency, QueueLimit} \subseteq Nat
ASSUME BudgetAssumption == {GlobalDaily, GlobalMonthly, UserDaily} \subseteq Nat
ASSUME NoneAssumption == None \notin Keys \cup Runs
ASSUME RequestAssumption ==
    \A q \in Requests : /\ q.owner \in Owners /\ q.key \in Keys /\ q.fanned \in BOOLEAN
                        /\ q.parts \in Seq(Payloads) /\ q.parts # <<>>
                        /\ ~q.fanned => Len(q.parts) = 1

VARIABLES
    row,        \* the columns of runs and run_batches that admission writes
    stage,      \* runs.status, as RunContract sees it
    bill,       \* spend_commitments.status
    charged,    \* spend_commitments.confirmed_microusd
    principal,  \* libraries.principal_id
    today,      \* the UTC day
    answered    \* history: the requests that were answered with a receipt

vars == <<row, stage, bill, charged, principal, today, answered>>

\* A row's submission key is its press's key and its position in the press: the
\* first part has the key itself, the others keys derived from it.
NoRow == [owner |-> None, key |-> None, position |-> 0, hash |-> None, batch |-> None,
          payload |-> None, retryOf |-> None, day |-> 0]

\* The hash of a part covers its own submission key.
Hash(key, i, payload) == <<key, i, payload>>

Active   == {"waiting", "executing", "cancelling"}
Stopped  == {"failed", "interrupted", "cancelled"}
Admitted == {r \in Runs : stage[r] # "absent"}

TypeOK ==
    /\ \A r \in Admitted :
          /\ row[r].owner \in Owners /\ row[r].key \in Keys /\ row[r].position \in Nat \ {0}
          /\ row[r].batch \in Keys \cup {None} /\ row[r].payload \in Payloads
          /\ row[r].retryOf \in Runs \cup {None}
          /\ row[r].day \in 0..today
    /\ \A r \in Runs \ Admitted : row[r] = NoRow
    /\ stage \in [Runs -> {"absent", "completed"} \cup Active \cup Stopped]
    /\ bill \in [Runs -> {"none", "reserved", "uncertain", "confirmed", "released"}]
    /\ charged \in [Runs -> 0..MaxCharge]
    /\ principal \in [Owners -> Principals]
    /\ today \in 0..MaxDay
    /\ answered \subseteq Requests

Init ==
    /\ row = [r \in Runs |-> NoRow]
    /\ stage = [r \in Runs |-> "absent"]
    /\ bill = [r \in Runs |-> "none"]
    /\ charged = [r \in Runs |-> 0]
    /\ principal \in {p \in [Owners -> Principals] : IsInjective(p)}
    /\ today = 0
    /\ answered = {}

-----------------------------------------------------------------------------
(* The ledger *)

Outstanding(r) == bill[r] \in {"reserved", "uncertain"}

\* Fault: only what was reserved today counts, as if liabilities lapsed at midnight.
CommittedOfPeriod(S, D) ==
    SumFunction([r \in S |-> IF row[r].day \notin D THEN 0
                             ELSE IF Outstanding(r) THEN Price[row[r].payload]
                             ELSE IF bill[r] = "confirmed" THEN charged[r]
                             ELSE 0])

\* What the runs S commit of the days D: reserved and uncertain amounts of any day,
\* and the confirmed amounts of runs admitted on those days.
Counted(r, D) ==
    IF Outstanding(r) THEN Price[row[r].payload]
    ELSE IF bill[r] = "confirmed" /\ row[r].day \in D THEN charged[r]
    ELSE 0

CommittedSpend(S, D) == SumFunction([r \in S |-> Counted(r, D)])

ThisMonth == {d \in 0..MaxDay : MonthOf[d] = MonthOf[today]}

\* Fault: the allowance is the library's, whoever holds it.
LibraryRuns(o) == {r \in Admitted : row[r].owner = o}

\* The runs of every library that the owner's account holds.
AccountRuns(o) == {r \in Admitted : principal[row[r].owner] = principal[o]}

\* Unpriced work is always affordable; priced work needs headroom in every budget.
CanReserve(o, amount) ==
    amount > 0 =>
        /\ GlobalDaily > 0 /\ GlobalMonthly > 0
        /\ CommittedSpend(Admitted, {today}) + amount <= GlobalDaily
        /\ CommittedSpend(Admitted, ThisMonth) + amount <= GlobalMonthly
        /\ CommittedSpend(AccountRuns(o), {today}) + amount <= UserDaily

-----------------------------------------------------------------------------
(* Admission *)

\* The runs one press admits together count once.
PressOf(r) == IF row[r].batch # None THEN <<row[r].batch>> ELSE <<r>>
PressesUnderWay(S) == {PressOf(r) : r \in {x \in S : stage[x] \in Active}}

\* Room for one more press, in the queue and in the owner's share of it.
WithinLimits(o) ==
    /\ Cardinality(PressesUnderWay(Admitted)) < QueueLimit
    /\ Cardinality(PressesUnderWay(LibraryRuns(o))) < UserConcurrency

RowsOf(o, key, i) ==
    {r \in Admitted : row[r].owner = o /\ row[r].key = key /\ row[r].position = i}

\* Write the rows of the runs that f maps to their new rows, each with its reservation.
Insert(f) ==
    /\ row' = [r \in Runs |-> IF r \in DOMAIN f THEN f[r] ELSE row[r]]
    /\ stage' = [r \in Runs |-> IF r \in DOMAIN f THEN "waiting" ELSE stage[r]]
    /\ bill' = [r \in Runs |-> IF r \in DOMAIN f THEN "reserved" ELSE bill[r]]
    /\ UNCHANGED <<charged, principal, today>>

\* The new rows take identities never used, free ones for unpriced payloads.
FreshFor(r, payload) == r \in Runs \ Admitted /\ (r \in FreeRuns <=> Price[payload] = 0)

NewRow(q, i) ==
    [owner |-> q.owner, key |-> q.key, position |-> i, hash |-> Hash(q.key, i, q.parts[i]),
     batch |-> IF q.fanned THEN q.key ELSE None, payload |-> q.parts[i],
     retryOf |-> None, day |-> today]

\* Fault: every part of a request is new.
MissingAll(q) == DOMAIN q.parts

\* The parts of a request that no run answers for yet.
Missing(q) == {i \in DOMAIN q.parts : RowsOf(q.owner, q.key, i) = {}}

SameAsBefore(q) ==
    \A i \in DOMAIN q.parts : \A r \in RowsOf(q.owner, q.key, i) :
        row[r].hash = Hash(q.key, i, q.parts[i])

\* A press.  A run that already holds the key of a part answers for it, if it was
\* admitted for the same payload; the others are admitted, all or none.  Only the
\* first part's key tells a repeated press, which the limits do not stop.
Press(q) ==
    LET missing == Missing(q) IN
    /\ SameAsBefore(q)
    /\ 1 \in missing => WithinLimits(q.owner)
    /\ CanReserve(q.owner, SumFunction([i \in missing |-> Price[q.parts[i]]]))
    /\ \E id \in {f \in [missing -> Runs] : IsInjective(f)} :
          /\ \A i \in missing : FreshFor(id[i], q.parts[i])
          /\ Insert([r \in {id[i] : i \in missing} |->
                        NewRow(q, CHOOSE i \in missing : id[i] = r)])
    /\ answered' = answered \cup {q}

\* An explicit retry of a stopped run: a new run over the same frozen context, in the
\* same press, with a reservation of its own.
Retry(old, key) ==
    LET o == row[old].owner IN
    /\ stage[old] \in Stopped
    /\ RowsOf(o, key, 1) = {}
    /\ WithinLimits(o)
    /\ CanReserve(o, Price[row[old].payload])
    /\ \E r \in Runs :
          /\ FreshFor(r, row[old].payload)
          /\ Insert([x \in {r} |-> [row[old] EXCEPT !.key = key, !.position = 1,
                                                  !.retryOf = old, !.day = today]])
    /\ UNCHANGED answered

-----------------------------------------------------------------------------
(* What becomes of the runs: the moves RunContract allows, with their amounts *)

To(r, s, b) == stage' = [stage EXCEPT ![r] = s] /\ bill' = [bill EXCEPT ![r] = b]

Keep == UNCHANGED <<row, principal, today, answered>>

Begin(r) == stage[r] = "waiting" /\ To(r, "executing", bill[r]) /\ UNCHANGED charged /\ Keep

\* Cancelling releases a waiting run and only asks an executing one to stop.
Cancel(r) ==
    /\ \/ stage[r] = "waiting" /\ To(r, "cancelled", "released")
       \/ stage[r] = "executing" /\ To(r, "cancelling", bill[r])
    /\ UNCHANGED charged /\ Keep

\* The provider's usage prices the run; without it the bill stays uncertain.  An
\* unpriced run costs nothing.
Complete(r) ==
    /\ stage[r] = "executing"
    /\ \/ /\ To(r, "completed", "confirmed")
          /\ \E c \in IF r \in FreeRuns THEN {0} ELSE 0..MaxCharge :
                charged' = [charged EXCEPT ![r] = c]
       \/ r \notin FreeRuns /\ To(r, "completed", "uncertain") /\ UNCHANGED charged
    /\ Keep

\* A run that stops keeps its reservation held, unless the provider was never called.
Stop(r) ==
    /\ \/ stage[r] = "executing" /\ \E b \in {"uncertain", "released"} : To(r, "failed", b)
       \/ stage[r] = "executing" /\ To(r, "interrupted", "uncertain")
       \/ stage[r] = "cancelling" /\ \E b \in {"uncertain", "released"} : To(r, "cancelled", b)
    /\ UNCHANGED charged /\ Keep

\* The operator closes an uncertain bill with the amount of the provider's records.
Reconcile(r) ==
    /\ bill[r] = "uncertain"
    /\ To(r, stage[r], "confirmed")
    /\ \E c \in 0..MaxCharge : charged' = [charged EXCEPT ![r] = c]
    /\ Keep

-----------------------------------------------------------------------------
(* Around admission *)

\* A guest who signs in brings the guest's library to the account, once.
ClaimLibrary(o, p) ==
    /\ principal[o] \in Guests /\ p \notin Guests
    /\ principal' = [principal EXCEPT ![o] = p]
    /\ UNCHANGED <<row, stage, bill, charged, today, answered>>

Midnight ==
    /\ today < MaxDay
    /\ today' = today + 1
    /\ UNCHANGED <<row, stage, bill, charged, principal, answered>>

Next ==
    \/ \E q \in Requests : Press(q)
    \/ \E r \in Runs :
          \/ \E key \in Keys : Retry(r, key)
          \/ Begin(r) \/ Cancel(r) \/ Complete(r) \/ Stop(r) \/ Reconcile(r)
    \/ \E o \in Owners, p \in Principals : ClaimLibrary(o, p)
    \/ Midnight

Spec == Init /\ [][Next]_vars

-----------------------------------------------------------------------------
(* Safety *)

\* What a run may cost at the rates it was admitted at, if it is of the days D.
Bounded(r, D) ==
    IF row[r].day \notin D THEN 0
    ELSE IF Outstanding(r) THEN Price[row[r].payload]
    ELSE IF bill[r] # "confirmed" THEN 0
    ELSE IF charged[r] < Price[row[r].payload] THEN charged[r]
    ELSE Price[row[r].payload]

Liability(S, D) == SumFunction([r \in S |-> Bounded(r, D)])

\* No day's admissions cost more than a day's budget, at the rates they were admitted
\* at, and neither do all the calls still unsettled together, of whatever day.
DayBudget ==
    /\ \A d \in 0..today : Liability(Admitted, {d}) <= GlobalDaily
    /\ Liability({r \in Admitted : Outstanding(r)}, 0..today) <= GlobalDaily

\* No month's admissions cost more than a month's budget.
MonthBudget ==
    \A m \in {MonthOf[d] : d \in 0..today} :
        Liability(Admitted, {d \in 0..today : MonthOf[d] = m}) <= GlobalMonthly

HeldWith(o) == {r \in Admitted : principal[row[r].owner] = principal[o]}

\* An account that admits a priced run is within its allowance, whichever of its
\* libraries the earlier runs belong to and however it came by them (runs.ts:37-90).
AccountBudget ==
    [][\A o \in Owners :
          (\E r \in Runs \ FreeRuns : stage[r] = "absent" /\ stage'[r] # "absent" /\ row'[r].owner = o) =>
              CommittedSpend(HeldWith(o), {today})' <= UserDaily]_vars

\* However presses and retries interleave, the presses under way stay within the
\* queue and within each library's share; an account has a share for each library it holds.
QueueBounded ==
    /\ Cardinality(PressesUnderWay(Admitted)) <= QueueLimit
    /\ \A o \in Owners : Cardinality(PressesUnderWay(LibraryRuns(o))) <= UserConcurrency

\* A request that was answered has exactly one run for each of its parts.
AnsweredWhole ==
    \A q \in answered : \A i \in DOMAIN q.parts :
        \E r \in RowsOf(q.owner, q.key, i) :
            /\ RowsOf(q.owner, q.key, i) = {r}
            /\ row[r].payload = q.parts[i] /\ row[r].retryOf = None

\* A retry never runs beside the run it replaces, nor after it succeeded.
RetriesFollow ==
    \A r \in Admitted : row[r].retryOf # None =>
        /\ stage[row[r].retryOf] \in Stopped
        /\ row[row[r].retryOf].payload = row[r].payload
        /\ row[row[r].retryOf].owner = row[r].owner

\* Where no two requests share owner, key and first part: what is under way never exceeds the queue or a library's share of it;
\* every part of an answered press has its own run, and a retry follows what it replaces (runs.ts:92-246).
\* A fan-out over more cards under an old key passes the limits, as runs.ts:676 takes it for a repetition;
\* an instance therefore has no two such requests.
PressesWhole == QueueBounded /\ AnsweredWhole /\ RetriesFollow

\* What is admitted never costs more than the budgets, however late its calls are settled (runs.ts:37-90).
Budgets == DayBudget /\ MonthBudget

=============================================================================
