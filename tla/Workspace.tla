-------------------------------- MODULE Workspace --------------------------------
(***************************************************************************)
(* The workspace controller of one brane (services/workspace.ts): when it  *)
(* reads, which of its reads it shows, how it saves the title, and what    *)
(* closing and opening the brane do to all of these.  Saves of texts and   *)
(* cards, submissions and run reports are modules of their own.            *)
(*                                                                         *)
(* What is read has a number that grows with every change to it.           *)
(***************************************************************************)
EXTENDS Naturals, Sequences, FiniteSets

CONSTANTS
    Kinds,          \* answers asked for one thing at a time: estimate, lineage, inspected, previewed
    Things,         \* what they may be asked for
    Titles,         \* what may be typed as the title
    MaxTypings, MaxReads, MaxAsks, MaxOpens, MaxFails, MaxChanges, MaxBudgets   \* bounds

ASSUME WorkspaceAssumption ==
    /\ 0 \notin Titles
    /\ {MaxTypings, MaxReads, MaxAsks, MaxOpens, MaxFails, MaxChanges, MaxBudgets} \subseteq Nat

NoTitle == 0
Nothing == 0
NotYet == 0

VARIABLES
    server,     \* the brane: its title and number, and the allowance's number
    page,       \* the controller: open, epoch, generation of reads, what is shown
    reads,      \* reads of the brane under way
    draft,      \* the title in the recoverable draft
    typed,      \* the title last typed,
    typings,    \* history: how often one was typed,
    outdated,   \* and whether the last was taken for saved while another was, or was to be, the brane's
    saver,      \* the title command: phase, title, the epoch it began in, the read it waits for
    stray,      \* titles closed controllers have sent and the server not yet applied, oldest first
    asked,      \* of each kind: what is wanted, its generation, what is shown, whether a timer runs
    answers,    \* asked for and not yet come
    budget,     \* the allowance: shown, reads under way, timer, whether its wait is over, what the last read found
    fails       \* requests refused or lost

vars == <<server, page, reads, draft, typed, typings, outdated, saver, stray, asked, answers, budget, fails>>

Fresh == [shown |-> NotYet, title |-> NoTitle, spent |-> NotYet]
Idle == [phase |-> "idle", title |-> NoTitle, epoch |-> 0, gen |-> 0]

Init ==
    /\ server = [title |-> NoTitle, number |-> 1, spent |-> 1]
    /\ page = [open |-> FALSE, epoch |-> 0, gen |-> 0, timer |-> FALSE, error |-> FALSE, shown |-> Fresh]
    /\ reads = {} /\ draft = NoTitle /\ typed = NoTitle /\ typings = 0 /\ outdated = FALSE
    /\ saver = Idle /\ stray = <<>>
    /\ asked = [k \in Kinds |-> [want |-> Nothing, gen |-> 0, shown |-> Nothing, timer |-> FALSE]]
    /\ answers = {} /\ fails = 0
    /\ budget = [shown |-> NotYet, reads |-> {}, timer |-> FALSE, rested |-> TRUE, count |-> 0, last |-> NotYet]

Valid(epoch) == page.open /\ page.epoch = epoch

-----------------------------------------------------------------------------
(* Reads of the brane *)

\* Fault: whichever read comes last is shown.
AnyRead(r) == Valid(r.epoch)

\* Only the read begun last is shown.
Newest(r) == Valid(r.epoch) /\ r.gen = page.gen

Begun == [gen |-> page.gen + 1, epoch |-> page.epoch, number |-> NotYet, title |-> NoTitle, spent |-> NotYet]
BeginRead == /\ page' = [page EXCEPT !.gen = @ + 1] /\ reads' = reads \cup {Begun}

\* A timer, a report, a command's end or another tab's change.
Refresh ==
    /\ page.open /\ Cardinality(reads) < MaxReads /\ page.gen < MaxAsks
    /\ BeginRead
    /\ UNCHANGED <<server, draft, typed, typings, outdated, saver, stray, asked, answers, budget, fails>>

Serve(r) ==
    /\ r.number = NotYet
    /\ reads' = (reads \ {r}) \cup {[r EXCEPT !.number = server.number, !.title = server.title, !.spent = server.spent]}
    /\ UNCHANGED <<server, page, draft, typed, typings, outdated, saver, stray, asked, answers, budget, fails>>

-----------------------------------------------------------------------------
(* The allowance *)

BudgetRead(b, epoch) == [n |-> b.count + 1, epoch |-> epoch, spent |-> NotYet]

\* It is read when runs are seen to have changed, not more often than its wait allows.
ReadBudget(b) ==
    IF b.timer \/ b.count >= MaxBudgets THEN b
    ELSE IF b.rested THEN [b EXCEPT !.reads = @ \cup {BudgetRead(b, page.epoch)}, !.rested = FALSE, !.count = @ + 1]
    ELSE [b EXCEPT !.timer = TRUE]

BudgetRests ==
    /\ ~budget.rested
    /\ budget' = IF budget.timer
                 THEN IF page.open THEN ReadBudget([budget EXCEPT !.timer = FALSE, !.rested = TRUE])
                      ELSE [budget EXCEPT !.timer = FALSE, !.rested = TRUE]
                 ELSE [budget EXCEPT !.rested = TRUE]
    /\ UNCHANGED <<server, page, reads, draft, typed, typings, outdated, saver, stray, asked, answers, fails>>

BudgetServed(q) ==
    /\ q.spent = NotYet
    /\ budget' = [budget EXCEPT !.reads = (@ \ {q}) \cup {[q EXCEPT !.spent = server.spent]},
                                !.last = IF q.n = budget.count THEN server.spent ELSE @]
    /\ UNCHANGED <<server, page, reads, draft, typed, typings, outdated, saver, stray, asked, answers, fails>>

\* Whichever answer comes is shown.
BudgetComes(q) ==
    /\ q.spent # NotYet
    /\ budget' = [budget EXCEPT !.reads = @ \ {q}, !.shown = IF Valid(q.epoch) THEN q.spent ELSE @]
    /\ UNCHANGED <<server, page, reads, draft, typed, typings, outdated, saver, stray, asked, answers, fails>>

-----------------------------------------------------------------------------
(* The title *)

\* The draft is cleared only if it is what was saved.
Unchanged(title) == draft = title

\* History: a title that is not the brane's, or will not be when all that was sent is applied.
Elsewise(title) == {server.title} \cup {stray[i] : i \in 1..Len(stray)} # {title}

\* The title command begins, or goes on, with the draft as it is and the brane as it is shown.
LoopWith(title, shown) ==
    IF title \in {NoTitle, shown.title}
    THEN draft' = NoTitle /\ saver' = Idle /\ outdated' = (outdated \/ (title # NoTitle /\ Elsewise(title)))
    ELSE /\ draft' = title /\ saver' = [phase |-> "sending", title |-> title, epoch |-> page.epoch, gen |-> 0]
         /\ UNCHANGED outdated

\* What the field shows.
Field == IF draft # NoTitle THEN draft ELSE page.shown.title

Type(title) ==
    /\ page.open /\ page.shown.shown # NotYet /\ title # Field
    /\ typings < MaxTypings /\ typings' = typings + 1
    /\ draft' = title /\ typed' = title /\ outdated' = FALSE
    /\ page' = [page EXCEPT !.timer = TRUE, !.error = FALSE]
    /\ UNCHANGED <<server, reads, saver, stray, asked, answers, budget, fails>>

\* The timer, leaving the field, Enter, or the button after an error; one command runs at a time.
SaveTitle ==
    /\ page.open /\ (page.timer \/ draft # NoTitle)
    /\ IF draft = NoTitle \/ page.shown.shown = NotYet
       THEN page' = [page EXCEPT !.timer = FALSE] /\ UNCHANGED <<draft, saver, outdated>>
       ELSE /\ page' = [page EXCEPT !.timer = FALSE, !.error = FALSE]
            /\ IF saver.phase # "idle" THEN UNCHANGED <<draft, saver, outdated>> ELSE LoopWith(draft, page.shown)
    /\ UNCHANGED <<server, reads, typed, typings, stray, asked, answers, budget, fails>>

\* What is sent is applied in the order it was sent.
Apply ==
    /\ IF stray # <<>>
       THEN /\ server' = [server EXCEPT !.title = stray[1], !.number = @ + 1]
            /\ stray' = [i \in 1..Len(stray) - 1 |-> stray[i + 1]] /\ UNCHANGED saver
       ELSE /\ saver.phase = "sending" /\ saver' = [saver EXCEPT !.phase = "applied"]
            /\ server' = [server EXCEPT !.title = saver.title, !.number = @ + 1] /\ UNCHANGED stray
    /\ UNCHANGED <<page, reads, draft, typed, typings, outdated, asked, answers, budget, fails>>

Refused ==
    /\ saver.phase = "sending" /\ fails < MaxFails /\ fails' = fails + 1
    /\ saver' = Idle /\ page' = [page EXCEPT !.error = TRUE]
    /\ UNCHANGED <<server, reads, draft, typed, typings, outdated, stray, asked, answers, budget>>

\* A save acknowledged is followed by a read.
Acknowledged ==
    /\ saver.phase = "applied"
    /\ BeginRead /\ saver' = [saver EXCEPT !.phase = "reading", !.gen = page.gen + 1]
    /\ UNCHANGED <<server, draft, typed, typings, outdated, stray, asked, answers, budget, fails>>

\* The command goes on when its read has come, whether or not that read was shown.
GoesOn(r, shown) ==
    IF saver.phase = "reading" /\ saver.gen = r.gen /\ Valid(r.epoch)
    THEN LoopWith(IF Unchanged(saver.title) THEN NoTitle ELSE draft, shown)
    ELSE UNCHANGED <<draft, saver, outdated>>

\* The first read shown starts the wait of a title typed or kept before it.
Arms(initial) == initial /\ draft # NoTitle

Come(r) ==
    /\ r.number # NotYet
    /\ reads' = reads \ {r}
    /\ LET shown == IF Newest(r) THEN [shown |-> r.number, title |-> r.title, spent |-> r.spent] ELSE page.shown
           initial == Newest(r) /\ page.shown.shown = NotYet
       IN /\ page' = [page EXCEPT !.shown = shown, !.timer = @ \/ Arms(initial)]
          /\ budget' = IF Newest(r) /\ ~initial /\ r.spent # page.shown.spent THEN ReadBudget(budget) ELSE budget
          /\ GoesOn(r, shown)
    /\ UNCHANGED <<server, typed, typings, stray, asked, answers, fails>>

\* A read that fails ends the command that waits for it, unless another was begun since.
Lost(r) ==
    /\ fails < MaxFails /\ fails' = fails + 1 /\ reads' = reads \ {r}
    /\ IF Newest(r) /\ saver.phase = "reading" /\ saver.gen = r.gen
       THEN saver' = Idle /\ page' = [page EXCEPT !.error = TRUE] /\ UNCHANGED <<draft, outdated>>
       ELSE GoesOn(r, page.shown) /\ UNCHANGED page
    /\ UNCHANGED <<server, typed, typings, stray, asked, answers, budget>>

-----------------------------------------------------------------------------
(* What is asked for one thing at a time *)

InTurn(a) == Valid(a.epoch) /\ a.gen = asked[a.kind].gen

\* An estimate waits for a pause in typing; the others are asked for at once.
Wanted(k, thing) ==
    [want |-> thing, gen |-> asked[k].gen + 1, shown |-> Nothing, timer |-> k = "estimate" /\ thing # Nothing]

Ask(k) == [kind |-> k, of |-> asked'[k].want, gen |-> asked'[k].gen, epoch |-> page.epoch]

Want(k, thing) ==
    /\ page.open /\ asked[k].gen < MaxAsks /\ (thing = asked[k].want => k \in {"inspected", "previewed"})
    /\ asked' = [asked EXCEPT ![k] = Wanted(k, thing)]
    /\ answers' = IF thing = Nothing \/ k = "estimate" THEN answers ELSE answers \cup {Ask(k)}
    /\ UNCHANGED <<server, page, reads, draft, typed, typings, outdated, saver, stray, budget, fails>>

EstimateTimer(k) ==
    /\ page.open /\ asked[k].timer
    /\ asked' = [asked EXCEPT ![k].timer = FALSE] /\ answers' = answers \cup {Ask(k)}
    /\ UNCHANGED <<server, page, reads, draft, typed, typings, outdated, saver, stray, budget, fails>>

Answered(a, well) ==
    /\ well \/ fails < MaxFails
    /\ fails' = fails + (IF well THEN 0 ELSE 1)
    /\ answers' = answers \ {a}
    /\ asked' = IF well /\ InTurn(a) THEN [asked EXCEPT ![a.kind].shown = a.of] ELSE asked
    /\ UNCHANGED <<server, page, reads, draft, typed, typings, outdated, saver, stray, budget>>

-----------------------------------------------------------------------------
(* Opening and closing *)

\* Composer, continuation and title are read back; what is inspected or previewed is not.
Kept(k) == k \in {"estimate", "lineage"}

Open ==
    /\ ~page.open /\ page.epoch < MaxOpens
    /\ LET epoch == page.epoch + 1
       IN /\ page' = [open |-> TRUE, epoch |-> epoch, gen |-> 1, timer |-> FALSE, error |-> FALSE, shown |-> Fresh]
          /\ reads' = reads \cup {[gen |-> 1, epoch |-> epoch, number |-> NotYet, title |-> NoTitle, spent |-> NotYet]}
          /\ asked' = [k \in Kinds |-> IF Kept(k) THEN Wanted(k, asked[k].want)
                                       ELSE [want |-> Nothing, gen |-> 0, shown |-> Nothing, timer |-> FALSE]]
          /\ answers' = answers \cup {[kind |-> k, of |-> asked'[k].want, gen |-> asked'[k].gen, epoch |-> epoch] :
                                        k \in {l \in Kinds \cap {"lineage"} : asked[l].want # Nothing}}
    /\ budget' = [budget EXCEPT !.shown = NotYet, !.timer = FALSE, !.rested = TRUE, !.count = @ + 1,
                                !.reads = @ \cup {BudgetRead(budget, page.epoch + 1)}]
    /\ UNCHANGED <<server, draft, typed, typings, outdated, saver, stray, fails>>

\* What was sent may still be applied; its controller does nothing more.
Close ==
    /\ page.open
    /\ page' = [page EXCEPT !.open = FALSE, !.timer = FALSE]
    /\ stray' = IF saver.phase = "sending" THEN Append(stray, saver.title) ELSE stray
    /\ saver' = Idle /\ asked' = [k \in Kinds |-> [asked[k] EXCEPT !.timer = FALSE]]
    /\ UNCHANGED <<server, reads, draft, typed, typings, outdated, answers, budget, fails>>

\* A run, another tab or another device changes the brane.
Change ==
    /\ server.number <= MaxChanges
    /\ server' = [server EXCEPT !.number = @ + 1, !.spent = @ + 1]
    /\ UNCHANGED <<page, reads, draft, typed, typings, outdated, saver, stray, asked, answers, budget, fails>>

Next ==
    \/ Refresh \/ SaveTitle \/ Apply \/ Refused \/ Acknowledged \/ BudgetRests \/ Open \/ Close \/ Change
    \/ \E r \in reads : Serve(r)
    \/ \E r \in reads : Come(r)
    \/ \E r \in reads : Lost(r)
    \/ \E q \in budget.reads : BudgetServed(q)
    \/ \E q \in budget.reads : BudgetComes(q)
    \/ \E title \in Titles : Type(title)
    \/ \E k \in Kinds, thing \in Things \cup {Nothing} : Want(k, thing)
    \/ \E k \in Kinds : EstimateTimer(k)
    \/ \E a \in answers, well \in BOOLEAN : Answered(a, well)

\* The clock runs, the replica applies what it was sent, and requests are answered or time out.
Fairness ==
    /\ WF_vars(page.timer /\ SaveTitle) /\ WF_vars(Apply) /\ WF_vars(Acknowledged)
    /\ WF_vars(\E r \in reads : Serve(r)) /\ WF_vars(\E r \in reads : Come(r))

Spec == Init /\ [][Next]_vars
FairSpec == Spec /\ Fairness

-----------------------------------------------------------------------------
(* Properties *)

TypeOK ==
    /\ server \in [title : Titles \cup {NoTitle}, number : Nat, spent : Nat]
    /\ page \in [open : BOOLEAN, epoch : Nat, gen : Nat, timer : BOOLEAN, error : BOOLEAN,
                 shown : [shown : Nat, title : Titles \cup {NoTitle}, spent : Nat]]
    /\ reads \subseteq [gen : Nat, epoch : 1..page.epoch, number : Nat, title : Titles \cup {NoTitle}, spent : Nat]
    /\ {draft, typed} \subseteq Titles \cup {NoTitle} /\ typings \in 0..MaxTypings /\ outdated \in BOOLEAN
    /\ saver \in [phase : {"idle", "sending", "applied", "reading"}, title : Titles \cup {NoTitle}, epoch : Nat, gen : Nat]
    /\ stray \in Seq(Titles)
    /\ asked \in [Kinds -> [want : Things \cup {Nothing}, gen : Nat, shown : Things \cup {Nothing}, timer : BOOLEAN]]
    /\ answers \subseteq [kind : Kinds, of : Things, gen : Nat, epoch : 1..page.epoch]
    /\ budget \in [shown : Nat, reads : SUBSET [n : Nat, epoch : 1..page.epoch, spent : Nat], timer : BOOLEAN,
                   rested : BOOLEAN, count : Nat, last : Nat]
    /\ fails \in 0..MaxFails

\* The title last typed is never lost: it is the brane's, or still in the draft, across saves that overtake
\* typing, titles typed back, refusals, reads that are passed over, and closing and opening.  Excepted is a title
\* typed back to one that was shown out of date, which the code takes for saved (workspace.ts:369-408, :394).
TitleKept == typed # NoTitle /\ ~outdated => typed \in {draft, server.title}

\* What is shown never goes back to an earlier brane (workspace.ts:410-437; 05-client-state.md:85).
NeverBack == page'.epoch = page.epoch => page'.shown.shown >= page.shown.shown

\* An estimate, a lineage, an inspection or a preview is of what is now asked for, whatever slower
\* answers come (workspace.ts:438-479, :1371-1399).
ShownIsWanted == \A k \in DOMAIN asked : asked[k].shown \in {Nothing, asked[k].want}

\* A title typed is saved in the end, unless the brane is closed, was never shown since its read failed, or
\* the author is told that the title was not saved (workspace.ts:356-408).
TitleSettles ==
    draft # NoTitle ~> (draft = NoTitle \/ page.error \/ ~page.open \/ (page.shown.shown = NotYet /\ fails > 0))

\* What is shown of the brane never goes back, a title typed is not lost but as TitleKept excepts, and what is
\* shown for one thing is what is wanted now (workspace.ts:197-560).
PageTrue == [][TitleKept' /\ ShownIsWanted' /\ NeverBack]_vars

=============================================================================
