------------------------------ MODULE Staleness ------------------------------
(***************************************************************************)
(* Which machines are stale, and which one press of Run all due reruns     *)
(* (shared/machine-staleness.ts, machines.ts), beside the edits that make  *)
(* them so and the presses that freeze what they send (workspace.ts,       *)
(* server/services/runs.ts).                                               *)
(*                                                                         *)
(* A block is an authored card or a card of an answer: <<r, 0>> is the     *)
(* answer of the r-th run, <<r, i>> the i-th card it was split into.  That *)
(* a feed from a tray follows it from press to press is shown in Table;    *)
(* here such a feed names the machine.                                     *)
(***************************************************************************)
EXTENDS Integers, SequencesExt, FiniteSetsExt

CONSTANTS
    Machines, Cards,
    Slots,          \* machine -> its slots, in the order of its template
    FedAtFirst, StackAtFirst, RunsAtFirst,  \* the feeds, stacked cards and runs of the brane at first
    Kept,           \* machines kept current
    Splits,         \* machines whose answers become cards
    Offered, Drawn, \* bounds: the feeds and the arrows made by hand
    MaxModels, MaxRuns, MaxEdits    \* bounds

VARIABLES
    version,    \* of each card's and machine's text
    stack,      \* the cards of the one group, in order
    feeds,      \* in the order they were made
    arrows,     \* between cards
    runs,       \* oldest first
    chain,      \* Run all due: machines left to press, runs waited for, phase
    edits

vars == <<version, stack, feeds, arrows, runs, chain, edits>>

Sources == [kind : {"card"}, of : Cards] \cup [kind : {"tray"}, of : Machines] \cup [kind : {"stack"}, of : {"cards"}]
Feeds == [from : Sources, to : Machines, slot : {"x", "y"}, mode : {"together", "each"}]

Init ==
    /\ version = [b \in Cards \cup Machines |-> 0]
    /\ stack = StackAtFirst /\ feeds = FedAtFirst /\ arrows = {} /\ runs = RunsAtFirst
    /\ chain = [left |-> <<>>, waits |-> {}, phase |-> "idle"] /\ edits = 0

-----------------------------------------------------------------------------
(* Runs and presses *)

RunsOf(m) == {r \in DOMAIN runs : runs[r].by = m}
Running(m) == \E r \in RunsOf(m) : runs[r].status = "running"

\* The last press: the newest run at each position of its batch, by position.
Pressed(m) ==
    LET press == runs[Max(RunsOf(m))].press
        at(p) == {r \in RunsOf(m) : runs[r].press = press /\ runs[r].position = p}
    IN [p \in 1..Cardinality({q \in DOMAIN runs : at(q) # {}}) |-> Max(at(p))]

\* A comparison froze the same inputs for each of its models.
Batch(m) == IF Cardinality({runs[r].model : r \in ToSet(Pressed(m))}) > 1 THEN SubSeq(Pressed(m), 1, 1) ELSE Pressed(m)

Answer(r) == IF runs[r].parts = 0 THEN <<<<r, 0>>>> ELSE [i \in 1..runs[r].parts |-> <<r, i>>]

Tray(m) == IF RunsOf(m) = {} THEN <<>> ELSE FlattenSeq([p \in DOMAIN Pressed(m) |-> Answer(Pressed(m)[p])])

\* The sources the workspace lists for a run: once for its output, and once for each card of it.
Derivations(r) ==
    FlattenSeq([c \in 1..runs[r].parts + 1 |->
                  [i \in DOMAIN runs[r].inputs |-> [input |-> runs[r].inputs[i], output |-> <<r, c - 1>>]]])

FrozenOf(r) ==
    LET own == SelectSeq(Derivations(r), LAMBDA d : d.output = <<r, 0>>) IN [i \in DOMAIN own |-> own[i].input]

-----------------------------------------------------------------------------
(* What a press would send *)

Members(from) ==
    CASE from.kind = "card" -> <<from.of>> [] from.kind = "stack" -> stack [] from.kind = "tray" -> Tray(from.of)

\* A card fed both alone and in a group fills the slot once, at its first feed.
FeedsInto(m, slot) == SelectSeq(feeds, LAMBDA f : f.to = m /\ f.slot = slot)
Fed(m, slot) ==
    LET all == FlattenSeq([i \in DOMAIN FeedsInto(m, slot) |-> Members(FeedsInto(m, slot)[i].from)])
    IN FoldLeft(LAMBDA seen, b : IF b \in ToSet(seen) THEN seen ELSE Append(seen, b), <<>>, all)

\* An answer never changes: its version is none, and that it is the same card suffices.
Current(b) == IF b \in Cards THEN version[b] ELSE -1
Inputs(m) ==
    FlattenSeq([s \in DOMAIN Slots[m] |->
                  LET fed == Fed(m, Slots[m][s])
                  IN [i \in DOMAIN fed |-> [slot |-> Slots[m][s], block |-> fed[i], version |-> Current(fed[i])]]])

MissingSlots(m) == {s \in ToSet(Slots[m]) : Fed(m, s) = <<>>}

EachSlots(m) == {s \in ToSet(Slots[m]) : \E f \in ToSet(FeedsInto(m, s)) : f.mode = "each"}

\* One list of inputs, or one for each card of the slot fed each.
Parts(m) ==
    LET apart == SelectSeq(Inputs(m), LAMBDA i : i.slot \in EachSlots(m))
    IN IF EachSlots(m) = {} THEN <<Inputs(m)>>
       ELSE [p \in DOMAIN apart |-> SelectSeq(Inputs(m), LAMBDA i : i.slot \notin EachSlots(m) \/ i = apart[p])]

SentArrows(inputs) == LET blocks == {i.block : i \in ToSet(inputs)} IN {a \in arrows : {a[1], a[2]} \subseteq blocks}

-----------------------------------------------------------------------------
(* Staleness *)

\* Fault: the arrows between the sources are not looked at.
ArrowsIgnored(m) == FALSE

ArrowsChanged(m) ==
    FlattenSeq([p \in DOMAIN Parts(m) |-> SetToSeq(SentArrows(Parts(m)[p]))])
      # FlattenSeq([p \in DOMAIN Batch(m) |-> SetToSeq(runs[Batch(m)[p]].arrows)])

OfSlot(inputs, slot) == SelectSeq(inputs, LAMBDA i : i.slot = slot)
ChangedSlots(m) ==
    {s \in ToSet(Slots[m]) :
       FlattenSeq([p \in DOMAIN Parts(m) |-> OfSlot(Parts(m)[p], s)])
         # FlattenSeq([p \in DOMAIN Batch(m) |-> OfSlot(FrozenOf(Batch(m)[p]), s)])}

TemplateChanged(m) == runs[Max(RunsOf(m))].version # version[m]

Stale(m) == RunsOf(m) # {} /\ (TemplateChanged(m) \/ ChangedSlots(m) # {} \/ ArrowsChanged(m))

-----------------------------------------------------------------------------
(* Chains *)

ProducersOf(m) ==
    LET into == SelectSeq(feeds, LAMBDA f : f.to = m)
        cards == FlattenSeq([i \in DOMAIN into |-> Members(into[i].from)])
    IN FoldLeft(LAMBDA seen, b : IF b \in Cards \/ runs[b[1]].by \in ToSet(seen) THEN seen
                                 ELSE Append(seen, runs[b[1]].by), <<>>, cards)

\* Every machine upstream, a producer before what it feeds; there are no loops.
RECURSIVE Visit(_, _)
Visit(ordered, m) ==
    IF m \in ToSet(ordered) THEN ordered
    ELSE Append(FoldLeft(LAMBDA o, p : Visit(o, p), ordered, ProducersOf(m)), m)

Upstream(m) == SelectSeq(Visit(<<>>, m), LAMBDA n : n # m)
Waited(m) == {n \in ToSet(Upstream(m)) : Stale(n) \/ Running(n)}

\* Every machine upstream that is stale or running, or fed by one that will rerun.
Rerun(m) ==
    FoldLeft(LAMBDA again, n : IF n \in Waited(m) \/ ToSet(ProducersOf(n)) \cap again # {} THEN again \cup {n} ELSE again,
             {}, Upstream(m))

ChainOf(m) == IF Waited(m) = {} THEN {m} ELSE Rerun(m) \cup {m}
WaitsRunning(m) == \E n \in ToSet(Upstream(m)) : Running(n)

Due == {m \in Kept : Waited(m) # {} \/ Stale(m)}

FeedingOrder(wanted) == SelectSeq(FoldLeft(LAMBDA o, m : Visit(o, m), <<>>, SetToSeq(wanted)), LAMBDA m : m \in wanted)

DueRun == FeedingOrder(UNION {ChainOf(m) : m \in Due})

-----------------------------------------------------------------------------
(* Presses *)

\* The server refuses an empty slot and an answer that is not final.
Final(b) == IF b \in Cards THEN TRUE ELSE runs[b[1]].status = "completed"
MayPress(m, models) ==
    /\ MissingSlots(m) = {} /\ (models > 1 => EachSlots(m) = {})
    /\ \A i \in ToSet(Inputs(m)) : Final(i.block)
    /\ Len(runs) + (IF models > 1 THEN models ELSE Len(Parts(m))) <= MaxRuns

Admitted(m, models) ==
    LET parts == IF models > 1 THEN [p \in 1..models |-> Inputs(m)] ELSE Parts(m)
    IN [p \in DOMAIN parts |->
          [by |-> m, press |-> Len(runs) + 1, position |-> p, model |-> IF models > 1 THEN p ELSE 1,
           version |-> version[m], inputs |-> parts[p], arrows |-> SentArrows(parts[p]),
           status |-> "running", parts |-> 0]]

\* What is done by hand ends what Run all due had achieved.
Undone ==
    chain' = [chain EXCEPT !.phase = CASE @ = "finished" -> "idle" [] @ = "going" -> "disturbed" [] OTHER -> @]

FeedsSome(m) == \E f \in ToSet(feeds) : f.from = [kind |-> "tray", of |-> m]

\* The lever; a comparison's answers lie loose, so only of a machine that feeds no other.
Press(m, models) ==
    /\ MayPress(m, models) /\ ~WaitsRunning(m) /\ (models > 1 => ~FeedsSome(m) /\ m \notin Splits)
    /\ runs' = runs \o Admitted(m, models) /\ Undone
    /\ UNCHANGED <<version, stack, feeds, arrows, edits>>

\* A run that stopped is admitted again with all it had frozen, at its place in its press.
Retry(r) ==
    /\ runs[r].status = "failed" /\ Len(runs) < MaxRuns /\ ~FeedsSome(runs[r].by)
    /\ r \in ToSet(Pressed(runs[r].by))
    /\ runs' = Append(runs, [runs[r] EXCEPT !.status = "running"]) /\ Undone
    /\ UNCHANGED <<version, stack, feeds, arrows, edits>>

Complete(r) ==
    /\ runs[r].status = "running"
    /\ \E parts \in {0} \cup (IF runs[r].by \in Splits THEN {2} ELSE {}) :
         runs' = [runs EXCEPT ![r].status = "completed", ![r].parts = parts]
    /\ UNCHANGED <<version, stack, feeds, arrows, chain, edits>>

Fail(r) ==
    /\ runs[r].status = "running" /\ runs' = [runs EXCEPT ![r].status = "failed"]
    /\ UNCHANGED <<version, stack, feeds, arrows, chain, edits>>

RunDue ==
    /\ chain.phase \in {"idle", "finished", "stopped"} /\ Due # {} /\ \A m \in Due : ~WaitsRunning(m)
    /\ chain' = [left |-> DueRun, waits |-> {}, phase |-> "going"]
    /\ UNCHANGED <<version, stack, feeds, arrows, runs, edits>>

\* runInOrder: the next machine is pressed once the runs of the one before have ended; one that
\* cannot be run, or did not finish, stops the rest.
Step ==
    /\ chain.phase \in {"going", "disturbed"} /\ \A r \in chain.waits : runs[r].status # "running"
    /\ IF \E r \in chain.waits : runs[r].status = "failed"
       THEN chain' = [left |-> <<>>, waits |-> {}, phase |-> "stopped"] /\ UNCHANGED runs
       ELSE IF chain.left = <<>>
       THEN chain' = [chain EXCEPT !.waits = {}, !.phase = IF @ = "going" THEN "finished" ELSE "idle"] /\ UNCHANGED runs
       ELSE IF ~MayPress(Head(chain.left), 1)
       THEN chain' = [left |-> <<>>, waits |-> {}, phase |-> "stopped"] /\ UNCHANGED runs
       ELSE /\ runs' = runs \o Admitted(Head(chain.left), 1)
            /\ chain' = [chain EXCEPT !.left = Tail(@), !.waits = (Len(runs) + 1)..Len(runs')]
    /\ UNCHANGED <<version, stack, feeds, arrows, edits>>

-----------------------------------------------------------------------------
(* Edits *)

Edited == edits < MaxEdits /\ edits' = edits + 1 /\ Undone

EditText(b) ==
    Edited /\ version' = [version EXCEPT ![b] = @ + 1] /\ UNCHANGED <<stack, feeds, arrows, runs>>

Restack(c) ==
    /\ Edited
    /\ stack' = IF c \in ToSet(stack) THEN SelectSeq(stack, LAMBDA d : d # c) ELSE Append(stack, c)
    /\ stack' # <<>> /\ UNCHANGED <<version, feeds, arrows, runs>>

ClosesLoop(from, m) == \E b \in ToSet(Members(from)) \ Cards : runs[b[1]].by \in {m} \cup {n \in Machines : m \in ToSet(Upstream(n))}

AddFeed(f) ==
    /\ Edited /\ f.slot \in ToSet(Slots[f.to]) /\ f.mode = "together" /\ Members(f.from) # <<>> /\ ~ClosesLoop(f.from, f.to)
    /\ \A g \in ToSet(feeds) : g.from # f.from \/ g.to # f.to \/ g.slot # f.slot
    /\ IF f.from.kind = "tray" THEN Cardinality({runs[r].model : r \in ToSet(Pressed(f.from.of))}) = 1 ELSE TRUE
    /\ feeds' = Append(feeds, f) /\ UNCHANGED <<version, stack, arrows, runs>>

RemoveFeed(i) == Edited /\ feeds' = RemoveAt(feeds, i) /\ UNCHANGED <<version, stack, arrows, runs>>

\* Only a group is fed each, into one slot of a machine.
SetMode(i) ==
    /\ Edited
    /\ \/ feeds[i].mode = "each" /\ feeds' = [feeds EXCEPT ![i].mode = "together"]
       \/ /\ feeds[i].mode = "together" /\ feeds[i].from.kind = "stack" /\ EachSlots(feeds[i].to) \subseteq {feeds[i].slot}
          /\ feeds' = [feeds EXCEPT ![i].mode = "each"]
    /\ UNCHANGED <<version, stack, arrows, runs>>

Relate(a) ==
    /\ Edited
    /\ arrows' = IF a \in arrows THEN arrows \ {a} ELSE arrows \cup {a}
    /\ UNCHANGED <<version, stack, feeds, runs>>

Next ==
    \/ \E m \in Machines : \E models \in 1..MaxModels : Press(m, models)
    \/ \E r \in DOMAIN runs : Retry(r) \/ Complete(r) \/ Fail(r)
    \/ RunDue \/ Step
    \/ \E b \in Cards \cup Machines : EditText(b)
    \/ \E c \in Cards : Restack(c)
    \/ \E f \in Offered : AddFeed(f)
    \/ \E i \in DOMAIN feeds : RemoveFeed(i) \/ SetMode(i)
    \/ \E a \in Drawn : Relate(a)

Spec == Init /\ [][Next]_vars

-----------------------------------------------------------------------------
(* Properties *)

TypeOK ==
    /\ version \in [Cards \cup Machines -> 0..MaxEdits] /\ ToSet(stack) \subseteq Cards
    /\ \A f \in ToSet(feeds) : f \in Feeds /\ f.slot \in ToSet(Slots[f.to])
    /\ arrows \subseteq Cards \X Cards /\ edits \in 0..MaxEdits
    /\ Len(runs) <= MaxRuns
    /\ \A r \in DOMAIN runs : runs[r].status \in {"running", "completed", "failed"} /\ runs[r].parts \in {0, 2}
                             /\ {i.slot : i \in ToSet(runs[r].inputs)} = ToSet(Slots[runs[r].by])
    /\ ToSet(chain.left) \subseteq Machines /\ chain.waits \subseteq DOMAIN runs
    /\ chain.phase \in {"idle", "going", "disturbed", "finished", "stopped"}

\* What the server would freeze if the machine were pressed now, and what its last press froze
\* for a model.
Sends(m) == [p \in DOMAIN Parts(m) |-> <<Parts(m)[p], SentArrows(Parts(m)[p])>>]
Froze(m) ==
    LET first == SelectSeq(Pressed(m), LAMBDA r : runs[r].model = 1)
    IN [p \in DOMAIN first |-> <<runs[first[p]].inputs, runs[first[p]].arrows>>]
Differs(m) == runs[Max(RunsOf(m))].version # version[m] \/ Sends(m) # Froze(m)

\* No machine is asked to run again for nothing: a stale one would send something else.
StaleIsTrue == \A m \in Machines : Stale(m) => Differs(m)

\* A machine of several slots that is not stale would send exactly what it sent.
FreshIsTrue == \A m \in Machines : RunsOf(m) # {} /\ Differs(m) /\ Len(Slots[m]) > 1 => Stale(m)

\* One press of Run all due, if every run finishes and nothing is changed meanwhile, leaves nothing due.
LeavesNoneDue == chain.phase = "finished" => Due = {}

\* What is shown stale, what is not, in a machine of several slots, and what is due are what the next
\* presses would make of it.
Exact == StaleIsTrue /\ FreshIsTrue /\ LeavesNoneDue

=============================================================================
