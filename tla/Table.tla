-------------------------------- MODULE Table --------------------------------
(***************************************************************************)
(* The table of a brane: cards and their backs, groups, feeds and arrows,  *)
(* and what a press of a machine, an answer split into cards, Update, Keep *)
(* and Retry do to them (server/services/content.ts, feeds.ts, groups.ts,  *)
(* relations.ts, run-parts.ts and the layout half of runs.ts).             *)
(*                                                                         *)
(* A machine's tray is the newest of its outputs on the table, or its      *)
(* outputs in that one's group.  A press puts new outputs in the tray's    *)
(* place and the old ones on their backs; feeds, arrows and group places   *)
(* follow.  Every operation is one transaction over the tables below,      *)
(* which the database aborts whole if a statement breaks a constraint.     *)
(*                                                                         *)
(* The i-th part of the answer of run r is the card <<r, i, 1>>, its       *)
(* output <<r, 0, 1>>; <<r, i, 2>> is the same card on another brane.      *)
(***************************************************************************)
EXTENDS Integers, SequencesExt, FiniteSetsExt, Relation

CONSTANTS
    Machines, Cards,    \* machines and authored cards on the brane
    Slots,              \* slots of the machines
    OnTable,            \* the host of a card on no other's back, and no card itself
    MaxPlaced,          \* MAX_BRANE_PLACEMENTS
    MaxRuns,            \* bound: runs admitted
    MaxParts,           \* bound: cards of a split answer
    MaxEdits,           \* bound: feeds, arrows, groups and cards changed by hand
    MaxGroupings,       \* bound: groups made and changed by hand
    MaxCopies,          \* bound: cards shown on another brane
    MaxRetries          \* bound: runs retried

VARIABLES
    db,         \* the tables of the brane
    runs,       \* its runs, oldest first
    aborted,    \* whether the database aborted a transaction
    count       \* of edits, groupings, copies, retries

vars == <<db, runs, aborted, count>>

Authored == Machines \cup Cards
Outputs == {<<r, i, b>> : r \in 1..MaxRuns, i \in 0..MaxParts, b \in 1..2}
Output(r) == <<r, 0, 1>>
Brane(p) == IF p \in Authored THEN 1 ELSE p[3]
GroupIds == 1..(2 * MaxRuns + MaxGroupings + 1)

\* What a feed comes from: one card or one group.
Card(p) == [card |-> p, group |-> 0]
Group(g) == [card |-> OnTable, group |-> g]

TypeOK ==
    /\ db.place \subseteq Authored \cup Outputs
    /\ db.host \in [db.place -> db.place \cup {OnTable}]
    /\ DOMAIN db.groups \subseteq GroupIds
    /\ \A g \in DOMAIN db.groups : db.groups[g] # <<>> /\ ToSet(db.groups[g]) \subseteq db.place
    /\ \A f \in db.feeds :
         /\ f.to \in Machines \cap db.place /\ f.slot \in Slots /\ f.mode \in {"together", "each"}
         /\ \/ f.from.card \in db.place \ Machines /\ f.from.group = 0 /\ f.mode = "together"
            \/ f.from.card = OnTable /\ f.from.group \in DOMAIN db.groups
    /\ db.arrows \subseteq db.place \X db.place
    /\ \A r \in DOMAIN runs :
         /\ runs[r].by \in Machines \cup {OnTable}
         /\ runs[r].status \in {"running", "completed", "failed"}
    /\ aborted \in BOOLEAN
    /\ count \in [edits : 0..MaxEdits, groupings : 0..MaxGroupings, copies : 0..MaxCopies, retries : 0..MaxRetries]

Init ==
    /\ db = [place |-> Authored, host |-> [p \in Authored |-> OnTable], groups |-> <<>>,
             feeds |-> {}, arrows |-> {}, sound |-> TRUE]
    /\ runs = <<>> /\ aborted = FALSE
    /\ count = [edits |-> 0, groupings |-> 0, copies |-> 0, retries |-> 0]

-----------------------------------------------------------------------------
(* The tables *)

Lies(d, p) == p \in d.place /\ d.host[p] = OnTable
Members(d) == UNION {ToSet(d.groups[g]) : g \in DOMAIN d.groups}
GroupOf(d, p) == CHOOSE g \in DOMAIN d.groups : p \in ToSet(d.groups[g])
NewGroup(d) == Min(GroupIds \ DOMAIN d.groups)
Home(d) == {p \in d.place : Brane(p) = 1}

\* The triggers: a card on a back lies on one of its brane's table, with nothing on its own;
\* members and the ends of arrows lie on the table; a card is in one group.
Constraints(d) ==
    /\ \A p \in d.place : d.host[p] # OnTable =>
         Lies(d, d.host[p]) /\ Brane(d.host[p]) = Brane(p) /\ d.host[p] # p
    /\ \A p \in Members(d) : Lies(d, p) /\ Brane(p) = 1 /\ p \notin Machines
    /\ \A g, h \in DOMAIN d.groups : g # h => ToSet(d.groups[g]) \cap ToSet(d.groups[h]) = {}
    /\ \A a \in d.arrows : a[1] # a[2] /\ Lies(d, a[1]) /\ Lies(d, a[2])

Checked(d) == [d EXCEPT !.sound = @ /\ Constraints(d)]

Put(d, p, host) ==
    [d EXCEPT !.place = @ \cup {p}, !.host = [q \in d.place \cup {p} |-> IF q = p THEN host ELSE d.host[q]]]

WithGroup(d, g, list) ==
    [d EXCEPT !.groups = [h \in DOMAIN d.groups \cup {g} |-> IF h = g THEN list ELSE d.groups[h]]]

WithoutGroup(d, g) ==
    [d EXCEPT !.groups = [h \in DOMAIN d.groups \ {g} |-> d.groups[h]], !.feeds = {f \in @ : f.from.group # g}]

\* A group whose last member leaves goes, with its feeds.
OutOfGroups(d, cards) ==
    LET left == [g \in DOMAIN d.groups |-> SelectSeq(d.groups[g], LAMBDA p : p \notin cards)]
        kept == {g \in DOMAIN left : left[g] # <<>>}
    IN [d EXCEPT !.groups = [g \in kept |-> left[g]],
                 !.feeds = {f \in @ : f.from.group = 0 \/ f.from.group \in kept}]

\* Feeds of one source become another's; one it already gives is dropped.
MoveFeeds(d, from, to) ==
    LET rest == {f \in d.feeds : f.from # from}
        moved == {[f EXCEPT !.from = to, !.mode = IF to.group = 0 THEN "together" ELSE @] : f \in d.feeds \ rest}
        given(f) == \E e \in rest : e.from = f.from /\ e.to = f.to /\ e.slot = f.slot
    IN [d EXCEPT !.feeds = rest \cup {f \in moved : ~given(f)}]

\* The new card takes the old one's place in its group, its feeds and arrows; the old one and
\* what lay on its back go on the new one's.
MoveToBack(d, old, new) ==
    LET at(p) == IF p = old THEN new ELSE p
        moved == [d EXCEPT !.groups = [g \in DOMAIN @ |-> [i \in DOMAIN @[g] |-> at(@[g][i])]],
                           !.host = [p \in DOMAIN @ |-> IF p = old THEN new ELSE at(@[p])],
                           !.arrows = {<<at(a[1]), at(a[2])>> : a \in @}]
    IN Checked(MoveFeeds(moved, Card(old), Card(new)))

\* A card the tray has no place for goes on a back without its links.
Retire(d, p, host) ==
    [OutOfGroups(d, {p}) EXCEPT
       !.host = [q \in DOMAIN @ |-> IF p \in {q, @[q]} THEN host ELSE @[q]],
       !.feeds = {f \in @ : f.from # Card(p)},
       !.arrows = {a \in @ : p \notin {a[1], a[2]}}]

\* Removing a card takes what is on its back with it.
Without(d, p) ==
    LET gone == {q \in d.place : p \in {q, d.host[q]}}
        out == OutOfGroups(d, gone)
    IN [out EXCEPT !.place = @ \ gone, !.host = [q \in d.place \ gone |-> d.host[q]],
                   !.feeds = {f \in @ : f.from.card \notin gone /\ f.to \notin gone},
                   !.arrows = {a \in @ : {a[1], a[2]} \cap gone = {}}]

-----------------------------------------------------------------------------
(* Machines and their trays *)

\* The machine a card's run was pressed on, if it is still placed.
Producers(d, p) ==
    IF p \in Authored THEN {} ELSE {runs[p[1]].by} \cap d.place

SourceProducers(d, from) ==
    IF from.group = 0 THEN Producers(d, from.card)
    ELSE UNION {Producers(d, p) : p \in ToSet(d.groups[from.group])}

Dependencies(d) ==
    [m, to \in Machines |-> \E f \in d.feeds : f.to = to /\ m \in SourceProducers(d, f.from)]
Downstream(d) == TransitiveClosure(Dependencies(d), Machines)

ClosesLoop(d, from, to) ==
    \E m \in SourceProducers(d, from) : m = to \/ Downstream(d)[to, m]

\* The newest output still on a table, by run and then by part; a part is found by its card,
\* wherever it is placed.
TrayOutputs(d, m) ==
    LET mine == {p \in d.place \ Authored : runs[p[1]].by = m /\ Lies(d, p) /\ (p[2] = 0 => p[3] = 1)}
    IN {p \in mine : \A q \in mine : p[1] > q[1] \/ (p[1] = q[1] /\ p[2] <= q[2])}

\* A loose output of a batch stands with the batch's other loose outputs.
ComparedOutputs(d, p) ==
    LET loose == SelectSeq([r \in DOMAIN runs |-> Output(r)],
                           LAMBDA q : /\ Lies(d, q) /\ q \notin Members(d)
                                      /\ runs[q[1]].batch = runs[p[1]].batch)
    IN IF p[2] # 0 \/ runs[p[1]].batch = 0 \/ loose = <<>> THEN <<p>>
       ELSE SortSeq(loose, LAMBDA x, y : runs[x[1]].position < runs[y[1]].position)

NoTray == [members |-> <<>>, group |-> 0, owned |-> FALSE]

\* In a group that is the machine's own, or pressed each, the tray is its outputs there.
Tray(d, m, each, newest) ==
    IF newest \notin Members(d) THEN [NoTray EXCEPT !.members = ComparedOutputs(d, newest)]
    ELSE LET g == GroupOf(d, newest)
             of == SelectSeq(d.groups[g], LAMBDA p : p \notin Authored /\ runs[p[1]].by = m)
             owned == of = d.groups[g]
         IN [members |-> IF owned \/ each THEN of ELSE <<newest>>, group |-> g, owned |-> owned]

Room(d, n) == Cardinality(Home(d)) + n <= MaxPlaced

\* The outputs of a press, each in the place of a tray card or new beside the first.
Placed(d, tray, outs) ==
    LET each == FoldLeftDomain(
                  LAMBDA e, i : IF i <= Len(tray.members)
                                THEN MoveToBack(Put(e, outs[i], OnTable), tray.members[i], outs[i])
                                ELSE Put(e, outs[i], OnTable), d, outs)
        surplus == SubSeq(tray.members, Len(outs) + 1, Len(tray.members))
    IN FoldLeft(LAMBDA e, p : Retire(e, p, outs[1]), each, surplus)

\* One answer after the machine's own stack leaves no stack; what the stack fed, it feeds.
Unstack(d, tray, outs) ==
    IF tray.owned THEN WithoutGroup(MoveFeeds(d, Group(tray.group), Card(outs[1])), tray.group) ELSE d

\* Outputs pressed each join the tray's group, or make a stack, which feeds what the card fed.
Stack(d, tray, outs) ==
    IF tray.group # 0
    THEN WithGroup(d, tray.group, d.groups[tray.group] \o SubSeq(outs, Len(tray.members) + 1, Len(outs)))
    ELSE MoveFeeds(WithGroup(d, NewGroup(d), outs), Card(outs[1]), Group(NewGroup(d)))

\* Nothing is changed by a transaction the database aborts.
Commit(d, made) ==
    IF Checked(d).sound
    THEN db' = d /\ runs' = made /\ UNCHANGED aborted
    ELSE aborted' = TRUE /\ UNCHANGED <<db, runs>>

Press(m, each, n) ==
    /\ m \in db.place /\ Room(db, n) /\ Len(runs) + n <= MaxRuns
    /\ \E newest \in TrayOutputs(db, m) \cup (IF TrayOutputs(db, m) = {} THEN {OnTable} ELSE {}) :
         LET tray == IF newest = OnTable THEN NoTray ELSE Tray(db, m, each, newest)
             outs == [i \in 1..n |-> Output(Len(runs) + i)]
             placed == Placed(db, tray, outs)
             batch == IF each \/ n > 1 THEN Len(runs) + 1 ELSE 0
         IN Commit(IF each THEN Stack(placed, tray, outs) ELSE Unstack(placed, tray, outs),
                   runs \o [i \in 1..n |-> [by |-> m, batch |-> batch, position |-> i,
                                            press |-> Len(runs) + 1, status |-> "running"]])
    /\ UNCHANGED count

\* An answer is updated in its place by a run of no machine.
Update(p) ==
    /\ Lies(db, p) /\ p \in Home(db) \ Authored /\ Room(db, 1) /\ Len(runs) < MaxRuns
    /\ LET out == Output(Len(runs) + 1) IN
       Commit(MoveToBack(Put(db, out, OnTable), p, out),
              Append(runs, [by |-> OnTable, batch |-> 0, position |-> 1, press |-> Len(runs) + 1,
                            status |-> "running"]))
    /\ UNCHANGED count

\* A retry lands on the back the stopped output is on, or on the table, beside the machine.
Retry(r) ==
    /\ runs[r].status = "failed" /\ Room(db, 1) /\ Len(runs) < MaxRuns /\ count.retries < MaxRetries
    /\ LET host == IF Output(r) \in db.place THEN db.host[Output(r)] ELSE OnTable IN
       Commit(Put(db, Output(Len(runs) + 1), host),
              Append(runs, [runs[r] EXCEPT !.status = "running"]))
    /\ count' = [count EXCEPT !.retries = @ + 1]

-----------------------------------------------------------------------------
(* The end of a run *)

\* A card per item takes the output's place: in its group, or as a new one that feeds what the
\* answer fed.  The answer goes on the first one's back.
Laid(d, r, n) ==
    LET parts == [i \in 1..n |-> <<r, i, 1>>]
        placed == FoldLeft(LAMBDA e, p : Put(e, p, OnTable), d, parts)
        moved == MoveToBack(placed, Output(r), parts[1])
    IN IF parts[1] \in Members(moved)
       THEN LET g == GroupOf(moved, parts[1])
                at == CHOOSE i \in DOMAIN moved.groups[g] : moved.groups[g][i] = parts[1]
            IN WithGroup(moved, g, SubSeq(moved.groups[g], 1, at) \o Tail(parts)
                                   \o SubSeq(moved.groups[g], at + 1, Len(moved.groups[g])))
       ELSE MoveFeeds(WithGroup(moved, NewGroup(moved), parts), Card(parts[1]), Group(NewGroup(moved)))

\* An answer of several items is split unless its output has left the table or there is no
\* room, which keep it one card; the run completes all the same.
Complete(r, n, arrows) ==
    /\ runs[r].status = "running"
    /\ LET split == n > 1 /\ runs[r].by # OnTable /\ Lies(db, Output(r)) /\ Room(db, n)
           laid == Laid(db, r, n)
       IN Commit(IF split THEN [laid EXCEPT !.arrows = @ \cup {<<<<r, a[1], 1>>, <<r, a[2], 1>>>> : a \in arrows}] ELSE db,
                 [runs EXCEPT ![r].status = "completed"])
    /\ UNCHANGED count

Fail(r) ==
    /\ runs[r].status = "running"
    /\ runs' = [runs EXCEPT ![r].status = "failed"]
    /\ UNCHANGED <<db, aborted, count>>

\* Fault: the other answers are retired before their feeds are moved.
KeptLast(d, p, q) == MoveFeeds(Retire(d, q, p), Card(q), Card(p))

Kept(d, p, q) == Retire(MoveFeeds(d, Card(q), Card(p)), q, p)

\* One answer of a comparison is kept; the others still loose go on its back.
KeepOutput(r) ==
    /\ Lies(db, Output(r))
    /\ Commit(FoldLeft(LAMBDA d, q : IF q = Output(r) THEN d ELSE Kept(d, Output(r), q),
                       db, ComparedOutputs(db, Output(r))), runs)
    /\ UNCHANGED count

-----------------------------------------------------------------------------
(* Edits by hand *)

Edit(d) ==
    /\ count.edits < MaxEdits
    /\ count' = [count EXCEPT !.edits = @ + 1]
    /\ db' = d /\ UNCHANGED <<runs, aborted>>

CreateFeed(from, to, slot) ==
    /\ to \in db.place
    /\ \A f \in db.feeds : <<f.from, f.to, f.slot>> # <<from, to, slot>>
    /\ ~ClosesLoop(db, from, to)
    /\ Edit([db EXCEPT !.feeds = @ \cup {[from |-> from, to |-> to, slot |-> slot, mode |-> "together"]}])

\* Only a group runs each, and only in one slot of its machine.
EachAllowed(f) ==
    /\ f.from.group # 0
    /\ \A e \in db.feeds : e.to = f.to /\ e.slot # f.slot => e.mode = "together"

SetFeedMode(f) ==
    /\ f.mode = "together" => EachAllowed(f)
    /\ Edit([db EXCEPT !.feeds = (@ \ {f}) \cup {[f EXCEPT !.mode = IF @ = "each" THEN "together" ELSE "each"]}])

RemoveFeed(f) == Edit([db EXCEPT !.feeds = @ \ {f}])

CreateArrow(p, q) ==
    /\ p # q /\ Lies(db, p) /\ Lies(db, q) /\ {p, q} \subseteq Home(db) \ Machines
    /\ <<p, q>> \notin db.arrows
    /\ Edit([db EXCEPT !.arrows = @ \cup {<<p, q>>}])

RemoveArrow(a) == Edit([db EXCEPT !.arrows = @ \ {a}])

\* A group is made, or its members replaced, from cards on the table in no other group.
WriteGroup(g, members) ==
    /\ count.groupings < MaxGroupings
    /\ members # {} /\ \A p \in members : Lies(db, p) /\ p \in Home(db) \ Machines
    /\ \A h \in DOMAIN db.groups \ {g} : members \cap ToSet(db.groups[h]) = {}
    /\ db' = WithGroup(db, g, SetToSeq(members))
    /\ count' = [count EXCEPT !.groupings = @ + 1]
    /\ UNCHANGED <<runs, aborted>>

RemoveGroup(g) == Edit(WithoutGroup(db, g))

Detach(p) ==
    /\ db.host[p] # OnTable
    /\ Edit([db EXCEPT !.host[p] = OnTable])

TakeAway(p) == Edit(Without(db, p))

\* A card is shown on another brane too.
ShowElsewhere(p) ==
    /\ p[3] = 1 /\ <<p[1], p[2], 2>> \notin db.place /\ count.copies < MaxCopies
    /\ db' = Put(db, <<p[1], p[2], 2>>, OnTable)
    /\ count' = [count EXCEPT !.copies = @ + 1]
    /\ UNCHANGED <<runs, aborted>>

Next ==
    \/ \E m \in Machines, each \in BOOLEAN, n \in 1..2 : Press(m, each, n)
    \/ \E p \in db.place : Update(p) \/ Detach(p) \/ TakeAway(p)
    \/ \E p \in db.place \ Authored : ShowElsewhere(p)
    \/ \E r \in DOMAIN runs :
         \/ Retry(r) \/ Fail(r) \/ KeepOutput(r)
         \/ \E n \in {1} \cup 2..MaxParts, arrows \in {{}, {<<1, 2>>}} : Complete(r, n, arrows)
    \/ \E to \in Machines, slot \in Slots :
         \/ \E p \in Home(db) \ Machines : CreateFeed(Card(p), to, slot)
         \/ \E g \in DOMAIN db.groups : CreateFeed(Group(g), to, slot)
    \/ \E f \in db.feeds : SetFeedMode(f) \/ RemoveFeed(f)
    \/ \E p, q \in db.place : CreateArrow(p, q)
    \/ \E a \in db.arrows : RemoveArrow(a)
    \/ \E g \in DOMAIN db.groups \cup {NewGroup(db)} :
         \E members \in SUBSET {p \in Home(db) \ Machines : Lies(db, p)} : WriteGroup(g, members)
    \/ \E g \in DOMAIN db.groups : RemoveGroup(g)

Spec == Init /\ [][Next]_vars

-----------------------------------------------------------------------------
(* Properties *)

\* The database aborts no operation the code's own checks let through: whatever was kept,
\* replaced, split, retired or detached before, no card comes to lie on the back of a card on a
\* back, and no member or arrow's end leaves the table (moveToBack, retire, placeRunParts).
NeverAborted == ~aborted

\* "Feeds join machines into an acyclic graph", however presses move them.
Acyclic == \A m \in Machines : ~Downstream(db)[m, m]

\* "Only one slot of a machine runs each", however feeds move.
OneSlotEach ==
    \A e, f \in db.feeds : e.mode = "each" /\ f.mode = "each" /\ e.to = f.to => e.slot = f.slot

LastPress(m) == Max({0} \cup {runs[r].press : r \in {x \in DOMAIN runs : runs[x].by = m}})
Width(m) == Cardinality({p \in db.place \ Authored : Lies(db, p) /\ runs[p[1]].by = m})
FedSlots(d) == {<<f.to, f.slot>> : f \in d.feeds}

\* No machine's slot is emptied by the end of a run, by Update, Retry or Keep, or by a press
\* that has an output for each card of the machine on the table (moveFeeds).
SlotsStayFed ==
    [][\/ FedSlots(db) \subseteq FedSlots(db')
       \/ count'.edits # count.edits
       \/ \E m \in Machines : LastPress(m)' # LastPress(m) /\ Len(runs') - Len(runs) < Width(m)]_vars

Sent(d, f) == IF f.from.group = 0 THEN {f.from.card} ELSE ToSet(d.groups[f.from.group])

\* Two slots of a machine never run each.  The database aborts nothing as long as no card is shown on another
\* brane, and feeds close no loop as long as no group is made by hand: after either, the code lets it happen
\* (runs.ts:332-644, feeds.ts:18-170, groups.ts:55).
TableHolds ==
    /\ count.copies = 0 => NeverAborted
    /\ count.groupings = 0 => Acyclic
    /\ OneSlotEach

\* Whatever is pressed, answered, kept, grouped, fed, shown elsewhere or taken away, the table keeps the
\* shape the triggers demand, but as TableHolds excepts; and no slot that was fed is left empty, but by an
\* edit and by a press with fewer outputs than the one before.  Whose output a slot is fed is not said:
\* a retry becomes the tray without the feeds of what it replaces (runs.ts:332-644).
TableKept == [](TypeOK /\ TableHolds) /\ SlotsStayFed

=============================================================================
