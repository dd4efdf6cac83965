------------------------------ MODULE OutputCards ------------------------------
(***************************************************************************)
(* How an answer becomes cards and arrows (shared/machine-output.ts) and   *)
(* where they are laid (server/services/run-parts.ts).  An answer is a     *)
(* sequence of lines: numbered items, relation lines, other text, and      *)
(* blank lines.  What becomes of the cards is the concern of Table.        *)
(***************************************************************************)
EXTENDS Naturals, FiniteSets, SequencesExt

CONSTANTS
    Given,      \* the lines an answer begins with
    Lines,      \* those that may follow
    MaxLines,   \* bound: the lines of an answer
    MaxCards    \* the cards an answer may become

Kinds == {"item", "arrow", "text", "blank"}

VARIABLES
    diagram,    \* whether the prompt declares a diagram, or cards
    text        \* the answer's lines

vars == <<diagram, text>>

Init == diagram \in BOOLEAN /\ text = Given

Write(line) == Len(text) < MaxLines /\ text' = Append(text, line) /\ UNCHANGED diagram

Next == \E line \in Lines : Write(line)

Spec == Init /\ [][Next]_vars

-----------------------------------------------------------------------------
(* Reading *)

\* A relation line is one only in a diagram.
Kind(line) == IF line.kind = "arrow" /\ ~diagram THEN "text" ELSE line.kind

\* A blank line ends it.
OpenAfterBlank(read) == FALSE

\* An item goes on until a blank line, a relation line or the next item.
ReadLine(read, i) ==
    CASE Kind(text[i]) = "arrow" -> [read EXCEPT !.named = Append(@, text[i]), !.open = FALSE]
      [] Kind(text[i]) = "item" ->
            [read EXCEPT !.items = Append(@, [number |-> text[i].number, lines |-> <<i>>]), !.open = TRUE]
      [] Kind(text[i]) = "blank" -> [read EXCEPT !.open = OpenAfterBlank(read)]
      [] OTHER -> IF read.open THEN [read EXCEPT !.items[Len(read.items)].lines = Append(@, i)] ELSE read

Read == FoldLeft(ReadLine, [items |-> <<>>, named |-> <<>>, open |-> FALSE], [i \in DOMAIN text |-> i])

\* Items past the bound stay in the whole answer.
Kept(read) == SubSeq(read.items, 1, Min({MaxCards, Len(read.items)}))

\* Fault: the last of two items with one number is meant.
PositionLast(kept, number) == Max({i \in DOMAIN kept : kept[i].number = number} \cup {0})

\* The first item with a number, among those that become cards; 0 for none.
Position(kept, number) ==
    LET named == {i \in DOMAIN kept : kept[i].number = number} IN IF named = {} THEN 0 ELSE Min(named)

\* Relation lines that name no item, join one to itself or repeat another are passed over.
Arrows(read, kept) ==
    LET joins(line) == <<Position(kept, line.from), Position(kept, line.to)>>
        add(arrows, line) ==
            IF 0 \in Range(joins(line)) \/ joins(line)[1] = joins(line)[2] \/ Contains(arrows, joins(line))
            THEN arrows ELSE Append(arrows, joins(line))
    IN FoldLeft(add, <<>>, read.named)

-----------------------------------------------------------------------------
(* Laying out *)

\* After as many rounds as there are cards, another one changes nothing unless arrows go round.
Rounds(count) == count

\* A round pushes each arrow's head below its tail, in the order of the arrows.  None if they never rest.
DiagramLayers(count, arrows) ==
    LET push(layer, arrow) == IF layer[arrow[2]] < layer[arrow[1]] + 1
                              THEN [layer EXCEPT ![arrow[2]] = layer[arrow[1]] + 1] ELSE layer
        after[n \in 0..count + 1] == IF n = 0 THEN [i \in 1..count |-> 0] ELSE FoldLeft(push, after[n - 1], arrows)
    IN IF after[Rounds(count) + 1] = after[Rounds(count)] THEN after[Rounds(count)] ELSE <<>>

Ceiling(n, d) == (n + d - 1) \div d
Columns(count) == CHOOSE c \in 1..count : c * c >= count /\ (c - 1) * (c - 1) < count
OfLayer(layers, l) == {i \in DOMAIN layers : layers[i] = l}

\* Every layer before takes as many rows as its cards need.
FirstRow(layers, layer, columns) ==
    MapThenSumSet(LAMBDA l : Max({1, Ceiling(Cardinality(OfLayer(layers, l)), columns)}), 0..layer - 1)

\* A grid in the order of the items, or the layers from the top, each in rows no wider than that grid.
Cells(count, layers) ==
    LET columns == Columns(count)
        position(i) == IF layers = <<>> THEN i - 1 ELSE Cardinality({j \in OfLayer(layers, layers[i]) : j < i})
        first(i) == IF layers = <<>> THEN 0 ELSE FirstRow(layers, layers[i], columns)
    IN [i \in 1..count |-> [row |-> first(i) + position(i) \div columns, column |-> position(i) % columns]]

-----------------------------------------------------------------------------
(* Properties *)

TypeOK ==
    LET read == Read IN
    /\ diagram \in BOOLEAN /\ text \in Seq(Lines \cup Range(Given))
    /\ Range(Kept(read)) \subseteq [number : Nat, lines : Seq(DOMAIN text)] /\ Len(Kept(read)) <= MaxCards
    /\ \A arrow \in Range(Arrows(read, Kept(read))) : Range(arrow) \subseteq DOMAIN Kept(read)

\* What each card says: an item's own line, and every line after it up to the first that is blank, a
\* relation or another item.  Nothing else of the answer, and nothing twice (machine-output.ts:44-67).
ItemsWhole ==
    LET begins == {i \in DOMAIN text : Kind(text[i]) = "item"}
        belongs(i, j) == i <= j /\ \A k \in i + 1..j : Kind(text[k]) = "text"
    IN LET items == Read.items IN
       /\ {items[n].lines[1] : n \in DOMAIN items} = begins /\ Len(items) = Cardinality(begins)
       /\ \A m, n \in DOMAIN items : m < n => items[m].lines[1] < items[n].lines[1]
       /\ \A n \in DOMAIN items :
             LET first == items[n].lines[1]
             IN items[n].lines = [k \in 1..Cardinality({j \in DOMAIN text : belongs(first, j)}) |-> first + k - 1]

\* The arrows drawn are those the answer names between two different cards, each once, an item being
\* meant by its number's first use (machine-output.ts:65-80; output-cards.test.ts:43-65).
ArrowsTrue ==
    LET read == Read
        kept == Kept(read)
        meant(number, i) == kept[i].number = number /\ \A j \in 1..i - 1 : kept[j].number # number
        arrows == Arrows(read, kept)
    IN /\ Range(arrows) = {a \in (DOMAIN kept) \X (DOMAIN kept) : a[1] # a[2] /\
                               \E line \in Range(read.named) : meant(line.from, a[1]) /\ meant(line.to, a[2])}
       /\ Len(arrows) = Cardinality(Range(arrows))

\* "so an arrow always points down the page. A cycle has no such layering; then none"
\* (machine-output.ts:88-89): there are layers unless arrows go round, and a card's is the length of the
\* longest chain of arrows into it.
LayersLongest ==
    LET read == Read
        count == Len(Kept(read))
        arrows == Range(Arrows(read, Kept(read)))
        layers == DiagramLayers(count, Arrows(read, Kept(read)))
        chains == {p \in SeqOf(1..count, count + 1) \ {<<>>} : \A i \in 1..Len(p) - 1 : <<p[i], p[i + 1]>> \in arrows}
        cyclic == \E p \in chains : Len(p) = count + 1
    IN count > 0 => IF cyclic THEN layers = <<>>
                    ELSE layers # <<>> /\ \A i \in 1..count : layers[i] = Max({Len(p) - 1 : p \in {q \in chains : Last(q) = i}})

\* Cards are laid apart, every arrow points down the page unless arrows go round, and no row is wider
\* than a square grid's (run-parts.ts:57-83).
LaidApart ==
    LET read == Read
        count == Len(Kept(read))
        arrows == Arrows(read, Kept(read))
        layers == DiagramLayers(count, arrows)
        cells == Cells(count, layers)
    IN count > 1 =>
       /\ \A i, j \in 1..count : cells[i] = cells[j] => i = j
       /\ layers # <<>> => \A a \in Range(arrows) : cells[a[1]].row < cells[a[2]].row
       /\ \A i \in 1..count : (cells[i].column) * (cells[i].column) < count

\* An answer is read whole: its items, and the arrows between them.
ReadWhole == ItemsWhole /\ ArrowsTrue

\* What was read is laid out below its causes and apart.
Laid == LayersLongest /\ LaidApart

=============================================================================
