------------------------------- MODULE Gestures -------------------------------
(***************************************************************************)
(* Pointer and keyboard gestures on the table (canvas/gestures.ts,         *)
(* useCanvasGesture.ts) over the selection of stores/interaction.ts, while *)
(* other devices move, remove and regroup the same cards.                  *)
(*                                                                         *)
(* The table has one dimension: a card has a place x and a width w, and    *)
(* the camera is an offset.  Zoom, which scales every distance alike, and  *)
(* the corner of a resize are left out.  A pinch of two fingers keeps      *)
(* the table's point between them where it was.                            *)
(***************************************************************************)
EXTENDS Integers, SequencesExt, FiniteSetsExt

CONSTANTS
    Cards, Frame,       \* the frame is drawn around the one group
    Mouse, Fingers,
    Points,             \* places of the screen
    ClickDistance, MinWidth,
    Views,              \* bound: the cameras at which a pointer is pressed
    TableAtFirst, GroupAtFirst,
    Far, MaxFar,        \* places other devices move a card to; bound on what they do
    Nudge, MaxSaves     \* the step of an arrow key; bound on changes made here

Gone == [x |-> 0, w |-> 0]
VARIABLES
    table,      \* card -> geometry
    group,      \* the one group: its members and whether they are stacked
    canvas,     \* CanvasGestures with the selection and the camera it owns
    captured,   \* pointers the host has captured
    down,       \* pointers pressed
    start,      \* the selection and the table when the present gesture began (history)
    far, made   \* bounds

vars == <<table, group, canvas, captured, down, start, far, made>>

None == [kind |-> "none"]
Idle == [drawn |-> [k \in {} |-> Gone], rectangle |-> FALSE]

Init ==
    /\ table = TableAtFirst /\ group = GroupAtFirst
    /\ canvas = [gesture |-> None, touches |-> <<>>, pinch |-> None, preview |-> Idle, selected |-> {}, camera |-> 0,
                 click |-> None, saves |-> {}, created |-> FALSE]
    /\ captured = {} /\ down = {} /\ start = [selected |-> {}, table |-> TableAtFirst] /\ far = 0 /\ made = 0

-----------------------------------------------------------------------------
(* The recognition of a gesture, as functions of the canvas *)

Placed == {k \in Cards : table[k] # Gone}
Active(c) == c.gesture # None \/ c.pinch # None
PointerIds(c) == IF c.touches # <<>> THEN {t.id : t \in ToSet(c.touches)}
                 ELSE IF c.gesture # None THEN {c.gesture.pointer} ELSE {}

\* The cards that move and are selected with what is pressed: a frame's, a stack's, or the card alone.
Together(id) ==
    IF group.members # {} /\ (id = Frame \/ (group.stacked /\ id \in group.members)) THEN group.members ELSE {id}

Started(c, press) ==
    [c EXCEPT !.gesture =
        [kind |-> IF ~press.primary \/ press.touch \/ press.pan THEN "pan"
                  ELSE CASE press.surface = "resize" -> "resize" [] press.surface = "card" -> "move" [] OTHER -> "select",
         pointer |-> press.pointer, at |-> press.at, surface |-> press.surface, id |-> press.id, edge |-> press.edge,
         touch |-> press.touch, primary |-> press.primary, shift |-> press.shift, moved |-> FALSE,
         view |-> c.camera, selection |-> c.selected, table |-> table]]

Refused(c, press) == Active(c) /\ (~press.touch \/ (c.gesture # None /\ ~c.gesture.touch))

Middle(touches) == (touches[1].at + touches[2].at) \div 2

Begun(c, press) ==
    LET touches == IF press.touch THEN Append(c.touches, [id |-> press.pointer, at |-> press.at]) ELSE c.touches
        joined == [c EXCEPT !.touches = touches]
    IN IF Len(touches) > 2 THEN joined
       ELSE IF Len(touches) = 2
       THEN [joined EXCEPT !.gesture = None, !.preview = Idle,
                           !.pinch = [kind |-> "pinch", view |-> c.camera, anchor |-> Middle(touches) - c.camera]]
       ELSE Started(joined, press)

Overlaps(x, w, from, to) == x <= to /\ x + w >= from

Width(w) == Max({MinWidth, w})

\* A drag draws from where its cards were when it began.
Origin(g) == g.table

\* What a drag selects, and where it draws the cards: by the full distance from where they were.
Dragged(c, at) ==
    LET g == c.gesture
        by == at - g.at
        there == {k \in Cards : g.table[k] # Gone}
        whole == IF g.kind = "move" THEN Together(g.id) ELSE {g.id}
        ids == IF whole \subseteq g.selection THEN g.selection ELSE IF g.shift THEN g.selection \cup whole ELSE whole
        was == g.table[g.id]
        width == Width(was.w + (IF g.edge = "e" THEN by ELSE -by))
    IN CASE g.kind = "pan" -> [c EXCEPT !.camera = g.view + by]
         [] g.kind = "select" ->
              [c EXCEPT !.selected = {k \in there : Overlaps(g.table[k].x, g.table[k].w, Min({g.at, at}) - g.view,
                                                             Max({g.at, at}) - g.view)},
                        !.preview = [Idle EXCEPT !.rectangle = TRUE]]
         [] g.kind = "move" ->
              [c EXCEPT !.selected = ids,
                        !.preview = [Idle EXCEPT !.drawn = [k \in there \cap ids |-> [Origin(g)[k] EXCEPT !.x = @ + by]]]]
         [] g.kind = "resize" ->
              [c EXCEPT !.selected = {g.id},
                        !.preview = [Idle EXCEPT !.drawn =
                            [k \in {g.id} |-> [x |-> IF g.edge = "w" THEN was.x + was.w - width ELSE was.x, w |-> width]]]]

Moved(c, p, at) ==
    LET d == [c EXCEPT !.touches = [i \in DOMAIN @ |-> IF @[i].id = p THEN [id |-> p, at |-> at] ELSE @[i]]]
        g == c.gesture
    IN IF c.pinch # None THEN [d EXCEPT !.camera = Middle(d.touches) - c.pinch.anchor]
       ELSE IF g = None THEN d
       ELSE IF g.pointer # p \/ (~g.moved /\ (at - g.at) \in (1 - ClickDistance)..(ClickDistance - 1)) THEN d
       ELSE Dragged([d EXCEPT !.gesture.moved = TRUE], at)

Clicked(c, g) ==
    IF g.surface = "background"
    THEN IF c.click = [kind |-> "click", at |-> g.at] THEN [c EXCEPT !.click = None, !.created = TRUE]
         ELSE [c EXCEPT !.click = [kind |-> "click", at |-> g.at], !.selected = {}]
    ELSE IF g.kind = "move"
    THEN [c EXCEPT !.selected = IF ~g.shift THEN Together(g.id)
                                ELSE IF Together(g.id) \subseteq g.selection THEN g.selection \ Together(g.id)
                                ELSE g.selection \cup Together(g.id)]
    ELSE c

\* Each card of the drag that is still on the table and not where it was.
SavedBy(c, g) ==
    {[id |-> k, at |-> c.preview.drawn[k]] : k \in {n \in DOMAIN c.preview.drawn \cap Placed : c.preview.drawn[n] # g.table[n]}}

\* The finger that stays after a pinch pans.
Remaining(t) == [pointer |-> t.id, at |-> t.at, surface |-> "background", id |-> Frame, edge |-> "e",
                 primary |-> TRUE, touch |-> TRUE, shift |-> FALSE, pan |-> FALSE]

Ended(c, p, at) ==
    LET m == Moved(c, p, at)
        d == [m EXCEPT !.touches = SelectSeq(@, LAMBDA t : t.id # p)]
        g == d.gesture
        released == [d EXCEPT !.gesture = None, !.preview = Idle]
    IN IF c.pinch # None
       THEN IF Len(d.touches) >= 2 THEN d
            ELSE IF d.touches = <<>> THEN [d EXCEPT !.pinch = None]
            ELSE [Started([d EXCEPT !.pinch = None], Remaining(d.touches[1])) EXCEPT !.gesture.moved = TRUE]
       ELSE IF g = None THEN d
       ELSE IF g.pointer # p THEN d
       ELSE IF g.moved /\ g.kind \in {"move", "resize"} THEN [released EXCEPT !.saves = SavedBy(d, g)]
       ELSE IF ~g.moved /\ ~g.touch /\ g.primary THEN Clicked(released, g)
       ELSE released

\* Fault: cancelling keeps what the drag had selected.
CancelledKeeping(c) ==
    [c EXCEPT !.gesture = None, !.pinch = None, !.touches = <<>>, !.preview = Idle]

Cancelled(c) ==
    LET e == [c EXCEPT !.gesture = None, !.pinch = None, !.touches = <<>>, !.preview = Idle]
    IN IF c.gesture # None
       THEN [e EXCEPT !.selected = c.gesture.selection \cap Placed,
                      !.camera = IF c.gesture.kind = "pan" THEN c.gesture.view ELSE @]
       ELSE IF c.pinch # None THEN [e EXCEPT !.camera = c.pinch.view] ELSE e

-----------------------------------------------------------------------------
(* Events *)

\* An event shows its saves at once; what an earlier one saved is over.
Events(c) == [c EXCEPT !.saves = {}, !.created = FALSE]
Apply(c) ==
    /\ canvas' = c
    /\ table' = [k \in Cards |-> IF \E s \in c.saves : s.id = k THEN (CHOOSE s \in c.saves : s.id = k).at ELSE table[k]]
    /\ made' = made + (IF c.saves # {} \/ c.created THEN 1 ELSE 0)

\* The host takes a press on the canvas, and any further finger of a touch gesture, also over an editor.
Press(press) ==
    /\ press.pointer \notin down /\ (Active(canvas) \/ made < MaxSaves) /\ canvas.camera \in Views
    /\ press.surface # "native" \/ (press.touch /\ Active(canvas))
    /\ press.surface \in {"card", "resize"} => press.id = Frame \/ press.id \in Placed
    /\ press.id = Frame => press.surface # "resize" /\ (press.surface = "card" => group.members # {})
    /\ down' = down \cup {press.pointer}
    /\ IF Refused(canvas, press) THEN UNCHANGED <<canvas, captured, start>>
       ELSE /\ canvas' = Begun(Events(canvas), press) /\ captured' = captured \cup {press.pointer}
            /\ start' = IF Active(canvas) THEN start ELSE [selected |-> canvas.selected, table |-> table]
    /\ UNCHANGED <<table, group, far, made>>

Move(p, at) ==
    /\ p \in down /\ Apply(Moved(Events(canvas), p, at)) /\ UNCHANGED <<group, captured, down, start, far>>

Uncaptured(p) == captured \ {p}

Release(p, at) ==
    /\ p \in down /\ down' = down \ {p}
    /\ IF p \in PointerIds(canvas)
       THEN Apply(Ended(Events(canvas), p, at)) /\ captured' = Uncaptured(p)
       ELSE UNCHANGED <<canvas, captured, table, made>>
    /\ UNCHANGED <<group, start, far>>

\* Escape, the window losing its focus, or the canvas being left.
Escape ==
    /\ Active(canvas) /\ canvas' = Cancelled(Events(canvas)) /\ captured' = captured \ PointerIds(canvas)
    /\ UNCHANGED <<table, group, down, start, far, made>>

\* The browser takes a pointer over, or its capture.
LoseCapture(p) ==
    /\ p \in captured \cap PointerIds(canvas)
    /\ canvas' = Cancelled(Events(canvas)) /\ captured' = captured \ PointerIds(canvas)
    /\ UNCHANGED <<table, group, down, start, far, made>>

Wheel(to) ==
    /\ ~Active(canvas) /\ canvas' = [Events(canvas) EXCEPT !.camera = to]
    /\ UNCHANGED <<table, group, captured, down, start, far, made>>

\* Enter or Space on a card; Escape when nothing is under way.
KeySelect(k, shift) ==
    /\ ~Active(canvas) /\ k \in Placed
    /\ canvas' = [Events(canvas) EXCEPT !.selected = IF ~shift THEN {k} ELSE IF k \in @ THEN @ \ {k} ELSE @ \cup {k}]
    /\ UNCHANGED <<table, group, captured, down, start, far, made>>
KeyClear ==
    /\ ~Active(canvas) /\ canvas' = [Events(canvas) EXCEPT !.selected = {}]
    /\ UNCHANGED <<table, group, captured, down, start, far, made>>

\* Arrow keys move the selected cards, or with Alt resize them.
KeyNudge(by, alt) ==
    /\ ~Active(canvas) /\ made < MaxSaves /\ canvas.selected \cap Placed # {}
    /\ LET to(k) == IF alt THEN [table[k] EXCEPT !.w = Width(@ + by)] ELSE [table[k] EXCEPT !.x = @ + by]
       IN Apply([Events(canvas) EXCEPT !.saves = {[id |-> k, at |-> to(k)] : k \in canvas.selected \cap Placed}])
    /\ UNCHANGED <<group, captured, down, start, far>>

\* The second click of a double click comes too late.
ClickFades ==
    /\ canvas.click # None /\ canvas' = [Events(canvas) EXCEPT !.click = None]
    /\ UNCHANGED <<table, group, captured, down, start, far, made>>

-----------------------------------------------------------------------------
(* Other devices *)

\* A change of the placements takes what is gone out of the selection.
Pruned == canvas' = [Events(canvas) EXCEPT !.selected = {k \in @ \cap Cards : table'[k] # Gone}]

FarMove(k, x) ==
    /\ far < MaxFar /\ k \in Placed /\ table' = [table EXCEPT ![k].x = x] /\ Pruned /\ far' = far + 1
    /\ UNCHANGED <<group, captured, down, start, made>>
FarRemove(k) ==
    /\ far < MaxFar /\ k \in Placed /\ table' = [table EXCEPT ![k] = Gone] /\ far' = far + 1
    /\ group' = IF Cardinality(group.members \ {k}) >= 2 THEN [group EXCEPT !.members = @ \ {k}] ELSE [group EXCEPT !.members = {}]
    /\ Pruned /\ UNCHANGED <<captured, down, start, made>>
FarGroup(members, stacked) ==
    /\ far < MaxFar /\ members \subseteq Placed /\ Cardinality(members) # 1
    /\ group' = [members |-> members, stacked |-> stacked] /\ group' # group /\ far' = far + 1
    /\ UNCHANGED <<table, canvas, captured, down, start, made>>

-----------------------------------------------------------------------------

Presses ==
    [pointer : {Mouse}, at : Points, surface : {"background", "native"}, id : {Frame}, edge : {"e"}, primary : BOOLEAN,
     touch : {FALSE}, shift : {FALSE}, pan : BOOLEAN]
    \cup [pointer : {Mouse}, at : Points, surface : {"card"}, id : Cards \cup {Frame}, edge : {"e"}, primary : {TRUE},
          touch : {FALSE}, shift : BOOLEAN, pan : {FALSE}]
    \cup [pointer : {Mouse}, at : Points, surface : {"resize"}, id : Cards, edge : {"e", "w"}, primary : {TRUE},
          touch : {FALSE}, shift : {FALSE}, pan : {FALSE}]
    \cup [pointer : Fingers, at : Points, surface : {"card", "native"}, id : {Frame} \cup Cards, edge : {"e"}, primary : {TRUE},
          touch : {TRUE}, shift : {FALSE}, pan : {FALSE}]

Next ==
    \/ \E press \in Presses : Press(press)
    \/ \E p \in Fingers \cup {Mouse}, at \in Points : Move(p, at) \/ Release(p, at)
    \/ Escape \/ \E p \in Fingers \cup {Mouse} : LoseCapture(p)
    \/ \E to \in Views : Wheel(to)
    \/ \E k \in Cards, shift \in BOOLEAN : KeySelect(k, shift)
    \/ KeyClear \/ \E by \in {-Nudge, Nudge}, alt \in BOOLEAN : KeyNudge(by, alt)
    \/ ClickFades
    \/ \E k \in Cards : FarRemove(k) \/ \E x \in Far : FarMove(k, x)
    \/ \E members \in SUBSET Cards, stacked \in BOOLEAN : FarGroup(members, stacked)

Spec == Init /\ [][Next]_vars

-----------------------------------------------------------------------------
(* Properties *)

TypeOK ==
    /\ \A k \in Cards : table[k].x \in Int /\ (table[k] = Gone \/ table[k].w >= MinWidth)
    /\ group.members \subseteq Placed /\ Cardinality(group.members) # 1
    /\ canvas.gesture.kind \in {"none", "select", "pan", "move", "resize"} /\ canvas.pinch.kind \in {"none", "pinch"}
    /\ canvas.gesture = None \/ canvas.pinch = None
    /\ canvas.selected \subseteq Cards \cup {Frame} /\ canvas.camera \in Int
    /\ captured \subseteq Fingers \cup {Mouse} /\ down \subseteq Fingers \cup {Mouse}
    /\ far \in 0..MaxFar /\ made \in 0..MaxSaves

\* A gesture lasts no longer than its pointers are pressed, and the host has captured just those:
\* no gesture can be left behind that no pointer will ever end.
Owned == captured = PointerIds(canvas) /\ captured \subseteq down /\ (Active(canvas) <=> captured # {})

\* What is drawn of a gesture is gone when the gesture is: cards are shown where they are.
NothingLeftDrawn == canvas.gesture.kind \in {"none", "pan"} => canvas.preview = Idle

\* "Cancellation restores the starting selection" and changes no card, however many pointers
\* came and went meanwhile, and except for the cards removed meanwhile.
CancelRestores ==
    [][Active(canvas) /\ ~Active(canvas') /\ down' = down
         => canvas'.selected \cap Placed = start.selected \cap Placed /\ canvas'.saves = {} /\ table' = table]_vars

\* Touch looks at the table: with fingers on it nothing is selected, saved or created here.
TouchOnlyLooks ==
    [][canvas.touches # <<>> =>
         /\ \A k \in Placed : table'[k] # Gone => (k \in canvas'.selected <=> k \in canvas.selected)
         /\ canvas'.saves = {} /\ ~canvas'.created]_vars

\* What a drag saves are cards still on the table, and they keep the arrangement they had when it
\* began, whatever other devices moved or removed during it.
SavedTogether ==
    [][Active(canvas) =>
         \A s, t \in canvas'.saves :
            /\ table[s.id] # Gone
            /\ s.at.x - t.at.x = start.table[s.id].x - start.table[t.id].x]_vars

=============================================================================
