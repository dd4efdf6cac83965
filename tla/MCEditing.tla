------------------------------- MODULE MCEditing -------------------------------
(***************************************************************************)
(* The hands of the person on a brane: texts of two cards typed, saved,    *)
(* run together and changed elsewhere (texts); two cards moved here and    *)
(* elsewhere, with answers lost (moves); a mouse (mouse) or two fingers    *)
(* (fingers) on a canvas of two cards; and two machines that are pressed   *)
(* and their answers split and kept (presses), fed by hand through two     *)
(* slots (feeds), or have their cards shown elsewhere, grouped and their   *)
(* runs retried (copies).                                                  *)
(*                                                                         *)
(* They share no state, so one of them, the scope, moves in a behaviour    *)
(* and the others rest.                                                    *)
(***************************************************************************)
EXTENDS TextSaves, PlacementSaves, TLC

CONSTANTS c1, c2, g1, g2, f1, f2, Mouse, Frame, m1, m2, OnTable

VARIABLES
    scope,
    table, group, canvas, captured, down, start, far, made,                                     \* Gestures
    db, runs, aborted, changes                                                                  \* Table

canvasVars == <<table, group, canvas, captured, down, start, far, made>>
tableVars  == <<db, runs, aborted, changes>>

Symmetry == Permutations(Blocks) \cup Permutations({m1, m2})

TwoCards == g1 :> [x |-> 0, w |-> 10] @@ g2 :> [x |-> 10, w |-> 10]
Loose    == [members |-> {}, stacked |-> FALSE]

Moused == INSTANCE Gestures WITH
    Cards <- {g1, g2}, Fingers <- {}, Points <- {0, 10, 20}, ClickDistance <- 8, MinWidth <- 5, Views <- {0},
    TableAtFirst <- TwoCards, GroupAtFirst <- Loose, Far <- {30}, MaxFar <- 1, Nudge <- 5, MaxSaves <- 1

Touched == INSTANCE Gestures WITH
    Cards <- {g1, g2}, Fingers <- {f1, f2}, Points <- {0, 20}, ClickDistance <- 8, MinWidth <- 5, Views <- {0, 20},
    TableAtFirst <- TwoCards, GroupAtFirst <- Loose, Far <- {30}, MaxFar <- 0, Nudge <- 5, MaxSaves <- 1

\* Each of the three is without some operations; what is said of the table is said with the bounds of all.
Pressed == INSTANCE Table WITH
    count <- changes, Machines <- {m1, m2}, Cards <- {}, Slots <- {"s"}, MaxPlaced <- 7, MaxRuns <- 3, MaxParts <- 2,
    MaxEdits <- 1, MaxGroupings <- 0, MaxCopies <- 0, MaxRetries <- 0

Fed == INSTANCE Table WITH
    count <- changes, Machines <- {m1, m2}, Cards <- {}, Slots <- {"s", "t"}, MaxPlaced <- 6, MaxRuns <- 2, MaxParts <- 1,
    MaxEdits <- 4, MaxGroupings <- 0, MaxCopies <- 0, MaxRetries <- 0

Copied == INSTANCE Table WITH
    count <- changes, Machines <- {m1, m2}, Cards <- {}, Slots <- {"s"}, MaxPlaced <- 6, MaxRuns <- 2, MaxParts <- 2,
    MaxEdits <- 1, MaxGroupings <- 1, MaxCopies <- 1, MaxRetries <- 1

Tabled == INSTANCE Table WITH
    count <- changes, Machines <- {m1, m2}, Cards <- {}, Slots <- {"s", "t"}, MaxPlaced <- 7, MaxRuns <- 3, MaxParts <- 2,
    MaxEdits <- 4, MaxGroupings <- 1, MaxCopies <- 1, MaxRetries <- 1

-----------------------------------------------------------------------------
MCInit ==
    /\ scope \in {"texts", "moves", "mouse", "fingers", "presses", "feeds", "copies"}
    /\ Init /\ PlacementInit /\ Moused!Init /\ Tabled!Init

MCNext ==
    /\ \/ scope = "texts" /\ Next /\ UNCHANGED <<placementVars, canvasVars, tableVars>>
       \/ scope = "moves" /\ PlacementNext /\ UNCHANGED <<vars, canvasVars, tableVars>>
       \/ scope = "mouse" /\ Moused!Next /\ UNCHANGED <<vars, placementVars, tableVars>>
       \/ scope = "fingers" /\ Touched!Next /\ UNCHANGED <<vars, placementVars, tableVars>>
       \/ scope = "presses" /\ Pressed!Next /\ UNCHANGED <<vars, placementVars, canvasVars>>
       \/ scope = "feeds" /\ Fed!Next /\ UNCHANGED <<vars, placementVars, canvasVars>>
       \/ scope = "copies" /\ Copied!Next /\ UNCHANGED <<vars, placementVars, canvasVars>>
    /\ UNCHANGED scope

MCSpec == MCInit /\ [][MCNext]_<<scope, vars, placementVars, canvasVars, tableVars>>

-----------------------------------------------------------------------------
\* A gesture has an owner while it lasts, leaves nothing drawn, restores what it found when it is
\* cancelled, but for cards removed meanwhile, and saves what it dragged as it lay; fingers only look
\* (canvas/gestures.ts:60-330).
GesturesWhole ==
    /\ [](IF scope = "fingers" THEN Touched!TypeOK /\ Touched!Owned ELSE Moused!TypeOK /\ Moused!Owned /\ Moused!NothingLeftDrawn)
    /\ Moused!CancelRestores
    /\ Moused!SavedTogether
    /\ Touched!TouchOnlyLooks

\* The table keeps its shape and its slots stay fed, with the exceptions of Table's own TableKept
\* (runs.ts:332-644, feeds.ts:18-170, groups.ts:55).
TableKept ==
    /\ [](scope \in {"presses", "feeds", "copies"} => Tabled!TypeOK /\ Tabled!TableHolds)
    /\ Tabled!SlotsStayFed

=============================================================================
