------------------------------- MODULE MCPages -------------------------------
(***************************************************************************)
(* What the controller of a brane shows and keeps: its title under reads   *)
(* that overtake each other (title); estimates and looks at blocks wanted  *)
(* one after the other (asked); drafts of two tabs (tabs), in a store that *)
(* fails (failing), and of two accounts in turn (accounts); and the files  *)
(* a tab sends (uploads).                                                  *)
(*                                                                         *)
(* They share no state, so one of them, the scope, moves in a behaviour    *)
(* and the others rest.                                                    *)
(***************************************************************************)
EXTENDS Workspace, ImportTasks, Drafts, TLC

CONSTANTS t1, t2, ann

VARIABLE scope

Symmetry == Permutations({t1, t2})

Asked == INSTANCE Workspace WITH
    Kinds <- {"estimate", "inspected"}, Things <- {1, 2}, Titles <- {}, MaxReads <- 0, MaxAsks <- 2, MaxFails <- 0

Tabbed == INSTANCE Drafts WITH Actors <- {ann}, MaxLoads <- 2, MaxLost <- 0, MaxForeign <- 0

Failing == INSTANCE Drafts WITH Tabs <- {t1}, Actors <- {ann}, MaxLoads <- 2

Turns == INSTANCE Drafts WITH Tabs <- {t1}, MaxLost <- 0, MaxForeign <- 0

-----------------------------------------------------------------------------
MCInit ==
    /\ scope \in {"title", "asked", "tabs", "failing", "accounts", "uploads"}
    /\ IF scope = "asked" THEN Asked!Init ELSE Init
    /\ UploadsInit
    /\ DraftsInit

MCNext ==
    /\ \/ scope = "title" /\ Next /\ UNCHANGED <<draftVars, uploadVars>>
       \/ scope = "asked" /\ Asked!Next /\ UNCHANGED <<draftVars, uploadVars>>
       \/ scope = "tabs" /\ Tabbed!DraftsNext /\ UNCHANGED <<vars, uploadVars>>
       \/ scope = "failing" /\ Failing!DraftsNext /\ UNCHANGED <<vars, uploadVars>>
       \/ scope = "accounts" /\ Turns!DraftsNext /\ UNCHANGED <<vars, uploadVars>>
       \/ scope = "uploads" /\ UploadsNext /\ UNCHANGED <<vars, draftVars>>
    /\ UNCHANGED scope

MCSpec == MCInit /\ [][MCNext]_<<scope, vars, draftVars, uploadVars>>

=============================================================================
