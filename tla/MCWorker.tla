----------------------------- MODULE MCWorker -------------------------------
(***************************************************************************)
(* A small instance of RunWorker: two runs of two owners, and two          *)
(* processes of which the second survives.                                 *)
(***************************************************************************)
EXTENDS RunWorker, TLC

CONSTANTS r1, r2, ann, ben

MCOwner    == (r1 :> ann) @@ (r2 :> ben)
MCWorkers  == 1..Starts
MCTexts    == 0..MaxText
=============================================================================
