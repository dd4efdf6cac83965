----------------------------- MODULE MCOutboxLost -----------------------------
(* A conflict of one card reviewed while the answer to an edit of another   *)
(* is lost.                                                                 *)
EXTENDS OutboxConflicts, TLC

Symmetric == Permutations(Texts)

=============================================================================
