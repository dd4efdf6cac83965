------------------------------- MODULE MCOutbox -------------------------------
(***************************************************************************)
(* The outbox of one library: with a read in flight and a request given up *)
(* (plain), with two reads in flight, which may forget a text that is      *)
(* being written (reads), and with the reviews of conflicts (review).  All *)
(* move the same state; the scope says which of them a behaviour is of.    *)
(***************************************************************************)
EXTENDS OutboxConflicts, TLC

VARIABLE scope

Symmetric == Permutations(Texts)

Plain == INSTANCE Outbox WITH MaxKeys <- MaxKeys - 1, MaxReads <- 1, MaxLost <- 1

TwoReads == INSTANCE Outbox WITH MaxKeys <- MaxKeys - 1, MaxReads <- 2, MaxLost <- 0

MCInit == scope \in {"plain", "reads", "review"} /\ CInit

MCNext ==
    /\ \/ scope = "plain" /\ Plain!Next /\ UNCHANGED resolution
       \/ scope = "reads" /\ TwoReads!Next /\ UNCHANGED resolution
       \/ scope = "review" /\ CNext
    /\ UNCHANGED scope

MCSpec == MCInit /\ [][MCNext]_<<scope, conflictVars>>

-----------------------------------------------------------------------------
\* Without reviews, the outbox keeps what OutboxPromise states of it: each intent is carried out
\* at most once, in order, over the text its writer saw (replica.ts:600-760).
PromiseKept ==
    /\ [](CASE scope = "plain" -> Plain!TypeOK [] scope = "reads" -> TwoReads!TypeOK [] OTHER -> CTypeOK)
    /\ scope # "review" => Plain!Promise!Init
    /\ [][scope # "review" => Plain!Promise!Next]_(Plain!Promise!promiseVars)

=============================================================================
