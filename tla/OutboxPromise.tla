----------------------------- MODULE OutboxPromise -----------------------------
(***************************************************************************)
(* What the outbox promises the person who writes: the texts and cards of  *)
(* the library, and what is still to be done to them, in the order of its  *)
(* keys.  Requests, answers, retries, tabs, receipts and caches are        *)
(* hidden.                                                                 *)
(***************************************************************************)
EXTENDS Naturals, Sequences, SequencesExt

CONSTANTS
    Blocks,   \* the identities of blocks
    Known,    \* those that are there from the start
    Texts,    \* what may be typed
    Empty     \* the text of a new card

VARIABLES
    history,  \* the texts of each block, by version, with their author
    card,     \* whether the block's card is on the brane
    todo      \* the intents not carried out yet, each under a key of its own

promiseVars == <<history, card, todo>>

Init ==
    /\ history = [b \in Blocks |-> IF b \in Known THEN <<[text |-> Empty, by |-> 0]>> ELSE <<>>]
    /\ card = [b \in Blocks |-> IF b \in Known THEN "placed" ELSE "never"]
    /\ todo = {}

\* An intent whose key was never used joins those to be done, after all of them.
Intend ==
    /\ \E op \in todo' \ todo :
          /\ todo' = todo \cup {op}
          /\ \A earlier \in todo : earlier.key < op.key
          /\ \A b \in Blocks : \A v \in 1..Len(history[b]) : history[b][v].by # op.key
    /\ UNCHANGED <<history, card>>

\* An intent on a card or a text follows the earlier ones on it.
Turn(op) ==
    \A earlier \in todo :
        earlier.key < op.key /\ earlier.cmd.block = op.cmd.block => {earlier.cmd.type, op.cmd.type} = {"edit", "remove"}

CarryOut(op) ==
    LET b == op.cmd.block IN
    /\ Turn(op)
    /\ todo' = todo \ {op}
    /\ \/ /\ op.cmd.type = "create" /\ history[b] = <<>>
          /\ history' = [history EXCEPT ![b] = <<[text |-> Empty, by |-> op.key]>>]
          /\ card' = [card EXCEPT ![b] = "placed"]
       \/ /\ op.cmd.type = "edit" /\ history[b] # <<>>
          /\ Last(history[b]).text = op.cmd.over
          /\ history' = IF op.cmd.text = op.cmd.over THEN history
                        ELSE [history EXCEPT ![b] = Append(@, [text |-> op.cmd.text, by |-> op.key])]
          /\ UNCHANGED card
       \/ /\ op.cmd.type = "remove" /\ card[b] = "placed"
          /\ card' = [card EXCEPT ![b] = "removed"]
          /\ UNCHANGED history

\* Other devices edit texts and remove cards.
Elsewhere ==
    /\ UNCHANGED todo
    /\ \E b \in Blocks :
          \/ /\ history[b] # <<>>
             /\ \E t \in Texts : history' = [history EXCEPT ![b] = Append(@, [text |-> t, by |-> 0])]
             /\ UNCHANGED card
          \/ /\ card[b] = "placed" /\ card' = [card EXCEPT ![b] = "removed"]
             /\ UNCHANGED history

Next == Intend \/ (\E op \in todo : CarryOut(op)) \/ Elsewhere

Spec == Init /\ [][Next]_promiseVars

=============================================================================
