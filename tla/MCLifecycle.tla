------------------------------ MODULE MCLifecycle ------------------------------
(***************************************************************************)
(* A run, its answer and the machine it answers: the rows of two runs of   *)
(* two owners, one of them free (RunLifecycle); an answer of every kind of *)
(* line and diagrams of four items (OutputCards); a machine of two slots   *)
(* and a chain of three machines (Staleness).                              *)
(*                                                                         *)
(* They share no state, so one of them, the scope, moves in a behaviour    *)
(* and the others rest.                                                    *)
(***************************************************************************)
EXTENDS RunLifecycle, Integers, TLC

CONSTANTS r1, r2, ann, ben, a, b, c, m1, m2, m3

VARIABLES
    scope,
    diagram, text,                                          \* OutputCards
    version, stack, feeds, arrows, runs, chain, edits       \* Staleness

answerVars  == <<diagram, text>>
machineVars == <<version, stack, feeds, arrows, runs, chain, edits>>

MCOwner == (r1 :> ann) @@ (r2 :> ben)

\* One attempt more than the runs need, so that a second attempt of a run would have an identity to take.
Symmetry == Permutations(Workers) \cup Permutations(Attempts) \cup Permutations(Texts)

-----------------------------------------------------------------------------
Item(n)    == [kind |-> "item", number |-> n]
Arrow(i, j) == [kind |-> "arrow", from |-> i, to |-> j]
AnyLines   == {[kind |-> "text"], [kind |-> "blank"], Item(1), Item(2)} \cup {Arrow(i, j) : i \in {1, 2}, j \in {1, 2}}
Between    == {Arrow(i, j) : i \in 1..4, j \in 1..4} \ {Arrow(i, i) : i \in 1..4}

Answers  == INSTANCE OutputCards WITH Given <- <<>>, Lines <- AnyLines, MaxLines <- 5, MaxCards <- 3
Diagrams == INSTANCE OutputCards WITH Given <- <<Item(1), Item(2), Item(3), Item(4)>>, Lines <- Between,
                                      MaxLines <- 7, MaxCards <- 5

-----------------------------------------------------------------------------
Feed(kind, of, m, slot) == [from |-> [kind |-> kind, of |-> of], to |-> m, slot |-> slot, mode |-> "together"]

\* Each machine of the chain has answered once.
Answered(m, r, block, seen) ==
    [by |-> m, press |-> r, position |-> 1, model |-> 1, version |-> 0, arrows |-> {}, status |-> "completed", parts |-> 0,
     inputs |-> <<[slot |-> "x", block |-> block, version |-> seen]>>]

Slotted == INSTANCE Staleness WITH
    Machines <- {m1}, Cards <- {a, b, c}, Slots <- m1 :> <<"x", "y">>, Kept <- {}, Splits <- {},
    FedAtFirst <- <<Feed("stack", "cards", m1, "x"), Feed("card", c, m1, "y")>>, StackAtFirst <- <<a, b>>, RunsAtFirst <- <<>>,
    Offered <- {Feed("card", a, m1, "x"), Feed("card", b, m1, "y")}, Drawn <- {<<a, b>>, <<a, c>>},
    MaxModels <- 2, MaxRuns <- 3, MaxEdits <- 2

Chained == INSTANCE Staleness WITH
    Machines <- {m1, m2, m3}, Cards <- {a}, Slots <- m1 :> <<"x">> @@ m2 :> <<"x">> @@ m3 :> <<"x">>, Kept <- {m3}, Splits <- {m1, m2},
    FedAtFirst <- <<Feed("card", a, m1, "x"), Feed("tray", m1, m2, "x"), Feed("tray", m2, m3, "x")>>, StackAtFirst <- <<>>,
    RunsAtFirst <- <<Answered(m1, 1, a, 0), Answered(m2, 2, <<1, 0>>, -1), Answered(m3, 3, <<2, 0>>, -1)>>,
    Offered <- {Feed("card", a, m2, "x"), Feed("tray", m1, m3, "x")}, Drawn <- {},
    MaxModels <- 0, MaxRuns <- 6, MaxEdits <- 2

-----------------------------------------------------------------------------
MCInit ==
    /\ scope \in {"rows", "answers", "diagrams", "slots", "chain"}
    /\ Init
    /\ CASE scope = "answers" -> Answers!Init [] scope = "diagrams" -> Diagrams!Init [] OTHER -> diagram = FALSE /\ text = <<>>
    /\ IF scope = "chain" THEN Chained!Init ELSE Slotted!Init

MCNext ==
    /\ \/ scope = "rows" /\ Next /\ UNCHANGED <<answerVars, machineVars>>
       \/ scope = "answers" /\ Answers!Next /\ UNCHANGED <<dbVars, machineVars>>
       \/ scope = "diagrams" /\ Diagrams!Next /\ UNCHANGED <<dbVars, machineVars>>
       \/ scope = "slots" /\ Slotted!Next /\ UNCHANGED <<dbVars, answerVars>>
       \/ scope = "chain" /\ Chained!Next /\ UNCHANGED <<dbVars, answerVars>>
    /\ UNCHANGED scope

MCSpec == MCInit /\ [][MCNext]_<<scope, dbVars, answerVars, machineVars>>

-----------------------------------------------------------------------------
\* The cards and arrows of an answer are those it names, laid apart and in layers (machine-output.ts:40-102);
\* how many lines it is said to have dropped is not counted (machine-output.ts:83).
AnswersDrawn ==
    /\ scope = "answers" => Answers!TypeOK /\ Answers!ReadWhole
    /\ scope = "diagrams" => Diagrams!TypeOK /\ Diagrams!Laid

\* A stale machine would send something else when pressed next; one of several slots that is not stale would
\* send the same, where of one slot a change of its stack's mode goes unseen (machine-staleness.ts:235); and
\* one press of Run all due leaves nothing due (machine-staleness.ts:354).
StalenessTrue ==
    /\ scope = "slots" => Slotted!TypeOK /\ Slotted!Exact
    /\ scope = "chain" => Chained!TypeOK /\ Chained!Exact

=============================================================================
