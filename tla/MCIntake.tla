------------------------------- MODULE MCIntake -------------------------------
(***************************************************************************)
(* What enters a library and what a run reads of it: three webpages of two *)
(* accounts (pages); two files delivered to a guest's library (imports),   *)
(* and to a store that fails and keeps broken objects (failing);           *)
(* and the contexts of a conversation (thread), of a machine with an arrow *)
(* (machine) and of a webpage (web).                                       *)
(*                                                                         *)
(* They share no state, so one of them, the scope, moves in a behaviour    *)
(* and the others rest.                                                    *)
(***************************************************************************)
EXTENDS Ingestion, Imports, TLC

CONSTANTS b1, b2, b3, ann, bob, k1, k2, f1, f2, s1, c1, c2, mc, web

VARIABLES
    scope,
    live, revisions, contexts, runs, messages, arrows, written                          \* Contexts

contextVars == <<live, revisions, contexts, runs, messages, arrows, written>>

MCOwner == b1 :> ann @@ b2 :> ann @@ b3 :> bob

Alike == Permutations({f1, f2})

-----------------------------------------------------------------------------
Delivered == INSTANCE Imports WITH
    GuestKeys <- {k1, k2}, Whole <- TRUE, MaxActive <- 2, GuestBytes <- 2, TotalBytes <- 2,
    MaxCalls <- 3, MaxCrashes <- 1, MaxStoreFaults <- 0

Failing == INSTANCE Imports WITH
    GuestKeys <- {k1}, Whole <- FALSE, MaxActive <- 2, GuestBytes <- 1, TotalBytes <- 1,
    MaxCalls <- 2, MaxCrashes <- 1, MaxStoreFaults <- 1

-----------------------------------------------------------------------------
Ask(kind, cards, labels, machine, answers) ==
    [kind |-> kind, cards |-> cards, labels |-> labels, prompt |-> 1, machine |-> machine, answers |-> answers]

\* A question with nothing, and one about a card; and a development of an answer.
Thread == INSTANCE Contexts WITH
    made <- written, Cards <- {c1}, Webpages <- {}, Texts <- {1, 2}, Arrows <- {},
    Asked <- {Ask("reference", <<>>, <<>>, 0, FALSE), Ask("reference", <<c1>>, <<"1">>, 0, FALSE),
              Ask("source", <<>>, <<"1">>, 0, TRUE)},
    Limit <- 3, MaxContext <- 6, Width <- 2, MaxRuns <- 3, MaxVersion <- 1, MaxArrows <- 0

\* A machine whose one slot both cards fill, and a question about the two.
Machine == INSTANCE Contexts WITH
    made <- written, Cards <- {c1, c2, mc}, Webpages <- {}, Texts <- {1, 2}, Arrows <- {[word |-> "x", from |-> c1, to |-> c2]},
    Asked <- {Ask("reference", <<c1, c2>>, <<"s", "s">>, mc, FALSE), Ask("reference", <<c1, c2>>, <<"1", "2">>, 0, FALSE)},
    Limit <- 2, MaxContext <- 16, Width <- 2, MaxRuns <- 1, MaxVersion <- 2, MaxArrows <- 2

\* A webpage read beside a card, and twice.
Web == INSTANCE Contexts WITH
    made <- written, Cards <- {c1, web}, Webpages <- {web}, Texts <- {1, 2}, Arrows <- {},
    Asked <- {Ask("reference", <<web, c1>>, <<"1", "2">>, 0, FALSE), Ask("reference", <<web, web>>, <<"1", "2">>, 0, FALSE)},
    Limit <- 0, MaxContext <- 6, Width <- 2, MaxRuns <- 2, MaxVersion <- 2, MaxArrows <- 0

-----------------------------------------------------------------------------
MCInit ==
    /\ scope \in {"pages", "imports", "failing", "thread", "machine", "web"}
    /\ Init /\ ImportsInit
    /\ CASE scope = "machine" -> Machine!Init [] scope = "web" -> Web!Init [] scope = "thread" -> Thread!Init
         [] OTHER -> Thread!Init /\ live[c1].text = 1

MCNext ==
    /\ \/ scope = "pages" /\ Next /\ UNCHANGED <<importsVars, contextVars>>
       \/ scope = "imports" /\ Delivered!ImportsNext /\ UNCHANGED <<vars, contextVars>>
       \/ scope = "failing" /\ Failing!ImportsNext /\ UNCHANGED <<vars, contextVars>>
       \/ scope = "thread" /\ Thread!Next /\ UNCHANGED <<vars, importsVars>>
       \/ scope = "machine" /\ Machine!Next /\ UNCHANGED <<vars, importsVars>>
       \/ scope = "web" /\ Web!Next /\ UNCHANGED <<vars, importsVars>>
    /\ UNCHANGED scope

MCSpec == MCInit /\ [][MCNext]_<<scope, vars, importsVars, contextVars>>

-----------------------------------------------------------------------------
\* A run reads for ever what it was quoted and what its author had typed: one text of a version, and
\* all of its conversation (context-reader.ts:54-188, run-plan.ts:67-127).
ContextsTrue ==
    /\ [](CASE scope = "machine" -> Machine!TypeOK /\ Machine!QuotedExactly /\ Machine!ReadsAsTyped
            [] scope = "web" -> Web!TypeOK /\ Web!QuotedExactly /\ Web!OneRevision /\ Web!ReadsAsTyped
            [] OTHER -> Thread!TypeOK /\ Thread!QuotedExactly /\ Thread!WholeLineage)
    /\ Thread!Frozen

=============================================================================
