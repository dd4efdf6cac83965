------------------------------ MODULE MCAdmission ------------------------------
(***************************************************************************)
(* The two sides of a request.  The server admits it: under budgets that   *)
(* two priced presses exhaust (money), and under limits on the queue with  *)
(* presses of several parts and retries (keys).  The client sends it and   *)
(* keeps a journal: each lane once, with lost answers and reloads (sent),  *)
(* and with every cause of a refusal and a brane left and returned to      *)
(* (refused).                                                              *)
(*                                                                         *)
(* They share no state, so one of them, the scope, moves in a behaviour    *)
(* and the others rest.                                                    *)
(***************************************************************************)
EXTENDS RunAdmission, TLC

CONSTANTS r1, r2, r3, f1, o1, o2, p1, p2, k1, k2, cheap, dear, mock, composing, m, c, a, s

VARIABLES
    scope,
    drawn, laneOf, asked, admitted, wire, stored, typed, composer, view, oldest, phase, held, entries, told, denied, marks

clientVars == <<drawn, laneOf, asked, admitted, wire, stored, typed, composer, view, oldest, phase, held, entries, told, denied, marks>>

Symmetric == Permutations({r1, r2, r3})

-----------------------------------------------------------------------------
MCPrice == cheap :> 1 @@ dear :> 2 @@ mock :> 0
MCMonth == [d \in 0..MaxDay |-> d \div 2]

Request(o, k, parts, fanned) == [owner |-> o, key |-> k, parts |-> parts, fanned |-> fanned]

Fanned == Request(o1, k1, <<cheap, dear>>, TRUE)
Single == Request(o1, k1, <<dear>>, FALSE)
Other  == Request(o2, k1, <<cheap>>, FALSE)
Free   == Request(o2, k2, <<mock>>, FALSE)

Priced == {Single, Other}

Keyed == INSTANCE RunAdmission WITH
    Guests <- Principals, Requests <- {Fanned, Single, Other, Free}, MaxCharge <- 0, MaxDay <- 0, MonthOf <- 0 :> 0

-----------------------------------------------------------------------------
Sent == INSTANCE Submission WITH
    Composer <- composing, Machines <- {m}, Cards <- {c}, Answers <- {a}, Stopped <- {s},
    MaxKeys <- 2, MaxViews <- 2, MaxPrompts <- 2, Causes <- {}, Returns <- FALSE

Refused == INSTANCE Submission WITH
    Composer <- composing, Machines <- {m}, Cards <- {}, Answers <- {}, Stopped <- {},
    MaxKeys <- 2, MaxViews <- 2, MaxPrompts <- 1, Causes <- {"session", "machine moved"}, Returns <- TRUE

-----------------------------------------------------------------------------
Resting == principal = o1 :> p1 @@ o2 :> p2

MCInit ==
    /\ scope \in {"money", "keys", "sent", "refused"}
    /\ Init
    /\ scope \in {"sent", "refused"} => Resting
    /\ IF scope = "sent" THEN Sent!Init ELSE Refused!Init

MCNext ==
    /\ \/ scope = "money" /\ Next /\ UNCHANGED clientVars
       \/ scope = "keys" /\ Keyed!Next /\ UNCHANGED clientVars
       \/ scope = "sent" /\ Sent!Next /\ UNCHANGED vars
       \/ scope = "refused" /\ Refused!Next /\ UNCHANGED vars
    /\ UNCHANGED scope

MCSpec == MCInit /\ [][MCNext]_<<scope, vars, clientVars>>

-----------------------------------------------------------------------------
\* What was admitted unseen can be repeated, what was admitted is not called refused, but for the cases
\* that Recoverable and NeverDenied except, and a question stays in the Ask box until it has been admitted
\* (submission.ts:24-60, workspace.ts:813-853).
RequestsKept ==
    /\ [](IF scope = "sent" THEN Sent!TypeOK ELSE Refused!TypeOK)
    /\ [](Refused!Recoverable /\ Refused!NeverDenied)
    /\ Refused!QuestionKept

\* Losing an acknowledgement creates no new key: see SameKey (submission.ts:49).
KeysKept == scope = "refused" => Refused!SameKey

=============================================================================
