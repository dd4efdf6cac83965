---------------------------- MODULE PlacementSaves ----------------------------
(***************************************************************************)
(* The lanes in which a brane's controller saves where its cards stand:    *)
(* src/services/placement-saves.ts.                                        *)
(*                                                                         *)
(* A card has one lane.  The newest intent is shown at once; a drain       *)
(* writes it over the version its burst began with, and goes on from its   *)
(* own answers only.  A failed write keeps the intent and stops the lane   *)
(* until the person retries over what is stored now, or discards it.       *)
(* Other writers move, put back and take away cards, and reads of the      *)
(* brane bring what is stored, late or early.                              *)
(***************************************************************************)
EXTENDS Integers, FiniteSets

CONSTANTS
    Cards,
    MaxSaves,       \* bound: intents
    MaxElsewhere,   \* bound: writes of others
    MaxFaults       \* bound: calls that fail or lose their answer

ASSUME SavesAssumption == {MaxSaves, MaxElsewhere, MaxFaults} \subseteq Nat

VARIABLES
    stored,     \* where each card stands: place (the sequence of the intent, 0: elsewhere),
                \* version, and whether the card is there
    entry,      \* the lane of each card
    calls,      \* calls of the lanes, and their answers
    read,       \* answers to a read of the brane, on their way to the controller (at most one)
    sequence,   \* of intents
    tally,      \* of others' writes, faults, and lanes made
    foreign,    \* history: versions of each card written by others,
    applied,    \* intents stored,
    resolved,   \* intents whose caller was told they are,
    dropped,    \* intents given up: discarded, or of a card taken away,
    blindly     \* and whether a write replaced a version its intent was not made over

laneVars == <<entry, calls, sequence, resolved, dropped>>
placedVars == <<stored, foreign, applied, blindly>>
placementVars == <<laneVars, placedVars, read, tally>>

NoIntent == 0
Made == 1..MaxSaves
Place == [place : 0..MaxSaves, version : Nat, there : BOOLEAN]
NoEntry == [lane |-> 0]
Lane(c) == entry[c] # NoEntry

PlacementTypeOK ==
    /\ stored \in [Cards -> Place]
    /\ \A c \in Cards : Lane(c) =>
          /\ entry[c].saved \in Place /\ entry[c].version <= entry[c].saved.version
          /\ entry[c].desired \in {NoIntent} \cup Made /\ entry[c].waiters \subseteq Made
          /\ entry[c].active \in BOOLEAN /\ entry[c].error \in BOOLEAN
    /\ \A k \in calls : k.op \in {"write", "retry", "discard"} /\ k.card \in Cards
    /\ read \subseteq [Cards -> Place] /\ Cardinality(read) <= 1
    /\ sequence \in {NoIntent} \cup Made
    /\ tally \in [others : 0..MaxElsewhere, faults : 0..MaxFaults, lanes : Nat]
    /\ resolved \cup dropped \cup applied \subseteq Made
    /\ blindly \in BOOLEAN

Fresh(placement, lane) ==
    [lane |-> lane, saved |-> placement, version |-> placement.version, base |-> placement.version,
     desired |-> NoIntent, active |-> FALSE, error |-> FALSE, waiters |-> {}]

PlacementInit ==
    /\ stored = [c \in Cards |-> [place |-> 0, version |-> 0, there |-> TRUE]]
    /\ entry = [c \in Cards |-> Fresh(stored[c], 1)]
    /\ calls = {} /\ read = {} /\ sequence = 0
    /\ tally = [others |-> 0, faults |-> 0, lanes |-> 1]
    /\ foreign = [c \in Cards |-> {}]
    /\ applied = {} /\ resolved = {} /\ dropped = {} /\ blindly = FALSE

-----------------------------------------------------------------------------
(* Lanes *)

Accept(e, placement) ==
    IF placement.version >= e.saved.version THEN [e EXCEPT !.saved = placement] ELSE e

Call(c, e, op) ==
    [card |-> c, lane |-> e.lane, op |-> op, intent |-> e.desired, version |-> e.version,
     base |-> e.base, answer |-> "none", placement |-> e.saved]

\* The newest intent is written, unless a call of the lane is out or has failed.
Drain(c, e, pending) ==
    IF e.active \/ e.error \/ e.desired = NoIntent THEN entry' = [entry EXCEPT ![c] = e] /\ calls' = pending
    ELSE /\ entry' = [entry EXCEPT ![c] = [e EXCEPT !.active = TRUE]]
         /\ calls' = pending \cup {Call(c, e, "write")}

\* A burst of intents is made over the version known when it begins.
Begin(e) ==
    IF e.active \/ e.desired # NoIntent THEN e
    ELSE [e EXCEPT !.version = e.saved.version, !.base = e.saved.version]

SavePlacement(c) ==
    /\ Lane(c) /\ sequence < MaxSaves
    /\ sequence' = sequence + 1
    /\ LET e == [Begin(entry[c]) EXCEPT !.desired = sequence',
                   !.waiters = IF entry[c].error THEN @ ELSE @ \cup {sequence'}]
       IN  Drain(c, e, calls)
    /\ UNCHANGED <<placedVars, read, tally, resolved, dropped>>

-----------------------------------------------------------------------------
(* The store *)

Reaches(k, answer) == calls' = (calls \ {k}) \cup {[k EXCEPT !.answer = answer, !.placement = stored'[k.card]]}
Faulty(k) ==
    /\ tally.faults < MaxFaults
    /\ tally' = [tally EXCEPT !.faults = @ + 1]
    /\ Reaches(k, "failed")

Expected(k) == stored[k.card].there /\ stored[k.card].version = k.version

\* A write is refused unless the card is there at the version it expects; its answer may be lost.
Write(k) ==
    /\ k \in calls /\ k.answer = "none" /\ k.op = "write"
    /\ \/ /\ Expected(k)
          /\ stored' = [stored EXCEPT ![k.card].place = k.intent, ![k.card].version = @ + 1]
          /\ applied' = applied \cup {k.intent}
          /\ blindly' = (blindly \/ \E v \in foreign[k.card] : k.base < v /\ v <= k.version)
          /\ Faulty(k) \/ (Reaches(k, "ok") /\ UNCHANGED tally)
       \/ /\ UNCHANGED <<stored, applied, blindly>>
          /\ Faulty(k) \/ (~Expected(k) /\ Reaches(k, "failed") /\ UNCHANGED tally)
    /\ UNCHANGED <<entry, read, sequence, foreign, resolved, dropped>>

Read(k) ==
    /\ k \in calls /\ k.answer = "none" /\ k.op \in {"retry", "discard"}
    /\ UNCHANGED <<stored, applied, blindly>>
    /\ \/ Faulty(k)
       \/ UNCHANGED tally /\ Reaches(k, IF stored[k.card].there THEN "ok" ELSE "failed")
    /\ UNCHANGED <<entry, read, sequence, foreign, resolved, dropped>>

\* Another writer moves a card, or takes it away, or puts it back.
Elsewhere(c) ==
    /\ tally.others < MaxElsewhere
    /\ tally' = [tally EXCEPT !.others = @ + 1]
    /\ \E there \in BOOLEAN :
          stored' = [stored EXCEPT ![c] = [place |-> 0, version |-> @.version + 1, there |-> there]]
    /\ foreign' = [foreign EXCEPT ![c] = @ \cup {stored'[c].version}]
    /\ UNCHANGED <<laneVars, read, applied, blindly>>

-----------------------------------------------------------------------------
(* Answers *)

Current(k) == Lane(k.card) /\ entry[k.card].lane = k.lane

UpTo(waiters, intent) == {w \in waiters : w <= intent}

\* Fault: a lane goes on over the newest version it knows of.
WrittenNewest(e, k) ==
    LET a == Accept(e, k.placement) IN
    [a EXCEPT !.version = a.saved.version, !.desired = IF @ = k.intent THEN NoIntent ELSE @,
              !.waiters = @ \ UpTo(@, k.intent)]

\* Only the answer's own version is gone on from, and only its own intent is done.
Written(e, k) ==
    [Accept(e, k.placement) EXCEPT
       !.version = k.placement.version,
       !.desired = IF @ = k.intent THEN NoIntent ELSE @,
       !.waiters = @ \ UpTo(@, k.intent)]

\* A failure keeps the newest intent in view and stops the lane.
Failed(e) == [e EXCEPT !.error = TRUE, !.active = FALSE, !.waiters = {}]

AnswerWrite(k) ==
    /\ k \in calls /\ k.op = "write" /\ k.answer # "none"
    /\ LET c == k.card
           e == entry[c]
       IN  IF ~Current(k) THEN calls' = calls \ {k} /\ UNCHANGED <<entry, resolved>>
           ELSE IF k.answer = "failed"
           THEN /\ entry' = [entry EXCEPT ![c] = Failed(e)]
                /\ calls' = calls \ {k}
                /\ UNCHANGED resolved
           ELSE /\ resolved' = resolved \cup UpTo(e.waiters, k.intent)
                /\ Drain(c, [Written(e, k) EXCEPT !.active = FALSE], calls \ {k})
    /\ UNCHANGED <<placedVars, read, tally, sequence, dropped>>

\* Retrying and discarding first read where the card stands: a lost answer may have been stored.
Ask(c, op) ==
    /\ Lane(c) /\ entry[c].error /\ ~entry[c].active
    /\ entry' = [entry EXCEPT ![c].active = TRUE]
    /\ calls' = calls \cup {Call(c, entry[c], op)}
    /\ UNCHANGED <<placedVars, read, tally, sequence, resolved, dropped>>

Retried(e, k) ==
    LET a == Accept(e, k.placement) IN
    [a EXCEPT !.version = a.saved.version, !.base = a.saved.version, !.error = FALSE, !.active = FALSE]

AnswerRetry(k) ==
    /\ k \in calls /\ k.op = "retry" /\ k.answer # "none"
    /\ LET e == entry[k.card] IN
       IF ~Current(k) THEN calls' = calls \ {k} /\ UNCHANGED entry
       ELSE Drain(k.card, IF k.answer = "failed" THEN [e EXCEPT !.active = FALSE] ELSE Retried(e, k),
                  calls \ {k})
    /\ UNCHANGED <<placedVars, read, tally, sequence, resolved, dropped>>

\* Only the intent the person discarded is dropped, not one made while the card was read.
AnswerDiscard(k) ==
    /\ k \in calls /\ k.op = "discard" /\ k.answer # "none"
    /\ calls' = calls \ {k}
    /\ IF ~Current(k) THEN UNCHANGED <<entry, dropped>>
       ELSE LET e == [entry[k.card] EXCEPT !.active = FALSE] IN
            IF k.answer = "failed" THEN entry' = [entry EXCEPT ![k.card] = e] /\ UNCHANGED dropped
            ELSE IF e.desired = k.intent
            THEN /\ entry' = [entry EXCEPT ![k.card] =
                       [Accept(e, k.placement) EXCEPT !.desired = NoIntent, !.error = FALSE]]
                 /\ dropped' = dropped \cup {k.intent}
            ELSE entry' = [entry EXCEPT ![k.card] = Accept(e, k.placement)] /\ UNCHANGED dropped
    /\ UNCHANGED <<placedVars, read, tally, sequence, resolved>>

-----------------------------------------------------------------------------
(* Reads of the brane *)

ReadBrane ==
    /\ read = {}
    /\ read' = {stored}
    /\ UNCHANGED <<laneVars, placedVars, tally>>

\* A card no longer there loses its lane and its intent; one that is back gets a new lane.
Observe(answer) ==
    /\ read = {answer}
    /\ read' = {}
    /\ entry' = [c \in Cards |->
         IF ~answer[c].there THEN NoEntry
         ELSE IF Lane(c) THEN Accept(entry[c], answer[c])
         ELSE Fresh(answer[c], tally.lanes + 1)]
    /\ tally' = [tally EXCEPT !.lanes =
                   IF \E c \in Cards : ~Lane(c) /\ answer[c].there THEN @ + 1 ELSE @]
    /\ dropped' = dropped \cup
         ({entry[c].desired : c \in {x \in Cards : Lane(x) /\ ~answer[x].there}} \ {NoIntent})
    /\ UNCHANGED <<placedVars, calls, sequence, resolved>>

PlacementNext ==
    \/ \E c \in Cards : SavePlacement(c) \/ Elsewhere(c) \/ Ask(c, "retry") \/ Ask(c, "discard")
    \/ \E k \in calls : Write(k) \/ Read(k) \/ AnswerWrite(k) \/ AnswerRetry(k) \/ AnswerDiscard(k)
    \/ ReadBrane \/ \E answer \in read : Observe(answer)

PlacementSpec == PlacementInit /\ [][PlacementNext]_placementVars

\* The store answers every call, and answers are delivered.
Fairness == WF_placementVars(\E k \in calls : Write(k) \/ Read(k) \/ AnswerWrite(k) \/ AnswerRetry(k) \/ AnswerDiscard(k))

FairSpec == PlacementSpec /\ Fairness

-----------------------------------------------------------------------------
(* Properties *)

\* A card is never moved over another's move that was not known when the burst began or was
\* retried: a lane goes on from its own answers only (PlacementSaves.drain).
NoBlindMove == ~blindly

\* A caller is told its card is saved only when its intent, or a later one of that lane, is
\* stored; an answer resolves nobody who asked after the write was sent (PlacementSaves.drain).
ToldTruth == \A s \in resolved : s \in applied \/ \E t \in applied : t > s

\* The newest intent of a card is shown until it is stored, given up, or the card is gone: no
\* failure, late answer or read drops it (PlacementSaves).
IntentKept ==
    sequence \in Made =>
        sequence \in applied \cup dropped \/ \E c \in Cards : Lane(c) /\ entry[c].desired = sequence

\* A move is made over what was known, told as saved only when it is, and shown until it is or is
\* given up (placement-saves.ts:40-190).
MovesKept == PlacementTypeOK /\ NoBlindMove /\ ToldTruth /\ IntentKept

\* A flush ends: an intent does not stay pending without a failure to show (flush, drain).
FlushEnds ==
    \A c \in Cards : (Lane(c) /\ entry[c].desired # NoIntent)
                        ~> (~Lane(c) \/ entry[c].desired = NoIntent \/ entry[c].error)

=============================================================================
