------------------------ MODULE PlacementSavesProofs ------------------------
(***************************************************************************)
(* Proofs about PlacementSaves, for any cards and any number of saves, of  *)
(* writes of others and of calls that fail: no card is moved over a move   *)
(* that was not known, nobody is told of a save that was not made, and the *)
(* newest intent is in view until it is stored or given up.                *)
(***************************************************************************)
EXTENDS PlacementSaves, FiniteSetTheorems, TLAPS

USE SavesAssumption

Intents == {NoIntent} \cup Made
Entry   == [lane : Nat \ {0}, saved : Place, version : Nat, base : Nat, desired : Intents,
            active : BOOLEAN, error : BOOLEAN, waiters : SUBSET Made]
CallRow == [card : Cards, lane : Nat \ {0}, op : {"write", "retry", "discard"}, intent : Made,
            version : Nat, base : Nat, answer : {"none", "ok", "failed"}, placement : Place]

Shapes ==
    /\ stored \in [Cards -> Place]
    /\ entry \in [Cards -> Entry \cup {NoEntry}]
    /\ calls \subseteq CallRow
    /\ read \subseteq [Cards -> Place]
    /\ \A a, b \in read : a = b
    /\ sequence \in Intents
    /\ tally \in [others : 0..MaxElsewhere, faults : 0..MaxFaults, lanes : Nat \ {0}]
    /\ foreign \in [Cards -> SUBSET Nat]
    /\ resolved \subseteq Made /\ dropped \subseteq Made /\ applied \subseteq Made
    /\ blindly \in BOOLEAN

\* What is known of a card is not newer than the card.
Behind(version, c) == version <= stored[c].version
NothingAhead ==
    /\ \A c \in Cards : Lane(c) => /\ entry[c].version <= entry[c].saved.version
                                   /\ Behind(entry[c].saved.version, c)
    /\ \A answer \in read : \A c \in Cards : Behind(answer[c].version, c)
    /\ \A k \in calls : Behind(k.version, k.card) /\ Behind(k.placement.version, k.card)
    /\ \A c \in Cards : \A v \in foreign[c] : Behind(v, c)

\* A lane has at most one call out, over the version the lane goes on from.
Matches(k, e) == e.active /\ (k.op = "write" => ~e.error) /\ k.base = e.base /\ k.version = e.version
Wants(e) == e.active \/ e.error => e.desired # NoIntent
OneCall ==
    /\ \A c \in Cards : Lane(c) => entry[c].lane <= tally.lanes /\ Wants(entry[c])
    /\ \A k \in calls : k.lane <= tally.lanes
    /\ \A k \in calls : Current(k) => Matches(k, entry[k.card])
    /\ \A k, j \in calls : k.card = j.card /\ k.lane = j.lane /\ Current(k) => k = j

\* Nobody else wrote what lies between the version a burst began over and the one it goes on from.
Own(base, version, c) == \A v \in foreign[c] : ~(base < v /\ v <= version)
OwnBursts ==
    /\ \A c \in Cards : Lane(c) => Own(entry[c].base, entry[c].version, c)
    /\ \A k \in calls : Own(k.base, k.version, k.card)
    /\ \A k \in calls : k.op = "write" /\ k.answer = "ok" =>
          /\ k.intent \in applied
          /\ k.placement.version = k.version + 1 /\ k.placement.version \notin foreign[k.card]

LanesInv == Shapes /\ NothingAhead /\ OneCall /\ OwnBursts
Inv == LanesInv /\ NoBlindMove /\ ToldTruth /\ IntentKept

-----------------------------------------------------------------------------
(* What a step may make of a lane *)

\* An entry that keeps the invariant, for the card c.
Good(e, c) ==
    /\ e \in Entry
    /\ e.version <= e.saved.version /\ Behind(e.saved.version, c)
    /\ Own(e.base, e.version, c) /\ Wants(e)

LEMMA LaneGood ==
    ASSUME LanesInv, NEW c \in Cards, Lane(c)
    PROVE  Good(entry[c], c) /\ entry[c].lane # 0 /\ entry[c].lane <= tally.lanes
BY DEF LanesInv, Shapes, NothingAhead, OneCall, OwnBursts, Good, Lane, Entry

LEMMA GoodIsLane ==
    ASSUME NEW e \in Entry
    PROVE  e # NoEntry
<1>1. e.lane # 0 /\ NoEntry.lane = 0
    BY DEF Entry, NoEntry
<1>2. QED
    BY <1>1

\* The store, the reads and the lanes of other cards are left alone.
OthersStay ==
    /\ UNCHANGED <<stored, foreign, applied, blindly, read, tally>>
    /\ sequence' \in Intents /\ resolved' \subseteq Made /\ dropped' \subseteq Made
LaneStays(c) ==
    /\ LanesInv' /\ Lane(c)'
    /\ \A x \in Cards \ {c} : entry'[x] = entry[x] /\ (Lane(x)' <=> Lane(x))

\* The lane of c goes on as n; the calls that stay are the lane's own at most, and a new one is
\* over the version it goes on from.
GoesOn(c, n, pending, fresh) ==
    /\ Lane(c) /\ Good(n, c) /\ n.lane = entry[c].lane
    /\ pending \subseteq calls
    /\ \A k \in pending : k.card = c /\ k.lane = n.lane => Matches(k, n) /\ fresh = {}
    /\ \/ fresh = {}
       \/ \E op \in {"write", "retry", "discard"} :
             n.active /\ (op = "write" => ~n.error) /\ fresh = {Call(c, n, op)}
    /\ entry' = [entry EXCEPT ![c] = n] /\ calls' = pending \cup fresh
    /\ OthersStay

LEMMA LaneStep ==
    ASSUME LanesInv, NEW c \in Cards, NEW n, NEW pending, NEW fresh, GoesOn(c, n, pending, fresh)
    PROVE  LaneStays(c) /\ entry'[c] = n
<1> USE DEF GoesOn, OthersStay
<1>1. /\ entry'[c] = n /\ \A x \in Cards \ {c} : entry'[x] = entry[x]
      /\ n \in Entry /\ n # NoEntry /\ n.lane <= tally.lanes
    BY LaneGood, GoodIsLane DEF LanesInv, Shapes, Good
<1>2. ASSUME NEW k \in fresh
      PROVE  /\ k \in CallRow /\ k.card = c /\ k.lane = n.lane /\ k.base = n.base /\ k.version = n.version
             /\ k.answer = "none" /\ k.placement = n.saved /\ n.active /\ (k.op = "write" => ~n.error) /\ fresh = {k}
  <2>1. PICK op \in {"write", "retry", "discard"} :
               n.active /\ (op = "write" => ~n.error) /\ fresh = {Call(c, n, op)}
      BY <1>2
  <2>2. k = Call(c, n, op)
      BY <2>1
  <2>3. QED
      BY <1>1, <2>1, <2>2 DEF Call, CallRow, Entry, Good, Wants, Intents
<1>3. \A k \in calls' : k \in pending \/ k \in fresh
    OBVIOUS
<1>4. Shapes'
  <2>1. entry' \in [Cards -> Entry \cup {NoEntry}]
      BY <1>1 DEF LanesInv, Shapes
  <2>2. calls' \subseteq CallRow
      BY <1>2, <1>3 DEF LanesInv, Shapes
  <2>3. QED
      BY <2>1, <2>2 DEF LanesInv, Shapes
<1>5. /\ \A v, x : Behind(v, x)' <=> Behind(v, x)
      /\ \A b, v, x : Own(b, v, x)' <=> Own(b, v, x)
    BY DEF Behind, Own
<1>6. \A x \in Cards \ {c} : Lane(x)' <=> Lane(x)
    BY <1>1 DEF Lane
<1>7. Lane(c)'
    BY <1>1 DEF Lane
<1>8. NothingAhead'
  <2>1. \A x \in Cards : Lane(x)' => entry'[x].version <= entry'[x].saved.version /\ Behind(entry[x].saved.version, x)'
      BY <1>1, <1>5, <1>6 DEF LanesInv, NothingAhead, Good
  <2>2. \A k \in calls' : Behind(k.version, k.card)' /\ Behind(k.placement.version, k.card)'
    <3>1. ASSUME NEW k \in fresh PROVE Behind(k.version, k.card) /\ Behind(k.placement.version, k.card)
      <4>1. n.version \in Nat /\ n.saved.version \in Nat /\ stored[c].version \in Nat
          BY <1>1 DEF Entry, Place, LanesInv, Shapes
      <4>2. QED
          BY <1>2, <3>1, <4>1 DEF Good, Behind
    <3>2. QED
        BY <1>3, <1>5, <3>1 DEF LanesInv, NothingAhead
  <2>3. /\ \A answer \in read' : \A x \in Cards : Behind(answer[x].version, x)'
        /\ \A x \in Cards : \A v \in foreign'[x] : Behind(v, x)'
      BY <1>5 DEF LanesInv, NothingAhead
  <2>4. QED
      BY <2>1, <2>2, <2>3 DEF NothingAhead
<1>9. OneCall'
  <2>1. \A x \in Cards : Lane(x)' => entry'[x].lane <= tally'.lanes /\ Wants(entry'[x])
      BY <1>1, <1>6 DEF LanesInv, OneCall, Good
  <2>2. \A k \in calls' : k.lane <= tally'.lanes
      BY <1>1, <1>2, <1>3 DEF LanesInv, OneCall
  <2>3. ASSUME NEW k \in calls', Current(k)'
        PROVE  Matches(k, entry'[k.card])
    <3>1. CASE k \in fresh
        BY <1>1, <1>2, <3>1 DEF Matches
    <3>2. CASE k \in pending /\ k.card = c
        BY <1>1, <2>3, <3>2 DEF Current
    <3>3. CASE k \in pending /\ k.card # c
      <4>1. k.card \in Cards
          BY <3>3 DEF LanesInv, Shapes, CallRow
      <4>2. Current(k)
          BY <1>1, <1>6, <2>3, <3>3, <4>1 DEF Current
      <4>3. QED
          BY <1>1, <3>3, <4>1, <4>2 DEF LanesInv, OneCall
    <3>4. QED
        BY <1>3, <3>1, <3>2, <3>3
  <2>4. ASSUME NEW k \in calls', NEW j \in calls', k.card = j.card, k.lane = j.lane, Current(k)'
        PROVE  k = j
    <3>1. CASE k.card = c
      <4>1. k.lane = n.lane /\ j.lane = n.lane /\ j.card = c
          BY <1>1, <2>4, <3>1 DEF Current
      <4>2. CASE k \in pending /\ j \in pending
        <5>1. Current(k)
            BY <3>1, <4>1 DEF Current
        <5>2. QED
            BY <2>4, <4>2, <5>1 DEF LanesInv, OneCall
      <4>3. CASE k \in fresh \/ j \in fresh
          BY <1>2, <1>3, <3>1, <4>1, <4>3
      <4>4. QED
          BY <1>3, <4>2, <4>3
    <3>2. CASE k.card # c
      <4>1. k \in pending /\ j \in pending
          BY <1>2, <1>3, <2>4, <3>2
      <4>2. k.card \in Cards
          BY <4>1 DEF LanesInv, Shapes, CallRow
      <4>3. Current(k)
          BY <1>1, <1>6, <2>4, <3>2, <4>2 DEF Current
      <4>4. QED
          BY <2>4, <4>1, <4>3 DEF LanesInv, OneCall
    <3>3. QED
        BY <3>1, <3>2
  <2>5. QED
      BY <2>1, <2>2, <2>3, <2>4 DEF OneCall
<1>10. OwnBursts'
  <2>1. \A x \in Cards : Lane(x)' => Own(entry[x].base, entry[x].version, x)'
      BY <1>1, <1>5, <1>6 DEF LanesInv, OwnBursts, Good
  <2>2. \A k \in calls' : Own(k.base, k.version, k.card)'
      BY <1>2, <1>3, <1>5 DEF LanesInv, OwnBursts, Good
  <2>3. \A k \in calls' : k.op = "write" /\ k.answer = "ok" =>
          /\ k.intent \in applied'
          /\ k.placement.version = k.version + 1 /\ k.placement.version \notin foreign'[k.card]
      BY <1>2, <1>3 DEF LanesInv, OwnBursts
  <2>4. QED
      BY <2>1, <2>2, <2>3 DEF OwnBursts
<1>11. QED
    BY <1>1, <1>4, <1>6, <1>7, <1>8, <1>9, <1>10 DEF LanesInv, LaneStays

\* A lane that drains goes on with its intent as it was.
LEMMA DrainStep ==
    ASSUME LanesInv, NEW c \in Cards, Lane(c), NEW e, Good(e, c), e.lane = entry[c].lane,
           NEW pending, pending \subseteq calls,
           \A k \in pending : k.card = c /\ k.lane = e.lane => Matches(k, e),
           Drain(c, e, pending), OthersStay
    PROVE  LaneStays(c) /\ entry'[c].desired = e.desired
<1>1. CASE e.active \/ e.error \/ e.desired = NoIntent
  <2>1. GoesOn(c, e, pending, {})
      BY <1>1 DEF Drain, GoesOn
  <2>2. QED
      BY <2>1, LaneStep
<1>2. CASE ~(e.active \/ e.error \/ e.desired = NoIntent)
  <2> DEFINE n == [e EXCEPT !.active = TRUE]
             fresh == {Call(c, n, "write")}
  <2>1. entry' = [entry EXCEPT ![c] = n] /\ calls' = pending \cup {Call(c, e, "write")}
      BY <1>2 DEF Drain
  <2>2. e \in Entry
      BY DEF Good
  <2>3. /\ n \in Entry /\ n.lane = e.lane /\ n.saved = e.saved /\ n.version = e.version /\ n.base = e.base
        /\ n.desired = e.desired /\ n.active = TRUE /\ n.error = e.error
      BY <2>2 DEF Entry
  <2> HIDE DEF n
  <2>4. Good(n, c)
      BY <1>2, <2>3 DEF Good, Wants
  <2>5. Call(c, e, "write") = Call(c, n, "write")
      BY <2>3 DEF Call
  <2>6. \A k \in pending : ~(k.card = c /\ k.lane = n.lane)
      BY <1>2, <2>3 DEF Matches
  <2>7. GoesOn(c, n, pending, fresh)
      BY <1>2, <2>1, <2>3, <2>4, <2>5, <2>6 DEF GoesOn
  <2>8. QED
      BY <2>3, <2>7, LaneStep
<1>3. QED
    BY <1>1, <1>2

-----------------------------------------------------------------------------
(* Saves, retries and discards *)

\* A step of one lane keeps the newest intent in view, unless it is stored or given up.
LEMMA InView ==
    ASSUME LanesInv, IntentKept, NEW c \in Cards, Lane(c), LaneStays(c), sequence' = sequence,
           applied' = applied, dropped \subseteq dropped',
           \/ entry'[c].desired = entry[c].desired
           \/ entry[c].desired \in applied' \cup dropped'
    PROVE  IntentKept'
<1>1. SUFFICES ASSUME sequence \in Made, sequence \notin applied' \cup dropped'
               PROVE  \E x \in Cards : Lane(x)' /\ entry'[x].desired = sequence
    BY DEF IntentKept
<1>2. PICK x \in Cards : Lane(x) /\ entry[x].desired = sequence
    BY <1>1 DEF IntentKept
<1>3. Lane(x)' /\ entry'[x].desired = sequence
    BY <1>1, <1>2 DEF LaneStays
<1>4. QED
    BY <1>3

\* Answers that were told stay true while what is stored only grows.
LEMMA StaysTrue ==
    ASSUME ToldTruth, applied \subseteq applied', resolved' = resolved
    PROVE  ToldTruth'
BY DEF ToldTruth

LEMMA BeginGood ==
    ASSUME LanesInv, NEW c \in Cards, Lane(c), NEW b, b = Begin(entry[c])
    PROVE  /\ b \in Entry /\ b.lane = entry[c].lane /\ b.saved = entry[c].saved
           /\ b.error = entry[c].error /\ b.active = entry[c].active
           /\ b.waiters = entry[c].waiters /\ b.version <= b.saved.version /\ Own(b.base, b.version, c)
           /\ entry[c].active => b = entry[c]
<1> DEFINE e == entry[c]
<1>1. e \in Entry /\ Good(e, c)
    BY LaneGood DEF Good
<1> HIDE DEF e
<1>2. CASE e.active \/ e.desired # NoIntent
    BY <1>1, <1>2 DEF Begin, Good, e
<1>3. CASE ~(e.active \/ e.desired # NoIntent)
  <2>1. b = [e EXCEPT !.version = e.saved.version, !.base = e.saved.version]
      BY <1>3 DEF Begin, e
  <2>2. e.saved \in Place /\ e.saved.version \in Nat
      BY <1>1 DEF Entry, Place
  <2>3. /\ b \in Entry /\ b.lane = e.lane /\ b.saved = e.saved /\ b.error = e.error /\ b.active = e.active
        /\ b.waiters = e.waiters /\ b.version = e.saved.version /\ b.base = e.saved.version
      BY <1>1, <2>1, <2>2 DEF Entry
  <2>4. foreign[c] \subseteq Nat
      BY DEF LanesInv, Shapes
  <2>5. Own(b.base, b.version, c) /\ b.version <= b.saved.version
      BY <2>2, <2>3, <2>4 DEF Own
  <2>6. QED
      BY <1>3, <2>3, <2>5 DEF e
<1>4. QED
    BY <1>2, <1>3

LEMMA SaveStep ==
    ASSUME Inv, NEW c \in Cards, SavePlacement(c)
    PROVE  Inv'
<1> DEFINE b == Begin(entry[c])
           waiters == IF entry[c].error THEN b.waiters ELSE b.waiters \cup {sequence'}
           e == [b EXCEPT !.desired = sequence', !.waiters = waiters]
<1>1. Lane(c) /\ LanesInv
    BY DEF SavePlacement, Inv
<1>2. sequence' = sequence + 1 /\ sequence' \in Made /\ sequence' # NoIntent
    BY <1>1 DEF SavePlacement, LanesInv, Shapes, Intents, Made, NoIntent
<1>3. /\ b \in Entry /\ b.lane = entry[c].lane /\ b.saved = entry[c].saved
      /\ b.error = entry[c].error /\ b.active = entry[c].active
      /\ b.waiters = entry[c].waiters /\ b.version <= b.saved.version /\ Own(b.base, b.version, c)
      /\ entry[c].active => b = entry[c]
    BY <1>1, BeginGood
<1>4. Drain(c, e, calls)
    BY DEF SavePlacement
<1> HIDE DEF b
<1>5. waiters \in SUBSET Made
    BY <1>2, <1>3 DEF Entry
<1> HIDE DEF waiters
<1>6. /\ e \in Entry /\ e.lane = b.lane /\ e.saved = b.saved /\ e.version = b.version /\ e.base = b.base
      /\ e.desired = sequence' /\ e.active = b.active /\ e.error = b.error
    BY <1>2, <1>3, <1>5 DEF Entry, Intents
<1> HIDE DEF e
<1>7. Good(e, c)
    BY <1>1, <1>2, <1>3, <1>6, LaneGood DEF Good, Wants
<1>8. ASSUME NEW k \in calls, k.card = c, k.lane = e.lane
      PROVE  Matches(k, e)
  <2>1. Current(k)
      BY <1>1, <1>3, <1>6, <1>8 DEF Current
  <2>2. Matches(k, entry[c])
      BY <1>1, <1>8, <2>1 DEF LanesInv, OneCall
  <2>3. QED
      BY <1>3, <1>6, <2>2 DEF Matches
<1>9. OthersStay
    BY <1>1, <1>2 DEF SavePlacement, OthersStay, placedVars, LanesInv, Shapes, Intents
<1>10. LaneStays(c) /\ entry'[c].desired = sequence'
    BY <1>1, <1>3, <1>4, <1>6, <1>7, <1>8, <1>9, DrainStep
<1>11. NoBlindMove' /\ ToldTruth'
    BY StaysTrue DEF Inv, NoBlindMove, SavePlacement, placedVars
<1>12. IntentKept'
    BY <1>10 DEF IntentKept, LaneStays
<1>13. QED
    BY <1>10, <1>11, <1>12 DEF Inv, LaneStays

LEMMA AskStep ==
    ASSUME Inv, NEW c \in Cards, NEW op \in {"retry", "discard"}, Ask(c, op)
    PROVE  Inv'
<1> DEFINE e == entry[c]
           n == [e EXCEPT !.active = TRUE]
<1>1. Lane(c) /\ LanesInv /\ e.error /\ ~e.active /\ e \in Entry /\ Good(e, c)
    BY LaneGood DEF Ask, Inv, Good
<1>2. /\ entry' = [entry EXCEPT ![c] = n] /\ calls' = calls \cup {Call(c, e, op)}
    BY DEF Ask
<1> HIDE DEF e
<1>3. /\ n \in Entry /\ n.lane = e.lane /\ n.saved = e.saved /\ n.version = e.version /\ n.base = e.base
      /\ n.desired = e.desired /\ n.active = TRUE /\ n.error = e.error
    BY <1>1 DEF Entry
<1> HIDE DEF n
<1>4. Good(n, c)
    BY <1>1, <1>3 DEF Good, Wants
<1>5. Call(c, e, op) = Call(c, n, op)
    BY <1>3 DEF Call
<1>6. ASSUME NEW k \in calls, k.card = c, k.lane = n.lane
      PROVE  FALSE
  <2>1. Current(k) /\ Matches(k, e)
      BY <1>1, <1>3, <1>6 DEF Current, LanesInv, OneCall, e
  <2>2. QED
      BY <1>1, <2>1 DEF Matches
<1>7. OthersStay
    BY <1>1 DEF Ask, OthersStay, placedVars, LanesInv, Shapes
<1>8. GoesOn(c, n, calls, {Call(c, n, op)})
    BY <1>1, <1>2, <1>3, <1>4, <1>5, <1>6, <1>7 DEF GoesOn, e
<1>9. LaneStays(c) /\ entry'[c].desired = entry[c].desired
    BY <1>1, <1>3, <1>8, LaneStep DEF e
<1>10. NoBlindMove' /\ ToldTruth'
    BY StaysTrue DEF Inv, NoBlindMove, Ask, placedVars
<1>11. IntentKept'
    BY <1>1, <1>9, InView DEF Inv, Ask, placedVars
<1>12. QED
    BY <1>9, <1>10, <1>11 DEF Inv, LaneStays

-----------------------------------------------------------------------------
(* Answers *)

\* A call that is gone leaves the lanes as they were.
LEMMA CallsFewer ==
    ASSUME LanesInv, calls' \subseteq calls,
           UNCHANGED <<stored, entry, read, tally, foreign, applied, blindly, sequence, resolved, dropped>>
    PROVE  LanesInv'
<1>1. Shapes'
    BY DEF LanesInv, Shapes
<1>2. /\ \A v, x : Behind(v, x)' <=> Behind(v, x)
      /\ \A b, v, x : Own(b, v, x)' <=> Own(b, v, x)
      /\ \A x : Lane(x)' <=> Lane(x)
      /\ \A k : Current(k)' <=> Current(k)
    BY DEF Behind, Own, Lane, Current
<1>3. NothingAhead'
    BY <1>2 DEF LanesInv, NothingAhead
<1>4. OneCall'
    BY <1>2 DEF LanesInv, OneCall
<1>5. OwnBursts'
    BY <1>2 DEF LanesInv, OwnBursts
<1>6. QED
    BY <1>1, <1>3, <1>4, <1>5 DEF LanesInv

LEMMA DropStep ==
    ASSUME Inv, calls' \subseteq calls,
           UNCHANGED <<stored, entry, read, tally, foreign, applied, blindly, sequence, resolved, dropped>>
    PROVE  Inv'
<1>1. LanesInv'
    BY CallsFewer DEF Inv
<1>2. NoBlindMove' /\ ToldTruth' /\ IntentKept'
    BY DEF Inv, NoBlindMove, ToldTruth, IntentKept, Lane
<1>3. QED
    BY <1>1, <1>2 DEF Inv

\* A lane accepts what it is told only if it is not older than what it knows.
LEMMA AcceptGood ==
    ASSUME LanesInv, NEW c \in Cards, NEW e, Good(e, c), NEW p \in Place, Behind(p.version, c),
           NEW a, a = Accept(e, p)
    PROVE  /\ a \in Entry /\ Good(a, c)
           /\ a.lane = e.lane /\ a.version = e.version /\ a.base = e.base /\ a.desired = e.desired
           /\ a.active = e.active /\ a.error = e.error /\ a.waiters = e.waiters
           /\ p.version <= a.saved.version
<1>1. e \in Entry /\ p.version \in Nat /\ e.saved.version \in Nat /\ e.version \in Nat
    BY DEF Good, Entry, Place
<1>2. CASE p.version >= e.saved.version
  <2>1. a = [e EXCEPT !.saved = p]
      BY <1>2 DEF Accept
  <2>2. /\ a \in Entry /\ a.lane = e.lane /\ a.version = e.version /\ a.base = e.base
        /\ a.desired = e.desired /\ a.active = e.active /\ a.error = e.error /\ a.waiters = e.waiters
        /\ a.saved = p
      BY <1>1, <2>1 DEF Entry
  <2>3. Good(a, c)
      BY <1>1, <1>2, <2>2 DEF Good, Wants
  <2>4. QED
      BY <1>1, <2>2, <2>3
<1>3. CASE ~(p.version >= e.saved.version)
    BY <1>1, <1>3 DEF Accept, Good
<1>4. QED
    BY <1>2, <1>3

\* The answer to a call of a lane that is still the card's: the lane has no other call.
LEMMA AnswerCurrent ==
    ASSUME LanesInv, NEW k \in calls, Current(k)
    PROVE  /\ k \in CallRow /\ k.card \in Cards /\ Lane(k.card)
           /\ entry[k.card] \in Entry /\ Good(entry[k.card], k.card) /\ entry[k.card].lane = k.lane
           /\ Matches(k, entry[k.card]) /\ Behind(k.placement.version, k.card) /\ k.placement \in Place
           /\ \A j \in calls \ {k} : ~(j.card = k.card /\ j.lane = k.lane)
<1>1. k \in CallRow /\ k.card \in Cards /\ k.placement \in Place
    BY DEF LanesInv, Shapes, CallRow
<1>2. Lane(k.card) /\ entry[k.card].lane = k.lane
    BY DEF Current
<1>3. QED
    BY <1>1, <1>2, LaneGood DEF LanesInv, OneCall, NothingAhead, Good

LEMMA WrittenGood ==
    ASSUME LanesInv, NEW k \in calls, Current(k), k.op = "write", k.answer = "ok",
           NEW n, n = [Written(entry[k.card], k) EXCEPT !.active = FALSE]
    PROVE  /\ Good(n, k.card) /\ n.lane = k.lane
           /\ n.desired = entry[k.card].desired \/ entry[k.card].desired = k.intent
<1> DEFINE e == entry[k.card]
           a == Accept(e, k.placement)
           waiters == a.waiters \ UpTo(a.waiters, k.intent)
           desired == IF a.desired = k.intent THEN NoIntent ELSE a.desired
<1>1. /\ k \in CallRow /\ k.card \in Cards /\ e \in Entry /\ Good(e, k.card) /\ e.lane = k.lane
      /\ Matches(k, e) /\ Behind(k.placement.version, k.card) /\ k.placement \in Place
    BY AnswerCurrent
<1>2. /\ a \in Entry /\ Good(a, k.card)
      /\ a.lane = e.lane /\ a.version = e.version /\ a.base = e.base /\ a.desired = e.desired
      /\ a.active = e.active /\ a.error = e.error /\ a.waiters = e.waiters
      /\ k.placement.version <= a.saved.version
    BY <1>1, AcceptGood
<1>3. n = [[a EXCEPT !.version = k.placement.version, !.desired = desired, !.waiters = waiters] EXCEPT !.active = FALSE]
    BY DEF Written
<1> HIDE DEF a
<1>4. waiters \in SUBSET Made /\ desired \in Intents /\ k.placement.version \in Nat
    BY <1>1, <1>2 DEF Entry, Intents, Place
<1> HIDE DEF waiters, desired, e
<1>5. /\ n \in Entry /\ n.lane = a.lane /\ n.saved = a.saved /\ n.version = k.placement.version
      /\ n.base = a.base /\ n.desired = desired /\ n.active = FALSE /\ n.error = a.error
    BY <1>2, <1>3, <1>4 DEF Entry
<1>6. Own(n.base, n.version, k.card)
  <2>1. k.placement.version = k.version + 1 /\ k.placement.version \notin foreign[k.card]
      BY DEF LanesInv, OwnBursts
  <2>2. Own(e.base, e.version, k.card) /\ k.version = e.version
      BY <1>1 DEF Good, Matches
  <2>3. foreign[k.card] \subseteq Nat /\ k.version \in Nat
      BY <1>1 DEF LanesInv, Shapes, CallRow
  <2>4. QED
      BY <1>2, <1>5, <2>1, <2>2, <2>3 DEF Own
<1>7. Wants(n)
    BY <1>1, <1>2, <1>5 DEF Matches, Wants
<1>8. Good(n, k.card)
    BY <1>2, <1>5, <1>6, <1>7 DEF Good
<1>9. QED
    BY <1>1, <1>2, <1>5, <1>8 DEF desired, e

LEMMA AnswerWriteStep ==
    ASSUME Inv, NEW k \in calls, AnswerWrite(k)
    PROVE  Inv'
<1> USE DEF Inv
<1>1. CASE ~Current(k)
    BY <1>1, DropStep DEF AnswerWrite, placedVars
<1>2. CASE Current(k) /\ k.answer = "failed"
  <2> DEFINE e == entry[k.card]
             n == Failed(e)
  <2>1. /\ k.card \in Cards /\ Lane(k.card) /\ e \in Entry /\ Good(e, k.card) /\ e.lane = k.lane
        /\ Matches(k, e) /\ \A j \in calls \ {k} : ~(j.card = k.card /\ j.lane = k.lane)
      BY <1>2, AnswerCurrent
  <2>2. entry' = [entry EXCEPT ![k.card] = n] /\ calls' = calls \ {k}
      BY <1>2 DEF AnswerWrite
  <2> HIDE DEF e
  <2>3. /\ n \in Entry /\ n.lane = e.lane /\ n.saved = e.saved /\ n.version = e.version /\ n.base = e.base
        /\ n.desired = e.desired
      BY <2>1 DEF Entry, Failed
  <2> HIDE DEF n
  <2>4. Good(n, k.card)
      BY <2>1, <2>3 DEF Good, Wants, Matches
  <2>5. OthersStay
      BY <1>2 DEF AnswerWrite, OthersStay, placedVars, LanesInv, Shapes
  <2>6. GoesOn(k.card, n, calls \ {k}, {})
      BY <2>1, <2>2, <2>3, <2>4, <2>5 DEF GoesOn, e
  <2>7. LaneStays(k.card) /\ entry'[k.card].desired = entry[k.card].desired
      BY <2>1, <2>3, <2>6, LaneStep DEF e
  <2>8. NoBlindMove' /\ ToldTruth'
      BY <1>2, StaysTrue DEF NoBlindMove, AnswerWrite, placedVars
  <2>9. IntentKept'
      BY <1>2, <2>1, <2>7, InView DEF AnswerWrite, placedVars
  <2>10. QED
      BY <2>7, <2>8, <2>9 DEF LaneStays
<1>3. CASE Current(k) /\ k.answer # "failed"
  <2> DEFINE e == entry[k.card]
             n == [Written(e, k) EXCEPT !.active = FALSE]
  <2>1. /\ k \in CallRow /\ k.card \in Cards /\ Lane(k.card) /\ e \in Entry /\ e.lane = k.lane
        /\ \A j \in calls \ {k} : ~(j.card = k.card /\ j.lane = k.lane)
      BY <1>3, AnswerCurrent
  <2>2. /\ k.op = "write" /\ k.answer = "ok" /\ Drain(k.card, n, calls \ {k})
        /\ resolved' = resolved \cup UpTo(e.waiters, k.intent)
        /\ UNCHANGED <<stored, foreign, applied, blindly, read, tally, sequence, dropped>>
      BY <1>3, <2>1 DEF AnswerWrite, placedVars, CallRow
  <2>3. UpTo(e.waiters, k.intent) \subseteq Made /\ \A w \in UpTo(e.waiters, k.intent) : w <= k.intent
      BY <2>1 DEF UpTo, Entry
  <2>4. k.intent \in applied /\ k.intent \in Made
      BY <2>1, <2>2 DEF LanesInv, OwnBursts, CallRow
  <2> HIDE DEF n
  <2>5. /\ Good(n, k.card) /\ n.lane = k.lane
        /\ n.desired = e.desired \/ e.desired = k.intent
      BY <1>3, <2>2, WrittenGood DEF n
  <2>6. OthersStay
      BY <2>2, <2>3 DEF OthersStay, LanesInv, Shapes
  <2>7. LaneStays(k.card) /\ entry'[k.card].desired = n.desired
      BY <2>1, <2>2, <2>5, <2>6, DrainStep
  <2>8. NoBlindMove'
      BY <2>2 DEF NoBlindMove
  <2>9. ToldTruth'
    <3>1. SUFFICES ASSUME NEW s \in resolved' PROVE s \in applied \/ \E t \in applied : t > s
        BY <2>2 DEF ToldTruth
    <3>2. CASE s \in resolved
        BY <3>2 DEF ToldTruth
    <3>3. CASE s \in UpTo(e.waiters, k.intent)
      <4>1. s <= k.intent /\ s \in Int /\ k.intent \in Int
          BY <2>3, <2>4, <3>3 DEF Made
      <4>2. CASE s = k.intent
          BY <2>4, <4>2
      <4>3. CASE k.intent > s
          BY <2>4, <4>3
      <4>4. QED
          BY <4>1, <4>2, <4>3
    <3>4. QED
        BY <2>2, <3>2, <3>3
  <2>10. IntentKept'
      BY <2>1, <2>2, <2>4, <2>5, <2>7, InView
  <2>11. QED
      BY <2>7, <2>8, <2>9, <2>10 DEF LaneStays
<1>4. QED
    BY <1>1, <1>2, <1>3

LEMMA AnswerRetryStep ==
    ASSUME Inv, NEW k \in calls, AnswerRetry(k)
    PROVE  Inv'
<1> USE DEF Inv
<1>1. CASE ~Current(k)
    BY <1>1, DropStep DEF AnswerRetry, placedVars
<1>2. CASE Current(k)
  <2> DEFINE e == entry[k.card]
             a == Accept(e, k.placement)
             n == IF k.answer = "failed" THEN [e EXCEPT !.active = FALSE] ELSE Retried(e, k)
  <2>1. /\ k.card \in Cards /\ Lane(k.card) /\ e \in Entry /\ Good(e, k.card) /\ e.lane = k.lane
        /\ Behind(k.placement.version, k.card) /\ k.placement \in Place
        /\ \A j \in calls \ {k} : ~(j.card = k.card /\ j.lane = k.lane)
      BY <1>2, AnswerCurrent
  <2>2. /\ Drain(k.card, n, calls \ {k})
        /\ UNCHANGED <<stored, foreign, applied, blindly, read, tally, sequence, resolved, dropped>>
      BY <1>2 DEF AnswerRetry, placedVars
  <2>3. /\ a \in Entry /\ Good(a, k.card) /\ a.lane = e.lane /\ a.desired = e.desired
      BY <2>1, AcceptGood
  <2> HIDE DEF e, a
  <2>4. Good(n, k.card) /\ n.lane = k.lane /\ n.desired = e.desired
    <3>1. CASE k.answer = "failed"
      <4>1. /\ n \in Entry /\ n.lane = e.lane /\ n.saved = e.saved /\ n.version = e.version /\ n.base = e.base
            /\ n.desired = e.desired /\ n.active = FALSE /\ n.error = e.error
          BY <2>1, <3>1 DEF Entry
      <4> HIDE DEF n
      <4>2. QED
          BY <2>1, <4>1 DEF Good, Wants
    <3>2. CASE k.answer # "failed"
      <4>1. n = [a EXCEPT !.version = a.saved.version, !.base = a.saved.version, !.error = FALSE, !.active = FALSE]
          BY <3>2 DEF Retried, a
      <4> HIDE DEF n
      <4>2. a.saved \in Place /\ a.saved.version \in Nat /\ foreign[k.card] \subseteq Nat
          BY <2>1, <2>3 DEF Entry, Place, LanesInv, Shapes
      <4>3. /\ n \in Entry /\ n.lane = a.lane /\ n.saved = a.saved /\ n.version = a.saved.version
            /\ n.base = a.saved.version /\ n.desired = a.desired /\ n.active = FALSE /\ n.error = FALSE
          BY <2>3, <4>1, <4>2 DEF Entry
      <4>4. Own(n.base, n.version, k.card)
          BY <4>2, <4>3 DEF Own
      <4>5. QED
          BY <2>1, <2>3, <4>2, <4>3, <4>4 DEF Good, Wants
    <3>3. QED
        BY <3>1, <3>2
  <2> HIDE DEF n
  <2>5. OthersStay
      BY <2>2 DEF OthersStay, LanesInv, Shapes
  <2>6. e.lane = entry[k.card].lane /\ e.desired = entry[k.card].desired
      BY DEF e
  <2>7. LaneStays(k.card) /\ entry'[k.card].desired = n.desired
      BY <2>1, <2>2, <2>4, <2>5, <2>6, DrainStep
  <2>8. NoBlindMove' /\ ToldTruth'
      BY <2>2, StaysTrue DEF NoBlindMove
  <2>9. IntentKept'
      BY <2>1, <2>2, <2>4, <2>6, <2>7, InView
  <2>10. QED
      BY <2>7, <2>8, <2>9 DEF LaneStays
<1>3. QED
    BY <1>1, <1>2

LEMMA AnswerDiscardStep ==
    ASSUME Inv, NEW k \in calls, AnswerDiscard(k)
    PROVE  Inv'
<1> USE DEF Inv
<1>1. CASE ~Current(k)
    BY <1>1, DropStep DEF AnswerDiscard, placedVars
<1>2. CASE Current(k)
  <2> DEFINE e == entry[k.card]
             d == [e EXCEPT !.active = FALSE]
             a == Accept(d, k.placement)
             gone == k.answer # "failed" /\ d.desired = k.intent
             n == IF k.answer = "failed" THEN d
                  ELSE IF d.desired = k.intent THEN [a EXCEPT !.desired = NoIntent, !.error = FALSE] ELSE a
  <2>1. /\ k \in CallRow /\ k.card \in Cards /\ Lane(k.card) /\ e \in Entry /\ Good(e, k.card) /\ e.lane = k.lane
        /\ Matches(k, e) /\ Behind(k.placement.version, k.card) /\ k.placement \in Place
        /\ \A j \in calls \ {k} : ~(j.card = k.card /\ j.lane = k.lane)
      BY <1>2, AnswerCurrent
  <2>2. /\ entry' = [entry EXCEPT ![k.card] = n] /\ calls' = calls \ {k}
        /\ dropped' = IF gone THEN dropped \cup {k.intent} ELSE dropped
        /\ UNCHANGED <<stored, foreign, applied, blindly, read, tally, sequence, resolved>>
      BY <1>2 DEF AnswerDiscard, placedVars
  <2> HIDE DEF e
  <2>3. /\ d \in Entry /\ d.lane = e.lane /\ d.saved = e.saved /\ d.version = e.version /\ d.base = e.base
        /\ d.desired = e.desired /\ d.active = FALSE /\ d.error = e.error
      BY <2>1 DEF Entry
  <2> HIDE DEF d
  <2>4. Good(d, k.card)
      BY <2>1, <2>3 DEF Good, Wants
  <2>5. /\ a \in Entry /\ Good(a, k.card) /\ a.lane = d.lane /\ a.desired = d.desired /\ a.active = FALSE
      BY <2>1, <2>3, <2>4, AcceptGood
  <2> HIDE DEF a
  <2>6. Good(n, k.card) /\ n.lane = k.lane /\ (n.desired = e.desired \/ (gone /\ e.desired = k.intent))
    <3>1. CASE ~gone
        BY <2>1, <2>3, <2>4, <2>5, <3>1
    <3>2. CASE gone
      <4>1. n = [a EXCEPT !.desired = NoIntent, !.error = FALSE]
          BY <3>2
      <4> HIDE DEF n
      <4>2. /\ n \in Entry /\ n.lane = a.lane /\ n.saved = a.saved /\ n.version = a.version /\ n.base = a.base
            /\ n.active = FALSE /\ n.error = FALSE
          BY <2>5, <4>1 DEF Entry, Intents
      <4>3. Good(n, k.card)
          BY <2>5, <4>2 DEF Good, Wants
      <4>4. QED
          BY <2>1, <2>3, <2>5, <3>2, <4>2, <4>3
    <3>3. QED
        BY <3>1, <3>2
  <2> HIDE DEF n, gone
  <2>7. k.intent \in Made
      BY <2>1 DEF CallRow
  <2>8. OthersStay
      BY <2>2, <2>7 DEF OthersStay, LanesInv, Shapes
  <2>9. e = entry[k.card]
      BY DEF e
  <2>10. GoesOn(k.card, n, calls \ {k}, {})
      BY <2>1, <2>2, <2>6, <2>8, <2>9 DEF GoesOn
  <2>11. LaneStays(k.card) /\ entry'[k.card] = n
      BY <2>1, <2>10, LaneStep
  <2>12. NoBlindMove' /\ ToldTruth'
      BY <2>2, StaysTrue DEF NoBlindMove
  <2>13. entry'[k.card].desired = entry[k.card].desired \/ entry[k.card].desired \in applied' \cup dropped'
      BY <2>2, <2>6, <2>9, <2>11
  <2>14. IntentKept'
      BY <2>1, <2>2, <2>11, <2>13, InView
  <2>15. QED
      BY <2>11, <2>12, <2>14 DEF LaneStays
<1>3. QED
    BY <1>1, <1>2

-----------------------------------------------------------------------------
(* The store *)

\* A call reaches the store, which only moves on, and comes back with what is there.
Served(k, answer) ==
    /\ k.answer = "none" /\ answer \in {"ok", "failed"}
    /\ stored' \in [Cards -> Place]
    /\ \A c \in Cards : stored[c].version <= stored'[c].version
    /\ applied \subseteq applied' /\ applied' \subseteq Made
    /\ k.op = "write" /\ answer = "ok" =>
          /\ k.intent \in applied'
          /\ stored'[k.card].version = k.version + 1 /\ stored'[k.card].version \notin foreign[k.card]
    /\ calls' = (calls \ {k}) \cup {[k EXCEPT !.answer = answer, !.placement = stored'[k.card]]}
    /\ tally' \in [others : 0..MaxElsewhere, faults : 0..MaxFaults, lanes : Nat \ {0}]
    /\ tally'.lanes = tally.lanes
    /\ UNCHANGED <<entry, read, sequence, foreign, resolved, dropped, blindly>>

LEMMA ServedStep ==
    ASSUME Inv, NEW k \in calls, NEW answer, Served(k, answer)
    PROVE  Inv'
<1> USE DEF Inv, Served
<1>0. PICK t : t = [k EXCEPT !.answer = answer, !.placement = stored'[k.card]]
    OBVIOUS
<1>1. k \in CallRow /\ k.card \in Cards /\ stored'[k.card] \in Place
    BY DEF LanesInv, Shapes, CallRow
<1>2. /\ t \in CallRow /\ t.card = k.card /\ t.lane = k.lane /\ t.op = k.op /\ t.intent = k.intent
      /\ t.version = k.version /\ t.base = k.base /\ t.answer = answer /\ t.placement = stored'[k.card]
    BY <1>0, <1>1 DEF CallRow
<1>3. calls' = (calls \ {k}) \cup {t}
    BY <1>0
<1>4. Shapes'
    BY <1>2, <1>3 DEF LanesInv, Shapes
<1>5. ASSUME NEW v \in Nat, NEW c \in Cards, Behind(v, c)
      PROVE  Behind(v, c)'
  <2>1. stored[c].version \in Nat /\ stored'[c].version \in Nat
      BY DEF LanesInv, Shapes, Place
  <2>2. QED
      BY <1>5, <2>1 DEF Behind
<1>6. /\ \A b, v, x : Own(b, v, x)' <=> Own(b, v, x)
      /\ \A x : Lane(x)' <=> Lane(x)
      /\ \A j : Current(j)' <=> Current(j)
    BY DEF Own, Lane, Current
<1>7. NothingAhead'
  <2>1. \A c \in Cards : Lane(c)' => entry'[c].version <= entry'[c].saved.version /\ Behind(entry[c].saved.version, c)'
    <3>1. ASSUME NEW c \in Cards, Lane(c) PROVE entry[c].saved.version \in Nat
        BY <3>1, LaneGood DEF Good, Entry, Place
    <3>2. QED
        BY <1>5, <1>6, <3>1 DEF LanesInv, NothingAhead
  <2>2. \A a \in read' : \A c \in Cards : Behind(a[c].version, c)'
    <3>1. \A a \in read : \A c \in Cards : a[c].version \in Nat
        BY DEF LanesInv, Shapes, Place
    <3>2. QED
        BY <1>5, <3>1 DEF LanesInv, NothingAhead
  <2>3. \A j \in calls' : Behind(j.version, j.card)' /\ Behind(j.placement.version, j.card)'
    <3>1. \A j \in calls : j.version \in Nat /\ j.placement.version \in Nat /\ j.card \in Cards
        BY DEF LanesInv, Shapes, CallRow, Place
    <3>2. stored'[k.card].version \in Nat
        BY <1>1 DEF Place
    <3>3. Behind(t.placement.version, t.card)'
        BY <1>2, <3>2 DEF Behind
    <3>4. QED
        BY <1>2, <1>3, <1>5, <3>1, <3>3 DEF LanesInv, NothingAhead
  <2>4. \A c \in Cards : \A v \in foreign'[c] : Behind(v, c)'
    <3>1. \A c \in Cards : foreign[c] \subseteq Nat
        BY DEF LanesInv, Shapes
    <3>2. QED
        BY <1>5, <3>1 DEF LanesInv, NothingAhead
  <2>5. QED
      BY <2>1, <2>2, <2>3, <2>4 DEF NothingAhead
<1>8. OneCall'
  <2>1. \A c \in Cards : Lane(c)' => entry'[c].lane <= tally'.lanes /\ Wants(entry'[c])
      BY <1>6 DEF LanesInv, OneCall
  <2>2. \A j \in calls' : j.lane <= tally'.lanes
      BY <1>2, <1>3 DEF LanesInv, OneCall
  <2>3. Current(t) <=> Current(k)
      BY <1>2 DEF Current
  <2>4. \A j \in calls' : Current(j)' => Matches(j, entry'[j.card])
      BY <1>2, <1>3, <1>6, <2>3 DEF LanesInv, OneCall, Matches
  <2>5. \A i, j \in calls' : i.card = j.card /\ i.lane = j.lane /\ Current(i)' => i = j
    <3>1. \A i, j \in calls : i.card = j.card /\ i.lane = j.lane /\ Current(i) => i = j
        BY DEF LanesInv, OneCall
    <3>2. SUFFICES ASSUME NEW i \in calls', NEW j \in calls', i.card = j.card, i.lane = j.lane, Current(i)
                   PROVE  i = j
        BY <1>6
    <3>3. CASE i = t /\ j = t
        BY <3>3
    <3>4. CASE i = t /\ j # t
        BY <1>2, <1>3, <2>3, <3>1, <3>2, <3>4
    <3>5. CASE i # t /\ j = t
        BY <1>2, <1>3, <3>1, <3>2, <3>5
    <3>6. CASE i # t /\ j # t
        BY <1>3, <3>1, <3>2, <3>6
    <3>7. QED
        BY <3>3, <3>4, <3>5, <3>6
  <2>6. QED
      BY <2>1, <2>2, <2>4, <2>5 DEF OneCall
<1>9. OwnBursts'
    BY <1>2, <1>3, <1>6 DEF LanesInv, OwnBursts
<1>10. NoBlindMove' /\ ToldTruth' /\ IntentKept'
    BY <1>6, StaysTrue DEF NoBlindMove, IntentKept
<1>11. QED
    BY <1>4, <1>7, <1>8, <1>9, <1>10 DEF LanesInv

\* A call is served once or fails; a fault is counted.
LEMMA Faults ==
    ASSUME Shapes, NEW k, Faulty(k) \/ UNCHANGED tally
    PROVE  /\ tally' \in [others : 0..MaxElsewhere, faults : 0..MaxFaults, lanes : Nat \ {0}]
           /\ tally'.lanes = tally.lanes
<1> DEFINE n == tally.faults + 1
<1>1. CASE Faulty(k)
  <2>1. tally' = [tally EXCEPT !.faults = n] /\ n \in 0..MaxFaults
      BY <1>1 DEF Faulty, Shapes
  <2> HIDE DEF n
  <2>2. QED
      BY <2>1 DEF Shapes
<1>2. CASE UNCHANGED tally
    BY <1>2 DEF Shapes
<1>3. QED
    BY <1>1, <1>2

LEMMA WriteStep ==
    ASSUME Inv, NEW k \in calls, Write(k)
    PROVE  Inv'
<1> DEFINE c == k.card
<1>1. k \in CallRow /\ c \in Cards /\ k.answer = "none" /\ k.op = "write" /\ LanesInv
    BY DEF Write, Inv, LanesInv, Shapes, CallRow
<1>2. /\ tally' \in [others : 0..MaxElsewhere, faults : 0..MaxFaults, lanes : Nat \ {0}]
      /\ tally'.lanes = tally.lanes
    BY <1>1, Faults DEF Write, LanesInv
<1>3. PICK answer \in {"ok", "failed"} : Reaches(k, answer)
    BY DEF Write, Faulty
<1>4. UNCHANGED <<entry, read, sequence, foreign, resolved, dropped>>
    BY DEF Write
<1>5. CASE Expected(k) /\ stored' = [stored EXCEPT ![k.card].place = k.intent, ![k.card].version = @ + 1]
           /\ applied' = applied \cup {k.intent}
           /\ blindly' = (blindly \/ \E v \in foreign[k.card] : k.base < v /\ v <= k.version)
  <2>1. stored \in [Cards -> Place] /\ stored[c].version \in Nat /\ stored[c].version = k.version /\ k.intent \in Made
      BY <1>1, <1>5 DEF LanesInv, Shapes, Place, CallRow, Expected
  <2>2. k.intent \in 0..MaxSaves
      BY <2>1 DEF Made
  <2>3. stored' \in [Cards -> Place] /\ stored'[c].version = k.version + 1
        /\ \A x \in Cards \ {c} : stored'[x] = stored[x]
      BY <1>1, <1>5, <2>1, <2>2 DEF Place
  <2>4. \A x \in Cards : stored[x].version <= stored'[x].version
    <3>1. \A x \in Cards : stored[x].version \in Nat
        BY <2>1 DEF Place
    <3>2. QED
        BY <2>1, <2>3, <3>1
  <2>5. stored'[c].version \notin foreign[c]
    <3>1. \A v \in foreign[c] : v \in Nat /\ v <= k.version
        BY <1>1, <2>1 DEF LanesInv, Shapes, NothingAhead, Behind
    <3>2. QED
        BY <2>1, <2>3, <3>1
  <2>6. blindly' = blindly
    <3>1. Own(k.base, k.version, k.card)
        BY <1>1 DEF LanesInv, OwnBursts
    <3>2. ~\E v \in foreign[k.card] : k.base < v /\ v <= k.version
        BY <3>1 DEF Own
    <3>3. blindly = FALSE
        BY <1>1 DEF LanesInv, Shapes, Inv, NoBlindMove
    <3>4. QED
        BY <1>5, <3>2, <3>3
  <2>7. applied' \subseteq Made
      BY <1>1, <1>5, <2>1 DEF LanesInv, Shapes
  <2>8. Served(k, answer)
      BY <1>1, <1>2, <1>3, <1>4, <1>5, <2>3, <2>4, <2>5, <2>6, <2>7 DEF Served, Reaches
  <2>9. QED
      BY <2>8, ServedStep
<1>6. CASE UNCHANGED <<stored, applied, blindly>> /\ (Faulty(k) \/ Reaches(k, "failed"))
  <2>1. Reaches(k, "failed")
      BY <1>6 DEF Faulty
  <2>2. \A x \in Cards : stored[x].version <= stored'[x].version
      BY <1>1, <1>6 DEF LanesInv, Shapes, Place
  <2>3. Served(k, "failed")
      BY <1>1, <1>2, <1>4, <1>6, <2>1, <2>2 DEF Served, Reaches, LanesInv, Shapes
  <2>4. QED
      BY <2>3, ServedStep
<1>7. QED
    BY <1>5, <1>6 DEF Write

LEMMA ReadStep ==
    ASSUME Inv, NEW k \in calls, Read(k)
    PROVE  Inv'
<1>1. k.answer = "none" /\ k.op # "write" /\ LanesInv
    BY DEF Read, Inv
<1>2. /\ tally' \in [others : 0..MaxElsewhere, faults : 0..MaxFaults, lanes : Nat \ {0}]
      /\ tally'.lanes = tally.lanes
    BY <1>1, Faults DEF Read, LanesInv
<1>3. PICK answer \in {"ok", "failed"} : Reaches(k, answer)
    BY DEF Read, Faulty
<1>4. \A x \in Cards : stored[x].version <= stored'[x].version
    BY <1>1 DEF Read, LanesInv, Shapes, Place
<1>5. Served(k, answer)
    BY <1>1, <1>2, <1>3, <1>4 DEF Read, Served, Reaches, LanesInv, Shapes
<1>6. QED
    BY <1>5, ServedStep

\* What another writer makes of a card is newer than all that is known of it.
LEMMA ElsewhereStep ==
    ASSUME Inv, NEW c \in Cards, Elsewhere(c)
    PROVE  Inv'
<1> USE DEF Inv
<1>0. PICK new : new = stored[c].version + 1
    OBVIOUS
<1>1. /\ stored[c].version \in Nat /\ new \in Nat /\ \A x \in Cards : stored[x].version \in Nat
    BY <1>0 DEF LanesInv, Shapes, Place
<1>2. /\ stored' \in [Cards -> Place] /\ stored'[c].version = new
      /\ \A x \in Cards \ {c} : stored'[x] = stored[x]
    BY <1>0, <1>1 DEF Elsewhere, LanesInv, Shapes, Place
<1>3. /\ foreign' \in [Cards -> SUBSET Nat] /\ foreign'[c] = foreign[c] \cup {new}
      /\ \A x \in Cards \ {c} : foreign'[x] = foreign[x]
    BY <1>1, <1>2 DEF Elsewhere, LanesInv, Shapes
<1>4. UNCHANGED <<entry, calls, sequence, resolved, dropped, read, applied, blindly>>
    BY DEF Elsewhere, laneVars
<1>5. /\ tally' \in [others : 0..MaxElsewhere, faults : 0..MaxFaults, lanes : Nat \ {0}]
      /\ tally'.lanes = tally.lanes
  <2> DEFINE n == tally.others + 1
  <2>1. tally' = [tally EXCEPT !.others = n] /\ n \in 0..MaxElsewhere
      BY DEF Elsewhere, LanesInv, Shapes
  <2> HIDE DEF n
  <2>2. QED
      BY <2>1 DEF LanesInv, Shapes
<1>6. Shapes'
    BY <1>2, <1>3, <1>4, <1>5 DEF LanesInv, Shapes
<1>7. ASSUME NEW v \in Nat, NEW x \in Cards, Behind(v, x)
      PROVE  Behind(v, x)' /\ (x = c => v # new)
    BY <1>0, <1>1, <1>2, <1>7 DEF Behind
<1>8. ASSUME NEW b, NEW v \in Nat, NEW x \in Cards, Behind(v, x), Own(b, v, x)
      PROVE  Own(b, v, x)'
  <2>1. SUFFICES ASSUME NEW w \in foreign'[x] PROVE ~(b < w /\ w <= v)
      BY DEF Own
  <2>2. CASE w \in foreign[x]
      BY <1>8, <2>2 DEF Own
  <2>3. CASE w \notin foreign[x]
    <3>1. x = c /\ w = new
        BY <1>3, <2>1, <2>3
    <3>2. v <= stored[c].version
        BY <1>8, <3>1 DEF Behind
    <3>3. ~(w <= v)
        BY <1>0, <1>1, <3>1, <3>2
    <3>4. QED
        BY <3>3
  <2>4. QED
      BY <2>2, <2>3
<1>9. /\ \A x : Lane(x)' <=> Lane(x)
      /\ \A k : Current(k)' <=> Current(k)
    BY <1>4 DEF Lane, Current
<1>10. /\ \A x \in Cards : Lane(x) => entry[x].version \in Nat /\ entry[x].saved.version \in Nat
       /\ \A k \in calls : k.version \in Nat /\ k.placement.version \in Nat /\ k.card \in Cards
       /\ \A a \in read : \A x \in Cards : a[x].version \in Nat
       /\ \A x \in Cards : foreign[x] \subseteq Nat
  <2>1. ASSUME NEW x \in Cards, Lane(x) PROVE entry[x].version \in Nat /\ entry[x].saved.version \in Nat
      BY <2>1, LaneGood DEF Good, Entry, Place
  <2>2. \A k \in calls : k.version \in Nat /\ k.placement.version \in Nat /\ k.card \in Cards
      BY DEF LanesInv, Shapes, CallRow, Place
  <2>3. \A a \in read : \A x \in Cards : a[x].version \in Nat
      BY DEF LanesInv, Shapes, Place
  <2>4. \A x \in Cards : foreign[x] \subseteq Nat
      BY DEF LanesInv, Shapes
  <2>5. QED
      BY <2>1, <2>2, <2>3, <2>4
<1>11. NothingAhead'
  <2>1. \A x \in Cards : Lane(x)' => entry'[x].version <= entry'[x].saved.version /\ Behind(entry[x].saved.version, x)'
      BY <1>4, <1>7, <1>9, <1>10 DEF LanesInv, NothingAhead
  <2>2. \A a \in read' : \A x \in Cards : Behind(a[x].version, x)'
      BY <1>4, <1>7, <1>10 DEF LanesInv, NothingAhead
  <2>3. \A k \in calls' : Behind(k.version, k.card)' /\ Behind(k.placement.version, k.card)'
      BY <1>4, <1>7, <1>10 DEF LanesInv, NothingAhead
  <2>4. \A x \in Cards : \A v \in foreign'[x] : Behind(v, x)'
    <3>1. ASSUME NEW x \in Cards, NEW v \in foreign[x] PROVE Behind(v, x)'
        BY <1>7, <1>10 DEF LanesInv, NothingAhead
    <3>2. Behind(new, c)'
        BY <1>1, <1>2 DEF Behind
    <3>3. QED
        BY <1>3, <3>1, <3>2
  <2>5. QED
      BY <2>1, <2>2, <2>3, <2>4 DEF NothingAhead
<1>12. OneCall'
    BY <1>4, <1>5, <1>9 DEF LanesInv, OneCall
<1>13. OwnBursts'
  <2>1. ASSUME NEW x \in Cards, Lane(x)
        PROVE  Own(entry[x].base, entry[x].version, x)'
    <3>1. Good(entry[x], x) /\ Behind(entry[x].version, x)
        BY <1>1, <1>10, <2>1, LaneGood DEF Good, Behind
    <3>2. Own(entry[x].base, entry[x].version, x)
        BY <3>1 DEF Good
    <3>3. \A w \in foreign'[x] : ~(entry[x].base < w /\ w <= entry[x].version)
        BY <1>8, <1>10, <2>1, <3>1, <3>2 DEF Own
    <3>4. QED
        BY <1>4, <3>3 DEF Own
  <2>2. \A k \in calls' : Own(k.base, k.version, k.card)'
      BY <1>4, <1>8, <1>10 DEF LanesInv, NothingAhead, OwnBursts
  <2>3. \A k \in calls' : k.op = "write" /\ k.answer = "ok" =>
          /\ k.intent \in applied'
          /\ k.placement.version = k.version + 1 /\ k.placement.version \notin foreign'[k.card]
    <3>1. ASSUME NEW k \in calls, k.op = "write", k.answer = "ok"
          PROVE  k.placement.version \notin foreign'[k.card]
      <4>1. k.placement.version \notin foreign[k.card] /\ Behind(k.placement.version, k.card)
          BY <3>1 DEF LanesInv, NothingAhead, OwnBursts
      <4>2. k.card = c => k.placement.version # new
          BY <1>7, <1>10, <4>1
      <4>3. QED
          BY <1>3, <1>10, <4>1, <4>2
    <3>2. QED
        BY <1>4, <3>1 DEF LanesInv, OwnBursts
  <2>4. QED
      BY <1>4, <1>9, <2>1, <2>2, <2>3 DEF OwnBursts
<1>14. NoBlindMove' /\ ToldTruth' /\ IntentKept'
    BY <1>4, <1>9, StaysTrue DEF NoBlindMove, IntentKept
<1>15. QED
    BY <1>6, <1>11, <1>12, <1>13, <1>14 DEF LanesInv

-----------------------------------------------------------------------------
(* Reads of the brane *)

LEMMA ReadBraneStep ==
    ASSUME Inv, ReadBrane
    PROVE  Inv'
<1> USE DEF Inv
<1>1. read' = {stored} /\ UNCHANGED <<stored, entry, calls, sequence, tally, foreign, applied, resolved, dropped, blindly>>
    BY DEF ReadBrane, laneVars, placedVars
<1>2. Shapes'
    BY <1>1 DEF LanesInv, Shapes
<1>3. /\ \A v, x : Behind(v, x)' <=> Behind(v, x)
      /\ \A b, v, x : Own(b, v, x)' <=> Own(b, v, x)
      /\ \A x : Lane(x)' <=> Lane(x)
      /\ \A k : Current(k)' <=> Current(k)
    BY <1>1 DEF Behind, Own, Lane, Current
<1>4. \A x \in Cards : Behind(stored[x].version, x)
    BY DEF LanesInv, Shapes, Place, Behind
<1>5. NothingAhead'
    BY <1>1, <1>3, <1>4 DEF LanesInv, NothingAhead
<1>6. OneCall' /\ OwnBursts'
    BY <1>1, <1>3 DEF LanesInv, OneCall, OwnBursts
<1>7. NoBlindMove' /\ ToldTruth' /\ IntentKept'
    BY <1>1, <1>3, StaysTrue DEF NoBlindMove, IntentKept
<1>8. QED
    BY <1>2, <1>5, <1>6, <1>7 DEF LanesInv

\* A lane made for a card that is back has no intent, and knows the card as it was read.
LEMMA FreshGood ==
    ASSUME LanesInv, NEW c \in Cards, NEW p \in Place, Behind(p.version, c),
           NEW lane \in Nat \ {0}, NEW e, e = Fresh(p, lane)
    PROVE  Good(e, c) /\ e.lane = lane
<1>1. p.version \in Nat /\ foreign[c] \subseteq Nat
    BY DEF Place, LanesInv, Shapes
<1>2. /\ e \in Entry /\ e.lane = lane /\ e.saved = p /\ e.version = p.version /\ e.base = p.version
      /\ e.active = FALSE /\ e.error = FALSE
    BY <1>1 DEF Fresh, Entry, Intents
<1>3. Own(e.base, e.version, c)
    BY <1>1, <1>2 DEF Own
<1>4. QED
    BY <1>1, <1>2, <1>3 DEF Good, Wants

LEMMA ObserveStep ==
    ASSUME Inv, NEW answer \in read, Observe(answer)
    PROVE  Inv'
<1> USE DEF Inv
<1> DEFINE next(c) == IF ~answer[c].there THEN NoEntry
                      ELSE IF Lane(c) THEN Accept(entry[c], answer[c])
                      ELSE Fresh(answer[c], tally.lanes + 1)
<1>1. /\ read' = {} /\ entry' = [c \in Cards |-> next(c)]
      /\ UNCHANGED <<stored, foreign, applied, blindly, calls, sequence, resolved>>
    BY DEF Observe, placedVars
<1>2. \A c \in Cards : answer[c] \in Place /\ Behind(answer[c].version, c)
    BY DEF LanesInv, Shapes, NothingAhead
<1>3. tally.lanes \in Nat \ {0} /\ tally.lanes + 1 \in Nat \ {0}
    BY DEF LanesInv, Shapes
<1>4. PICK lanes \in {tally.lanes, tally.lanes + 1} :
         /\ tally' = [tally EXCEPT !.lanes = lanes]
         /\ \A c \in Cards : ~Lane(c) /\ answer[c].there => lanes = tally.lanes + 1
    BY DEF Observe
<1>5. /\ tally' \in [others : 0..MaxElsewhere, faults : 0..MaxFaults, lanes : Nat \ {0}] /\ tally'.lanes = lanes
      /\ tally.lanes <= lanes
    BY <1>3, <1>4 DEF LanesInv, Shapes
<1> HIDE DEF next
<1>6. ASSUME NEW c \in Cards
      PROVE  /\ entry'[c] \in Entry \cup {NoEntry}
             /\ ~answer[c].there => ~Lane(c)'
             /\ answer[c].there => Lane(c)' /\ Good(entry'[c], c) /\ entry'[c].lane <= lanes
             /\ answer[c].there /\ Lane(c) =>
                  /\ entry'[c].lane = entry[c].lane /\ entry'[c].version = entry[c].version
                  /\ entry'[c].base = entry[c].base /\ entry'[c].desired = entry[c].desired
                  /\ entry'[c].active = entry[c].active /\ entry'[c].error = entry[c].error
             /\ answer[c].there /\ ~Lane(c) => entry'[c].lane = tally.lanes + 1
  <2>1. entry'[c] = next(c)
      BY <1>1
  <2>2. CASE ~answer[c].there
      BY <2>1, <2>2 DEF next, Lane
  <2>3. CASE answer[c].there /\ Lane(c)
    <3>1. Good(entry[c], c) /\ entry[c].lane <= tally.lanes /\ entry[c] \in Entry
        BY <2>3, LaneGood DEF Good
    <3>2. entry'[c] = Accept(entry[c], answer[c])
        BY <2>1, <2>3 DEF next
    <3>3. /\ entry'[c] \in Entry /\ Good(entry'[c], c)
          /\ entry'[c].lane = entry[c].lane /\ entry'[c].version = entry[c].version
          /\ entry'[c].base = entry[c].base /\ entry'[c].desired = entry[c].desired
          /\ entry'[c].active = entry[c].active /\ entry'[c].error = entry[c].error
        BY <1>2, <3>1, <3>2, AcceptGood
    <3>4. Lane(c)'
        BY <3>3, GoodIsLane DEF Lane
    <3>5. entry'[c].lane <= lanes
        BY <1>3, <1>4, <3>1, <3>3 DEF Entry
    <3>6. QED
        BY <2>3, <3>3, <3>4, <3>5
  <2>4. CASE answer[c].there /\ ~Lane(c)
    <3>1. entry'[c] = Fresh(answer[c], tally.lanes + 1) /\ lanes = tally.lanes + 1
        BY <1>4, <2>1, <2>4 DEF next
    <3>2. Good(entry'[c], c) /\ entry'[c].lane = tally.lanes + 1
        BY <1>2, <1>3, <3>1, FreshGood
    <3>3. entry'[c] \in Entry /\ Lane(c)'
        BY <3>2, GoodIsLane DEF Lane, Good
    <3>4. QED
        BY <1>3, <2>4, <3>1, <3>2, <3>3
  <2>5. QED
      BY <2>2, <2>3, <2>4
<1>7. entry' \in [Cards -> Entry \cup {NoEntry}]
    BY <1>1, <1>6
<1>8. dropped' \subseteq Made /\ dropped \subseteq dropped'
      /\ \A c \in Cards : Lane(c) /\ ~answer[c].there /\ entry[c].desired # NoIntent => entry[c].desired \in dropped'
  <2>1. \A c \in Cards : Lane(c) => entry[c].desired \in Intents
      BY LaneGood DEF Good, Entry
  <2>2. QED
      BY <2>1 DEF Observe, LanesInv, Shapes, Intents
<1>9. Shapes'
    BY <1>1, <1>5, <1>7, <1>8 DEF LanesInv, Shapes
<1>10. /\ \A v, x : Behind(v, x)' <=> Behind(v, x)
       /\ \A b, v, x : Own(b, v, x)' <=> Own(b, v, x)
    BY <1>1 DEF Behind, Own
<1>11. \A c \in Cards : Lane(c)' => answer[c].there
    BY <1>6
<1>12. NothingAhead'
  <2>1. \A c \in Cards : Lane(c)' => entry'[c].version <= entry'[c].saved.version /\ Behind(entry[c].saved.version, c)'
      BY <1>6, <1>10, <1>11 DEF Good
  <2>2. QED
      BY <1>1, <1>10, <2>1 DEF LanesInv, NothingAhead
<1>13. ASSUME NEW k \in calls, Current(k)'
       PROVE  Current(k) /\ answer[k.card].there /\ Lane(k.card) /\ k.card \in Cards
  <2>1. k.card \in Cards /\ k.lane <= tally.lanes /\ k.lane \in Nat
      BY DEF LanesInv, Shapes, CallRow, OneCall
  <2>2. answer[k.card].there /\ entry'[k.card].lane = k.lane
      BY <1>11, <1>13, <2>1 DEF Current
  <2>3. Lane(k.card)
    <3>1. SUFFICES ASSUME ~Lane(k.card) PROVE FALSE
        OBVIOUS
    <3>2. k.lane = tally.lanes + 1
        BY <1>6, <2>1, <2>2, <3>1
    <3>3. QED
        BY <1>3, <2>1, <3>2
  <2>4. QED
      BY <1>6, <2>1, <2>2, <2>3 DEF Current
<1>14. OneCall'
  <2>1. \A c \in Cards : Lane(c)' => entry'[c].lane <= tally'.lanes /\ Wants(entry'[c])
      BY <1>5, <1>6, <1>11 DEF Good
  <2>2. \A k \in calls' : k.lane <= tally'.lanes
    <3>1. \A k \in calls : k.lane <= tally.lanes /\ k.lane \in Nat
        BY DEF LanesInv, Shapes, CallRow, OneCall
    <3>2. QED
        BY <1>1, <1>3, <1>4, <1>5, <3>1
  <2>3. \A k \in calls' : Current(k)' => Matches(k, entry'[k.card])
      BY <1>1, <1>6, <1>13 DEF LanesInv, OneCall, Matches
  <2>4. \A k, j \in calls' : k.card = j.card /\ k.lane = j.lane /\ Current(k)' => k = j
      BY <1>1, <1>13 DEF LanesInv, OneCall
  <2>5. QED
      BY <2>1, <2>2, <2>3, <2>4 DEF OneCall
<1>15. OwnBursts'
  <2>1. \A c \in Cards : Lane(c)' => Own(entry[c].base, entry[c].version, c)'
      BY <1>6, <1>10, <1>11 DEF Good
  <2>2. QED
      BY <1>1, <1>10, <2>1 DEF LanesInv, OwnBursts
<1>16. IntentKept'
  <2>1. SUFFICES ASSUME sequence \in Made, sequence \notin applied \cup dropped'
                 PROVE  \E c \in Cards : Lane(c)' /\ entry'[c].desired = sequence
      BY <1>1 DEF IntentKept
  <2>2. PICK c \in Cards : Lane(c) /\ entry[c].desired = sequence
      BY <1>8, <2>1 DEF IntentKept
  <2>3. answer[c].there
      BY <1>8, <2>1, <2>2 DEF Made, NoIntent
  <2>4. QED
      BY <1>6, <2>2, <2>3
<1>17. NoBlindMove' /\ ToldTruth'
    BY <1>1, StaysTrue DEF NoBlindMove
<1>18. QED
    BY <1>9, <1>12, <1>14, <1>15, <1>16, <1>17 DEF LanesInv

-----------------------------------------------------------------------------
(* The specification *)

LEMMA InitInv ==
    ASSUME PlacementInit
    PROVE  Inv
<1> DEFINE p == [place |-> 0, version |-> 0, there |-> TRUE]
<1>1. p \in Place /\ p.version = 0
    BY DEF Place
<1>2. /\ stored = [c \in Cards |-> p] /\ calls = {} /\ read = {} /\ sequence = 0
      /\ tally = [others |-> 0, faults |-> 0, lanes |-> 1] /\ foreign = [c \in Cards |-> {}]
      /\ applied = {} /\ resolved = {} /\ dropped = {} /\ blindly = FALSE
    BY DEF PlacementInit
<1>3. entry = [c \in Cards |-> Fresh(p, 1)]
    BY DEF PlacementInit
<1> HIDE DEF p
<1>4. PICK e : e = Fresh(p, 1)
    OBVIOUS
<1>5. /\ e \in Entry /\ e # NoEntry /\ e.lane = 1 /\ e.version = 0 /\ e.saved.version = 0 /\ e.base = 0
      /\ e.active = FALSE /\ e.error = FALSE
  <2>1. /\ e \in Entry /\ e.lane = 1 /\ e.version = 0 /\ e.saved = p /\ e.base = 0
        /\ e.active = FALSE /\ e.error = FALSE
      BY <1>1, <1>4 DEF Fresh, Entry, Intents
  <2>2. QED
      BY <1>1, <2>1, GoodIsLane
<1>6. Shapes
  <2>1. tally \in [others : 0..MaxElsewhere, faults : 0..MaxFaults, lanes : Nat \ {0}]
      BY <1>2
  <2>2. stored \in [Cards -> Place] /\ entry \in [Cards -> Entry \cup {NoEntry}] /\ foreign \in [Cards -> SUBSET Nat]
      BY <1>1, <1>2, <1>3, <1>4, <1>5
  <2>3. QED
      BY <1>2, <2>1, <2>2 DEF Shapes, Intents, NoIntent
<1>7. NothingAhead /\ OneCall /\ OwnBursts
    BY <1>1, <1>2, <1>3, <1>4, <1>5 DEF NothingAhead, OneCall, OwnBursts, Behind, Own, Wants
<1>8. NoBlindMove /\ ToldTruth /\ IntentKept
    BY <1>2 DEF NoBlindMove, ToldTruth, IntentKept, Made
<1>9. QED
    BY <1>6, <1>7, <1>8 DEF Inv, LanesInv

LEMMA StepInv ==
    ASSUME Inv, [PlacementNext]_placementVars
    PROVE  Inv'
<1>1. CASE \E c \in Cards : SavePlacement(c)
    BY <1>1, SaveStep
<1>2. CASE \E c \in Cards : Elsewhere(c)
    BY <1>2, ElsewhereStep
<1>3. CASE \E c \in Cards : Ask(c, "retry") \/ Ask(c, "discard")
    BY <1>3, AskStep
<1>4. CASE \E k \in calls : Write(k) \/ Read(k)
    BY <1>4, WriteStep, ReadStep
<1>5. CASE \E k \in calls : AnswerWrite(k) \/ AnswerRetry(k) \/ AnswerDiscard(k)
    BY <1>5, AnswerWriteStep, AnswerRetryStep, AnswerDiscardStep
<1>6. CASE ReadBrane
    BY <1>6, ReadBraneStep
<1>7. CASE \E answer \in read : Observe(answer)
    BY <1>7, ObserveStep
<1>8. CASE UNCHANGED placementVars
    BY <1>8, DropStep DEF placementVars, laneVars, placedVars
<1>9. QED
    BY <1>1, <1>2, <1>3, <1>4, <1>5, <1>6, <1>7, <1>8 DEF PlacementNext

LEMMA InvKeeps ==
    ASSUME Inv
    PROVE  MovesKept
<1>1. Cardinality(read) <= 1
  <2>1. CASE read = {}
      BY <2>1, FS_EmptySet
  <2>2. CASE read # {}
    <3>1. PICK a \in read : read = {a}
        BY <2>2 DEF Inv, LanesInv, Shapes
    <3>2. Cardinality({a}) = 1
        BY FS_Singleton
    <3>3. QED
        BY <3>1, <3>2
  <2>3. QED
      BY <2>1, <2>2
<1>2. \A c \in Cards : Lane(c) =>
          /\ entry[c].saved \in Place /\ entry[c].version <= entry[c].saved.version
          /\ entry[c].desired \in {NoIntent} \cup Made /\ entry[c].waiters \subseteq Made
          /\ entry[c].active \in BOOLEAN /\ entry[c].error \in BOOLEAN
    BY LaneGood DEF Inv, Good, Entry, Intents
<1>3. PlacementTypeOK
    BY <1>1, <1>2 DEF PlacementTypeOK, Inv, LanesInv, Shapes, CallRow, Intents
<1>4. QED
    BY <1>3 DEF MovesKept, Inv

\* The controller's lanes keep every promise they make of a card: it is not moved over a move
\* that was not known, nobody is told of a save that was not made, and the newest intent is in
\* view until it is stored, given up, or its card is gone (PlacementSaves.drain, retry, discard).
THEOREM MovesAlwaysKept == PlacementSpec => []MovesKept
<1>1. PlacementInit => Inv
    BY InitInv
<1>2. Inv /\ [PlacementNext]_placementVars => Inv'
    BY StepInv
<1>3. Inv => MovesKept
    BY InvKeeps
<1>4. QED
    BY <1>1, <1>2, <1>3, PTL DEF PlacementSpec
=============================================================================
