---------------------------- MODULE TextSavesProofs ----------------------------
(***************************************************************************)
(* Proofs about TextSaves, for any blocks, any number of texts typed or    *)
(* written elsewhere, of runs and of commands under way: no text is        *)
(* replaced unseen, a person's own commands never refuse each other,       *)
(* nothing typed is lost, and the last text typed wins.                    *)
(*                                                                         *)
(* Each action is first shown to have an effect (Effect) that says what it *)
(* does to whole variables and to one block; every invariant is then kept  *)
(* by each effect.                                                         *)
(***************************************************************************)
EXTENDS TextSaves, WellFoundedInduction, SequenceTheorems, TLAPS

\* The shape of commands and of the edits they carry ...
Phases   == {"waiting", "sent", "admitted", "applied", "refused"}
Edit     == [key : Nat, text : Texts, version : Nat, base : Nat, saved : Nat]
EditSets == UNION {[S -> Edit] : S \in SUBSET Blocks}
Commands == [kind : {"save", "run"}, phase : Phases, edits : EditSets]

\* ... and of every variable.
Shape ==
    /\ server \in [Blocks -> State] /\ local \in [Blocks -> State]
    /\ shown \in [Blocks -> State] /\ accepted \in [Blocks -> State]
    /\ outbox \in Seq([block : Blocks, edit : Edit])
    /\ paused \subseteq Blocks /\ own \subseteq Blocks \X Nat
    /\ draft \in [Blocks -> [key : 0..MaxTyped, text : Texts, version : Nat]]
    /\ \A b \in Blocks : HasDraft(b) <=> draft[b].key > 0
    /\ queue \in Seq(Commands)
    /\ reading \in {NoRead} \cup [texts : [Blocks -> State], stale : BOOLEAN]
    /\ count \in [typed : 0..MaxTyped, elsewhere : 0..MaxElse, pressed : 0..MaxPressed]
    /\ others \in [Blocks -> SUBSET Nat]
    /\ written \in [Blocks -> SUBSET Texts]
    /\ last \in [Blocks -> Texts \cup {GivenUp}]
    /\ retyped \subseteq Blocks
    /\ blind \in BOOLEAN

\* The block is one of the command's; the command's text is at the server or in the replica.
On(i, b) == b \in DOMAIN queue[i].edits
Done(i)  == queue[i].phase \in {"admitted", "applied"}

\* What a writer replaced is behind what the replica shows.
OwnPast ==
    /\ \A b \in Blocks, u \in Nat : <<b, u>> \in own => u < local[b].version
    /\ \A i \in DOMAIN queue : queue[i].phase = "applied" =>
          \A b \in DOMAIN queue[i].edits : queue[i].edits[b].saved <= local[b].version

-----------------------------------------------------------------------------
(* Sequences and maps of edits *)

LEMMA SeqAppend ==
    ASSUME NEW S, NEW s \in Seq(S), NEW e \in S
    PROVE  /\ Append(s, e) \in Seq(S) /\ Len(Append(s, e)) = Len(s) + 1
           /\ Append(s, e)[Len(s) + 1] = e
           /\ \A i \in 1..Len(s) : Append(s, e)[i] = s[i]
OBVIOUS

LEMMA SeqElements ==
    ASSUME NEW S, NEW s \in Seq(S)
    PROVE  DOMAIN s = 1..Len(s) /\ \A i \in DOMAIN s : s[i] \in S
OBVIOUS

LEMMA SeqRemove ==
    ASSUME NEW S, NEW s \in Seq(S), NEW d \in 1..Len(s)
    PROVE  /\ RemoveAt(s, d) \in Seq(S) /\ Len(RemoveAt(s, d)) = Len(s) - 1
           /\ \A i \in 1..(Len(s) - 1) : RemoveAt(s, d)[i] = IF i < d THEN s[i] ELSE s[i + 1]
<1> DEFINE front == SubSeq(s, 1, d - 1)
           back  == SubSeq(s, d + 1, Len(s))
<1>1. Len(s) \in Nat /\ \A i \in 1..Len(s) : s[i] \in S
    OBVIOUS
<1>2. /\ front \in Seq(S) /\ Len(front) = d - 1
      /\ \A i \in 1..(d - 1) : front[i] = s[i]
  <2>1. \A i \in 1..(d - 1) : s[i] \in S
      BY <1>1
  <2>2. QED
      BY <1>1, <2>1, SubSeqProperties
<1>3. /\ back \in Seq(S) /\ Len(back) = Len(s) - d
      /\ \A i \in 1..(Len(s) - d) : back[i] = s[d + i]
  <2>1. \A i \in (d + 1)..Len(s) : s[i] \in S
      BY <1>1
  <2>2. QED
      BY <1>1, <2>1, SubSeqProperties
<1>4. RemoveAt(s, d) = front \o back
    BY DEF RemoveAt
<1> HIDE DEF front, back
<1>5. /\ front \o back \in Seq(S)
      /\ Len(front \o back) = Len(front) + Len(back)
      /\ \A i \in 1..(Len(front) + Len(back)) : (front \o back)[i] = IF i <= Len(front) THEN front[i] ELSE back[i - Len(front)]
    BY <1>2, <1>3, ConcatProperties
<1>6. ASSUME NEW i \in 1..(Len(s) - 1)
      PROVE  (front \o back)[i] = IF i < d THEN s[i] ELSE s[i + 1]
  <2>1. CASE i < d
      BY <1>1, <1>2, <1>3, <1>5, <2>1
  <2>2. CASE ~(i < d)
    <3>1. i - (d - 1) \in 1..(Len(s) - d) /\ d + (i - (d - 1)) = i + 1
        BY <1>1, <2>2
    <3>2. back[i - (d - 1)] = s[i + 1]
        BY <1>3, <3>1
    <3>3. QED
        BY <1>1, <1>2, <1>3, <1>5, <2>2, <3>2
  <2>3. QED
      BY <2>1, <2>2
<1>7. QED
    BY <1>1, <1>2, <1>3, <1>4, <1>5, <1>6

\* The edits of a command are a function on a set of blocks.
LEMMA EditsOf ==
    ASSUME NEW f \in EditSets
    PROVE  /\ DOMAIN f \subseteq Blocks /\ f \in [DOMAIN f -> Edit]
           /\ \A b \in DOMAIN f : f[b] \in Edit
BY DEF EditSets

LEMMA EditsMade ==
    ASSUME NEW S \in SUBSET Blocks, NEW f \in [S -> Edit]
    PROVE  f \in EditSets
BY DEF EditSets

\* Every command, every edit and every operation of the outbox has its shape.
LEMMA QueueShape ==
    ASSUME Shape
    PROVE  /\ DOMAIN queue = 1..Len(queue) /\ Len(queue) \in Nat
           /\ \A i \in DOMAIN queue :
                /\ queue[i] \in Commands /\ queue[i].phase \in Phases
                /\ DOMAIN queue[i].edits \subseteq Blocks
                /\ \A b \in DOMAIN queue[i].edits : queue[i].edits[b] \in Edit
           /\ DOMAIN outbox = 1..Len(outbox) /\ Len(outbox) \in Nat
           /\ \A n \in DOMAIN outbox : outbox[n] \in [block : Blocks, edit : Edit]
                                       /\ outbox[n].block \in Blocks /\ outbox[n].edit \in Edit
<1>1. queue \in Seq(Commands) /\ outbox \in Seq([block : Blocks, edit : Edit])
    BY DEF Shape
<1>2. /\ DOMAIN queue = 1..Len(queue) /\ Len(queue) \in Nat
      /\ DOMAIN outbox = 1..Len(outbox) /\ Len(outbox) \in Nat
    BY <1>1
<1>3. \A i \in DOMAIN queue : queue[i] \in Commands
    BY <1>1, <1>2
<1>4. \A i \in DOMAIN queue : queue[i].phase \in Phases /\ queue[i].edits \in EditSets
    BY <1>3 DEF Commands
<1>5. \A n \in DOMAIN outbox : outbox[n] \in [block : Blocks, edit : Edit]
    BY <1>1, SeqElements
<1>6. QED
    BY <1>2, <1>3, <1>4, <1>5, EditsOf

LEMMA LeastNatural ==
    ASSUME NEW T \in SUBSET Nat, T # {}
    PROVE  \E m \in T : \A k \in T : m <= k
<1>1. PICK R : R = {ss \in Nat \X Nat : ss[1] < ss[2]}
    OBVIOUS
<1>2. IsWellFoundedOn(R, Nat)
    BY <1>1, NatLessThanWellFounded DEF OpToRel
<1>3. PICK m \in T : \A k \in T : <<k, m>> \notin R
    BY <1>2, WFMin
<1>4. ASSUME NEW k \in T, ~(m <= k) PROVE FALSE
  <2>1. k < m /\ <<k, m>> \in Nat \X Nat
      BY <1>4
  <2>2. <<k, m>> \in R
      BY <1>1, <2>1
  <2>3. QED
      BY <1>3, <2>2
<1>5. QED
    BY <1>4

\* The version an edit moves on to is the first from its own that this controller did not replace.
LEMMA MovedOn ==
    ASSUME Shape, OwnPast, NEW b \in Blocks, NEW e \in Edit
    PROVE  /\ AfterOwnWrites(b, e) \in Edit
           /\ AfterOwnWrites(b, e).text = e.text /\ AfterOwnWrites(b, e).base = e.base
           /\ e.version <= AfterOwnWrites(b, e).version
           /\ <<b, AfterOwnWrites(b, e).version>> \notin own
           /\ \A u \in Nat : e.version <= u /\ u < AfterOwnWrites(b, e).version => <<b, u>> \in own
<1> DEFINE made == {o[2] + 1 : o \in own}
           Free(v) == /\ e.version <= v /\ <<b, v>> \notin own
                      /\ \A u \in e.version .. v - 1 : <<b, u>> \in own
           free == {v \in Nat : e.version <= v /\ <<b, v>> \notin own}
           next == CHOOSE v \in {e.version} \cup made : Free(v)
<1>1. e.version \in Nat /\ local[b].version \in Nat
    BY DEF Edit, Shape, State
<1>2. free # {}
  <2>1. CASE e.version <= local[b].version
    <3>1. local[b].version \in free
        BY <1>1, <2>1 DEF OwnPast
    <3>2. QED
        BY <3>1
  <2>2. CASE ~(e.version <= local[b].version)
    <3>1. <<b, e.version>> \notin own
      <4>1. SUFFICES ASSUME <<b, e.version>> \in own PROVE FALSE
          OBVIOUS
      <4>2. e.version < local[b].version
          BY <1>1, <4>1 DEF OwnPast
      <4>3. QED
          BY <1>1, <2>2, <4>2
    <3>2. QED
        BY <1>1, <3>1
  <2>3. QED
      BY <2>1, <2>2
<1>3. PICK m \in free : \A k \in free : m <= k
  <2>1. free \in SUBSET Nat
      OBVIOUS
  <2>2. QED
      BY <1>2, <2>1, LeastNatural
<1>4. Free(m)
    BY <1>1, <1>3
<1>5. m \in {e.version} \cup made
  <2>1. CASE m = e.version
      BY <2>1
  <2>2. CASE m # e.version
    <3>1. m - 1 \in e.version .. m - 1
        BY <1>1, <1>4, <2>2
    <3>2. <<b, m - 1>> \in own
        BY <1>4, <3>1
    <3>3. <<b, m - 1>>[2] + 1 = m
        OBVIOUS
    <3>4. QED
        BY <3>2, <3>3
  <2>3. QED
      BY <2>1, <2>2
<1>6. next \in {e.version} \cup made /\ Free(next)
  <2> HIDE DEF Free, made
  <2>1. QED
      BY <1>4, <1>5
<1>7. next \in Nat
  <2>1. own \subseteq Blocks \X Nat
      BY DEF Shape
  <2>2. \A o \in own : o[2] + 1 \in Nat
      BY <2>1
  <2>3. QED
      BY <1>1, <1>6, <2>2
<1>8. AfterOwnWrites(b, e) = [e EXCEPT !.version = next]
    BY DEF AfterOwnWrites
<1> HIDE DEF next
<1>9. /\ AfterOwnWrites(b, e) \in Edit /\ AfterOwnWrites(b, e).version = next
      /\ AfterOwnWrites(b, e).text = e.text /\ AfterOwnWrites(b, e).base = e.base
    BY <1>7, <1>8 DEF Edit
<1>10. QED
    BY <1>1, <1>6, <1>7, <1>8, <1>9
-----------------------------------------------------------------------------
(* What becomes of the queue *)

\* A command comes last, goes, or moves on.
Appended(c) ==
    /\ queue' \in Seq(Commands) /\ DOMAIN queue' = 1..Len(queue) + 1
    /\ queue'[Len(queue) + 1] = c /\ \A j \in DOMAIN queue : queue'[j] = queue[j]
Earlier(j, i) == IF j < i THEN j ELSE j + 1
Removed(i) ==
    /\ queue' \in Seq(Commands) /\ DOMAIN queue' = 1..Len(queue) - 1
    /\ \A j \in DOMAIN queue' : queue'[j] = queue[Earlier(j, i)]
Turned(i, phase, edits) ==
    /\ queue' \in Seq(Commands) /\ DOMAIN queue' = DOMAIN queue
    /\ queue'[i] \in Commands /\ queue'[i].kind = queue[i].kind
    /\ queue'[i].phase = phase /\ queue'[i].edits = edits
    /\ \A j \in DOMAIN queue \ {i} : queue'[j] = queue[j]

LEMMA QueueAppended ==
    ASSUME Shape, NEW c \in Commands, queue' = Append(queue, c)
    PROVE  Appended(c)
<1>1. queue \in Seq(Commands)
    BY DEF Shape
<1>2. queue' \in Seq(Commands) /\ Len(queue') = Len(queue) + 1
    BY <1>1, SeqAppend
<1>3. DOMAIN queue = 1..Len(queue) /\ DOMAIN queue' = 1..Len(queue')
    BY <1>1, <1>2, SeqElements
<1>4. QED
    BY <1>1, <1>2, <1>3, SeqAppend DEF Appended

LEMMA QueueRemoved ==
    ASSUME Shape, NEW i \in DOMAIN queue, queue' = RemoveAt(queue, i)
    PROVE  Removed(i)
<1>1. queue \in Seq(Commands)
    BY DEF Shape
<1>2. i \in 1..Len(queue)
    BY <1>1, SeqElements
<1>3. /\ queue' \in Seq(Commands) /\ Len(queue') = Len(queue) - 1
      /\ \A j \in 1..(Len(queue) - 1) : queue'[j] = IF j < i THEN queue[j] ELSE queue[j + 1]
    BY <1>1, <1>2, SeqRemove
<1>4. DOMAIN queue' = 1..Len(queue')
    BY <1>3, SeqElements
<1>5. \A j \in DOMAIN queue' : queue'[j] = queue[Earlier(j, i)]
    BY <1>3, <1>4 DEF Earlier
<1>6. QED
    BY <1>3, <1>4, <1>5 DEF Removed

LEMMA QueueTurned ==
    ASSUME Shape, NEW i \in DOMAIN queue, NEW phase \in Phases, NEW edits \in EditSets, Turn(i, phase, edits)
    PROVE  Turned(i, phase, edits)
<1>1. queue \in Seq(Commands) /\ queue[i] \in Commands
    BY QueueShape DEF Shape
<1>2. PICK c : c = [queue[i] EXCEPT !.phase = phase, !.edits = edits]
    OBVIOUS
<1>3. c \in Commands /\ c.kind = queue[i].kind /\ c.phase = phase /\ c.edits = edits
    BY <1>1, <1>2 DEF Commands
<1>4. queue' = [queue EXCEPT ![i] = c]
    BY <1>2 DEF Turn
<1>5. queue' \in Seq(Commands) /\ DOMAIN queue' = DOMAIN queue
    BY <1>1, <1>3, <1>4
<1>6. queue'[i] = c /\ \A j \in DOMAIN queue \ {i} : queue'[j] = queue[j]
    BY <1>4
<1>7. QED
    BY <1>3, <1>5, <1>6 DEF Turned

-----------------------------------------------------------------------------
(* Commands made *)

\* Nothing moves but the queue.
Idle == UNCHANGED <<storeVars, viewVars, draft, reading, count, historyVars>>

\* What a person has in front of them, as a new command takes it.
AsShown(b, e) ==
    /\ e.base = e.version
    /\ e.text = IF HasDraft(b) THEN draft[b].text ELSE shown[b].text
    /\ e.version = shown[b].version \/ (HasDraft(b) /\ e.version = draft[b].version)

\* Saving, overwriting and running add a command; a draft may move on to what is shown.
Joins(c) ==
    /\ Len(queue) < MaxQueue /\ Appended(c) /\ c.phase = "waiting"
    /\ \A b \in DOMAIN c.edits : AsShown(b, c.edits[b])
    /\ draft' \in [Blocks -> [key : 0..MaxTyped, text : Texts, version : Nat]]
    /\ \A b \in Blocks : /\ draft'[b].key = draft[b].key /\ draft'[b].text = draft[b].text
                         /\ draft'[b].version \in {draft[b].version, shown[b].version}
                         /\ HasDraft(b)' <=> HasDraft(b)
    /\ count' \in [typed : 0..MaxTyped, elsewhere : 0..MaxElse, pressed : 0..MaxPressed]
    /\ count'.typed = count.typed
    /\ UNCHANGED <<storeVars, viewVars, reading, historyVars>>

LEMMA EntryMade ==
    ASSUME Shape, NEW b \in Blocks, NEW text \in Texts, NEW base \in Nat
    PROVE  /\ Entry(b, text, base) \in Edit
           /\ Entry(b, text, base).text = text /\ Entry(b, text, base).key = draft[b].key
           /\ Entry(b, text, base).version = base /\ Entry(b, text, base).base = base
BY DEF Entry, Edit, Shape

LEMMA Enqueued ==
    ASSUME Shape, NEW kind \in {"save", "run"}, NEW edits \in EditSets, Enqueue(kind, edits)
    PROVE  \E c \in Commands : Len(queue) < MaxQueue /\ Appended(c) /\ c.kind = kind /\ c.phase = "waiting" /\ c.edits = edits
<1>1. PICK c : c = [kind |-> kind, phase |-> "waiting", edits |-> edits]
    OBVIOUS
<1>2. c \in Commands /\ c.kind = kind /\ c.phase = "waiting" /\ c.edits = edits
    BY <1>1 DEF Commands, Phases
<1>3. Len(queue) < MaxQueue /\ queue' = Append(queue, c)
    BY <1>1 DEF Enqueue
<1>4. Appended(c)
    BY <1>2, <1>3, QueueAppended
<1>5. QED
    BY <1>2, <1>3, <1>4

LEMMA OneEnqueued ==
    ASSUME Shape, NEW b \in Blocks, NEW e \in Edit, Enqueue("save", [x \in {b} |-> e])
    PROVE  \E c \in Commands : Len(queue) < MaxQueue /\ Appended(c) /\ c.phase = "waiting" /\ DOMAIN c.edits = {b} /\ c.edits[b] = e
<1>1. PICK f : f = [x \in {b} |-> e]
    OBVIOUS
<1>2. f \in [{b} -> Edit] /\ {b} \in SUBSET Blocks
    BY <1>1
<1>3. f \in EditSets /\ DOMAIN f = {b} /\ f[b] = e
    BY <1>1, <1>2, EditsMade
<1>4. Enqueue("save", f)
    BY <1>1
<1>5. QED
    BY <1>3, <1>4, Enqueued

LEMMA Bounds == MaxTyped \in Nat /\ MaxElse \in Nat /\ MaxPressed \in Nat /\ MaxQueue \in Nat
BY TextSavesAssumption

LEMMA SaveJoins ==
    ASSUME Shape, NEW b \in Blocks, SaveBlock(b), ~SavedDraft(b)
    PROVE  \E c \in Commands : Joins(c)
<1>1. draft[b].text \in Texts /\ draft[b].version \in Nat
    BY DEF Shape
<1>2. PICK e \in Edit : e = Entry(b, draft[b].text, draft[b].version)
    BY <1>1, EntryMade
<1>3. e.text = draft[b].text /\ e.version = draft[b].version /\ e.base = e.version
    BY <1>1, <1>2, EntryMade
<1>4. HasDraft(b) /\ Enqueue("save", [x \in {b} |-> e]) /\ UNCHANGED <<draft, count>>
    BY <1>2 DEF SaveBlock
<1>5. PICK c \in Commands : Len(queue) < MaxQueue /\ Appended(c) /\ c.phase = "waiting" /\ DOMAIN c.edits = {b} /\ c.edits[b] = e
    BY <1>4, OneEnqueued
<1>6. \A x \in DOMAIN c.edits : AsShown(x, c.edits[x])
    BY <1>3, <1>4, <1>5 DEF AsShown
<1>7. Joins(c)
    BY <1>4, <1>5, <1>6 DEF Joins, SaveBlock, HasDraft, Shape, storeVars, viewVars, historyVars
<1>8. QED
    BY <1>7

LEMMA OverwriteJoins ==
    ASSUME Shape, NEW b \in Blocks, OverwriteDraft(b)
    PROVE  \E c \in Commands : Joins(c)
<1>1. draft[b].text \in Texts /\ shown[b].version \in Nat
    BY DEF Shape, State
<1>2. PICK e \in Edit : e = Entry(b, draft[b].text, shown[b].version)
    BY <1>1, EntryMade
<1>3. e.text = draft[b].text /\ e.version = shown[b].version /\ e.base = e.version
    BY <1>1, <1>2, EntryMade
<1>4. HasDraft(b) /\ Enqueue("save", [x \in {b} |-> e]) /\ UNCHANGED count
    BY <1>2 DEF OverwriteDraft
<1>5. PICK c \in Commands : Len(queue) < MaxQueue /\ Appended(c) /\ c.phase = "waiting" /\ DOMAIN c.edits = {b} /\ c.edits[b] = e
    BY <1>4, OneEnqueued
<1>6. \A x \in DOMAIN c.edits : AsShown(x, c.edits[x])
    BY <1>3, <1>4, <1>5 DEF AsShown
<1>7. draft' = [draft EXCEPT ![b].version = shown[b].version]
    BY DEF OverwriteDraft
<1>8. /\ draft' \in [Blocks -> [key : 0..MaxTyped, text : Texts, version : Nat]]
      /\ \A x \in Blocks : /\ draft'[x].key = draft[x].key /\ draft'[x].text = draft[x].text
                           /\ draft'[x].version \in {draft[x].version, shown[x].version}
  <2>1. PICK d : d = [draft[b] EXCEPT !.version = shown[b].version]
      OBVIOUS
  <2>2. draft \in [Blocks -> [key : 0..MaxTyped, text : Texts, version : Nat]]
      BY DEF Shape
  <2>3. draft[b] \in [key : 0..MaxTyped, text : Texts, version : Nat]
      BY <2>2
  <2>4. /\ d \in [key : 0..MaxTyped, text : Texts, version : Nat]
        /\ d.key = draft[b].key /\ d.text = draft[b].text /\ d.version = shown[b].version
      BY <1>1, <2>1, <2>3
  <2>5. draft' = [draft EXCEPT ![b] = d]
      BY <1>7, <2>1
  <2>6. QED
      BY <2>2, <2>4, <2>5
<1>9. \A x \in Blocks : HasDraft(x)' <=> HasDraft(x)
  <2>1. draft[b].key > 0
      BY <1>4 DEF Shape
  <2>2. draft'[b] # NoDraft
      BY <1>8, <2>1 DEF NoDraft
  <2>3. \A x \in Blocks \ {b} : draft'[x] = draft[x]
      BY <1>7 DEF Shape
  <2>4. QED
      BY <1>4, <2>2, <2>3 DEF HasDraft
<1>10. UNCHANGED <<storeVars, viewVars, reading, historyVars>>
    BY DEF OverwriteDraft
<1>11. Joins(c)
    BY <1>4, <1>5, <1>6, <1>8, <1>9, <1>10 DEF Joins, Shape
<1>12. QED
    BY <1>11

LEMMA RunJoins ==
    ASSUME Shape, NEW S \in SUBSET Blocks, Run(S)
    PROVE  \E c \in Commands : Joins(c)
<1>1. \A b \in S : /\ draft[b].text \in Texts /\ draft[b].version \in Nat
                   /\ shown[b].text \in Texts /\ shown[b].version \in Nat
    BY DEF Shape, State
<1>2. DOMAIN Edits(S) = S
    BY DEF Edits
<1>3. ASSUME NEW b \in S PROVE Edits(S)[b] \in Edit /\ AsShown(b, Edits(S)[b])
  <2>1. CASE HasDraft(b) /\ ~SavedDraft(b)
    <3>1. Edits(S)[b] = Entry(b, draft[b].text, draft[b].version)
        BY <2>1 DEF Edits
    <3>2. QED
        BY <1>1, <2>1, <3>1, EntryMade DEF AsShown
  <2>2. CASE ~(HasDraft(b) /\ ~SavedDraft(b))
    <3>1. Edits(S)[b] = Entry(b, shown[b].text, shown[b].version)
        BY <2>2 DEF Edits
    <3>2. QED
        BY <1>1, <2>2, <3>1, EntryMade DEF AsShown, SavedDraft
  <2>3. QED
      BY <2>1, <2>2
<1>4. Edits(S) \in EditSets
  <2>1. Edits(S) \in [S -> Edit]
      BY <1>2, <1>3 DEF Edits
  <2>2. QED
      BY <2>1, EditsMade
<1>5. PICK c \in Commands : Len(queue) < MaxQueue /\ Appended(c) /\ c.phase = "waiting" /\ c.edits = Edits(S)
    BY <1>4, Enqueued DEF Run
<1>6. /\ count' \in [typed : 0..MaxTyped, elsewhere : 0..MaxElse, pressed : 0..MaxPressed]
      /\ count'.typed = count.typed
  <2>1. count.pressed < MaxPressed /\ count' = [count EXCEPT !.pressed = @ + 1]
      BY DEF Run
  <2>2. count \in [typed : 0..MaxTyped, elsewhere : 0..MaxElse, pressed : 0..MaxPressed]
      BY DEF Shape
  <2>3. count.pressed + 1 \in 0..MaxPressed
      BY <2>1, <2>2, Bounds
  <2>4. QED
      BY <2>1, <2>2, <2>3
<1>7. UNCHANGED <<storeVars, viewVars, draft, reading, historyVars>>
    BY DEF Run
<1>8. Joins(c)
    BY <1>2, <1>3, <1>5, <1>6, <1>7 DEF Joins, Shape, HasDraft
<1>9. QED
    BY <1>8

-----------------------------------------------------------------------------
(* Commands carried out *)

\* A command leaves the queue and nothing else moves.
Drops(i) == Removed(i) /\ queue[i].phase \in {"waiting", "refused"} /\ Idle

\* The replica refuses a save, the server a run.
Blamed(i) ==
    \/ /\ queue[i].phase = "waiting" /\ First(i)
       /\ \E b \in Blocks : /\ DOMAIN queue[i].edits = {b}
                            /\ local[b].version # AfterOwnWrites(b, queue[i].edits[b]).version
    \/ /\ queue[i].phase = "sent"
       /\ \A n \in DOMAIN outbox : outbox[n].block \notin DOMAIN queue[i].edits
       /\ \E b \in DOMAIN queue[i].edits : b \in paused \/ server[b].version # queue[i].edits[b].version
Refuses(i) == Turned(i, "refused", queue[i].edits) /\ Blamed(i) /\ Idle

\* The replica takes a save and puts it in the outbox.
Saves(i, b, e) ==
    /\ queue[i].phase = "waiting" /\ First(i) /\ DOMAIN queue[i].edits = {b}
    /\ e.text = queue[i].edits[b].text /\ e.base = queue[i].edits[b].base
    /\ e.version = AfterOwnWrites(b, queue[i].edits[b]).version /\ e.version = local[b].version
    /\ e.saved = Edited(local[b], e.text).version
    /\ Turned(i, "applied", [queue[i].edits EXCEPT ![b] = e])
    /\ DOMAIN queue'[i].edits = {b} /\ queue'[i].edits[b] = e
    /\ local' = [local EXCEPT ![b] = Edited(local[b], e.text)]
    /\ outbox' = Append(outbox, [block |-> b, edit |-> e])
    /\ reading' = Overtaken
    /\ written' = [written EXCEPT ![b] = @ \cup {e.text}]
    /\ UNCHANGED <<server, paused, viewVars, draft, count, others, last, retyped, blind>>

\* A run goes out over the versions its writer replaced meanwhile.
Sends(i, f) ==
    /\ queue[i].phase = "waiting" /\ First(i)
    /\ Turned(i, "sent", f) /\ DOMAIN f = DOMAIN queue[i].edits
    /\ \A b \in DOMAIN f : f[b] = AfterOwnWrites(b, queue[i].edits[b])
    /\ Idle

\* The server takes all the texts of a run.
Admits(i, f) ==
    /\ queue[i].phase = "sent"
    /\ \A n \in DOMAIN outbox : outbox[n].block \notin DOMAIN f
    /\ DOMAIN f = DOMAIN queue[i].edits
    /\ \A b \in DOMAIN f :
          LET e == queue[i].edits[b] IN
          /\ b \notin paused /\ server[b].version = e.version
          /\ f[b] \in Edit /\ f[b].text = e.text /\ f[b].base = e.base /\ f[b].version = e.version
          /\ f[b].saved = server'[b].version /\ server'[b] = Edited(server[b], e.text)
          /\ written'[b] = written[b] \cup {e.text}
    /\ Turned(i, "admitted", f)
    /\ server' \in [Blocks -> State] /\ written' \in [Blocks -> SUBSET Texts]
    /\ \A b \in Blocks \ DOMAIN f : server'[b] = server[b] /\ written'[b] = written[b]
    /\ blind' = (blind \/ \E b \in DOMAIN f : Unseen(b, f[b], server[b]))
    /\ UNCHANGED <<local, outbox, paused, viewVars, draft, reading, count, others, last, retyped>>

\* The replica learns what a run's receipt says.
Learns(i) ==
    /\ queue[i].phase = "admitted" /\ Turned(i, "applied", queue[i].edits)
    /\ local' \in [Blocks -> State]
    /\ \A b \in Blocks :
          local'[b] = IF On(i, b) /\ local[b].version < queue[i].edits[b].saved
                      THEN [text |-> queue[i].edits[b].text, version |-> queue[i].edits[b].saved]
                      ELSE local[b]
    /\ reading' = Overtaken
    /\ UNCHANGED <<server, outbox, paused, viewVars, draft, count, historyVars>>

LEMMA EditedState ==
    ASSUME NEW state \in State, NEW text \in Texts
    PROVE  /\ Edited(state, text) \in State /\ Edited(state, text).text = text
           /\ Edited(state, text).version = IF state.text = text THEN state.version ELSE state.version + 1
           /\ state.text = text => Edited(state, text) = state
BY DEF Edited, State

LEMMA AbandonDrops ==
    ASSUME Shape, NEW i \in DOMAIN queue, NEW b \in Blocks, Abandon(i, b)
    PROVE  Drops(i)
BY QueueRemoved DEF Abandon, Drops, Idle, Saving

LEMMA RefusedDrops ==
    ASSUME Shape, NEW i \in DOMAIN queue, Refused(i)
    PROVE  Drops(i)
BY QueueRemoved DEF Refused, Drops, Idle

LEMMA SaveMoves ==
    ASSUME Shape, OwnPast, NEW i \in DOMAIN queue, NEW b \in Blocks, Save(i, b)
    PROVE  Refuses(i) \/ \E e \in Edit : Saves(i, b, e)
<1> DEFINE d == AfterOwnWrites(b, queue[i].edits[b])
           e == [d EXCEPT !.saved = Edited(local[b], d.text).version]
<1>1. /\ queue[i].phase = "waiting" /\ First(i) /\ DOMAIN queue[i].edits = {b}
      /\ queue[i].edits \in EditSets /\ queue[i].edits[b] \in Edit /\ queue[i].edits \in [{b} -> Edit]
    BY QueueShape, EditsOf DEF Save, Saving, Commands
<1>2. d \in Edit /\ d.text = queue[i].edits[b].text /\ d.base = queue[i].edits[b].base
    BY <1>1, MovedOn
<1>3. CASE local[b].version # d.version
  <2>1. Turn(i, "refused", queue[i].edits) /\ Idle
      BY <1>3 DEF Save, Idle, storeVars, historyVars
  <2>2. Turned(i, "refused", queue[i].edits)
      BY <1>1, <2>1, QueueTurned DEF Phases
  <2>3. Refuses(i)
      BY <1>1, <1>3, <2>1, <2>2 DEF Refuses, Blamed
  <2>4. QED
      BY <2>3
<1>4. CASE local[b].version = d.version
  <2>1. local[b] \in State /\ d.text \in Texts
      BY <1>2 DEF Shape, Edit
  <2>2. Edited(local[b], d.text).version \in Nat
      BY <2>1, EditedState DEF State
  <2>3. /\ e \in Edit /\ e.text = d.text /\ e.base = d.base /\ e.version = d.version
        /\ e.saved = Edited(local[b], d.text).version
    <3> HIDE DEF d
    <3>1. QED
        BY <1>2, <2>2 DEF Edit
  <2>4. /\ local' = [local EXCEPT ![b] = Edited(local[b], e.text)]
        /\ outbox' = Append(outbox, [block |-> b, edit |-> e])
        /\ Turn(i, "applied", [queue[i].edits EXCEPT ![b] = e])
        /\ reading' = Overtaken /\ written' = Taken(queue[i].edits)
        /\ UNCHANGED <<server, paused, viewVars, draft, count, others, last, retyped, blind>>
      BY <1>4, <2>3 DEF Save
  <2> HIDE DEF e, d
  <2>5. /\ [queue[i].edits EXCEPT ![b] = e] \in [{b} -> Edit]
        /\ DOMAIN [queue[i].edits EXCEPT ![b] = e] = {b} /\ [queue[i].edits EXCEPT ![b] = e][b] = e
      BY <1>1, <2>3
  <2>6. [queue[i].edits EXCEPT ![b] = e] \in EditSets
      BY <2>5, EditsMade
  <2>7. Turned(i, "applied", [queue[i].edits EXCEPT ![b] = e])
      BY <2>4, <2>6, QueueTurned DEF Phases
  <2>8. DOMAIN queue'[i].edits = {b} /\ queue'[i].edits[b] = e
      BY <2>5, <2>7 DEF Turned
  <2>9. written' = [written EXCEPT ![b] = @ \cup {e.text}]
      BY <1>1, <1>2, <2>3, <2>4 DEF Taken, Shape, d
  <2>10. e.text = queue[i].edits[b].text /\ e.base = queue[i].edits[b].base /\ e.version = local[b].version
         /\ e.version = AfterOwnWrites(b, queue[i].edits[b]).version
      BY <1>2, <1>4, <2>3 DEF d
  <2>11. e.saved = Edited(local[b], e.text).version
      BY <2>3
  <2>12. Saves(i, b, e)
      BY <1>1, <2>4, <2>7, <2>8, <2>9, <2>10, <2>11 DEF Saves
  <2>13. QED
      BY <2>3, <2>12
<1>5. QED
    BY <1>3, <1>4

LEMMA SendMoves ==
    ASSUME Shape, OwnPast, NEW i \in DOMAIN queue, SendRun(i)
    PROVE  \E f \in EditSets : Sends(i, f)
<1>1. /\ DOMAIN queue[i].edits \subseteq Blocks
      /\ \A b \in DOMAIN queue[i].edits : queue[i].edits[b] \in Edit
    BY QueueShape
<1>2. PICK f : f = [b \in DOMAIN queue[i].edits |-> AfterOwnWrites(b, queue[i].edits[b])]
    OBVIOUS
<1>3. \A b \in DOMAIN queue[i].edits : AfterOwnWrites(b, queue[i].edits[b]) \in Edit
    BY <1>1, MovedOn
<1>4. f \in [DOMAIN queue[i].edits -> Edit]
    BY <1>2, <1>3
<1>5. f \in EditSets
    BY <1>1, <1>4, EditsMade
<1>6. Turned(i, "sent", f)
    BY <1>2, <1>5, QueueTurned DEF SendRun, Phases
<1>7. Sends(i, f)
    BY <1>2, <1>6 DEF Sends, SendRun, Idle
<1>8. QED
    BY <1>5, <1>7

LEMMA AdmitMoves ==
    ASSUME Shape, NEW i \in DOMAIN queue, AdmitRun(i)
    PROVE  Refuses(i) \/ \E f \in EditSets : Admits(i, f)
<1> DEFINE edits == queue[i].edits
<1>1. /\ edits \in EditSets /\ DOMAIN edits \subseteq Blocks
      /\ \A b \in DOMAIN edits : edits[b] \in Edit /\ edits[b].text \in Texts
    BY QueueShape DEF Commands, Edit
<1>2. queue[i].phase = "sent" /\ \A n \in DOMAIN outbox : outbox[n].block \notin DOMAIN edits
    BY DEF AdmitRun
<1>3. CASE ~(DOMAIN edits \cap paused = {} /\ \A b \in DOMAIN edits : server[b].version = edits[b].version)
  <2>1. Turn(i, "refused", edits) /\ Idle
      BY <1>3 DEF AdmitRun, Idle, storeVars, historyVars
  <2>2. Turned(i, "refused", edits)
      BY <1>1, <2>1, QueueTurned DEF Phases
  <2>3. \E b \in DOMAIN edits : b \in paused \/ server[b].version # edits[b].version
      BY <1>3
  <2>4. Refuses(i)
      BY <1>2, <2>1, <2>2, <2>3 DEF Refuses, Blamed
  <2>5. QED
      BY <2>4
<1>4. CASE DOMAIN edits \cap paused = {} /\ \A b \in DOMAIN edits : server[b].version = edits[b].version
  <2>1. /\ server' = [b \in Blocks |->
                         IF b \in DOMAIN edits THEN Edited(server[b], edits[b].text) ELSE server[b]]
        /\ Turn(i, "admitted", [b \in DOMAIN edits |-> [edits[b] EXCEPT !.saved = server'[b].version]])
        /\ written' = Taken(edits)
        /\ blind' = (blind \/ \E b \in DOMAIN edits : Unseen(b, edits[b], server[b]))
        /\ UNCHANGED <<local, outbox, paused, viewVars, draft, reading, count, others, last, retyped>>
      BY <1>4 DEF AdmitRun
  <2>2. PICK f : f = [b \in DOMAIN edits |-> [edits[b] EXCEPT !.saved = server'[b].version]]
      OBVIOUS
  <2> HIDE DEF edits
  <2>3. server' \in [Blocks -> State]
    <3>1. \A b \in Blocks : server[b] \in State
        BY DEF Shape
    <3>2. \A b \in DOMAIN edits : Edited(server[b], edits[b].text) \in State
        BY <1>1, <3>1, EditedState
    <3>3. QED
        BY <2>1, <3>1, <3>2
  <2>4. ASSUME NEW b \in DOMAIN edits
        PROVE  /\ f[b] \in Edit /\ f[b].text = edits[b].text /\ f[b].base = edits[b].base
               /\ f[b].version = edits[b].version
               /\ f[b].saved = server'[b].version /\ server'[b] = Edited(server[b], edits[b].text)
               /\ written'[b] = written[b] \cup {edits[b].text}
               /\ Unseen(b, f[b], server[b]) <=> Unseen(b, edits[b], server[b])
    <3>1. f[b] = [edits[b] EXCEPT !.saved = server'[b].version]
        BY <2>2
    <3>2. server'[b].version \in Nat
        BY <1>1, <2>3 DEF State
    <3>3. /\ f[b] \in Edit /\ f[b].text = edits[b].text /\ f[b].base = edits[b].base
          /\ f[b].version = edits[b].version /\ f[b].saved = server'[b].version
        BY <1>1, <3>1, <3>2 DEF Edit
    <3>4. server'[b] = Edited(server[b], edits[b].text) /\ written'[b] = written[b] \cup {edits[b].text}
        BY <1>1, <2>1 DEF Taken
    <3>5. Unseen(b, f[b], server[b]) <=> Unseen(b, edits[b], server[b])
        BY <3>3 DEF Unseen
    <3>6. QED
        BY <3>3, <3>4, <3>5
  <2>5. DOMAIN f = DOMAIN edits /\ f \in [DOMAIN edits -> Edit]
      BY <2>2, <2>4
  <2>6. f \in EditSets
      BY <1>1, <2>5, EditsMade
  <2>7. Turned(i, "admitted", f)
      BY <2>1, <2>2, <2>6, QueueTurned DEF Phases
  <2>8. /\ written' \in [Blocks -> SUBSET Texts]
        /\ \A b \in Blocks \ DOMAIN f : server'[b] = server[b] /\ written'[b] = written[b]
      BY <1>1, <2>1, <2>5 DEF Taken, Shape
  <2>9. blind' = (blind \/ \E b \in DOMAIN f : Unseen(b, f[b], server[b]))
      BY <2>1, <2>4, <2>5
  <2>10. Admits(i, f)
      BY <1>2, <1>4, <2>1, <2>3, <2>4, <2>5, <2>7, <2>8, <2>9 DEF Admits, edits
  <2>11. QED
      BY <2>6, <2>10
<1>5. QED
    BY <1>3, <1>4

LEMMA LearnMoves ==
    ASSUME Shape, NEW i \in DOMAIN queue, LearnReceipt(i)
    PROVE  Learns(i)
<1>1. /\ queue[i].edits \in EditSets
      /\ \A b \in DOMAIN queue[i].edits : queue[i].edits[b] \in Edit
    BY QueueShape DEF Commands
<1>2. Turned(i, "applied", queue[i].edits)
    BY <1>1, QueueTurned DEF LearnReceipt, Phases
<1>3. local' = [b \in Blocks |->
                   IF On(i, b) /\ local[b].version < queue[i].edits[b].saved
                   THEN [text |-> queue[i].edits[b].text, version |-> queue[i].edits[b].saved]
                   ELSE local[b]]
    BY DEF LearnReceipt, On
<1>4. \A b \in DOMAIN queue[i].edits :
          [text |-> queue[i].edits[b].text, version |-> queue[i].edits[b].saved] \in State
    BY <1>1 DEF Edit, State
<1>5. local' \in [Blocks -> State]
    BY <1>3, <1>4 DEF Shape, On
<1>6. QED
    BY <1>2, <1>3, <1>5 DEF Learns, LearnReceipt

-----------------------------------------------------------------------------
(* Typing, the server, reads and acknowledgements *)

\* Drafts, counters and reads: their shape.
Drafts == [Blocks -> [key : 0..MaxTyped, text : Texts, version : Nat]]
Counts == [typed : 0..MaxTyped, elsewhere : 0..MaxElse, pressed : 0..MaxPressed]
Reads  == {NoRead} \cup [texts : [Blocks -> State], stale : BOOLEAN]
DraftsTold == \A b \in Blocks : HasDraft(b) <=> draft[b].key > 0

\* A draft is typed, begun over the text shown if there was none.
Types(b, text) ==
    /\ count.typed < MaxTyped /\ count' \in Counts /\ count'.typed = count.typed + 1
    /\ text \in Texts /\ (text = MaxElse + count'.typed \/ text = shown[b].text)
    /\ text = shown[b].text /\ UnderWay(b) => b \in retyped'
    /\ retyped' \subseteq Blocks /\ \A x \in Blocks \ {b} : x \in retyped' <=> x \in retyped
    /\ draft' \in Drafts /\ DraftsTold'
    /\ HasDraft(b)' /\ draft'[b].text = text /\ last' = [last EXCEPT ![b] = text]
    /\ IF HasDraft(b) THEN draft'[b].key = draft[b].key /\ draft'[b].version = draft[b].version
       ELSE draft'[b].key = count'.typed /\ draft'[b].version = shown[b].version
    /\ \A x \in Blocks \ {b} : draft'[x] = draft[x] /\ (HasDraft(x)' <=> HasDraft(x))
    /\ UNCHANGED <<storeVars, viewVars, queue, reading, others, written, blind>>

\* A draft goes, given up or already what is shown.
Clears(b) ==
    /\ HasDraft(b) /\ draft' \in Drafts /\ DraftsTold' /\ draft'[b] = NoDraft
    /\ \A x \in Blocks \ {b} : draft'[x] = draft[x]
    /\ \/ last' = [last EXCEPT ![b] = GivenUp]
       \/ draft[b].text = shown[b].text /\ UNCHANGED last
    /\ UNCHANGED <<storeVars, viewVars, queue, reading, count, others, written, retyped, blind>>

\* Another device writes.
Intrudes(b) ==
    /\ count' \in Counts /\ count'.typed = count.typed
    /\ \E text \in 0..MaxElse : server' = [server EXCEPT ![b] = [text |-> text, version |-> @.version + 1]]
    /\ server' \in [Blocks -> State] /\ server'[b].version = server[b].version + 1 /\ server'[b].text <= MaxElse
    /\ \A x \in Blocks \ {b} : server'[x] = server[x] /\ others'[x] = others[x] /\ written'[x] = written[x]
    /\ others' \in [Blocks -> SUBSET Nat] /\ others'[b] = others[b] \cup {server'[b].version}
    /\ written' \in [Blocks -> SUBSET Texts] /\ written'[b] = written[b] \cup {server'[b].text}
    /\ UNCHANGED <<local, outbox, paused, viewVars, draft, queue, reading, last, retyped, blind>>

\* The first operation of the outbox is taken by the server, or pauses its block.
Advances ==
    /\ outbox' \in Seq([block : Blocks, edit : Edit])
    /\ 1 \in DOMAIN outbox /\ DOMAIN outbox' = 1..(Len(outbox) - 1)
    /\ \A n \in DOMAIN outbox' : outbox'[n] = outbox[n + 1]
Delivers(b, e) ==
    /\ Advances /\ outbox[1].block = b /\ outbox[1].edit = e
    /\ b \notin paused /\ server[b].version = e.version
    /\ server' \in [Blocks -> State] /\ server'[b] = Edited(server[b], e.text)
    /\ \A x \in Blocks \ {b} : server'[x] = server[x]
    /\ reading' = Overtaken
    /\ blind' = (blind \/ Unseen(b, e, server[b]))
    /\ UNCHANGED <<local, paused, viewVars, draft, queue, count, others, written, last, retyped>>
Pauses(b) ==
    /\ Advances /\ outbox[1].block = b
    /\ b \in paused \/ server[b].version # outbox[1].edit.version
    /\ paused' = paused \cup {b}
    /\ UNCHANGED <<server, local, viewVars, draft, queue, reading, count, historyVars>>

\* A read shows what the replica has, or brings it what the server had.
Shows ==
    /\ shown' \in [Blocks -> State] /\ accepted' \in [Blocks -> State]
    /\ \A b \in Blocks :
          /\ shown'[b] = IF accepted[b].version > local'[b].version THEN accepted[b] ELSE local'[b]
          /\ accepted'[b] = IF local'[b].version > accepted[b].version THEN local'[b] ELSE accepted[b]
Installs ==
    /\ reading # NoRead /\ reading' = NoRead /\ local' \in [Blocks -> State]
    /\ \A b \in Blocks : local'[b] = IF reading.stale \/ Pending(b) \/ local[b].version > reading.texts[b].version
                                     THEN local[b] ELSE reading.texts[b]
    /\ Shows \/ UNCHANGED <<shown, accepted>>
    /\ UNCHANGED <<server, outbox, paused, own, draft, queue, count, historyVars>>
Reshows == Shows /\ UNCHANGED <<storeVars, own, draft, queue, reading, count, historyVars>>
Asks ==
    /\ reading' = [texts |-> server, stale |-> FALSE]
    /\ UNCHANGED <<storeVars, viewVars, draft, queue, count, historyVars>>

\* The controller takes note of what its command wrote.
Saved(e) == [text |-> e.text, version |-> e.saved]
Acknowledges(i) ==
    /\ queue[i].phase = "applied" /\ Removed(i)
    /\ own' \subseteq Blocks \X Nat
    /\ \A b \in Blocks, u \in Nat : <<b, u>> \in own' <=>
          <<b, u>> \in own \/ (On(i, b) /\ queue[i].edits[b].version = u /\ queue[i].edits[b].saved = u + 1)
    /\ shown' \in [Blocks -> State] /\ accepted' \in [Blocks -> State]
    /\ \A b \in Blocks :
          /\ shown'[b] = IF On(i, b) /\ queue[i].edits[b].saved > shown[b].version
                         THEN Saved(queue[i].edits[b]) ELSE shown[b]
          /\ accepted'[b] = IF On(i, b) /\ queue[i].edits[b].saved > accepted[b].version
                            THEN Saved(queue[i].edits[b]) ELSE accepted[b]
    /\ draft' \in Drafts /\ DraftsTold'
    /\ \A b \in Blocks : draft'[b] = IF On(i, b) THEN Settled(b, queue[i].edits[b]) ELSE draft[b]
    /\ UNCHANGED <<storeVars, reading, count, historyVars>>

-----------------------------------------------------------------------------

LEMMA Overtakes ==
    ASSUME Shape
    PROVE  /\ Overtaken \in Reads
           /\ Overtaken # NoRead => /\ reading # NoRead /\ Overtaken.texts = reading.texts /\ Overtaken.stale
<1>1. CASE reading = NoRead
    BY <1>1 DEF Overtaken, Reads
<1>2. CASE reading # NoRead
  <2>1. reading \in [texts : [Blocks -> State], stale : BOOLEAN]
      BY <1>2 DEF Shape
  <2>2. Overtaken = [reading EXCEPT !.stale = TRUE]
      BY <1>2 DEF Overtaken
  <2>3. QED
      BY <1>2, <2>1, <2>2 DEF Reads
<1>3. QED
    BY <1>1, <1>2

LEMMA TypeMoves ==
    ASSUME Shape, NEW b \in Blocks, Type(b)
    PROVE  \E text \in Texts : Types(b, text)
<1>1. count.typed < MaxTyped /\ count' = [count EXCEPT !.typed = @ + 1] /\ count \in Counts
    BY DEF Type, Shape, Counts
<1>2. count' \in Counts /\ count'.typed = count.typed + 1 /\ count'.typed \in 1..MaxTyped
  <2>1. count.typed + 1 \in 0..MaxTyped
      BY <1>1, Bounds DEF Counts
  <2>2. QED
      BY <1>1, <2>1, Bounds DEF Counts
<1>3. PICK text \in {MaxElse + count'.typed, shown[b].text} :
          /\ draft' = [draft EXCEPT ![b] =
                          IF HasDraft(b) THEN [@ EXCEPT !.text = text]
                          ELSE [key |-> count'.typed, text |-> text, version |-> shown[b].version]]
          /\ last' = [last EXCEPT ![b] = text]
          /\ retyped' = IF text = shown[b].text /\ UnderWay(b) THEN retyped \cup {b} ELSE retyped \ {b}
    BY DEF Type
<1>4. text \in Texts
  <2>1. CASE text = MaxElse + count'.typed
      BY <1>2, <2>1, Bounds DEF Texts
  <2>2. CASE text # MaxElse + count'.typed
    <3>1. text = shown[b].text
        BY <1>3, <2>2
    <3>2. QED
        BY <3>1 DEF Shape, State
  <2>3. QED
      BY <2>1, <2>2
<1>5. PICK d : d = IF HasDraft(b) THEN [draft[b] EXCEPT !.text = text]
                   ELSE [key |-> count'.typed, text |-> text, version |-> shown[b].version]
    OBVIOUS
<1>6. draft \in Drafts /\ draft[b] \in [key : 0..MaxTyped, text : Texts, version : Nat]
    BY DEF Shape, Drafts
<1>7. /\ d \in [key : 0..MaxTyped, text : Texts, version : Nat] /\ d.text = text
      /\ HasDraft(b) => d.key = draft[b].key /\ d.version = draft[b].version
      /\ ~HasDraft(b) => d.key = count'.typed /\ d.version = shown[b].version
      /\ d.key > 0
  <2>1. CASE HasDraft(b)
      BY <1>4, <1>5, <1>6, <2>1, Bounds DEF Shape
  <2>2. CASE ~HasDraft(b)
    <3>1. shown[b].version \in Nat
        BY DEF Shape, State
    <3>2. d = [key |-> count'.typed, text |-> text, version |-> shown[b].version]
        BY <1>5, <2>2
    <3>3. QED
        BY <1>2, <1>4, <2>2, <3>1, <3>2, Bounds
  <2>3. QED
      BY <2>1, <2>2
<1>8. draft' = [draft EXCEPT ![b] = d]
    BY <1>3, <1>5
<1>9. draft' \in Drafts /\ draft'[b] = d /\ \A x \in Blocks \ {b} : draft'[x] = draft[x]
    BY <1>6, <1>7, <1>8 DEF Drafts
<1>10. d # NoDraft
    BY <1>7 DEF NoDraft
<1>11. HasDraft(b)' /\ \A x \in Blocks \ {b} : HasDraft(x)' <=> HasDraft(x)
    BY <1>9, <1>10 DEF HasDraft
<1>12. DraftsTold'
    BY <1>7, <1>9, <1>11 DEF DraftsTold, Shape
<1>13. UNCHANGED <<storeVars, viewVars, queue, reading, others, written, blind>>
    BY DEF Type
<1>14. /\ text = MaxElse + count'.typed \/ text = shown[b].text
       /\ text = shown[b].text /\ UnderWay(b) => b \in retyped'
       /\ retyped' \subseteq Blocks /\ \A x \in Blocks \ {b} : x \in retyped' <=> x \in retyped
    BY <1>3 DEF Shape
<1>15. Types(b, text)
    BY <1>1, <1>2, <1>3, <1>4, <1>7, <1>9, <1>11, <1>12, <1>13, <1>14 DEF Types
<1>16. QED
    BY <1>4, <1>15

LEMMA DraftCleared ==
    ASSUME Shape, NEW b \in Blocks, draft' = [draft EXCEPT ![b] = NoDraft]
    PROVE  /\ draft' \in Drafts /\ DraftsTold' /\ draft'[b] = NoDraft
           /\ \A x \in Blocks \ {b} : draft'[x] = draft[x]
<1>1. NoDraft \in [key : 0..MaxTyped, text : Texts, version : Nat] /\ NoDraft.key = 0
    BY Bounds DEF NoDraft, Texts
<1>2. draft \in Drafts
    BY DEF Shape, Drafts
<1>3. draft' \in Drafts /\ draft'[b] = NoDraft /\ \A x \in Blocks \ {b} : draft'[x] = draft[x]
    BY <1>1, <1>2 DEF Drafts
<1>4. DraftsTold'
    BY <1>1, <1>3 DEF DraftsTold, HasDraft, Shape
<1>5. QED
    BY <1>3, <1>4

LEMMA UseMoves ==
    ASSUME Shape, NEW b \in Blocks, UseServerText(b)
    PROVE  Clears(b)
BY DraftCleared DEF UseServerText, Clears

LEMMA DropMoves ==
    ASSUME Shape, NEW b \in Blocks, SaveBlock(b), SavedDraft(b)
    PROVE  Clears(b)
<1>1. draft' = [draft EXCEPT ![b] = NoDraft] /\ UNCHANGED <<queue, storeVars, viewVars, reading, count, historyVars>>
    BY DEF SaveBlock
<1>2. QED
    BY <1>1, DraftCleared DEF SaveBlock, Clears, SavedDraft, historyVars

LEMMA ElsewhereMoves ==
    ASSUME Shape, NEW b \in Blocks, WriteElsewhere(b)
    PROVE  Intrudes(b)
<1>1. count.elsewhere < MaxElse /\ count' = [count EXCEPT !.elsewhere = @ + 1] /\ count \in Counts
    BY DEF WriteElsewhere, Shape, Counts
<1>2. count' \in Counts /\ count'.typed = count.typed /\ count'.elsewhere \in 0..MaxElse
  <2>1. count.elsewhere + 1 \in 0..MaxElse
      BY <1>1, Bounds DEF Counts
  <2>2. QED
      BY <1>1, <2>1 DEF Counts
<1>3. PICK r : r = [text |-> count'.elsewhere, version |-> server[b].version + 1]
    OBVIOUS
<1>4. r \in State /\ r.text \in 0..MaxElse /\ r.text <= MaxElse /\ r.version = server[b].version + 1 /\ r.version \in Nat
  <2>1. server[b].version \in Nat
      BY DEF Shape, State
  <2>2. count'.elsewhere \in Texts
      BY <1>2, Bounds DEF Texts
  <2>3. r.text = count'.elsewhere /\ r.version = server[b].version + 1
      BY <1>3
  <2>4. QED
      BY <1>2, <1>3, <2>1, <2>2, <2>3, Bounds DEF State
<1>5. server' = [server EXCEPT ![b] = r]
    BY <1>3 DEF WriteElsewhere
<1>6. server' \in [Blocks -> State] /\ server'[b] = r /\ \A x \in Blocks \ {b} : server'[x] = server[x]
    BY <1>4, <1>5 DEF Shape
<1>7. /\ others' = [others EXCEPT ![b] = @ \cup {r.version}]
      /\ written' = [written EXCEPT ![b] = @ \cup {r.text}]
      /\ UNCHANGED <<local, outbox, paused, viewVars, draft, queue, reading, last, retyped, blind>>
    BY <1>6 DEF WriteElsewhere
<1>8. r.text \in Texts
    BY <1>4 DEF State
<1>9. others' \in [Blocks -> SUBSET Nat] /\ written' \in [Blocks -> SUBSET Texts]
    BY <1>4, <1>7, <1>8 DEF Shape
<1>10. /\ others'[b] = others[b] \cup {r.version} /\ written'[b] = written[b] \cup {r.text}
       /\ \A x \in Blocks \ {b} : others'[x] = others[x] /\ written'[x] = written[x]
    BY <1>7 DEF Shape
<1>11. QED
    BY <1>2, <1>3, <1>4, <1>5, <1>6, <1>7, <1>9, <1>10 DEF Intrudes

LEMMA SynchronizeMoves ==
    ASSUME Shape, Synchronize
    PROVE  /\ 1 \in DOMAIN outbox
           /\ Delivers(outbox[1].block, outbox[1].edit) \/ Pauses(outbox[1].block)
<1> DEFINE Ops == [block : Blocks, edit : Edit]
<1>1. outbox \in Seq(Ops) /\ outbox # <<>> /\ outbox' = Tail(outbox)
    BY DEF Shape, Synchronize
<1> HIDE DEF Ops
<1>2. /\ DOMAIN outbox = 1..Len(outbox) /\ Len(outbox) \in Nat /\ Len(outbox) > 0 /\ Head(outbox) = outbox[1]
      /\ Tail(outbox) \in Seq(Ops) /\ Len(Tail(outbox)) = Len(outbox) - 1
      /\ \A n \in 1..(Len(outbox) - 1) : Tail(outbox)[n] = outbox[n + 1]
    BY <1>1
<1>3. Advances
    BY <1>1, <1>2, SeqElements DEF Advances, Ops
<1>4. PICK b, e : b = outbox[1].block /\ e = outbox[1].edit
    OBVIOUS
<1>5. b \in Blocks /\ e \in Edit /\ e.text \in Texts
    BY <1>2, <1>4, QueueShape DEF Edit
<1>6. CASE b \notin paused /\ server[b].version = e.version
  <2>1. /\ server' = [server EXCEPT ![b] = Edited(server[b], e.text)]
        /\ reading' = Overtaken
        /\ blind' = (blind \/ Unseen(b, e, server[b]))
        /\ UNCHANGED paused
        /\ UNCHANGED <<local, viewVars, draft, queue, count, others, written, last, retyped>>
      BY <1>2, <1>4, <1>6 DEF Synchronize
  <2>2. Edited(server[b], e.text) \in State
      BY <1>5, EditedState DEF Shape
  <2>3. /\ server' \in [Blocks -> State] /\ server'[b] = Edited(server[b], e.text)
        /\ \A x \in Blocks \ {b} : server'[x] = server[x]
      BY <1>5, <2>1, <2>2 DEF Shape
  <2>4. Delivers(b, e)
      BY <1>3, <1>4, <1>6, <2>1, <2>3 DEF Delivers
  <2>5. QED
      BY <1>2, <1>4, <2>4
<1>7. CASE ~(b \notin paused /\ server[b].version = e.version)
  <2>1. /\ paused' = paused \cup {b} /\ UNCHANGED <<server, reading, blind>>
        /\ UNCHANGED <<local, viewVars, draft, queue, count, others, written, last, retyped>>
      BY <1>2, <1>4, <1>7 DEF Synchronize
  <2>2. Pauses(b)
      BY <1>3, <1>4, <1>7, <2>1 DEF Pauses, historyVars
  <2>3. QED
      BY <1>2, <1>4, <2>2
<1>8. QED
    BY <1>6, <1>7

LEMMA ShowMoves ==
    ASSUME Shape, local' \in [Blocks -> State], Show(local')
    PROVE  Shows
<1>1. /\ shown' = [b \in Blocks |-> IF accepted[b].version > local'[b].version THEN accepted[b] ELSE local'[b]]
      /\ accepted' = [b \in Blocks |-> IF local'[b].version > accepted[b].version THEN local'[b] ELSE accepted[b]]
    BY DEF Show, Reconcile
<1>2. QED
    BY <1>1 DEF Shows, Shape

LEMMA ReplicaMoves ==
    ASSUME Shape, ReadReplica
    PROVE  Reshows
<1>1. local' = local /\ Show(local)
    BY DEF ReadReplica, storeVars
<1>2. Show(local')
    BY <1>1
<1>3. local' \in [Blocks -> State]
    BY <1>1 DEF Shape
<1>4. QED
    BY <1>2, <1>3, ShowMoves DEF ReadReplica, Reshows

LEMMA FinishMoves ==
    ASSUME Shape, FinishRead
    PROVE  Installs
<1>1. reading \in [texts : [Blocks -> State], stale : BOOLEAN]
    BY DEF FinishRead, Shape
<1>2. local' = [b \in Blocks |->
                   IF reading.stale \/ Pending(b) \/ local[b].version > reading.texts[b].version
                   THEN local[b] ELSE reading.texts[b]]
    BY DEF FinishRead
<1>3. local' \in [Blocks -> State]
    BY <1>1, <1>2 DEF Shape
<1>4. Shows \/ UNCHANGED <<shown, accepted>>
    BY <1>3, ShowMoves DEF FinishRead
<1>5. QED
    BY <1>2, <1>3, <1>4 DEF FinishRead, Installs

LEMMA SettledDraft ==
    ASSUME Shape, NEW b \in Blocks, NEW e \in Edit
    PROVE  /\ Settled(b, e) \in [key : 0..MaxTyped, text : Texts, version : Nat]
           /\ Settled(b, e) = NoDraft \/ (HasDraft(b) /\ Settled(b, e).key = draft[b].key)
           /\ Settled(b, e) = NoDraft => ~HasDraft(b) \/ draft[b].text = e.text
           /\ Settled(b, e) # NoDraft =>
                /\ Settled(b, e).text = draft[b].text
                /\ Settled(b, e).version = draft[b].version \/ Settled(b, e).version = e.saved
<1>1. draft[b] \in [key : 0..MaxTyped, text : Texts, version : Nat]
    BY DEF Shape
<1>2. NoDraft \in [key : 0..MaxTyped, text : Texts, version : Nat]
    BY Bounds DEF NoDraft, Texts
<1>3. e.saved \in Nat
    BY DEF Edit
<1>4. CASE ~HasDraft(b) \/ draft[b].key # e.key \/ draft[b].version > e.saved
    BY <1>1, <1>2, <1>4 DEF Settled, HasDraft
<1>5. CASE ~(~HasDraft(b) \/ draft[b].key # e.key \/ draft[b].version > e.saved)
  <2>1. CASE draft[b].text = e.text
      BY <1>2, <1>5, <2>1 DEF Settled
  <2>2. CASE draft[b].text # e.text
    <3>1. Settled(b, e) = [draft[b] EXCEPT !.version = e.saved]
        BY <1>5, <2>2 DEF Settled
    <3>2. PICK d : d = [draft[b] EXCEPT !.version = e.saved]
        OBVIOUS
    <3>3. /\ d \in [key : 0..MaxTyped, text : Texts, version : Nat]
          /\ d.key = draft[b].key /\ d.text = draft[b].text /\ d.version = e.saved
        BY <1>1, <1>3, <3>2
    <3>4. d # NoDraft
        BY <1>5, <3>3 DEF NoDraft, Shape
    <3>5. QED
        BY <1>5, <3>1, <3>2, <3>3, <3>4
  <2>3. QED
      BY <2>1, <2>2
<1>6. QED
    BY <1>4, <1>5

LEMMA AcknowledgeMoves ==
    ASSUME Shape, NEW i \in DOMAIN queue, Acknowledge(i)
    PROVE  Acknowledges(i)
<1> DEFINE edits == queue[i].edits
<1>1. /\ DOMAIN edits \subseteq Blocks /\ \A b \in DOMAIN edits : edits[b] \in Edit
    BY QueueShape
<1>2. /\ queue[i].phase = "applied" /\ queue' = RemoveAt(queue, i)
      /\ own' = own \cup {<<b, edits[b].version>> : b \in {x \in DOMAIN edits : edits[x].saved = edits[x].version + 1}}
      /\ accepted' = [b \in Blocks |-> IF b \in DOMAIN edits /\ edits[b].saved > accepted[b].version
                                       THEN Saved(edits[b]) ELSE accepted[b]]
      /\ shown' = [b \in Blocks |-> IF b \in DOMAIN edits /\ edits[b].saved > shown[b].version
                                    THEN Saved(edits[b]) ELSE shown[b]]
      /\ draft' = [b \in Blocks |-> IF b \in DOMAIN edits THEN Settled(b, edits[b]) ELSE draft[b]]
      /\ UNCHANGED <<storeVars, reading, count, historyVars>>
    BY DEF Acknowledge, Saved
<1> HIDE DEF edits
<1>3. Removed(i)
    BY <1>2, QueueRemoved
<1>4. \A b \in DOMAIN edits : edits[b].version \in Nat /\ Saved(edits[b]) \in State
    BY <1>1 DEF Edit, Saved, State
<1>5. own' \subseteq Blocks \X Nat
    BY <1>1, <1>2, <1>4 DEF Shape
<1>6. \A b \in Blocks, u \in Nat : <<b, u>> \in own' <=>
          <<b, u>> \in own \/ (b \in DOMAIN edits /\ edits[b].version = u /\ edits[b].saved = u + 1)
  <2>1. SUFFICES ASSUME NEW b \in Blocks, NEW u \in Nat
                 PROVE  <<b, u>> \in {<<x, edits[x].version>> : x \in {y \in DOMAIN edits : edits[y].saved = edits[y].version + 1}}
                        <=> (b \in DOMAIN edits /\ edits[b].version = u /\ edits[b].saved = u + 1)
      BY <1>2
  <2>2. QED
      OBVIOUS
<1>7. shown' \in [Blocks -> State] /\ accepted' \in [Blocks -> State]
    BY <1>2, <1>4 DEF Shape
<1>8. draft' \in Drafts
    BY <1>1, <1>2, SettledDraft DEF Drafts, Shape
<1>9. DraftsTold'
  <2>1. SUFFICES ASSUME NEW b \in Blocks PROVE draft'[b] # NoDraft <=> draft'[b].key > 0
      BY DEF DraftsTold, HasDraft
  <2>2. NoDraft.key = 0
      BY DEF NoDraft
  <2>3. HasDraft(b) <=> draft[b].key > 0
      BY DEF Shape
  <2>4. CASE b \in DOMAIN edits
    <3>1. draft'[b] = Settled(b, edits[b])
        BY <1>2, <2>4
    <3>2. QED
        BY <1>1, <2>2, <2>3, <2>4, <3>1, SettledDraft
  <2>5. CASE b \notin DOMAIN edits
      BY <1>2, <2>3, <2>5 DEF HasDraft
  <2>6. QED
      BY <2>4, <2>5
<1>10. QED
    BY <1>2, <1>3, <1>5, <1>6, <1>7, <1>8, <1>9 DEF Acknowledges, On, edits

-----------------------------------------------------------------------------
(* Every step, and the shape it keeps *)

\* Every step is one of these.
Effect ==
    \/ UNCHANGED vars
    \/ \E b \in Blocks : \/ \E text \in Texts : Types(b, text)
                         \/ Clears(b)
                         \/ Intrudes(b)
                         \/ \E e \in Edit : Delivers(b, e)
                         \/ Pauses(b)
    \/ \E c \in Commands : Joins(c)
    \/ \E i \in DOMAIN queue : \/ Drops(i)
                               \/ Refuses(i)
                               \/ \E b \in Blocks, e \in Edit : Saves(i, b, e)
                               \/ \E f \in EditSets : Sends(i, f)
                               \/ \E f \in EditSets : Admits(i, f)
                               \/ Learns(i)
                               \/ Acknowledges(i)
    \/ Reshows
    \/ Asks
    \/ Installs

LEMMA Moves ==
    ASSUME Shape, OwnPast, [Next]_vars
    PROVE  Effect
<1>1. CASE UNCHANGED vars
    BY <1>1 DEF Effect
<1>2. ASSUME NEW b \in Blocks, Type(b) PROVE Effect
    BY <1>2, TypeMoves DEF Effect
<1>3. ASSUME NEW b \in Blocks, UseServerText(b) PROVE Effect
    BY <1>3, UseMoves DEF Effect
<1>4. ASSUME NEW b \in Blocks, SaveBlock(b) PROVE Effect
    BY <1>4, DropMoves, SaveJoins DEF Effect
<1>5. ASSUME NEW b \in Blocks, OverwriteDraft(b) PROVE Effect
    BY <1>5, OverwriteJoins DEF Effect
<1>6. ASSUME NEW b \in Blocks, WriteElsewhere(b) PROVE Effect
    BY <1>6, ElsewhereMoves DEF Effect
<1>7. ASSUME NEW S \in SUBSET Blocks, Run(S) PROVE Effect
    BY <1>7, RunJoins DEF Effect
<1>8. ASSUME NEW i \in DOMAIN queue, Step(i) PROVE Effect
  <2>1. ASSUME NEW b \in Blocks, Abandon(i, b) PROVE Effect
      BY <2>1, AbandonDrops DEF Effect
  <2>2. ASSUME NEW b \in Blocks, Save(i, b) PROVE Effect
      BY <2>2, SaveMoves DEF Effect
  <2>3. CASE SendRun(i)
      BY <2>3, SendMoves DEF Effect
  <2>4. CASE AdmitRun(i)
      BY <2>4, AdmitMoves DEF Effect
  <2>5. CASE LearnReceipt(i)
      BY <2>5, LearnMoves DEF Effect
  <2>6. CASE Acknowledge(i)
      BY <2>6, AcknowledgeMoves DEF Effect
  <2>7. CASE Refused(i)
      BY <2>7, RefusedDrops DEF Effect
  <2>8. QED
      BY <1>8, <2>1, <2>2, <2>3, <2>4, <2>5, <2>6, <2>7 DEF Step
<1>9. CASE Synchronize
  <2>1. /\ outbox[1].block \in Blocks /\ outbox[1].edit \in Edit
        /\ Delivers(outbox[1].block, outbox[1].edit) \/ Pauses(outbox[1].block)
      BY <1>9, SynchronizeMoves, QueueShape
  <2>2. QED
      BY <2>1 DEF Effect
<1>10. CASE ReadReplica
    BY <1>10, ReplicaMoves DEF Effect
<1>11. CASE ReadServer
    BY <1>11 DEF Effect, Asks, ReadServer
<1>12. CASE FinishRead
    BY <1>12, FinishMoves DEF Effect
<1>13. QED
    BY <1>1, <1>2, <1>3, <1>4, <1>5, <1>6, <1>7, <1>8, <1>9, <1>10, <1>11, <1>12 DEF Next

LEMMA ShapeStep ==
    ASSUME Shape, Effect
    PROVE  Shape'
<1>1. CASE UNCHANGED vars
    BY <1>1 DEF Shape, HasDraft, vars, storeVars, viewVars, historyVars
<1>2. ASSUME NEW b \in Blocks, NEW text \in Texts, Types(b, text) PROVE Shape'
  <2>1. last' \in [Blocks -> Texts \cup {GivenUp}]
      BY <1>2 DEF Types, Shape
  <2>2. QED
      BY <1>2, <2>1 DEF Types, Shape, Drafts, DraftsTold, Counts, storeVars, viewVars
<1>3. ASSUME NEW b \in Blocks, Clears(b) PROVE Shape'
  <2>1. last' \in [Blocks -> Texts \cup {GivenUp}]
      BY <1>3 DEF Clears, Shape
  <2>2. QED
      BY <1>3, <2>1 DEF Clears, Shape, Drafts, DraftsTold, storeVars, viewVars
<1>4. ASSUME NEW b \in Blocks, Intrudes(b) PROVE Shape'
    BY <1>4 DEF Intrudes, Shape, HasDraft, Counts, viewVars
<1>5. ASSUME NEW b \in Blocks, NEW e \in Edit, Delivers(b, e) PROVE Shape'
  <2>1. reading' \in Reads /\ blind' \in BOOLEAN
      BY <1>5, Overtakes DEF Delivers, Shape, Unseen
  <2>2. QED
      BY <1>5, <2>1 DEF Delivers, Advances, Shape, HasDraft, Reads, viewVars
<1>6. ASSUME NEW b \in Blocks, Pauses(b) PROVE Shape'
    BY <1>6 DEF Pauses, Advances, Shape, HasDraft, viewVars, historyVars
<1>7. ASSUME NEW c \in Commands, Joins(c) PROVE Shape'
  <2>1. \A b \in Blocks : HasDraft(b)' <=> draft'[b].key > 0
      BY <1>7 DEF Joins, Shape
  <2>2. QED
      BY <1>7, <2>1 DEF Joins, Appended, Shape, storeVars, viewVars, historyVars
<1>8. ASSUME NEW i \in DOMAIN queue, Drops(i) PROVE Shape'
    BY <1>8 DEF Drops, Removed, Idle, Shape, HasDraft, storeVars, viewVars, historyVars
<1>9. ASSUME NEW i \in DOMAIN queue, Refuses(i) PROVE Shape'
    BY <1>9 DEF Refuses, Turned, Idle, Shape, HasDraft, storeVars, viewVars, historyVars
<1>10. ASSUME NEW i \in DOMAIN queue, NEW b \in Blocks, NEW e \in Edit, Saves(i, b, e) PROVE Shape'
  <2>1. e.text \in Texts
      BY DEF Edit
  <2>2. local' \in [Blocks -> State]
    <3>1. Edited(local[b], e.text) \in State
        BY <2>1, EditedState DEF Shape
    <3>2. QED
        BY <1>10, <3>1 DEF Saves, Shape
  <2>3. outbox' \in Seq([block : Blocks, edit : Edit])
    <3>1. PICK op : op = [block |-> b, edit |-> e]
        OBVIOUS
    <3>2. op \in [block : Blocks, edit : Edit]
        BY <3>1
    <3>3. outbox' = Append(outbox, op)
        BY <1>10, <3>1 DEF Saves
    <3>4. outbox \in Seq([block : Blocks, edit : Edit])
        BY DEF Shape
    <3>5. QED
        BY <3>2, <3>3, <3>4, SeqAppend
  <2>4. written' \in [Blocks -> SUBSET Texts]
      BY <1>10, <2>1 DEF Saves, Shape
  <2>5. reading' \in Reads
      BY <1>10, Overtakes DEF Saves
  <2>6. QED
      BY <1>10, <2>2, <2>3, <2>4, <2>5 DEF Saves, Turned, Shape, HasDraft, Reads, viewVars
<1>11. ASSUME NEW i \in DOMAIN queue, NEW f \in EditSets, Sends(i, f) PROVE Shape'
    BY <1>11 DEF Sends, Turned, Idle, Shape, HasDraft, storeVars, viewVars, historyVars
<1>12. ASSUME NEW i \in DOMAIN queue, NEW f \in EditSets, Admits(i, f) PROVE Shape'
  <2>1. blind' \in BOOLEAN
      BY <1>12 DEF Admits, Shape, Unseen
  <2>2. QED
      BY <1>12, <2>1 DEF Admits, Turned, Shape, HasDraft, viewVars
<1>13. ASSUME NEW i \in DOMAIN queue, Learns(i) PROVE Shape'
  <2>1. reading' \in Reads
      BY <1>13, Overtakes DEF Learns
  <2>2. QED
      BY <1>13, <2>1 DEF Learns, Turned, Shape, HasDraft, Reads, viewVars, historyVars
<1>14. ASSUME NEW i \in DOMAIN queue, Acknowledges(i) PROVE Shape'
    BY <1>14 DEF Acknowledges, Removed, Shape, Drafts, DraftsTold, storeVars, historyVars
<1>15. CASE Reshows
    BY <1>15 DEF Reshows, Shows, Shape, HasDraft, storeVars, historyVars
<1>16. CASE Asks
  <2>1. reading' \in Reads
      BY <1>16 DEF Asks, Reads, Shape
  <2>2. QED
      BY <1>16, <2>1 DEF Asks, Shape, HasDraft, Reads, storeVars, viewVars, historyVars
<1>17. CASE Installs
    BY <1>17 DEF Installs, Shows, Shape, HasDraft, historyVars
<1>18. QED
    BY <1>1, <1>2, <1>3, <1>4, <1>5, <1>6, <1>7, <1>8, <1>9, <1>10, <1>11, <1>12, <1>13, <1>14, <1>15, <1>16, <1>17
       DEF Effect

-----------------------------------------------------------------------------
(* The lanes, and what a controller has replaced *)

\* A command past its turn is the first of each of its lanes.
Laned == \A i \in DOMAIN queue : queue[i].phase # "waiting" => First(i)

LEMMA RemovedFrom ==
    ASSUME Shape, NEW i \in DOMAIN queue, Removed(i)
    PROVE  /\ \A j \in DOMAIN queue' : /\ Earlier(j, i) \in DOMAIN queue /\ Earlier(j, i) # i
                                       /\ queue'[j] = queue[Earlier(j, i)]
           /\ \A k \in DOMAIN queue \ {i} : \E j \in DOMAIN queue' : Earlier(j, i) = k /\ queue'[j] = queue[k]
           /\ \A h, j \in DOMAIN queue' : h < j => Earlier(h, i) < Earlier(j, i)
<1>1. DOMAIN queue = 1..Len(queue) /\ Len(queue) \in Nat /\ i \in 1..Len(queue)
    BY QueueShape
<1>2. DOMAIN queue' = 1..Len(queue) - 1 /\ \A j \in DOMAIN queue' : queue'[j] = queue[Earlier(j, i)]
    BY DEF Removed
<1>3. \A j \in DOMAIN queue' : Earlier(j, i) \in DOMAIN queue /\ Earlier(j, i) # i
    BY <1>1, <1>2 DEF Earlier
<1>4. ASSUME NEW k \in DOMAIN queue \ {i}
      PROVE  \E j \in DOMAIN queue' : Earlier(j, i) = k /\ queue'[j] = queue[k]
  <2>1. CASE k < i
    <3>1. k \in DOMAIN queue' /\ Earlier(k, i) = k
        BY <1>1, <1>2, <2>1 DEF Earlier
    <3>2. QED
        BY <1>2, <3>1
  <2>2. CASE ~(k < i)
    <3>1. k - 1 \in DOMAIN queue' /\ Earlier(k - 1, i) = k
        BY <1>1, <1>2, <2>2 DEF Earlier
    <3>2. QED
        BY <1>2, <3>1
  <2>3. QED
      BY <2>1, <2>2
<1>5. \A h, j \in DOMAIN queue' : h < j => Earlier(h, i) < Earlier(j, i)
    BY <1>1, <1>2 DEF Earlier
<1>6. QED
    BY <1>2, <1>3, <1>4, <1>5

\* The replica's versions only grow.
LEMMA LocalGrows ==
    ASSUME Shape, Effect
    PROVE  \A b \in Blocks : local[b].version \in Nat /\ local'[b].version \in Nat /\ local[b].version <= local'[b].version
<1>1. \A b \in Blocks : local[b] \in State /\ local[b].version \in Nat
    BY DEF Shape, State
<1>2. CASE UNCHANGED local
    BY <1>1, <1>2
<1>3. ASSUME NEW i \in DOMAIN queue, NEW b \in Blocks, NEW e \in Edit, Saves(i, b, e)
      PROVE  \A x \in Blocks : local'[x].version \in Nat /\ local[x].version <= local'[x].version
  <2>1. local' = [local EXCEPT ![b] = Edited(local[b], e.text)] /\ e.text \in Texts
      BY <1>3 DEF Saves, Edit
  <2>2. Edited(local[b], e.text).version \in Nat /\ local[b].version <= Edited(local[b], e.text).version
      BY <1>1, <2>1, EditedState DEF State
  <2>3. QED
      BY <1>1, <2>1, <2>2 DEF Shape
<1>4. ASSUME NEW i \in DOMAIN queue, Learns(i)
      PROVE  \A x \in Blocks : local'[x].version \in Nat /\ local[x].version <= local'[x].version
  <2>1. SUFFICES ASSUME NEW x \in Blocks
                 PROVE  local'[x].version \in Nat /\ local[x].version <= local'[x].version
      OBVIOUS
  <2>2. CASE On(i, x) /\ local[x].version < queue[i].edits[x].saved
    <3>1. local'[x].version = queue[i].edits[x].saved
        BY <1>4, <2>2 DEF Learns
    <3>2. queue[i].edits[x].saved \in Nat
        BY <2>2, QueueShape DEF On, Edit
    <3>3. QED
        BY <1>1, <2>2, <3>1, <3>2
  <2>3. CASE ~(On(i, x) /\ local[x].version < queue[i].edits[x].saved)
    <3>1. local'[x] = local[x]
        BY <1>4, <2>3 DEF Learns
    <3>2. QED
        BY <1>1, <3>1
  <2>4. QED
      BY <2>2, <2>3
<1>5. CASE Installs
  <2>1. reading \in [texts : [Blocks -> State], stale : BOOLEAN]
      BY <1>5 DEF Installs, Shape
  <2>2. \A x \in Blocks : reading.texts[x].version \in Nat
      BY <2>1 DEF State
  <2>3. \A x \in Blocks : local'[x] = IF reading.stale \/ Pending(x) \/ local[x].version > reading.texts[x].version
                                      THEN local[x] ELSE reading.texts[x]
      BY <1>5 DEF Installs
  <2>4. QED
      BY <1>1, <2>2, <2>3
<1>6. QED
    BY <1>1, <1>2, <1>3, <1>4, <1>5
       DEF Effect, vars, storeVars, Types, Clears, Intrudes, Delivers, Pauses, Joins, Drops, Refuses, Idle, Sends, Admits,
           Acknowledges, Reshows, Asks

LEMMA OwnPastStep ==
    ASSUME Shape, OwnPast, Effect
    PROVE  OwnPast'
<1>1. \A b \in Blocks : local[b].version \in Nat /\ local'[b].version \in Nat /\ local[b].version <= local'[b].version
    BY LocalGrows
<1>2. /\ DOMAIN queue = 1..Len(queue)
      /\ \A i \in DOMAIN queue : \A b \in DOMAIN queue[i].edits :
            b \in Blocks /\ queue[i].edits[b].saved \in Nat /\ queue[i].edits[b].version \in Nat
    BY QueueShape DEF Edit
<1>3. \A b \in Blocks, u \in Nat : <<b, u>> \in own => u < local'[b].version
    BY <1>1 DEF OwnPast
<1>4. \A i \in DOMAIN queue : queue[i].phase = "applied" =>
          \A b \in DOMAIN queue[i].edits : queue[i].edits[b].saved <= local'[b].version
    BY <1>1, <1>2 DEF OwnPast
<1>5. CASE UNCHANGED <<own, queue>>
    BY <1>3, <1>4, <1>5 DEF OwnPast
<1>6. ASSUME NEW i \in DOMAIN queue, Removed(i), UNCHANGED own PROVE OwnPast'
    BY <1>3, <1>4, <1>6, RemovedFrom DEF OwnPast
<1>7. ASSUME NEW i \in DOMAIN queue, NEW p \in Phases, NEW f, Turned(i, p, f), UNCHANGED own,
             p = "applied" => \A b \in DOMAIN f : f[b].saved <= local'[b].version
      PROVE  OwnPast'
    BY <1>3, <1>4, <1>7 DEF OwnPast, Turned
<1>8. ASSUME NEW c \in Commands, Joins(c) PROVE OwnPast'
  <2>1. \A j \in DOMAIN queue' : j \in DOMAIN queue \/ j = Len(queue) + 1
      BY <1>2, <1>8, QueueShape DEF Joins, Appended
  <2>2. QED
      BY <1>3, <1>4, <1>8, <2>1 DEF OwnPast, Joins, Appended, viewVars
<1>9. ASSUME NEW i \in DOMAIN queue, NEW b \in Blocks, NEW e \in Edit, Saves(i, b, e) PROVE OwnPast'
  <2>1. e.saved = local'[b].version
      BY <1>9 DEF Saves, Shape
  <2>2. UNCHANGED own
      BY <1>9 DEF Saves, viewVars
  <2>3. Turned(i, "applied", queue'[i].edits) /\ DOMAIN queue'[i].edits = {b} /\ queue'[i].edits[b] = e
      BY <1>9 DEF Saves, Turned
  <2>4. \A x \in DOMAIN queue'[i].edits : queue'[i].edits[x].saved <= local'[x].version
      BY <1>1, <2>1, <2>3
  <2>5. QED
      BY <1>3, <1>4, <2>2, <2>3, <2>4 DEF OwnPast, Turned
<1>10. ASSUME NEW i \in DOMAIN queue, Learns(i) PROVE OwnPast'
  <2>1. \A b \in DOMAIN queue[i].edits : queue[i].edits[b].saved <= local'[b].version
      BY <1>1, <1>2, <1>10 DEF Learns, On
  <2>2. QED
      BY <1>7, <1>10, <2>1 DEF Learns, Phases, viewVars
<1>11. ASSUME NEW i \in DOMAIN queue, Acknowledges(i) PROVE OwnPast'
  <2>1. \A j \in DOMAIN queue' : queue'[j].phase = "applied" =>
            \A b \in DOMAIN queue'[j].edits : queue'[j].edits[b].saved <= local'[b].version
      BY <1>4, <1>11, RemovedFrom DEF Acknowledges
  <2>2. ASSUME NEW b \in Blocks, NEW u \in Nat, <<b, u>> \in own' PROVE u < local'[b].version
    <3>1. CASE <<b, u>> \in own
        BY <1>3, <3>1
    <3>2. CASE On(i, b) /\ queue[i].edits[b].saved = u + 1
        BY <1>1, <1>4, <1>11, <3>2 DEF On, Acknowledges
    <3>3. QED
        BY <1>11, <2>2, <3>1, <3>2 DEF Acknowledges
  <2>3. QED
      BY <2>1, <2>2 DEF OwnPast
<1>12. ASSUME NEW i \in DOMAIN queue, Drops(i) PROVE OwnPast'
    BY <1>6, <1>12 DEF Drops, Idle, viewVars
<1>13. ASSUME NEW i \in DOMAIN queue, Refuses(i) PROVE OwnPast'
    BY <1>7, <1>13 DEF Refuses, Idle, viewVars, Phases
<1>14. ASSUME NEW i \in DOMAIN queue, NEW f \in EditSets, Sends(i, f) PROVE OwnPast'
    BY <1>7, <1>14 DEF Sends, Idle, viewVars, Phases
<1>15. ASSUME NEW i \in DOMAIN queue, NEW f \in EditSets, Admits(i, f) PROVE OwnPast'
    BY <1>7, <1>15 DEF Admits, viewVars, Phases
<1>16. QED
    BY <1>5, <1>8, <1>9, <1>10, <1>11, <1>12, <1>13, <1>14, <1>15
       DEF Effect, vars, viewVars, Types, Clears, Intrudes, Delivers, Pauses, Reshows, Asks, Installs

LEMMA LanedTurned ==
    ASSUME Shape, Laned, NEW i \in DOMAIN queue, NEW p \in Phases, NEW f, Turned(i, p, f),
           DOMAIN f = DOMAIN queue[i].edits, First(i)
    PROVE  Laned'
<1>1. DOMAIN queue' = DOMAIN queue /\ \A j \in DOMAIN queue : DOMAIN queue'[j].edits = DOMAIN queue[j].edits
    BY DEF Turned
<1>2. \A j \in DOMAIN queue : \A h \in 1..(j - 1) : h \in DOMAIN queue
    BY QueueShape
<1>3. \A j \in DOMAIN queue : First(j) => First(j)'
    BY <1>1, <1>2 DEF First
<1>4. \A j \in DOMAIN queue \ {i} : queue'[j] = queue[j]
    BY DEF Turned
<1>5. QED
    BY <1>1, <1>3, <1>4 DEF Laned

LEMMA LanedStep ==
    ASSUME Shape, Laned, Effect
    PROVE  Laned'
<1>1. DOMAIN queue = 1..Len(queue) /\ Len(queue) \in Nat
    BY QueueShape
<1>2. CASE UNCHANGED queue
    BY <1>2 DEF Laned, First
<1>3. ASSUME NEW i \in DOMAIN queue, Removed(i) PROVE Laned'
  <2>1. SUFFICES ASSUME NEW j \in DOMAIN queue', queue'[j].phase # "waiting", NEW h \in 1..(j - 1)
                 PROVE  DOMAIN queue'[h].edits \cap DOMAIN queue'[j].edits = {}
      BY DEF Laned, First
  <2>2. DOMAIN queue' = 1..(Len(queue) - 1)
      BY <1>3 DEF Removed
  <2>3. h \in DOMAIN queue' /\ h < j
      BY <1>1, <2>2
  <2>4. /\ Earlier(h, i) \in DOMAIN queue /\ Earlier(j, i) \in DOMAIN queue /\ Earlier(h, i) < Earlier(j, i)
        /\ queue'[h] = queue[Earlier(h, i)] /\ queue'[j] = queue[Earlier(j, i)]
      BY <1>3, <2>3, RemovedFrom
  <2>5. First(Earlier(j, i))
      BY <2>1, <2>4 DEF Laned
  <2>6. Earlier(h, i) \in 1..(Earlier(j, i) - 1)
      BY <1>1, <2>4
  <2>7. QED
      BY <2>4, <2>5, <2>6 DEF First
<1>4. ASSUME NEW c \in Commands, Appended(c), c.phase = "waiting" PROVE Laned'
  <2>1. SUFFICES ASSUME NEW j \in DOMAIN queue', queue'[j].phase # "waiting", NEW h \in 1..(j - 1)
                 PROVE  DOMAIN queue'[h].edits \cap DOMAIN queue'[j].edits = {}
      BY DEF Laned, First
  <2>2. j \in DOMAIN queue /\ h \in DOMAIN queue
      BY <1>1, <1>4, <2>1 DEF Appended
  <2>3. First(j) /\ queue'[j] = queue[j] /\ queue'[h] = queue[h]
      BY <1>4, <2>1, <2>2 DEF Laned, Appended
  <2>4. QED
      BY <2>3 DEF First
<1>5. ASSUME NEW i \in DOMAIN queue, Refuses(i) PROVE Laned'
    BY <1>5, LanedTurned DEF Refuses, Blamed, Laned, Phases
<1>6. ASSUME NEW i \in DOMAIN queue, NEW b \in Blocks, NEW e \in Edit, Saves(i, b, e) PROVE Laned'
  <2>1. Turned(i, "applied", queue'[i].edits)
      BY <1>6 DEF Saves, Turned
  <2>2. DOMAIN queue'[i].edits = DOMAIN queue[i].edits /\ First(i)
      BY <1>6 DEF Saves
  <2>3. PICK f : f = queue'[i].edits
      OBVIOUS
  <2>4. Turned(i, "applied", f) /\ DOMAIN f = DOMAIN queue[i].edits
      BY <2>1, <2>2, <2>3
  <2>5. QED
      BY <2>2, <2>4, LanedTurned DEF Phases
<1>7. ASSUME NEW i \in DOMAIN queue, NEW f \in EditSets, Sends(i, f) PROVE Laned'
    BY <1>7, LanedTurned DEF Sends, Phases
<1>8. ASSUME NEW i \in DOMAIN queue, NEW f \in EditSets, Admits(i, f) PROVE Laned'
    BY <1>8, LanedTurned DEF Admits, Laned, Phases
<1>9. ASSUME NEW i \in DOMAIN queue, Learns(i) PROVE Laned'
    BY <1>9, LanedTurned DEF Learns, Laned, Phases
<1>10. QED
    BY <1>2, <1>3, <1>4, <1>5, <1>6, <1>7, <1>8, <1>9
       DEF Effect, vars, Types, Clears, Intrudes, Delivers, Pauses, Joins, Drops, Acknowledges, Reshows, Asks, Installs

-----------------------------------------------------------------------------
(* The texts that are known *)

\* Texts written elsewhere are numbered from 1, texts typed from MaxElse + 1.
Limit == MaxElse + count.typed

\* Every text shown, stored or read was taken for its block, and no text is one still to be typed.
Stored ==
    \A b \in Blocks :
        /\ server[b].text \in written[b] /\ local[b].text \in written[b]
        /\ shown[b].text \in written[b] /\ accepted[b].text \in written[b]
        /\ reading # NoRead => reading.texts[b].text \in written[b]
Carried ==
    /\ \A n \in DOMAIN outbox : outbox[n].edit.text \in written[outbox[n].block]
    /\ \A i \in DOMAIN queue : \A b \in DOMAIN queue[i].edits :
          queue[i].edits[b].text <= Limit /\ (Done(i) => queue[i].edits[b].text \in written[b])
\* What a draft holds was typed last.
Typed ==
    \A b \in Blocks :
        /\ \A t \in written[b] : t <= Limit
        /\ last[b] <= Limit
        /\ HasDraft(b) => draft[b].text = last[b]
TextsKnown == Stored /\ Carried /\ Typed

LEMMA TextsGrow ==
    ASSUME Shape, Carried, Effect
    PROVE  /\ \A b \in Blocks : written[b] \subseteq written'[b]
           /\ Limit \in Nat /\ Limit' \in Nat /\ Limit <= Limit'
           /\ (\A b \in Blocks : \A t \in written[b] : t <= Limit) =>
                  (\A b \in Blocks : \A t \in written'[b] : t <= Limit')
<1>1. count.typed \in Nat /\ Limit \in Nat
    BY Bounds DEF Limit, Shape
<1> DEFINE Grow == /\ \A b \in Blocks : written[b] \subseteq written'[b]
                   /\ Limit' \in Nat /\ Limit <= Limit'
                   /\ (\A b \in Blocks : \A t \in written[b] : t <= Limit) =>
                          (\A b \in Blocks : \A t \in written'[b] : t <= Limit')
<1>2. ASSUME UNCHANGED written, UNCHANGED count PROVE Grow
    BY <1>1, <1>2 DEF Limit
<1>3. ASSUME NEW b \in Blocks, NEW text \in Texts, Types(b, text)
      PROVE  Grow
  <2>1. UNCHANGED written /\ Limit' \in Nat /\ Limit <= Limit'
      BY <1>1, <1>3, Bounds DEF Types, Limit
  <2>2. \A x \in Blocks : \A t \in written[x] : t \in Nat
      BY Bounds DEF Shape, Texts
  <2>3. QED
      BY <1>1, <2>1, <2>2
<1>4. ASSUME NEW b \in Blocks, Intrudes(b)
      PROVE  Grow
  <2>1. Limit' = Limit
      BY <1>4 DEF Intrudes, Limit
  <2>2. server'[b].text <= Limit
    <3>1. server'[b].text \in Int /\ server'[b].text <= MaxElse
        BY <1>4, Bounds DEF Intrudes, State, Texts
    <3>2. QED
        BY <1>1, <3>1, Bounds DEF Limit
  <2>3. \A x \in Blocks : written'[x] = IF x = b THEN written[b] \cup {server'[b].text} ELSE written[x]
      BY <1>4 DEF Intrudes
  <2>4. QED
      BY <1>1, <2>1, <2>2, <2>3
<1>5. ASSUME NEW c \in Commands, Joins(c)
      PROVE  Grow
    BY <1>1, <1>5 DEF Joins, Limit, historyVars
<1>6. ASSUME NEW i \in DOMAIN queue, NEW b \in Blocks, NEW e \in Edit, Saves(i, b, e)
      PROVE  Grow
  <2>1. Limit' = Limit /\ written' = [written EXCEPT ![b] = @ \cup {e.text}]
      BY <1>6 DEF Saves, Limit
  <2>2. e.text <= Limit
      BY <1>6 DEF Saves, Carried
  <2>3. \A x \in Blocks : written'[x] = IF x = b THEN written[b] \cup {e.text} ELSE written[x]
      BY <2>1 DEF Shape
  <2>4. QED
      BY <1>1, <2>1, <2>2, <2>3
<1>7. ASSUME NEW i \in DOMAIN queue, NEW f \in EditSets, Admits(i, f)
      PROVE  Grow
  <2>1. Limit' = Limit
      BY <1>7 DEF Admits, Limit
  <2>2. \A x \in DOMAIN f : written'[x] = written[x] \cup {queue[i].edits[x].text} /\ queue[i].edits[x].text <= Limit
      BY <1>7 DEF Admits, Carried
  <2>3. \A x \in Blocks \ DOMAIN f : written'[x] = written[x]
      BY <1>7 DEF Admits
  <2>4. QED
      BY <1>1, <2>1, <2>2, <2>3
<1> HIDE DEF Grow
<1>8. Grow
    BY <1>2, <1>3, <1>4, <1>5, <1>6, <1>7
       DEF Effect, vars, historyVars, Clears, Delivers, Pauses, Drops, Refuses, Idle, Sends, Learns, Acknowledges,
           Reshows, Asks, Installs
<1>9. QED
    BY <1>1, <1>8 DEF Grow

LEMMA CarriedStep ==
    ASSUME Shape, TextsKnown, Effect
    PROVE  Carried'
<1>1. /\ \A b \in Blocks : written[b] \subseteq written'[b]
      /\ Limit \in Nat /\ Limit' \in Nat /\ Limit <= Limit'
    BY TextsGrow DEF TextsKnown
<1>2. /\ DOMAIN queue = 1..Len(queue) /\ Len(queue) \in Nat
      /\ \A i \in DOMAIN queue : \A b \in DOMAIN queue[i].edits :
            b \in Blocks /\ queue[i].edits[b].text \in Nat
      /\ DOMAIN outbox = 1..Len(outbox) /\ Len(outbox) \in Nat
      /\ \A n \in DOMAIN outbox : outbox[n].block \in Blocks
    BY QueueShape, Bounds DEF Edit, Texts
<1>3. Carried
    BY DEF TextsKnown
<1>4. \A n \in DOMAIN outbox : outbox[n].edit.text \in written'[outbox[n].block]
    BY <1>1, <1>2, <1>3 DEF Carried
<1>5. \A i \in DOMAIN queue : \A b \in DOMAIN queue[i].edits :
          queue[i].edits[b].text <= Limit' /\ (Done(i) => queue[i].edits[b].text \in written'[b])
    BY <1>1, <1>2, <1>3 DEF Carried
<1> DEFINE OutboxHolds == \A n \in DOMAIN outbox' : outbox'[n].edit.text \in written'[outbox'[n].block]
           QueueHolds == \A i \in DOMAIN queue' : \A b \in DOMAIN queue'[i].edits :
                            /\ queue'[i].edits[b].text <= Limit'
                            /\ queue'[i].phase \in {"admitted", "applied"} => queue'[i].edits[b].text \in written'[b]
<1>6. Carried' <=> OutboxHolds /\ QueueHolds
    BY DEF Carried, Done
<1>7. UNCHANGED outbox => OutboxHolds
    BY <1>4
<1>8. UNCHANGED queue => QueueHolds
    BY <1>5 DEF Done
<1>9. ASSUME NEW i \in DOMAIN queue, Removed(i) PROVE QueueHolds
    BY <1>5, <1>9, RemovedFrom DEF Done
<1>10. ASSUME NEW i \in DOMAIN queue, NEW p, NEW f, Turned(i, p, f),
              \A b \in DOMAIN f : f[b].text <= Limit' /\ (p \in {"admitted", "applied"} => f[b].text \in written'[b])
       PROVE  QueueHolds
    BY <1>5, <1>10 DEF Turned, Done
<1>11. ASSUME Advances PROVE OutboxHolds
    BY <1>2, <1>4, <1>11 DEF Advances
<1> HIDE DEF OutboxHolds, QueueHolds
<1>12. ASSUME NEW c \in Commands, Joins(c) PROVE Carried'
  <2>1. \A b \in DOMAIN c.edits : b \in Blocks /\ c.edits[b].text <= Limit'
    <3>1. SUFFICES ASSUME NEW b \in DOMAIN c.edits PROVE b \in Blocks /\ c.edits[b].text <= Limit'
        OBVIOUS
    <3>2. b \in Blocks
        BY EditsOf DEF Commands
    <3>3. c.edits[b].text = IF HasDraft(b) THEN draft[b].text ELSE shown[b].text
        BY <1>12 DEF Joins, AsShown
    <3>4. draft[b].text \in Int /\ shown[b].text \in Int
        BY <3>2, Bounds DEF Shape, State, Texts
    <3>5. (HasDraft(b) => draft[b].text <= Limit) /\ shown[b].text <= Limit
        BY <3>2 DEF TextsKnown, Typed, Stored
    <3>6. QED
        BY <1>1, <3>2, <3>3, <3>4, <3>5
  <2>2. \A j \in DOMAIN queue' : j \in DOMAIN queue \/ j = Len(queue) + 1
      BY <1>2, <1>12 DEF Joins, Appended
  <2>3. QueueHolds
      BY <1>5, <1>12, <2>1, <2>2 DEF Joins, Appended, Done, QueueHolds
  <2>4. QED
      BY <1>6, <1>7, <1>12, <2>3 DEF Joins, storeVars
<1>13. ASSUME NEW i \in DOMAIN queue, NEW b \in Blocks, NEW e \in Edit, Saves(i, b, e) PROVE Carried'
  <2>1. e.text \in written'[b]
      BY <1>13 DEF Saves, Shape
  <2>2. e.text <= Limit'
      BY <1>5, <1>13 DEF Saves
  <2>3. PICK op : op = [block |-> b, edit |-> e]
      OBVIOUS
  <2>4. outbox' = Append(outbox, op) /\ op \in [block : Blocks, edit : Edit] /\ outbox \in Seq([block : Blocks, edit : Edit])
      BY <1>13, <2>3 DEF Saves, Shape
  <2>5. op.block = b /\ op.edit = e
      BY <2>3
  <2>6. /\ DOMAIN outbox' = 1..Len(outbox) + 1 /\ outbox'[Len(outbox) + 1] = op
        /\ \A n \in 1..Len(outbox) : outbox'[n] = outbox[n]
      BY <2>4, SeqAppend, SeqElements
  <2>7. \A n \in DOMAIN outbox' : n \in DOMAIN outbox \/ n = Len(outbox) + 1
      BY <1>2, <2>6
  <2>8. OutboxHolds
      BY <1>2, <1>4, <2>1, <2>5, <2>6, <2>7 DEF OutboxHolds
  <2>9. PICK f : f = queue'[i].edits
      OBVIOUS
  <2>10. Turned(i, "applied", f) /\ DOMAIN f = {b} /\ f[b] = e
      BY <1>13, <2>9 DEF Saves, Turned
  <2>11. QueueHolds
      BY <1>10, <2>1, <2>2, <2>10
  <2>12. QED
      BY <1>6, <2>8, <2>11
<1>14. ASSUME NEW i \in DOMAIN queue, Refuses(i) PROVE Carried'
  <2>1. QueueHolds
      BY <1>5, <1>10, <1>14 DEF Refuses
  <2>2. QED
      BY <1>6, <1>7, <1>14, <2>1 DEF Refuses, Idle, storeVars
<1>15. ASSUME NEW i \in DOMAIN queue, NEW f \in EditSets, Sends(i, f) PROVE Carried'
  <2>1. DOMAIN f = DOMAIN queue[i].edits /\ \A b \in DOMAIN f : queue[i].edits[b] \in Edit
      BY <1>15, QueueShape DEF Sends
  <2>2. \A b \in DOMAIN f : f[b].text = queue[i].edits[b].text
    <3>1. \A b \in DOMAIN f : f[b] = AfterOwnWrites(b, queue[i].edits[b])
        BY <1>15 DEF Sends
    <3>2. \A b \in Blocks, e \in Edit : AfterOwnWrites(b, e).text = e.text
        BY DEF AfterOwnWrites, Edit
    <3>3. QED
        BY <1>2, <2>1, <3>1, <3>2
  <2>3. QueueHolds
      BY <1>5, <1>10, <1>15, <2>1, <2>2 DEF Sends
  <2>4. QED
      BY <1>6, <1>7, <1>15, <2>3 DEF Sends, Idle, storeVars
<1>16. ASSUME NEW i \in DOMAIN queue, NEW f \in EditSets, Admits(i, f) PROVE Carried'
  <2>1. \A b \in DOMAIN f : f[b].text <= Limit' /\ f[b].text \in written'[b]
      BY <1>5, <1>16 DEF Admits
  <2>2. QueueHolds
      BY <1>10, <1>16, <2>1 DEF Admits
  <2>3. QED
      BY <1>6, <1>7, <1>16, <2>2 DEF Admits
<1>17. ASSUME NEW i \in DOMAIN queue, Learns(i) PROVE Carried'
  <2>1. QueueHolds
      BY <1>5, <1>10, <1>17 DEF Learns, Done
  <2>2. QED
      BY <1>6, <1>7, <1>17, <2>1 DEF Learns
<1>18. QED
    BY <1>6, <1>7, <1>8, <1>9, <1>11, <1>12, <1>13, <1>14, <1>15, <1>16, <1>17
       DEF Effect, vars, storeVars, Types, Clears, Intrudes, Delivers, Pauses, Drops, Idle, Acknowledges,
           Reshows, Asks, Installs

LEMMA StoredStep ==
    ASSUME Shape, TextsKnown, Effect
    PROVE  Stored'
<1>1. \A b \in Blocks : written[b] \subseteq written'[b]
    BY TextsGrow DEF TextsKnown
<1>2. \A b \in Blocks : /\ server[b].text \in written'[b] /\ local[b].text \in written'[b]
                        /\ shown[b].text \in written'[b] /\ accepted[b].text \in written'[b]
                        /\ reading # NoRead => reading.texts[b].text \in written'[b]
    BY <1>1 DEF TextsKnown, Stored
<1>3. \A i \in DOMAIN queue : Done(i) => \A b \in DOMAIN queue[i].edits :
          b \in Blocks /\ queue[i].edits[b] \in Edit /\ queue[i].edits[b].text \in written'[b]
    BY <1>1, QueueShape DEF TextsKnown, Carried
<1>4. CASE UNCHANGED <<server, local, shown, accepted, reading>>
    BY <1>2, <1>4 DEF Stored
<1>5. reading' = Overtaken => \A b \in Blocks : reading' # NoRead => reading'.texts[b].text \in written'[b]
    BY <1>2, Overtakes
<1>6. ASSUME NEW b \in Blocks, Intrudes(b) PROVE Stored'
    BY <1>2, <1>6 DEF Intrudes, Stored, viewVars
<1>7. ASSUME NEW b \in Blocks, NEW e \in Edit, Delivers(b, e) PROVE Stored'
  <2>1. e.text \in written'[b]
      BY <1>1, <1>7, QueueShape DEF Delivers, Advances, TextsKnown, Carried
  <2>2. server'[b].text = e.text
      BY <1>7 DEF Delivers, Edited
  <2>3. QED
      BY <1>2, <1>5, <1>7, <2>1, <2>2 DEF Delivers, Stored, viewVars
<1>8. ASSUME NEW i \in DOMAIN queue, NEW b \in Blocks, NEW e \in Edit, Saves(i, b, e) PROVE Stored'
  <2>1. e.text \in written'[b]
      BY <1>8 DEF Saves, Shape
  <2>2. local'[b].text = e.text /\ \A x \in Blocks \ {b} : local'[x] = local[x]
      BY <1>8 DEF Saves, Edited, Shape
  <2>3. QED
      BY <1>2, <1>5, <1>8, <2>1, <2>2 DEF Saves, Stored, viewVars
<1>9. ASSUME NEW i \in DOMAIN queue, NEW f \in EditSets, Admits(i, f) PROVE Stored'
  <2>1. \A b \in DOMAIN f : /\ server'[b] = Edited(server[b], queue[i].edits[b].text)
                            /\ queue[i].edits[b].text \in written'[b]
      BY <1>9 DEF Admits
  <2>2. \A state, text : Edited(state, text).text = text
      BY DEF Edited
  <2>3. \A b \in DOMAIN f : server'[b].text \in written'[b]
      BY <2>1, <2>2
  <2>4. QED
      BY <1>2, <1>9, <2>3 DEF Admits, Stored, viewVars
<1>10. ASSUME NEW i \in DOMAIN queue, Learns(i) PROVE Stored'
  <2>1. \A b \in Blocks : local'[b].text \in written'[b]
      BY <1>2, <1>3, <1>10 DEF Learns, On, Done
  <2>2. QED
      BY <1>2, <1>5, <1>10, <2>1 DEF Learns, Stored, viewVars
<1>11. ASSUME NEW i \in DOMAIN queue, Acknowledges(i) PROVE Stored'
  <2>1. \A b \in Blocks : shown'[b].text \in written'[b] /\ accepted'[b].text \in written'[b]
      BY <1>2, <1>3, <1>11 DEF Acknowledges, On, Done, Saved
  <2>2. QED
      BY <1>2, <1>11, <2>1 DEF Acknowledges, Stored, storeVars
<1>12. CASE Reshows
    BY <1>2, <1>12 DEF Reshows, Shows, Stored, storeVars
<1>13. CASE Asks
    BY <1>2, <1>13 DEF Asks, Stored, storeVars, viewVars
<1>14. CASE Installs
  <2>1. \A b \in Blocks : local'[b].text \in written'[b]
      BY <1>2, <1>14 DEF Installs
  <2>2. \A b \in Blocks : shown'[b].text \in written'[b] /\ accepted'[b].text \in written'[b]
      BY <1>2, <1>14, <2>1 DEF Installs, Shows
  <2>3. QED
      BY <1>2, <1>14, <2>1, <2>2 DEF Installs, Stored
<1>15. QED
    BY <1>4, <1>6, <1>7, <1>8, <1>9, <1>10, <1>11, <1>12, <1>13, <1>14
       DEF Effect, vars, storeVars, viewVars, Types, Clears, Pauses, Joins, Drops, Refuses, Sends, Idle

-----------------------------------------------------------------------------
(* Typing is never lost: TextKept *)

LEMMA DraftsMove ==
    ASSUME Shape, Effect, NEW b \in Blocks,
           ~(\E text \in Texts : Types(b, text)), ~Clears(b)
    PROVE  /\ last'[b] = last[b] /\ (b \in retyped' <=> b \in retyped)
           /\ HasDraft(b)' => HasDraft(b) /\ draft'[b].text = draft[b].text
           /\ HasDraft(b) /\ ~HasDraft(b)' =>
                \E i \in DOMAIN queue : /\ Acknowledges(i) /\ On(i, b)
                                        /\ queue[i].edits[b].text = draft[b].text
<1> DEFINE Same == /\ last'[b] = last[b] /\ (b \in retyped' <=> b \in retyped)
                   /\ HasDraft(b)' <=> HasDraft(b)
                   /\ draft'[b].text = draft[b].text
<1>1. ASSUME UNCHANGED <<draft, last, retyped>> PROVE Same
    BY <1>1 DEF HasDraft
<1>2. ASSUME NEW x \in Blocks, NEW text \in Texts, Types(x, text) PROVE Same
  <2>1. x # b
      BY <1>2
  <2>2. QED
      BY <1>2, <2>1 DEF Types, Shape
<1>3. ASSUME NEW x \in Blocks, Clears(x) PROVE Same
  <2>1. x # b
      BY <1>3
  <2>2. QED
      BY <1>3, <2>1 DEF Clears, Shape, HasDraft
<1>4. ASSUME NEW c \in Commands, Joins(c) PROVE Same
    BY <1>4 DEF Joins, historyVars
<1>5. ASSUME NEW i \in DOMAIN queue, Acknowledges(i)
      PROVE  /\ last'[b] = last[b] /\ (b \in retyped' <=> b \in retyped)
             /\ HasDraft(b)' => HasDraft(b) /\ draft'[b].text = draft[b].text
             /\ HasDraft(b) /\ ~HasDraft(b)' => On(i, b) /\ queue[i].edits[b].text = draft[b].text
  <2>1. last' = last /\ retyped' = retyped
      BY <1>5 DEF Acknowledges, historyVars
  <2>2. CASE On(i, b)
    <3>1. draft'[b] = Settled(b, queue[i].edits[b]) /\ queue[i].edits[b] \in Edit
        BY <1>5, <2>2, QueueShape DEF Acknowledges, On
    <3>2. QED
        BY <2>1, <2>2, <3>1, SettledDraft DEF HasDraft
  <2>3. CASE ~On(i, b)
    <3>1. draft'[b] = draft[b]
        BY <1>5, <2>3 DEF Acknowledges
    <3>2. QED
        BY <2>1, <3>1 DEF HasDraft
  <2>4. QED
      BY <2>2, <2>3
<1> HIDE DEF Same
<1>6. ASSUME NEW i \in DOMAIN queue,
             \/ Drops(i) \/ Refuses(i) \/ Learns(i)
             \/ \E x \in Blocks, e \in Edit : Saves(i, x, e)
             \/ \E f \in EditSets : Sends(i, f) \/ Admits(i, f)
      PROVE  UNCHANGED <<draft, last, retyped>>
    BY <1>6 DEF historyVars, Drops, Refuses, Idle, Saves, Sends, Admits, Learns
<1>7. ASSUME \/ UNCHANGED vars \/ Reshows \/ Asks \/ Installs
             \/ \E x \in Blocks : Intrudes(x) \/ Pauses(x) \/ \E e \in Edit : Delivers(x, e)
      PROVE  UNCHANGED <<draft, last, retyped>>
    BY <1>7 DEF vars, historyVars, Intrudes, Delivers, Pauses, Reshows, Asks, Installs
<1>8. Same \/ \E i \in DOMAIN queue : Acknowledges(i)
    BY <1>1, <1>2, <1>3, <1>4, <1>6, <1>7 DEF Effect
<1>9. QED
    BY <1>5, <1>8 DEF Same

LEMMA TypedStep ==
    ASSUME Shape, TextsKnown, Effect
    PROVE  Typed'
<1>1. /\ \A b \in Blocks : \A t \in written'[b] : t <= Limit'
      /\ Limit \in Nat /\ Limit' \in Nat /\ Limit <= Limit'
    BY TextsGrow DEF TextsKnown, Typed
<1>2. ASSUME NEW b \in Blocks
      PROVE  /\ last'[b] <= Limit'
             /\ HasDraft(b)' => draft'[b].text = last'[b]
  <2>1. ASSUME NEW text \in Texts, Types(b, text)
        PROVE  /\ last'[b] <= Limit'
               /\ HasDraft(b)' => draft'[b].text = last'[b]
    <3>1. last'[b] = text /\ draft'[b].text = text
        BY <2>1 DEF Types, Shape
    <3>2. text <= Limit'
      <4>1. CASE text = MaxElse + count'.typed
          BY <1>1, <4>1 DEF Limit
      <4>2. CASE text = shown[b].text
        <5>1. text <= Limit /\ text \in Int
            BY <4>2, Bounds DEF TextsKnown, Stored, Typed, Texts
        <5>2. QED
            BY <1>1, <5>1
      <4>3. QED
          BY <2>1, <4>1, <4>2 DEF Types
    <3>3. QED
        BY <3>1, <3>2
  <2>2. CASE Clears(b)
    <3>1. ~HasDraft(b)' /\ last'[b] \in {GivenUp, last[b]}
        BY <2>2 DEF Clears, HasDraft, Shape
    <3>2. last[b] \in Int /\ last[b] <= Limit /\ GivenUp = -1
        BY Bounds DEF TextsKnown, Typed, Shape, Texts, GivenUp
    <3>3. QED
        BY <1>1, <3>1, <3>2
  <2>3. CASE ~(\E text \in Texts : Types(b, text)) /\ ~Clears(b)
    <3>1. last'[b] = last[b] /\ (HasDraft(b)' => HasDraft(b) /\ draft'[b].text = draft[b].text)
        BY <2>3, DraftsMove
    <3>2. last[b] \in Int /\ last[b] <= Limit
        BY Bounds DEF TextsKnown, Typed, Shape, Texts, GivenUp
    <3>3. QED
        BY <1>1, <3>1, <3>2 DEF TextsKnown, Typed
  <2>4. QED
      BY <2>1, <2>2, <2>3
<1>3. QED
    BY <1>1, <1>2 DEF Typed

LEMMA KeptStep ==
    ASSUME Shape, TextsKnown, TextKept, Effect
    PROVE  TextKept'
<1>1. \A b \in Blocks : written[b] \subseteq written'[b]
    BY TextsGrow DEF TextsKnown
<1>2. ASSUME NEW b \in Blocks
      PROVE  (HasDraft(b)' /\ draft'[b].text = last'[b]) \/ last'[b] \in written'[b] \cup {GivenUp}
  <2>1. ASSUME NEW text \in Texts, Types(b, text) PROVE HasDraft(b)' /\ draft'[b].text = last'[b]
      BY <2>1 DEF Types, Shape
  <2>2. CASE Clears(b)
    <3>1. CASE last' = [last EXCEPT ![b] = GivenUp]
        BY <3>1 DEF Shape
    <3>2. CASE draft[b].text = shown[b].text /\ UNCHANGED last
      <4>1. HasDraft(b) /\ draft[b].text = last[b] /\ shown[b].text \in written[b]
          BY <2>2 DEF Clears, TextsKnown, Typed, Stored
      <4>2. QED
          BY <1>1, <3>2, <4>1
    <3>3. QED
        BY <2>2, <3>1, <3>2 DEF Clears
  <2>3. CASE ~(\E text \in Texts : Types(b, text)) /\ ~Clears(b)
    <3>1. CASE HasDraft(b) /\ draft[b].text = last[b] /\ ~HasDraft(b)'
      <4>1. PICK i \in DOMAIN queue : Acknowledges(i) /\ On(i, b) /\ queue[i].edits[b].text = draft[b].text
          BY <2>3, <3>1, DraftsMove
      <4>2. queue[i].edits[b].text \in written[b]
          BY <4>1 DEF TextsKnown, Carried, Acknowledges, Done, On
      <4>3. QED
          BY <1>1, <2>3, <3>1, <4>1, <4>2, DraftsMove
    <3>2. CASE ~(HasDraft(b) /\ draft[b].text = last[b] /\ ~HasDraft(b)')
        BY <1>1, <2>3, <3>2, DraftsMove DEF TextKept
    <3>3. QED
        BY <3>1, <3>2
  <2>4. QED
      BY <2>1, <2>2, <2>3
<1>3. QED
    BY <1>2 DEF TextKept

-----------------------------------------------------------------------------
(* What a command writes over *)

\* A version of b that a command of this controller replaced.
Made(e, u) == e.version = u /\ e.saved = u + 1
OwnWrite(b, u) ==
    \/ <<b, u>> \in own
    \/ \E i \in DOMAIN queue : On(i, b) /\ Done(i) /\ Made(queue[i].edits[b], u)

\* An edit moved on over those only.
Moved(b, e) == \A u \in Nat : e.base <= u /\ u < e.version => OwnWrite(b, u)
Stepped ==
    /\ \A n \in DOMAIN outbox : Moved(outbox[n].block, outbox[n].edit)
    /\ \A i \in DOMAIN queue : \A b \in DOMAIN queue[i].edits : Moved(b, queue[i].edits[b])

LEMMA OwnWriteKept ==
    ASSUME Shape, Effect, NEW b \in Blocks, NEW u \in Nat, OwnWrite(b, u)
    PROVE  OwnWrite(b, u)'
<1> DEFINE In(i) == On(i, b) /\ Done(i) /\ Made(queue[i].edits[b], u)
           Out(j) == /\ b \in DOMAIN queue'[j].edits /\ queue'[j].phase \in {"admitted", "applied"}
                     /\ Made(queue'[j].edits[b], u)
<1>1. OwnWrite(b, u) <=> <<b, u>> \in own \/ \E i \in DOMAIN queue : In(i)
    BY DEF OwnWrite
<1>2. OwnWrite(b, u)' <=> <<b, u>> \in own' \/ \E j \in DOMAIN queue' : Out(j)
    BY DEF OwnWrite, On, Done, Made
<1>3. \A i \in DOMAIN queue, j \in DOMAIN queue' : queue'[j] = queue[i] /\ In(i) => Out(j)
    BY DEF On, Done
<1>4. \A i : In(i) => queue[i].phase \in {"admitted", "applied"}
    BY DEF Done
<1>5. \A i : In(i) => Made(queue[i].edits[b], u) /\ On(i, b)
    OBVIOUS
<1>6. DOMAIN queue = 1..Len(queue) /\ Len(queue) \in Nat
    BY QueueShape
<1> HIDE DEF In, Out
<1>7. CASE UNCHANGED <<own, queue>>
    BY <1>1, <1>2, <1>3, <1>7
<1>8. ASSUME NEW c \in Commands, Joins(c) PROVE OwnWrite(b, u)'
    BY <1>1, <1>2, <1>3, <1>6, <1>8 DEF Joins, Appended, viewVars
<1>9. ASSUME NEW i \in DOMAIN queue, Drops(i) PROVE OwnWrite(b, u)'
  <2>1. ~In(i) /\ own' = own
      BY <1>4, <1>9 DEF Drops, Idle, viewVars
  <2>2. QED
      BY <1>1, <1>2, <1>3, <1>9, <2>1, RemovedFrom DEF Drops
<1>10. ASSUME NEW i \in DOMAIN queue, Acknowledges(i) PROVE OwnWrite(b, u)'
  <2>1. (<<b, u>> \in own => <<b, u>> \in own') /\ (In(i) => <<b, u>> \in own')
      BY <1>5, <1>10 DEF Acknowledges, Made
  <2>2. QED
      BY <1>1, <1>2, <1>3, <1>10, <2>1, RemovedFrom DEF Acknowledges
<1>11. ASSUME NEW i \in DOMAIN queue, NEW p, NEW f, Turned(i, p, f), ~In(i), UNCHANGED own PROVE OwnWrite(b, u)'
    BY <1>1, <1>2, <1>3, <1>11 DEF Turned
<1>12. ASSUME NEW i \in DOMAIN queue, Learns(i) PROVE OwnWrite(b, u)'
  <2>1. i \in DOMAIN queue' /\ queue'[i].phase = "applied" /\ queue'[i].edits = queue[i].edits /\ UNCHANGED own
      BY <1>12 DEF Learns, Turned, viewVars
  <2>2. In(i) => Out(i)
      BY <1>5, <2>1 DEF Out, On
  <2>3. QED
      BY <1>1, <1>2, <1>3, <1>12, <2>1, <2>2 DEF Learns, Turned
<1>13. ASSUME NEW i \in DOMAIN queue, Refuses(i) PROVE OwnWrite(b, u)'
    BY <1>4, <1>11, <1>13 DEF Refuses, Blamed, Idle, viewVars
<1>14. ASSUME NEW i \in DOMAIN queue, NEW x \in Blocks, NEW e \in Edit, Saves(i, x, e) PROVE OwnWrite(b, u)'
  <2>1. ~In(i) /\ UNCHANGED own
      BY <1>4, <1>14 DEF Saves, viewVars
  <2>2. PICK f : f = [queue[i].edits EXCEPT ![x] = e]
      OBVIOUS
  <2>3. Turned(i, "applied", f)
      BY <1>14, <2>2 DEF Saves
  <2>4. QED
      BY <1>11, <2>1, <2>3
<1>15. ASSUME NEW i \in DOMAIN queue, NEW f \in EditSets, Sends(i, f) \/ Admits(i, f) PROVE OwnWrite(b, u)'
    BY <1>4, <1>11, <1>15 DEF Sends, Admits, Idle, viewVars
<1>16. QED
    BY <1>7, <1>8, <1>9, <1>10, <1>12, <1>13, <1>14, <1>15
       DEF Effect, vars, viewVars, Types, Clears, Intrudes, Delivers, Pauses, Reshows, Asks, Installs

LEMMA OwnWriteNew ==
    ASSUME Shape, Effect, NEW b \in Blocks, NEW u \in Nat, OwnWrite(b, u)'
    PROVE  \/ OwnWrite(b, u)
           \/ \E i \in DOMAIN queue, e \in Edit : Saves(i, b, e) /\ Made(e, u)
           \/ \E i \in DOMAIN queue, f \in EditSets : Admits(i, f) /\ b \in DOMAIN f /\ Made(f[b], u)
<1> DEFINE In(i) == On(i, b) /\ Done(i) /\ Made(queue[i].edits[b], u)
           Out(j) == /\ b \in DOMAIN queue'[j].edits /\ queue'[j].phase \in {"admitted", "applied"}
                     /\ Made(queue'[j].edits[b], u)
<1>1. OwnWrite(b, u) <=> <<b, u>> \in own \/ \E i \in DOMAIN queue : In(i)
    BY DEF OwnWrite
<1>2. <<b, u>> \in own' \/ \E j \in DOMAIN queue' : Out(j)
    BY DEF OwnWrite, On, Done, Made
<1>3. \A i \in DOMAIN queue, j \in DOMAIN queue' : queue'[j] = queue[i] /\ Out(j) => In(i)
    BY DEF On, Done
<1>4. \A j : Out(j) => queue'[j].phase \in {"admitted", "applied"} /\ b \in DOMAIN queue'[j].edits /\ Made(queue'[j].edits[b], u)
    OBVIOUS
<1>5. \A i : On(i, b) /\ Done(i) /\ Made(queue[i].edits[b], u) => In(i)
    OBVIOUS
<1>6. DOMAIN queue = 1..Len(queue) /\ Len(queue) \in Nat
    BY QueueShape
<1> HIDE DEF In, Out
<1>7. CASE UNCHANGED <<own, queue>>
    BY <1>1, <1>2, <1>3, <1>7
<1>8. ASSUME NEW c \in Commands, Joins(c) PROVE OwnWrite(b, u)
  <2>1. \A j \in DOMAIN queue' : j \in DOMAIN queue \/ j = Len(queue) + 1
      BY <1>6, <1>8 DEF Joins, Appended
  <2>2. ~Out(Len(queue) + 1)
      BY <1>4, <1>8 DEF Joins, Appended
  <2>3. own' = own /\ \A j \in DOMAIN queue : queue'[j] = queue[j]
      BY <1>8 DEF Joins, Appended, viewVars
  <2>4. QED
      BY <1>1, <1>2, <1>3, <2>1, <2>2, <2>3
<1>9. ASSUME NEW i \in DOMAIN queue, Drops(i) PROVE OwnWrite(b, u)
  <2>1. own' = own /\ Removed(i)
      BY <1>9 DEF Drops, Idle, viewVars
  <2>2. QED
      BY <1>1, <1>2, <1>3, <2>1, RemovedFrom
<1>10. ASSUME NEW i \in DOMAIN queue, Acknowledges(i) PROVE OwnWrite(b, u)
  <2>1. <<b, u>> \in own' => <<b, u>> \in own \/ In(i)
      BY <1>5, <1>10 DEF Acknowledges, Made, Done
  <2>2. Removed(i)
      BY <1>10 DEF Acknowledges
  <2>3. QED
      BY <1>1, <1>2, <1>3, <2>1, <2>2, RemovedFrom
<1>11. ASSUME NEW i \in DOMAIN queue, NEW p, NEW f, Turned(i, p, f), UNCHANGED own PROVE OwnWrite(b, u) \/ Out(i)
    BY <1>1, <1>2, <1>3, <1>11 DEF Turned
<1>12. ASSUME NEW i \in DOMAIN queue, Learns(i) PROVE OwnWrite(b, u)
  <2>1. queue'[i].edits = queue[i].edits /\ UNCHANGED own /\ Turned(i, "applied", queue[i].edits) /\ Done(i)
      BY <1>12 DEF Learns, Turned, viewVars, Done
  <2>2. Out(i) => In(i)
      BY <1>4, <1>5, <2>1 DEF On
  <2>3. QED
      BY <1>1, <1>11, <2>1, <2>2
<1>13. ASSUME NEW i \in DOMAIN queue, NEW p, NEW f, Turned(i, p, f), UNCHANGED own, p \in {"sent", "refused"} PROVE OwnWrite(b, u)
    BY <1>4, <1>11, <1>13 DEF Turned
<1>14. ASSUME NEW i \in DOMAIN queue, NEW x \in Blocks, NEW e \in Edit, Saves(i, x, e)
       PROVE  OwnWrite(b, u) \/ (x = b /\ Made(e, u))
  <2>1. PICK f : f = [queue[i].edits EXCEPT ![x] = e]
      OBVIOUS
  <2>2. Turned(i, "applied", f) /\ UNCHANGED own /\ DOMAIN queue'[i].edits = {x} /\ queue'[i].edits[x] = e
      BY <1>14, <2>1 DEF Saves, viewVars
  <2>3. Out(i) => x = b /\ Made(e, u)
      BY <1>4, <2>2
  <2>4. QED
      BY <1>11, <2>2, <2>3
<1>15. ASSUME NEW i \in DOMAIN queue, NEW f \in EditSets, Admits(i, f)
       PROVE  OwnWrite(b, u) \/ (b \in DOMAIN f /\ Made(f[b], u))
  <2>1. Turned(i, "admitted", f) /\ UNCHANGED own /\ queue'[i].edits = f
      BY <1>15 DEF Admits, viewVars, Turned
  <2>2. QED
      BY <1>4, <1>11, <2>1
<1>16. ASSUME NEW i \in DOMAIN queue, Refuses(i) PROVE OwnWrite(b, u)
    BY <1>13, <1>16 DEF Refuses, Idle, viewVars
<1>17. ASSUME NEW i \in DOMAIN queue, NEW f \in EditSets, Sends(i, f) PROVE OwnWrite(b, u)
    BY <1>13, <1>17 DEF Sends, Idle, viewVars
<1>18. UNCHANGED <<own, queue>> \/ ~(\/ UNCHANGED vars \/ Reshows \/ Asks \/ Installs
             \/ \E x \in Blocks : Intrudes(x) \/ Pauses(x) \/ Clears(x) \/ (\E e \in Edit : Delivers(x, e)) \/ \E t \in Texts : Types(x, t))
    BY DEF vars, viewVars, Types, Clears, Intrudes, Delivers, Pauses, Reshows, Asks, Installs
<1>19. QED
    BY <1>7, <1>8, <1>9, <1>10, <1>12, <1>14, <1>15, <1>16, <1>17, <1>18 DEF Effect

LEMMA OutboxAppended ==
    ASSUME Shape, NEW i \in DOMAIN queue, NEW b \in Blocks, NEW e \in Edit, Saves(i, b, e)
    PROVE  /\ Len(outbox) + 1 \in DOMAIN outbox'
           /\ \A n \in DOMAIN outbox' : n \in DOMAIN outbox \/ n = Len(outbox) + 1
           /\ \A n \in DOMAIN outbox : n \in DOMAIN outbox' /\ outbox'[n] = outbox[n] /\ n < Len(outbox) + 1
           /\ outbox'[Len(outbox) + 1].block = b /\ outbox'[Len(outbox) + 1].edit = e
<1>1. PICK op : op = [block |-> b, edit |-> e]
    OBVIOUS
<1>2. outbox' = Append(outbox, op) /\ op \in [block : Blocks, edit : Edit] /\ outbox \in Seq([block : Blocks, edit : Edit])
    BY <1>1 DEF Saves, Shape
<1>3. op.block = b /\ op.edit = e
    BY <1>1
<1>4. /\ DOMAIN outbox' = 1..Len(outbox) + 1 /\ outbox'[Len(outbox) + 1] = op
      /\ \A n \in 1..Len(outbox) : outbox'[n] = outbox[n]
    BY <1>2, SeqAppend, SeqElements
<1>5. DOMAIN outbox = 1..Len(outbox) /\ Len(outbox) \in Nat
    BY QueueShape
<1>6. QED
    BY <1>3, <1>4, <1>5

\* The same, of the next state.
OwnWriteNext(b, u) ==
    \/ <<b, u>> \in own'
    \/ \E i \in DOMAIN queue' :
          b \in DOMAIN queue'[i].edits /\ queue'[i].phase \in {"admitted", "applied"} /\ Made(queue'[i].edits[b], u)
MovedNext(b, e) == \A u \in Nat : e.base <= u /\ u < e.version => OwnWriteNext(b, u)

LEMMA NextPrimed ==
    /\ \A b \in Blocks, u \in Nat : OwnWrite(b, u)' <=> OwnWriteNext(b, u)
    /\ Stepped' <=> /\ \A n \in DOMAIN outbox' : MovedNext(outbox'[n].block, outbox'[n].edit)
                    /\ \A i \in DOMAIN queue' : \A b \in DOMAIN queue'[i].edits : MovedNext(b, queue'[i].edits[b])
<1>1. \A b \in Blocks, u \in Nat : OwnWrite(b, u)' <=> OwnWriteNext(b, u)
    BY DEF OwnWrite, OwnWriteNext, On, Done, Made
<1>2. Stepped' <=> /\ \A n \in DOMAIN outbox' : MovedNext(outbox'[n].block, outbox'[n].edit)
                   /\ \A i \in DOMAIN queue' : \A b \in DOMAIN queue'[i].edits : MovedNext(b, queue'[i].edits[b])
    BY DEF Stepped, Moved, MovedNext, OwnWrite, OwnWriteNext, On, Done, Made
<1>3. QED
    BY <1>1, <1>2

LEMMA MovedStill ==
    ASSUME Shape, OwnPast, Effect, NEW b \in Blocks, NEW e \in Edit, Moved(b, e), NEW f \in Edit,
           f.base = e.base, f.version \in {e.version, AfterOwnWrites(b, e).version}
    PROVE  MovedNext(b, f)
<1>1. SUFFICES ASSUME NEW u \in Nat, f.base <= u, u < f.version PROVE OwnWriteNext(b, u)
    BY DEF MovedNext
<1>2. e.version \in Nat /\ e.base \in Nat /\ f.version \in Nat
    BY DEF Edit
<1>3. OwnWrite(b, u)
  <2>1. CASE u < e.version
      BY <1>1, <2>1 DEF Moved
  <2>2. CASE ~(u < e.version)
    <3>1. e.version <= u /\ u < AfterOwnWrites(b, e).version
        BY <1>1, <1>2, <2>2
    <3>2. <<b, u>> \in own
        BY <3>1, MovedOn
    <3>3. QED
        BY <3>2 DEF OwnWrite
  <2>3. QED
      BY <2>1, <2>2
<1>4. QED
    BY <1>3, OwnWriteKept, NextPrimed

LEMMA SteppedStep ==
    ASSUME Shape, OwnPast, Stepped, Effect
    PROVE  Stepped'
<1> DEFINE OutboxHolds == \A n \in DOMAIN outbox' : MovedNext(outbox'[n].block, outbox'[n].edit)
           QueueHolds == \A i \in DOMAIN queue' : \A b \in DOMAIN queue'[i].edits : MovedNext(b, queue'[i].edits[b])
<1>1. /\ DOMAIN queue = 1..Len(queue) /\ Len(queue) \in Nat
      /\ \A i \in DOMAIN queue : \A b \in DOMAIN queue[i].edits : b \in Blocks /\ queue[i].edits[b] \in Edit
      /\ \A n \in DOMAIN outbox : outbox[n].block \in Blocks /\ outbox[n].edit \in Edit
      /\ DOMAIN outbox = 1..Len(outbox) /\ Len(outbox) \in Nat
    BY QueueShape
<1>2. Stepped' <=> OutboxHolds /\ QueueHolds
    BY NextPrimed
<1>3. \A n \in DOMAIN outbox : MovedNext(outbox[n].block, outbox[n].edit)
    BY <1>1, MovedStill DEF Stepped
<1>4. \A i \in DOMAIN queue : \A b \in DOMAIN queue[i].edits : MovedNext(b, queue[i].edits[b])
    BY <1>1, MovedStill DEF Stepped
<1>5. ASSUME NEW i \in DOMAIN queue, NEW b \in DOMAIN queue[i].edits, NEW f \in Edit,
             f.base = queue[i].edits[b].base,
             f.version \in {queue[i].edits[b].version, AfterOwnWrites(b, queue[i].edits[b]).version}
      PROVE  MovedNext(b, f)
    BY <1>1, <1>5, MovedStill DEF Stepped
<1>6. UNCHANGED outbox => OutboxHolds
    BY <1>3
<1>7. UNCHANGED queue => QueueHolds
    BY <1>4
<1>8. ASSUME NEW i \in DOMAIN queue, Removed(i) PROVE QueueHolds
    BY <1>4, <1>8, RemovedFrom
<1>9. ASSUME NEW i \in DOMAIN queue, NEW p, NEW f, Turned(i, p, f),
             \A b \in DOMAIN f : MovedNext(b, f[b])
      PROVE  QueueHolds
    BY <1>4, <1>9 DEF Turned
<1>10. ASSUME Advances PROVE OutboxHolds
    BY <1>1, <1>3, <1>10 DEF Advances
<1> HIDE DEF OutboxHolds, QueueHolds
<1>11. ASSUME NEW c \in Commands, Joins(c) PROVE Stepped'
  <2>1. \A b \in DOMAIN c.edits : MovedNext(b, c.edits[b])
    <3>1. SUFFICES ASSUME NEW b \in DOMAIN c.edits PROVE MovedNext(b, c.edits[b])
        OBVIOUS
    <3>2. c.edits[b] \in Edit
        BY EditsOf DEF Commands
    <3>3. c.edits[b].base = c.edits[b].version
        BY <1>11 DEF Joins, AsShown
    <3>4. QED
        BY <3>2, <3>3 DEF MovedNext, Edit
  <2>2. \A j \in DOMAIN queue' : j \in DOMAIN queue \/ j = Len(queue) + 1
      BY <1>1, <1>11 DEF Joins, Appended
  <2>3. QueueHolds
      BY <1>4, <1>11, <2>1, <2>2 DEF Joins, Appended, QueueHolds
  <2>4. QED
      BY <1>2, <1>6, <1>11, <2>3 DEF Joins, storeVars
<1>12. ASSUME NEW i \in DOMAIN queue, NEW b \in Blocks, NEW e \in Edit, Saves(i, b, e) PROVE Stepped'
  <2>1. MovedNext(b, e)
      BY <1>5, <1>12 DEF Saves
  <2>2. OutboxHolds
      BY <1>3, <1>12, <2>1, OutboxAppended DEF OutboxHolds
  <2>3. PICK f : f = queue'[i].edits
      OBVIOUS
  <2>4. Turned(i, "applied", f) /\ DOMAIN f = {b} /\ f[b] = e
      BY <1>12, <2>3 DEF Saves, Turned
  <2>5. QueueHolds
      BY <1>9, <2>1, <2>4
  <2>6. QED
      BY <1>2, <2>2, <2>5
<1>13. ASSUME NEW i \in DOMAIN queue, Refuses(i) PROVE Stepped'
    BY <1>2, <1>4, <1>6, <1>9, <1>13 DEF Refuses, Idle, storeVars
<1>14. ASSUME NEW i \in DOMAIN queue, NEW f \in EditSets, Sends(i, f) PROVE Stepped'
  <2>1. ASSUME NEW b \in DOMAIN f PROVE MovedNext(b, f[b])
    <3>1. b \in DOMAIN queue[i].edits /\ f[b] = AfterOwnWrites(b, queue[i].edits[b])
        BY <1>14 DEF Sends
    <3>2. b \in Blocks /\ queue[i].edits[b] \in Edit
        BY <1>1, <3>1
    <3>3. f[b] \in Edit /\ f[b].base = queue[i].edits[b].base
        BY <3>1, <3>2, MovedOn
    <3>4. f[b].version = AfterOwnWrites(b, queue[i].edits[b]).version
        BY <3>1
    <3>5. QED
        BY <1>5, <3>1, <3>3, <3>4
  <2>2. QueueHolds
      BY <1>9, <1>14, <2>1 DEF Sends
  <2>3. QED
      BY <1>2, <1>6, <1>14, <2>2 DEF Sends, Idle, storeVars
<1>15. ASSUME NEW i \in DOMAIN queue, NEW f \in EditSets, Admits(i, f) PROVE Stepped'
  <2>1. \A b \in DOMAIN f : MovedNext(b, f[b])
      BY <1>5, <1>15 DEF Admits
  <2>2. QueueHolds
      BY <1>9, <1>15, <2>1 DEF Admits
  <2>3. QED
      BY <1>2, <1>6, <1>15, <2>2 DEF Admits
<1>16. ASSUME NEW i \in DOMAIN queue, Learns(i) PROVE Stepped'
    BY <1>2, <1>4, <1>6, <1>9, <1>16 DEF Learns
<1>17. ASSUME NEW i \in DOMAIN queue, Acknowledges(i) \/ Drops(i) PROVE Stepped'
    BY <1>2, <1>6, <1>8, <1>17 DEF Acknowledges, Drops, Idle, storeVars
<1>18. ASSUME \/ UNCHANGED vars \/ Reshows \/ Asks \/ Installs
              \/ \E b \in Blocks : \/ Intrudes(b) \/ Pauses(b) \/ Clears(b)
                                   \/ \E e \in Edit : Delivers(b, e)
                                   \/ \E t \in Texts : Types(b, t)
       PROVE  Stepped'
  <2>1. UNCHANGED queue /\ (UNCHANGED outbox \/ Advances)
      BY <1>18 DEF vars, storeVars, Types, Clears, Intrudes, Delivers, Pauses, Reshows, Asks, Installs
  <2>2. QED
      BY <1>2, <1>6, <1>7, <1>10, <2>1
<1>19. QED
    BY <1>11, <1>12, <1>13, <1>14, <1>15, <1>16, <1>17, <1>18 DEF Effect

-----------------------------------------------------------------------------
(* One block at the server, in the outbox and in the replica *)

\* The operations of the block in the outbox, and a text in the server's past.
Mine(n, b) == outbox[n].block = b
Waits(b)   == \E n \in DOMAIN outbox : Mine(n, b)
Clean(b)   == b \notin paused /\ ~Waits(b)
Past(state, b)     == state.version <= server[b].version /\ (state.version = server[b].version => state = server[b])
PastNext(state, b) == state.version <= server'[b].version /\ (state.version = server'[b].version => state = server'[b])

\* The operations of b in the outbox stay, their places perhaps moved up by one.
StaySame(b) ==
    \E d \in {0, 1} :
        /\ \A n \in DOMAIN outbox' : outbox'[n].block = b => n + d \in DOMAIN outbox /\ outbox'[n] = outbox[n + d]
        /\ \A n \in DOMAIN outbox : Mine(n, b) => n - d \in DOMAIN outbox' /\ outbox'[n - d] = outbox[n]

LEMMA AdvancesPast ==
    ASSUME Shape, Advances, NEW b \in Blocks, outbox[1].block # b
    PROVE  StaySame(b)
<1>1. DOMAIN outbox = 1..Len(outbox) /\ Len(outbox) \in Nat
    BY QueueShape
<1>2. /\ DOMAIN outbox' = 1..(Len(outbox) - 1)
      /\ \A n \in DOMAIN outbox' : outbox'[n] = outbox[n + 1]
    BY DEF Advances
<1>3. \A n \in DOMAIN outbox' : n + 1 \in DOMAIN outbox /\ outbox'[n] = outbox[n + 1]
    BY <1>1, <1>2
<1>4. ASSUME NEW n \in DOMAIN outbox, Mine(n, b) PROVE n - 1 \in DOMAIN outbox' /\ outbox'[n - 1] = outbox[n]
  <2>1. n # 1
      BY <1>4 DEF Mine
  <2>2. n - 1 \in DOMAIN outbox' /\ (n - 1) + 1 = n
      BY <1>1, <1>2, <2>1
  <2>3. QED
      BY <1>2, <2>2
<1>5. QED
    BY <1>3, <1>4 DEF StaySame

LEMMA AppendedPast ==
    ASSUME Shape, NEW i \in DOMAIN queue, NEW x \in Blocks, NEW e \in Edit, Saves(i, x, e), NEW b \in Blocks, x # b
    PROVE  StaySame(b)
<1>1. DOMAIN outbox = 1..Len(outbox) /\ Len(outbox) \in Nat
    BY QueueShape
<1>2. \A n \in DOMAIN outbox : n \in DOMAIN outbox' /\ outbox'[n] = outbox[n] /\ n - 0 = n
    BY <1>1, OutboxAppended
<1>3. ASSUME NEW n \in DOMAIN outbox', outbox'[n].block = b PROVE n + 0 \in DOMAIN outbox /\ outbox'[n] = outbox[n + 0]
  <2>1. n \in DOMAIN outbox
      BY <1>3, OutboxAppended
  <2>2. n + 0 = n
      BY <1>1, <2>1
  <2>3. QED
      BY <1>2, <2>1, <2>2
<1>4. \A n \in DOMAIN outbox : n - 0 \in DOMAIN outbox' /\ outbox'[n - 0] = outbox[n]
    BY <1>2
<1>5. QED
    BY <1>3, <1>4 DEF StaySame

LEMMA NothingSent ==
    ASSUME Shape, UNCHANGED outbox
    PROVE  \A b \in Blocks : StaySame(b)
<1>1. DOMAIN outbox = 1..Len(outbox) /\ Len(outbox) \in Nat
    BY QueueShape
<1>2. \A n \in DOMAIN outbox : n - 0 = n /\ n + 0 = n
    BY <1>1
<1>3. \A b \in Blocks, n \in DOMAIN outbox' : n + 0 \in DOMAIN outbox /\ outbox'[n] = outbox[n + 0]
    BY <1>2
<1>4. \A n \in DOMAIN outbox : n - 0 \in DOMAIN outbox' /\ outbox'[n - 0] = outbox[n]
    BY <1>2
<1>5. QED
    BY <1>3, <1>4 DEF StaySame

\* What a step does to one block, in the outbox and at the server ...
LEMMA StoreMoves ==
    ASSUME Shape, Effect, NEW b \in Blocks
    PROVE  \/ /\ StaySame(b) /\ (b \in paused' <=> b \in paused)
              /\ \/ server'[b] = server[b] /\ others'[b] = others[b]
                 \/ Intrudes(b)
                 \/ \E i \in DOMAIN queue, f \in EditSets : Admits(i, f) /\ b \in DOMAIN f
           \/ \E i \in DOMAIN queue, e \in Edit : Saves(i, b, e)
           \/ \E e \in Edit : Delivers(b, e)
           \/ Pauses(b)
<1> DEFINE Still == StaySame(b) /\ (b \in paused' <=> b \in paused) /\ server'[b] = server[b] /\ others'[b] = others[b]
<1>1. ASSUME UNCHANGED <<server, outbox, paused, others>> PROVE Still
    BY <1>1, NothingSent
<1>2. ASSUME NEW x \in Blocks, Intrudes(x)
      PROVE  Still \/ (StaySame(b) /\ (b \in paused' <=> b \in paused) /\ Intrudes(b))
    BY <1>2, NothingSent DEF Intrudes
<1>3. ASSUME NEW i \in DOMAIN queue, NEW f \in EditSets, Admits(i, f)
      PROVE  Still \/ (StaySame(b) /\ (b \in paused' <=> b \in paused) /\ b \in DOMAIN f)
    BY <1>3, NothingSent DEF Admits
<1>4. ASSUME NEW i \in DOMAIN queue, NEW x \in Blocks, NEW e \in Edit, Saves(i, x, e) PROVE Still \/ x = b
    BY <1>4, AppendedPast DEF Saves
<1>5. ASSUME NEW x \in Blocks, NEW e \in Edit, Delivers(x, e) PROVE Still \/ x = b
    BY <1>5, AdvancesPast DEF Delivers
<1>6. ASSUME NEW x \in Blocks, Pauses(x) PROVE Still \/ x = b
    BY <1>6, AdvancesPast DEF Pauses, historyVars
<1>7. ASSUME NEW i \in DOMAIN queue,
             Drops(i) \/ Refuses(i) \/ Learns(i) \/ Acknowledges(i) \/ \E f \in EditSets : Sends(i, f)
      PROVE  UNCHANGED <<server, outbox, paused, others>>
    BY <1>7 DEF Drops, Refuses, Idle, Sends, Learns, Acknowledges, storeVars, historyVars
<1>8. ASSUME \/ UNCHANGED vars \/ Reshows \/ Asks \/ Installs \/ \E c \in Commands : Joins(c)
             \/ \E x \in Blocks : Clears(x) \/ \E t \in Texts : Types(x, t)
      PROVE  UNCHANGED <<server, outbox, paused, others>>
    BY <1>8 DEF vars, storeVars, historyVars, Types, Clears, Joins, Reshows, Asks, Installs
<1> HIDE DEF Still
<1>9. \/ Still
      \/ /\ StaySame(b) /\ (b \in paused' <=> b \in paused)
         /\ Intrudes(b) \/ \E i \in DOMAIN queue, f \in EditSets : Admits(i, f) /\ b \in DOMAIN f
      \/ \E i \in DOMAIN queue, e \in Edit : Saves(i, b, e)
      \/ \E e \in Edit : Delivers(b, e)
      \/ Pauses(b)
    BY <1>1, <1>2, <1>3, <1>4, <1>5, <1>6, <1>7, <1>8 DEF Effect
<1>10. QED
    BY <1>9 DEF Still

\* ... and in the replica.
LEMMA LocalMoves ==
    ASSUME Shape, Effect, NEW b \in Blocks
    PROVE  \/ local'[b] = local[b]
           \/ \E i \in DOMAIN queue, e \in Edit : Saves(i, b, e)
           \/ \E i \in DOMAIN queue : Learns(i) /\ On(i, b)
           \/ /\ Installs /\ ~reading.stale /\ ~Pending(b)
              /\ local[b].version <= reading.texts[b].version /\ local'[b] = reading.texts[b]
<1>1. ASSUME UNCHANGED local PROVE local'[b] = local[b]
    BY <1>1
<1>2. ASSUME NEW i \in DOMAIN queue, NEW x \in Blocks, NEW e \in Edit, Saves(i, x, e) PROVE local'[b] = local[b] \/ x = b
    BY <1>2 DEF Saves, Shape
<1>3. ASSUME NEW i \in DOMAIN queue, Learns(i) PROVE local'[b] = local[b] \/ On(i, b)
    BY <1>3 DEF Learns
<1>4. CASE Installs
  <2>1. reading \in [texts : [Blocks -> State], stale : BOOLEAN]
      BY <1>4 DEF Installs, Shape
  <2>2. reading.texts[b].version \in Nat /\ local[b].version \in Nat
      BY <2>1 DEF Shape, State
  <2>3. local'[b] = IF reading.stale \/ Pending(b) \/ local[b].version > reading.texts[b].version
                    THEN local[b] ELSE reading.texts[b]
      BY <1>4 DEF Installs
  <2>4. QED
      BY <1>4, <2>2, <2>3
<1>5. ASSUME NEW i \in DOMAIN queue,
             Drops(i) \/ Refuses(i) \/ Acknowledges(i) \/ \E f \in EditSets : Sends(i, f) \/ Admits(i, f)
      PROVE  UNCHANGED local
    BY <1>5 DEF Drops, Refuses, Idle, Sends, Admits, Acknowledges, storeVars
<1>6. ASSUME \/ UNCHANGED vars \/ Reshows \/ Asks \/ \E c \in Commands : Joins(c)
             \/ \E x \in Blocks : \/ Clears(x) \/ Intrudes(x) \/ Pauses(x)
                                  \/ \E t \in Texts : Types(x, t)
                                  \/ \E e \in Edit : Delivers(x, e)
      PROVE  UNCHANGED local
    BY <1>6 DEF vars, storeVars, Types, Clears, Intrudes, Pauses, Delivers, Joins, Reshows, Asks
<1>7. QED
    BY <1>1, <1>2, <1>3, <1>4, <1>5, <1>6 DEF Effect

LEMMA PastGrows ==
    ASSUME Shape, Effect, NEW b \in Blocks
    PROVE  /\ server'[b] = server[b] \/ server[b].version < server'[b].version
           /\ server[b].version \in Nat /\ server'[b].version \in Nat
           /\ \A state \in State : Past(state, b) => PastNext(state, b)
<1>1. server[b] \in State /\ server[b].version \in Nat /\ server'[b].version \in Nat
    BY ShapeStep DEF Shape, State
<1>2. server'[b] = server[b] \/ server[b].version < server'[b].version
  <2>1. CASE server'[b] = server[b]
      BY <2>1
  <2>2. CASE Intrudes(b)
      BY <1>1, <2>2 DEF Intrudes
  <2>3. ASSUME NEW i \in DOMAIN queue, NEW f \in EditSets, Admits(i, f), b \in DOMAIN f
        PROVE  server'[b] = server[b] \/ server[b].version < server'[b].version
    <3>1. server'[b] = Edited(server[b], queue[i].edits[b].text) /\ queue[i].edits[b].text \in Texts
        BY <2>3, QueueShape DEF Admits, Edit
    <3>2. QED
        BY <1>1, <3>1, EditedState
  <2>4. ASSUME NEW e \in Edit, Delivers(b, e)
        PROVE  server'[b] = server[b] \/ server[b].version < server'[b].version
    <3>1. server'[b] = Edited(server[b], e.text) /\ e.text \in Texts
        BY <2>4 DEF Delivers, Edit
    <3>2. QED
        BY <1>1, <3>1, EditedState
  <2>5. ASSUME \/ Pauses(b) \/ \E i \in DOMAIN queue, e \in Edit : Saves(i, b, e)
        PROVE  server'[b] = server[b]
      BY <2>5 DEF Pauses, Saves
  <2>6. QED
      BY <2>1, <2>2, <2>3, <2>4, <2>5, StoreMoves
<1>3. ASSUME NEW state \in State, Past(state, b) PROVE PastNext(state, b)
  <2>1. state.version \in Nat
      BY DEF State
  <2>2. QED
      BY <1>1, <1>2, <1>3, <2>1 DEF Past, PastNext
<1>4. QED
    BY <1>1, <1>2, <1>3

\* What was read, what a run wrote and what another device wrote are in the server's past.
ReadPast(b)   == reading # NoRead => Past(reading.texts[b], b)
AdmitPast(b)  == \A i \in DOMAIN queue : On(i, b) /\ queue[i].phase = "admitted" =>
                    Clean(b) /\ Past(Saved(queue[i].edits[b]), b)
OthersPast(b) == \A v \in others[b] : v <= server[b].version

LEMMA CleanKept ==
    ASSUME Shape, Effect, NEW b \in Blocks
    PROVE  /\ Clean(b)' => Clean(b) \/ \E e \in Edit : Delivers(b, e)
           /\ Clean(b) => Clean(b)' \/ \E i \in DOMAIN queue, e \in Edit : Saves(i, b, e)
<1>1. CASE StaySame(b) /\ (b \in paused' <=> b \in paused)
  <2>1. (\E n \in DOMAIN outbox' : outbox'[n].block = b) <=> \E n \in DOMAIN outbox : outbox[n].block = b
      BY <1>1 DEF StaySame, Mine
  <2>2. QED
      BY <1>1, <2>1 DEF Clean, Waits, Mine
<1>2. ASSUME NEW i \in DOMAIN queue, NEW e \in Edit, Saves(i, b, e) PROVE ~Clean(b)'
    BY <1>2, OutboxAppended DEF Clean, Waits, Mine
<1>3. ASSUME NEW e \in Edit, Delivers(b, e) PROVE ~Clean(b)
    BY <1>3 DEF Delivers, Advances, Clean, Waits, Mine
<1>4. CASE Pauses(b)
    BY <1>4 DEF Pauses, Advances, Clean, Waits, Mine
<1>5. QED
    BY <1>1, <1>2, <1>3, <1>4, StoreMoves

\* A command past its turn has its lanes to itself.
LEMMA Alike ==
    ASSUME Shape, Laned, NEW i \in DOMAIN queue, NEW j \in DOMAIN queue, NEW b, On(i, b), On(j, b),
           queue[i].phase # "waiting" \/ First(i), queue[j].phase # "waiting" \/ First(j)
    PROVE  i = j
<1>1. First(i) /\ First(j)
    BY DEF Laned
<1>2. DOMAIN queue = 1..Len(queue) /\ Len(queue) \in Nat
    BY QueueShape
<1>3. i < j => FALSE
  <2>1. SUFFICES ASSUME i < j PROVE FALSE
      OBVIOUS
  <2>2. i \in 1..(j - 1)
      BY <1>2, <2>1
  <2>3. QED
      BY <1>1, <2>2 DEF First, On
<1>4. j < i => FALSE
  <2>1. SUFFICES ASSUME j < i PROVE FALSE
      OBVIOUS
  <2>2. j \in 1..(i - 1)
      BY <1>2, <2>1
  <2>3. QED
      BY <1>1, <2>2 DEF First, On
<1>5. QED
    BY <1>2, <1>3, <1>4

LEMMA ReadingMoves ==
    ASSUME Effect
    PROVE  UNCHANGED reading \/ reading' = Overtaken \/ Asks \/ Installs
<1>1. ASSUME NEW i \in DOMAIN queue,
             \/ Drops(i) \/ Refuses(i) \/ Learns(i) \/ Acknowledges(i)
             \/ \E f \in EditSets : Sends(i, f) \/ Admits(i, f)
             \/ \E b \in Blocks, e \in Edit : Saves(i, b, e)
      PROVE  UNCHANGED reading \/ reading' = Overtaken
    BY <1>1 DEF Drops, Refuses, Idle, Saves, Sends, Admits, Learns, Acknowledges
<1>2. ASSUME \/ UNCHANGED vars \/ Reshows \/ \E c \in Commands : Joins(c)
             \/ \E x \in Blocks : \/ Clears(x) \/ Intrudes(x) \/ Pauses(x)
                                  \/ \E t \in Texts : Types(x, t)
                                  \/ \E e \in Edit : Delivers(x, e)
      PROVE  UNCHANGED reading \/ reading' = Overtaken
    BY <1>2 DEF vars, Types, Clears, Intrudes, Pauses, Delivers, Joins, Reshows
<1>3. QED
    BY <1>1, <1>2 DEF Effect

LEMMA ReadPastStep ==
    ASSUME Shape, Effect, NEW b \in Blocks, ReadPast(b)
    PROVE  ReadPast(b)'
<1>1. ReadPast(b)' <=> (reading' # NoRead => PastNext(reading'.texts[b], b))
    BY DEF ReadPast, Past, PastNext
<1>2. reading # NoRead => PastNext(reading.texts[b], b)
  <2>1. SUFFICES ASSUME reading # NoRead PROVE PastNext(reading.texts[b], b)
      OBVIOUS
  <2>2. reading.texts[b] \in State
      BY <2>1 DEF Shape
  <2>3. QED
      BY <2>1, <2>2, PastGrows DEF ReadPast
<1>3. CASE UNCHANGED reading
    BY <1>1, <1>2, <1>3
<1>4. CASE reading' = Overtaken
    BY <1>1, <1>2, <1>4, Overtakes
<1>5. CASE reading' = NoRead
    BY <1>1, <1>5
<1>6. CASE Asks
  <2>1. reading'.texts[b] = server'[b] /\ server'[b].version \in Nat
      BY <1>6, PastGrows DEF Asks, storeVars
  <2>2. QED
      BY <1>1, <2>1 DEF PastNext
<1>7. QED
    BY <1>3, <1>4, <1>5, <1>6, ReadingMoves DEF Installs

LEMMA OthersPastStep ==
    ASSUME Shape, Effect, NEW b \in Blocks, OthersPast(b)
    PROVE  OthersPast(b)'
<1>1. server[b].version \in Nat /\ server'[b].version \in Nat /\ server[b].version <= server'[b].version
    BY PastGrows
<1>2. \A v \in others[b] : v \in Nat
    BY DEF Shape
<1>3. CASE others'[b] = others[b]
    BY <1>1, <1>2, <1>3 DEF OthersPast
<1>4. CASE Intrudes(b)
    BY <1>1, <1>2, <1>4 DEF OthersPast, Intrudes
<1>5. others'[b] = others[b] \/ Intrudes(b)
    BY StoreMoves DEF Saves, Delivers, Pauses, Admits, historyVars
<1>6. QED
    BY <1>3, <1>4, <1>5

LEMMA AdmitPastStep ==
    ASSUME Shape, Laned, Effect, NEW b \in Blocks, AdmitPast(b)
    PROVE  AdmitPast(b)'
<1> DEFINE Told(j) == Clean(b)' /\ PastNext(Saved(queue'[j].edits[b]), b)
<1>1. AdmitPast(b)' <=> \A j \in DOMAIN queue' : b \in DOMAIN queue'[j].edits /\ queue'[j].phase = "admitted" => Told(j)
    BY DEF AdmitPast, On, Saved, Past, PastNext
<1>2. ASSUME NEW i \in DOMAIN queue, On(i, b), queue[i].phase = "admitted"
      PROVE  Clean(b)' /\ PastNext(Saved(queue[i].edits[b]), b)
  <2>1. Clean(b) /\ Past(Saved(queue[i].edits[b]), b)
      BY <1>2 DEF AdmitPast
  <2>2. queue[i].edits[b] \in Edit
      BY <1>2, QueueShape DEF On
  <2>3. Saved(queue[i].edits[b]) \in State
      BY <2>2 DEF Saved, Edit, State
  <2>4. ASSUME NEW j \in DOMAIN queue, NEW e \in Edit, Saves(j, b, e) PROVE FALSE
    <3>1. On(j, b) /\ First(j) /\ queue[j].phase = "waiting"
        BY <2>4 DEF Saves, On
    <3>2. i = j
        BY <1>2, <3>1, Alike
    <3>3. QED
        BY <1>2, <3>1, <3>2
  <2>5. Clean(b)'
      BY <2>1, <2>4, CleanKept
  <2>6. QED
      BY <2>1, <2>3, <2>5, PastGrows
<1>3. \A i \in DOMAIN queue, j \in DOMAIN queue' :
          queue'[j] = queue[i] /\ b \in DOMAIN queue'[j].edits /\ queue'[j].phase = "admitted" => Told(j)
    BY <1>2 DEF On
<1> HIDE DEF Told
<1>4. CASE UNCHANGED queue
    BY <1>1, <1>3, <1>4
<1>5. ASSUME NEW c \in Commands, Joins(c) PROVE AdmitPast(b)'
  <2>1. DOMAIN queue = 1..Len(queue) /\ Len(queue) \in Nat
      BY QueueShape
  <2>2. \A j \in DOMAIN queue' : j \in DOMAIN queue \/ j = Len(queue) + 1
      BY <2>1, <1>5 DEF Joins, Appended
  <2>3. QED
      BY <1>1, <1>3, <1>5, <2>2 DEF Joins, Appended
<1>6. ASSUME NEW i \in DOMAIN queue, Removed(i) PROVE AdmitPast(b)'
    BY <1>1, <1>3, <1>6, RemovedFrom
<1>7. ASSUME NEW i \in DOMAIN queue, NEW p, NEW f, Turned(i, p, f), p = "admitted" /\ b \in DOMAIN f => Told(i)
      PROVE  AdmitPast(b)'
    BY <1>1, <1>3, <1>7 DEF Turned
<1>8. ASSUME NEW i \in DOMAIN queue, NEW f \in EditSets, Admits(i, f) PROVE AdmitPast(b)'
  <2>1. Turned(i, "admitted", f) /\ queue'[i].edits = f
      BY <1>8 DEF Admits, Turned
  <2>2. ASSUME b \in DOMAIN f PROVE Told(i)
    <3>1. /\ \A n \in DOMAIN outbox : outbox[n].block # b
          /\ b \notin paused /\ UNCHANGED <<outbox, paused>>
          /\ f[b].text = queue[i].edits[b].text /\ f[b].saved = server'[b].version
          /\ server'[b] = Edited(server[b], queue[i].edits[b].text)
        BY <1>8, <2>2 DEF Admits
    <3>2. Clean(b)'
        BY <3>1 DEF Clean, Waits, Mine
    <3>3. server'[b].text = f[b].text /\ server'[b] \in State
      <4>1. server'[b] \in State
          BY ShapeStep DEF Shape
      <4>2. QED
          BY <3>1, <4>1 DEF Edited
    <3>4. Saved(f[b]) = server'[b]
        BY <3>1, <3>3 DEF Saved, State
    <3>5. PastNext(Saved(f[b]), b)
        BY <3>4, PastGrows DEF PastNext
    <3>6. QED
        BY <2>1, <3>2, <3>5 DEF Told
  <2>3. QED
      BY <1>7, <2>1, <2>2
<1>9. ASSUME NEW i \in DOMAIN queue, NEW x \in Blocks, NEW e \in Edit, Saves(i, x, e) PROVE AdmitPast(b)'
  <2>1. PICK f : f = [queue[i].edits EXCEPT ![x] = e]
      OBVIOUS
  <2>2. Turned(i, "applied", f)
      BY <1>9, <2>1 DEF Saves
  <2>3. QED
      BY <1>7, <2>2
<1>10. ASSUME NEW i \in DOMAIN queue, Refuses(i) \/ Learns(i) \/ \E f \in EditSets : Sends(i, f) PROVE AdmitPast(b)'
    BY <1>7, <1>10 DEF Refuses, Learns, Sends
<1>11. ASSUME NEW i \in DOMAIN queue, Drops(i) \/ Acknowledges(i) PROVE AdmitPast(b)'
    BY <1>6, <1>11 DEF Drops, Acknowledges
<1>12. ASSUME \/ UNCHANGED vars \/ Reshows \/ Asks \/ Installs
              \/ \E x \in Blocks : \/ Clears(x) \/ Intrudes(x) \/ Pauses(x)
                                   \/ \E t \in Texts : Types(x, t)
                                   \/ \E e \in Edit : Delivers(x, e)
       PROVE  UNCHANGED queue
    BY <1>12 DEF vars, Types, Clears, Intrudes, Pauses, Delivers, Reshows, Asks, Installs
<1>13. QED
    BY <1>4, <1>5, <1>8, <1>9, <1>10, <1>11, <1>12 DEF Effect

-----------------------------------------------------------------------------
(* The edits of a block on their way *)

\* The first and the last of them, and two that follow each other.
FirstOf(n, b)    == Mine(n, b) /\ \A k \in DOMAIN outbox : k < n => ~Mine(k, b)
LastOf(n, b)     == Mine(n, b) /\ \A k \in DOMAIN outbox : n < k => ~Mine(k, b)
Follows(n, m, b) == n < m /\ Mine(n, b) /\ Mine(m, b) /\ \A k \in DOMAIN outbox : n < k /\ k < m => ~Mine(k, b)

\* The edits of a block in the outbox lead, one from the other, from the server's past to the replica's text.
Ordered(b) == \A n, m \in DOMAIN outbox : n < m /\ Mine(n, b) /\ Mine(m, b) =>
                 outbox[n].edit.saved <= outbox[m].edit.version
Within(b)  == \A n \in DOMAIN outbox : Mine(n, b) =>
                 outbox[n].edit.version <= outbox[n].edit.saved /\ outbox[n].edit.saved <= local[b].version
Linked(b)  == \A n, m \in DOMAIN outbox : Follows(n, m, b) =>
                 /\ outbox[m].edit.version = outbox[n].edit.saved
                 /\ outbox[m].edit.saved = Edited(Saved(outbox[n].edit), outbox[m].edit.text).version
Headed(b)  == \A n \in DOMAIN outbox : FirstOf(n, b) =>
                 /\ outbox[n].edit.version <= server[b].version
                 /\ outbox[n].edit.version = server[b].version =>
                       outbox[n].edit.saved = Edited(server[b], outbox[n].edit.text).version
Tailed(b)  == \A n \in DOMAIN outbox : LastOf(n, b) => local[b] = Saved(outbox[n].edit)
Chain(b)   == b \notin paused => Ordered(b) /\ Within(b) /\ Linked(b) /\ Headed(b) /\ Tailed(b)
Level(b)   == Clean(b) => Past(local[b], b)

LEMMA Primed ==
    ASSUME NEW b \in Blocks
    PROVE  /\ \A n : /\ Mine(n, b)' <=> outbox'[n].block = b
                     /\ FirstOf(n, b)' <=> outbox'[n].block = b /\ \A k \in DOMAIN outbox' : k < n => outbox'[k].block # b
                     /\ LastOf(n, b)' <=> outbox'[n].block = b /\ \A k \in DOMAIN outbox' : n < k => outbox'[k].block # b
           /\ \A n, m : Follows(n, m, b)' <=>
                 /\ n < m /\ outbox'[n].block = b /\ outbox'[m].block = b
                 /\ \A k \in DOMAIN outbox' : n < k /\ k < m => outbox'[k].block # b
BY DEF Mine, FirstOf, LastOf, Follows

LEMMA ShiftSame ==
    ASSUME Shape, Shape', NEW b \in Blocks, StaySame(b)
    PROVE  \E d \in {0, 1} :
              /\ \A n \in DOMAIN outbox' : Mine(n, b)' => n + d \in DOMAIN outbox /\ outbox'[n] = outbox[n + d] /\ Mine(n + d, b)
              /\ \A n \in DOMAIN outbox' : FirstOf(n, b)' => FirstOf(n + d, b)
              /\ \A n \in DOMAIN outbox' : LastOf(n, b)' => LastOf(n + d, b)
              /\ \A n, m \in DOMAIN outbox' : Follows(n, m, b)' => Follows(n + d, m + d, b)
<1>1. \A n \in DOMAIN outbox : n \in Nat
    BY QueueShape
<1>2. \A n \in DOMAIN outbox' : n \in Nat
  <2>1. outbox' \in Seq([block : Blocks, edit : Edit])
      BY DEF Shape
  <2>2. QED
      BY <2>1, SeqElements
<1>3. PICK d \in {0, 1} :
        /\ \A n \in DOMAIN outbox' : outbox'[n].block = b => n + d \in DOMAIN outbox /\ outbox'[n] = outbox[n + d]
        /\ \A n \in DOMAIN outbox : Mine(n, b) => n - d \in DOMAIN outbox' /\ outbox'[n - d] = outbox[n]
    BY DEF StaySame
<1>4. \A n \in DOMAIN outbox' : outbox'[n].block = b => n + d \in DOMAIN outbox /\ outbox'[n] = outbox[n + d] /\ Mine(n + d, b)
    BY <1>3 DEF Mine
<1>5. \A k \in DOMAIN outbox : Mine(k, b) => k - d \in DOMAIN outbox' /\ outbox'[k - d].block = b
    BY <1>3 DEF Mine
<1>6. ASSUME NEW n \in DOMAIN outbox', FirstOf(n, b)' PROVE FirstOf(n + d, b)
  <2>1. outbox'[n].block = b /\ \A k \in DOMAIN outbox' : k < n => outbox'[k].block # b
      BY <1>6, Primed
  <2>2. ASSUME NEW k \in DOMAIN outbox, k < n + d, Mine(k, b) PROVE FALSE
    <3>1. k - d \in DOMAIN outbox' /\ outbox'[k - d].block = b
        BY <1>5, <2>2
    <3>2. k - d < n
        BY <1>1, <1>2, <2>2
    <3>3. QED
        BY <2>1, <3>1, <3>2
  <2>3. QED
      BY <1>4, <2>1, <2>2 DEF FirstOf
<1>7. ASSUME NEW n \in DOMAIN outbox', LastOf(n, b)' PROVE LastOf(n + d, b)
  <2>1. outbox'[n].block = b /\ \A k \in DOMAIN outbox' : n < k => outbox'[k].block # b
      BY <1>7, Primed
  <2>2. ASSUME NEW k \in DOMAIN outbox, n + d < k, Mine(k, b) PROVE FALSE
    <3>1. k - d \in DOMAIN outbox' /\ outbox'[k - d].block = b
        BY <1>5, <2>2
    <3>2. n < k - d
        BY <1>1, <1>2, <2>2
    <3>3. QED
        BY <2>1, <3>1, <3>2
  <2>3. QED
      BY <1>4, <2>1, <2>2 DEF LastOf
<1>8. ASSUME NEW n \in DOMAIN outbox', NEW m \in DOMAIN outbox', Follows(n, m, b)' PROVE Follows(n + d, m + d, b)
  <2>1. /\ n < m /\ outbox'[n].block = b /\ outbox'[m].block = b
        /\ \A k \in DOMAIN outbox' : n < k /\ k < m => outbox'[k].block # b
      BY <1>8, Primed
  <2>2. ASSUME NEW k \in DOMAIN outbox, n + d < k, k < m + d, Mine(k, b) PROVE FALSE
    <3>1. k - d \in DOMAIN outbox' /\ outbox'[k - d].block = b
        BY <1>5, <2>2
    <3>2. n < k - d /\ k - d < m
        BY <1>1, <1>2, <2>2
    <3>3. QED
        BY <2>1, <3>1, <3>2
  <2>3. n + d < m + d
      BY <1>2, <2>1
  <2>4. QED
      BY <1>4, <2>1, <2>2, <2>3 DEF Follows
<1>9. QED
    BY <1>4, <1>6, <1>7, <1>8, Primed

LEMMA ShiftFirst ==
    ASSUME Shape, NEW b \in Blocks, Advances, outbox[1].block = b
    PROVE  /\ 1 \in DOMAIN outbox /\ FirstOf(1, b)
           /\ \A n \in DOMAIN outbox' : n + 1 \in DOMAIN outbox /\ outbox'[n] = outbox[n + 1] /\ 1 < n + 1
           /\ \A n \in DOMAIN outbox' : Mine(n, b)' => Mine(n + 1, b)
           /\ \A n \in DOMAIN outbox' : FirstOf(n, b)' => Follows(1, n + 1, b)
           /\ \A n \in DOMAIN outbox' : LastOf(n, b)' => LastOf(n + 1, b)
           /\ \A n, m \in DOMAIN outbox' : Follows(n, m, b)' => Follows(n + 1, m + 1, b)
           /\ (\A n \in DOMAIN outbox' : ~Mine(n, b)') => LastOf(1, b)
<1>1. DOMAIN outbox = 1..Len(outbox) /\ Len(outbox) \in Nat
    BY QueueShape
<1>2. 1 \in DOMAIN outbox /\ DOMAIN outbox' = 1..(Len(outbox) - 1) /\ \A n \in DOMAIN outbox' : outbox'[n] = outbox[n + 1]
    BY DEF Advances
<1>3. \A n \in DOMAIN outbox' : n \in Nat /\ n + 1 \in DOMAIN outbox /\ outbox'[n] = outbox[n + 1] /\ 1 < n + 1
    BY <1>1, <1>2
<1>4. \A k \in DOMAIN outbox : k # 1 => k - 1 \in DOMAIN outbox' /\ outbox'[k - 1] = outbox[k] /\ 1 < k /\ k \in Nat
  <2>1. SUFFICES ASSUME NEW k \in DOMAIN outbox, k # 1
                 PROVE  k - 1 \in DOMAIN outbox' /\ outbox'[k - 1] = outbox[k] /\ 1 < k /\ k \in Nat
      OBVIOUS
  <2>2. k - 1 \in DOMAIN outbox' /\ (k - 1) + 1 = k /\ 1 < k /\ k \in Nat
      BY <1>1, <1>2, <2>1
  <2>3. QED
      BY <1>2, <2>2
<1>5. Mine(1, b) /\ FirstOf(1, b)
    BY <1>1 DEF FirstOf, Mine
<1>6. \A n \in DOMAIN outbox' : outbox'[n].block = b => Mine(n + 1, b)
    BY <1>3 DEF Mine
<1>7. ASSUME NEW n \in DOMAIN outbox', FirstOf(n, b)' PROVE Follows(1, n + 1, b)
  <2>1. outbox'[n].block = b /\ \A k \in DOMAIN outbox' : k < n => outbox'[k].block # b
      BY <1>7, Primed
  <2>2. ASSUME NEW k \in DOMAIN outbox, 1 < k, k < n + 1, Mine(k, b) PROVE FALSE
    <3>1. k - 1 \in DOMAIN outbox' /\ outbox'[k - 1] = outbox[k] /\ k - 1 < n
        BY <1>3, <1>4, <2>2
    <3>2. QED
        BY <2>1, <2>2, <3>1 DEF Mine
  <2>3. QED
      BY <1>3, <1>5, <1>6, <2>1, <2>2 DEF Follows
<1>8. ASSUME NEW n \in DOMAIN outbox', LastOf(n, b)' PROVE LastOf(n + 1, b)
  <2>1. outbox'[n].block = b /\ \A k \in DOMAIN outbox' : n < k => outbox'[k].block # b
      BY <1>8, Primed
  <2>2. ASSUME NEW k \in DOMAIN outbox, n + 1 < k, Mine(k, b) PROVE FALSE
    <3>1. k # 1
        BY <1>3, <2>2
    <3>2. k - 1 \in DOMAIN outbox' /\ outbox'[k - 1] = outbox[k] /\ n < k - 1
        BY <1>3, <1>4, <2>2, <3>1
    <3>3. QED
        BY <2>1, <2>2, <3>2 DEF Mine
  <2>3. QED
      BY <1>6, <2>1, <2>2 DEF LastOf
<1>9. ASSUME NEW n \in DOMAIN outbox', NEW m \in DOMAIN outbox', Follows(n, m, b)' PROVE Follows(n + 1, m + 1, b)
  <2>1. /\ n < m /\ outbox'[n].block = b /\ outbox'[m].block = b
        /\ \A k \in DOMAIN outbox' : n < k /\ k < m => outbox'[k].block # b
      BY <1>9, Primed
  <2>2. ASSUME NEW k \in DOMAIN outbox, n + 1 < k, k < m + 1, Mine(k, b) PROVE FALSE
    <3>1. k # 1
        BY <1>3, <2>2
    <3>2. k - 1 \in DOMAIN outbox' /\ outbox'[k - 1] = outbox[k] /\ n < k - 1 /\ k - 1 < m
        BY <1>3, <1>4, <2>2, <3>1
    <3>3. QED
        BY <2>1, <2>2, <3>2 DEF Mine
  <2>3. n + 1 < m + 1
      BY <1>3, <2>1
  <2>4. QED
      BY <1>6, <2>1, <2>2, <2>3 DEF Follows
<1>10. ASSUME \A n \in DOMAIN outbox' : ~Mine(n, b)' PROVE LastOf(1, b)
  <2>1. \A n \in DOMAIN outbox' : outbox'[n].block # b
      BY <1>10, Primed
  <2>2. ASSUME NEW k \in DOMAIN outbox, 1 < k, Mine(k, b) PROVE FALSE
      BY <1>4, <2>1, <2>2 DEF Mine
  <2>3. QED
      BY <1>5, <2>2 DEF LastOf
<1>11. QED
    BY <1>2, <1>3, <1>5, <1>6, <1>7, <1>8, <1>9, <1>10, Primed

LEMMA ShiftLast ==
    ASSUME Shape, NEW i \in DOMAIN queue, NEW b \in Blocks, NEW e \in Edit, Saves(i, b, e)
    PROVE  LET l == Len(outbox) + 1 IN
           /\ l \in DOMAIN outbox' /\ outbox'[l].edit = e
           /\ \A n \in DOMAIN outbox' : Mine(n, b)' => n = l \/ (n \in DOMAIN outbox /\ Mine(n, b))
           /\ \A n \in DOMAIN outbox : n < l /\ outbox'[n] = outbox[n]
           /\ \A n \in DOMAIN outbox' : FirstOf(n, b)' => IF n = l THEN ~Waits(b) ELSE n \in DOMAIN outbox /\ FirstOf(n, b)
           /\ \A n \in DOMAIN outbox' : LastOf(n, b)' => n = l
           /\ \A n, m \in DOMAIN outbox' : Follows(n, m, b)' =>
                 /\ n \in DOMAIN outbox
                 /\ IF m = l THEN LastOf(n, b) ELSE m \in DOMAIN outbox /\ Follows(n, m, b)
<1> DEFINE l == Len(outbox) + 1
<1>1. /\ \A n \in DOMAIN outbox : n \in Nat /\ n < l /\ n # l
      /\ l \in Nat
    BY QueueShape
<1>2. /\ l \in DOMAIN outbox' /\ outbox'[l].block = b /\ outbox'[l].edit = e
      /\ \A n \in DOMAIN outbox' : n \in DOMAIN outbox \/ n = l
      /\ \A n \in DOMAIN outbox : n \in DOMAIN outbox' /\ outbox'[n] = outbox[n]
    BY OutboxAppended
<1> HIDE DEF l
<1>3. ASSUME NEW n \in DOMAIN outbox', FirstOf(n, b)'
      PROVE  IF n = l THEN ~Waits(b) ELSE n \in DOMAIN outbox /\ FirstOf(n, b)
  <2>1. outbox'[n].block = b /\ \A k \in DOMAIN outbox' : k < n => outbox'[k].block # b
      BY <1>3, Primed
  <2>2. \A k \in DOMAIN outbox : k < n => ~Mine(k, b)
      BY <1>2, <2>1 DEF Mine
  <2>3. QED
      BY <1>1, <1>2, <2>1, <2>2 DEF Waits, FirstOf, Mine
<1>4. ASSUME NEW n \in DOMAIN outbox', LastOf(n, b)' PROVE n = l
  <2>1. \A k \in DOMAIN outbox' : n < k => outbox'[k].block # b
      BY <1>4, Primed
  <2>2. QED
      BY <1>1, <1>2, <2>1
<1>5. ASSUME NEW n \in DOMAIN outbox', NEW m \in DOMAIN outbox', Follows(n, m, b)'
      PROVE  /\ n \in DOMAIN outbox
             /\ IF m = l THEN LastOf(n, b) ELSE m \in DOMAIN outbox /\ Follows(n, m, b)
  <2>1. /\ n < m /\ outbox'[n].block = b /\ outbox'[m].block = b
        /\ \A k \in DOMAIN outbox' : n < k /\ k < m => outbox'[k].block # b
      BY <1>5, Primed
  <2>2. n \in DOMAIN outbox
      BY <1>1, <1>2, <2>1
  <2>3. \A k \in DOMAIN outbox : n < k /\ k < m => ~Mine(k, b)
      BY <1>2, <2>1 DEF Mine
  <2>4. CASE m = l
      BY <1>1, <1>2, <2>1, <2>2, <2>3, <2>4 DEF LastOf, Mine
  <2>5. CASE m # l
      BY <1>1, <1>2, <2>1, <2>2, <2>3, <2>5 DEF Follows, Mine
  <2>6. QED
      BY <2>2, <2>4, <2>5
<1>6. \A n \in DOMAIN outbox' : Mine(n, b)' => n = l \/ (n \in DOMAIN outbox /\ Mine(n, b))
    BY <1>2, Primed DEF Mine
<1>7. QED
    BY <1>1, <1>2, <1>3, <1>4, <1>5, <1>6 DEF l

\* Nothing but a save moves the replica's text of a block with edits in the outbox.
LEMMA LocalStays ==
    ASSUME Shape, Effect, NEW b \in Blocks, AdmitPast(b), Waits(b)
    PROVE  local'[b] = local[b] \/ \E i \in DOMAIN queue, e \in Edit : Saves(i, b, e)
<1>1. ASSUME NEW i \in DOMAIN queue, Learns(i), On(i, b) PROVE FALSE
    BY <1>1 DEF Learns, AdmitPast, Clean
<1>2. ~Pending(b) => FALSE
    BY DEF Pending, Waits, Mine
<1>3. QED
    BY <1>1, <1>2, LocalMoves

LEMMA EditedSaved ==
    ASSUME NEW state \in State, NEW e \in Edit, e.saved = Edited(state, e.text).version
    PROVE  Saved(e) = Edited(state, e.text)
BY DEF Saved, Edited

LEMMA OutboxNumbers ==
    ASSUME Shape, NEW b \in Blocks
    PROVE  /\ \A n \in DOMAIN outbox :
                 /\ outbox[n].edit \in Edit /\ outbox[n].edit.version \in Nat /\ outbox[n].edit.saved \in Nat
                 /\ outbox[n].edit.text \in Texts /\ Saved(outbox[n].edit) \in State
           /\ server[b] \in State /\ server[b].version \in Nat
           /\ local[b] \in State /\ local[b].version \in Nat
<1>1. \A n \in DOMAIN outbox : outbox[n].edit \in Edit
    BY QueueShape
<1>2. QED
    BY <1>1 DEF Edit, Saved, State, Shape

LEMMA ChainStep ==
    ASSUME Shape, Shape', Effect, NEW b \in Blocks, AdmitPast(b), Chain(b), Level(b)
    PROVE  Chain(b)'
<1>1. /\ \A n \in DOMAIN outbox :
            /\ outbox[n].edit \in Edit /\ outbox[n].edit.version \in Nat /\ outbox[n].edit.saved \in Nat
            /\ outbox[n].edit.text \in Texts /\ Saved(outbox[n].edit) \in State
      /\ server[b] \in State /\ server[b].version \in Nat
      /\ local[b] \in State /\ local[b].version \in Nat
    BY OutboxNumbers
<1>2. /\ server'[b] = server[b] \/ server[b].version < server'[b].version
      /\ server'[b].version \in Nat
    BY PastGrows
<1> DEFINE Parts == /\ \A n, m \in DOMAIN outbox' : n < m /\ Mine(n, b)' /\ Mine(m, b)' =>
                          outbox'[n].edit.saved <= outbox'[m].edit.version
                    /\ \A n \in DOMAIN outbox' : Mine(n, b)' =>
                          outbox'[n].edit.version <= outbox'[n].edit.saved /\ outbox'[n].edit.saved <= local'[b].version
                    /\ \A n, m \in DOMAIN outbox' : Follows(n, m, b)' =>
                          /\ outbox'[m].edit.version = outbox'[n].edit.saved
                          /\ outbox'[m].edit.saved = Edited(Saved(outbox'[n].edit), outbox'[m].edit.text).version
                    /\ \A n \in DOMAIN outbox' : FirstOf(n, b)' =>
                          /\ outbox'[n].edit.version <= server'[b].version
                          /\ outbox'[n].edit.version = server'[b].version =>
                                outbox'[n].edit.saved = Edited(server'[b], outbox'[n].edit.text).version
                    /\ \A n \in DOMAIN outbox' : LastOf(n, b)' => local'[b] = Saved(outbox'[n].edit)
<1>3. Chain(b)' <=> (b \notin paused' => Parts)
    BY DEF Chain, Ordered, Within, Linked, Headed, Tailed, Saved, Edited
<1>4. CASE StaySame(b) /\ (b \in paused' <=> b \in paused)
  <2>1. SUFFICES ASSUME b \notin paused PROVE Parts
      BY <1>3, <1>4
  <2>2. Ordered(b) /\ Within(b) /\ Linked(b) /\ Headed(b) /\ Tailed(b)
      BY <2>1 DEF Chain
  <2>3. PICK d \in {0, 1} :
              /\ \A n \in DOMAIN outbox' : Mine(n, b)' => n + d \in DOMAIN outbox /\ outbox'[n] = outbox[n + d] /\ Mine(n + d, b)
              /\ \A n \in DOMAIN outbox' : FirstOf(n, b)' => FirstOf(n + d, b)
              /\ \A n \in DOMAIN outbox' : LastOf(n, b)' => LastOf(n + d, b)
              /\ \A n, m \in DOMAIN outbox' : Follows(n, m, b)' => Follows(n + d, m + d, b)
      BY <1>4, ShiftSame
  <2>4. \A n, m \in DOMAIN outbox' : n < m => n + d < m + d
    <3>1. outbox' \in Seq([block : Blocks, edit : Edit])
        BY DEF Shape
    <3>2. \A n \in DOMAIN outbox' : n \in Nat
        BY <3>1, SeqElements
    <3>3. QED
        BY <3>2
  <2>5. Waits(b) => local'[b] = local[b]
    <3>1. ASSUME NEW i \in DOMAIN queue, NEW e \in Edit, Saves(i, b, e), Waits(b) PROVE local'[b] = local[b]
      <4>1. Len(outbox) + 1 \in DOMAIN outbox' /\ outbox'[Len(outbox) + 1].block = b
          BY <3>1, OutboxAppended
      <4>2. PICK k \in {0, 1} :
              /\ \A n \in DOMAIN outbox' : outbox'[n].block = b => n + k \in DOMAIN outbox /\ outbox'[n] = outbox[n + k]
          BY <1>4 DEF StaySame
      <4>3. Len(outbox) + 1 + k \in DOMAIN outbox
          BY <4>1, <4>2
      <4>4. QED
          BY <4>3, QueueShape
    <3>2. QED
        BY <3>1, LocalStays
  <2>6. \A n \in DOMAIN outbox' : /\ Follows(n, n, b)' => Mine(n, b)'
                                  /\ FirstOf(n, b)' => Mine(n, b)'
                                  /\ LastOf(n, b)' => Mine(n, b)'
      BY Primed
  <2>7. \A n, m \in DOMAIN outbox' : Follows(n, m, b)' => Mine(n, b)' /\ Mine(m, b)'
      BY Primed
  <2>8. \A n \in DOMAIN outbox' : Mine(n, b)' => Waits(b)
      BY <2>3 DEF Waits
  <2>9. \A n, m \in DOMAIN outbox' : n < m /\ Mine(n, b)' /\ Mine(m, b)' =>
            outbox'[n].edit.saved <= outbox'[m].edit.version
      BY <2>2, <2>3, <2>4 DEF Ordered
  <2>10. \A n \in DOMAIN outbox' : Mine(n, b)' =>
             outbox'[n].edit.version <= outbox'[n].edit.saved /\ outbox'[n].edit.saved <= local'[b].version
      BY <2>2, <2>3, <2>5, <2>8 DEF Within
  <2>11. \A n, m \in DOMAIN outbox' : Follows(n, m, b)' =>
             /\ outbox'[m].edit.version = outbox'[n].edit.saved
             /\ outbox'[m].edit.saved = Edited(Saved(outbox'[n].edit), outbox'[m].edit.text).version
      BY <2>2, <2>3, <2>7 DEF Linked
  <2>12. \A n \in DOMAIN outbox' : FirstOf(n, b)' =>
             /\ outbox'[n].edit.version <= server'[b].version
             /\ outbox'[n].edit.version = server'[b].version =>
                   outbox'[n].edit.saved = Edited(server'[b], outbox'[n].edit.text).version
    <3>1. SUFFICES ASSUME NEW n \in DOMAIN outbox', FirstOf(n, b)'
                   PROVE  /\ outbox'[n].edit.version <= server'[b].version
                          /\ outbox'[n].edit.version = server'[b].version =>
                                outbox'[n].edit.saved = Edited(server'[b], outbox'[n].edit.text).version
        OBVIOUS
    <3>2. n + d \in DOMAIN outbox /\ outbox'[n] = outbox[n + d] /\ FirstOf(n + d, b)
        BY <2>3, <2>6, <3>1
    <3>3. /\ outbox[n + d].edit.version <= server[b].version
          /\ outbox[n + d].edit.version = server[b].version =>
                   outbox[n + d].edit.saved = Edited(server[b], outbox[n + d].edit.text).version
        BY <2>2, <3>2 DEF Headed
    <3>4. outbox[n + d].edit.version \in Nat
        BY <1>1, <3>2
    <3>5. QED
        BY <1>1, <1>2, <3>2, <3>3, <3>4
  <2>13. \A n \in DOMAIN outbox' : LastOf(n, b)' => local'[b] = Saved(outbox'[n].edit)
      BY <2>2, <2>3, <2>5, <2>6, <2>8 DEF Tailed
  <2>14. QED
      BY <2>9, <2>10, <2>11, <2>12, <2>13
<1>5. ASSUME NEW i \in DOMAIN queue, NEW e \in Edit, Saves(i, b, e) PROVE Chain(b)'
  <2>1. SUFFICES ASSUME b \notin paused PROVE Parts
      BY <1>3, <1>5 DEF Saves
  <2>2. Ordered(b) /\ Within(b) /\ Linked(b) /\ Headed(b) /\ Tailed(b)
      BY <2>1 DEF Chain
  <2>3. PICK l : l = Len(outbox) + 1
      OBVIOUS
  <2>4. /\ l \in DOMAIN outbox' /\ outbox'[l].edit = e
        /\ \A n \in DOMAIN outbox' : Mine(n, b)' => n = l \/ (n \in DOMAIN outbox /\ Mine(n, b))
        /\ \A n \in DOMAIN outbox : n < l /\ outbox'[n] = outbox[n]
        /\ \A n \in DOMAIN outbox' : FirstOf(n, b)' => IF n = l THEN ~Waits(b) ELSE n \in DOMAIN outbox /\ FirstOf(n, b)
        /\ \A n \in DOMAIN outbox' : LastOf(n, b)' => n = l
        /\ \A n, m \in DOMAIN outbox' : Follows(n, m, b)' =>
              /\ n \in DOMAIN outbox
              /\ IF m = l THEN LastOf(n, b) ELSE m \in DOMAIN outbox /\ Follows(n, m, b)
      BY <1>5, <2>3, ShiftLast
  <2>5. /\ e.version = local[b].version /\ e.saved = Edited(local[b], e.text).version /\ e.text \in Texts
        /\ local'[b] = Edited(local[b], e.text) /\ server' = server
      BY <1>5 DEF Saves, Shape, Edit
  <2>6. /\ e.version \in Nat /\ e.saved \in Nat /\ e.version <= e.saved /\ local'[b].version = e.saved
        /\ local'[b] = Saved(e)
    <3>1. local'[b] = Saved(e)
        BY <1>1, <2>5, EditedSaved
    <3>2. Saved(e).version = e.saved /\ e.version \in Nat /\ e.saved \in Nat
        BY DEF Saved, Edit
    <3>3. e.version <= e.saved
        BY <1>1, <2>5, EditedState
    <3>4. QED
        BY <3>1, <3>2, <3>3
  <2>7. \A n \in DOMAIN outbox : n < l /\ n # l
    <3>1. l \in Nat /\ \A n \in DOMAIN outbox : n \in Nat
        BY <2>3, QueueShape
    <3>2. QED
        BY <2>4, <3>1
  <2>8. \A n, m \in DOMAIN outbox' : n < m /\ Mine(n, b)' /\ Mine(m, b)' =>
            outbox'[n].edit.saved <= outbox'[m].edit.version
    <3>1. SUFFICES ASSUME NEW n \in DOMAIN outbox', NEW m \in DOMAIN outbox', n < m, Mine(n, b)', Mine(m, b)'
                   PROVE  outbox'[n].edit.saved <= outbox'[m].edit.version
        OBVIOUS
    <3>2. n \in DOMAIN outbox /\ Mine(n, b) /\ outbox'[n] = outbox[n]
      <4>1. n # l
        <5>1. l \in Nat /\ (m = l \/ m < l) /\ m \in Nat
          <6>1. l \in Nat /\ \A k \in DOMAIN outbox : k \in Nat
              BY <2>3, QueueShape
          <6>2. QED
              BY <2>4, <3>1, <6>1
        <5>2. QED
            BY <3>1, <5>1
      <4>2. QED
          BY <2>4, <3>1, <4>1
    <3>3. CASE m = l
        BY <2>2, <2>4, <2>5, <3>2, <3>3 DEF Within
    <3>4. CASE m # l
        BY <2>2, <2>4, <3>1, <3>2, <3>4 DEF Ordered
    <3>5. QED
        BY <3>3, <3>4
  <2>9. ASSUME NEW n \in DOMAIN outbox', Mine(n, b)'
        PROVE  outbox'[n].edit.version <= outbox'[n].edit.saved /\ outbox'[n].edit.saved <= local'[b].version
    <3>1. CASE n = l
        BY <2>4, <2>6, <3>1
    <3>2. CASE n # l
      <4>1. n \in DOMAIN outbox /\ Mine(n, b) /\ outbox'[n] = outbox[n]
          BY <2>4, <2>9, <3>2
      <4>2. outbox[n].edit.version <= outbox[n].edit.saved /\ outbox[n].edit.saved <= local[b].version
          BY <2>2, <4>1 DEF Within
      <4>3. outbox[n].edit.saved \in Nat
          BY <1>1, <4>1
      <4>4. QED
          BY <1>1, <2>5, <2>6, <4>1, <4>2, <4>3
    <3>3. QED
        BY <3>1, <3>2
  <2>10. ASSUME NEW n \in DOMAIN outbox', NEW m \in DOMAIN outbox', Follows(n, m, b)'
         PROVE  /\ outbox'[m].edit.version = outbox'[n].edit.saved
                /\ outbox'[m].edit.saved = Edited(Saved(outbox'[n].edit), outbox'[m].edit.text).version
    <3>1. n \in DOMAIN outbox /\ outbox'[n] = outbox[n]
        BY <2>4, <2>10
    <3>2. CASE m = l
      <4>1. local[b] = Saved(outbox[n].edit)
          BY <2>2, <2>4, <2>10, <3>1, <3>2 DEF Tailed
      <4>2. local[b].version = outbox[n].edit.saved
          BY <4>1 DEF Saved
      <4>3. QED
          BY <2>4, <2>5, <3>1, <3>2, <4>1, <4>2
    <3>3. CASE m # l
        BY <2>2, <2>4, <2>10, <3>1, <3>3 DEF Linked
    <3>4. QED
        BY <3>2, <3>3
  <2>11. ASSUME NEW n \in DOMAIN outbox', FirstOf(n, b)'
         PROVE  /\ outbox'[n].edit.version <= server'[b].version
                /\ outbox'[n].edit.version = server'[b].version =>
                      outbox'[n].edit.saved = Edited(server'[b], outbox'[n].edit.text).version
    <3>1. CASE n = l
      <4>1. Past(local[b], b)
          BY <2>1, <2>4, <2>11, <3>1 DEF Level, Clean
      <4>2. QED
          BY <2>4, <2>5, <3>1, <4>1 DEF Past
    <3>2. CASE n # l
        BY <2>2, <2>4, <2>5, <2>11, <3>2 DEF Headed
    <3>3. QED
        BY <3>1, <3>2
  <2>12. \A n \in DOMAIN outbox' : LastOf(n, b)' => local'[b] = Saved(outbox'[n].edit)
      BY <2>4, <2>6
  <2>13. QED
      BY <2>8, <2>9, <2>10, <2>11, <2>12
<1>6. ASSUME NEW e \in Edit, Delivers(b, e) PROVE Chain(b)'
  <2>1. b \notin paused /\ Advances /\ outbox[1].block = b /\ outbox[1].edit = e /\ server[b].version = e.version
        /\ server'[b] = Edited(server[b], e.text) /\ local' = local
      BY <1>6 DEF Delivers
  <2>2. Ordered(b) /\ Within(b) /\ Linked(b) /\ Headed(b) /\ Tailed(b)
      BY <2>1 DEF Chain
  <2>3. /\ 1 \in DOMAIN outbox /\ FirstOf(1, b)
        /\ \A n \in DOMAIN outbox' : n + 1 \in DOMAIN outbox /\ outbox'[n] = outbox[n + 1] /\ 1 < n + 1
        /\ \A n \in DOMAIN outbox' : Mine(n, b)' => Mine(n + 1, b)
        /\ \A n \in DOMAIN outbox' : FirstOf(n, b)' => Follows(1, n + 1, b)
        /\ \A n \in DOMAIN outbox' : LastOf(n, b)' => LastOf(n + 1, b)
        /\ \A n, m \in DOMAIN outbox' : Follows(n, m, b)' => Follows(n + 1, m + 1, b)
      BY <2>1, ShiftFirst
  <2>4. \A n, m \in DOMAIN outbox' : n < m => n + 1 < m + 1
    <3>1. outbox' \in Seq([block : Blocks, edit : Edit])
        BY DEF Shape
    <3>2. \A n \in DOMAIN outbox' : n \in Nat
        BY <3>1, SeqElements
    <3>3. QED
        BY <3>2
  <2>5. server'[b] = Saved(e) /\ server'[b].version = e.saved
    <3>1. e.saved = Edited(server[b], e.text).version
        BY <2>1, <2>2, <2>3 DEF Headed
    <3>2. QED
        BY <1>1, <2>1, <3>1, EditedSaved
  <2>6. \A n, m \in DOMAIN outbox' : n < m /\ Mine(n, b)' /\ Mine(m, b)' =>
            outbox'[n].edit.saved <= outbox'[m].edit.version
      BY <2>2, <2>3, <2>4 DEF Ordered
  <2>7. \A n \in DOMAIN outbox' : Mine(n, b)' =>
             outbox'[n].edit.version <= outbox'[n].edit.saved /\ outbox'[n].edit.saved <= local'[b].version
      BY <2>1, <2>2, <2>3 DEF Within
  <2>8. \A n, m \in DOMAIN outbox' : Follows(n, m, b)' =>
             /\ outbox'[m].edit.version = outbox'[n].edit.saved
             /\ outbox'[m].edit.saved = Edited(Saved(outbox'[n].edit), outbox'[m].edit.text).version
      BY <2>2, <2>3 DEF Linked
  <2>9. ASSUME NEW n \in DOMAIN outbox', FirstOf(n, b)'
        PROVE  /\ outbox'[n].edit.version <= server'[b].version
               /\ outbox'[n].edit.version = server'[b].version =>
                     outbox'[n].edit.saved = Edited(server'[b], outbox'[n].edit.text).version
    <3>1. /\ outbox[n + 1].edit.version = outbox[1].edit.saved
          /\ outbox[n + 1].edit.saved = Edited(Saved(outbox[1].edit), outbox[n + 1].edit.text).version
        BY <2>2, <2>3, <2>9 DEF Linked
    <3>2. QED
        BY <1>2, <2>1, <2>3, <2>5, <3>1
  <2>10. \A n \in DOMAIN outbox' : LastOf(n, b)' => local'[b] = Saved(outbox'[n].edit)
      BY <2>1, <2>2, <2>3 DEF Tailed
  <2>11. Parts
      BY <2>6, <2>7, <2>8, <2>9, <2>10
  <2>12. QED
      BY <1>3, <2>11
<1>7. CASE Pauses(b)
    BY <1>3, <1>7 DEF Pauses
<1>8. QED
    BY <1>4, <1>5, <1>6, <1>7, StoreMoves

LEMMA LevelStep ==
    ASSUME Shape, Shape', Effect, NEW b \in Blocks, ReadPast(b), AdmitPast(b), Chain(b), Level(b)
    PROVE  Level(b)'
<1>1. SUFFICES ASSUME Clean(b)' PROVE PastNext(local'[b], b)
    BY DEF Level, Past, PastNext
<1>2. local[b] \in State /\ server'[b].version \in Nat
    BY PastGrows DEF Shape
<1>3. ASSUME NEW e \in Edit, Delivers(b, e) PROVE PastNext(local'[b], b)
  <2>1. b \notin paused /\ Advances /\ outbox[1].block = b /\ outbox[1].edit = e /\ server[b].version = e.version
        /\ server'[b] = Edited(server[b], e.text) /\ local' = local
      BY <1>3 DEF Delivers
  <2>2. Headed(b) /\ Tailed(b)
      BY <2>1 DEF Chain
  <2>3. \A n \in DOMAIN outbox' : ~Mine(n, b)'
      BY <1>1, Primed DEF Clean, Waits, Mine
  <2>4. 1 \in DOMAIN outbox /\ FirstOf(1, b) /\ LastOf(1, b)
      BY <2>1, <2>3, ShiftFirst
  <2>5. e.saved = Edited(server[b], e.text).version /\ local[b] = Saved(e)
      BY <2>1, <2>2, <2>4 DEF Headed, Tailed
  <2>6. server'[b] = Saved(e)
      BY <2>1, <2>5, OutboxNumbers, EditedSaved
  <2>7. QED
      BY <1>2, <2>1, <2>5, <2>6 DEF PastNext
<1>4. CASE Clean(b)
  <2>1. Past(local[b], b)
      BY <1>4 DEF Level
  <2>2. CASE local'[b] = local[b]
      BY <1>2, <2>1, <2>2, PastGrows
  <2>3. ASSUME NEW i \in DOMAIN queue, NEW e \in Edit, Saves(i, b, e) PROVE FALSE
      BY <1>1, <2>3, OutboxAppended DEF Clean, Waits, Mine
  <2>4. ASSUME NEW i \in DOMAIN queue, Learns(i), On(i, b) PROVE PastNext(local'[b], b)
    <3>1. Past(Saved(queue[i].edits[b]), b)
        BY <2>4 DEF Learns, AdmitPast
    <3>2. local'[b] = local[b] \/ local'[b] = Saved(queue[i].edits[b])
        BY <2>4 DEF Learns, Saved
    <3>3. queue[i].edits[b] \in Edit
        BY <2>4, QueueShape DEF On
    <3>4. Saved(queue[i].edits[b]) \in State
        BY <3>3 DEF Saved, Edit, State
    <3>5. QED
        BY <1>2, <2>1, <3>1, <3>2, <3>4, PastGrows
  <2>5. ASSUME Installs, local'[b] = reading.texts[b] PROVE PastNext(local'[b], b)
    <3>1. reading # NoRead /\ reading \in [texts : [Blocks -> State], stale : BOOLEAN]
        BY <2>5 DEF Installs, Shape
    <3>2. reading.texts[b] \in State /\ Past(reading.texts[b], b)
        BY <3>1 DEF ReadPast
    <3>3. QED
        BY <2>5, <3>2, PastGrows
  <2>6. QED
      BY <2>2, <2>3, <2>4, <2>5, LocalMoves
<1>5. QED
    BY <1>1, <1>3, <1>4, CleanKept

-----------------------------------------------------------------------------
(* No text replaces one its writer had not seen: NoBlindOverwrite *)

\* What this controller wrote is at the server or on its way, and where another device wrote in its
\* place, an edit still on its way will be refused.
Due(b, u)     == \E n \in DOMAIN outbox : Mine(n, b) /\ Made(outbox[n].edit, u)
Behind(b)     == \E n \in DOMAIN outbox : Mine(n, b) /\ outbox[n].edit.version < server[b].version
Delivered(b)  == \A u \in Nat : OwnWrite(b, u) => b \in paused \/ u < server[b].version \/ Due(b, u)
Contested(b)  == \A u \in Nat : OwnWrite(b, u) /\ u + 1 \in others[b] => b \in paused \/ Behind(b)

LEMMA DeliveredStep ==
    ASSUME Shape, Effect, NEW b \in Blocks, Chain(b), Delivered(b)
    PROVE  Delivered(b)'
<1>1. /\ \A n \in DOMAIN outbox :
            /\ outbox[n].edit \in Edit /\ outbox[n].edit.version \in Nat /\ outbox[n].edit.saved \in Nat
            /\ outbox[n].edit.text \in Texts /\ Saved(outbox[n].edit) \in State
      /\ server[b] \in State /\ server[b].version \in Nat
    BY OutboxNumbers
<1>2. server[b].version <= server'[b].version /\ server'[b].version \in Nat
    BY PastGrows
<1>3. SUFFICES ASSUME NEW u \in Nat, OwnWrite(b, u)', b \notin paused'
               PROVE  u < server'[b].version \/ \E n \in DOMAIN outbox' : outbox'[n].block = b /\ Made(outbox'[n].edit, u)
    BY DEF Delivered, Due, Mine, Made
<1> DEFINE Goal == u < server'[b].version \/ \E n \in DOMAIN outbox' : outbox'[n].block = b /\ Made(outbox'[n].edit, u)
<1>4. CASE OwnWrite(b, u)
  <2>1. CASE b \in paused
      BY <1>3, <2>1, StoreMoves DEF Saves, Delivers, Pauses
  <2>2. CASE u < server[b].version
      BY <1>1, <1>2, <2>2
  <2>3. ASSUME NEW n \in DOMAIN outbox, Mine(n, b), Made(outbox[n].edit, u) PROVE Goal
    <3>1. CASE StaySame(b)
        BY <2>3, <3>1 DEF StaySame, Mine
    <3>2. ASSUME NEW i \in DOMAIN queue, NEW e \in Edit, Saves(i, b, e) PROVE Goal
        BY <2>3, <3>2, OutboxAppended DEF Mine
    <3>3. ASSUME NEW e \in Edit, Delivers(b, e) PROVE Goal
      <4>1. Advances /\ outbox[1].block = b /\ outbox[1].edit = e /\ server[b].version = e.version
            /\ server'[b] = Edited(server[b], e.text) /\ b \notin paused
          BY <3>3 DEF Delivers
      <4>2. CASE n = 1
        <5>1. FirstOf(1, b) /\ Headed(b)
            BY <4>1, ShiftFirst DEF Chain
        <5>2. e.saved = server'[b].version
            BY <2>3, <4>1, <4>2, <5>1 DEF Headed
        <5>3. e.saved = u + 1
            BY <2>3, <4>1, <4>2 DEF Made
        <5>4. QED
            BY <1>2, <5>2, <5>3
      <4>3. CASE n # 1
        <5>1. DOMAIN outbox = 1..Len(outbox) /\ Len(outbox) \in Nat
            BY QueueShape
        <5>2. n - 1 \in DOMAIN outbox' /\ (n - 1) + 1 = n
            BY <4>1, <4>3, <5>1 DEF Advances
        <5>3. outbox'[n - 1] = outbox[n]
            BY <4>1, <5>2 DEF Advances
        <5>4. QED
            BY <2>3, <5>2, <5>3 DEF Mine
      <4>4. QED
          BY <4>2, <4>3
    <3>4. ~Pauses(b)
        BY <1>3 DEF Pauses
    <3>5. QED
        BY <3>1, <3>2, <3>3, <3>4, StoreMoves
  <2>4. QED
      BY <1>4, <2>1, <2>2, <2>3 DEF Delivered, Due
<1>5. ASSUME NEW i \in DOMAIN queue, NEW e \in Edit, Saves(i, b, e), Made(e, u) PROVE Goal
    BY <1>5, OutboxAppended
<1>6. ASSUME NEW i \in DOMAIN queue, NEW f \in EditSets, Admits(i, f), b \in DOMAIN f, Made(f[b], u) PROVE Goal
  <2>1. f[b].saved = server'[b].version /\ f[b].saved = u + 1
      BY <1>6 DEF Admits, Made
  <2>2. QED
      BY <1>2, <2>1
<1>7. QED
    BY <1>3, <1>4, <1>5, <1>6, OwnWriteNew

LEMMA ContestedStep ==
    ASSUME Shape, Effect, NEW b \in Blocks, OthersPast(b), Delivered(b), Contested(b)
    PROVE  Contested(b)'
<1>1. /\ \A n \in DOMAIN outbox : outbox[n].edit \in Edit /\ outbox[n].edit.version \in Nat /\ outbox[n].edit.saved \in Nat
      /\ server[b] \in State /\ server[b].version \in Nat
    BY OutboxNumbers
<1>2. server[b].version <= server'[b].version /\ server'[b].version \in Nat
    BY PastGrows
<1> DEFINE Goal == \E n \in DOMAIN outbox' : outbox'[n].block = b /\ outbox'[n].edit.version < server'[b].version
<1>3. SUFFICES ASSUME NEW u \in Nat, OwnWrite(b, u)', u + 1 \in others'[b], b \notin paused'
               PROVE  Goal
    BY DEF Contested, Behind, Mine
<1>4. b \notin paused
    BY <1>3, StoreMoves DEF Saves, Delivers, Pauses
<1>5. ~Pauses(b)
    BY <1>3 DEF Pauses
<1>6. ASSUME NEW n \in DOMAIN outbox, Mine(n, b), outbox[n].edit.version < server'[b].version,
             ~\E e \in Edit : Delivers(b, e)
      PROVE  Goal
  <2>1. CASE StaySame(b)
      BY <1>6, <2>1 DEF StaySame, Mine
  <2>2. ASSUME NEW i \in DOMAIN queue, NEW e \in Edit, Saves(i, b, e) PROVE Goal
      BY <1>6, <2>2, OutboxAppended DEF Mine
  <2>3. QED
      BY <1>5, <1>6, <2>1, <2>2, StoreMoves
<1>7. CASE OwnWrite(b, u) /\ u + 1 \in others[b]
  <2>1. PICK n \in DOMAIN outbox : Mine(n, b) /\ outbox[n].edit.version < server[b].version
      BY <1>4, <1>7 DEF Contested, Behind
  <2>2. ASSUME NEW e \in Edit, Delivers(b, e) PROVE Goal
    <3>1. Advances /\ outbox[1].edit = e /\ server[b].version = e.version
        BY <2>2 DEF Delivers
    <3>2. n # 1
        BY <1>1, <2>1, <3>1
    <3>3. DOMAIN outbox = 1..Len(outbox) /\ Len(outbox) \in Nat
        BY QueueShape
    <3>4. n - 1 \in DOMAIN outbox' /\ (n - 1) + 1 = n
        BY <3>1, <3>2, <3>3 DEF Advances
    <3>5. outbox'[n - 1] = outbox[n]
        BY <3>1, <3>4 DEF Advances
    <3>6. QED
        BY <1>1, <1>2, <2>1, <3>4, <3>5 DEF Mine
  <2>3. QED
      BY <1>1, <1>2, <1>6, <2>1, <2>2
<1>8. CASE OwnWrite(b, u) /\ u + 1 \notin others[b]
  <2>1. Intrudes(b)
      BY <1>3, <1>8, StoreMoves DEF Saves, Delivers, Pauses, Admits, historyVars
  <2>2. u = server[b].version /\ server'[b].version = server[b].version + 1
      BY <1>1, <1>3, <1>8, <2>1 DEF Intrudes
  <2>3. PICK n \in DOMAIN outbox : Mine(n, b) /\ Made(outbox[n].edit, u)
      BY <1>1, <1>4, <1>8, <2>2 DEF Delivered, Due
  <2>4. outbox[n].edit.version < server'[b].version
      BY <1>1, <2>2, <2>3 DEF Made
  <2>5. outbox' = outbox
      BY <2>1 DEF Intrudes
  <2>6. QED
      BY <2>3, <2>4, <2>5 DEF Mine
<1>9. ASSUME NEW i \in DOMAIN queue, NEW e \in Edit, Saves(i, b, e), Made(e, u) PROVE Goal
  <2>1. u + 1 <= server[b].version /\ server'[b] = server[b] /\ e.version = u
      BY <1>3, <1>9 DEF Saves, OthersPast, Made
  <2>2. e.version < server'[b].version
      BY <1>1, <2>1
  <2>3. QED
      BY <1>9, <2>2, OutboxAppended
<1>10. ASSUME NEW i \in DOMAIN queue, NEW f \in EditSets, Admits(i, f), b \in DOMAIN f, Made(f[b], u) PROVE FALSE
  <2>1. u + 1 <= server[b].version /\ server[b].version = u
      BY <1>3, <1>10 DEF Admits, OthersPast, Made
  <2>2. QED
      BY <1>1, <2>1
<1>11. QED
    BY <1>3, <1>7, <1>8, <1>9, <1>10, OwnWriteNew

LEMMA SeenEdit ==
    ASSUME Shape, NEW b \in Blocks, OthersPast(b), Contested(b), NEW e \in Edit, Moved(b, e),
           b \notin paused, ~Behind(b)
    PROVE  ~Unseen(b, e, server[b])
<1>1. SUFFICES ASSUME NEW v \in others[b], e.base < v, v <= e.version PROVE FALSE
    BY DEF Unseen
<1>2. v \in Nat /\ e.base \in Nat /\ e.version \in Nat
    BY DEF Shape, Edit
<1>3. v - 1 \in Nat /\ e.base <= v - 1 /\ v - 1 < e.version /\ (v - 1) + 1 = v
    BY <1>1, <1>2
<1>4. OwnWrite(b, v - 1) /\ (v - 1) + 1 \in others[b]
    BY <1>3 DEF Moved
<1>5. QED
    BY <1>3, <1>4 DEF Contested

LEMMA BlindStep ==
    ASSUME Shape, Effect, Stepped, NoBlindOverwrite,
           \A b \in Blocks : OthersPast(b) /\ Contested(b) /\ Chain(b)
    PROVE  NoBlindOverwrite'
<1>1. ASSUME NEW b \in Blocks, NEW e \in Edit, Delivers(b, e) PROVE ~blind'
  <2>1. Advances /\ outbox[1].block = b /\ outbox[1].edit = e /\ server[b].version = e.version /\ b \notin paused
        /\ blind' = (blind \/ Unseen(b, e, server[b]))
      BY <1>1 DEF Delivers
  <2>2. 1 \in DOMAIN outbox /\ Mine(1, b) /\ Ordered(b) /\ Within(b)
      BY <2>1 DEF Advances, Mine, Chain
  <2>3. Moved(b, e)
      BY <2>1, <2>2 DEF Stepped
  <2>4. ASSUME NEW n \in DOMAIN outbox, Mine(n, b), outbox[n].edit.version < server[b].version PROVE FALSE
    <3>1. outbox[n].edit.version \in Nat /\ e.saved \in Nat /\ e.version \in Nat /\ n \in 1..Len(outbox) /\ Len(outbox) \in Nat
        BY OutboxNumbers, QueueShape DEF Edit
    <3>2. n # 1
        BY <2>1, <2>4, <3>1
    <3>3. 1 < n
        BY <3>1, <3>2
    <3>4. e.saved <= outbox[n].edit.version /\ e.version <= e.saved
        BY <2>1, <2>2, <2>4, <3>3 DEF Ordered, Within
    <3>5. QED
        BY <2>1, <2>4, <3>1, <3>4
  <2>5. ~Behind(b)
      BY <2>4 DEF Behind
  <2>6. QED
      BY <2>1, <2>3, <2>5, SeenEdit DEF NoBlindOverwrite
<1>2. ASSUME NEW i \in DOMAIN queue, NEW f \in EditSets, Admits(i, f) PROVE ~blind'
  <2>1. ASSUME NEW b \in DOMAIN f PROVE ~Unseen(b, f[b], server[b])
    <3>1. /\ b \in DOMAIN queue[i].edits /\ b \notin paused /\ f[b] \in Edit
          /\ f[b].base = queue[i].edits[b].base /\ f[b].version = queue[i].edits[b].version
          /\ \A n \in DOMAIN outbox : outbox[n].block # b
        BY <1>2, <2>1 DEF Admits
    <3>2. b \in Blocks /\ Moved(b, queue[i].edits[b])
        BY <3>1, QueueShape DEF Stepped
    <3>3. Moved(b, f[b])
        BY <3>1, <3>2 DEF Moved
    <3>4. ~Behind(b)
        BY <3>1 DEF Behind, Mine
    <3>5. QED
        BY <3>1, <3>2, <3>3, <3>4, SeenEdit
  <2>2. blind' = (blind \/ \E b \in DOMAIN f : Unseen(b, f[b], server[b]))
      BY <1>2 DEF Admits
  <2>3. QED
      BY <2>1, <2>2 DEF NoBlindOverwrite
<1>3. ASSUME NEW i \in DOMAIN queue,
             \/ Drops(i) \/ Refuses(i) \/ Learns(i) \/ Acknowledges(i)
             \/ \E f \in EditSets : Sends(i, f)
             \/ \E b \in Blocks, e \in Edit : Saves(i, b, e)
      PROVE  UNCHANGED blind
    BY <1>3 DEF Drops, Refuses, Idle, Saves, Sends, Learns, Acknowledges, historyVars
<1>4. ASSUME \/ UNCHANGED vars \/ Reshows \/ Asks \/ Installs \/ \E c \in Commands : Joins(c)
             \/ \E x \in Blocks : \/ Clears(x) \/ Intrudes(x) \/ Pauses(x)
                                  \/ \E t \in Texts : Types(x, t)
      PROVE  UNCHANGED blind
    BY <1>4 DEF vars, historyVars, Types, Clears, Intrudes, Pauses, Joins, Reshows, Asks, Installs
<1>5. QED
    BY <1>1, <1>2, <1>3, <1>4 DEF Effect, NoBlindOverwrite

-----------------------------------------------------------------------------
(* A block that no other device has written *)

\* A block no other device writes: the edits of this controller follow each other, and what it shows,
\* holds and reads agrees with the replica.
Told(b)    == \E i \in DOMAIN queue : On(i, b) /\ queue[i].phase = "admitted"
HeadOn(b)  == \A n \in DOMAIN outbox : FirstOf(n, b) => outbox[n].edit.version = server[b].version
InStep(b)  == Clean(b) => local[b] = server[b] \/ Told(b)
Lags(b, e) == local[b].version = e.version /\ e.saved = e.version + 1
InPlace(b, phase, e) ==
    /\ phase = "waiting"  => e.version <= local[b].version
    /\ phase = "sent"     => e.version = local[b].version
    /\ phase = "admitted" => server[b] = Saved(e) /\ (local[b] = Saved(e) \/ Lags(b, e))
    /\ phase = "applied"  => local[b] = Saved(e)
Placed(b)  == \A i \in DOMAIN queue : On(i, b) => InPlace(b, queue[i].phase, queue[i].edits[b])
\* Every version is this controller's, and what is begun, shown and read is not ahead of the replica.
AllOwn(b)  == \A u \in Nat : u < local[b].version => OwnWrite(b, u)
Begun(b)   == HasDraft(b) => draft[b].version <= local[b].version
UpTo(state, b) == state.version <= local[b].version /\ (state.version = local[b].version => state = local[b])
Viewed(b)  == UpTo(shown[b], b) /\ UpTo(accepted[b], b)
Fresh(b)   == reading # NoRead /\ ~reading.stale /\ Clean(b) /\ reading.texts[b].version = local[b].version
                 => reading.texts[b] = local[b]
Alone(b)   == others[b] = {} =>
                 /\ b \notin paused /\ HeadOn(b) /\ InStep(b) /\ Placed(b) /\ AllOwn(b)
                 /\ Begun(b) /\ Viewed(b) /\ Fresh(b)
Base(b)    == Chain(b) /\ Level(b) /\ ReadPast(b) /\ AdmitPast(b)

\* The replica learns a text the server already has.
Catches(i, b) ==
    LET e == queue[i].edits[b] IN
    /\ Learns(i) \/ Installs
    /\ On(i, b) /\ queue[i].phase = "admitted"
    /\ local'[b] = Saved(e) /\ server[b] = Saved(e) /\ Lags(b, e)

LEMMA Numbers ==
    ASSUME Shape, NEW b \in Blocks
    PROVE  /\ server[b] \in State /\ server[b].version \in Nat /\ server[b].text \in Texts
           /\ local[b] \in State /\ local[b].version \in Nat /\ local[b].text \in Texts
           /\ shown[b].version \in Nat /\ accepted[b].version \in Nat /\ draft[b].version \in Nat
           /\ \A i \in DOMAIN queue : On(i, b) =>
                /\ queue[i].edits[b] \in Edit /\ queue[i].edits[b].version \in Nat /\ queue[i].edits[b].saved \in Nat
                /\ queue[i].edits[b].text \in Texts
                /\ Saved(queue[i].edits[b]) \in State /\ Saved(queue[i].edits[b]).version = queue[i].edits[b].saved
                /\ Saved(queue[i].edits[b]).text = queue[i].edits[b].text
<1>1. \A i \in DOMAIN queue : On(i, b) => queue[i].edits[b] \in Edit
    BY QueueShape DEF On
<1>2. \A e \in Edit : /\ e.version \in Nat /\ e.saved \in Nat /\ e.text \in Texts
                      /\ Saved(e) \in State /\ Saved(e).version = e.saved /\ Saved(e).text = e.text
    BY DEF Edit, Saved, State
<1>3. QED
    BY <1>1, <1>2 DEF State, Shape

LEMMA LearnsAlone ==
    ASSUME Shape, NEW b \in Blocks, Alone(b), others[b] = {}, NEW i \in DOMAIN queue, Learns(i), On(i, b)
    PROVE  /\ local'[b] = Saved(queue[i].edits[b])
           /\ local'[b] = local[b] \/ Catches(i, b)
<1> DEFINE e == queue[i].edits[b]
<1>1. queue[i].phase = "admitted" /\ local'[b] = IF local[b].version < e.saved THEN Saved(e) ELSE local[b]
    BY DEF Learns, Saved
<1>2. server[b] = Saved(e) /\ (local[b] = Saved(e) \/ Lags(b, e))
    BY <1>1 DEF Alone, Placed, InPlace
<1>3. Saved(e).version = e.saved /\ e.saved \in Nat /\ e.version \in Nat
    BY Numbers
<1> HIDE DEF e
<1>4. CASE local[b] = Saved(e)
    BY <1>1, <1>3, <1>4 DEF e
<1>5. CASE Lags(b, e)
  <2>1. local[b].version < e.saved
      BY <1>3, <1>5 DEF Lags
  <2>2. QED
      BY <1>1, <1>2, <1>5, <2>1 DEF Catches, e
<1>6. QED
    BY <1>2, <1>4, <1>5

LEMMA InstallsAlone ==
    ASSUME Shape, NEW b \in Blocks, Base(b), Alone(b), others[b] = {},
           Installs, ~reading.stale, ~Pending(b), local[b].version <= reading.texts[b].version,
           local'[b] = reading.texts[b]
    PROVE  local'[b] = local[b] \/ \E i \in DOMAIN queue : Catches(i, b)
<1>1. Clean(b)
    BY DEF Pending, Clean, Waits, Mine
<1>2. reading # NoRead /\ reading \in [texts : [Blocks -> State], stale : BOOLEAN]
    BY DEF Installs, Shape
<1>3. reading.texts[b] \in State /\ reading.texts[b].version \in Nat
    BY <1>2 DEF State
<1>4. Past(reading.texts[b], b)
    BY <1>2 DEF Base, ReadPast
<1>5. local[b].version \in Nat /\ server[b].version \in Nat
    BY Numbers
<1>6. CASE local[b] = server[b]
    BY <1>3, <1>4, <1>5, <1>6 DEF Past
<1>7. ASSUME NEW i \in DOMAIN queue, On(i, b), queue[i].phase = "admitted", local[b] # server[b]
      PROVE  local'[b] = local[b] \/ Catches(i, b)
  <2>1. server[b] = Saved(queue[i].edits[b]) /\ Lags(b, queue[i].edits[b])
      BY <1>7 DEF Alone, Placed, InPlace
  <2>2. server[b].version = local[b].version + 1
      BY <1>7, <2>1, Numbers DEF Lags
  <2>3. CASE reading.texts[b].version = local[b].version
      BY <1>1, <1>2, <2>3 DEF Alone, Fresh
  <2>4. CASE reading.texts[b].version = server[b].version
      BY <1>4, <1>7, <2>1, <2>4 DEF Past, Catches
  <2>5. QED
      BY <1>3, <1>4, <1>5, <2>2, <2>3, <2>4 DEF Past
<1>8. QED
    BY <1>1, <1>6, <1>7 DEF Alone, InStep, Told

LEMMA LocalAlone ==
    ASSUME Shape, Effect, NEW b \in Blocks, Base(b), Alone(b), others[b] = {}
    PROVE  \/ local'[b] = local[b]
           \/ \E i \in DOMAIN queue, e \in Edit : Saves(i, b, e)
           \/ \E i \in DOMAIN queue : Catches(i, b)
BY LocalMoves, LearnsAlone, InstallsAlone

LEMMA SavesAlone ==
    ASSUME Shape, NEW b \in Blocks, NEW i \in DOMAIN queue, NEW e \in Edit, Saves(i, b, e)
    PROVE  /\ local'[b] = Saved(e) /\ e.version = local[b].version /\ e.saved = local'[b].version
           /\ local'[b] = local[b] \/ local'[b].version = local[b].version + 1
<1>1. /\ e.version = local[b].version /\ e.saved = Edited(local[b], e.text).version /\ e.text \in Texts
      /\ local'[b] = Edited(local[b], e.text)
    BY DEF Saves, Shape, Edit
<1>2. local[b] \in State /\ local[b].version \in Nat
    BY Numbers
<1>3. local'[b] = Saved(e)
    BY <1>1, <1>2, EditedSaved
<1>4. local'[b] = local[b] \/ local'[b].version = local[b].version + 1
    BY <1>1, <1>2, EditedState
<1>5. QED
    BY <1>1, <1>3, <1>4

LEMMA LocalRises ==
    ASSUME Shape, Effect, NEW b \in Blocks, Base(b), Alone(b), others[b] = {}
    PROVE  /\ local'[b] = local[b] \/ local'[b].version = local[b].version + 1
           /\ local[b].version \in Nat /\ local'[b].version \in Nat /\ local[b].version <= local'[b].version
<1>1. local[b].version \in Nat
    BY Numbers
<1>2. ASSUME NEW i \in DOMAIN queue, Catches(i, b) PROVE local'[b].version = local[b].version + 1
    BY <1>2, Numbers DEF Catches, Lags
<1>3. local'[b] = local[b] \/ local'[b].version = local[b].version + 1
    BY <1>2, LocalAlone, SavesAlone
<1>4. QED
    BY <1>1, <1>3

\* A command that comes first of its lane has seen all that the replica took.
LEMMA CaughtUp ==
    ASSUME Shape, OwnPast, Laned, NEW b \in Blocks, Alone(b), others[b] = {},
           NEW i \in DOMAIN queue, On(i, b), queue[i].phase = "waiting", First(i)
    PROVE  AfterOwnWrites(b, queue[i].edits[b]).version = local[b].version
<1>1. queue[i].edits[b] \in Edit /\ queue[i].edits[b].version \in Nat /\ local[b].version \in Nat
    BY Numbers
<1>2. PICK e \in Edit : e = queue[i].edits[b]
    BY <1>1
<1>3. PICK v : v = AfterOwnWrites(b, e).version
    OBVIOUS
<1>4. /\ v \in Nat /\ e.version <= v /\ <<b, v>> \notin own
      /\ \A u \in Nat : e.version <= u /\ u < v => <<b, u>> \in own
    BY <1>3, MovedOn DEF Edit
<1>5. e.version <= local[b].version
    BY <1>2 DEF Alone, Placed, InPlace
<1>6. ASSUME v < local[b].version PROVE FALSE
  <2>1. OwnWrite(b, v)
      BY <1>4, <1>6 DEF Alone, AllOwn
  <2>2. PICK j \in DOMAIN queue : On(j, b) /\ Done(j)
      BY <1>4, <2>1 DEF OwnWrite
  <2>3. i = j
      BY <2>2, Alike DEF Done
  <2>4. QED
      BY <2>2, <2>3 DEF Done
<1>7. ASSUME local[b].version < v PROVE FALSE
  <2>1. <<b, local[b].version>> \in own
      BY <1>1, <1>4, <1>5, <1>7
  <2>2. QED
      BY <1>1, <2>1 DEF OwnPast
<1>8. QED
    BY <1>1, <1>2, <1>3, <1>4, <1>6, <1>7

\* A run on its way finds the text it was written over.
LEMMA SentLevel ==
    ASSUME Shape, Laned, NEW b \in Blocks, Alone(b), others[b] = {},
           NEW i \in DOMAIN queue, On(i, b), queue[i].phase = "sent" \/ First(i),
           queue[i].phase \in {"waiting", "sent"}, ~Waits(b)
    PROVE  local[b] = server[b]
<1>1. Clean(b)
    BY DEF Clean, Alone
<1>2. ASSUME Told(b) PROVE FALSE
  <2>1. PICK j \in DOMAIN queue : On(j, b) /\ queue[j].phase = "admitted"
      BY <1>2 DEF Told
  <2>2. i = j
      BY <2>1, Alike
  <2>3. QED
      BY <2>1, <2>2
<1>3. QED
    BY <1>1, <1>2 DEF Alone, InStep

\* What is refused was written elsewhere.
LEMMA RefusedFairly ==
    ASSUME Shape, OwnPast, Laned, \A b \in Blocks : Alone(b), NEW i \in DOMAIN queue, Refuses(i)
    PROVE  \E b \in DOMAIN queue[i].edits : others[b] # {}
<1>1. \A b \in DOMAIN queue[i].edits : b \in Blocks /\ On(i, b)
    BY QueueShape DEF On
<1>2. ASSUME queue[i].phase = "waiting", First(i), NEW b \in Blocks, DOMAIN queue[i].edits = {b},
             local[b].version # AfterOwnWrites(b, queue[i].edits[b]).version
      PROVE  others[b] # {}
    BY <1>1, <1>2, CaughtUp
<1>3. ASSUME queue[i].phase = "sent", \A n \in DOMAIN outbox : outbox[n].block \notin DOMAIN queue[i].edits,
             NEW b \in DOMAIN queue[i].edits, b \in paused \/ server[b].version # queue[i].edits[b].version
      PROVE  others[b] # {}
  <2>1. SUFFICES ASSUME others[b] = {} PROVE FALSE
      OBVIOUS
  <2>2. b \in Blocks /\ On(i, b) /\ Alone(b)
      BY <1>1
  <2>3. b \notin paused /\ queue[i].edits[b].version = local[b].version
      BY <1>3, <2>1, <2>2 DEF Alone, Placed, InPlace
  <2>4. local[b] = server[b]
      BY <1>3, <2>1, <2>2, SentLevel DEF Waits, Mine
  <2>5. QED
      BY <1>3, <2>3, <2>4
<1>4. QED
    BY <1>2, <1>3 DEF Refuses, Blamed

LEMMA UnpausedStep ==
    ASSUME Shape, Effect, NEW b \in Blocks, Alone(b), others[b] = {}
    PROVE  b \notin paused'
<1>1. ASSUME Pauses(b) PROVE FALSE
  <2>1. Advances /\ outbox[1].block = b /\ (b \in paused \/ server[b].version # outbox[1].edit.version)
      BY <1>1 DEF Pauses
  <2>2. 1 \in DOMAIN outbox /\ FirstOf(1, b)
      BY <2>1, ShiftFirst
  <2>3. QED
      BY <2>1, <2>2 DEF Alone, HeadOn
<1>2. b \notin paused
    BY DEF Alone
<1>3. QED
    BY <1>1, <1>2, StoreMoves DEF Saves, Delivers

LEMMA HeadOnStep ==
    ASSUME Shape, Shape', Laned, Effect, NEW b \in Blocks, Base(b), Alone(b), others[b] = {}, others'[b] = {}
    PROVE  HeadOn(b)'
<1>1. SUFFICES ASSUME NEW n \in DOMAIN outbox', FirstOf(n, b)' PROVE outbox'[n].edit.version = server'[b].version
    BY DEF HeadOn
<1>2. b \notin paused /\ HeadOn(b)
    BY DEF Alone
<1>3. Linked(b) /\ Headed(b)
    BY <1>2 DEF Base, Chain
<1>4. Mine(n, b)'
    BY <1>1, Primed
<1>5. CASE /\ StaySame(b)
           /\ \/ server'[b] = server[b]
              \/ Intrudes(b)
              \/ \E i \in DOMAIN queue, f \in EditSets : Admits(i, f) /\ b \in DOMAIN f
  <2>1. PICK d \in {0, 1} : n + d \in DOMAIN outbox /\ outbox'[n] = outbox[n + d] /\ Mine(n + d, b) /\ FirstOf(n + d, b)
      BY <1>1, <1>4, <1>5, ShiftSame
  <2>2. outbox[n + d].edit.version = server[b].version
      BY <1>2, <2>1 DEF HeadOn
  <2>3. ~Intrudes(b)
    <3>1. Intrudes(b) => server'[b].version \in others'[b]
        BY DEF Intrudes
    <3>2. QED
        BY <3>1
  <2>4. ~\E i \in DOMAIN queue, f \in EditSets : Admits(i, f) /\ b \in DOMAIN f
      BY <2>1 DEF Admits, Mine
  <2>5. QED
      BY <1>5, <2>1, <2>2, <2>3, <2>4
<1>6. ASSUME NEW i \in DOMAIN queue, NEW e \in Edit, Saves(i, b, e) PROVE outbox'[n].edit.version = server'[b].version
  <2>1. PICK l : l = Len(outbox) + 1
      OBVIOUS
  <2>2. /\ outbox'[l].edit = e /\ \A m \in DOMAIN outbox : outbox'[m] = outbox[m]
        /\ IF n = l THEN ~Waits(b) ELSE n \in DOMAIN outbox /\ FirstOf(n, b)
      BY <1>1, <1>6, <2>1, ShiftLast
  <2>3. server' = server /\ e.version = local[b].version /\ On(i, b) /\ First(i) /\ queue[i].phase = "waiting"
      BY <1>6 DEF Saves, On
  <2>4. CASE n = l
      BY <2>2, <2>3, <2>4, SentLevel
  <2>5. CASE n # l
      BY <1>2, <2>2, <2>3, <2>5 DEF HeadOn
  <2>6. QED
      BY <2>4, <2>5
<1>7. ASSUME NEW e \in Edit, Delivers(b, e) PROVE outbox'[n].edit.version = server'[b].version
  <2>1. Advances /\ outbox[1].block = b /\ outbox[1].edit = e /\ server[b].version = e.version
        /\ server'[b] = Edited(server[b], e.text)
      BY <1>7 DEF Delivers
  <2>2. /\ 1 \in DOMAIN outbox /\ FirstOf(1, b) /\ n + 1 \in DOMAIN outbox /\ outbox'[n] = outbox[n + 1]
        /\ Follows(1, n + 1, b)
      BY <1>1, <2>1, ShiftFirst
  <2>3. outbox[n + 1].edit.version = e.saved /\ e.saved = Edited(server[b], e.text).version
      BY <1>3, <2>1, <2>2 DEF Linked, Headed
  <2>4. QED
      BY <2>1, <2>2, <2>3
<1>8. ~Pauses(b)
    BY UnpausedStep DEF Pauses
<1>9. QED
    BY <1>5, <1>6, <1>7, <1>8, StoreMoves

\* InPlace, of the next state.
InPlaceNext(b, phase, e) ==
    /\ phase = "waiting"  => e.version <= local'[b].version
    /\ phase = "sent"     => e.version = local'[b].version
    /\ phase = "admitted" => /\ server'[b] = Saved(e)
                             /\ local'[b] = Saved(e) \/ (local'[b].version = e.version /\ e.saved = e.version + 1)
    /\ phase = "applied"  => local'[b] = Saved(e)

\* While a block is not written elsewhere, only this controller's commands move the server's text.
LEMMA ServerAlone ==
    ASSUME Shape, Effect, NEW b \in Blocks, others'[b] = {}
    PROVE  \/ server'[b] = server[b]
           \/ \E i \in DOMAIN queue, f \in EditSets : Admits(i, f) /\ b \in DOMAIN f
           \/ \E e \in Edit : Delivers(b, e)
<1>1. ~Intrudes(b)
  <2>1. Intrudes(b) => server'[b].version \in others'[b]
      BY DEF Intrudes
  <2>2. QED
      BY <2>1
<1>2. QED
    BY <1>1, StoreMoves DEF Saves, Pauses

LEMMA PlacedKept ==
    ASSUME Shape, Laned, Effect, NEW b \in Blocks, Base(b), Alone(b), others[b] = {}, others'[b] = {},
           NEW i \in DOMAIN queue, On(i, b)
    PROVE  InPlaceNext(b, queue[i].phase, queue[i].edits[b])
<1> DEFINE e == queue[i].edits[b]
           phase == queue[i].phase
<1>1. InPlace(b, phase, e)
    BY DEF Alone, Placed
<1>2. e.version \in Nat /\ local[b].version \in Nat /\ local'[b].version \in Nat /\ local[b].version <= local'[b].version
    BY Numbers, LocalRises
<1>3. ASSUME NEW j \in DOMAIN queue, NEW x \in Edit, Saves(j, b, x), phase # "waiting" PROVE FALSE
  <2>1. On(j, b) /\ First(j) /\ queue[j].phase = "waiting"
      BY <1>3 DEF Saves, On
  <2>2. QED
      BY <1>3, <2>1, Alike
<1>4. ASSUME NEW j \in DOMAIN queue, Catches(j, b), phase \notin {"waiting", "admitted"} PROVE FALSE
  <2>1. On(j, b) /\ queue[j].phase = "admitted"
      BY <1>4 DEF Catches
  <2>2. QED
      BY <1>4, <2>1, Alike
<1>5. CASE phase = "waiting"
    BY <1>1, <1>2, <1>5 DEF InPlace, InPlaceNext
<1>6. CASE phase \in {"sent", "applied"}
  <2>1. local'[b] = local[b]
      BY <1>3, <1>4, <1>6, LocalAlone
  <2>2. QED
      BY <1>1, <1>6, <2>1 DEF InPlace, InPlaceNext
<1>7. CASE phase = "admitted"
  <2>1. Clean(b)
      BY <1>7 DEF Base, AdmitPast
  <2>2. ASSUME NEW x \in Edit, Delivers(b, x) PROVE FALSE
      BY <2>1, <2>2 DEF Delivers, Advances, Clean, Waits, Mine
  <2>3. ASSUME NEW j \in DOMAIN queue, NEW f \in EditSets, Admits(j, f), b \in DOMAIN f PROVE FALSE
    <3>1. On(j, b) /\ queue[j].phase = "sent"
        BY <2>3 DEF Admits, On
    <3>2. QED
        BY <1>7, <3>1, Alike
  <2>4. server'[b] = server[b]
      BY <2>2, <2>3, ServerAlone
  <2>5. CASE local'[b] = local[b]
      BY <1>1, <1>7, <2>4, <2>5 DEF InPlace, InPlaceNext, Lags
  <2>6. ASSUME NEW j \in DOMAIN queue, Catches(j, b) PROVE local'[b] = server[b]
      BY <2>6 DEF Catches
  <2>7. CASE local'[b] = server[b]
      BY <1>1, <1>7, <2>4, <2>7 DEF InPlace, InPlaceNext
  <2>8. QED
      BY <1>3, <1>7, <2>5, <2>6, <2>7, LocalAlone
<1>8. CASE phase \notin {"waiting", "sent", "applied", "admitted"}
    BY <1>8 DEF InPlaceNext
<1>9. QED
    BY <1>5, <1>6, <1>7, <1>8

LEMMA PlacedStep ==
    ASSUME Shape, Shape', OwnPast, Laned, Effect, NEW b \in Blocks, Base(b), Alone(b), others[b] = {}, others'[b] = {}
    PROVE  Placed(b)'
<1> DEFINE Good(j) == b \in DOMAIN queue'[j].edits => InPlaceNext(b, queue'[j].phase, queue'[j].edits[b])
<1>1. Placed(b)' <=> \A j \in DOMAIN queue' : Good(j)
    BY DEF Placed, InPlace, InPlaceNext, On, Lags, Saved
<1>2. \A i \in DOMAIN queue, j \in DOMAIN queue' : queue'[j] = queue[i] => Good(j)
    BY PlacedKept DEF On
<1>3. /\ local[b].version \in Nat /\ local'[b].version \in Nat /\ local[b].version <= local'[b].version
    BY LocalRises
<1> HIDE DEF Good
<1>4. CASE UNCHANGED queue
    BY <1>1, <1>2, <1>4
<1>5. ASSUME NEW c \in Commands, Joins(c) PROVE Placed(b)'
  <2>1. DOMAIN queue = 1..Len(queue) /\ Len(queue) \in Nat
      BY QueueShape
  <2>2. \A j \in DOMAIN queue' : j \in DOMAIN queue \/ j = Len(queue) + 1
      BY <2>1, <1>5 DEF Joins, Appended
  <2>3. queue'[Len(queue) + 1] = c /\ c.phase = "waiting" /\ local' = local
      BY <1>5 DEF Joins, Appended, storeVars
  <2>4. ASSUME b \in DOMAIN c.edits PROVE c.edits[b].version <= local[b].version
    <3>1. c.edits[b].version = shown[b].version \/ (HasDraft(b) /\ c.edits[b].version = draft[b].version)
        BY <1>5, <2>4 DEF Joins, AsShown
    <3>2. QED
        BY <3>1 DEF Alone, Viewed, UpTo, Begun
  <2>5. Good(Len(queue) + 1)
      BY <2>3, <2>4 DEF Good, InPlaceNext
  <2>6. QED
      BY <1>1, <1>2, <1>5, <2>2, <2>5 DEF Joins, Appended
<1>6. ASSUME NEW i \in DOMAIN queue, Removed(i) PROVE Placed(b)'
    BY <1>1, <1>2, <1>6, RemovedFrom
<1>7. ASSUME NEW i \in DOMAIN queue, NEW p, NEW f, Turned(i, p, f), b \in DOMAIN f => InPlaceNext(b, p, f[b])
      PROVE  Placed(b)'
  <2>1. Good(i)
      BY <1>7 DEF Turned, Good
  <2>2. QED
      BY <1>1, <1>2, <1>7, <2>1 DEF Turned
<1>8. ASSUME NEW i \in DOMAIN queue, Refuses(i) PROVE Placed(b)'
  <2>1. InPlaceNext(b, "refused", queue[i].edits[b])
      BY DEF InPlaceNext
  <2>2. QED
      BY <1>7, <1>8, <2>1 DEF Refuses
<1>9. ASSUME NEW i \in DOMAIN queue, NEW x \in Blocks, NEW e \in Edit, Saves(i, x, e) PROVE Placed(b)'
  <2>1. PICK f : f = queue'[i].edits
      OBVIOUS
  <2>2. Turned(i, "applied", f) /\ DOMAIN f = {x} /\ f[x] = e
      BY <1>9, <2>1 DEF Saves, Turned
  <2>3. x = b => local'[b] = Saved(e)
      BY <1>9, SavesAlone
  <2>4. b \in DOMAIN f => InPlaceNext(b, "applied", f[b])
      BY <2>2, <2>3 DEF InPlaceNext
  <2>5. QED
      BY <1>7, <2>2, <2>4
<1>10. ASSUME NEW i \in DOMAIN queue, NEW f \in EditSets, Sends(i, f) PROVE Placed(b)'
  <2>1. ASSUME b \in DOMAIN f PROVE f[b].version = local[b].version
    <3>1. On(i, b) /\ queue[i].phase = "waiting" /\ First(i) /\ f[b] = AfterOwnWrites(b, queue[i].edits[b])
        BY <1>10, <2>1 DEF Sends, On
    <3>2. QED
        BY <3>1, CaughtUp
  <2>2. local' = local /\ Turned(i, "sent", f)
      BY <1>10 DEF Sends, Idle, storeVars
  <2>3. QED
      BY <1>7, <2>1, <2>2 DEF InPlaceNext
<1>11. ASSUME NEW i \in DOMAIN queue, NEW f \in EditSets, Admits(i, f) PROVE Placed(b)'
  <2>1. ASSUME b \in DOMAIN f PROVE InPlaceNext(b, "admitted", f[b])
    <3>1. /\ queue[i].phase = "sent" /\ On(i, b) /\ ~Waits(b)
          /\ f[b].version = server[b].version /\ f[b].saved = server'[b].version /\ f[b] \in Edit
          /\ f[b].text = queue[i].edits[b].text /\ server'[b] = Edited(server[b], f[b].text)
          /\ local' = local
        BY <1>11, <2>1 DEF Admits, On, Waits, Mine
    <3>2. local[b] = server[b]
        BY <3>1, SentLevel
    <3>3. server[b] \in State /\ f[b].text \in Texts /\ server[b].version \in Nat
        BY <3>1, Numbers DEF Edit
    <3>4. server'[b] = Saved(f[b])
        BY <3>1, <3>3, EditedSaved
    <3>5. CASE server[b].text = f[b].text
        BY <3>1, <3>2, <3>3, <3>4, <3>5, EditedState DEF InPlaceNext
    <3>6. CASE server[b].text # f[b].text
      <4>1. f[b].saved = f[b].version + 1
          BY <3>1, <3>3, <3>6, EditedState
      <4>2. QED
          BY <3>1, <3>2, <3>4, <4>1 DEF InPlaceNext
    <3>7. QED
        BY <3>5, <3>6
  <2>2. QED
      BY <1>7, <1>11, <2>1 DEF Admits
<1>12. ASSUME NEW i \in DOMAIN queue, Learns(i) PROVE Placed(b)'
  <2>1. ASSUME b \in DOMAIN queue[i].edits PROVE local'[b] = Saved(queue[i].edits[b])
      BY <1>12, <2>1, LearnsAlone DEF On
  <2>2. QED
      BY <1>7, <1>12, <2>1 DEF Learns, InPlaceNext
<1>13. ASSUME NEW i \in DOMAIN queue, Drops(i) \/ Acknowledges(i) PROVE Placed(b)'
    BY <1>6, <1>13 DEF Drops, Acknowledges
<1>14. ASSUME \/ UNCHANGED vars \/ Reshows \/ Asks \/ Installs
              \/ \E x \in Blocks : \/ Clears(x) \/ Intrudes(x) \/ Pauses(x)
                                   \/ \E t \in Texts : Types(x, t)
                                   \/ \E e \in Edit : Delivers(x, e)
       PROVE  UNCHANGED queue
    BY <1>14 DEF vars, Types, Clears, Intrudes, Pauses, Delivers, Reshows, Asks, Installs
<1>15. QED
    BY <1>4, <1>5, <1>8, <1>9, <1>10, <1>11, <1>12, <1>13, <1>14 DEF Effect

LEMMA ToldKept ==
    ASSUME Shape, Effect, NEW b \in Blocks, NEW i \in DOMAIN queue, On(i, b), queue[i].phase = "admitted"
    PROVE  Told(b)' \/ Learns(i)
<1>1. Told(b)' <=> \E j \in DOMAIN queue' : b \in DOMAIN queue'[j].edits /\ queue'[j].phase = "admitted"
    BY DEF Told, On
<1>2. ASSUME NEW j \in DOMAIN queue', queue'[j] = queue[i] PROVE Told(b)'
    BY <1>1, <1>2 DEF On
<1>3. ASSUME NEW j \in DOMAIN queue, Removed(j), queue[j].phase # "admitted" PROVE Told(b)'
    BY <1>2, <1>3, RemovedFrom
<1>4. ASSUME NEW j \in DOMAIN queue, NEW p, NEW f, Turned(j, p, f), i # j PROVE Told(b)'
    BY <1>2, <1>4 DEF Turned
<1>5. ASSUME NEW c \in Commands, Joins(c) PROVE Told(b)'
    BY <1>2, <1>5, QueueShape DEF Joins, Appended
<1>6. ASSUME NEW j \in DOMAIN queue, Drops(j) \/ Acknowledges(j) PROVE Told(b)'
    BY <1>3, <1>6 DEF Drops, Acknowledges
<1>7. ASSUME NEW j \in DOMAIN queue, Refuses(j) PROVE Told(b)'
    BY <1>4, <1>7 DEF Refuses, Blamed
<1>8. ASSUME NEW j \in DOMAIN queue, NEW x \in Blocks, NEW e \in Edit, Saves(j, x, e) PROVE Told(b)'
  <2>1. PICK f : f = [queue[j].edits EXCEPT ![x] = e]
      OBVIOUS
  <2>2. Turned(j, "applied", f) /\ queue[j].phase = "waiting"
      BY <1>8, <2>1 DEF Saves
  <2>3. QED
      BY <1>4, <2>2
<1>9. ASSUME NEW j \in DOMAIN queue, NEW f \in EditSets, Sends(j, f) \/ Admits(j, f) PROVE Told(b)'
    BY <1>4, <1>9 DEF Sends, Admits
<1>10. ASSUME NEW j \in DOMAIN queue, Learns(j) PROVE Told(b)' \/ Learns(i)
    BY <1>4, <1>10 DEF Learns
<1>11. ASSUME \/ UNCHANGED vars \/ Reshows \/ Asks \/ Installs
              \/ \E x \in Blocks : \/ Clears(x) \/ Intrudes(x) \/ Pauses(x)
                                   \/ \E t \in Texts : Types(x, t)
                                   \/ \E e \in Edit : Delivers(x, e)
       PROVE  Told(b)'
  <2>1. UNCHANGED queue
      BY <1>11 DEF vars, Types, Clears, Intrudes, Pauses, Delivers, Reshows, Asks, Installs
  <2>2. QED
      BY <1>2, <2>1
<1>12. QED
    BY <1>5, <1>6, <1>7, <1>8, <1>9, <1>10, <1>11 DEF Effect

LEMMA InStepStep ==
    ASSUME Shape, Shape', Laned, Effect, NEW b \in Blocks, Base(b), Alone(b), others[b] = {}, others'[b] = {}
    PROVE  InStep(b)'
<1>1. SUFFICES ASSUME Clean(b)', ~Told(b)' PROVE local'[b] = server'[b]
    BY DEF InStep
<1>2. ASSUME NEW e \in Edit, Delivers(b, e) PROVE local'[b] = server'[b]
  <2>1. b \notin paused /\ Advances /\ outbox[1].block = b /\ outbox[1].edit = e /\ server[b].version = e.version
        /\ server'[b] = Edited(server[b], e.text) /\ local' = local
      BY <1>2 DEF Delivers
  <2>2. Headed(b) /\ Tailed(b)
      BY <2>1 DEF Base, Chain
  <2>3. \A n \in DOMAIN outbox' : ~Mine(n, b)'
      BY <1>1, Primed DEF Clean, Waits, Mine
  <2>4. 1 \in DOMAIN outbox /\ FirstOf(1, b) /\ LastOf(1, b)
      BY <2>1, <2>3, ShiftFirst
  <2>5. e.saved = Edited(server[b], e.text).version /\ local[b] = Saved(e)
      BY <2>1, <2>2, <2>4 DEF Headed, Tailed
  <2>6. QED
      BY <2>1, <2>5, Numbers, EditedSaved
<1>3. CASE Clean(b)
  <2>1. ASSUME NEW i \in DOMAIN queue, NEW f \in EditSets, Admits(i, f), b \in DOMAIN f PROVE FALSE
    <3>1. i \in DOMAIN queue' /\ queue'[i].phase = "admitted" /\ queue'[i].edits = f
        BY <2>1 DEF Admits, Turned
    <3>2. QED
        BY <1>1, <2>1, <3>1 DEF Told, On
  <2>2. ASSUME NEW e \in Edit, Delivers(b, e) PROVE FALSE
      BY <1>3, <2>2 DEF Delivers, Advances, Clean, Waits, Mine
  <2>3. server'[b] = server[b]
      BY <2>1, <2>2, ServerAlone
  <2>4. ASSUME NEW i \in DOMAIN queue, NEW e \in Edit, Saves(i, b, e) PROVE FALSE
      BY <1>1, <2>4, OutboxAppended DEF Clean, Waits, Mine
  <2>5. ASSUME NEW i \in DOMAIN queue, Catches(i, b) PROVE local'[b] = server'[b]
      BY <2>3, <2>5 DEF Catches
  <2>6. CASE local'[b] = local[b]
    <3>1. CASE local[b] = server[b]
        BY <2>3, <2>6, <3>1
    <3>2. ASSUME NEW i \in DOMAIN queue, On(i, b), queue[i].phase = "admitted" PROVE local'[b] = server'[b]
      <4>1. Learns(i)
          BY <1>1, <3>2, ToldKept
      <4>2. local'[b] = Saved(queue[i].edits[b])
          BY <3>2, <4>1, LearnsAlone
      <4>3. server[b] = Saved(queue[i].edits[b])
          BY <3>2 DEF Alone, Placed, InPlace
      <4>4. QED
          BY <2>3, <4>2, <4>3
    <3>3. QED
        BY <1>3, <3>1, <3>2 DEF Alone, InStep, Told
  <2>7. QED
      BY <2>4, <2>5, <2>6, LocalAlone
<1>4. QED
    BY <1>1, <1>2, <1>3, CleanKept

LEMMA AllOwnStep ==
    ASSUME Shape, Effect, NEW b \in Blocks, Base(b), Alone(b), others[b] = {}
    PROVE  AllOwn(b)'
<1>1. SUFFICES ASSUME NEW u \in Nat, u < local'[b].version PROVE OwnWrite(b, u)'
    BY DEF AllOwn
<1>2. CASE u < local[b].version
  <2>1. OwnWrite(b, u)
      BY <1>2 DEF Alone, AllOwn
  <2>2. QED
      BY <2>1, OwnWriteKept
<1>3. CASE ~(u < local[b].version)
  <2>1. u = local[b].version /\ local'[b].version = local[b].version + 1
      BY <1>1, <1>3, LocalRises
  <2>2. ASSUME NEW i \in DOMAIN queue, NEW e \in Edit, Saves(i, b, e) PROVE OwnWrite(b, u)'
    <3>1. e.version = u /\ e.saved = u + 1
        BY <2>1, <2>2, SavesAlone
    <3>2. i \in DOMAIN queue' /\ queue'[i].phase = "applied" /\ DOMAIN queue'[i].edits = {b} /\ queue'[i].edits[b] = e
        BY <2>2 DEF Saves, Turned
    <3>3. OwnWriteNext(b, u)
        BY <3>1, <3>2 DEF OwnWriteNext, Made
    <3>4. QED
        BY <3>3, NextPrimed
  <2>3. ASSUME NEW i \in DOMAIN queue, Catches(i, b) PROVE OwnWrite(b, u)'
    <3>1. On(i, b) /\ Done(i) /\ Made(queue[i].edits[b], u)
        BY <2>1, <2>3 DEF Catches, Lags, Made, Done
    <3>2. OwnWrite(b, u)
        BY <3>1 DEF OwnWrite
    <3>3. QED
        BY <3>2, OwnWriteKept
  <2>4. local'[b] # local[b]
      BY <2>1, LocalRises
  <2>5. QED
      BY <2>2, <2>3, <2>4, LocalAlone
<1>4. QED
    BY <1>2, <1>3

LEMMA BegunStep ==
    ASSUME Shape, Effect, NEW b \in Blocks, Base(b), Alone(b), others[b] = {}
    PROVE  Begun(b)'
<1>1. /\ local[b].version <= local'[b].version /\ local[b].version \in Nat /\ local'[b].version \in Nat
      /\ draft[b].version \in Nat /\ shown[b].version \in Nat
    BY LocalRises, Numbers
<1>2. /\ HasDraft(b) => draft[b].version <= local[b].version
      /\ shown[b].version <= local[b].version
    BY DEF Alone, Begun, Viewed, UpTo
<1>3. SUFFICES ASSUME HasDraft(b)' PROVE draft'[b].version <= local'[b].version
    BY DEF Begun
<1>4. CASE draft'[b] = draft[b]
    BY <1>1, <1>2, <1>3, <1>4 DEF HasDraft
<1>5. ASSUME NEW x \in Blocks, NEW t \in Texts, Types(x, t) PROVE draft'[b].version <= local'[b].version
  <2>1. CASE x = b
      BY <1>1, <1>2, <1>5, <2>1 DEF Types
  <2>2. CASE x # b
      BY <1>4, <1>5, <2>2 DEF Types
  <2>3. QED
      BY <2>1, <2>2
<1>6. ASSUME NEW x \in Blocks, Clears(x) PROVE draft'[b].version <= local'[b].version
    BY <1>3, <1>4, <1>6 DEF Clears, HasDraft
<1>7. ASSUME NEW c \in Commands, Joins(c) PROVE draft'[b].version <= local'[b].version
  <2>1. HasDraft(b) /\ draft'[b].version \in {draft[b].version, shown[b].version}
      BY <1>3, <1>7 DEF Joins
  <2>2. QED
      BY <1>1, <1>2, <2>1
<1>8. ASSUME NEW i \in DOMAIN queue, Acknowledges(i) PROVE draft'[b].version <= local'[b].version
  <2>1. CASE On(i, b)
    <3>1. draft'[b] = Settled(b, queue[i].edits[b]) /\ queue[i].edits[b] \in Edit /\ draft'[b] # NoDraft
        BY <1>3, <1>8, <2>1, Numbers DEF Acknowledges, HasDraft
    <3>2. HasDraft(b) /\ (draft'[b].version = draft[b].version \/ draft'[b].version = queue[i].edits[b].saved)
        BY <3>1, SettledDraft
    <3>3. local[b] = Saved(queue[i].edits[b])
        BY <1>8, <2>1 DEF Acknowledges, Alone, Placed, InPlace
    <3>4. queue[i].edits[b].saved = local[b].version
        BY <2>1, <3>3, Numbers
    <3>5. QED
        BY <1>1, <1>2, <3>2, <3>4
  <2>2. CASE ~On(i, b)
      BY <1>4, <1>8, <2>2 DEF Acknowledges
  <2>3. QED
      BY <2>1, <2>2
<1>9. ASSUME NEW i \in DOMAIN queue,
             \/ Drops(i) \/ Refuses(i) \/ Learns(i)
             \/ \E f \in EditSets : Sends(i, f) \/ Admits(i, f)
             \/ \E x \in Blocks, e \in Edit : Saves(i, x, e)
      PROVE  draft' = draft
    BY <1>9 DEF Drops, Refuses, Idle, Saves, Sends, Admits, Learns
<1>10. ASSUME \/ UNCHANGED vars \/ Reshows \/ Asks \/ Installs
              \/ \E x \in Blocks : Intrudes(x) \/ Pauses(x) \/ \E e \in Edit : Delivers(x, e)
       PROVE  draft' = draft
    BY <1>10 DEF vars, Intrudes, Pauses, Delivers, Reshows, Asks, Installs
<1>11. QED
    BY <1>4, <1>5, <1>6, <1>7, <1>8, <1>9, <1>10 DEF Effect

\* What is shown stays or becomes what the replica has.
LEMMA ShownAlone ==
    ASSUME Shape, Effect, NEW b \in Blocks, Base(b), Alone(b), others[b] = {}
    PROVE  /\ shown'[b] = shown[b] \/ shown'[b] = local'[b]
           /\ accepted'[b] = accepted[b] \/ accepted'[b] = local'[b]
           /\ Reshows => shown'[b] = local'[b]
<1>1. /\ local[b].version <= local'[b].version /\ local[b].version \in Nat /\ local'[b].version \in Nat
      /\ accepted[b].version \in Nat
    BY LocalRises, Numbers
<1>2. accepted[b].version <= local[b].version
    BY DEF Alone, Viewed, UpTo
<1>3. ASSUME Shows
      PROVE  shown'[b] = local'[b] /\ (accepted'[b] = accepted[b] \/ accepted'[b] = local'[b])
    BY <1>1, <1>2, <1>3 DEF Shows
<1>4. ASSUME NEW i \in DOMAIN queue, Acknowledges(i)
      PROVE  /\ shown'[b] = shown[b] \/ shown'[b] = local'[b]
             /\ accepted'[b] = accepted[b] \/ accepted'[b] = local'[b]
  <2>1. On(i, b) => local[b] = Saved(queue[i].edits[b])
      BY <1>4 DEF Acknowledges, Alone, Placed, InPlace
  <2>2. local' = local
      BY <1>4 DEF Acknowledges, storeVars
  <2>3. QED
      BY <1>4, <2>1, <2>2 DEF Acknowledges
<1>5. Reshows => Shows
    BY DEF Reshows
<1>6. Installs => Shows \/ UNCHANGED <<shown, accepted>>
    BY DEF Installs
<1>7. ASSUME NEW i \in DOMAIN queue,
             \/ Drops(i) \/ Refuses(i) \/ Learns(i)
             \/ \E f \in EditSets : Sends(i, f) \/ Admits(i, f)
             \/ \E x \in Blocks, e \in Edit : Saves(i, x, e)
      PROVE  UNCHANGED <<shown, accepted>>
    BY <1>7 DEF viewVars, Drops, Refuses, Idle, Saves, Sends, Admits, Learns
<1>8. ASSUME \/ UNCHANGED vars \/ Asks \/ \E c \in Commands : Joins(c)
             \/ \E x \in Blocks : \/ Intrudes(x) \/ Pauses(x) \/ Clears(x)
                                  \/ \E e \in Edit : Delivers(x, e)
                                  \/ \E t \in Texts : Types(x, t)
       PROVE  UNCHANGED <<shown, accepted>>
    BY <1>8 DEF vars, viewVars, Types, Clears, Joins, Intrudes, Pauses, Delivers, Asks
<1>9. QED
    BY <1>3, <1>4, <1>5, <1>6, <1>7, <1>8 DEF Effect

LEMMA ViewedStep ==
    ASSUME Shape, Effect, NEW b \in Blocks, Base(b), Alone(b), others[b] = {}
    PROVE  Viewed(b)'
<1>1. /\ local'[b] = local[b] \/ local'[b].version = local[b].version + 1
      /\ local[b].version \in Nat /\ local'[b].version \in Nat
      /\ shown[b].version \in Nat /\ accepted[b].version \in Nat
    BY LocalRises, Numbers
<1>2. UpTo(shown[b], b) /\ UpTo(accepted[b], b)
    BY DEF Alone, Viewed
<1>3. \A state : state.version \in Nat /\ UpTo(state, b) =>
          state.version <= local'[b].version /\ (state.version = local'[b].version => state = local'[b])
    BY <1>1 DEF UpTo
<1>4. /\ shown'[b].version <= local'[b].version /\ (shown'[b].version = local'[b].version => shown'[b] = local'[b])
      /\ accepted'[b].version <= local'[b].version /\ (accepted'[b].version = local'[b].version => accepted'[b] = local'[b])
    BY <1>1, <1>2, <1>3, ShownAlone
<1>5. QED
    BY <1>4 DEF Viewed, UpTo

LEMMA FreshStep ==
    ASSUME Shape, Effect, NEW b \in Blocks, Base(b), Alone(b), others[b] = {}
    PROVE  Fresh(b)'
<1>1. SUFFICES ASSUME reading' # NoRead, ~reading'.stale, Clean(b)', reading'.texts[b].version = local'[b].version
               PROVE  reading'.texts[b] = local'[b]
    BY DEF Fresh
<1>2. reading' # Overtaken
    BY <1>1, Overtakes
<1>3. ~Installs
    BY <1>1 DEF Installs
<1>4. CASE Asks
  <2>1. reading'.texts[b] = server[b] /\ local' = local /\ Clean(b)
      BY <1>1, <1>4 DEF Asks, storeVars, Clean, Waits, Mine
  <2>2. CASE local[b] = server[b]
      BY <2>1, <2>2
  <2>3. ASSUME NEW i \in DOMAIN queue, On(i, b), queue[i].phase = "admitted" PROVE local[b] = server[b]
    <3>1. server[b] = Saved(queue[i].edits[b]) /\ (local[b] = server[b] \/ Lags(b, queue[i].edits[b]))
        BY <2>3 DEF Alone, Placed, InPlace
    <3>2. ~Lags(b, queue[i].edits[b])
        BY <1>1, <2>1, <2>3, <3>1, Numbers DEF Lags
    <3>3. QED
        BY <3>1, <3>2
  <2>4. QED
      BY <2>1, <2>2, <2>3 DEF Alone, InStep, Told
<1>5. CASE UNCHANGED reading
  <2>1. Clean(b)
      BY <1>1, <1>2, CleanKept DEF Delivers
  <2>2. local'[b] = local[b]
      BY <1>2, <1>3, LocalAlone DEF Saves, Catches, Learns
  <2>3. QED
      BY <1>1, <1>5, <2>1, <2>2 DEF Alone, Fresh
<1>6. QED
    BY <1>2, <1>3, <1>4, <1>5, ReadingMoves

LEMMA AloneStep ==
    ASSUME Shape, Shape', OwnPast, Laned, Effect, NEW b \in Blocks, Base(b), Alone(b)
    PROVE  Alone(b)'
<1>1. SUFFICES ASSUME others'[b] = {}
               PROVE  /\ b \notin paused' /\ HeadOn(b)' /\ InStep(b)' /\ Placed(b)' /\ AllOwn(b)'
                      /\ Begun(b)' /\ Viewed(b)' /\ Fresh(b)'
    BY DEF Alone
<1>2. others[b] = {}
  <2>1. others'[b] = others[b] \/ Intrudes(b)
      BY StoreMoves DEF Saves, Delivers, Pauses, Admits, historyVars
  <2>2. QED
      BY <1>1, <2>1 DEF Intrudes
<1>3. QED
    BY <1>1, <1>2, UnpausedStep, HeadOnStep, InStepStep, PlacedStep, AllOwnStep, BegunStep, ViewedStep, FreshStep

-----------------------------------------------------------------------------
(* A person's own commands never refuse each other: OwnHarmony *)

LEMMA OthersGrow ==
    ASSUME Shape, Effect, NEW b \in Blocks
    PROVE  others[b] \subseteq others'[b]
<1>1. others'[b] = others[b] \/ Intrudes(b)
    BY StoreMoves DEF Saves, Delivers, Pauses, Admits, historyVars
<1>2. QED
    BY <1>1 DEF Intrudes

LEMMA HarmonyStep ==
    ASSUME Shape, OwnPast, Laned, Effect, \A b \in Blocks : Alone(b) /\ Alone(b)', OwnHarmony
    PROVE  OwnHarmony'
<1> DEFINE Fair(c) == c.phase = "refused" => \E b \in DOMAIN c.edits : others'[b] # {}
           Holds == \A j \in DOMAIN queue' : Fair(queue'[j])
<1>1. \A i \in DOMAIN queue : DOMAIN queue[i].edits \subseteq Blocks
    BY QueueShape
<1>2. \A i \in DOMAIN queue : Fair(queue[i])
    BY <1>1, OthersGrow DEF OwnHarmony
<1>3. \A b \in paused' : others'[b] # {}
  <2>1. paused' \subseteq Blocks
      BY ShapeStep DEF Shape
  <2>2. QED
      BY <2>1 DEF Alone
<1> HIDE DEF Fair
<1>4. UNCHANGED queue => Holds
    BY <1>2
<1>5. ASSUME NEW i \in DOMAIN queue, Removed(i) PROVE Holds
    BY <1>2, <1>5, RemovedFrom
<1>6. ASSUME NEW i \in DOMAIN queue, NEW p, NEW f, Turned(i, p, f), Fair(queue'[i]) PROVE Holds
    BY <1>2, <1>6 DEF Turned
<1>7. ASSUME NEW c \in Commands, Joins(c) PROVE Holds
  <2>1. DOMAIN queue = 1..Len(queue) /\ Len(queue) \in Nat
      BY QueueShape
  <2>2. \A j \in DOMAIN queue' : j \in DOMAIN queue \/ j = Len(queue) + 1
      BY <2>1, <1>7 DEF Joins, Appended
  <2>3. Fair(queue'[Len(queue) + 1])
      BY <1>7 DEF Joins, Appended, Fair
  <2>4. QED
      BY <1>2, <1>7, <2>2, <2>3 DEF Joins, Appended
<1>8. ASSUME NEW i \in DOMAIN queue, Refuses(i) PROVE Holds
  <2>1. PICK b \in DOMAIN queue[i].edits : others[b] # {}
      BY <1>8, RefusedFairly
  <2>2. others'[b] # {}
      BY <1>1, <2>1, OthersGrow
  <2>3. Fair(queue'[i])
      BY <1>8, <2>1, <2>2 DEF Refuses, Turned, Fair
  <2>4. QED
      BY <1>6, <1>8, <2>3 DEF Refuses
<1>9. ASSUME NEW i \in DOMAIN queue, NEW p \in {"sent", "admitted", "applied"}, NEW f, Turned(i, p, f) PROVE Holds
  <2>1. Fair(queue'[i])
      BY <1>9 DEF Turned, Fair
  <2>2. QED
      BY <1>6, <1>9, <2>1
<1> HIDE DEF Holds
<1>10. ASSUME NEW i \in DOMAIN queue,
              \/ Drops(i) \/ Learns(i) \/ Acknowledges(i)
              \/ \E f \in EditSets : Sends(i, f) \/ Admits(i, f)
              \/ \E x \in Blocks, e \in Edit : Saves(i, x, e)
       PROVE  Holds
    BY <1>5, <1>9, <1>10 DEF Drops, Learns, Acknowledges, Sends, Admits, Saves
<1>11. ASSUME \/ UNCHANGED vars \/ Reshows \/ Asks \/ Installs
              \/ \E x \in Blocks : \/ Clears(x) \/ Intrudes(x) \/ Pauses(x)
                                   \/ \E t \in Texts : Types(x, t)
                                   \/ \E e \in Edit : Delivers(x, e)
       PROVE  UNCHANGED queue
    BY <1>11 DEF vars, Types, Clears, Intrudes, Pauses, Delivers, Reshows, Asks, Installs
<1>12. Holds
    BY <1>4, <1>7, <1>8, <1>10, <1>11 DEF Effect
<1>13. QED
    BY <1>3, <1>12 DEF OwnHarmony, Holds, Fair

-----------------------------------------------------------------------------
(* The last text typed wins: LastTypedWins *)

\* The commands of a block stay as they are, in their order, but for one that may go.
Keeps(b, k) ==
    \A j \in DOMAIN queue' :
        /\ Earlier(j, k) \in DOMAIN queue
        /\ b \in DOMAIN queue'[j].edits =>
              /\ On(Earlier(j, k), b)
              /\ queue'[j].edits[b].text = queue[Earlier(j, k)].edits[b].text

LEMMA QueueKeeps ==
    ASSUME Shape, Effect, NEW b \in Blocks
    PROVE  (\E c \in Commands : Joins(c)) \/ \E k \in Nat : Keeps(b, k)
<1> DEFINE end == Len(queue) + 1
<1>1. /\ DOMAIN queue = 1..Len(queue) /\ Len(queue) \in Nat
      /\ \A i \in DOMAIN queue : \A x \in DOMAIN queue[i].edits : queue[i].edits[x] \in Edit
    BY QueueShape
<1>2. end \in Nat /\ \A j \in DOMAIN queue : Earlier(j, end) = j
    BY <1>1 DEF Earlier
<1> HIDE DEF end
<1>3. UNCHANGED queue => Keeps(b, end)
    BY <1>2 DEF Keeps, On
<1>4. ASSUME NEW i \in DOMAIN queue, Removed(i) PROVE Keeps(b, i)
    BY <1>4, RemovedFrom DEF Keeps, On
<1>5. ASSUME NEW i \in DOMAIN queue, NEW p, NEW f, Turned(i, p, f),
             b \in DOMAIN f => On(i, b) /\ f[b].text = queue[i].edits[b].text
      PROVE  Keeps(b, end)
    BY <1>2, <1>5 DEF Keeps, Turned, On
<1>6. ASSUME NEW i \in DOMAIN queue, Refuses(i) \/ Learns(i) PROVE Keeps(b, end)
    BY <1>5, <1>6 DEF Refuses, Learns, On
<1>7. ASSUME NEW i \in DOMAIN queue, NEW f \in EditSets, Admits(i, f) PROVE Keeps(b, end)
    BY <1>5, <1>7 DEF Admits, On
<1>8. ASSUME NEW i \in DOMAIN queue, NEW f \in EditSets, Sends(i, f) PROVE Keeps(b, end)
  <2>1. b \in DOMAIN f => On(i, b) /\ f[b].text = queue[i].edits[b].text
      BY <1>1, <1>8 DEF Sends, On, AfterOwnWrites, Edit
  <2>2. QED
      BY <1>5, <1>8, <2>1 DEF Sends
<1>9. ASSUME NEW i \in DOMAIN queue, NEW x \in Blocks, NEW e \in Edit, Saves(i, x, e) PROVE Keeps(b, end)
  <2>1. PICK f : f = queue'[i].edits
      OBVIOUS
  <2>2. Turned(i, "applied", f) /\ DOMAIN f = {x} /\ f[x] = e /\ On(i, x) /\ e.text = queue[i].edits[x].text
      BY <1>9, <2>1 DEF Saves, Turned, On
  <2>3. QED
      BY <1>5, <2>2
<1> HIDE DEF Keeps
<1>10. ASSUME NEW i \in DOMAIN queue, Drops(i) \/ Acknowledges(i) PROVE Keeps(b, i)
    BY <1>4, <1>10 DEF Drops, Acknowledges
<1>11. ASSUME \/ UNCHANGED vars \/ Reshows \/ Asks \/ Installs
              \/ \E x \in Blocks : \/ Clears(x) \/ Intrudes(x) \/ Pauses(x)
                                   \/ \E t \in Texts : Types(x, t)
                                   \/ \E e \in Edit : Delivers(x, e)
       PROVE  Keeps(b, end)
  <2>1. UNCHANGED queue
      BY <1>11 DEF vars, Types, Clears, Intrudes, Pauses, Delivers, Reshows, Asks, Installs
  <2>2. QED
      BY <1>3, <2>1
<1>12. \A i \in DOMAIN queue : i \in Nat
    BY <1>1
<1>13. QED
    BY <1>2, <1>6, <1>7, <1>8, <1>9, <1>10, <1>11, <1>12 DEF Effect

\* While only this controller writes a block, every text of it that is under way after one that holds
\* the last typed text holds it too, and so do the replica and the screen once no draft is left.
Settles(b)   == last[b] \in written[b] => \A i \in DOMAIN queue : On(i, b) => queue[i].edits[b].text = last[b]
Succeeds(b)  == \A i, j \in DOMAIN queue : i < j /\ On(i, b) /\ On(j, b) /\ queue[i].edits[b].text = last[b] =>
                   queue[j].edits[b].text = last[b]
Mirrors(b)   == shown[b].text = last[b] => local[b].text = last[b]
Rests(b)     == ~HasDraft(b) => local[b].text = last[b] /\ shown[b].text = last[b]
Latest(b)    == others[b] = {} /\ last[b] # GivenUp /\ b \notin retyped =>
                   Settles(b) /\ Succeeds(b) /\ Mirrors(b) /\ Rests(b)

\* What is shown is what the replica has, or a command of the block is about to show it.
Current(b)   == others[b] = {} => shown[b].text = local[b].text \/ \E i \in DOMAIN queue : On(i, b) /\ Done(i)

LEMMA WrittenMoves ==
    ASSUME Shape, Effect, NEW b \in Blocks
    PROVE  \/ written'[b] = written[b]
           \/ Intrudes(b)
           \/ \E i \in DOMAIN queue : /\ First(i) \/ queue[i].phase = "sent"
                                      /\ On(i, b) /\ written'[b] = written[b] \cup {queue[i].edits[b].text}
<1> DEFINE Taking ==
           \/ written'[b] = written[b]
           \/ Intrudes(b)
           \/ \E i \in DOMAIN queue : /\ First(i) \/ queue[i].phase = "sent"
                                      /\ On(i, b) /\ written'[b] = written[b] \cup {queue[i].edits[b].text}
<1>1. ASSUME NEW i \in DOMAIN queue, NEW x \in Blocks, NEW e \in Edit, Saves(i, x, e) PROVE Taking
    BY <1>1 DEF Saves, Shape, On
<1>2. ASSUME NEW i \in DOMAIN queue, NEW f \in EditSets, Admits(i, f) PROVE Taking
  <2>1. CASE b \in DOMAIN f
      BY <1>2, <2>1 DEF Admits, On
  <2>2. CASE b \notin DOMAIN f
      BY <1>2, <2>2 DEF Admits
  <2>3. QED
      BY <2>1, <2>2
<1>3. ASSUME NEW x \in Blocks, Intrudes(x) PROVE Taking
    BY <1>3 DEF Intrudes
<1>4. ASSUME NEW i \in DOMAIN queue,
             Drops(i) \/ Refuses(i) \/ Learns(i) \/ Acknowledges(i) \/ \E f \in EditSets : Sends(i, f)
      PROVE  written' = written
    BY <1>4 DEF Drops, Refuses, Idle, Sends, Learns, Acknowledges, historyVars
<1>5. ASSUME \/ UNCHANGED vars \/ Reshows \/ Asks \/ Installs \/ \E c \in Commands : Joins(c)
             \/ \E x \in Blocks : \/ Clears(x) \/ Pauses(x)
                                  \/ \E t \in Texts : Types(x, t)
                                  \/ \E e \in Edit : Delivers(x, e)
      PROVE  written' = written
    BY <1>5 DEF vars, historyVars, Types, Clears, Pauses, Delivers, Reshows, Asks, Installs, Joins
<1>6. Taking
    BY <1>1, <1>2, <1>3, <1>4, <1>5 DEF Effect
<1>7. QED
    BY <1>6

\* Settles and Succeeds, of the next state.
LatestNext(b, l) ==
    /\ l \in written'[b] => \A j \in DOMAIN queue' : b \in DOMAIN queue'[j].edits => queue'[j].edits[b].text = l
    /\ \A i, j \in DOMAIN queue' :
          i < j /\ b \in DOMAIN queue'[i].edits /\ b \in DOMAIN queue'[j].edits /\ queue'[i].edits[b].text = l =>
             queue'[j].edits[b].text = l

LEMMA LatestPrimed ==
    ASSUME NEW b \in Blocks
    PROVE  Settles(b)' /\ Succeeds(b)' <=> LatestNext(b, last'[b])
BY DEF Settles, Succeeds, LatestNext, On

\* Whatever was written or is under way is older than a new text just typed; and no command of the
\* block is under way when the text shown, which is then the replica's, is typed back.
LEMMA TypedLast ==
    ASSUME Shape, TextsKnown, NEW b \in Blocks, Current(b), NEW t \in Texts, Types(b, t)
    PROVE  Latest(b)'
<1>1. CASE t = MaxElse + count'.typed
  <2>1. last'[b] = Limit' /\ Limit' = Limit + 1 /\ Limit \in Nat
      BY <1>1, Bounds DEF Types, Limit, Shape, Counts
  <2>2. UNCHANGED <<written, queue, shown, local>> /\ HasDraft(b)'
      BY DEF Types, storeVars, viewVars
  <2>3. \A w \in written[b] : w \in Nat /\ w < Limit + 1
    <3>1. \A w \in written[b] : w \in Nat /\ w <= Limit
        BY Bounds DEF TextsKnown, Typed, Shape, Texts
    <3>2. QED
        BY <2>1, <3>1
  <2>4. \A i \in DOMAIN queue : On(i, b) => queue[i].edits[b].text < Limit + 1
    <3>1. ASSUME NEW i \in DOMAIN queue, On(i, b) PROVE queue[i].edits[b].text < Limit + 1
      <4>1. queue[i].edits[b].text \in Nat
          BY <3>1, Numbers, Bounds DEF Texts
      <4>2. queue[i].edits[b].text <= Limit
          BY <3>1 DEF TextsKnown, Carried, On
      <4>3. QED
          BY <2>1, <4>1, <4>2
    <3>2. QED
        BY <3>1
  <2>5. last'[b] \notin written[b] /\ shown[b].text # last'[b]
      BY <2>1, <2>3 DEF TextsKnown, Stored
  <2>6. \A i \in DOMAIN queue : On(i, b) => queue[i].edits[b].text # last'[b]
      BY <2>1, <2>4
  <2>7. LatestNext(b, last'[b])
      BY <2>2, <2>5, <2>6 DEF LatestNext, On
  <2>8. Mirrors(b)' /\ Rests(b)'
      BY <2>2, <2>5 DEF Mirrors, Rests
  <2>9. QED
      BY <2>7, <2>8, LatestPrimed DEF Latest
<1>2. CASE t = shown[b].text
  <2>1. SUFFICES ASSUME others'[b] = {}, b \notin retyped'
                 PROVE  LatestNext(b, last'[b]) /\ Mirrors(b)' /\ Rests(b)'
      BY LatestPrimed DEF Latest
  <2>2. UNCHANGED <<others, queue, shown, local>> /\ HasDraft(b)' /\ last'[b] = shown[b].text
      BY <1>2 DEF Types, storeVars, viewVars, Shape
  <2>3. \A i \in DOMAIN queue : ~On(i, b)
      BY <1>2, <2>1 DEF Types, UnderWay, On
  <2>4. shown[b].text = local[b].text
      BY <2>1, <2>2, <2>3 DEF Current
  <2>5. QED
      BY <2>2, <2>3, <2>4 DEF LatestNext, On, Mirrors, Rests
<1>3. QED
    BY <1>1, <1>2 DEF Types

\* A command is taken after the earlier ones of its lanes.
LEMMA QueueLatest ==
    ASSUME Shape, Laned, Effect, TextsKnown, NEW b \in Blocks, Settles(b), Succeeds(b), Rests(b), others'[b] = {}
    PROVE  LatestNext(b, last[b])
<1> DEFINE l == last[b]
<1>1. ASSUME NEW i \in DOMAIN queue, First(i) \/ queue[i].phase = "sent", On(i, b), queue[i].edits[b].text = l
      PROVE  \A j \in DOMAIN queue : On(j, b) => queue[j].edits[b].text = l
  <2>1. First(i)
      BY <1>1 DEF Laned
  <2>2. SUFFICES ASSUME NEW j \in DOMAIN queue, On(j, b) PROVE queue[j].edits[b].text = l
      OBVIOUS
  <2>3. i \in Int /\ j \in Int /\ 1 <= j
      BY QueueShape
  <2>4. CASE j < i
    <3>1. j \in 1..(i - 1) /\ b \in DOMAIN queue[j].edits \cap DOMAIN queue[i].edits
        BY <1>1, <2>2, <2>3, <2>4 DEF On
    <3>2. QED
        BY <2>1, <3>1 DEF First
  <2>5. CASE j = i
      BY <1>1, <2>5
  <2>6. CASE i < j
      BY <1>1, <2>2, <2>6 DEF Succeeds
  <2>7. QED
      BY <2>3, <2>4, <2>5, <2>6
<1>2. l \in written'[b] => \A j \in DOMAIN queue : On(j, b) => queue[j].edits[b].text = l
  <2>1. CASE l \in written[b]
      BY <2>1 DEF Settles
  <2>2. ASSUME l \notin written[b], l \in written'[b] PROVE \A j \in DOMAIN queue : On(j, b) => queue[j].edits[b].text = l
    <3>1. ~Intrudes(b)
        BY DEF Intrudes
    <3>2. PICK i \in DOMAIN queue : /\ First(i) \/ queue[i].phase = "sent"
                                    /\ On(i, b) /\ written'[b] = written[b] \cup {queue[i].edits[b].text}
        BY <2>2, <3>1, WrittenMoves
    <3>3. QED
        BY <1>1, <2>2, <3>2
  <2>3. QED
      BY <2>1, <2>2
<1>3. ASSUME NEW k \in Nat, Keeps(b, k) PROVE LatestNext(b, l)
  <2>1. \A j \in DOMAIN queue' : Earlier(j, k) \in DOMAIN queue
      BY <1>3 DEF Keeps
  <2>2. \A j \in DOMAIN queue' : b \in DOMAIN queue'[j].edits =>
            On(Earlier(j, k), b) /\ queue'[j].edits[b].text = queue[Earlier(j, k)].edits[b].text
      BY <1>3 DEF Keeps
  <2>3. \A i, j \in DOMAIN queue' : i < j => Earlier(i, k) < Earlier(j, k)
    <3>1. \A i \in DOMAIN queue' : i \in Nat
        BY ShapeStep, SeqElements DEF Shape
    <3>2. QED
        BY <3>1 DEF Earlier
  <2>4. QED
      BY <1>2, <2>1, <2>2, <2>3 DEF LatestNext, Succeeds
<1>4. ASSUME NEW c \in Commands, Joins(c) PROVE LatestNext(b, l)
  <2>1. DOMAIN queue = 1..Len(queue) /\ Len(queue) \in Nat
      BY QueueShape
  <2>2. /\ \A j \in DOMAIN queue' : (j \in DOMAIN queue /\ queue'[j] = queue[j]) \/ (j = Len(queue) + 1 /\ queue'[j] = c)
        /\ \A j \in DOMAIN queue : j < Len(queue) + 1
      BY <2>1, <1>4 DEF Joins, Appended
  <2>3. b \in DOMAIN c.edits => c.edits[b].text = l
    <3>1. ASSUME b \in DOMAIN c.edits PROVE c.edits[b].text = IF HasDraft(b) THEN draft[b].text ELSE shown[b].text
        BY <1>4, <3>1 DEF Joins, AsShown
    <3>2. QED
        BY <3>1 DEF TextsKnown, Typed, Rests
  <2>4. \A i, j \in DOMAIN queue' : i < j => i \in DOMAIN queue
      BY <2>1, <1>4 DEF Joins, Appended
  <2>5. QED
      BY <1>2, <2>2, <2>3, <2>4 DEF LatestNext, Succeeds, On
<1>5. QED
    BY <1>3, <1>4, QueueKeeps

\* The replica keeps the last text once it has it ...
LEMMA LocalLatest ==
    ASSUME Shape, Effect, TextsKnown, NEW b \in Blocks, Base(b), Alone(b), others[b] = {}, Settles(b),
           local[b].text = last[b]
    PROVE  local'[b].text = last[b]
<1>1. \A i \in DOMAIN queue : On(i, b) => queue[i].edits[b].text = last[b]
    BY DEF TextsKnown, Stored, Settles
<1>2. ASSUME NEW i \in DOMAIN queue, NEW e \in Edit, Saves(i, b, e) PROVE local'[b].text = last[b]
  <2>1. On(i, b) /\ e.text = queue[i].edits[b].text
      BY <1>2 DEF Saves, On
  <2>2. local'[b] = Saved(e)
      BY <1>2, SavesAlone
  <2>3. QED
      BY <1>1, <2>1, <2>2 DEF Saved
<1>3. ASSUME NEW i \in DOMAIN queue, Catches(i, b) PROVE local'[b].text = last[b]
    BY <1>1, <1>3 DEF Catches, Saved
<1>4. QED
    BY <1>2, <1>3, LocalAlone

\* ... and what a command wrote is shown once it is acknowledged.
LEMMA AcknowledgedShown ==
    ASSUME Shape, NEW b \in Blocks, Alone(b), others[b] = {},
           NEW i \in DOMAIN queue, Acknowledges(i), On(i, b)
    PROVE  local'[b].text = queue[i].edits[b].text /\ shown'[b] = local'[b]
<1> DEFINE e == queue[i].edits[b]
<1>1. local[b] = Saved(e) /\ local' = local
    BY DEF Acknowledges, Alone, Placed, InPlace, storeVars
<1>2. local[b].text = e.text /\ local[b].version = e.saved
    BY <1>1 DEF Saved
<1>3. shown'[b] = IF e.saved > shown[b].version THEN Saved(e) ELSE shown[b]
    BY DEF Acknowledges
<1>4. shown[b].version \in Nat /\ e.saved \in Nat
    BY Numbers
<1>5. shown[b].version <= local[b].version /\ (shown[b].version = local[b].version => shown[b] = local[b])
    BY DEF Alone, Viewed, UpTo
<1> HIDE DEF e
<1>6. shown'[b] = local[b]
    BY <1>1, <1>2, <1>3, <1>4, <1>5
<1>7. QED
    BY <1>1, <1>2, <1>6 DEF e

\* A command carried out stays in the queue until it is acknowledged.
LEMMA DoneKept ==
    ASSUME Shape, Effect, NEW b \in Blocks, NEW i \in DOMAIN queue, On(i, b), Done(i)
    PROVE  Acknowledges(i) \/ \E j \in DOMAIN queue' : On(j, b)' /\ Done(j)'
<1> DEFINE Kept == \E j \in DOMAIN queue' : b \in DOMAIN queue'[j].edits /\ queue'[j].phase \in {"admitted", "applied"}
<1>1. Kept <=> \E j \in DOMAIN queue' : On(j, b)' /\ Done(j)'
    BY DEF On, Done
<1>2. ASSUME NEW j \in DOMAIN queue', queue'[j] = queue[i] PROVE Kept
    BY <1>2 DEF On, Done
<1> HIDE DEF Kept
<1>3. ASSUME NEW j \in DOMAIN queue \ {i}, Removed(j) PROVE Kept
    BY <1>2, <1>3, RemovedFrom
<1>4. ASSUME NEW j \in DOMAIN queue, NEW p, NEW f, Turned(j, p, f), i # j PROVE Kept
    BY <1>2, <1>4 DEF Turned
<1>5. ASSUME NEW c \in Commands, Joins(c) PROVE Kept
    BY <1>2, <1>5, QueueShape DEF Joins, Appended
<1>6. ASSUME NEW j \in DOMAIN queue, Drops(j) PROVE Kept
    BY <1>3, <1>6 DEF Drops, Done
<1>7. ASSUME NEW j \in DOMAIN queue, Acknowledges(j) PROVE Kept \/ Acknowledges(i)
    BY <1>3, <1>7 DEF Acknowledges
<1>8. ASSUME NEW j \in DOMAIN queue, Refuses(j) PROVE Kept
    BY <1>4, <1>8 DEF Refuses, Blamed, Done
<1>9. ASSUME NEW j \in DOMAIN queue, NEW x \in Blocks, NEW e \in Edit, Saves(j, x, e) PROVE Kept
  <2>1. PICK f : f = [queue[j].edits EXCEPT ![x] = e]
      OBVIOUS
  <2>2. Turned(j, "applied", f) /\ queue[j].phase = "waiting"
      BY <1>9, <2>1 DEF Saves
  <2>3. QED
      BY <1>4, <2>2 DEF Done
<1>10. ASSUME NEW j \in DOMAIN queue, NEW f \in EditSets, Sends(j, f) \/ Admits(j, f) PROVE Kept
    BY <1>4, <1>10 DEF Sends, Admits, Done
<1>11. ASSUME NEW j \in DOMAIN queue, Learns(j) PROVE Kept
  <2>1. CASE j = i
      BY <1>11, <2>1 DEF Learns, Turned, On, Kept
  <2>2. CASE j # i
      BY <1>4, <1>11, <2>2 DEF Learns
  <2>3. QED
      BY <2>1, <2>2
<1>12. ASSUME \/ UNCHANGED vars \/ Reshows \/ Asks \/ Installs
              \/ \E x \in Blocks : \/ Clears(x) \/ Intrudes(x) \/ Pauses(x)
                                   \/ \E t \in Texts : Types(x, t)
                                   \/ \E e \in Edit : Delivers(x, e)
       PROVE  Kept
  <2>1. UNCHANGED queue
      BY <1>12 DEF vars, Types, Clears, Intrudes, Pauses, Delivers, Reshows, Asks, Installs
  <2>2. QED
      BY <1>2, <2>1
<1>13. Kept \/ Acknowledges(i)
    BY <1>5, <1>6, <1>7, <1>8, <1>9, <1>10, <1>11, <1>12 DEF Effect
<1>14. QED
    BY <1>1, <1>13

LEMMA CurrentStep ==
    ASSUME Shape, Effect, NEW b \in Blocks, Base(b), Alone(b), Current(b)
    PROVE  Current(b)'
<1>1. SUFFICES ASSUME others'[b] = {}
               PROVE  shown'[b].text = local'[b].text \/ \E j \in DOMAIN queue' : On(j, b)' /\ Done(j)'
    BY DEF Current, On, Done
<1>2. others[b] = {}
    BY <1>1, OthersGrow
<1>3. ASSUME NEW i \in DOMAIN queue, NEW e \in Edit, Saves(i, b, e)
      PROVE  \E j \in DOMAIN queue' : On(j, b)' /\ Done(j)'
  <2>1. i \in DOMAIN queue' /\ queue'[i].phase = "applied" /\ DOMAIN queue'[i].edits = {b}
      BY <1>3 DEF Saves, Turned
  <2>2. QED
      BY <2>1 DEF On, Done
<1>4. ASSUME NEW i \in DOMAIN queue, Catches(i, b)
      PROVE  \E j \in DOMAIN queue' : On(j, b)' /\ Done(j)'
  <2>1. On(i, b) /\ queue[i].phase = "admitted" /\ (Learns(i) \/ Installs)
      BY <1>4 DEF Catches
  <2>2. ~Acknowledges(i)
      BY <2>1 DEF Acknowledges
  <2>3. QED
      BY <2>1, <2>2, DoneKept DEF Done
<1>5. CASE local'[b] = local[b]
  <2>1. shown'[b] = shown[b] \/ shown'[b] = local'[b]
      BY <1>2, ShownAlone
  <2>2. ASSUME NEW i \in DOMAIN queue, On(i, b), Done(i)
        PROVE  shown'[b] = local'[b] \/ \E j \in DOMAIN queue' : On(j, b)' /\ Done(j)'
      BY <1>2, <2>2, DoneKept, AcknowledgedShown
  <2>3. QED
      BY <1>2, <1>5, <2>1, <2>2 DEF Current
<1>6. QED
    BY <1>2, <1>3, <1>4, <1>5, LocalAlone

LEMMA LatestStep ==
    ASSUME Shape, Laned, Effect, TextsKnown, NEW b \in Blocks, Base(b), Alone(b), Current(b), Latest(b)
    PROVE  Latest(b)'
<1>1. CASE \E t \in Texts : Types(b, t)
    BY <1>1, TypedLast
<1>2. CASE Clears(b)
  <2>1. SUFFICES ASSUME others'[b] = {}, last'[b] # GivenUp, b \notin retyped'
                 PROVE  Settles(b)' /\ Succeeds(b)' /\ Mirrors(b)' /\ Rests(b)'
      BY DEF Latest
  <2>2. /\ UNCHANGED <<local, shown, queue, written, others, last, retyped>>
        /\ HasDraft(b) /\ draft[b].text = shown[b].text
      BY <1>2, <2>1 DEF Clears, storeVars, viewVars, Shape
  <2>3. Settles(b) /\ Succeeds(b) /\ Mirrors(b) /\ Rests(b)
      BY <2>1, <2>2 DEF Latest
  <2>4. shown[b].text = last[b]
      BY <2>2 DEF TextsKnown, Typed
  <2>5. QED
      BY <2>2, <2>3, <2>4 DEF Settles, Succeeds, Mirrors, Rests, On
<1>3. CASE ~(\E t \in Texts : Types(b, t)) /\ ~Clears(b)
  <2>1. SUFFICES ASSUME others'[b] = {}, last'[b] # GivenUp, b \notin retyped'
                 PROVE  Settles(b)' /\ Succeeds(b)' /\ Mirrors(b)' /\ Rests(b)'
      BY DEF Latest
  <2>2. /\ last'[b] = last[b] /\ (b \in retyped' <=> b \in retyped)
        /\ HasDraft(b)' => HasDraft(b) /\ draft'[b].text = draft[b].text
        /\ HasDraft(b) /\ ~HasDraft(b)' =>
             \E i \in DOMAIN queue : /\ Acknowledges(i) /\ On(i, b)
                                     /\ queue[i].edits[b].text = draft[b].text
      BY <1>3, DraftsMove
  <2>3. others[b] = {}
      BY <2>1, OthersGrow
  <2>4. Settles(b) /\ Succeeds(b) /\ Mirrors(b) /\ Rests(b)
      BY <2>1, <2>2, <2>3 DEF Latest
  <2>5. Settles(b)' /\ Succeeds(b)'
      BY <2>1, <2>2, <2>4, QueueLatest, LatestPrimed
  <2>6. local[b].text = last[b] => local'[b].text = last[b]
      BY <2>3, <2>4, LocalLatest
  <2>7. shown'[b] = shown[b] \/ shown'[b] = local'[b]
      BY <2>3, ShownAlone
  <2>8. Mirrors(b)'
      BY <2>2, <2>4, <2>6, <2>7 DEF Mirrors
  <2>9. ASSUME ~HasDraft(b)' PROVE local'[b].text = last[b] /\ shown'[b].text = last[b]
    <3>1. CASE HasDraft(b)
      <4>1. PICK i \in DOMAIN queue : Acknowledges(i) /\ On(i, b) /\ queue[i].edits[b].text = draft[b].text
          BY <2>2, <2>9, <3>1
      <4>2. queue[i].edits[b].text = last[b]
          BY <3>1, <4>1 DEF TextsKnown, Typed
      <4>3. QED
          BY <2>3, <4>1, <4>2, AcknowledgedShown
    <3>2. CASE ~HasDraft(b)
        BY <2>4, <2>6, <2>7, <3>2 DEF Rests
    <3>3. QED
        BY <3>1, <3>2
  <2>10. Rests(b)'
      BY <2>2, <2>9 DEF Rests
  <2>11. QED
      BY <2>5, <2>8, <2>10
<1>4. QED
    BY <1>1, <1>2, <1>3

-----------------------------------------------------------------------------
(* Types *)

\* The bound on commands; an edit is never written over less than its writer had seen.
Sized == Len(queue) <= MaxQueue
Based == \A i \in DOMAIN queue : \A b \in DOMAIN queue[i].edits : queue[i].edits[b].base <= queue[i].edits[b].version

LEMMA SizedStep ==
    ASSUME Shape, Effect, Sized
    PROVE  Sized'
<1>1. DOMAIN queue = 1..Len(queue) /\ Len(queue) \in Nat /\ MaxQueue \in Nat
    BY QueueShape, Bounds
<1>2. DOMAIN queue' = 1..Len(queue') /\ Len(queue') \in Nat
    BY ShapeStep, SeqElements DEF Shape
<1>3. ASSUME DOMAIN queue' = DOMAIN queue PROVE Sized'
    BY <1>1, <1>2, <1>3 DEF Sized
<1>4. ASSUME NEW c \in Commands, Joins(c) PROVE Sized'
    BY <1>1, <1>2, <1>4 DEF Joins, Appended, Sized
<1>5. ASSUME NEW i \in DOMAIN queue, Removed(i) PROVE Sized'
    BY <1>1, <1>2, <1>5 DEF Removed, Sized
<1>6. ASSUME NEW i \in DOMAIN queue, NEW p, NEW f, Turned(i, p, f) PROVE Sized'
    BY <1>3, <1>6 DEF Turned
<1>7. ASSUME NEW i \in DOMAIN queue,
             \/ Drops(i) \/ Acknowledges(i) \/ Refuses(i) \/ Learns(i)
             \/ \E f \in EditSets : Sends(i, f) \/ Admits(i, f)
             \/ \E x \in Blocks, e \in Edit : Saves(i, x, e)
      PROVE  Sized'
    BY <1>5, <1>6, <1>7 DEF Drops, Acknowledges, Refuses, Learns, Sends, Admits, Saves
<1>8. ASSUME \/ UNCHANGED vars \/ Reshows \/ Asks \/ Installs
             \/ \E x \in Blocks : \/ Clears(x) \/ Intrudes(x) \/ Pauses(x)
                                  \/ \E t \in Texts : Types(x, t)
                                  \/ \E e \in Edit : Delivers(x, e)
      PROVE  UNCHANGED queue
    BY <1>8 DEF vars, Types, Clears, Intrudes, Pauses, Delivers, Reshows, Asks, Installs
<1>9. QED
    BY <1>3, <1>4, <1>7, <1>8 DEF Effect

LEMMA BasedStep ==
    ASSUME Shape, OwnPast, Effect, Based
    PROVE  Based'
<1> DEFINE Fine(edits) == \A b \in DOMAIN edits : edits[b].base <= edits[b].version
           Holds == \A j \in DOMAIN queue' : Fine(queue'[j].edits)
<1>1. /\ DOMAIN queue = 1..Len(queue) /\ Len(queue) \in Nat
      /\ \A i \in DOMAIN queue : \A b \in DOMAIN queue[i].edits :
            b \in Blocks /\ queue[i].edits[b] \in Edit
    BY QueueShape
<1>2. \A i \in DOMAIN queue : Fine(queue[i].edits)
    BY DEF Based
<1>3. ASSUME NEW i \in DOMAIN queue, NEW b \in DOMAIN queue[i].edits
      PROVE  /\ queue[i].edits[b].base <= AfterOwnWrites(b, queue[i].edits[b]).version
             /\ AfterOwnWrites(b, queue[i].edits[b]).base = queue[i].edits[b].base
  <2>1. /\ queue[i].edits[b].version <= AfterOwnWrites(b, queue[i].edits[b]).version
        /\ AfterOwnWrites(b, queue[i].edits[b]).base = queue[i].edits[b].base
        /\ AfterOwnWrites(b, queue[i].edits[b]) \in Edit
      BY <1>1, MovedOn
  <2>2. queue[i].edits[b].base <= queue[i].edits[b].version
      BY <1>2
  <2>3. queue[i].edits[b].base \in Nat /\ queue[i].edits[b].version \in Nat
        /\ AfterOwnWrites(b, queue[i].edits[b]).version \in Nat
      BY <1>1, <2>1 DEF Edit
  <2>4. QED
      BY <2>1, <2>2, <2>3
<1> HIDE DEF Fine
<1>4. UNCHANGED queue => Holds
    BY <1>2
<1>5. ASSUME NEW i \in DOMAIN queue, Removed(i) PROVE Holds
    BY <1>2, <1>5, RemovedFrom
<1>6. ASSUME NEW i \in DOMAIN queue, NEW p, NEW f, Turned(i, p, f), Fine(f) PROVE Holds
    BY <1>2, <1>6 DEF Turned
<1>7. ASSUME NEW c \in Commands, Joins(c) PROVE Holds
  <2>1. \A j \in DOMAIN queue' : j \in DOMAIN queue \/ j = Len(queue) + 1
      BY <1>1, <1>7 DEF Joins, Appended
  <2>2. Fine(c.edits)
    <3>1. \A b \in DOMAIN c.edits : c.edits[b].base = c.edits[b].version /\ c.edits[b].version \in Nat
        BY <1>7, EditsOf DEF Joins, AsShown, Commands, Edit
    <3>2. QED
        BY <3>1 DEF Fine
  <2>3. QED
      BY <1>2, <1>7, <2>1, <2>2 DEF Joins, Appended
<1>8. ASSUME NEW i \in DOMAIN queue, NEW x \in Blocks, NEW e \in Edit, Saves(i, x, e) PROVE Holds
  <2>1. PICK f : f = queue'[i].edits
      OBVIOUS
  <2>2. /\ Turned(i, "applied", f) /\ DOMAIN f = {x} /\ f[x] = e /\ x \in DOMAIN queue[i].edits
        /\ e.base = queue[i].edits[x].base /\ e.version = AfterOwnWrites(x, queue[i].edits[x]).version
      BY <1>8, <2>1 DEF Saves, Turned
  <2>3. Fine(f)
      BY <1>3, <2>2 DEF Fine
  <2>4. QED
      BY <1>6, <2>2, <2>3
<1>9. ASSUME NEW i \in DOMAIN queue, NEW f \in EditSets, Sends(i, f) PROVE Holds
  <2>1. ASSUME NEW b \in DOMAIN f PROVE f[b].base <= f[b].version
    <3>1. b \in DOMAIN queue[i].edits /\ f[b] = AfterOwnWrites(b, queue[i].edits[b])
        BY <1>9 DEF Sends
    <3>2. f[b].base = queue[i].edits[b].base
        BY <1>3, <3>1
    <3>3. QED
        BY <1>3, <3>1, <3>2
  <2>2. Fine(f)
      BY <2>1 DEF Fine
  <2>3. QED
      BY <1>6, <1>9, <2>2 DEF Sends
<1>10. ASSUME NEW i \in DOMAIN queue, NEW f \in EditSets, Admits(i, f) PROVE Holds
  <2>1. \A b \in DOMAIN f : /\ b \in DOMAIN queue[i].edits /\ f[b].base = queue[i].edits[b].base
                            /\ f[b].version = queue[i].edits[b].version
      BY <1>10 DEF Admits
  <2>2. QED
      BY <1>2, <1>6, <1>10, <2>1 DEF Admits, Fine
<1>11. ASSUME NEW i \in DOMAIN queue, Drops(i) \/ Acknowledges(i) \/ Refuses(i) \/ Learns(i) PROVE Holds
    BY <1>2, <1>5, <1>6, <1>11 DEF Drops, Acknowledges, Refuses, Learns
<1>12. ASSUME \/ UNCHANGED vars \/ Reshows \/ Asks \/ Installs
              \/ \E x \in Blocks : \/ Clears(x) \/ Intrudes(x) \/ Pauses(x)
                                   \/ \E t \in Texts : Types(x, t)
                                   \/ \E e \in Edit : Delivers(x, e)
       PROVE  UNCHANGED queue
    BY <1>12 DEF vars, Types, Clears, Intrudes, Pauses, Delivers, Reshows, Asks, Installs
<1> HIDE DEF Holds
<1>13. Holds
    BY <1>4, <1>7, <1>8, <1>9, <1>10, <1>11, <1>12 DEF Effect
<1>14. QED
    BY <1>13 DEF Based, Holds, Fine

LEMMA TypesHold ==
    ASSUME Shape, Sized, Based
    PROVE  TypeOK
<1>1. /\ \A i \in DOMAIN queue : /\ queue[i] \in Commands /\ DOMAIN queue[i].edits \subseteq Blocks
                                 /\ \A b \in DOMAIN queue[i].edits : queue[i].edits[b] \in Edit
      /\ \A n \in DOMAIN outbox : outbox[n].block \in Blocks /\ outbox[n].edit \in Edit
    BY QueueShape
<1>2. /\ {server, local, shown, accepted} \subseteq [Blocks -> State]
      /\ paused \subseteq Blocks /\ \A o \in own : o \in Blocks \X Nat
    BY DEF Shape
<1>3. \A i \in DOMAIN outbox : outbox[i].block \in Blocks /\ outbox[i].edit.text \in Texts
    BY <1>1 DEF Edit
<1>4. \A b \in Blocks : draft[b].key \in Texts /\ draft[b].text \in Texts
  <2>1. 0..MaxTyped \subseteq Texts
      BY Bounds DEF Texts
  <2>2. QED
      BY <2>1 DEF Shape
<1>5. \A i \in DOMAIN queue :
          /\ queue[i].kind \in {"save", "run"}
          /\ queue[i].phase \in {"waiting", "sent", "admitted", "applied", "refused"}
          /\ \A b \in DOMAIN queue[i].edits :
                b \in Blocks /\ queue[i].edits[b].base <= queue[i].edits[b].version
    BY <1>1 DEF Commands, Phases, Based
<1>6. DOMAIN reading.texts \in {{}, Blocks} /\ reading.stale \in BOOLEAN
  <2>1. CASE reading = NoRead
    <3>1. reading.texts = <<>> /\ reading.stale = FALSE
        BY <2>1 DEF NoRead
    <3>2. DOMAIN <<>> = {}
        OBVIOUS
    <3>3. QED
        BY <3>1, <3>2
  <2>2. CASE reading \in [texts : [Blocks -> State], stale : BOOLEAN]
      BY <2>2
  <2>3. QED
      BY <2>1, <2>2 DEF Shape
<1>7. /\ count \in [typed : 0..MaxTyped, elsewhere : 0..MaxElse, pressed : 0..MaxPressed]
      /\ \A b \in Blocks : last[b] \in Texts \cup {GivenUp} /\ written[b] \subseteq Texts
      /\ retyped \subseteq Blocks /\ blind \in BOOLEAN
    BY DEF Shape
<1>8. QED
    BY <1>2, <1>3, <1>4, <1>5, <1>6, <1>7 DEF TypeOK, Sized

-----------------------------------------------------------------------------
(* The inductive invariant and the theorems *)

\* What every step keeps: of the commands and texts ...
Commanded == OwnPast /\ Laned /\ Stepped /\ Sized /\ Based

\* ... and of each block, at the server, in the replica and on its way between them.
BlockKept(b) == Base(b) /\ OthersPast(b) /\ Delivered(b) /\ Contested(b) /\ Alone(b)
BlocksKept   == \A b \in Blocks : BlockKept(b)
TextInv ==
    /\ Shape /\ Commanded /\ TextsKnown /\ BlocksKept
    /\ NoBlindOverwrite /\ OwnHarmony /\ TextKept
    /\ \A b \in Blocks : Current(b) /\ Latest(b)

LEMMA TextStart ==
    ASSUME Init
    PROVE  TextInv
<1>1. PICK s : s = [text |-> 0, version |-> 0]
    OBVIOUS
<1>2. s \in State /\ s.text = 0 /\ s.version = 0 /\ 0 \in Texts
    BY <1>1, Bounds DEF State, Texts
<1>3. /\ \A b \in Blocks : server[b] = s /\ local[b] = s /\ shown[b] = s /\ accepted[b] = s
      /\ server = [b \in Blocks |-> s] /\ local = [b \in Blocks |-> s]
      /\ shown = [b \in Blocks |-> s] /\ accepted = [b \in Blocks |-> s]
    BY <1>1 DEF Init
<1>4. /\ outbox = <<>> /\ paused = {} /\ own = {} /\ queue = <<>> /\ reading = NoRead /\ retyped = {} /\ blind = FALSE
      /\ \A b \in Blocks : draft[b] = NoDraft /\ others[b] = {} /\ written[b] = {0} /\ last[b] = 0
      /\ draft = [b \in Blocks |-> NoDraft]
      /\ count = [typed |-> 0, elsewhere |-> 0, pressed |-> 0]
    BY DEF Init
<1>5. /\ DOMAIN outbox = {} /\ DOMAIN queue = {} /\ Len(queue) = 0
      /\ outbox \in Seq([block : Blocks, edit : Edit]) /\ queue \in Seq(Commands)
  <2>1. /\ \A n \in 1..0 : FALSE
        /\ DOMAIN <<>> = 1..0 /\ Len(<<>>) = 0
        /\ <<>> \in Seq([block : Blocks, edit : Edit]) /\ <<>> \in Seq(Commands)
      OBVIOUS
  <2>2. QED
      BY <1>4, <2>1
<1>6. Shape
  <2>1. NoDraft \in [key : 0..MaxTyped, text : Texts, version : Nat] /\ NoDraft.key = 0
      BY <1>2, Bounds DEF NoDraft
  <2>2. /\ server \in [Blocks -> State] /\ local \in [Blocks -> State]
        /\ shown \in [Blocks -> State] /\ accepted \in [Blocks -> State]
      BY <1>2, <1>3
  <2>3. /\ draft \in [Blocks -> [key : 0..MaxTyped, text : Texts, version : Nat]]
        /\ \A b \in Blocks : HasDraft(b) <=> draft[b].key > 0
      BY <1>4, <2>1 DEF HasDraft
  <2>4. count \in [typed : 0..MaxTyped, elsewhere : 0..MaxElse, pressed : 0..MaxPressed]
      BY <1>4, Bounds
  <2>5. /\ others \in [Blocks -> SUBSET Nat] /\ written \in [Blocks -> SUBSET Texts]
        /\ last \in [Blocks -> Texts \cup {GivenUp}]
      BY <1>2 DEF Init
  <2>6. QED
      BY <1>4, <1>5, <2>2, <2>3, <2>4, <2>5 DEF Shape
<1>7. Commanded
    BY <1>4, <1>5, Bounds DEF Commanded, OwnPast, Laned, Stepped, Sized, Based
<1>8. TextsKnown
  <2>1. Stored /\ Carried
      BY <1>2, <1>3, <1>4, <1>5 DEF Stored, Carried
  <2>2. Typed
      BY <1>4, Bounds DEF Typed, Limit, HasDraft
  <2>3. QED
      BY <2>1, <2>2 DEF TextsKnown
<1>9. ASSUME NEW b \in Blocks PROVE BlockKept(b) /\ Current(b) /\ Latest(b)
  <2>1. Chain(b) /\ ReadPast(b) /\ AdmitPast(b)
      BY <1>4, <1>5 DEF Chain, Ordered, Within, Linked, Headed, Tailed, FirstOf, LastOf, ReadPast, AdmitPast
  <2>2. Level(b)
      BY <1>3, <1>2 DEF Level, Past
  <2>3. OthersPast(b)
      BY <1>4 DEF OthersPast
  <2>4. \A u \in Nat : ~OwnWrite(b, u)
      BY <1>4, <1>5 DEF OwnWrite
  <2>5. Delivered(b) /\ Contested(b)
      BY <2>4 DEF Delivered, Contested
  <2>6. HeadOn(b) /\ InStep(b) /\ Placed(b)
      BY <1>3, <1>4, <1>5 DEF HeadOn, InStep, Placed, FirstOf, Mine
  <2>7. AllOwn(b) /\ Begun(b) /\ Viewed(b) /\ Fresh(b)
      BY <1>2, <1>3, <1>4 DEF AllOwn, Begun, HasDraft, Viewed, UpTo, Fresh
  <2>8. Current(b) /\ Latest(b)
      BY <1>2, <1>3, <1>4, <1>5 DEF Current, Latest, Settles, Succeeds, Mirrors, Rests
  <2>9. QED
      BY <1>4, <2>1, <2>2, <2>3, <2>5, <2>6, <2>7, <2>8 DEF BlockKept, Base, Alone
<1>10. NoBlindOverwrite /\ OwnHarmony /\ TextKept
    BY <1>4, <1>5 DEF NoBlindOverwrite, OwnHarmony, TextKept
<1>11. QED
    BY <1>6, <1>7, <1>8, <1>9, <1>10 DEF TextInv, BlocksKept

LEMMA TextStep ==
    ASSUME TextInv, [Next]_vars
    PROVE  TextInv'
<1>1. /\ Shape /\ OwnPast /\ Laned /\ Stepped /\ Sized /\ Based /\ TextsKnown
      /\ NoBlindOverwrite /\ OwnHarmony /\ TextKept
    BY DEF TextInv, Commanded
<1>2. Effect
    BY <1>1, Moves
<1>3. Shape' /\ OwnPast' /\ Laned' /\ Stepped' /\ Sized' /\ Based'
    BY <1>1, <1>2, ShapeStep, OwnPastStep, LanedStep, SteppedStep, SizedStep, BasedStep
<1>4. TextsKnown' /\ TextKept'
    BY <1>1, <1>2, CarriedStep, StoredStep, TypedStep, KeptStep DEF TextsKnown
<1>5. \A b \in Blocks : Base(b) /\ OthersPast(b) /\ Delivered(b) /\ Contested(b) /\ Alone(b)
    BY DEF TextInv, BlocksKept, BlockKept
<1>6. ASSUME NEW b \in Blocks PROVE BlockKept(b)'
  <2>1. Base(b)'
      BY <1>1, <1>2, <1>3, <1>5, ChainStep, LevelStep, ReadPastStep, AdmitPastStep DEF Base
  <2>2. OthersPast(b)' /\ Delivered(b)' /\ Contested(b)'
      BY <1>1, <1>2, <1>5, OthersPastStep, DeliveredStep, ContestedStep DEF Base
  <2>3. Alone(b)'
      BY <1>1, <1>2, <1>3, <1>5, AloneStep
  <2>4. QED
      BY <2>1, <2>2, <2>3 DEF BlockKept
<1>7. NoBlindOverwrite'
    BY <1>1, <1>2, <1>5, BlindStep DEF Base
<1>8. OwnHarmony'
    BY <1>1, <1>2, <1>5, <1>6, HarmonyStep DEF BlockKept
<1>9. ASSUME NEW b \in Blocks PROVE Current(b)' /\ Latest(b)'
    BY <1>1, <1>2, <1>5, CurrentStep, LatestStep DEF TextInv
<1>10. QED
    BY <1>3, <1>4, <1>6, <1>7, <1>8, <1>9 DEF TextInv, Commanded, BlocksKept

\* For any blocks and any interleaving of typing, saves, runs, reads, refusals and writes of another
\* device: every variable has its type, no text replaces one its writer was not shown, only what
\* another device wrote makes a command be refused, the last text typed is in its draft, taken or
\* given up, and it wins: a block left without draft or command, and written by no other device,
\* holds it, unless it is the text shown, typed back over a command of the block still under way
\* (text-saves.ts:20-140, workspace.ts:560-811).
THEOREM TextsAlwaysKept == Spec => []TextsKept
<1>1. Init => TextInv
    BY TextStart
<1>2. TextInv /\ [Next]_vars => TextInv'
    BY TextStep
<1>3. TextInv => TextsKept
  <2>1. SUFFICES ASSUME TextInv PROVE TextsKept
      OBVIOUS
  <2>2. TypeOK /\ NoBlindOverwrite /\ OwnHarmony /\ TextKept
      BY <2>1, TypesHold DEF TextInv, Commanded
  <2>3. LastTypedWins
      BY <2>1 DEF TextInv, Latest, Rests, LastTypedWins
  <2>4. QED
      BY <2>2, <2>3 DEF TextsKept
<1>4. QED
    BY <1>1, <1>2, <1>3, PTL DEF Spec

=============================================================================
