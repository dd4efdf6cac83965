----------------------------- MODULE OutboxProofs -----------------------------
(***************************************************************************)
(* Proofs about Outbox, for any blocks and texts, any number of requests   *)
(* lost or repeated, of reads under way and of writes of other devices.    *)
(***************************************************************************)
EXTENDS Outbox, Integers, SequenceTheorems, TLAPS

Written    == [text : Texts \cup {Empty}, by : Keys \cup {Others}]
CachedText == [text : Texts \cup {Empty}, version : Nat]
Command    == {cmd \in [type : {"create", "edit", "remove"}, block : Blocks, text : Texts \cup {Empty},
                        version : Nat, over : Texts \cup {Empty}] : cmd.type = "create" => cmd.text = Empty}
Op         == [key : Keys, cmd : Command]
Brane      == [Blocks -> CachedText \cup {None}]

Shape ==
    /\ history \in [Blocks -> Seq(Written)]
    /\ card \in [Blocks -> {"never", "placed", "removed"}]
    /\ remover \in [Blocks -> Keys \cup {Others, None}]
    /\ receipts \subseteq Op
    /\ pending \in Seq([key : Keys, cmd : Command, failure : Refusals \cup {None}])
    /\ local \in Brane
    /\ shown \in [Blocks -> BOOLEAN]
    /\ drawn \in 0..MaxKeys
    /\ forgotten \subseteq Blocks
    /\ calls \subseteq [key : Keys, cmd : Command, live : BOOLEAN, answer : Refusals \cup {"applied", None}]
    /\ reads \in Seq([current : BOOLEAN, brane : Brane \cup {None}])

Asked == {reads[i] : i \in 1..Len(reads)}
Queue == {[key |-> pending[i].key, cmd |-> pending[i].cmd] : i \in 1..Len(pending)}

IsText(cmd) == cmd.type \in {"create", "edit"}
IsCard(cmd) == cmd.type \in {"create", "remove"}

Sorted  == \A i, j \in 1..Len(pending) : i < j => pending[i].key < pending[j].key
KeysInv ==
    /\ Sorted
    /\ \A o \in Queue : o.key <= drawn
    /\ \A c \in calls : c.key <= drawn
    /\ \A r \in receipts : r.key <= drawn

SameCommands ==
    /\ \A r \in receipts : \A o \in Queue : r.key = o.key => r = o
    /\ \A r \in receipts : \A c \in calls : r.key = c.key => r.cmd = c.cmd
    /\ \A c \in calls : \A o \in Queue : c.key = o.key => c.cmd = o.cmd

OneLive    == \A c, d \in calls : c.live /\ d.live /\ c.key = d.key => c = d
Waiting(o) == \E p \in Queue : p.key < o.key /\ Conflicts(p.cmd, o.cmd)
InTurn(c)  == \E o \in Queue : o.key = c.key /\ ~Waiting(o)

CallsInv ==
    /\ \A c \in calls : c.live \/ ~Received(c) => InTurn(c)
    /\ \A c \in calls : c.answer = "applied" => Received(c)
    /\ OneLive

CreatedFirst ==
    \A o, p \in Queue : p.key < o.key /\ o.cmd.type = "create" => p.cmd.block # o.cmd.block

Truth(b, cached) == cached.version + 1 <= Len(history[b]) /\ history[b][cached.version + 1].text = cached.text
Base(cmd)  == [text |-> cmd.over, version |-> cmd.version]
After(cmd) == IF cmd.type = "create" THEN [text |-> Empty, version |-> 0]
              ELSE [text |-> cmd.text, version |-> IF cmd.text = cmd.over THEN cmd.version ELSE cmd.version + 1]
Expected(b, cached, key) ==
    \/ Truth(b, cached)
    \/ \E o \in Queue : o.key < key /\ o.cmd.block = b /\ IsText(o.cmd) /\ After(o.cmd) = cached

TextsInv ==
    /\ \A r \in receipts : IsText(r.cmd) => Truth(r.cmd.block, After(r.cmd))
    /\ \A o \in Queue : o.cmd.type = "edit" => Expected(o.cmd.block, Base(o.cmd), o.key)
    /\ \A b \in Blocks : local[b] # None => Expected(b, local[b], drawn + 1)
    /\ \A r \in Asked : r.brane # None =>
          \A b \in Blocks : r.brane[b] # None => Truth(b, r.brane[b])

CardWaits(b) == \E o \in Queue : IsCard(o.cmd) /\ o.cmd.block = b

ServerCards ==
    /\ \A b \in Blocks : history[b] = <<>> => card[b] = "never"
    /\ \A b \in Blocks : remover[b] # None => card[b] = "removed"
    /\ \A r \in receipts : r.cmd.type = "remove" => card[r.cmd.block] = "removed"
    /\ \A o \in Queue : o.cmd.type = "create" => remover[o.cmd.block] \notin Keys
OpsShown ==
    /\ \A o \in Queue : o.cmd.type = "remove" => ~shown[o.cmd.block]
    /\ \A o \in Queue : o.cmd.type = "create" =>
          shown[o.cmd.block] \/ \E p \in Queue : p.cmd.type = "remove" /\ p.cmd.block = o.cmd.block
ReadsInv ==
    \A r \in Asked : r.current /\ r.brane # None =>
       \A b \in Blocks : ~CardWaits(b) =>
          /\ remover[b] \in Keys => r.brane[b] = None
          /\ card[b] = "placed" => r.brane[b] # None
Cards ==
    \A b \in Blocks : ~CardWaits(b) =>
        /\ remover[b] \in Keys => ~shown[b]
        /\ card[b] = "placed" => shown[b]
CardsInv == ServerCards /\ OpsShown /\ ReadsInv /\ Cards

OutboxInv == KeysInv /\ SameCommands /\ CallsInv /\ CreatedFirst /\ TextsInv /\ CardsInv

-----------------------------------------------------------------------------
(* Sequences *)

LEMMA SeqAppend ==
    ASSUME NEW S, NEW s \in Seq(S), NEW e \in S
    PROVE  /\ Append(s, e) \in Seq(S) /\ Len(Append(s, e)) = Len(s) + 1
           /\ Append(s, e)[Len(s) + 1] = e
           /\ \A i \in 1..Len(s) : Append(s, e)[i] = s[i]
OBVIOUS

LEMMA SeqRemove ==
    ASSUME NEW S, NEW s \in Seq(S), NEW d \in 1..Len(s)
    PROVE  /\ RemoveAt(s, d) \in Seq(S) /\ Len(RemoveAt(s, d)) = Len(s) - 1
           /\ \A i \in 1..(Len(s) - 1) : RemoveAt(s, d)[i] = IF i < d THEN s[i] ELSE s[i + 1]
<1> DEFINE front == SubSeq(s, 1, d - 1)
           back  == SubSeq(s, d + 1, Len(s))
<1>1. Len(s) \in Nat /\ \A i \in 1..Len(s) : s[i] \in S
    OBVIOUS
<1>2. /\ front \in Seq(S) /\ Len(front) = d - 1
      /\ \A i \in 1..(d - 1) : front[i] = s[i]
  <2>1. \A i \in 1..(d - 1) : s[i] \in S
      BY <1>1
  <2>2. QED
      BY <1>1, <2>1, SubSeqProperties
<1>3. /\ back \in Seq(S) /\ Len(back) = Len(s) - d
      /\ \A i \in 1..(Len(s) - d) : back[i] = s[d + i]
  <2>1. \A i \in (d + 1)..Len(s) : s[i] \in S
      BY <1>1
  <2>2. QED
      BY <1>1, <2>1, SubSeqProperties
<1>4. RemoveAt(s, d) = front \o back
    BY DEF RemoveAt
<1> HIDE DEF front, back
<1>5. /\ front \o back \in Seq(S)
      /\ Len(front \o back) = Len(front) + Len(back)
      /\ \A i \in 1..(Len(front) + Len(back)) : (front \o back)[i] = IF i <= Len(front) THEN front[i] ELSE back[i - Len(front)]
    BY <1>2, <1>3, ConcatProperties
<1>6. ASSUME NEW i \in 1..(Len(s) - 1)
      PROVE  (front \o back)[i] = IF i < d THEN s[i] ELSE s[i + 1]
  <2>1. CASE i < d
      BY <1>1, <1>2, <1>3, <1>5, <2>1
  <2>2. CASE ~(i < d)
    <3>1. i - (d - 1) \in 1..(Len(s) - d) /\ d + (i - (d - 1)) = i + 1
        BY <1>1, <2>2
    <3>2. back[i - (d - 1)] = s[i + 1]
        BY <1>3, <3>1
    <3>3. QED
        BY <1>1, <1>2, <1>3, <1>5, <2>2, <3>2
  <2>3. QED
      BY <2>1, <2>2
<1>7. QED
    BY <1>1, <1>2, <1>3, <1>4, <1>5, <1>6

LEMMA SeqOutdated ==
    ASSUME NEW B, NEW rs \in Seq([current : BOOLEAN, brane : B])
    PROVE  /\ Outdated(rs) \in Seq([current : BOOLEAN, brane : B])
           /\ Len(Outdated(rs)) = Len(rs)
           /\ \A i \in 1..Len(rs) : ~Outdated(rs)[i].current /\ Outdated(rs)[i].brane = rs[i].brane
<1>1. Outdated(rs) = [i \in 1..Len(rs) |-> [rs[i] EXCEPT !.current = FALSE]]
    BY DEF Outdated
<1>2. Len(rs) \in Nat /\ \A i \in 1..Len(rs) : rs[i] \in [current : BOOLEAN, brane : B]
    BY LenProperties, ElementOfSeq
<1>3. \A i \in 1..Len(rs) : /\ [rs[i] EXCEPT !.current = FALSE] \in [current : BOOLEAN, brane : B]
                              /\ [rs[i] EXCEPT !.current = FALSE].current = FALSE
                              /\ [rs[i] EXCEPT !.current = FALSE].brane = rs[i].brane
    BY <1>2
<1>4. Outdated(rs) \in [1..Len(rs) -> [current : BOOLEAN, brane : B]]
    BY <1>1, <1>3
<1>5. Outdated(rs) \in Seq([current : BOOLEAN, brane : B]) /\ Len(Outdated(rs)) = Len(rs)
    BY <1>2, <1>4, SeqDef
<1>6. QED
    BY <1>1, <1>3, <1>5

-----------------------------------------------------------------------------
(* What the actions do to the outbox, to the history and to the reads *)

Pended == [key : Keys, cmd : Command, failure : Refusals \cup {None}]
Read   == [current : BOOLEAN, brane : Brane \cup {None}]
Called == [key : Keys, cmd : Command, live : BOOLEAN, answer : Refusals \cup {"applied", None}]

\* A new operation joins the outbox, an operation leaves it, the operations are what they were.
Joins(cmd) ==
    /\ drawn < MaxKeys /\ drawn' = drawn + 1 /\ cmd \in Command
    /\ Queue' = Queue \cup {[key |-> drawn + 1, cmd |-> cmd]}
Leaves(key) == Queue' = {o \in Queue : o.key # key} /\ UNCHANGED drawn
Rests       == Queue' = Queue /\ UNCHANGED drawn

LEMMA QueueShape ==
    ASSUME NEW ops \in Seq(Pended)
    PROVE  {[key |-> ops[i].key, cmd |-> ops[i].cmd] : i \in 1..Len(ops)} \subseteq Op
<1>1. \A i \in 1..Len(ops) : ops[i] \in Pended
    BY ElementOfSeq
<1>2. QED
    BY <1>1 DEF Pended, Op

LEMMA Queued ==
    ASSUME Shape
    PROVE  /\ Queue \subseteq Op
           /\ Sorted => \A o, p \in Queue : o.key = p.key => o = p
<1>1. Len(pending) \in Nat /\ \A i \in 1..Len(pending) : pending[i] \in Pended
    BY LenProperties, ElementOfSeq DEF Shape, Pended
<1>2. \A i \in 1..Len(pending) : pending[i].key \in Keys /\ pending[i].cmd \in Command
    BY <1>1 DEF Pended
<1>3. Queue \subseteq Op
    BY <1>2 DEF Queue, Op
<1>4. ASSUME Sorted, NEW o \in Queue, NEW p \in Queue, o.key = p.key
      PROVE  o = p
  <2>1. PICK i \in 1..Len(pending) : o = [key |-> pending[i].key, cmd |-> pending[i].cmd]
      BY DEF Queue
  <2>2. PICK j \in 1..Len(pending) : p = [key |-> pending[j].key, cmd |-> pending[j].cmd]
      BY DEF Queue
  <2>3. pending[i].key = pending[j].key /\ pending[i].key \in Nat
      BY <1>2, <1>4, <2>1, <2>2, BoundAssumption DEF Keys
  <2>4. i = j
      BY <1>1, <1>4, <2>3 DEF Sorted
  <2>5. QED
      BY <2>1, <2>2, <2>4
<1>5. QED
    BY <1>3, <1>4

LEMMA WriteJoins ==
    ASSUME Shape, Sorted, \A o \in Queue : o.key <= drawn, NEW cmd \in Command, Write(cmd)
    PROVE  Joins(cmd) /\ Sorted' /\ pending' \in Seq(Pended)
<1> DEFINE op == Operation(drawn + 1, cmd)
<1>1. /\ drawn < MaxKeys /\ drawn' = drawn + 1 /\ pending' = Append(pending, op)
      /\ drawn + 1 \in Keys /\ drawn \in Nat
    BY BoundAssumption DEF Write, Shape, Keys
<1>2. op \in Pended /\ op.key = drawn + 1 /\ op.cmd = cmd
    BY <1>1 DEF Operation, Pended
<1>3. pending \in Seq(Pended) /\ Len(pending) \in Nat
    BY LenProperties DEF Shape, Pended
<1> HIDE DEF op
<1>4. /\ pending' \in Seq(Pended) /\ Len(pending') = Len(pending) + 1
      /\ pending'[Len(pending) + 1] = op
      /\ \A i \in 1..Len(pending) : pending'[i] = pending[i]
    BY <1>1, <1>2, <1>3, SeqAppend
<1>5. Queue' = Queue \cup {[key |-> drawn + 1, cmd |-> cmd]}
  <2>1. \A x : x \in Queue' <=> \E i \in 1..(Len(pending) + 1) : x = [key |-> pending'[i].key, cmd |-> pending'[i].cmd]
      BY <1>4 DEF Queue
  <2>2. \A x : x \in Queue <=> \E i \in 1..Len(pending) : x = [key |-> pending'[i].key, cmd |-> pending'[i].cmd]
      BY <1>4 DEF Queue
  <2>3. 1..(Len(pending) + 1) = (1..Len(pending)) \cup {Len(pending) + 1}
      BY <1>3
  <2>4. [key |-> pending'[Len(pending) + 1].key, cmd |-> pending'[Len(pending) + 1].cmd] = [key |-> drawn + 1, cmd |-> cmd]
      BY <1>2, <1>4
  <2>5. QED
      BY <2>1, <2>2, <2>3, <2>4
<1>6. \A i \in 1..Len(pending) : pending[i].key \in Nat /\ pending[i].key < drawn + 1
  <2>1. \A i \in 1..Len(pending) : pending[i] \in Pended
      BY <1>3, ElementOfSeq
  <2>2. \A i \in 1..Len(pending) : pending[i].key \in Nat
      BY <2>1, BoundAssumption DEF Pended, Keys
  <2>3. \A i \in 1..Len(pending) : pending[i].key <= drawn
    <3>1. TAKE i \in 1..Len(pending)
    <3>2. [key |-> pending[i].key, cmd |-> pending[i].cmd] \in Queue
        BY DEF Queue
    <3>3. QED
        BY <3>2
  <2>4. QED
      BY <1>1, <2>2, <2>3
<1>7. Sorted'
    BY <1>2, <1>3, <1>4, <1>6 DEF Sorted
<1>8. QED
    BY <1>1, <1>4, <1>5, <1>7 DEF Joins

LEMMA AcknowledgeLeaves ==
    ASSUME Shape, Sorted, NEW c \in calls, Acknowledge(c)
    PROVE  Leaves(c.key) /\ Sorted' /\ pending' \in Seq(Pended)
<1>1. /\ pending \in Seq(Pended) /\ Len(pending) \in Nat
      /\ \A i \in 1..Len(pending) : pending[i] \in Pended
    BY LenProperties, ElementOfSeq DEF Shape, Pended
<1>2. \A i \in 1..Len(pending) : pending[i].key \in Nat
    BY <1>1, BoundAssumption DEF Pended, Keys
<1>3. pending' = Without(pending, c.key) /\ UNCHANGED drawn
    BY DEF Acknowledge
<1>4. CASE ~\E i \in 1..Len(pending) : pending[i].key = c.key
  <2>1. pending' = pending
      BY <1>3, <1>4 DEF Without
  <2>2. Queue' = Queue /\ Sorted'
      BY <2>1 DEF Queue, Sorted
  <2>3. \A o \in Queue : o.key # c.key
      BY <1>4 DEF Queue
  <2>4. QED
      BY <1>1, <1>3, <2>1, <2>2, <2>3 DEF Leaves
<1>5. CASE \E i \in 1..Len(pending) : pending[i].key = c.key
  <2> DEFINE at == CHOOSE i \in 1..Len(pending) : pending[i].key = c.key
  <2>1. at \in 1..Len(pending) /\ pending[at].key = c.key
      BY <1>5
  <2>2. pending' = RemoveAt(pending, at)
      BY <1>3, <1>5 DEF Without
  <2>3. PICK d \in 1..Len(pending) : d = at
      BY <2>1
  <2> HIDE DEF at
  <2>4. /\ pending' \in Seq(Pended) /\ Len(pending') = Len(pending) - 1
        /\ \A i \in 1..(Len(pending) - 1) : pending'[i] = IF i < d THEN pending[i] ELSE pending[i + 1]
      BY <1>1, <2>2, <2>3, SeqRemove
  <2>5. \A i \in 1..Len(pending) : i # d => pending[i].key # c.key
      BY <1>1, <1>2, <2>1, <2>3 DEF Sorted
  <2>6. Sorted'
    <3>1. SUFFICES ASSUME NEW i \in 1..(Len(pending) - 1), NEW j \in 1..(Len(pending) - 1), i < j
                   PROVE  pending'[i].key < pending'[j].key
        BY <2>4 DEF Sorted
    <3>2. CASE j < d
        BY <1>1, <2>4, <3>1, <3>2 DEF Sorted
    <3>3. CASE ~(j < d) /\ i < d
        BY <1>1, <2>4, <3>1, <3>3 DEF Sorted
    <3>4. CASE ~(i < d)
        BY <1>1, <2>4, <3>1, <3>4 DEF Sorted
    <3>5. QED
        BY <3>2, <3>3, <3>4
  <2>7. ASSUME NEW o \in Queue'
        PROVE  o \in Queue /\ o.key # c.key
    <3>1. PICK i \in 1..(Len(pending) - 1) : o = [key |-> pending'[i].key, cmd |-> pending'[i].cmd]
        BY <2>4 DEF Queue
    <3>2. PICK j \in 1..Len(pending) : j # d /\ pending'[i] = pending[j]
      <4>1. CASE i < d
          BY <1>1, <2>4, <4>1
      <4>2. CASE ~(i < d)
        <5>1. i + 1 \in 1..Len(pending) /\ i + 1 # d
            BY <1>1, <4>2
        <5>2. QED
            BY <2>4, <4>2, <5>1
      <4>3. QED
          BY <4>1, <4>2
    <3>3. QED
        BY <2>5, <3>1, <3>2 DEF Queue
  <2>8. ASSUME NEW o \in Queue, o.key # c.key
        PROVE  o \in Queue'
    <3>1. PICK j \in 1..Len(pending) : o = [key |-> pending[j].key, cmd |-> pending[j].cmd]
        BY DEF Queue
    <3>2. j # d
        BY <2>1, <2>3, <2>8, <3>1
    <3>3. PICK i \in 1..(Len(pending) - 1) : pending'[i] = pending[j]
      <4>1. CASE j < d
        <5>1. j \in 1..(Len(pending) - 1)
            BY <1>1, <4>1
        <5>2. QED
            BY <2>4, <4>1, <5>1
      <4>2. CASE d < j
        <5>1. j - 1 \in 1..(Len(pending) - 1) /\ ~(j - 1 < d) /\ (j - 1) + 1 = j
            BY <1>1, <4>2
        <5>2. QED
            BY <2>4, <5>1
      <4>3. QED
          BY <3>2, <4>1, <4>2
    <3>4. QED
        BY <2>4, <3>1, <3>3 DEF Queue
  <2>9. Queue' = {o \in Queue : o.key # c.key}
      BY <2>7, <2>8
  <2>10. QED
      BY <1>3, <2>4, <2>6, <2>9 DEF Leaves
<1>6. QED
    BY <1>4, <1>5

LEMMA PauseRests ==
    ASSUME Shape, Sorted, NEW c \in calls, Pause(c)
    PROVE  Rests /\ Sorted' /\ pending' \in Seq(Pended)
<1>1. /\ Len(pending) \in Nat
      /\ \A i \in 1..Len(pending) : pending[i] \in Pended
    BY LenProperties, ElementOfSeq DEF Shape, Pended
<1>2. /\ pending' = [i \in 1..Len(pending) |-> IF pending[i].key = c.key THEN [pending[i] EXCEPT !.failure = c.answer]
                                                ELSE pending[i]]
      /\ UNCHANGED drawn /\ c.answer \in Refusals
    BY DEF Pause
<1>3. \A i \in 1..Len(pending) : /\ pending'[i] \in Pended
                                  /\ pending'[i].key = pending[i].key /\ pending'[i].cmd = pending[i].cmd
    BY <1>1, <1>2 DEF Pended
<1>4. pending' \in [1..Len(pending) -> Pended]
    BY <1>2, <1>3
<1>5. pending' \in Seq(Pended) /\ Len(pending') = Len(pending)
    BY <1>1, <1>4, SeqDef
<1>6. Queue' = Queue /\ Sorted'
    BY <1>3, <1>5 DEF Queue, Sorted
<1>7. QED
    BY <1>2, <1>5, <1>6 DEF Rests

\* Reads a write or an acknowledgement made too old, and what is left of them otherwise.
Fewer == \A r \in Asked' : \E q \in Asked : r.brane = q.brane /\ (r.current => q.current)
AllOld == \A r \in Asked' : ~r.current

LEMMA ReadsOutdated ==
    ASSUME Shape, reads' = Outdated(reads)
    PROVE  Fewer /\ AllOld /\ reads' \in Seq(Read)
<1>1. reads \in Seq(Read) /\ Len(reads) \in Nat
    BY LenProperties DEF Shape, Read
<1>2. /\ reads' \in Seq(Read) /\ Len(reads') = Len(reads)
      /\ \A i \in 1..Len(reads) : ~reads'[i].current /\ reads'[i].brane = reads[i].brane
    BY <1>1, SeqOutdated DEF Read
<1>3. QED
    BY <1>2 DEF Fewer, AllOld, Asked

LEMMA ReadsStart ==
    ASSUME Shape, StartRead
    PROVE  /\ reads' \in Seq(Read)
           /\ \A r \in Asked' : r \in Asked \/ r.brane = None
<1> DEFINE new == [current |-> TRUE, brane |-> None]
<1>1. reads \in Seq(Read) /\ reads' = Append(reads, new) /\ new \in Read
    BY DEF Shape, Read, StartRead
<1>2. new.brane = None
    OBVIOUS
<1> HIDE DEF new
<1>3. /\ reads' \in Seq(Read) /\ Len(reads') = Len(reads) + 1 /\ Len(reads) \in Nat
      /\ reads'[Len(reads) + 1] = new
      /\ \A i \in 1..Len(reads) : reads'[i] = reads[i]
    BY <1>1, SeqAppend, LenProperties
<1>4. 1..(Len(reads) + 1) = (1..Len(reads)) \cup {Len(reads) + 1}
    BY <1>3
<1>5. QED
    BY <1>2, <1>3, <1>4 DEF Asked

LEMMA ReadsAnswer ==
    ASSUME Shape, NEW i \in 1..Len(reads), AnswerRead(i), ServerBrane \in Brane
    PROVE  /\ reads' \in Seq(Read)
           /\ \A r \in Asked' : r \in Asked \/ r.brane = ServerBrane
<1>1. reads' = [reads EXCEPT ![i].brane = ServerBrane] /\ reads \in Seq(Read)
    BY DEF AnswerRead, Shape, Read
<1>2. Len(reads) \in Nat /\ \A j \in 1..Len(reads) : reads[j] \in Read
    BY <1>1, LenProperties, ElementOfSeq
<1>3. reads \in [1..Len(reads) -> Read]
    BY <1>1, <1>2, LenProperties
<1>4. PICK answer \in Brane : answer = ServerBrane
    OBVIOUS
<1>5. [reads[i] EXCEPT !.brane = answer] \in Read /\ [reads[i] EXCEPT !.brane = answer].brane = answer
    BY <1>2 DEF Read
<1>6. reads' = [reads EXCEPT ![i] = [reads[i] EXCEPT !.brane = answer]]
    BY <1>1, <1>4
<1>7. reads' \in [1..Len(reads) -> Read]
    BY <1>3, <1>5, <1>6
<1>8. reads' \in Seq(Read) /\ Len(reads') = Len(reads)
    BY <1>2, <1>7, SeqDef
<1>9. \A j \in 1..Len(reads) : reads'[j] = reads[j] \/ reads'[j].brane = answer
    BY <1>3, <1>5, <1>6
<1>10. QED
    BY <1>4, <1>8, <1>9 DEF Asked

LEMMA ReadsFinish ==
    ASSUME Shape, NEW i \in 1..Len(reads), FinishRead(i)
    PROVE  Fewer /\ reads' \in Seq(Read)
<1>1. reads \in Seq(Read) /\ Len(reads) \in Nat /\ \A j \in 1..Len(reads) : reads[j] \in Read
  <2>1. reads \in Seq(Read)
      BY DEF Shape, Read
  <2>2. QED
      BY <2>1, LenProperties, ElementOfSeq
<1>2. CASE reads' = RemoveAt(reads, i)
  <2>1. /\ reads' \in Seq(Read) /\ Len(reads') = Len(reads) - 1
        /\ \A j \in 1..(Len(reads) - 1) : reads'[j] = IF j < i THEN reads[j] ELSE reads[j + 1]
      BY <1>1, <1>2, SeqRemove
  <2>2. \A j \in 1..(Len(reads) - 1) : \E k \in 1..Len(reads) : reads'[j] = reads[k]
    <3>1. TAKE j \in 1..(Len(reads) - 1)
    <3>2. j \in 1..Len(reads) /\ j + 1 \in 1..Len(reads)
        BY <1>1
    <3>3. QED
        BY <2>1, <3>2
  <2>3. QED
      BY <2>1, <2>2 DEF Fewer, Asked
<1>3. CASE reads' = Outdated(SubSeq(reads, 1, i - 1)) \o SubSeq(reads, i + 1, Len(reads))
  <2> DEFINE front == SubSeq(reads, 1, i - 1)
             back  == SubSeq(reads, i + 1, Len(reads))
             old   == Outdated(front)
  <2>1. /\ front \in Seq(Read) /\ Len(front) = i - 1
        /\ \A j \in 1..(i - 1) : front[j] = reads[j]
    <3>1. \A j \in 1..(i - 1) : reads[j] \in Read
        BY <1>1
    <3>2. QED
        BY <1>1, <3>1, SubSeqProperties
  <2>2. /\ back \in Seq(Read) /\ Len(back) = Len(reads) - i
        /\ \A j \in 1..(Len(reads) - i) : back[j] = reads[i + j]
    <3>1. \A j \in (i + 1)..Len(reads) : reads[j] \in Read
        BY <1>1
    <3>2. QED
        BY <1>1, <3>1, SubSeqProperties
  <2> HIDE DEF front, back
  <2>3. /\ old \in Seq(Read) /\ Len(old) = i - 1
        /\ \A j \in 1..(i - 1) : ~old[j].current /\ old[j].brane = front[j].brane
      BY <2>1, SeqOutdated DEF Read
  <2>4. reads' = old \o back
      BY <1>3 DEF front, back
  <2> HIDE DEF old
  <2>5. /\ reads' \in Seq(Read) /\ Len(reads') = Len(old) + Len(back)
        /\ \A j \in 1..(Len(old) + Len(back)) : reads'[j] = IF j <= Len(old) THEN old[j] ELSE back[j - Len(old)]
      BY <2>2, <2>3, <2>4, ConcatProperties
  <2>6. ASSUME NEW j \in 1..(Len(old) + Len(back))
        PROVE  \E k \in 1..Len(reads) : /\ reads'[j].brane = reads[k].brane
                                        /\ reads'[j].current => reads[k].current
    <3>1. CASE j <= Len(old)
      <4>1. j \in 1..(i - 1) /\ j \in 1..Len(reads)
          BY <1>1, <2>2, <2>3, <3>1
      <4>2. ~reads'[j].current /\ reads'[j].brane = reads[j].brane
          BY <2>1, <2>3, <2>5, <3>1, <4>1
      <4>3. QED
          BY <4>1, <4>2
    <3>2. CASE ~(j <= Len(old))
      <4>1. j - Len(old) \in 1..(Len(reads) - i) /\ i + (j - Len(old)) \in 1..Len(reads)
          BY <1>1, <2>2, <2>3, <3>2
      <4>2. reads'[j] = reads[i + (j - Len(old))]
          BY <2>2, <2>5, <3>2, <4>1
      <4>3. QED
          BY <4>1, <4>2
    <3>3. QED
        BY <3>1, <3>2
  <2>7. QED
      BY <2>5, <2>6 DEF Fewer, Asked
<1>4. QED
    BY <1>2, <1>3 DEF FinishRead, Install

\* What the server had it keeps: a history is only ever appended to.
Grows ==
    \A b \in Blocks : /\ Len(history[b]) <= Len(history'[b])
                      /\ \A i \in 1..Len(history[b]) : history'[b][i] = history[b][i]

LEMMA HistoryAppended ==
    ASSUME Shape, NEW d \in Blocks, NEW w \in Written,
           history' = [history EXCEPT ![d] = Append(@, w)]
    PROVE  /\ Grows /\ history' \in [Blocks -> Seq(Written)]
           /\ Len(history'[d]) = Len(history[d]) + 1
           /\ history'[d][Len(history[d]) + 1] = w
           /\ \A b \in Blocks \ {d} : history'[b] = history[b]
<1>1. history \in [Blocks -> Seq(Written)]
    BY DEF Shape
<1>2. history[d] \in Seq(Written) /\ history'[d] = Append(history[d], w)
    BY <1>1
<1>3. PICK s \in Seq(Written) : s = history[d]
    BY <1>2
<1>4. /\ Append(s, w) \in Seq(Written) /\ Len(Append(s, w)) = Len(s) + 1
      /\ Append(s, w)[Len(s) + 1] = w
      /\ \A i \in 1..Len(s) : Append(s, w)[i] = s[i]
    BY SeqAppend
<1>5. \A b \in Blocks \ {d} : history'[b] = history[b]
    BY <1>1
<1>6. history' \in [Blocks -> Seq(Written)]
    BY <1>1, <1>2, <1>3, <1>4
<1>7. \A b \in Blocks : Len(history[b]) \in Nat
    BY <1>1, LenProperties
<1>8. Grows
  <2>1. SUFFICES ASSUME NEW b \in Blocks
                 PROVE  /\ Len(history[b]) <= Len(history'[b])
                        /\ \A i \in 1..Len(history[b]) : history'[b][i] = history[b][i]
      BY DEF Grows
  <2>2. CASE b = d
      BY <1>2, <1>3, <1>4, <1>7, <2>2
  <2>3. CASE b # d
      BY <1>5, <1>7, <2>3
  <2>4. QED
      BY <2>2, <2>3
<1>9. QED
    BY <1>2, <1>3, <1>4, <1>5, <1>6, <1>8

LEMMA TruthStays ==
    ASSUME Shape, Grows, NEW b \in Blocks, NEW cached \in CachedText, Truth(b, cached)
    PROVE  Truth(b, cached)'
<1>1. Len(history[b]) \in Nat /\ cached.version \in Nat
    BY LenProperties DEF Shape, CachedText
<1>2. cached.version + 1 \in 1..Len(history[b])
    BY <1>1 DEF Truth
<1>3. QED
    BY <1>1, <1>2 DEF Grows, Truth

\* Calls only move on: each was there before, of the same operation.
MovesOn ==
    \A c \in calls' : \E d \in calls :
        /\ c.key = d.key /\ c.cmd = d.cmd
        /\ c.live => d.live
        /\ c.answer = "applied" => d.answer = "applied" \/ \E r \in receipts' : r.key = c.key
Sent(i) == calls' = calls \cup {[key |-> pending[i].key, cmd |-> pending[i].cmd, live |-> TRUE, answer |-> None]}

LEMMA CallsAnswered ==
    ASSUME calls \subseteq Called, OneLive, NEW c \in calls, NEW a \in Refusals \cup {"applied"},
           Answer(c, a), a = "applied" => \E r \in receipts' : r.key = c.key
    PROVE  calls' \subseteq Called /\ OneLive' /\ MovesOn
<1> DEFINE new == [c EXCEPT !.answer = a]
<1>1. calls' = (calls \ {c}) \cup (IF c.live THEN {new} ELSE {})
    BY DEF Answer
<1>2. new \in Called /\ new.key = c.key /\ new.cmd = c.cmd /\ new.live = c.live /\ new.answer = a
    BY DEF Called
<1> HIDE DEF new
<1>3. calls' \subseteq Called
    BY <1>1, <1>2
<1>4. OneLive'
  <2>1. SUFFICES ASSUME NEW d \in calls', NEW e \in calls', d.live, e.live, d.key = e.key
                 PROVE  d = e
      BY DEF OneLive
  <2>2. QED
      BY <1>1, <1>2, <2>1 DEF OneLive
<1>5. MovesOn
  <2>1. SUFFICES ASSUME NEW d \in calls'
                 PROVE  \E e \in calls : /\ d.key = e.key /\ d.cmd = e.cmd
                                         /\ d.live => e.live
                                         /\ d.answer = "applied" =>
                                               e.answer = "applied" \/ \E r \in receipts' : r.key = d.key
      BY DEF MovesOn
  <2>2. CASE d \in calls
      BY <2>2
  <2>3. CASE d = new
      BY <1>2, <2>3
  <2>4. QED
      BY <1>1, <2>2, <2>3
<1>6. QED
    BY <1>3, <1>4, <1>5

LEMMA CallsGivenUp ==
    ASSUME calls \subseteq Called, OneLive, NEW c \in calls, GiveUp(c)
    PROVE  calls' \subseteq Called /\ OneLive' /\ MovesOn
<1> DEFINE new == [c EXCEPT !.live = FALSE]
<1>1. calls' = (calls \ {c}) \cup (IF c.answer = None THEN {new} ELSE {})
    BY DEF GiveUp
<1>2. new \in Called /\ new.key = c.key /\ new.cmd = c.cmd /\ ~new.live /\ new.answer = c.answer
    BY DEF Called
<1> HIDE DEF new
<1>3. calls' \subseteq Called
    BY <1>1, <1>2
<1>4. OneLive'
  <2>1. SUFFICES ASSUME NEW d \in calls', NEW e \in calls', d.live, e.live, d.key = e.key
                 PROVE  d = e
      BY DEF OneLive
  <2>2. QED
      BY <1>1, <1>2, <2>1 DEF OneLive
<1>5. MovesOn
  <2>1. SUFFICES ASSUME NEW d \in calls'
                 PROVE  \E e \in calls : /\ d.key = e.key /\ d.cmd = e.cmd
                                         /\ d.live => e.live
                                         /\ d.answer = "applied" =>
                                               e.answer = "applied" \/ \E r \in receipts' : r.key = d.key
      BY DEF MovesOn
  <2>2. CASE d \in calls
      BY <2>2
  <2>3. CASE d = new
      BY <1>2, <2>3
  <2>4. QED
      BY <1>1, <2>2, <2>3
<1>6. QED
    BY <1>3, <1>4, <1>5

LEMMA CallsFewer ==
    ASSUME calls \subseteq Called, OneLive, calls' \subseteq calls
    PROVE  calls' \subseteq Called /\ OneLive' /\ MovesOn
BY DEF OneLive, MovesOn

LEMMA CallsSent ==
    ASSUME Shape, OneLive, NEW i \in 1..Len(pending), Dispatch(i)
    PROVE  /\ calls' \subseteq Called /\ OneLive' /\ Sent(i)
           /\ pending[i] \in Pended
<1> DEFINE new == [key |-> pending[i].key, cmd |-> pending[i].cmd, live |-> TRUE, answer |-> None]
<1>1. pending[i] \in Pended
    BY ElementOfSeq DEF Shape, Pended
<1>2. calls' = calls \cup {new} /\ ~InFlight(pending[i].key)
    BY DEF Dispatch
<1>3. new \in Called /\ new.key = pending[i].key
    BY <1>1 DEF Pended, Called
<1> HIDE DEF new
<1>4. calls' \subseteq Called
    BY <1>2, <1>3 DEF Shape, Called
<1>5. OneLive'
    BY <1>2, <1>3 DEF OneLive, InFlight
<1>6. QED
    BY <1>1, <1>2, <1>4, <1>5 DEF Sent, new

\* A person's write, with what it was written over.
Writes(cmd) ==
    /\ Write(cmd)
    /\ \/ cmd.type = "create" /\ Unused(cmd.block)
       \/ cmd.type = "edit" /\ local[cmd.block] # None /\ Base(cmd) = local[cmd.block]
       \/ cmd.type = "remove" /\ shown[cmd.block]

LEMMA PersonWrites ==
    ASSUME Shape, Person
    PROVE  \E cmd \in Command : Writes(cmd)
<1>1. PICK b \in Blocks : CreateCard(b) \/ TakeOff(b) \/ \E t \in Texts : EditText(b, t)
    BY DEF Person
<1>2. CASE CreateCard(b)
  <2>1. Create(b) \in Command /\ Create(b).type = "create" /\ Create(b).block = b
      BY DEF Create, Command
  <2>2. QED
      BY <1>2, <2>1 DEF CreateCard, Writes
<1>3. CASE TakeOff(b)
  <2>1. RemoveCard(b) \in Command /\ RemoveCard(b).type = "remove" /\ RemoveCard(b).block = b
      BY DEF RemoveCard, Command
  <2>2. QED
      BY <1>3, <2>1 DEF TakeOff, Writes
<1>4. CASE \E t \in Texts : EditText(b, t)
  <2>1. PICK t \in Texts : EditText(b, t)
      BY <1>4
  <2>2. local[b] \in CachedText /\ local[b] # None
      BY <2>1 DEF EditText, Shape, Brane
  <2>3. PICK old \in CachedText : old = local[b]
      BY <2>2
  <2>4. PICK cmd : cmd = Edit(b, t, old.version, old.text)
      OBVIOUS
  <2>5. cmd \in Command /\ cmd.type = "edit" /\ cmd.block = b /\ Base(cmd) = old
      BY <2>4 DEF Edit, Command, CachedText, Base
  <2>6. Write(cmd)
      BY <2>1, <2>3, <2>4 DEF EditText
  <2>7. QED
      BY <2>2, <2>3, <2>5, <2>6 DEF Writes
<1>5. QED
    BY <1>1, <1>2, <1>3, <1>4

\* Every step is a write, an acknowledgement, or leaves the operations what they are.
LEMMA QueueStep ==
    ASSUME Shape, Sorted, \A o \in Queue : o.key <= drawn, [Next]_vars
    PROVE  /\ Sorted' /\ pending' \in Seq(Pended)
           /\ \/ \E cmd \in Command : Writes(cmd) /\ Joins(cmd)
              \/ \E c \in calls : Acknowledge(c) /\ Leaves(c.key)
              \/ Rests
<1>1. pending \in Seq(Pended)
    BY DEF Shape, Pended
<1>2. CASE UNCHANGED <<pending, drawn>>
    BY <1>1, <1>2 DEF Rests, Queue, Sorted
<1>3. CASE Person
  <2>1. PICK cmd \in Command : Writes(cmd)
      BY <1>3, PersonWrites
  <2>2. Write(cmd)
      BY <2>1 DEF Writes
  <2>3. QED
      BY <2>1, <2>2, WriteJoins
<1>4. CASE \E c \in calls : Acknowledge(c)
    BY <1>4, AcknowledgeLeaves
<1>5. CASE \E c \in calls : Pause(c)
    BY <1>5, PauseRests
<1>6. CASE Elsewhere \/ Reading \/ Sending \/ Serving \/ Failing \/ UNCHANGED vars
    BY <1>2, <1>6 DEF Elsewhere, EditElsewhere, RemoveElsewhere, Reading, StartRead, AnswerRead, FinishRead,
       Sending, Dispatch, Serving, Serve, Apply, Repeat, Refuse, Failing, GiveUp, replica, network, vars
<1>7. QED
    BY <1>3, <1>4, <1>5, <1>6 DEF Next, Settling

LEMMA CallsMove ==
    ASSUME Shape, OneLive, [Next]_vars
    PROVE  /\ calls' \subseteq Called /\ OneLive'
           /\ MovesOn \/ \E i \in 1..Len(pending) : Dispatch(i) /\ Sent(i)
<1>1. calls \subseteq Called
    BY DEF Shape, Called
<1>2. CASE UNCHANGED calls
    BY <1>1, <1>2, CallsFewer
<1>3. CASE Person \/ Elsewhere \/ Reading \/ UNCHANGED vars
    BY <1>2, <1>3 DEF Person, CreateCard, TakeOff, EditText, Write, Elsewhere, EditElsewhere, RemoveElsewhere,
       Reading, StartRead, AnswerRead, FinishRead, network, vars
<1>4. CASE Sending
    BY <1>4, CallsSent DEF Sending
<1>5. CASE Serving
  <2>1. PICK c \in calls : Serve(c)
      BY <1>5 DEF Serving
  <2>2. CASE Apply(c)
    <3>1. Answer(c, "applied") /\ \E r \in receipts' : r.key = c.key
      <4>1. PICK r : r = [key |-> c.key, cmd |-> c.cmd]
          OBVIOUS
      <4>2. r \in receipts' /\ r.key = c.key
          BY <2>2, <4>1 DEF Apply
      <4>3. QED
          BY <2>2, <4>2 DEF Apply
    <3>2. QED
        BY <1>1, <3>1, CallsAnswered
  <2>3. CASE Repeat(c)
    <3>1. PICK a \in {"applied", "reused"} : Answer(c, a)
        BY <2>3 DEF Repeat
    <3>2. \E r \in receipts' : r.key = c.key
        BY <2>3 DEF Repeat, Received, server
    <3>3. QED
        BY <1>1, <3>1, <3>2, CallsAnswered DEF Refusals
  <2>4. CASE Refuse(c)
    <3>1. PICK a \in Answers(c.cmd) \ {"applied"} : Answer(c, a)
        BY <2>4 DEF Refuse
    <3>2. a \in Refusals
      <4>1. c.cmd \in Command
          BY <1>1 DEF Called
      <4>2. c.cmd.type \in {"create", "edit", "remove"}
          BY <4>1 DEF Command
      <4>3. QED
          BY <3>1, <4>2 DEF Answers, Room, Refusals
    <3>3. QED
        BY <1>1, <3>1, <3>2, CallsAnswered
  <2>5. QED
      BY <2>1, <2>2, <2>3, <2>4 DEF Serve
<1>6. CASE Settling
  <2>1. calls' \subseteq calls
      BY <1>6 DEF Settling, Acknowledge, Pause
  <2>2. QED
      BY <1>1, <2>1, CallsFewer
<1>7. CASE Failing
    BY <1>1, <1>7, CallsGivenUp DEF Failing
<1>8. QED
    BY <1>3, <1>4, <1>5, <1>6, <1>7 DEF Next

LEMMA Applied ==
    ASSUME Shape, NEW c \in calls, Apply(c)
    PROVE  /\ c.key \in Keys /\ c.cmd \in Command /\ c.cmd.block \in Blocks
           /\ c.cmd.type \in {"create", "edit", "remove"}
           /\ receipts' = receipts \cup {[key |-> c.key, cmd |-> c.cmd]}
           /\ c.cmd.type = "create" =>
                 /\ history[c.cmd.block] = <<>> /\ card' = [card EXCEPT ![c.cmd.block] = "placed"]
                 /\ UNCHANGED remover
           /\ c.cmd.type = "edit" =>
                 /\ history[c.cmd.block] # <<>> /\ Version(c.cmd.block) = c.cmd.version
                 /\ UNCHANGED <<card, remover>>
           /\ c.cmd.type = "remove" =>
                 /\ card[c.cmd.block] = "placed" /\ card' = [card EXCEPT ![c.cmd.block] = "removed"]
                 /\ remover' = [remover EXCEPT ![c.cmd.block] = c.key]
           /\ IF c.cmd.type = "create" \/ (c.cmd.type = "edit" /\ c.cmd.text # ServerText(c.cmd.block))
              THEN history' = [history EXCEPT ![c.cmd.block] = Append(@, [text |-> c.cmd.text, by |-> c.key])]
              ELSE UNCHANGED history
           /\ UNCHANGED <<replica, reads>>
<1>1. c.key \in Keys /\ c.cmd \in Command /\ c.cmd.block \in Blocks
    BY DEF Shape, Command
<1>2. c.cmd.type \in {"create", "edit", "remove"}
    BY <1>1 DEF Command
<1>3. "applied" \in Answers(c.cmd)
    BY DEF Apply
<1>4. c.cmd.type = "create" => history[c.cmd.block] = <<>>
    BY <1>3 DEF Answers, Room
<1>5. c.cmd.type = "edit" => history[c.cmd.block] # <<>> /\ Version(c.cmd.block) = c.cmd.version
    BY <1>3 DEF Answers, Room
<1>6. c.cmd.type = "remove" => card[c.cmd.block] = "placed"
    BY <1>3 DEF Answers, Room
<1>7. QED
    BY <1>1, <1>2, <1>4, <1>5, <1>6 DEF Apply

LEMMA HistoryStep ==
    ASSUME Shape, [Next]_vars
    PROVE  Grows /\ history' \in [Blocks -> Seq(Written)]
<1>1. CASE UNCHANGED history
  <2>1. \A b \in Blocks : Len(history[b]) \in Nat
      BY LenProperties DEF Shape
  <2>2. QED
      BY <1>1, <2>1 DEF Shape, Grows
<1>2. CASE \E c \in calls : Apply(c)
  <2>1. PICK c \in calls : Apply(c)
      BY <1>2
  <2>2. PICK w : w = [text |-> c.cmd.text, by |-> c.key]
      OBVIOUS
  <2>3. w \in Written /\ c.cmd.block \in Blocks
      BY <2>1, <2>2, Applied DEF Written, Command
  <2>4. UNCHANGED history \/ history' = [history EXCEPT ![c.cmd.block] = Append(@, w)]
      BY <2>1, <2>2, Applied
  <2>5. QED
      BY <1>1, <2>3, <2>4, HistoryAppended
<1>3. CASE \E b \in Blocks : \E t \in Texts : EditElsewhere(b, t)
  <2>1. PICK b \in Blocks, t \in Texts : EditElsewhere(b, t)
      BY <1>3
  <2>2. PICK w : w = [text |-> t, by |-> Others]
      OBVIOUS
  <2>3. w \in Written /\ history' = [history EXCEPT ![b] = Append(@, w)]
      BY <2>1, <2>2 DEF Written, EditElsewhere
  <2>4. QED
      BY <2>3, HistoryAppended
<1>4. CASE Person \/ Reading \/ Sending \/ Settling \/ Failing \/ UNCHANGED vars
           \/ (\E b \in Blocks : RemoveElsewhere(b)) \/ \E c \in calls : Repeat(c) \/ Refuse(c)
    BY <1>1, <1>4 DEF Person, CreateCard, TakeOff, EditText, Write, RemoveElsewhere, Reading, StartRead, AnswerRead,
       FinishRead, Sending, Dispatch, Settling, Acknowledge, Pause, Failing, GiveUp, Repeat, Refuse, server, vars
<1>5. QED
    BY <1>2, <1>3, <1>4 DEF Next, Elsewhere, Serving, Serve

LEMMA ServerShape ==
    ASSUME Shape, [Next]_vars
    PROVE  /\ card' \in [Blocks -> {"never", "placed", "removed"}]
           /\ remover' \in [Blocks -> Keys \cup {Others, None}]
           /\ receipts' \subseteq Op
<1>1. CASE UNCHANGED <<card, remover, receipts>>
    BY <1>1 DEF Shape
<1>2. CASE \E c \in calls : Apply(c)
  <2>1. PICK c \in calls : Apply(c)
      BY <1>2
  <2>2. [key |-> c.key, cmd |-> c.cmd] \in Op
      BY <2>1, Applied DEF Op
  <2>3. receipts' \subseteq Op
    <3>1. receipts' = receipts \cup {[key |-> c.key, cmd |-> c.cmd]}
        BY <2>1, Applied
    <3>2. receipts \subseteq Op
        BY DEF Shape
    <3>3. QED
        BY <2>2, <3>1, <3>2
  <2>4. c.cmd.block \in Blocks /\ c.key \in Keys
      BY <2>1, Applied
  <2>5. UNCHANGED card \/ \E v \in {"placed", "removed"} : card' = [card EXCEPT ![c.cmd.block] = v]
      BY <2>1, Applied
  <2>6. UNCHANGED remover \/ remover' = [remover EXCEPT ![c.cmd.block] = c.key]
      BY <2>1, Applied
  <2>7. card' \in [Blocks -> {"never", "placed", "removed"}]
      BY <2>4, <2>5 DEF Shape
  <2>8. remover' \in [Blocks -> Keys \cup {Others, None}]
      BY <2>4, <2>6 DEF Shape
  <2>9. QED
      BY <2>3, <2>7, <2>8
<1>3. CASE \E b \in Blocks : RemoveElsewhere(b)
    BY <1>3 DEF RemoveElsewhere, Shape
<1>4. CASE Person \/ Reading \/ Sending \/ Settling \/ Failing \/ UNCHANGED vars
           \/ (\E b \in Blocks : \E t \in Texts : EditElsewhere(b, t)) \/ \E c \in calls : Repeat(c) \/ Refuse(c)
    BY <1>1, <1>4 DEF Person, CreateCard, TakeOff, EditText, Write, EditElsewhere, Reading, StartRead, AnswerRead,
       FinishRead, Sending, Dispatch, Settling, Acknowledge, Pause, Failing, GiveUp, Repeat, Refuse, server, vars
<1>5. QED
    BY <1>2, <1>3, <1>4 DEF Next, Elsewhere, Serving, Serve

-----------------------------------------------------------------------------
(* The replica and its reads *)

LEMMA NoneApart ==
    /\ None \notin CachedText /\ None \notin Brane /\ None \notin Keys /\ None # Others
    /\ None \notin Refusals \cup {"applied"}
BY NoneAssumption, BoundAssumption DEF CachedText, Brane, Keys, Others, Refusals

LEMMA ServerBraneShape ==
    ASSUME Shape, \A b \in Blocks : history[b] = <<>> => card[b] = "never"
    PROVE  /\ ServerBrane \in Brane
           /\ \A b \in Blocks : ServerBrane[b] # None <=> card[b] = "placed"
           /\ \A b \in Blocks : ServerBrane[b] # None => Truth(b, ServerBrane[b])
<1>1. ASSUME NEW b \in Blocks, card[b] = "placed"
      PROVE  /\ ServerText(b) \in Texts \cup {Empty} /\ Version(b) \in Nat
             /\ Version(b) + 1 = Len(history[b]) /\ history[b][Version(b) + 1].text = ServerText(b)
  <2>1. history[b] \in Seq(Written) /\ history[b] # <<>>
      BY <1>1 DEF Shape
  <2>2. PICK h \in Seq(Written) : h = history[b]
      BY <2>1
  <2>3. Len(h) \in Nat /\ Len(h) > 0
      BY <2>1, <2>2, EmptySeq, LenProperties
  <2>4. h[Len(h)] \in Written /\ Last(h) = h[Len(h)]
      BY <2>3, ElementOfSeq DEF Last
  <2>5. Version(b) = Len(h) - 1 /\ ServerText(b) = Last(h).text
      BY <2>2 DEF Version, ServerText
  <2>6. Version(b) + 1 = Len(h)
      BY <2>3, <2>5
  <2>7. QED
      BY <2>2, <2>3, <2>4, <2>5, <2>6 DEF Written
<1>2. ASSUME NEW b \in Blocks, card[b] = "placed"
      PROVE  /\ ServerBrane[b] = [text |-> ServerText(b), version |-> Version(b)]
             /\ ServerBrane[b] \in CachedText
  <2>1. ServerBrane[b] = [text |-> ServerText(b), version |-> Version(b)]
      BY <1>2 DEF ServerBrane
  <2>2. QED
      BY <1>1, <1>2, <2>1 DEF CachedText
<1>3. ASSUME NEW b \in Blocks, card[b] # "placed"
      PROVE  ServerBrane[b] = None
    BY <1>3 DEF ServerBrane
<1>4. ServerBrane \in Brane
  <2>1. \A b \in Blocks : ServerBrane[b] \in CachedText \cup {None}
      BY <1>2, <1>3
  <2>2. ServerBrane = [b \in Blocks |-> ServerBrane[b]]
      BY DEF ServerBrane
  <2>3. QED
      BY <2>1, <2>2 DEF Brane
<1>5. \A b \in Blocks : ServerBrane[b] # None <=> card[b] = "placed"
    BY <1>2, <1>3, NoneApart
<1>6. ASSUME NEW b \in Blocks, ServerBrane[b] # None
      PROVE  Truth(b, ServerBrane[b])
  <2>1. card[b] = "placed"
      BY <1>5, <1>6
  <2>2. ServerBrane[b].version = Version(b) /\ ServerBrane[b].text = ServerText(b)
    <3>1. ServerBrane[b] = [text |-> ServerText(b), version |-> Version(b)]
        BY <1>2, <2>1
    <3>2. QED
        BY <3>1
  <2>3. Len(history[b]) \in Nat
      BY LenProperties DEF Shape
  <2>4. QED
      BY <1>1, <2>1, <2>2, <2>3 DEF Truth
<1>7. QED
    BY <1>4, <1>5, <1>6

LEMMA Projected ==
    ASSUME Shape, NEW cmd \in Command, Write(cmd)
    PROVE  /\ local' \in Brane /\ shown' \in [Blocks -> BOOLEAN]
           /\ cmd.block \in Blocks
           /\ \A b \in Blocks : b # cmd.block => local'[b] = local[b] /\ shown'[b] = shown[b]
           /\ cmd.type = "create" => shown'[cmd.block]
           /\ cmd.type = "remove" => ~shown'[cmd.block]
           /\ cmd.type = "edit" => UNCHANGED shown
           /\ cmd.type = "create" /\ local[cmd.block] = None => local'[cmd.block] = After(cmd)
           /\ cmd.type = "edit" /\ local[cmd.block] # None /\ cmd.over = local[cmd.block].text => local'[cmd.block] = After(cmd)
           /\ cmd.type = "remove" => UNCHANGED local
<1>1. /\ cmd.type \in {"create", "edit", "remove"} /\ cmd.block \in Blocks
      /\ cmd.text \in Texts \cup {Empty} /\ cmd.version \in Nat
    BY DEF Command
<1>2. local \in Brane /\ shown \in [Blocks -> BOOLEAN]
    BY DEF Shape
<1>3. local' = ProjectText(cmd, local) /\ shown' = ProjectCard(cmd, shown)
    BY DEF Write
<1>4. shown' = CASE cmd.type = "create" -> [shown EXCEPT ![cmd.block] = TRUE]
                 [] cmd.type = "remove" -> [shown EXCEPT ![cmd.block] = FALSE]
                 [] OTHER               -> shown
    BY <1>3 DEF ProjectCard
<1>5. /\ shown' \in [Blocks -> BOOLEAN]
      /\ \A b \in Blocks : b # cmd.block => shown'[b] = shown[b]
      /\ cmd.type = "create" => shown'[cmd.block]
      /\ cmd.type = "remove" => ~shown'[cmd.block]
      /\ cmd.type = "edit" => UNCHANGED shown
  <2>1. CASE cmd.type = "create"
      BY <1>1, <1>2, <1>4, <2>1
  <2>2. CASE cmd.type = "remove"
      BY <1>1, <1>2, <1>4, <2>2
  <2>3. CASE cmd.type = "edit"
      BY <1>1, <1>2, <1>4, <2>3
  <2>4. QED
      BY <1>1, <2>1, <2>2, <2>3
<1>6. CASE cmd.type = "create" /\ local[cmd.block] = None
  <2>1. local' = [local EXCEPT ![cmd.block] = [text |-> Empty, version |-> 0]]
      BY <1>3, <1>6 DEF ProjectText
  <2>2. [text |-> Empty, version |-> 0] \in CachedText
      BY DEF CachedText
  <2>3. QED
      BY <1>1, <1>2, <1>5, <1>6, <2>1, <2>2 DEF Brane, After
<1>7. CASE cmd.type = "edit" /\ local[cmd.block] # None
  <2> DEFINE new == [text |-> cmd.text, version |-> NextVersion(cmd, local[cmd.block])]
  <2>1. local' = [local EXCEPT ![cmd.block] = new]
      BY <1>3, <1>7 DEF ProjectText
  <2>2. new \in CachedText
      BY <1>1 DEF CachedText, NextVersion
  <2>3. cmd.over = local[cmd.block].text => new = After(cmd)
      BY <1>7 DEF NextVersion, After
  <2> HIDE DEF new
  <2>4. QED
      BY <1>1, <1>2, <1>5, <1>7, <2>1, <2>2, <2>3 DEF Brane
<1>8. CASE ~(cmd.type = "create" /\ local[cmd.block] = None) /\ ~(cmd.type = "edit" /\ local[cmd.block] # None)
  <2>1. local' = local
      BY <1>3, <1>8 DEF ProjectText
  <2>2. QED
      BY <1>1, <1>2, <1>5, <1>8, <2>1
<1>9. QED
    BY <1>6, <1>7, <1>8

LEMMA CardAwaited ==
    ASSUME NEW b \in Blocks
    PROVE  b \in PendingCard <=> CardWaits(b)
<1>1. b \in PendingCard <=> \E i \in 1..Len(pending) : Touches(pending[i], {"create", "remove"}, b)
    BY DEF PendingCard
<1>2. ASSUME NEW i \in 1..Len(pending), Touches(pending[i], {"create", "remove"}, b)
      PROVE  CardWaits(b)
  <2>1. [key |-> pending[i].key, cmd |-> pending[i].cmd] \in Queue
      BY DEF Queue
  <2>2. QED
      BY <1>2, <2>1 DEF Touches, CardWaits, IsCard
<1>3. ASSUME CardWaits(b)
      PROVE  \E i \in 1..Len(pending) : Touches(pending[i], {"create", "remove"}, b)
  <2>1. PICK o \in Queue : IsCard(o.cmd) /\ o.cmd.block = b
      BY <1>3 DEF CardWaits
  <2>2. PICK i \in 1..Len(pending) : o = [key |-> pending[i].key, cmd |-> pending[i].cmd]
      BY DEF Queue
  <2>3. QED
      BY <2>1, <2>2 DEF Touches, IsCard
<1>4. QED
    BY <1>1, <1>2, <1>3

LEMMA TextAwaited ==
    ASSUME NEW b \in Blocks, NEW o \in Queue, IsText(o.cmd), o.cmd.block = b
    PROVE  b \in PendingText
<1>1. PICK i \in 1..Len(pending) : o = [key |-> pending[i].key, cmd |-> pending[i].cmd]
    BY DEF Queue
<1>2. Touches(pending[i], {"create", "edit"}, b)
    BY <1>1 DEF Touches, IsText
<1>3. QED
    BY <1>2 DEF PendingText

\* What an answer that is still current replaces.
Installs(r) ==
    /\ r.current /\ r.brane # None /\ r.brane \in Brane
    /\ \A b \in Blocks : local'[b] \in {None, local[b], r.brane[b]}
    /\ \A b \in PendingText : local[b] # None => local'[b] \in {None, local[b]}
    /\ \A b \in PendingText : local[b] # None /\ local'[b] = None => b \in forgotten'
    /\ forgotten \subseteq forgotten'
    /\ \A b \in Blocks : shown'[b] = IF CardWaits(b) THEN shown[b] ELSE r.brane[b] # None

LEMMA Installed ==
    ASSUME Shape, NEW i \in 1..Len(reads), FinishRead(i)
    PROVE  /\ local' \in Brane /\ shown' \in [Blocks -> BOOLEAN]
           /\ UNCHANGED <<local, shown, forgotten>> \/ \E r \in Asked : Installs(r)
<1>1. reads[i] \in Read /\ reads[i] \in Asked
    BY ElementOfSeq DEF Shape, Read, Asked
<1>2. local \in Brane /\ shown \in [Blocks -> BOOLEAN]
    BY DEF Shape
<1>3. CASE UNCHANGED <<local, shown, forgotten>>
    BY <1>2, <1>3
<1>4. CASE reads[i].current /\ Install(i)
  <2>1. PICK r \in Asked : r = reads[i]
      BY <1>1
  <2>2. r.brane # None /\ r.brane \in Brane /\ r.current
      BY <1>1, <1>4, <2>1 DEF FinishRead, Read
  <2>3. PICK brane \in Brane : brane = r.brane
      BY <2>2
  <2>4. local' = InstalledText(brane) /\ shown' = InstalledCards(brane)
      BY <1>4, <2>1, <2>3 DEF Install
  <2>5. \A b \in Blocks : local'[b] \in {None, local[b], brane[b]}
      BY <2>4 DEF InstalledText
  <2>6. \A b \in Blocks : local[b] \in CachedText \cup {None} /\ brane[b] \in CachedText \cup {None}
      BY <1>2 DEF Brane
  <2>7. \A b \in Blocks : local'[b] \in CachedText \cup {None}
      BY <2>5, <2>6
  <2>8. local' = [b \in Blocks |-> local'[b]]
      BY <2>4 DEF InstalledText
  <2>9. local' \in Brane
      BY <2>7, <2>8 DEF Brane
  <2>10. \A b \in Blocks : shown'[b] = IF CardWaits(b) THEN shown[b] ELSE brane[b] # None
    <3>1. SUFFICES ASSUME NEW b \in Blocks
                   PROVE  shown'[b] = IF CardWaits(b) THEN shown[b] ELSE brane[b] # None
        OBVIOUS
    <3>2. shown'[b] = IF b \in PendingCard THEN shown[b] ELSE brane[b] # None
        BY <2>4 DEF InstalledCards
    <3>3. QED
        BY <3>2, CardAwaited
  <2>11. shown' \in [Blocks -> BOOLEAN]
    <3>1. shown' = [b \in Blocks |-> IF b \in PendingCard THEN shown[b] ELSE brane[b] # None]
        BY <2>4 DEF InstalledCards
    <3>2. \A b \in Blocks : (IF b \in PendingCard THEN shown[b] ELSE brane[b] # None) \in BOOLEAN
        BY <1>2
    <3>3. QED
        BY <3>1, <3>2
  <2>12. Installs(r)
    <3>1. \A b \in PendingText : b \in Blocks /\ (local[b] # None => local'[b] \in {None, local[b]})
        BY <2>4 DEF InstalledText, PendingText
    <3>2. /\ \A b \in PendingText : local[b] # None /\ local'[b] = None => b \in forgotten'
          /\ forgotten \subseteq forgotten'
        BY <1>4 DEF Install
    <3>3. QED
        BY <2>2, <2>3, <2>5, <2>10, <3>1, <3>2 DEF Installs
  <2>13. QED
      BY <2>9, <2>11, <2>12
<1>5. QED
    BY <1>3, <1>4 DEF FinishRead

LEMMA ReplicaStep ==
    ASSUME Shape, [Next]_vars
    PROVE  /\ local' \in Brane /\ shown' \in [Blocks -> BOOLEAN]
           /\ \/ UNCHANGED <<local, shown>>
              \/ Person
              \/ Rests /\ UNCHANGED <<server, calls>> /\ \E r \in Asked : Installs(r)
<1>1. local \in Brane /\ shown \in [Blocks -> BOOLEAN]
    BY DEF Shape
<1>2. CASE Person
  <2>1. PICK cmd \in Command : Writes(cmd)
      BY <1>2, PersonWrites
  <2>2. Write(cmd)
      BY <2>1 DEF Writes
  <2>3. QED
      BY <1>2, <2>2, Projected
<1>3. CASE \E i \in 1..Len(reads) : FinishRead(i)
  <2>1. PICK i \in 1..Len(reads) : FinishRead(i)
      BY <1>3
  <2>2. Rests /\ UNCHANGED <<server, calls>>
      BY <2>1 DEF FinishRead, Rests, Queue
  <2>3. QED
      BY <2>1, <2>2, Installed
<1>4. CASE UNCHANGED <<local, shown>>
    BY <1>1, <1>4
<1>5. CASE Elsewhere \/ StartRead \/ (\E i \in 1..Len(reads) : AnswerRead(i)) \/ Sending \/ Serving \/ Settling \/ Failing
           \/ UNCHANGED vars
    BY <1>4, <1>5 DEF Elsewhere, EditElsewhere, RemoveElsewhere, StartRead, AnswerRead, Sending, Dispatch, Serving,
       Serve, Apply, Repeat, Refuse, Settling, Acknowledge, Pause, Failing, GiveUp, replica, vars
<1>6. QED
    BY <1>2, <1>3, <1>5 DEF Next, Reading

ServerCards1 == \A b \in Blocks : history[b] = <<>> => card[b] = "never"

LEMMA ReadsStep ==
    ASSUME Shape, ServerCards1, [Next]_vars
    PROVE  /\ reads' \in Seq(Read)
           /\ \/ Fewer
              \/ /\ UNCHANGED <<server, replica, calls>>
                 /\ \A r \in Asked' : r \in Asked \/ r.brane = None \/ r.brane = ServerBrane
<1>1. reads \in Seq(Read)
    BY DEF Shape, Read
<1>2. CASE UNCHANGED reads
    BY <1>1, <1>2 DEF Fewer, Asked
<1>3. CASE Person
  <2>1. PICK cmd \in Command : Writes(cmd)
      BY <1>3, PersonWrites
  <2>2. reads' = Outdated(reads)
      BY <2>1 DEF Writes, Write
  <2>3. QED
      BY <2>2, ReadsOutdated
<1>4. CASE \E c \in calls : Acknowledge(c)
  <2>1. reads' = Outdated(reads)
      BY <1>4 DEF Acknowledge
  <2>2. QED
      BY <2>1, ReadsOutdated
<1>5. CASE StartRead
  <2>1. UNCHANGED <<server, replica, calls>>
      BY <1>5 DEF StartRead
  <2>2. QED
      BY <1>5, <2>1, ReadsStart
<1>6. CASE \E i \in 1..Len(reads) : AnswerRead(i)
  <2>1. UNCHANGED <<server, replica, calls>>
      BY <1>6 DEF AnswerRead
  <2>2. ServerBrane \in Brane
      BY ServerBraneShape DEF ServerCards1
  <2>3. QED
      BY <1>6, <2>1, <2>2, ReadsAnswer
<1>7. CASE \E i \in 1..Len(reads) : FinishRead(i)
    BY <1>7, ReadsFinish
<1>8. CASE Elsewhere \/ Sending \/ Serving \/ (\E c \in calls : Pause(c)) \/ Failing \/ UNCHANGED vars
    BY <1>2, <1>8 DEF Elsewhere, EditElsewhere, RemoveElsewhere, Sending, Dispatch, Serving,
       Serve, Apply, Repeat, Refuse, Pause, Failing, GiveUp, network, vars
<1>9. QED
    BY <1>3, <1>4, <1>5, <1>6, <1>7, <1>8 DEF Next, Reading, Settling

\* What was forgotten stays so.
LEMMA ForgottenStep ==
    ASSUME Shape, [Next]_vars
    PROVE  forgotten \subseteq forgotten' /\ forgotten' \subseteq Blocks
<1>1. CASE \E i \in 1..Len(reads) : FinishRead(i)
    BY <1>1 DEF FinishRead, Install, PendingText, Shape
<1>2. CASE UNCHANGED forgotten
    BY <1>2 DEF Shape
<1>3. QED
    BY <1>1, <1>2 DEF Next, Person, CreateCard, TakeOff, EditText, Write, Elsewhere, EditElsewhere, RemoveElsewhere,
       Sending, Dispatch, Reading, StartRead, AnswerRead, Serving, Serve, Apply, Repeat, Refuse, Settling, Acknowledge,
       Pause, Failing, GiveUp, replica, vars

LEMMA ShapeStep ==
    ASSUME Shape, KeysInv, OneLive, ServerCards1, [Next]_vars
    PROVE  Shape'
<1>1. pending' \in Seq(Pended)
    BY QueueStep DEF KeysInv
<1>2. drawn' \in 0..MaxKeys
  <2>1. CASE Person
    <3>1. PICK cmd \in Command : Writes(cmd)
        BY <2>1, PersonWrites
    <3>2. drawn < MaxKeys /\ drawn' = drawn + 1
        BY <3>1 DEF Writes, Write
    <3>3. QED
        BY <3>2, BoundAssumption DEF Shape
  <2>2. CASE UNCHANGED drawn
      BY <2>2 DEF Shape
  <2>3. QED
      BY <2>1, <2>2, QueueStep DEF KeysInv, Rests, Leaves, Next, Elsewhere, EditElsewhere, RemoveElsewhere, Sending, Dispatch,
         Reading, StartRead, AnswerRead, FinishRead, Serving, Serve, Apply, Repeat, Refuse, Settling, Acknowledge, Pause,
         Failing, GiveUp, replica, vars
<1>3. calls' \subseteq Called
    BY CallsMove
<1>4. reads' \in Seq(Read)
    BY ReadsStep
<1>5. local' \in Brane /\ shown' \in [Blocks -> BOOLEAN]
    BY ReplicaStep
<1>6. QED
    BY <1>1, <1>2, <1>3, <1>4, <1>5, ForgottenStep, HistoryStep, ServerShape DEF Shape, Pended, Called, Read

-----------------------------------------------------------------------------
(* Keys, commands and calls *)

\* Receipts are of what was there, or of the call that was applied.
LEMMA ReceiptsStep ==
    ASSUME [Next]_vars
    PROVE  /\ receipts \subseteq receipts'
           /\ \A r \in receipts' : r \in receipts \/ \E c \in calls : Apply(c) /\ r.key = c.key /\ r.cmd = c.cmd
<1>1. UNCHANGED receipts \/ \E c \in calls : Apply(c)
    BY DEF Next, Person, CreateCard, TakeOff, EditText, Write, Elsewhere, EditElsewhere, RemoveElsewhere, Sending, Dispatch,
       Reading, StartRead, AnswerRead, FinishRead, Serving, Serve, Repeat, Refuse, Settling, Acknowledge, Pause,
       Failing, GiveUp, server, vars
<1>2. ASSUME NEW c \in calls, Apply(c)
      PROVE  /\ receipts \subseteq receipts'
             /\ \A r \in receipts' : r \in receipts \/ (r.key = c.key /\ r.cmd = c.cmd)
  <2>1. PICK new : new = [key |-> c.key, cmd |-> c.cmd]
      OBVIOUS
  <2>2. receipts' = receipts \cup {new} /\ new.key = c.key /\ new.cmd = c.cmd
      BY <1>2, <2>1 DEF Apply
  <2>3. QED
      BY <2>2
<1>3. QED
    BY <1>1, <1>2

LEMMA SentQueued ==
    ASSUME Shape, NEW i \in 1..Len(pending), Sent(i)
    PROVE  \A c \in calls' : c \in calls \/ \E o \in Queue : c.key = o.key /\ c.cmd = o.cmd
<1>1. PICK o : o = [key |-> pending[i].key, cmd |-> pending[i].cmd]
    OBVIOUS
<1>2. o \in Queue
    BY <1>1 DEF Queue
<1>3. ASSUME NEW c \in calls', c \notin calls
      PROVE  c.key = o.key /\ c.cmd = o.cmd
    BY <1>1, <1>3 DEF Sent
<1>4. QED
    BY <1>2, <1>3

LEMMA KeysStep ==
    ASSUME Shape, KeysInv, OneLive, [Next]_vars
    PROVE  KeysInv'
<1>1. \A o \in Queue : o.key \in Nat /\ o.key <= drawn
    BY Queued, BoundAssumption DEF KeysInv, Op, Keys
<1>2. drawn \in Nat /\ drawn <= drawn' /\ drawn' \in Nat /\ \A o \in Queue' : o.key <= drawn'
  <2>1. drawn \in Nat
      BY BoundAssumption DEF Shape
  <2>2. CASE \E cmd \in Command : Writes(cmd) /\ Joins(cmd)
    <3>1. PICK cmd \in Command : Joins(cmd)
        BY <2>2
    <3>2. drawn' = drawn + 1 /\ Queue' = Queue \cup {[key |-> drawn + 1, cmd |-> cmd]}
        BY <3>1 DEF Joins
    <3>3. QED
        BY <1>1, <2>1, <3>2
  <2>3. CASE \E c \in calls : Acknowledge(c) /\ Leaves(c.key)
      BY <1>1, <2>1, <2>3 DEF Leaves
  <2>4. CASE Rests
      BY <1>1, <2>1, <2>4 DEF Rests
  <2>5. QED
      BY <2>2, <2>3, <2>4, QueueStep DEF KeysInv
<1>3. \A c \in calls : c.key \in Nat /\ c.key <= drawn
    BY BoundAssumption DEF KeysInv, Shape, Keys
<1>4. \A c \in calls' : c.key <= drawn'
  <2>1. CASE MovesOn
    <3>1. SUFFICES ASSUME NEW c \in calls'
                   PROVE  c.key <= drawn'
        OBVIOUS
    <3>2. PICK d \in calls : c.key = d.key
        BY <2>1 DEF MovesOn
    <3>3. QED
        BY <1>2, <1>3, <3>2
  <2>2. CASE \E i \in 1..Len(pending) : Sent(i)
    <3>1. SUFFICES ASSUME NEW c \in calls'
                   PROVE  c.key <= drawn'
        OBVIOUS
    <3>2. c \in calls \/ \E o \in Queue : c.key = o.key
        BY <2>2, SentQueued
    <3>3. QED
        BY <1>1, <1>2, <1>3, <3>2
  <2>3. QED
      BY <2>1, <2>2, CallsMove
<1>5. \A r \in receipts' : r.key <= drawn'
  <2>1. \A r \in receipts : r.key \in Nat /\ r.key <= drawn
      BY BoundAssumption DEF KeysInv, Shape, Keys, Op
  <2>2. \A r \in receipts' : r \in receipts \/ \E c \in calls : r.key = c.key
      BY ReceiptsStep
  <2>3. QED
      BY <1>2, <1>3, <2>1, <2>2
<1>6. Sorted'
    BY QueueStep DEF KeysInv
<1>7. QED
    BY <1>2, <1>4, <1>5, <1>6 DEF KeysInv

\* A call with no receipt yet, or that somebody waits for, is of an operation that waits for no other.
LEMMA CallQueued ==
    ASSUME Shape, KeysInv, SameCommands, CallsInv, NEW c \in calls, c.live \/ ~Received(c)
    PROVE  \E o \in Queue : o.key = c.key /\ o.cmd = c.cmd /\ ~Waiting(o)
BY DEF CallsInv, InTurn, SameCommands

LEMMA SameCommandsStep ==
    ASSUME Shape, KeysInv, SameCommands, CallsInv, [Next]_vars
    PROVE  SameCommands'
<1>1. drawn \in Nat /\ Queue \subseteq Op /\ \A o, p \in Queue : o.key = p.key => o = p
    BY Queued, BoundAssumption DEF KeysInv, Shape
<1>2. \A o \in Queue : o.key \in Nat /\ o.key <= drawn
    BY <1>1, BoundAssumption DEF KeysInv, Op, Keys
<1>3. \A c \in calls : c.key \in Nat /\ c.key <= drawn
    BY BoundAssumption DEF KeysInv, Shape, Keys
<1>4. \A r \in receipts : r.key \in Nat /\ r.key <= drawn
    BY BoundAssumption DEF KeysInv, Shape, Op, Keys
<1>5. \A o \in Queue' : o \in Queue \/ (o.key = drawn + 1 /\ UNCHANGED <<calls, receipts>>)
  <2>1. CASE \E cmd \in Command : Writes(cmd) /\ Joins(cmd)
    <3>1. PICK cmd \in Command : Writes(cmd) /\ Joins(cmd)
        BY <2>1
    <3>2. PICK new : new = [key |-> drawn + 1, cmd |-> cmd]
        OBVIOUS
    <3>3. Queue' = Queue \cup {new} /\ new.key = drawn + 1 /\ UNCHANGED <<calls, receipts>>
        BY <3>1, <3>2 DEF Writes, Write, Joins, server
    <3>4. QED
        BY <3>3
  <2>2. CASE \E c \in calls : Acknowledge(c) /\ Leaves(c.key)
      BY <2>2 DEF Leaves
  <2>3. CASE Rests
      BY <2>3 DEF Rests
  <2>4. QED
      BY <2>1, <2>2, <2>3, QueueStep DEF KeysInv
<1>6. \A c \in calls' : \/ \E d \in calls : c.key = d.key /\ c.cmd = d.cmd
                        \/ \E o \in Queue : c.key = o.key /\ c.cmd = o.cmd /\ UNCHANGED receipts
  <2>1. CASE MovesOn
      BY <2>1 DEF MovesOn
  <2>2. CASE \E i \in 1..Len(pending) : Dispatch(i) /\ Sent(i)
    <3>1. UNCHANGED receipts
        BY <2>2 DEF Dispatch, server
    <3>2. QED
        BY <2>2, <3>1, SentQueued
  <2>3. QED
      BY <2>1, <2>2, CallsMove DEF CallsInv
<1>7. \A r \in receipts' : \/ r \in receipts
                           \/ \E c \in calls : ~Received(c) /\ r.key = c.key /\ r.cmd = c.cmd
    BY ReceiptsStep DEF Apply
<1>8. \A c \in calls : ~Received(c) => \E o \in Queue : o.key = c.key /\ o.cmd = c.cmd
    BY CallQueued
<1>9. \A r \in receipts' : \A o \in Queue' : r.key = o.key => r = o
  <2>1. SUFFICES ASSUME NEW r \in receipts', NEW o \in Queue', r.key = o.key
                 PROVE  r = o
      OBVIOUS
  <2>2. CASE o \in Queue /\ r \in receipts
      BY <2>1, <2>2 DEF SameCommands
  <2>3. CASE o \in Queue /\ r \notin receipts
    <3>1. PICK c \in calls : ~Received(c) /\ r.key = c.key /\ r.cmd = c.cmd
        BY <1>7, <2>3
    <3>2. c.cmd = o.cmd
        BY <2>1, <2>3, <3>1 DEF SameCommands
    <3>3. r \in Op /\ o \in Op
      <4>1. receipts' \subseteq Op
          BY ServerShape
      <4>2. QED
          BY <1>1, <2>3, <4>1
    <3>4. r = [key |-> r.key, cmd |-> r.cmd] /\ o = [key |-> o.key, cmd |-> o.cmd]
        BY <3>3 DEF Op
    <3>5. r.key = o.key /\ r.cmd = o.cmd
        BY <2>1, <3>1, <3>2
    <3>6. QED
        BY <3>4, <3>5
  <2>4. CASE o \notin Queue
    <3>1. o.key = drawn + 1 /\ r \in receipts
        BY <1>5, <2>4
    <3>2. QED
        BY <1>1, <1>4, <2>1, <3>1
  <2>5. QED
      BY <2>2, <2>3, <2>4
<1>10. \A r \in receipts' : \A c \in calls' : r.key = c.key => r.cmd = c.cmd
  <2>1. SUFFICES ASSUME NEW r \in receipts', NEW c \in calls', r.key = c.key
                 PROVE  r.cmd = c.cmd
      OBVIOUS
  <2>2. CASE r \in receipts
      BY <1>6, <2>1, <2>2 DEF SameCommands
  <2>3. CASE r \notin receipts
    <3>1. PICK e \in calls : ~Received(e) /\ r.key = e.key /\ r.cmd = e.cmd
        BY <1>7, <2>3
    <3>2. PICK o \in Queue : o.key = e.key /\ o.cmd = e.cmd
        BY <1>8, <3>1
    <3>3. PICK d \in calls : c.key = d.key /\ c.cmd = d.cmd
        BY <1>6, <2>3
    <3>4. d.cmd = o.cmd
        BY <2>1, <3>1, <3>2, <3>3 DEF SameCommands
    <3>5. QED
        BY <3>1, <3>2, <3>3, <3>4
  <2>4. QED
      BY <2>2, <2>3
<1>11. \A c \in calls' : \A o \in Queue' : c.key = o.key => c.cmd = o.cmd
  <2>1. SUFFICES ASSUME NEW c \in calls', NEW o \in Queue', c.key = o.key
                 PROVE  c.cmd = o.cmd
      OBVIOUS
  <2>2. CASE o \in Queue
      BY <1>1, <1>6, <2>1, <2>2 DEF SameCommands
  <2>3. CASE o \notin Queue
    <3>1. o.key = drawn + 1 /\ c \in calls
        BY <1>5, <2>3
    <3>2. QED
        BY <1>1, <1>3, <2>1, <3>1
  <2>4. QED
      BY <2>2, <2>3
<1>12. QED
    BY <1>9, <1>10, <1>11 DEF SameCommands

LEMMA CallsStep ==
    ASSUME Shape, KeysInv, SameCommands, CallsInv, [Next]_vars
    PROVE  CallsInv'
<1>1. drawn \in Nat /\ Queue \subseteq Op /\ \A o, p \in Queue : o.key = p.key => o = p
    BY Queued, BoundAssumption DEF KeysInv, Shape
<1>2. \A o \in Queue : o.key \in Nat /\ o.key <= drawn
    BY <1>1, BoundAssumption DEF KeysInv, Op, Keys
<1>3. \A c \in calls : Received(c) => Received(c)'
    BY ReceiptsStep DEF Received
<1>4. OneLive'
    BY CallsMove DEF CallsInv
<1>5. \A c \in calls' : c.answer = "applied" => Received(c)'
  <2>1. CASE MovesOn
    <3>1. SUFFICES ASSUME NEW c \in calls', c.answer = "applied"
                   PROVE  \E r \in receipts' : r.key = c.key
        BY DEF Received
    <3>2. PICK d \in calls : c.key = d.key /\ (d.answer = "applied" \/ \E r \in receipts' : r.key = c.key)
        BY <2>1, <3>1 DEF MovesOn
    <3>3. CASE d.answer = "applied"
        BY <3>2, <3>3, ReceiptsStep DEF CallsInv, Received
    <3>4. QED
        BY <3>2, <3>3
  <2>2. CASE \E i \in 1..Len(pending) : Sent(i)
    <3>1. PICK i \in 1..Len(pending) : Sent(i)
        BY <2>2
    <3>2. PICK new : new = [key |-> pending[i].key, cmd |-> pending[i].cmd, live |-> TRUE, answer |-> None]
        OBVIOUS
    <3>3. calls' = calls \cup {new} /\ new.answer = None
        BY <3>1, <3>2 DEF Sent
    <3>4. QED
        BY <3>3, <1>3, NoneApart DEF CallsInv, Received
  <2>3. QED
      BY <2>1, <2>2, CallsMove DEF CallsInv
\* Who was in turn stays in turn, unless the operation is acknowledged.
<1>6. ASSUME NEW o \in Queue, ~Waiting(o), o \in Queue'
      PROVE  ~Waiting(o)'
  <2>1. SUFFICES ASSUME NEW p \in Queue', p.key < o.key, Conflicts(p.cmd, o.cmd)
                 PROVE  FALSE
      BY DEF Waiting
  <2>2. CASE p \in Queue
      BY <1>6, <2>1, <2>2 DEF Waiting
  <2>3. CASE p \notin Queue
    <3>1. PICK cmd \in Command : p = [key |-> drawn + 1, cmd |-> cmd]
        BY <2>3, QueueStep DEF KeysInv, Rests, Leaves, Joins
    <3>2. p.key = drawn + 1
        BY <3>1
    <3>3. QED
        BY <1>1, <1>2, <2>1, <3>2
  <2>4. QED
      BY <2>2, <2>3
<1>7. \A c \in calls' : c.live \/ ~Received(c)' => InTurn(c)'
  <2>1. SUFFICES ASSUME NEW c \in calls', c.live \/ ~Received(c)'
                 PROVE  \E o \in Queue' : o.key = c.key /\ ~Waiting(o)'
      BY DEF InTurn
  <2>2. CASE \E e \in calls : Acknowledge(e) /\ Leaves(e.key)
    <3>1. PICK e \in calls : Acknowledge(e) /\ Leaves(e.key)
        BY <2>2
    <3>2. e.live /\ e.answer = "applied" /\ calls' = calls \ {e} /\ UNCHANGED receipts
        BY <3>1 DEF Acknowledge, server
    <3>3. Received(e)
        BY <3>2 DEF CallsInv
    <3>4. c \in calls /\ c # e /\ (c.live \/ ~Received(c))
        BY <2>1, <3>2 DEF Received
    <3>5. c.key # e.key
        BY <3>2, <3>3, <3>4 DEF CallsInv, OneLive, Received
    <3>6. PICK o \in Queue : o.key = c.key /\ ~Waiting(o)
        BY <3>4, CallQueued
    <3>7. o \in Queue'
        BY <3>1, <3>5, <3>6 DEF Leaves
    <3>8. QED
        BY <1>6, <3>6, <3>7
  <2>3. CASE Rests \/ \E cmd \in Command : Joins(cmd)
    <3>1. Queue \subseteq Queue'
        BY <2>3 DEF Rests, Joins
    <3>2. CASE MovesOn
      <4>1. PICK d \in calls : c.key = d.key /\ (c.live => d.live)
          BY <3>2 DEF MovesOn
      <4>2. d.live \/ ~Received(d)
          BY <2>1, <4>1, ReceiptsStep DEF Received
      <4>3. PICK o \in Queue : o.key = c.key /\ ~Waiting(o)
          BY <4>1, <4>2, CallQueued
      <4>4. QED
          BY <1>6, <3>1, <4>3
    <3>3. CASE \E i \in 1..Len(pending) : Dispatch(i) /\ Sent(i)
      <4>1. PICK i \in 1..Len(pending) : Dispatch(i) /\ Sent(i)
          BY <3>3
      <4>2. PICK o : o = [key |-> pending[i].key, cmd |-> pending[i].cmd]
          OBVIOUS
      <4>3. o \in Queue /\ o.key = pending[i].key /\ o.cmd = pending[i].cmd
          BY <4>2 DEF Queue
      <4>4. CASE c \in calls
        <5>1. c.live \/ ~Received(c)
            BY <2>1, <4>4, ReceiptsStep DEF Received
        <5>2. PICK p \in Queue : p.key = c.key /\ ~Waiting(p)
            BY <4>4, <5>1, CallQueued
        <5>3. QED
            BY <1>6, <3>1, <5>2
      <4>5. CASE c \notin calls
        <5>1. c.key = o.key
            BY <4>1, <4>3, <4>5 DEF Sent
        <5>2. ~Waiting(o)
          <6>1. SUFFICES ASSUME NEW p \in Queue, p.key < o.key, Conflicts(p.cmd, o.cmd)
                         PROVE  FALSE
              BY DEF Waiting
          <6>2. PICK j \in 1..Len(pending) : p = [key |-> pending[j].key, cmd |-> pending[j].cmd]
              BY DEF Queue
          <6>3. p.key = pending[j].key /\ p.cmd = pending[j].cmd
              BY <6>2
          <6>4. Len(pending) \in Nat
              BY LenProperties DEF Shape
          <6>5. j < i
            <7>1. ~(i < j) /\ i # j
              <8>1. o.key \in Nat /\ p.key \in Nat
                  BY <1>2, <4>3
              <8>2. QED
                  BY <4>3, <6>1, <6>3, <8>1 DEF KeysInv, Sorted
            <7>2. QED
                BY <6>4, <7>1
          <6>6. j \in 1..(i - 1)
              BY <6>4, <6>5
          <6>7. QED
              BY <4>1, <4>3, <6>1, <6>3, <6>6 DEF Dispatch, Waits
        <5>3. QED
            BY <1>6, <3>1, <4>3, <5>1, <5>2
      <4>6. QED
          BY <4>4, <4>5
    <3>4. QED
        BY <3>2, <3>3, CallsMove DEF CallsInv
  <2>4. QED
      BY <2>2, <2>3, QueueStep DEF KeysInv
<1>8. QED
    BY <1>4, <1>5, <1>7 DEF CallsInv

LEMMA CreatedFirstStep ==
    ASSUME Shape, KeysInv, CreatedFirst, [Next]_vars
    PROVE  CreatedFirst'
<1>1. CASE \E c \in Command : Writes(c) /\ Joins(c)
  <2>1. PICK cmd \in Command : Writes(cmd) /\ Joins(cmd)
      BY <1>1
  <2>2. PICK new : new = [key |-> drawn + 1, cmd |-> cmd]
      OBVIOUS
  <2>3. Queue' = Queue \cup {new} /\ new.key = drawn + 1 /\ new.cmd = cmd
      BY <2>1, <2>2 DEF Joins
  <2>4. \A o \in Queue : o.key \in Nat /\ o.key <= drawn
      BY Queued, BoundAssumption DEF KeysInv, Op, Keys
  <2>5. drawn \in Nat
      BY BoundAssumption DEF Shape
  <2>6. cmd.type = "create" => \A o \in Queue : o.cmd.block # cmd.block
    <3>1. SUFFICES ASSUME cmd.type = "create", NEW o \in Queue
                   PROVE  o.cmd.block # cmd.block
        OBVIOUS
    <3>2. PICK i \in 1..Len(pending) : o = [key |-> pending[i].key, cmd |-> pending[i].cmd]
        BY DEF Queue
    <3>3. QED
        BY <2>1, <3>1, <3>2 DEF Writes, Unused
  <2>7. SUFFICES ASSUME NEW o \in Queue', NEW p \in Queue', p.key < o.key, o.cmd.type = "create"
                 PROVE  p.cmd.block # o.cmd.block
      BY DEF CreatedFirst
  <2>8. CASE p = new
    <3>1. CASE o = new
        BY <2>3, <2>5, <2>7, <2>8, <3>1
    <3>2. CASE o \in Queue
        BY <2>3, <2>4, <2>5, <2>7, <2>8, <3>2
    <3>3. QED
        BY <2>3, <3>1, <3>2
  <2>9. CASE p \in Queue /\ o = new
      BY <2>3, <2>6, <2>7, <2>9
  <2>10. CASE p \in Queue /\ o \in Queue
      BY <2>7, <2>10 DEF CreatedFirst
  <2>11. QED
      BY <2>3, <2>8, <2>9, <2>10
<1>2. CASE Queue' \subseteq Queue
    BY <1>2 DEF CreatedFirst
<1>3. QED
    BY <1>1, <1>2, QueueStep DEF KeysInv, Rests, Leaves

-----------------------------------------------------------------------------
(* Texts: what is cached, written over or received is what the server has under that version, *)
(* or what an earlier operation of the outbox will make of it.                                *)

LEMMA AfterShape ==
    ASSUME NEW cmd \in Command
    PROVE  After(cmd) \in CachedText /\ Base(cmd) \in CachedText /\ cmd.block \in Blocks
BY DEF Command, After, Base, CachedText

\* An edit that is applied is applied over the text its writer saw.
LEMMA WrittenOver ==
    ASSUME Shape, KeysInv, SameCommands, CallsInv, TextsInv, NEW c \in calls, Apply(c), c.cmd.type = "edit"
    PROVE  Truth(c.cmd.block, Base(c.cmd))
<1>1. PICK o \in Queue : o.key = c.key /\ o.cmd = c.cmd /\ ~Waiting(o)
    BY CallQueued DEF Apply
<1>2. Expected(c.cmd.block, Base(c.cmd), o.key)
    BY <1>1 DEF TextsInv
<1>3. ~\E p \in Queue : p.key < o.key /\ p.cmd.block = c.cmd.block /\ IsText(p.cmd)
    BY <1>1 DEF Waiting, Conflicts, IsText
<1>4. QED
    BY <1>2, <1>3 DEF Expected

\* What an operation wrote is there once it is received, and is the newest.
LEMMA AppliedText ==
    ASSUME Shape, KeysInv, SameCommands, CallsInv, TextsInv, NEW c \in calls, Apply(c), IsText(c.cmd)
    PROVE  /\ Truth(c.cmd.block, After(c.cmd))'
           /\ Len(history'[c.cmd.block]) = After(c.cmd).version + 1
<1>1. PICK cmd \in Command : cmd = c.cmd
    BY Applied
<1>2. cmd.block \in Blocks /\ cmd.type \in {"create", "edit", "remove"} /\ cmd.version \in Nat
    BY <1>1 DEF Command
<1>3. PICK h \in Seq(Written) : h = history[cmd.block]
    BY <1>2 DEF Shape
<1>4. Len(h) \in Nat
    BY LenProperties
<1>5. PICK w : w = [text |-> cmd.text, by |-> c.key]
    OBVIOUS
<1>6. w \in Written /\ w.text = cmd.text
    BY <1>1, <1>5, Applied DEF Written, Command
<1>7. ASSUME history' = [history EXCEPT ![cmd.block] = Append(@, w)]
      PROVE  /\ Len(history'[cmd.block]) = Len(h) + 1
             /\ history'[cmd.block][Len(h) + 1] = w
    BY <1>2, <1>3, <1>6, <1>7, HistoryAppended
<1>8. CASE cmd.type = "create"
  <2>1. h = <<>> /\ history' = [history EXCEPT ![cmd.block] = Append(@, w)]
      BY <1>1, <1>3, <1>5, <1>8, Applied
  <2>2. Len(h) = 0
      BY <2>1
  <2>3. After(cmd).version = 0 /\ After(cmd).text = Empty /\ cmd.text = Empty
      BY <1>8 DEF After, Command
  <2>4. PICK after : after = After(cmd)
      OBVIOUS
  <2>5. Truth(cmd.block, after)' /\ Len(history'[cmd.block]) = after.version + 1
    <3>1. Len(history'[cmd.block]) = 1 /\ history'[cmd.block][1].text = Empty
        BY <1>6, <1>7, <2>1, <2>2, <2>3
    <3>2. after.version = 0 /\ after.text = Empty
        BY <2>3, <2>4
    <3>3. QED
        BY <3>1, <3>2 DEF Truth
  <2>6. QED
      BY <1>1, <2>4, <2>5
<1>9. CASE cmd.type = "edit"
  <2>1. h # <<>> /\ Len(h) - 1 = cmd.version
      BY <1>1, <1>3, <1>9, Applied DEF Version
  <2>2. Len(h) = cmd.version + 1
      BY <1>2, <1>4, <2>1
  <2>3. Truth(cmd.block, Base(cmd))
      BY <1>1, <1>9, WrittenOver
  <2>4. h[Len(h)].text = cmd.over
      BY <1>3, <2>2, <2>3 DEF Truth, Base
  <2>5. ServerText(cmd.block) = cmd.over
      BY <1>3, <2>4 DEF ServerText, Last
  <2>6. PICK after : after = After(cmd)
      OBVIOUS
  <2>7. CASE cmd.text = cmd.over
    <3>1. UNCHANGED history
        BY <1>1, <1>9, <2>5, <2>7, Applied
    <3>2. after.version = cmd.version /\ after.text = cmd.text
        BY <1>9, <2>6, <2>7 DEF After
    <3>3. Truth(cmd.block, after)' /\ Len(history'[cmd.block]) = after.version + 1
        BY <1>2, <1>3, <1>4, <2>2, <2>4, <2>7, <3>1, <3>2 DEF Truth
    <3>4. QED
        BY <1>1, <2>6, <3>3
  <2>8. CASE cmd.text # cmd.over
    <3>1. history' = [history EXCEPT ![cmd.block] = Append(@, w)]
        BY <1>1, <1>5, <1>9, <2>5, <2>8, Applied
    <3>2. after.version = cmd.version + 1 /\ after.text = cmd.text
        BY <1>9, <2>6, <2>8 DEF After
    <3>3. Truth(cmd.block, after)' /\ Len(history'[cmd.block]) = after.version + 1
        BY <1>2, <1>4, <1>6, <1>7, <2>2, <3>1, <3>2 DEF Truth
    <3>4. QED
        BY <1>1, <2>6, <3>3
  <2>9. QED
      BY <2>7, <2>8
<1>10. QED
    BY <1>1, <1>2, <1>8, <1>9 DEF IsText

LEMMA OneMore ==
    ASSUME NEW n \in Nat, NEW m \in Nat, n <= m
    PROVE  n + 1 \in Nat /\ m + 1 \in Nat /\ n + 1 <= m + 1
OBVIOUS

LEMMA ExpectedStays ==
    ASSUME Shape, KeysInv, SameCommands, CallsInv, TextsInv, [Next]_vars,
           NEW b \in Blocks, NEW cached \in CachedText, NEW key \in Nat, NEW later \in Nat, key <= later,
           Expected(b, cached, key)
    PROVE  Expected(b, cached, later)'
<1>1. Grows
    BY HistoryStep
<1>2. CASE Truth(b, cached)
    BY <1>1, <1>2, TruthStays DEF Expected
<1>3. CASE \E o \in Queue : o.key < key /\ o.cmd.block = b /\ IsText(o.cmd) /\ After(o.cmd) = cached
  <2>1. PICK o \in Queue : o.key < key /\ o.cmd.block = b /\ IsText(o.cmd) /\ After(o.cmd) = cached
      BY <1>3
  <2>2. o.key \in Nat
      BY Queued, BoundAssumption DEF Op, Keys
  <2>3. CASE o \in Queue'
    <3>1. o.key < later
        BY <2>1, <2>2
    <3>2. QED
        BY <2>1, <2>3, <3>1 DEF Expected
  <2>4. CASE o \notin Queue'
    <3>1. PICK c \in calls : Acknowledge(c) /\ c.key = o.key
        BY <2>4, QueueStep DEF KeysInv, Joins, Rests, Leaves
    <3>2. PICK r \in receipts : r.key = o.key
        BY <3>1 DEF Acknowledge, CallsInv, Received
    <3>3. r = o
        BY <3>2 DEF SameCommands
    <3>4. Truth(b, cached)
        BY <2>1, <3>3 DEF TextsInv
    <3>5. QED
        BY <1>2, <3>4
  <2>5. QED
      BY <2>3, <2>4
<1>4. QED
    BY <1>2, <1>3 DEF Expected

LEMMA TextsStep ==
    ASSUME Shape, KeysInv, SameCommands, CallsInv, TextsInv, ServerCards1, [Next]_vars
    PROVE  TextsInv'
<1>1. Grows
    BY HistoryStep
<1>2. drawn \in Nat /\ drawn' \in Nat /\ drawn <= drawn'
  <2>1. drawn \in Nat
      BY BoundAssumption DEF Shape
  <2>2. QED
      BY <2>1, QueueStep DEF KeysInv, Joins, Rests, Leaves
<1>3. Queue \subseteq Op /\ Queue' \subseteq Op
  <2>1. PICK ops \in Seq(Pended) : ops = pending'
      BY QueueStep DEF KeysInv
  <2>2. Queue' = {[key |-> ops[i].key, cmd |-> ops[i].cmd] : i \in 1..Len(ops)}
      BY <2>1 DEF Queue
  <2>3. QED
      BY <2>2, Queued, QueueShape
<1>4. \A r \in receipts' : IsText(r.cmd) => Truth(r.cmd.block, After(r.cmd))'
  <2>1. SUFFICES ASSUME NEW r \in receipts', IsText(r.cmd)
                 PROVE  Truth(r.cmd.block, After(r.cmd))'
      OBVIOUS
  <2>2. CASE r \in receipts
    <3>1. PICK cmd \in Command : cmd = r.cmd
        BY <2>2 DEF Shape, Op
    <3>2. Truth(cmd.block, After(cmd))
        BY <2>1, <2>2, <3>1 DEF TextsInv
    <3>3. PICK after \in CachedText : after = After(cmd)
        BY AfterShape
    <3>4. cmd.block \in Blocks
        BY AfterShape
    <3>5. Truth(cmd.block, after)'
        BY <1>1, <3>2, <3>3, <3>4, TruthStays
    <3>6. QED
        BY <3>1, <3>3, <3>5
  <2>3. CASE r \notin receipts
    <3>1. PICK c \in calls : Apply(c) /\ r.cmd = c.cmd
        BY <2>3, ReceiptsStep
    <3>2. PICK cmd : cmd = c.cmd
        OBVIOUS
    <3>3. UNCHANGED cmd /\ Truth(cmd.block, After(cmd))'
      <4>1. Truth(c.cmd.block, After(c.cmd))'
          BY <2>1, <3>1, AppliedText
      <4>2. QED
          BY <3>2, <4>1
    <3>4. QED
        BY <3>1, <3>2, <3>3
  <2>4. QED
      BY <2>2, <2>3
<1>5. \A o \in Queue' : o.cmd.type = "edit" => Expected(o.cmd.block, Base(o.cmd), o.key)'
  <2>1. SUFFICES ASSUME NEW o \in Queue', o.cmd.type = "edit"
                 PROVE  Expected(o.cmd.block, Base(o.cmd), o.key)'
      OBVIOUS
  <2>2. PICK cmd \in Command, key \in Keys : cmd = o.cmd /\ key = o.key
      BY <1>3 DEF Op
  <2>3. PICK base \in CachedText : base = Base(cmd)
      BY AfterShape
  <2>4. key \in Nat /\ cmd.block \in Blocks
      BY BoundAssumption, AfterShape DEF Keys
  <2>5. Expected(cmd.block, base, key)
    <3>1. CASE o \in Queue
        BY <2>1, <2>2, <2>3, <3>1 DEF TextsInv
    <3>2. CASE o \notin Queue
      <4>1. PICK c \in Command : Writes(c) /\ o = [key |-> drawn + 1, cmd |-> c]
          BY <3>2, QueueStep DEF KeysInv, Joins, Rests, Leaves
      <4>2. c = cmd /\ key = drawn + 1
          BY <2>2, <4>1
      <4>3. local[cmd.block] # None /\ base = local[cmd.block]
          BY <2>1, <2>2, <2>3, <4>1, <4>2 DEF Writes
      <4>4. QED
          BY <2>4, <4>2, <4>3 DEF TextsInv
    <3>3. QED
        BY <3>1, <3>2
  <2>6. Expected(cmd.block, base, key)'
      BY <2>4, <2>5, ExpectedStays
  <2>7. QED
      BY <2>2, <2>3, <2>6
<1>6. \A r \in Asked : r \in Read
  <2>1. reads \in Seq(Read)
      BY DEF Shape, Read
  <2>2. QED
      BY <2>1, ElementOfSeq DEF Asked
<1>7. ASSUME NEW b \in Blocks, NEW cached \in CachedText, Expected(b, cached, drawn + 1)
      PROVE  Expected(b, cached, drawn + 1)'
  <2>1. /\ drawn + 1 \in Nat
        /\ drawn' + 1 \in Nat
        /\ drawn + 1 <= drawn' + 1
    <3>1. PICK n \in Nat : n = drawn
        BY <1>2
    <3>2. PICK m \in Nat : m = drawn' /\ n <= m
        BY <1>2, <3>1
    <3>3. n + 1 \in Nat /\ m + 1 \in Nat /\ n + 1 <= m + 1
        BY <3>2, OneMore
    <3>4. QED
        BY <3>1, <3>2, <3>3
  <2>2. PICK d \in Nat : d = drawn + 1
      BY <2>1
  <2>3. PICK e \in Nat : e = drawn' + 1
      BY <2>1
  <2>4. Expected(b, cached, d)
      BY <1>7, <2>2
  <2>5. Expected(b, cached, e)'
      BY <2>1, <2>2, <2>3, <2>4, ExpectedStays
  <2>6. QED
      BY <2>3, <2>5 DEF Expected
<1>8. \A b \in Blocks : local'[b] # None => Expected(b, local[b], drawn + 1)'
  <2>1. SUFFICES ASSUME NEW b \in Blocks, local'[b] # None
                 PROVE  Expected(b, local[b], drawn + 1)'
      OBVIOUS
  <2>2. /\ local[b] \in CachedText \cup {None} /\ local'[b] \in CachedText \cup {None}
      BY ReplicaStep DEF Shape, Brane
  <2>3. PICK cached \in CachedText : cached = local'[b]
      BY <2>1, <2>2
  <2>4. CASE local'[b] = local[b]
    <3>1. Expected(b, cached, drawn + 1)
        BY <2>1, <2>3, <2>4 DEF TextsInv
    <3>2. Expected(b, cached, drawn + 1)'
        BY <1>7, <3>1
    <3>3. QED
        BY <2>3, <3>2 DEF Expected
  <2>5. CASE Person /\ local'[b] # local[b]
    <3>1. PICK cmd \in Command : Writes(cmd)
        BY <2>5, PersonWrites
    <3>2. Joins(cmd)
        BY <3>1, WriteJoins DEF KeysInv, Writes
    <3>3. b = cmd.block /\ IsText(cmd) /\ cached = After(cmd)
      <4>1. cmd.type \in {"create", "edit", "remove"}
          BY DEF Command
      <4>2. Write(cmd) /\ b = cmd.block /\ cmd.type # "remove"
          BY <2>5, <3>1, Projected DEF Writes
      <4>3. cmd.type = "create" => local[cmd.block] = None
          BY <3>1 DEF Writes, Unused
      <4>4. cmd.type = "edit" => local[cmd.block] # None /\ cmd.over = local[cmd.block].text
        <5>1. SUFFICES ASSUME cmd.type = "edit"
                       PROVE  local[cmd.block] # None /\ cmd.over = local[cmd.block].text
            OBVIOUS
        <5>2. local[cmd.block] # None /\ Base(cmd) = local[cmd.block]
            BY <3>1, <5>1 DEF Writes
        <5>3. Base(cmd).text = cmd.over
            BY DEF Base
        <5>4. QED
            BY <5>2, <5>3
      <4>5. QED
          BY <2>3, <4>1, <4>2, <4>3, <4>4, Projected DEF IsText
    <3>4. PICK new : new = [key |-> drawn + 1, cmd |-> cmd]
        OBVIOUS
    <3>5. new \in Queue' /\ new.key = drawn + 1 /\ new.cmd = cmd /\ drawn' = drawn + 1
        BY <3>2, <3>4 DEF Joins
    <3>6. new.key < drawn' + 1
        BY <1>2, <3>5
    <3>7. Expected(b, cached, drawn + 1)'
        BY <3>3, <3>5, <3>6 DEF Expected
    <3>8. QED
        BY <2>3, <3>7 DEF Expected
  <2>6. CASE \E r \in Asked : Installs(r) /\ local'[b] # local[b]
    <3>1. PICK r \in Asked : r.brane # None /\ r.brane \in Brane /\ cached = r.brane[b]
        BY <2>1, <2>3, <2>6 DEF Installs
    <3>2. Truth(b, cached)
        BY <2>1, <2>3, <3>1 DEF TextsInv
    <3>3. Truth(b, cached)'
        BY <1>1, <3>2, TruthStays
    <3>4. QED
        BY <2>3, <3>3 DEF Expected
  <2>7. QED
      BY <2>4, <2>5, <2>6, ReplicaStep
<1>9. \A r \in Asked' : r.brane # None => \A b \in Blocks : r.brane[b] # None => Truth(b, r.brane[b])'
  <2>1. SUFFICES ASSUME NEW r \in Asked', r.brane # None, NEW b \in Blocks, r.brane[b] # None
                 PROVE  Truth(b, r.brane[b])'
      OBVIOUS
  <2>2. PICK brane : brane = r.brane
      OBVIOUS
  <2>3. brane \in Brane /\ \E cached \in CachedText : cached = brane[b] /\ Truth(b, cached)
    <3>1. CASE \E q \in Asked : r.brane = q.brane
      <4>1. PICK q \in Asked : brane = q.brane
          BY <2>2, <3>1
      <4>2. brane \in Brane /\ brane[b] # None
          BY <1>6, <2>1, <2>2, <4>1 DEF Read
      <4>3. brane[b] \in CachedText
          BY <4>2 DEF Brane
      <4>4. Truth(b, brane[b])
          BY <2>1, <2>2, <4>1 DEF TextsInv
      <4>5. QED
          BY <4>2, <4>3, <4>4
    <3>2. CASE r.brane = ServerBrane
      <4>1. ServerBrane \in Brane /\ Truth(b, ServerBrane[b])
          BY <2>1, <3>2, ServerBraneShape DEF ServerCards1
      <4>2. brane \in Brane /\ brane = ServerBrane /\ brane[b] # None
          BY <2>1, <2>2, <3>2, <4>1
      <4>3. brane[b] \in CachedText
          BY <4>2 DEF Brane
      <4>4. QED
          BY <4>1, <4>2, <4>3
    <3>3. QED
        BY <2>1, <3>1, <3>2, ReadsStep DEF Fewer
  <2>4. PICK cached \in CachedText : cached = brane[b] /\ Truth(b, cached)
      BY <2>3
  <2>5. Truth(b, cached)'
      BY <1>1, <2>4, TruthStays
  <2>6. QED
      BY <2>2, <2>4, <2>5
<1>10. QED
    BY <1>4, <1>5, <1>8, <1>9 DEF TextsInv

-----------------------------------------------------------------------------
(* Cards *)

LEMMA ServerCardsStep ==
    ASSUME Shape, KeysInv, SameCommands, CallsInv, CreatedFirst, ServerCards, [Next]_vars
    PROVE  ServerCards'
<1>1. /\ card \in [Blocks -> {"never", "placed", "removed"}]
      /\ remover \in [Blocks -> Keys \cup {Others, None}]
      /\ receipts \subseteq Op
    BY DEF Shape
<1>2. Queue \subseteq Op /\ \A o, p \in Queue : o.key = p.key => o = p
    BY Queued DEF KeysInv
<1>3. \A b \in Blocks : history'[b] = <<>> => history[b] = <<>>
  <2>1. SUFFICES ASSUME NEW b \in Blocks, history'[b] = <<>>
                 PROVE  history[b] = <<>>
      OBVIOUS
  <2>2. history[b] \in Seq(Written) /\ Len(history[b]) \in Nat
      BY LenProperties DEF Shape
  <2>3. Len(history[b]) <= Len(history'[b])
      BY HistoryStep DEF Grows
  <2>4. Len(history'[b]) = 0
      BY <2>1
  <2>5. QED
      BY <2>2, <2>3, <2>4, EmptySeq
<1>4. CASE \E c \in calls : Apply(c)
  <2>1. PICK c \in calls : Apply(c)
      BY <1>4
  <2>2. PICK b \in Blocks, key \in Keys : b = c.cmd.block /\ key = c.key
      BY <2>1, Applied
  <2>3. Rests
      BY <2>1 DEF Apply, replica, Rests, Queue
  <2>4. PICK o \in Queue : o.key = c.key /\ o.cmd = c.cmd /\ ~Waiting(o)
      BY <2>1, CallQueued DEF Apply
  <2>5. PICK new : new = [key |-> c.key, cmd |-> c.cmd]
      OBVIOUS
  <2>6. receipts' = receipts \cup {new} /\ new.cmd = c.cmd
      BY <2>1, <2>5, Applied
  <2>7. CASE c.cmd.type = "create"
    <3>1. history[b] = <<>> /\ card' = [card EXCEPT ![b] = "placed"] /\ UNCHANGED remover
        BY <2>1, <2>2, <2>7, Applied
    <3>2. card[b] = "never" /\ remover[b] = None
        BY <3>1 DEF ServerCards
    <3>3. history'[b] # <<>>
      <4>1. PICK w : w = [text |-> c.cmd.text, by |-> c.key]
          OBVIOUS
      <4>2. history' = [history EXCEPT ![b] = Append(@, w)]
          BY <2>1, <2>2, <2>7, <4>1, Applied
      <4>3. history \in [Blocks -> Seq(Written)]
          BY DEF Shape
      <4>4. history'[b] = Append(<<>>, w)
          BY <3>1, <4>2, <4>3
      <4>5. QED
          BY <4>4
    <3>4. \A d \in Blocks : history'[d] = <<>> => card'[d] = "never"
        BY <1>1, <1>3, <3>1, <3>3 DEF ServerCards
    <3>5. \A d \in Blocks : remover'[d] # None => card'[d] = "removed"
        BY <1>1, <3>1, <3>2 DEF ServerCards
    <3>6. \A r \in receipts' : r.cmd.type = "remove" => card'[r.cmd.block] = "removed"
      <4>1. SUFFICES ASSUME NEW r \in receipts', r.cmd.type = "remove"
                     PROVE  card'[r.cmd.block] = "removed"
          OBVIOUS
      <4>2. r \in receipts
          BY <2>6, <2>7, <4>1
      <4>3. card[r.cmd.block] = "removed" /\ r.cmd.block \in Blocks
        <5>1. r.cmd \in Command
            BY <1>1, <4>2 DEF Op
        <5>2. QED
            BY <4>1, <4>2, <5>1 DEF ServerCards, Command
      <4>4. QED
          BY <1>1, <3>1, <3>2, <4>3
    <3>7. QED
        BY <2>3, <3>1, <3>4, <3>5, <3>6 DEF ServerCards, Rests
  <2>8. CASE c.cmd.type = "remove"
    <3>1. /\ card[b] = "placed" /\ card' = [card EXCEPT ![b] = "removed"]
          /\ remover' = [remover EXCEPT ![b] = key]
        BY <2>1, <2>2, <2>8, Applied
    <3>2. \A d \in Blocks : history'[d] = <<>> => card'[d] = "never"
        BY <1>1, <1>3, <3>1 DEF ServerCards
    <3>3. \A d \in Blocks : remover'[d] # None => card'[d] = "removed"
        BY <1>1, <3>1 DEF ServerCards
    <3>4. \A r \in receipts' : r.cmd.type = "remove" => card'[r.cmd.block] = "removed"
      <4>1. SUFFICES ASSUME NEW r \in receipts', r.cmd.type = "remove"
                     PROVE  card'[r.cmd.block] = "removed"
          OBVIOUS
      <4>2. CASE r \in receipts
        <5>1. r.cmd \in Command
            BY <1>1, <4>2 DEF Op
        <5>2. card[r.cmd.block] = "removed" /\ r.cmd.block \in Blocks
            BY <4>1, <4>2, <5>1 DEF ServerCards, Command
        <5>3. QED
            BY <1>1, <3>1, <5>2
      <4>3. CASE r = new
          BY <1>1, <2>2, <2>6, <3>1, <4>3
      <4>4. QED
          BY <2>6, <4>2, <4>3
    <3>5. \A p \in Queue : p.cmd.type = "create" => p.cmd.block # b
      <4>1. SUFFICES ASSUME NEW p \in Queue, p.cmd.type = "create", p.cmd.block = b
                     PROVE  FALSE
          OBVIOUS
      <4>2. o.key \in Nat /\ p.key \in Nat /\ o.key # p.key
          BY <1>2, <2>4, <2>8, <4>1, BoundAssumption DEF Op, Keys
      <4>3. CASE o.key < p.key
          BY <2>2, <2>4, <4>1, <4>3 DEF CreatedFirst
      <4>4. CASE p.key < o.key
          BY <2>2, <2>4, <2>8, <4>1, <4>4 DEF Waiting, Conflicts
      <4>5. QED
          BY <4>2, <4>3, <4>4
    <3>6. \A p \in Queue : p.cmd.type = "create" => remover'[p.cmd.block] \notin Keys
      <4>1. SUFFICES ASSUME NEW p \in Queue, p.cmd.type = "create"
                     PROVE  remover'[p.cmd.block] \notin Keys
          OBVIOUS
      <4>2. p.cmd.block \in Blocks
          BY <1>2 DEF Op, Command
      <4>3. QED
          BY <1>1, <3>1, <3>5, <4>1, <4>2 DEF ServerCards
    <3>7. QED
        BY <2>3, <3>2, <3>3, <3>4, <3>6 DEF ServerCards, Rests
  <2>9. CASE c.cmd.type = "edit"
    <3>1. UNCHANGED <<card, remover>>
        BY <2>1, <2>9, Applied
    <3>2. \A r \in receipts' : r.cmd.type = "remove" => r \in receipts
        BY <2>6, <2>9
    <3>3. QED
        BY <1>3, <2>3, <3>1, <3>2 DEF ServerCards, Rests
  <2>10. QED
      BY <2>1, <2>7, <2>8, <2>9, Applied
<1>5. CASE \E b \in Blocks : RemoveElsewhere(b)
  <2>1. PICK b \in Blocks : RemoveElsewhere(b)
      BY <1>5
  <2>2. /\ card[b] = "placed" /\ card' = [card EXCEPT ![b] = "removed"]
        /\ remover' = [remover EXCEPT ![b] = Others]
        /\ UNCHANGED receipts /\ Rests
      BY <2>1 DEF RemoveElsewhere, replica, Rests, Queue
  <2>3. Others \notin Keys
      BY BoundAssumption DEF Others, Keys
  <2>4. \A d \in Blocks : history'[d] = <<>> => card'[d] = "never"
      BY <1>1, <1>3, <2>2 DEF ServerCards
  <2>5. \A d \in Blocks : remover'[d] # None => card'[d] = "removed"
      BY <1>1, <2>2 DEF ServerCards
  <2>6. \A r \in receipts' : r.cmd.type = "remove" => card'[r.cmd.block] = "removed"
    <3>1. \A r \in receipts : r.cmd.block \in Blocks
        BY <1>1 DEF Op, Command
    <3>2. QED
        BY <1>1, <2>2, <3>1 DEF ServerCards
  <2>7. \A p \in Queue : p.cmd.type = "create" => remover'[p.cmd.block] \notin Keys
    <3>1. \A p \in Queue : p.cmd.block \in Blocks
        BY <1>2 DEF Op, Command
    <3>2. QED
        BY <1>1, <2>2, <2>3, <3>1 DEF ServerCards
  <2>8. QED
      BY <2>2, <2>4, <2>5, <2>6, <2>7 DEF ServerCards, Rests
<1>6. CASE Person
  <2>1. PICK cmd \in Command : Writes(cmd)
      BY <1>6, PersonWrites
  <2>2. UNCHANGED <<history, card, remover, receipts>>
      BY <2>1 DEF Writes, Write, server
  <2>3. PICK new : new = [key |-> drawn + 1, cmd |-> cmd]
      OBVIOUS
  <2>4. Queue' = Queue \cup {new} /\ new.cmd = cmd
      BY <2>1, <2>3, WriteJoins DEF Writes, KeysInv, Joins
  <2>5. cmd.type = "create" => remover[cmd.block] \notin Keys
    <3>1. SUFFICES ASSUME cmd.type = "create"
                   PROVE  remover[cmd.block] = None
        BY NoneApart
    <3>2. history[cmd.block] = <<>> /\ cmd.block \in Blocks
        BY <2>1, <3>1 DEF Writes, Unused, Command
    <3>3. QED
        BY <3>2 DEF ServerCards
  <2>6. QED
      BY <2>2, <2>4, <2>5 DEF ServerCards
<1>7. CASE UNCHANGED <<card, remover, receipts>> /\ Queue' \subseteq Queue
    BY <1>3, <1>7 DEF ServerCards
<1>8. CASE \E c \in calls : Acknowledge(c)
  <2>1. Queue' \subseteq Queue
      BY <1>8, AcknowledgeLeaves DEF KeysInv, Leaves
  <2>2. QED
      BY <1>7, <1>8, <2>1 DEF Acknowledge, server
<1>9. CASE \E c \in calls : Pause(c)
  <2>1. Queue' = Queue
      BY <1>9, PauseRests DEF KeysInv, Rests
  <2>2. QED
      BY <1>7, <1>9, <2>1 DEF Pause, server
<1>10. CASE Reading \/ Sending \/ Failing \/ UNCHANGED vars
            \/ (\E b \in Blocks : \E t \in Texts : EditElsewhere(b, t)) \/ \E c \in calls : Repeat(c) \/ Refuse(c)
  <2>1. UNCHANGED <<card, remover, receipts, pending>>
      BY <1>10 DEF EditElsewhere, Reading, StartRead, AnswerRead, FinishRead, Sending, Dispatch, Failing, GiveUp,
         Repeat, Refuse, server, replica, vars
  <2>2. QED
      BY <1>7, <2>1 DEF Queue
<1>11. QED
    BY <1>4, <1>5, <1>6, <1>8, <1>9, <1>10 DEF Next, Elsewhere, Serving, Serve, Settling

\* A write, an acknowledgement, or a step that leaves the operations and, but for an answer
\* that is installed, the cards shown.
LEMMA CardKinds ==
    ASSUME Shape, KeysInv, [Next]_vars
    PROVE  \/ \E cmd \in Command : Writes(cmd) /\ Joins(cmd)
           \/ \E c \in calls : Acknowledge(c) /\ Leaves(c.key) /\ UNCHANGED <<server, shown>>
           \/ Rests /\ UNCHANGED shown
           \/ Rests /\ UNCHANGED server /\ \E r \in Asked : Installs(r)
<1>1. CASE Person
  <2>1. PICK cmd \in Command : Writes(cmd)
      BY <1>1, PersonWrites
  <2>2. QED
      BY <2>1, WriteJoins DEF Writes, KeysInv
<1>2. CASE \E c \in calls : Acknowledge(c)
    BY <1>2, AcknowledgeLeaves DEF KeysInv, Acknowledge
<1>3. CASE Rests
    BY <1>1, <1>3, ReplicaStep
<1>4. CASE \E cmd \in Command : Writes(cmd) /\ Joins(cmd)
    BY <1>4
<1>5. QED
    BY <1>2, <1>3, <1>4, QueueStep DEF KeysInv

LEMMA OpsShownStep ==
    ASSUME Shape, KeysInv, SameCommands, CallsInv, CreatedFirst, OpsShown, [Next]_vars
    PROVE  OpsShown'
<1>1. Queue \subseteq Op /\ \A o, p \in Queue : o.key = p.key => o = p
    BY Queued DEF KeysInv
<1>2. \A o \in Queue : o.cmd.block \in Blocks /\ o.key \in Nat
    BY <1>1, BoundAssumption DEF Op, Command, Keys
<1>3. CASE \E cmd \in Command : Writes(cmd) /\ Joins(cmd)
  <2>1. PICK cmd \in Command : Writes(cmd) /\ Joins(cmd)
      BY <1>3
  <2>2. PICK new : new = [key |-> drawn + 1, cmd |-> cmd]
      OBVIOUS
  <2>3. Queue' = Queue \cup {new} /\ new.cmd = cmd
      BY <2>1, <2>2 DEF Joins
  <2>4. /\ cmd.type = "create" => shown'[cmd.block]
        /\ cmd.type = "remove" => ~shown'[cmd.block]
        /\ cmd.type = "edit" => UNCHANGED shown
        /\ \A b \in Blocks : b # cmd.block => shown'[b] = shown[b]
      BY <2>1, Projected DEF Writes
  <2>5. cmd.type \in {"create", "edit", "remove"}
      BY DEF Command
  <2>6. cmd.type = "create" => \A o \in Queue : o.cmd.block # cmd.block
    <3>1. SUFFICES ASSUME cmd.type = "create", NEW o \in Queue
                   PROVE  o.cmd.block # cmd.block
        OBVIOUS
    <3>2. PICK i \in 1..Len(pending) : o = [key |-> pending[i].key, cmd |-> pending[i].cmd]
        BY DEF Queue
    <3>3. QED
        BY <2>1, <3>1, <3>2 DEF Writes, Unused
  <2>7. \A o \in Queue' : o.cmd.type = "remove" => ~shown'[o.cmd.block]
    <3>1. SUFFICES ASSUME NEW o \in Queue', o.cmd.type = "remove"
                   PROVE  ~shown'[o.cmd.block]
        OBVIOUS
    <3>2. CASE o = new
        BY <2>3, <2>4, <3>1, <3>2
    <3>3. CASE o \in Queue
      <4>1. ~shown[o.cmd.block]
          BY <3>1, <3>3 DEF OpsShown
      <4>2. CASE o.cmd.block # cmd.block
          BY <1>2, <2>4, <3>3, <4>1, <4>2
      <4>3. CASE o.cmd.block = cmd.block
          BY <2>4, <2>5, <2>6, <3>3, <4>1, <4>3
      <4>4. QED
          BY <4>2, <4>3
    <3>4. QED
        BY <2>3, <3>2, <3>3
  <2>8. \A o \in Queue' : o.cmd.type = "create" =>
           shown'[o.cmd.block] \/ \E p \in Queue' : p.cmd.type = "remove" /\ p.cmd.block = o.cmd.block
    <3>1. SUFFICES ASSUME NEW o \in Queue', o.cmd.type = "create"
                   PROVE  shown'[o.cmd.block] \/ \E p \in Queue' : p.cmd.type = "remove" /\ p.cmd.block = o.cmd.block
        OBVIOUS
    <3>2. CASE o = new
        BY <2>3, <2>4, <3>1, <3>2
    <3>3. CASE o \in Queue
      <4>1. shown[o.cmd.block] \/ \E p \in Queue : p.cmd.type = "remove" /\ p.cmd.block = o.cmd.block
          BY <3>1, <3>3 DEF OpsShown
      <4>2. CASE o.cmd.block # cmd.block
          BY <1>2, <2>3, <2>4, <3>3, <4>1, <4>2
      <4>3. CASE o.cmd.block = cmd.block
          BY <2>3, <2>4, <2>5, <4>1, <4>3
      <4>4. QED
          BY <4>2, <4>3
    <3>4. QED
        BY <2>3, <3>2, <3>3
  <2>9. QED
      BY <2>7, <2>8 DEF OpsShown
<1>4. CASE \E c \in calls : Acknowledge(c) /\ Leaves(c.key) /\ UNCHANGED <<server, shown>>
  <2>1. PICK c \in calls : Acknowledge(c) /\ Leaves(c.key) /\ UNCHANGED shown
      BY <1>4
  <2>2. PICK done \in Queue : done.key = c.key /\ ~Waiting(done)
      BY <2>1, CallQueued DEF Acknowledge
  <2>3. Queue' = {o \in Queue : o.key # c.key}
      BY <2>1 DEF Leaves
  <2>4. \A o \in Queue' : o.cmd.type = "remove" => ~shown'[o.cmd.block]
      BY <2>1, <2>3 DEF OpsShown
  <2>5. \A o \in Queue' : o.cmd.type = "create" =>
           shown'[o.cmd.block] \/ \E p \in Queue' : p.cmd.type = "remove" /\ p.cmd.block = o.cmd.block
    <3>1. SUFFICES ASSUME NEW o \in Queue, o.key # c.key, o.cmd.type = "create", ~shown[o.cmd.block]
                   PROVE  \E p \in Queue' : p.cmd.type = "remove" /\ p.cmd.block = o.cmd.block
        BY <2>1, <2>3
    <3>2. PICK p \in Queue : p.cmd.type = "remove" /\ p.cmd.block = o.cmd.block
        BY <3>1 DEF OpsShown
    <3>3. p.key # c.key
      <4>1. SUFFICES ASSUME p.key = c.key
                     PROVE  FALSE
          OBVIOUS
      <4>2. p = done
          BY <1>1, <2>2, <4>1
      <4>3. ~(p.key < o.key)
          BY <3>1, <3>2 DEF CreatedFirst
      <4>4. o.key < p.key
          BY <1>2, <3>1, <4>1, <4>3
      <4>5. Conflicts(o.cmd, p.cmd)
          BY <3>1, <3>2 DEF Conflicts
      <4>6. QED
          BY <2>2, <4>2, <4>4, <4>5 DEF Waiting
    <3>4. QED
        BY <2>3, <3>2, <3>3
  <2>6. QED
      BY <2>4, <2>5 DEF OpsShown
<1>5. CASE Rests /\ UNCHANGED shown
    BY <1>5 DEF Rests, OpsShown
<1>6. CASE Rests /\ UNCHANGED server /\ \E r \in Asked : Installs(r)
  <2>1. \A b \in Blocks : CardWaits(b) => shown'[b] = shown[b]
      BY <1>6 DEF Installs
  <2>2. \A o \in Queue : IsCard(o.cmd) => shown'[o.cmd.block] = shown[o.cmd.block]
      BY <1>2, <2>1 DEF CardWaits
  <2>3. QED
      BY <1>6, <2>2 DEF Rests, OpsShown, IsCard
<1>7. QED
    BY <1>3, <1>4, <1>5, <1>6, CardKinds

\* While no operation of a card is in the outbox, only other devices change it, and they only remove it.
LEMMA CardsElsewhere ==
    ASSUME Shape, KeysInv, SameCommands, CallsInv, [Next]_vars, NEW b \in Blocks, ~CardWaits(b)
    PROVE  /\ remover'[b] \in Keys => remover[b] \in Keys
           /\ card'[b] = "placed" => card[b] = "placed"
<1>1. /\ card \in [Blocks -> {"never", "placed", "removed"}]
      /\ remover \in [Blocks -> Keys \cup {Others, None}]
    BY DEF Shape
<1>2. CASE UNCHANGED <<card, remover>>
    BY <1>2
<1>3. CASE \E c \in calls : Apply(c)
  <2>1. PICK c \in calls : Apply(c)
      BY <1>3
  <2>2. PICK o \in Queue : o.cmd = c.cmd
      BY <2>1, CallQueued DEF Apply
  <2>3. c.cmd.block # b \/ c.cmd.type = "edit"
    <3>1. c.cmd.type \in {"create", "edit", "remove"}
        BY <2>1, Applied
    <3>2. QED
        BY <2>2, <3>1 DEF CardWaits, IsCard
  <2>4. /\ UNCHANGED card \/ \E v \in {"placed", "removed"} : c.cmd.type # "edit" /\ card' = [card EXCEPT ![c.cmd.block] = v]
        /\ UNCHANGED remover \/ (c.cmd.type # "edit" /\ remover' = [remover EXCEPT ![c.cmd.block] = c.key])
      BY <2>1, Applied
  <2>5. card'[b] = card[b] /\ remover'[b] = remover[b]
      BY <1>1, <2>3, <2>4
  <2>6. QED
      BY <2>5
<1>4. CASE \E d \in Blocks : RemoveElsewhere(d)
  <2>1. PICK d \in Blocks : RemoveElsewhere(d)
      BY <1>4
  <2>2. card' = [card EXCEPT ![d] = "removed"] /\ remover' = [remover EXCEPT ![d] = Others] /\ card[d] = "placed"
      BY <2>1 DEF RemoveElsewhere
  <2>3. Others \notin Keys
      BY BoundAssumption DEF Others, Keys
  <2>4. QED
      BY <1>1, <2>2, <2>3
<1>5. CASE Person \/ Reading \/ Sending \/ Settling \/ Failing \/ UNCHANGED vars
           \/ (\E d \in Blocks : \E t \in Texts : EditElsewhere(d, t)) \/ \E c \in calls : Repeat(c) \/ Refuse(c)
    BY <1>2, <1>5 DEF Person, CreateCard, TakeOff, EditText, Write, EditElsewhere, Reading, StartRead, AnswerRead,
       FinishRead, Sending, Dispatch, Settling, Acknowledge, Pause, Failing, GiveUp, Repeat, Refuse, server, vars
<1>6. QED
    BY <1>3, <1>4, <1>5 DEF Next, Elsewhere, Serving, Serve

LEMMA ReadsInvStep ==
    ASSUME Shape, KeysInv, SameCommands, CallsInv, ServerCards, ReadsInv, [Next]_vars
    PROVE  ReadsInv'
<1>1. CASE AllOld
    BY <1>1 DEF AllOld, ReadsInv
<1>2. CASE (\E cmd \in Command : Writes(cmd)) \/ \E c \in calls : Acknowledge(c)
  <2>1. reads' = Outdated(reads)
      BY <1>2 DEF Writes, Write, Acknowledge
  <2>2. QED
      BY <1>1, <2>1, ReadsOutdated
<1>3. CASE Rests
  <2>1. SUFFICES ASSUME NEW r \in Asked', r.current, r.brane # None, NEW b \in Blocks, ~CardWaits(b)
                 PROVE  /\ remover'[b] \in Keys => r.brane[b] = None
                        /\ card'[b] = "placed" => r.brane[b] # None
      BY <1>3 DEF ReadsInv, CardWaits, Rests
  <2>2. /\ remover'[b] \in Keys => remover[b] \in Keys
        /\ card'[b] = "placed" => card[b] = "placed"
      BY <2>1, CardsElsewhere
  <2>3. CASE \E q \in Asked : r.brane = q.brane /\ (r.current => q.current)
      BY <2>1, <2>2, <2>3 DEF ReadsInv
  <2>4. CASE r.brane = ServerBrane
    <3>1. ServerBrane[b] # None <=> card[b] = "placed"
        BY ServerBraneShape DEF ServerCards
    <3>2. remover[b] \in Keys => card[b] = "removed"
        BY NoneApart DEF ServerCards
    <3>3. QED
        BY <2>2, <2>4, <3>1, <3>2
  <2>5. QED
      BY <2>1, <2>3, <2>4, ReadsStep DEF Fewer, ServerCards, ServerCards1
<1>4. QED
    BY <1>2, <1>3, QueueStep DEF KeysInv

LEMMA CardsStep ==
    ASSUME Shape, KeysInv, SameCommands, CallsInv, ServerCards, OpsShown, ReadsInv, Cards, [Next]_vars
    PROVE  Cards'
<1>1. SUFFICES ASSUME NEW b \in Blocks, ~CardWaits(b)'
               PROVE  /\ remover'[b] \in Keys => ~shown'[b]
                      /\ card'[b] = "placed" => shown'[b]
    BY DEF Cards
<1>2. CASE \E cmd \in Command : Writes(cmd) /\ Joins(cmd)
  <2>1. PICK cmd \in Command : Writes(cmd) /\ Joins(cmd)
      BY <1>2
  <2>2. PICK new : new = [key |-> drawn + 1, cmd |-> cmd]
      OBVIOUS
  <2>3. Queue' = Queue \cup {new} /\ new.cmd = cmd
      BY <2>1, <2>2 DEF Joins
  <2>4. ~CardWaits(b) /\ (cmd.block # b \/ ~IsCard(cmd))
      BY <1>1, <2>3 DEF CardWaits
  <2>5. cmd.type \in {"create", "edit", "remove"}
      BY DEF Command
  <2>6. shown'[b] = shown[b]
      BY <2>1, <2>4, <2>5, Projected DEF Writes, IsCard
  <2>7. UNCHANGED <<card, remover>>
      BY <2>1 DEF Writes, Write, server
  <2>8. QED
      BY <2>4, <2>6, <2>7 DEF Cards
<1>3. CASE \E c \in calls : Acknowledge(c) /\ Leaves(c.key) /\ UNCHANGED <<server, shown>>
  <2>1. PICK c \in calls : Acknowledge(c) /\ Leaves(c.key) /\ UNCHANGED <<card, remover, receipts, shown>>
      BY <1>3 DEF server
  <2>2. Queue' = {o \in Queue : o.key # c.key}
      BY <2>1 DEF Leaves
  <2>3. CASE ~CardWaits(b)
      BY <2>1, <2>3 DEF Cards
  <2>4. CASE CardWaits(b)
    <3>1. PICK o \in Queue : IsCard(o.cmd) /\ o.cmd.block = b
        BY <2>4 DEF CardWaits
    <3>2. o.key = c.key
        BY <1>1, <2>2, <3>1 DEF CardWaits
    <3>3. PICK r \in receipts : r.key = o.key
        BY <2>1, <3>2 DEF Acknowledge, CallsInv, Received
    <3>4. r = o
        BY <3>3 DEF SameCommands
    <3>5. CASE o.cmd.type = "remove"
      <4>1. card[b] = "removed" /\ ~shown[b]
          BY <3>1, <3>4, <3>5 DEF ServerCards, OpsShown
      <4>2. QED
          BY <2>1, <4>1
    <3>6. CASE o.cmd.type = "create"
      <4>1. remover[b] \notin Keys
          BY <3>1, <3>6 DEF ServerCards
      <4>2. \A p \in Queue : p.cmd.type = "remove" => p.cmd.block # b
        <5>1. SUFFICES ASSUME NEW p \in Queue, p.cmd.type = "remove", p.cmd.block = b
                       PROVE  FALSE
            OBVIOUS
        <5>2. p.key = c.key
            BY <1>1, <2>2, <5>1 DEF CardWaits, IsCard
        <5>3. p = o
            BY <3>2, <5>2, Queued DEF KeysInv
        <5>4. QED
            BY <3>6, <5>1, <5>3
      <4>3. shown[b]
          BY <3>1, <3>6, <4>2 DEF OpsShown
      <4>4. QED
          BY <2>1, <4>1, <4>3
    <3>7. QED
        BY <3>1, <3>5, <3>6 DEF IsCard
  <2>5. QED
      BY <2>3, <2>4
<1>4. CASE Rests /\ UNCHANGED shown
  <2>1. ~CardWaits(b)
      BY <1>1, <1>4 DEF CardWaits, Rests
  <2>2. QED
      BY <1>4, <2>1, CardsElsewhere DEF Cards
<1>5. CASE Rests /\ UNCHANGED server /\ \E r \in Asked : Installs(r)
  <2>1. ~CardWaits(b)
      BY <1>1, <1>5 DEF CardWaits, Rests
  <2>2. PICK r \in Asked : Installs(r)
      BY <1>5
  <2>3. r.current /\ r.brane # None /\ shown'[b] = (r.brane[b] # None)
      BY <2>1, <2>2 DEF Installs
  <2>4. UNCHANGED <<card, remover>>
      BY <1>5 DEF server
  <2>5. QED
      BY <2>1, <2>3, <2>4 DEF ReadsInv
<1>6. QED
    BY <1>2, <1>3, <1>4, <1>5, CardKinds

-----------------------------------------------------------------------------
(* The invariant of every step, and what it says *)

LEMMA Start ==
    ASSUME Init
    PROVE  Shape /\ OutboxInv
<1>1. pending = <<>> /\ reads = <<>> /\ calls = {} /\ receipts = {} /\ drawn = 0
    BY DEF Init
<1>2. Queue = {} /\ Asked = {} /\ Len(pending) = 0
    BY <1>1 DEF Queue, Asked
<1>3. \A b \in Blocks : /\ b \in Known => history[b] = <<[text |-> Empty, by |-> Others]>>
                        /\ b \notin Known => history[b] = <<>>
    BY DEF Init
<1>4. history \in [Blocks -> Seq(Written)]
  <2>1. PICK w : w = [text |-> Empty, by |-> Others]
      OBVIOUS
  <2>2. w \in Written
      BY <2>1 DEF Written
  <2>3. <<w>> \in Seq(Written) /\ <<>> \in Seq(Written)
      BY <2>2
  <2>4. history = [b \in Blocks |-> IF b \in Known THEN <<w>> ELSE <<>>]
      BY <2>1 DEF Init
  <2>5. QED
      BY <2>3, <2>4
<1>5. local \in Brane
  <2>1. PICK cached : cached = [text |-> Empty, version |-> 0]
      OBVIOUS
  <2>2. cached \in CachedText
      BY <2>1 DEF CachedText
  <2>3. local = [b \in Blocks |-> IF b \in Known THEN cached ELSE None]
      BY <2>1 DEF Init
  <2>4. QED
      BY <2>2, <2>3 DEF Brane
<1>6. /\ card \in [Blocks -> {"never", "placed", "removed"}]
      /\ remover \in [Blocks -> Keys \cup {Others, None}]
      /\ shown \in [Blocks -> BOOLEAN] /\ drawn \in 0..MaxKeys /\ forgotten \subseteq Blocks
    BY BoundAssumption DEF Init
<1>7. Shape
    BY <1>1, <1>4, <1>5, <1>6 DEF Shape
<1>8. KeysInv /\ SameCommands /\ CallsInv /\ CreatedFirst
    BY <1>1, <1>2 DEF KeysInv, Sorted, SameCommands, CallsInv, OneLive, CreatedFirst
<1>9. \A b \in Blocks : local[b] # None => Truth(b, local[b])
  <2>1. SUFFICES ASSUME NEW b \in Blocks, local[b] # None
                 PROVE  Truth(b, local[b])
      OBVIOUS
  <2>2. b \in Known /\ local[b] = [text |-> Empty, version |-> 0]
      BY <2>1 DEF Init
  <2>3. history[b] = <<[text |-> Empty, by |-> Others]>>
      BY <1>3, <2>2
  <2>4. local[b].text = Empty /\ local[b].version = 0
      BY <2>2
  <2>5. Len(history[b]) = 1 /\ history[b][1].text = Empty
      BY <2>3
  <2>6. QED
      BY <2>4, <2>5 DEF Truth
<1>10. TextsInv
    BY <1>1, <1>2, <1>9 DEF TextsInv, Expected
<1>11. \A b \in Blocks : history[b] = <<>> => card[b] = "never"
  <2>1. SUFFICES ASSUME NEW b \in Blocks, history[b] = <<>>
                 PROVE  card[b] = "never"
      OBVIOUS
  <2>2. b \notin Known
      BY <1>3, <2>1
  <2>3. QED
      BY <2>2 DEF Init
<1>12. \A b \in Blocks : remover[b] = None /\ (card[b] = "placed" => shown[b])
    BY DEF Init
<1>13. CardsInv
    BY <1>1, <1>2, <1>11, <1>12, NoneApart DEF CardsInv, ServerCards, OpsShown, ReadsInv, Cards
<1>14. QED
    BY <1>7, <1>8, <1>10, <1>13 DEF OutboxInv

LEMMA Step ==
    ASSUME Shape, OutboxInv, [Next]_vars
    PROVE  Shape' /\ OutboxInv'
<1>1. KeysInv /\ SameCommands /\ CallsInv /\ CreatedFirst /\ TextsInv
    BY DEF OutboxInv
<1>2. ServerCards /\ OpsShown /\ ReadsInv /\ Cards
    BY DEF OutboxInv, CardsInv
<1>3. OneLive /\ ServerCards1
    BY <1>1, <1>2 DEF CallsInv, ServerCards, ServerCards1
<1>4. Shape' /\ KeysInv'
    BY <1>1, <1>3, ShapeStep, KeysStep
<1>5. SameCommands' /\ CallsInv' /\ CreatedFirst'
    BY <1>1, SameCommandsStep, CallsStep, CreatedFirstStep
<1>6. TextsInv'
    BY <1>1, <1>3, TextsStep
<1>7. CardsInv'
    BY <1>1, <1>2, ServerCardsStep, OpsShownStep, ReadsInvStep, CardsStep DEF CardsInv
<1>8. QED
    BY <1>4, <1>5, <1>6, <1>7 DEF OutboxInv

LEMMA TrueCache ==
    ASSUME Shape, OutboxInv
    PROVE  CacheTrue
<1>1. TextsInv /\ Cards
    BY DEF OutboxInv, CardsInv
<1>2. ASSUME NEW b \in Blocks \ PendingText, local[b] # None
      PROVE  /\ local[b].version <= Version(b)
             /\ history[b][local[b].version + 1].text = local[b].text
  <2>1. Expected(b, local[b], drawn + 1)
      BY <1>1, <1>2 DEF TextsInv
  <2>2. ~\E o \in Queue : o.cmd.block = b /\ IsText(o.cmd)
      BY TextAwaited
  <2>3. Truth(b, local[b])
      BY <2>1, <2>2 DEF Expected
  <2>4. Len(history[b]) \in Nat /\ local[b].version \in Nat
      BY <1>2, LenProperties DEF Shape, Brane, CachedText
  <2>5. QED
      BY <2>3, <2>4 DEF Truth, Version
<1>3. LocalTruth
    BY <1>2 DEF LocalTruth
<1>4. OwnCards
    BY <1>1, CardAwaited DEF OwnCards, Cards
<1>5. QED
    BY <1>3, <1>4 DEF CacheTrue

\* The invariant the theorem below rests on: the outbox is in the order of its keys, receipts and
\* calls are of its operations or of those that left it, a sent operation waits for no earlier one,
\* and every cached, expected or received text and card is the server's or of an operation of the
\* outbox.  (enqueue, validateBase and dispatch of replica.ts, installBrane of replica-projection.ts)
THEOREM OutboxKeepsOrder == Spec => [](Shape /\ OutboxInv)
BY Start, Step, PTL DEF Spec

\* Whatever is lost, repeated, answered late or written by other devices, the cache shows what the
\* server has: a text nobody here is writing is one the server has or had under its cached version,
\* a card this person removed stays removed, and one that is on the server is on the brane.
\* (installBrane and projectOperation of replica-projection.ts, acknowledge of replica.ts)
THEOREM CacheAlwaysTrue == Spec => []CacheTrue
BY OutboxKeepsOrder, TrueCache, PTL

-----------------------------------------------------------------------------
(* The promise: history, card and what is in the outbox without a receipt move as OutboxPromise says *)

Authors == \A b \in Blocks : \A v \in 1..Len(history[b]) : history[b][v].by <= drawn

LEMMA Filtered ==
    ASSUME NEW ops, NEW keys
    PROVE  {[key |-> ops[i].key, cmd |-> ops[i].cmd] : i \in {j \in 1..Len(ops) : ops[j].key \notin keys}}
              = {o \in {[key |-> ops[i].key, cmd |-> ops[i].cmd] : i \in 1..Len(ops)} : o.key \notin keys}
OBVIOUS

LEMMA IntentsQueued ==
    /\ Intents = {o \in Queue : o.key \notin ReceivedKeys}
    /\ Intents' = {o \in Queue' : o.key \notin ReceivedKeys'}
<1>1. Intents = {o \in Queue : o.key \notin ReceivedKeys}
  <2>1. PICK ops, keys : ops = pending /\ keys = ReceivedKeys
      OBVIOUS
  <2>2. QED
      BY <2>1, Filtered DEF Intents, Queue
<1>2. Intents' = {o \in Queue' : o.key \notin ReceivedKeys'}
  <2>1. PICK ops, keys : ops = pending' /\ keys = ReceivedKeys'
      OBVIOUS
  <2>2. QED
      BY <2>1, Filtered DEF Intents, Queue
<1>3. QED
    BY <1>1, <1>2

LEMMA AuthorsStep ==
    ASSUME Shape, KeysInv, Authors, [Next]_vars
    PROVE  Authors'
<1>1. drawn \in Nat /\ drawn' \in Nat /\ drawn <= drawn'
  <2>1. drawn \in Nat
      BY BoundAssumption DEF Shape
  <2>2. QED
      BY <2>1, QueueStep DEF KeysInv, Joins, Rests, Leaves
<1>2. \A b \in Blocks : /\ history[b] \in Seq(Written) /\ Len(history[b]) \in Nat
                        /\ \A v \in 1..Len(history[b]) : history[b][v] \in Written
    BY LenProperties, ElementOfSeq DEF Shape
<1>3. \A b \in Blocks : \A v \in 1..Len(history[b]) : history[b][v].by \in Nat
    BY <1>2, BoundAssumption DEF Written, Keys, Others
<1>4. CASE UNCHANGED history
  <2>1. SUFFICES ASSUME NEW b \in Blocks, NEW v \in 1..Len(history[b])
                 PROVE  history[b][v].by <= drawn'
      BY <1>4 DEF Authors
  <2>2. history[b][v].by \in Nat /\ history[b][v].by <= drawn
      BY <1>3 DEF Authors
  <2>3. QED
      BY <1>1, <2>2
<1>5. ASSUME NEW d \in Blocks, NEW w \in Written, w.by <= drawn,
             history' = [history EXCEPT ![d] = Append(@, w)]
      PROVE  Authors'
  <2>1. /\ Len(history'[d]) = Len(history[d]) + 1
        /\ history'[d][Len(history[d]) + 1] = w
        /\ \A b \in Blocks \ {d} : history'[b] = history[b]
        /\ Grows
      BY <1>5, HistoryAppended
  <2>2. w.by \in Nat
      BY BoundAssumption DEF Written, Keys, Others
  <2>3. SUFFICES ASSUME NEW b \in Blocks, NEW v \in 1..Len(history'[b])
                 PROVE  history'[b][v].by <= drawn'
      BY DEF Authors
  <2>4. CASE v \in 1..Len(history[b])
    <3>1. history'[b][v] = history[b][v]
        BY <2>1, <2>4 DEF Grows
    <3>2. history[b][v].by \in Nat /\ history[b][v].by <= drawn
        BY <1>3, <2>4 DEF Authors
    <3>3. QED
        BY <1>1, <3>1, <3>2
  <2>5. CASE v \notin 1..Len(history[b])
    <3>1. b = d
        BY <2>1, <2>5
    <3>2. v = Len(history[d]) + 1
        BY <1>2, <2>1, <2>5, <3>1
    <3>3. history'[b][v] = w
        BY <2>1, <3>1, <3>2
    <3>4. QED
        BY <1>1, <1>5, <2>2, <3>3
  <2>6. QED
      BY <2>4, <2>5
<1>6. CASE \E c \in calls : Apply(c)
  <2>1. PICK c \in calls : Apply(c)
      BY <1>6
  <2>2. PICK w : w = [text |-> c.cmd.text, by |-> c.key]
      OBVIOUS
  <2>3. w \in Written /\ w.by <= drawn /\ c.cmd.block \in Blocks
      BY <2>1, <2>2, Applied DEF Written, Command, KeysInv
  <2>4. UNCHANGED history \/ history' = [history EXCEPT ![c.cmd.block] = Append(@, w)]
      BY <2>1, <2>2, Applied
  <2>5. QED
      BY <1>4, <1>5, <2>3, <2>4
<1>7. CASE \E b \in Blocks : \E t \in Texts : EditElsewhere(b, t)
  <2>1. PICK b \in Blocks, t \in Texts : EditElsewhere(b, t)
      BY <1>7
  <2>2. PICK w : w = [text |-> t, by |-> Others]
      OBVIOUS
  <2>3. w \in Written /\ w.by <= drawn /\ history' = [history EXCEPT ![b] = Append(@, w)]
      BY <1>1, <2>1, <2>2 DEF Written, EditElsewhere, Others
  <2>4. QED
      BY <1>5, <2>3
<1>8. CASE Person \/ Reading \/ Sending \/ Settling \/ Failing \/ UNCHANGED vars
           \/ (\E b \in Blocks : RemoveElsewhere(b)) \/ \E c \in calls : Repeat(c) \/ Refuse(c)
    BY <1>4, <1>8 DEF Person, CreateCard, TakeOff, EditText, Write, RemoveElsewhere, Reading, StartRead, AnswerRead,
       FinishRead, Sending, Dispatch, Settling, Acknowledge, Pause, Failing, GiveUp, Repeat, Refuse, server, vars
<1>9. QED
    BY <1>6, <1>7, <1>8 DEF Next, Elsewhere, Serving, Serve

\* A write is an intent that joins those to be done.
LEMMA WriteIntends ==
    ASSUME Shape, KeysInv, Authors, NEW cmd \in Command, Writes(cmd), Joins(cmd)
    PROVE  Promise!Intend
<1>1. drawn \in Nat
    BY BoundAssumption DEF Shape
<1>2. PICK new : new = [key |-> drawn + 1, cmd |-> cmd]
    OBVIOUS
<1>3. Queue' = Queue \cup {new} /\ new.key = drawn + 1
    BY <1>2 DEF Joins
<1>4. UNCHANGED <<history, card, receipts>>
    BY DEF Writes, Write, server
<1>5. \A o \in Queue : o.key \in Nat /\ o.key < new.key
  <2>1. \A o \in Queue : o.key \in Nat /\ o.key <= drawn
      BY Queued, BoundAssumption DEF KeysInv, Op, Keys
  <2>2. QED
      BY <1>1, <1>3, <2>1
<1>6. new.key \notin ReceivedKeys
  <2>1. \A r \in receipts : r.key \in Nat /\ r.key <= drawn
      BY BoundAssumption DEF KeysInv, Shape, Op, Keys
  <2>2. QED
      BY <1>1, <1>3, <2>1 DEF ReceivedKeys
<1>7. ReceivedKeys' = ReceivedKeys
    BY <1>4 DEF ReceivedKeys
<1>8. Intents' = Intents \cup {new} /\ new \notin Intents /\ Intents \subseteq Queue
    BY <1>3, <1>5, <1>6, <1>7, IntentsQueued
<1>9. \A b \in Blocks : \A v \in 1..Len(history[b]) : history[b][v].by # new.key
  <2>1. SUFFICES ASSUME NEW b \in Blocks, NEW v \in 1..Len(history[b])
                 PROVE  history[b][v].by # new.key
      OBVIOUS
  <2>2. history[b][v] \in Written
      BY ElementOfSeq DEF Shape
  <2>3. history[b][v].by \in Nat /\ history[b][v].by <= drawn
      BY <2>2, BoundAssumption DEF Authors, Written, Keys, Others
  <2>4. QED
      BY <1>1, <1>3, <2>3
<1>10. QED
    BY <1>4, <1>5, <1>8, <1>9 DEF Promise!Intend

\* An operation that is applied is an intent carried out in its turn.
LEMMA ApplyCarriesOut ==
    ASSUME Shape, KeysInv, SameCommands, CallsInv, TextsInv, NEW c \in calls, Apply(c)
    PROVE  \E op \in Intents : Promise!CarryOut(op)
<1>1. PICK o \in Queue : o.key = c.key /\ o.cmd = c.cmd /\ ~Waiting(o)
    BY CallQueued DEF Apply
<1>2. o \in Intents
  <2>1. o.key \notin ReceivedKeys
      BY <1>1 DEF Apply, Received, ReceivedKeys
  <2>2. QED
      BY <2>1, IntentsQueued
<1>3. PICK b, w : b \in Blocks /\ b = c.cmd.block /\ w = [text |-> c.cmd.text, by |-> c.key]
    BY Applied
<1>4. Promise!Turn(o)
  <2>1. SUFFICES ASSUME NEW p \in Intents, p.key < o.key, p.cmd.block = o.cmd.block
                 PROVE  {p.cmd.type, o.cmd.type} = {"edit", "remove"}
      BY DEF Promise!Turn
  <2>2. p \in Queue
      BY IntentsQueued
  <2>3. QED
      BY <1>1, <2>1, <2>2 DEF Waiting, Conflicts
<1>5. Intents' = Intents \ {o}
  <2>1. ReceivedKeys' = ReceivedKeys \cup {o.key}
    <3>1. PICK new : new = [key |-> c.key, cmd |-> c.cmd]
        OBVIOUS
    <3>2. receipts' = receipts \cup {new} /\ new.key = o.key
        BY <1>1, <3>1, Applied
    <3>3. QED
        BY <3>2 DEF ReceivedKeys
  <2>2. Queue' = Queue
      BY DEF Apply, replica, Queue
  <2>3. \A p \in Queue : p.key = o.key => p = o
      BY Queued DEF KeysInv
  <2>4. QED
      BY <2>1, <2>2, <2>3, IntentsQueued
<1>6. CASE c.cmd.type = "create"
  <2>1. /\ history[b] = <<>> /\ card' = [card EXCEPT ![b] = "placed"]
        /\ history' = [history EXCEPT ![b] = Append(@, w)]
      BY <1>3, <1>6, Applied
  <2>2. c.cmd.text = Empty
      BY <1>6, Applied DEF Command
  <2>3. w = [text |-> Empty, by |-> o.key]
      BY <1>1, <1>3, <2>2
  <2>4. Append(history[b], w) = <<w>>
      BY <2>1
  <2>5. history' = [history EXCEPT ![b] = <<w>>]
      BY <2>1, <2>4
  <2>6. QED
      BY <1>1, <1>2, <1>3, <1>4, <1>5, <1>6, <2>1, <2>3, <2>5 DEF Promise!CarryOut
<1>7. CASE c.cmd.type = "edit"
  <2>1. history[b] # <<>> /\ Version(b) = c.cmd.version /\ UNCHANGED card
      BY <1>3, <1>7, Applied
  <2>2. Len(history[b]) \in Nat /\ c.cmd.version \in Nat
      BY Applied, LenProperties DEF Shape, Command
  <2>3. Len(history[b]) = c.cmd.version + 1
      BY <2>1, <2>2 DEF Version
  <2>4. ServerText(b) = c.cmd.over
    <3>1. Truth(b, Base(c.cmd))
        BY <1>3, <1>7, WrittenOver
    <3>2. Base(c.cmd).version = c.cmd.version /\ Base(c.cmd).text = c.cmd.over
        BY DEF Base
    <3>3. QED
        BY <2>3, <3>1, <3>2 DEF Truth, ServerText, Last
  <2>5. history' = IF c.cmd.text = c.cmd.over THEN history ELSE [history EXCEPT ![b] = Append(@, w)]
      BY <1>3, <1>7, <2>4, Applied
  <2>6. Last(history[b]).text = o.cmd.over
      BY <1>1, <2>4 DEF ServerText
  <2>7. w = [text |-> o.cmd.text, by |-> o.key]
      BY <1>1, <1>3
  <2>8. QED
      BY <1>1, <1>2, <1>3, <1>4, <1>5, <1>7, <2>1, <2>5, <2>6, <2>7 DEF Promise!CarryOut, Promise!Last, Last
<1>8. CASE c.cmd.type = "remove"
  <2>1. card[b] = "placed" /\ card' = [card EXCEPT ![b] = "removed"] /\ UNCHANGED history
      BY <1>3, <1>8, Applied
  <2>2. QED
      BY <1>1, <1>2, <1>3, <1>4, <1>5, <1>8, <2>1 DEF Promise!CarryOut
<1>9. QED
    BY <1>6, <1>7, <1>8, Applied

LEMMA PromiseStep ==
    ASSUME Shape, OutboxInv, Authors, [Next]_vars
    PROVE  [Promise!Next]_(Promise!promiseVars)
<1>1. KeysInv /\ SameCommands /\ CallsInv /\ TextsInv
    BY DEF OutboxInv
<1>2. CASE Person
  <2>1. PICK cmd \in Command : Writes(cmd)
      BY <1>2, PersonWrites
  <2>2. Joins(cmd)
      BY <1>1, <2>1, WriteJoins DEF Writes, KeysInv
  <2>3. QED
      BY <1>1, <2>1, <2>2, WriteIntends DEF Promise!Next
<1>3. CASE \E c \in calls : Apply(c)
    BY <1>1, <1>3, ApplyCarriesOut DEF Promise!Next
<1>4. CASE Elsewhere
  <2>1. UNCHANGED <<pending, receipts>>
      BY <1>4 DEF Elsewhere, EditElsewhere, RemoveElsewhere, replica
  <2>2. Intents' = Intents
      BY <2>1 DEF Intents, ReceivedKeys
  <2>3. PICK b \in Blocks : RemoveElsewhere(b) \/ \E t \in Texts : EditElsewhere(b, t)
      BY <1>4 DEF Elsewhere
  <2>4. Promise!Elsewhere
      BY <2>2, <2>3 DEF Promise!Elsewhere, EditElsewhere, RemoveElsewhere, Others
  <2>5. QED
      BY <2>4 DEF Promise!Next
<1>5. ASSUME UNCHANGED <<history, card, receipts>>, Intents' = Intents
      PROVE  [Promise!Next]_(Promise!promiseVars)
    BY <1>5 DEF Promise!promiseVars
<1>6. CASE \E c \in calls : Acknowledge(c)
  <2>1. PICK c \in calls : Acknowledge(c)
      BY <1>6
  <2>2. Queue' = {o \in Queue : o.key # c.key} /\ UNCHANGED <<history, card, receipts>>
      BY <1>1, <2>1, AcknowledgeLeaves DEF KeysInv, Leaves, Acknowledge, server
  <2>3. c.key \in ReceivedKeys
    <3>1. PICK r \in receipts : r.key = c.key
        BY <1>1, <2>1 DEF Acknowledge, CallsInv, Received
    <3>2. QED
        BY <3>1 DEF ReceivedKeys
  <2>4. ReceivedKeys' = ReceivedKeys
      BY <2>2 DEF ReceivedKeys
  <2>5. Intents' = Intents
      BY <2>2, <2>3, <2>4, IntentsQueued
  <2>6. QED
      BY <1>5, <2>2, <2>5
<1>7. CASE \E c \in calls : Pause(c)
  <2>1. Queue' = Queue /\ UNCHANGED <<history, card, receipts>>
      BY <1>1, <1>7, PauseRests DEF KeysInv, Rests, Pause, server
  <2>2. ReceivedKeys' = ReceivedKeys
      BY <2>1 DEF ReceivedKeys
  <2>3. Intents' = Intents
      BY <2>1, <2>2, IntentsQueued
  <2>4. QED
      BY <1>5, <2>1, <2>3
<1>8. CASE Reading \/ Sending \/ Failing \/ UNCHANGED vars \/ \E c \in calls : Repeat(c) \/ Refuse(c)
  <2>1. UNCHANGED <<history, card, receipts, pending>>
      BY <1>8 DEF Reading, StartRead, AnswerRead, FinishRead, Sending, Dispatch, Failing, GiveUp, Repeat, Refuse,
         server, replica, vars
  <2>2. Intents' = Intents
      BY <2>1 DEF Intents, ReceivedKeys
  <2>3. QED
      BY <1>5, <2>1, <2>2
<1>9. QED
    BY <1>2, <1>3, <1>4, <1>6, <1>7, <1>8 DEF Next, Serving, Serve, Settling

LEMMA PromiseStart ==
    ASSUME Init
    PROVE  Promise!Init /\ Authors
<1>1. pending = <<>> /\ receipts = {} /\ drawn = 0
    BY DEF Init
<1>2. Len(pending) = 0
    BY <1>1
<1>3. Queue = {}
    BY <1>2 DEF Queue
<1>4. Intents = {}
    BY <1>3, IntentsQueued
<1>5. Promise!Init
    BY <1>4 DEF Promise!Init, Init, Others
<1>6. Authors
  <2>1. SUFFICES ASSUME NEW b \in Blocks, NEW v \in 1..Len(history[b])
                 PROVE  history[b][v].by <= 0
      BY <1>1 DEF Authors
  <2>2. CASE b \in Known
    <3>1. history[b] = <<[text |-> Empty, by |-> 0]>>
        BY <2>2 DEF Init, Others
    <3>2. Len(history[b]) = 1
        BY <3>1
    <3>3. v = 1
        BY <3>2
    <3>4. history[b][v].by = 0
        BY <3>1, <3>3
    <3>5. QED
        BY <3>4
  <2>3. CASE b \notin Known
    <3>1. history[b] = <<>>
        BY <2>3 DEF Init
    <3>2. Len(history[b]) = 0
        BY <3>1
    <3>3. QED
        BY <3>2
  <2>4. QED
      BY <2>2, <2>3
<1>7. QED
    BY <1>5, <1>6

\* The outbox implements its promise: what a person writes is carried out at most once, in its
\* order on a text or a card and over the text its writer saw, and nothing else but other devices
\* changes the library.  (dispatch and acknowledge of replica.ts, applyWorkspaceOperation)
THEOREM OutboxKeepsPromise == Spec => Promise!Spec
<1>1. Init => Promise!Init /\ Authors
    BY PromiseStart
<1>2. Shape /\ OutboxInv /\ Authors /\ [Next]_vars => Authors' /\ [Promise!Next]_(Promise!promiseVars)
    BY AuthorsStep, PromiseStep DEF OutboxInv
<1>3. QED
    BY <1>1, <1>2, OutboxKeepsOrder, PTL DEF Spec, Promise!Spec

-----------------------------------------------------------------------------
(* Refusals: the operations of one text expect each what the one before leaves, and nothing but
   other devices writes over what the first of them, or the cache, expects; all but those of the
   blocks that were forgotten while they were written, whose cache is of any version *)

Before(p, o)  == p.key < o.key /\ p.cmd.block = o.cmd.block /\ IsText(p.cmd)
First(o)      == \A p \in Queue : ~Before(p, o)
Follows(o, p) == Before(p, o) /\ \A q \in Queue : Before(q, o) => q.key <= p.key
Newest(p)     == IsText(p.cmd) /\ \A q \in Queue : q.cmd.block = p.cmd.block /\ IsText(q.cmd) => q.key <= p.key
TextWaits(b)  == \E o \in Queue : IsText(o.cmd) /\ o.cmd.block = b

Chained ==
    /\ \A o, p \in Queue : o.cmd.type = "edit" /\ o.cmd.block \notin forgotten /\ Follows(o, p)
          => Base(o.cmd) = After(p.cmd)
    /\ \A p \in Queue : Newest(p) /\ p.cmd.block \notin forgotten => local[p.cmd.block] = After(p.cmd)

Fresh(b, v) == b \notin forgotten => \A i \in 1..Len(history[b]) : i >= v + 2 => history[b][i].by = Others

HasReceipt(key) == \E r \in receipts : r.key = key

FreshInv ==
    /\ \A o \in Queue : o.cmd.type = "edit" /\ First(o) /\ ~HasReceipt(o.key) => Fresh(o.cmd.block, o.cmd.version)
    /\ \A o \in Queue : IsText(o.cmd) /\ HasReceipt(o.key) => Fresh(o.cmd.block, After(o.cmd).version)
    /\ \A b \in Blocks : local[b] # None /\ ~TextWaits(b) => Fresh(b, local[b].version)
    /\ \A r \in Asked : r.current /\ r.brane # None =>
          \A b \in Blocks : r.brane[b] # None /\ ~TextWaits(b) => Fresh(b, r.brane[b].version)

ReceivedInTurn == \A o \in Queue : HasReceipt(o.key) => ~Waiting(o)

CardsOnce ==
    /\ \A o \in Queue : o.cmd.type = "create" /\ ~HasReceipt(o.key) => history[o.cmd.block] = <<>>
    /\ \A o, p \in Queue : o.cmd.type = "remove" /\ p.cmd.type = "remove" /\ o.cmd.block = p.cmd.block => o = p
    /\ \A o \in Queue : o.cmd.type = "remove" /\ ~HasReceipt(o.key) => remover[o.cmd.block] \notin Keys
    /\ \A b \in Blocks : card[b] = "never" /\ (shown[b] \/ \E o \in Queue : o.cmd.type = "remove" /\ o.cmd.block = b)
          => \E p \in Queue : p.cmd.type = "create" /\ p.cmd.block = b
    /\ \A r \in receipts : r.cmd.type = "create" => card[r.cmd.block] # "never"
    /\ \A b \in Blocks : history[b] # <<>> => card[b] # "never"
    /\ \A b \in Blocks : card[b] = "removed" => remover[b] # None

Fair(cmd, failure) ==
    \/ /\ cmd.type = "edit" /\ failure = "conflict"
       /\ \/ Version(cmd.block) > cmd.version /\ history[cmd.block][cmd.version + 2].by = Others
          \/ cmd.block \in forgotten
    \/ cmd.type = "remove" /\ failure = "missing" /\ remover[cmd.block] = Others

FairAnswers == \A c \in calls : c.answer \in Refusals \ {"limit"} => Fair(c.cmd, c.answer)

LEMMA TextsConflict ==
    ASSUME NEW c, NEW d, IsText(c), IsText(d), c.block = d.block
    PROVE  Conflicts(c, d)
BY DEF IsText, Conflicts

\* What a step may be, as far as refusals are concerned.
LEMMA Kinds ==
    ASSUME Shape, KeysInv, ServerCards1, [Next]_vars
    PROVE  \/ \E cmd \in Command : Writes(cmd) /\ Joins(cmd) /\ UNCHANGED <<server, forgotten, calls>> /\ AllOld
           \/ \E c \in calls :
                 /\ Acknowledge(c) /\ Leaves(c.key) /\ AllOld
                 /\ UNCHANGED <<server, local, shown, forgotten>>
           \/ Rests /\ UNCHANGED <<server, calls>> /\ Fewer /\ \E r \in Asked : Installs(r)
           \/ Rests /\ UNCHANGED <<server, local, shown, forgotten>>
           \/ Rests /\ UNCHANGED <<local, shown, forgotten, reads>> /\ \E c \in calls : Apply(c)
           \/ /\ Rests /\ UNCHANGED <<card, remover, receipts, local, shown, forgotten, calls, reads>>
              /\ \E b \in Blocks, t \in Texts : EditElsewhere(b, t)
           \/ /\ Rests /\ UNCHANGED <<history, receipts, local, shown, forgotten, calls, reads>>
              /\ \E b \in Blocks : RemoveElsewhere(b)
<1>1. CASE Person
  <2>1. PICK cmd \in Command : Writes(cmd)
      BY <1>1, PersonWrites
  <2>2. Write(cmd) /\ Joins(cmd)
      BY <2>1, WriteJoins DEF Writes, KeysInv
  <2>3. UNCHANGED <<server, forgotten, calls>> /\ reads' = Outdated(reads)
      BY <2>2 DEF Write
  <2>4. QED
      BY <2>1, <2>2, <2>3, ReadsOutdated
<1>2. CASE \E c \in calls : Acknowledge(c)
  <2>1. PICK c \in calls : Acknowledge(c)
      BY <1>2
  <2>2. UNCHANGED <<server, local, shown, forgotten>> /\ reads' = Outdated(reads)
      BY <2>1 DEF Acknowledge
  <2>3. QED
      BY <2>1, <2>2, ReadsOutdated, AcknowledgeLeaves DEF KeysInv
<1>3. CASE \E i \in 1..Len(reads) : FinishRead(i)
  <2>1. PICK i \in 1..Len(reads) : FinishRead(i)
      BY <1>3
  <2>2. Rests /\ UNCHANGED <<server, calls>>
      BY <2>1 DEF FinishRead, Rests, Queue
  <2>3. QED
      BY <2>1, <2>2, Installed, ReadsFinish
<1>4. CASE \E c \in calls : Pause(c)
  <2>1. PICK c \in calls : Pause(c)
      BY <1>4
  <2>2. UNCHANGED <<server, local, shown, forgotten>>
      BY <2>1 DEF Pause
  <2>3. QED
      BY <2>1, <2>2, PauseRests DEF KeysInv
<1>5. CASE \E c \in calls : Apply(c)
    BY <1>5 DEF Apply, replica, Rests, Queue
<1>6. CASE \E b \in Blocks, t \in Texts : EditElsewhere(b, t)
    BY <1>6 DEF EditElsewhere, replica, network, Rests, Queue
<1>7. CASE \E b \in Blocks : RemoveElsewhere(b)
    BY <1>7 DEF RemoveElsewhere, replica, network, Rests, Queue
<1>8. CASE StartRead \/ (\E i \in 1..Len(reads) : AnswerRead(i)) \/ Sending \/ Failing \/ UNCHANGED vars
           \/ \E c \in calls : Repeat(c) \/ Refuse(c)
    BY <1>8 DEF StartRead, AnswerRead, Sending, Dispatch, Failing, GiveUp, Repeat, Refuse, replica, vars, Rests, Queue
<1>9. QED
    BY <1>1, <1>2, <1>3, <1>4, <1>5, <1>6, <1>7, <1>8 DEF Next, Elsewhere, Reading, Serving, Serve, Settling

\* A call that is answered, or still to be received, is of the operation done, and the outbox has no
\* text operation of the same block before it.
LEMMA DoneFirst ==
    ASSUME Shape, KeysInv, NEW done \in Queue, ~Waiting(done), IsText(done.cmd)
    PROVE  First(done)
<1>1. SUFFICES ASSUME NEW p \in Queue, Before(p, done)
               PROVE  FALSE
    BY DEF First
<1>2. Conflicts(p.cmd, done.cmd)
    BY <1>1, TextsConflict DEF Before
<1>3. QED
    BY <1>1, <1>2 DEF Waiting, Before

LEMMA OnlyFirst ==
    ASSUME Shape, KeysInv, NEW o \in Queue, NEW p \in Queue, First(o), First(p),
           IsText(o.cmd), IsText(p.cmd), o.cmd.block = p.cmd.block
    PROVE  o = p
<1>1. o.key \in Nat /\ p.key \in Nat
    BY Queued, BoundAssumption DEF Op, Keys
<1>2. ~(o.key < p.key) /\ ~(p.key < o.key)
    BY DEF First, Before
<1>3. QED
    BY <1>1, <1>2, Queued DEF KeysInv

LEMMA ChainedStep ==
    ASSUME Shape, KeysInv, SameCommands, CallsInv, ServerCards1, Chained, [Next]_vars
    PROVE  Chained'
<1>1. /\ Queue \subseteq Op
      /\ \A o \in Queue : o.key \in Nat /\ o.key <= drawn /\ o.cmd.block \in Blocks /\ o.cmd \in Command
      /\ drawn \in Nat
    BY Queued, BoundAssumption DEF Op, Keys, Command, KeysInv, Shape
<1>2. CASE \E cmd \in Command : Writes(cmd) /\ Joins(cmd) /\ UNCHANGED forgotten
  <2>1. PICK cmd \in Command : Writes(cmd) /\ Joins(cmd) /\ UNCHANGED forgotten
      BY <1>2
  <2>2. PICK new : new = [key |-> drawn + 1, cmd |-> cmd]
      OBVIOUS
  <2>3. Queue' = Queue \cup {new} /\ new.cmd = cmd /\ new.key = drawn + 1
      BY <2>1, <2>2 DEF Joins
  <2>4. \A o \in Queue : o.key < new.key
      BY <1>1, <2>3
  <2>5. ASSUME NEW o \in Queue', NEW p \in Queue', o.cmd.type = "edit", o.cmd.block \notin forgotten, Follows(o, p)'
        PROVE  Base(o.cmd) = After(p.cmd)
    <3>1. Before(p, o) /\ \A q \in Queue : Before(q, o) => q.key <= p.key
        BY <2>3, <2>5 DEF Follows, Before
    <3>2. p \in Queue
        BY <1>1, <2>3, <2>4, <3>1 DEF Before
    <3>3. CASE o = new
      <4>1. Newest(p)
          BY <2>4, <3>1, <3>3 DEF Newest, Before
      <4>2. local[p.cmd.block] = After(p.cmd)
          BY <2>5, <3>1, <3>2, <4>1 DEF Chained, Before
      <4>3. p.cmd.block = cmd.block /\ cmd.type = "edit"
          BY <2>3, <2>5, <3>1, <3>3 DEF Before
      <4>4. Base(cmd) = local[cmd.block]
          BY <2>1, <4>3 DEF Writes
      <4>5. QED
          BY <2>3, <3>3, <4>2, <4>3, <4>4
    <3>4. CASE o \in Queue
        BY <2>5, <3>1, <3>2, <3>4 DEF Chained, Follows
    <3>5. QED
        BY <2>3, <3>3, <3>4
  <2>6. ASSUME NEW p \in Queue', p.cmd.block \notin forgotten, Newest(p)'
        PROVE  local'[p.cmd.block] = After(p.cmd)
    <3>1. IsText(p.cmd) /\ \A q \in Queue \cup {new} : q.cmd.block = p.cmd.block /\ IsText(q.cmd) => q.key <= p.key
        BY <2>3, <2>6 DEF Newest
    <3>2. Write(cmd)
        BY <2>1 DEF Writes
    <3>3. CASE p = new
      <4>1. CASE cmd.type = "create"
        <5>1. local[cmd.block] = None
            BY <2>1, <4>1 DEF Writes, Unused
        <5>2. QED
            BY <2>3, <3>2, <3>3, <4>1, <5>1, Projected
      <4>2. CASE cmd.type = "edit"
        <5>1. local[cmd.block] # None /\ Base(cmd) = local[cmd.block]
            BY <2>1, <4>2 DEF Writes
        <5>2. cmd.over = Base(cmd).text
            BY DEF Base
        <5>3. cmd.over = local[cmd.block].text
            BY <5>1, <5>2
        <5>4. QED
            BY <2>3, <3>2, <3>3, <4>2, <5>1, <5>3, Projected
      <4>3. QED
          BY <2>3, <3>1, <3>3, <4>1, <4>2 DEF IsText
    <3>4. CASE p \in Queue
      <4>1. Newest(p)
          BY <3>1 DEF Newest
      <4>2. local[p.cmd.block] = After(p.cmd)
          BY <2>6, <3>4, <4>1 DEF Chained
      <4>3. cmd.block # p.cmd.block \/ ~IsText(cmd)
        <5>1. ~(new.key <= p.key)
            BY <1>1, <2>3, <2>4, <3>4
        <5>2. QED
            BY <2>3, <3>1, <5>1
      <4>4. cmd.type \in {"create", "edit", "remove"}
          BY DEF Command
      <4>5. local'[p.cmd.block] = local[p.cmd.block]
          BY <1>1, <3>2, <3>4, <4>3, <4>4, Projected DEF IsText
      <4>6. QED
          BY <4>2, <4>5
    <3>5. QED
        BY <2>3, <3>3, <3>4
  <2>7. QED
      BY <2>1, <2>5, <2>6 DEF Chained
<1>3. CASE \E c \in calls : Acknowledge(c) /\ Leaves(c.key) /\ UNCHANGED <<local, forgotten>>
  <2>1. PICK c \in calls : Acknowledge(c) /\ Leaves(c.key) /\ UNCHANGED <<local, forgotten>>
      BY <1>3
  <2>2. PICK done \in Queue : done.key = c.key /\ ~Waiting(done)
      BY <2>1, CallQueued DEF Acknowledge
  <2>3. Queue' = {o \in Queue : o.key # c.key}
      BY <2>1 DEF Leaves
  <2>4. \A q \in Queue : q.key = c.key => q = done
      BY <2>2, Queued DEF KeysInv
  <2>5. ASSUME NEW p \in Queue, IsText(p.cmd), IsText(done.cmd), p.cmd.block = done.cmd.block
        PROVE  done.key <= p.key
    <3>1. Conflicts(p.cmd, done.cmd)
        BY <2>5, TextsConflict
    <3>2. ~(p.key < done.key)
        BY <2>2, <3>1 DEF Waiting
    <3>3. QED
        BY <1>1, <3>2
  <2>6. ASSUME NEW o \in Queue', NEW p \in Queue', o.cmd.type = "edit", o.cmd.block \notin forgotten, Follows(o, p)'
        PROVE  Base(o.cmd) = After(p.cmd)
    <3>1. Before(p, o) /\ \A q \in Queue : q.key # c.key => (Before(q, o) => q.key <= p.key)
        BY <2>3, <2>6 DEF Follows, Before
    <3>2. o \in Queue /\ p \in Queue
        BY <2>3
    <3>3. Before(done, o) => done.key <= p.key
        BY <2>5, <3>1, <3>2 DEF Before
    <3>4. Follows(o, p)
        BY <2>4, <3>1, <3>3 DEF Follows
    <3>5. QED
        BY <2>6, <3>2, <3>4 DEF Chained
  <2>7. ASSUME NEW p \in Queue', p.cmd.block \notin forgotten, Newest(p)'
        PROVE  local'[p.cmd.block] = After(p.cmd)
    <3>1. p \in Queue /\ IsText(p.cmd)
        BY <2>3, <2>7 DEF Newest
    <3>2. \A q \in Queue : q.key # c.key => (q.cmd.block = p.cmd.block /\ IsText(q.cmd) => q.key <= p.key)
        BY <2>3, <2>7 DEF Newest
    <3>3. Newest(p)
        BY <2>4, <2>5, <3>1, <3>2 DEF Newest
    <3>4. QED
        BY <2>1, <2>7, <3>1, <3>3 DEF Chained
  <2>8. QED
      BY <2>1, <2>6, <2>7 DEF Chained
<1>4. CASE Rests /\ \E r \in Asked : Installs(r)
  <2>1. Queue' = Queue
      BY <1>4 DEF Rests
  <2>2. ASSUME NEW p \in Queue, p.cmd.block \notin forgotten', Newest(p)
        PROVE  local'[p.cmd.block] = After(p.cmd)
    <3>1. local[p.cmd.block] = After(p.cmd)
        BY <1>4, <2>2 DEF Chained, Installs
    <3>2. After(p.cmd) # None
        BY <1>1, AfterShape, NoneApart
    <3>3. p.cmd.block \in PendingText
        BY <1>1, <2>2, TextAwaited DEF Newest
    <3>4. QED
        BY <1>4, <2>2, <3>1, <3>2, <3>3 DEF Installs
  <2>3. QED
      BY <1>4, <2>1, <2>2 DEF Chained, Follows, Newest, Installs
<1>5. CASE Rests /\ UNCHANGED <<local, forgotten>>
    BY <1>5 DEF Rests, Chained, Follows, Newest
<1>6. QED
    BY <1>2, <1>3, <1>4, <1>5, Kinds

\* Others write over what is expected, and it stays so.
LEMMA FreshElsewhere ==
    ASSUME Shape, NEW d \in Blocks, NEW t \in Texts, EditElsewhere(d, t),
           NEW b \in Blocks, NEW v, Fresh(b, v)
    PROVE  Fresh(b, v)'
<1>1. PICK w : w = [text |-> t, by |-> Others]
    OBVIOUS
<1>2. w \in Written /\ w.by = Others
    BY <1>1 DEF Written
<1>3. history' = [history EXCEPT ![d] = Append(@, w)]
    BY <1>1 DEF EditElsewhere
<1>0. UNCHANGED forgotten
    BY DEF EditElsewhere, replica
<1>4. /\ Len(history'[d]) = Len(history[d]) + 1
      /\ history'[d][Len(history[d]) + 1] = w
      /\ Grows /\ \A x \in Blocks \ {d} : history'[x] = history[x]
    BY <1>2, <1>3, HistoryAppended
<1>5. CASE b = d /\ b \notin forgotten
  <2>1. Len(history[d]) \in Nat
      BY LenProperties DEF Shape
  <2>2. PICK n \in Nat : n = Len(history[d])
      BY <2>1
  <2>3. ASSUME NEW i \in 1..(n + 1), i >= v + 2
        PROVE  history'[d][i].by = Others
    <3>1. CASE i = n + 1
        BY <1>2, <1>4, <2>2, <3>1
    <3>2. CASE i \in 1..n
      <4>1. history[d][i].by = Others
          BY <1>5, <2>2, <2>3, <3>2 DEF Fresh
      <4>2. history'[d][i] = history[d][i]
          BY <1>4, <2>2, <3>2 DEF Grows
      <4>3. QED
          BY <4>1, <4>2
    <3>3. QED
        BY <2>3, <3>1, <3>2
  <2>4. QED
      BY <1>4, <1>5, <2>2, <2>3 DEF Fresh
<1>6. CASE b # d
    BY <1>0, <1>4, <1>6 DEF Fresh
<1>7. CASE b \in forgotten
    BY <1>0, <1>7 DEF Fresh
<1>8. QED
    BY <1>5, <1>6, <1>7

\* Nothing is written over the version a text has now.
LEMMA FreshNow ==
    ASSUME NEW h, NEW v \in Nat, Len(h) = v + 1
    PROVE  \A i \in 1..Len(h) : i >= v + 2 => h[i].by = Others
OBVIOUS

LEMMA FreshWrite ==
    ASSUME Shape, KeysInv, FreshInv, NEW cmd \in Command, Writes(cmd), Joins(cmd),
           UNCHANGED <<server, forgotten, calls>>, AllOld
    PROVE  FreshInv'
<1>1. /\ \A o \in Queue : o.key \in Nat /\ o.key <= drawn
      /\ \A r \in receipts : r.key \in Nat /\ r.key <= drawn
      /\ drawn \in Nat
    BY Queued, BoundAssumption DEF Op, Keys, Command, KeysInv, Shape
<1>2. PICK new : new = [key |-> drawn + 1, cmd |-> cmd]
    OBVIOUS
<1>3. Queue' = Queue \cup {new} /\ new.cmd = cmd /\ new.key = drawn + 1
    BY <1>2 DEF Joins
<1>4. \A o \in Queue : o.key < new.key
    BY <1>1, <1>3
<1>5. UNCHANGED <<history, receipts>>
    BY DEF server
<1>6. Write(cmd)
    BY DEF Writes
<1>7. ~HasReceipt(new.key)
    BY <1>1, <1>3 DEF HasReceipt
<1>8. ASSUME NEW o \in Queue', o.cmd.type = "edit", First(o)', ~HasReceipt(o.key)'
      PROVE  Fresh(o.cmd.block, o.cmd.version)
  <2>1. \A p \in Queue : ~Before(p, o)
      BY <1>3, <1>8 DEF First, Before
  <2>2. CASE o = new
    <3>1. ~TextWaits(cmd.block)
        BY <1>3, <1>4, <2>1, <2>2 DEF TextWaits, Before
    <3>2. local[cmd.block] # None /\ Base(cmd) = local[cmd.block]
        BY <1>3, <1>8, <2>2 DEF Writes
    <3>3. Base(cmd).version = cmd.version
        BY DEF Base
    <3>4. cmd.block \in Blocks
        BY DEF Command
    <3>5. QED
        BY <1>3, <2>2, <3>1, <3>2, <3>3, <3>4 DEF FreshInv
  <2>3. CASE o \in Queue
      BY <1>5, <1>8, <2>1, <2>3 DEF FreshInv, First, HasReceipt
  <2>4. QED
      BY <1>3, <2>2, <2>3
<1>9. ASSUME NEW o \in Queue', IsText(o.cmd), HasReceipt(o.key)'
      PROVE  Fresh(o.cmd.block, After(o.cmd).version)
  <2>1. HasReceipt(o.key)
      BY <1>5, <1>9 DEF HasReceipt
  <2>2. o \in Queue
      BY <1>3, <1>7, <2>1
  <2>3. QED
      BY <1>9, <2>1, <2>2 DEF FreshInv
<1>10. ASSUME NEW b \in Blocks, local'[b] # None, ~TextWaits(b)'
       PROVE  Fresh(b, local'[b].version)
  <2>1. ~TextWaits(b) /\ (cmd.block # b \/ ~IsText(cmd))
      BY <1>3, <1>10 DEF TextWaits
  <2>2. cmd.type \in {"create", "edit", "remove"}
      BY DEF Command
  <2>3. local'[b] = local[b]
      BY <1>6, <2>1, <2>2, Projected DEF IsText
  <2>4. QED
      BY <1>10, <2>1, <2>3 DEF FreshInv
<1>11. QED
    BY <1>5, <1>8, <1>9, <1>10 DEF FreshInv, AllOld, Fresh

LEMMA FreshAcknowledge ==
    ASSUME Shape, KeysInv, SameCommands, CallsInv, Chained, FreshInv,
           NEW c \in calls, Acknowledge(c), Leaves(c.key), UNCHANGED <<server, local, forgotten>>, AllOld
    PROVE  FreshInv'
<1>1. PICK done \in Queue : done.key = c.key /\ done.cmd = c.cmd /\ ~Waiting(done)
    BY CallQueued DEF Acknowledge
<1>2. Queue' = {o \in Queue : o.key # c.key} /\ \A q \in Queue : q.key = c.key => q = done
    BY <1>1, Queued DEF KeysInv, Leaves
<1>3. HasReceipt(done.key)
    BY <1>1 DEF Acknowledge, CallsInv, Received, HasReceipt
<1>4. IsText(done.cmd) => Fresh(done.cmd.block, After(done.cmd).version)
    BY <1>3 DEF FreshInv
<1>5. UNCHANGED <<history, receipts>>
    BY DEF server
<1>6. \A o \in Queue : o.key \in Nat /\ o.cmd.block \in Blocks
    BY Queued, BoundAssumption DEF Op, Keys, Command
<1>7. ASSUME NEW o \in Queue', o.cmd.type = "edit", First(o)', ~HasReceipt(o.key)'
      PROVE  Fresh(o.cmd.block, o.cmd.version)
  <2>1. o \in Queue /\ ~HasReceipt(o.key) /\ \A q \in Queue : Before(q, o) => q = done
      BY <1>2, <1>5, <1>7 DEF First, Before, HasReceipt
  <2>2. CASE First(o)
      BY <1>7, <2>1, <2>2 DEF FreshInv
  <2>3. CASE ~First(o) /\ o.cmd.block \notin forgotten
    <3>1. Before(done, o)
        BY <2>1, <2>3 DEF First
    <3>2. Follows(o, done)
        BY <1>6, <2>1, <3>1 DEF Follows
    <3>3. Base(o.cmd) = After(done.cmd)
        BY <1>7, <2>1, <2>3, <3>1, <3>2 DEF Chained, Before
    <3>4. Base(o.cmd).version = o.cmd.version
        BY DEF Base
    <3>5. QED
        BY <1>4, <3>1, <3>3, <3>4 DEF Before
  <2>4. CASE o.cmd.block \in forgotten
      BY <2>4 DEF Fresh
  <2>5. QED
      BY <2>2, <2>3, <2>4
<1>8. ASSUME NEW b \in Blocks, local[b] # None, ~TextWaits(b)'
      PROVE  Fresh(b, local[b].version)
  <2>1. CASE ~TextWaits(b)
      BY <1>8, <2>1 DEF FreshInv
  <2>2. CASE TextWaits(b) /\ b \notin forgotten
    <3>1. \A q \in Queue : IsText(q.cmd) /\ q.cmd.block = b => q = done
        BY <1>2, <1>8 DEF TextWaits
    <3>2. IsText(done.cmd) /\ done.cmd.block = b
        BY <2>2, <3>1 DEF TextWaits
    <3>3. Newest(done)
        BY <1>6, <3>1, <3>2 DEF Newest
    <3>4. local[b] = After(done.cmd)
        BY <2>2, <3>2, <3>3 DEF Chained
    <3>5. QED
        BY <1>4, <3>2, <3>4
  <2>3. CASE b \in forgotten
      BY <2>3 DEF Fresh
  <2>4. QED
      BY <2>1, <2>2, <2>3
<1>9. QED
    BY <1>2, <1>5, <1>7, <1>8 DEF FreshInv, AllOld, Fresh, HasReceipt

LEMMA FreshInstall ==
    ASSUME FreshInv, Rests, UNCHANGED server, Fewer, NEW r \in Asked, Installs(r)
    PROVE  FreshInv'
<1>1. Queue' = Queue /\ UNCHANGED <<history, receipts>>
    BY DEF Rests, server
<1>2. ASSUME NEW b \in Blocks, local'[b] # None, ~TextWaits(b)
      PROVE  Fresh(b, local'[b].version)
  <2>1. CASE local'[b] = local[b]
      BY <1>2, <2>1 DEF FreshInv
  <2>2. CASE local'[b] = r.brane[b]
      BY <1>2, <2>2 DEF FreshInv, Installs
  <2>3. QED
      BY <1>2, <2>1, <2>2 DEF Installs
<1>3. ASSUME NEW q \in Asked', q.current, q.brane # None, NEW b \in Blocks, q.brane[b] # None, ~TextWaits(b)
      PROVE  Fresh(b, q.brane[b].version)
  <2>1. PICK p \in Asked : q.brane = p.brane /\ p.current
      BY <1>3 DEF Fewer
  <2>2. QED
      BY <1>3, <2>1 DEF FreshInv
<1>4. \A b, v : Fresh(b, v) => (b \notin forgotten' => \A i \in 1..Len(history[b]) : i >= v + 2 => history[b][i].by = Others)
    BY DEF Installs, Fresh
<1>5. \A o \in Queue : o.cmd.type = "edit" /\ First(o) /\ ~HasReceipt(o.key) => Fresh(o.cmd.block, o.cmd.version)'
    BY <1>1, <1>4 DEF FreshInv, Fresh
<1>6. \A o \in Queue : IsText(o.cmd) /\ HasReceipt(o.key) => Fresh(o.cmd.block, After(o.cmd).version)'
    BY <1>1, <1>4 DEF FreshInv, Fresh
<1>7. \A b \in Blocks : local'[b] # None /\ ~TextWaits(b) => Fresh(b, local[b].version)'
    BY <1>1, <1>2, <1>4 DEF Fresh
<1>8. \A q \in Asked' : q.current /\ q.brane # None =>
          \A b \in Blocks : q.brane[b] # None /\ ~TextWaits(b) => Fresh(b, q.brane[b].version)'
    BY <1>1, <1>3, <1>4 DEF Fresh
<1>9. QED
    BY <1>1, <1>5, <1>6, <1>7, <1>8 DEF FreshInv, First, HasReceipt, TextWaits

LEMMA FreshApply ==
    ASSUME Shape, KeysInv, SameCommands, CallsInv, TextsInv, ReceivedInTurn, FreshInv,
           NEW c \in calls, Apply(c), Rests, UNCHANGED <<local, forgotten, reads>>
    PROVE  FreshInv'
<1>1. PICK done \in Queue : done.key = c.key /\ done.cmd = c.cmd /\ ~Waiting(done)
    BY CallQueued DEF Apply
<1>2. Queue' = Queue /\ Asked' = Asked /\ \A q \in Queue : q.key = c.key => q = done
    BY <1>1, Queued DEF KeysInv, Rests, Asked
<1>3. \A o \in Queue : HasReceipt(o.key)' <=> HasReceipt(o.key) \/ o = done
  <2>1. PICK new : new = [key |-> c.key, cmd |-> c.cmd]
      OBVIOUS
  <2>2. receipts' = receipts \cup {new} /\ new.key = c.key
      BY <2>1, Applied
  <2>3. \A k : HasReceipt(k)' <=> HasReceipt(k) \/ k = c.key
      BY <2>2 DEF HasReceipt
  <2>4. QED
      BY <1>1, <1>2, <2>3
<1>4. \A o \in Queue : o.cmd.block \in Blocks
    BY Queued DEF Op, Command
<1>5. CASE IsText(c.cmd)
  <2>1. First(done) /\ IsText(done.cmd)
      BY <1>1, <1>5, DoneFirst
  <2>2. ASSUME NEW o \in Queue, First(o) \/ HasReceipt(o.key), IsText(o.cmd), o.cmd.block = done.cmd.block
        PROVE  o = done
    <3>1. First(o)
        BY <2>2, DoneFirst DEF ReceivedInTurn
    <3>2. QED
        BY <2>1, <2>2, <3>1, OnlyFirst
  <2>3. \A b \in Blocks : b # done.cmd.block => history'[b] = history[b]
    <3>1. PICK w : w = [text |-> c.cmd.text, by |-> c.key]
        OBVIOUS
    <3>2. IF c.cmd.type = "create" \/ (c.cmd.type = "edit" /\ c.cmd.text # ServerText(c.cmd.block))
          THEN history' = [history EXCEPT ![c.cmd.block] = Append(@, w)]
          ELSE UNCHANGED history
        BY <3>1, Applied
    <3>3. history \in [Blocks -> Seq(Written)]
        BY DEF Shape
    <3>4. QED
        BY <1>1, <3>2, <3>3
  <2>4. Fresh(done.cmd.block, After(done.cmd).version)'
    <3>1. PICK cmd \in Command : cmd = done.cmd
        BY <1>1, Applied
    <3>2. PICK v \in Nat : v = After(cmd).version
        BY AfterShape DEF CachedText
    <3>3. Len(history'[cmd.block]) = v + 1
        BY <1>1, <1>5, <3>1, <3>2, AppliedText
    <3>4. Fresh(cmd.block, v)'
        BY <3>3, FreshNow DEF Fresh
    <3>5. QED
        BY <3>1, <3>2, <3>4
  <2>5. TextWaits(done.cmd.block)
      BY <2>1 DEF TextWaits
  <2>6. \A b \in Blocks : b # done.cmd.block => \A v : Fresh(b, v) => Fresh(b, v)'
      BY <2>3 DEF Fresh
  <2>7. ASSUME NEW o \in Queue, o.cmd.type = "edit", First(o), ~HasReceipt(o.key)'
        PROVE  Fresh(o.cmd.block, o.cmd.version)'
    <3>1. ~HasReceipt(o.key) /\ o.cmd.block # done.cmd.block
        BY <1>3, <2>2, <2>7 DEF IsText
    <3>2. Fresh(o.cmd.block, o.cmd.version)
        BY <2>7, <3>1 DEF FreshInv
    <3>3. QED
        BY <1>4, <2>6, <3>1, <3>2
  <2>8. ASSUME NEW o \in Queue, IsText(o.cmd), HasReceipt(o.key)'
        PROVE  Fresh(o.cmd.block, After(o.cmd).version)'
    <3>1. CASE o = done
        BY <2>4, <3>1
    <3>2. CASE o # done
      <4>1. HasReceipt(o.key) /\ o.cmd.block # done.cmd.block
          BY <1>3, <2>2, <2>8, <3>2
      <4>2. Fresh(o.cmd.block, After(o.cmd).version)
          BY <2>8, <4>1 DEF FreshInv
      <4>3. PICK v : v = After(o.cmd).version
          OBVIOUS
      <4>4. QED
          BY <1>4, <2>6, <4>1, <4>2, <4>3
    <3>3. QED
        BY <3>1, <3>2
  <2>9. ASSUME NEW b \in Blocks, ~TextWaits(b), NEW v, Fresh(b, v)
        PROVE  Fresh(b, v)'
      BY <2>5, <2>6, <2>9
  <2>10. \A b \in Blocks : local[b] # None /\ ~TextWaits(b) => Fresh(b, local[b].version)'
    <3>1. SUFFICES ASSUME NEW b \in Blocks, local[b] # None, ~TextWaits(b)
                   PROVE  Fresh(b, local[b].version)'
        OBVIOUS
    <3>2. PICK v : v = local[b].version
        OBVIOUS
    <3>3. Fresh(b, v)'
        BY <2>9, <3>1, <3>2 DEF FreshInv
    <3>4. QED
        BY <3>2, <3>3 DEF Fresh
  <2>11. \A r \in Asked : r.current /\ r.brane # None => \A b \in Blocks :
             r.brane[b] # None /\ ~TextWaits(b) => Fresh(b, r.brane[b].version)'
      BY <2>9 DEF FreshInv
  <2>12. QED
      BY <1>2, <2>7, <2>8, <2>10, <2>11 DEF FreshInv, First, TextWaits
<1>6. CASE ~IsText(c.cmd)
  <2>1. UNCHANGED history
      BY <1>6, Applied DEF IsText
  <2>2. \A o \in Queue : IsText(o.cmd) => (HasReceipt(o.key)' <=> HasReceipt(o.key))
      BY <1>1, <1>3, <1>6
  <2>3. QED
      BY <1>2, <2>1, <2>2 DEF FreshInv, First, TextWaits, Fresh, IsText
<1>7. QED
    BY <1>5, <1>6

LEMMA FreshRest ==
    ASSUME Shape, ServerCards1, FreshInv, [Next]_vars, Rests, UNCHANGED <<server, local, forgotten>>
    PROVE  FreshInv'
<1>1. Queue' = Queue /\ UNCHANGED <<history, receipts>>
    BY DEF Rests, server
<1>2. ASSUME NEW r \in Asked', r.current, r.brane # None, NEW b \in Blocks, r.brane[b] # None, ~TextWaits(b)
      PROVE  Fresh(b, r.brane[b].version)
  <2>1. CASE \E q \in Asked : r.brane = q.brane /\ q.current
      BY <1>2, <2>1 DEF FreshInv
  <2>2. CASE r.brane = ServerBrane
    <3>1. card[b] = "placed" /\ r.brane[b].version = Version(b)
        BY <1>2, <2>2 DEF ServerBrane
    <3>2. PICK h \in Seq(Written) : h = history[b]
        BY DEF Shape
    <3>3. h # <<>> /\ Len(h) \in Nat
        BY <3>1, <3>2, LenProperties DEF ServerCards1
    <3>4. Len(h) # 0
        BY <3>3, EmptySeq
    <3>5. PICK v \in Nat : v = Len(h) - 1
        BY <3>3, <3>4
    <3>6. Len(h) = v + 1 /\ v = r.brane[b].version
        BY <3>1, <3>2, <3>3, <3>5 DEF Version
    <3>7. QED
        BY <3>2, <3>6, FreshNow DEF Fresh
  <2>3. CASE r \in Asked
      BY <1>2, <2>1, <2>3
  <2>4. QED
      BY <1>2, <2>1, <2>2, <2>3, ReadsStep DEF Fewer
<1>3. QED
    BY <1>1, <1>2 DEF FreshInv, First, HasReceipt, TextWaits, Fresh

LEMMA FreshStep ==
    ASSUME Shape, KeysInv, SameCommands, CallsInv, TextsInv, ServerCards1,
           Chained, ReceivedInTurn, FreshInv, [Next]_vars
    PROVE  FreshInv'
<1>1. CASE \E b \in Blocks, t \in Texts : /\ EditElsewhere(b, t) /\ Rests
                                          /\ UNCHANGED <<receipts, local, forgotten, reads>>
  <2>1. PICK d \in Blocks, t \in Texts : EditElsewhere(d, t)
      BY <1>1
  <2>2. Queue' = Queue /\ Asked' = Asked /\ UNCHANGED <<receipts, local>>
      BY <1>1 DEF Rests, Asked
  <2>3. \A b \in Blocks : \A v : Fresh(b, v) => Fresh(b, v)'
      BY <2>1, FreshElsewhere
  <2>4. \A o \in Queue : o.cmd.block \in Blocks
      BY Queued DEF Op, Command
  <2>5. \A o \in Queue : o.cmd.type = "edit" /\ First(o) /\ ~HasReceipt(o.key) => Fresh(o.cmd.block, o.cmd.version)'
      BY <2>3, <2>4 DEF FreshInv
  <2>6. \A o \in Queue : IsText(o.cmd) /\ HasReceipt(o.key) => Fresh(o.cmd.block, After(o.cmd).version)'
    <3>1. SUFFICES ASSUME NEW o \in Queue, IsText(o.cmd), HasReceipt(o.key)
                   PROVE  Fresh(o.cmd.block, After(o.cmd).version)'
        OBVIOUS
    <3>2. PICK v : v = After(o.cmd).version
        OBVIOUS
    <3>3. QED
        BY <2>3, <2>4, <3>1, <3>2 DEF FreshInv
  <2>7. \A b \in Blocks : local[b] # None /\ ~TextWaits(b) => Fresh(b, local[b].version)'
    <3>1. SUFFICES ASSUME NEW b \in Blocks, local[b] # None, ~TextWaits(b)
                   PROVE  Fresh(b, local[b].version)'
        OBVIOUS
    <3>2. PICK v : v = local[b].version
        OBVIOUS
    <3>3. Fresh(b, v)'
        BY <2>3, <3>1, <3>2 DEF FreshInv
    <3>4. QED
        BY <2>2, <3>2, <3>3 DEF Fresh
  <2>8. \A r \in Asked : r.current /\ r.brane # None => \A b \in Blocks :
            r.brane[b] # None /\ ~TextWaits(b) => Fresh(b, r.brane[b].version)'
      BY <2>3 DEF FreshInv
  <2>9. QED
      BY <2>2, <2>5, <2>6, <2>7, <2>8 DEF FreshInv, First, HasReceipt, TextWaits
<1>2. CASE Rests /\ UNCHANGED <<history, receipts, local, forgotten, reads>>
    BY <1>2 DEF FreshInv, First, HasReceipt, TextWaits, Fresh, Rests, Asked
<1>3. QED
    BY <1>1, <1>2, Kinds, FreshWrite, FreshAcknowledge, FreshInstall, FreshApply, FreshRest

LEMMA ReceivedInTurnStep ==
    ASSUME Shape, KeysInv, SameCommands, CallsInv, ServerCards1, ReceivedInTurn, [Next]_vars
    PROVE  ReceivedInTurn'
<1>1. /\ \A o \in Queue : o.key \in Nat /\ o.key <= drawn
      /\ \A r \in receipts : r.key \in Nat /\ r.key <= drawn
      /\ drawn \in Nat
    BY Queued, BoundAssumption DEF Op, Keys, KeysInv, Shape
<1>2. CASE \E cmd \in Command : Joins(cmd) /\ UNCHANGED server
  <2>1. PICK cmd \in Command : Joins(cmd)
      BY <1>2
  <2>2. PICK new : new = [key |-> drawn + 1, cmd |-> cmd]
      OBVIOUS
  <2>3. Queue' = Queue \cup {new} /\ new.key = drawn + 1
      BY <2>1, <2>2 DEF Joins
  <2>4. UNCHANGED receipts
      BY <1>2 DEF server
  <2>5. \A o \in Queue : o.key < new.key
      BY <1>1, <2>3
  <2>6. ASSUME NEW o \in Queue', HasReceipt(o.key)
        PROVE  ~\E p \in Queue' : p.key < o.key /\ Conflicts(p.cmd, o.cmd)
    <3>1. o \in Queue
        BY <1>1, <2>3, <2>6 DEF HasReceipt
    <3>2. ~(new.key < o.key)
        BY <1>1, <2>3, <3>1
    <3>3. QED
        BY <2>3, <2>6, <3>1, <3>2 DEF ReceivedInTurn, Waiting
  <2>7. QED
      BY <2>4, <2>6 DEF ReceivedInTurn, Waiting, HasReceipt
<1>3. CASE \E c \in calls : Leaves(c.key) /\ UNCHANGED server
    BY <1>3 DEF Leaves, server, ReceivedInTurn, Waiting, HasReceipt
<1>4. CASE Rests /\ \E c \in calls : Apply(c)
  <2>1. PICK c \in calls : Apply(c)
      BY <1>4
  <2>2. PICK done \in Queue : done.key = c.key /\ ~Waiting(done)
      BY <2>1, CallQueued DEF Apply
  <2>3. \A q \in Queue : q.key = c.key => q = done
      BY <2>2, Queued DEF KeysInv
  <2>4. PICK new : new = [key |-> c.key, cmd |-> c.cmd]
      OBVIOUS
  <2>5. receipts' = receipts \cup {new} /\ new.key = c.key
      BY <2>1, <2>4, Applied
  <2>6. \A o \in Queue : HasReceipt(o.key)' => HasReceipt(o.key) \/ o = done
      BY <2>3, <2>5 DEF HasReceipt
  <2>7. QED
      BY <1>4, <2>2, <2>6 DEF Rests, ReceivedInTurn, Waiting
<1>5. CASE Rests /\ UNCHANGED receipts
    BY <1>5 DEF Rests, ReceivedInTurn, Waiting, HasReceipt
<1>6. QED
    BY <1>2, <1>3, <1>4, <1>5, Kinds DEF server

\* What is in the outbox of a card, and what the server still has to do with it.
LEMMA CardsWrite ==
    ASSUME Shape, KeysInv, ServerCards, OpsShown, Cards, CardsOnce,
           NEW cmd \in Command, Writes(cmd), Joins(cmd), UNCHANGED server
    PROVE  CardsOnce'
<1>1. PICK new : new = [key |-> drawn + 1, cmd |-> cmd]
    OBVIOUS
<1>2. Queue' = Queue \cup {new} /\ new.cmd = cmd
    BY <1>1 DEF Joins
<1>3. UNCHANGED <<history, card, remover, receipts>>
    BY DEF server
<1>4. Write(cmd) /\ cmd.block \in Blocks /\ cmd.type \in {"create", "edit", "remove"}
    BY DEF Writes, Command
<1>5. \A b \in Blocks : b # cmd.block => shown'[b] = shown[b]
    BY <1>4, Projected
<1>6. cmd.type = "create" => history[cmd.block] = <<>>
    BY DEF Writes, Unused
<1>7. cmd.type = "remove" => shown[cmd.block] /\ \A o \in Queue : o.cmd.type = "remove" => o.cmd.block # cmd.block
    BY DEF Writes, OpsShown
<1>8. cmd.type = "remove" => remover[cmd.block] \notin Keys
  <2>1. SUFFICES ASSUME cmd.type = "remove", remover[cmd.block] \in Keys
                 PROVE  FALSE
      OBVIOUS
  <2>2. CardWaits(cmd.block)
      BY <1>4, <1>7, <2>1 DEF Cards
  <2>3. PICK o \in Queue : IsCard(o.cmd) /\ o.cmd.block = cmd.block
      BY <2>2 DEF CardWaits
  <2>4. QED
      BY <1>7, <2>1, <2>3 DEF IsCard, ServerCards
<1>9. ASSUME NEW b \in Blocks, card[b] = "never", shown'[b] \/ \E o \in Queue' : o.cmd.type = "remove" /\ o.cmd.block = b
      PROVE  \E p \in Queue' : p.cmd.type = "create" /\ p.cmd.block = b
  <2>1. CASE cmd.type = "create" /\ cmd.block = b
      BY <1>2, <2>1
  <2>2. CASE shown[b] \/ \E o \in Queue : o.cmd.type = "remove" /\ o.cmd.block = b
      BY <1>2, <1>9, <2>2 DEF CardsOnce
  <2>3. cmd.type = "edit" => shown'[b] = shown[b]
      BY <1>4, Projected
  <2>4. QED
      BY <1>2, <1>4, <1>5, <1>7, <1>9, <2>1, <2>2, <2>3
<1>10. \A o \in Queue' : o.cmd.type = "create" /\ ~HasReceipt(o.key) => history[o.cmd.block] = <<>>
    BY <1>2, <1>6 DEF CardsOnce
<1>11. \A o, p \in Queue' : o.cmd.type = "remove" /\ p.cmd.type = "remove" /\ o.cmd.block = p.cmd.block => o = p
    BY <1>2, <1>7 DEF CardsOnce
<1>12. \A o \in Queue' : o.cmd.type = "remove" /\ ~HasReceipt(o.key) => remover[o.cmd.block] \notin Keys
    BY <1>2, <1>8 DEF CardsOnce
<1>13. QED
    BY <1>3, <1>9, <1>10, <1>11, <1>12 DEF CardsOnce, HasReceipt

LEMMA CardsAcknowledge ==
    ASSUME Shape, KeysInv, SameCommands, CallsInv, CardsOnce,
           NEW c \in calls, Acknowledge(c), Leaves(c.key), UNCHANGED <<server, shown>>
    PROVE  CardsOnce'
<1>1. Queue' = {o \in Queue : o.key # c.key} /\ UNCHANGED <<history, card, remover, receipts, shown>>
    BY DEF Leaves, server
<1>2. ASSUME NEW b \in Blocks, card[b] = "never", shown[b] \/ \E o \in Queue' : o.cmd.type = "remove" /\ o.cmd.block = b
      PROVE  \E p \in Queue' : p.cmd.type = "create" /\ p.cmd.block = b
  <2>1. PICK p \in Queue : p.cmd.type = "create" /\ p.cmd.block = b
      BY <1>1, <1>2 DEF CardsOnce
  <2>2. p.key # c.key
    <3>1. SUFFICES ASSUME p.key = c.key
                   PROVE  FALSE
        OBVIOUS
    <3>2. PICK r \in receipts : r.key = p.key
        BY <3>1 DEF Acknowledge, CallsInv, Received
    <3>3. r = p
        BY <3>2 DEF SameCommands
    <3>4. QED
        BY <1>2, <2>1, <3>3 DEF CardsOnce
  <2>3. QED
      BY <1>1, <2>1, <2>2
<1>3. QED
    BY <1>1, <1>2 DEF CardsOnce, HasReceipt

LEMMA CardsInstall ==
    ASSUME Shape, TextsInv, CardsOnce, Rests, UNCHANGED server, NEW r \in Asked, Installs(r)
    PROVE  CardsOnce'
<1>1. Queue' = Queue /\ UNCHANGED <<history, card, remover, receipts>>
    BY DEF Rests, server
<1>2. ASSUME NEW b \in Blocks, card[b] = "never", shown'[b]
      PROVE  \E p \in Queue : p.cmd.type = "create" /\ p.cmd.block = b
  <2>1. CASE CardWaits(b)
      BY <1>2, <2>1 DEF Installs, CardsOnce
  <2>2. CASE ~CardWaits(b)
    <3>1. r.brane # None /\ r.brane \in Brane /\ r.brane[b] # None
        BY <1>2, <2>2 DEF Installs
    <3>2. PICK cached \in CachedText : cached = r.brane[b]
        BY <3>1 DEF Brane
    <3>3. Truth(b, cached)
        BY <3>1, <3>2 DEF TextsInv
    <3>4. history[b] # <<>>
        BY <3>3 DEF Truth, CachedText
    <3>5. QED
        BY <1>2, <3>4 DEF CardsOnce
  <2>3. QED
      BY <2>1, <2>2
<1>3. \A b \in Blocks : card[b] = "never" /\ (shown'[b] \/ \E o \in Queue : o.cmd.type = "remove" /\ o.cmd.block = b)
          => \E p \in Queue : p.cmd.type = "create" /\ p.cmd.block = b
    BY <1>2 DEF CardsOnce
<1>4. QED
    BY <1>1, <1>3 DEF CardsOnce, HasReceipt

\* An operation is received in its turn, and makes its card what it says.
LEMMA CardsApply ==
    ASSUME Shape, KeysInv, SameCommands, CallsInv, CreatedFirst, CardsOnce,
           NEW c \in calls, Apply(c), Rests, UNCHANGED shown
    PROVE  CardsOnce'
<1>1. PICK done \in Queue : done.key = c.key /\ done.cmd = c.cmd /\ ~Waiting(done)
    BY CallQueued DEF Apply
<1>2. Queue' = Queue /\ \A o, p \in Queue : o.key = p.key => o = p
    BY Queued DEF KeysInv, Rests
<1>3. \A o \in Queue : o.cmd.block \in Blocks /\ o.key \in Nat
    BY Queued, BoundAssumption DEF Op, Command, Keys
<1>4. PICK d \in Blocks, kind \in {"create", "edit", "remove"} : d = done.cmd.block /\ kind = done.cmd.type
    BY <1>1, <1>3, Applied
<1>5. PICK new : new = [key |-> c.key, cmd |-> c.cmd]
    OBVIOUS
<1>6. receipts' = receipts \cup {new} /\ new.key = done.key /\ new.cmd = done.cmd
    BY <1>1, <1>5, Applied
<1>7. \A o \in Queue : ~HasReceipt(o.key)' => ~HasReceipt(o.key) /\ o # done
    BY <1>6 DEF HasReceipt
<1>8. /\ card \in [Blocks -> {"never", "placed", "removed"}]
      /\ remover \in [Blocks -> Keys \cup {Others, None}]
      /\ history \in [Blocks -> Seq(Written)]
    BY DEF Shape
<1>9. /\ kind = "create" => history[d] = <<>> /\ card' = [card EXCEPT ![d] = "placed"] /\ UNCHANGED remover
      /\ kind = "edit" => history[d] # <<>> /\ UNCHANGED <<card, remover>>
      /\ kind = "remove" => /\ card[d] = "placed" /\ card' = [card EXCEPT ![d] = "removed"]
                            /\ remover' = [remover EXCEPT ![d] = done.key]
      /\ \A b \in Blocks : b # d \/ kind = "remove" => history'[b] = history[b]
  <2>1. /\ kind = "create" => history[d] = <<>> /\ card' = [card EXCEPT ![d] = "placed"] /\ UNCHANGED remover
        /\ kind = "edit" => history[d] # <<>> /\ UNCHANGED <<card, remover>>
      BY <1>1, <1>4, Applied
  <2>2. kind = "remove" => /\ card[d] = "placed" /\ card' = [card EXCEPT ![d] = "removed"]
                           /\ remover' = [remover EXCEPT ![d] = done.key]
      BY <1>1, <1>4, Applied
  <2>3. PICK w : w = [text |-> c.cmd.text, by |-> c.key]
      OBVIOUS
  <2>4. UNCHANGED history \/ (kind # "remove" /\ history' = [history EXCEPT ![d] = Append(@, w)])
    <3>1. IF kind = "create" \/ (kind = "edit" /\ c.cmd.text # ServerText(d))
          THEN history' = [history EXCEPT ![d] = Append(@, w)]
          ELSE UNCHANGED history
        BY <1>1, <1>4, <2>3, Applied
    <3>2. QED
        BY <3>1
  <2>5. \A x \in Blocks : x # d \/ kind = "remove" => history'[x] = history[x]
      BY <1>8, <2>4
  <2>6. QED
      BY <2>1, <2>2, <2>5
<1>10. ASSUME NEW o \in Queue, o.cmd.type = "create", ~HasReceipt(o.key)'
       PROVE  history'[o.cmd.block] = <<>>
  <2>1. history[o.cmd.block] = <<>> /\ o # done
      BY <1>7, <1>10 DEF CardsOnce
  <2>2. CASE o.cmd.block = d
    <3>1. ~(done.key < o.key)
        BY <1>4, <1>10, <2>2 DEF CreatedFirst
    <3>2. o.key < done.key
        BY <1>2, <1>3, <2>1, <3>1
    <3>3. Conflicts(o.cmd, done.cmd)
        BY <1>4, <1>10, <2>2 DEF Conflicts
    <3>4. QED
        BY <1>1, <3>2, <3>3 DEF Waiting
  <2>3. CASE o.cmd.block # d
      BY <1>3, <1>8, <1>9, <2>1, <2>3
  <2>4. QED
      BY <2>2, <2>3
<1>11. ASSUME NEW o \in Queue, o.cmd.type = "remove", ~HasReceipt(o.key)'
       PROVE  remover'[o.cmd.block] \notin Keys
  <2>1. remover[o.cmd.block] \notin Keys /\ o # done
      BY <1>7, <1>11 DEF CardsOnce
  <2>2. kind = "remove" => o.cmd.block # d
      BY <1>4, <1>11, <2>1 DEF CardsOnce
  <2>3. QED
      BY <1>3, <1>4, <1>8, <1>9, <2>1, <2>2
<1>12. ASSUME NEW b \in Blocks
       PROVE  /\ card'[b] = "never" => card[b] = "never"
              /\ history'[b] # <<>> => card'[b] # "never"
              /\ card'[b] = "removed" => remover'[b] # None
  <2>1. CASE b # d
      BY <1>4, <1>8, <1>9, <2>1 DEF CardsOnce
  <2>2. CASE b = d
    <3>1. CASE kind = "create"
        BY <1>8, <1>9, <2>2, <3>1
    <3>2. CASE kind = "edit"
        BY <1>9, <2>2, <3>2 DEF CardsOnce
    <3>3. CASE kind = "remove"
      <4>1. done.key # None
          BY Queued, NoneApart DEF Op
      <4>2. QED
          BY <1>8, <1>9, <2>2, <3>3, <4>1
    <3>4. QED
        BY <3>1, <3>2, <3>3
  <2>3. QED
      BY <2>1, <2>2
<1>13. \A r \in receipts' : r.cmd.type = "create" => card'[r.cmd.block] # "never"
  <2>1. SUFFICES ASSUME NEW r \in receipts', r.cmd.type = "create"
                 PROVE  card'[r.cmd.block] # "never"
      OBVIOUS
  <2>2. CASE r \in receipts
    <3>1. r.cmd.block \in Blocks
        BY <2>2 DEF Shape, Op, Command
    <3>2. QED
        BY <1>12, <2>1, <2>2, <3>1 DEF CardsOnce
  <2>3. CASE r = new
      BY <1>4, <1>6, <1>8, <1>9, <2>1, <2>3
  <2>4. QED
      BY <1>6, <2>2, <2>3
<1>14. QED
    BY <1>2, <1>10, <1>11, <1>12, <1>13 DEF CardsOnce

LEMMA CardsOnceStep ==
    ASSUME Shape, KeysInv, SameCommands, CallsInv, CreatedFirst, TextsInv, CardsInv, CardsOnce, [Next]_vars
    PROVE  CardsOnce'
<1>1. ServerCards /\ OpsShown /\ Cards /\ ServerCards1
    BY DEF CardsInv, ServerCards, ServerCards1
<1>2. /\ card \in [Blocks -> {"never", "placed", "removed"}]
      /\ remover \in [Blocks -> Keys \cup {Others, None}]
      /\ history \in [Blocks -> Seq(Written)]
      /\ \A o \in Queue : o.cmd.block \in Blocks
    BY Queued DEF Shape, Op, Command
<1>3. CASE Rests /\ UNCHANGED <<card, remover, receipts, shown>> /\ \E b \in Blocks, t \in Texts : EditElsewhere(b, t)
  <2>1. PICK d \in Blocks, t \in Texts : EditElsewhere(d, t)
      BY <1>3
  <2>2. history[d] # <<>> /\ \E w : history' = [history EXCEPT ![d] = Append(@, w)]
      BY <2>1 DEF EditElsewhere
  <2>3. \A b \in Blocks : /\ history[b] = <<>> => history'[b] = <<>>
                          /\ history'[b] # <<>> => history[b] # <<>>
      BY <1>2, <2>2
  <2>4. QED
      BY <1>2, <1>3, <2>3 DEF CardsOnce, HasReceipt, Rests
<1>4. CASE Rests /\ UNCHANGED <<history, receipts, shown>> /\ \E b \in Blocks : RemoveElsewhere(b)
  <2>1. PICK d \in Blocks : RemoveElsewhere(d)
      BY <1>4
  <2>2. card[d] = "placed" /\ card' = [card EXCEPT ![d] = "removed"] /\ remover' = [remover EXCEPT ![d] = Others]
      BY <2>1 DEF RemoveElsewhere
  <2>3. Others \notin Keys /\ Others # None
      BY BoundAssumption, NoneApart DEF Others, Keys
  <2>4. \A b \in Blocks : /\ remover[b] \notin Keys => remover'[b] \notin Keys
                          /\ card'[b] = "never" => card[b] = "never"
                          /\ card[b] # "never" => card'[b] # "never"
                          /\ card'[b] = "removed" => (card[b] = "removed" /\ remover'[b] = remover[b]) \/ remover'[b] = Others
      BY <1>2, <2>2, <2>3
  <2>5. \A r \in receipts : r.cmd.block \in Blocks
      BY DEF Shape, Op, Command
  <2>6. QED
      BY <1>2, <1>4, <2>3, <2>4, <2>5 DEF CardsOnce, HasReceipt, Rests
<1>5. CASE Rests /\ UNCHANGED <<server, shown>>
    BY <1>5 DEF CardsOnce, HasReceipt, Rests, server
<1>6. QED
    BY <1>1, <1>3, <1>4, <1>5, Kinds, CardsWrite, CardsAcknowledge, CardsInstall, CardsApply

\* A refusal that is fair stays so: versions and authors stay, and so does who removed a card.
LEMMA FairStays ==
    ASSUME Shape, ServerCards, [Next]_vars, NEW cmd \in Command, NEW failure, Fair(cmd, failure)
    PROVE  Fair(cmd, failure)'
<1>1. PICK b \in Blocks, v \in Nat : b = cmd.block /\ v = cmd.version
    BY DEF Command
<1>2. CASE cmd.type = "edit" /\ failure = "conflict" /\ Version(b) > v /\ history[b][v + 2].by = Others
  <2>1. Grows /\ Len(history[b]) \in Nat /\ Len(history'[b]) \in Nat
      BY HistoryStep, LenProperties DEF Shape
  <2>2. PICK n \in Nat, m \in Nat : n = Len(history[b]) /\ m = Len(history'[b]) /\ n <= m
      BY <2>1 DEF Grows
  <2>3. n - 1 > v
      BY <1>2, <2>2 DEF Version
  <2>4. v + 2 \in 1..n /\ m - 1 > v
      BY <2>2, <2>3
  <2>5. history'[b][v + 2] = history[b][v + 2]
      BY <2>1, <2>2, <2>4 DEF Grows
  <2>6. QED
      BY <1>1, <1>2, <2>2, <2>4, <2>5 DEF Fair, Version
<1>3. CASE cmd.type = "remove" /\ failure = "missing" /\ remover[b] = Others
  <2>1. card[b] = "removed"
      BY <1>3, NoneApart DEF ServerCards
  <2>2. remover'[b] = Others
    <3>1. remover \in [Blocks -> Keys \cup {Others, None}]
        BY DEF Shape
    <3>2. CASE UNCHANGED remover
        BY <1>3, <3>2
    <3>3. CASE \E c \in calls : Apply(c)
      <4>1. PICK c \in calls : Apply(c)
          BY <3>3
      <4>2. UNCHANGED remover \/ (card[c.cmd.block] = "placed" /\ remover' = [remover EXCEPT ![c.cmd.block] = c.key])
          BY <4>1, Applied
      <4>3. QED
          BY <1>3, <2>1, <3>1, <4>2
    <3>4. CASE \E d \in Blocks : RemoveElsewhere(d)
        BY <1>3, <3>1, <3>4 DEF RemoveElsewhere
    <3>5. CASE Person \/ Reading \/ Sending \/ Settling \/ Failing \/ UNCHANGED vars
               \/ (\E d \in Blocks : \E t \in Texts : EditElsewhere(d, t)) \/ \E c \in calls : Repeat(c) \/ Refuse(c)
        BY <3>2, <3>5 DEF Person, CreateCard, TakeOff, EditText, Write, EditElsewhere, Reading, StartRead, AnswerRead,
           FinishRead, Sending, Dispatch, Settling, Acknowledge, Pause, Failing, GiveUp, Repeat, Refuse, server, vars
    <3>6. QED
        BY <3>3, <3>4, <3>5 DEF Next, Elsewhere, Serving, Serve
  <2>3. QED
      BY <1>1, <1>3, <2>2 DEF Fair
<1>4. CASE cmd.type = "edit" /\ failure = "conflict" /\ b \in forgotten
    BY <1>1, <1>4, ForgottenStep DEF Fair
<1>5. QED
    BY <1>1, <1>2, <1>3, <1>4 DEF Fair

\* The server refuses an operation only for what another device did.
LEMMA FairlyRefused ==
    ASSUME Shape, KeysInv, SameCommands, CallsInv, CreatedFirst, TextsInv, ServerCards1, FreshInv, CardsOnce,
           NEW c \in calls, ~Received(c), NEW a \in Answers(c.cmd), a \notin {"applied", "limit"}
    PROVE  Fair(c.cmd, a)
<1>1. PICK o \in Queue : o.key = c.key /\ o.cmd = c.cmd /\ ~Waiting(o)
    BY CallQueued
<1>2. PICK cmd \in Command : cmd = c.cmd /\ cmd = o.cmd
    BY <1>1, Queued DEF Op
<1>3. PICK b \in Blocks, v \in Nat : b = cmd.block /\ v = cmd.version
    BY DEF Command
<1>4. ~HasReceipt(o.key)
    BY <1>1 DEF Received, HasReceipt
<1>5. cmd.type \in {"create", "edit", "remove"}
    BY DEF Command
<1>6. \A p \in Queue : p.key \in Nat
    BY Queued, BoundAssumption DEF Op, Keys
<1>7. CASE cmd.type = "create"
  <2>1. history[b] = <<>>
      BY <1>2, <1>3, <1>4, <1>7 DEF CardsOnce
  <2>2. a \in Room \cup {"applied"}
      BY <1>2, <1>3, <1>7, <2>1 DEF Answers
  <2>3. QED
      BY <2>2 DEF Room
<1>8. CASE cmd.type = "edit"
  <2>1. First(o)
      BY <1>1, <1>2, <1>8, DoneFirst DEF IsText
  <2>2. Truth(b, Base(cmd))
    <3>1. Expected(b, Base(cmd), o.key)
        BY <1>2, <1>3, <1>8 DEF TextsInv
    <3>2. ~\E p \in Queue : p.key < o.key /\ p.cmd.block = b /\ IsText(p.cmd)
        BY <1>2, <1>3, <2>1 DEF First, Before
    <3>3. QED
        BY <3>1, <3>2 DEF Expected
  <2>3. PICK n \in Nat : n = Len(history[b])
      BY LenProperties DEF Shape
  <2>4. v + 1 <= n
      BY <1>3, <2>2, <2>3 DEF Truth, Base
  <2>5. history[b] # <<>>
      BY <2>3, <2>4
  <2>6. a = "conflict" /\ Version(b) # v
      BY <1>2, <1>3, <1>8, <2>5 DEF Answers, Room
  <2>7. n - 1 # v /\ n - 1 > v /\ v + 2 \in 1..n
      BY <2>3, <2>4, <2>6 DEF Version
  <2>8. Fresh(b, v)
      BY <1>2, <1>3, <1>4, <1>8, <2>1 DEF FreshInv
  <2>9. b \in forgotten \/ history[b][v + 2].by = Others
      BY <2>3, <2>7, <2>8 DEF Fresh
  <2>10. QED
      BY <1>2, <1>3, <1>8, <2>3, <2>6, <2>7, <2>9 DEF Fair, Version
<1>9. CASE cmd.type = "remove"
  <2>1. a = "missing" /\ card[b] # "placed"
      BY <1>2, <1>3, <1>9 DEF Answers, Room
  <2>2. card[b] # "never"
    <3>1. SUFFICES ASSUME card[b] = "never"
                   PROVE  FALSE
        OBVIOUS
    <3>2. PICK p \in Queue : p.cmd.type = "create" /\ p.cmd.block = b
        BY <1>2, <1>3, <1>9, <3>1 DEF CardsOnce
    <3>3. ~(o.key < p.key)
        BY <1>2, <1>3, <3>2 DEF CreatedFirst
    <3>4. o.key # p.key
        BY <1>2, <1>9, <3>2, Queued DEF KeysInv
    <3>5. p.key < o.key
        BY <1>6, <3>3, <3>4
    <3>6. Conflicts(p.cmd, o.cmd)
        BY <1>2, <1>3, <3>2 DEF Conflicts
    <3>7. QED
        BY <1>1, <3>5, <3>6 DEF Waiting
  <2>3. card[b] = "removed"
      BY <2>1, <2>2 DEF Shape
  <2>4. remover[b] # None /\ remover[b] \notin Keys
      BY <1>2, <1>3, <1>4, <1>9, <2>3 DEF CardsOnce
  <2>5. remover[b] = Others
      BY <2>4 DEF Shape
  <2>6. QED
      BY <1>2, <1>3, <1>9, <2>1, <2>5 DEF Fair
<1>10. QED
    BY <1>5, <1>7, <1>8, <1>9

LEMMA FairAnswersStep ==
    ASSUME Shape, KeysInv, SameCommands, CallsInv, CreatedFirst, TextsInv, ServerCards,
           FreshInv, CardsOnce, FairAnswers, [Next]_vars
    PROVE  FairAnswers'
<1>1. ServerCards1
    BY DEF ServerCards, ServerCards1
<1>2. SUFFICES ASSUME NEW c \in calls', c.answer \in Refusals \ {"limit"}
               PROVE  Fair(c.cmd, c.answer)'
    BY DEF FairAnswers
<1>3. c.cmd \in Command
    BY CallsMove DEF CallsInv, Called
<1>4. CASE c \in calls
  <2>1. Fair(c.cmd, c.answer)
      BY <1>2, <1>4 DEF FairAnswers
  <2>2. QED
      BY <1>3, <2>1, FairStays
<1>5. CASE \E d \in calls : \E a : Answer(d, a) /\ ~Received(d) /\ a \in Answers(d.cmd) \cup {"applied"} /\ c \notin calls
  <2>1. PICK d, a : d \in calls /\ Answer(d, a) /\ ~Received(d) /\ a \in Answers(d.cmd) \cup {"applied"}
      BY <1>5
  <2>2. c = [d EXCEPT !.answer = a]
      BY <1>5, <2>1 DEF Answer
  <2>3. c.answer = a /\ c.cmd = d.cmd
      BY <2>1, <2>2 DEF Shape
  <2>4. a \in Answers(d.cmd) /\ a \notin {"applied", "limit"}
      BY <1>2, <2>1, <2>3 DEF Refusals
  <2>5. Fair(c.cmd, c.answer)
      BY <1>1, <2>1, <2>3, <2>4, FairlyRefused
  <2>6. QED
      BY <1>3, <2>5, FairStays
<1>6. CASE \E d \in calls : Repeat(d) /\ c \notin calls
  <2>1. PICK d \in calls : Repeat(d)
      BY <1>6
  <2>2. PICK r \in receipts : r.key = d.key
      BY <2>1 DEF Repeat, Received
  <2>3. r.cmd = d.cmd /\ r \in Op
      BY <2>2 DEF SameCommands, Shape
  <2>4. r = [key |-> d.key, cmd |-> d.cmd]
      BY <2>2, <2>3 DEF Op
  <2>5. Answer(d, "applied")
      BY <2>1, <2>2, <2>4 DEF Repeat
  <2>6. c = [d EXCEPT !.answer = "applied"]
      BY <1>6, <2>5 DEF Answer
  <2>7. c.answer = "applied"
      BY <2>6 DEF Shape
  <2>8. QED
      BY <1>2, <2>7 DEF Refusals
<1>7. CASE c \notin calls /\ \E d \in calls : GiveUp(d)
  <2>1. PICK d \in calls : GiveUp(d)
      BY <1>7
  <2>2. c = [d EXCEPT !.live = FALSE] /\ d.answer = None
      BY <1>7, <2>1 DEF GiveUp
  <2>3. c.answer = None
      BY <2>1, <2>2 DEF Shape
  <2>4. QED
      BY <1>2, <2>3, NoneApart
<1>8. CASE c \notin calls /\ Sending
  <2>1. c.answer = None
      BY <1>8 DEF Sending, Dispatch
  <2>2. QED
      BY <1>2, <2>1, NoneApart
<1>9. CASE Person \/ Elsewhere \/ Reading \/ Settling \/ UNCHANGED vars
    BY <1>4, <1>9 DEF Person, CreateCard, TakeOff, EditText, Write, Elsewhere, EditElsewhere, RemoveElsewhere,
       Reading, StartRead, AnswerRead, FinishRead, Settling, Acknowledge, Pause, network, vars
<1>10. CASE Serving
  <2>1. PICK d \in calls : Apply(d) \/ Repeat(d) \/ Refuse(d)
      BY <1>10 DEF Serving, Serve
  <2>2. QED
      BY <1>4, <1>5, <1>6, <2>1 DEF Apply, Refuse
<1>11. QED
    BY <1>4, <1>7, <1>8, <1>9, <1>10 DEF Next, Failing

\* A failure in the outbox is an answer to its own operation.
LEMMA FairRefusalStep ==
    ASSUME Shape, KeysInv, SameCommands, ServerCards, FairAnswers, FairRefusal, [Next]_vars
    PROVE  FairRefusal'
<1>1. pending \in Seq(Pended) /\ \A i \in 1..Len(pending) : pending[i] \in Pended
    BY ElementOfSeq DEF Shape, Pended
<1>2. Len(pending) \in Nat /\ drawn \in Nat
    BY <1>1, LenProperties, BoundAssumption DEF Shape
<1>3. ASSUME NEW op \in Pended, op.failure \in Refusals \ {"limit"},
             \/ \E j \in 1..Len(pending) : op = pending[j]
             \/ \E c \in calls : op.cmd = c.cmd /\ op.failure = c.answer
      PROVE  Fair(op.cmd, op.failure)'
  <2>1. Fair(op.cmd, op.failure)
      BY <1>3 DEF FairRefusal, FairAnswers, Fair
  <2>2. op.cmd \in Command
      BY DEF Pended
  <2>3. QED
      BY <2>1, <2>2, FairStays
<1>4. ASSUME NEW i \in 1..Len(pending')
      PROVE  /\ pending'[i] \in Pended
             /\ \/ pending'[i].failure = None
                \/ \E j \in 1..Len(pending) : pending'[i] = pending[j]
                \/ \E c \in calls : pending'[i].cmd = c.cmd /\ pending'[i].failure = c.answer
  <2>1. pending'[i] \in Pended
    <3>1. pending' \in Seq(Pended)
        BY QueueStep DEF KeysInv
    <3>2. QED
        BY <3>1, ElementOfSeq
  <2>2. CASE UNCHANGED pending
      BY <2>1, <2>2
  <2>3. CASE Person
    <3>1. PICK cmd \in Command : Write(cmd)
        BY <2>3, PersonWrites DEF Writes
    <3>2. PICK op : op = Operation(drawn + 1, cmd)
        OBVIOUS
    <3>3. pending' = Append(pending, op) /\ op.failure = None
        BY <3>1, <3>2 DEF Write, Operation
    <3>4. drawn + 1 \in Keys
        BY <1>2, <3>1, BoundAssumption DEF Write, Shape, Keys
    <3>5. op \in Pended
        BY <3>2, <3>4 DEF Operation, Pended
    <3>6. /\ Len(Append(pending, op)) = Len(pending) + 1 /\ Append(pending, op)[Len(pending) + 1] = op
          /\ \A j \in 1..Len(pending) : Append(pending, op)[j] = pending[j]
        BY <1>1, <3>5, SeqAppend
    <3>7. i \in 1..Len(pending) \/ i = Len(pending) + 1
        BY <1>2, <3>3, <3>6
    <3>8. QED
        BY <2>1, <3>3, <3>6, <3>7
  <2>4. CASE \E c \in calls : Acknowledge(c)
    <3>1. PICK c \in calls : Acknowledge(c)
        BY <2>4
    <3>2. pending' = Without(pending, c.key)
        BY <3>1 DEF Acknowledge
    <3>3. CASE pending' = pending
        BY <2>1, <3>3
    <3>4. CASE \E d \in 1..Len(pending) : pending' = RemoveAt(pending, d)
      <4>1. PICK d \in 1..Len(pending) : pending' = RemoveAt(pending, d)
          BY <3>4
      <4>2. /\ Len(RemoveAt(pending, d)) = Len(pending) - 1
            /\ \A j \in 1..(Len(pending) - 1) : RemoveAt(pending, d)[j] = IF j < d THEN pending[j] ELSE pending[j + 1]
          BY <1>1, SeqRemove
      <4>3. i \in 1..(Len(pending) - 1) /\ i \in 1..Len(pending) /\ i + 1 \in 1..Len(pending)
          BY <1>2, <4>1, <4>2
      <4>4. QED
          BY <2>1, <4>1, <4>2, <4>3
    <3>5. QED
        BY <3>2, <3>3, <3>4 DEF Without
  <2>5. CASE \E c \in calls : Pause(c)
    <3>1. PICK c \in calls : Pause(c)
        BY <2>5
    <3>2. PICK ops : ops = [j \in 1..Len(pending) |->
                               IF pending[j].key = c.key THEN [pending[j] EXCEPT !.failure = c.answer] ELSE pending[j]]
        OBVIOUS
    <3>3. pending' = ops
        BY <3>1, <3>2 DEF Pause
    <3>4. Len(ops) = Len(pending)
        BY <1>1, <1>2, <3>2, <3>3, QueueStep, SeqDef DEF KeysInv
    <3>5. i \in 1..Len(pending)
        BY <3>3, <3>4
    <3>6. CASE pending[i].key # c.key
        BY <2>1, <3>2, <3>3, <3>5, <3>6
    <3>7. CASE pending[i].key = c.key
      <4>1. pending'[i] = [pending[i] EXCEPT !.failure = c.answer]
          BY <3>2, <3>3, <3>5, <3>7
      <4>2. pending'[i].cmd = pending[i].cmd /\ pending'[i].failure = c.answer
          BY <1>1, <3>5, <4>1 DEF Pended
      <4>3. PICK o : o = [key |-> pending[i].key, cmd |-> pending[i].cmd]
          OBVIOUS
      <4>4. o \in Queue /\ o.key = c.key /\ o.cmd = pending[i].cmd
          BY <3>5, <3>7, <4>3 DEF Queue
      <4>5. c.cmd = pending[i].cmd
          BY <4>4 DEF SameCommands
      <4>6. QED
          BY <2>1, <4>2, <4>5
    <3>8. QED
        BY <3>6, <3>7
  <2>6. CASE Elsewhere \/ Reading \/ Sending \/ Serving \/ Failing \/ UNCHANGED vars
      BY <2>2, <2>6 DEF Elsewhere, EditElsewhere, RemoveElsewhere, Reading, StartRead, AnswerRead, FinishRead,
         Sending, Dispatch, Serving, Serve, Apply, Repeat, Refuse, Failing, GiveUp, replica, vars
  <2>7. QED
      BY <2>3, <2>4, <2>5, <2>6 DEF Next, Settling
<1>5. ASSUME NEW i \in 1..Len(pending'), pending'[i].failure \in Refusals \ {"limit"}
      PROVE  Fair(pending[i].cmd, pending[i].failure)'
  <2>1. PICK op \in Pended : op = pending'[i]
      BY <1>4
  <2>2. op.failure # None
      BY <1>5, <2>1, NoneApart
  <2>3. Fair(op.cmd, op.failure)'
      BY <1>3, <1>4, <1>5, <2>1, <2>2
  <2>4. QED
      BY <2>1, <2>3 DEF Fair
<1>6. QED
    BY <1>5 DEF FairRefusal, Fair

FairInv == Chained /\ ReceivedInTurn /\ FreshInv /\ CardsOnce /\ FairAnswers /\ FairRefusal

LEMMA FairStart ==
    ASSUME Init
    PROVE  FairInv
<1>1. pending = <<>> /\ reads = <<>> /\ calls = {} /\ receipts = {}
    BY DEF Init
<1>2. Queue = {} /\ Asked = {} /\ Len(pending) = 0
    BY <1>1 DEF Queue, Asked
<1>3. ASSUME NEW b \in Blocks
      PROVE  /\ local[b] # None => Fresh(b, local[b].version)
             /\ card[b] = "never" => ~shown[b]
             /\ history[b] # <<>> => card[b] # "never"
             /\ card[b] # "removed"
  <2>1. CASE b \in Known
    <3>1. history[b] = <<[text |-> Empty, by |-> Others]>> /\ local[b] = [text |-> Empty, version |-> 0]
        BY <2>1 DEF Init
    <3>2. Len(history[b]) = 1 /\ local[b].version = 0
        BY <3>1
    <3>3. Fresh(b, local[b].version)
        BY <3>2 DEF Fresh
    <3>4. QED
        BY <2>1, <3>3 DEF Init
  <2>2. CASE b \notin Known
      BY <2>2 DEF Init
  <2>3. QED
      BY <2>1, <2>2
<1>4. Chained /\ ReceivedInTurn /\ FreshInv
    BY <1>2, <1>3 DEF Chained, ReceivedInTurn, FreshInv
<1>5. CardsOnce
    BY <1>1, <1>2, <1>3 DEF CardsOnce
<1>6. FairAnswers /\ FairRefusal
    BY <1>1, <1>2 DEF FairAnswers, FairRefusal
<1>7. QED
    BY <1>4, <1>5, <1>6 DEF FairInv

LEMMA FairStep ==
    ASSUME Shape, OutboxInv, FairInv, [Next]_vars
    PROVE  FairInv'
<1>1. KeysInv /\ SameCommands /\ CallsInv /\ CreatedFirst /\ TextsInv /\ CardsInv
    BY DEF OutboxInv
<1>2. ServerCards /\ ServerCards1
    BY <1>1 DEF CardsInv, ServerCards, ServerCards1
<1>3. Chained /\ ReceivedInTurn /\ FreshInv /\ CardsOnce /\ FairAnswers /\ FairRefusal
    BY DEF FairInv
<1>4. Chained' /\ ReceivedInTurn' /\ FreshInv'
    BY <1>1, <1>2, <1>3, ChainedStep, ReceivedInTurnStep, FreshStep
<1>5. CardsOnce' /\ FairAnswers' /\ FairRefusal'
    BY <1>1, <1>2, <1>3, CardsOnceStep, FairAnswersStep, FairRefusalStep
<1>6. QED
    BY <1>4, <1>5 DEF FairInv

\* The outbox never refuses its own work, however often requests are lost, repeated or sent by
\* several tabs: an edit is refused only over a version of another device, a removal only for a card
\* another device removed, and a creation never.  Only the edits of a block that an installed read
\* forgot while its text was being written may be refused besides: a read that is still under way
\* may bring back the text of before them (replica-projection.ts:392).
\* (validateBase and dispatch of replica.ts, planTextEdit of block-state.ts)
THEOREM RefusalsAlwaysFair == Spec => []FairRefusal
<1>1. Init => FairInv
    BY FairStart
<1>2. Shape /\ OutboxInv /\ FairInv /\ [Next]_vars => FairInv'
    BY FairStep
<1>3. FairInv => FairRefusal
    BY DEF FairInv
<1>4. QED
    BY <1>1, <1>2, <1>3, OutboxKeepsOrder, PTL DEF Spec

=============================================================================
