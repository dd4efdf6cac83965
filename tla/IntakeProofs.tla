----------------------------- MODULE IntakeProofs -----------------------------
(***************************************************************************)
(* Proofs about what enters a library.  Ingestion, for every number of     *)
(* cards, tabs, edits and faults: the queue of webpages and the cards      *)
(* agree, and no fetched page replaces what its owner wrote while it was   *)
(* fetched.  Imports, for any keys, files, deliveries, services, crashes   *)
(* and failing calls of the store: every byte stored is charged, once, and *)
(* every asset's bytes are stored.                                         *)
(***************************************************************************)
EXTENDS Ingestion, Imports, FiniteSetTheorems, WellFoundedInduction, TLAPS

USE IngestionAssumption, NoneAssumption

CardRow  == [status : {"pending", "ready", "failed"}, text : {"none", "page", "user"}, version : Nat]
JobState == {"queued", "running", "ready", "failed", "manual"}

Shapes ==
    /\ card \in [Cards -> CardRow \cup {None}]
    /\ job \in [Cards -> JobState \cup {None}]
    /\ worker \in [card : Cards \cup {None}, version : Nat, result : {"none", "page", "failed"}]
    /\ server \in {"up", "stopping", "fatal", "down"}
    /\ allowed \in BOOLEAN
    /\ read \in [Tabs -> [Cards -> 0..MaxEdits + 1]]
    /\ counts \in [edits : 0..MaxEdits, faults : 0..MaxFaults]

\* What the queue says of a card is what the card says of itself.  A card still to be
\* fetched has never been written, which is why its result may be.
Story(b) ==
    /\ card[b] = None => job[b] = None
    /\ card[b] # None =>
        /\ card[b].version <= counts.edits + 1
        /\ job[b] \in {"queued", "running"} => card[b].status = "pending" /\ card[b].text = "none" /\ card[b].version = 0
        /\ job[b] = "ready" => card[b].status = "ready" /\ card[b].text = "page"
        /\ job[b] = "failed" => card[b].status = "failed" /\ card[b].text = "none"
        /\ job[b] \in {None, "manual"} => card[b].status = "ready" /\ card[b].text = "user"

\* The worker holds the version it claimed exactly as long as nobody took the card out
\* of its hands; only a server that is going down leaves a row in nobody's hands.
Hands ==
    /\ worker.card # None =>
        /\ server # "down"
        /\ job[worker.card] \in {"running", "manual"}
        /\ card[worker.card] # None
        /\ worker.version <= card[worker.card].version
        /\ job[worker.card] = "running" <=> worker.version = card[worker.card].version
    /\ \A b \in Cards : job[b] = "running" /\ worker.card # b => server \in {"fatal", "down"}

PagesInv == Shapes /\ (\A b \in Cards : Story(b)) /\ Hands

LEMMA InitPages == Init => PagesInv
    BY DEF Init, PagesInv, Shapes, Story, Hands, Idle

LEMMA IngestKeeps == ASSUME PagesInv, NEW b \in Cards, Ingest(b) PROVE PagesInv'
<1> DEFINE pasted == [status |-> "ready", text |-> "user", version |-> 0]
           queued == [status |-> "pending", text |-> "none", version |-> 0]
<1>1. /\ card[b] = None /\ job[b] = None
      /\ UNCHANGED <<worker, server, allowed, read, counts>>
    BY DEF PagesInv, Story, Ingest, Made
<1>2. pasted \in CardRow /\ queued \in CardRow
    BY DEF CardRow
<1>3. pasted # None /\ queued # None
    BY <1>2 DEF CardRow
<1>4. CASE card' = [card EXCEPT ![b] = pasted] /\ UNCHANGED job
  <2>1. Shapes'
      BY <1>1, <1>2, <1>4 DEF PagesInv, Shapes
  <2>2. ASSUME NEW a \in Cards PROVE Story(a)'
      BY <1>1, <1>3, <1>4 DEF PagesInv, Shapes, Story
  <2>3. Hands'
      BY <1>1, <1>4 DEF PagesInv, Shapes, Hands
  <2>4. QED
      BY <2>1, <2>2, <2>3 DEF PagesInv
<1>5. CASE card' = [card EXCEPT ![b] = queued] /\ job' = [job EXCEPT ![b] = "queued"]
  <2>1. Shapes'
      BY <1>1, <1>2, <1>5 DEF PagesInv, Shapes, JobState
  <2>2. ASSUME NEW a \in Cards PROVE Story(a)'
      BY <1>1, <1>3, <1>5 DEF PagesInv, Shapes, Story
  <2>3. Hands'
      BY <1>1, <1>5 DEF PagesInv, Shapes, Hands
  <2>4. QED
      BY <2>1, <2>2, <2>3 DEF PagesInv
<1>6. QED
    BY <1>4, <1>5 DEF Ingest

LEMMA ReadKeeps == ASSUME PagesInv, NEW t \in Tabs, NEW b \in Cards, Read(t, b) PROVE PagesInv'
<1>1. UNCHANGED <<card, job, worker, server, allowed, counts>>
    BY DEF Read
<1>2. card[b].version \in 0..MaxEdits + 1
    BY DEF PagesInv, Shapes, Story, Read, Made, CardRow
<1>3. read' \in [Tabs -> [Cards -> 0..MaxEdits + 1]]
    BY <1>2 DEF PagesInv, Shapes, Read
<1>4. QED
    BY <1>1, <1>3 DEF PagesInv, Shapes, Story, Hands

LEMMA EditKeeps == ASSUME PagesInv, NEW t \in Tabs, NEW b \in Cards, Edit(t, b) PROVE PagesInv'
<1> DEFINE written == [status |-> "ready", text |-> "user", version |-> card[b].version + 1]
<1>1. /\ card[b] # None /\ counts.edits < MaxEdits
      /\ card' = [card EXCEPT ![b] = written]
      /\ read' = [read EXCEPT ![t][b] = card[b].version + 1]
      /\ counts' = [counts EXCEPT !.edits = @ + 1]
      /\ UNCHANGED <<worker, server, allowed>>
    BY DEF Edit, Made
<1>2. /\ card[b] \in CardRow /\ card[b].version \in Nat
      /\ card[b].version <= counts.edits + 1
      /\ counts.edits \in 0..MaxEdits
    BY <1>1 DEF PagesInv, Shapes, Story, CardRow
<1>3. written \in CardRow
    BY <1>2 DEF CardRow
<1>4. written # None
    BY <1>3 DEF CardRow
<1>5. counts' \in [edits : 0..MaxEdits, faults : 0..MaxFaults] /\ counts'.edits = counts.edits + 1
    BY <1>1 DEF PagesInv, Shapes
<1>6. /\ job' \in [Cards -> JobState \cup {None}]
      /\ job'[b] = IF job[b] = None THEN None ELSE "manual"
      /\ \A a \in Cards \ {b} : job'[a] = job[a]
    BY DEF PagesInv, Shapes, Edit, Manual, JobState
<1>7. Shapes'
  <2>1. card' \in [Cards -> CardRow \cup {None}]
      BY <1>1, <1>3 DEF PagesInv, Shapes
  <2>2. card[b].version + 1 \in 0..MaxEdits + 1
      BY <1>1, <1>2
  <2>3. read' \in [Tabs -> [Cards -> 0..MaxEdits + 1]]
      BY <1>1, <2>2 DEF PagesInv, Shapes
  <2>4. QED
      BY <1>1, <1>5, <1>6, <2>1, <2>3 DEF PagesInv, Shapes
<1>8. ASSUME NEW a \in Cards PROVE Story(a)'
  <2>1. CASE a = b
      BY <1>1, <1>2, <1>4, <1>5, <1>6, <2>1 DEF PagesInv, Shapes, Story
  <2>2. CASE a # b
      BY <1>1, <1>5, <1>6, <2>2 DEF PagesInv, Shapes, Story, CardRow
  <2>3. QED
      BY <2>1, <2>2
<1>9. Hands'
  <2>1. CASE worker.card = b
      BY <1>1, <1>2, <1>4, <1>6, <2>1 DEF PagesInv, Shapes, Hands, CardRow
  <2>2. CASE worker.card # b
      BY <1>1, <1>6, <2>2 DEF PagesInv, Shapes, Hands
  <2>3. QED
      BY <2>1, <2>2
<1>10. QED
    BY <1>7, <1>8, <1>9 DEF PagesInv

LEMMA ClaimKeeps == PagesInv /\ Claim => PagesInv'
<1> SUFFICES ASSUME PagesInv, Claim PROVE PagesInv'
    OBVIOUS
<1>1. PICK b \in Cards : /\ job[b] = "queued" /\ job' = Marked(b)
                         /\ worker' = [card |-> b, version |-> card[b].version, result |-> "none"]
    BY DEF Claim
<1>2. /\ server = "up" /\ worker.card = None
      /\ UNCHANGED <<card, server, allowed, read, counts>>
    BY DEF Claim
<1>3. card[b] # None /\ card[b] \in CardRow
    BY <1>1 DEF PagesInv, Shapes, Story
<1>4. Shapes'
    BY <1>1, <1>2, <1>3 DEF PagesInv, Shapes, Marked, JobState, CardRow
<1>5. ASSUME NEW a \in Cards PROVE Story(a)'
    BY <1>1, <1>2 DEF PagesInv, Shapes, Story, Marked
<1>6. Hands'
    BY <1>1, <1>2, <1>3 DEF PagesInv, Shapes, Hands, Marked, CardRow
<1>7. QED
    BY <1>4, <1>5, <1>6 DEF PagesInv

\* A result is written only over the card the worker claimed, still unwritten.
LEMMA CurrentRunning ==
    ASSUME PagesInv, worker.card # None
    PROVE  /\ worker.card \in Cards /\ card[worker.card] # None /\ card[worker.card] \in CardRow
           /\ Current <=> job[worker.card] = "running"
           /\ Current => card[worker.card].text = "none" /\ card[worker.card].version = 0
    BY DEF PagesInv, Shapes, Story, Hands, Current

LEMMA CommitKeeps == PagesInv /\ Commit => PagesInv'
<1> SUFFICES ASSUME PagesInv, Commit PROVE PagesInv'
    OBVIOUS
<1> DEFINE b == worker.card
           row == [status |-> IF worker.result = "page" THEN "ready" ELSE "failed",
                   text |-> IF worker.result = "page" THEN "page" ELSE card[b].text,
                   version |-> card[b].version + 1]
<1>1. /\ b # None /\ worker.result # "none" /\ worker' = Idle
      /\ UNCHANGED <<allowed, read>>
    BY DEF Commit
<1>2. /\ b \in Cards /\ card[b] # None /\ card[b] \in CardRow
      /\ Current <=> job[b] = "running"
      /\ Current => card[b].text = "none" /\ card[b].version = 0
    BY <1>1, CurrentRunning
<1>3. Idle \in [card : Cards \cup {None}, version : Nat, result : {"none", "page", "failed"}] /\ Idle.card = None
    BY DEF Idle
<1>4. CASE card' = Write /\ job' = Close /\ UNCHANGED <<server, counts>>
  <2>1. CASE Current
    <3>1. card' = [card EXCEPT ![b] = row]
        BY <1>4, <2>1 DEF Write
    <3>2. row \in CardRow
        BY <1>2, <2>1 DEF CardRow
    <3>3. row # None
        BY <3>2 DEF CardRow
    <3>4. job' = [job EXCEPT ![b] = IF worker.result = "page" THEN "ready" ELSE "failed"]
        BY <1>2, <1>4, <2>1 DEF Close
    <3>5. Shapes'
        BY <1>1, <1>2, <1>3, <1>4, <3>1, <3>2, <3>4 DEF PagesInv, Shapes, JobState
    <3>6. ASSUME NEW a \in Cards PROVE Story(a)'
      <4>1. CASE a = b
          BY <1>2, <1>4, <2>1, <3>1, <3>3, <3>4, <4>1 DEF PagesInv, Shapes, Story, CardRow
      <4>2. CASE a # b
          BY <1>2, <1>4, <3>1, <3>4, <4>2 DEF PagesInv, Shapes, Story
      <4>3. QED
          BY <4>1, <4>2
    <3>7. Hands'
        BY <1>1, <1>2, <1>3, <1>4, <3>4 DEF PagesInv, Shapes, Hands
    <3>8. QED
        BY <3>5, <3>6, <3>7 DEF PagesInv
  <2>2. CASE ~Current
    <3>1. UNCHANGED <<card, job>>
        BY <1>2, <1>4, <2>2 DEF Write, Close
    <3>2. Shapes' /\ \A a \in Cards : Story(a)'
        BY <1>1, <1>3, <1>4, <3>1 DEF PagesInv, Shapes, Story
    <3>3. Hands'
        BY <1>1, <1>2, <1>3, <1>4, <2>2, <3>1 DEF PagesInv, Shapes, Hands
    <3>4. QED
        BY <3>2, <3>3 DEF PagesInv
  <2>3. QED
      BY <2>1, <2>2
<1>5. CASE Fault /\ server' = "fatal" /\ UNCHANGED <<card, job>>
  <2>1. counts' \in [edits : 0..MaxEdits, faults : 0..MaxFaults] /\ counts'.edits = counts.edits
      BY <1>5 DEF PagesInv, Shapes, Fault
  <2>2. Shapes' /\ \A a \in Cards : Story(a)'
      BY <1>1, <1>3, <1>5, <2>1 DEF PagesInv, Shapes, Story
  <2>3. Hands'
      BY <1>1, <1>2, <1>3, <1>5 DEF PagesInv, Shapes, Hands
  <2>4. QED
      BY <2>2, <2>3 DEF PagesInv
<1>6. QED
    BY <1>4, <1>5 DEF Commit

\* Nothing the process does around its work touches a card.
LEMMA ProcessKeeps ==
    PagesInv /\ (Fetch \/ Stop \/ Down \/ Crash \/ Start \/ Disk) => PagesInv'
<1> SUFFICES ASSUME PagesInv, Fetch \/ Stop \/ Down \/ Crash \/ Start \/ Disk PROVE PagesInv'
    OBVIOUS
<1>1. Fault => counts' \in [edits : 0..MaxEdits, faults : 0..MaxFaults] /\ counts'.edits = counts.edits
    BY DEF PagesInv, Shapes, Fault
<1>2. CASE Fetch
  <2>1. PICK result \in {"page", "failed"} : worker' = [worker EXCEPT !.result = result]
      BY <1>2 DEF Fetch
  <2>2. UNCHANGED <<card, job, server, allowed, read, counts>>
      BY <1>2 DEF Fetch
  <2>3. /\ worker' \in [card : Cards \cup {None}, version : Nat, result : {"none", "page", "failed"}]
        /\ worker'.card = worker.card /\ worker'.version = worker.version
      BY <2>1 DEF PagesInv, Shapes
  <2>4. QED
      BY <2>2, <2>3 DEF PagesInv, Shapes, Story, Hands
<1>3. CASE Stop
    BY <1>1, <1>3 DEF Stop, PagesInv, Shapes, Story, Hands
<1>4. CASE Down
    BY <1>4 DEF Down, PagesInv, Shapes, Story, Hands
<1>5. CASE Crash
  <2>1. worker' \in [card : Cards \cup {None}, version : Nat, result : {"none", "page", "failed"}] /\ worker'.card = None
      BY <1>5 DEF Crash, Idle
  <2>2. QED
      BY <1>1, <1>5, <2>1 DEF Crash, PagesInv, Shapes, Story, Hands
<1>6. CASE Start
  <2>1. /\ server = "down" /\ server' = "up" /\ job' = Requeued
        /\ UNCHANGED <<card, worker, allowed, read, counts>>
      BY <1>6 DEF Start
  <2>2. worker.card = None
      BY <2>1 DEF PagesInv, Hands
  <2>3. /\ job' \in [Cards -> JobState \cup {None}]
        /\ \A b \in Cards : job'[b] = IF job[b] = "running" THEN "queued" ELSE job[b]
      BY <2>1 DEF PagesInv, Shapes, Requeued, JobState
  <2>4. Shapes'
      BY <2>1, <2>3 DEF PagesInv, Shapes
  <2>5. ASSUME NEW b \in Cards PROVE Story(b)'
      BY <2>1, <2>3 DEF PagesInv, Story
  <2>6. Hands'
      BY <2>1, <2>2, <2>3 DEF PagesInv, Shapes, Hands
  <2>7. QED
      BY <2>4, <2>5, <2>6 DEF PagesInv
<1>7. CASE Disk
    BY <1>1, <1>7 DEF Disk, PagesInv, Shapes, Story, Hands
<1>8. QED
    BY <1>2, <1>3, <1>4, <1>5, <1>6, <1>7

LEMMA PagesInvariance == Spec => []PagesInv
<1>1. PagesInv /\ UNCHANGED vars => PagesInv'
    BY DEF vars, PagesInv, Shapes, Story, Hands
<1>2. PagesInv /\ [Next]_vars => PagesInv'
    BY <1>1, IngestKeeps, ReadKeeps, EditKeeps, ClaimKeeps, CommitKeeps, ProcessKeeps DEF Next
<1>3. QED
    BY <1>2, InitPages, PTL DEF Spec

\* Whatever stops the server, cards and queue keep their shape, and a row marked as
\* being fetched is in the worker's hands or waits for a restart (webpage.ts:30-70).
THEOREM IngestionTypeCorrect == Spec => []TypeOK
<1>1. PagesInv => TypeOK
  <2> SUFFICES ASSUME PagesInv PROVE TypeOK
      OBVIOUS
  <2>1. ASSUME NEW b \in Made
        PROVE  /\ card[b].status \in {"pending", "ready", "failed"} /\ card[b].text \in {"none", "page", "user"}
               /\ card[b].version \in 0..MaxEdits + 1
      BY DEF PagesInv, Shapes, Story, CardRow, Made
  <2>2. /\ worker.card \in Cards \cup {None} /\ worker.result \in {"none", "page", "failed"}
        /\ counts.edits \in 0..MaxEdits /\ counts.faults \in 0..MaxFaults
      BY DEF PagesInv, Shapes
  <2>3. QED
      BY <2>1, <2>2 DEF PagesInv, Shapes, Hands, TypeOK, JobState
<1>2. QED
    BY <1>1, PagesInvariance, PTL

\* However edits, fetches, stops, crashes and database errors interleave, the queue and
\* the card tell one story and no page replaces what its owner wrote
\* (ingestion/webpage.ts:30-70, content.ts).
THEOREM PagesAlwaysKept == Spec => PagesKept
<1>1. PagesInv => Agreement
  <2> SUFFICES ASSUME PagesInv, NEW b \in Made
               PROVE  CASE job[b] \in {"queued", "running"} -> card[b].status = "pending"
                        [] job[b] = "ready" -> card[b].status = "ready" /\ card[b].text = "page"
                        [] job[b] = "failed" -> card[b].status = "failed" /\ card[b].text = "none"
                        [] OTHER -> card[b].status = "ready" /\ card[b].text = "user"
      BY DEF Agreement
  <2>1. Story(b) /\ card[b] # None /\ job[b] \in JobState \cup {None}
      BY DEF PagesInv, Shapes, Made
  <2>2. QED
      BY <2>1 DEF Story, JobState
<1>2. PagesInv /\ [Next]_vars => [NoClobber]_vars
  <2> SUFFICES ASSUME PagesInv, Next, NEW b \in Made, card[b].text = "user"
               PROVE  card'[b].text = "user"
      BY DEF NoClobber
  <2>1. b \in Cards /\ card[b] # None /\ card \in [Cards -> CardRow \cup {None}]
      BY DEF Made, PagesInv, Shapes
  <2>2. ASSUME NEW a \in Cards, Ingest(a)
        PROVE  card'[b].text = "user"
      BY <2>1, <2>2 DEF Ingest, Made
  <2>3. ASSUME NEW a \in Cards, NEW t \in Tabs, Edit(t, a)
        PROVE  card'[b].text = "user"
      BY <2>1, <2>3 DEF Edit
  <2>4. CASE Commit
    <3>1. card' = Write \/ UNCHANGED card
        BY <2>4 DEF Commit
    <3>2. Current => worker.card # b
        BY <2>4, CurrentRunning DEF Commit
    <3>3. QED
        BY <2>1, <3>1, <3>2 DEF Write
  <2>5. CASE UNCHANGED card
      BY <2>5
  <2>6. QED
      BY <2>2, <2>3, <2>4, <2>5 DEF Next, Read, Claim, Fetch, Stop, Down, Crash, Start, Disk
<1>3. QED
    BY <1>1, <1>2, PagesInvariance, PTL DEF Spec, PagesKept

-----------------------------------------------------------------------------
(* Imports: the invariant *)

USE ImportsAssumption, AbsentAssumption

Delivery  == [key : Keys, file : Files, by : {"guest", "account"}, at : Services, phase : Phases, asset : Ids,
              after : 0..MaxCalls, answer : {"none", "receipt", "refused", "corrupt"}]
Operation == [file : Files, asset : Ids, ready : BOOLEAN]

Drawn == DOMAIN calls

ImportShapes ==
    /\ up \in BOOLEAN
    /\ Drawn \subseteq Ids /\ \E n \in 0..MaxCalls : Drawn = 1..n
    /\ calls \in [Drawn -> Delivery]
    /\ ops \in [Keys -> Operation \cup {Absent}]
    /\ assets \in [DOMAIN assets -> Rows] /\ intents \in [DOMAIN intents -> Rows] /\ debts \in [DOMAIN debts -> Rows]
    /\ objects \in [DOMAIN objects -> [file : Files, whole : BOOLEAN]]
    /\ DOMAIN assets \cup DOMAIN intents \cup DOMAIN debts \cup late \subseteq Drawn
    /\ guest \in [age : Ages, claimed : BOOLEAN, purged : BOOLEAN]
    /\ made \in [Keys -> Nat]
    /\ faults \in [crashes : 0..MaxCrashes, store : 0..MaxStoreFaults]

\* Whatever an identity is used for, it stands for the file and the library it was drawn for.
Birth(i) == [file |-> calls[i].file, guest |-> OfGuest(i)]
SameBytes(i, j) == calls[i].file = calls[j].file /\ (OfGuest(i) <=> OfGuest(j))
Origins ==
    /\ \A c \in Drawn : calls[c].asset \in Drawn /\ SameBytes(c, calls[c].asset)
    /\ \A k \in Keys : ops[k] # Absent =>
         /\ ops[k].asset \in Drawn /\ ops[k].file = calls[ops[k].asset].file
         /\ k \in GuestKeys <=> OfGuest(ops[k].asset)
    /\ \A i \in DOMAIN assets : assets[i] = Birth(i)
    /\ \A i \in DOMAIN intents : intents[i] = Birth(i)
    /\ \A i \in DOMAIN debts : debts[i] = Birth(i)
    /\ \A i \in DOMAIN objects : i \in Drawn => objects[i].file = calls[i].file

\* The identities a library holds, stored or reserved.
HeldIds == DOMAIN assets \cup DOMAIN intents

Apart ==
    /\ DOMAIN assets \cap DOMAIN intents = {} /\ DOMAIN debts \cap HeldIds = {}
    /\ \A i, j \in HeldIds : SameBytes(i, j) => i = j
    /\ \A i \in DOMAIN debts : guest.purged /\ OfGuest(i)

\* A library is purged when nobody works for it, and nothing is left in it or comes to it.
Purged ==
    guest.purged =>
      /\ guest.age = "over" /\ ~guest.claimed
      /\ \A i \in HeldIds : ~OfGuest(i)
      /\ \A k \in Keys : k \in GuestKeys => ops[k] = Absent
      /\ \A c \in Drawn : OfGuest(c) => ~Working(c)

\* What a delivery holds stays while it works with it.
Works(c) ==
    /\ calls[c].phase \in {"get", "put", "writing", "finish"} => calls[c].asset \in HeldIds
    /\ calls[c].phase = "writing" => calls[c].asset \in DOMAIN objects
    /\ calls[c].phase = "finish" => Trusted(calls[c].asset, calls[c].file)
    /\ calls[c].phase = "joined" => calls[c].after \in Drawn
    /\ calls[c].phase # "ended" => up

Stored ==
    /\ NoOrphans /\ AssetsStored
    /\ \A i \in late : i \in HeldIds /\ (OfGuest(i) => guest.age # "over")

\* The receipt of a key is kept as long as its library is.
Receipted(k) == (ops[k] # Absent /\ ops[k].ready) \/ (k \in GuestKeys /\ guest.purged)
Receipts ==
    \A k \in Keys :
      /\ ops[k] # Absent /\ ops[k].ready => ops[k].asset \in DOMAIN assets
      /\ made[k] <= 1
      /\ made[k] = 1 => Receipted(k)

\* The identities charged to the guest's library, and to the other.
ChargedTo(g) == {i \in HeldIds \cup DOMAIN debts : OfGuest(i) = g}
Charged ==
    /\ Cardinality(ChargedTo(TRUE)) + Cardinality(ChargedTo(FALSE)) <= TotalBytes
    /\ guest.claimed \/ Cardinality(ChargedTo(TRUE)) <= GuestBytes

ImportsInv ==
    /\ ImportShapes /\ Origins /\ Apart /\ Purged /\ (\A c \in Drawn : Works(c)) /\ Stored /\ Receipts /\ Charged

-----------------------------------------------------------------------------
(* Imports: steps of a delivery *)

LEMMA Typed ==
    ASSUME ImportsInv, NEW c \in Drawn
    PROVE  /\ calls[c] \in Delivery /\ calls[c].key \in Keys /\ calls[c].file \in Files /\ c \in Ids
           /\ calls[c].phase \in Phases /\ calls[c].asset \in Ids /\ calls[c].asset \in Drawn
           /\ SameBytes(c, calls[c].asset) /\ OfGuest(c) \in BOOLEAN /\ Works(c)
<1>1. calls[c] \in Delivery
    BY DEF ImportsInv, ImportShapes
<1>2. c \in Ids
    BY DEF ImportsInv, ImportShapes
<1>3. QED
    BY <1>1, <1>2 DEF Delivery, ImportsInv, Origins, OfGuest

LEMMA ObjectIs ==
    ASSUME NEW r \in [file : Files, whole : BOOLEAN], NEW f, r.file = f, r.whole = TRUE
    PROVE  r = [file |-> f, whole |-> TRUE]
    OBVIOUS

\* What a delivery's step makes of it: it keeps what it stands for, holds what it works with, and
\* works for no library that is purged.
Fits(d) ==
    /\ calls'[d].asset \in Drawn /\ SameBytes(d, calls'[d].asset)
    /\ calls'[d].phase \in {"get", "put", "writing", "finish"} => calls'[d].asset \in HeldIds
    /\ calls'[d].phase = "writing" => calls'[d].asset \in DOMAIN objects'
    /\ calls'[d].phase = "finish" =>
         calls'[d].asset \in DOMAIN objects' /\ objects'[calls'[d].asset] = [file |-> calls[d].file, whole |-> TRUE]
    /\ calls'[d].phase = "joined" => calls'[d].after \in Drawn
    /\ calls'[d].phase # "ended" => up
    /\ calls'[d].phase \in InHand => ~(guest.purged /\ OfGuest(d))

\* Objects are added for what a library holds, and become whole.
ObjectsGrow ==
    /\ objects' \in [DOMAIN objects' -> [file : Files, whole : BOOLEAN]]
    /\ DOMAIN objects \subseteq DOMAIN objects'
    /\ \A i \in DOMAIN objects : objects'[i].file = objects[i].file /\ (objects[i].whole => objects'[i].whole)
    /\ \A i \in DOMAIN objects' \ DOMAIN objects : i \in HeldIds /\ objects'[i].file = calls[i].file

\* Deliveries and their objects move; no row does.
DeliveryMoves ==
    /\ Drawn' = Drawn /\ calls' \in [Drawn -> Delivery]
    /\ \A d \in Drawn : /\ calls'[d].key = calls[d].key /\ calls'[d].file = calls[d].file
                        /\ calls'[d] = calls[d] \/ Fits(d)
    /\ ObjectsGrow
    /\ late' \subseteq Drawn /\ \A i \in late' : i \in HeldIds /\ (OfGuest(i) => guest.age # "over")
    /\ faults' \in [crashes : 0..MaxCrashes, store : 0..MaxStoreFaults]
    /\ up' \in BOOLEAN /\ (up' = up \/ \A d \in Drawn : calls'[d].phase = "ended")
    /\ UNCHANGED <<ops, assets, intents, debts, guest, made>>

LEMMA DeliveryStep ==
    ASSUME ImportsInv, DeliveryMoves
    PROVE  ImportsInv'
<1> USE DEF DeliveryMoves, ObjectsGrow
<1>1. /\ \A d \in Drawn : (OfGuest(d)' <=> OfGuest(d)) /\ calls'[d].file = calls[d].file
      /\ HeldIds' = HeldIds
    BY DEF OfGuest, HeldIds
<1>2. /\ \A i, j \in Drawn : SameBytes(i, j)' <=> SameBytes(i, j)
      /\ \A i \in Drawn : Birth(i)' = Birth(i)
    BY <1>1 DEF SameBytes, Birth, OfGuest
<1>3. HeldIds \subseteq Drawn /\ DOMAIN debts \subseteq Drawn
    BY DEF ImportsInv, ImportShapes, HeldIds
<1>4. ImportShapes'
    BY DEF ImportsInv, ImportShapes
<1>5. Origins'
  <2>1. ASSUME NEW c \in Drawn PROVE calls'[c].asset \in Drawn /\ SameBytes(c, calls'[c].asset)
      BY <2>1 DEF ImportsInv, Origins, Fits
  <2>2. \A c \in Drawn : SameBytes(c, calls'[c].asset) => SameBytes(c, calls[c].asset)'
      BY <1>1, <2>1 DEF SameBytes, OfGuest
  <2>3. \A k \in Keys : ops'[k] # Absent =>
          /\ ops'[k].asset \in Drawn' /\ ops'[k].file = calls'[ops'[k].asset].file
          /\ k \in GuestKeys <=> OfGuest(ops[k].asset)'
      BY <1>1 DEF ImportsInv, Origins
  <2>4. /\ \A i \in DOMAIN assets' : assets'[i] = Birth(i)'
        /\ \A i \in DOMAIN intents' : intents'[i] = Birth(i)'
        /\ \A i \in DOMAIN debts' : debts'[i] = Birth(i)'
      BY <1>2, <1>3 DEF ImportsInv, Origins, HeldIds
  <2>5. \A i \in DOMAIN objects' : i \in Drawn' => objects'[i].file = calls'[i].file
      BY <1>1 DEF ImportsInv, Origins
  <2>6. QED
      BY <2>1, <2>2, <2>3, <2>4, <2>5 DEF Origins
<1>6. Apart'
    BY <1>1, <1>2, <1>3 DEF ImportsInv, Apart
<1>7. Purged'
  <2>1. SUFFICES ASSUME guest.purged
                 PROVE  /\ guest.age = "over" /\ ~guest.claimed
                        /\ \A i \in HeldIds : ~OfGuest(i)'
                        /\ \A k \in Keys : k \in GuestKeys => ops[k] = Absent
                        /\ \A c \in Drawn : OfGuest(c)' => ~Working(c)'
      BY <1>1 DEF Purged
  <2>2. ASSUME NEW c \in Drawn, OfGuest(c) PROVE ~Working(c)'
      BY <2>1, <2>2 DEF ImportsInv, Purged, Working, Fits
  <2>3. QED
      BY <1>1, <1>3, <2>1, <2>2 DEF ImportsInv, Purged
<1>8. \A c \in Drawn' : Works(c)'
  <2>1. ASSUME NEW c \in Drawn, calls'[c] = calls[c]
        PROVE  Works(c)'
    <3>1. Works(c) /\ calls[c].file \in Files
        BY <2>1, Typed
    <3>2. calls'[c].phase = "finish" => Trusted(calls[c].asset, calls[c].file)'
      <4>1. SUFFICES ASSUME calls[c].phase = "finish" PROVE Trusted(calls[c].asset, calls[c].file)'
          BY <2>1
      <4>2. PICK i : i = calls[c].asset
          OBVIOUS
      <4>3. i \in DOMAIN objects /\ objects[i] = [file |-> calls[c].file, whole |-> TRUE]
          BY <3>1, <4>1, <4>2 DEF Works, Trusted
      <4>4. i \in DOMAIN objects' /\ objects'[i] \in [file : Files, whole : BOOLEAN]
            /\ objects'[i].file = calls[c].file /\ objects'[i].whole = TRUE
          BY <4>3
      <4>5. objects'[i] = [file |-> calls[c].file, whole |-> TRUE]
          BY <4>4, ObjectIs
      <4>6. QED
          BY <2>1, <4>2, <4>4, <4>5 DEF Trusted
    <3>3. QED
        BY <1>1, <2>1, <3>1, <3>2 DEF Works
  <2>2. ASSUME NEW c \in Drawn, Fits(c)
        PROVE  Works(c)'
      BY <1>1, <2>2 DEF Works, Fits, Trusted
  <2>3. QED
      BY <2>1, <2>2
<1>9. Stored'
  <2>1. NoOrphans'
      BY <1>1 DEF ImportsInv, Stored, NoOrphans, HeldIds
  <2>2. AssetsStored'
    <3>1. SUFFICES ASSUME NEW i \in DOMAIN assets
                   PROVE  i \in DOMAIN objects' /\ objects'[i] = [file |-> assets[i].file, whole |-> TRUE]
        BY DEF AssetsStored
    <3>2. i \in DOMAIN objects /\ objects[i] = [file |-> assets[i].file, whole |-> TRUE]
        BY <3>1 DEF ImportsInv, Stored, AssetsStored
    <3>3. i \in DOMAIN objects' /\ objects'[i] \in [file : Files, whole : BOOLEAN]
          /\ objects'[i].file = assets[i].file /\ objects'[i].whole = TRUE
        BY <3>2
    <3>4. QED
        BY <3>3, ObjectIs
  <2>3. \A i \in late' : i \in HeldIds' /\ (OfGuest(i)' => guest'.age # "over")
      BY <1>1
  <2>4. QED
      BY <2>1, <2>2, <2>3 DEF Stored
<1>10. Receipts'
    BY DEF ImportsInv, Receipts, Receipted
<1>11. Charged'
  <2>1. ASSUME NEW g \in BOOLEAN PROVE ChargedTo(g)' = ChargedTo(g)
      BY <1>1, <1>3 DEF ChargedTo, OfGuest
  <2>2. QED
      BY <2>1 DEF ImportsInv, Charged
<1>12. QED
    BY <1>4, <1>5, <1>6, <1>7, <1>8, <1>9, <1>10, <1>11 DEF ImportsInv

\* A delivery's step moves no other delivery.
Only(c) ==
    /\ Drawn' = Drawn /\ calls' \in [Drawn -> Delivery]
    /\ calls'[c].key = calls[c].key /\ calls'[c].file = calls[c].file
    /\ \A d \in Drawn \ {c} : calls'[d] = calls[d]

LEMMA StageIs ==
    ASSUME ImportsInv, NEW c \in Drawn, NEW phase \in Phases, Stage(c, phase)
    PROVE  Only(c) /\ calls'[c].phase = phase /\ calls'[c].asset = calls[c].asset
<1>1. calls' = [calls EXCEPT ![c].phase = phase] /\ calls \in [Drawn -> Delivery]
    BY DEF Stage, ImportsInv, ImportShapes
<1>2. [calls[c] EXCEPT !.phase = phase] \in Delivery
    BY <1>1 DEF Delivery
<1>3. QED
    BY <1>1, <1>2 DEF Only, Drawn, Delivery

LEMMA AnswerIs ==
    ASSUME ImportsInv, NEW c \in Drawn, NEW answer \in {"none", "receipt", "refused", "corrupt"}, Answer(c, answer)
    PROVE  Only(c) /\ calls'[c].phase = "ended" /\ calls'[c].asset = calls[c].asset
<1>1. calls' = [calls EXCEPT ![c].phase = "ended", ![c].answer = answer] /\ calls \in [Drawn -> Delivery]
    BY DEF Answer, ImportsInv, ImportShapes
<1>2. calls[c] \in Delivery /\ "ended" \in Phases
    BY <1>1 DEF Phases
<1>3. QED
    BY <1>1, <1>2 DEF Only, Drawn, Delivery

\* A step that only moves a delivery.
LEMMA QuietStep ==
    ASSUME ImportsInv, NEW c \in Drawn, Only(c), Fits(c),
           UNCHANGED <<up, ops, assets, intents, debts, objects, late, guest, made, faults>>
    PROVE  ImportsInv'
<1>1. DeliveryMoves
    BY DEF DeliveryMoves, ObjectsGrow, Only, ImportsInv, ImportShapes, Stored
<1>2. QED
    BY <1>1, DeliveryStep

LEMMA EndFits ==
    ASSUME ImportsInv, NEW c \in Drawn, calls[c].phase # "ended", calls'[c].phase = "ended",
           calls'[c].asset = calls[c].asset
    PROVE  Fits(c)
    BY Typed DEF Fits, Works, InHand
-----------------------------------------------------------------------------
(* Smallest and largest numbers *)

\* A nonempty collection of parts of a finite set has one that contains no other.
LEMMA SmallestPart ==
    ASSUME NEW S, IsFiniteSet(S), NEW Parts, Parts \subseteq SUBSET S, Parts # {}
    PROVE  \E T \in Parts : \A U \in Parts : U \subseteq T => U = T
<1>1. Parts \subseteq FiniteSubsetsOf(S)
    BY FS_Subset DEF FiniteSubsetsOf
<1>2. IsWellFoundedOn(StrictSubsetOrdering(S), FiniteSubsetsOf(S))
    BY FS_StrictSubsetOrderingWellFounded
<1>3. PICK T \in Parts : \A U \in Parts : ~ (<<U, T>> \in StrictSubsetOrdering(S))
    BY <1>1, <1>2, WFMin
<1>4. ASSUME NEW U \in Parts, U \subseteq T, U # T
      PROVE  FALSE
    BY <1>3, <1>4 DEF StrictSubsetOrdering
<1>5. QED
    BY <1>4

LEMMA MinIn ==
    ASSUME NEW n \in Nat, NEW T, T \subseteq 0..n, T # {}
    PROVE  Min(T) \in T
<1> DEFINE all == 0..n
           Parts == {0..x : x \in T}
<1>b. ASSUME NEW x \in T PROVE 0..x \in SUBSET all
  <2>1. x \in Nat /\ x <= n
      OBVIOUS
  <2>2. \A y \in 0..x : y \in 0..n
      BY <2>1
  <2>3. QED
      BY <2>2
<1>1. Parts \subseteq SUBSET all /\ Parts # {}
    BY <1>b
<1>a. IsFiniteSet(all)
    BY FS_Interval
<1> HIDE DEF Parts, all
<1>2. PICK P \in Parts : \A U \in Parts : U \subseteq P => U = P
    BY <1>1, <1>a, SmallestPart
<1>3. PICK m \in T : P = 0..m
    BY DEF Parts
<1>4. ASSUME NEW y \in T PROVE m <= y
  <2>1. SUFFICES ASSUME y < m PROVE FALSE
      OBVIOUS
  <2>2. 0..y \in Parts
      BY DEF Parts
  <2>3. 0..y \subseteq P /\ m \in P /\ m \notin 0..y
      BY <1>3, <2>1
  <2>4. QED
      BY <1>2, <2>2, <2>3
<1>5. QED
    BY <1>4 DEF Min

LEMMA MaxIn ==
    ASSUME NEW n \in Nat, NEW T, T \subseteq 0..n, T # {}
    PROVE  Max(T) \in T
<1> DEFINE all == 0..n
           Parts == {x..n : x \in T}
<1>b. ASSUME NEW x \in T PROVE x..n \in SUBSET all
  <2>1. x \in Nat /\ x <= n
      OBVIOUS
  <2>2. \A y \in x..n : y \in 0..n
      BY <2>1
  <2>3. QED
      BY <2>2
<1>1. Parts \subseteq SUBSET all /\ Parts # {}
    BY <1>b
<1>a. IsFiniteSet(all)
    BY FS_Interval
<1> HIDE DEF Parts, all
<1>2. PICK P \in Parts : \A U \in Parts : U \subseteq P => U = P
    BY <1>1, <1>a, SmallestPart
<1>3. PICK m \in T : P = m..n
    BY DEF Parts
<1>4. ASSUME NEW y \in T PROVE m >= y
  <2>1. SUFFICES ASSUME y > m PROVE FALSE
      OBVIOUS
  <2>2. y..n \in Parts
      BY DEF Parts
  <2>3. y..n \subseteq P /\ m \in P /\ m \notin y..n
      BY <1>3, <2>1
  <2>4. QED
      BY <1>2, <2>2, <2>3
<1>5. QED
    BY <1>4 DEF Max

-----------------------------------------------------------------------------
(* Steps of a delivery that move no row *)

LEMMA InIds ==
    ASSUME ImportsInv
    PROVE  Drawn \subseteq Ids /\ Ids = 1..MaxCalls /\ MaxCalls \in Nat /\ 0..MaxCalls = {0} \cup Ids
    BY DEF ImportsInv, ImportShapes, Ids

\* An answer leaves everything else alone.
LEMMA Refused ==
    ASSUME ImportsInv, NEW c \in Drawn, calls[c].phase # "ended",
           NEW answer \in {"none", "receipt", "refused", "corrupt"}, Answer(c, answer),
           UNCHANGED <<up, ops, assets, intents, debts, objects, late, guest, made, faults>>
    PROVE  ImportsInv'
<1>1. Only(c) /\ calls'[c].phase = "ended" /\ calls'[c].asset = calls[c].asset
    BY AnswerIs
<1>2. Fits(c)
    BY <1>1, EndFits
<1>3. QED
    BY <1>1, <1>2, QuietStep

LEMMA JoinedKeeps == ASSUME ImportsInv, NEW c \in Drawn, JoinedEnds(c) PROVE ImportsInv'
<1>1. calls[c].phase = "joined" /\ calls[c].after \in Drawn
    BY Typed DEF JoinedEnds, Works
<1>2. calls[calls[c].after].answer \in {"none", "receipt", "refused", "corrupt"}
    BY <1>1 DEF ImportsInv, ImportShapes, Delivery
<1>3. QED
    BY <1>1, <1>2, Refused DEF JoinedEnds

LEMMA TurnKeeps == ASSUME ImportsInv, NEW c \in Drawn, TakeTurn(c) PROVE ImportsInv'
<1>1. calls[c].phase = "turn" /\ Stage(c, "parser") /\ "parser" \in Phases
    BY DEF TakeTurn, Phases, InHand
<1>2. Only(c) /\ calls'[c].phase = "parser" /\ calls'[c].asset = calls[c].asset
    BY <1>1, StageIs
<1>3. up /\ ~(guest.purged /\ OfGuest(c))
    BY <1>1, Typed DEF ImportsInv, Purged, Working, Works, InHand
<1>4. Fits(c)
    BY <1>2, <1>3, Typed DEF Fits
<1>5. QED
    BY <1>2, <1>4, QuietStep DEF TakeTurn

LEMMA ParserKeeps == ASSUME ImportsInv, NEW c \in Drawn, ParserRefuses(c) PROVE ImportsInv'
    BY Refused DEF ParserRefuses

\* What stands under the key of a delivery that is let through.
LEMMA Admissible ==
    ASSUME ImportsInv, NEW c \in Drawn, BraneStands(c), ~OtherFile(c), ops[calls[c].key] # Absent
    PROVE  /\ ops[calls[c].key] \in Operation /\ ops[calls[c].key].asset \in Drawn
           /\ SameBytes(c, ops[calls[c].key].asset)
<1>1. calls[c].key \in Keys
    BY Typed
<1>2. ops[calls[c].key] \in Operation
    BY <1>1 DEF ImportsInv, ImportShapes
<1>3. QED
    BY <1>1, <1>2 DEF ImportsInv, Origins, SameBytes, OtherFile, OfGuest

LEMMA BeginKeeps == ASSUME ImportsInv, NEW c \in Drawn, Begin(c) PROVE ImportsInv'
<1> DEFINE active == {d \in DOMAIN calls : Working(d) /\ calls[d].at = calls[c].at}
           running == {d \in active : calls[d].key = calls[c].key}
           asset == IF ops[calls[c].key] = Absent THEN calls[c].asset ELSE ops[calls[c].key].asset
<1>1. /\ calls[c].phase = "body"
      /\ UNCHANGED <<up, ops, assets, intents, debts, objects, late, guest, made, faults>>
    BY DEF Begin
<1>2. up /\ calls \in [Drawn -> Delivery] /\ calls[c] \in Delivery
    BY <1>1, Typed DEF Works, ImportsInv, ImportShapes
<1>3. CASE Answer(c, "refused") \/ Answer(c, "receipt")
    BY <1>1, <1>3, Refused
<1>4. CASE running # {} /\ calls' = [calls EXCEPT ![c].phase = "joined", ![c].after = Min(running)]
  <2>1. running \subseteq Drawn /\ Drawn \subseteq 0..MaxCalls /\ MaxCalls \in Nat
      BY InIds DEF Drawn
  <2> HIDE DEF running
  <2>2. Min(running) \in Drawn /\ Min(running) \in 0..MaxCalls
      BY <1>4, <2>1, MinIn
  <2>3. "joined" \in Phases
      BY DEF Phases
  <2>4. Only(c) /\ calls'[c].phase = "joined" /\ calls'[c].asset = calls[c].asset /\ calls'[c].after \in Drawn
      BY <1>2, <1>4, <2>2, <2>3 DEF Only, Drawn, Delivery
  <2>5. Fits(c)
      BY <1>2, <2>4, Typed DEF Fits, InHand
  <2>6. QED
      BY <1>1, <2>4, <2>5, QuietStep
<1>5. CASE /\ BraneStands(c) /\ ~OtherFile(c)
           /\ calls' = [calls EXCEPT ![c].phase = "turn", ![c].after = Previous(c), ![c].asset = asset]
  <2>1. Previous(c) \in 0..MaxCalls
    <3> DEFINE before == {0} \cup {d \in DOMAIN calls : Working(d) /\ calls[d].file = calls[c].file /\ OfGuest(d) = OfGuest(c)}
    <3>1. before \subseteq 0..MaxCalls /\ before # {} /\ Previous(c) = Max(before) /\ MaxCalls \in Nat
        BY InIds DEF Drawn, Previous
    <3> HIDE DEF before
    <3>2. QED
        BY <3>1, MaxIn
  <2>2. asset \in Drawn /\ SameBytes(c, asset) /\ asset \in Ids
      BY <1>5, Typed, Admissible, InIds
  <2>3. "turn" \in Phases
      BY DEF Phases, InHand
  <2> HIDE DEF asset
  <2>4. Only(c) /\ calls'[c].phase = "turn" /\ calls'[c].asset = asset
      BY <1>2, <1>5, <2>1, <2>2, <2>3 DEF Only, Drawn, Delivery
  <2>5. Fits(c)
      BY <1>2, <1>5, <2>2, <2>4 DEF Fits, BraneStands
  <2>6. QED
      BY <1>1, <2>4, <2>5, QuietStep
<1>6. QED
    BY <1>3, <1>4, <1>5 DEF Begin
-----------------------------------------------------------------------------
(* Steps of a delivery with the store *)

LEMMA Added ==
    ASSUME NEW rows, NEW i, NEW row
    PROVE  /\ DOMAIN With(rows, i, row) = DOMAIN rows \cup {i} /\ With(rows, i, row)[i] = row
           /\ \A j \in DOMAIN rows : j # i => With(rows, i, row)[j] = rows[j]
           /\ With(rows, i, row) = [j \in DOMAIN With(rows, i, row) |-> With(rows, i, row)[j]]
    BY DEF With

LEMMA Removed ==
    ASSUME NEW rows, NEW i
    PROVE  /\ DOMAIN Without(rows, i) = DOMAIN rows \ {i}
           /\ \A j \in DOMAIN rows : j # i => Without(rows, i)[j] = rows[j]
           /\ Without(rows, i) = [j \in DOMAIN Without(rows, i) |-> Without(rows, i)[j]]
    BY DEF Without

LEMMA ObjectsRest == ASSUME ImportsInv, UNCHANGED objects PROVE ObjectsGrow
    BY DEF ImportsInv, ImportShapes, ObjectsGrow

LEMMA ObjectAdded ==
    ASSUME ImportsInv, NEW i \in HeldIds, i \notin DOMAIN objects, NEW w \in BOOLEAN,
           objects' = With(objects, i, [file |-> calls[i].file, whole |-> w])
    PROVE  ObjectsGrow /\ i \in DOMAIN objects' /\ objects'[i] = [file |-> calls[i].file, whole |-> w]
<1> DEFINE row == [file |-> calls[i].file, whole |-> w]
<1>1. calls[i].file \in Files
    BY Typed DEF ImportsInv, ImportShapes, HeldIds
<1>2. row \in [file : Files, whole : BOOLEAN] /\ row.file = calls[i].file
    BY <1>1
<1>a. objects' = With(objects, i, row)
    OBVIOUS
<1> HIDE DEF row
<1>3. /\ DOMAIN objects' = DOMAIN objects \cup {i} /\ objects'[i] = row
      /\ \A j \in DOMAIN objects : objects'[j] = objects[j]
      /\ objects' = [j \in DOMAIN objects' |-> objects'[j]]
    BY <1>a DEF With
<1>4. objects' \in [DOMAIN objects' -> [file : Files, whole : BOOLEAN]]
  <2>1. \A j \in DOMAIN objects : objects[j] \in [file : Files, whole : BOOLEAN]
      BY DEF ImportsInv, ImportShapes
  <2>2. \A j \in DOMAIN objects' : objects'[j] \in [file : Files, whole : BOOLEAN]
      BY <1>2, <1>3, <2>1
  <2>3. QED
      BY <1>3, <2>2
<1>5. QED
    BY <1>2, <1>3, <1>4 DEF ObjectsGrow, row

\* A step of one delivery, which may add an object of what it holds.
LEMMA StoreStep ==
    ASSUME ImportsInv, NEW c \in Drawn, Only(c), Fits(c), ObjectsGrow,
           late' = late \/ (late' = late \cup {calls[c].asset} /\ calls[c].asset \in HeldIds
                              /\ (OfGuest(c) => guest.age # "over")),
           faults' \in [crashes : 0..MaxCrashes, store : 0..MaxStoreFaults],
           UNCHANGED <<up, ops, assets, intents, debts, guest, made>>
    PROVE  ImportsInv'
<1>1. late' \subseteq Drawn /\ \A i \in late' : i \in HeldIds /\ (OfGuest(i) => guest.age # "over")
    BY Typed DEF ImportsInv, ImportShapes, Stored, SameBytes
<1>2. up \in BOOLEAN
    BY DEF ImportsInv, ImportShapes
<1>3. DeliveryMoves
    BY <1>1, <1>2 DEF DeliveryMoves, Only
<1>4. QED
    BY <1>3, DeliveryStep

\* What a delivery knows that works with the store.
LEMMA AtStore ==
    ASSUME ImportsInv, NEW c \in Drawn, calls[c].phase \in {"get", "put", "writing", "finish"}
    PROVE  /\ up /\ calls[c].asset \in HeldIds /\ calls[calls[c].asset].file = calls[c].file
           /\ ~(guest.purged /\ OfGuest(c)) /\ calls[c].phase # "ended"
    BY Typed DEF Works, SameBytes, ImportsInv, Purged, Working, InHand

\* It goes on to another stage, or is done.
LEMMA StageFits ==
    ASSUME ImportsInv, NEW c \in Drawn, calls[c].phase \in {"get", "put", "writing", "finish"},
           calls'[c].asset = calls[c].asset, calls'[c].phase \in {"put", "writing", "finish"},
           calls'[c].phase = "writing" => calls[c].asset \in DOMAIN objects',
           calls'[c].phase = "finish" =>
             calls[c].asset \in DOMAIN objects' /\ objects'[calls[c].asset] = [file |-> calls[c].file, whole |-> TRUE]
    PROVE  Fits(c)
    BY AtStore, Typed DEF Fits

LEMMA StagesTyped == {"put", "writing", "finish"} \subseteq Phases
    BY DEF Phases, InHand

LEMMA FaultsTyped ==
    ASSUME ImportsInv
    PROVE  /\ faults \in [crashes : 0..MaxCrashes, store : 0..MaxStoreFaults]
           /\ faults.store < MaxStoreFaults =>
                [faults EXCEPT !.store = @ + 1] \in [crashes : 0..MaxCrashes, store : 0..MaxStoreFaults]
           /\ faults.crashes < MaxCrashes =>
                [faults EXCEPT !.crashes = @ + 1] \in [crashes : 0..MaxCrashes, store : 0..MaxStoreFaults]
    BY DEF ImportsInv, ImportShapes

LEMMA GetKeeps == ASSUME ImportsInv, NEW c \in Drawn, Get(c) PROVE ImportsInv'
<1>1. /\ calls[c].phase = "get"
      /\ UNCHANGED <<up, ops, assets, intents, debts, objects, late, guest, made, faults>>
    BY DEF Get
<1>2. CASE Answer(c, "corrupt")
    BY <1>1, <1>2, Refused
<1>3. CASE Stage(c, "put")
  <2>1. Only(c) /\ calls'[c].phase = "put" /\ calls'[c].asset = calls[c].asset
      BY <1>3, StageIs, StagesTyped
  <2>2. QED
      BY <1>1, <2>1, StageFits, QuietStep
<1>4. CASE Trusted(calls[c].asset, calls[c].file) /\ Stage(c, "finish")
  <2>1. Only(c) /\ calls'[c].phase = "finish" /\ calls'[c].asset = calls[c].asset
      BY <1>4, StageIs, StagesTyped
  <2>2. Fits(c)
      BY <1>1, <1>4, <2>1, StageFits DEF Trusted
  <2>3. QED
      BY <1>1, <2>1, <2>2, QuietStep
<1>5. QED
    BY <1>2, <1>3, <1>4 DEF Get

LEMMA PutKeeps == ASSUME ImportsInv, NEW c \in Drawn, Put(c) PROVE ImportsInv'
<1>1. calls[c].phase = "put" /\ UNCHANGED <<up, ops, assets, intents, debts, late, guest, made, faults>>
    BY DEF Put
<1>2. CASE Answer(c, "corrupt") /\ UNCHANGED objects
    BY <1>1, <1>2, Refused
<1>3. CASE Trusted(calls[c].asset, calls[c].file) /\ Stage(c, "finish") /\ UNCHANGED objects
  <2>1. Only(c) /\ calls'[c].phase = "finish" /\ calls'[c].asset = calls[c].asset
      BY <1>3, StageIs, StagesTyped
  <2>2. Fits(c)
      BY <1>1, <1>3, <2>1, StageFits DEF Trusted
  <2>3. QED
      BY <1>1, <1>3, <2>1, <2>2, QuietStep
<1>4. CASE /\ calls[c].asset \notin DOMAIN objects
           /\ objects' = With(objects, calls[c].asset, [file |-> calls[c].file, whole |-> Whole])
           /\ Stage(c, IF Whole THEN "finish" ELSE "writing")
  <2>1. PICK phase \in {"finish", "writing"} : phase = IF Whole THEN "finish" ELSE "writing"
      OBVIOUS
  <2>2. Only(c) /\ calls'[c].phase = phase /\ calls'[c].asset = calls[c].asset
      BY <1>4, <2>1, StageIs, StagesTyped
  <2>3. calls[c].asset \in HeldIds /\ calls[calls[c].asset].file = calls[c].file
      BY <1>1, AtStore
  <2>4. /\ ObjectsGrow /\ calls[c].asset \in DOMAIN objects'
        /\ objects'[calls[c].asset] = [file |-> calls[c].file, whole |-> Whole]
      BY <1>4, <2>3, ObjectAdded
  <2>5. phase = "finish" => Whole = TRUE
      BY <2>1
  <2>6. Fits(c)
      BY <1>1, <2>2, <2>4, <2>5, StageFits
  <2>7. QED
      BY <1>1, <2>2, <2>4, <2>6, StoreStep, FaultsTyped
<1>5. QED
    BY <1>2, <1>3, <1>4 DEF Put

LEMMA WrittenKeeps == ASSUME ImportsInv, NEW c \in Drawn, Written(c) PROVE ImportsInv'
<1>1. /\ calls[c].phase = "writing" /\ Stage(c, "finish")
      /\ objects' = [objects EXCEPT ![calls[c].asset].whole = TRUE]
      /\ UNCHANGED <<up, ops, assets, intents, debts, late, guest, made, faults>>
    BY DEF Written
<1>2. Only(c) /\ calls'[c].phase = "finish" /\ calls'[c].asset = calls[c].asset
    BY <1>1, StageIs, StagesTyped
<1>3. PICK i \in DOMAIN objects : i = calls[c].asset
    BY <1>1, Typed DEF Works
<1>4. i \in Drawn /\ objects[i].file = calls[c].file /\ objects[i] \in [file : Files, whole : BOOLEAN]
    BY <1>1, <1>3, AtStore, Typed DEF ImportsInv, Origins, ImportShapes
<1>5. /\ DOMAIN objects' = DOMAIN objects /\ objects'[i] \in [file : Files, whole : BOOLEAN]
      /\ objects'[i].file = calls[c].file /\ objects'[i].whole = TRUE
      /\ \A j \in DOMAIN objects \ {i} : objects'[j] = objects[j]
    BY <1>1, <1>3, <1>4 DEF ImportsInv, ImportShapes
<1>6. objects'[i] = [file |-> calls[c].file, whole |-> TRUE]
    BY <1>5, ObjectIs
<1>7. objects' \in [DOMAIN objects' -> [file : Files, whole : BOOLEAN]]
  <2>1. objects' = [j \in DOMAIN objects' |-> objects'[j]]
      BY <1>1 DEF ImportsInv, ImportShapes
  <2>2. QED
      BY <1>5, <2>1 DEF ImportsInv, ImportShapes
<1>8. ObjectsGrow
    BY <1>4, <1>5, <1>7 DEF ObjectsGrow
<1>9. Fits(c)
    BY <1>1, <1>2, <1>3, <1>5, <1>6, StageFits
<1>10. QED
    BY <1>1, <1>2, <1>8, <1>9, StoreStep, FaultsTyped

LEMMA StoreFailsKeeps == ASSUME ImportsInv, NEW c \in Drawn, StoreFails(c) PROVE ImportsInv'
<1>1. /\ calls[c].phase \in {"get", "put", "writing"} /\ Answer(c, "refused")
      /\ faults' \in [crashes : 0..MaxCrashes, store : 0..MaxStoreFaults]
      /\ UNCHANGED <<up, ops, assets, intents, debts, guest, made>>
    BY FaultsTyped DEF StoreFails
<1>2. Only(c) /\ calls'[c].phase = "ended" /\ calls'[c].asset = calls[c].asset
    BY <1>1, AnswerIs
<1>3. Fits(c)
    BY <1>1, <1>2, EndFits
<1>4. calls[c].asset \in HeldIds /\ calls[calls[c].asset].file = calls[c].file
    BY <1>1, AtStore
<1>5. \/ UNCHANGED <<objects, late>>
      \/ /\ calls[c].asset \notin DOMAIN objects
         /\ objects' = With(objects, calls[c].asset, [file |-> calls[c].file, whole |-> Whole]) /\ UNCHANGED late
      \/ /\ OfGuest(c) => guest.age # "over"
         /\ late' = late \cup {calls[c].asset} /\ UNCHANGED objects
    BY DEF StoreFails
<1>6. ObjectsGrow
    BY <1>4, <1>5, ObjectsRest, ObjectAdded
<1>7. QED
    BY <1>1, <1>2, <1>3, <1>4, <1>5, <1>6, StoreStep

LEMMA LandsKeeps == ASSUME ImportsInv, NEW i \in late, Lands(i) PROVE ImportsInv'
<1>1. /\ late' = late \ {i}
      /\ objects' = IF i \in DOMAIN objects THEN objects ELSE With(objects, i, [file |-> intents[i].file, whole |-> TRUE])
      /\ UNCHANGED <<up, calls, ops, assets, intents, debts, guest, made, faults>>
    BY DEF Lands
<1>2. i \in HeldIds
    BY DEF ImportsInv, Stored
<1>3. ObjectsGrow
  <2>1. CASE i \notin DOMAIN objects
    <3>1. i \in DOMAIN intents /\ intents[i] = Birth(i)
        BY <1>2, <2>1 DEF HeldIds, ImportsInv, Stored, AssetsStored, Origins
    <3>2. intents[i].file = calls[i].file
        BY <3>1 DEF Birth
    <3>3. QED
        BY <1>1, <1>2, <2>1, <3>2, ObjectAdded
  <2>2. QED
      BY <1>1, <2>1, ObjectsRest
<1>4. DeliveryMoves
    BY <1>1, <1>3 DEF DeliveryMoves, Drawn, ImportsInv, ImportShapes, Stored
<1>5. QED
    BY <1>4, DeliveryStep

-----------------------------------------------------------------------------
(* The process and the guest *)

LEMMA CrashKeeps == ASSUME ImportsInv, ServerCrash PROVE ImportsInv'
<1>1. /\ up' = FALSE
      /\ calls' = [c \in Drawn |-> IF calls[c].phase = "ended" THEN calls[c]
                                   ELSE [calls[c] EXCEPT !.phase = "ended", !.answer = "none"]]
      /\ faults' \in [crashes : 0..MaxCrashes, store : 0..MaxStoreFaults]
      /\ UNCHANGED <<ops, assets, intents, debts, objects, late, guest, made>>
    BY FaultsTyped DEF ServerCrash, Drawn
<1>2. ASSUME NEW c \in Drawn
      PROVE  /\ calls'[c] \in Delivery /\ calls'[c].phase = "ended" /\ calls'[c].asset = calls[c].asset
             /\ calls'[c].key = calls[c].key /\ calls'[c].file = calls[c].file
             /\ calls'[c] = calls[c] \/ calls[c].phase # "ended"
  <2>1. calls[c] \in Delivery /\ "ended" \in Phases
      BY Typed DEF Phases
  <2>2. QED
      BY <1>1, <2>1 DEF Delivery
<1>3. \A c \in Drawn : calls'[c] = calls[c] \/ Fits(c)
    BY <1>2, EndFits
<1>4. Drawn' = Drawn /\ calls' \in [Drawn -> Delivery]
    BY <1>1, <1>2 DEF Drawn
<1>5. DeliveryMoves
    BY <1>1, <1>2, <1>3, <1>4, ObjectsRest DEF DeliveryMoves, ImportsInv, ImportShapes, Stored
<1>6. QED
    BY <1>5, DeliveryStep

LEMMA BootKeeps == ASSUME ImportsInv, Boot PROVE ImportsInv'
<1>1. \A c \in Drawn : calls[c].phase = "ended"
    BY Typed DEF Boot, Works
<1>2. DeliveryMoves
    BY <1>1, ObjectsRest DEF Boot, DeliveryMoves, Drawn, ImportsInv, ImportShapes, Stored
<1>3. QED
    BY <1>2, DeliveryStep

\* A guest library that is not purged grows older, or gets an owner.
LEMMA GuestStep ==
    ASSUME ImportsInv, ~guest.purged, guest' \in [age : Ages, claimed : BOOLEAN, purged : {FALSE}],
           guest.claimed => guest'.claimed, guest'.age = "over" => guest.age = "over" \/ late = {},
           UNCHANGED <<up, calls, ops, assets, intents, debts, objects, late, made, faults>>
    PROVE  ImportsInv'
<1>1. ImportShapes'
    BY DEF ImportsInv, ImportShapes, Drawn
<1>2. Origins'
    BY DEF ImportsInv, Origins, Drawn, SameBytes, Birth, OfGuest
<1>3. Apart'
    BY DEF ImportsInv, Apart, HeldIds, SameBytes, OfGuest
<1>4. Purged'
    BY DEF Purged
<1>5. \A c \in Drawn' : Works(c)'
    BY DEF ImportsInv, Works, Trusted, HeldIds, Drawn
<1>6. Stored'
    BY DEF ImportsInv, Stored, NoOrphans, AssetsStored, HeldIds, OfGuest
<1>7. Receipts'
    BY DEF ImportsInv, Receipts, Receipted
<1>8. Charged'
  <2>1. ChargedTo(TRUE)' = ChargedTo(TRUE) /\ ChargedTo(FALSE)' = ChargedTo(FALSE)
      BY DEF ChargedTo, HeldIds, OfGuest
  <2>2. QED
      BY <2>1 DEF ImportsInv, Charged
<1>9. QED
    BY <1>1, <1>2, <1>3, <1>4, <1>5, <1>6, <1>7, <1>8 DEF ImportsInv

LEMMA GrowsKeeps == ASSUME ImportsInv, Grows PROVE ImportsInv'
<1>1. guest \in [age : Ages, claimed : BOOLEAN, purged : BOOLEAN]
    BY DEF ImportsInv, ImportShapes
<1>2. ~guest.purged
    BY DEF Grows, ImportsInv, Purged
<1>3. QED
    BY <1>1, <1>2, GuestStep DEF Grows, Ages

LEMMA ClaimGuestKeeps == ASSUME ImportsInv, ClaimGuest PROVE ImportsInv'
<1>1. guest \in [age : Ages, claimed : BOOLEAN, purged : BOOLEAN]
    BY DEF ImportsInv, ImportShapes
<1>2. QED
    BY <1>1, GuestStep DEF ClaimGuest, Ages
-----------------------------------------------------------------------------
(* What is charged *)

LEMMA FinitelyMany ==
    ASSUME ImportsInv
    PROVE  /\ IsFiniteSet(Drawn) /\ HeldIds \cup DOMAIN debts \subseteq Drawn
           /\ \A S : S \subseteq Drawn => IsFiniteSet(S) /\ Cardinality(S) \in Nat
<1>1. PICK n \in Nat : Drawn = 1..n
    BY DEF ImportsInv, ImportShapes
<1>2. IsFiniteSet(1..n)
    BY FS_Interval
<1>3. HeldIds \cup DOMAIN debts \subseteq Drawn
    BY DEF ImportsInv, ImportShapes, HeldIds
<1>4. QED
    BY <1>1, <1>2, <1>3, FS_Subset, FS_CardinalityType

\* Two finite sets apart count together.
LEMMA Together ==
    ASSUME NEW S, IsFiniteSet(S), NEW T, IsFiniteSet(T), S \cap T = {}
    PROVE  IsFiniteSet(S \cup T) /\ Cardinality(S \cup T) = Cardinality(S) + Cardinality(T)
<1>1. Cardinality(S \cap T) = 0
    BY FS_EmptySet
<1>2. Cardinality(S) \in Nat /\ Cardinality(T) \in Nat
    BY FS_CardinalityType
<1>3. Cardinality(S \cup T) = Cardinality(S) + Cardinality(T) - Cardinality(S \cap T) /\ IsFiniteSet(S \cup T)
    BY FS_Union
<1>4. QED
    BY <1>1, <1>2, <1>3

LEMMA UsageIs ==
    ASSUME ImportsInv, NEW g \in BOOLEAN
    PROVE  Usage(g) = Cardinality(ChargedTo(g))
<1> DEFINE a == {i \in DOMAIN assets : assets[i].guest = g}
           n == {i \in DOMAIN intents : intents[i].guest = g}
           d == {i \in DOMAIN debts : debts[i].guest = g}
<1>1. Usage(g) = Cardinality(a) + Cardinality(n) + Cardinality(d)
    BY DEF Usage, Bytes
<1>2. /\ \A i \in DOMAIN assets : assets[i].guest = OfGuest(i)
      /\ \A i \in DOMAIN intents : intents[i].guest = OfGuest(i)
      /\ \A i \in DOMAIN debts : debts[i].guest = OfGuest(i)
    BY DEF ImportsInv, Origins, Birth
<1>3. ChargedTo(g) = (a \cup n) \cup d
    BY <1>2 DEF ChargedTo, HeldIds
<1>4. a \cap n = {} /\ (a \cup n) \cap d = {}
    BY DEF ImportsInv, Apart, HeldIds
<1>5. a \subseteq Drawn /\ n \subseteq Drawn /\ d \subseteq Drawn
    BY FinitelyMany DEF HeldIds
<1> HIDE DEF a, n, d
<1>6. IsFiniteSet(a) /\ IsFiniteSet(n) /\ IsFiniteSet(d)
    BY <1>5, FinitelyMany
<1>7. IsFiniteSet(a \cup n) /\ Cardinality(a \cup n) = Cardinality(a) + Cardinality(n)
    BY <1>4, <1>6, Together
<1>8. Cardinality((a \cup n) \cup d) = Cardinality(a \cup n) + Cardinality(d)
    BY <1>4, <1>6, <1>7, Together
<1>9. QED
    BY <1>1, <1>3, <1>7, <1>8

LEMMA ChargedFinite ==
    ASSUME ImportsInv
    PROVE  \A g : IsFiniteSet(ChargedTo(g)) /\ Cardinality(ChargedTo(g)) \in Nat
<1>1. ASSUME NEW g PROVE ChargedTo(g) \subseteq Drawn
    BY FinitelyMany DEF ChargedTo
<1>2. QED
    BY <1>1, FinitelyMany

\* Charging less keeps what is charged within its limits.
LEMMA ChargedLess ==
    ASSUME ImportsInv, guest' = guest, ChargedTo(TRUE)' \subseteq ChargedTo(TRUE), ChargedTo(FALSE)' \subseteq ChargedTo(FALSE)
    PROVE  Charged'
<1> DEFINE s == ChargedTo(TRUE)
           t == ChargedTo(FALSE)
           s1 == ChargedTo(TRUE)'
           t1 == ChargedTo(FALSE)'
<1>1. /\ Cardinality(s) + Cardinality(t) <= TotalBytes
      /\ guest.claimed \/ Cardinality(s) <= GuestBytes
      /\ TotalBytes \in Nat /\ GuestBytes \in Nat
    BY DEF ImportsInv, Charged
<1>2. IsFiniteSet(s) /\ IsFiniteSet(t) /\ Cardinality(s) \in Nat /\ Cardinality(t) \in Nat
    BY ChargedFinite
<1>3. s1 \subseteq s /\ t1 \subseteq t
    OBVIOUS
<1> HIDE DEF s, t, s1, t1
<1>4. Cardinality(s1) <= Cardinality(s) /\ Cardinality(t1) <= Cardinality(t)
    BY <1>2, <1>3, FS_Subset
<1>5. Cardinality(s1) \in Nat /\ Cardinality(t1) \in Nat
    BY <1>2, <1>3, FS_Subset, FS_CardinalityType
<1>6. Cardinality(s1) + Cardinality(t1) <= TotalBytes /\ (guest.claimed \/ Cardinality(s1) <= GuestBytes)
    BY <1>1, <1>2, <1>4, <1>5
<1>7. QED
    BY <1>6 DEF Charged, s1, t1

-----------------------------------------------------------------------------
(* Steps that move rows *)

\* Deliveries stand for what they stood for.
Kept ==
    /\ Drawn' = Drawn /\ calls' \in [Drawn -> Delivery]
    /\ \A d \in Drawn : calls'[d].key = calls[d].key /\ calls'[d].file = calls[d].file

LEMMA KeptIs ==
    ASSUME ImportsInv, Kept
    PROVE  /\ \A d \in Drawn : OfGuest(d)' = OfGuest(d) /\ Birth(d)' = Birth(d)
           /\ \A i, j \in Drawn : SameBytes(i, j)' <=> SameBytes(i, j)
    BY DEF Kept, OfGuest, Birth, SameBytes

\* A delivery c puts the identity i under its key.
RowsMove(c, i, ready) ==
    /\ Only(c) /\ calls'[c].asset = i /\ calls'[c].phase \in {"get", "ended"}
    /\ i \in Drawn /\ SameBytes(c, i) /\ BraneStands(c) /\ up
    /\ assets' \in [DOMAIN assets' -> Rows] /\ \A j \in DOMAIN assets' : assets'[j] = Birth(j)
    /\ intents' \in [DOMAIN intents' -> Rows] /\ \A j \in DOMAIN intents' : intents'[j] = Birth(j)
    /\ DOMAIN assets \subseteq DOMAIN assets' /\ DOMAIN assets' \cap DOMAIN intents' = {}
    /\ HeldIds' = HeldIds \cup {i}
    /\ i \notin HeldIds => \A j \in HeldIds : ~SameBytes(i, j)
    /\ \A j \in DOMAIN assets' \ DOMAIN assets : Trusted(j, calls[j].file)
    /\ ops' = [ops EXCEPT ![calls[c].key] = [file |-> calls[c].file, asset |-> i, ready |-> ready]]
    /\ ready \in BOOLEAN /\ (ready => i \in DOMAIN assets')
    /\ made' \in [Keys -> Nat]
    /\ \A k \in Keys : (made'[k] = made[k] /\ k # calls[c].key) \/ made'[k] = 0 \/ (made'[k] = 1 /\ k = calls[c].key /\ ready)
    /\ Charged'
    /\ UNCHANGED <<up, debts, objects, late, guest, faults>>

LEMMA RowsStep ==
    ASSUME ImportsInv, NEW c \in Drawn, NEW i, NEW ready, RowsMove(c, i, ready)
    PROVE  ImportsInv'
<1> USE DEF RowsMove
<1>1. Kept /\ Drawn' = Drawn
    BY Typed DEF Only, Kept
<1>2. /\ \A d \in Drawn : OfGuest(d)' = OfGuest(d) /\ Birth(d)' = Birth(d)
      /\ \A j, l \in Drawn : SameBytes(j, l)' <=> SameBytes(j, l)
    BY <1>1, KeptIs
<1>3. HeldIds \subseteq Drawn /\ HeldIds' \subseteq Drawn /\ DOMAIN debts \subseteq Drawn
    BY FinitelyMany
<1>4. calls[c].key \in Keys /\ calls[c].file \in Files /\ i \in Ids
    BY Typed, InIds
<1>5. [file |-> calls[c].file, asset |-> i, ready |-> ready] \in Operation
    BY <1>4 DEF Operation
<1>6. ImportShapes'
  <2>1. ops' \in [Keys -> Operation \cup {Absent}]
      BY <1>4, <1>5 DEF ImportsInv, ImportShapes
  <2>2. DOMAIN assets' \cup DOMAIN intents' \cup DOMAIN debts' \cup late' \subseteq Drawn
      BY <1>3 DEF HeldIds, ImportsInv, ImportShapes
  <2>3. QED
      BY <1>1, <2>1, <2>2 DEF Only, ImportsInv, ImportShapes
<1>7. Origins'
  <2>1. ASSUME NEW d \in Drawn PROVE calls'[d].asset \in Drawn /\ SameBytes(d, calls'[d].asset)
      BY DEF ImportsInv, Origins, Only
  <2>2. ASSUME NEW d \in Drawn PROVE SameBytes(d, calls[d].asset)'
      BY <1>2, <2>1 DEF SameBytes
  <2>3. ASSUME NEW k \in Keys, ops'[k] # Absent
        PROVE  ops'[k].asset \in Drawn /\ ops'[k].file = calls'[ops'[k].asset].file /\ (k \in GuestKeys <=> OfGuest(ops[k].asset)')
    <3>1. CASE k = calls[c].key
      <4>1. ops'[k] = [file |-> calls[c].file, asset |-> i, ready |-> ready]
          BY <1>4, <3>1 DEF ImportsInv, ImportShapes
      <4>2. calls'[i].file = calls[c].file /\ calls'[i].key = calls[i].key
          BY <1>1 DEF SameBytes, Kept
      <4>3. QED
          BY <3>1, <4>1, <4>2 DEF SameBytes, OfGuest
    <3>2. CASE k # calls[c].key
      <4>1. ops'[k] = ops[k]
          BY <3>2 DEF ImportsInv, ImportShapes
      <4>2. QED
          BY <1>1, <2>3, <4>1 DEF ImportsInv, Origins, OfGuest, Kept
    <3>3. QED
        BY <3>1, <3>2
  <2>4. /\ \A j \in DOMAIN assets' : assets'[j] = Birth(j)'
        /\ \A j \in DOMAIN intents' : intents'[j] = Birth(j)'
        /\ \A j \in DOMAIN debts' : debts'[j] = Birth(j)'
      BY <1>2, <1>3 DEF ImportsInv, Origins, HeldIds
  <2>5. \A j \in DOMAIN objects' : j \in Drawn' => objects'[j].file = calls'[j].file
      BY <1>1 DEF ImportsInv, Origins, Kept
  <2>6. QED
      BY <1>1, <2>1, <2>2, <2>3, <2>4, <2>5 DEF Origins
<1>8. i \notin DOMAIN debts /\ ~(guest.purged /\ OfGuest(i))
    BY DEF ImportsInv, Apart, BraneStands, SameBytes
<1>9. Apart'
  <2>1. ASSUME NEW j \in HeldIds', NEW l \in HeldIds', SameBytes(j, l) PROVE j = l
      BY <2>1 DEF ImportsInv, Apart, SameBytes
  <2>2. DOMAIN debts \cap HeldIds' = {}
      BY <1>8 DEF ImportsInv, Apart
  <2>3. QED
      BY <1>2, <1>3, <2>1, <2>2 DEF ImportsInv, Apart
<1>10. Purged'
  <2>1. SUFFICES ASSUME guest.purged
                 PROVE  /\ guest.age = "over" /\ ~guest.claimed
                        /\ \A j \in HeldIds' : ~OfGuest(j)'
                        /\ \A k \in Keys : k \in GuestKeys => ops'[k] = Absent
                        /\ \A d \in Drawn : OfGuest(d)' => ~Working(d)'
      BY <1>1 DEF Purged
  <2>2. ~OfGuest(c) /\ calls[c].key \notin GuestKeys
      BY <2>1 DEF BraneStands, OfGuest
  <2>3. \A j \in HeldIds' : ~OfGuest(j)'
      BY <1>2, <1>3, <1>8, <2>1 DEF ImportsInv, Purged
  <2>4. \A k \in Keys : k \in GuestKeys => ops'[k] = Absent
      BY <2>1, <2>2 DEF ImportsInv, Purged, ImportShapes
  <2>5. ASSUME NEW d \in Drawn, OfGuest(d) PROVE ~Working(d)'
    <3>1. calls'[d] = calls[d]
        BY <2>2, <2>5 DEF Only
    <3>2. QED
        BY <2>1, <2>5, <3>1 DEF ImportsInv, Purged, Working
  <2>6. QED
      BY <1>2, <2>1, <2>3, <2>4, <2>5 DEF ImportsInv, Purged
<1>11. \A d \in Drawn' : Works(d)'
  <2>1. ASSUME NEW d \in Drawn, d # c PROVE Works(d)'
    <3>1. calls'[d] = calls[d] /\ Works(d)
        BY <2>1, Typed DEF Only
    <3>2. QED
        BY <1>1, <3>1 DEF Works, Trusted
  <2>2. Works(c)'
      BY DEF Works
  <2>3. QED
      BY <1>1, <2>1, <2>2
<1>12. Stored'
  <2>1. NoOrphans'
      BY DEF ImportsInv, Stored, NoOrphans, HeldIds
  <2>2. AssetsStored'
    <3>1. ASSUME NEW j \in DOMAIN assets' PROVE j \in DOMAIN objects /\ objects[j] = [file |-> assets'[j].file, whole |-> TRUE]
      <4>1. assets'[j].file = calls[j].file
          BY DEF Birth
      <4>2. CASE j \in DOMAIN assets
        <5>1. assets[j].file = calls[j].file
            BY <4>2 DEF ImportsInv, Origins, Birth
        <5>2. QED
            BY <4>1, <4>2, <5>1 DEF ImportsInv, Stored, AssetsStored
      <4>3. CASE j \notin DOMAIN assets
          BY <4>1, <4>3 DEF Trusted
      <4>4. QED
          BY <4>2, <4>3
    <3>2. QED
        BY <3>1 DEF AssetsStored
  <2>3. \A j \in late' : j \in HeldIds' /\ (OfGuest(j)' => guest'.age # "over")
      BY <1>2, <1>3 DEF ImportsInv, Stored
  <2>4. QED
      BY <2>1, <2>2, <2>3 DEF Stored
<1>13. Receipts'
  <2>1. SUFFICES ASSUME NEW k \in Keys
                 PROVE  /\ ops'[k] # Absent /\ ops'[k].ready => ops'[k].asset \in DOMAIN assets'
                        /\ made'[k] <= 1
                        /\ made'[k] = 1 => Receipted(k)'
      BY DEF Receipts
  <2>2. CASE k = calls[c].key
    <3>1. ops'[k] = [file |-> calls[c].file, asset |-> i, ready |-> ready] /\ ops'[k] # Absent
        BY <1>4, <1>5, <2>2 DEF ImportsInv, ImportShapes, Operation, Ids
    <3>2. QED
        BY <2>2, <3>1 DEF Receipted
  <2>3. CASE k # calls[c].key
    <3>1. ops'[k] = ops[k]
        BY <2>3 DEF ImportsInv, ImportShapes
    <3>2. QED
        BY <2>3, <3>1 DEF ImportsInv, Receipts, Receipted
  <2>4. QED
      BY <2>2, <2>3
<1>14. QED
    BY <1>6, <1>7, <1>9, <1>10, <1>11, <1>12, <1>13 DEF ImportsInv
LEMMA HeldIs ==
    ASSUME ImportsInv, NEW c \in Drawn
    PROVE  /\ Held(c) \subseteq HeldIds /\ \A j \in Held(c) : SameBytes(c, j)
           /\ Held(c) = {} => \A j \in HeldIds : ~SameBytes(c, j)
<1> DEFINE row == [file |-> calls[c].file, guest |-> OfGuest(c)]
<1>1. ASSUME NEW j \in Drawn PROVE Birth(j) = row <=> SameBytes(c, j)
  <2>1. OfGuest(c) \in BOOLEAN /\ OfGuest(j) \in BOOLEAN
      BY DEF OfGuest
  <2>2. Birth(j).file = calls[j].file /\ Birth(j).guest = OfGuest(j)
      BY DEF Birth
  <2>3. ASSUME Birth(j) = row PROVE SameBytes(c, j)
      BY <2>2, <2>3 DEF SameBytes
  <2>4. ASSUME SameBytes(c, j) PROVE Birth(j) = row
      BY <2>1, <2>4 DEF SameBytes, Birth
  <2>5. QED
      BY <2>3, <2>4
<1> DEFINE a == OfFile(assets, calls[c].file, OfGuest(c))
           n == OfFile(intents, calls[c].file, OfGuest(c))
<1> HIDE DEF row
<1>2. a = {j \in DOMAIN assets : SameBytes(c, j)}
    BY <1>1, FinitelyMany DEF row, OfFile, ImportsInv, Origins, HeldIds
<1>3. n = {j \in DOMAIN intents : SameBytes(c, j)}
    BY <1>1, FinitelyMany DEF row, OfFile, ImportsInv, Origins, HeldIds
<1>4. Held(c) = IF a # {} THEN a ELSE n
    BY DEF Held
<1> HIDE DEF a, n
<1>5. QED
    BY <1>2, <1>3, <1>4 DEF HeldIds

\* A further identity of the library g, for which there is room.
LEMMA ChargedMore ==
    ASSUME ImportsInv, NEW c \in Drawn, NEW i \in Drawn, SameBytes(c, i), i \notin HeldIds \cup DOMAIN debts,
           Room(OfGuest(c)), \A j \in Drawn : OfGuest(j)' = OfGuest(j),
           HeldIds' = HeldIds \cup {i}, UNCHANGED <<debts, guest>>
    PROVE  Charged'
<1> DEFINE g  == OfGuest(c)
           s  == ChargedTo(TRUE)
           t  == ChargedTo(FALSE)
           s1 == ChargedTo(TRUE)'
           t1 == ChargedTo(FALSE)'
<1>1. g \in BOOLEAN /\ OfGuest(i) = g
    BY DEF OfGuest, SameBytes
<1>2. (g => s1 = s \cup {i} /\ t1 = t) /\ (~g => s1 = s /\ t1 = t \cup {i})
    BY <1>1, FinitelyMany DEF ChargedTo
<1>3. i \notin s /\ i \notin t
    BY DEF ChargedTo
<1>4. /\ g /\ ~guest.claimed => Cardinality(s) + 1 <= GuestBytes
      /\ Cardinality(s) + Cardinality(t) + 1 <= TotalBytes
    BY <1>1, UsageIs DEF Room
<1>5. guest.claimed \/ Cardinality(s) <= GuestBytes
    BY DEF ImportsInv, Charged
<1>6. IsFiniteSet(s) /\ IsFiniteSet(t) /\ Cardinality(s) \in Nat /\ Cardinality(t) \in Nat
    BY ChargedFinite
<1> HIDE DEF g, s, t, s1, t1
<1>7. Cardinality(s \cup {i}) = Cardinality(s) + 1 /\ Cardinality(t \cup {i}) = Cardinality(t) + 1
    BY <1>3, <1>6, FS_AddElement
<1>8. TotalBytes \in Nat /\ GuestBytes \in Nat
    OBVIOUS
<1>9. Cardinality(s1) + Cardinality(t1) <= TotalBytes /\ (guest.claimed \/ Cardinality(s1) <= GuestBytes)
  <2>1. CASE g
    <3>1. s1 = s \cup {i} /\ t1 = t /\ Cardinality(s1) = Cardinality(s) + 1
        BY <1>2, <1>7, <2>1
    <3>2. Cardinality(s1) + Cardinality(t1) <= TotalBytes
        BY <1>4, <1>6, <1>8, <3>1
    <3>3. ASSUME ~guest.claimed PROVE Cardinality(s1) <= GuestBytes
        BY <1>4, <2>1, <3>1, <3>3
    <3>4. QED
        BY <3>2, <3>3
  <2>2. CASE ~g
    <3>1. s1 = s /\ t1 = t \cup {i} /\ Cardinality(t1) = Cardinality(t) + 1
        BY <1>2, <1>7, <2>2
    <3>2. Cardinality(s1) + Cardinality(t1) <= TotalBytes
        BY <1>4, <1>6, <1>8, <3>1
    <3>3. QED
        BY <1>5, <3>1, <3>2
  <2>3. QED
      BY <2>1, <2>2
<1>10. QED
    BY <1>9 DEF Charged, s1, t1

\* As many identities as before.
LEMMA ChargedSame ==
    ASSUME ImportsInv, \A j \in Drawn : OfGuest(j)' = OfGuest(j), HeldIds' = HeldIds, UNCHANGED <<debts, guest>>
    PROVE  Charged'
<1>1. ChargedTo(TRUE)' = ChargedTo(TRUE) /\ ChargedTo(FALSE)' = ChargedTo(FALSE)
    BY FinitelyMany DEF ChargedTo
<1>2. QED
    BY <1>1, ChargedLess

LEMMA ReserveKeeps == ASSUME ImportsInv, NEW c \in Drawn, Reserve(c) PROVE ImportsInv'
<1> DEFINE i == IF Held(c) = {} THEN calls[c].asset ELSE Min(Held(c))
           k == calls[c].key
<1>1. calls[c].phase = "parser" /\ UNCHANGED <<up, assets, debts, objects, late, guest, made, faults>>
    BY DEF Reserve
<1>2. CASE (Answer(c, "refused") \/ Answer(c, "receipt")) /\ UNCHANGED <<ops, intents>>
    BY <1>1, <1>2, Refused
<1>3. CASE /\ BraneStands(c) /\ ~Published(c) /\ (i \notin HeldIds => Room(OfGuest(c)))
           /\ intents' = IF i \in DOMAIN assets THEN intents
                         ELSE With(intents, i, [file |-> calls[c].file, guest |-> OfGuest(c)])
           /\ ops' = [ops EXCEPT ![k] = [file |-> calls[c].file, asset |-> i, ready |-> FALSE]]
           /\ calls' = [calls EXCEPT ![c].phase = "get", ![c].asset = i]
  <2>1. i \in Drawn /\ SameBytes(c, i) /\ (i \notin HeldIds => \A j \in HeldIds : ~SameBytes(i, j))
    <3>1. CASE Held(c) = {}
        BY <3>1, HeldIs, Typed DEF SameBytes
    <3>2. CASE Held(c) # {}
      <4>1. Held(c) \subseteq 0..MaxCalls /\ MaxCalls \in Nat
          BY HeldIs, FinitelyMany, InIds
      <4>2. i \in Held(c)
          BY <3>2, <4>1, MinIn
      <4>3. QED
          BY <4>2, HeldIs, FinitelyMany
    <3>3. QED
        BY <3>1, <3>2
  <2> HIDE DEF i
  <2>2. i \in Ids /\ up /\ calls[c].key \in Keys
      BY <1>1, <2>1, InIds, Typed DEF Works
  <2>3. Only(c) /\ calls'[c].asset = i /\ calls'[c].phase = "get"
    <3>1. calls[c] \in Delivery /\ calls \in [Drawn -> Delivery] /\ "get" \in Phases
        BY Typed DEF ImportsInv, ImportShapes, Phases, InHand
    <3>2. QED
        BY <1>3, <2>2, <3>1 DEF Only, Drawn, Delivery
  <2>4. /\ DOMAIN intents' = IF i \in DOMAIN assets THEN DOMAIN intents ELSE DOMAIN intents \cup {i}
        /\ intents' = [j \in DOMAIN intents' |-> intents'[j]]
        /\ \A j \in DOMAIN intents' : intents'[j] = Birth(j)
    <3>1. CASE i \in DOMAIN assets
        BY <1>3, <3>1 DEF ImportsInv, ImportShapes, Origins
    <3>2. CASE i \notin DOMAIN assets
      <4>1. [file |-> calls[c].file, guest |-> OfGuest(c)] = Birth(i)
        <5>1. calls[i].file = calls[c].file /\ OfGuest(i) = OfGuest(c)
            BY <2>1 DEF SameBytes, OfGuest
        <5>2. QED
            BY <5>1 DEF Birth
      <4>2. intents' = With(intents, i, Birth(i))
          BY <1>3, <3>2, <4>1
      <4>3. QED
          BY <3>2, <4>2 DEF With, ImportsInv, Origins
    <3>3. QED
        BY <3>1, <3>2
  <2>5. \A j \in Drawn : Birth(j) \in Rows
      BY Typed DEF Birth, Rows
  <2>6. HeldIds' = HeldIds \cup {i} /\ DOMAIN assets \cap DOMAIN intents' = {}
      BY <1>1, <2>4 DEF HeldIds, ImportsInv, Apart
  <2>7. intents' \in [DOMAIN intents' -> Rows]
      BY <2>1, <2>4, <2>5, <2>6, FinitelyMany DEF HeldIds
  <2>8. assets \in [DOMAIN assets -> Rows] /\ \A j \in DOMAIN assets : assets[j] = Birth(j)
      BY DEF ImportsInv, ImportShapes, Origins
  <2>9. \A j \in Drawn : OfGuest(j)' = OfGuest(j)
      BY <2>3, Typed DEF Only, OfGuest
  <2>10. Charged'
    <3>1. CASE i \in HeldIds
        BY <1>1, <2>6, <2>9, <3>1, ChargedSame
    <3>2. CASE i \notin HeldIds
      <4>1. i \notin DOMAIN debts
          BY <1>3, <2>1 DEF ImportsInv, Apart, BraneStands, SameBytes
      <4>2. QED
          BY <1>1, <1>3, <2>1, <2>6, <2>9, <3>2, <4>1, ChargedMore
    <3>3. QED
        BY <3>1, <3>2
  <2>11. made \in [Keys -> Nat] /\ \A l \in Keys : made[l] <= 1 /\ (made[l] = 1 => Receipted(l))
      BY DEF ImportsInv, ImportShapes, Receipts
  <2>12. made[k] = 0
      BY <1>3, <2>2, <2>11 DEF Published, Receipted, BraneStands, OfGuest
  <2>13. RowsMove(c, i, FALSE)
      BY <1>1, <1>3, <2>1, <2>2, <2>3, <2>4, <2>6, <2>7, <2>8, <2>10, <2>11, <2>12 DEF RowsMove
  <2>14. QED
      BY <2>13, RowsStep
<1>4. QED
    BY <1>2, <1>3 DEF Reserve, HeldIds

LEMMA FinishKeeps == ASSUME ImportsInv, NEW c \in Drawn, Finish(c) PROVE ImportsInv'
<1> DEFINE i == calls[c].asset
           k == calls[c].key
<1>1. calls[c].phase = "finish" /\ UNCHANGED <<up, debts, objects, late, guest, faults>>
    BY DEF Finish
<1>2. CASE (Answer(c, "refused") \/ Answer(c, "receipt")) /\ UNCHANGED <<ops, assets, intents, made>>
    BY <1>1, <1>2, Refused
<1>3. CASE /\ BraneStands(c) /\ ~Published(c) /\ Answer(c, "receipt")
           /\ assets' = IF i \in DOMAIN assets THEN assets ELSE With(assets, i, [file |-> calls[c].file, guest |-> OfGuest(c)])
           /\ intents' = Without(intents, i)
           /\ ops' = [ops EXCEPT ![k] = [file |-> calls[c].file, asset |-> i, ready |-> TRUE]]
           /\ made' = [made EXCEPT ![k] = @ + 1]
  <2>1. /\ i \in Drawn /\ i \in HeldIds /\ SameBytes(c, i) /\ up /\ k \in Keys
        /\ calls[i].file = calls[c].file /\ OfGuest(i) = OfGuest(c)
        /\ Trusted(i, calls[i].file)
    <3>1. i \in Drawn /\ SameBytes(c, i) /\ k \in Keys /\ Works(c)
        BY Typed
    <3>2. calls[i].file = calls[c].file /\ OfGuest(i) = OfGuest(c)
        BY <3>1 DEF SameBytes, OfGuest
    <3>3. QED
        BY <1>1, <3>1, <3>2 DEF Works
  <2>2. Only(c) /\ calls'[c].asset = i /\ calls'[c].phase = "ended"
      BY <1>3, AnswerIs
  <2> HIDE DEF i
  <2>3. [file |-> calls[c].file, guest |-> OfGuest(c)] = Birth(i)
      BY <2>1 DEF Birth
  <2>4. /\ DOMAIN assets' = DOMAIN assets \cup {i} /\ assets' = [j \in DOMAIN assets' |-> assets'[j]]
        /\ \A j \in DOMAIN assets' : assets'[j] = Birth(j)
    <3>1. CASE i \in DOMAIN assets
      <4>1. assets' = assets /\ DOMAIN assets \cup {i} = DOMAIN assets
          BY <1>3, <3>1
      <4>2. assets = [j \in DOMAIN assets |-> assets[j]]
          BY DEF ImportsInv, ImportShapes
      <4>3. \A j \in DOMAIN assets : assets[j] = Birth(j)
          BY DEF ImportsInv, Origins
      <4>4. QED
          BY <4>1, <4>2, <4>3
    <3>2. CASE i \notin DOMAIN assets
      <4>1. assets' = With(assets, i, Birth(i))
          BY <1>3, <2>3, <3>2
      <4>2. QED
          BY <3>2, <4>1 DEF With, ImportsInv, Origins
    <3>3. QED
        BY <3>1, <3>2
  <2>5. /\ DOMAIN intents' = DOMAIN intents \ {i} /\ intents' = [j \in DOMAIN intents' |-> intents'[j]]
        /\ \A j \in DOMAIN intents' : intents'[j] = Birth(j)
      BY <1>3 DEF Without, ImportsInv, Origins
  <2>6. \A j \in Drawn : Birth(j) \in Rows
      BY Typed DEF Birth, Rows
  <2>7. HeldIds' = HeldIds /\ HeldIds' = HeldIds \cup {i} /\ DOMAIN assets' \cap DOMAIN intents' = {}
      BY <2>1, <2>4, <2>5 DEF HeldIds, ImportsInv, Apart
  <2>8. HeldIds \subseteq Drawn
      BY FinitelyMany
  <2>9. assets' \in [DOMAIN assets' -> Rows] /\ intents' \in [DOMAIN intents' -> Rows]
    <3>1. DOMAIN assets' \subseteq Drawn /\ DOMAIN intents' \subseteq Drawn
        BY <2>7, <2>8 DEF HeldIds
    <3>2. QED
        BY <2>4, <2>5, <2>6, <3>1
  <2>10. \A j \in Drawn : OfGuest(j)' = OfGuest(j)
      BY <2>2, Typed DEF Only, OfGuest
  <2>11. Charged'
      BY <1>1, <2>7, <2>10, ChargedSame
  <2>12. made \in [Keys -> Nat] /\ \A l \in Keys : made[l] <= 1 /\ (made[l] = 1 => Receipted(l))
      BY DEF ImportsInv, ImportShapes, Receipts
  <2>13. made[k] = 0
      BY <1>3, <2>1, <2>12 DEF Published, Receipted, BraneStands, OfGuest
  <2>14. made' \in [Keys -> Nat] /\ made'[k] = 1 /\ \A l \in Keys : l # k => made'[l] = made[l]
      BY <1>3, <2>1, <2>12, <2>13
  <2>15. RowsMove(c, i, TRUE)
      BY <1>1, <1>3, <2>1, <2>2, <2>4, <2>5, <2>7, <2>9, <2>11, <2>14 DEF RowsMove
  <2>16. QED
      BY <2>15, RowsStep
<1>4. QED
    BY <1>2, <1>3 DEF Finish
\* Rows of reservations and deletions end, and objects are deleted.
Loses ==
    /\ DOMAIN intents' \subseteq DOMAIN intents /\ intents' = [j \in DOMAIN intents' |-> intents[j]]
    /\ DOMAIN debts' \subseteq DOMAIN debts /\ debts' = [j \in DOMAIN debts' |-> debts[j]]
    /\ DOMAIN objects' \subseteq DOMAIN objects /\ objects' = [j \in DOMAIN objects' |-> objects[j]]
    /\ DOMAIN assets \subseteq DOMAIN objects'
    /\ DOMAIN objects' \subseteq DOMAIN assets \cup DOMAIN intents' \cup DOMAIN debts'
    /\ \A c \in Drawn : Works(c)'
    /\ late \subseteq HeldIds'
    /\ faults' \in [crashes : 0..MaxCrashes, store : 0..MaxStoreFaults]
    /\ UNCHANGED <<up, calls, ops, assets, late, guest, made>>

LEMMA LossStep ==
    ASSUME ImportsInv, Loses
    PROVE  ImportsInv'
<1>1. /\ \A j \in DOMAIN intents' : intents'[j] = intents[j]
      /\ \A j \in DOMAIN debts' : debts'[j] = debts[j]
      /\ \A j \in DOMAIN objects' : objects'[j] = objects[j]
    BY DEF Loses
<1>2. HeldIds' \subseteq HeldIds /\ Drawn' = Drawn
    BY DEF Loses, HeldIds, Drawn
<1>3. ImportShapes'
    BY <1>1, <1>2 DEF Loses, ImportsInv, ImportShapes
<1>4. Origins'
    BY <1>1, <1>2 DEF Loses, ImportsInv, Origins, Birth, SameBytes, OfGuest
<1>5. Apart'
    BY <1>1, <1>2 DEF Loses, ImportsInv, Apart, SameBytes, OfGuest
<1>6. Purged'
    BY <1>2 DEF Loses, ImportsInv, Purged, OfGuest, Working
<1>7. Stored'
  <2>1. NoOrphans'
      BY DEF Loses, NoOrphans
  <2>2. AssetsStored'
      BY <1>1 DEF Loses, ImportsInv, Stored, AssetsStored
  <2>3. \A j \in late' : j \in HeldIds' /\ (OfGuest(j)' => guest'.age # "over")
      BY DEF Loses, ImportsInv, Stored, OfGuest
  <2>4. QED
      BY <2>1, <2>2, <2>3 DEF Stored
<1>8. Receipts'
    BY DEF Loses, ImportsInv, Receipts, Receipted
<1>9. Charged'
  <2>1. ChargedTo(TRUE)' \subseteq ChargedTo(TRUE) /\ ChargedTo(FALSE)' \subseteq ChargedTo(FALSE)
      BY <1>2 DEF Loses, ChargedTo, OfGuest
  <2>2. QED
      BY <2>1, ChargedLess DEF Loses
<1>10. \A c \in Drawn' : Works(c)'
    BY <1>2 DEF Loses
<1>11. QED
    BY <1>3, <1>4, <1>5, <1>6, <1>7, <1>8, <1>9, <1>10 DEF ImportsInv

LEMMA ReconcileKeeps == ASSUME ImportsInv, NEW i \in DOMAIN intents, Reconcile(i) PROVE ImportsInv'
<1>1. /\ ~up /\ late = {} /\ i \notin DOMAIN assets
      /\ objects' = Without(objects, i) /\ intents' = Without(intents, i)
      /\ UNCHANGED <<up, calls, ops, assets, debts, late, guest, made, faults>>
    BY DEF Reconcile
<1>2. \A c \in Drawn : calls[c].phase = "ended"
    BY <1>1, Typed DEF Works
<1>3. \A c \in Drawn : Works(c)'
    BY <1>1, <1>2 DEF Works
<1>4. debts = [j \in DOMAIN debts |-> debts[j]]
    BY DEF ImportsInv, ImportShapes
<1>5. DOMAIN assets \subseteq DOMAIN objects /\ DOMAIN objects \subseteq DOMAIN assets \cup DOMAIN intents \cup DOMAIN debts
    BY DEF ImportsInv, Stored, AssetsStored, NoOrphans
<1>6. /\ DOMAIN objects' = DOMAIN objects \ {i} /\ objects' = [j \in DOMAIN objects' |-> objects[j]]
      /\ DOMAIN intents' = DOMAIN intents \ {i} /\ intents' = [j \in DOMAIN intents' |-> intents[j]]
    BY <1>1 DEF Without
<1>7. Loses
    BY <1>1, <1>3, <1>4, <1>5, <1>6, FaultsTyped DEF Loses
<1>8. QED
    BY <1>7, LossStep

LEMMA DeleteKeeps ==
    ASSUME ImportsInv, NEW i \in DOMAIN debts, NEW gone \in BOOLEAN, NEW heard \in BOOLEAN, DeleteObject(i, gone, heard)
    PROVE  ImportsInv'
<1>1. /\ objects' = IF gone THEN Without(objects, i) ELSE objects
      /\ debts' = IF gone /\ heard THEN Without(debts, i) ELSE debts
      /\ UNCHANGED <<up, calls, ops, assets, intents, late, guest, made>>
    BY DEF DeleteObject
<1>2. i \notin HeldIds
    BY DEF ImportsInv, Apart
<1>3. /\ debts = [j \in DOMAIN debts |-> debts[j]] /\ objects = [j \in DOMAIN objects |-> objects[j]]
      /\ intents = [j \in DOMAIN intents |-> intents[j]]
    BY DEF ImportsInv, ImportShapes
<1>4. DOMAIN assets \subseteq DOMAIN objects /\ DOMAIN objects \subseteq DOMAIN assets \cup DOMAIN intents \cup DOMAIN debts
    BY DEF ImportsInv, Stored, AssetsStored, NoOrphans
<1>5. /\ DOMAIN objects' = IF gone THEN DOMAIN objects \ {i} ELSE DOMAIN objects
      /\ objects' = [j \in DOMAIN objects' |-> objects[j]]
    BY <1>1, <1>3 DEF Without
<1>6. /\ DOMAIN debts' = IF gone /\ heard THEN DOMAIN debts \ {i} ELSE DOMAIN debts
      /\ debts' = [j \in DOMAIN debts' |-> debts[j]]
    BY <1>1, <1>3 DEF Without
<1>7. ASSUME NEW c \in Drawn PROVE Works(c)'
  <2>1. Works(c)
      BY Typed
  <2>2. calls[c].asset \in HeldIds => (calls[c].asset \in DOMAIN objects => calls[c].asset \in DOMAIN objects')
      BY <1>2, <1>5
  <2>3. calls[c].phase \in {"writing", "finish"} => calls[c].asset \in HeldIds
      BY <2>1 DEF Works
  <2>4. HeldIds' = HeldIds /\ Drawn' = Drawn
      BY <1>1 DEF HeldIds, Drawn
  <2>5. calls[c].phase = "finish" => Trusted(calls[c].asset, calls[c].file)'
      BY <1>1, <1>5, <2>1, <2>2, <2>3 DEF Works, Trusted
  <2>6. QED
      BY <1>1, <2>1, <2>2, <2>3, <2>4, <2>5 DEF Works
<1>8. DOMAIN assets \subseteq HeldIds /\ HeldIds' = HeldIds /\ late \subseteq HeldIds
    BY <1>1 DEF HeldIds, ImportsInv, Stored
<1>9. faults' \in [crashes : 0..MaxCrashes, store : 0..MaxStoreFaults]
    BY FaultsTyped DEF DeleteObject
<1>10. Loses
    BY <1>1, <1>2, <1>3, <1>4, <1>5, <1>6, <1>7, <1>8, <1>9 DEF Loses
<1>11. QED
    BY <1>10, LossStep

LEMMA PurgeKeeps == ASSUME ImportsInv, Purge PROVE ImportsInv'
<1>1. /\ guest.age = "over" /\ ~guest.claimed /\ ~guest.purged /\ Fenced = {}
      /\ guest' = [guest EXCEPT !.purged = TRUE]
      /\ debts' = [i \in GuestRows(assets) \cup GuestRows(intents) |-> IF i \in DOMAIN assets THEN assets[i] ELSE intents[i]]
      /\ assets' = Others(assets) /\ intents' = Others(intents)
      /\ ops' = Forgotten
      /\ UNCHANGED <<up, calls, objects, late, made, faults>>
    BY DEF Purge
<1>2. HeldIds \subseteq Drawn /\ DOMAIN debts = {} /\ Drawn' = Drawn
    BY <1>1, FinitelyMany DEF ImportsInv, Apart, Drawn
<1>3. /\ assets \in [DOMAIN assets -> Rows] /\ \A i \in DOMAIN assets : assets[i] = Birth(i) /\ assets[i].guest = OfGuest(i)
      /\ intents \in [DOMAIN intents -> Rows] /\ \A i \in DOMAIN intents : intents[i] = Birth(i) /\ intents[i].guest = OfGuest(i)
    BY DEF ImportsInv, ImportShapes, Origins, Birth
<1>4. /\ GuestRows(assets) = {i \in DOMAIN assets : OfGuest(i)}
      /\ GuestRows(intents) = {i \in DOMAIN intents : OfGuest(i)}
    BY <1>3 DEF GuestRows
<1>5. /\ DOMAIN assets' = {i \in DOMAIN assets : ~OfGuest(i)} /\ assets' = [i \in DOMAIN assets' |-> assets[i]]
      /\ DOMAIN intents' = {i \in DOMAIN intents : ~OfGuest(i)} /\ intents' = [i \in DOMAIN intents' |-> intents[i]]
    BY <1>1, <1>4 DEF Others
<1>6. DOMAIN debts' = {i \in HeldIds : OfGuest(i)} /\ debts' = [i \in DOMAIN debts' |-> Birth(i)]
    BY <1>1, <1>3, <1>4 DEF HeldIds
<1>7. HeldIds' = {i \in HeldIds : ~OfGuest(i)}
    BY <1>5 DEF HeldIds
<1>8. /\ \A i \in DOMAIN assets' : assets'[i] = assets[i]
      /\ \A i \in DOMAIN intents' : intents'[i] = intents[i]
      /\ \A i \in DOMAIN debts' : debts'[i] = Birth(i)
    BY <1>5, <1>6
<1>9. /\ \A i \in Drawn : OfGuest(i)' = OfGuest(i) /\ Birth(i)' = Birth(i)
      /\ \A i, j \in Drawn : SameBytes(i, j)' <=> SameBytes(i, j)
    BY <1>1 DEF OfGuest, Birth, SameBytes
<1>10. \A k \in Keys : ops'[k] = IF k \in GuestKeys THEN Absent ELSE ops[k]
    BY <1>1 DEF Forgotten
<1>11. guest' \in [age : Ages, claimed : BOOLEAN, purged : BOOLEAN] /\ guest'.purged /\ guest'.age = "over" /\ ~guest'.claimed
    BY <1>1 DEF ImportsInv, ImportShapes
<1>12. ImportShapes'
  <2>1. /\ assets' \in [DOMAIN assets' -> Rows] /\ intents' \in [DOMAIN intents' -> Rows]
      BY <1>3, <1>5
  <2>2. debts' \in [DOMAIN debts' -> Rows]
      BY <1>2, <1>6, Typed DEF Birth, Rows
  <2>3. ops' \in [Keys -> Operation \cup {Absent}]
      BY <1>1, <1>10 DEF Forgotten, ImportsInv, ImportShapes
  <2>4. DOMAIN assets' \cup DOMAIN intents' \cup DOMAIN debts' \cup late' \subseteq Drawn
      BY <1>1, <1>2, <1>5, <1>6 DEF HeldIds, ImportsInv, ImportShapes
  <2>5. QED
      BY <1>1, <1>2, <1>11, <2>1, <2>2, <2>3, <2>4 DEF ImportsInv, ImportShapes
<1>13. Origins'
  <2>1. \A c \in Drawn : calls'[c].asset \in Drawn /\ SameBytes(c, calls[c].asset)'
      BY <1>1, <1>9 DEF ImportsInv, Origins
  <2>2. ASSUME NEW k \in Keys, ops'[k] # Absent
        PROVE  ops'[k].asset \in Drawn /\ ops'[k].file = calls'[ops'[k].asset].file /\ (k \in GuestKeys <=> OfGuest(ops[k].asset)')
    <3>1. ops'[k] = ops[k] /\ ops[k] # Absent
        BY <1>10, <2>2
    <3>2. QED
        BY <1>1, <1>9, <3>1 DEF ImportsInv, Origins
  <2>3. /\ \A i \in DOMAIN assets' : assets'[i] = Birth(i)'
        /\ \A i \in DOMAIN intents' : intents'[i] = Birth(i)'
        /\ \A i \in DOMAIN debts' : debts'[i] = Birth(i)'
      BY <1>2, <1>3, <1>5, <1>6, <1>8, <1>9 DEF HeldIds
  <2>4. \A i \in DOMAIN objects' : i \in Drawn' => objects'[i].file = calls'[i].file
      BY <1>1, <1>2 DEF ImportsInv, Origins
  <2>5. ASSUME NEW k \in Keys, ops'[k] # Absent PROVE k \in GuestKeys <=> OfGuest(ops[k].asset)'
      BY <2>2, <2>5
  <2>6. \A k \in Keys : ops'[k] # Absent => ops'[k] = ops[k]
      BY <1>10
  <2>7. QED
      BY <1>2, <2>1, <2>2, <2>3, <2>4, <2>6 DEF Origins
<1>14. Apart'
    BY <1>2, <1>5, <1>6, <1>7, <1>9, <1>11 DEF ImportsInv, Apart
<1>15. \A c \in Drawn : OfGuest(c) => ~Working(c)
    BY <1>1 DEF Fenced, Drawn
<1>16. Purged'
    BY <1>1, <1>2, <1>7, <1>9, <1>10, <1>11, <1>15 DEF Purged, Working
<1>17. \A c \in Drawn' : Works(c)'
  <2>1. SUFFICES ASSUME NEW c \in Drawn PROVE Works(c)'
      BY <1>2
  <2>2. Works(c) /\ SameBytes(c, calls[c].asset) /\ calls[c].asset \in Drawn
      BY Typed
  <2>3. calls[c].phase \in {"get", "put", "writing", "finish"} => ~OfGuest(calls[c].asset)
      BY <1>15, <2>2 DEF SameBytes, Working, InHand
  <2>4. QED
      BY <1>1, <1>2, <1>7, <2>2, <2>3 DEF Works, Trusted
<1>18. Stored'
  <2>1. NoOrphans'
      BY <1>1, <1>2, <1>5, <1>6 DEF ImportsInv, Stored, NoOrphans, HeldIds
  <2>2. AssetsStored'
      BY <1>1, <1>5, <1>8 DEF ImportsInv, Stored, AssetsStored
  <2>3. \A i \in late' : i \in HeldIds' /\ (OfGuest(i)' => guest'.age # "over")
      BY <1>1, <1>2, <1>7, <1>9 DEF ImportsInv, Stored
  <2>4. QED
      BY <2>1, <2>2, <2>3 DEF Stored
<1>19. Receipts'
  <2>1. ASSUME NEW k \in Keys, k \notin GuestKeys, ops[k] # Absent, ops[k].ready PROVE ops[k].asset \in DOMAIN assets'
      BY <1>5, <2>1 DEF ImportsInv, Receipts, Origins
  <2>2. QED
      BY <1>1, <1>10, <1>11, <2>1 DEF ImportsInv, Receipts, Receipted
<1>20. Charged'
  <2>1. HeldIds' \cup DOMAIN debts' = HeldIds \cup DOMAIN debts /\ HeldIds' \cup DOMAIN debts' \subseteq Drawn
      BY <1>2, <1>6, <1>7
  <2>2. ChargedTo(TRUE)' = ChargedTo(TRUE) /\ ChargedTo(FALSE)' = ChargedTo(FALSE)
      BY <1>9, <2>1 DEF ChargedTo
  <2>3. QED
      BY <1>1, <1>11, <2>2 DEF ImportsInv, Charged
<1>21. QED
    BY <1>12, <1>13, <1>14, <1>16, <1>17, <1>18, <1>19, <1>20 DEF ImportsInv
-----------------------------------------------------------------------------
(* The invariant *)

LEMMA ReceiveKeeps ==
    ASSUME ImportsInv, NEW k \in Keys, NEW f \in Files, NEW by \in {"guest", "account"}, NEW at \in Services,
           Receive(k, f, by, at)
    PROVE  ImportsInv'
<1>a. PICK c : c = Cardinality(Drawn) + 1
    OBVIOUS
<1> DEFINE new == [key |-> k, file |-> f, by |-> by, at |-> at, phase |-> "body", asset |-> c, after |-> 0, answer |-> "none"]
<1>1. /\ up /\ Cardinality(Drawn) < MaxCalls /\ calls' = With(calls, c, new)
      /\ UNCHANGED <<up, ops, assets, intents, debts, objects, late, guest, made, faults>>
    BY <1>a DEF Receive, Drawn
<1>2. Drawn = 1..(c - 1) /\ c \in Ids /\ c - 1 \in Nat
  <2>1. PICK n \in Nat : Drawn = 1..n
      BY DEF ImportsInv, ImportShapes
  <2>2. Cardinality(1..n) = n
    <3>1. Cardinality(1..n) = IF 1 > n THEN 0 ELSE n - 1 + 1
        BY FS_Interval
    <3>2. QED
        BY <3>1
  <2>3. QED
      BY <1>1, <1>a, <2>1, <2>2 DEF Ids
<1>3. new \in Delivery
    BY <1>2 DEF Delivery, Phases
<1>4. /\ Drawn' = Drawn \cup {c} /\ calls'[c] = new /\ \A d \in Drawn : calls'[d] = calls[d]
      /\ calls' = [d \in Drawn' |-> calls'[d]]
    BY <1>1, <1>2 DEF With, Drawn
<1>5. c \notin Drawn /\ HeldIds \cup DOMAIN debts \subseteq Drawn /\ HeldIds' = HeldIds
    BY <1>1, <1>2, FinitelyMany DEF HeldIds
<1>6. DOMAIN objects \subseteq Drawn
    BY <1>5 DEF ImportsInv, Stored, NoOrphans, HeldIds
<1>7. /\ \A d \in Drawn : OfGuest(d)' = OfGuest(d) /\ Birth(d)' = Birth(d)
      /\ \A d, e \in Drawn : SameBytes(d, e)' <=> SameBytes(d, e)
    BY <1>4 DEF OfGuest, Birth, SameBytes
<1>8. ImportShapes'
  <2>1. calls' \in [Drawn' -> Delivery]
      BY <1>3, <1>4 DEF ImportsInv, ImportShapes
  <2>2. Drawn' = 1..c /\ c \in 0..MaxCalls /\ Drawn' \subseteq Ids
      BY <1>2, <1>4 DEF Ids
  <2>3. QED
      BY <1>1, <1>4, <2>1, <2>2 DEF ImportsInv, ImportShapes
<1>9. Origins'
  <2>1. ASSUME NEW d \in Drawn' PROVE calls'[d].asset \in Drawn' /\ SameBytes(d, calls[d].asset)'
    <3>1. CASE d \in Drawn
        BY <1>4, <1>7, <3>1 DEF ImportsInv, Origins
    <3>2. CASE d = c
      <4>1. calls'[d].asset = c
          BY <1>4, <3>2
      <4>2. QED
          BY <1>4, <3>2, <4>1 DEF SameBytes
    <3>3. QED
        BY <1>4, <3>1, <3>2
  <2>2. ASSUME NEW l \in Keys, ops[l] # Absent
        PROVE  ops[l].asset \in Drawn /\ ops[l].file = calls'[ops[l].asset].file /\ (l \in GuestKeys <=> OfGuest(ops[l].asset)')
      BY <1>1, <1>4, <1>7, <2>2 DEF ImportsInv, Origins
  <2>3. /\ \A i \in DOMAIN assets : assets[i] = Birth(i)'
        /\ \A i \in DOMAIN intents : intents[i] = Birth(i)'
        /\ \A i \in DOMAIN debts : debts[i] = Birth(i)'
      BY <1>5, <1>7 DEF ImportsInv, Origins, HeldIds
  <2>4. \A i \in DOMAIN objects : objects[i].file = calls'[i].file
      BY <1>4, <1>6 DEF ImportsInv, Origins
  <2>5. QED
      BY <1>1, <1>4, <2>1, <2>2, <2>3, <2>4 DEF Origins
<1>10. Apart'
    BY <1>1, <1>5, <1>7 DEF ImportsInv, Apart
<1>11. Purged'
  <2>1. ~Working(c)'
      BY <1>4 DEF Working, InHand
  <2>2. \A d \in Drawn : Working(d)' <=> Working(d)
      BY <1>4 DEF Working
  <2>3. QED
      BY <1>1, <1>4, <1>5, <1>7, <2>1, <2>2 DEF ImportsInv, Purged
<1>12. \A d \in Drawn' : Works(d)'
  <2>1. ASSUME NEW d \in Drawn PROVE Works(d)'
    <3>1. Works(d) /\ calls'[d] = calls[d]
        BY <1>4, Typed
    <3>2. QED
        BY <1>1, <1>4, <1>5, <3>1 DEF Works, Trusted
  <2>2. Works(c)'
      BY <1>1, <1>4 DEF Works
  <2>3. QED
      BY <1>4, <2>1, <2>2
<1>13. Stored'
  <2>1. NoOrphans' /\ AssetsStored'
      BY <1>1 DEF ImportsInv, Stored, NoOrphans, AssetsStored
  <2>2. QED
      BY <1>1, <1>5, <1>7, <2>1 DEF ImportsInv, Stored
<1>14. Receipts'
    BY <1>1 DEF ImportsInv, Receipts, Receipted
<1>15. Charged'
    BY <1>1, <1>5, <1>7, ChargedSame
<1>16. QED
    BY <1>8, <1>9, <1>10, <1>11, <1>12, <1>13, <1>14, <1>15 DEF ImportsInv

LEMMA InitImports == ImportsInit => ImportsInv
<1> SUFFICES ASSUME ImportsInit PROVE ImportsInv
    OBVIOUS
<1>1. Drawn = {} /\ DOMAIN assets = {} /\ DOMAIN intents = {} /\ DOMAIN debts = {} /\ DOMAIN objects = {} /\ HeldIds = {}
    BY DEF ImportsInit, Drawn, HeldIds
<1>2. 1..0 = {} /\ 0 \in 0..MaxCalls
    OBVIOUS
<1>3. ImportShapes
    BY <1>1, <1>2 DEF ImportsInit, ImportShapes, Ages
<1>4. Origins /\ Apart /\ Purged /\ Stored /\ Receipts
    BY <1>1 DEF ImportsInit, Origins, Apart, Purged, Stored, NoOrphans, AssetsStored, Receipts
<1>5. Charged
  <2>1. ChargedTo(TRUE) = {} /\ ChargedTo(FALSE) = {}
      BY <1>1 DEF ChargedTo
  <2>2. QED
    <3> DEFINE s == Cardinality(ChargedTo(TRUE))
               t == Cardinality(ChargedTo(FALSE))
    <3>1. s = 0 /\ t = 0
        BY <2>1, FS_EmptySet
    <3> HIDE DEF s, t
    <3>2. s + t <= TotalBytes /\ s <= GuestBytes
        BY <3>1
    <3>3. QED
        BY <3>2 DEF Charged, s, t
<1>6. QED
    BY <1>1, <1>3, <1>4, <1>5 DEF ImportsInv

LEMMA StepKeeps == ASSUME ImportsInv, NEW c \in Drawn, Step(c) PROVE ImportsInv'
    BY BeginKeeps, JoinedKeeps, TurnKeeps, ParserKeeps, ReserveKeeps, GetKeeps, PutKeeps, WrittenKeeps,
       StoreFailsKeeps, FinishKeeps DEF Step

LEMMA ImportsStep == ASSUME ImportsInv, [ImportsNext]_importsVars PROVE ImportsInv'
<1>1. CASE \E k \in Keys, f \in Files, by \in {"guest", "account"}, at \in Services : Receive(k, f, by, at)
    BY <1>1, ReceiveKeeps
<1>2. CASE \E c \in DOMAIN calls : Step(c)
    BY <1>2, StepKeeps DEF Drawn
<1>3. CASE \E i \in late : Lands(i)
    BY <1>3, LandsKeeps
<1>4. CASE ServerCrash \/ Boot
    BY <1>4, CrashKeeps, BootKeeps
<1>5. CASE \E i \in DOMAIN intents : Reconcile(i)
    BY <1>5, ReconcileKeeps
<1>6. CASE Grows \/ ClaimGuest \/ Purge
    BY <1>6, GrowsKeeps, ClaimGuestKeeps, PurgeKeeps
<1>7. CASE \E i \in DOMAIN debts, gone, heard \in BOOLEAN : DeleteObject(i, gone, heard)
    BY <1>7, DeleteKeeps
<1>8. CASE UNCHANGED importsVars
    BY <1>8 DEF importsVars, ImportsInv, ImportShapes, Origins, Apart, Purged, Works, Stored, Receipts, Charged, Drawn,
       Birth, SameBytes, OfGuest, HeldIds, Working, Trusted, NoOrphans, AssetsStored, Receipted, ChargedTo
<1>9. QED
    BY <1>1, <1>2, <1>3, <1>4, <1>5, <1>6, <1>7, <1>8 DEF ImportsNext

LEMMA ImportsInvariance == ImportsSpec => []ImportsInv
<1>1. ImportsInv /\ [ImportsNext]_importsVars => ImportsInv'
    BY ImportsStep
<1>2. QED
    BY <1>1, InitImports, PTL DEF ImportsSpec

\* A set whose members are all the same has one at most.
LEMMA OneAtMost ==
    ASSUME NEW T, \A x, y \in T : x = y
    PROVE  Cardinality(T) <= 1
<1>1. CASE T = {}
    BY <1>1, FS_EmptySet
<1>2. CASE T # {}
  <2>1. PICK x : T = {x}
      BY <1>2
  <2>2. Cardinality({x}) = 1
      BY FS_Singleton
  <2>3. QED
      BY <2>1, <2>2
<1>3. QED
    BY <1>1, <1>2

LEMMA OnceCharged == ImportsInv => ChargedOnce
<1> SUFFICES ASSUME ImportsInv PROVE ChargedOnce
    OBVIOUS
<1>1. ASSUME NEW f \in Files, NEW g \in BOOLEAN
      PROVE  Cardinality(OfFile(assets, f, g) \cup OfFile(intents, f, g)) <= 1
  <2> DEFINE T == OfFile(assets, f, g) \cup OfFile(intents, f, g)
  <2>1. T \subseteq HeldIds
      BY DEF OfFile, HeldIds
  <2>2. \A j \in T : Birth(j) = [file |-> f, guest |-> g]
      BY DEF OfFile, ImportsInv, Origins
  <2>3. \A j \in T : calls[j].file = f /\ OfGuest(j) = g
      BY <2>2 DEF Birth
  <2> HIDE DEF T
  <2>4. \A j, l \in T : j = l
      BY <2>1, <2>3 DEF ImportsInv, Apart, SameBytes
  <2>5. Cardinality(T) <= 1
      BY <2>4, OneAtMost
  <2>6. QED
      BY <2>5 DEF T
<1>2. QED
    BY <1>1 DEF ChargedOnce, ImportsInv, Apart, HeldIds

LEMMA InCapacity == ImportsInv => WithinCapacity
<1> SUFFICES ASSUME ImportsInv PROVE WithinCapacity
    OBVIOUS
<1> DEFINE s == ChargedTo(TRUE)
           t == ChargedTo(FALSE)
           o == DOMAIN objects
<1>1. Usage(TRUE) = Cardinality(s) /\ Usage(FALSE) = Cardinality(t)
    BY UsageIs
<1>2. /\ Cardinality(s) + Cardinality(t) <= TotalBytes /\ TotalBytes \in Nat
      /\ guest.claimed \/ Cardinality(s) <= GuestBytes
    BY DEF ImportsInv, Charged
<1>3. o \subseteq s \cup t /\ s \cap t = {}
    BY DEF ImportsInv, Stored, NoOrphans, ChargedTo, HeldIds, OfGuest
<1>4. IsFiniteSet(s) /\ IsFiniteSet(t) /\ Cardinality(s) \in Nat /\ Cardinality(t) \in Nat
    BY ChargedFinite
<1> HIDE DEF s, t, o
<1>5. IsFiniteSet(s \cup t) /\ Cardinality(s \cup t) = Cardinality(s) + Cardinality(t)
    BY <1>3, <1>4, Together
<1>6. Cardinality(o) <= Cardinality(s \cup t) /\ Cardinality(o) \in Nat
    BY <1>3, <1>5, FS_Subset, FS_CardinalityType
<1>7. Cardinality(o) <= TotalBytes
    BY <1>2, <1>4, <1>5, <1>6
<1>8. QED
    BY <1>1, <1>2, <1>7 DEF WithinCapacity, o

LEMMA ImportsTyped == ImportsInv => ImportsTypeOK
<1> SUFFICES ASSUME ImportsInv PROVE ImportsTypeOK
    OBVIOUS
<1>1. ASSUME NEW c \in DOMAIN calls
      PROVE  /\ calls[c].key \in Keys /\ calls[c].file \in Files /\ calls[c].at \in Services /\ calls[c].by \in {"guest", "account"}
             /\ calls[c].phase \in Phases /\ calls[c].asset \in Ids
             /\ calls[c].after \in 0..MaxCalls /\ calls[c].answer \in {"none", "receipt", "refused", "corrupt"}
  <2>1. calls[c] \in Delivery
      BY Typed DEF Drawn
  <2>2. QED
      BY <2>1 DEF Delivery
<1>2. ASSUME NEW k \in Keys, ops[k] # Absent
      PROVE  ops[k] \in [file : Files, asset : Ids, ready : BOOLEAN] /\ (ops[k].ready => ops[k].asset \in DOMAIN assets)
    BY <1>2 DEF ImportsInv, ImportShapes, Operation, Receipts
<1>3. \A rows \in {assets, intents, debts} : DOMAIN rows \subseteq Ids /\ \A i \in DOMAIN rows : rows[i] \in Rows
    BY InIds, FinitelyMany DEF ImportsInv, ImportShapes, HeldIds
<1>4. DOMAIN objects \subseteq Ids /\ \A i \in DOMAIN objects : objects[i] \in [file : Files, whole : BOOLEAN]
    BY <1>3 DEF ImportsInv, ImportShapes, Stored, NoOrphans
<1>5. late \subseteq Ids
    BY InIds DEF ImportsInv, ImportShapes
<1>6. QED
    BY <1>1, <1>2, <1>3, <1>4, <1>5 DEF ImportsTypeOK, ImportsInv, ImportShapes

\* Whatever crash, failing call, claim or purge comes between, every object stored is charged to somebody,
\* each file of a library once and all within capacity, every asset's bytes are in the store, whole, and a
\* key publishes one artifact (imports.ts:60-240, capacity.ts, guest-reclamation.ts).
THEOREM ImportsAlwaysWhole == ImportsSpec => []ImportsWhole
<1>1. ImportsInv => ImportsWhole
  <2>1. ASSUME ImportsInv PROVE OneArtifact /\ NoOrphans /\ AssetsStored
      BY <2>1 DEF ImportsInv, Receipts, Stored, OneArtifact
  <2>2. QED
      BY <2>1, OnceCharged, InCapacity, ImportsTyped DEF ImportsWhole
<1>2. QED
    BY <1>1, ImportsInvariance, PTL
===============================================================================
