-------------------------- MODULE RunAdmissionProofs --------------------------
(***************************************************************************)
(* Proofs about RunAdmission, for any libraries, keys, requests, prices,   *)
(* budgets and limits.                                                     *)
(***************************************************************************)
EXTENDS RunAdmission, FiniteSetTheorems, WellFoundedInduction, TLAPS

Stages == {"absent", "completed"} \cup Active \cup Stopped
Bills  == {"none", "reserved", "uncertain", "confirmed", "released"}
Row    == [owner : Owners, key : Keys, position : Nat \ {0}, hash : Keys \X (Nat \ {0}) \X Payloads,
           batch : Keys \cup {None}, payload : Payloads, retryOf : Runs \cup {None}, day : Nat]

\* What a type needs to be inductive: the rows are records of all their columns.
Shapes ==
    /\ DOMAIN row = Runs
    /\ \A r \in Admitted : row[r] \in Row /\ row[r].day <= today
    /\ \A r \in Runs \ Admitted : row[r] = NoRow
    /\ stage \in [Runs -> Stages]
    /\ bill \in [Runs -> Bills]
    /\ charged \in [Runs -> 0..MaxCharge]
    /\ principal \in [Owners -> Principals]
    /\ today \in 0..MaxDay
    /\ answered \subseteq Requests

LEMMA ShapesTyped == Shapes => TypeOK
<1> SUFFICES ASSUME Shapes PROVE TypeOK
    OBVIOUS
<1>1. ASSUME NEW r \in Admitted
      PROVE  /\ row[r].owner \in Owners /\ row[r].key \in Keys /\ row[r].position \in Nat \ {0}
             /\ row[r].batch \in Keys \cup {None} /\ row[r].payload \in Payloads
             /\ row[r].retryOf \in Runs \cup {None}
             /\ row[r].day \in 0..today
    BY DaysAssumption DEF Shapes, Row
<1>2. QED
    BY <1>1 DEF Shapes, TypeOK, Stages, Bills

-----------------------------------------------------------------------------
(* What the actions do, in terms of the rows *)

\* The runs that new rows are written for; the other runs keep theirs.
Adds(new) ==
    /\ new \subseteq Runs \ Admitted
    /\ DOMAIN row' = Runs /\ Admitted' = Admitted \cup new
    /\ stage' \in [Runs -> Stages] /\ bill' \in [Runs -> Bills]
    /\ \A r \in new : stage'[r] = "waiting" /\ bill'[r] = "reserved"
    /\ \A r \in Runs \ new : row'[r] = row[r] /\ stage'[r] = stage[r] /\ bill'[r] = bill[r]
    /\ UNCHANGED <<charged, principal, today>>

LEMMA Inserted ==
    ASSUME Shapes, NEW f, DOMAIN f \subseteq Runs \ Admitted, Insert(f)
    PROVE  Adds(DOMAIN f) /\ \A r \in DOMAIN f : row'[r] = f[r]
<1>1. /\ DOMAIN row' = Runs
      /\ \A r \in Runs : row'[r] = IF r \in DOMAIN f THEN f[r] ELSE row[r]
    BY DEF Insert
<1>2. /\ stage' \in [Runs -> Stages] /\ bill' \in [Runs -> Bills]
      /\ \A r \in Runs : /\ stage'[r] = IF r \in DOMAIN f THEN "waiting" ELSE stage[r]
                         /\ bill'[r] = IF r \in DOMAIN f THEN "reserved" ELSE bill[r]
    BY DEF Insert, Shapes, Stages, Bills, Active
<1>3. Admitted' = Admitted \cup DOMAIN f
    BY <1>2 DEF Admitted
<1>4. QED
    BY <1>1, <1>2, <1>3 DEF Adds, Insert

\* A press writes one row for each missing part.
PressAdds(q, id) ==
    /\ id \in [Missing(q) -> Runs \ Admitted]
    /\ \A i, j \in Missing(q) : id[i] = id[j] => i = j
    /\ Adds({id[i] : i \in Missing(q)})
    /\ \A i \in Missing(q) : row'[id[i]] = NewRow(q, i) /\ FreshFor(id[i], q.parts[i])
    /\ answered' = answered \cup {q}

LEMMA PressRows ==
    ASSUME Shapes, NEW q \in Requests, Press(q)
    PROVE  \E id : PressAdds(q, id)
<1> DEFINE missing == Missing(q)
<1>1. PICK id \in {f \in [missing -> Runs] : IsInjective(f)} :
          /\ \A i \in missing : FreshFor(id[i], q.parts[i])
          /\ Insert([r \in {id[i] : i \in missing} |->
                        NewRow(q, CHOOSE i \in missing : id[i] = r)])
    BY DEF Press
<1> HIDE DEF missing
<1>2. id \in [missing -> Runs \ Admitted] /\ \A i, j \in missing : id[i] = id[j] => i = j
    BY <1>1 DEF FreshFor, IsInjective
<1> DEFINE f == [r \in {id[i] : i \in missing} |-> NewRow(q, CHOOSE i \in missing : id[i] = r)]
<1>3. DOMAIN f = {id[i] : i \in missing} /\ Insert(f)
    BY <1>1
<1>4. ASSUME NEW i \in missing
      PROVE  f[id[i]] = NewRow(q, i)
  <2>1. (CHOOSE j \in missing : id[j] = id[i]) = i
      BY <1>2
  <2>2. QED
      BY <2>1
<1> HIDE DEF f
<1>5. DOMAIN f \subseteq Runs \ Admitted
    BY <1>2, <1>3
<1>6. Adds(DOMAIN f) /\ \A r \in DOMAIN f : row'[r] = f[r]
    BY <1>3, <1>5, Inserted
<1>7. \A i \in missing : row'[id[i]] = NewRow(q, i)
    BY <1>3, <1>4, <1>6
<1>8. answered' = answered \cup {q}
    BY DEF Press
<1>9. PressAdds(q, id)
    BY <1>1, <1>2, <1>3, <1>6, <1>7, <1>8 DEF PressAdds, missing
<1>10. QED
    BY <1>9

CopyOf(x, key, old, day) == [x EXCEPT !.key = key, !.position = 1, !.retryOf = old, !.day = day]

IsCopy(copy, x, key, old, day) ==
    /\ copy \in Row
    /\ copy.owner = x.owner /\ copy.key = key /\ copy.position = 1 /\ copy.hash = x.hash
    /\ copy.batch = x.batch /\ copy.payload = x.payload /\ copy.retryOf = old /\ copy.day = day

LEMMA CopyTyped ==
    ASSUME NEW x \in Row, NEW key \in Keys, NEW old \in Runs, NEW day \in Nat
    PROVE  IsCopy(CopyOf(x, key, old, day), x, key, old, day)
<1>1. 1 \in Nat \ {0} /\ old \in Runs \cup {None}
    OBVIOUS
<1>2. QED
    BY <1>1 DEF Row, CopyOf, IsCopy

\* A retry writes one row, with the columns of the run it replaces.
RetryAdds(old, key, new) ==
    /\ old \in Admitted /\ new \in Runs \ Admitted /\ stage[old] \in Stopped
    /\ Adds({new}) /\ UNCHANGED answered
    /\ RowsOf(row[old].owner, key, 1) = {} /\ WithinLimits(row[old].owner)
    /\ IsCopy(row'[new], row[old], key, old, today) /\ FreshFor(new, row[old].payload)

LEMMA RetryRows ==
    ASSUME Shapes, NEW old \in Runs, NEW key \in Keys, Retry(old, key)
    PROVE  \E new : RetryAdds(old, key, new)
<1>1. /\ stage[old] \in Stopped /\ old \in Admitted /\ UNCHANGED answered
      /\ RowsOf(row[old].owner, key, 1) = {} /\ WithinLimits(row[old].owner)
    BY DEF Retry, Admitted, Stopped
<1>2. PICK new \in Runs :
          /\ FreshFor(new, row[old].payload)
          /\ Insert([x \in {new} |-> [row[old] EXCEPT !.key = key, !.position = 1, !.retryOf = old, !.day = today]])
    BY DEF Retry
<1> DEFINE copy == CopyOf(row[old], key, old, today)
<1>3. row[old] \in Row /\ today \in Nat
    BY <1>1, DaysAssumption DEF Shapes
<1>4. IsCopy(copy, row[old], key, old, today)
    BY <1>3, CopyTyped
<1> DEFINE f == [x \in {new} |-> copy]
<1>5. DOMAIN f = {new} /\ f[new] = copy /\ Insert(f)
    BY <1>2 DEF CopyOf
<1> HIDE DEF copy, f
<1>6. new \in Runs \ Admitted
    BY <1>2 DEF FreshFor
<1>7. Adds({new}) /\ row'[new] = copy
    BY <1>5, <1>6, Inserted
<1>8. RetryAdds(old, key, new)
    BY <1>1, <1>2, <1>4, <1>6, <1>7 DEF RetryAdds
<1>9. QED
    BY <1>8

\* What becomes of a run neither admits nor forgets any, wakes none and lets a stopped
\* one rest.
Settles ==
    /\ UNCHANGED <<row, principal, today, answered>> /\ Admitted' = Admitted
    /\ stage' \in [Runs -> Stages] /\ bill' \in [Runs -> Bills] /\ charged' \in [Runs -> 0..MaxCharge]
    /\ \A r \in Runs : stage'[r] \in Active => stage[r] \in Active
    /\ \A r \in Runs : stage[r] \in Stopped => stage'[r] = stage[r]

LEMMA SettlesOne ==
    ASSUME Shapes, NEW r \in Runs, Begin(r) \/ Cancel(r) \/ Complete(r) \/ Stop(r) \/ Reconcile(r)
    PROVE  Settles
<1>1. \E s \in Stages, b \in Bills :
          /\ stage' = [stage EXCEPT ![r] = s] /\ bill' = [bill EXCEPT ![r] = b]
          /\ s = stage[r] \/ (stage[r] \in Active /\ s # "absent")
    BY DEF Begin, Cancel, Complete, Stop, Reconcile, To, Shapes, Stages, Bills, Active, Stopped
<1>2. UNCHANGED <<row, principal, today, answered>>
    BY DEF Begin, Cancel, Complete, Stop, Reconcile, Keep
<1>3. charged' \in [Runs -> 0..MaxCharge]
  <2>1. CASE Complete(r)
    <3>1. charged' = charged \/ \E c \in 0..MaxCharge : charged' = [charged EXCEPT ![r] = c]
        BY <2>1, LimitAssumption DEF Complete
    <3>2. QED
        BY <3>1 DEF Shapes
  <2>2. CASE Reconcile(r)
      BY <2>2 DEF Reconcile, Shapes
  <2>3. CASE Begin(r) \/ Cancel(r) \/ Stop(r)
      BY <2>3 DEF Begin, Cancel, Stop, Shapes
  <2>4. QED
      BY <2>1, <2>2, <2>3
<1>4. /\ stage' \in [Runs -> Stages] /\ bill' \in [Runs -> Bills]
      /\ \A x \in Runs : stage'[x] = stage[x] \/ (stage[x] \in Active /\ stage'[x] # "absent")
    BY <1>1 DEF Shapes
<1>5. Admitted' = Admitted
    BY <1>4 DEF Admitted, Active
<1>6. QED
    BY <1>2, <1>3, <1>4, <1>5 DEF Settles, Active, Stopped

-----------------------------------------------------------------------------
(* Types *)

LEMMA NewRowTyped ==
    ASSUME Shapes, NEW q \in Requests, NEW i \in DOMAIN q.parts
    PROVE  /\ NewRow(q, i) \in Row /\ i \in Nat \ {0}
           /\ NewRow(q, i).owner = q.owner /\ NewRow(q, i).key = q.key /\ NewRow(q, i).position = i
           /\ NewRow(q, i).hash = Hash(q.key, i, q.parts[i]) /\ NewRow(q, i).payload = q.parts[i]
           /\ NewRow(q, i).batch = IF q.fanned THEN q.key ELSE None
           /\ NewRow(q, i).retryOf = None /\ NewRow(q, i).day = today
<1>1. q.owner \in Owners /\ q.key \in Keys /\ q.parts \in Seq(Payloads)
    BY RequestAssumption
<1>2. i \in Nat \ {0} /\ q.parts[i] \in Payloads
    BY <1>1
<1>3. today \in Nat
    BY DaysAssumption DEF Shapes
<1>4. Hash(q.key, i, q.parts[i]) \in Keys \X (Nat \ {0}) \X Payloads
    BY <1>1, <1>2 DEF Hash
<1>5. QED
    BY <1>1, <1>2, <1>3, <1>4 DEF NewRow, Row

LEMMA MissingParts ==
    ASSUME Shapes, NEW q \in Requests
    PROVE  /\ Missing(q) \subseteq DOMAIN q.parts
           /\ \A i \in Missing(q) : RowsOf(q.owner, q.key, i) = {}
           /\ 1 \in DOMAIN q.parts
<1>1. q.parts \in Seq(Payloads) /\ q.parts # <<>>
    BY RequestAssumption
<1>2. QED
    BY <1>1 DEF Missing

LEMMA AddsTyped ==
    ASSUME Shapes, NEW new, Adds(new), \A r \in new : row'[r] \in Row /\ row'[r].day <= today, answered' \subseteq Requests
    PROVE  Shapes'
<1>1. \A r \in Admitted' : row'[r] \in Row /\ row'[r].day <= today'
  <2>1. ASSUME NEW r \in Admitted, r \notin new PROVE row'[r] \in Row /\ row'[r].day <= today'
      BY <2>1 DEF Shapes, Adds, Admitted
  <2>2. QED
      BY <2>1 DEF Adds
<1>2. \A r \in Runs \ Admitted' : row'[r] = NoRow
    BY DEF Shapes, Adds, NoRow
<1>3. QED
    BY <1>1, <1>2 DEF Shapes, Adds

LEMMA ShapesStep == Shapes /\ [Next]_vars => Shapes'
<1> SUFFICES ASSUME Shapes, [Next]_vars PROVE Shapes'
    OBVIOUS
<1>1. ASSUME NEW q \in Requests, Press(q)
      PROVE  Shapes'
  <2>1. PICK id : PressAdds(q, id)
      BY <1>1, PressRows
  <2> DEFINE new == {id[i] : i \in Missing(q)}
  <2>2. ASSUME NEW r \in new
        PROVE  row'[r] \in Row /\ row'[r].day <= today
    <3>1. PICK i \in Missing(q) : r = id[i]
        OBVIOUS
    <3>2. row'[r] = NewRow(q, i)
        BY <2>1, <3>1 DEF PressAdds
    <3>3. i \in DOMAIN q.parts /\ today \in Nat
        BY MissingParts, DaysAssumption DEF Shapes
    <3>4. QED
        BY <3>2, <3>3, NewRowTyped
  <2> HIDE DEF new
  <2>3. Adds(new) /\ answered' = answered \cup {q}
      BY <2>1 DEF PressAdds, new
  <2>4. answered' \subseteq Requests
      BY <2>3 DEF Shapes
  <2>5. QED
      BY <2>2, <2>3, <2>4, AddsTyped
<1>2. ASSUME NEW old \in Runs, NEW key \in Keys, Retry(old, key)
      PROVE  Shapes'
  <2>1. PICK new : RetryAdds(old, key, new)
      BY <1>2, RetryRows
  <2>2. row'[new] \in Row /\ row'[new].day <= today /\ Adds({new}) /\ UNCHANGED answered
      BY <2>1, DaysAssumption DEF RetryAdds, IsCopy, Shapes
  <2>3. answered' \subseteq Requests
      BY <2>2 DEF Shapes
  <2>4. QED
      BY <2>2, <2>3, AddsTyped
<1>3. ASSUME NEW r \in Runs, Begin(r) \/ Cancel(r) \/ Complete(r) \/ Stop(r) \/ Reconcile(r)
      PROVE  Shapes'
    BY <1>3, SettlesOne DEF Settles, Shapes
<1>4. ASSUME NEW o \in Owners, NEW p \in Principals, ClaimLibrary(o, p)
      PROVE  Shapes'
    BY <1>4 DEF ClaimLibrary, Shapes, Admitted
<1>5. CASE Midnight
    BY <1>5, DaysAssumption DEF Midnight, Shapes, Admitted, Row
<1>6. CASE UNCHANGED vars
    BY <1>6 DEF vars, Shapes, Admitted
<1>7. QED
    BY <1>1, <1>2, <1>3, <1>4, <1>5, <1>6 DEF Next

LEMMA InitShapes == Init => Shapes
BY LimitAssumption, DaysAssumption DEF Init, Shapes, Admitted, Stages, Bills

\* The rows of runs and the ledger have the columns and states of runs.ts and spend.ts.
THEOREM AdmissionTypeCorrect == Spec => []TypeOK
<1>1. Spec => []Shapes
    BY InitShapes, ShapesStep, PTL DEF Spec
<1>2. QED
    BY <1>1, ShapesTyped, PTL

-----------------------------------------------------------------------------
(* Presses, parts and retries *)

OneRowEach ==
    \A r, s \in Admitted :
        row[r].owner = row[s].owner /\ row[r].key = row[s].key /\ row[r].position = row[s].position => r = s

PartOf(x, q) ==
    /\ x.owner = q.owner /\ x.key = q.key /\ x.position \in DOMAIN q.parts
    /\ x.hash = Hash(q.key, x.position, q.parts[x.position]) /\ x.payload = q.parts[x.position]

\* A run that replaces no other is a part of a request that was answered.
FromRequests == \A r \in Admitted : row[r].retryOf = None => \E q \in answered : PartOf(row[r], q)

\* The key a row's hash covers has a first part, so no retry ever takes that key.
HashKept ==
    \A r \in Admitted :
        \E s \in Admitted : row[s].owner = row[r].owner /\ row[s].key = row[r].hash[1] /\ row[s].position = 1
RetriedElsewhere == \A r \in Admitted : row[r].retryOf # None => row[r].key # row[r].hash[1]

PartsAnswered ==
    \A q \in answered : \A i \in DOMAIN q.parts :
        \E r \in RowsOf(q.owner, q.key, i) : row[r].payload = q.parts[i] /\ row[r].retryOf = None

RowsInv == OneRowEach /\ FromRequests /\ HashKept /\ RetriedElsewhere /\ PartsAnswered /\ RetriesFollow

LEMMA RowsWhole == RowsInv => AnsweredWhole
<1> SUFFICES ASSUME RowsInv, NEW q \in answered, NEW i \in DOMAIN q.parts
             PROVE  \E r \in RowsOf(q.owner, q.key, i) :
                        /\ RowsOf(q.owner, q.key, i) = {r}
                        /\ row[r].payload = q.parts[i] /\ row[r].retryOf = None
    BY DEF AnsweredWhole
<1>1. PICK r \in RowsOf(q.owner, q.key, i) : row[r].payload = q.parts[i] /\ row[r].retryOf = None
    BY DEF RowsInv, PartsAnswered
<1>2. \A s \in RowsOf(q.owner, q.key, i) : s = r
    BY <1>1 DEF RowsInv, OneRowEach, RowsOf
<1>3. QED
    BY <1>1, <1>2

\* A row that answers for a part of a request is no retry: it was admitted for that part.
LEMMA AnswersFor ==
    ASSUME Shapes, RowsInv, NEW q \in Requests, SameAsBefore(q), NEW i \in DOMAIN q.parts,
           NEW r \in RowsOf(q.owner, q.key, i)
    PROVE  /\ row[r].retryOf = None /\ row[r].payload = q.parts[i]
           /\ \E p \in answered : p.owner = q.owner /\ p.key = q.key /\ i \in DOMAIN p.parts /\ p.parts[i] = q.parts[i]
<1>1. r \in Admitted /\ row[r].key = q.key /\ row[r].owner = q.owner /\ row[r].position = i
    BY DEF RowsOf
<1>2. row[r].hash = Hash(q.key, i, q.parts[i])
    BY DEF SameAsBefore
<1>3. row[r].hash[1] = q.key
    BY <1>2 DEF Hash
<1>4. row[r].retryOf = None
    BY <1>1, <1>3 DEF RowsInv, RetriedElsewhere
<1>5. PICK p \in answered : PartOf(row[r], p)
    BY <1>1, <1>4 DEF RowsInv, FromRequests
<1>6. Hash(q.key, i, q.parts[i]) = Hash(p.key, i, p.parts[i])
    BY <1>1, <1>2, <1>5 DEF PartOf
<1>7. q.parts[i] = p.parts[i]
    BY <1>6 DEF Hash
<1>8. QED
    BY <1>1, <1>4, <1>5, <1>7 DEF PartOf

\* Rows are never rewritten.
LEMMA RowsStay ==
    ASSUME Shapes, NEW new, Adds(new)
    PROVE  /\ Admitted \subseteq Admitted' /\ \A r \in Admitted : row'[r] = row[r] /\ stage'[r] = stage[r]
           /\ \A r \in Admitted' : r \in Admitted \/ r \in new
           /\ \A o, key, i : /\ RowsOf(o, key, i) \subseteq RowsOf(o, key, i)'
                             /\ \A r \in RowsOf(o, key, i)' : r \in RowsOf(o, key, i) \/ r \in new
BY DEF Adds, RowsOf, Admitted

LEMMA PressKeepsRows ==
    ASSUME Shapes, RowsInv, NEW q \in Requests, Press(q)
    PROVE  RowsInv'
<1>1. PICK id : PressAdds(q, id)
    BY PressRows
<1> DEFINE new == {id[i] : i \in Missing(q)}
<1>2. Adds(new) /\ answered' = answered \cup {q} /\ SameAsBefore(q)
    BY <1>1 DEF PressAdds, Press
<1>3. ASSUME NEW r \in new
      PROVE  \E i \in Missing(q) : /\ r = id[i] /\ i \in DOMAIN q.parts
                                   /\ row'[r].owner = q.owner /\ row'[r].key = q.key /\ row'[r].position = i
                                   /\ row'[r].hash = Hash(q.key, i, q.parts[i]) /\ row'[r].payload = q.parts[i]
                                   /\ row'[r].retryOf = None
  <2>1. PICK i \in Missing(q) : r = id[i]
      OBVIOUS
  <2>2. i \in DOMAIN q.parts /\ row'[r] = NewRow(q, i)
      BY <1>1, <2>1, MissingParts DEF PressAdds
  <2>3. QED
      BY <2>1, <2>2, NewRowTyped
<1>a. \A i \in Missing(q) : id[i] \in new
    OBVIOUS
<1> HIDE DEF new
<1>4. /\ Admitted \subseteq Admitted' /\ \A r \in Admitted : row'[r] = row[r] /\ stage'[r] = stage[r]
      /\ \A r \in Admitted' : r \in Admitted \/ r \in new
    BY <1>2, RowsStay
<1>5. new \subseteq Admitted'
    BY <1>2 DEF Adds
<1>6. OneRowEach'
  <2>1. SUFFICES ASSUME NEW r \in Admitted', NEW s \in Admitted',
                        row'[r].owner = row'[s].owner, row'[r].key = row'[s].key, row'[r].position = row'[s].position
                 PROVE  r = s
      BY DEF OneRowEach
  <2>2. CASE r \in Admitted /\ s \in Admitted
      BY <1>4, <2>1, <2>2 DEF RowsInv, OneRowEach
  <2>3. CASE r \in new /\ s \in new
      BY <1>3, <2>1, <2>3
  <2>4. ASSUME NEW x \in new, NEW y \in Admitted
        PROVE  ~(row'[x].owner = row'[y].owner /\ row'[x].key = row'[y].key /\ row'[x].position = row'[y].position)
    <3>1. PICK i \in Missing(q) : row'[x].owner = q.owner /\ row'[x].key = q.key /\ row'[x].position = i
        BY <1>3
    <3>2. y \notin RowsOf(q.owner, q.key, i)
        BY MissingParts
    <3>3. QED
        BY <1>4, <3>1, <3>2 DEF RowsOf
  <2>5. QED
      BY <1>4, <2>1, <2>2, <2>3, <2>4
<1>7. FromRequests'
  <2>1. ASSUME NEW r \in Admitted, row[r].retryOf = None
        PROVE  \E p \in answered' : PartOf(row'[r], p)
      BY <1>2, <1>4, <2>1 DEF RowsInv, FromRequests
  <2>2. ASSUME NEW r \in new
        PROVE  PartOf(row'[r], q)
      BY <1>3 DEF PartOf
  <2>3. QED
      BY <1>2, <1>4, <2>1, <2>2 DEF FromRequests
<1>8. HashKept'
  <2>1. ASSUME NEW r \in Admitted
        PROVE  \E s \in Admitted' : row'[s].owner = row'[r].owner /\ row'[s].key = row'[r].hash[1] /\ row'[s].position = 1
    <3>1. PICK s \in Admitted : row[s].owner = row[r].owner /\ row[s].key = row[r].hash[1] /\ row[s].position = 1
        BY DEF RowsInv, HashKept
    <3>2. QED
        BY <1>4, <3>1
  <2>2. \E s \in Admitted' : row'[s].owner = q.owner /\ row'[s].key = q.key /\ row'[s].position = 1
    <3>1. CASE 1 \in Missing(q)
      <4>1. id[1] \in new /\ row'[id[1]] = NewRow(q, 1) /\ 1 \in DOMAIN q.parts
          BY <1>1, <1>a, <3>1, MissingParts DEF PressAdds
      <4>2. QED
          BY <1>5, <4>1, NewRowTyped
    <3>2. CASE 1 \notin Missing(q)
      <4>1. PICK s : s \in RowsOf(q.owner, q.key, 1)
          BY <3>2, MissingParts DEF Missing
      <4>2. QED
          BY <1>4, <4>1 DEF RowsOf
    <3>3. QED
        BY <3>1, <3>2
  <2>3. ASSUME NEW r \in new
        PROVE  row'[r].owner = q.owner /\ row'[r].hash[1] = q.key
      BY <1>3 DEF Hash
  <2>4. QED
      BY <1>4, <2>1, <2>2, <2>3 DEF HashKept
<1>9. RetriedElsewhere'
    BY <1>3, <1>4 DEF RowsInv, RetriedElsewhere
<1>10. PartsAnswered'
  <2>1. ASSUME NEW p \in answered, NEW i \in DOMAIN p.parts
        PROVE  \E r \in RowsOf(p.owner, p.key, i)' : row'[r].payload = p.parts[i] /\ row'[r].retryOf = None
    <3>1. PICK r \in RowsOf(p.owner, p.key, i) : row[r].payload = p.parts[i] /\ row[r].retryOf = None
        BY DEF RowsInv, PartsAnswered
    <3>2. r \in Admitted
        BY <3>1 DEF RowsOf
    <3>3. r \in RowsOf(p.owner, p.key, i)'
        BY <1>2, <3>1, RowsStay
    <3>4. QED
        BY <1>4, <3>1, <3>2, <3>3
  <2>2. ASSUME NEW i \in DOMAIN q.parts
        PROVE  \E r \in RowsOf(q.owner, q.key, i)' : row'[r].payload = q.parts[i] /\ row'[r].retryOf = None
    <3>1. CASE i \in Missing(q)
      <4>1. id[i] \in new /\ row'[id[i]] = NewRow(q, i)
          BY <1>1, <1>a, <3>1 DEF PressAdds
      <4>2. /\ row'[id[i]].owner = q.owner /\ row'[id[i]].key = q.key /\ row'[id[i]].position = i
            /\ row'[id[i]].payload = q.parts[i] /\ row'[id[i]].retryOf = None
          BY <4>1, NewRowTyped
      <4>3. id[i] \in RowsOf(q.owner, q.key, i)'
          BY <1>5, <4>1, <4>2 DEF RowsOf
      <4>4. QED
          BY <4>2, <4>3
    <3>2. CASE i \notin Missing(q)
      <4>1. PICK r : r \in RowsOf(q.owner, q.key, i)
          BY <3>2 DEF Missing
      <4>2. row[r].payload = q.parts[i] /\ row[r].retryOf = None /\ r \in Admitted
          BY <1>2, <4>1, AnswersFor DEF RowsOf
      <4>3. r \in RowsOf(q.owner, q.key, i)'
          BY <1>2, <4>1, RowsStay
      <4>4. QED
          BY <1>4, <4>2, <4>3
    <3>3. QED
        BY <3>1, <3>2
  <2>3. QED
      BY <1>2, <2>1, <2>2 DEF PartsAnswered
<1>11. RetriesFollow'
  <2>1. ASSUME NEW r \in Admitted', row'[r].retryOf # None
        PROVE  /\ r \in Admitted /\ row'[r] = row[r] /\ row[r].retryOf \in Admitted
      BY <1>3, <1>4, <2>1 DEF RowsInv, RetriesFollow, Shapes, Row, Admitted, Stopped
  <2>2. QED
      BY <1>4, <2>1 DEF RowsInv, RetriesFollow
<1>12. QED
    BY <1>6, <1>7, <1>8, <1>9, <1>10, <1>11 DEF RowsInv

LEMMA RetryKeepsRows ==
    ASSUME Shapes, RowsInv, NEW old \in Runs, NEW key \in Keys, Retry(old, key)
    PROVE  RowsInv'
<1>1. PICK new : RetryAdds(old, key, new)
    BY RetryRows
<1>2. Adds({new}) /\ UNCHANGED answered /\ new \notin Admitted /\ old \in Admitted /\ stage[old] \in Stopped
    BY <1>1 DEF RetryAdds
<1>3. /\ row'[new].owner = row[old].owner /\ row'[new].key = key /\ row'[new].position = 1
      /\ row'[new].hash = row[old].hash /\ row'[new].payload = row[old].payload /\ row'[new].retryOf = old
    BY <1>1 DEF RetryAdds, IsCopy
<1>4. /\ Admitted \subseteq Admitted' /\ \A r \in Admitted : row'[r] = row[r] /\ stage'[r] = stage[r]
      /\ \A r \in Admitted' : r \in Admitted \/ r = new
    BY <1>2, RowsStay
<1>5. \A r \in Admitted : ~(row[r].owner = row[old].owner /\ row[r].key = key /\ row[r].position = 1)
    BY <1>1 DEF RetryAdds, RowsOf
<1>6. OneRowEach'
    BY <1>3, <1>4, <1>5 DEF RowsInv, OneRowEach
<1>7. old # None
    BY NoneAssumption
<1>8. FromRequests'
    BY <1>2, <1>3, <1>4, <1>7 DEF RowsInv, FromRequests
<1>9. HashKept'
  <2>1. ASSUME NEW r \in Admitted
        PROVE  \E s \in Admitted' : row'[s].owner = row[r].owner /\ row'[s].key = row[r].hash[1] /\ row'[s].position = 1
    <3>1. PICK s \in Admitted : row[s].owner = row[r].owner /\ row[s].key = row[r].hash[1] /\ row[s].position = 1
        BY DEF RowsInv, HashKept
    <3>2. QED
        BY <1>4, <3>1
  <2>2. QED
      BY <1>2, <1>3, <1>4, <2>1 DEF HashKept
<1>10. RetriedElsewhere'
  <2>1. key # row[old].hash[1]
    <3>1. PICK s \in Admitted : row[s].owner = row[old].owner /\ row[s].key = row[old].hash[1] /\ row[s].position = 1
        BY <1>2 DEF RowsInv, HashKept
    <3>2. QED
        BY <1>5, <3>1
  <2>2. QED
      BY <1>3, <1>4, <2>1 DEF RowsInv, RetriedElsewhere
<1>11. PartsAnswered'
  <2>1. ASSUME NEW p \in answered, NEW i \in DOMAIN p.parts
        PROVE  \E r \in RowsOf(p.owner, p.key, i)' : row'[r].payload = p.parts[i] /\ row'[r].retryOf = None
    <3>1. PICK r \in RowsOf(p.owner, p.key, i) : row[r].payload = p.parts[i] /\ row[r].retryOf = None
        BY DEF RowsInv, PartsAnswered
    <3>2. r \in Admitted /\ r \in RowsOf(p.owner, p.key, i)'
        BY <1>2, <3>1, RowsStay DEF RowsOf
    <3>3. QED
        BY <1>4, <3>1, <3>2
  <2>2. QED
      BY <1>2, <2>1 DEF PartsAnswered
<1>12. RetriesFollow'
  <2>1. ASSUME NEW r \in Admitted, row[r].retryOf # None
        PROVE  row[r].retryOf \in Admitted
      BY <2>1 DEF RowsInv, RetriesFollow, Shapes, Row, Admitted, Stopped
  <2>2. QED
      BY <1>2, <1>3, <1>4, <2>1 DEF RowsInv, RetriesFollow
<1>13. QED
    BY <1>6, <1>8, <1>9, <1>10, <1>11, <1>12 DEF RowsInv

LEMMA RowsStep == Shapes /\ RowsInv /\ [Next]_vars => RowsInv'
<1> SUFFICES ASSUME Shapes, RowsInv, [Next]_vars PROVE RowsInv'
    OBVIOUS
<1>1. ASSUME UNCHANGED <<row, answered>>, Admitted' = Admitted, \A r \in Runs : stage[r] \in Stopped => stage'[r] = stage[r]
      PROVE  RowsInv'
  <2>1. \A r \in Admitted : row[r].retryOf # None => row[r].retryOf \in Runs
      BY DEF Shapes, Row
  <2>2. RetriesFollow'
      BY <1>1, <2>1 DEF RowsInv, RetriesFollow
  <2>3. \A o, key, i : RowsOf(o, key, i)' = RowsOf(o, key, i)
      BY <1>1 DEF RowsOf
  <2>4. PartsAnswered'
      BY <1>1, <2>3 DEF RowsInv, PartsAnswered
  <2>5. QED
      BY <1>1, <2>2, <2>4 DEF RowsInv, OneRowEach, FromRequests, HashKept, RetriedElsewhere
<1>2. ASSUME NEW r \in Runs, Begin(r) \/ Cancel(r) \/ Complete(r) \/ Stop(r) \/ Reconcile(r)
      PROVE  RowsInv'
    BY <1>1, <1>2, SettlesOne DEF Settles
<1>3. ASSUME NEW o \in Owners, NEW p \in Principals, ClaimLibrary(o, p)
      PROVE  RowsInv'
    BY <1>1, <1>3 DEF ClaimLibrary, Admitted
<1>4. CASE Midnight
    BY <1>1, <1>4 DEF Midnight, Admitted
<1>5. CASE UNCHANGED vars
    BY <1>1, <1>5 DEF vars, Admitted
<1>6. ASSUME NEW q \in Requests, Press(q)
      PROVE  RowsInv'
    BY <1>6, PressKeepsRows
<1>7. ASSUME NEW old \in Runs, NEW key \in Keys, Retry(old, key)
      PROVE  RowsInv'
    BY <1>7, RetryKeepsRows
<1>8. QED
    BY <1>2, <1>3, <1>4, <1>5, <1>6, <1>7 DEF Next

-----------------------------------------------------------------------------
(* The queue *)

\* The client repeats a request under its key: one that shares owner, key and first part
\* with another is that request.
OneRequestPerKey ==
    \A p, q \in Requests : p.owner = q.owner /\ p.key = q.key /\ p.parts[1] = q.parts[1] => p = q

UnderWay     == PressesUnderWay(Admitted)
UnderWayOf(o) == PressesUnderWay(LibraryRuns(o))

QueueInv == IsFiniteSet(UnderWay) /\ QueueBounded

\* A press under way is one run's at least.
LEMMA Pressed ==
    /\ \A x : x \in UnderWay <=> \E r \in Admitted : stage[r] \in Active /\ x = PressOf(r)
    /\ \A o, x : x \in UnderWayOf(o) <=> \E r \in Admitted : row[r].owner = o /\ stage[r] \in Active /\ x = PressOf(r)
    /\ \A o : UnderWayOf(o) \subseteq UnderWay
BY DEF UnderWay, UnderWayOf, PressesUnderWay, LibraryRuns

\* Presses that only leave what is under way keep within the limits.
LEMMA QueueQuiet ==
    ASSUME QueueInv, UnderWay' \subseteq UnderWay, \A o \in Owners : UnderWayOf(o)' \subseteq UnderWayOf(o)
    PROVE  QueueInv'
<1>1. IsFiniteSet(UnderWay) /\ \A o \in Owners : IsFiniteSet(UnderWayOf(o))
    BY Pressed, FS_Subset DEF QueueInv
<1>2. IsFiniteSet(UnderWay') /\ Cardinality(UnderWay') <= Cardinality(UnderWay) /\ Cardinality(UnderWay') \in Nat
      /\ Cardinality(UnderWay) \in Nat
    BY <1>1, FS_Subset, FS_CardinalityType
<1>3. ASSUME NEW o \in Owners
      PROVE  Cardinality(UnderWayOf(o)') <= UserConcurrency
  <2>1. IsFiniteSet(UnderWayOf(o)') /\ Cardinality(UnderWayOf(o)') <= Cardinality(UnderWayOf(o))
        /\ Cardinality(UnderWayOf(o)) \in Nat /\ Cardinality(UnderWayOf(o)') \in Nat
      BY <1>1, FS_Subset, FS_CardinalityType
  <2>2. Cardinality(UnderWayOf(o)) <= UserConcurrency /\ UserConcurrency \in Nat
      BY LimitAssumption DEF QueueInv, QueueBounded, UnderWayOf
  <2>3. QED
      BY <2>1, <2>2
<1>4. Cardinality(UnderWay) <= QueueLimit /\ QueueLimit \in Nat
    BY LimitAssumption DEF QueueInv, QueueBounded, UnderWay
<1>5. Cardinality(UnderWay') <= QueueLimit
    BY <1>2, <1>4
<1>6. QED
    BY <1>2, <1>3, <1>5 DEF QueueInv, QueueBounded, UnderWay, UnderWayOf

\* One press more keeps within the limits that were looked at before it.
LEMMA QueueAdds ==
    ASSUME QueueInv, NEW o \in Owners, WithinLimits(o), NEW x, UnderWay' \subseteq UnderWay \cup {x},
           UnderWayOf(o)' \subseteq UnderWayOf(o) \cup {x},
           \A p \in Owners \ {o} : UnderWayOf(p)' \subseteq UnderWayOf(p)
    PROVE  QueueInv'
<1>1. IsFiniteSet(UnderWay) /\ \A p \in Owners : IsFiniteSet(UnderWayOf(p))
    BY Pressed, FS_Subset DEF QueueInv
<1>2. ASSUME NEW S, NEW T, NEW n \in Nat, IsFiniteSet(S), T \subseteq S \cup {x}, Cardinality(S) < n
      PROVE  IsFiniteSet(T) /\ Cardinality(T) <= n
  <2>1. IsFiniteSet(S \cup {x}) /\ Cardinality(S \cup {x}) = IF x \in S THEN Cardinality(S) ELSE Cardinality(S) + 1
      BY <1>2, FS_AddElement
  <2>2. IsFiniteSet(T) /\ Cardinality(T) <= Cardinality(S \cup {x})
      BY <1>2, <2>1, FS_Subset
  <2>3. Cardinality(S) \in Nat /\ Cardinality(T) \in Nat
      BY <1>2, <2>2, FS_CardinalityType
  <2>4. QED
      BY <1>2, <2>1, <2>2, <2>3
<1>3. IsFiniteSet(UnderWay') /\ Cardinality(UnderWay') <= QueueLimit
  <2>1. Cardinality(UnderWay) < QueueLimit /\ QueueLimit \in Nat
      BY LimitAssumption DEF WithinLimits, UnderWay
  <2>2. QED
      BY <1>1, <1>2, <2>1
<1>4. ASSUME NEW p \in Owners
      PROVE  Cardinality(UnderWayOf(p)') <= UserConcurrency
  <2>1. CASE p = o
    <3>1. Cardinality(UnderWayOf(o)) < UserConcurrency /\ UserConcurrency \in Nat
        BY LimitAssumption DEF WithinLimits, UnderWayOf
    <3>2. QED
        BY <1>1, <1>2, <2>1, <3>1
  <2>2. CASE p # o
    <3>1. IsFiniteSet(UnderWayOf(p)') /\ Cardinality(UnderWayOf(p)') <= Cardinality(UnderWayOf(p))
          /\ Cardinality(UnderWayOf(p)) \in Nat /\ Cardinality(UnderWayOf(p)') \in Nat
        BY <1>1, <2>2, FS_Subset, FS_CardinalityType
    <3>2. Cardinality(UnderWayOf(p)) <= UserConcurrency /\ UserConcurrency \in Nat
        BY LimitAssumption DEF QueueInv, QueueBounded, UnderWayOf
    <3>3. QED
        BY <3>1, <3>2
  <2>3. QED
      BY <2>1, <2>2
<1>5. QED
    BY <1>3, <1>4 DEF QueueInv, QueueBounded, UnderWay, UnderWayOf

\* New rows of one owner and one press are one press more.
LEMMA AddsOne ==
    ASSUME Shapes, NEW new, Adds(new), NEW o, NEW x, \A r \in new : row'[r].owner = o /\ PressOf(r)' = x
    PROVE  /\ UnderWay' \subseteq UnderWay \cup {x} /\ UnderWayOf(o)' \subseteq UnderWayOf(o) \cup {x}
           /\ \A p \in Owners \ {o} : UnderWayOf(p)' \subseteq UnderWayOf(p)
<1>1. ASSUME NEW y
      PROVE  /\ y \in UnderWay' <=> \E r \in Admitted' : stage'[r] \in Active /\ y = PressOf(r)'
             /\ \A p : y \in UnderWayOf(p)' <=> \E r \in Admitted' : row'[r].owner = p /\ stage'[r] \in Active /\ y = PressOf(r)'
    BY DEF UnderWay, UnderWayOf, PressesUnderWay, LibraryRuns
<1>2. /\ \A r \in Admitted' : r \in Admitted \/ r \in new
      /\ \A r \in Admitted : row'[r] = row[r] /\ stage'[r] = stage[r] /\ PressOf(r)' = PressOf(r)
    BY RowsStay DEF PressOf
<1>3. QED
    BY <1>1, <1>2, Pressed

LEMMA PressKeepsQueue ==
    ASSUME OneRequestPerKey, Shapes, RowsInv, QueueInv, NEW q \in Requests, Press(q)
    PROVE  QueueInv'
<1>1. PICK id : PressAdds(q, id)
    BY PressRows
<1> DEFINE new == {id[i] : i \in Missing(q)}
<1>2. Adds(new) /\ SameAsBefore(q) /\ (1 \in Missing(q) => WithinLimits(q.owner))
    BY <1>1 DEF PressAdds, Press
<1>3. ASSUME NEW i \in Missing(q)
      PROVE  /\ i \in DOMAIN q.parts /\ row'[id[i]].owner = q.owner
             /\ row'[id[i]].batch = IF q.fanned THEN q.key ELSE None
    BY <1>1, MissingParts, NewRowTyped DEF PressAdds
<1>4. q.owner \in Owners /\ q.key \in Keys /\ q.key # None /\ q.parts \in Seq(Payloads)
      /\ (~q.fanned => Len(q.parts) = 1)
    BY RequestAssumption, NoneAssumption
<1>5. CASE 1 \in Missing(q)
  <2> DEFINE x == IF q.fanned THEN <<q.key>> ELSE <<id[1]>>
  <2>1. ASSUME NEW i \in Missing(q)
        PROVE  PressOf(id[i])' = x
    <3>1. CASE q.fanned
        BY <1>3, <1>4, <3>1 DEF PressOf
    <3>2. CASE ~q.fanned
      <4>1. i = 1
          BY <1>3, <1>4, <3>2
      <4>2. QED
          BY <1>3, <3>2, <4>1 DEF PressOf
    <3>3. QED
        BY <3>1, <3>2
  <2> HIDE DEF x
  <2>2. \A r \in new : row'[r].owner = q.owner /\ PressOf(r)' = x
      BY <1>3, <2>1
  <2> HIDE DEF new
  <2>3. /\ UnderWay' \subseteq UnderWay \cup {x} /\ UnderWayOf(q.owner)' \subseteq UnderWayOf(q.owner) \cup {x}
        /\ \A p \in Owners \ {q.owner} : UnderWayOf(p)' \subseteq UnderWayOf(p)
      BY <1>2, <2>2, AddsOne
  <2>4. QED
      BY <1>2, <1>4, <1>5, <2>3, QueueAdds
<1>6. CASE 1 \notin Missing(q)
  <2>1. 1 \in DOMAIN q.parts
      BY MissingParts
  <2>2. PICK r : r \in RowsOf(q.owner, q.key, 1)
      BY <1>6, <2>1 DEF Missing
  <2>3. PICK p \in answered : p.owner = q.owner /\ p.key = q.key /\ p.parts[1] = q.parts[1]
      BY <1>2, <2>1, <2>2, AnswersFor
  <2>4. p = q
      BY <2>3 DEF OneRequestPerKey, Shapes
  <2>5. Missing(q) = {}
      BY <2>3, <2>4 DEF RowsInv, PartsAnswered, Missing
  <2>6. \A n \in new : row'[n].owner = q.owner /\ PressOf(n)' = <<q.key>>
      BY <2>5
  <2>7. new = {}
      BY <2>5
  <2> HIDE DEF new
  <2>8. UnderWay' \subseteq UnderWay /\ \A o \in Owners : UnderWayOf(o)' \subseteq UnderWayOf(o)
    <3>1. ASSUME NEW y
          PROVE  /\ y \in UnderWay' <=> \E n \in Admitted' : stage'[n] \in Active /\ y = PressOf(n)'
                 /\ \A o : y \in UnderWayOf(o)' <=> \E n \in Admitted' : row'[n].owner = o /\ stage'[n] \in Active /\ y = PressOf(n)'
        BY DEF UnderWay, UnderWayOf, PressesUnderWay, LibraryRuns
    <3>2. \A n \in Admitted' : n \in Admitted /\ row'[n] = row[n] /\ stage'[n] = stage[n] /\ PressOf(n)' = PressOf(n)
        BY <1>2, <2>7, RowsStay DEF PressOf
    <3>3. QED
        BY <3>1, <3>2, Pressed
  <2>9. QED
      BY <2>8, QueueQuiet
<1>7. QED
    BY <1>5, <1>6

LEMMA QueueStep ==
    ASSUME OneRequestPerKey, Shapes, RowsInv, QueueInv, [Next]_vars
    PROVE  QueueInv'
<1>1. ASSUME UNCHANGED row, Admitted' = Admitted, \A r \in Runs : stage'[r] \in Active => stage[r] \in Active
      PROVE  QueueInv'
  <2>1. UnderWay' \subseteq UnderWay /\ \A o \in Owners : UnderWayOf(o)' \subseteq UnderWayOf(o)
      BY <1>1 DEF UnderWay, UnderWayOf, PressesUnderWay, LibraryRuns, PressOf, Admitted
  <2>2. QED
      BY <2>1, QueueQuiet
<1>2. ASSUME NEW r \in Runs, Begin(r) \/ Cancel(r) \/ Complete(r) \/ Stop(r) \/ Reconcile(r)
      PROVE  QueueInv'
    BY <1>1, <1>2, SettlesOne DEF Settles
<1>3. ASSUME NEW o \in Owners, NEW p \in Principals, ClaimLibrary(o, p)
      PROVE  QueueInv'
    BY <1>1, <1>3 DEF ClaimLibrary, Admitted
<1>4. CASE Midnight
    BY <1>1, <1>4 DEF Midnight, Admitted
<1>5. CASE UNCHANGED vars
    BY <1>1, <1>5 DEF vars, Admitted
<1>6. ASSUME NEW q \in Requests, Press(q)
      PROVE  QueueInv'
    BY <1>6, PressKeepsQueue
<1>7. ASSUME NEW old \in Runs, NEW key \in Keys, Retry(old, key)
      PROVE  QueueInv'
  <2>1. PICK new : RetryAdds(old, key, new)
      BY <1>7, RetryRows
  <2>2. Adds({new}) /\ WithinLimits(row[old].owner) /\ row'[new].owner = row[old].owner
      BY <2>1 DEF RetryAdds, IsCopy
  <2>3. row[old].owner \in Owners
      BY <2>1 DEF RetryAdds, Shapes, Row
  <2>4. PICK o \in Owners : o = row[old].owner
      BY <2>3
  <2>5. PICK x : x = PressOf(new)'
      OBVIOUS
  <2>6. /\ UnderWay' \subseteq UnderWay \cup {x} /\ UnderWayOf(o)' \subseteq UnderWayOf(o) \cup {x}
        /\ \A p \in Owners \ {o} : UnderWayOf(p)' \subseteq UnderWayOf(p)
      BY <2>2, <2>4, <2>5, AddsOne
  <2>7. QED
      BY <2>2, <2>4, <2>6, QueueAdds
<1>8. QED
    BY <1>2, <1>3, <1>4, <1>5, <1>6, <1>7 DEF Next

LEMMA InitRows == Init => RowsInv /\ QueueInv
<1> SUFFICES ASSUME Init PROVE RowsInv /\ QueueInv
    OBVIOUS
<1>1. Admitted = {} /\ answered = {}
    BY DEF Init, Admitted
<1>2. RowsInv
    BY <1>1 DEF RowsInv, OneRowEach, FromRequests, HashKept, RetriedElsewhere, PartsAnswered, RetriesFollow
<1>3. UnderWay = {} /\ \A o : UnderWayOf(o) = {}
    BY <1>1, Pressed
<1>4. QED
    BY <1>2, <1>3, FS_EmptySet, LimitAssumption DEF QueueInv, QueueBounded, UnderWay, UnderWayOf

\* Every part of an answered press has its own run and no other, a retry follows a run that
\* stopped and is never called again, and the presses under way stay within the queue and within
\* each library's share, however many parts each has (runs.ts:92-246, :554-720).
THEOREM PressesAlwaysWhole == OneRequestPerKey => (Spec => []PressesWhole)
<1> SUFFICES ASSUME OneRequestPerKey PROVE Spec => []PressesWhole
    OBVIOUS
<1> DEFINE Inv == Shapes /\ RowsInv /\ QueueInv
<1>1. Init => Inv
    BY InitShapes, InitRows
<1>2. Inv /\ [Next]_vars => Inv'
  <2>1. SUFFICES ASSUME Inv, [Next]_vars PROVE Inv'
      OBVIOUS
  <2>2. QED
      BY <2>1, ShapesStep, RowsStep, QueueStep
<1>3. Inv => PressesWhole
    BY RowsWhole DEF PressesWhole, RowsInv, QueueInv
<1> HIDE DEF Inv
<1>4. QED
    BY <1>1, <1>2, <1>3, PTL DEF Spec

-----------------------------------------------------------------------------
(* Sums of amounts over finite sets *)

\* A nonempty collection of finite sets has a member with no smaller member.
LEMMA SmallestSet ==
    ASSUME NEW S, IsFiniteSet(S), NEW Bad, Bad \subseteq SUBSET S, Bad # {}
    PROVE  \E T \in Bad : \A U \in SUBSET T : U # T => U \notin Bad
<1>1. Bad \subseteq FiniteSubsetsOf(S)
    BY FS_Subset DEF FiniteSubsetsOf
<1>2. IsWellFoundedOn(StrictSubsetOrdering(S), FiniteSubsetsOf(S))
    BY FS_StrictSubsetOrderingWellFounded
<1>3. PICK T \in Bad : \A U \in Bad : ~ (<<U, T>> \in StrictSubsetOrdering(S))
    BY <1>1, <1>2, WFMin
<1>4. ASSUME NEW U \in SUBSET T, U # T, U \in Bad
      PROVE  FALSE
    BY <1>3, <1>4 DEF StrictSubsetOrdering
<1>5. QED
    BY <1>4

Total(w, S) == SumFunctionOnSet(w, S)

Pick(T) == CHOOSE x \in T : TRUE
Unfolds(it, w, S) == it = [T \in SUBSET S |-> IF T = {} THEN 0 ELSE w[Pick(T)] + it[T \ {Pick(T)}]]

LEMMA TotalIs ==
    ASSUME NEW w, NEW S
    PROVE  Total(w, S) = (CHOOSE it : Unfolds(it, w, S))[S]
BY DEF Total, SumFunctionOnSet, FoldFunctionOnSet, MapThenFoldSet, Unfolds, Pick

LEMMA Picked == ASSUME NEW T, T # {} PROVE Pick(T) \in T
BY DEF Pick

LEMMA UnfoldsAt ==
    ASSUME NEW w, NEW S, NEW it, Unfolds(it, w, S), NEW T \in SUBSET S
    PROVE  it[T] = IF T = {} THEN 0 ELSE w[Pick(T)] + it[T \ {Pick(T)}]
<1> DEFINE r(U) == IF U = {} THEN 0 ELSE w[Pick(U)] + it[U \ {Pick(U)}]
<1>1. it = [U \in SUBSET S |-> r(U)]
    BY DEF Unfolds
<1> HIDE DEF r
<1>2. it[T] = r(T)
    BY <1>1
<1>3. QED
    BY <1>2 DEF r

\* Whatever unfolds a sum over two sets agrees on what is in both.
LEMMA UnfoldsAgree ==
    ASSUME NEW w, NEW S, IsFiniteSet(S), NEW it, Unfolds(it, w, S),
           NEW T \in SUBSET S, NEW at, Unfolds(at, w, T)
    PROVE  at[T] = it[T]
<1> DEFINE Bad == {U \in SUBSET T : at[U] # it[U]}
<1> SUFFICES ASSUME Bad # {} PROVE FALSE
    OBVIOUS
<1>1. Bad \subseteq SUBSET S
    OBVIOUS
<1> HIDE DEF Bad
<1>2. PICK U \in Bad : \A V \in SUBSET U : V # U => V \notin Bad
    BY <1>1, SmallestSet
<1> DEFINE V == U \ {Pick(U)}
<1>3. U \in SUBSET T /\ U \in SUBSET S /\ at[U] # it[U]
    BY <1>2 DEF Bad
<1>4. ASSUME NEW R, NEW rt, Unfolds(rt, w, R), U \in SUBSET R
      PROVE  rt[U] = IF U = {} THEN 0 ELSE w[Pick(U)] + rt[V]
    BY <1>4, UnfoldsAt
<1>a. /\ at[U] = IF U = {} THEN 0 ELSE w[Pick(U)] + at[V]
      /\ it[U] = IF U = {} THEN 0 ELSE w[Pick(U)] + it[V]
  <2> HIDE DEF V
  <2>1. QED
      BY <1>3, <1>4
<1>5. U # {}
    BY <1>3, <1>a
<1>6. V \in SUBSET U /\ V # U
    BY <1>5, Picked
<1>7. V \notin Bad
    BY <1>2, <1>6
<1>8. at[V] = it[V]
    BY <1>3, <1>6, <1>7 DEF Bad
<1>9. QED
    BY <1>3, <1>8, <1>a

LEMMA SumUnfolds ==
    ASSUME NEW w, NEW S, IsFiniteSet(S)
    PROVE  \E it : Unfolds(it, w, S)
<1> DEFINE Bad == {T \in SUBSET S : ~ \E it : Unfolds(it, w, T)}
<1> SUFFICES ASSUME Bad # {} PROVE FALSE
    OBVIOUS
<1> HIDE DEF Bad
<1>1. Bad \subseteq SUBSET S
    BY DEF Bad
<1>2. PICK T \in Bad : \A U \in SUBSET T : U # T => U \notin Bad
    BY <1>1, SmallestSet
<1>3. T \in SUBSET S /\ ~ \E it : Unfolds(it, w, T)
    BY <1>2 DEF Bad
<1>4. ASSUME NEW U \in SUBSET T, U # T
      PROVE  Unfolds(CHOOSE it : Unfolds(it, w, U), w, U)
  <2>1. \E it : Unfolds(it, w, U)
      BY <1>2, <1>3, <1>4 DEF Bad
  <2>2. QED
      BY <2>1
<1> DEFINE low(U) == Total(w, U)
           r(U) == IF U = {} THEN 0 ELSE w[Pick(U)] + low(U \ {Pick(U)})
           it == [U \in SUBSET T |-> r(U)]
<1>5. ASSUME NEW U \in SUBSET T, U # T
      PROVE  low(U) = r(U)
  <2> DEFINE iu == CHOOSE f : Unfolds(f, w, U)
             V  == U \ {Pick(U)}
             iv == CHOOSE f : Unfolds(f, w, V)
  <2>1. Unfolds(iu, w, U) /\ low(U) = iu[U]
      BY <1>4, <1>5, TotalIs
  <2>2. iu[U] = IF U = {} THEN 0 ELSE w[Pick(U)] + iu[V]
      BY <2>1, UnfoldsAt
  <2>3. CASE U = {}
      BY <2>1, <2>2, <2>3
  <2>4. CASE U # {}
    <3>1. V \in SUBSET U /\ V \in SUBSET T /\ V # T
        BY <2>4, <1>5, Picked
    <3>2. Unfolds(iv, w, V) /\ low(V) = iv[V]
        BY <3>1, <1>4, TotalIs
    <3>3. IsFiniteSet(U)
        BY <1>3, FS_Subset
    <3> HIDE DEF iu, iv, V
    <3>4. iv[V] = iu[V]
        BY <3>1, <3>2, <3>3, <2>1, UnfoldsAgree
    <3>5. QED
        BY <2>1, <2>2, <2>4, <3>2, <3>4 DEF V
  <2>5. QED
      BY <2>3, <2>4
<1> DEFINE q(U) == IF U = {} THEN 0 ELSE w[Pick(U)] + it[U \ {Pick(U)}]
<1>6. ASSUME NEW U \in SUBSET T
      PROVE  r(U) = q(U)
  <2>1. CASE U = {}
      BY <2>1
  <2>2. CASE U # {}
    <3> DEFINE V == U \ {Pick(U)}
    <3>1. V \in SUBSET T /\ V # T
        BY <2>2, Picked
    <3>2. it[V] = low(V)
      <4>1. r(V) = low(V)
          BY <3>1, <1>5
      <4> HIDE DEF r, low, V
      <4>2. QED
          BY <3>1, <4>1
    <3>3. QED
        BY <2>2, <3>2
  <2>3. QED
      BY <2>1, <2>2
<1>7. it = [U \in SUBSET T |-> q(U)]
  <2> HIDE DEF r, q
  <2>1. QED
      BY <1>6
<1>8. Unfolds(it, w, T)
  <2> HIDE DEF r
  <2>1. QED
      BY <1>7 DEF Unfolds
<1>9. QED
    BY <1>3, <1>8

\* What a sum is: nothing over nothing, and otherwise any element's amount and the rest.
LEMMA TotalPick ==
    ASSUME NEW w, NEW S, IsFiniteSet(S)
    PROVE  Total(w, S) = IF S = {} THEN 0 ELSE w[Pick(S)] + Total(w, S \ {Pick(S)})
<1> DEFINE V  == S \ {Pick(S)}
           is == CHOOSE f : Unfolds(f, w, S)
           iv == CHOOSE f : Unfolds(f, w, V)
<1>1. IsFiniteSet(V)
    BY FS_RemoveElement
<1>2. Unfolds(is, w, S) /\ Unfolds(iv, w, V)
    BY <1>1, SumUnfolds
<1>3. Total(w, S) = is[S] /\ Total(w, V) = iv[V]
    BY TotalIs
<1>4. is[S] = IF S = {} THEN 0 ELSE w[Pick(S)] + is[V]
    BY <1>2, UnfoldsAt
<1> HIDE DEF is, iv
<1>5. iv[V] = is[V]
    BY <1>2, UnfoldsAgree
<1>6. QED
    BY <1>3, <1>4, <1>5

LEMMA TotalTyped ==
    ASSUME NEW w, NEW S, IsFiniteSet(S), \A s \in S : w[s] \in Nat
    PROVE  Total(w, S) \in Nat
<1> DEFINE Bad == {T \in SUBSET S : Total(w, T) \notin Nat}
<1> SUFFICES ASSUME Bad # {} PROVE FALSE
    OBVIOUS
<1>1. Bad \subseteq SUBSET S
    OBVIOUS
<1> HIDE DEF Bad
<1>2. PICK T \in Bad : \A U \in SUBSET T : U # T => U \notin Bad
    BY <1>1, SmallestSet
<1>3. T \in SUBSET S /\ Total(w, T) \notin Nat /\ IsFiniteSet(T)
    BY <1>2, FS_Subset DEF Bad
<1> DEFINE V == T \ {Pick(T)}
<1>4. Total(w, T) = IF T = {} THEN 0 ELSE w[Pick(T)] + Total(w, V)
    BY <1>3, TotalPick
<1>5. T # {}
    BY <1>3, <1>4
<1>6. Pick(T) \in S /\ V \in SUBSET T /\ V # T
    BY <1>3, <1>5, Picked
<1>7. Total(w, V) \in Nat
    BY <1>2, <1>3, <1>6 DEF Bad
<1> HIDE DEF V
<1>8. QED
    BY <1>3, <1>4, <1>5, <1>6, <1>7

LEMMA TotalEmpty == ASSUME NEW w PROVE Total(w, {}) = 0
BY FS_EmptySet, TotalPick

\* The order of the terms does not matter: any element may be taken out.
LEMMA TotalTake ==
    ASSUME NEW w, NEW S, IsFiniteSet(S), \A s \in S : w[s] \in Nat, NEW x \in S
    PROVE  Total(w, S) = w[x] + Total(w, S \ {x})
<1> DEFINE Bad == {T \in SUBSET S : \E y \in T : Total(w, T) # w[y] + Total(w, T \ {y})}
<1> SUFFICES ASSUME Bad # {} PROVE FALSE
    OBVIOUS
<1>1. Bad \subseteq SUBSET S
    OBVIOUS
<1> HIDE DEF Bad
<1>2. PICK T \in Bad : \A U \in SUBSET T : U # T => U \notin Bad
    BY <1>1, SmallestSet
<1>3. PICK y \in T : Total(w, T) # w[y] + Total(w, T \ {y})
    BY <1>2 DEF Bad
<1> DEFINE p == Pick(T)
           V == T \ {p}
           W == T \ {y}
           X == T \ {p, y}
<1>4. T \in SUBSET S /\ IsFiniteSet(T) /\ p \in T
    BY <1>1, <1>2, <1>3, Picked, FS_Subset
<1>5. Total(w, T) = w[p] + Total(w, V)
    BY <1>3, <1>4, TotalPick
<1>6. y # p
    BY <1>3, <1>5
<1>7. /\ V \in SUBSET T /\ W \in SUBSET T /\ V # T /\ W # T /\ y \in V /\ p \in W
      /\ V \ {y} = X /\ W \ {p} = X /\ V \in SUBSET S /\ W \in SUBSET S
    BY <1>4, <1>6
<1> HIDE DEF p, V, W, X
<1>a. ASSUME NEW U \in SUBSET T, U # T, NEW z \in U
      PROVE  Total(w, U) = w[z] + Total(w, U \ {z})
    BY <1>2, <1>4, <1>a DEF Bad
<1>8. Total(w, V) = w[y] + Total(w, X)
    BY <1>7, <1>a
<1>9. Total(w, W) = w[p] + Total(w, X)
    BY <1>7, <1>a
<1>10. X \in SUBSET S /\ IsFiniteSet(X)
    BY <1>4, FS_Subset DEF X
<1>11. Total(w, X) \in Nat /\ w[y] \in Nat /\ w[p] \in Nat
    BY <1>3, <1>4, <1>10, TotalTyped
<1>12. Total(w, T) # w[y] + Total(w, W)
    BY <1>3 DEF W
<1>13. QED
    BY <1>5, <1>8, <1>9, <1>11, <1>12

\* Amounts that are not larger, of at least the same elements.
LEMMA TotalMonotone ==
    ASSUME NEW v, NEW w, NEW S, IsFiniteSet(S), NEW R \in SUBSET S,
           \A s \in R : v[s] \in Nat /\ v[s] <= w[s],
           \A s \in S : w[s] \in Nat
    PROVE  Total(v, R) <= Total(w, S)
<1> DEFINE Bad == {T \in SUBSET S : ~ Total(v, T \cap R) <= Total(w, T)}
<1>0. S \cap R = R
    OBVIOUS
<1> SUFFICES ASSUME Bad # {} PROVE FALSE
    BY <1>0
<1>1. Bad \subseteq SUBSET S
    OBVIOUS
<1> HIDE DEF Bad
<1>2. PICK T \in Bad : \A U \in SUBSET T : U # T => U \notin Bad
    BY <1>1, SmallestSet
<1>3. T \in SUBSET S /\ IsFiniteSet(T) /\ ~ Total(v, T \cap R) <= Total(w, T)
    BY <1>2, FS_Subset DEF Bad
<1>4. T # {}
  <2>1. CASE T = {}
    <3>1. T \cap R = {}
        BY <2>1
    <3>2. QED
        BY <2>1, <3>1, <1>3, TotalEmpty
  <2>2. QED
      BY <2>1
<1> DEFINE p == Pick(T)
           V == T \ {p}
<1>5. p \in T /\ p \in S /\ V \in SUBSET T /\ V # T /\ V \in SUBSET S
    BY <1>3, <1>4, Picked
<1>6. Total(v, V \cap R) <= Total(w, V)
    BY <1>2, <1>5 DEF Bad
<1>7. Total(w, T) = w[p] + Total(w, V)
    BY <1>3, <1>4, TotalPick
<1> HIDE DEF p
<1>8. IsFiniteSet(V) /\ IsFiniteSet(V \cap R) /\ IsFiniteSet(T \cap R) /\ V \cap R = (T \cap R) \ {p}
    BY <1>3, FS_Subset, FS_Intersection
<1>9. V \cap R \in SUBSET R /\ T \cap R \in SUBSET R
    OBVIOUS
<1> HIDE DEF V
<1>10. Total(w, V) \in Nat /\ Total(v, V \cap R) \in Nat /\ w[p] \in Nat
    BY <1>5, <1>8, <1>9, TotalTyped
<1>11. CASE p \in R
  <2>1. Total(v, T \cap R) = v[p] + Total(v, V \cap R)
      BY <1>5, <1>8, <1>9, <1>11, TotalTake
  <2>2. v[p] \in Nat /\ v[p] <= w[p]
      BY <1>11
  <2>3. QED
      BY <2>1, <2>2, <1>3, <1>6, <1>7, <1>10
<1>12. CASE p \notin R
  <2>1. T \cap R = V \cap R
      BY <1>8, <1>12
  <2>2. Total(v, T \cap R) = Total(v, V \cap R)
      BY <2>1
  <2>3. QED
      BY <2>2, <1>3, <1>6, <1>7, <1>10
<1>13. QED
    BY <1>11, <1>12

LEMMA TotalSame ==
    ASSUME NEW v, NEW w, NEW S, IsFiniteSet(S), \A s \in S : v[s] \in Nat /\ v[s] = w[s]
    PROVE  Total(v, S) = Total(w, S)
<1>1. Total(v, S) <= Total(w, S) /\ Total(w, S) <= Total(v, S)
    BY TotalMonotone
<1>2. Total(v, S) \in Nat /\ Total(w, S) \in Nat
    BY TotalTyped
<1>3. QED
    BY <1>1, <1>2

Images(id, I) == {id[i] : i \in I}

\* What a set adds to another, when the elements are numbered by those of I.
LEMMA TotalJoined ==
    ASSUME NEW w, NEW S, IsFiniteSet(S), NEW I, IsFiniteSet(I), NEW id,
           \A i \in I : id[i] \notin S, \A i, j \in I : id[i] = id[j] => i = j,
           NEW a, \A i \in I : a[i] \in Nat /\ w[id[i]] = a[i],
           \A s \in S : w[s] \in Nat
    PROVE  /\ IsFiniteSet(S \cup Images(id, I))
           /\ Total(w, S \cup Images(id, I)) = Total(w, S) + Total(a, I)
<1> USE DEF Images
<1> DEFINE With(J) == S \cup Images(id, J)
           Good(J) == IsFiniteSet(With(J)) /\ Total(w, With(J)) = Total(w, S) + Total(a, J)
           Bad == {J \in SUBSET I : ~ Good(J)}
<1> SUFFICES ASSUME Bad # {} PROVE FALSE
    OBVIOUS
<1>1. Bad \subseteq SUBSET I
    OBVIOUS
<1> HIDE DEF Bad
<1>2. PICK J \in Bad : \A U \in SUBSET J : U # J => U \notin Bad
    BY <1>1, SmallestSet
<1>3. J \in SUBSET I /\ IsFiniteSet(J) /\ ~ Good(J)
  <2> HIDE DEF Good
  <2>1. QED
      BY <1>2, FS_Subset DEF Bad
<1>4. Total(w, S) \in Nat
    BY TotalTyped
<1>5. J # {}
  <2>1. CASE J = {}
    <3>1. With(J) = S
        BY <2>1
    <3>2. Total(a, J) = 0
        BY <2>1, TotalEmpty
    <3>3. Good(J)
      <4> HIDE DEF With
      <4>1. QED
          BY <3>1, <3>2, <1>4
    <3>4. QED
        BY <3>3, <1>3
  <2>2. QED
      BY <2>1
<1> DEFINE p == Pick(J)
           V == J \ {p}
<1>6. p \in J /\ p \in I /\ V \in SUBSET J /\ V # J /\ V \in SUBSET I
    BY <1>3, <1>5, Picked
<1>7. Good(V)
  <2> HIDE DEF Good
  <2>1. QED
      BY <1>2, <1>6 DEF Bad
<1>8. Total(a, J) = a[p] + Total(a, V)
    BY <1>3, <1>5, TotalPick
<1> HIDE DEF p
<1>9. With(J) = With(V) \cup {id[p]} /\ id[p] \notin With(V)
    BY <1>6
<1>10. IsFiniteSet(V) /\ Total(a, V) \in Nat /\ a[p] \in Nat
  <2>1. IsFiniteSet(V)
      BY <1>3, FS_Subset
  <2>2. QED
      BY <2>1, <1>6, TotalTyped
<1>11. \A s \in With(J) : w[s] \in Nat
  <2>1. ASSUME NEW i \in J PROVE w[id[i]] \in Nat
      BY <1>3
  <2>2. QED
      BY <2>1
<1> HIDE DEF With, V
<1>12. IsFiniteSet(With(J)) /\ With(J) \ {id[p]} = With(V) /\ id[p] \in With(J)
    BY <1>7, <1>9, FS_AddElement
<1>13. Total(w, With(J)) = w[id[p]] + Total(w, With(V))
    BY <1>11, <1>12, TotalTake
<1>14. w[id[p]] = a[p]
    BY <1>6
<1>15. Good(J)
    BY <1>4, <1>7, <1>8, <1>10, <1>12, <1>13, <1>14
<1>16. QED
    BY <1>3, <1>15

-----------------------------------------------------------------------------
(* Budgets *)

\* One press or retry admits a run of the library o for each i of I, at the amount a[i],
\* when the ledger has room for all of them.
Admits(o, I, id, a) ==
    /\ IsFiniteSet(I)
    /\ \A i \in I : id[i] \in Runs \ Admitted /\ a[i] \in Nat /\ (id[i] \notin FreeRuns => a[i] > 0)
    /\ \A i, j \in I : id[i] = id[j] => i = j
    /\ Adds(Images(id, I))
    /\ \A i \in I : row'[id[i]].owner = o /\ row'[id[i]].day = today /\ Price[row'[id[i]].payload] = a[i]
    /\ CanReserve(o, Total(a, I))

LEMMA PressAdmits ==
    ASSUME Shapes, NEW q \in Requests, Press(q)
    PROVE  \E I, id, a : Admits(q.owner, I, id, a)
<1>1. PICK id : PressAdds(q, id)
    BY PressRows
<1> DEFINE a == [i \in Missing(q) |-> Price[q.parts[i]]]
<1>2. IsFiniteSet(Missing(q))
  <2>1. q.parts \in Seq(Payloads)
      BY RequestAssumption
  <2>2. DOMAIN q.parts = 1..Len(q.parts) /\ Len(q.parts) \in Nat
      BY <2>1
  <2>3. IsFiniteSet(DOMAIN q.parts)
      BY <2>2, FS_Interval
  <2>4. QED
      BY <2>3, MissingParts, FS_Subset
<1>3. CanReserve(q.owner, Total(a, Missing(q)))
  <2>1. CanReserve(q.owner, SumFunction(a))
      BY DEF Press
  <2>2. DOMAIN a = Missing(q)
      OBVIOUS
  <2>3. QED
      BY <2>1, <2>2 DEF SumFunction, Total
<1>4. ASSUME NEW i \in Missing(q)
      PROVE  /\ a[i] = Price[q.parts[i]] /\ a[i] \in Nat
             /\ FreshFor(id[i], q.parts[i]) /\ row'[id[i]] = NewRow(q, i)
             /\ row'[id[i]].owner = q.owner /\ row'[id[i]].day = today /\ row'[id[i]].payload = q.parts[i]
  <2>1. i \in DOMAIN q.parts /\ q.parts \in Seq(Payloads)
      BY MissingParts, RequestAssumption
  <2>2. q.parts[i] \in Payloads
      BY <2>1
  <2>3. FreshFor(id[i], q.parts[i]) /\ row'[id[i]] = NewRow(q, i)
      BY <1>1 DEF PressAdds
  <2>4. QED
      BY <2>1, <2>2, <2>3, NewRowTyped, PriceAssumption
<1>5. ASSUME NEW i \in Missing(q)
      PROVE  id[i] \in Runs \ Admitted /\ (id[i] \notin FreeRuns => a[i] > 0)
    BY <1>4, <1>5 DEF FreshFor
<1> HIDE DEF a
<1>6. Admits(q.owner, Missing(q), id, a)
    BY <1>1, <1>2, <1>3, <1>4, <1>5 DEF Admits, PressAdds, Images
<1>7. QED
    BY <1>6

LEMMA RetryAdmits ==
    ASSUME Shapes, NEW old \in Runs, NEW key \in Keys, Retry(old, key)
    PROVE  \E I, id, a : Admits(row[old].owner, I, id, a)
<1>1. PICK new : RetryAdds(old, key, new)
    BY RetryRows
<1> DEFINE c  == Price[row[old].payload]
           id == [i \in {1} |-> new]
           a  == [i \in {1} |-> c]
<1>2. c \in Nat
    BY <1>1, PriceAssumption DEF RetryAdds, Shapes, Row
<1>3. /\ new \in Runs \ Admitted /\ (new \notin FreeRuns => c > 0)
      /\ row'[new].owner = row[old].owner /\ row'[new].day = today /\ row'[new].payload = row[old].payload
    BY <1>1, <1>2 DEF RetryAdds, FreshFor, IsCopy
<1>4. IsFiniteSet({1})
    BY FS_Singleton
<1>5. a[1] = c /\ id[1] = new /\ {id[i] : i \in {1}} = {new}
    OBVIOUS
<1>6. Total(a, {1}) = c
  <2>1. {1} \ {1} = {}
      OBVIOUS
  <2> HIDE DEF a
  <2>2. Total(a, {1}) = a[1] + Total(a, {})
    <3>1. \A i \in {1} : a[i] \in Nat
        BY <1>2, <1>5
    <3>2. Total(a, {1}) = a[1] + Total(a, {1} \ {1})
        BY <1>4, <3>1, TotalTake
    <3>3. QED
        BY <2>1, <3>2
  <2>3. QED
      BY <1>2, <1>5, <2>2, TotalEmpty
<1>7. CanReserve(row[old].owner, c)
    BY DEF Retry
<1>8. Adds({new})
    BY <1>1 DEF RetryAdds
<1> HIDE DEF a, id, c
<1>9. Price[row'[new].payload] = c
    BY <1>3 DEF c
<1>10. Admits(row[old].owner, {1}, id, a)
    BY <1>2, <1>3, <1>4, <1>5, <1>6, <1>7, <1>8, <1>9 DEF Admits, Images
<1>11. QED
    BY <1>10

DaysOf(month) == {d \in 0..MaxDay : MonthOf[d] = month}

\* What the calls still unsettled may cost.
Held(r) == IF Outstanding(r) THEN Price[row[r].payload] ELSE 0
HeldSpend == Total([r \in Admitted |-> Held(r)], Admitted)

\* A run under way keeps its reservation, so no settlement costs more than was reserved.
ActiveReserved == \A r \in Runs : stage[r] \in Active => bill[r] = "reserved"

BudgetInv ==
    /\ IsFiniteSet(Admitted)
    /\ ActiveReserved
    /\ \A d \in Nat : Liability(Admitted, {d}) <= GlobalDaily
    /\ \A month \in Nat : Liability(Admitted, DaysOf(month)) <= GlobalMonthly
    /\ HeldSpend <= GlobalDaily

\* The amounts of admitted runs are numbers.
LEMMA AmountsTyped ==
    ASSUME Shapes, NEW r \in Admitted
    PROVE  /\ Price[row[r].payload] \in Nat /\ row[r].day \in Nat /\ charged[r] \in Nat
           /\ Held(r) \in Nat
           /\ \A D : Bounded(r, D) \in Nat /\ Counted(r, D) \in Nat /\ Bounded(r, D) <= Counted(r, D)
           /\ \A D : Held(r) <= Counted(r, D)
<1>1. row[r] \in Row /\ r \in Runs
    BY DEF Shapes, Admitted
<1>2. Price[row[r].payload] \in Nat /\ row[r].day \in Nat
    BY <1>1, PriceAssumption DEF Row
<1>3. charged[r] \in Nat
    BY <1>1, LimitAssumption DEF Shapes
<1>4. QED
    BY <1>2, <1>3 DEF Held, Bounded, Counted

\* The sums of the ledger, as sums over the runs that were admitted.
LEMMA SumsAre ==
    /\ \A S, D : CommittedSpend(S, D) = Total([r \in S |-> Counted(r, D)], S)
    /\ \A D : Liability(Admitted, D) = Total([r \in Admitted |-> Bounded(r, D)], Admitted)
    /\ \A D : Liability(Admitted, D)' = Total([r \in Admitted |-> Bounded(r, D)]', Admitted')
    /\ HeldSpend' = Total([r \in Admitted |-> Held(r)]', Admitted')
<1>1. ASSUME NEW f, NEW S, DOMAIN f = S
      PROVE  SumFunction(f) = Total(f, S)
    BY <1>1 DEF SumFunction, Total
<1>2. ASSUME NEW S, NEW D
      PROVE  CommittedSpend(S, D) = Total([r \in S |-> Counted(r, D)], S)
    BY <1>1 DEF CommittedSpend
<1>3. ASSUME NEW D
      PROVE  /\ Liability(Admitted, D) = Total([r \in Admitted |-> Bounded(r, D)], Admitted)
             /\ Liability(Admitted, D)' = Total([r \in Admitted |-> Bounded(r, D)]', Admitted')
    BY <1>1 DEF Liability
<1>4. QED
    BY <1>2, <1>3 DEF HeldSpend

LEMMA TotalZero ==
    ASSUME NEW w, NEW S, IsFiniteSet(S), \A s \in S : w[s] = 0
    PROVE  Total(w, S) = 0
<1> DEFINE Bad == {T \in SUBSET S : Total(w, T) # 0}
<1> SUFFICES ASSUME Bad # {} PROVE FALSE
    OBVIOUS
<1>1. Bad \subseteq SUBSET S
    OBVIOUS
<1> HIDE DEF Bad
<1>2. PICK T \in Bad : \A U \in SUBSET T : U # T => U \notin Bad
    BY <1>1, SmallestSet
<1>3. T \in SUBSET S /\ Total(w, T) # 0 /\ IsFiniteSet(T)
    BY <1>2, FS_Subset DEF Bad
<1>4. Total(w, T) = IF T = {} THEN 0 ELSE w[Pick(T)] + Total(w, T \ {Pick(T)})
    BY <1>3, TotalPick
<1>5. T # {}
    BY <1>3, <1>4
<1>6. Pick(T) \in S /\ T \ {Pick(T)} \in SUBSET T /\ T \ {Pick(T)} # T
    BY <1>3, <1>5, Picked
<1>7. Total(w, T \ {Pick(T)}) = 0
    BY <1>2, <1>3, <1>6 DEF Bad
<1>8. QED
    BY <1>3, <1>4, <1>6, <1>7

\* What is admitted is within what the ledger has room for.
LEMMA AdmitsBudgets ==
    ASSUME Shapes, BudgetInv, NEW o, NEW I, NEW id, NEW a, Admits(o, I, id, a)
    PROVE  BudgetInv'
<1> DEFINE new == Images(id, I)
<1>1. /\ IsFiniteSet(I) /\ IsFiniteSet(Admitted) /\ Adds(new) /\ Admitted' = Admitted \cup new
      /\ \A i \in I : id[i] \in Runs \ Admitted /\ id[i] \notin Admitted /\ a[i] \in Nat
      /\ \A i, j \in I : id[i] = id[j] => i = j
    BY DEF Admits, BudgetInv, Adds
<1>2. ASSUME NEW r \in Admitted
      PROVE  /\ row'[r] = row[r] /\ bill'[r] = bill[r] /\ charged'[r] = charged[r]
             /\ Held(r)' = Held(r) /\ \A D : Bounded(r, D)' = Bounded(r, D)
  <2>1. r \in Runs \ new
      BY <1>1 DEF Admitted, Images
  <2>2. row'[r] = row[r] /\ bill'[r] = bill[r] /\ charged'[r] = charged[r]
      BY <1>1, <2>1 DEF Adds
  <2>3. QED
      BY <2>2 DEF Held, Bounded, Outstanding
<1>3. ASSUME NEW i \in I
      PROVE  /\ id[i] \in new /\ Held(id[i])' = a[i]
             /\ \A D : Bounded(id[i], D)' = IF today \in D THEN a[i] ELSE 0
  <2>3. id[i] \in new
      BY DEF Images
  <2>1. bill'[id[i]] = "reserved" /\ row'[id[i]].day = today /\ Price[row'[id[i]].payload] = a[i]
      BY <1>1, <2>3 DEF Adds, Admits
  <2>2. QED
      BY <2>1, <2>3 DEF Held, Bounded, Outstanding
<1>4. today \in Nat /\ GlobalDaily \in Nat /\ GlobalMonthly \in Nat
    BY DaysAssumption, BudgetAssumption DEF Shapes
<1>5. IsFiniteSet(Admitted')
  <2> DEFINE named == [i \in I |-> id[i]]
  <2>1. named \in Surjection(I, new)
      BY DEF Surjection, Images
  <2> HIDE DEF named
  <2>2. IsFiniteSet(new)
      BY <1>1, <2>1, FS_Surjection
  <2>3. QED
      BY <1>1, <2>2, FS_Union
<1>6. ActiveReserved'
  <2>1. ASSUME NEW r \in Runs, stage'[r] \in Active
        PROVE  bill'[r] = "reserved"
      BY <1>1, <2>1 DEF Adds, BudgetInv, ActiveReserved
  <2>2. QED
      BY <2>1 DEF ActiveReserved
\* What is added keeps a sum within a limit, if it had room beside a larger sum, or costs nothing.
<1> DEFINE HasRoom(u, v, c, b, limit) ==
             /\ limit \in Nat
             /\ \A i \in I : b[i] \in Nat /\ v[id[i]] = b[i]
             /\ \A s \in Admitted : u[s] \in Nat /\ v[s] = u[s] /\ c[s] \in Nat /\ u[s] <= c[s]
             /\ Total(u, Admitted) <= limit
             /\ Total(b, I) > 0 => Total(c, Admitted) + Total(b, I) <= limit
<1>a. ASSUME NEW u, NEW v, NEW c, NEW b, NEW limit, HasRoom(u, v, c, b, limit)
      PROVE  Total(v, Admitted \cup new) <= limit
  <2>1. Total(v, Admitted \cup new) = Total(v, Admitted) + Total(b, I)
      BY <1>1, <1>a, TotalJoined
  <2>2. Total(v, Admitted) = Total(u, Admitted)
      BY <1>1, <1>a, TotalSame
  <2>3. Total(u, Admitted) <= Total(c, Admitted)
      BY <1>1, <1>a, TotalMonotone
  <2>4. Total(u, Admitted) \in Nat /\ Total(c, Admitted) \in Nat /\ Total(b, I) \in Nat
      BY <1>1, <1>a, TotalTyped
  <2>5. QED
      BY <1>a, <2>1, <2>2, <2>3, <2>4
\* A sum over the days D, which the ledger found room in if they include today.
<1>7. ASSUME NEW D, NEW limit \in Nat, Liability(Admitted, D) <= limit,
             today \in D /\ Total(a, I) > 0 => CommittedSpend(Admitted, D) + Total(a, I) <= limit
      PROVE  Liability(Admitted, D)' <= limit
  <2> DEFINE u == [r \in Admitted |-> Bounded(r, D)]
             v == [r \in Admitted |-> Bounded(r, D)]'
             c == [r \in Admitted |-> Counted(r, D)]
             b == [i \in I |-> IF today \in D THEN a[i] ELSE 0]
  <2>1. /\ Liability(Admitted, D) = Total(u, Admitted)
        /\ Liability(Admitted, D)' = Total(v, Admitted \cup new)
        /\ CommittedSpend(Admitted, D) = Total(c, Admitted)
      BY <1>1, SumsAre
  <2>2. \A i \in I : b[i] \in Nat /\ v[id[i]] = b[i]
      BY <1>1, <1>3
  <2>3. ASSUME NEW s \in Admitted
        PROVE  u[s] \in Nat /\ v[s] = u[s] /\ c[s] \in Nat /\ u[s] <= c[s]
    <3>1. Bounded(s, D)' = Bounded(s, D)
        BY <1>2
    <3>2. Bounded(s, D) \in Nat /\ Counted(s, D) \in Nat /\ Bounded(s, D) <= Counted(s, D)
        BY AmountsTyped
    <3>3. u[s] = Bounded(s, D) /\ c[s] = Counted(s, D) /\ v[s] = Bounded(s, D)'
        BY <1>1
    <3>4. QED
        BY <3>1, <3>2, <3>3
  <2>4. Total(b, I) > 0 => Total(c, Admitted) + Total(b, I) <= limit
    <3>1. CASE today \in D
      <4>1. Total(b, I) = Total(a, I)
        <5>1. \A i \in I : b[i] \in Nat /\ b[i] = a[i]
            BY <1>1, <3>1
        <5> HIDE DEF b
        <5>2. QED
            BY <1>1, <5>1, TotalSame
      <4>2. QED
          BY <1>7, <2>1, <3>1, <4>1
    <3>2. CASE today \notin D
      <4>1. Total(b, I) = 0
        <5>1. \A i \in I : b[i] = 0
            BY <3>2
        <5> HIDE DEF b
        <5>2. QED
            BY <1>1, <5>1, TotalZero
      <4>2. QED
          BY <4>1
    <3>3. QED
        BY <3>1, <3>2
  <2>5. Total(u, Admitted) <= limit
      BY <1>7, <2>1
  <2> HIDE DEF u, v, c, b
  <2>6. HasRoom(u, v, c, b, limit)
      BY <1>7, <2>2, <2>3, <2>4, <2>5
  <2> HIDE DEF HasRoom
  <2>7. Total(v, Admitted \cup new) <= limit
      BY <1>a, <2>6
  <2>8. QED
      BY <2>1, <2>7
<1>8. Total(a, I) > 0 => /\ CommittedSpend(Admitted, {today}) + Total(a, I) <= GlobalDaily
                         /\ CommittedSpend(Admitted, ThisMonth) + Total(a, I) <= GlobalMonthly
    BY DEF Admits, CanReserve
<1>9. ASSUME NEW d \in Nat PROVE Liability(Admitted, {d})' <= GlobalDaily
  <2>1. Liability(Admitted, {d}) <= GlobalDaily
      BY DEF BudgetInv
  <2>2. today \in {d} => {d} = {today}
      OBVIOUS
  <2>3. QED
      BY <1>4, <1>7, <1>8, <2>1, <2>2
<1>10. ASSUME NEW month \in Nat PROVE Liability(Admitted, DaysOf(month))' <= GlobalMonthly
  <2>1. Liability(Admitted, DaysOf(month)) <= GlobalMonthly
      BY DEF BudgetInv
  <2>2. today \in DaysOf(month) => DaysOf(month) = ThisMonth
      BY DEF DaysOf, ThisMonth
  <2> DEFINE D == DaysOf(month)
  <2> HIDE DEF D
  <2>3. Liability(Admitted, D)' <= GlobalMonthly
      BY <1>4, <1>7, <1>8, <2>1, <2>2 DEF D
  <2>4. QED
      BY <2>3 DEF D
<1>11. HeldSpend' <= GlobalDaily
  <2> DEFINE u == [r \in Admitted |-> Held(r)]
             v == [r \in Admitted |-> Held(r)]'
             c == [r \in Admitted |-> Counted(r, {today})]
  <2>1. /\ HeldSpend = Total(u, Admitted) /\ HeldSpend' = Total(v, Admitted \cup new)
        /\ CommittedSpend(Admitted, {today}) = Total(c, Admitted)
      BY <1>1, SumsAre DEF HeldSpend
  <2>2. \A i \in I : a[i] \in Nat /\ v[id[i]] = a[i]
      BY <1>1, <1>3
  <2>3. ASSUME NEW s \in Admitted
        PROVE  u[s] \in Nat /\ v[s] = u[s] /\ c[s] \in Nat /\ u[s] <= c[s]
    <3>1. Held(s)' = Held(s)
        BY <1>2
    <3>2. Held(s) \in Nat /\ Counted(s, {today}) \in Nat /\ Held(s) <= Counted(s, {today})
        BY AmountsTyped
    <3>3. u[s] = Held(s) /\ c[s] = Counted(s, {today}) /\ v[s] = Held(s)'
        BY <1>1
    <3>4. QED
        BY <3>1, <3>2, <3>3
  <2>4. Total(u, Admitted) <= GlobalDaily
      BY <2>1 DEF BudgetInv
  <2>5. Total(a, I) > 0 => Total(c, Admitted) + Total(a, I) <= GlobalDaily
      BY <1>8, <2>1
  <2> HIDE DEF u, v, c
  <2>6. HasRoom(u, v, c, a, GlobalDaily)
      BY <1>4, <2>2, <2>3, <2>4, <2>5
  <2> HIDE DEF HasRoom
  <2>7. Total(v, Admitted \cup new) <= GlobalDaily
      BY <1>a, <2>6
  <2>8. QED
      BY <2>1, <2>7
<1>12. QED
    BY <1>5, <1>6, <1>9, <1>10, <1>11 DEF BudgetInv

\* What only settles, or moves the day or a library, raises no amount.
LEMMA QuietBudgets ==
    ASSUME Shapes, BudgetInv, Admitted' = Admitted, ActiveReserved',
           \A r \in Admitted : Held(r)' \in Nat /\ Held(r)' <= Held(r),
           \A r \in Admitted : \A D : Bounded(r, D)' \in Nat /\ Bounded(r, D)' <= Bounded(r, D)
    PROVE  BudgetInv'
<1>1. IsFiniteSet(Admitted) /\ GlobalDaily \in Nat /\ GlobalMonthly \in Nat
    BY BudgetAssumption DEF BudgetInv
<1>2. ASSUME NEW u, NEW v, NEW limit \in Nat, Total(u, Admitted) <= limit,
             \A r \in Admitted : v[r] \in Nat /\ v[r] <= u[r] /\ u[r] \in Nat
      PROVE  Total(v, Admitted) <= limit
  <2>1. Total(v, Admitted) <= Total(u, Admitted)
      BY <1>1, <1>2, TotalMonotone
  <2>2. Total(v, Admitted) \in Nat /\ Total(u, Admitted) \in Nat
      BY <1>1, <1>2, TotalTyped
  <2>3. QED
      BY <1>2, <2>1, <2>2
<1>3. ASSUME NEW D, NEW limit \in Nat, Liability(Admitted, D) <= limit
      PROVE  Liability(Admitted, D)' <= limit
  <2> DEFINE u == [r \in Admitted |-> Bounded(r, D)]
             v == [r \in Admitted |-> Bounded(r, D)]'
  <2>1. Liability(Admitted, D) = Total(u, Admitted) /\ Liability(Admitted, D)' = Total(v, Admitted)
      BY SumsAre
  <2>2. \A r \in Admitted : v[r] \in Nat /\ v[r] <= u[r] /\ u[r] \in Nat
      BY AmountsTyped
  <2> HIDE DEF u, v
  <2>3. QED
      BY <1>2, <1>3, <2>1, <2>2
<1>4. HeldSpend' <= GlobalDaily
  <2> DEFINE u == [r \in Admitted |-> Held(r)]
             v == [r \in Admitted |-> Held(r)]'
  <2>1. HeldSpend = Total(u, Admitted) /\ HeldSpend' = Total(v, Admitted)
      BY SumsAre DEF HeldSpend
  <2>2. \A r \in Admitted : v[r] \in Nat /\ v[r] <= u[r] /\ u[r] \in Nat
      BY AmountsTyped
  <2>3. Total(u, Admitted) <= GlobalDaily
      BY <2>1 DEF BudgetInv
  <2> HIDE DEF u, v
  <2>4. QED
      BY <1>1, <1>2, <2>1, <2>2, <2>3
<1>5. ASSUME NEW month \in Nat PROVE Liability(Admitted, DaysOf(month))' <= GlobalMonthly
  <2> DEFINE D == DaysOf(month)
  <2>1. Liability(Admitted, D) <= GlobalMonthly
      BY DEF BudgetInv
  <2> HIDE DEF D
  <2>2. Liability(Admitted, D)' <= GlobalMonthly
      BY <1>1, <1>3, <2>1
  <2>3. QED
      BY <2>2 DEF D
<1>6. \A d \in Nat : Liability(Admitted, {d})' <= GlobalDaily
    BY <1>1, <1>3 DEF BudgetInv
<1>7. QED
    BY <1>1, <1>4, <1>5, <1>6 DEF BudgetInv

\* A settlement of one run: its bill was outstanding and is not raised by it.
LEMMA SettlesBudgets ==
    ASSUME Shapes, BudgetInv, NEW x \in Runs, Begin(x) \/ Cancel(x) \/ Complete(x) \/ Stop(x) \/ Reconcile(x)
    PROVE  BudgetInv'
<1>1. Settles
    BY SettlesOne
<1>2. \E s, b : /\ To(x, s, b)
                /\ \/ s = stage[x] /\ bill[x] = "uncertain" /\ s \notin Active
                   \/ stage[x] \in Active /\ (s \in Active => b = bill[x])
                /\ b \in {bill[x], "uncertain", "confirmed", "released"}
  <2>1. CASE Begin(x)
      BY <2>1 DEF Begin, Active
  <2>2. CASE Cancel(x)
      BY <2>2 DEF Cancel, Active
  <2>3. CASE Complete(x)
      BY <2>3 DEF Complete, Active
  <2>4. CASE Stop(x)
      BY <2>4 DEF Stop, Active
  <2>5. CASE Reconcile(x)
      BY <2>5 DEF Reconcile, BudgetInv, ActiveReserved
  <2>6. QED
      BY <2>1, <2>2, <2>3, <2>4, <2>5
<1>3. PICK s, b : /\ To(x, s, b)
                  /\ \/ s = stage[x] /\ bill[x] = "uncertain" /\ s \notin Active
                     \/ stage[x] \in Active /\ (s \in Active => b = bill[x])
                  /\ b \in {bill[x], "uncertain", "confirmed", "released"}
    BY <1>2
<1>4. /\ stage'[x] = s /\ bill'[x] = b /\ Outstanding(x)
      /\ \A r \in Runs \ {x} : stage'[r] = stage[r] /\ bill'[r] = bill[r]
    BY <1>3 DEF To, Shapes, BudgetInv, ActiveReserved, Outstanding
<1>5. ActiveReserved'
  <2>1. ASSUME NEW r \in Runs, stage'[r] \in Active
        PROVE  bill'[r] = "reserved"
      BY <1>3, <1>4, <2>1 DEF BudgetInv, ActiveReserved
  <2>2. QED
      BY <2>1 DEF ActiveReserved
<1>6. \A r \in Runs \ {x} : charged'[r] = charged[r]
    BY DEF Begin, Cancel, Complete, Stop, Reconcile, Shapes
<1>7. UNCHANGED row /\ Admitted' = Admitted /\ charged'[x] \in Nat
    BY <1>1, LimitAssumption DEF Settles
<1>8. ASSUME NEW r \in Admitted
      PROVE  /\ Held(r)' \in Nat /\ Held(r)' <= Held(r)
             /\ \A D : Bounded(r, D)' \in Nat /\ Bounded(r, D)' <= Bounded(r, D)
  <2>1. Price[row[r].payload] \in Nat /\ charged[r] \in Nat /\ r \in Runs
      BY AmountsTyped DEF Admitted
  <2>2. CASE r # x
    <3>1. bill'[r] = bill[r] /\ charged'[r] = charged[r] /\ row' = row
        BY <1>4, <1>6, <1>7, <2>1, <2>2
    <3>2. QED
        BY <2>1, <3>1 DEF Held, Bounded, Outstanding
  <2>3. CASE r = x
      BY <1>4, <1>7, <2>1, <2>3 DEF Held, Bounded, Outstanding
  <2>4. QED
      BY <2>2, <2>3
<1>9. QED
    BY <1>5, <1>7, <1>8, QuietBudgets

LEMMA BudgetStep == Shapes /\ BudgetInv /\ [Next]_vars => BudgetInv'
<1> SUFFICES ASSUME Shapes, BudgetInv, [Next]_vars PROVE BudgetInv'
    OBVIOUS
<1>1. ASSUME NEW q \in Requests, Press(q) PROVE BudgetInv'
    BY <1>1, PressAdmits, AdmitsBudgets
<1>2. ASSUME NEW old \in Runs, NEW key \in Keys, Retry(old, key) PROVE BudgetInv'
    BY <1>2, RetryAdmits, AdmitsBudgets
<1>3. ASSUME NEW x \in Runs, Begin(x) \/ Cancel(x) \/ Complete(x) \/ Stop(x) \/ Reconcile(x) PROVE BudgetInv'
    BY <1>3, SettlesBudgets
<1>4. ASSUME UNCHANGED <<row, stage, bill, charged>> PROVE BudgetInv'
  <2>1. Admitted' = Admitted /\ ActiveReserved'
      BY <1>4 DEF Admitted, BudgetInv, ActiveReserved
  <2>2. ASSUME NEW r \in Admitted
        PROVE  Held(r)' = Held(r) /\ \A D : Bounded(r, D)' = Bounded(r, D)
      BY <1>4 DEF Held, Bounded, Outstanding
  <2>3. ASSUME NEW r \in Admitted
        PROVE  Held(r) \in Nat /\ \A D : Bounded(r, D) \in Nat
      BY AmountsTyped
  <2>4. ASSUME NEW r \in Admitted
        PROVE  /\ Held(r)' \in Nat /\ Held(r)' <= Held(r)
               /\ \A D : Bounded(r, D)' \in Nat /\ Bounded(r, D)' <= Bounded(r, D)
      BY <2>2, <2>3
  <2>5. QED
      BY <2>1, <2>4, QuietBudgets
<1>5. QED
    BY <1>1, <1>2, <1>3, <1>4 DEF Next, ClaimLibrary, Midnight, vars

LEMMA InitBudgets == Init => BudgetInv
<1> SUFFICES ASSUME Init PROVE BudgetInv
    OBVIOUS
<1>1. Admitted = {} /\ IsFiniteSet({}) /\ GlobalDaily \in Nat /\ GlobalMonthly \in Nat
    BY FS_EmptySet, BudgetAssumption DEF Init, Admitted
<1>2. HeldSpend = 0 /\ \A D : Liability(Admitted, D) = 0
    BY <1>1, SumsAre, TotalEmpty DEF HeldSpend
<1>3. ActiveReserved
    BY DEF Init, ActiveReserved, Active
<1>4. QED
    BY <1>1, <1>2, <1>3 DEF BudgetInv

LEMMA BudgetsBounded == Shapes /\ BudgetInv => Budgets
<1> SUFFICES ASSUME Shapes, BudgetInv PROVE Budgets
    OBVIOUS
<1>1. IsFiniteSet(Admitted) /\ GlobalDaily \in Nat /\ today \in Nat
    BY BudgetAssumption, DaysAssumption DEF BudgetInv, Shapes
<1>2. \A d \in 0..today : Liability(Admitted, {d}) <= GlobalDaily
    BY <1>1 DEF BudgetInv
<1>3. Liability({r \in Admitted : Outstanding(r)}, 0..today) <= GlobalDaily
  <2> DEFINE open == {r \in Admitted : Outstanding(r)}
             v == [r \in open |-> Bounded(r, 0..today)]
             w == [r \in Admitted |-> Held(r)]
  <2>1. Liability(open, 0..today) = Total(v, open)
      BY DEF Liability, SumFunction, Total
  <2>2. HeldSpend = Total(w, Admitted)
      BY DEF HeldSpend
  <2>3. ASSUME NEW r \in open
        PROVE  v[r] \in Nat /\ v[r] <= w[r]
      BY <2>3, AmountsTyped DEF Bounded, Held
  <2>4. \A r \in Admitted : w[r] \in Nat
      BY AmountsTyped
  <2>5. open \in SUBSET Admitted
      OBVIOUS
  <2> HIDE DEF open, v, w
  <2>6. Total(v, open) <= Total(w, Admitted)
      BY <1>1, <2>3, <2>4, <2>5, TotalMonotone
  <2>7. Total(w, Admitted) \in Nat /\ Total(v, open) \in Nat
    <3>1. IsFiniteSet(open)
        BY <1>1, <2>5, FS_Subset
    <3>2. QED
        BY <1>1, <2>3, <2>4, <3>1, TotalTyped
  <2>8. Total(w, Admitted) <= GlobalDaily
      BY <2>2 DEF BudgetInv
  <2>9. QED
      BY <1>1, <2>1, <2>6, <2>7, <2>8 DEF open
<1>4. ASSUME NEW d \in 0..today
      PROVE  Liability(Admitted, {e \in 0..today : MonthOf[e] = MonthOf[d]}) <= GlobalMonthly
  <2> DEFINE D == {e \in 0..today : MonthOf[e] = MonthOf[d]}
             E == DaysOf(MonthOf[d])
             v == [r \in Admitted |-> Bounded(r, D)]
             w == [r \in Admitted |-> Bounded(r, E)]
  <2>1. MonthOf[d] \in Nat
      BY DaysAssumption DEF Shapes
  <2>2. ASSUME NEW r \in Admitted
        PROVE  v[r] \in Nat /\ v[r] = w[r]
    <3>1. row[r].day \in 0..today /\ row[r].day \in 0..MaxDay
        BY AmountsTyped, DaysAssumption DEF Shapes
    <3>2. row[r].day \in D <=> row[r].day \in E
        BY <3>1 DEF DaysOf
    <3>3. Bounded(r, D) \in Nat
        BY AmountsTyped
    <3> HIDE DEF D, E
    <3>4. Bounded(r, D) = Bounded(r, E)
        BY <3>2 DEF Bounded
    <3>5. QED
        BY <3>3, <3>4
  <2>3. Liability(Admitted, D) = Total(v, Admitted) /\ Liability(Admitted, E) = Total(w, Admitted)
      BY SumsAre
  <2>4. Liability(Admitted, E) <= GlobalMonthly
      BY <2>1 DEF BudgetInv
  <2> HIDE DEF v, w, E
  <2>5. Total(v, Admitted) = Total(w, Admitted)
      BY <1>1, <2>2, TotalSame
  <2>6. QED
      BY <2>3, <2>4, <2>5
<1>5. QED
    BY <1>2, <1>3, <1>4 DEF Budgets, DayBudget, MonthBudget

\* However presses, retries, settlements and the change of day interleave, what is admitted on one day
\* or in one month, and what is still unsettled, never costs more than the budgets allow (spend.ts:13-74).
THEOREM AlwaysWithinBudgets == Spec => []Budgets
<1> DEFINE Inv == Shapes /\ BudgetInv
<1>1. Init => Inv
    BY InitShapes, InitBudgets
<1>2. Inv /\ [Next]_vars => Inv'
    BY ShapesStep, BudgetStep
<1>3. Inv => Budgets
    BY BudgetsBounded
<1> HIDE DEF Inv
<1>4. QED
    BY <1>1, <1>2, <1>3, PTL DEF Spec

\* Only a press or a retry admits a run, and it admits them for one library.
LEMMA AccountStep ==
    ASSUME Shapes, BudgetInv, NEW lib, NEW I, NEW id, NEW a, Admits(lib, I, id, a),
           NEW o, NEW x \in Runs \ FreeRuns, stage[x] = "absent", stage'[x] # "absent", row'[x].owner = o
    PROVE  CommittedSpend(HeldWith(o), {today})' <= UserDaily
<1> DEFINE new == Images(id, I)
<1>1. /\ IsFiniteSet(I) /\ IsFiniteSet(Admitted) /\ Adds(new) /\ Admitted' = Admitted \cup new
      /\ \A i \in I : id[i] \in Runs /\ id[i] \notin Admitted /\ a[i] \in Nat
      /\ \A i, j \in I : id[i] = id[j] => i = j
      /\ \A i \in I : row'[id[i]].owner = lib /\ row'[id[i]].day = today /\ Price[row'[id[i]].payload] = a[i]
      /\ today' = today /\ principal' = principal /\ charged' = charged
    BY DEF Admits, BudgetInv, Adds
<1>2. PICK k \in I : x = id[k]
  <2>1. x \in new
      BY <1>1 DEF Adds
  <2>2. QED
      BY <2>1 DEF Images
<1>3. lib = o /\ a[k] > 0
    BY <1>1, <1>2 DEF Admits
<1> DEFINE held == HeldWith(o)
<1>4. held \in SUBSET Admitted /\ held = AccountRuns(o)
    BY DEF HeldWith, AccountRuns
<1>5. IsFiniteSet(held)
    BY <1>1, <1>4, FS_Subset
<1>6. ASSUME NEW r \in Admitted
      PROVE  row'[r] = row[r] /\ bill'[r] = bill[r] /\ charged'[r] = charged[r]
  <2>1. r \in Runs \ new
      BY <1>1 DEF Admitted, Images
  <2>2. QED
      BY <1>1, <2>1 DEF Adds
<1>7. ASSUME NEW i \in I
      PROVE  id[i] \in new /\ bill'[id[i]] = "reserved"
  <2>1. id[i] \in new
      BY DEF Images
  <2>2. QED
      BY <1>1, <2>1 DEF Adds
<1>8. HeldWith(o)' = held \cup new
  <2>1. \A r \in Admitted : r \in HeldWith(o)' <=> r \in held
      BY <1>1, <1>6 DEF HeldWith
  <2>2. \A r \in new : r \in HeldWith(o)'
      BY <1>1, <1>3 DEF HeldWith, Images
  <2>3. HeldWith(o)' \subseteq Admitted \cup new
      BY <1>1 DEF HeldWith
  <2>4. QED
      BY <1>4, <2>1, <2>2, <2>3
<1> DEFINE u == [r \in held |-> Counted(r, {today})]
           v == [r \in HeldWith(o) |-> Counted(r, {today})]'
<1>9. CommittedSpend(held, {today}) = Total(u, held)
    BY SumsAre
<1>10. CommittedSpend(HeldWith(o), {today})' = Total(v, held \cup new)
  <2>1. DOMAIN v = HeldWith(o)'
      OBVIOUS
  <2>2. CommittedSpend(HeldWith(o), {today})' = SumFunction(v)
      BY DEF CommittedSpend
  <2> HIDE DEF v
  <2>3. QED
      BY <1>8, <2>1, <2>2 DEF SumFunction, Total
<1>11. ASSUME NEW r \in held
       PROVE  u[r] \in Nat /\ v[r] = u[r]
  <2>1. Counted(r, {today})' = Counted(r, {today})
      BY <1>1, <1>4, <1>6 DEF Counted, Outstanding
  <2>2. Counted(r, {today}) \in Nat
      BY <1>4, AmountsTyped
  <2>3. u[r] = Counted(r, {today}) /\ v[r] = Counted(r, {today})'
      BY <1>8
  <2>4. QED
      BY <2>1, <2>2, <2>3
<1>12. ASSUME NEW i \in I
       PROVE  v[id[i]] = a[i]
  <2>1. Counted(id[i], {today})' = a[i]
      BY <1>1, <1>7 DEF Counted, Outstanding
  <2>2. id[i] \in HeldWith(o)'
      BY <1>7, <1>8
  <2>3. QED
      BY <2>1, <2>2
<1>13. Total(a, I) > 0
  <2>1. \A i \in I : a[i] \in Nat
      BY <1>1
  <2>2. IsFiniteSet(I \ {k})
      BY <1>1, FS_RemoveElement
  <2>3. Total(a, I \ {k}) \in Nat
      BY <2>1, <2>2, TotalTyped
  <2>4. Total(a, I) = a[k] + Total(a, I \ {k})
      BY <1>1, <2>1, TotalTake
  <2>5. QED
      BY <1>3, <2>1, <2>3, <2>4
<1>14. CommittedSpend(held, {today}) + Total(a, I) <= UserDaily
    BY <1>3, <1>4, <1>13 DEF Admits, CanReserve
<1> HIDE DEF u, v, held
<1>15. Total(v, held \cup new) = Total(v, held) + Total(a, I)
  <2>1. \A i \in I : id[i] \notin held
      BY <1>1, <1>4
  <2>2. \A r \in held : v[r] \in Nat
      BY <1>11
  <2>3. \A i \in I : a[i] \in Nat /\ v[id[i]] = a[i]
      BY <1>1, <1>12
  <2>4. IsFiniteSet(I) /\ \A i, j \in I : id[i] = id[j] => i = j
      BY <1>1
  <2>5. QED
      BY <1>5, <2>1, <2>2, <2>3, <2>4, TotalJoined, SMTT(60)
<1>16. Total(v, held) = Total(u, held)
  <2>1. \A r \in held : v[r] \in Nat /\ v[r] = u[r]
      BY <1>11
  <2>2. QED
      BY <1>5, <2>1, TotalSame
<1>17. QED
    BY <1>9, <1>10, <1>14, <1>15, <1>16

\* Whoever admits a priced run is within the account's allowance of the day, counting every library the
\* account holds, also those claimed since (spend.ts:16-21, :33-74).
THEOREM AccountsWithinBudget == Spec => AccountBudget
<1> DEFINE Inv == Shapes /\ BudgetInv
           Allowed == \A o \in Owners :
               (\E r \in Runs \ FreeRuns : stage[r] = "absent" /\ stage'[r] # "absent" /\ row'[r].owner = o) =>
                   CommittedSpend(HeldWith(o), {today})' <= UserDaily
<1>1. Init => Inv
    BY InitShapes, InitBudgets
<1>2. Inv /\ [Next]_vars => Inv'
    BY ShapesStep, BudgetStep
<1>3. Inv /\ [Next]_vars => [Allowed]_vars
  <2> SUFFICES ASSUME Shapes, BudgetInv, Next, NEW o \in Owners,
                      NEW x \in Runs \ FreeRuns, stage[x] = "absent", stage'[x] # "absent", row'[x].owner = o
               PROVE  CommittedSpend(HeldWith(o), {today})' <= UserDaily
      OBVIOUS
  <2>1. ASSUME NEW q \in Requests, Press(q)
        PROVE  CommittedSpend(HeldWith(o), {today})' <= UserDaily
      BY <2>1, PressAdmits, AccountStep
  <2>2. ASSUME NEW old \in Runs, NEW key \in Keys, Retry(old, key)
        PROVE  CommittedSpend(HeldWith(o), {today})' <= UserDaily
      BY <2>2, RetryAdmits, AccountStep
  <2>3. ASSUME NEW r \in Runs, Begin(r) \/ Cancel(r) \/ Complete(r) \/ Stop(r) \/ Reconcile(r)
        PROVE  FALSE
    <3>1. Admitted' = Admitted
        BY <2>3, SettlesOne DEF Settles
    <3>2. QED
        BY <3>1 DEF Admitted
  <2>4. ASSUME UNCHANGED stage PROVE FALSE
      BY <2>4
  <2>5. QED
      BY <2>1, <2>2, <2>3, <2>4 DEF Next, ClaimLibrary, Midnight
<1>4. QED
  <2> HIDE DEF Inv, Allowed
  <2>1. Spec => [][Allowed]_vars
      BY <1>1, <1>2, <1>3, PTL DEF Spec
  <2>2. QED
      BY <2>1, PTL DEF AccountBudget, Allowed

=============================================================================
