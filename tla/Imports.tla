------------------------------- MODULE Imports -------------------------------
(***************************************************************************)
(* The server's side of file imports: deliveries under keys, the bytes     *)
(* they reserve and store, and the guest library they may be made into,    *)
(* which expires, is claimed or is purged meanwhile                        *)
(* (server/services/imports.ts, capacity.ts, guest-reclamation.ts,         *)
(* storage/assets.ts, scripts/reconcile-uploads.ts).                       *)
(*                                                                         *)
(* A delivery awaits its body, the delivery of the same file before it,    *)
(* its parser and the object store; between two awaits it runs alone.  A   *)
(* file stands for its digest and is one byte long.  Object number c is    *)
(* the identity delivery c draws.                                          *)
(***************************************************************************)
EXTENDS Integers, FiniteSetsExt

CONSTANTS
    Keys, Files,
    Services,       \* import services on the one database handle: the server has one
    GuestKeys,      \* keys of the guest library; the others are of the account's own
    Absent,         \* no operation under a key
    Whole,          \* the store writes an object whole or not at all (R2), or in place (files)
    MaxActive,      \* deliveries under way at once
    GuestBytes, TotalBytes,
    MaxCalls,       \* bound: deliveries
    MaxCrashes,     \* bound: crashes
    MaxStoreFaults  \* bound: calls of the store that fail

ASSUME ImportsAssumption ==
    {GuestBytes, TotalBytes, MaxCalls, MaxCrashes, MaxStoreFaults} \subseteq Nat /\ Whole \in BOOLEAN
ASSUME AbsentAssumption == Absent \notin [file : Files, asset : 1..MaxCalls, ready : BOOLEAN]

VARIABLES
    up,         \* whether the server runs
    calls,      \* the deliveries received
    ops,        \* artifact_imports, by key
    assets,     \* assets: the file and the library of each
    intents,    \* upload_intents
    debts,      \* guest_object_deletions
    objects,    \* the object store: the file and whether it is whole
    late,       \* writes that failed for their delivery and are still to land
    guest,      \* the guest library: its age, its principal, whether it is purged
    made,       \* artifacts published under each key
    faults      \* crashes and failed store calls so far

importsVars == <<up, calls, ops, assets, intents, debts, objects, late, guest, made, faults>>

Ids == 1..MaxCalls
Ages == {"fresh", "expired", "over"}
InHand == {"turn", "parser", "get", "put", "writing", "finish"}
Phases == {"body", "joined", "ended"} \cup InHand
Rows == [file : Files, guest : BOOLEAN]

ImportsTypeOK ==
    /\ up \in BOOLEAN
    /\ \A c \in DOMAIN calls :
         /\ calls[c].key \in Keys /\ calls[c].file \in Files /\ calls[c].at \in Services /\ calls[c].by \in {"guest", "account"}
         /\ calls[c].phase \in Phases /\ calls[c].asset \in Ids
         /\ calls[c].after \in 0..MaxCalls /\ calls[c].answer \in {"none", "receipt", "refused", "corrupt"}
    /\ \A k \in Keys : ops[k] # Absent =>
         /\ ops[k] \in [file : Files, asset : Ids, ready : BOOLEAN]
         /\ ops[k].ready => ops[k].asset \in DOMAIN assets
    /\ \A rows \in {assets, intents, debts} : DOMAIN rows \subseteq Ids /\ \A i \in DOMAIN rows : rows[i] \in Rows
    /\ DOMAIN objects \subseteq Ids /\ \A i \in DOMAIN objects : objects[i] \in [file : Files, whole : BOOLEAN]
    /\ late \subseteq Ids
    /\ guest \in [age : Ages, claimed : BOOLEAN, purged : BOOLEAN]
    /\ made \in [Keys -> Nat]
    /\ faults \in [crashes : 0..MaxCrashes, store : 0..MaxStoreFaults]

ImportsInit ==
    /\ up = TRUE /\ calls = <<>> /\ ops = [k \in Keys |-> Absent]
    /\ assets = <<>> /\ intents = <<>> /\ debts = <<>> /\ objects = <<>> /\ late = {}
    /\ guest = [age |-> "fresh", claimed |-> FALSE, purged |-> FALSE]
    /\ made = [k \in Keys |-> 0]
    /\ faults = [crashes |-> 0, store |-> 0]

-----------------------------------------------------------------------------
(* Rows *)

With(rows, i, row) == [j \in DOMAIN rows \cup {i} |-> IF j = i THEN row ELSE rows[j]]
Without(rows, i) == [j \in DOMAIN rows \ {i} |-> rows[j]]
OfFile(rows, f, g) == {i \in DOMAIN rows : rows[i] = [file |-> f, guest |-> g]}
Bytes(rows, g) == Cardinality({i \in DOMAIN rows : rows[i].guest = g})
Usage(g) == Bytes(assets, g) + Bytes(intents, g) + Bytes(debts, g)

OfGuest(c) == calls[c].key \in GuestKeys

\* The library still belongs to the session's principal, and is no expired guest's.
Authorized(c) ==
    IF OfGuest(c)
    THEN IF calls[c].by = "guest" THEN ~guest.claimed /\ guest.age = "fresh" ELSE guest.claimed
    ELSE calls[c].by = "account"

\* The brane of the delivery is gone with its library.
BraneStands(c) == ~(OfGuest(c) /\ guest.purged)

\* Bytes stored, reserved and waiting for deletion are all charged.
Room(g) ==
    /\ g /\ ~guest.claimed => Usage(g) + 1 <= GuestBytes
    /\ Usage(TRUE) + Usage(FALSE) + 1 <= TotalBytes

\* The key stands for another file.
OtherFile(c) == ops[calls[c].key] # Absent /\ ops[calls[c].key].file # calls[c].file

Published(c) == ops[calls[c].key] # Absent /\ ops[calls[c].key].ready

-----------------------------------------------------------------------------
(* A delivery *)

Working(c) == calls[c].phase \in InHand
Stage(c, phase) == calls' = [calls EXCEPT ![c].phase = phase]
Answer(c, answer) == calls' = [calls EXCEPT ![c].phase = "ended", ![c].answer = answer]

Receive(k, f, by, at) ==
    /\ up /\ Cardinality(DOMAIN calls) < MaxCalls
    /\ LET c == Cardinality(DOMAIN calls) + 1 IN
       calls' = With(calls, c, [key |-> k, file |-> f, by |-> by, at |-> at, phase |-> "body", asset |-> c,
                                after |-> 0, answer |-> "none"])
    /\ UNCHANGED <<up, ops, assets, intents, debts, objects, late, guest, made, faults>>

\* The last delivery of the same file into the same library that is under way.
Previous(c) ==
    Max({0} \cup {d \in DOMAIN calls : Working(d) /\ calls[d].file = calls[c].file /\ OfGuest(d) = OfGuest(c)})

\* Deliveries of one file into one library take turns; the identical one is joined.
Begin(c) ==
    /\ calls[c].phase = "body"
    /\ LET active == {d \in DOMAIN calls : Working(d) /\ calls[d].at = calls[c].at}
           running == {d \in active : calls[d].key = calls[c].key}
       IN IF ~Authorized(c) \/ ~BraneStands(c) \/ OtherFile(c) THEN Answer(c, "refused")
          ELSE IF Published(c) THEN Answer(c, "receipt")
          ELSE IF running # {}
          THEN LET d == Min(running) IN
               IF calls[d].file # calls[c].file THEN Answer(c, "refused")
               ELSE calls' = [calls EXCEPT ![c].phase = "joined", ![c].after = d]
          ELSE IF Cardinality(active) >= MaxActive THEN Answer(c, "refused")
          ELSE calls' = [calls EXCEPT ![c].phase = "turn", ![c].after = Previous(c),
                                      ![c].asset = IF ops[calls[c].key] = Absent THEN @ ELSE ops[calls[c].key].asset]
    /\ UNCHANGED <<up, ops, assets, intents, debts, objects, late, guest, made, faults>>

JoinedEnds(c) ==
    /\ calls[c].phase = "joined" /\ calls[calls[c].after].phase = "ended"
    /\ Answer(c, calls[calls[c].after].answer)
    /\ UNCHANGED <<up, ops, assets, intents, debts, objects, late, guest, made, faults>>

TakeTurn(c) ==
    /\ calls[c].phase = "turn" /\ (calls[c].after # 0 => calls[calls[c].after].phase = "ended")
    /\ Stage(c, "parser")
    /\ UNCHANGED <<up, ops, assets, intents, debts, objects, late, guest, made, faults>>

ParserRefuses(c) ==
    /\ calls[c].phase = "parser" /\ Answer(c, "refused")
    /\ UNCHANGED <<up, ops, assets, intents, debts, objects, late, guest, made, faults>>

\* Fault: the bytes of another key's delivery are not looked for.
HeldOwn(c) == {}

\* The identity the library already has these bytes under, stored or reserved.
Held(c) ==
    IF OfFile(assets, calls[c].file, OfGuest(c)) # {} THEN OfFile(assets, calls[c].file, OfGuest(c))
    ELSE OfFile(intents, calls[c].file, OfGuest(c))

\* Everything read before the parser is read again; the bytes are reserved with the operation.
Reserve(c) ==
    /\ calls[c].phase = "parser"
    /\ LET k == calls[c].key
           g == OfGuest(c)
           asset == IF Held(c) = {} THEN calls[c].asset ELSE Min(Held(c))
           new == asset \notin DOMAIN assets \cup DOMAIN intents
       IN \/ /\ ~Authorized(c) \/ ~BraneStands(c) \/ OtherFile(c) \/ (~Published(c) /\ new /\ ~Room(g))
             /\ Answer(c, "refused") /\ UNCHANGED <<ops, intents>>
          \/ /\ Authorized(c) /\ BraneStands(c) /\ ~OtherFile(c) /\ Published(c)
             /\ Answer(c, "receipt") /\ UNCHANGED <<ops, intents>>
          \/ /\ Authorized(c) /\ BraneStands(c) /\ ~OtherFile(c) /\ ~Published(c) /\ (new => Room(g))
             /\ intents' = IF asset \in DOMAIN assets THEN intents
                           ELSE With(intents, asset, [file |-> calls[c].file, guest |-> g])
             /\ ops' = [ops EXCEPT ![k] = [file |-> calls[c].file, asset |-> asset, ready |-> FALSE]]
             /\ calls' = [calls EXCEPT ![c].phase = "get", ![c].asset = asset]
    /\ UNCHANGED <<up, assets, debts, objects, late, guest, made, faults>>

Trusted(i, f) == i \in DOMAIN objects /\ objects[i] = [file |-> f, whole |-> TRUE]

\* A delivery before may have stored the object and lost the acknowledgement.
Get(c) ==
    /\ calls[c].phase = "get"
    /\ LET i == calls[c].asset IN
       \/ i \notin DOMAIN objects /\ Stage(c, "put")
       \/ Trusted(i, calls[c].file) /\ Stage(c, "finish")
       \/ i \in DOMAIN objects /\ ~Trusted(i, calls[c].file) /\ Answer(c, "corrupt")
    /\ UNCHANGED <<up, ops, assets, intents, debts, objects, late, guest, made, faults>>

\* The object is created exclusively; a file is there before all its bytes are.
Put(c) ==
    /\ calls[c].phase = "put"
    /\ LET i == calls[c].asset IN
       IF i \in DOMAIN objects
       THEN (IF Trusted(i, calls[c].file) THEN Stage(c, "finish") ELSE Answer(c, "corrupt")) /\ UNCHANGED objects
       ELSE /\ objects' = With(objects, i, [file |-> calls[c].file, whole |-> Whole])
            /\ Stage(c, IF Whole THEN "finish" ELSE "writing")
    /\ UNCHANGED <<up, ops, assets, intents, debts, late, guest, made, faults>>

Written(c) ==
    /\ calls[c].phase = "writing"
    /\ objects' = [objects EXCEPT ![calls[c].asset].whole = TRUE]
    /\ Stage(c, "finish")
    /\ UNCHANGED <<up, ops, assets, intents, debts, late, guest, made, faults>>

\* A store call fails: what it wrote is there, is not, or is still to land; the reservation stays.
StoreFails(c) ==
    /\ calls[c].phase \in {"get", "put", "writing"} /\ faults.store < MaxStoreFaults
    /\ Answer(c, "refused")
    /\ \/ UNCHANGED <<objects, late>>
       \/ /\ calls[c].phase = "put" /\ calls[c].asset \notin DOMAIN objects
          /\ \/ /\ objects' = With(objects, calls[c].asset, [file |-> calls[c].file, whole |-> Whole])
                /\ UNCHANGED late
             \/ Whole /\ (OfGuest(c) => guest.age # "over") /\ late' = late \cup {calls[c].asset} /\ UNCHANGED objects
    /\ faults' = [faults EXCEPT !.store = @ + 1]
    /\ UNCHANGED <<up, ops, assets, intents, debts, guest, made>>

\* An object is never written over.
Lands(i) ==
    /\ i \in late /\ late' = late \ {i}
    /\ objects' = IF i \in DOMAIN objects THEN objects
                  ELSE With(objects, i, [file |-> intents[i].file, whole |-> TRUE])
    /\ UNCHANGED <<up, calls, ops, assets, intents, debts, guest, made, faults>>

\* Asset, artifact, receipt and the end of the reservation are one transaction.
Finish(c) ==
    /\ calls[c].phase = "finish"
    /\ LET k == calls[c].key
           i == calls[c].asset
       IN IF Authorized(c) /\ BraneStands(c) /\ ~Published(c)
          THEN /\ assets' = IF i \in DOMAIN assets THEN assets
                            ELSE With(assets, i, [file |-> calls[c].file, guest |-> OfGuest(c)])
               /\ intents' = Without(intents, i)
               /\ ops' = [ops EXCEPT ![k] = [file |-> calls[c].file, asset |-> i, ready |-> TRUE]]
               /\ made' = [made EXCEPT ![k] = @ + 1]
               /\ Answer(c, "receipt")
          ELSE /\ Answer(c, IF Authorized(c) /\ BraneStands(c) THEN "receipt" ELSE "refused")
               /\ UNCHANGED <<ops, assets, intents, made>>
    /\ UNCHANGED <<up, debts, objects, late, guest, faults>>

-----------------------------------------------------------------------------
(* The process *)

ServerCrash ==
    /\ up /\ faults.crashes < MaxCrashes
    /\ up' = FALSE
    /\ calls' = [c \in DOMAIN calls |->
                   IF calls[c].phase = "ended" THEN calls[c]
                   ELSE [calls[c] EXCEPT !.phase = "ended", !.answer = "none"]]
    /\ faults' = [faults EXCEPT !.crashes = @ + 1]
    /\ UNCHANGED <<ops, assets, intents, debts, objects, late, guest, made>>

Boot ==
    /\ ~up /\ up' = TRUE
    /\ UNCHANGED <<calls, ops, assets, intents, debts, objects, late, guest, made, faults>>

\* With the server stopped and every write settled, an operator gives up a reservation.
Reconcile(i) ==
    /\ ~up /\ late = {} /\ i \in DOMAIN intents \ DOMAIN assets
    /\ objects' = Without(objects, i) /\ intents' = Without(intents, i)
    /\ UNCHANGED <<up, calls, ops, assets, debts, late, guest, made, faults>>

-----------------------------------------------------------------------------
(* The guest library *)

\* No write is still to land a week after it was made.
Grows ==
    /\ guest.age # "over" /\ (guest.age = "expired" => late = {})
    /\ guest' = [guest EXCEPT !.age = IF @ = "fresh" THEN "expired" ELSE "over"]
    /\ UNCHANGED <<up, calls, ops, assets, intents, debts, objects, late, made, faults>>

ClaimGuest ==
    /\ up /\ ~guest.claimed /\ ~guest.purged /\ guest.age # "over"
    /\ guest' = [guest EXCEPT !.claimed = TRUE]
    /\ UNCHANGED <<up, calls, ops, assets, intents, debts, objects, late, made, faults>>

\* Deliveries in the table of work in progress.
Fenced == {c \in DOMAIN calls : Working(c) /\ OfGuest(c)}

GuestRows(rows) == {i \in DOMAIN rows : rows[i].guest}
Others(rows) == [i \in DOMAIN rows \ GuestRows(rows) |-> rows[i]]

Forgotten == [k \in Keys |-> IF k \in GuestKeys THEN Absent ELSE ops[k]]

\* Every byte's charge moves to the queue of deletions with the end of its row.
Purge ==
    /\ up /\ guest.age = "over" /\ ~guest.claimed /\ ~guest.purged /\ Fenced = {}
    /\ guest' = [guest EXCEPT !.purged = TRUE]
    /\ debts' = [i \in GuestRows(assets) \cup GuestRows(intents) |->
                   IF i \in DOMAIN assets THEN assets[i] ELSE intents[i]]
    /\ assets' = Others(assets) /\ intents' = Others(intents)
    /\ ops' = Forgotten
    /\ UNCHANGED <<up, calls, objects, late, made, faults>>

\* Only a deletion acknowledged, or an object reported missing, ends the charge.
DeleteObject(i, gone, heard) ==
    /\ up /\ i \in DOMAIN debts
    /\ gone \/ (faults.store < MaxStoreFaults /\ ~heard)
    /\ heard \/ faults.store < MaxStoreFaults
    /\ objects' = IF gone THEN Without(objects, i) ELSE objects
    /\ debts' = IF gone /\ heard THEN Without(debts, i) ELSE debts
    /\ faults' = IF heard THEN faults ELSE [faults EXCEPT !.store = @ + 1]
    /\ UNCHANGED <<up, calls, ops, assets, intents, late, guest, made>>

Step(c) ==
    \/ Begin(c) \/ JoinedEnds(c) \/ TakeTurn(c) \/ ParserRefuses(c) \/ Reserve(c)
    \/ Get(c) \/ Put(c) \/ Written(c) \/ StoreFails(c) \/ Finish(c)

ImportsNext ==
    \/ \E k \in Keys, f \in Files, by \in {"guest", "account"}, at \in Services : Receive(k, f, by, at)
    \/ \E c \in DOMAIN calls : Step(c)
    \/ \E i \in late : Lands(i)
    \/ ServerCrash \/ Boot \/ \E i \in DOMAIN intents : Reconcile(i)
    \/ Grows \/ ClaimGuest \/ Purge
    \/ \E i \in DOMAIN debts, gone, heard \in BOOLEAN : DeleteObject(i, gone, heard)

ImportsSpec == ImportsInit /\ [][ImportsNext]_importsVars

\* The parser and the store answer every call; maintenance runs every minute.
ImportsFairness ==
    /\ \A c \in Ids : WF_importsVars(c \in DOMAIN calls /\ Step(c))
    /\ WF_importsVars(Boot) /\ WF_importsVars(Purge)
    /\ \A i \in Ids : WF_importsVars(i \in DOMAIN debts /\ DeleteObject(i, TRUE, TRUE))

ImportsFairSpec == ImportsSpec /\ ImportsFairness

-----------------------------------------------------------------------------
(* Properties *)

\* Every object in the store is charged to somebody, so that none is left behind: whatever
\* crash, failed call, purge or deletion came between (uncertain writes keep their intent).
NoOrphans == DOMAIN objects \subseteq DOMAIN assets \cup DOMAIN intents \cup DOMAIN debts

\* The bytes really in the store stay within capacity, and a guest's within the guest's.
WithinCapacity ==
    /\ Cardinality(DOMAIN objects) <= TotalBytes /\ Usage(TRUE) + Usage(FALSE) <= TotalBytes
    /\ guest.claimed \/ Usage(TRUE) <= GuestBytes

\* A library's bytes of one file are charged once, however many keys deliver it (import).
ChargedOnce ==
    /\ \A f \in Files, g \in BOOLEAN : Cardinality(OfFile(assets, f, g) \cup OfFile(intents, f, g)) <= 1
    /\ DOMAIN assets \cap DOMAIN intents = {} /\ DOMAIN debts \cap (DOMAIN assets \cup DOMAIN intents) = {}

\* Every asset's object is in the store, whole.
AssetsStored == \A i \in DOMAIN assets : i \in DOMAIN objects /\ objects[i] = [file |-> assets[i].file, whole |-> TRUE]

\* A key publishes one artifact, whether it is delivered twice at once or again after a crash.
OneArtifact == \A k \in Keys : made[k] <= 1

\* What is promised of the bytes of files: every object is whole and charged, once and within
\* capacity, and a key publishes one artifact (imports.ts:60-240).  That a delivery can be repeated is
\* not said: a short file left by a crash refuses it for ever (assets.ts:25).
ImportsWhole == ImportsTypeOK /\ ChargedOnce /\ NoOrphans /\ AssetsStored /\ OneArtifact /\ WithinCapacity

\* Every delivery ends, although deliveries wait for one another.
DeliveriesEnd == \A c \in Ids : c \in DOMAIN calls ~> (c \in DOMAIN calls /\ calls[c].phase = "ended")

\* A guest library nobody claimed in time is purged, and its bytes are freed.
Reclaimed == (guest.age = "over" /\ ~guest.claimed) ~> (guest.purged /\ debts = <<>>)

=============================================================================
