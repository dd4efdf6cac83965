-------------------------------- MODULE Entry --------------------------------
(***************************************************************************)
(* Sessions of one browser: guests entered without an account, accounts    *)
(* signed into, and the guest libraries accounts claim                     *)
(* (server/services/guest-claims.ts, domain/libraries.ts, api/entry.ts,    *)
(* auth/index.ts; src/services/entry.ts and the sessions of replica.ts).   *)
(*                                                                         *)
(* Tabs share the browser's cookies and its stored session.  A guest is    *)
(* numbered and its library has its number; an account's own library has   *)
(* the account's name.  A request is answered, or it is lost before or     *)
(* after the server applied it; cookies come with the answer.              *)
(***************************************************************************)
EXTENDS Integers

CONSTANTS
    Tabs, Accounts,
    Nobody,         \* nobody, nothing
    MaxGuests,      \* bound: guests entered
    MaxLost,        \* bound: requests lost
    MaxLapses       \* bound: proofs that run out and ages of guests

ASSUME EntryAssumption ==
    /\ \A p \in Accounts \cup {Nobody} : p \notin Nat
    /\ Nobody \notin Accounts \cup Tabs
    /\ {MaxGuests, MaxLost, MaxLapses} \subseteq Nat

VARIABLES
    guests,     \* guests entered so far
    libs,       \* libraries and guest_libraries, by guest
    intents,    \* guest_claim_intents still valid
    jar,        \* the browser's cookies: the session's principal and the proof
    stored,     \* the session kept for offline use
    marker,     \* mem-brane-has-workspace
    pending,    \* guest libraries with commands in the browser's outbox
    tabs,
    locks,      \* mem-brane-bootstrap and mem-brane-entry
    spent       \* requests lost, proofs and guests lapsed, guests entered by opening a page

entryVars == <<guests, libs, intents, jar, stored, marker, pending, tabs, locks, spent>>

Guests == 1..guests
Numbers == 1..MaxGuests
People == Numbers \cup Accounts
Views == [user : People, lib : People, claim : BOOLEAN]
TabSteps == {"closed", "idle", "ask", "claim", "take", "enter", "starting", "sign", "current", "prepare", "login"}

EntryTypeOK ==
    /\ guests \in 0..MaxGuests /\ DOMAIN libs = Guests
    /\ \A g \in Guests : libs[g] \in [owner : People, claimed : Accounts \cup {Nobody}, purged : BOOLEAN,
                                      age : {"fresh", "expired", "over"}, work : BOOLEAN, session : BOOLEAN]
    /\ intents \subseteq Guests /\ pending \subseteq People
    /\ jar \in [session : People \cup {Nobody}, proof : Guests \cup {Nobody}]
    /\ (stored = Nobody \/ stored \in Views)
    /\ marker \in BOOLEAN
    /\ \A t \in Tabs :
         /\ tabs[t].actor \in People \cup {Nobody} /\ tabs[t].user \in People \cup {Nobody} /\ tabs[t].at \in TabSteps
         /\ tabs[t].then \in {"idle", "boot", "entry", "guest"} /\ tabs[t].want \in Accounts \cup {Nobody}
         /\ (tabs[t].view = Nobody \/ tabs[t].view \in Views)
         /\ (tabs[t].flight = Nobody \/ tabs[t].flight \in [user : People, lib : Guests])
    /\ locks \in [boot : Tabs \cup {Nobody}, entry : Tabs \cup {Nobody}]
    /\ spent.lost \in 0..MaxLost /\ spent.lapses \in 0..MaxLapses /\ spent.opened \in Nat

EntryInit ==
    /\ guests = 0 /\ libs = <<>> /\ intents = {} /\ pending = {}
    /\ jar = [session |-> Nobody, proof |-> Nobody] /\ stored = Nobody /\ marker = FALSE
    /\ tabs = [t \in Tabs |-> [actor |-> Nobody, user |-> Nobody, at |-> "closed", then |-> "idle",
                               want |-> Nobody, view |-> Nobody, flight |-> Nobody]]
    /\ locks = [boot |-> Nobody, entry |-> Nobody]
    /\ spent = [lost |-> 0, lapses |-> 0, opened |-> 0]

-----------------------------------------------------------------------------
(* The server *)

IsGuest(p) == p \in Numbers

\* The principal of the browser's session, if the server still knows it.
Principal == IF jar.session # Nobody /\ (IsGuest(jar.session) => libs[jar.session].session) THEN jar.session ELSE Nobody

LibrariesFor(p) == {g \in Guests : libs[g].owner = p} \cup (IF IsGuest(p) THEN {} ELSE {p})

\* sessionView: the library asked for, or one of the principal's; which one depends on its branes.
SessionViews(hint) ==
    IF Principal = Nobody THEN {Nobody}
    ELSE LET mine == LibrariesFor(Principal)
         IN {[user |-> Principal, lib |-> l, claim |-> jar.proof # Nobody] : l \in IF hint \in mine THEN {hint} ELSE mine}

Authorized(p, l) == l \in LibrariesFor(p) /\ (IsGuest(p) => libs[l].age = "fresh" /\ libs[l].session)

\* Fault: a library that was claimed is claimed again.
AvailableAgain(g) == ~libs[g].purged /\ libs[g].age # "over"

Available(g) == libs[g].claimed = Nobody /\ ~libs[g].purged /\ libs[g].age # "over"

Claimed(g, a) == [libs EXCEPT ![g].owner = a, ![g].claimed = a, ![g].session = FALSE]

\* onLinkAccount: signing in from a guest session claims a library with work in it.
Links(a) == IsGuest(Principal) /\ libs[Principal].work
LinkRefused(a) == Links(a) /\ libs[Principal].claimed # a /\ ~Available(Principal)

-----------------------------------------------------------------------------
(* The browser *)

SetTab(t, r) == tabs' = [tabs EXCEPT ![t] = r]
Lost == spent.lost < MaxLost /\ spent' = [spent EXCEPT !.lost = @ + 1]
Heard == UNCHANGED spent

Released(t) == [boot |-> IF locks.boot = t THEN Nobody ELSE locks.boot, entry |-> IF locks.entry = t THEN Nobody ELSE locks.entry]

\* An error ends what the tab was doing; whoever waits for a lock gets it.
Fail(t) == SetTab(t, [tabs[t] EXCEPT !.at = "idle", !.then = "idle", !.view = Nobody]) /\ locks' = Released(t)

\* openEntry, one tab at a time.
Open(t) ==
    /\ tabs[t].at = "closed" /\ locks.boot = Nobody
    /\ locks' = [locks EXCEPT !.boot = t]
    /\ SetTab(t, [tabs[t] EXCEPT !.at = "ask", !.then = "boot"])
    /\ UNCHANGED <<guests, libs, intents, jar, stored, marker, pending, spent>>

\* The page hears of another session, from another tab or from a refusal.
Refresh(t) ==
    /\ tabs[t].at = "idle" /\ tabs[t].user # Principal
    /\ tabs[t].user # Nobody \/ \E u \in Tabs : tabs[u].user = Principal
    /\ SetTab(t, [tabs[t] EXCEPT !.at = "ask"])
    /\ UNCHANGED <<guests, libs, intents, jar, stored, marker, pending, locks, spent>>

\* authenticatedSession: the server's view, or the stored one when it cannot be reached.
Ask(t) ==
    /\ tabs[t].at = "ask"
    /\ LET hint == IF tabs[t].actor = Nobody /\ stored # Nobody THEN stored.lib ELSE tabs[t].actor
           seen(v) == [tabs[t] EXCEPT !.view = v, !.actor = hint,
                                      !.at = IF v # Nobody /\ ~IsGuest(v.user) /\ v.claim THEN "claim" ELSE "take"]
       IN \/ Heard /\ UNCHANGED locks /\ \E v \in SessionViews(hint) : SetTab(t, seen(v))
          \/ Lost /\ stored # Nobody /\ SetTab(t, seen(stored)) /\ UNCHANGED locks
          \/ Lost /\ stored = Nobody /\ Fail(t)
    /\ UNCHANGED <<guests, libs, intents, jar, stored, marker, pending>>

\* POST /guest/claim: the proof is used up by any answer but a lost one.
Claim(t) ==
    /\ tabs[t].at = "claim"
    /\ LET a == Principal
           g == jar.proof
           again == IF g \in intents THEN libs[g].claimed = a ELSE FALSE
           now == IF g \in intents THEN Available(g) ELSE FALSE
           seen(v) == SetTab(t, [tabs[t] EXCEPT !.view = v, !.at = "take"]) /\ UNCHANGED locks
       IN IF a \notin Accounts THEN (Heard \/ Lost) /\ Fail(t) /\ UNCHANGED <<libs, jar>>
          ELSE \/ /\ Heard /\ jar' = [jar EXCEPT !.proof = Nobody]
                  /\ libs' = IF now THEN Claimed(g, a) ELSE libs
                  /\ IF again \/ now THEN seen([user |-> a, lib |-> g, claim |-> FALSE])
                     ELSE IF g = Nobody THEN \E v \in SessionViews(tabs[t].actor) : seen(v)
                     ELSE Fail(t)
               \/ Lost /\ Fail(t) /\ UNCHANGED jar /\ libs' \in {libs, IF now THEN Claimed(g, a) ELSE libs}
    /\ UNCHANGED <<guests, intents, stored, marker, pending>>

\* The browser is marked by a guest entered and by a page opened with a session.
Marks(t, v) == tabs[t].then = "guest" \/ (tabs[t].then = "boot" /\ v # Nobody)

\* The session becomes the tab's; opening a page may then enter a guest.
TakeSession(t) ==
    /\ tabs[t].at = "take"
    /\ LET v == tabs[t].view
           entering == tabs[t].then = "boot" /\ v = Nobody /\ ~marker
       IN /\ stored' = v
          /\ marker' = (marker \/ Marks(t, v))
          /\ SetTab(t, [tabs[t] EXCEPT !.actor = IF v = Nobody THEN Nobody ELSE v.lib, !.user = IF v = Nobody THEN Nobody ELSE v.user,
                                    !.at = IF entering THEN "enter" ELSE "idle", !.then = IF entering THEN "boot" ELSE "idle",
                                    !.view = Nobody])
          /\ locks' = IF entering THEN locks ELSE Released(t)
    /\ UNCHANGED <<guests, libs, intents, jar, pending, spent>>

\* "Continue as guest", on the screen of a page without a session.
ContinueAsGuest(t) ==
    /\ tabs[t].at = "idle" /\ tabs[t].user = Nobody
    /\ SetTab(t, [tabs[t] EXCEPT !.at = "enter", !.then = "idle"])
    /\ UNCHANGED <<guests, libs, intents, jar, stored, marker, pending, locks, spent>>

TakeEntryLock(t) ==
    /\ tabs[t].at \in {"enter", "sign"} /\ locks.entry = Nobody
    /\ locks' = [locks EXCEPT !.entry = t]
    /\ SetTab(t, [tabs[t] EXCEPT !.at = IF @ = "enter" THEN "starting" ELSE "current"])
    /\ UNCHANGED <<guests, libs, intents, jar, stored, marker, pending, spent>>

\* POST /guest/start: the present session, or a new guest.
StartGuest(t) ==
    /\ tabs[t].at = "starting"
    /\ LET new == Principal = Nobody
           made == /\ guests' = guests + 1
                   /\ libs' = [g \in 1..guests + 1 |->
                                 IF g \in Guests THEN libs[g]
                                 ELSE [owner |-> g, claimed |-> Nobody, purged |-> FALSE, age |-> "fresh",
                                       work |-> FALSE, session |-> TRUE]]
           entered == [tabs[t] EXCEPT !.at = "ask", !.then = "guest"]
           counted(lost) == [spent EXCEPT !.lost = @ + lost, !.opened = @ + IF tabs[t].then = "boot" THEN 1 ELSE 0]
       IN \/ ~new /\ Heard /\ SetTab(t, entered) /\ UNCHANGED <<guests, libs, jar, locks>>
          \/ /\ new /\ guests < MaxGuests /\ made /\ jar' = [jar EXCEPT !.session = guests + 1]
             /\ SetTab(t, entered) /\ spent' = counted(0) /\ UNCHANGED locks
          \/ /\ new /\ guests < MaxGuests /\ spent.lost < MaxLost /\ made /\ spent' = counted(1)
             /\ Fail(t) /\ UNCHANGED jar
          \/ (Lost \/ (new /\ Heard)) /\ Fail(t) /\ UNCHANGED <<guests, libs, jar>>
    /\ UNCHANGED <<intents, stored, marker, pending>>

\* The user signs in or up, as a guest or without a session.
SignIn(t, a) ==
    /\ tabs[t].at = "idle" /\ (tabs[t].user = Nobody \/ IsGuest(tabs[t].user))
    /\ SetTab(t, [tabs[t] EXCEPT !.at = "sign", !.then = "entry", !.want = a])
    /\ UNCHANGED <<guests, libs, intents, jar, stored, marker, pending, locks, spent>>

\* Another tab may have signed in, or left a claim to finish.
Current(t) ==
    /\ tabs[t].at = "current"
    /\ \/ /\ Heard /\ UNCHANGED locks
          /\ SetTab(t, [tabs[t] EXCEPT !.at = IF Principal = Nobody THEN "login" ELSE IF IsGuest(Principal) THEN "prepare"
                                           ELSE IF jar.proof # Nobody THEN "ask" ELSE "login"])
       \/ Lost /\ Fail(t)
    /\ UNCHANGED <<guests, libs, intents, jar, stored, marker, pending>>

\* Fault: only what the server has spent as work.
HasWorkServer(t, g) == libs[g].work

\* Work on the server, or still in this tab's outbox.
HasWork(t, g) == libs[g].work \/ tabs[t].actor \in pending

\* POST /guest/prepare-claim
Prepare(t) ==
    /\ tabs[t].at = "prepare"
    /\ LET g == Principal
           prepared == SetTab(t, [tabs[t] EXCEPT !.at = "login"]) /\ UNCHANGED locks
       IN \/ /\ Heard
             /\ IF ~IsGuest(g) THEN Fail(t) /\ UNCHANGED <<intents, jar>>
                ELSE IF ~HasWork(t, g) THEN prepared /\ jar' = [jar EXCEPT !.proof = Nobody] /\ UNCHANGED intents
                ELSE IF ~Available(g) THEN Fail(t) /\ UNCHANGED <<intents, jar>>
                ELSE prepared /\ intents' = intents \cup {g} /\ jar' = [jar EXCEPT !.proof = g]
          \/ Lost /\ Fail(t) /\ UNCHANGED <<intents, jar>>
    /\ UNCHANGED <<guests, libs, stored, marker, pending>>

\* Better Auth signs the user in; its hook may claim the guest library of the session left.
Login(t) ==
    /\ tabs[t].at = "login"
    /\ LET a == tabs[t].want
           linked == IF Links(a) /\ libs[Principal].claimed # a THEN Claimed(Principal, a) ELSE libs
       IN \/ /\ ~LinkRefused(a) /\ Heard /\ libs' = linked /\ jar' = [jar EXCEPT !.session = a]
             /\ SetTab(t, [tabs[t] EXCEPT !.at = "ask", !.want = Nobody]) /\ UNCHANGED locks
          \/ ~LinkRefused(a) /\ Lost /\ libs' \in {libs, linked} /\ Fail(t) /\ UNCHANGED jar
          \/ Heard /\ Fail(t) /\ UNCHANGED <<libs, jar>>
    /\ UNCHANGED <<guests, intents, stored, marker, pending>>

\* A library with commands to deliver is not left.
SignOut(t) ==
    /\ tabs[t].at = "idle" /\ tabs[t].user \in Accounts /\ tabs[t].actor \notin pending
    /\ jar' = [jar EXCEPT !.session = Nobody] /\ stored' = Nobody
    /\ SetTab(t, [tabs[t] EXCEPT !.actor = Nobody, !.user = Nobody])
    /\ UNCHANGED <<guests, libs, intents, marker, pending, locks, spent>>

\* The page is closed or reloaded; its locks go to whoever waits.
CloseTab(t) ==
    /\ tabs[t].at # "closed"
    /\ SetTab(t, [tabs[t] EXCEPT !.actor = Nobody, !.user = Nobody, !.at = "closed", !.then = "idle", !.want = Nobody, !.view = Nobody, !.flight = Nobody])
    /\ locks' = Released(t)
    /\ UNCHANGED <<guests, libs, intents, jar, stored, marker, pending, spent>>

-----------------------------------------------------------------------------
(* Work *)

\* A command is kept in the browser's outbox, whatever the session.
Work(t) ==
    /\ tabs[t].at = "idle" /\ tabs[t].actor \in Guests
    /\ pending' = pending \cup {tabs[t].actor}
    /\ UNCHANGED <<guests, libs, intents, jar, stored, marker, tabs, locks, spent>>

\* validateSession: the outbox is sent for the library and principal the server confirms.
Validate(t) ==
    /\ tabs[t].at = "idle" /\ tabs[t].actor \in pending /\ tabs[t].flight = Nobody
    /\ \E v \in SessionViews(tabs[t].actor) :
         LET same == IF v = Nobody THEN FALSE ELSE v.lib = tabs[t].actor
             mine == IF same THEN v.user = tabs[t].user ELSE FALSE
         IN IF mine THEN SetTab(t, [tabs[t] EXCEPT !.flight = [user |-> v.user, lib |-> v.lib]]) /\ UNCHANGED stored
            ELSE IF same THEN SetTab(t, [tabs[t] EXCEPT !.at = "ask"]) /\ UNCHANGED stored
            ELSE stored' = Nobody /\ SetTab(t, [tabs[t] EXCEPT !.at = "ask", !.actor = Nobody, !.user = Nobody])
    /\ UNCHANGED <<guests, libs, intents, jar, marker, pending, locks, spent>>

\* The commands sent are applied for the principal they were sent by, or refused and kept.
Synced(t) ==
    /\ tabs[t].flight # Nobody
    /\ LET l == tabs[t].flight.lib
           applied == Authorized(tabs[t].flight.user, l)
       IN /\ libs' = IF applied THEN [libs EXCEPT ![l].work = TRUE] ELSE libs
          /\ pending' = IF applied THEN pending \ {l} ELSE pending
    /\ SetTab(t, [tabs[t] EXCEPT !.flight = Nobody])
    /\ UNCHANGED <<guests, intents, jar, stored, marker, locks, spent>>

-----------------------------------------------------------------------------
(* Time *)

\* Proofs last half an hour, sessions and guests for days: no page is in the middle of a step.
Lapse ==
    /\ spent.lapses < MaxLapses /\ spent' = [spent EXCEPT !.lapses = @ + 1]
    /\ \A t \in Tabs : tabs[t].at \in {"closed", "idle"}

\* The proof is good for half an hour, on the server and in the browser.
ProofExpires(g) ==
    /\ g \in intents /\ Lapse
    /\ intents' = intents \ {g} /\ jar' = [jar EXCEPT !.proof = IF @ = g THEN Nobody ELSE @]
    /\ UNCHANGED <<guests, libs, stored, marker, pending, tabs, locks>>

SessionExpires ==
    /\ jar.session # Nobody /\ Lapse
    /\ jar' = [jar EXCEPT !.session = Nobody]
    /\ UNCHANGED <<guests, libs, intents, stored, marker, pending, tabs, locks>>

GuestAges(g) ==
    /\ g \in Guests /\ libs[g].age # "over" /\ Lapse
    /\ libs' = [libs EXCEPT ![g].age = IF @ = "fresh" THEN "expired" ELSE "over"]
    /\ UNCHANGED <<guests, intents, jar, stored, marker, pending, tabs, locks>>

PurgeGuest(g) ==
    /\ g \in Guests /\ libs[g].age = "over" /\ libs[g].claimed = Nobody /\ ~libs[g].purged
    /\ libs' = [libs EXCEPT ![g].purged = TRUE, ![g].work = FALSE, ![g].session = FALSE]
    /\ intents' = intents \ {g}
    /\ UNCHANGED <<guests, jar, stored, marker, pending, tabs, locks, spent>>

EntryNext ==
    \/ \E t \in Tabs :
         \/ Open(t) \/ Refresh(t) \/ Ask(t) \/ Claim(t) \/ TakeSession(t)
         \/ ContinueAsGuest(t) \/ TakeEntryLock(t) \/ StartGuest(t)
         \/ Current(t) \/ Prepare(t) \/ Login(t) \/ SignOut(t) \/ CloseTab(t) \/ Work(t) \/ Validate(t) \/ Synced(t)
         \/ \E a \in Accounts : SignIn(t, a)
    \/ \E g \in Numbers : ProofExpires(g) \/ GuestAges(g) \/ PurgeGuest(g)
    \/ SessionExpires

EntrySpec == EntryInit /\ [][EntryNext]_entryVars

-----------------------------------------------------------------------------
(* Properties *)

\* A guest library is claimed once and for good, belongs to whom the receipt says, and is never
\* both purged and claimed, whatever proofs, sign-ins and lost answers there are.
ClaimedForGood ==
    [][\A g \in Guests :
         /\ libs[g].claimed # Nobody => libs'[g].claimed = libs[g].claimed
         /\ libs'[g].owner = IF libs'[g].claimed = Nobody THEN g ELSE libs'[g].claimed
         /\ libs'[g].purged => libs'[g].claimed = Nobody /\ ~libs'[g].work]_entryVars

\* "A later expired session must not silently create a new empty guest workspace": opening a page
\* enters no guest when an earlier guest of this browser has work nobody claimed, on the server or unsent.
NoEmptyGuest ==
    [][spent'.opened > spent.opened =>
         \A g \in Guests : libs[g].claimed = Nobody => ~libs[g].work /\ g \notin pending]_entryVars

\* Work that was begun as a guest and is not too old can be reached from the browser's session.
Reachable(g) ==
    \/ libs[g].claimed # Nobody \/ libs[g].age # "fresh"
    \/ jar.session = g \/ jar.proof = g

\* "Everything in this guest workspace comes with you": signing in leaves no work of the guest
\* behind, on the server or in the browser's outbox.
WorkComes == \A g \in Guests : libs[g].work \/ g \in pending => Reachable(g)

\* Nobody's guest library becomes another's, or is purged and claimed (guest-claims.ts:25-121).
LibrariesKept == []EntryTypeOK /\ ClaimedForGood

=============================================================================
