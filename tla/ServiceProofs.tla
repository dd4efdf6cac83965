----------------------------- MODULE ServiceProofs -----------------------------
(***************************************************************************)
(* Proofs about what runs beside the requests.                             *)
(*                                                                         *)
(* Mail: for every number of servers, mails and faults and every length of *)
(* lease, while its lease lasts a mail is sent by one server, although     *)
(* servers die, are suspended and answer late.  Server: for every set of   *)
(* jobs and requests and every interval of the disk monitor.  Backups: for *)
(* every number of hourly and forced jobs, assets, faults and days, and    *)
(* every time an archive is kept, jobs that are killed anywhere and a      *)
(* store that changes beside them leave archives that restore.  Entry: for *)
(* every number of tabs, guests, accounts and lost answers, a library is   *)
(* claimed once and for good.                                              *)
(***************************************************************************)
EXTENDS Mail, Server, Backups, Entry, TLAPS

-----------------------------------------------------------------------------
(* Guests and accounts *)

LibRow == [owner : People, claimed : Accounts \cup {Nobody}, purged : BOOLEAN,
           age : {"fresh", "expired", "over"}, work : BOOLEAN, session : BOOLEAN]
TabRow == [actor : People \cup {Nobody}, user : People \cup {Nobody}, at : TabSteps, then : {"idle", "boot", "entry", "guest"},
           want : Accounts \cup {Nobody}, view : Views \cup {Nobody}, flight : [user : People, lib : Numbers] \cup {Nobody}]

\* The owner is who the receipt says, and what was purged was nobody's, too old, and holds nothing.
LibGood(g, row) ==
    /\ row.owner = IF row.claimed = Nobody THEN g ELSE row.claimed
    /\ row.purged => row.claimed = Nobody /\ ~row.work /\ row.age = "over"

\* What the server has, and what the tabs of the browser share, when n guests have entered.
Served(n, ls, is) ==
    /\ n \in 0..MaxGuests /\ ls \in [1..n -> LibRow] /\ is \subseteq 1..n
    /\ \A g \in 1..n : LibGood(g, ls[g])

Browsed(n, j, s, m, p) ==
    /\ j \in [session : 1..n \cup Accounts \cup {Nobody}, proof : 1..n \cup {Nobody}]
    /\ s \in Views \cup {Nobody} /\ m \in BOOLEAN /\ p \subseteq 1..n

Locked(k) == k \in [boot : Tabs \cup {Nobody}, entry : Tabs \cup {Nobody}]
Counted(c) == c \in [lost : 0..MaxLost, lapses : 0..MaxLapses, opened : Nat]

\* A tab that signs in knows as whom, and what it sends is for the library of a guest.
TabGood(r, n) ==
    /\ r \in TabRow
    /\ r.at \in {"sign", "current", "prepare", "login"} => r.want \in Accounts
    /\ r.flight # Nobody => r.flight.lib \in 1..n

EntryInv ==
    /\ Served(guests, libs, intents) /\ Browsed(guests, jar, stored, marker, pending) /\ Locked(locks) /\ Counted(spent)
    /\ tabs \in [Tabs -> TabRow] /\ \A t \in Tabs : TabGood(tabs[t], guests)

\* What ClaimedForGood says of a step.
ForGood ==
    \A g \in Guests :
      /\ libs[g].claimed # Nobody => libs'[g].claimed = libs[g].claimed
      /\ libs'[g].owner = IF libs'[g].claimed = Nobody THEN g ELSE libs'[g].claimed
      /\ libs'[g].purged => libs'[g].claimed = Nobody /\ ~libs'[g].work

ClaimsStand(ls) == \A g \in Guests : libs[g].claimed # Nobody => ls[g].claimed = libs[g].claimed

LEMMA PeopleApart ==
    /\ MaxGuests \in Nat /\ MaxLost \in Nat /\ MaxLapses \in Nat
    /\ Nobody \notin Accounts /\ Nobody \notin Numbers /\ \A a \in Accounts : a \notin Numbers
BY EntryAssumption DEF Numbers

LEMMA EntryKnown ==
    ASSUME EntryInv
    PROVE  /\ guests \in 0..MaxGuests /\ guests \in Nat /\ Guests = 1..guests /\ Guests \subseteq Numbers
           /\ libs \in [Guests -> LibRow] /\ intents \subseteq Guests /\ (\A g \in Guests : LibGood(g, libs[g]))
           /\ jar \in [session : Guests \cup Accounts \cup {Nobody}, proof : Guests \cup {Nobody}]
           /\ stored \in Views \cup {Nobody} /\ marker \in BOOLEAN /\ pending \subseteq Guests
BY PeopleApart DEF EntryInv, Served, Browsed, Guests, Numbers

LEMMA TabKnown ==
    ASSUME EntryInv, NEW t \in Tabs
    PROVE  /\ tabs[t] \in TabRow /\ TabGood(tabs[t], guests)
           /\ tabs[t].view \in Views \cup {Nobody} /\ tabs[t].actor \in People \cup {Nobody}
           /\ tabs[t].user \in People \cup {Nobody} /\ tabs[t].want \in Accounts \cup {Nobody}
           /\ tabs[t].flight \in [user : People, lib : Numbers] \cup {Nobody}
BY DEF EntryInv, TabRow

LEMMA PrincipalKnown ==
    ASSUME EntryInv
    PROVE  /\ Principal \in Guests \cup Accounts \cup {Nobody}
           /\ IsGuest(Principal) => Principal \in Guests
           /\ Principal # Nobody => Principal \in People
<1>1. jar.session \in Guests \cup Accounts \cup {Nobody}
    BY EntryKnown
<1>2. Principal \in {jar.session, Nobody}
    BY DEF Principal
<1>3. QED
    BY <1>1, <1>2, EntryKnown, PeopleApart DEF IsGuest, People

LEMMA ViewsKnown ==
    ASSUME EntryInv, NEW hint, NEW v \in SessionViews(hint)
    PROVE  v \in Views \cup {Nobody}
<1>1. CASE Principal = Nobody
    BY <1>1 DEF SessionViews
<1>2. CASE Principal # Nobody
    <2>1. Principal \in People
        BY <1>2, PrincipalKnown
    <2>2. LibrariesFor(Principal) \subseteq People
        BY <2>1, EntryKnown DEF LibrariesFor, People
    <2>3. PICK l \in LibrariesFor(Principal) : v = [user |-> Principal, lib |-> l, claim |-> jar.proof # Nobody]
        BY <1>2 DEF SessionViews
    <2>4. QED
        BY <2>1, <2>2, <2>3 DEF Views
<1>3. QED
    BY <1>1, <1>2

\* A library that may still be claimed becomes an account's.
LEMMA ClaimedGood ==
    ASSUME EntryInv, NEW g \in Guests, NEW a \in Accounts, Available(g)
    PROVE  Served(guests, Claimed(g, a), intents) /\ ClaimsStand(Claimed(g, a))
<1>1. libs[g] \in LibRow /\ libs[g].claimed = Nobody /\ ~ libs[g].purged
    BY EntryKnown DEF Available
<1>2. PICK b : b = [libs EXCEPT ![g].owner = a]
    OBVIOUS
<1>3. PICK c : c = [b EXCEPT ![g].claimed = a]
    OBVIOUS
<1>4. PICK d : d = [c EXCEPT ![g].session = FALSE]
    OBVIOUS
<1>5. d = Claimed(g, a)
    BY <1>2, <1>3, <1>4 DEF Claimed
<1>6. libs \in [Guests -> LibRow] /\ a \in People
    BY EntryKnown DEF People
<1>7. b \in [Guests -> LibRow] /\ b[g].owner = a /\ b[g].purged = libs[g].purged /\ \A h \in Guests : h # g => b[h] = libs[h]
    BY <1>1, <1>2, <1>6 DEF LibRow
<1>8. c \in [Guests -> LibRow] /\ c[g].owner = a /\ c[g].claimed = a /\ c[g].purged = libs[g].purged /\ \A h \in Guests : h # g => c[h] = libs[h]
    BY <1>3, <1>7 DEF LibRow
<1>9. d \in [Guests -> LibRow] /\ d[g].owner = a /\ d[g].claimed = a /\ d[g].purged = libs[g].purged /\ \A h \in Guests : h # g => d[h] = libs[h]
    BY <1>4, <1>8 DEF LibRow
<1>10. LibGood(g, d[g])
    BY <1>1, <1>9, PeopleApart DEF LibGood
<1>11. \A h \in Guests : LibGood(h, d[h])
    BY <1>9, <1>10, EntryKnown
<1>12. Served(guests, d, intents)
    BY <1>9, <1>11, EntryKnown DEF Served
<1>13. ClaimsStand(d)
    BY <1>1, <1>9 DEF ClaimsStand
<1>14. QED
    BY <1>5, <1>12, <1>13

-----------------------------------------------------------------------------
\* What is to show of a step of the server and one tab: the rest follows.
LEMMA EntryStepKeeps ==
    ASSUME EntryInv, tabs' \in [Tabs -> TabRow], guests' \in Nat, guests <= guests',
           \A t \in Tabs : tabs'[t] = tabs[t] \/ TabGood(tabs'[t], guests'),
           Served(guests', libs', intents'), ClaimsStand(libs'),
           Browsed(guests', jar', stored', marker', pending'), Locked(locks'), Counted(spent')
    PROVE  EntryInv' /\ ForGood
<1>1. ASSUME NEW t \in Tabs
      PROVE  TabGood(tabs'[t], guests')
    <2>1. TabGood(tabs[t], guests) /\ guests \in Nat
        BY EntryKnown, TabKnown
    <2>2. TabGood(tabs[t], guests')
        BY <2>1 DEF TabGood
    <2>3. QED
        BY <2>2
<1>2. EntryInv'
    BY <1>1 DEF EntryInv, Served, Browsed, Locked, Counted, TabGood
<1>3. ASSUME NEW g \in Guests
      PROVE  LibGood(g, libs'[g])
    BY EntryKnown DEF Served
<1>4. ForGood
    BY <1>3 DEF ForGood, ClaimsStand, LibGood
<1>5. QED
    BY <1>2, <1>4

LEMMA TabStepKeeps ==
    ASSUME EntryInv, NEW t \in Tabs, NEW r, SetTab(t, r), TabGood(r, guests'), guests' \in Nat, guests <= guests',
           Served(guests', libs', intents'), ClaimsStand(libs'),
           Browsed(guests', jar', stored', marker', pending'), Locked(locks'), Counted(spent')
    PROVE  EntryInv' /\ ForGood
<1>1. tabs' = [tabs EXCEPT ![t] = r] /\ r \in TabRow /\ tabs \in [Tabs -> TabRow]
    BY DEF SetTab, TabGood, EntryInv
<1>2. tabs' \in [Tabs -> TabRow] /\ \A u \in Tabs : tabs'[u] = tabs[u] \/ tabs'[u] = r
    BY <1>1
<1>3. \A u \in Tabs : tabs'[u] = tabs[u] \/ TabGood(tabs'[u], guests')
    BY <1>2
<1>4. QED
    BY <1>2, <1>3, EntryStepKeeps

\* Most steps leave the server alone.
LEMMA QuietStepKeeps ==
    ASSUME EntryInv, NEW t \in Tabs, NEW r, SetTab(t, r), TabGood(r, guests), UNCHANGED <<guests, libs, intents>>,
           Browsed(guests, jar', stored', marker', pending'), Locked(locks'), Counted(spent')
    PROVE  EntryInv' /\ ForGood
<1>1. guests' = guests /\ libs' = libs /\ intents' = intents /\ guests \in Nat
    BY EntryKnown
<1>2. Served(guests', libs', intents') /\ ClaimsStand(libs')
    BY <1>1 DEF EntryInv, ClaimsStand
<1>3. QED
    BY <1>1, <1>2, TabStepKeeps

\* What a lost answer costs, and what an error leaves.
LEMMA SpentGood ==
    ASSUME EntryInv, Lost \/ Heard
    PROVE  Counted(spent')
<1>1. spent \in [lost : 0..MaxLost, lapses : 0..MaxLapses, opened : Nat]
    BY DEF EntryInv, Counted
<1>2. CASE Heard
    BY <1>1, <1>2 DEF Heard, Counted
<1>3. CASE Lost
    BY <1>1, <1>3, PeopleApart DEF Lost, Counted
<1>4. QED
    BY <1>2, <1>3

LEMMA ReleasedGood == ASSUME EntryInv, NEW t PROVE Locked(Released(t))
BY DEF EntryInv, Locked, Released

LEMMA IdleGood ==
    ASSUME EntryInv, NEW t \in Tabs, NEW r, r = [tabs[t] EXCEPT !.at = "idle", !.then = "idle", !.view = Nobody]
    PROVE  TabGood(r, guests)
<1>1. tabs[t] \in TabRow /\ TabGood(tabs[t], guests)
    BY TabKnown
<1>2. r \in TabRow /\ r.at = "idle" /\ r.flight = tabs[t].flight
    BY <1>1 DEF TabRow, TabSteps
<1>3. QED
    BY <1>1, <1>2 DEF TabGood

LEMMA FailKeeps ==
    ASSUME EntryInv, NEW t \in Tabs, Fail(t), guests' \in Nat, guests <= guests',
           Served(guests', libs', intents'), ClaimsStand(libs'),
           Browsed(guests', jar', stored', marker', pending'), Counted(spent')
    PROVE  EntryInv' /\ ForGood
<1>1. PICK r : r = [tabs[t] EXCEPT !.at = "idle", !.then = "idle", !.view = Nobody]
    OBVIOUS
<1>2. SetTab(t, r) /\ Locked(locks')
    BY <1>1, ReleasedGood DEF Fail
<1>3. TabGood(r, guests) /\ guests \in Nat
    BY <1>1, IdleGood, EntryKnown
<1>4. TabGood(r, guests')
    BY <1>3 DEF TabGood
<1>5. QED
    BY <1>2, <1>4, TabStepKeeps

LEMMA QuietFails ==
    ASSUME EntryInv, NEW t \in Tabs, Fail(t), UNCHANGED <<guests, libs, intents>>,
           Browsed(guests, jar', stored', marker', pending'), Counted(spent')
    PROVE  EntryInv' /\ ForGood
<1>1. guests' = guests /\ libs' = libs /\ intents' = intents /\ guests \in Nat
    BY EntryKnown
<1>2. Served(guests', libs', intents') /\ ClaimsStand(libs')
    BY <1>1 DEF EntryInv, ClaimsStand
<1>3. QED
    BY <1>1, <1>2, FailKeeps

-----------------------------------------------------------------------------
(* What a step leaves alone stays as it was *)

LEMMA Unmoved ==
    ASSUME EntryInv
    PROVE  /\ UNCHANGED <<jar, stored, marker, pending>> => Browsed(guests, jar', stored', marker', pending')
           /\ UNCHANGED locks => Locked(locks')
           /\ UNCHANGED spent => Counted(spent')
           /\ UNCHANGED <<libs, intents>> => Served(guests, libs', intents')
           /\ UNCHANGED libs => ClaimsStand(libs')
BY DEF EntryInv, ClaimsStand

LEMMA OpenKeeps == ASSUME EntryInv, NEW t \in Tabs, Open(t) PROVE EntryInv' /\ ForGood
<1>1. PICK r : r = [tabs[t] EXCEPT !.at = "ask", !.then = "boot"]
    OBVIOUS
<1>2. SetTab(t, r) /\ UNCHANGED <<guests, libs, intents, jar, stored, marker, pending, spent>>
    BY <1>1 DEF Open
<1>3. TabGood(r, guests)
    <2>1. r \in TabRow /\ r.at = "ask" /\ r.flight = tabs[t].flight
        BY <1>1, TabKnown DEF TabRow, TabSteps
    <2>2. QED
        BY <2>1, TabKnown DEF TabGood
<1>4. Locked(locks')
    BY DEF Open, EntryInv, Locked
<1>5. QED
    BY <1>2, <1>3, <1>4, Unmoved, QuietStepKeeps

LEMMA RefreshKeeps == ASSUME EntryInv, NEW t \in Tabs, Refresh(t) PROVE EntryInv' /\ ForGood
<1>1. PICK r : r = [tabs[t] EXCEPT !.at = "ask"]
    OBVIOUS
<1>2. SetTab(t, r) /\ UNCHANGED <<guests, libs, intents, jar, stored, marker, pending, locks, spent>>
    BY <1>1 DEF Refresh
<1>3. TabGood(r, guests)
    <2>1. r \in TabRow /\ r.at = "ask" /\ r.flight = tabs[t].flight
        BY <1>1, TabKnown DEF TabRow, TabSteps
    <2>2. QED
        BY <2>1, TabKnown DEF TabGood
<1>4. QED
    BY <1>2, <1>3, Unmoved, QuietStepKeeps

\* A view heard, or remembered, whatever library the tab asked for.
LEMMA SeenGood ==
    ASSUME EntryInv, NEW t \in Tabs, NEW v \in Views \cup {Nobody}, NEW hint \in People \cup {Nobody}, NEW at \in {"claim", "take"},
           NEW r, r = [tabs[t] EXCEPT !.view = v, !.actor = hint, !.at = at]
    PROVE  TabGood(r, guests)
<1>1. r \in TabRow /\ r.at = at /\ r.flight = tabs[t].flight
    BY TabKnown DEF TabRow, TabSteps
<1>2. QED
    BY <1>1, TabKnown DEF TabGood

LEMMA AskKeeps == ASSUME EntryInv, NEW t \in Tabs, Ask(t) PROVE EntryInv' /\ ForGood
<1>1. PICK hint : hint = IF tabs[t].actor = Nobody /\ stored # Nobody THEN stored.lib ELSE tabs[t].actor
    OBVIOUS
<1>2. hint \in People \cup {Nobody}
    BY <1>1, EntryKnown, TabKnown DEF Views
<1>3. UNCHANGED <<guests, libs, intents, jar, stored, marker, pending>>
    BY DEF Ask
<1>4. ASSUME NEW v \in Views \cup {Nobody},
             SetTab(t, [tabs[t] EXCEPT !.view = v, !.actor = hint,
                                       !.at = IF v # Nobody /\ ~IsGuest(v.user) /\ v.claim THEN "claim" ELSE "take"]),
             Lost \/ Heard, UNCHANGED locks
      PROVE  EntryInv' /\ ForGood
    <2>1. PICK at : at = IF v # Nobody /\ ~IsGuest(v.user) /\ v.claim THEN "claim" ELSE "take"
        OBVIOUS
    <2>2. PICK r : r = [tabs[t] EXCEPT !.view = v, !.actor = hint, !.at = at]
        OBVIOUS
    <2>3. at \in {"claim", "take"}
        BY <2>1
    <2>4. TabGood(r, guests)
        BY <1>2, <2>2, <2>3, SeenGood
    <2>5. SetTab(t, r)
        BY <1>4, <2>1, <2>2
    <2>6. QED
        BY <1>3, <1>4, <2>4, <2>5, Unmoved, SpentGood, QuietStepKeeps
<1>5. CASE Fail(t) /\ Lost
    BY <1>3, <1>5, Unmoved, SpentGood, QuietFails
<1>6. \/ Heard /\ UNCHANGED locks /\ \E v \in SessionViews(hint) :
            SetTab(t, [tabs[t] EXCEPT !.view = v, !.actor = hint,
                                      !.at = IF v # Nobody /\ ~IsGuest(v.user) /\ v.claim THEN "claim" ELSE "take"])
      \/ Lost /\ stored # Nobody /\ UNCHANGED locks /\
            SetTab(t, [tabs[t] EXCEPT !.view = stored, !.actor = hint,
                                      !.at = IF stored # Nobody /\ ~IsGuest(stored.user) /\ stored.claim THEN "claim" ELSE "take"])
      \/ Lost /\ Fail(t)
    BY <1>1 DEF Ask
<1>7. QED
    BY <1>4, <1>5, <1>6, ViewsKnown, EntryKnown

LEMMA ClaimKeeps == ASSUME EntryInv, NEW t \in Tabs, Claim(t) PROVE EntryInv' /\ ForGood
<1>1. PICK g : g = jar.proof
    OBVIOUS
<1>2. PICK a : a = Principal
    OBVIOUS
<1>3. PICK first : first = IF g \in intents THEN Available(g) ELSE FALSE
    OBVIOUS
<1>4. PICK again : again = IF g \in intents THEN libs[g].claimed = a ELSE FALSE
    OBVIOUS
<1>5. UNCHANGED <<guests, intents, stored, marker, pending>> /\ guests \in Nat /\ guests' = guests
    BY EntryKnown DEF Claim
<1>6. CASE a \notin Accounts
    <2>1. (Heard \/ Lost) /\ Fail(t) /\ UNCHANGED <<libs, jar>>
        BY <1>2, <1>6 DEF Claim
    <2>2. QED
        BY <1>5, <2>1, Unmoved, SpentGood, QuietFails
<1>7. CASE a \in Accounts
    <2>1. \/ /\ Heard /\ jar' = [jar EXCEPT !.proof = Nobody]
             /\ libs' = IF first THEN Claimed(g, a) ELSE libs
             /\ \/ /\ again \/ first
                   /\ SetTab(t, [tabs[t] EXCEPT !.view = [user |-> a, lib |-> g, claim |-> FALSE], !.at = "take"]) /\ UNCHANGED locks
                \/ \E v \in SessionViews(tabs[t].actor) : SetTab(t, [tabs[t] EXCEPT !.view = v, !.at = "take"]) /\ UNCHANGED locks
                \/ Fail(t)
          \/ Lost /\ Fail(t) /\ UNCHANGED jar /\ libs' \in {libs, IF first THEN Claimed(g, a) ELSE libs}
        BY <1>1, <1>2, <1>3, <1>4, <1>7 DEF Claim
    <2>2. Served(guests, IF first THEN Claimed(g, a) ELSE libs, intents) /\ ClaimsStand(IF first THEN Claimed(g, a) ELSE libs)
        <3>1. CASE first
            <4>1. g \in Guests /\ Available(g)
                BY <1>3, <3>1, EntryKnown
            <4>2. QED
                BY <1>7, <3>1, <4>1, ClaimedGood
        <3>2. CASE ~ first
            BY <3>2 DEF EntryInv, ClaimsStand
        <3>3. QED
            BY <3>1, <3>2
    <2>3. libs' = libs \/ libs' = IF first THEN Claimed(g, a) ELSE libs
        BY <2>1
    <2>4. Served(guests', libs', intents') /\ ClaimsStand(libs')
        BY <1>5, <2>2, <2>3 DEF EntryInv, ClaimsStand
    <2>5. Browsed(guests', jar', stored', marker', pending')
        BY <1>5, <2>1 DEF EntryInv, Browsed
    <2>6. Counted(spent')
        BY <2>1, SpentGood
    <2>7. ASSUME NEW v \in Views \cup {Nobody}, SetTab(t, [tabs[t] EXCEPT !.view = v, !.at = "take"]), UNCHANGED locks
          PROVE  EntryInv' /\ ForGood
        <3>1. PICK r : r = [tabs[t] EXCEPT !.view = v, !.at = "take"]
            OBVIOUS
        <3>2. r \in TabRow /\ r.at = "take" /\ r.flight = tabs[t].flight
            BY <3>1, TabKnown DEF TabRow, TabSteps
        <3>3. TabGood(r, guests')
            BY <1>5, <3>2, TabKnown DEF TabGood
        <3>4. QED
            BY <1>5, <2>4, <2>5, <2>6, <2>7, <3>1, <3>3, Unmoved, TabStepKeeps
    <2>8. again \/ first => [user |-> a, lib |-> g, claim |-> FALSE] \in Views \cup {Nobody}
        <3>1. again \/ first => g \in intents
            BY <1>3, <1>4
        <3>2. QED
            BY <1>7, <3>1, EntryKnown DEF Views, People
    <2>9. CASE Fail(t)
        BY <1>5, <2>4, <2>5, <2>6, <2>9, FailKeeps
    <2>10. QED
        BY <2>1, <2>7, <2>8, <2>9, ViewsKnown
<1>8. QED
    BY <1>6, <1>7

LEMMA TakeSessionKeeps == ASSUME EntryInv, NEW t \in Tabs, TakeSession(t) PROVE EntryInv' /\ ForGood
<1>1. PICK v : v = tabs[t].view
    OBVIOUS
<1>2. PICK entering : entering = (tabs[t].then = "boot" /\ v = Nobody /\ ~marker)
    OBVIOUS
<1>3. PICK r : r = [tabs[t] EXCEPT !.actor = IF v = Nobody THEN Nobody ELSE v.lib, !.user = IF v = Nobody THEN Nobody ELSE v.user,
                                   !.at = IF entering THEN "enter" ELSE "idle", !.then = IF entering THEN "boot" ELSE "idle",
                                   !.view = Nobody]
    OBVIOUS
<1>4. SetTab(t, r) /\ stored' = v /\ marker' = (marker \/ Marks(t, v)) /\ locks' = IF entering THEN locks ELSE Released(t)
    BY <1>1, <1>2, <1>3 DEF TakeSession
<1>5. UNCHANGED <<guests, libs, intents, jar, pending, spent>>
    BY DEF TakeSession
<1>6. v \in Views \cup {Nobody}
    BY <1>1, TabKnown
<1>7. Browsed(guests, jar', stored', marker', pending')
    BY <1>4, <1>5, <1>6 DEF EntryInv, Browsed, Marks
<1>8. Locked(locks')
    BY <1>4, ReleasedGood DEF EntryInv
<1>9. TabGood(r, guests)
    <2>1. PICK who : who = IF v = Nobody THEN Nobody ELSE v.user
        OBVIOUS
    <2>2. PICK whose : whose = IF v = Nobody THEN Nobody ELSE v.lib
        OBVIOUS
    <2>3. who \in People \cup {Nobody} /\ whose \in People \cup {Nobody}
        BY <1>6, <2>1, <2>2 DEF Views
    <2>4. r \in TabRow /\ r.at \in {"enter", "idle"} /\ r.flight = tabs[t].flight
        BY <1>3, <2>1, <2>2, <2>3, TabKnown DEF TabRow, TabSteps
    <2>5. QED
        BY <2>4, TabKnown DEF TabGood
<1>10. QED
    BY <1>4, <1>5, <1>7, <1>8, <1>9, Unmoved, QuietStepKeeps

LEMMA ContinueKeeps == ASSUME EntryInv, NEW t \in Tabs, ContinueAsGuest(t) PROVE EntryInv' /\ ForGood
<1>1. PICK r : r = [tabs[t] EXCEPT !.at = "enter", !.then = "idle"]
    OBVIOUS
<1>2. SetTab(t, r) /\ UNCHANGED <<guests, libs, intents, jar, stored, marker, pending, locks, spent>>
    BY <1>1 DEF ContinueAsGuest
<1>3. TabGood(r, guests)
    <2>1. r \in TabRow /\ r.at = "enter" /\ r.flight = tabs[t].flight
        BY <1>1, TabKnown DEF TabRow, TabSteps
    <2>2. QED
        BY <2>1, TabKnown DEF TabGood
<1>4. QED
    BY <1>2, <1>3, Unmoved, QuietStepKeeps

LEMMA LockKeeps == ASSUME EntryInv, NEW t \in Tabs, TakeEntryLock(t) PROVE EntryInv' /\ ForGood
<1>1. PICK r : r = [tabs[t] EXCEPT !.at = IF tabs[t].at = "enter" THEN "starting" ELSE "current"]
    OBVIOUS
<1>2. tabs[t].at \in {"enter", "sign"} /\ UNCHANGED <<guests, libs, intents, jar, stored, marker, pending, spent>>
    BY DEF TakeEntryLock
<1>3. SetTab(t, r)
    BY <1>1, TabKnown DEF TakeEntryLock, TabRow
<1>4. TabGood(r, guests)
    <2>1. r \in TabRow /\ r.flight = tabs[t].flight /\ r.want = tabs[t].want
          /\ r.at = IF tabs[t].at = "enter" THEN "starting" ELSE "current"
        BY <1>1, TabKnown DEF TabRow, TabSteps
    <2>2. QED
        BY <1>2, <2>1, TabKnown DEF TabGood
<1>5. Locked(locks')
    BY DEF TakeEntryLock, EntryInv, Locked
<1>6. QED
    BY <1>2, <1>3, <1>4, <1>5, Unmoved, QuietStepKeeps

\* A guest more, and nothing else of the server's.
LEMMA EnteredGood ==
    ASSUME EntryInv, guests < MaxGuests, guests' = guests + 1,
           libs' = [g \in 1..guests + 1 |->
                      IF g \in Guests THEN libs[g]
                      ELSE [owner |-> g, claimed |-> Nobody, purged |-> FALSE, age |-> "fresh", work |-> FALSE, session |-> TRUE]]
    PROVE  Served(guests', libs', intents) /\ ClaimsStand(libs') /\ guests' \in Nat /\ guests <= guests' /\ guests' \in Numbers
<1>1. guests \in Nat /\ guests' \in 1..MaxGuests /\ guests' \in Nat /\ Guests = 1..guests /\ MaxGuests \in Nat
    BY EntryKnown, PeopleApart
<1>2. \A g \in 1..guests' : g \in People /\ g \in Numbers
    BY <1>1 DEF People, Numbers
<1>3. ASSUME NEW g \in 1..guests'
      PROVE  libs'[g] \in LibRow /\ LibGood(g, libs'[g])
    <2>1. CASE g \in Guests
        <3>1. libs'[g] = libs[g]
            BY <1>3, <2>1
        <3>2. QED
            BY <2>1, <3>1, EntryKnown
    <2>2. CASE g \notin Guests
        <3>1. libs'[g] = [owner |-> g, claimed |-> Nobody, purged |-> FALSE, age |-> "fresh", work |-> FALSE, session |-> TRUE]
            BY <1>3, <2>2
        <3>2. PICK row : row = libs'[g]
            OBVIOUS
        <3>3. g \in People
            BY <1>2, <1>3
        <3>4. row \in LibRow
            BY <3>1, <3>2, <3>3 DEF LibRow
        <3>5. LibGood(g, row)
            BY <3>1, <3>2 DEF LibGood
        <3>6. QED
            BY <3>2, <3>4, <3>5
    <2>3. QED
        BY <2>1, <2>2
<1>4. libs' \in [1..guests' -> LibRow]
    BY <1>3
<1>5. intents \subseteq 1..guests' /\ Guests \subseteq 1..guests'
    BY <1>1, EntryKnown
<1>6. ClaimsStand(libs')
    BY <1>5 DEF ClaimsStand
<1>7. Served(guests', libs', intents)
    BY <1>1, <1>3, <1>4, <1>5 DEF Served
<1>8. QED
    BY <1>1, <1>6, <1>7 DEF Numbers

LEMMA StartGuestKeeps == ASSUME EntryInv, NEW t \in Tabs, StartGuest(t) PROVE EntryInv' /\ ForGood
<1>1. PICK r : r = [tabs[t] EXCEPT !.at = "ask", !.then = "guest"]
    OBVIOUS
<1>2. UNCHANGED <<intents, stored, marker, pending>>
    BY DEF StartGuest
<1>3. spent \in [lost : 0..MaxLost, lapses : 0..MaxLapses, opened : Nat] /\ MaxLost \in Nat
    BY PeopleApart DEF EntryInv, Counted
<1>4. TabGood(r, guests)
    <2>1. r \in TabRow /\ r.at = "ask" /\ r.flight = tabs[t].flight
        BY <1>1, TabKnown DEF TabRow, TabSteps
    <2>2. QED
        BY <2>1, TabKnown DEF TabGood
<1>5. CASE Heard /\ SetTab(t, r) /\ UNCHANGED <<guests, libs, jar, locks>>
    BY <1>2, <1>4, <1>5, Unmoved, SpentGood, QuietStepKeeps
<1>6. ASSUME guests < MaxGuests, guests' = guests + 1,
             libs' = [g \in 1..guests + 1 |->
                        IF g \in Guests THEN libs[g]
                        ELSE [owner |-> g, claimed |-> Nobody, purged |-> FALSE, age |-> "fresh", work |-> FALSE, session |-> TRUE]],
             jar' = jar \/ jar' = [jar EXCEPT !.session = guests + 1],
             NEW lost \in {0, 1}, spent.lost + lost <= MaxLost,
             spent' = [spent EXCEPT !.lost = @ + lost, !.opened = @ + IF tabs[t].then = "boot" THEN 1 ELSE 0],
             (SetTab(t, r) /\ UNCHANGED locks) \/ Fail(t)
      PROVE  EntryInv' /\ ForGood
    <2>1. Served(guests', libs', intents') /\ ClaimsStand(libs') /\ guests' \in Nat /\ guests <= guests' /\ guests' \in Numbers
        BY <1>2, <1>6, EnteredGood
    <2>2. Guests \subseteq 1..guests' /\ guests' \in 1..guests' /\ guests \in Nat
        BY <1>6, EntryKnown
    <2>3. jar' \in [session : 1..guests' \cup Accounts \cup {Nobody}, proof : 1..guests' \cup {Nobody}]
        BY <1>6, <2>2, EntryKnown
    <2>4. stored' \in Views \cup {Nobody} /\ marker' \in BOOLEAN /\ pending' \subseteq 1..guests'
        BY <1>2, <2>2, EntryKnown
    <2>5. Browsed(guests', jar', stored', marker', pending')
        BY <2>3, <2>4 DEF Browsed
    <2>6. Counted(spent')
        <3>1. PICK opened : opened = IF tabs[t].then = "boot" THEN 1 ELSE 0
            OBVIOUS
        <3>2. opened \in Nat
            BY <3>1
        <3>3. PICK d : d = [spent EXCEPT !.lost = spent.lost + lost]
            OBVIOUS
        <3>4. spent' = [d EXCEPT !.opened = spent.opened + opened]
            BY <1>3, <1>6, <3>1, <3>3
        <3>5. d \in [lost : 0..MaxLost, lapses : 0..MaxLapses, opened : Nat] /\ d.opened = spent.opened
            BY <1>3, <1>6, <3>3
        <3>6. QED
            BY <3>2, <3>4, <3>5 DEF Counted
    <2>7. CASE SetTab(t, r) /\ UNCHANGED locks
        <3>1. TabGood(r, guests')
            BY <1>4, <2>1, <2>2 DEF TabGood
        <3>2. QED
            BY <2>1, <2>5, <2>6, <2>7, <3>1, Unmoved, TabStepKeeps
    <2>8. CASE Fail(t)
        BY <2>1, <2>5, <2>6, <2>8, FailKeeps
    <2>9. QED
        BY <1>6, <2>7, <2>8
<1>7. CASE (Lost \/ Heard) /\ Fail(t) /\ UNCHANGED <<guests, libs, jar>>
    BY <1>2, <1>7, Unmoved, SpentGood, QuietFails
<1>8. \/ Heard /\ SetTab(t, r) /\ UNCHANGED <<guests, libs, jar, locks>>
      \/ /\ guests < MaxGuests /\ guests' = guests + 1
         /\ libs' = [g \in 1..guests + 1 |->
                       IF g \in Guests THEN libs[g]
                       ELSE [owner |-> g, claimed |-> Nobody, purged |-> FALSE, age |-> "fresh", work |-> FALSE, session |-> TRUE]]
         /\ \/ /\ jar' = [jar EXCEPT !.session = guests + 1] /\ SetTab(t, r) /\ UNCHANGED locks
               /\ spent' = [spent EXCEPT !.lost = @ + 0, !.opened = @ + IF tabs[t].then = "boot" THEN 1 ELSE 0]
            \/ /\ spent.lost < MaxLost /\ jar' = jar /\ Fail(t)
               /\ spent' = [spent EXCEPT !.lost = @ + 1, !.opened = @ + IF tabs[t].then = "boot" THEN 1 ELSE 0]
      \/ (Lost \/ Heard) /\ Fail(t) /\ UNCHANGED <<guests, libs, jar>>
    BY <1>1 DEF StartGuest
<1>9. spent.lost + 0 <= MaxLost /\ (spent.lost < MaxLost => spent.lost + 1 <= MaxLost)
    BY <1>3
<1>10. QED
    BY <1>5, <1>6, <1>7, <1>8, <1>9

LEMMA SignInKeeps == ASSUME EntryInv, NEW t \in Tabs, NEW a \in Accounts, SignIn(t, a) PROVE EntryInv' /\ ForGood
<1>1. PICK r : r = [tabs[t] EXCEPT !.at = "sign", !.then = "entry", !.want = a]
    OBVIOUS
<1>2. SetTab(t, r) /\ UNCHANGED <<guests, libs, intents, jar, stored, marker, pending, locks, spent>>
    BY <1>1 DEF SignIn
<1>3. TabGood(r, guests)
    <2>1. r \in TabRow /\ r.want = a /\ r.flight = tabs[t].flight
        BY <1>1, TabKnown DEF TabRow, TabSteps
    <2>2. QED
        BY <2>1, TabKnown DEF TabGood
<1>4. QED
    BY <1>2, <1>3, Unmoved, QuietStepKeeps

\* A tab that signs in goes on.
LEMMA SigningGood ==
    ASSUME EntryInv, NEW t \in Tabs, tabs[t].at \in {"current", "prepare"}, NEW at \in {"login", "prepare", "ask"},
           NEW r, r = [tabs[t] EXCEPT !.at = at]
    PROVE  TabGood(r, guests)
<1>1. r \in TabRow /\ r.want = tabs[t].want /\ r.flight = tabs[t].flight
    BY TabKnown DEF TabRow, TabSteps
<1>2. QED
    BY <1>1, TabKnown DEF TabGood

LEMMA CurrentKeeps == ASSUME EntryInv, NEW t \in Tabs, Current(t) PROVE EntryInv' /\ ForGood
<1>1. PICK at : at = IF Principal = Nobody THEN "login" ELSE IF IsGuest(Principal) THEN "prepare"
                     ELSE IF jar.proof # Nobody THEN "ask" ELSE "login"
    OBVIOUS
<1>2. PICK r : r = [tabs[t] EXCEPT !.at = at]
    OBVIOUS
<1>3. tabs[t].at = "current" /\ UNCHANGED <<guests, libs, intents, jar, stored, marker, pending>>
    BY DEF Current
<1>4. at \in {"login", "prepare", "ask"}
    BY <1>1
<1>5. TabGood(r, guests)
    BY <1>2, <1>3, <1>4, SigningGood
<1>6. (Heard /\ UNCHANGED locks /\ SetTab(t, r)) \/ (Lost /\ Fail(t))
    BY <1>1, <1>2 DEF Current
<1>7. CASE Heard /\ UNCHANGED locks /\ SetTab(t, r)
    BY <1>3, <1>5, <1>7, Unmoved, SpentGood, QuietStepKeeps
<1>8. CASE Lost /\ Fail(t)
    BY <1>3, <1>8, Unmoved, SpentGood, QuietFails
<1>9. QED
    BY <1>6, <1>7, <1>8

LEMMA PrepareKeeps == ASSUME EntryInv, NEW t \in Tabs, Prepare(t) PROVE EntryInv' /\ ForGood
<1>1. PICK r : r = [tabs[t] EXCEPT !.at = "login"]
    OBVIOUS
<1>2. PICK g : g = Principal
    OBVIOUS
<1>3. tabs[t].at = "prepare" /\ UNCHANGED <<guests, libs, stored, marker, pending>> /\ (Lost \/ Heard)
    BY DEF Prepare
<1>4. TabGood(r, guests)
    BY <1>1, <1>3, SigningGood
<1>5. \/ Fail(t) /\ UNCHANGED <<intents, jar>>
      \/ SetTab(t, r) /\ UNCHANGED locks /\ jar' = [jar EXCEPT !.proof = Nobody] /\ UNCHANGED intents
      \/ SetTab(t, r) /\ UNCHANGED locks /\ IsGuest(g) /\ intents' = intents \cup {g} /\ jar' = [jar EXCEPT !.proof = g]
    BY <1>1, <1>2 DEF Prepare
<1>6. CASE Fail(t) /\ UNCHANGED <<intents, jar>>
    BY <1>3, <1>6, Unmoved, SpentGood, QuietFails
<1>7. CASE SetTab(t, r) /\ UNCHANGED locks /\ jar' = [jar EXCEPT !.proof = Nobody] /\ UNCHANGED intents
    <2>1. Browsed(guests, jar', stored', marker', pending')
        BY <1>3, <1>7 DEF EntryInv, Browsed
    <2>2. QED
        BY <1>3, <1>4, <1>7, <2>1, Unmoved, SpentGood, QuietStepKeeps
<1>8. CASE SetTab(t, r) /\ UNCHANGED locks /\ IsGuest(g) /\ intents' = intents \cup {g} /\ jar' = [jar EXCEPT !.proof = g]
    <2>1. g \in Guests /\ guests \in Nat /\ Guests = 1..guests /\ guests' = guests
        BY <1>2, <1>3, <1>8, PrincipalKnown, EntryKnown
    <2>2. Browsed(guests', jar', stored', marker', pending')
        BY <1>3, <1>8, <2>1 DEF EntryInv, Browsed
    <2>3. Served(guests', libs', intents') /\ ClaimsStand(libs')
        BY <1>3, <1>8, <2>1, Unmoved DEF EntryInv, Served
    <2>4. TabGood(r, guests') /\ Counted(spent') /\ Locked(locks')
        BY <1>3, <1>4, <1>8, <2>1, Unmoved, SpentGood
    <2>5. guests' \in Nat /\ guests <= guests'
        BY <2>1
    <2>6. QED
        BY <1>8, <2>2, <2>3, <2>4, <2>5, TabStepKeeps
<1>9. QED
    BY <1>5, <1>6, <1>7, <1>8

LEMMA LoginKeeps == ASSUME EntryInv, NEW t \in Tabs, Login(t) PROVE EntryInv' /\ ForGood
<1>1. PICK a : a = tabs[t].want
    OBVIOUS
<1>2. PICK linked : linked = IF Links(a) /\ libs[Principal].claimed # a THEN Claimed(Principal, a) ELSE libs
    OBVIOUS
<1>3. PICK r : r = [tabs[t] EXCEPT !.at = "ask", !.want = Nobody]
    OBVIOUS
<1>4. tabs[t].at = "login" /\ UNCHANGED <<guests, intents, stored, marker, pending>> /\ (Lost \/ Heard)
    BY DEF Login
<1>5. a \in Accounts /\ guests' = guests /\ guests \in Nat
    BY <1>1, <1>4, TabKnown, EntryKnown DEF TabGood
<1>6. TabGood(r, guests)
    <2>1. r \in TabRow /\ r.at = "ask" /\ r.flight = tabs[t].flight
        BY <1>3, TabKnown DEF TabRow, TabSteps
    <2>2. QED
        BY <2>1, TabKnown DEF TabGood
<1>7. \/ ~LinkRefused(a) /\ libs' = linked /\ jar' = [jar EXCEPT !.session = a] /\ SetTab(t, r) /\ UNCHANGED locks
      \/ ~LinkRefused(a) /\ libs' \in {libs, linked} /\ Fail(t) /\ UNCHANGED jar
      \/ Fail(t) /\ UNCHANGED <<libs, jar>>
    BY <1>1, <1>2, <1>3 DEF Login
<1>8. ~LinkRefused(a) => Served(guests, linked, intents) /\ ClaimsStand(linked)
    <2>1. CASE ~LinkRefused(a) /\ Links(a) /\ libs[Principal].claimed # a
        <3>1. Principal \in Guests /\ Available(Principal)
            BY <2>1, PrincipalKnown DEF Links, LinkRefused
        <3>2. QED
            BY <1>2, <1>5, <2>1, <3>1, ClaimedGood
    <2>2. CASE ~ (Links(a) /\ libs[Principal].claimed # a)
        BY <1>2, <2>2 DEF EntryInv, ClaimsStand
    <2>3. QED
        BY <2>1, <2>2
<1>9. Served(guests', libs', intents') /\ ClaimsStand(libs')
    BY <1>4, <1>5, <1>7, <1>8 DEF EntryInv, ClaimsStand
<1>10. Browsed(guests', jar', stored', marker', pending')
    BY <1>4, <1>5, <1>7 DEF EntryInv, Browsed
<1>11. CASE Fail(t)
    BY <1>4, <1>5, <1>9, <1>10, <1>11, SpentGood, FailKeeps
<1>12. CASE SetTab(t, r) /\ UNCHANGED locks
    BY <1>4, <1>5, <1>6, <1>9, <1>10, <1>12, SpentGood, Unmoved, TabStepKeeps
<1>13. QED
    BY <1>7, <1>11, <1>12

LEMMA SignOutKeeps == ASSUME EntryInv, NEW t \in Tabs, SignOut(t) PROVE EntryInv' /\ ForGood
<1>1. PICK r : r = [tabs[t] EXCEPT !.actor = Nobody, !.user = Nobody]
    OBVIOUS
<1>2. SetTab(t, r) /\ jar' = [jar EXCEPT !.session = Nobody] /\ stored' = Nobody
    BY <1>1 DEF SignOut
<1>3. UNCHANGED <<guests, libs, intents, marker, pending, locks, spent>>
    BY DEF SignOut
<1>4. TabGood(r, guests)
    <2>1. r \in TabRow /\ r.at = tabs[t].at /\ r.want = tabs[t].want /\ r.flight = tabs[t].flight
        BY <1>1, TabKnown DEF TabRow
    <2>2. QED
        BY <2>1, TabKnown DEF TabGood
<1>5. Browsed(guests, jar', stored', marker', pending')
    BY <1>2, <1>3 DEF EntryInv, Browsed
<1>6. QED
    BY <1>2, <1>3, <1>4, <1>5, Unmoved, QuietStepKeeps

LEMMA CloseTabKeeps == ASSUME EntryInv, NEW t \in Tabs, CloseTab(t) PROVE EntryInv' /\ ForGood
<1>1. PICK r : r = [tabs[t] EXCEPT !.actor = Nobody, !.user = Nobody, !.at = "closed", !.then = "idle", !.want = Nobody,
                                   !.view = Nobody, !.flight = Nobody]
    OBVIOUS
<1>2. SetTab(t, r) /\ locks' = Released(t) /\ UNCHANGED <<guests, libs, intents, jar, stored, marker, pending, spent>>
    BY <1>1 DEF CloseTab
<1>3. TabGood(r, guests)
    <2>1. r \in TabRow /\ r.at = "closed" /\ r.flight = Nobody
        BY <1>1, TabKnown DEF TabRow, TabSteps
    <2>2. QED
        BY <2>1 DEF TabGood
<1>4. Locked(locks')
    BY <1>2, ReleasedGood
<1>5. QED
    BY <1>2, <1>3, <1>4, Unmoved, QuietStepKeeps

LEMMA WorkKeeps == ASSUME EntryInv, NEW t \in Tabs, Work(t) PROVE EntryInv' /\ ForGood
<1>1. tabs[t].actor \in Guests /\ pending' = pending \cup {tabs[t].actor}
      /\ UNCHANGED <<guests, libs, intents, jar, stored, marker, tabs, locks, spent>>
    BY DEF Work
<1>2. SetTab(t, tabs[t])
    BY <1>1 DEF SetTab, EntryInv
<1>3. Browsed(guests, jar', stored', marker', pending')
    BY <1>1, EntryKnown DEF EntryInv, Browsed
<1>4. TabGood(tabs[t], guests)
    BY TabKnown
<1>5. QED
    BY <1>1, <1>2, <1>3, <1>4, Unmoved, QuietStepKeeps

LEMMA ValidateKeeps == ASSUME EntryInv, NEW t \in Tabs, Validate(t) PROVE EntryInv' /\ ForGood
<1>1. tabs[t].at = "idle" /\ tabs[t].actor \in pending /\ UNCHANGED <<guests, libs, intents, jar, marker, pending, locks, spent>>
    BY DEF Validate
<1>2. PICK v \in SessionViews(tabs[t].actor) :
         \/ /\ v # Nobody /\ v.lib = tabs[t].actor
            /\ SetTab(t, [tabs[t] EXCEPT !.flight = [user |-> v.user, lib |-> v.lib]]) /\ UNCHANGED stored
         \/ SetTab(t, [tabs[t] EXCEPT !.at = "ask"]) /\ UNCHANGED stored
         \/ stored' = Nobody /\ SetTab(t, [tabs[t] EXCEPT !.at = "ask", !.actor = Nobody, !.user = Nobody])
    BY DEF Validate
<1>3. v \in Views \cup {Nobody}
    BY ViewsKnown
<1>4. Browsed(guests, jar', stored', marker', pending')
    BY <1>1, <1>2 DEF EntryInv, Browsed
<1>5. CASE v # Nobody /\ v.lib = tabs[t].actor /\ SetTab(t, [tabs[t] EXCEPT !.flight = [user |-> v.user, lib |-> v.lib]])
    <2>1. PICK flight : flight = [user |-> v.user, lib |-> v.lib]
        OBVIOUS
    <2>2. v.user \in People /\ v.lib \in Guests
        BY <1>1, <1>3, <1>5, EntryKnown DEF Views
    <2>3. flight \in [user : People, lib : Numbers] /\ flight.lib \in 1..guests
        BY <2>1, <2>2, EntryKnown
    <2>4. PICK r : r = [tabs[t] EXCEPT !.flight = flight]
        OBVIOUS
    <2>5. r \in TabRow /\ r.at = "idle" /\ r.flight = flight
        BY <1>1, <2>3, <2>4, TabKnown DEF TabRow
    <2>6. TabGood(r, guests)
        BY <2>3, <2>5 DEF TabGood
    <2>7. QED
        BY <1>1, <1>4, <1>5, <2>1, <2>4, <2>6, Unmoved, QuietStepKeeps
<1>6. CASE SetTab(t, [tabs[t] EXCEPT !.at = "ask"])
    <2>1. PICK r : r = [tabs[t] EXCEPT !.at = "ask"]
        OBVIOUS
    <2>2. r \in TabRow /\ r.at = "ask" /\ r.flight = tabs[t].flight
        BY <2>1, TabKnown DEF TabRow, TabSteps
    <2>3. TabGood(r, guests)
        BY <2>2, TabKnown DEF TabGood
    <2>4. QED
        BY <1>1, <1>4, <1>6, <2>1, <2>3, Unmoved, QuietStepKeeps
<1>7. CASE SetTab(t, [tabs[t] EXCEPT !.at = "ask", !.actor = Nobody, !.user = Nobody])
    <2>1. PICK r : r = [tabs[t] EXCEPT !.at = "ask", !.actor = Nobody, !.user = Nobody]
        OBVIOUS
    <2>2. r \in TabRow /\ r.at = "ask" /\ r.flight = tabs[t].flight
        BY <2>1, TabKnown DEF TabRow, TabSteps
    <2>3. TabGood(r, guests)
        BY <2>2, TabKnown DEF TabGood
    <2>4. QED
        BY <1>1, <1>4, <1>7, <2>1, <2>3, Unmoved, QuietStepKeeps
<1>8. QED
    BY <1>2, <1>5, <1>6, <1>7

\* One library changes otherwise than by a claim.
LEMMA LibraryKeeps ==
    ASSUME EntryInv, NEW g \in Guests, NEW row \in LibRow, LibGood(g, row), row.claimed = libs[g].claimed,
           libs' = [libs EXCEPT ![g] = row], NEW is, is \subseteq Guests
    PROVE  Served(guests, libs', is) /\ ClaimsStand(libs')
<1>1. libs \in [Guests -> LibRow] /\ Guests = 1..guests
    BY EntryKnown
<1>2. libs' \in [Guests -> LibRow] /\ libs'[g] = row /\ \A h \in Guests : h # g => libs'[h] = libs[h]
    BY <1>1
<1>3. \A h \in Guests : LibGood(h, libs'[h])
    BY <1>2, EntryKnown
<1>4. QED
    BY <1>1, <1>2, <1>3, EntryKnown DEF Served, ClaimsStand

\* What was purged is nobody's to write to.
LEMMA SyncedKeeps == ASSUME EntryInv, NEW t \in Tabs, Synced(t) PROVE EntryInv' /\ ForGood
<1>1. PICK l : l = tabs[t].flight.lib
    OBVIOUS
<1>2. PICK u : u = tabs[t].flight.user
    OBVIOUS
<1>3. tabs[t].flight # Nobody /\ UNCHANGED <<guests, intents, jar, stored, marker, locks, spent>>
    BY DEF Synced
<1>4. l \in Guests /\ u \in People
    BY <1>1, <1>2, <1>3, TabKnown, EntryKnown DEF TabGood
<1>5. libs' = (IF Authorized(u, l) THEN [libs EXCEPT ![l].work = TRUE] ELSE libs) /\ pending' \subseteq pending
    BY <1>1, <1>2 DEF Synced
<1>6. PICK r : r = [tabs[t] EXCEPT !.flight = Nobody]
    OBVIOUS
<1>7. SetTab(t, r)
    BY <1>6 DEF Synced
<1>8. TabGood(r, guests)
    <2>1. r \in TabRow /\ r.at = tabs[t].at /\ r.want = tabs[t].want /\ r.flight = Nobody
        BY <1>6, TabKnown DEF TabRow
    <2>2. QED
        BY <2>1, TabKnown DEF TabGood
<1>9. Served(guests, libs', intents) /\ ClaimsStand(libs')
    <2>1. CASE Authorized(u, l)
        <3>1. libs[l].owner = u /\ (IsGuest(u) => libs[l].age = "fresh")
            BY <1>4, <2>1, EntryKnown, PeopleApart DEF Authorized, LibrariesFor, IsGuest, People
        <3>2. libs[l] \in LibRow /\ LibGood(l, libs[l]) /\ IsGuest(l)
            BY <1>4, EntryKnown DEF IsGuest
        <3>3. ~ libs[l].purged
            BY <3>1, <3>2 DEF LibGood
        <3>4. PICK row : row = [libs[l] EXCEPT !.work = TRUE]
            OBVIOUS
        <3>5. row \in LibRow /\ row.claimed = libs[l].claimed /\ row.owner = libs[l].owner /\ row.purged = libs[l].purged
            BY <3>2, <3>4 DEF LibRow
        <3>6. LibGood(l, row)
            BY <3>2, <3>3, <3>5 DEF LibGood
        <3>7. libs' = [libs EXCEPT ![l] = row]
            BY <1>4, <1>5, <2>1, <3>4, EntryKnown
        <3>8. QED
            BY <1>4, <3>5, <3>6, <3>7, EntryKnown, LibraryKeeps
    <2>2. CASE ~ Authorized(u, l)
        BY <1>5, <2>2 DEF EntryInv, ClaimsStand
    <2>3. QED
        BY <2>1, <2>2
<1>10. Browsed(guests, jar', stored', marker', pending')
    BY <1>3, <1>5 DEF EntryInv, Browsed
<1>11. guests' = guests /\ intents' = intents /\ guests \in Nat /\ Locked(locks') /\ Counted(spent')
    BY <1>3, EntryKnown, Unmoved
<1>12. QED
    BY <1>7, <1>8, <1>9, <1>10, <1>11, TabStepKeeps

-----------------------------------------------------------------------------
(* Time *)

\* No tab moves when time does.
LEMMA TimeKeeps ==
    ASSUME EntryInv, UNCHANGED <<guests, stored, marker, pending, tabs, locks>>, Served(guests, libs', intents'), ClaimsStand(libs'),
           Browsed(guests, jar', stored', marker', pending'), Counted(spent')
    PROVE  EntryInv' /\ ForGood
<1>1. guests' = guests /\ guests \in Nat /\ tabs' = tabs /\ tabs \in [Tabs -> TabRow] /\ Locked(locks')
    BY EntryKnown, Unmoved DEF EntryInv
<1>2. QED
    BY <1>1, EntryStepKeeps

LEMMA LapseGood == ASSUME EntryInv, Lapse PROVE Counted(spent')
BY PeopleApart DEF Lapse, EntryInv, Counted

LEMMA ProofExpiresKeeps == ASSUME EntryInv, NEW g, ProofExpires(g) PROVE EntryInv' /\ ForGood
<1>1. UNCHANGED <<guests, libs, stored, marker, pending, tabs, locks>> /\ Lapse /\ intents' \subseteq intents
      /\ jar' = [jar EXCEPT !.proof = IF jar.proof = g THEN Nobody ELSE jar.proof]
    BY EntryKnown DEF ProofExpires
<1>2. Served(guests, libs', intents') /\ ClaimsStand(libs')
    BY <1>1 DEF EntryInv, Served, ClaimsStand
<1>3. Browsed(guests, jar', stored', marker', pending')
    BY <1>1 DEF EntryInv, Browsed
<1>4. QED
    BY <1>1, <1>2, <1>3, LapseGood, TimeKeeps

LEMMA SessionExpiresKeeps == ASSUME EntryInv, SessionExpires PROVE EntryInv' /\ ForGood
<1>1. UNCHANGED <<guests, libs, intents, stored, marker, pending, tabs, locks>> /\ Lapse /\ jar' = [jar EXCEPT !.session = Nobody]
    BY DEF SessionExpires
<1>2. Served(guests, libs', intents') /\ ClaimsStand(libs')
    BY <1>1, Unmoved
<1>3. Browsed(guests, jar', stored', marker', pending')
    BY <1>1 DEF EntryInv, Browsed
<1>4. QED
    BY <1>1, <1>2, <1>3, LapseGood, TimeKeeps

LEMMA GuestAgesKeeps == ASSUME EntryInv, NEW g, GuestAges(g) PROVE EntryInv' /\ ForGood
<1>1. UNCHANGED <<guests, intents, jar, stored, marker, pending, tabs, locks>> /\ Lapse /\ g \in Guests /\ libs[g].age # "over"
    BY DEF GuestAges
<1>2. libs[g] \in LibRow /\ LibGood(g, libs[g])
    BY <1>1, EntryKnown
<1>3. PICK row : row = [libs[g] EXCEPT !.age = IF libs[g].age = "fresh" THEN "expired" ELSE "over"]
    OBVIOUS
<1>4. row \in LibRow /\ row.claimed = libs[g].claimed /\ row.owner = libs[g].owner /\ row.purged = libs[g].purged
    BY <1>2, <1>3 DEF LibRow
<1>5. LibGood(g, row)
    BY <1>1, <1>2, <1>4 DEF LibGood
<1>6. libs' = [libs EXCEPT ![g] = row]
    BY <1>1, <1>3, EntryKnown DEF GuestAges
<1>7. Served(guests, libs', intents') /\ ClaimsStand(libs')
    BY <1>1, <1>4, <1>5, <1>6, EntryKnown, LibraryKeeps
<1>8. QED
    BY <1>1, <1>7, LapseGood, Unmoved, TimeKeeps

LEMMA PurgeGuestKeeps == ASSUME EntryInv, NEW g, PurgeGuest(g) PROVE EntryInv' /\ ForGood
<1>1. /\ UNCHANGED <<guests, jar, stored, marker, pending, tabs, locks, spent>> /\ g \in Guests
      /\ libs[g].age = "over" /\ libs[g].claimed = Nobody /\ intents' = intents \ {g}
    BY DEF PurgeGuest
<1>2. libs[g] \in LibRow /\ LibGood(g, libs[g]) /\ libs \in [Guests -> LibRow]
    BY <1>1, EntryKnown
<1>3. PICK row : row = [libs[g] EXCEPT !.purged = TRUE, !.work = FALSE, !.session = FALSE]
    OBVIOUS
<1>4. row \in LibRow /\ row.claimed = libs[g].claimed /\ row.owner = libs[g].owner /\ ~row.work /\ row.age = libs[g].age
    BY <1>2, <1>3 DEF LibRow
<1>5. LibGood(g, row)
    BY <1>1, <1>2, <1>4 DEF LibGood
<1>6. libs' = [libs EXCEPT ![g] = row]
    <2>1. libs' = [libs EXCEPT ![g].purged = TRUE, ![g].work = FALSE, ![g].session = FALSE]
        BY DEF PurgeGuest
    <2>2. PICK b : b = [libs EXCEPT ![g].purged = TRUE]
        OBVIOUS
    <2>3. PICK c : c = [b EXCEPT ![g].work = FALSE]
        OBVIOUS
    <2>4. libs' = [c EXCEPT ![g].session = FALSE]
        BY <2>1, <2>2, <2>3
    <2>5. b = [libs EXCEPT ![g] = [libs[g] EXCEPT !.purged = TRUE]] /\ b[g] = [libs[g] EXCEPT !.purged = TRUE]
        BY <1>1, <1>2, <2>2
    <2>6. c = [libs EXCEPT ![g] = [libs[g] EXCEPT !.purged = TRUE, !.work = FALSE]] /\ c[g] = [libs[g] EXCEPT !.purged = TRUE, !.work = FALSE]
        BY <1>1, <1>2, <2>3, <2>5
    <2>7. QED
        BY <1>1, <1>2, <1>3, <2>4, <2>6
<1>7. intents' \subseteq Guests
    BY <1>1, EntryKnown
<1>8. Served(guests, libs', intents') /\ ClaimsStand(libs')
    BY <1>1, <1>4, <1>5, <1>6, <1>7, LibraryKeeps
<1>9. QED
    BY <1>1, <1>8, Unmoved, TimeKeeps

-----------------------------------------------------------------------------

LEMMA TabActionKeeps ==
    ASSUME EntryInv, NEW t \in Tabs,
           \/ Open(t) \/ Refresh(t) \/ Ask(t) \/ Claim(t) \/ TakeSession(t)
           \/ ContinueAsGuest(t) \/ TakeEntryLock(t) \/ StartGuest(t)
           \/ Current(t) \/ Prepare(t) \/ Login(t) \/ SignOut(t) \/ CloseTab(t) \/ Work(t) \/ Validate(t) \/ Synced(t)
           \/ \E a \in Accounts : SignIn(t, a)
    PROVE  EntryInv' /\ ForGood
<1>1. CASE Open(t) BY <1>1, OpenKeeps
<1>2. CASE Refresh(t) BY <1>2, RefreshKeeps
<1>3. CASE Ask(t) BY <1>3, AskKeeps
<1>4. CASE Claim(t) BY <1>4, ClaimKeeps
<1>5. CASE TakeSession(t) BY <1>5, TakeSessionKeeps
<1>6. CASE ContinueAsGuest(t) BY <1>6, ContinueKeeps
<1>7. CASE TakeEntryLock(t) BY <1>7, LockKeeps
<1>8. CASE StartGuest(t) BY <1>8, StartGuestKeeps
<1>9. CASE Current(t) BY <1>9, CurrentKeeps
<1>10. CASE Prepare(t) BY <1>10, PrepareKeeps
<1>11. CASE Login(t) BY <1>11, LoginKeeps
<1>12. CASE SignOut(t) BY <1>12, SignOutKeeps
<1>13. CASE CloseTab(t) BY <1>13, CloseTabKeeps
<1>14. CASE Work(t) BY <1>14, WorkKeeps
<1>15. CASE Validate(t) BY <1>15, ValidateKeeps
<1>16. CASE Synced(t) BY <1>16, SyncedKeeps
<1>17. CASE \E a \in Accounts : SignIn(t, a) BY <1>17, SignInKeeps
<1>18. QED
    BY <1>1, <1>2, <1>3, <1>4, <1>5, <1>6, <1>7, <1>8, <1>9, <1>10, <1>11, <1>12, <1>13, <1>14, <1>15, <1>16, <1>17

LEMMA EntryStep == ASSUME EntryInv, [EntryNext]_entryVars PROVE EntryInv' /\ ForGood
<1>1. CASE \E t \in Tabs :
         \/ Open(t) \/ Refresh(t) \/ Ask(t) \/ Claim(t) \/ TakeSession(t)
         \/ ContinueAsGuest(t) \/ TakeEntryLock(t) \/ StartGuest(t)
         \/ Current(t) \/ Prepare(t) \/ Login(t) \/ SignOut(t) \/ CloseTab(t) \/ Work(t) \/ Validate(t) \/ Synced(t)
         \/ \E a \in Accounts : SignIn(t, a)
    BY <1>1, TabActionKeeps
<1>2. CASE \E g \in Numbers : ProofExpires(g) \/ GuestAges(g) \/ PurgeGuest(g)
    BY <1>2, ProofExpiresKeeps, GuestAgesKeeps, PurgeGuestKeeps
<1>3. CASE SessionExpires
    BY <1>3, SessionExpiresKeeps
<1>4. CASE UNCHANGED entryVars
    <2>1. UNCHANGED <<guests, libs, intents, jar, stored, marker, pending, tabs, locks, spent>>
        BY <1>4 DEF entryVars
    <2>2. QED
        BY <2>1, Unmoved, TimeKeeps
<1>5. QED
    BY <1>1, <1>2, <1>3, <1>4 DEF EntryNext

LEMMA EntryBegin == EntryInit => EntryInv
<1>1. SUFFICES ASSUME EntryInit PROVE EntryInv
    OBVIOUS
<1>2. PICK r : r = [actor |-> Nobody, user |-> Nobody, at |-> "closed", then |-> "idle", want |-> Nobody, view |-> Nobody, flight |-> Nobody]
    OBVIOUS
<1>3. r \in TabRow /\ TabGood(r, 0)
    BY <1>2 DEF TabRow, TabGood, TabSteps
<1>4. tabs = [t \in Tabs |-> r]
    BY <1>1, <1>2 DEF EntryInit
<1>5. tabs \in [Tabs -> TabRow] /\ \A t \in Tabs : TabGood(tabs[t], guests)
    BY <1>1, <1>3, <1>4 DEF EntryInit
<1>6. Served(guests, libs, intents)
    <2>1. guests = 0 /\ libs = <<>> /\ intents = {} /\ 1..0 = {}
        BY <1>1 DEF EntryInit
    <2>2. libs \in [{} -> LibRow]
        BY <2>1
    <2>3. QED
        BY <2>1, <2>2, PeopleApart DEF Served
<1>7. Browsed(guests, jar, stored, marker, pending) /\ Locked(locks) /\ Counted(spent)
    <2>1. jar = [session |-> Nobody, proof |-> Nobody] /\ stored = Nobody /\ marker = FALSE /\ pending = {}
          /\ locks = [boot |-> Nobody, entry |-> Nobody] /\ spent = [lost |-> 0, lapses |-> 0, opened |-> 0]
        BY <1>1 DEF EntryInit
    <2>2. jar \in [session : 1..guests \cup Accounts \cup {Nobody}, proof : 1..guests \cup {Nobody}]
        BY <2>1
    <2>3. locks \in [boot : Tabs \cup {Nobody}, entry : Tabs \cup {Nobody}]
        BY <2>1
    <2>4. spent \in [lost : 0..MaxLost, lapses : 0..MaxLapses, opened : Nat]
        BY <2>1, PeopleApart
    <2>5. QED
        BY <2>1, <2>2, <2>3, <2>4 DEF Browsed, Locked, Counted
<1>8. QED
    BY <1>5, <1>6, <1>7 DEF EntryInv

LEMMA EntryTyped == EntryInv => EntryTypeOK
<1>1. SUFFICES ASSUME EntryInv PROVE EntryTypeOK
    OBVIOUS
<1>2. guests \in 0..MaxGuests /\ DOMAIN libs = Guests /\ intents \subseteq Guests /\ pending \subseteq People
    BY <1>1, EntryKnown DEF People
<1>3. \A g \in Guests : libs[g] \in LibRow
    BY <1>1, EntryKnown
<1>4. jar \in [session : People \cup {Nobody}, proof : Guests \cup {Nobody}]
    BY <1>1, EntryKnown DEF People
<1>5. (stored = Nobody \/ stored \in Views) /\ marker \in BOOLEAN
    BY <1>1, EntryKnown
<1>6. ASSUME NEW t \in Tabs
      PROVE  /\ tabs[t].actor \in People \cup {Nobody} /\ tabs[t].user \in People \cup {Nobody} /\ tabs[t].at \in TabSteps
             /\ tabs[t].then \in {"idle", "boot", "entry", "guest"} /\ tabs[t].want \in Accounts \cup {Nobody}
             /\ (tabs[t].view = Nobody \/ tabs[t].view \in Views)
             /\ (tabs[t].flight = Nobody \/ tabs[t].flight \in [user : People, lib : Guests])
    <2>1. tabs[t] \in TabRow /\ TabGood(tabs[t], guests)
        BY <1>1, TabKnown
    <2>2. tabs[t].flight = Nobody \/ tabs[t].flight \in [user : People, lib : Guests]
        BY <1>1, <2>1, TabKnown, EntryKnown DEF TabGood
    <2>3. QED
        BY <2>1, <2>2 DEF TabRow
<1>7. locks \in [boot : Tabs \cup {Nobody}, entry : Tabs \cup {Nobody}]
    BY <1>1 DEF EntryInv, Locked
<1>8. spent.lost \in 0..MaxLost /\ spent.lapses \in 0..MaxLapses /\ spent.opened \in Nat
    BY <1>1 DEF EntryInv, Counted
<1>9. QED
    BY <1>2, <1>3, <1>4, <1>5, <1>6, <1>7, <1>8 DEF EntryTypeOK, LibRow

\* For any number of tabs, accounts and guests, and wherever answers are lost or pages closed: the library
\* of a guest becomes one account's and stays it, and is never purged as well (guest-claims.ts:58-121).
THEOREM LibrariesAlwaysKept == EntrySpec => LibrariesKept
<1>1. EntryInit => EntryInv
    BY EntryBegin
<1>2. EntryInv /\ [EntryNext]_entryVars => EntryInv'
    BY EntryStep
<1>3. EntryInv => EntryTypeOK
    BY EntryTyped
<1>4. EntryInv /\ [EntryNext]_entryVars =>
        [\A g \in Guests :
           /\ libs[g].claimed # Nobody => libs'[g].claimed = libs[g].claimed
           /\ libs'[g].owner = IF libs'[g].claimed = Nobody THEN g ELSE libs'[g].claimed
           /\ libs'[g].purged => libs'[g].claimed = Nobody /\ ~libs'[g].work]_entryVars
    BY EntryStep DEF ForGood
<1>5. QED
    BY <1>1, <1>2, <1>3, <1>4, PTL DEF EntrySpec, LibrariesKept, ClaimedForGood

-----------------------------------------------------------------------------
(* The backups *)

USE BackupsAssumption

ShelfRow == [archive : Archives, marker : 0..MaxMade]
BackupRow == [at : Steps, started : 0..MaxHalves, key : Keys \cup {NoKey}, bundle : Archives, old : SUBSET Keys]

\* The steps between a job's look and its marker, and those at which it has a key of its own.
Making == {"snapshot", "copy", "upload", "check", "reject", "drop", "complete"}
Working == Making \cup {"expire"}

Marked(b, k) == k \in DOMAIN b /\ b[k].marker # 0
Proven(b, k) == Marked(b, k) /\ b[k].archive.sum = b[k].marker

\* What is in the bucket restores, and is marked only when it was verified.
ShelfGood(b, time) ==
    /\ b = [k \in DOMAIN b |-> b[k]] /\ DOMAIN b \subseteq Keys
    /\ \A k \in DOMAIN b : /\ b[k] \in ShelfRow /\ 2 * k.day <= time
                           /\ b[k].archive.needs \subseteq b[k].archive.holds
                           /\ b[k].marker # 0 => b[k].archive.sum = b[k].marker

\* A job at work began less than KeepDays ago.  Until it is complete nothing is marked under its key; once
\* it is, an archive of its day stands, and it takes away only those that are too old to be anybody's.
BackupGood(j, row, b, time, n) ==
    /\ row \in BackupRow
    /\ row.at # "idle" => row.started <= time /\ time < row.started + 2 * KeepDays
    /\ row.at \in Working => /\ row.key \in Keys /\ row.key.day = DayOf(row.started) /\ row.bundle.sum \in 1..n
                             /\ row.key.by = IF j \in Forced THEN row.bundle.sum ELSE NoKey
    /\ row.at \in {"upload", "check", "reject", "drop", "complete", "expire"} => row.bundle.needs \subseteq row.bundle.holds
    /\ row.at \in Making => ~Marked(b, row.key)
    /\ row.at = "complete" => row.key \in DOMAIN b /\ b[row.key].archive.sum = row.bundle.sum
    /\ row.at \in {"expire", "unmark", "remove"} => \E k \in DOMAIN b : Proven(b, k) /\ k.day = DayOf(row.started)
    /\ row.at \in {"unmark", "remove"} => \A k \in row.old : Expired(k, row.started)
    /\ row.at = "remove" => row.key \in Keys /\ Expired(row.key, row.started)

BackupsInv ==
    /\ clock \in 0..MaxHalves /\ made \in 0..MaxMade /\ faults \in 0..MaxBackupFaults
    /\ rows \subseteq Assets /\ objects \subseteq Assets
    /\ jobs \in [BackupJobs -> BackupRow] /\ ShelfGood(bucket, clock)
    /\ \A j \in BackupJobs : BackupGood(j, jobs[j], bucket, clock, made)
    /\ \A i, j \in BackupJobs : i # j /\ {i, j} \subseteq Daily => jobs[i].at = "idle" \/ jobs[j].at = "idle"
    /\ \A i, j \in BackupJobs : i # j /\ {jobs[i].at, jobs[j].at} \subseteq Working => jobs[i].bundle.sum # jobs[j].bundle.sum

\* A bucket that differs from b at the key c at most.
ButFor(c, b, b2) ==
    /\ DOMAIN b \ {c} = DOMAIN b2 \ {c}
    /\ \A k \in DOMAIN b \ {c} : b2[k] = b[k]

\* The keys a job may change: its own while it makes an archive, and those it expires.
MayChange(j, c) ==
    \/ jobs[j].at \in Making /\ c = jobs[j].key
    \/ jobs[j].at \in {"unmark", "remove"} /\ c \in Keys /\ Expired(c, jobs[j].started)

\* What no step of a job undoes.
Kept ==
    /\ (\E k \in DOMAIN bucket : Good(k)) => \E k \in DOMAIN bucket' : Good(k)'
    /\ \A k \in DOMAIN bucket : Good(k) /\ k.day > DayOf(clock) - KeepDays => k \in DOMAIN bucket' /\ Good(k)'

LEMMA DaysRound ==
    ASSUME NEW h \in Nat
    PROVE  DayOf(h) \in Nat /\ 2 * DayOf(h) <= h /\ h <= 2 * DayOf(h) + 1
BY SMT DEF DayOf

LEMMA BackupBounds == MaxHalves \in Nat /\ MaxMade \in Nat /\ MaxBackupFaults \in Nat /\ KeepDays \in Nat /\ KeepDays >= 1
OBVIOUS

\* A key too old for one job at work is of no day on which another began.
LEMMA TooOldForAll ==
    ASSUME NEW s \in 0..MaxHalves, NEW t \in 0..MaxHalves, NEW time \in Nat, NEW c \in Keys,
           time < s + 2 * KeepDays, t <= time, Expired(c, t)
    PROVE  c.day # DayOf(s) /\ ~ (c.day > DayOf(time) - KeepDays)
<1>0. s \in Nat /\ t \in Nat
    BY BackupBounds
<1>1. DayOf(s) \in Nat /\ s <= 2 * DayOf(s) + 1 /\ DayOf(time) \in Nat /\ time <= 2 * DayOf(time) + 1
    BY <1>0, DaysRound
<1>2. c.day \in Nat /\ 2 * c.day < t - 2 * KeepDays
    BY BackupBounds DEF Keys, Expired
<1>3. QED
    BY <1>0, <1>1, <1>2, BackupBounds, SMT

\* Two jobs at work have keys of their own: the hourly ones by turns, the others by number.
LEMMA KeysApart ==
    ASSUME BackupsInv, NEW i \in BackupJobs, NEW j \in BackupJobs, i # j,
           jobs[i].at \in Working, jobs[j].at \in Working
    PROVE  jobs[i].key # jobs[j].key
<1>1. jobs[i].key.by = (IF i \in Forced THEN jobs[i].bundle.sum ELSE NoKey) /\ jobs[i].bundle.sum \in 1..made
    BY DEF BackupsInv, BackupGood
<1>2. jobs[j].key.by = (IF j \in Forced THEN jobs[j].bundle.sum ELSE NoKey) /\ jobs[j].bundle.sum \in 1..made
    BY DEF BackupsInv, BackupGood
<1>3. jobs[i].bundle.sum # jobs[j].bundle.sum
    BY DEF BackupsInv
<1>4. NoKey \notin 1..made
    BY DEF BackupsInv
<1>5. CASE i \in Forced \/ j \in Forced
    BY <1>1, <1>2, <1>3, <1>4, <1>5
<1>6. CASE i \notin Forced /\ j \notin Forced
    <2>1. {i, j} \subseteq Daily
        BY <1>6 DEF BackupJobs
    <2>2. jobs[i].at = "idle" \/ jobs[j].at = "idle"
        BY <2>1 DEF BackupsInv
    <2>3. QED
        BY <2>2 DEF Working, Making
<1>7. QED
    BY <1>5, <1>6

\* What a job may change is not what another one at work relies on.
LEMMA NobodyElses ==
    ASSUME BackupsInv, NEW i \in BackupJobs, NEW j \in BackupJobs, NEW c, MayChange(j, c)
    PROVE  /\ i # j /\ jobs[i].at \in Working => jobs[i].key # c
           /\ jobs[i].at # "idle" => \A k \in DOMAIN bucket : Proven(bucket, k) /\ k.day = DayOf(jobs[i].started) => k # c
<1>1. CASE jobs[j].at \in Making /\ c = jobs[j].key
    <2>1. ~ Marked(bucket, c)
        BY <1>1 DEF BackupsInv, BackupGood
    <2>2. QED
        BY <2>1, <1>1, KeysApart DEF Working, Proven
<1>2. CASE jobs[j].at \in {"unmark", "remove"} /\ c \in Keys /\ Expired(c, jobs[j].started)
    <2>1. jobs[j].started \in 0..MaxHalves /\ jobs[j].started <= clock
        BY <1>2 DEF BackupsInv, BackupGood, BackupRow
    <2>2. ASSUME jobs[i].at # "idle"
          PROVE  c.day # DayOf(jobs[i].started)
        <3>1. jobs[i].started \in 0..MaxHalves /\ clock < jobs[i].started + 2 * KeepDays /\ clock \in Nat
            BY <2>2 DEF BackupsInv, BackupGood, BackupRow
        <3>2. QED
            BY <2>1, <3>1, <1>2, TooOldForAll
    <2>3. jobs[i].at \in Working => jobs[i].at # "idle" /\ jobs[i].key.day = DayOf(jobs[i].started)
        BY DEF Working, Making, BackupsInv, BackupGood
    <2>4. QED
        BY <2>2, <2>3
<1>3. QED
    BY <1>1, <1>2 DEF MayChange

\* The jobs beside the one that moves are none the worse for it.
LEMMA OthersUnharmed ==
    ASSUME BackupsInv, NEW i \in BackupJobs, NEW j \in BackupJobs, i # j,
           NEW b, NEW n \in Nat, made <= n,
           b = bucket \/ \E c : MayChange(j, c) /\ ButFor(c, bucket, b)
    PROVE  BackupGood(i, jobs[i], b, clock, n)
<1>1. BackupGood(i, jobs[i], bucket, clock, made) /\ made \in Nat
    BY DEF BackupsInv
<1>2. CASE b = bucket
    BY <1>1, <1>2 DEF BackupGood
<1>3. CASE \E c : MayChange(j, c) /\ ButFor(c, bucket, b)
    <2>1. PICK c : MayChange(j, c) /\ ButFor(c, bucket, b)
        BY <1>3
    <2>2. jobs[i].at \in Working => jobs[i].key # c
        BY <2>1, NobodyElses
    <2>3. jobs[i].at \in Making => ~ Marked(b, jobs[i].key)
        BY <1>1, <2>1, <2>2 DEF BackupGood, ButFor, Marked, Working
    <2>4. jobs[i].at = "complete" => jobs[i].key \in DOMAIN b /\ b[jobs[i].key].archive.sum = jobs[i].bundle.sum
        BY <1>1, <2>1, <2>2 DEF BackupGood, ButFor, Working, Making
    <2>5. ASSUME jobs[i].at \in {"expire", "unmark", "remove"}
          PROVE  \E k \in DOMAIN b : Proven(b, k) /\ k.day = DayOf(jobs[i].started)
        <3>1. PICK k \in DOMAIN bucket : Proven(bucket, k) /\ k.day = DayOf(jobs[i].started)
            BY <1>1, <2>5 DEF BackupGood
        <3>2. k # c
            BY <3>1, <2>1, <2>5, NobodyElses
        <3>3. k \in DOMAIN b /\ b[k] = bucket[k]
            BY <3>1, <3>2, <2>1 DEF ButFor
        <3>4. QED
            BY <3>1, <3>3 DEF Proven, Marked
    <2>6. jobs[i].at \in Working => jobs[i].bundle.sum \in 1..n
        BY <1>1 DEF BackupGood
    <2>7. QED
        BY <1>1, <2>3, <2>4, <2>5, <2>6 DEF BackupGood
<1>4. QED
    BY <1>2, <1>3

\* A job that changes only what it may loses neither the last verified archive nor a recent one.
LEMMA ChangesKeep ==
    ASSUME BackupsInv, NEW j \in BackupJobs, clock' = clock,
           bucket' = bucket \/ \E c : MayChange(j, c) /\ ButFor(c, bucket, bucket')
    PROVE  Kept
<1>1. CASE bucket' = bucket
    BY <1>1 DEF Kept, Good, Verified
<1>2. CASE \E c : MayChange(j, c) /\ ButFor(c, bucket, bucket')
    <2>1. PICK c : MayChange(j, c) /\ ButFor(c, bucket, bucket')
        BY <1>2
    <2>2. ASSUME NEW k \in DOMAIN bucket, Good(k), k # c
          PROVE  k \in DOMAIN bucket' /\ Good(k)'
        <3>1. k \in DOMAIN bucket' /\ bucket'[k] = bucket[k]
            BY <2>1, <2>2 DEF ButFor
        <3>2. QED
            BY <3>1, <2>2 DEF Good, Verified
    <2>3. CASE jobs[j].at \in Making /\ c = jobs[j].key
        <3>1. ~ Good(c)
            BY <2>3 DEF BackupsInv, BackupGood, Marked, Good, Verified
        <3>2. QED
            BY <3>1, <2>2 DEF Kept
    <2>4. CASE jobs[j].at \in {"unmark", "remove"} /\ c \in Keys /\ Expired(c, jobs[j].started)
        <3>1. jobs[j].started \in 0..MaxHalves /\ jobs[j].started <= clock /\ clock < jobs[j].started + 2 * KeepDays /\ clock \in Nat
            BY <2>4 DEF BackupsInv, BackupGood, BackupRow
        <3>2. ~ (c.day > DayOf(clock) - KeepDays)
            BY <3>1, <2>4, TooOldForAll
        <3>3. PICK k \in DOMAIN bucket : Proven(bucket, k) /\ k.day = DayOf(jobs[j].started)
            BY <2>4 DEF BackupsInv, BackupGood
        <3>4. k # c
            BY <3>3, <2>1, <2>4, NobodyElses
        <3>5. Good(k)
            BY <3>3 DEF Proven, Marked, Good, Verified
        <3>6. k \in DOMAIN bucket' /\ Good(k)'
            BY <3>4, <3>5, <2>2
        <3>7. QED
            BY <3>2, <3>6, <2>2 DEF Kept
    <2>5. QED
        BY <2>1, <2>3, <2>4 DEF MayChange
<1>3. QED
    BY <1>1, <1>2

\* What a step of one job must establish: the rest of the invariant follows.
JobStep(j, r) ==
    /\ jobs' = [jobs EXCEPT ![j] = r]
    /\ UNCHANGED World
    /\ faults' \in 0..MaxBackupFaults /\ made' \in 0..MaxMade /\ made <= made'
    /\ ShelfGood(bucket', clock)
    /\ BackupGood(j, r, bucket', clock, made')
    /\ bucket' = bucket \/ \E c : MayChange(j, c) /\ ButFor(c, bucket, bucket')
    /\ r.at # "idle" => jobs[j].at # "idle" \/ (j \in Daily => \A i \in Daily : jobs[i].at = "idle")
    /\ r.at \in Working => \/ jobs[j].at \in Working /\ r.bundle.sum = jobs[j].bundle.sum
                           \/ r.bundle.sum = made + 1

LEMMA JobStepKeeps ==
    ASSUME BackupsInv, NEW j \in BackupJobs, NEW r, JobStep(j, r)
    PROVE  BackupsInv' /\ Kept
<1>1. jobs' = [jobs EXCEPT ![j] = r] /\ jobs \in [BackupJobs -> BackupRow] /\ r \in BackupRow
    BY DEF BackupsInv, BackupGood, JobStep
<1>2. jobs'[j] = r /\ \A i \in BackupJobs : i # j => jobs'[i] = jobs[i]
    BY <1>1
<1>3. jobs' \in [BackupJobs -> BackupRow]
    BY <1>1
<1>4. clock' = clock /\ rows' = rows /\ objects' = objects
    BY DEF JobStep, World
<1>5. made' \in Nat /\ made <= made' /\ (bucket' = bucket \/ \E c : MayChange(j, c) /\ ButFor(c, bucket, bucket'))
    BY DEF JobStep
<1>6. ASSUME NEW i \in BackupJobs
      PROVE  BackupGood(i, jobs'[i], bucket', clock', made')
    <2>1. CASE i = j
        BY <1>2, <1>4, <2>1 DEF JobStep
    <2>2. CASE i # j
        <3>1. BackupGood(i, jobs[i], bucket', clock, made')
            BY <1>5, <2>2, OthersUnharmed
        <3>2. QED
            BY <3>1, <1>2, <1>4, <2>2
    <2>3. QED
        BY <2>1, <2>2
<1>7. ASSUME NEW i \in BackupJobs, NEW k \in BackupJobs, i # k, {i, k} \subseteq Daily
      PROVE  jobs'[i].at = "idle" \/ jobs'[k].at = "idle"
    <2>1. jobs[i].at = "idle" \/ jobs[k].at = "idle"
        BY <1>7 DEF BackupsInv
    <2>2. r.at # "idle" => jobs[j].at # "idle" \/ (j \in Daily => \A n \in Daily : jobs[n].at = "idle")
        BY DEF JobStep
    <2>3. QED
        BY <1>2, <1>7, <2>1, <2>2
<1>8. ASSUME NEW i \in BackupJobs, NEW k \in BackupJobs, i # k, {jobs'[i].at, jobs'[k].at} \subseteq Working
      PROVE  jobs'[i].bundle.sum # jobs'[k].bundle.sum
    <2>1. ASSUME NEW n \in BackupJobs, n # j, r.at \in Working, jobs[n].at \in Working
          PROVE  jobs[n].bundle.sum # r.bundle.sum
        <3>1. jobs[n].bundle.sum \in 1..made /\ made \in Nat
            BY <2>1 DEF BackupsInv, BackupGood
        <3>2. jobs[j].at \in Working => jobs[n].bundle.sum # jobs[j].bundle.sum
            BY <2>1 DEF BackupsInv
        <3>3. (jobs[j].at \in Working /\ r.bundle.sum = jobs[j].bundle.sum) \/ r.bundle.sum = made + 1
            BY <2>1 DEF JobStep
        <3>4. QED
            BY <3>1, <3>2, <3>3
    <2>2. CASE i = j
        BY <1>2, <1>8, <2>1, <2>2
    <2>3. CASE k = j
        BY <1>2, <1>8, <2>1, <2>3
    <2>4. CASE i # j /\ k # j
        BY <1>2, <1>8, <2>4 DEF BackupsInv
    <2>5. QED
        BY <2>2, <2>3, <2>4
<1>9. ShelfGood(bucket', clock')
    BY <1>4 DEF JobStep
<1>10. clock' \in 0..MaxHalves /\ made' \in 0..MaxMade /\ faults' \in 0..MaxBackupFaults /\ rows' \subseteq Assets /\ objects' \subseteq Assets
    BY <1>4 DEF JobStep, BackupsInv
<1>11. BackupsInv'
    BY <1>3, <1>6, <1>7, <1>8, <1>9, <1>10 DEF BackupsInv, ShelfGood, BackupGood, Marked, Proven
<1>12. Kept
    BY <1>4, <1>5, ChangesKeep
<1>13. QED
    BY <1>11, <1>12

\* The three ways a job changes the bucket.
LEMMA UnmarkedShelf ==
    ASSUME BackupsInv, NEW c
    PROVE  /\ ShelfGood(Unmarked(c), clock)
           /\ ButFor(c, bucket, Unmarked(c))
           /\ ~ Marked(Unmarked(c), c)
<1>1. CASE c \notin DOMAIN bucket
    BY <1>1 DEF Unmarked, ButFor, Marked, BackupsInv
<1>2. CASE c \in DOMAIN bucket
    <2>1. PICK b : b = Unmarked(c)
        OBVIOUS
    <2>2. bucket = [k \in DOMAIN bucket |-> bucket[k]] /\ bucket[c] \in ShelfRow
        BY <1>2 DEF BackupsInv, ShelfGood
    <2>3. b = [bucket EXCEPT ![c] = [bucket[c] EXCEPT !.marker = 0]]
        BY <1>2, <2>1, <2>2 DEF Unmarked
    <2>4. b = [k \in DOMAIN bucket |-> IF k = c THEN [bucket[c] EXCEPT !.marker = 0] ELSE bucket[k]]
        BY <2>2, <2>3
    <2>5. PICK row : row = [bucket[c] EXCEPT !.marker = 0]
        OBVIOUS
    <2>6. row \in ShelfRow /\ row.archive = bucket[c].archive /\ row.marker = 0
        BY <2>2, <2>5, BackupBounds DEF ShelfRow
    <2>7. DOMAIN b = DOMAIN bucket /\ b[c] = row /\ \A k \in DOMAIN bucket : k # c => b[k] = bucket[k]
        BY <1>2, <2>4, <2>5
    <2>8. b = [k \in DOMAIN b |-> b[k]]
        BY <2>4
    <2>9. ShelfGood(b, clock)
        BY <2>6, <2>7, <2>8 DEF BackupsInv, ShelfGood
    <2>10. QED
        BY <2>1, <2>6, <2>7, <2>9 DEF ButFor, Marked
<1>3. QED
    BY <1>1, <1>2

LEMMA RemovedShelf ==
    ASSUME BackupsInv, NEW c
    PROVE  ShelfGood(Removed(c), clock) /\ ButFor(c, bucket, Removed(c))
<1>1. PICK b : b = Removed(c)
    OBVIOUS
<1>2. b = [x \in DOMAIN bucket \ {c} |-> bucket[x]]
    BY <1>1 DEF Removed
<1>3. DOMAIN b = DOMAIN bucket \ {c} /\ \A k \in DOMAIN b : b[k] = bucket[k]
    BY <1>2
<1>4. b = [k \in DOMAIN b |-> b[k]]
    BY <1>2
<1>5. ShelfGood(b, clock)
    BY <1>3, <1>4 DEF BackupsInv, ShelfGood
<1>6. QED
    BY <1>1, <1>3, <1>5 DEF ButFor

LEMMA PutShelf ==
    ASSUME BackupsInv, NEW c \in Keys, NEW archive \in Archives,
           2 * c.day <= clock, archive.needs \subseteq archive.holds, ~ Marked(bucket, c), Put(c, archive)
    PROVE  ShelfGood(bucket', clock) /\ ButFor(c, bucket, bucket') /\ ~ Marked(bucket', c)
<1>1. bucket' = [x \in DOMAIN bucket \cup {c} |->
                   IF x # c THEN bucket[x]
                   ELSE [archive |-> archive, marker |-> IF c \in DOMAIN bucket THEN bucket[c].marker ELSE 0]]
    BY DEF Put
<1>2. PICK row : row = [archive |-> archive, marker |-> IF c \in DOMAIN bucket THEN bucket[c].marker ELSE 0]
    OBVIOUS
<1>3. row.marker = 0 /\ row.archive = archive
    BY <1>2 DEF Marked
<1>4. row \in ShelfRow
    BY <1>2, <1>3, BackupBounds DEF ShelfRow
<1>5. DOMAIN bucket' = DOMAIN bucket \cup {c} /\ bucket'[c] = row /\ \A k \in DOMAIN bucket : k # c => bucket'[k] = bucket[k]
    BY <1>1, <1>2
<1>6. bucket' = [k \in DOMAIN bucket' |-> bucket'[k]]
    BY <1>1
<1>7. ShelfGood(bucket', clock)
    BY <1>3, <1>4, <1>5, <1>6 DEF BackupsInv, ShelfGood
<1>8. QED
    BY <1>3, <1>5, <1>7 DEF ButFor, Marked

LEMMA RestGood ==
    ASSUME NEW j, NEW b, NEW time, NEW n
    PROVE  BackupGood(j, Rest, b, time, n) /\ Rest.at = "idle"
<1>1. NoArchive \in Archives
    BY BackupBounds DEF NoArchive, Archives
<1>2. Rest \in BackupRow
    BY <1>1, BackupBounds DEF Rest, BackupRow, Steps
<1>3. Rest.at = "idle"
    BY DEF Rest
<1>4. QED
    BY <1>2, <1>3 DEF BackupGood, Making, Working

LEMMA RowTyped ==
    ASSUME BackupsInv, NEW j \in BackupJobs
    PROVE  /\ jobs[j] \in BackupRow /\ BackupGood(j, jobs[j], bucket, clock, made)
           /\ ShelfGood(bucket, clock) /\ clock \in Nat /\ clock \in 0..MaxHalves /\ made \in 0..MaxMade /\ made \in Nat
           /\ faults \in 0..MaxBackupFaults
BY BackupBounds DEF BackupsInv

\* A job that rests is in nobody's way, whatever became of the bucket.
LEMMA RestingKeeps ==
    ASSUME BackupsInv, NEW j \in BackupJobs, Set(j, Rest), UNCHANGED <<World, made>>,
           faults' \in 0..MaxBackupFaults, ShelfGood(bucket', clock),
           bucket' = bucket \/ \E c : MayChange(j, c) /\ ButFor(c, bucket, bucket')
    PROVE  BackupsInv' /\ Kept
<1>1. BackupGood(j, Rest, bucket', clock, made') /\ Rest.at = "idle"
    BY RestGood
<1>2. made' \in 0..MaxMade /\ made <= made' /\ UNCHANGED World
    BY RowTyped
<1>3. JobStep(j, Rest)
    BY <1>1, <1>2 DEF JobStep, Set, Working, Making
<1>4. QED
    BY <1>3, JobStepKeeps

\* A job at work that goes on with the same bundle under the same key.
LEMMA GoingKeeps ==
    ASSUME BackupsInv, NEW j \in BackupJobs, NEW r, Set(j, r), jobs[j].at # "idle", UNCHANGED <<World, made>>,
           faults' \in 0..MaxBackupFaults, ShelfGood(bucket', clock), BackupGood(j, r, bucket', clock, made),
           bucket' = bucket \/ \E c : MayChange(j, c) /\ ButFor(c, bucket, bucket'),
           r.at \in Working => jobs[j].at \in Working /\ r.bundle.sum = jobs[j].bundle.sum
    PROVE  BackupsInv' /\ Kept
<1>1. made' = made /\ made' \in 0..MaxMade /\ made <= made' /\ UNCHANGED World
    BY RowTyped
<1>2. BackupGood(j, r, bucket', clock, made')
    BY <1>1
<1>3. JobStep(j, r)
    BY <1>1, <1>2 DEF JobStep, Set
<1>4. QED
    BY <1>3, JobStepKeeps

LEMMA StartKeeps == ASSUME BackupsInv, NEW j \in BackupJobs, Start(j) PROVE BackupsInv' /\ Kept
<1>1. PICK r : r = [Rest EXCEPT !.at = "look", !.started = clock]
    OBVIOUS
<1>2. Rest \in BackupRow
    BY RestGood DEF BackupGood
<1>3. r \in BackupRow /\ r.at = "look" /\ r.started = clock
    BY <1>1, <1>2, RowTyped DEF BackupRow, Steps, Rest
<1>4. BackupGood(j, r, bucket, clock, made)
    BY <1>3, RowTyped DEF BackupGood, Working, Making
<1>5. jobs' = [jobs EXCEPT ![j] = r] /\ UNCHANGED <<World, bucket, made, faults>>
    BY <1>1 DEF Start, Set
<1>6. j \in Daily => \A i \in Daily : jobs[i].at = "idle"
    BY DEF Start
<1>7. made \in Nat /\ made' \in 0..MaxMade /\ faults' \in 0..MaxBackupFaults /\ ShelfGood(bucket', clock)
    BY <1>5, RowTyped
<1>8. JobStep(j, r)
    BY <1>3, <1>4, <1>5, <1>6, <1>7 DEF JobStep, Working, Making
<1>9. QED
    BY <1>8, JobStepKeeps

LEMMA LookKeeps == ASSUME BackupsInv, NEW j \in BackupJobs, Look(j) PROVE BackupsInv' /\ Kept
<1>1. PICK k : k = [day |-> DayOf(jobs[j].started), by |-> IF j \in Forced THEN made + 1 ELSE NoKey]
    OBVIOUS
<1>2. jobs[j].at = "look" /\ made < MaxMade /\ UNCHANGED <<World, bucket, faults>>
    BY DEF Look
<1>3. IF Verified(k) THEN Set(j, Rest) /\ UNCHANGED made
      ELSE Set(j, [jobs[j] EXCEPT !.at = "snapshot", !.key = k, !.bundle.sum = made + 1]) /\ made' = made + 1
    BY <1>1 DEF Look
<1>4. faults' \in 0..MaxBackupFaults /\ ShelfGood(bucket', clock)
    BY <1>2, RowTyped
<1>5. CASE Verified(k)
    BY <1>2, <1>3, <1>4, <1>5, RestingKeeps
<1>6. CASE ~ Verified(k)
    <2>1. jobs[j].started \in Nat /\ jobs[j].started <= MaxHalves /\ made + 1 \in 1..MaxMade
        BY <1>2, RowTyped, BackupBounds DEF BackupRow
    <2>2. DayOf(jobs[j].started) \in 0..MaxHalves
        <3>1. jobs[j].started \in Nat
            BY <2>1
        <3>2. DayOf(jobs[j].started) \in Nat /\ 2 * DayOf(jobs[j].started) <= jobs[j].started
            BY <3>1, DaysRound
        <3>3. QED
            BY <2>1, <3>2, BackupBounds
    <2>3. k \in Keys /\ k.day = DayOf(jobs[j].started) /\ k.by = IF j \in Forced THEN made + 1 ELSE NoKey
        BY <1>1, <2>1, <2>2 DEF Keys
    <2>4. PICK bundle : bundle = [jobs[j].bundle EXCEPT !.sum = made + 1]
        OBVIOUS
    <2>5. bundle \in Archives /\ bundle.sum = made + 1
        BY <2>1, <2>4, RowTyped DEF BackupRow, Archives
    <2>6. PICK r : r = [jobs[j] EXCEPT !.at = "snapshot", !.key = k, !.bundle = bundle]
        OBVIOUS
    <2>7. jobs' = [jobs EXCEPT ![j] = r] /\ made' = made + 1
        BY <1>3, <1>6, <2>4, <2>6, RowTyped DEF Set, BackupRow
    <2>8. r \in BackupRow /\ r.at = "snapshot" /\ r.key = k /\ r.bundle = bundle /\ r.started = jobs[j].started
        BY <2>3, <2>5, <2>6, RowTyped DEF BackupRow, Steps
    <2>9. ~ Marked(bucket, k)
        BY <1>6 DEF Marked, Verified
    <2>10. jobs[j].started <= clock /\ clock < jobs[j].started + 2 * KeepDays
        BY <1>2, RowTyped DEF BackupGood
    <2>11. r.bundle.sum \in 1..made + 1
        BY <2>5, <2>8, RowTyped
    <2>12. BackupGood(j, r, bucket', clock, made')
        BY <1>2, <2>3, <2>5, <2>7, <2>8, <2>9, <2>10, <2>11 DEF BackupGood, Working, Making
    <2>13. made' \in 0..MaxMade /\ made <= made'
        BY <2>1, <2>7, RowTyped
    <2>14. JobStep(j, r)
        BY <1>2, <1>4, <2>5, <2>7, <2>8, <2>12, <2>13 DEF JobStep
    <2>15. QED
        BY <2>14, JobStepKeeps
<1>7. QED
    BY <1>5, <1>6

LEMMA SnapshotKeeps == ASSUME BackupsInv, NEW j \in BackupJobs, Snapshot(j) PROVE BackupsInv' /\ Kept
<1>1. jobs[j].at = "snapshot" /\ UNCHANGED <<World, bucket, made, faults>>
    BY DEF Snapshot
<1>2. PICK bundle : bundle = [jobs[j].bundle EXCEPT !.needs = rows, !.made = clock]
    OBVIOUS
<1>3. rows \in SUBSET Assets
    BY DEF BackupsInv
<1>4. bundle \in Archives /\ bundle.sum = jobs[j].bundle.sum
    BY <1>2, <1>3, RowTyped DEF BackupRow, Archives
<1>5. PICK r : r = [jobs[j] EXCEPT !.at = "copy", !.bundle = bundle]
    OBVIOUS
<1>6. jobs' = [jobs EXCEPT ![j] = r]
    <2>1. PICK d : d = [jobs[j] EXCEPT !.at = "copy", !.bundle.needs = rows]
        OBVIOUS
    <2>2. r = [jobs[j] EXCEPT !.at = "copy", !.bundle.needs = rows, !.bundle.made = clock]
        BY <1>2, <1>5, <2>1, RowTyped DEF BackupRow
    <2>3. QED
        BY <2>2 DEF Snapshot, Set
<1>7. r \in BackupRow /\ r.at = "copy" /\ r.key = jobs[j].key /\ r.bundle = bundle /\ r.started = jobs[j].started
    BY <1>4, <1>5, RowTyped DEF BackupRow, Steps
<1>8. BackupGood(j, r, bucket', clock, made)
    BY <1>1, <1>4, <1>7, RowTyped DEF BackupGood, Working, Making
<1>9. faults' \in 0..MaxBackupFaults /\ ShelfGood(bucket', clock)
    BY <1>1, RowTyped
<1>10. jobs[j].at \in Working /\ Set(j, r)
    BY <1>1, <1>6 DEF Working, Making, Set
<1>11. QED
    BY <1>1, <1>4, <1>7, <1>8, <1>9, <1>10, GoingKeeps

\* A step whose row differs in nothing but where the job is.
LEMMA GoneTo ==
    ASSUME BackupsInv, NEW j \in BackupJobs, NEW step \in Steps, NEW r, r = [jobs[j] EXCEPT !.at = step]
    PROVE  r \in BackupRow /\ r.at = step /\ r.key = jobs[j].key /\ r.bundle = jobs[j].bundle /\ r.started = jobs[j].started /\ r.old = jobs[j].old
BY RowTyped DEF BackupRow

LEMMA CopyKeeps == ASSUME BackupsInv, NEW j \in BackupJobs, Copy(j) PROVE BackupsInv' /\ Kept
<1>1. jobs[j].at = "copy" /\ UNCHANGED <<World, bucket, made, faults>>
    BY DEF Copy
<1>2. faults' \in 0..MaxBackupFaults /\ ShelfGood(bucket', clock) /\ jobs[j].at \in Working
    BY <1>1, RowTyped DEF Working, Making
<1>3. CASE Copied(j)
    <2>1. PICK r : r = [jobs[j] EXCEPT !.at = "upload"]
        OBVIOUS
    <2>2. Set(j, r)
        BY <1>3, <2>1 DEF Copy, Go
    <2>3. r \in BackupRow /\ r.at = "upload" /\ r.key = jobs[j].key /\ r.bundle = jobs[j].bundle /\ r.started = jobs[j].started
        BY <2>1, GoneTo DEF Steps
    <2>4. BackupGood(j, r, bucket', clock, made)
        BY <1>1, <1>3, <2>3, RowTyped DEF BackupGood, Working, Making, Copied
    <2>5. QED
        BY <1>1, <1>2, <2>2, <2>3, <2>4, GoingKeeps
<1>4. CASE ~ Copied(j)
    <2>1. PICK a \in jobs[j].bundle.needs \ jobs[j].bundle.holds :
            IF a \in objects THEN Set(j, [jobs[j] EXCEPT !.bundle.holds = @ \cup {a}]) ELSE Set(j, Rest)
        BY <1>4 DEF Copy
    <2>2. CASE a \notin objects
        BY <1>1, <1>2, <2>1, <2>2, RestingKeeps
    <2>3. CASE a \in objects
        <3>1. PICK bundle : bundle = [jobs[j].bundle EXCEPT !.holds = jobs[j].bundle.holds \cup {a}]
            OBVIOUS
        <3>2. bundle \in Archives /\ bundle.sum = jobs[j].bundle.sum
            BY <2>1, <3>1, RowTyped DEF BackupRow, Archives
        <3>3. PICK r : r = [jobs[j] EXCEPT !.bundle = bundle]
            OBVIOUS
        <3>4. Set(j, r)
            BY <2>1, <2>3, <3>1, <3>3, RowTyped DEF Set, BackupRow
        <3>5. r \in BackupRow /\ r.at = "copy" /\ r.key = jobs[j].key /\ r.bundle = bundle /\ r.started = jobs[j].started
            BY <1>1, <3>2, <3>3, RowTyped DEF BackupRow
        <3>6. BackupGood(j, r, bucket', clock, made)
            BY <1>1, <3>2, <3>5, RowTyped DEF BackupGood, Working, Making
        <3>7. QED
            BY <1>1, <1>2, <3>2, <3>4, <3>5, <3>6, GoingKeeps
    <2>4. QED
        BY <2>2, <2>3
<1>5. QED
    BY <1>3, <1>4

\* The key of a job at work began no later than now.
LEMMA WorkingKey ==
    ASSUME BackupsInv, NEW j \in BackupJobs, jobs[j].at \in Making
    PROVE  /\ jobs[j].key \in Keys /\ 2 * jobs[j].key.day <= clock /\ ~ Marked(bucket, jobs[j].key)
           /\ MayChange(j, jobs[j].key) /\ jobs[j].at \in Working /\ jobs[j].at # "idle"
<1>1. jobs[j].at \in Working /\ jobs[j].at # "idle"
    BY DEF Working, Making
<1>2. jobs[j].key \in Keys /\ jobs[j].key.day = DayOf(jobs[j].started) /\ ~ Marked(bucket, jobs[j].key)
      /\ jobs[j].started <= clock /\ jobs[j].started \in 0..MaxHalves /\ clock \in Nat
    BY <1>1, RowTyped DEF BackupGood, BackupRow
<1>3. jobs[j].started \in Nat
    BY <1>2, BackupBounds
<1>4. DayOf(jobs[j].started) \in Nat /\ 2 * DayOf(jobs[j].started) <= jobs[j].started
    BY <1>3, DaysRound
<1>5. 2 * jobs[j].key.day <= clock
    BY <1>2, <1>3, <1>4
<1>6. QED
    BY <1>1, <1>2, <1>5 DEF MayChange

LEMMA UploadKeeps == ASSUME BackupsInv, NEW j \in BackupJobs, Upload(j) PROVE BackupsInv' /\ Kept
<1>1. jobs[j].at = "upload" /\ UNCHANGED <<World, made>> /\ jobs[j].at \in Making
    BY DEF Upload, Making
<1>2. PICK r : r = [jobs[j] EXCEPT !.at = "check"]
    OBVIOUS
<1>3. PICK archive : archive \in {jobs[j].bundle, [jobs[j].bundle EXCEPT !.sum = 0]} /\ Put(jobs[j].key, archive)
    BY DEF Upload
<1>4. Set(j, r) /\ faults' \in {faults, faults + 1} /\ (faults' = faults \/ faults < MaxBackupFaults)
    BY <1>2 DEF Upload, Go, BackupFault
<1>5. archive \in Archives /\ archive.needs \subseteq archive.holds
    <2>1. jobs[j].bundle \in Archives /\ jobs[j].bundle.needs \subseteq jobs[j].bundle.holds
        BY <1>1, RowTyped DEF BackupGood, BackupRow
    <2>2. QED
        BY <1>3, <2>1, BackupBounds DEF Archives
<1>6. ShelfGood(bucket', clock) /\ ButFor(jobs[j].key, bucket, bucket') /\ ~ Marked(bucket', jobs[j].key)
    BY <1>1, <1>3, <1>5, WorkingKey, PutShelf
<1>7. r \in BackupRow /\ r.at = "check" /\ r.key = jobs[j].key /\ r.bundle = jobs[j].bundle /\ r.started = jobs[j].started
    BY <1>2, GoneTo DEF Steps
<1>8. BackupGood(j, r, bucket', clock, made)
    BY <1>1, <1>6, <1>7, RowTyped DEF BackupGood, Working, Making
<1>9. faults' \in 0..MaxBackupFaults
    BY <1>4, RowTyped, BackupBounds
<1>10. \E c : MayChange(j, c) /\ ButFor(c, bucket, bucket')
    BY <1>1, <1>6, WorkingKey
<1>11. QED
    BY <1>1, <1>4, <1>6, <1>7, <1>8, <1>9, <1>10, WorkingKey, GoingKeeps

LEMMA CheckKeeps == ASSUME BackupsInv, NEW j \in BackupJobs, Check(j) PROVE BackupsInv' /\ Kept
<1>1. jobs[j].at = "check" /\ UNCHANGED <<World, bucket, made, faults>> /\ jobs[j].at \in Making
    BY DEF Check, Making
<1>2. faults' \in 0..MaxBackupFaults /\ ShelfGood(bucket', clock)
    BY <1>1, RowTyped
<1>3. CASE jobs[j].key \notin DOMAIN bucket
    BY <1>1, <1>2, <1>3, RestingKeeps DEF Check
<1>4. CASE jobs[j].key \in DOMAIN bucket
    <2>1. PICK step : step = IF ReadsBack(j) THEN "complete" ELSE "reject"
        OBVIOUS
    <2>2. PICK r : r = [jobs[j] EXCEPT !.at = step]
        OBVIOUS
    <2>3. Set(j, r)
        BY <1>4, <2>1, <2>2 DEF Check, Go
    <2>4. r \in BackupRow /\ r.at = step /\ r.key = jobs[j].key /\ r.bundle = jobs[j].bundle /\ r.started = jobs[j].started
        BY <2>1, <2>2, GoneTo DEF Steps
    <2>5. step = "reject" \/ (step = "complete" /\ bucket[jobs[j].key].archive.sum = jobs[j].bundle.sum)
        BY <2>1 DEF ReadsBack
    <2>6. BackupGood(j, r, bucket', clock, made)
        BY <1>1, <1>4, <2>4, <2>5, RowTyped DEF BackupGood, Working, Making
    <2>7. QED
        BY <1>1, <1>2, <2>3, <2>4, <2>6, WorkingKey, GoingKeeps
<1>5. QED
    BY <1>3, <1>4

LEMMA RejectKeeps == ASSUME BackupsInv, NEW j \in BackupJobs, Reject(j) PROVE BackupsInv' /\ Kept
<1>1. jobs[j].at = "reject" /\ UNCHANGED <<World, made, faults>> /\ jobs[j].at \in Making
      /\ bucket' = Unmarked(jobs[j].key)
    BY DEF Reject, Making
<1>2. PICK r : r = [jobs[j] EXCEPT !.at = "drop"]
    OBVIOUS
<1>3. ShelfGood(bucket', clock) /\ ButFor(jobs[j].key, bucket, bucket') /\ ~ Marked(bucket', jobs[j].key)
    BY <1>1, UnmarkedShelf
<1>4. r \in BackupRow /\ r.at = "drop" /\ r.key = jobs[j].key /\ r.bundle = jobs[j].bundle /\ r.started = jobs[j].started
    BY <1>2, GoneTo DEF Steps
<1>5. BackupGood(j, r, bucket', clock, made)
    BY <1>1, <1>3, <1>4, RowTyped DEF BackupGood, Working, Making
<1>6. Set(j, r) /\ faults' \in 0..MaxBackupFaults
    BY <1>1, <1>2, RowTyped DEF Reject, Go
<1>7. \E c : MayChange(j, c) /\ ButFor(c, bucket, bucket')
    BY <1>1, <1>3, WorkingKey
<1>8. QED
    BY <1>1, <1>3, <1>4, <1>5, <1>6, <1>7, WorkingKey, GoingKeeps

LEMMA DropKeeps == ASSUME BackupsInv, NEW j \in BackupJobs, Drop(j) PROVE BackupsInv' /\ Kept
<1>1. jobs[j].at = "drop" /\ UNCHANGED <<World, made, faults>> /\ jobs[j].at \in Making
      /\ bucket' = Removed(jobs[j].key) /\ Set(j, Rest)
    BY DEF Drop, Making
<1>2. ShelfGood(bucket', clock) /\ ButFor(jobs[j].key, bucket, bucket')
    BY <1>1, RemovedShelf
<1>3. \E c : MayChange(j, c) /\ ButFor(c, bucket, bucket')
    BY <1>1, <1>2, WorkingKey
<1>4. faults' \in 0..MaxBackupFaults
    BY <1>1, RowTyped
<1>5. QED
    BY <1>1, <1>2, <1>3, <1>4, RestingKeeps

LEMMA CompleteKeeps == ASSUME BackupsInv, NEW j \in BackupJobs, Complete(j) PROVE BackupsInv' /\ Kept
<1>1. jobs[j].at = "complete" /\ UNCHANGED <<World, made, faults>> /\ jobs[j].at \in Making
    BY DEF Complete, Making
<1>2. PICK r : r = [jobs[j] EXCEPT !.at = "expire"]
    OBVIOUS
<1>3. PICK k : k = jobs[j].key
    OBVIOUS
<1>4. /\ k \in DOMAIN bucket /\ bucket[k].archive.sum = jobs[j].bundle.sum /\ jobs[j].bundle.sum \in 1..made
      /\ k.day = DayOf(jobs[j].started) /\ jobs[j].bundle \in Archives
    BY <1>1, <1>3, RowTyped DEF BackupGood, Working, Making, BackupRow
<1>5. bucket = [x \in DOMAIN bucket |-> bucket[x]] /\ bucket[k] \in ShelfRow
    BY <1>4, RowTyped DEF ShelfGood
<1>6. PICK row : row = [bucket[k] EXCEPT !.marker = jobs[j].bundle.sum]
    OBVIOUS
<1>7. row \in ShelfRow /\ row.archive = bucket[k].archive /\ row.marker = jobs[j].bundle.sum
    BY <1>4, <1>5, <1>6 DEF ShelfRow, Archives
<1>8. bucket' = [bucket EXCEPT ![k] = row]
    <2>1. bucket' = [bucket EXCEPT ![k].marker = jobs[j].bundle.sum]
        BY <1>3, <1>4 DEF Complete
    <2>2. QED
        BY <2>1, <1>4, <1>5, <1>6
<1>9. bucket' = [x \in DOMAIN bucket |-> IF x = k THEN row ELSE bucket[x]]
    BY <1>5, <1>8
<1>10. DOMAIN bucket' = DOMAIN bucket /\ bucket'[k] = row /\ (\A x \in DOMAIN bucket : x # k => bucket'[x] = bucket[x])
    BY <1>4, <1>9
<1>11. bucket' = [x \in DOMAIN bucket' |-> bucket'[x]]
    BY <1>9
<1>12. ShelfGood(bucket', clock)
    BY <1>4, <1>7, <1>10, <1>11, RowTyped DEF ShelfGood
<1>13. ButFor(k, bucket, bucket')
    BY <1>10 DEF ButFor
<1>14. r \in BackupRow /\ r.at = "expire" /\ r.key = jobs[j].key /\ r.bundle = jobs[j].bundle /\ r.started = jobs[j].started
    BY <1>2, GoneTo DEF Steps
<1>15. k \in DOMAIN bucket' /\ Proven(bucket', k) /\ k.day = DayOf(r.started)
    BY <1>4, <1>7, <1>10, <1>14 DEF Proven, Marked
<1>16. BackupGood(j, r, bucket', clock, made)
    BY <1>1, <1>14, <1>15, RowTyped DEF BackupGood, Working, Making
<1>17. Set(j, r) /\ faults' \in 0..MaxBackupFaults
    BY <1>1, <1>2, RowTyped DEF Complete, Go
<1>18. \E c : MayChange(j, c) /\ ButFor(c, bucket, bucket')
    BY <1>1, <1>3, <1>13, WorkingKey
<1>19. QED
    BY <1>1, <1>12, <1>14, <1>16, <1>17, <1>18, WorkingKey, GoingKeeps

LEMMA ExpireKeeps == ASSUME BackupsInv, NEW j \in BackupJobs, Expire(j) PROVE BackupsInv' /\ Kept
<1>1. jobs[j].at = "expire" /\ UNCHANGED <<World, bucket, made, faults>>
    BY DEF Expire
<1>2. faults' \in 0..MaxBackupFaults /\ ShelfGood(bucket', clock)
    BY <1>1, RowTyped
<1>3. CASE Listed(j) = {}
    BY <1>1, <1>2, <1>3, RestingKeeps DEF Expire
<1>4. CASE Listed(j) # {}
    <2>1. PICK r : r = [jobs[j] EXCEPT !.at = "unmark", !.old = Listed(j)]
        OBVIOUS
    <2>2. Listed(j) \subseteq Keys /\ \A k \in Listed(j) : Expired(k, jobs[j].started)
        BY RowTyped DEF Listed, ShelfGood
    <2>3. r \in BackupRow /\ r.at = "unmark" /\ r.old = Listed(j) /\ r.started = jobs[j].started
        BY <2>1, <2>2, RowTyped DEF BackupRow, Steps
    <2>4. BackupGood(j, r, bucket', clock, made)
        BY <1>1, <2>2, <2>3, RowTyped DEF BackupGood, Working, Making
    <2>5. Set(j, r) /\ r.at \notin Working
        BY <1>4, <2>1, <2>3 DEF Expire, Working, Making
    <2>6. QED
        BY <1>1, <1>2, <2>4, <2>5, GoingKeeps
<1>5. QED
    BY <1>3, <1>4

\* A job that expires leaves an archive of its own day.
LEMMA WitnessStays ==
    ASSUME BackupsInv, NEW j \in BackupJobs, NEW c, NEW b, MayChange(j, c), ButFor(c, bucket, b),
           jobs[j].at \in {"unmark", "remove"}
    PROVE  \E k \in DOMAIN b : Proven(b, k) /\ k.day = DayOf(jobs[j].started)
<1>1. PICK k \in DOMAIN bucket : Proven(bucket, k) /\ k.day = DayOf(jobs[j].started)
    BY RowTyped DEF BackupGood
<1>2. k # c
    BY <1>1, NobodyElses
<1>3. k \in DOMAIN b /\ b[k] = bucket[k]
    BY <1>1, <1>2 DEF ButFor
<1>4. QED
    BY <1>1, <1>3 DEF Proven, Marked

LEMMA UnmarkKeeps == ASSUME BackupsInv, NEW j \in BackupJobs, Unmark(j) PROVE BackupsInv' /\ Kept
<1>1. jobs[j].at = "unmark" /\ UNCHANGED <<World, made, faults>>
    BY DEF Unmark
<1>2. PICK k \in jobs[j].old : bucket' = Unmarked(k) /\ Set(j, [jobs[j] EXCEPT !.at = "remove", !.old = @ \ {k}, !.key = k])
    BY DEF Unmark
<1>3. k \in Keys /\ Expired(k, jobs[j].started) /\ MayChange(j, k) /\ jobs[j].old \subseteq Keys
    BY <1>1, RowTyped DEF BackupGood, BackupRow, MayChange
<1>4. ShelfGood(bucket', clock) /\ ButFor(k, bucket, bucket')
    BY <1>2, UnmarkedShelf
<1>5. PICK r : r = [jobs[j] EXCEPT !.at = "remove", !.old = jobs[j].old \ {k}, !.key = k]
    OBVIOUS
<1>6. Set(j, r)
    BY <1>2, <1>5, RowTyped DEF Set, BackupRow
<1>7. r \in BackupRow /\ r.at = "remove" /\ r.key = k /\ r.old = jobs[j].old \ {k} /\ r.started = jobs[j].started
    BY <1>3, <1>5, RowTyped DEF BackupRow, Steps
<1>8. \E x \in DOMAIN bucket' : Proven(bucket', x) /\ x.day = DayOf(jobs[j].started)
    BY <1>1, <1>3, <1>4, WitnessStays
<1>9. BackupGood(j, r, bucket', clock, made)
    BY <1>1, <1>3, <1>7, <1>8, RowTyped DEF BackupGood, Working, Making
<1>10. faults' \in 0..MaxBackupFaults /\ r.at \notin Working
    BY <1>1, <1>7, RowTyped DEF Working, Making
<1>11. QED
    BY <1>1, <1>3, <1>4, <1>6, <1>9, <1>10, GoingKeeps

LEMMA RemoveKeeps == ASSUME BackupsInv, NEW j \in BackupJobs, Remove(j) PROVE BackupsInv' /\ Kept
<1>1. jobs[j].at = "remove" /\ UNCHANGED <<World, made, faults>> /\ bucket' = Removed(jobs[j].key)
    BY DEF Remove
<1>2. MayChange(j, jobs[j].key)
    BY <1>1, RowTyped DEF BackupGood, MayChange
<1>3. ShelfGood(bucket', clock) /\ ButFor(jobs[j].key, bucket, bucket')
    BY <1>1, RemovedShelf
<1>4. faults' \in 0..MaxBackupFaults
    BY <1>1, RowTyped
<1>5. CASE jobs[j].old = {}
    BY <1>1, <1>2, <1>3, <1>4, <1>5, RestingKeeps DEF Remove
<1>6. CASE jobs[j].old # {}
    <2>1. PICK r : r = [jobs[j] EXCEPT !.at = "unmark"]
        OBVIOUS
    <2>2. r \in BackupRow /\ r.at = "unmark" /\ r.started = jobs[j].started /\ r.old = jobs[j].old
        BY <2>1, GoneTo DEF Steps
    <2>3. \E x \in DOMAIN bucket' : Proven(bucket', x) /\ x.day = DayOf(jobs[j].started)
        BY <1>1, <1>2, <1>3, WitnessStays
    <2>4. BackupGood(j, r, bucket', clock, made)
        BY <1>1, <2>2, <2>3, RowTyped DEF BackupGood, Working, Making
    <2>5. Set(j, r) /\ r.at \notin Working
        BY <1>6, <2>1, <2>2 DEF Remove, Go, Working, Making
    <2>6. QED
        BY <1>1, <1>2, <1>3, <1>4, <2>4, <2>5, GoingKeeps
<1>7. QED
    BY <1>5, <1>6

LEMMA KillKeeps == ASSUME BackupsInv, NEW j \in BackupJobs, Kill(j) PROVE BackupsInv' /\ Kept
<1>1. Set(j, Rest) /\ UNCHANGED <<World, bucket, made>> /\ faults < MaxBackupFaults /\ faults' = faults + 1
    BY DEF Kill, BackupFault
<1>2. faults' \in 0..MaxBackupFaults /\ ShelfGood(bucket', clock)
    BY <1>1, RowTyped, BackupBounds
<1>3. QED
    BY <1>1, <1>2, RestingKeeps

LEMMA JobKeeps ==
    ASSUME BackupsInv, NEW j \in BackupJobs,
           \/ Start(j) \/ Look(j) \/ Snapshot(j) \/ Copy(j) \/ Upload(j) \/ Check(j) \/ Reject(j) \/ Drop(j)
           \/ Complete(j) \/ Expire(j) \/ Unmark(j) \/ Remove(j) \/ Kill(j)
    PROVE  BackupsInv' /\ Kept
<1>1. CASE Start(j) BY <1>1, StartKeeps
<1>2. CASE Look(j) BY <1>2, LookKeeps
<1>3. CASE Snapshot(j) BY <1>3, SnapshotKeeps
<1>4. CASE Copy(j) BY <1>4, CopyKeeps
<1>5. CASE Upload(j) BY <1>5, UploadKeeps
<1>6. CASE Check(j) BY <1>6, CheckKeeps
<1>7. CASE Reject(j) BY <1>7, RejectKeeps
<1>8. CASE Drop(j) BY <1>8, DropKeeps
<1>9. CASE Complete(j) BY <1>9, CompleteKeeps
<1>10. CASE Expire(j) BY <1>10, ExpireKeeps
<1>11. CASE Unmark(j) BY <1>11, UnmarkKeeps
<1>12. CASE Remove(j) BY <1>12, RemoveKeeps
<1>13. CASE Kill(j) BY <1>13, KillKeeps
<1>14. QED
    BY <1>1, <1>2, <1>3, <1>4, <1>5, <1>6, <1>7, <1>8, <1>9, <1>10, <1>11, <1>12, <1>13

\* Assets come and go beside the jobs, and a half-day passes only when none is at work for longer.
LEMMA WorldKeeps ==
    ASSUME BackupsInv, AssetsMove \/ Pass \/ UNCHANGED backupVars
    PROVE  BackupsInv' /\ Kept
<1>1. bucket' = bucket /\ jobs' = jobs /\ made' = made /\ faults' = faults /\ clock' \in {clock, clock + 1}
    BY DEF AssetsMove, Pass, backupVars
<1>2. clock' # clock => clock < MaxHalves /\ \A j \in BackupJobs : jobs[j].at = "idle" \/ clock - jobs[j].started < Longest(j)
    BY DEF AssetsMove, Pass, backupVars
<1>3. clock' \in 0..MaxHalves /\ clock <= clock' /\ clock \in Nat /\ clock' \in Nat
    BY <1>1, <1>2, RowTyped, BackupBounds DEF BackupsInv
<1>4. rows' \subseteq Assets /\ objects' \subseteq Assets
    BY DEF BackupsInv, AssetsMove, Store, Commit, Purge, Delete, Pass, backupVars
<1>5. ShelfGood(bucket, clock')
    BY <1>3 DEF BackupsInv, ShelfGood, Keys
<1>6. ASSUME NEW j \in BackupJobs
      PROVE  BackupGood(j, jobs[j], bucket, clock', made)
    <2>1. BackupGood(j, jobs[j], bucket, clock, made) /\ jobs[j].started \in 0..MaxHalves
        BY RowTyped DEF BackupRow
    <2>2. jobs[j].at # "idle" => jobs[j].started <= clock' /\ clock' < jobs[j].started + 2 * KeepDays
        BY <1>1, <1>2, <1>3, <2>1, BackupBounds DEF BackupGood, Longest
    <2>3. QED
        BY <2>1, <2>2 DEF BackupGood
<1>7. BackupsInv'
    BY <1>1, <1>3, <1>4, <1>5, <1>6 DEF BackupsInv, ShelfGood, BackupGood, Marked, Proven
<1>8. Kept
    BY <1>1 DEF Kept, Good, Verified
<1>9. QED
    BY <1>7, <1>8

LEMMA BackupsStep == ASSUME BackupsInv, [BackupsNext]_backupVars PROVE BackupsInv' /\ Kept
<1>1. CASE AssetsMove \/ Pass \/ UNCHANGED backupVars
    BY <1>1, WorldKeeps
<1>2. CASE \E j \in BackupJobs :
             \/ Start(j) \/ Look(j) \/ Snapshot(j) \/ Copy(j) \/ Upload(j) \/ Check(j) \/ Reject(j) \/ Drop(j)
             \/ Complete(j) \/ Expire(j) \/ Unmark(j) \/ Remove(j) \/ Kill(j)
    BY <1>2, JobKeeps
<1>3. QED
    BY <1>1, <1>2 DEF BackupsNext

LEMMA BackupsBegin == BackupsInit => BackupsInv
<1>1. SUFFICES ASSUME BackupsInit PROVE BackupsInv
    OBVIOUS
<1>2. jobs = [j \in BackupJobs |-> Rest] /\ bucket = <<>> /\ clock = 0 /\ made = 0 /\ faults = 0 /\ rows = {} /\ objects = {}
    BY <1>1 DEF BackupsInit
<1>3. \A j \in BackupJobs : BackupGood(j, Rest, bucket, clock, made) /\ Rest \in BackupRow /\ Rest.at = "idle"
    BY RestGood DEF BackupGood
<1>4. jobs \in [BackupJobs -> BackupRow] /\ \A j \in BackupJobs : jobs[j] = Rest
    BY <1>2, <1>3
<1>5. DOMAIN bucket = {} /\ bucket = [k \in DOMAIN bucket |-> bucket[k]]
    BY <1>2
<1>6. ShelfGood(bucket, clock)
    BY <1>5 DEF ShelfGood
<1>7. "idle" \notin Working
    BY DEF Working, Making
<1>8. QED
    BY <1>2, <1>3, <1>4, <1>6, <1>7, BackupBounds DEF BackupsInv

LEMMA BackupsSafe == BackupsInv => BackupsTypeOK /\ MarkedVerified /\ Restorable
<1>1. SUFFICES ASSUME BackupsInv PROVE BackupsTypeOK /\ MarkedVerified /\ Restorable
    OBVIOUS
<1>2. DOMAIN bucket \subseteq Keys /\ \A k \in DOMAIN bucket : 2 * k.day <= clock /\ bucket[k].archive \in Archives /\ bucket[k].marker \in 0..MaxMade
    BY <1>1 DEF BackupsInv, ShelfGood, ShelfRow
<1>3. \A j \in BackupJobs : jobs[j] \in BackupRow
    BY <1>1, RowTyped
<1>4. BackupsTypeOK
    BY <1>1, <1>2, <1>3 DEF BackupsInv, BackupsTypeOK, BackupRow
<1>5. MarkedVerified /\ Restorable
    BY <1>1 DEF BackupsInv, ShelfGood, MarkedVerified, Restorable, Good, Verified
<1>6. QED
    BY <1>4, <1>5

\* However many jobs make, reject, expire and lose archives beside each other, and wherever they are
\* killed: a marker stands beside the archive it was computed from, a marked archive restores, the last
\* one outlives failures and those of the last days are kept (remote-backup.ts:18-58, bundle.ts:20-58).
THEOREM BackupsAlwaysKept == BackupsSpec => BackupsKept
<1>1. BackupsInit => BackupsInv
    BY BackupsBegin
<1>2. BackupsInv /\ [BackupsNext]_backupVars => BackupsInv'
    BY BackupsStep
<1>3. BackupsInv => BackupsTypeOK /\ MarkedVerified /\ Restorable
    BY BackupsSafe
<1>4. BackupsInv /\ [BackupsNext]_backupVars =>
        [(\E k \in DOMAIN bucket : Good(k)) => \E k \in DOMAIN bucket' : Good(k)']_backupVars
    BY BackupsStep DEF Kept
<1>5. BackupsInv /\ [BackupsNext]_backupVars =>
        [\A k \in DOMAIN bucket : Good(k) /\ k.day > DayOf(clock) - KeepDays => k \in DOMAIN bucket' /\ Good(k)']_backupVars
    BY BackupsStep DEF Kept
<1>6. QED
    BY <1>1, <1>2, <1>3, <1>4, <1>5, PTL DEF BackupsSpec, BackupsKept, NeverBare, RecentKept

HIDE BackupsAssumption

-----------------------------------------------------------------------------
(* The mail queue *)

USE MailAssumption

Subjects == {"attention", "recovered"}

\* A retry may be due at any time: that the delay before it is not negative is a fact
\* about powers that the proof does not need.
RowShape     == [subject : Subjects, expires : Nat, next : Int, attempts : Nat, lease : Nat]
SendingShape == [id : Ids, subject : Subjects, lease : Nat, attempts : Nat]

Shapes ==
    /\ now \in Nat
    /\ outbox \in [DOMAIN outbox -> RowShape]
    /\ DOMAIN outbox \subseteq used /\ used \subseteq Ids
    /\ servers \in [Servers -> [state : {"idle", "send", "accepted", "failed"}, row : SendingShape \cup {None}]]
    /\ \A s \in Servers : servers[s].state # "idle" => servers[s].row \in SendingShape

Busy(s) == servers[s].state # "idle"
Leases(s) == Busy(s) /\ now < servers[s].row.lease

\* A live lease of a server is the one its row carries, if the row is still there.  A row
\* that is gone does not come back.
LeaseTrue(s) ==
    Leases(s) => /\ servers[s].row.id \in used
                 /\ servers[s].row.id \in DOMAIN outbox => outbox[servers[s].row.id].lease = servers[s].row.lease

\* Of two servers sending one mail, one has outlived its lease.
Apart == \A s, t \in Servers : s # t /\ Leases(s) /\ Leases(t) => servers[s].row.id # servers[t].row.id

MailInv == Shapes /\ (\A s \in Servers : LeaseTrue(s)) /\ Apart

LEMMA InitMail == Init => MailInv
<1> SUFFICES ASSUME Init PROVE MailInv
    OBVIOUS
<1>1. DOMAIN outbox = {} /\ now \in Nat /\ used = {}
    BY DEF Init
<1>2. \A s \in Servers : servers[s] = [state |-> "idle", row |-> None]
    BY DEF Init
<1>3. servers \in [Servers -> [state : {"idle", "send", "accepted", "failed"}, row : SendingShape \cup {None}]]
    BY DEF Init
<1>4. outbox \in [DOMAIN outbox -> RowShape]
    BY <1>1 DEF Init
<1>5. QED
    BY <1>1, <1>2, <1>3, <1>4 DEF MailInv, Shapes, LeaseTrue, Apart, Leases, Busy

\* A new mail takes an identifier no server can hold.
LEMMA EnqueueKeeps ==
    ASSUME MailInv, NEW subject \in Subjects, Enqueue(subject), UNCHANGED <<now, servers>>
    PROVE  MailInv'
<1>1. PICK i \in Ids \ used :
        /\ used' = used \cup {i}
        /\ outbox' = [j \in DOMAIN outbox \cup {i} |->
                        IF j # i THEN outbox[j]
                        ELSE [subject |-> subject, expires |-> now + Day, next |-> now, attempts |-> 0, lease |-> 0]]
    BY DEF Enqueue
<1>2. [subject |-> subject, expires |-> now + Day, next |-> now, attempts |-> 0, lease |-> 0] \in RowShape
    BY DEF MailInv, Shapes, RowShape
<1>3. /\ DOMAIN outbox' = DOMAIN outbox \cup {i}
      /\ outbox' \in [DOMAIN outbox' -> RowShape]
      /\ \A j \in DOMAIN outbox : outbox'[j] = outbox[j]
    BY <1>1, <1>2 DEF MailInv, Shapes
<1>4. Shapes'
    BY <1>1, <1>3 DEF MailInv, Shapes
<1>5. ASSUME NEW s \in Servers PROVE LeaseTrue(s)'
    BY <1>1, <1>3 DEF MailInv, LeaseTrue, Leases, Busy
<1>6. Apart'
    BY DEF MailInv, Apart, Leases, Busy
<1>7. QED
    BY <1>4, <1>5, <1>6 DEF MailInv

LEMMA ReportKeeps == MailInv /\ Report => MailInv'
<1> SUFFICES ASSUME MailInv, Report PROVE MailInv'
    OBVIOUS
<1>1. UNCHANGED <<now, servers>>
    BY DEF Report
<1>2. Enqueue("attention") \/ Enqueue("recovered") \/ UNCHANGED <<outbox, used>>
    BY DEF Report, ReportFailure, ReportSuccess
<1>3. CASE UNCHANGED <<outbox, used>>
    BY <1>1, <1>3 DEF MailInv, Shapes, LeaseTrue, Apart, Leases, Busy
<1>4. QED
    BY <1>1, <1>2, <1>3, EnqueueKeeps DEF Subjects

\* A row is leased only once the lease it carries is over, so nobody else has it.
LEMMA TakeKeeps == ASSUME MailInv, NEW s \in Servers, Take(s) PROVE MailInv'
<1> DEFINE kept == [i \in Live |-> outbox[i]]
<1>1. servers[s].state = "idle" /\ UNCHANGED <<now, used>>
    BY DEF Take
<1>2. Live \subseteq DOMAIN outbox
    BY DEF Live
<1>3. CASE Due = {} /\ outbox' = kept /\ UNCHANGED servers
  <2>1. DOMAIN outbox' = Live /\ \A i \in Live : outbox'[i] = outbox[i]
      BY <1>3
  <2>2. outbox' \in [DOMAIN outbox' -> RowShape]
      BY <1>2, <1>3, <2>1 DEF MailInv, Shapes
  <2>3. QED
      BY <1>1, <1>2, <1>3, <2>1, <2>2 DEF MailInv, Shapes, LeaseTrue, Apart, Leases, Busy
<1>4. ASSUME NEW i \in Due,
             outbox' = [kept EXCEPT ![i].lease = LeaseEnd, ![i].attempts = @ + 1],
             servers' = [servers EXCEPT ![s] = [state |-> "send",
                           row |-> [id |-> i, subject |-> outbox[i].subject, lease |-> LeaseEnd,
                                    attempts |-> outbox[i].attempts + 1]]]
      PROVE  MailInv'
  <2>1. i \in Live /\ outbox[i] \in RowShape /\ outbox[i].lease <= now /\ i \in used /\ i \in Ids
      BY <1>2 DEF Due, MailInv, Shapes
  <2>2. LeaseEnd \in Nat /\ outbox[i].attempts + 1 \in Nat /\ outbox[i].subject \in Subjects
      BY <2>1 DEF LeaseEnd, MailInv, Shapes, RowShape
  <2>3. /\ DOMAIN outbox' = Live
        /\ \A j \in Live \ {i} : outbox'[j] = outbox[j]
        /\ outbox'[i] = [outbox[i] EXCEPT !.lease = LeaseEnd, !.attempts = @ + 1]
      BY <1>4, <2>1
  <2>4. outbox'[i] \in RowShape /\ outbox'[i].lease = LeaseEnd
      BY <2>1, <2>2, <2>3 DEF RowShape
  <2>5. outbox' \in [DOMAIN outbox' -> RowShape]
    <3>1. \A j \in Live : outbox'[j] \in RowShape
        BY <1>2, <2>3, <2>4 DEF MailInv, Shapes
    <3>2. outbox' = [j \in Live |-> outbox'[j]]
        BY <1>4
    <3>3. QED
        BY <2>3, <3>1, <3>2
  <2>6. [id |-> i, subject |-> outbox[i].subject, lease |-> LeaseEnd, attempts |-> outbox[i].attempts + 1] \in SendingShape
      BY <2>1, <2>2 DEF SendingShape
  <2>7. /\ servers'[s].state = "send" /\ servers'[s].row \in SendingShape
        /\ servers'[s].row.id = i /\ servers'[s].row.lease = LeaseEnd
        /\ \A t \in Servers \ {s} : servers'[t] = servers[t]
        /\ servers' \in [Servers -> [state : {"idle", "send", "accepted", "failed"}, row : SendingShape \cup {None}]]
      BY <1>4, <2>6 DEF MailInv, Shapes
  <2>8. Shapes'
      BY <1>1, <1>2, <2>3, <2>5, <2>7 DEF MailInv, Shapes
  <2>9. ASSUME NEW t \in Servers \ {s}, Leases(t) PROVE servers[t].row.id # i
      BY <1>2, <2>1, <2>9 DEF MailInv, Shapes, LeaseTrue, Leases, Busy, SendingShape, RowShape
  <2>10. ASSUME NEW t \in Servers PROVE LeaseTrue(t)'
    <3>1. CASE t = s
        BY <1>1, <2>1, <2>3, <2>4, <2>7, <3>1 DEF LeaseTrue
    <3>2. CASE t # s
        BY <1>1, <1>2, <2>3, <2>7, <2>9, <3>2 DEF MailInv, LeaseTrue, Leases, Busy
    <3>3. QED
        BY <3>1, <3>2
  <2>11. Apart'
      BY <1>1, <2>7, <2>9 DEF MailInv, Apart, Leases, Busy
  <2>12. QED
      BY <2>8, <2>10, <2>11 DEF MailInv
<1>5. QED
    BY <1>3, <1>4 DEF Take

\* Time only ends leases.
LEMMA TickKeeps == MailInv /\ Tick => MailInv'
<1> SUFFICES ASSUME MailInv, Tick PROVE MailInv'
    OBVIOUS
<1>1. now' = now + 1 /\ now \in Nat /\ UNCHANGED <<outbox, used, servers>>
    BY DEF Tick, MailInv, Shapes
<1>2. ASSUME NEW s \in Servers, Leases(s)' PROVE Leases(s)
    BY <1>1, <1>2 DEF MailInv, Shapes, Leases, Busy, SendingShape
<1>3. QED
    BY <1>1, <1>2 DEF MailInv, Shapes, LeaseTrue, Apart

\* A server that stops working on its row, while the row of any other server's live
\* lease is left as it is.
LEMMA RestKeeps ==
    ASSUME MailInv, NEW s \in Servers, Rested(s), UNCHANGED <<now, used>>,
           DOMAIN outbox' \subseteq DOMAIN outbox, outbox' \in [DOMAIN outbox' -> RowShape],
           \A t \in Servers \ {s} : Leases(t) /\ servers[t].row.id \in DOMAIN outbox' =>
               outbox'[servers[t].row.id].lease = outbox[servers[t].row.id].lease
    PROVE  MailInv'
<1>1. /\ servers'[s] = [state |-> "idle", row |-> None]
      /\ \A t \in Servers \ {s} : servers'[t] = servers[t]
      /\ servers' \in [Servers -> [state : {"idle", "send", "accepted", "failed"}, row : SendingShape \cup {None}]]
    BY DEF MailInv, Shapes, Rested
<1>2. Shapes'
    BY <1>1 DEF MailInv, Shapes
<1>3. ASSUME NEW t \in Servers PROVE LeaseTrue(t)'
    BY <1>1 DEF MailInv, LeaseTrue, Leases, Busy
<1>4. Apart'
    BY <1>1 DEF MailInv, Apart, Leases, Busy
<1>5. QED
    BY <1>2, <1>3, <1>4 DEF MailInv

\* A row that a server may still write is leased by nobody else.
LEMMA MineAlone ==
    ASSUME MailInv, NEW s \in Servers, Busy(s), Mine(s), NEW t \in Servers \ {s}, Leases(t)
    PROVE  servers[t].row.id # servers[s].row.id
<1> SUFFICES ASSUME servers[t].row.id = servers[s].row.id PROVE FALSE
    OBVIOUS
<1>1. servers[s].row.id \in DOMAIN outbox /\ outbox[servers[s].row.id].lease = servers[s].row.lease
    BY DEF Mine
<1>2. servers[s].row.lease = servers[t].row.lease
    BY <1>1 DEF MailInv, LeaseTrue
<1>3. Leases(s)
    BY <1>2 DEF Leases
<1>4. QED
    BY <1>3 DEF MailInv, Apart

LEMMA DeliveredKeeps == ASSUME MailInv, NEW s \in Servers, Delivered(s) PROVE MailInv'
<1>1. Busy(s) /\ Rested(s) /\ UNCHANGED <<now, used>>
    BY DEF Delivered, Busy
<1>2. CASE Mine(s)
  <2>1. outbox' = Without(servers[s].row.id)
      BY <1>2 DEF Delivered
  <2>2. /\ DOMAIN outbox' = DOMAIN outbox \ {servers[s].row.id}
        /\ \A j \in DOMAIN outbox' : outbox'[j] = outbox[j]
      BY <2>1 DEF Without
  <2>3. outbox' \in [DOMAIN outbox' -> RowShape]
      BY <2>1, <2>2 DEF MailInv, Shapes, Without
  <2>4. QED
      BY <1>1, <2>2, <2>3, RestKeeps
<1>3. CASE ~Mine(s)
  <2>1. outbox' = outbox
      BY <1>3 DEF Delivered
  <2>2. QED
      BY <1>1, <2>1, RestKeeps DEF MailInv, Shapes
<1>4. QED
    BY <1>2, <1>3

LEMMA PutOffKeeps == ASSUME MailInv, NEW s \in Servers, PutOff(s) PROVE MailInv'
<1>1. Busy(s) /\ Rested(s) /\ UNCHANGED <<now, used>>
    BY DEF PutOff, Busy
<1>2. CASE Mine(s)
  <2> DEFINE i == servers[s].row.id
             later == now + Delay(servers[s].row.attempts)
  <2>1. outbox' = [outbox EXCEPT ![i].next = later, ![i].lease = 0]
      BY <1>2 DEF PutOff
  <2>2. i \in DOMAIN outbox
      BY <1>2 DEF Mine
  <2>3. later \in Int
    <3>1. servers[s].row.attempts \in Nat /\ now \in Nat
        BY <1>1 DEF MailInv, Shapes, Busy, SendingShape
    <3>2. Delay(servers[s].row.attempts) \in Int
        BY <3>1 DEF Delay
    <3>3. QED
        BY <3>1, <3>2
  <2>4. /\ DOMAIN outbox' = DOMAIN outbox
        /\ \A j \in DOMAIN outbox \ {i} : outbox'[j] = outbox[j]
        /\ outbox'[i] = [outbox[i] EXCEPT !.next = later, !.lease = 0]
      BY <2>1, <2>2
  <2>5. outbox'[i] \in RowShape
    <3>1. outbox[i] \in RowShape
        BY <2>2 DEF MailInv, Shapes
    <3>2. ASSUME NEW row \in RowShape, NEW n \in Int
          PROVE  [row EXCEPT !.next = n, !.lease = 0] \in RowShape
        BY DEF RowShape
    <3>3. [outbox[i] EXCEPT !.next = later, !.lease = 0] \in RowShape
        BY <2>3, <3>1, <3>2
    <3>4. QED
        BY <2>4, <3>3
  <2>6. outbox' \in [DOMAIN outbox' -> RowShape]
    <3>1. \A j \in DOMAIN outbox : outbox'[j] \in RowShape
        BY <2>4, <2>5 DEF MailInv, Shapes
    <3>2. outbox' = [j \in DOMAIN outbox |-> outbox'[j]]
        BY <2>1
    <3>3. QED
        BY <2>4, <3>1, <3>2
  <2>7. \A t \in Servers \ {s} : Leases(t) => servers[t].row.id # i
      BY <1>1, <1>2, MineAlone
  <2>8. QED
      BY <1>1, <2>4, <2>6, <2>7, RestKeeps
<1>3. CASE ~Mine(s)
  <2>1. outbox' = outbox
      BY <1>3 DEF PutOff
  <2>2. QED
      BY <1>1, <2>1, RestKeeps DEF MailInv, Shapes
<1>4. QED
    BY <1>2, <1>3

LEMMA SendKeeps == ASSUME MailInv, NEW s \in Servers, Send(s) PROVE MailInv'
<1>1. PICK state \in {"accepted", "failed"} : servers' = [servers EXCEPT ![s].state = state]
    BY DEF Send, Become
<1>2. servers[s].state = "send" /\ UNCHANGED <<now, outbox, used>>
    BY DEF Send
<1>3. /\ servers'[s].state = state /\ servers'[s].row = servers[s].row
      /\ \A t \in Servers \ {s} : servers'[t] = servers[t]
      /\ servers' \in [Servers -> [state : {"idle", "send", "accepted", "failed"}, row : SendingShape \cup {None}]]
    BY <1>1 DEF MailInv, Shapes
<1>4. Shapes'
    BY <1>2, <1>3 DEF MailInv, Shapes
<1>5. \A t \in Servers : Leases(t)' <=> Leases(t)
    BY <1>2, <1>3 DEF Leases, Busy
<1>6. QED
    BY <1>2, <1>3, <1>4, <1>5 DEF MailInv, LeaseTrue, Apart

LEMMA CrashKeeps == ASSUME MailInv, NEW s \in Servers, Crash(s) PROVE MailInv'
    BY RestKeeps DEF Crash, MailInv, Shapes

LEMMA MailInvariance == Spec => []MailInv
<1>1. MailInv /\ UNCHANGED vars => MailInv'
    BY DEF vars, MailInv, Shapes, LeaseTrue, Apart, Leases, Busy
<1>2. MailInv /\ [Next]_vars => MailInv'
    BY <1>1, ReportKeeps, TakeKeeps, TickKeeps, SendKeeps, DeliveredKeeps, PutOffKeeps, CrashKeeps DEF Next
<1>3. QED
    BY <1>2, InitMail, PTL DEF Spec

\* However many servers poll one queue, die, are suspended past their leases and answer
\* late, a mail whose lease lasts is being sent by one of them (mail.ts:60-130).
THEOREM AlwaysOneSender == Spec => []OneSender
<1>1. MailInv => OneSender
    BY DEF MailInv, Apart, Leases, Busy, OneSender
<1>2. QED
    BY <1>1, MailInvariance, PTL

-----------------------------------------------------------------------------
(* The server process *)

USE ServerAssumption

\* A fatal failure is never forgotten by the exit code, and the monitor's "low"
\* survives failed checks, which is what makes the two properties inductive.
ServerInv ==
    /\ ServerTypeOK
    /\ failure => code = 1
    /\ short => disk.low
    /\ CleanExit

\* A completed check leaves a record of the right shape, and is low whenever the disk
\* was short last.
LEMMA CheckedTyped ==
    ASSUME ServerTypeOK, NEW sample \in Room
    PROVE  /\ Checked(sample) \in [state : {"healthy", "low", "unknown"}, low : BOOLEAN,
                                   age : 0..Stale + 1, probe : Room \cup {"none"}]
           /\ Checked(sample).state = "low" <=> Checked(sample).low
           /\ Checked(sample).state \in {"low", "healthy"}
           /\ Checked(sample).low <=> IsLow(sample)
<1>1. IsLow(sample) \in BOOLEAN
    BY DEF ServerTypeOK, IsLow, Room
<1>2. QED
    BY <1>1 DEF ServerTypeOK, Checked, Room

LEMMA ServerStep == ServerInv /\ [ServerNext]_serverVars => ServerInv'
<1> SUFFICES ASSUME ServerInv, [ServerNext]_serverVars PROVE ServerInv'
    OBVIOUS
<1> USE DEF ServerInv, Room, ServerTypeOK, CleanExit
<1>1. CASE Probe
    BY <1>1 DEF Probe
<1>2. CASE ProbeEnds
  <2>1. phase # "exited" /\ UNCHANGED <<phase, code, job, request, free, failure>>
      BY <1>2 DEF ProbeEnds
  <2>2. CASE disk' = Checked(disk.probe) /\ short' = (disk.probe = "short" \/ (short /\ disk.probe = "enough"))
    <3>1. disk.probe \in Room
        BY <1>2 DEF ProbeEnds
    <3>2. short' => IsLow(disk.probe)
        BY <2>2 DEF IsLow
    <3>3. short' \in BOOLEAN
        BY <2>2
    <3>4. QED
        BY <2>1, <2>2, <3>1, <3>2, <3>3, CheckedTyped
  <2>3. CASE disk' = [disk EXCEPT !.state = "unknown", !.age = 0, !.probe = "none"] /\ UNCHANGED short
    <3>1. disk' = [state |-> "unknown", low |-> disk.low, age |-> 0, probe |-> "none"]
        BY <2>3
    <3>2. QED
        BY <2>1, <2>3, <3>1
  <2>4. QED
      BY <1>2, <2>2, <2>3 DEF ProbeEnds
<1>3. CASE DiskTick
    BY <1>3 DEF DiskTick
<1>4. CASE Fill
    BY <1>4 DEF Fill
<1>5. CASE Signal
    BY <1>5 DEF Signal
<1>6. CASE Close
    BY <1>6 DEF Close, Quiet
<1>7. CASE Deadline
    BY <1>7 DEF Deadline, Overdue
<1>8. ASSUME NEW r \in Requests, Arrive(r) \/ Finish(r)
      PROVE  ServerInv'
    BY <1>8 DEF Arrive, Finish
<1>9. ASSUME NEW c \in Jobs, Begin(c) \/ Done(c)
      PROVE  ServerInv'
  <2>1. job' \in [Jobs -> BOOLEAN] /\ phase # "exited"
      BY <1>9 DEF Begin, Done
  <2>2. QED
      BY <1>9, <2>1 DEF Begin, Done
<1>10. ASSUME NEW c \in Jobs, Fails(c)
       PROVE  ServerInv'
    BY <1>10 DEF Fails
<1>11. CASE UNCHANGED serverVars
    BY <1>11 DEF serverVars
<1>12. QED
    BY <1>1, <1>2, <1>3, <1>4, <1>5, <1>6, <1>7, <1>8, <1>9, <1>10, <1>11 DEF ServerNext

LEMMA ServerInvariance == ServerSpec => []ServerInv
<1> USE DEF Room
<1>1. ServerInit => ServerInv
  <2>1. ASSUME ServerInit
        PROVE  /\ disk \in [state : {"healthy", "low", "unknown"}, low : BOOLEAN,
                            age : 0..Stale + 1, probe : Room \cup {"none"}]
               /\ disk.state = "low" => disk.low
               /\ disk.state = "healthy" => ~disk.low
               /\ short \in BOOLEAN
               /\ short => disk.low
    <3>1. CASE /\ short = (free = "short")
               /\ disk = [state |-> IF short THEN "low" ELSE "healthy", low |-> short, age |-> 0, probe |-> "none"]
      <4>1. short \in BOOLEAN
          BY <3>1
      <4>2. CASE short
          BY <3>1, <4>2
      <4>3. CASE ~short
          BY <3>1, <4>1, <4>3
      <4>4. QED
          BY <4>1, <4>2, <4>3
    <3>2. CASE short = FALSE /\ disk = [state |-> "unknown", low |-> FALSE, age |-> 0, probe |-> "none"]
      <4>1. disk.state = "unknown"
          BY <3>2
      <4>2. disk \in [state : {"healthy", "low", "unknown"}, low : BOOLEAN,
                      age : 0..Stale + 1, probe : Room \cup {"none"}]
          BY <3>2
      <4>3. QED
          BY <3>2, <4>1, <4>2
    <3>3. QED
        BY <2>1, <3>1, <3>2 DEF ServerInit
  <2>2. ASSUME ServerInit
        PROVE  /\ phase = "up" /\ code = 0 /\ failure = FALSE /\ free \in Room
               /\ job \in [Jobs -> BOOLEAN] /\ request \in [Requests -> {"none", "read", "write", "stream"}]
    <3>1. /\ phase = "up" /\ code = 0 /\ failure = FALSE /\ free \in Room
          /\ job = [c \in Jobs |-> FALSE] /\ request = [r \in Requests |-> "none"]
        BY <2>2 DEF ServerInit
    <3>2. QED
        BY <3>1
  <2>3. QED
    BY <2>1, <2>2 DEF ServerInv, ServerTypeOK, CleanExit
<1>2. ServerInv /\ [ServerNext]_serverVars => ServerInv'
    BY ServerStep
<1>3. QED
    BY <1>1, <1>2, PTL DEF ServerSpec

\* The state of the process and of its disk monitor always has the shape main.ts and
\* disk.ts give it.
THEOREM ServerTypeCorrect == ServerSpec => []ServerTypeOK
<1>1. ServerInv => ServerTypeOK
    BY DEF ServerInv
<1>2. ServerSpec => []ServerInv
    BY ServerInvariance
<1>3. QED
    BY <1>1, <1>2, PTL

\* However many jobs and requests there are and whatever fails, exit code 0 means that
\* nothing was cut off and nothing was fatal, and a disk that was short takes no write
\* before a sample shows headroom (main.ts:83-120, disk.ts:20-75).
THEOREM ServerAlwaysHolds == ServerSpec => []ServerHolds
<1>1. ServerInv => ServerHolds
    BY DEF ServerInv, ServerTypeOK, ServerHolds, Headroom, AllowsWrites
<1>2. ServerSpec => []ServerInv
    BY ServerInvariance
<1>3. QED
    BY <1>1, <1>2, PTL

===============================================================================
