------------------------------ MODULE Submission ------------------------------
(***************************************************************************)
(* Presses that are paid for, and their journal: submission.ts and         *)
(* request-journal.ts of src/services, with the commands of workspace.ts   *)
(* that use them.                                                          *)
(*                                                                         *)
(* Each lane (the composer, a machine, a card that is developed) holds at  *)
(* most one request at a time.  The request is journaled in the session    *)
(* storage of the tab before it is sent, and repeated under its key until  *)
(* its fate is known.  A view is the controller of a brane: reloading the  *)
(* page starts a new one and ends the others; leaving the brane and coming *)
(* back starts a new one beside the others, whose requests go on.          *)
(*                                                                         *)
(* A request given up by the browser, after thirty seconds or because its  *)
(* page is reloaded, may still reach the server, and later than its        *)
(* repetition.                                                             *)
(***************************************************************************)
EXTENDS Integers, FiniteSets

CONSTANTS
    Composer,     \* the lane of the Ask box
    Machines,     \* a lane for each machine that is run,
    Cards,        \* each card that is developed,
    Answers,      \* each answer that is updated,
    Stopped,      \* and each stopped run that is retried
    MaxKeys,      \* bound: requests made
    MaxViews,     \* bound: controllers opened
    MaxPrompts,   \* bound: questions typed
    Causes,       \* why the server or the replica may refuse a request without looking at its key
    Returns       \* whether the person may leave the brane and return while a request is out

Others == Machines \cup Cards \cup Answers \cup Stopped

VARIABLES
    drawn,      \* the last key drawn
    laneOf,     \* the lane of each key, and the question it asks
    asked,
    admitted,   \* the server: keys it has admitted (runs.submission_key)
    wire,       \* requests sent by a view, or given up by it, and the server's verdict on them
    stored,     \* session storage: the journals as last written
    typed,      \* the last question typed, and the one now in the Ask box (0: empty)
    composer,
    view,       \* the current view, and the first of those still running
    oldest,
    phase,      \* of each view and lane, with the key it holds,
    held,
    entries,    \* and the journals as the view remembers them
    told,       \* history: keys whose receipt reached the browser,
    denied,     \* keys whose refusal did,
    marks       \* and keys refused unread, asked about twice at a time, or disturbed by an old journal

serverVars == <<admitted, wire>>
browserVars == <<stored, composer, view, oldest, phase, held, entries>>
vars == <<drawn, laneOf, asked, typed, told, denied, marks, serverVars, browserVars>>

Lanes == {Composer} \cup Others
RequestKeys  == 1..MaxKeys
Views == 1..MaxViews
NoKey == 0
Gone == 0       \* the view of a request nobody waits for
Phases == {"idle", "sending", "uncertain", "rejected", "accepted"}

TypeOK ==
    /\ drawn \in 0..MaxKeys
    /\ laneOf \in [RequestKeys -> Lanes]
    /\ asked \in [RequestKeys -> 0..MaxPrompts]
    /\ admitted \subseteq 1..drawn
    /\ wire \subseteq [view : Views \cup {Gone}, key : 1..drawn, verdict : {"none", "receipt", "refusal"}]
    /\ stored \in [Lanes -> 0..drawn]
    /\ composer \in 0..typed /\ typed \in 0..MaxPrompts
    /\ view \in Views /\ oldest \in 1..view
    /\ phase \in [Views -> [Lanes -> Phases]]
    /\ held \in [Views -> [Lanes -> 0..drawn]]
    /\ entries \in [Views -> [Lanes -> 0..drawn]]
    /\ told \subseteq admitted /\ denied \subseteq 1..drawn
    /\ marks \in [unread : SUBSET (1..drawn), crossed : SUBSET (1..drawn), disturbed : SUBSET (1..drawn)]

Init ==
    /\ drawn = 0 /\ laneOf = [k \in RequestKeys |-> Composer] /\ asked = [k \in RequestKeys |-> 0]
    /\ admitted = {} /\ wire = {}
    /\ stored = [l \in Lanes |-> NoKey]
    /\ typed = 0 /\ composer = 0
    /\ view = 1 /\ oldest = 1
    /\ phase = [v \in Views |-> [l \in Lanes |-> "idle"]]
    /\ held = [v \in Views |-> [l \in Lanes |-> NoKey]]
    /\ entries = [v \in Views |-> [l \in Lanes |-> NoKey]]
    /\ told = {} /\ denied = {}
    /\ marks = [unread |-> {}, crossed |-> {}, disturbed |-> {}]

-----------------------------------------------------------------------------
(* The journal of a view: what it remembers, written whole *)

Write(v, journal) ==
    /\ entries' = [entries EXCEPT ![v] = journal]
    /\ stored' = journal

Journaled(v, l, key) == [entries[v] EXCEPT ![l] = key]

\* History: keys that a journal writes over, or back, besides the one it is about.
Disturbed(journal, key) ==
    UNION {{stored[l], journal[l]} : l \in {x \in Lanes : stored[x] # journal[x]}} \ {NoKey, key}

\* A storage that refuses leaves both as they were.
WriteFails == UNCHANGED <<entries, stored>>

Becomes(v, l, p, key) ==
    /\ phase' = [phase EXCEPT ![v][l] = p]
    /\ held' = [held EXCEPT ![v][l] = key]

-----------------------------------------------------------------------------
(* Sending *)

\* An uncertain request is repeated as it is; otherwise a new one is made.
Request(l) == IF phase[view][l] = "uncertain" THEN held[view][l] ELSE drawn + 1

\* Journaled first: a request that cannot be preserved is not sent.
Send(l) ==
    LET key == Request(l) IN
    \/ /\ Write(view, Journaled(view, l, key))
       /\ Becomes(view, l, "sending", key)
       /\ wire' = wire \cup {[view |-> view, key |-> key, verdict |-> "none"]}
       /\ marks' = [marks EXCEPT !.crossed = @ \cup {q.key : q \in {x \in wire : x.key = key}},
                                 !.disturbed = @ \cup Disturbed(Journaled(view, l, key), key)]
    \/ WriteFails /\ UNCHANGED <<phase, held, wire, marks>>

\* One command of a lane at a time: pressing again meanwhile joins the one under way.
Free(l) == phase[view][l] # "sending"

Submit(l, question) ==
    LET key == Request(l) IN
    /\ Free(l)
    /\ key \in RequestKeys
    /\ drawn' = IF key > drawn THEN key ELSE drawn
    /\ laneOf' = [laneOf EXCEPT ![key] = l]
    /\ asked' = IF key > drawn THEN [asked EXCEPT ![key] = question] ELSE asked
    /\ Send(l)
    /\ UNCHANGED <<admitted, typed, composer, view, oldest, told, denied>>

\* A Run asks the question in the Ask box; a lane that is uncertain may be retried with
\* the box empty.
Run == (composer # 0 \/ phase[view][Composer] = "uncertain") /\ Submit(Composer, composer)

RunMachine == \E l \in Machines : Submit(l, 0)
Spawn      == \E l \in Cards : Submit(l, 0)
Update     == \E l \in Answers : Submit(l, 0)
RetryRun   == \E l \in Stopped : Submit(l, 0)

Type ==
    /\ typed < MaxPrompts
    /\ typed' = typed + 1 /\ composer' = typed + 1
    /\ UNCHANGED <<drawn, laneOf, asked, told, denied, marks, serverVars,
                   stored, view, oldest, phase, held, entries>>

-----------------------------------------------------------------------------
(* The server *)

\* Nobody waits for the answer of a request that was given up.
Verdict(r, v) == wire' = (wire \ {r}) \cup (IF r.view = Gone THEN {} ELSE {[r EXCEPT !.verdict = v]})

\* A key that was admitted returns its receipt; a new one is admitted or refused.
Decides(r, v) ==
    \/ v = "receipt" /\ admitted' = admitted \cup {r.key}
    \/ v = "refusal" /\ r.key \notin admitted /\ UNCHANGED admitted

Serve(r) ==
    /\ r.verdict = "none"
    /\ \E v \in {"receipt", "refusal"} : Decides(r, v) /\ Verdict(r, v)
    /\ UNCHANGED <<drawn, laneOf, asked, typed, told, denied, marks, browserVars>>

\* What stands before the lookup of the key: sources of the request that the replica cannot
\* synchronize, a session that ended, the rate limit, a machine taken off the brane.
RefuseUnread(r) ==
    /\ r.verdict = "none" /\ Causes # {}
    /\ Verdict(r, "refusal")
    /\ marks' = [marks EXCEPT !.unread = @ \cup {r.key}]
    /\ UNCHANGED <<drawn, laneOf, asked, typed, told, denied, browserVars, admitted>>

-----------------------------------------------------------------------------
(* Answers *)

Running(r) == r.view \in oldest..view
Forgets(r) ==
    LET journal == Journaled(r.view, laneOf[r.key], NoKey) IN
    /\ Write(r.view, journal)
    /\ marks' = [marks EXCEPT !.disturbed = @ \cup Disturbed(journal, r.key)]

\* An accepted question leaves the Ask box unless another has been typed, or the view it
\* was asked from is closed.
Cleared(r) ==
    IF laneOf[r.key] = Composer /\ r.view = view /\ composer = asked[r.key] THEN 0 ELSE composer

\* A receipt retires the journal.  If that fails the request is kept, to be repeated.
Accept(r) ==
    /\ r.verdict = "receipt" /\ Running(r)
    /\ wire' = wire \ {r}
    /\ \/ /\ Forgets(r)
          /\ Becomes(r.view, laneOf[r.key], "accepted", NoKey)
          /\ told' = told \cup {r.key}
          /\ composer' = Cleared(r)
       \/ /\ WriteFails
          /\ Becomes(r.view, laneOf[r.key], "uncertain", r.key)
          /\ UNCHANGED <<told, marks, composer>>
    /\ UNCHANGED <<drawn, laneOf, asked, typed, denied, admitted, view, oldest>>

\* A definite refusal does so as well.
Reject(r) ==
    /\ r.verdict = "refusal" /\ Running(r)
    /\ wire' = wire \ {r}
    /\ \/ /\ Forgets(r)
          /\ Becomes(r.view, laneOf[r.key], "rejected", NoKey)
          /\ denied' = denied \cup {r.key}
       \/ /\ WriteFails
          /\ Becomes(r.view, laneOf[r.key], "uncertain", r.key)
          /\ UNCHANGED <<denied, marks>>
    /\ UNCHANGED <<drawn, laneOf, asked, typed, told, admitted, composer, view, oldest>>

\* Fault: no answer counts as a refusal.
FailRefused(r) ==
    /\ Forgets(r)
    /\ Becomes(r.view, laneOf[r.key], "rejected", NoKey)

FailUncertain(r) == WriteFails /\ Becomes(r.view, laneOf[r.key], "uncertain", r.key) /\ UNCHANGED marks

\* A request given up before it was answered is on its way still.
GivenUp(S) == {[r EXCEPT !.view = Gone] : r \in {x \in S : x.verdict = "none"}}

\* No answer in time, or one that cannot be read: the request may have been admitted, or may yet be.
Lose(r) ==
    /\ Running(r)
    /\ wire' = (wire \ {r}) \cup GivenUp({r})
    /\ FailUncertain(r)
    /\ UNCHANGED <<drawn, laneOf, asked, typed, told, denied, admitted, composer, view, oldest>>

-----------------------------------------------------------------------------
(* Views *)

Restored(l) == [phase |-> IF stored[l] = NoKey THEN "idle" ELSE "uncertain", key |-> stored[l]]

Open ==
    /\ view < MaxViews
    /\ view' = view + 1
    /\ phase' = [phase EXCEPT ![view + 1] = [l \in Lanes |-> Restored(l).phase]]
    /\ held' = [held EXCEPT ![view + 1] = [l \in Lanes |-> Restored(l).key]]
    /\ entries' = [entries EXCEPT ![view + 1] = stored]
    /\ UNCHANGED <<drawn, laneOf, asked, typed, told, denied, admitted, stored, composer>>

\* Reloading the page ends the views; nobody waits for their requests any more.
Reload == Open /\ oldest' = view + 1 /\ wire' = GivenUp(wire) /\ UNCHANGED marks

\* The new view holds what the one left behind still asks for.
Return ==
    /\ Returns /\ Open
    /\ marks' = [marks EXCEPT !.crossed = @ \cup {r.key : r \in wire}]
    /\ UNCHANGED <<oldest, wire>>

Next ==
    \/ Run \/ RunMachine \/ Spawn \/ Update \/ RetryRun \/ Type
    \/ \E r \in wire : Serve(r) \/ RefuseUnread(r) \/ Accept(r) \/ Reject(r) \/ Lose(r)
    \/ Reload \/ Return

Spec == Init /\ [][Next]_vars

-----------------------------------------------------------------------------
(* Properties *)

\* A refusal of these need not mean that no run is admitted: it was given before the key was looked
\* up, or the key was asked for by two requests, or held by two views, at a time.
Blurred == marks.unread \cup marks.crossed

\* A request that was admitted and whose receipt has not reached the browser is in the
\* journal of its lane: whatever happens to the page, it can be repeated under its key
\* (request-journal.ts:1 "Persist before transport").  Excepted is what the code gives up: a blurred key
\* that was refused (submission.ts:49-57), and one that another view's copy of the journal has
\* written over or brought back (request-journal.ts:46).
Recoverable ==
    \A k \in admitted \ (told \cup marks.disturbed) : stored[laneOf[k]] = k \/ k \in denied \cap Blurred

\* A press is refused to the person only if no run is admitted for it, then or later: the next press
\* is a new run, with a new key (submission.ts:49, runs.ts:93 and :675).  Excepted are blurred keys,
\* and those brought back by another view's copy of the journal, to be repeated after their refusal.
NeverDenied == denied \cap admitted \subseteq Blurred \cup marks.disturbed

\* "Losing an acknowledgement must not create a new operation key" (request-journal.ts:1), of requests
\* that were out one at a time.  It is false: a refusal given before the key is looked up deletes the
\* journal's entry of a request that was admitted (submission.ts:49-57).
SameKey ==
    \A k \in admitted \ (told \cup marks.disturbed \cup marks.crossed) : stored[laneOf[k]] = k

\* A question leaves the Ask box only for a newer one or because the server has admitted
\* it: what was typed while an older request was repeated stays (workspace.ts:834).
QuestionKept ==
    [][composer # 0 /\ composer' = 0 => \E k \in told' : asked[k] = composer]_vars

===============================================================================
