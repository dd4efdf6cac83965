------------------------------ MODULE TextSaves ------------------------------
(***************************************************************************)
(* Text from the keyboard to the server: the drafts of                     *)
(* src/stores/interaction.ts, the lanes of src/services/text-saves.ts and  *)
(* the commands of src/services/workspace.ts over them.                    *)
(*                                                                         *)
(* Saving a text writes it to the replica, whose outbox carries it to the  *)
(* server; a run carries the texts of all its sources to the server itself *)
(* and the replica learns their versions from its receipt.  Both check the *)
(* version the text was written over.  A command reserves the lanes of its *)
(* blocks when it is made and waits for the earlier commands of any of     *)
(* them.  Another device writes to the server.                             *)
(***************************************************************************)
EXTENDS Integers, Sequences, FiniteSets, SequencesExt

CONSTANTS
    Blocks,
    MaxTyped,    \* bound: texts typed
    MaxElse,     \* bound: texts written by the other device
    MaxPressed,  \* bound: runs pressed
    MaxQueue     \* bound: commands under way at a time

ASSUME TextSavesAssumption ==
    Blocks # {} /\ {MaxTyped, MaxElse, MaxPressed, MaxQueue} \subseteq Nat

VARIABLES
    server,     \* the server's text and version of each block
    local,      \* the replica's, with the edits it has not sent,
    outbox,
    paused,     \* and the blocks of which one was refused
    shown,      \* what the controller shows,
    accepted,   \* the newest it has seen acknowledged,
    own,        \* and the versions it is known to have replaced itself
    draft,      \* the unsaved text of each block, if any
    queue,      \* commands, in the order in which they reserved their lanes
    reading,    \* an answer to a read, on its way to the replica
    count,      \* texts typed, written elsewhere, and runs pressed
    others,     \* history: versions of each block written elsewhere,
    written,    \* texts of each block the replica or the server has taken,
    last,       \* the last text typed into each block (-1: given up),
    retyped,    \* the blocks where it is the one shown, typed back during a command of the block,
    blind       \* and whether a text replaced one its writer had not seen

storeVars == <<server, local, outbox, paused>>
viewVars  == <<shown, accepted, own>>
historyVars == <<others, written, last, retyped, blind>>
vars == <<storeVars, viewVars, draft, queue, reading, count, historyVars>>

Texts == 0 .. MaxTyped + MaxElse
GivenUp == -1
State == [text : Texts, version : Nat]
NoDraft == [key |-> 0, text |-> 0, version |-> 0]
NoRead == [texts |-> <<>>, stale |-> FALSE]

TypeOK ==
    /\ {server, local, shown, accepted} \subseteq [Blocks -> State]
    /\ paused \subseteq Blocks /\ \A o \in own : o \in Blocks \X Nat
    /\ \A i \in DOMAIN outbox : outbox[i].block \in Blocks /\ outbox[i].edit.text \in Texts
    /\ \A b \in Blocks : draft[b].key \in Texts /\ draft[b].text \in Texts
    /\ Len(queue) <= MaxQueue
    /\ \A i \in DOMAIN queue :
          /\ queue[i].kind \in {"save", "run"}
          /\ queue[i].phase \in {"waiting", "sent", "admitted", "applied", "refused"}
          /\ \A b \in DOMAIN queue[i].edits :
                b \in Blocks /\ queue[i].edits[b].base <= queue[i].edits[b].version
    /\ DOMAIN reading.texts \in {{}, Blocks} /\ reading.stale \in BOOLEAN
    /\ count \in [typed : 0..MaxTyped, elsewhere : 0..MaxElse, pressed : 0..MaxPressed]
    /\ \A b \in Blocks : last[b] \in Texts \cup {GivenUp} /\ written[b] \subseteq Texts
    /\ retyped \subseteq Blocks /\ blind \in BOOLEAN

Init ==
    LET start == [b \in Blocks |-> [text |-> 0, version |-> 0]] IN
    /\ server = start /\ local = start /\ shown = start /\ accepted = start
    /\ outbox = <<>> /\ paused = {} /\ own = {}
    /\ draft = [b \in Blocks |-> NoDraft]
    /\ queue = <<>> /\ reading = NoRead
    /\ count = [typed |-> 0, elsewhere |-> 0, pressed |-> 0]
    /\ others = [b \in Blocks |-> {}]
    /\ written = [b \in Blocks |-> {0}]
    /\ last = [b \in Blocks |-> 0]
    /\ retyped = {}
    /\ blind = FALSE

-----------------------------------------------------------------------------
(* Drafts *)

HasDraft(b) == draft[b] # NoDraft
SavedDraft(b) == draft[b].text = shown[b].text
Conflict(b) == ~SavedDraft(b) /\ draft[b].version # shown[b].version

UnderWay(b) == \E i \in DOMAIN queue : b \in DOMAIN queue[i].edits

\* A draft keeps its key and the version it was begun over, however long it is typed.  The text
\* is one never typed before, or the very one that is shown.
Type(b) ==
    /\ count.typed < MaxTyped
    /\ count' = [count EXCEPT !.typed = @ + 1]
    /\ \E text \in {MaxElse + count'.typed, shown[b].text} :
       /\ draft' = [draft EXCEPT ![b] =
            IF HasDraft(b) THEN [@ EXCEPT !.text = text]
            ELSE [key |-> count'.typed, text |-> text, version |-> shown[b].version]]
       /\ last' = [last EXCEPT ![b] = text]
       /\ retyped' = IF text = shown[b].text /\ UnderWay(b) THEN retyped \cup {b} ELSE retyped \ {b}
    /\ UNCHANGED <<storeVars, viewVars, queue, reading, others, written, blind>>

\* Use the server's text: the person gives up the draft.
UseServerText(b) ==
    /\ HasDraft(b) /\ Conflict(b)
    /\ draft' = [draft EXCEPT ![b] = NoDraft]
    /\ last' = [last EXCEPT ![b] = GivenUp]
    /\ UNCHANGED <<storeVars, viewVars, queue, reading, count, others, written, retyped, blind>>

-----------------------------------------------------------------------------
(* Commands *)

\* base is the version the writer had seen, version the one the text is written over, saved the
\* one it then has.
Entry(b, text, base) ==
    [key |-> draft[b].key, text |-> text, version |-> base, base |-> base, saved |-> base]
Enqueue(kind, edits) ==
    /\ Len(queue) < MaxQueue
    /\ queue' = Append(queue, [kind |-> kind, phase |-> "waiting", edits |-> edits])

\* Saving drops a draft the server already has, and leaves one in conflict.
SaveBlock(b) ==
    /\ HasDraft(b)
    /\ \/ /\ SavedDraft(b)
          /\ draft' = [draft EXCEPT ![b] = NoDraft]
          /\ UNCHANGED queue
       \/ /\ ~SavedDraft(b) /\ ~Conflict(b)
          /\ Enqueue("save", [x \in {b} |-> Entry(b, draft[b].text, draft[b].version)])
          /\ UNCHANGED draft
    /\ UNCHANGED <<storeVars, viewVars, reading, count, historyVars>>

\* Keep my text: the draft is rebased on the text shown beside it, and saved.
OverwriteDraft(b) ==
    /\ HasDraft(b) /\ Conflict(b)
    /\ draft' = [draft EXCEPT ![b].version = shown[b].version]
    /\ Enqueue("save", [x \in {b} |-> Entry(b, draft[b].text, shown[b].version)])
    /\ UNCHANGED <<storeVars, viewVars, reading, count, historyVars>>

\* The text and version of every source, drafts included.
Edits(S) ==
    [b \in S |-> IF HasDraft(b) /\ ~SavedDraft(b) THEN Entry(b, draft[b].text, draft[b].version)
                 ELSE Entry(b, shown[b].text, shown[b].version)]

\* A run is not sent while one of its sources is in conflict.
Run(S) ==
    /\ count.pressed < MaxPressed
    /\ count' = [count EXCEPT !.pressed = @ + 1]
    /\ \A b \in S : HasDraft(b) => ~Conflict(b)
    /\ Enqueue("run", Edits(S))
    /\ UNCHANGED <<storeVars, viewVars, draft, reading, historyVars>>

\* Fault: a run takes the lane of one source only.
FirstAlone(i) == \A j \in 1..(i - 1) : DOMAIN queue[j].edits # DOMAIN queue[i].edits

\* Earlier commands of a lane come first; a command of several blocks is a barrier in each.
First(i) == \A j \in 1..(i - 1) : DOMAIN queue[j].edits \cap DOMAIN queue[i].edits = {}

\* The expected version moves on over the writes of this controller only, to the first it did not
\* replace: the expected one itself, or one that a write of its own made.
AfterOwnWrites(b, e) ==
    LET made == {o[2] + 1 : o \in own}
    IN  [e EXCEPT !.version = CHOOSE v \in {e.version} \cup made :
            /\ e.version <= v /\ <<b, v>> \notin own
            /\ \A u \in e.version .. v - 1 : <<b, u>> \in own]

-----------------------------------------------------------------------------
(* The replica and the server *)

\* Writing the text that is there changes nothing, not even its version.
Edited(state, text) ==
    [text |-> text, version |-> state.version + (IF state.text = text THEN 0 ELSE 1)]

\* A version written elsewhere, after the one the writer had seen, is replaced.
Unseen(b, e, state) == state.text # e.text /\ \E v \in others[b] : e.base < v /\ v <= e.version

Taken(edits) ==
    [b \in Blocks |-> IF b \in DOMAIN edits THEN written[b] \cup {edits[b].text} ELSE written[b]]
Overtaken == IF reading = NoRead THEN NoRead ELSE [reading EXCEPT !.stale = TRUE]
Saving(i, b) == queue[i].kind = "save" /\ queue[i].phase = "waiting" /\ DOMAIN queue[i].edits = {b}

\* The command moves on.
Turn(i, phase, edits) == queue' = [queue EXCEPT ![i] = [@ EXCEPT !.phase = phase, !.edits = edits]]

\* A save whose draft is gone writes nothing.
Abandon(i, b) ==
    /\ Saving(i, b) /\ First(i) /\ draft[b].key # queue[i].edits[b].key
    /\ queue' = RemoveAt(queue, i)
    /\ UNCHANGED <<storeVars, viewVars, draft, reading, count, historyVars>>

\* A save writes the replica and its outbox at once.
Save(i, b) ==
    /\ Saving(i, b) /\ First(i) /\ draft[b].key = queue[i].edits[b].key
    /\ LET e == AfterOwnWrites(b, queue[i].edits[b])
           edit == [e EXCEPT !.saved = Edited(local[b], e.text).version]
       IN
       IF local[b].version # e.version
       THEN Turn(i, "refused", queue[i].edits) /\ UNCHANGED <<local, outbox, reading, written>>
       ELSE /\ local' = [local EXCEPT ![b] = Edited(@, e.text)]
            /\ outbox' = Append(outbox, [block |-> b, edit |-> edit])
            /\ Turn(i, "applied", [queue[i].edits EXCEPT ![b] = edit])
            /\ reading' = Overtaken
            /\ written' = Taken(queue[i].edits)
    /\ UNCHANGED <<server, paused, viewVars, draft, count, others, last, retyped, blind>>

SendRun(i) ==
    /\ queue[i].kind = "run" /\ queue[i].phase = "waiting" /\ First(i)
    /\ Turn(i, "sent", [b \in DOMAIN queue[i].edits |-> AfterOwnWrites(b, queue[i].edits[b])])
    /\ UNCHANGED <<storeVars, viewVars, draft, reading, count, historyVars>>

\* The outbox carries its edits in order; one the server refuses pauses its block.
Synchronize ==
    /\ outbox # <<>>
    /\ LET b == Head(outbox).block
           e == Head(outbox).edit
       IN
       /\ outbox' = Tail(outbox)
       /\ IF b \notin paused /\ server[b].version = e.version
          THEN /\ server' = [server EXCEPT ![b] = Edited(@, e.text)]
               /\ reading' = Overtaken
               /\ blind' = (blind \/ Unseen(b, e, server[b]))
               /\ UNCHANGED paused
          ELSE paused' = paused \cup {b} /\ UNCHANGED <<server, reading, blind>>
    /\ UNCHANGED <<local, viewVars, draft, queue, count, others, written, last, retyped>>

\* A run is sent once the edits of its sources have been, and refused while one is paused.
AdmitRun(i) ==
    LET edits == queue[i].edits IN
    /\ queue[i].kind = "run" /\ queue[i].phase = "sent"
    /\ \A n \in DOMAIN outbox : outbox[n].block \notin DOMAIN edits
    /\ IF DOMAIN edits \cap paused = {} /\ \A b \in DOMAIN edits : server[b].version = edits[b].version
       THEN /\ server' = [b \in Blocks |->
                            IF b \in DOMAIN edits THEN Edited(server[b], edits[b].text) ELSE server[b]]
            /\ Turn(i, "admitted", [b \in DOMAIN edits |-> [edits[b] EXCEPT !.saved = server'[b].version]])
            /\ written' = Taken(edits)
            /\ blind' = (blind \/ \E b \in DOMAIN edits : Unseen(b, edits[b], server[b]))
       ELSE Turn(i, "refused", edits) /\ UNCHANGED <<server, written, blind>>
    /\ UNCHANGED <<local, outbox, paused, viewVars, draft, reading, count, others, last, retyped>>

WriteElsewhere(b) ==
    /\ count.elsewhere < MaxElse
    /\ count' = [count EXCEPT !.elsewhere = @ + 1]
    /\ server' = [server EXCEPT ![b] = [text |-> count'.elsewhere, version |-> @.version + 1]]
    /\ others' = [others EXCEPT ![b] = @ \cup {server'[b].version}]
    /\ written' = [written EXCEPT ![b] = @ \cup {server'[b].text}]
    /\ UNCHANGED <<local, outbox, paused, viewVars, draft, queue, reading, last, retyped, blind>>

-----------------------------------------------------------------------------
(* Reads *)

\* What is shown of a block just read: never older than what was acknowledged.
Reconcile(b, state) == IF accepted[b].version > state.version THEN accepted[b] ELSE state

Show(states) ==
    /\ shown' = [b \in Blocks |-> Reconcile(b, states[b])]
    /\ accepted' = [b \in Blocks |->
                      IF states[b].version > accepted[b].version THEN states[b] ELSE accepted[b]]

Pending(b) == b \in paused \/ \E i \in DOMAIN outbox : outbox[i].block = b

\* While edits wait in the outbox the replica answers itself.
ReadReplica ==
    /\ \E b \in Blocks : Pending(b)
    /\ Show(local)
    /\ UNCHANGED <<storeVars, own, draft, queue, reading, count, historyVars>>

\* The server answers a read when nothing waits, or behind the replica when something is paused.
ReadServer ==
    /\ outbox = <<>> \/ paused # {}
    /\ reading' = [texts |-> server, stale |-> FALSE]
    /\ UNCHANGED <<storeVars, viewVars, draft, queue, count, historyVars>>

\* A read overtaken by a local change installs nothing.  One behind a paused edit shows nothing.
FinishRead ==
    /\ reading # NoRead
    /\ local' = [b \in Blocks |->
                   IF reading.stale \/ Pending(b) \/ local[b].version > reading.texts[b].version
                   THEN local[b] ELSE reading.texts[b]]
    /\ reading' = NoRead
    /\ IF paused = {} THEN Show(local') ELSE UNCHANGED <<shown, accepted>>
    /\ UNCHANGED <<server, outbox, paused, own, draft, queue, count, historyVars>>

-----------------------------------------------------------------------------
(* Acknowledgements *)

\* The replica takes the newer versions of a run's receipt.
LearnReceipt(i) ==
    /\ queue[i].phase = "admitted"
    /\ Turn(i, "applied", queue[i].edits)
    /\ local' = [b \in Blocks |->
                   IF b \in DOMAIN queue[i].edits /\ local[b].version < queue[i].edits[b].saved
                   THEN [text |-> queue[i].edits[b].text, version |-> queue[i].edits[b].saved]
                   ELSE local[b]]
    /\ reading' = Overtaken
    /\ UNCHANGED <<server, outbox, paused, viewVars, draft, count, historyVars>>

\* An acknowledgement clears the draft it carried; one typed on is rebased on it.
Settled(b, e) ==
    IF ~HasDraft(b) \/ draft[b].key # e.key \/ draft[b].version > e.saved THEN draft[b]
    ELSE IF draft[b].text = e.text THEN NoDraft
    ELSE [draft[b] EXCEPT !.version = e.saved]

\* The controller records the versions it replaced and lets go of the lanes.
Acknowledge(i) ==
    LET edits == queue[i].edits
        saved(b) == [text |-> edits[b].text, version |-> edits[b].saved]
        newer(b, state) == IF b \in DOMAIN edits /\ saved(b).version > state.version THEN saved(b) ELSE state
    IN
    /\ queue[i].phase = "applied"
    /\ own' = own \cup {<<b, edits[b].version>> : b \in {x \in DOMAIN edits : edits[x].saved = edits[x].version + 1}}
    /\ accepted' = [b \in Blocks |-> newer(b, accepted[b])]
    /\ shown' = [b \in Blocks |-> newer(b, shown[b])]
    /\ draft' = [b \in Blocks |-> IF b \in DOMAIN edits THEN Settled(b, edits[b]) ELSE draft[b]]
    /\ queue' = RemoveAt(queue, i)
    /\ UNCHANGED <<storeVars, reading, count, historyVars>>

\* A refused command lets go of its lanes; its drafts stay.
Refused(i) ==
    /\ queue[i].phase = "refused"
    /\ queue' = RemoveAt(queue, i)
    /\ UNCHANGED <<storeVars, viewVars, draft, reading, count, historyVars>>

Step(i) ==
    \/ \E b \in Blocks : Abandon(i, b) \/ Save(i, b)
    \/ SendRun(i) \/ AdmitRun(i) \/ LearnReceipt(i) \/ Acknowledge(i) \/ Refused(i)

Next ==
    \/ \E b \in Blocks :
          Type(b) \/ UseServerText(b) \/ SaveBlock(b) \/ OverwriteDraft(b) \/ WriteElsewhere(b)
    \/ \E S \in SUBSET Blocks \ {{}} : Run(S)
    \/ \E i \in DOMAIN queue : Step(i)
    \/ Synchronize \/ ReadReplica \/ ReadServer \/ FinishRead

Spec == Init /\ [][Next]_vars

-----------------------------------------------------------------------------
(* Properties *)

\* A text never replaces one written elsewhere that its writer was not shown: versions move on
\* over the controller's own writes only, however saves, runs and reads interleave
\* (afterOwnWrites, validateBase).
NoBlindOverwrite == ~blind

\* A person's own commands never refuse each other: a save or a run is refused, and an edit
\* paused, only where another device has written (the lanes, afterOwnWrites, acknowledgeEdits).
OwnHarmony ==
    /\ \A b \in paused : others[b] # {}
    /\ \A i \in DOMAIN queue :
          queue[i].phase = "refused" => \E b \in DOMAIN queue[i].edits : others[b] # {}

\* Typing is never lost: the last text typed into a block is in its draft, or the replica or
\* the server took it, or the person gave it up (Controller.acknowledge, clearDraft).
TextKept ==
    \A b \in Blocks :
        (HasDraft(b) /\ draft[b].text = last[b]) \/ last[b] \in written[b] \cup {GivenUp}

\* "Later typing joins behind this snapshot" (Controller.send): once a block has no draft and no
\* command under way, and no other device wrote it, its text is the last one typed.  One that the
\* person typed last is the text still shown, over a command not yet acknowledged, is excepted:
\* saving drops such a draft, and the command's text stays (workspace.ts:668).
LastTypedWins ==
    \A b \in Blocks :
        ~HasDraft(b) /\ last[b] # GivenUp /\ others[b] = {} /\ b \notin retyped /\ ~UnderWay(b)
        => local[b].text = last[b]

\* Edits of one text never overwrite blindly and refuse each other only where another device wrote;
\* what was typed last is kept, and wins but where LastTypedWins excepts it
\* (text-saves.ts:20-140, workspace.ts:560-811).
TextsKept == TypeOK /\ NoBlindOverwrite /\ OwnHarmony /\ TextKept /\ LastTypedWins

=============================================================================
