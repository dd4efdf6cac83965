---------------------------- MODULE OutboxConflicts ----------------------------
(***************************************************************************)
(* The outbox with a person who reviews what was refused: retry, and       *)
(* resolveConflict of src/services/replica.ts, which rebuilds the local    *)
(* projection from the server and rebases, drops or copies what was        *)
(* written to the refused item.                                            *)
(*                                                                         *)
(* A resolution holds the lock of the library that every dispatch shares:  *)
(* it waits for the requests in flight, and none is sent before it is      *)
(* over.  Writing goes on meanwhile.                                       *)
(***************************************************************************)
EXTENDS Outbox

CONSTANT Sides     \* what the person chooses: "local" text or that of the "server"

ASSUME ChoicesAssumption == Sides \subseteq {"local", "server"}

VARIABLE resolution  \* the review under way

conflictVars == <<vars, resolution>>

NoReview == [phase |-> "idle", key |-> 0, choice |-> None, kept |-> None, brane |-> None]

Reviewing == resolution.phase # "idle"

CTypeOK ==
    /\ TypeOK
    /\ resolution.phase \in {"idle", "fetching", "fetched"}
    /\ resolution.key \in Keys \cup {0}
    /\ resolution.choice \in Sides \cup {None}
    /\ resolution.kept \in Texts \cup {Empty, None}

CInit == Init /\ resolution = NoReview

-----------------------------------------------------------------------------
(* The operations a resolution concerns *)

\* A block and its card are separate items.
Entity(cmd) == <<IF cmd.type = "remove" THEN "placement" ELSE "block", cmd.block>>

\* Fault: whatever is discarded takes along what concerns its block.
DiscardedAlways(op, head) == op.cmd.block = head.cmd.block

\* A discarded creation takes every later operation on what it would have created.
Discarded(op, head) == head.cmd.type = "create" /\ op.cmd.block = head.cmd.block

\* Fault: only the refused operation is rebased, not the later ones on its item.
ConcernsAlone(op, head) == head.cmd.type # "create" /\ op.key = head.key

Concerns(op, head) == head.cmd.type # "create" /\ Entity(op.cmd) = Entity(head.cmd)

-----------------------------------------------------------------------------
(* Rebuilding the projection, one operation of the outbox after the other *)

\* What has been rebuilt: the cache, the new outbox, and the keys drawn.
Rebuilt(cache, cards, queue, keys) ==
    [local |-> cache, shown |-> cards, pending |-> queue, drawn |-> keys]

\* An operation that can no longer be projected is paused for a review of its own.
Queue(acc, op) ==
    LET paused == IF op.failure = None /\ ~Projectable(op.cmd, acc.local) THEN "absent" ELSE op.failure IN
    [acc EXCEPT !.local = ProjectText(op.cmd, acc.local),
                !.shown = ProjectCard(op.cmd, acc.shown),
                !.pending = Append(acc.pending, [op EXCEPT !.failure = paused])]

\* A rebased operation is a new one.
Rekeyed(acc, cmd) ==
    LET next == Queue(acc, Operation(acc.drawn + 1, cmd)) IN
    [next EXCEPT !.drawn = acc.drawn + 1]

\* An edit is rebased on the cached version; a removal of a card that is gone is done.
Rebase(acc, op) ==
    LET b == op.cmd.block IN
    CASE op.cmd.type = "edit"   -> Rekeyed(acc, Edit(b, op.cmd.text, acc.local[b].version, acc.local[b].text))
      [] op.cmd.type = "remove" -> IF acc.shown[b] THEN Rekeyed(acc, op.cmd) ELSE acc
      [] op.cmd.type = "create" -> Rekeyed(acc, op.cmd)

Rebuild(head, choice, brane) ==
    LET start == Rebuilt(brane, [b \in Blocks |-> brane[b] # None], <<>>, drawn)
        step(acc, op) ==
            IF Discarded(op, head) \/ (Concerns(op, head) /\ choice = "server") THEN acc
            ELSE IF Concerns(op, head) THEN Rebase(acc, op)
            ELSE Queue(acc, op)
    IN  FoldLeft(step, start, pending)

\* Choosing the server's text keeps the local text as a new card beside the original, if
\* the original is on the brane and its text differs.
NeedsCopy(acc, b, kept) ==
    /\ kept \notin {None, Empty} /\ shown[b]
    /\ acc.local[b] # None => acc.local[b].text # kept

Copied(acc, kept, copy) == Rekeyed(Rekeyed(acc, Create(copy)), Edit(copy, kept, 0, Empty))

-----------------------------------------------------------------------------
(* The person *)

\* Retry: a paused operation is attempted again as it is.
Retry(i) ==
    /\ pending[i].failure # None
    /\ pending' = [pending EXCEPT ![i].failure = None]
    /\ UNCHANGED <<server, local, shown, drawn, forgotten, network, elsewhere, lost, resolution>>

\* A refused creation can only be discarded.  The text to keep is read before the server
\* is asked.
BeginReview(i, choice) ==
    LET op == pending[i]
        b  == op.cmd.block
    IN
    /\ ~Reviewing /\ \A c \in calls : ~c.live
    /\ op.failure # None
    /\ op.cmd.type = "create" => choice = "server"
    /\ resolution' = [phase |-> "fetching", key |-> op.key, choice |-> choice, brane |-> None,
                      kept |-> IF choice = "server" /\ op.cmd.type = "edit" /\ local[b] # None
                               THEN local[b].text ELSE None]
    /\ UNCHANGED vars

Fetch ==
    /\ resolution.phase = "fetching"
    /\ resolution' = [resolution EXCEPT !.phase = "fetched", !.brane = ServerBrane]
    /\ UNCHANGED vars

\* The fetch fails, or the tab is closed.
Abandon == Reviewing /\ resolution' = NoReview /\ UNCHANGED vars

\* The source of a text the person wants to keep is gone from the server.
SourceGone(head) ==
    head.cmd.type = "edit" /\ resolution.choice = "local" /\ resolution.brane[head.cmd.block] = None

\* One storage change replaces the projection and the outbox.
FinishReview(i, copy) ==
    LET head == pending[i]
        kept == resolution.kept
        base == Rebuild(head, resolution.choice, resolution.brane)
        copying == NeedsCopy(base, head.cmd.block, kept)
        acc  == IF copying THEN Copied(base, kept, copy) ELSE base
    IN
    /\ resolution.phase = "fetched"
    /\ head.key = resolution.key /\ head.failure # None
    /\ ~SourceGone(head)
    /\ copying => Unused(copy)
    /\ acc.drawn <= MaxKeys
    /\ local' = acc.local /\ shown' = acc.shown /\ pending' = acc.pending /\ drawn' = acc.drawn
    /\ reads' = Outdated(reads)
    /\ resolution' = NoReview
    /\ UNCHANGED <<server, forgotten, calls, elsewhere, lost>>

CNext ==
    \/ (Person \/ Elsewhere \/ Reading \/ Serving \/ Settling \/ Failing) /\ UNCHANGED resolution
    \/ ~Reviewing /\ Sending /\ UNCHANGED resolution
    \/ \E i \in 1..Len(pending) : Retry(i) \/ \E choice \in Sides : BeginReview(i, choice)
    \/ Fetch \/ Abandon
    \/ \E i \in 1..Len(pending), copy \in Blocks : FinishReview(i, copy)

CSpec == CInit /\ [][CNext]_conflictVars

-----------------------------------------------------------------------------
(* Safety *)

\* A text is somewhere: in an edit of the outbox, or in the history of the server.
Written(text) ==
    \/ \E i \in 1..Len(pending) : pending[i].cmd.type = "edit" /\ pending[i].cmd.text = text
    \/ \E b \in Blocks : \E v \in 1..Len(history[b]) : history[b][v].text = text

Creating(b) == \E i \in 1..Len(pending) : Touches(pending[i], {"create"}, b)

\* The operation holds the text written last in its card.
LastEdit(i) ==
    /\ pending[i].cmd.type = "edit"
    /\ \A j \in (i + 1)..Len(pending) : ~Touches(pending[j], {"edit"}, pending[i].cmd.block)

\* The creation of a card was refused and is discarded, and its text with it.
CardDiscarded(b) == Creating(b) /\ ~Creating(b)'

\* The server's text is chosen over one that is not on the brane, or was typed after the
\* review began.
Unsaved(cmd) ==
    /\ resolution.choice = "server"
    /\ ~shown[cmd.block] \/ resolution.kept # cmd.text

\* What resolveConflict keeps: no review, with whatever is written, read and changed
\* elsewhere during it, loses the last text of a card that is on the brane as the review
\* begins and ends.
WritingSurvives ==
    [][\A i \in 1..Len(pending) : \A cmd \in {pending[i].cmd} :
          LastEdit(i) => \/ Written(cmd.text)'
                         \/ CardDiscarded(cmd.block)
                         \/ Unsaved(cmd)]_conflictVars

=============================================================================
