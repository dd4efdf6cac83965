-------------------------------- MODULE Outbox --------------------------------
(***************************************************************************)
(* The workspace replica of one library and its outbox: what the tabs of a *)
(* browser write locally, how src/services/replica.ts and its scheduler    *)
(* bring it to the server, how server/services/workspace-operations.ts     *)
(* applies it once, and what a later read may replace.                     *)
(*                                                                         *)
(* Three commands stand for the others: a card is created, its text is     *)
(* edited, it is taken off the table.  Every block has one card on one     *)
(* brane.  The tabs share their storage and their locks, so they need no   *)
(* names here: a closed tab is a request nobody waits for.  Other windows  *)
(* of the library, on other devices, write to the server as they please.   *)
(*                                                                         *)
(* Keys are numbered in the order they are drawn.                          *)
(***************************************************************************)
EXTENDS Naturals, Sequences, SequencesExt, FiniteSets

CONSTANTS
    Blocks,        \* the identities blocks may take
    Known,         \* the blocks that are on the brane when it is first opened
    Texts,         \* the texts a person types
    Empty,         \* the text of a new card
    Guest,         \* whether the library is a guest's, whose blocks are limited
    MaxKeys,       \* bound on the operation keys drawn
    MaxElsewhere,  \* bound on the writes of other devices
    MaxReads,      \* bound on the reads in flight
    MaxLost,       \* bound on the requests given up
    None

ASSUME KnownAssumption == Known \subseteq Blocks
ASSUME TextAssumption == Empty \notin Texts
ASSUME GuestAssumption == Guest \in BOOLEAN
ASSUME BoundAssumption == {MaxKeys, MaxElsewhere, MaxReads, MaxLost} \subseteq Nat
\* None is nobody, no answer and no failure, no cached block and no brane.
ASSUME NoneAssumption ==
    /\ None \notin Nat \cup {"conflict", "missing", "used", "reused", "limit", "applied"}
    /\ None \notin [text : Texts \cup {Empty}, version : Nat]
    /\ None \notin [Blocks -> [text : Texts \cup {Empty}, version : Nat] \cup {None}]

VARIABLES
    history,    \* server: the texts of each block, by version, with their author
    card,       \* server: each block's card, "never" and "removed" beside "placed"
    remover,    \* history: the operation that removed the card
    receipts,   \* server: the operations of workspace_operations
    pending,    \* replica: the outbox, oldest first
    local,      \* replica: the cached text and version of each block
    shown,      \* replica: whether the block's card is on the brane
    drawn,      \* replica: how many keys were drawn
    forgotten,  \* history: blocks an answer was installed without while their text was written
    calls,      \* network: operations sent
    reads,      \* network: reads of the brane, oldest first
    elsewhere,  \* how often other devices have written
    lost        \* how many requests were given up

server  == <<history, card, remover, receipts>>
replica == <<pending, local, shown, drawn, forgotten>>
network == <<calls, reads>>
vars    == <<server, replica, network, elsewhere, lost>>

\* The author of what other devices write; operations are authors by their key.
Others == 0

\* A command, its expected version, and, as history, the text its writer saw.
Create(b)                   == [type |-> "create", block |-> b, text |-> Empty, version |-> 0, over |-> Empty]
Edit(b, text, version, old) == [type |-> "edit", block |-> b, text |-> text, version |-> version, over |-> old]
RemoveCard(b)               == [type |-> "remove", block |-> b, text |-> Empty, version |-> 0, over |-> Empty]

Operation(key, cmd) == [key |-> key, cmd |-> cmd, failure |-> None]

Refusals == {"conflict", "missing", "used", "reused", "limit"}

Version(b)    == Len(history[b]) - 1
ServerText(b) == Last(history[b]).text

Keys == 1..MaxKeys

Versions == 0..(MaxKeys + MaxElsewhere)
Cached   == [text : Texts \cup {Empty}, version : Versions]
Commands == [type : {"create", "edit", "remove"}, block : Blocks, text : Texts \cup {Empty},
             version : Versions, over : Texts \cup {Empty}]

TypeOK ==
    /\ \A b \in Blocks : \A i \in 1..Len(history[b]) :
          history[b][i] \in [text : Texts \cup {Empty}, by : Keys \cup {Others}]
    /\ card \in [Blocks -> {"never", "placed", "removed"}]
    /\ remover \in [Blocks -> Keys \cup {Others, None}]
    /\ receipts \subseteq [key : Keys, cmd : Commands]
    /\ \A i \in 1..Len(pending) :
          pending[i] \in [key : Keys, cmd : Commands, failure : Refusals \cup {"absent", None}]
    /\ local \in [Blocks -> Cached \cup {None}]
    /\ shown \in [Blocks -> BOOLEAN]
    /\ drawn \in 0..MaxKeys
    /\ forgotten \subseteq Blocks
    /\ calls \subseteq [key : Keys, cmd : Commands, live : BOOLEAN,
                        answer : Refusals \cup {"applied", None}]
    /\ Len(reads) <= MaxReads
    /\ elsewhere \in 0..MaxElsewhere /\ lost \in 0..MaxLost

Init ==
    /\ history = [b \in Blocks |-> IF b \in Known THEN <<[text |-> Empty, by |-> Others]>> ELSE <<>>]
    /\ card = [b \in Blocks |-> IF b \in Known THEN "placed" ELSE "never"]
    /\ remover = [b \in Blocks |-> None]
    /\ receipts = {}
    /\ pending = <<>>
    /\ local = [b \in Blocks |-> IF b \in Known THEN [text |-> Empty, version |-> 0] ELSE None]
    /\ shown = [b \in Blocks |-> b \in Known]
    /\ drawn = 0 /\ forgotten = {}
    /\ calls = {} /\ reads = <<>>
    /\ elsewhere = 0 /\ lost = 0

-----------------------------------------------------------------------------
(* The local projection *)

\* An edit that changes nothing makes no new version, here and on the server.
NextVersion(cmd, cached) == IF cmd.text = cached.text THEN cmd.version ELSE cmd.version + 1

\* An operation whose block is not cached cannot be projected.
Projectable(cmd, cache) == cmd.type = "edit" => cache[cmd.block] # None

\* What a command does to the cached blocks.  A removed card's text stays cached.
ProjectText(cmd, cache) ==
    LET b == cmd.block IN
    CASE cmd.type = "create" /\ cache[b] = None ->
            [cache EXCEPT ![b] = [text |-> Empty, version |-> 0]]
      [] cmd.type = "edit" /\ cache[b] # None ->
            [cache EXCEPT ![b] = [text |-> cmd.text, version |-> NextVersion(cmd, cache[b])]]
      [] OTHER -> cache

ProjectCard(cmd, cards) ==
    CASE cmd.type = "create" -> [cards EXCEPT ![cmd.block] = TRUE]
      [] cmd.type = "remove" -> [cards EXCEPT ![cmd.block] = FALSE]
      [] OTHER               -> cards

Touches(op, types, b) == op.cmd.type \in types /\ op.cmd.block = b

\* The blocks whose text, and those whose card, awaits synchronization.
PendingText == {b \in Blocks : \E i \in 1..Len(pending) : Touches(pending[i], {"create", "edit"}, b)}
PendingCard == {b \in Blocks : \E i \in 1..Len(pending) : Touches(pending[i], {"create", "remove"}, b)}

-----------------------------------------------------------------------------
(* Writing locally: the projection and the operation are one storage change, which
   makes the answers of reads under way too old to install. *)

Outdated(rs) == [i \in 1..Len(rs) |-> [rs[i] EXCEPT !.current = FALSE]]

Write(cmd) ==
    /\ drawn < MaxKeys
    /\ drawn' = drawn + 1
    /\ pending' = Append(pending, Operation(drawn + 1, cmd))
    /\ local' = ProjectText(cmd, local)
    /\ shown' = ProjectCard(cmd, shown)
    /\ reads' = Outdated(reads)
    /\ UNCHANGED <<server, forgotten, calls, elsewhere, lost>>

\* A new card takes an identity nothing has used.
Unused(b) ==
    /\ history[b] = <<>> /\ local[b] = None
    /\ \A i \in 1..Len(pending) : pending[i].cmd.block # b
    /\ \A c \in calls : c.cmd.block # b

CreateCard(b) == Unused(b) /\ Write(Create(b))

\* An edit expects the cached version; a tab that shows an older one is refused at once.
EditText(b, text) ==
    /\ local[b] # None
    /\ Write(Edit(b, text, local[b].version, local[b].text))

TakeOff(b) == shown[b] /\ Write(RemoveCard(b))

-----------------------------------------------------------------------------
(* The scheduler *)

\* Two commands use a common resource and one of them writes it: a creation writes the
\* block and its card, an edit the block's text, a removal the card.
Conflicts(c, d) ==
    /\ c.block = d.block
    /\ {c.type, d.type} # {"edit", "remove"}

Waits(i) == \E j \in 1..(i - 1) : Conflicts(pending[j].cmd, pending[i].cmd)

\* Fault: a request given up keeps the lock.
Unanswered(key) == \E c \in calls : c.key = key

\* The lock of an operation keeps two tabs from sending it at the same time.
InFlight(key) == \E c \in calls : c.key = key /\ c.live

Dispatch(i) ==
    LET op == pending[i] IN
    /\ op.failure = None /\ ~Waits(i) /\ ~InFlight(op.key)
    /\ calls' = calls \cup {[key |-> op.key, cmd |-> op.cmd, live |-> TRUE, answer |-> None]}
    /\ UNCHANGED <<server, replica, reads, elsewhere, lost>>

\* The outbox without an operation, which is in it once: keys are drawn once.
Without(ops, key) ==
    IF \E i \in 1..Len(ops) : ops[i].key = key
    THEN RemoveAt(ops, CHOOSE i \in 1..Len(ops) : ops[i].key = key)
    ELSE ops

\* An applied operation leaves the outbox.
Acknowledge(c) ==
    /\ c.live /\ c.answer = "applied"
    /\ calls' = calls \ {c}
    /\ pending' = Without(pending, c.key)
    /\ reads' = Outdated(reads)
    /\ UNCHANGED <<server, local, shown, drawn, forgotten, elsewhere, lost>>

\* A refusal pauses the operation, and with it those that wait for it.
Pause(c) ==
    /\ c.live /\ c.answer \in Refusals
    /\ calls' = calls \ {c}
    /\ pending' = [i \in 1..Len(pending) |->
                      IF pending[i].key = c.key THEN [pending[i] EXCEPT !.failure = c.answer]
                      ELSE pending[i]]
    /\ UNCHANGED <<server, local, shown, drawn, forgotten, reads, elsewhere, lost>>

\* The request times out, its answer is lost, or its tab is closed.  The operation stays
\* in the outbox, and a request still on its way may arrive at any later time.
GiveUp(c) ==
    /\ c.live /\ lost < MaxLost
    /\ lost' = lost + 1
    /\ calls' = (calls \ {c}) \cup
                (IF c.answer = None THEN {[c EXCEPT !.live = FALSE]} ELSE {})
    /\ UNCHANGED <<server, replica, reads, elsewhere>>

-----------------------------------------------------------------------------
(* The server: an operation and its receipt are one transaction *)

Received(c) == \E r \in receipts : r.key = c.key

\* A guest's library may be full: of operations, of blocks, of text.
Room == IF Guest THEN {"limit"} ELSE {}

\* Fault: the expected version of an edit is not compared.
AnswersUnversioned(cmd) ==
    LET b == cmd.block IN
    Room \cup CASE cmd.type = "create" -> {IF history[b] # <<>> THEN "used" ELSE "applied"}
                [] cmd.type = "edit"   -> {IF history[b] = <<>> THEN "missing" ELSE "applied"}
                [] cmd.type = "remove" -> {IF card[b] # "placed" THEN "missing" ELSE "applied"}

\* What the server may answer to a command it has no receipt of.
Answers(cmd) ==
    LET b == cmd.block IN
    Room \cup CASE cmd.type = "create" -> {IF history[b] # <<>> THEN "used" ELSE "applied"}
                [] cmd.type = "edit"   -> {IF history[b] = <<>> THEN "missing"
                                          ELSE IF Version(b) # cmd.version THEN "conflict"
                                          ELSE "applied"}
                [] cmd.type = "remove" -> {IF card[b] # "placed" THEN "missing" ELSE "applied"}

\* Nobody waits for the answer of a request that was given up.
Answer(c, answer) ==
    calls' = (calls \ {c}) \cup (IF c.live THEN {[c EXCEPT !.answer = answer]} ELSE {})

Apply(c) ==
    LET b == c.cmd.block
        change(k) == c.cmd.type = k
    IN
    /\ c.answer = None /\ ~Received(c) /\ "applied" \in Answers(c.cmd)
    /\ history' = IF change("create") \/ (change("edit") /\ c.cmd.text # ServerText(b))
                  THEN [history EXCEPT ![b] = Append(@, [text |-> c.cmd.text, by |-> c.key])]
                  ELSE history
    /\ card' = CASE change("create") -> [card EXCEPT ![b] = "placed"]
                 [] change("remove") -> [card EXCEPT ![b] = "removed"]
                 [] OTHER            -> card
    /\ remover' = IF change("remove") THEN [remover EXCEPT ![b] = c.key] ELSE remover
    /\ receipts' = receipts \cup {[key |-> c.key, cmd |-> c.cmd]}
    /\ Answer(c, "applied")
    /\ UNCHANGED <<replica, reads, elsewhere, lost>>

\* A receipt answers a repetition, and refuses other content under its key.
Repeat(c) ==
    /\ c.answer = None /\ Received(c)
    /\ Answer(c, IF [key |-> c.key, cmd |-> c.cmd] \in receipts THEN "applied" ELSE "reused")
    /\ UNCHANGED <<server, replica, reads, elsewhere, lost>>

Refuse(c) ==
    /\ c.answer = None /\ ~Received(c)
    /\ \E refusal \in Answers(c.cmd) \ {"applied"} : Answer(c, refusal)
    /\ UNCHANGED <<server, replica, reads, elsewhere, lost>>

Serve(c) == Apply(c) \/ Repeat(c) \/ Refuse(c)

\* Another device edits a text, or takes a card off.
EditElsewhere(b, text) ==
    /\ elsewhere < MaxElsewhere /\ history[b] # <<>> /\ text # ServerText(b)
    /\ history' = [history EXCEPT ![b] = Append(@, [text |-> text, by |-> Others])]
    /\ elsewhere' = elsewhere + 1
    /\ UNCHANGED <<card, remover, receipts, replica, network, lost>>

RemoveElsewhere(b) ==
    /\ elsewhere < MaxElsewhere /\ card[b] = "placed"
    /\ card' = [card EXCEPT ![b] = "removed"]
    /\ remover' = [remover EXCEPT ![b] = Others]
    /\ elsewhere' = elsewhere + 1
    /\ UNCHANGED <<history, receipts, replica, network, lost>>

-----------------------------------------------------------------------------
(* Reading the brane *)

\* The brane as the server answers it: the blocks whose card is placed.
ServerBrane ==
    [b \in Blocks |-> IF card[b] = "placed" THEN [text |-> ServerText(b), version |-> Version(b)]
                      ELSE None]

\* The cache answers while operations are only in flight; with an empty outbox, or one
\* held up by a refusal, the brane is read as well.
StartRead ==
    /\ Len(reads) < MaxReads
    /\ pending # <<>> => \E i \in 1..Len(pending) : pending[i].failure # None
    /\ reads' = Append(reads, [current |-> TRUE, brane |-> None])
    /\ UNCHANGED <<server, replica, calls, elsewhere, lost>>

AnswerRead(i) ==
    /\ reads[i].brane = None
    /\ reads' = [reads EXCEPT ![i].brane = ServerBrane]
    /\ UNCHANGED <<server, replica, calls, elsewhere, lost>>

\* Pending text is kept; of two versions the newer one.  A block the server does not
\* show stays only under a card that is still to be created.
InstalledText(brane) ==
    [b \in Blocks |->
        CASE brane[b] = None -> IF shown[b] /\ b \in PendingCard THEN local[b] ELSE None
          [] brane[b] # None -> IF local[b] # None /\ (b \in PendingText \/ local[b].version > brane[b].version)
                                THEN local[b] ELSE brane[b]]

InstalledCards(brane) ==
    [b \in Blocks |-> IF b \in PendingCard THEN shown[b] ELSE brane[b] # None]

\* The answer becomes the cache, and answers to earlier reads are too old.  A text that was still
\* being written, and that the brane came without, is forgotten.
Install(i) ==
    /\ local' = InstalledText(reads[i].brane)
    /\ shown' = InstalledCards(reads[i].brane)
    /\ forgotten' = forgotten \cup {b \in PendingText : local[b] # None /\ local'[b] = None}
    /\ reads' = Outdated(SubSeq(reads, 1, i - 1)) \o SubSeq(reads, i + 1, Len(reads))

\* Fault: the local writes made since the read began are not noticed.
FinishReadBlindly(i) ==
    /\ reads[i].brane # None
    /\ Install(i)
    /\ UNCHANGED <<server, pending, drawn, calls, elsewhere, lost>>

\* An answer is installed unless something was written, or a later read installed, since
\* the read began.
FinishRead(i) ==
    /\ reads[i].brane # None
    /\ \/ reads[i].current /\ Install(i)
       \/ /\ ~reads[i].current
          /\ reads' = RemoveAt(reads, i)
          /\ UNCHANGED <<local, shown, forgotten>>
    /\ UNCHANGED <<server, pending, drawn, calls, elsewhere, lost>>

-----------------------------------------------------------------------------

Person == \E b \in Blocks : CreateCard(b) \/ TakeOff(b) \/ \E t \in Texts : EditText(b, t)

Elsewhere == \E b \in Blocks : RemoveElsewhere(b) \/ \E t \in Texts : EditElsewhere(b, t)

Reading == StartRead \/ \E i \in 1..Len(reads) : AnswerRead(i) \/ FinishRead(i)

Sending  == \E i \in 1..Len(pending) : Dispatch(i)
Serving  == \E c \in calls : Serve(c)
Settling == \E c \in calls : Acknowledge(c) \/ Pause(c)
Failing  == \E c \in calls : GiveUp(c)

Next == Person \/ Elsewhere \/ Reading \/ Sending \/ Serving \/ Settling \/ Failing

Spec == Init /\ [][Next]_vars

\* A tab that is open synchronizes on reconnection and every ten seconds, and requests
\* that are not given up are answered.
Synchronizes == Sending \/ (\E c \in calls : c.live /\ Serve(c)) \/ Settling

Fairness == WF_vars(Synchronizes)

FairSpec == Spec /\ Fairness

-----------------------------------------------------------------------------
(* Safety *)

\* Nobody conflicts with themselves: besides for want of room, an edit is refused only
\* for a version another device wrote over the one it expected, a removal only for a card
\* another device removed, and a creation never.  Lost answers, repeated requests, several
\* tabs and reads in between do not make the outbox refuse its own work; the edits of a block
\* that was forgotten, whose text of before an older answer may bring back, are excepted.
\* (validateBase and dispatch of replica.ts, applyWorkspaceOperation, replica-projection.ts:392)
FairRefusal ==
    \A i \in 1..Len(pending) :
        LET cmd == pending[i].cmd
            b   == cmd.block
            failure == pending[i].failure
        IN
        failure \in Refusals \ {"limit"} =>
            \/ /\ cmd.type = "edit" /\ failure = "conflict"
               /\ \/ Version(b) > cmd.version /\ history[b][cmd.version + 2].by = Others
                  \/ b \in forgotten
            \/ cmd.type = "remove" /\ failure = "missing" /\ remover[b] = Others

\* A cached version names the text that the server has, or had, under that version,
\* unless writing of that text is under way.
LocalTruth ==
    \A b \in Blocks \ PendingText : local[b] # None =>
        /\ local[b].version <= Version(b)
        /\ history[b][local[b].version + 1].text = local[b].text

\* Once nothing about a card is under way, a card this library's person removed does not
\* come back with an old answer, and one the server has is not hidden by one.
OwnCards ==
    \A b \in Blocks \ PendingCard :
        /\ remover[b] \in Keys => ~shown[b]
        /\ card[b] = "placed" => shown[b]

(* Liveness *)

\* Everything written reaches the server or is paused for review: nothing stays in the
\* outbox but what was refused and what waits for it.
Held(key) ==
    \E i \in 1..Len(pending) :
        /\ pending[i].key = key
        /\ \/ pending[i].failure # None
           \/ \E j \in 1..(i - 1) : pending[j].failure # None /\ Conflicts(pending[j].cmd, pending[i].cmd)

Drains ==
    \A key \in Keys :
        (\E i \in 1..Len(pending) : pending[i].key = key)
            ~> (Held(key) \/ \A i \in 1..Len(pending) : pending[i].key # key)

-----------------------------------------------------------------------------
(* The promise *)

ReceivedKeys == {r.key : r \in receipts}
Intents == {[key |-> pending[i].key, cmd |-> pending[i].cmd] :
               i \in {j \in 1..Len(pending) : pending[j].key \notin ReceivedKeys}}

Promise == INSTANCE OutboxPromise WITH todo <- Intents

\* The cache shows what the server has, or what is being written to it (replica.ts:330-420).
CacheTrue == LocalTruth /\ OwnCards

=============================================================================
