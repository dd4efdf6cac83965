--------------------------------- MODULE Drafts ---------------------------------
(***************************************************************************)
(* Recoverable drafts (services/drafts.ts, stores/interaction.ts and the   *)
(* commands of services/workspace.ts over them): what tabs of one browser  *)
(* type is kept in a store they share until it is taken, and is offered    *)
(* again after a reload.  A tab's writes wait in a line of their own.      *)
(*                                                                         *)
(* A text is the number of the typing that made it.  That a save is sent   *)
(* over the version the page shows is the concern of TextSaves.            *)
(***************************************************************************)
EXTENDS Naturals, Sequences, FiniteSets, Functions

CONSTANTS
    Tabs,
    Actors,     \* accounts that use the browser, one in a tab at a time
    Blocks,
    MaxTyped, MaxCopies, MaxLoads, MaxLost, MaxLine, MaxForeign    \* bounds

Nobody == "nobody"

ASSUME DraftsAssumption == Nobody \notin Actors /\ {MaxTyped, MaxCopies, MaxLoads, MaxLost, MaxLine, MaxForeign} \subseteq Nat

NoDraft == [key |-> 0, actor |-> Nobody, text |-> 0, version |-> 0]

VARIABLES
    store,      \* the browser's drafts, by key
    tab,        \* of each tab: account, draft of each block, drafts offered, error shown
    line,       \* of each tab: its writes and lists not yet made, oldest first
    broken,     \* tabs whose last write failed
    saving,     \* of each tab and block: the save under way
    texts,      \* of each account and block: text and version
    count,      \* keys, texts, loads, failures and edits of others so far
    \* History.
    keys,       \* of each key: its tab, block and account, the text last typed, the version its author has seen
    taken,      \* texts taken by the server
    over,       \* drafts given up, discarded as they were read, or reported as not kept
    cleared,    \* keys whose draft was cleared and its removal did not fail
    blind       \* whether a save replaced a text that its author had not seen

history == <<keys, taken, over, cleared>>
draftVars == <<store, tab, line, broken, saving, texts, count, history, blind>>

Blank == [actor |-> Nobody, draft |-> [b \in Blocks |-> NoDraft], offered |-> {}, error |-> FALSE]
Resting == [phase |-> "none", key |-> 0, text |-> 0, version |-> 0]

DraftsInit ==
    /\ store = <<>> /\ tab = [t \in Tabs |-> Blank] /\ line = [t \in Tabs |-> <<>>] /\ broken = {}
    /\ saving = [t \in Tabs |-> [b \in Blocks |-> Resting]]
    /\ texts = [a \in Actors |-> [b \in Blocks |-> [text |-> 0, version |-> 1]]]
    /\ count = [keys |-> 0, typed |-> 0, copies |-> 0, loads |-> 0, fails |-> 0, foreign |-> 0]
    /\ keys = <<>> /\ taken = {} /\ over = {} /\ cleared = {} /\ blind = FALSE

Known(t) == tab[t].actor # Nobody
Server(t, b) == texts[tab[t].actor][b]
Stored == {store[k] : k \in DOMAIN store}
Edited(t) == {tab[t].draft[b].key : b \in Blocks} \ {0}

\* What is known of a key follows its draft.
Knows(record, t, b, seen) ==
    keys' = [k \in DOMAIN keys \cup {record.key} |->
                IF k = record.key THEN [tab |-> t, block |-> b, actor |-> record.actor, text |-> record.text, seen |-> seen]
                ELSE keys[k]]

\* A write or a list joins the tab's line; `then` lists the store after a write that went well.
DraftWrite(op, record, then) == [op |-> op, record |-> record, then |-> then]
PutOf(record) == DraftWrite("put", record, FALSE)
Lists(t) == DraftWrite("list", [NoDraft EXCEPT !.actor = tab'[t].actor], FALSE)
Joins(t, write) == line' = [line EXCEPT ![t] = Append(@, write)]

-----------------------------------------------------------------------------
(* The line of a tab *)

\* A draft is discarded only as it was read.
AsRead(record) == record \in Stored

\* A list is for the account that asked; what is edited here is not offered.
Listed(t, actor) ==
    IF tab[t].actor # actor THEN tab
    ELSE [tab EXCEPT ![t].offered = {r \in Stored : r.actor = actor /\ r.key \notin Edited(t)}]

Unoffered(t, w) ==
    IF tab[t].actor = w.record.actor /\ (AsRead(w.record) \/ w.record.key \notin DOMAIN store)
    THEN [tab EXCEPT ![t].offered = {r \in @ : r.key # w.record.key}] ELSE tab

\* They are made one after the other.
Execute(t) ==
    LET w == Head(line[t])
        rest == Tail(line[t])
        gone == [k \in DOMAIN store \ {w.record.key} |-> store[k]]
    IN /\ line[t] # <<>>
       /\ store' = CASE w.op = "put" -> [k \in DOMAIN store \cup {w.record.key} |->
                                            IF k = w.record.key THEN w.record ELSE store[k]]
                     [] w.op = "remove" -> gone
                     [] w.op = "discard" -> IF AsRead(w.record) THEN gone ELSE store
                     [] w.op = "list" -> store
       /\ tab' = CASE w.op = "list" -> IF t \in broken THEN [tab EXCEPT ![t].error = TRUE]
                                       ELSE Listed(t, w.record.actor)
                   [] w.op = "discard" -> Unoffered(t, w)
                   [] OTHER -> tab
       /\ line' = [line EXCEPT ![t] = IF w.then /\ (w.op = "discard" => tab[t].actor = w.record.actor) THEN Append(rest, Lists(t)) ELSE rest]
       /\ broken' = IF w.op = "list" THEN broken ELSE broken \ {t}
       /\ over' = IF w.op = "discard" /\ store' # store THEN over \cup {<<w.record.key, w.record.text>>} ELSE over
       /\ UNCHANGED <<saving, texts, count, keys, taken, cleared, blind>>

\* The browser's store is full or out of order.
Fails(t) ==
    /\ line[t] # <<>> /\ Head(line[t]).op # "list" /\ count.fails < MaxLost
    /\ count' = [count EXCEPT !.fails = @ + 1]
    /\ LET w == Head(line[t]) IN
       /\ line' = [line EXCEPT ![t] = Tail(@)]
       /\ broken' = IF w.op = "discard" THEN broken \ {t} ELSE broken \cup {t}
       /\ tab' = IF w.op # "discard" THEN [tab EXCEPT ![t].error = TRUE] ELSE tab
       /\ over' = IF w.op = "put" THEN over \cup {<<w.record.key, w.record.text>>} ELSE over
       /\ cleared' = cleared \ (IF w.op = "remove" THEN {w.record.key} ELSE {})
    /\ UNCHANGED <<store, saving, texts, keys, taken, blind>>

-----------------------------------------------------------------------------
(* Typing and saving *)

TypeDraft(t, b) ==
    /\ Known(t) /\ count.typed < MaxTyped /\ Len(line[t]) < MaxLine
    /\ LET old == tab[t].draft[b]
           record == IF old = NoDraft THEN [key |-> count.keys + 1, actor |-> tab[t].actor,
                                            text |-> count.typed + 1, version |-> Server(t, b).version]
                     ELSE [old EXCEPT !.text = count.typed + 1]
       IN /\ tab' = [tab EXCEPT ![t].draft[b] = record]
          /\ count' = [count EXCEPT !.typed = @ + 1, !.keys = @ + (IF old = NoDraft THEN 1 ELSE 0)]
          /\ Joins(t, PutOf(record))
          /\ Knows(record, t, b, IF old = NoDraft THEN record.version ELSE keys[old.key].seen)
    /\ UNCHANGED <<store, broken, saving, texts, taken, over, cleared, blind>>

\* The draft is cleared and its removal joins the line.
Clear(t, b) ==
    /\ tab' = [tab EXCEPT ![t].draft[b] = NoDraft]
    /\ Joins(t, DraftWrite("remove", tab[t].draft[b], FALSE))
    /\ cleared' = cleared \cup {tab[t].draft[b].key} /\ UNCHANGED keys

\* The draft's version is moved to the one its author has now seen.
Rebase(t, b, version) ==
    LET next == [tab[t].draft[b] EXCEPT !.version = version]
    IN tab' = [tab EXCEPT ![t].draft[b] = next] /\ Joins(t, PutOf(next)) /\ Knows(next, t, b, version) /\ UNCHANGED cleared

Saved(t, b) == tab[t].draft[b].text = Server(t, b).text
Conflict(t, b) == ~Saved(t, b) /\ tab[t].draft[b].version # Server(t, b).version
Captured(phase, record) == [phase |-> phase, key |-> record.key, text |-> record.text, version |-> record.version]

SaveBlock(t, b) ==
    /\ Known(t) /\ tab[t].draft[b] # NoDraft
    /\ IF Saved(t, b) THEN Clear(t, b) /\ UNCHANGED saving
       ELSE /\ ~Conflict(t, b) /\ saving[t][b] = Resting
            /\ saving' = [saving EXCEPT ![t][b] = Captured("waits", tab[t].draft[b])]
            /\ UNCHANGED <<tab, line, keys, cleared>>
    /\ UNCHANGED <<store, broken, texts, count, taken, over, blind>>

\* A save is sent once the draft is stored, unless its draft is gone meanwhile.
Send(t, b) ==
    LET s == saving[t][b] IN
    /\ s.phase = "waits"
    /\ \A i \in DOMAIN line[t] : line[t][i].record.key = s.key => line[t][i].record.text > s.text
    /\ saving' = [saving EXCEPT ![t][b] = IF tab[t].draft[b].key = s.key THEN [s EXCEPT !.phase = "sent"] ELSE Resting]
    /\ UNCHANGED <<store, tab, line, broken, texts, count, history, blind>>

\* A text is taken only over the version it was written over.
Accepts(s, current) == s.version = current.version

ServerTakes(t, b) ==
    LET s == saving[t][b]
        seen == tab[t].actor
    IN
    /\ s.phase = "sent"
    /\ IF Accepts(s, texts[seen][b])
       THEN /\ taken' = taken \cup {s.text} /\ blind' = (blind \/ keys[s.key].seen # texts[seen][b].version)
            /\ texts' = [texts EXCEPT ![seen][b] = [text |-> s.text, version |-> @.version + 1]]
            /\ saving' = [saving EXCEPT ![t][b] = [s EXCEPT !.phase = "taken", !.version = @ + 1]]
       ELSE saving' = [saving EXCEPT ![t][b] = Resting] /\ UNCHANGED <<texts, taken, blind>>
    /\ UNCHANGED <<store, tab, line, broken, count, keys, over, cleared>>

\* Fault: what was typed while the save was under way is cleared with it.
Cleared(record, s) == TRUE

\* Only the text that was saved is cleared.
IsThat(record, s) == record.text = s.text

\* What is acknowledged is of another draft, or older than what its author has seen.
Overtaken(record, s) == record.key # s.key \/ record.version > s.version

Acknowledge(t, b) ==
    LET s == saving[t][b]
        record == tab[t].draft[b]
    IN
    /\ s.phase = "taken"
    /\ saving' = [saving EXCEPT ![t][b] = Resting]
    /\ IF Overtaken(record, s) THEN UNCHANGED <<tab, line, keys, cleared>>
       ELSE IF IsThat(record, s) THEN Clear(t, b) ELSE Rebase(t, b, s.version)
    /\ UNCHANGED <<store, broken, texts, count, taken, over, blind>>

UseServerText(t, b) ==
    /\ Known(t) /\ tab[t].draft[b] # NoDraft /\ Conflict(t, b)
    /\ Clear(t, b)
    /\ over' = over \cup {<<tab[t].draft[b].key, tab[t].draft[b].text>>}
    /\ UNCHANGED <<store, broken, saving, texts, count, taken, blind>>

OverwriteDraft(t, b) ==
    /\ Known(t) /\ tab[t].draft[b] # NoDraft /\ Conflict(t, b) /\ saving[t][b] = Resting
    /\ Rebase(t, b, Server(t, b).version)
    /\ saving' = [saving EXCEPT ![t][b] = Captured("waits", tab'[t].draft[b])]
    /\ UNCHANGED <<store, broken, texts, count, taken, over, blind>>

-----------------------------------------------------------------------------
(* Recovering *)

\* A copy: another tab may still own the source.
Copied(source, t, b) == [source EXCEPT !.key = count.keys + 1]

PutsAndLists(record) == DraftWrite("put", record, TRUE)

RecoverDraft(t, source) ==
    LET b == keys[source.key].block
        record == Copied(source, t, b)
    IN
    /\ source.actor = tab[t].actor /\ count.copies < MaxCopies /\ Len(line[t]) < MaxLine
    /\ tab' = [tab EXCEPT ![t].draft[b] = record]
    /\ count' = [count EXCEPT !.keys = @ + 1, !.copies = @ + 1]
    /\ Joins(t, PutsAndLists(record)) /\ Knows(record, t, b, keys[source.key].seen)
    /\ UNCHANGED <<store, broken, saving, texts, taken, over, cleared, blind>>

DiscardDraft(t, source) ==
    /\ source.actor = tab[t].actor /\ source.key \notin Edited(t) /\ Len(line[t]) < MaxLine
    /\ Joins(t, DraftWrite("discard", source, TRUE))
    /\ UNCHANGED <<store, tab, broken, saving, texts, count, history, blind>>

RefreshDrafts(t) ==
    /\ Known(t) /\ count.loads < MaxLoads /\ count' = [count EXCEPT !.loads = @ + 1]
    /\ UNCHANGED tab /\ Joins(t, Lists(t))
    /\ UNCHANGED <<store, broken, saving, texts, history, blind>>

-----------------------------------------------------------------------------
(* Tabs *)

\* An account is known: nothing of the one before is kept in memory.
Initialize(t, actor) ==
    /\ tab[t].actor # actor /\ count.loads < MaxLoads
    /\ count' = [count EXCEPT !.loads = @ + 1]
    /\ tab' = [tab EXCEPT ![t] = [Blank EXCEPT !.actor = actor]]
    /\ Joins(t, Lists(t)) /\ saving' = [saving EXCEPT ![t] = [b \in Blocks |-> Resting]]
    /\ UNCHANGED <<store, broken, texts, history, blind>>

\* The tab ends; what waits in its line is not written.
Reload(t) ==
    /\ Known(t) /\ count.loads < MaxLoads
    /\ tab' = [tab EXCEPT ![t] = Blank] /\ line' = [line EXCEPT ![t] = <<>>] /\ broken' = broken \ {t}
    /\ saving' = [saving EXCEPT ![t] = [b \in Blocks |-> Resting]]
    /\ LET lost == Range(line[t]) IN
       /\ over' = over \cup {<<w.record.key, w.record.text>> : w \in {v \in lost : v.op = "put"}}
       /\ cleared' = cleared \ {w.record.key : w \in {v \in lost : v.op = "remove"}}
    /\ UNCHANGED <<store, texts, count, keys, taken, blind>>

\* Another device writes; its texts are no draft of this browser.
Foreign(actor, b) ==
    /\ count.foreign < MaxForeign /\ count' = [count EXCEPT !.foreign = @ + 1]
    /\ texts' = [texts EXCEPT ![actor][b] = [text |-> MaxTyped + count'.foreign, version |-> @.version + 1]]
    /\ UNCHANGED <<store, tab, line, broken, saving, history, blind>>

DraftsNext ==
    \/ \E t \in Tabs : Execute(t) \/ Fails(t) \/ Reload(t) \/ RefreshDrafts(t)
    \/ \E t \in Tabs, actor \in Actors : Initialize(t, actor)
    \/ \E t \in Tabs, b \in Blocks :
         \/ TypeDraft(t, b) \/ SaveBlock(t, b) \/ Send(t, b) \/ ServerTakes(t, b) \/ Acknowledge(t, b)
         \/ UseServerText(t, b) \/ OverwriteDraft(t, b)
    \/ \E t \in Tabs : \E source \in tab[t].offered : RecoverDraft(t, source) \/ DiscardDraft(t, source)
    \/ \E actor \in Actors, b \in Blocks : Foreign(actor, b)

DraftsSpec == DraftsInit /\ [][DraftsNext]_draftVars

-----------------------------------------------------------------------------
(* Properties *)

Record == [key : 1..count.keys, actor : Actors, text : 1..MaxTyped, version : Nat \ {0}]

DraftsTypeOK ==
    /\ \A k \in DOMAIN store : store[k] \in Record /\ store[k].key = k
    /\ \A t \in Tabs :
         /\ tab[t].actor \in Actors \cup {Nobody} /\ tab[t].error \in BOOLEAN
         /\ tab[t].offered \subseteq Record /\ Range(tab[t].draft) \subseteq Record \cup {NoDraft}
         /\ \A i \in DOMAIN line[t] :
              /\ line[t][i].op \in {"put", "remove", "discard", "list"}
              /\ line[t][i].op # "list" => line[t][i].record \in Record
         /\ \A b \in Blocks : saving[t][b].phase \in {"none", "waits", "sent", "taken"}
    /\ broken \subseteq Tabs /\ DOMAIN keys = 1..count.keys /\ DOMAIN store \subseteq DOMAIN keys
    /\ cleared \subseteq DOMAIN keys /\ taken \subseteq 1..MaxTyped /\ blind \in BOOLEAN

\* What was last typed under a key is in the store or on its way there, unless the server has taken it,
\* its author gave it up or discarded that very text, or was told that it could not be kept, or the tab
\* ended before it was written (05-client-state.md:9; drafts.ts:50-78, interaction.ts:65-94, :131-166).
TypedKept ==
    \A k \in DOMAIN keys :
        \/ keys[k].text \in taken \/ <<k, keys[k].text>> \in over
        \/ (k \in DOMAIN store /\ store[k].text = keys[k].text)
        \/ \E t \in Tabs : \E i \in DOMAIN line[t] :
              line[t][i].op = "put" /\ line[t][i].record.key = k /\ line[t][i].record.text = keys[k].text

\* "Writes/deletes are serialized so clearing a saved draft cannot be undone by an older pending write"
\* (05-client-state.md:9): a draft that was cleared is not offered to anybody for ever.
StaysCleared ==
    \A k \in cleared \cap DOMAIN store :
        \E t \in Tabs : \E i \in DOMAIN line[t] : line[t][i].op = "remove" /\ line[t][i].record.key = k

\* After a reload, and after a copy took a draft's place, a tab that has nothing left to write offers
\* every draft it once stored and no longer edits (interaction.ts:51-64, :77-93).
Offered ==
    \A t \in Tabs : Known(t) /\ line[t] = <<>> /\ ~tab[t].error =>
        \A k \in DOMAIN store \ Edited(t) :
            keys[k].tab = t /\ store[k].actor = tab[t].actor => \E r \in tab[t].offered : r.key = k

\* Nobody is offered, or edits, another account's draft, however late a list comes (interaction.ts:55).
OwnDrafts ==
    \A t \in Tabs : \A r \in (tab[t].offered \cup Range(tab[t].draft)) \ {NoDraft} : r.actor = tab[t].actor

\* "Hydration never silently rebases onto newer text" (05-client-state.md:9): however often a draft is
\* copied, reloaded and typed on, it replaces only a text its author has seen.
NeverBlind == ~blind

\* Drafts are kept until they are saved, given up or replaced, stay cleared, are offered again, never
\* overwrite blindly and stay with their account (drafts.ts:20-110, interaction.ts:40-170).
DraftsKept == DraftsTypeOK /\ TypedKept /\ StaysCleared /\ Offered /\ OwnDrafts /\ NeverBlind

=============================================================================
