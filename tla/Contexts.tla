-------------------------------- MODULE Contexts --------------------------------
(***************************************************************************)
(* What a run is admitted to read: the plan an estimate and an admission   *)
(* make of a request (run-plan.ts), the revisions its cards are frozen at  *)
(* (block-state.ts, content.ts), the manifest that names them              *)
(* (contexts.ts), and the reading of it (context-reader.ts), beside edits, *)
(* fetches, arrows, answers and retries.                                   *)
(*                                                                         *)
(* A text is its length.  A block is a card of the brane or, as a number,  *)
(* a block a run made: its answer, the card of its prompt, or of an arrow. *)
(***************************************************************************)
EXTENDS Integers, SequencesExt, FiniteSetsExt

CONSTANTS
    Cards,          \* cards and machines with a text of their own
    Webpages,       \* those of them that are fetched
    Texts,          \* the lengths a text can have
    Asked,          \* what is asked: the cards read, their labels, the prompt or machine
    Arrows,         \* what may be drawn: word, from, to
    Limit,          \* messages a lineage may have (200)
    MaxContext,     \* characters a run may read
    Width,          \* of a revision's identity in a text
    MaxRuns, MaxVersion, MaxArrows      \* bounds

VARIABLES
    live,       \* of each card: text, version, and whether it is ready to be read
    revisions,  \* oldest first: block, text, and the version it was taken of (-1: an answer)
    contexts,   \* manifests: parent message and entries
    runs,       \* in the order admitted
    messages,   \* in the order published
    arrows,     \* of the brane, in drawing order
    made        \* blocks made by runs

vars == <<live, revisions, contexts, runs, messages, arrows, made>>

Edits == [block : Cards, text : Texts, version : 0..MaxVersion]
NoCard == 0

Init ==
    /\ live = [b \in Cards |-> [text |-> Min(Texts), version |-> 0, ready |-> b \notin Webpages]]
    /\ revisions = <<>> /\ contexts = <<>> /\ runs = <<>> /\ messages = <<>> /\ arrows = <<>> /\ made = 0

-----------------------------------------------------------------------------
(* Lineages *)

\* Fault: the references of a message are those of every run of its conversation.
CitedInConversation(m) ==
    LET of(r) == SelectSeq(contexts[runs[r].context].entries, LAMBDA e : e.kind \in {"source", "reference"})
    IN FlattenSeq([r \in DOMAIN runs |->
                     IF runs[r].conversation = runs[messages[m].run].conversation THEN of(r) ELSE <<>>])

\* The chain up from a message, the oldest first; one message past the limit is read, and shows it.
Lineage(message) ==
    LET Chain[m \in 0..Len(messages), depth \in 0..Limit + 1] ==
            IF m = 0 \/ depth > Limit THEN <<>> ELSE Append(Chain[messages[m].parent, depth + 1], m)
    IN Chain[message, 0]

Allowed(chain) == Len(chain) <= Limit

\* The cards and earlier answers a question was asked with; its arrows are not read again.
Cited(m) ==
    IF messages[m].role # "user" THEN <<>>
    ELSE SelectSeq(contexts[runs[messages[m].run].context].entries, LAMBDA e : e.kind \in {"source", "reference"})

Read(kind, revision) == [kind |-> kind, revision |-> revision, text |-> revisions[revision].text]

Expand(chain) ==
    FlattenSeq([i \in DOMAIN chain |->
        Append([j \in DOMAIN Cited(chain[i]) |-> Read("lineage_reference", Cited(chain[i])[j].revision)],
               Read("lineage", messages[chain[i]].revision))])

\* What the model is sent, and an inspection shows.
ReadInputs(r) ==
    LET context == contexts[runs[r].context]
    IN Expand(Lineage(context.parent))
       \o [i \in DOMAIN context.entries |-> Read(context.entries[i].kind, context.entries[i].revision)]

Size(inputs) == FoldLeft(LAMBDA sum, i : sum + i.text, 0, inputs)

-----------------------------------------------------------------------------
(* Planning a request *)

\* An edit that changes nothing keeps the version; it makes a webpage ready.
Saved(e) ==
    [text |-> e.text, ready |-> TRUE,
     version |-> e.version + (IF live[e.block].text = e.text /\ live[e.block].ready THEN 0 ELSE 1)]

EditAllowed(e) == e.version = live[e.block].version /\ Saved(e).version <= MaxVersion

Drafted(edits) == [b \in Cards |-> IF \E e \in edits : e.block = b
                                   THEN Saved(CHOOSE e \in edits : e.block = b) ELSE live[b]]

\* The revision a card, or an answer, would be read at.
Taken(revs, at, b) ==
    {i \in DOMAIN revs : revs[i].block = b /\ (b \in Cards => revs[i].source = at[b].version)}

\* Arrows with both ends among the inputs, each once.
Between(q) ==
    LET position(b) == LET at == {i \in DOMAIN q.cards : q.cards[i] = b} IN IF at = {} THEN 0 ELSE Min(at)
        placed == [i \in DOMAIN arrows |-> [word |-> arrows[i].word, from |-> position(arrows[i].from),
                                            to |-> position(arrows[i].to)]]
        inside == SelectSeq(placed, LAMBDA a : a.from # 0 /\ a.to # 0 /\ a.from # a.to)
    IN FoldLeft(LAMBDA seen, a : IF a \in ToSet(seen) THEN seen ELSE Append(seen, a), <<>>, inside)

Planned(q) ==
    [i \in DOMAIN q.cards |-> [kind |-> q.kind, label |-> q.labels[i], block |-> q.cards[i], from |-> 0, to |-> 0]]
    \o [i \in DOMAIN Between(q) |-> [kind |-> "relation", label |-> "Relation", block |-> NoCard,
                                     from |-> Between(q)[i].from, to |-> Between(q)[i].to]]
    \o <<[kind |-> "prompt", label |-> "Prompt", block |-> q.machine, from |-> 0, to |-> 0]>>

\* Identities not made yet are measured at their width.
Pending == Width

\* An arrow names an end by its label, and by its revision too where labels repeat.
ArrowText(entries, a, width) ==
    LET name(i) == 1 + (IF Cardinality({j \in DOMAIN entries : entries[j].label = entries[i].label}) > 1
                        THEN width ELSE 0)
    IN name(a.from) + 1 + name(a.to)

TextOf(q, entries, e, width) ==
    CASE e.kind = "relation" -> ArrowText(entries, e, width)
      [] e.block = NoCard -> q.prompt
      [] e.block \in Cards -> Drafted(q.edits)[e.block].text
      [] OTHER -> revisions[Max(Taken(revisions, live, e.block))].text

\* What the plan measures: the budget is held for it, and an estimate says it.
Quote(q) ==
    LET entries == Planned(q)
    IN Size(Expand(Lineage(q.parent))) + Size([i \in DOMAIN entries |-> [text |-> TextOf(q, entries, entries[i], Pending)]])

Resolves(q) ==
    /\ \A b \in ToSet(q.cards) \cup ({q.machine} \ {NoCard}) :
         IF b \in Cards THEN Drafted(q.edits)[b].ready ELSE Taken(revisions, live, b) # {}
    /\ \A e \in q.edits : EditAllowed(e)
    /\ Allowed(Lineage(q.parent))
    /\ Quote(q) <= MaxContext

-----------------------------------------------------------------------------
(* Admission *)

\* What is frozen is the brane with the edits saved.
Settled(q) == Drafted(q.edits)

\* Cards first, then the arrows that name their revisions.
Order(entries) ==
    SelectSeq([i \in DOMAIN entries |-> i], LAMBDA i : entries[i].kind # "relation")
      \o SelectSeq([i \in DOMAIN entries |-> i], LAMBDA i : entries[i].kind = "relation")

Reused(revs, at, b) == Taken(revs, at, b)

\* A version keeps the revision it has.
Freeze(q, entries) ==
    LET take(s, i) ==
            LET b == entries[i].block
                own == IF b = NoCard THEN s.made + 1 ELSE b
                found == Reused(s.revs, Settled(q), own)
                text == IF own \in Cards THEN Settled(q)[own].text ELSE TextOf(q, entries, entries[i], Width)
            IN IF found # {} THEN [s EXCEPT !.at[i] = Max(found)]
               ELSE [revs |-> Append(s.revs, [block |-> own, text |-> text,
                                              source |-> IF own \in Cards THEN Settled(q)[own].version ELSE 0]),
                     at |-> [s.at EXCEPT ![i] = Len(s.revs) + 1],
                     made |-> IF b = NoCard THEN own ELSE s.made]
    IN FoldLeft(take, [revs |-> revisions, at |-> [i \in DOMAIN entries |-> 0], made |-> made], Order(entries))

\* Inserting the first run that names it seals it.
Manifest(q, entries, at) ==
    [parent |-> q.parent, entries |-> [i \in DOMAIN entries |-> [kind |-> entries[i].kind, revision |-> at[i]]]]

Conversation(q) == IF q.parent = 0 THEN Len(runs) + 1 ELSE runs[messages[q.parent].run].conversation

Submit(q) ==
    /\ Len(runs) < MaxRuns /\ Resolves(q)
    /\ LET entries == Planned(q)
           frozen == Freeze(q, entries)
       IN /\ live' = Drafted(q.edits)
          /\ revisions' = frozen.revs
          /\ contexts' = Append(contexts, Manifest(q, entries, frozen.at))
          /\ made' = frozen.made + 1
          /\ runs' = Append(runs, [status |-> "open", context |-> Len(contexts) + 1, output |-> made',
                                   conversation |-> Conversation(q), quote |-> Quote(q),
                                   receipt |-> {[e EXCEPT !.version = Saved(e).version] : e \in q.edits}])
    /\ UNCHANGED <<messages, arrows>>

\* A retry reads the same manifest, and is measured by what it reads.
Retry(r) ==
    /\ Len(runs) < MaxRuns /\ runs[r].status = "failed"
    /\ made' = made + 1
    /\ runs' = Append(runs, [runs[r] EXCEPT !.status = "open", !.output = made', !.quote = Size(ReadInputs(r)),
                                            !.receipt = {}])
    /\ UNCHANGED <<live, revisions, contexts, messages, arrows>>

-----------------------------------------------------------------------------
(* Answers, and what goes on beside them *)

\* The question and the answer join the conversation.
Complete(r, text) ==
    /\ runs[r].status = "open"
    /\ LET context == contexts[runs[r].context]
           prompt == CHOOSE e \in ToSet(context.entries) : e.kind = "prompt"
       IN messages' = messages \o
            <<[parent |-> context.parent, role |-> "user", revision |-> prompt.revision, run |-> r],
              [parent |-> Len(messages) + 1, role |-> "assistant", revision |-> Len(revisions) + 1, run |-> r]>>
    /\ revisions' = Append(revisions, [block |-> runs[r].output, text |-> text, source |-> -1])
    /\ runs' = [runs EXCEPT ![r].status = "completed"]
    /\ UNCHANGED <<live, contexts, arrows, made>>

Fail(r) ==
    /\ runs[r].status = "open"
    /\ runs' = [runs EXCEPT ![r].status = "failed"]
    /\ UNCHANGED <<live, revisions, contexts, messages, arrows, made>>

Edit(e) ==
    /\ EditAllowed(e) /\ Saved(e) # live[e.block]
    /\ live' = [live EXCEPT ![e.block] = Saved(e)]
    /\ UNCHANGED <<revisions, contexts, runs, messages, arrows, made>>

\* A fetch ends, well or not.
Fetched(b, text, ready) ==
    /\ ~live[b].ready /\ live[b].version < MaxVersion
    /\ live' = [live EXCEPT ![b] = [text |-> IF ready THEN text ELSE @.text, version |-> @.version + 1, ready |-> ready]]
    /\ UNCHANGED <<revisions, contexts, runs, messages, arrows, made>>

Draw(a) ==
    /\ Len(arrows) < MaxArrows /\ arrows' = Append(arrows, a)
    /\ UNCHANGED <<live, revisions, contexts, runs, messages, made>>

Erase(i) ==
    /\ arrows' = RemoveAt(arrows, i)
    /\ UNCHANGED <<live, revisions, contexts, runs, messages, made>>

\* Answers may be read as cards are; one edit of a block is sent with what reads it.
Requests ==
    UNION {LET answers == {runs[r].output : r \in DOMAIN runs}
               cards == IF a.answers THEN {Append(a.cards, o) : o \in answers} ELSE {a.cards}
               read == ToSet(a.cards) \cup ({a.machine} \ {NoCard})
           IN [cards : cards, labels : {a.labels}, kind : {a.kind}, prompt : {a.prompt}, machine : {a.machine},
               parent : 0..Len(messages),
               edits : {{}} \cup {{e} : e \in {f \in Edits : f.block \in read /\ EditAllowed(f)}}] : a \in Asked}

Next ==
    \/ \E q \in Requests : Submit(q)
    \/ \E r \in DOMAIN runs : Retry(r)
    \/ \E r \in DOMAIN runs : Fail(r)
    \/ \E r \in DOMAIN runs, text \in Texts : Complete(r, text)
    \/ \E e \in Edits : Edit(e)
    \/ \E b \in Webpages, text \in Texts, ready \in BOOLEAN : Fetched(b, text, ready)
    \/ \E a \in Arrows : Draw(a)
    \/ \E i \in DOMAIN arrows : Erase(i)

Spec == Init /\ [][Next]_vars

-----------------------------------------------------------------------------
(* Properties *)

TypeOK ==
    /\ live \in [Cards -> [text : Texts, version : 0..MaxVersion, ready : BOOLEAN]]
    /\ \A i \in DOMAIN revisions :
         revisions[i] \in [block : Cards \cup 1..made, text : Nat, source : -1..MaxVersion]
    /\ \A i \in DOMAIN contexts :
         /\ contexts[i].parent \in 0..Len(messages)
         /\ \A e \in ToSet(contexts[i].entries) :
              e \in [kind : {"source", "reference", "relation", "prompt"}, revision : DOMAIN revisions]
    /\ \A i \in DOMAIN runs :
         runs[i] \in [status : {"open", "failed", "completed"}, context : DOMAIN contexts, output : 1..made,
                      conversation : DOMAIN runs, quote : Nat, receipt : SUBSET Edits]
    /\ \A i \in DOMAIN messages :
         messages[i] \in [parent : 0..(i - 1), role : {"user", "assistant"}, revision : DOMAIN revisions, run : DOMAIN runs]
    /\ arrows \in Seq(Arrows) /\ made \in Nat

\* What a run reads never changes once it is admitted: not by edits, arrows, answers, retries, or the
\* other turns of its conversation (context-reader.ts:96-119, :164-188; 13-context-manifests.md).
Frozen == [][\A r \in DOMAIN runs : ReadInputs(r)' = ReadInputs(r)]_vars

\* The length a run was planned, and its cost held, at is the length of what it reads, though the plan
\* was made before any of its revisions, and of drafts not yet saved (run-plan.ts:67-127).
QuotedExactly == \A r \in DOMAIN runs : runs[r].quote = Size(ReadInputs(r))

\* A version of a card is one text: it has at most one revision, and the revision of the version it is
\* at has the text it has (content.ts:206-222, block-state.ts:77-90).
OneRevision ==
    /\ \A i, j \in DOMAIN revisions :
         revisions[i].block = revisions[j].block /\ revisions[i].source = revisions[j].source => i = j
    /\ \A i \in DOMAIN revisions : \A b \in Cards :
         revisions[i].block = b /\ revisions[i].source = live[b].version => revisions[i].text = live[b].text

\* What a run reads of a conversation begins at its beginning, and is all of that conversation: a
\* lineage is never cut, and never leads into another (context-reader.ts:54-95).
WholeLineage ==
    \A r \in DOMAIN runs :
      LET chain == Lineage(contexts[runs[r].context].parent)
      IN chain # <<>> => /\ messages[Head(chain)].parent = 0
                         /\ \A m \in ToSet(chain) : runs[messages[m].run].conversation = runs[r].conversation

\* A run reads what its author had typed when it was asked: every text its receipt says was saved with
\* it is the text it froze, at that version (runs.ts:115-137).
ReadsAsTyped ==
    \A r \in DOMAIN runs : \A saved \in runs[r].receipt :
      \E e \in ToSet(contexts[runs[r].context].entries) :
        /\ revisions[e.revision].block = saved.block
        /\ revisions[e.revision].source = saved.version /\ revisions[e.revision].text = saved.text
=============================================================================
