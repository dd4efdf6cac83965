---------------------------- MODULE WorkspaceProofs ----------------------------
(***************************************************************************)
(* Proofs about Workspace, for every number of reads, openings, failures   *)
(* and changes and every set of titles: what is shown never goes back, it  *)
(* is of what is wanted, and the title last typed is kept; and about       *)
(* ImportTasks, for any files and places to send: no file is lost that the *)
(* server does not have, and none is called ready before it has it.        *)
(* Drafts come first, for any tabs, accounts and blocks: what is typed is  *)
(* kept until it is taken or given up, and replaces nothing its author has *)
(* not seen.                                                               *)
(***************************************************************************)
EXTENDS Workspace, ImportTasks, Drafts, FiniteSetTheorems, SequenceTheorems, WellFoundedInduction, TLAPS

-----------------------------------------------------------------------------
(* Drafts: the invariant *)

Ops == {"put", "remove", "discard", "list"}
DraftRow == [key : Nat \ {0}, actor : Actors, text : 1..MaxTyped, version : Nat \ {0}]
AskedFor == [key : {0}, actor : Actors \cup {Nobody}, text : {0}, version : {0}]
WriteRow == [op : Ops, record : DraftRow \cup AskedFor, then : BOOLEAN]
TabRow == [actor : Actors \cup {Nobody}, draft : [Blocks -> DraftRow \cup {NoDraft}], offered : SUBSET DraftRow, error : BOOLEAN]
SavingRow == [phase : {"none", "waits", "sent", "taken"}, key : Nat, text : Nat, version : Nat]
KeyRow == [tab : Tabs, block : Blocks, actor : Actors, text : 1..MaxTyped, seen : Nat \ {0}]
CountRow == [keys : Nat, typed : Nat, copies : Nat, loads : Nat, fails : Nat, foreign : Nat]
TextRow == [text : Nat, version : Nat \ {0}]

\* A draft, wherever a copy of it is, is not ahead of what is known of its key.
GoodIn(ks, r) ==
    /\ r \in DraftRow /\ r.key \in DOMAIN ks /\ r.actor = ks[r.key].actor
    /\ r.text <= ks[r.key].text /\ r.version <= ks[r.key].seen

PutOfKey(w, k) == w.op = "put" /\ w.record.key = k
RemoveOf(w, k) == w.op = "remove" /\ w.record.key = k

\* What is known of a key: its author has seen nothing newer than the server's text.
KeysGood(ks, n, tx) ==
    \A k \in DOMAIN ks : /\ ks[k] \in KeyRow /\ ks[k].text <= n
                         /\ ks[k].seen <= tx[ks[k].actor][ks[k].block].version

TextsGood(tx, tk) ==
    /\ tx \in [Actors -> [Blocks -> TextRow]]
    /\ \A a \in Actors, b \in Blocks : tx[a][b].text = 0 \/ tx[a][b].text \in tk \/ tx[a][b].text > MaxTyped

StoreGood(st, ks) == DOMAIN st \subseteq DOMAIN ks /\ \A k \in DOMAIN st : st[k].key = k /\ GoodIn(ks, st[k])

\* A tab edits the newest of what is known of a key that is its own, and knows drafts of its account only.
TabGood(t, row, ks, cl) ==
    /\ row \in TabRow
    /\ \A r \in row.offered : GoodIn(ks, r) /\ r.actor = row.actor
    /\ \A b \in Blocks : row.draft[b] # NoDraft =>
         /\ GoodIn(ks, row.draft[b]) /\ row.draft[b].actor = row.actor
         /\ ks[row.draft[b].key].tab = t /\ ks[row.draft[b].key].block = b
         /\ ks[row.draft[b].key].text = row.draft[b].text /\ row.draft[b].key \notin cl

\* The line q of tab t: its texts of a key never go back, and are not behind the store's.
LineGood(t, q, ks, st) ==
    /\ q \in Seq(WriteRow)
    /\ \A i \in 1..Len(q) : q[i].op # "list" => GoodIn(ks, q[i].record)
    /\ \A i \in 1..Len(q) : q[i].op \in {"put", "remove"} => ks[q[i].record.key].tab = t
    /\ \A i, j \in 1..Len(q) :
         i < j /\ q[i].op = "put" /\ q[j].op = "put" /\ q[i].record.key = q[j].record.key => q[i].record.text <= q[j].record.text
    /\ \A i \in 1..Len(q) :
         q[i].op = "put" /\ q[i].record.key \in DOMAIN st => st[q[i].record.key].text <= q[i].record.text

GivenUp(k, ks, tk, ov) == ks[k].text \in tk \/ <<k, ks[k].text>> \in ov
Drafted(row, k) == \E b \in Blocks : row.draft[b].key = k

\* A draft whose removal waits has been taken or given up, and nobody types it any more.
RemovesGood(q, row, ks, tk, ov) ==
    \A i \in 1..Len(q) : q[i].op = "remove" => GivenUp(q[i].record.key, ks, tk, ov) /\ ~Drafted(row, q[i].record.key)

KeptIn(k, text, q, st) ==
    \/ k \in DOMAIN st /\ st[k].text = text
    \/ \E i \in 1..Len(q) : PutOfKey(q[i], k) /\ q[i].record.text = text

\* Nothing is written under k after its removal.
ClearIn(k, q, st) ==
    \/ \E i \in 1..Len(q) : RemoveOf(q[i], k) /\ \A j \in 1..Len(q) : j > i => ~PutOfKey(q[j], k)
    \/ k \notin DOMAIN st /\ \A j \in 1..Len(q) : ~PutOfKey(q[j], k)

\* A write after which a draft of key k is listed, or gone.
Heals(w, actor, k) ==
    \/ w.op = "list" /\ w.record.actor = actor
    \/ w.op = "put" /\ w.then
    \/ RemoveOf(w, k)

OfferedIn(k, q, row, st) ==
    /\ \A i \in 1..Len(q) : PutOfKey(q[i], k) => \E j \in 1..Len(q) : i < j /\ Heals(q[j], row.actor, k)
    /\ k \in DOMAIN st => \/ \E r \in row.offered : r.key = k
                          \/ \E j \in 1..Len(q) : Heals(q[j], row.actor, k)
OffersGood(t, q, row, ks, st) ==
    row.actor # Nobody /\ ~row.error =>
      \A k \in DOMAIN ks : ks[k].tab = t /\ ks[k].actor = row.actor /\ ~Drafted(row, k) => OfferedIn(k, q, row, st)

\* A save under way is of a key of its tab and block; its author has seen what it will replace.
SaveGood(t, b, s, row, ks, tx, tk) ==
    s.phase # "none" =>
      /\ s.key \in DOMAIN ks /\ ks[s.key].tab = t /\ ks[s.key].block = b /\ ks[s.key].actor = row.actor
      /\ s.text \in 1..MaxTyped
      /\ IF s.phase = "taken"
         THEN s.text \in tk /\ ks[s.key].seen <= s.version /\ s.version <= tx[row.actor][b].version
         ELSE s.version <= ks[s.key].seen

CountsGood(c, ks) == c \in CountRow /\ c.typed <= MaxTyped /\ DOMAIN ks = 1..c.keys

DraftsInv ==
    /\ CountsGood(count, keys) /\ KeysGood(keys, count.typed, texts) /\ TextsGood(texts, taken)
    /\ broken \subseteq Tabs /\ cleared \subseteq DOMAIN keys /\ taken \subseteq 1..MaxTyped /\ blind = FALSE
    /\ StoreGood(store, keys)
    /\ tab \in [Tabs -> TabRow] /\ line \in [Tabs -> Seq(WriteRow)] /\ saving \in [Tabs -> [Blocks -> SavingRow]]
    /\ \A t \in Tabs : TabGood(t, tab[t], keys, cleared) /\ LineGood(t, line[t], keys, store)
    /\ \A t \in Tabs : RemovesGood(line[t], tab[t], keys, taken, over) /\ OffersGood(t, line[t], tab[t], keys, store)
    /\ \A t \in Tabs, b \in Blocks : SaveGood(t, b, saving[t][b], tab[t], keys, texts, taken)
    /\ \A k \in DOMAIN keys : GivenUp(k, keys, taken, over) \/ KeptIn(k, keys[k].text, line[keys[k].tab], store)
    /\ \A k \in cleared : ClearIn(k, line[keys[k].tab], store)

USE DraftsAssumption

-----------------------------------------------------------------------------
(* Drafts: lemmas *)

\* Keys are known better and better.
Grows(ks, ks2) ==
    /\ DOMAIN ks \subseteq DOMAIN ks2
    /\ \A k \in DOMAIN ks : /\ ks[k] \in KeyRow /\ ks2[k] \in KeyRow
                            /\ ks2[k].tab = ks[k].tab /\ ks2[k].block = ks[k].block /\ ks2[k].actor = ks[k].actor
                            /\ ks[k].text <= ks2[k].text /\ ks[k].seen <= ks2[k].seen

LEMMA GoodGrows ==
    ASSUME NEW ks, NEW ks2, Grows(ks, ks2), NEW r, GoodIn(ks, r)
    PROVE  GoodIn(ks2, r)
<1>1. r \in DraftRow /\ r.key \in DOMAIN ks /\ r.actor = ks[r.key].actor /\ r.text <= ks[r.key].text /\ r.version <= ks[r.key].seen
    BY DEF GoodIn
<1>2. r.text \in Nat /\ r.version \in Nat
    BY <1>1 DEF DraftRow
<1>3. /\ ks[r.key].text \in Nat /\ ks[r.key].seen \in Nat /\ ks2[r.key].text \in Nat /\ ks2[r.key].seen \in Nat
      /\ ks2[r.key].actor = ks[r.key].actor /\ r.key \in DOMAIN ks2
      /\ ks[r.key].text <= ks2[r.key].text /\ ks[r.key].seen <= ks2[r.key].seen
    BY <1>1 DEF Grows, KeyRow
<1>4. r.text <= ks2[r.key].text /\ r.version <= ks2[r.key].seen
    BY <1>1, <1>2, <1>3
<1>5. QED
    BY <1>1, <1>3, <1>4 DEF GoodIn

\* A write w joins a line q.
LEMMA AppendIs ==
    ASSUME NEW q \in Seq(WriteRow), NEW w \in WriteRow
    PROVE  /\ Append(q, w) \in Seq(WriteRow) /\ Len(q) \in Nat /\ Len(Append(q, w)) = Len(q) + 1
           /\ Append(q, w)[Len(q) + 1] = w /\ \A i \in 1..Len(q) : Append(q, w)[i] = q[i]
           /\ 1..Len(Append(q, w)) = 1..Len(q) \cup {Len(q) + 1}
    OBVIOUS

LEMMA LineJoins ==
    ASSUME NEW t, NEW q, NEW ks, NEW ks2, NEW st, LineGood(t, q, ks, st), Grows(ks, ks2), StoreGood(st, ks),
           NEW w \in WriteRow, w.op # "list" => GoodIn(ks2, w.record),
           w.op \in {"put", "remove"} => ks2[w.record.key].tab = t,
           w.op = "put" => w.record.text = ks2[w.record.key].text
    PROVE  LineGood(t, Append(q, w), ks2, st)
<1>1. PICK p : p = Append(q, w)
    OBVIOUS
<1>2. /\ p \in Seq(WriteRow) /\ Len(q) \in Nat /\ Len(p) = Len(q) + 1 /\ p[Len(q) + 1] = w
      /\ (\A i \in 1..Len(q) : p[i] = q[i]) /\ 1..Len(p) = 1..Len(q) \cup {Len(q) + 1}
    BY <1>1, AppendIs DEF LineGood
<1>3. \A i \in 1..Len(q) : q[i].op # "list" => GoodIn(ks, q[i].record) /\ GoodIn(ks2, q[i].record)
    BY GoodGrows DEF LineGood
<1>4. \A i \in 1..Len(p) : p[i].op # "list" => GoodIn(ks2, p[i].record)
    BY <1>2, <1>3
<1>5. \A i \in 1..Len(p) : p[i].op \in {"put", "remove"} => ks2[p[i].record.key].tab = t
  <2>1. ASSUME NEW i \in 1..Len(q), q[i].op \in {"put", "remove"} PROVE ks2[q[i].record.key].tab = t
      BY <1>3, <2>1 DEF LineGood, GoodIn, Grows
  <2>2. QED
      BY <1>2, <2>1
<1>6. \A i, j \in 1..Len(p) :
        i < j /\ p[i].op = "put" /\ p[j].op = "put" /\ p[i].record.key = p[j].record.key => p[i].record.text <= p[j].record.text
  <2> SUFFICES ASSUME NEW i \in 1..Len(p), NEW j \in 1..Len(p), i < j, p[i].op = "put", p[j].op = "put", p[i].record.key = p[j].record.key
               PROVE  p[i].record.text <= p[j].record.text
      OBVIOUS
  <2>1. CASE j \in 1..Len(q)
    <3>1. i \in 1..Len(q)
        BY <1>2, <2>1
    <3>2. QED
        BY <1>2, <2>1, <3>1 DEF LineGood
  <2>2. CASE j = Len(q) + 1
    <3>1. i \in 1..Len(q) /\ p[j] = w
        BY <1>2, <2>2
    <3>2. p[i].record.text <= ks2[p[i].record.key].text
        BY <1>4 DEF GoodIn
    <3>3. QED
        BY <3>1, <3>2
  <2>3. QED
      BY <1>2, <2>1, <2>2
<1>7. \A i \in 1..Len(p) : p[i].op = "put" /\ p[i].record.key \in DOMAIN st => st[p[i].record.key].text <= p[i].record.text
  <2> SUFFICES ASSUME NEW i \in 1..Len(p), p[i].op = "put", p[i].record.key \in DOMAIN st
               PROVE  st[p[i].record.key].text <= p[i].record.text
      OBVIOUS
  <2>1. CASE i \in 1..Len(q)
      BY <1>2, <2>1 DEF LineGood
  <2>2. CASE i = Len(q) + 1
    <3>1. p[i] = w
        BY <1>2, <2>2
    <3>2. GoodIn(ks2, st[w.record.key]) /\ st[w.record.key].key = w.record.key
        BY <3>1, GoodGrows DEF StoreGood
    <3>3. QED
        BY <3>1, <3>2 DEF GoodIn
  <2>3. QED
      BY <1>2, <2>1, <2>2
<1>8. LineGood(t, p, ks2, st)
    BY <1>2, <1>4, <1>5, <1>6, <1>7 DEF LineGood
<1>9. QED
    BY <1>1, <1>8

LEMMA OthersJoin ==
    ASSUME NEW q \in Seq(WriteRow), NEW w \in WriteRow, NEW k, NEW st, NEW row
    PROVE  /\ \A text : KeptIn(k, text, q, st) => KeptIn(k, text, Append(q, w), st)
           /\ \A text : PutOfKey(w, k) /\ w.record.text = text => KeptIn(k, text, Append(q, w), st)
           /\ ~PutOfKey(w, k) /\ ClearIn(k, q, st) => ClearIn(k, Append(q, w), st)
           /\ RemoveOf(w, k) => ClearIn(k, Append(q, w), st)
           /\ ~PutOfKey(w, k) /\ OfferedIn(k, q, row, st) => OfferedIn(k, Append(q, w), row, st)
           /\ ~PutOfKey(w, k) /\ Heals(w, row.actor, k) => OfferedIn(k, Append(q, w), row, st)
<1>1. PICK p : p = Append(q, w)
    OBVIOUS
<1>2. /\ p \in Seq(WriteRow) /\ Len(q) \in Nat /\ Len(p) = Len(q) + 1 /\ p[Len(q) + 1] = w
      /\ (\A i \in 1..Len(q) : p[i] = q[i]) /\ 1..Len(p) = 1..Len(q) \cup {Len(q) + 1}
    BY <1>1, AppendIs
<1>3. ASSUME NEW text, KeptIn(k, text, q, st) PROVE KeptIn(k, text, p, st)
    BY <1>2, <1>3 DEF KeptIn
<1>4. ASSUME NEW text, PutOfKey(w, k), w.record.text = text PROVE KeptIn(k, text, p, st)
    BY <1>2, <1>4 DEF KeptIn
<1>5. ASSUME ~PutOfKey(w, k), ClearIn(k, q, st) PROVE ClearIn(k, p, st)
  <2>1. CASE \E i \in 1..Len(q) : RemoveOf(q[i], k) /\ \A j \in 1..Len(q) : j > i => ~PutOfKey(q[j], k)
    <3>1. PICK i \in 1..Len(q) : RemoveOf(q[i], k) /\ \A j \in 1..Len(q) : j > i => ~PutOfKey(q[j], k)
        BY <2>1
    <3>2. i \in 1..Len(p) /\ RemoveOf(p[i], k)
        BY <1>2, <3>1
    <3>3. \A j \in 1..Len(p) : j > i => ~PutOfKey(p[j], k)
        BY <1>2, <1>5, <3>1
    <3>4. QED
        BY <3>2, <3>3 DEF ClearIn
  <2>2. CASE k \notin DOMAIN st /\ \A j \in 1..Len(q) : ~PutOfKey(q[j], k)
      BY <1>2, <1>5, <2>2 DEF ClearIn
  <2>3. QED
      BY <1>5, <2>1, <2>2 DEF ClearIn
<1>6. ASSUME RemoveOf(w, k) PROVE ClearIn(k, p, st)
  <2>1. RemoveOf(p[Len(q) + 1], k) /\ Len(q) + 1 \in 1..Len(p)
      BY <1>2, <1>6
  <2>2. \A j \in 1..Len(p) : ~(j > Len(q) + 1)
      BY <1>2
  <2>3. QED
      BY <2>1, <2>2 DEF ClearIn
<1>7. ASSUME ~PutOfKey(w, k), OfferedIn(k, q, row, st) PROVE OfferedIn(k, p, row, st)
  <2>1. ASSUME NEW i \in 1..Len(p), PutOfKey(p[i], k) PROVE \E j \in 1..Len(p) : i < j /\ Heals(p[j], row.actor, k)
    <3>1. i \in 1..Len(q) /\ PutOfKey(q[i], k)
        BY <1>2, <1>7, <2>1
    <3>2. PICK j \in 1..Len(q) : i < j /\ Heals(q[j], row.actor, k)
        BY <1>7, <3>1 DEF OfferedIn
    <3>3. QED
        BY <1>2, <3>2
  <2>2. ASSUME NEW j \in 1..Len(q), Heals(q[j], row.actor, k) PROVE \E i \in 1..Len(p) : Heals(p[i], row.actor, k)
      BY <1>2, <2>2
  <2>3. QED
      BY <1>7, <2>1, <2>2 DEF OfferedIn
<1>8. ASSUME ~PutOfKey(w, k), Heals(w, row.actor, k) PROVE OfferedIn(k, p, row, st)
  <2>1. Len(q) + 1 \in 1..Len(p) /\ Heals(p[Len(q) + 1], row.actor, k)
      BY <1>2, <1>8
  <2>2. \A i \in 1..Len(p) : PutOfKey(p[i], k) => i < Len(q) + 1
      BY <1>2, <1>8
  <2>3. QED
      BY <2>1, <2>2 DEF OfferedIn
<1>9. QED
    BY <1>1, <1>3, <1>4, <1>5, <1>6, <1>7, <1>8

\* The first write of a line q is made, or fails.
LEMMA TailIs ==
    ASSUME NEW q \in Seq(WriteRow), q # <<>>
    PROVE  /\ Tail(q) \in Seq(WriteRow) /\ Len(q) \in Nat /\ Len(Tail(q)) \in Nat /\ Len(Tail(q)) = Len(q) - 1
           /\ Head(q) = q[1] /\ 1 \in 1..Len(q) /\ Head(q) \in WriteRow
           /\ \A i \in 1..Len(Tail(q)) : i + 1 \in 1..Len(q) /\ Tail(q)[i] = q[i + 1]
           /\ \A i \in 1..Len(q) : i # 1 => i - 1 \in 1..Len(Tail(q)) /\ Tail(q)[i - 1] = q[i]
<1>1. Len(q) \in Nat /\ Len(q) # 0
    OBVIOUS
<1>2. /\ Tail(q) \in Seq(WriteRow) /\ Len(Tail(q)) = Len(q) - 1
      /\ Head(q) = q[1] /\ 1 \in 1..Len(q) /\ \A i \in 1..Len(q) - 1 : Tail(q)[i] = q[i + 1]
    BY <1>1
<1>3. q[1] \in WriteRow
    BY <1>2
<1>4. \A i \in 1..Len(q) : i # 1 => i - 1 \in 1..Len(q) - 1 /\ (i - 1) + 1 = i
    BY <1>1
<1>5. QED
    BY <1>1, <1>2, <1>3, <1>4

LEMMA LineEnds ==
    ASSUME NEW t, NEW q, NEW ks, NEW st, NEW st2, LineGood(t, q, ks, st), q # <<>>,
           \A k \in DOMAIN st2 : (k \in DOMAIN st /\ st2[k] = st[k]) \/ (PutOfKey(Head(q), k) /\ st2[k] = Head(q).record)
    PROVE  LineGood(t, Tail(q), ks, st2)
<1>1. PICK p : p = Tail(q)
    OBVIOUS
<1>2. /\ p \in Seq(WriteRow) /\ Len(q) \in Nat /\ Len(p) \in Nat /\ Head(q) = q[1] /\ 1 \in 1..Len(q)
      /\ \A i \in 1..Len(p) : i + 1 \in 1..Len(q) /\ p[i] = q[i + 1]
    BY <1>1, TailIs DEF LineGood
<1>3. /\ \A i \in 1..Len(p) : p[i].op # "list" => GoodIn(ks, p[i].record)
      /\ \A i \in 1..Len(p) : p[i].op \in {"put", "remove"} => ks[p[i].record.key].tab = t
    BY <1>2 DEF LineGood
<1>4. \A i, j \in 1..Len(p) :
        i < j /\ p[i].op = "put" /\ p[j].op = "put" /\ p[i].record.key = p[j].record.key => p[i].record.text <= p[j].record.text
  <2> SUFFICES ASSUME NEW i \in 1..Len(p), NEW j \in 1..Len(p), i < j, p[i].op = "put", p[j].op = "put", p[i].record.key = p[j].record.key
               PROVE  p[i].record.text <= p[j].record.text
      OBVIOUS
  <2>1. i + 1 \in 1..Len(q) /\ j + 1 \in 1..Len(q) /\ i + 1 < j + 1 /\ p[i] = q[i + 1] /\ p[j] = q[j + 1]
      BY <1>2
  <2>2. QED
      BY <2>1 DEF LineGood
<1>5. \A i \in 1..Len(p) : p[i].op = "put" /\ p[i].record.key \in DOMAIN st2 => st2[p[i].record.key].text <= p[i].record.text
  <2> SUFFICES ASSUME NEW i \in 1..Len(p), p[i].op = "put", p[i].record.key \in DOMAIN st2
               PROVE  st2[p[i].record.key].text <= p[i].record.text
      OBVIOUS
  <2>0. i + 1 \in 1..Len(q) /\ 1 < i + 1 /\ p[i] = q[i + 1]
      BY <1>2
  <2>1. CASE p[i].record.key \in DOMAIN st /\ st2[p[i].record.key] = st[p[i].record.key]
      BY <2>0, <2>1 DEF LineGood
  <2>2. CASE PutOfKey(Head(q), p[i].record.key) /\ st2[p[i].record.key] = Head(q).record
    <3>1. q[1].op = "put" /\ q[1].record.key = q[i + 1].record.key /\ st2[p[i].record.key] = q[1].record
        BY <1>2, <2>0, <2>2 DEF PutOfKey
    <3>2. q[1].record.text <= q[i + 1].record.text
        BY <1>2, <2>0, <3>1 DEF LineGood
    <3>3. QED
        BY <2>0, <3>1, <3>2
  <2>3. QED
      BY <2>1, <2>2
<1>6. LineGood(t, p, ks, st2)
    BY <1>2, <1>3, <1>4, <1>5 DEF LineGood
<1>7. QED
    BY <1>1, <1>6

LEMMA KeptEnds ==
    ASSUME NEW t, NEW q, NEW ks, NEW st, NEW st2, LineGood(t, q, ks, st), q # <<>>,
           NEW k, KeptIn(k, ks[k].text, q, st), ks[k].text \in Nat,
           PutOfKey(Head(q), k) => k \in DOMAIN st2 /\ st2[k] = Head(q).record,
           ~PutOfKey(Head(q), k) /\ k \in DOMAIN st => k \in DOMAIN st2 /\ st2[k] = st[k]
    PROVE  KeptIn(k, ks[k].text, Tail(q), st2)
<1>1. /\ Head(q) = q[1] /\ 1 \in 1..Len(q)
      /\ \A i \in 1..Len(q) : i # 1 => i - 1 \in 1..Len(Tail(q)) /\ Tail(q)[i - 1] = q[i]
    BY TailIs DEF LineGood
<1>2. CASE k \in DOMAIN st /\ st[k].text = ks[k].text
  <2>1. CASE PutOfKey(Head(q), k)
    <3>1. q[1].op = "put" /\ q[1].record.key = k /\ GoodIn(ks, q[1].record)
        BY <1>1, <2>1 DEF PutOfKey, LineGood
    <3>2. st[k].text <= q[1].record.text
        BY <1>1, <1>2, <3>1 DEF LineGood
    <3>3. q[1].record.text <= ks[k].text /\ q[1].record.text \in Nat
        BY <3>1 DEF GoodIn, DraftRow
    <3>4. q[1].record.text = ks[k].text
        BY <1>2, <3>2, <3>3
    <3>5. QED
        BY <1>1, <2>1, <3>4 DEF KeptIn
  <2>2. CASE ~PutOfKey(Head(q), k)
      BY <1>2, <2>2 DEF KeptIn
  <2>3. QED
      BY <2>1, <2>2
<1>3. CASE \E i \in 1..Len(q) : PutOfKey(q[i], k) /\ q[i].record.text = ks[k].text
  <2>1. PICK i \in 1..Len(q) : PutOfKey(q[i], k) /\ q[i].record.text = ks[k].text
      BY <1>3
  <2>2. CASE i = 1
      BY <1>1, <2>1, <2>2 DEF KeptIn
  <2>3. CASE i # 1
      BY <1>1, <2>1, <2>3 DEF KeptIn
  <2>4. QED
      BY <2>2, <2>3
<1>4. QED
    BY <1>2, <1>3 DEF KeptIn

LEMMA KeptStays ==
    ASSUME NEW q \in Seq(WriteRow), NEW st, q # <<>>, NEW k, NEW text, KeptIn(k, text, q, st),
           ~(PutOfKey(Head(q), k) /\ Head(q).record.text = text)
    PROVE  KeptIn(k, text, Tail(q), st)
<1>1. /\ Head(q) = q[1]
      /\ \A i \in 1..Len(q) : i # 1 => i - 1 \in 1..Len(Tail(q)) /\ Tail(q)[i - 1] = q[i]
    BY TailIs
<1>2. CASE k \in DOMAIN st /\ st[k].text = text
    BY <1>2 DEF KeptIn
<1>3. CASE \E i \in 1..Len(q) : PutOfKey(q[i], k) /\ q[i].record.text = text
  <2>1. PICK i \in 1..Len(q) : PutOfKey(q[i], k) /\ q[i].record.text = text
      BY <1>3
  <2>2. i # 1
      BY <1>1, <2>1
  <2>3. QED
      BY <1>1, <2>1, <2>2 DEF KeptIn
<1>4. QED
    BY <1>2, <1>3 DEF KeptIn

LEMMA ClearEnds ==
    ASSUME NEW q \in Seq(WriteRow), NEW st, NEW st2, q # <<>>, NEW k, ClearIn(k, q, st),
           k \in DOMAIN st2 => k \in DOMAIN st \/ PutOfKey(Head(q), k),
           RemoveOf(Head(q), k) => k \notin DOMAIN st2
    PROVE  ClearIn(k, Tail(q), st2)
<1>1. PICK p : p = Tail(q)
    OBVIOUS
<1>2. /\ Len(q) \in Nat /\ Len(p) \in Nat /\ Head(q) = q[1] /\ 1 \in 1..Len(q)
      /\ \A i \in 1..Len(p) : i + 1 \in 1..Len(q) /\ p[i] = q[i + 1]
      /\ \A i \in 1..Len(q) : i # 1 => i - 1 \in 1..Len(p) /\ p[i - 1] = q[i]
    BY <1>1, TailIs
<1>3. CASE \E i \in 1..Len(q) : RemoveOf(q[i], k) /\ \A j \in 1..Len(q) : j > i => ~PutOfKey(q[j], k)
  <2>1. PICK i \in 1..Len(q) : RemoveOf(q[i], k) /\ \A j \in 1..Len(q) : j > i => ~PutOfKey(q[j], k)
      BY <1>3
  <2>2. CASE i = 1
    <3>1. k \notin DOMAIN st2
        BY <1>2, <2>1, <2>2
    <3>2. \A j \in 1..Len(p) : j + 1 \in 1..Len(q) /\ j + 1 > 1
        BY <1>2
    <3>3. \A j \in 1..Len(p) : ~PutOfKey(p[j], k)
        BY <1>2, <2>1, <2>2, <3>2
    <3>4. QED
        BY <1>1, <3>1, <3>3 DEF ClearIn
  <2>3. CASE i # 1
    <3>1. i - 1 \in 1..Len(p) /\ RemoveOf(p[i - 1], k)
        BY <1>2, <2>1, <2>3
    <3>2. ASSUME NEW j \in 1..Len(p), j > i - 1 PROVE ~PutOfKey(p[j], k)
      <4>1. j + 1 \in 1..Len(q) /\ j + 1 > i /\ p[j] = q[j + 1]
          BY <1>2, <3>2
      <4>2. QED
          BY <2>1, <4>1
    <3>3. QED
        BY <1>1, <3>1, <3>2 DEF ClearIn
  <2>4. QED
      BY <2>2, <2>3
<1>4. CASE k \notin DOMAIN st /\ \A j \in 1..Len(q) : ~PutOfKey(q[j], k)
  <2>1. k \notin DOMAIN st2
      BY <1>2, <1>4
  <2>2. \A j \in 1..Len(p) : ~PutOfKey(p[j], k)
      BY <1>2, <1>4
  <2>3. QED
      BY <1>1, <2>1, <2>2 DEF ClearIn
<1>5. QED
    BY <1>3, <1>4 DEF ClearIn

LEMMA OfferedEnds ==
    ASSUME NEW q \in Seq(WriteRow), NEW st, NEW st2, q # <<>>, NEW k, NEW row, NEW row2, OfferedIn(k, q, row, st),
           row2.actor = row.actor, k \in DOMAIN st2 => k \in DOMAIN st \/ PutOfKey(Head(q), k),
           k \in DOMAIN st2 /\ (\E r \in row.offered : r.key = k) => \E r \in row2.offered : r.key = k,
           k \in DOMAIN st2 /\ Heals(Head(q), row.actor, k) => \E r \in row2.offered : r.key = k
    PROVE  OfferedIn(k, Tail(q), row2, st2)
<1>1. PICK p : p = Tail(q)
    OBVIOUS
<1>2. /\ Len(q) \in Nat /\ Len(p) \in Nat /\ Head(q) = q[1] /\ 1 \in 1..Len(q)
      /\ \A i \in 1..Len(p) : i + 1 \in 1..Len(q) /\ p[i] = q[i + 1]
      /\ \A i \in 1..Len(q) : i # 1 => i - 1 \in 1..Len(p) /\ p[i - 1] = q[i]
    BY <1>1, TailIs
<1>3. ASSUME NEW i \in 1..Len(p), PutOfKey(p[i], k) PROVE \E j \in 1..Len(p) : i < j /\ Heals(p[j], row2.actor, k)
  <2>1. i + 1 \in 1..Len(q) /\ PutOfKey(q[i + 1], k)
      BY <1>2, <1>3
  <2>2. PICK j \in 1..Len(q) : i + 1 < j /\ Heals(q[j], row.actor, k)
      BY <2>1 DEF OfferedIn
  <2>3. j # 1 /\ i < j - 1
      BY <2>2
  <2>4. QED
      BY <1>2, <2>2, <2>3
<1>4. ASSUME k \in DOMAIN st2 PROVE (\E r \in row2.offered : r.key = k) \/ \E j \in 1..Len(p) : Heals(p[j], row2.actor, k)
  <2>1. ASSUME NEW j \in 1..Len(q), Heals(q[j], row.actor, k)
        PROVE  (\E r \in row2.offered : r.key = k) \/ \E i \in 1..Len(p) : Heals(p[i], row2.actor, k)
    <3>1. CASE j = 1
        BY <1>2, <1>4, <2>1, <3>1
    <3>2. CASE j # 1
        BY <1>2, <2>1, <3>2
    <3>3. QED
        BY <3>1, <3>2
  <2>2. CASE k \in DOMAIN st
      BY <1>4, <2>1, <2>2 DEF OfferedIn
  <2>3. CASE PutOfKey(Head(q), k)
    <3>1. PICK j \in 1..Len(q) : 1 < j /\ Heals(q[j], row.actor, k)
        BY <1>2, <2>3 DEF OfferedIn
    <3>2. QED
        BY <2>1, <3>1
  <2>4. QED
      BY <1>4, <2>2, <2>3
<1>5. QED
    BY <1>1, <1>3, <1>4 DEF OfferedIn

LEMMA RemovesEnd ==
    ASSUME NEW q \in Seq(WriteRow), q # <<>>, NEW row, NEW ks, NEW tk, NEW ov, RemovesGood(q, row, ks, tk, ov)
    PROVE  /\ RemovesGood(Tail(q), row, ks, tk, ov)
           /\ Head(q).op = "remove" => GivenUp(Head(q).record.key, ks, tk, ov)
<1>1. /\ Head(q) = q[1] /\ 1 \in 1..Len(q)
      /\ \A i \in 1..Len(Tail(q)) : i + 1 \in 1..Len(q) /\ Tail(q)[i] = q[i + 1]
    BY TailIs
<1>2. QED
    BY <1>1 DEF RemovesGood

\* What other tabs write.
LEMMA LineElsewhere ==
    ASSUME NEW t, NEW q, NEW ks, NEW st, NEW st2, LineGood(t, q, ks, st),
           \A k \in DOMAIN st2 : ks[k].tab = t => k \in DOMAIN st /\ st2[k] = st[k]
    PROVE  LineGood(t, q, ks, st2)
<1>1. ASSUME NEW i \in 1..Len(q), q[i].op = "put", q[i].record.key \in DOMAIN st2
      PROVE  st2[q[i].record.key].text <= q[i].record.text
  <2>1. ks[q[i].record.key].tab = t
      BY <1>1 DEF LineGood
  <2>2. q[i].record.key \in DOMAIN st /\ st2[q[i].record.key] = st[q[i].record.key]
      BY <1>1, <2>1
  <2>3. QED
      BY <1>1, <2>2 DEF LineGood
<1>2. QED
    BY <1>1 DEF LineGood

LEMMA OffersElsewhere ==
    ASSUME NEW t, NEW q, NEW row, NEW ks, NEW st, NEW st2, OffersGood(t, q, row, ks, st),
           \A k \in DOMAIN st2 : ks[k].tab = t => k \in DOMAIN st
    PROVE  OffersGood(t, q, row, ks, st2)
    BY DEF OffersGood, OfferedIn

LEMMA LineGrows ==
    ASSUME NEW t, NEW q, NEW ks, NEW ks2, NEW st, LineGood(t, q, ks, st), Grows(ks, ks2)
    PROVE  LineGood(t, q, ks2, st)
<1>1. ASSUME NEW i \in 1..Len(q), q[i].op # "list" PROVE GoodIn(ks, q[i].record) /\ GoodIn(ks2, q[i].record)
    BY <1>1, GoodGrows DEF LineGood
<1>2. ASSUME NEW i \in 1..Len(q), q[i].op \in {"put", "remove"} PROVE ks2[q[i].record.key].tab = t
    BY <1>1, <1>2 DEF LineGood, GoodIn, Grows
<1>3. QED
    BY <1>1, <1>2 DEF LineGood

LEMMA NoDraftIs == NoDraft.key = 0 /\ NoDraft.actor = Nobody /\ Nobody \notin Actors /\ NoDraft \notin DraftRow
    BY DEF NoDraft, DraftRow

-----------------------------------------------------------------------------
(* Drafts: a text is written *)

\* Tab t edits r at block b and writes it, its author having seen version seen: more of the draft it edits
\* already, or a new one.
PutStep(t, b, r, seen, th) ==
    /\ r.actor = tab[t].actor
    /\ tab' = [tab EXCEPT ![t].draft[b] = r] /\ Joins(t, DraftWrite("put", r, th)) /\ Knows(r, t, b, seen)
    /\ UNCHANGED <<store, broken, texts, taken, over, cleared, blind>>
    /\ CountsGood(count', keys') /\ count.typed <= count'.typed /\ r.text <= count'.typed
    /\ seen \in Nat \ {0} /\ r.version <= seen /\ seen <= texts[r.actor][b].version
    /\ \/ /\ tab[t].draft[b] # NoDraft /\ tab[t].draft[b].key = r.key
          /\ tab[t].draft[b].text <= r.text /\ keys[r.key].seen <= seen
       \/ r.key \notin DOMAIN keys /\ (tab[t].draft[b] = NoDraft \/ th)
    /\ saving' \in [Tabs -> [Blocks -> SavingRow]]
    /\ \A t1 \in Tabs, b1 \in Blocks :
         \/ saving'[t1][b1].phase = "none"
         \/ /\ saving'[t1][b1] = saving[t1][b1]
            /\ t1 = t /\ b1 = b /\ r.key \in DOMAIN keys => keys[r.key].seen = seen
         \/ t1 = t /\ b1 = b /\ saving'[t][b] = Captured("waits", r)

LEMMA PutKeeps ==
    ASSUME DraftsInv, NEW t \in Tabs, NEW b \in Blocks, NEW r \in DraftRow, NEW seen, NEW th \in BOOLEAN, PutStep(t, b, r, seen, th)
    PROVE  DraftsInv'
<1>0. PICK w : w = DraftWrite("put", r, th)
    OBVIOUS
<1>1. /\ w \in WriteRow /\ w.op = "put" /\ w.record = r /\ w.then = th
      /\ PutOfKey(w, r.key) /\ \A k : k # r.key => ~PutOfKey(w, k)
    BY <1>0 DEF DraftWrite, WriteRow, Ops, PutOfKey
<1>2. /\ r.key \in Nat \ {0} /\ r.actor \in Actors /\ r.text \in 1..MaxTyped /\ r.version \in Nat \ {0}
      /\ seen \in Nat \ {0} /\ count.typed \in Nat /\ count'.typed \in Nat
    BY DEF DraftRow, PutStep, CountsGood, CountRow, DraftsInv
<1>3. /\ DOMAIN keys' = DOMAIN keys \cup {r.key} /\ \A k \in DOMAIN keys : k # r.key => keys'[k] = keys[k]
      /\ keys'[r.key] = [tab |-> t, block |-> b, actor |-> r.actor, text |-> r.text, seen |-> seen]
    BY DEF PutStep, Knows
<1>4. /\ keys'[r.key] \in KeyRow /\ keys'[r.key].tab = t /\ keys'[r.key].block = b /\ keys'[r.key].actor = r.actor
      /\ keys'[r.key].text = r.text /\ keys'[r.key].seen = seen
    BY <1>2, <1>3 DEF KeyRow
<1>5. \A k \in DOMAIN keys : /\ keys[k] \in KeyRow /\ keys[k].text <= count.typed
                             /\ keys[k].seen <= texts[keys[k].actor][keys[k].block].version
    BY DEF DraftsInv, KeysGood
<1>6. ASSUME r.key \in DOMAIN keys
      PROVE  /\ tab[t].draft[b] # NoDraft /\ tab[t].draft[b].key = r.key
             /\ keys[r.key].tab = t /\ keys[r.key].block = b /\ keys[r.key].actor = r.actor
             /\ keys[r.key].text <= r.text /\ keys[r.key].seen <= seen /\ r.key \notin cleared
  <2>1. tab[t].draft[b] # NoDraft /\ tab[t].draft[b].key = r.key /\ tab[t].draft[b].text <= r.text /\ keys[r.key].seen <= seen
      BY <1>6 DEF PutStep
  <2>2. TabGood(t, tab[t], keys, cleared)
      BY DEF DraftsInv
  <2>3. /\ GoodIn(keys, tab[t].draft[b]) /\ keys[r.key].tab = t /\ keys[r.key].block = b
        /\ keys[r.key].text = tab[t].draft[b].text /\ r.key \notin cleared /\ tab[t].draft[b].actor = tab[t].actor
      BY <2>1, <2>2 DEF TabGood
  <2>4. keys[r.key].actor = r.actor
      BY <2>1, <2>3 DEF GoodIn, PutStep
  <2>5. QED
      BY <2>1, <2>3, <2>4
<1>7. Grows(keys, keys')
  <2>1. ASSUME NEW k \in DOMAIN keys
        PROVE  /\ keys[k] \in KeyRow /\ keys'[k] \in KeyRow
               /\ keys'[k].tab = keys[k].tab /\ keys'[k].block = keys[k].block /\ keys'[k].actor = keys[k].actor
               /\ keys[k].text <= keys'[k].text /\ keys[k].seen <= keys'[k].seen
    <3>1. CASE k = r.key
        BY <1>4, <1>5, <1>6, <3>1
    <3>2. CASE k # r.key
      <4>1. keys[k].text \in Nat /\ keys[k].seen \in Nat
          BY <1>5 DEF KeyRow
      <4>2. QED
          BY <1>3, <1>5, <3>2, <4>1
    <3>3. QED
        BY <3>1, <3>2
  <2>2. QED
      BY <1>3, <2>1 DEF Grows
<1>8. KeysGood(keys', count'.typed, texts)
  <2>1. ASSUME NEW k \in DOMAIN keys'
        PROVE  /\ keys'[k] \in KeyRow /\ keys'[k].text <= count'.typed
               /\ keys'[k].seen <= texts[keys'[k].actor][keys'[k].block].version
    <3>1. CASE k = r.key
        BY <1>4, <3>1 DEF PutStep
    <3>2. CASE k # r.key
      <4>1. k \in DOMAIN keys /\ keys'[k] = keys[k] /\ keys[k].text \in Nat
          BY <1>3, <1>5, <3>2 DEF KeyRow
      <4>2. QED
          BY <1>2, <1>5, <4>1 DEF PutStep
    <3>3. QED
        BY <3>1, <3>2
  <2>2. QED
      BY <2>1 DEF KeysGood
<1>9. GoodIn(keys', r)
    BY <1>2, <1>3, <1>4 DEF GoodIn, PutStep
<1>10. /\ tab' \in [Tabs -> TabRow] /\ \A t1 \in Tabs : t1 # t => tab'[t1] = tab[t1]
       /\ tab'[t].actor = tab[t].actor /\ tab'[t].offered = tab[t].offered /\ tab'[t].error = tab[t].error
       /\ \A b1 \in Blocks : tab'[t].draft[b1] = IF b1 = b THEN r ELSE tab[t].draft[b1]
  <2>1. tab \in [Tabs -> TabRow] /\ tab' = [tab EXCEPT ![t] = [tab[t] EXCEPT !.draft = [tab[t].draft EXCEPT ![b] = r]]]
      BY DEF PutStep, DraftsInv
  <2>2. tab[t] \in TabRow /\ tab[t].draft \in [Blocks -> DraftRow \cup {NoDraft}]
      BY <2>1 DEF TabRow
  <2>3. [tab[t].draft EXCEPT ![b] = r] \in [Blocks -> DraftRow \cup {NoDraft}]
      BY <2>2
  <2>4. tab'[t] = [tab[t] EXCEPT !.draft = [tab[t].draft EXCEPT ![b] = r]]
      BY <2>1
  <2>5. tab'[t] \in TabRow
      BY <2>2, <2>3, <2>4 DEF TabRow
  <2>6. \A t1 \in Tabs : t1 # t => tab'[t1] = tab[t1]
      BY <2>1
  <2>7. tab'[t].actor = tab[t].actor /\ tab'[t].offered = tab[t].offered /\ tab'[t].error = tab[t].error
      BY <2>2, <2>4 DEF TabRow
  <2>8. tab'[t].draft = [tab[t].draft EXCEPT ![b] = r]
      BY <2>2, <2>4 DEF TabRow
  <2>9. QED
      BY <2>1, <2>2, <2>5, <2>6, <2>7, <2>8
<1>11. line' \in [Tabs -> Seq(WriteRow)] /\ line'[t] = Append(line[t], w) /\ \A t1 \in Tabs : t1 # t => line'[t1] = line[t1]
    BY <1>0, <1>1, AppendIs DEF PutStep, Joins, DraftsInv
<1>12. \A t1 \in Tabs : TabGood(t1, tab[t1], keys, cleared) /\ LineGood(t1, line[t1], keys, store)
    BY DEF DraftsInv
<1>13. ASSUME NEW t1 \in Tabs, NEW b1 \in Blocks, tab[t1].draft[b1] # NoDraft
       PROVE  LET d == tab[t1].draft[b1] IN
              /\ GoodIn(keys, d) /\ GoodIn(keys', d) /\ d.actor = tab[t1].actor /\ d.key \in DOMAIN keys /\ d.key \notin cleared
              /\ keys[d.key].tab = t1 /\ keys[d.key].block = b1 /\ keys[d.key].text = d.text
    BY <1>7, <1>12, <1>13, GoodGrows DEF TabGood, GoodIn
<1>14. ASSUME NEW t1 \in Tabs PROVE TabGood(t1, tab'[t1], keys', cleared)
  <2>1. \A o \in tab'[t1].offered : GoodIn(keys', o) /\ o.actor = tab'[t1].actor
    <3>1. tab'[t1].offered = tab[t1].offered /\ tab'[t1].actor = tab[t1].actor
        BY <1>10
    <3>2. \A o \in tab[t1].offered : GoodIn(keys, o) /\ o.actor = tab[t1].actor
        BY <1>12 DEF TabGood
    <3>3. QED
        BY <1>7, <3>1, <3>2, GoodGrows
  <2>2. ASSUME NEW b1 \in Blocks, tab'[t1].draft[b1] # NoDraft
        PROVE  LET d == tab'[t1].draft[b1] IN
               /\ GoodIn(keys', d) /\ d.actor = tab'[t1].actor /\ d.key \notin cleared
               /\ keys'[d.key].tab = t1 /\ keys'[d.key].block = b1 /\ keys'[d.key].text = d.text
    <3>1. CASE t1 = t /\ b1 = b
      <4>1. tab'[t1].draft[b1] = r
          BY <1>10, <3>1
      <4>2. r.key \notin cleared
          BY <1>6 DEF DraftsInv
      <4>3. QED
          BY <1>4, <1>9, <1>10, <3>1, <4>1, <4>2 DEF PutStep
    <3>2. CASE ~(t1 = t /\ b1 = b)
      <4>1. tab'[t1].draft[b1] = tab[t1].draft[b1] /\ tab'[t1].actor = tab[t1].actor
          BY <1>10, <3>2
      <4>2. tab[t1].draft[b1].key # r.key
          BY <1>6, <1>13, <2>2, <3>2, <4>1
      <4>3. QED
          BY <1>3, <1>13, <2>2, <4>1, <4>2
    <3>3. QED
        BY <3>1, <3>2
  <2>3. QED
      BY <1>10, <2>1, <2>2 DEF TabGood
<1>15. StoreGood(store, keys')
  <2>1. DOMAIN store \subseteq DOMAIN keys /\ \A k \in DOMAIN store : store[k].key = k /\ GoodIn(keys, store[k])
      BY DEF DraftsInv, StoreGood
  <2>2. QED
      BY <1>3, <1>7, <2>1, GoodGrows DEF StoreGood
<1>16. ASSUME NEW t1 \in Tabs PROVE LineGood(t1, line'[t1], keys', store)
  <2>1. CASE t1 = t
    <3>1. w.op # "list" => GoodIn(keys', w.record)
        BY <1>1, <1>9
    <3>2. keys'[w.record.key].tab = t /\ w.record.text = keys'[w.record.key].text
        BY <1>1, <1>4
    <3>3. StoreGood(store, keys)
        BY DEF DraftsInv
    <3>4. QED
        BY <1>1, <1>7, <1>11, <1>12, <2>1, <3>1, <3>2, <3>3, LineJoins
  <2>2. CASE t1 # t
      BY <1>7, <1>11, <1>12, <2>2, LineGrows
  <2>3. QED
      BY <2>1, <2>2
<1>17. ASSUME NEW t1 \in Tabs, NEW i \in 1..Len(line[t1]), line[t1][i].op = "remove"
       PROVE  LET k == line[t1][i].record.key IN
              k \in DOMAIN keys /\ k # r.key /\ GivenUp(k, keys, taken, over) /\ ~Drafted(tab[t1], k)
  <2>1. PICK k : k = line[t1][i].record.key
      OBVIOUS
  <2>2. k \in DOMAIN keys /\ keys[k].tab = t1
      BY <1>12, <1>17, <2>1 DEF LineGood, GoodIn
  <2>3. GivenUp(k, keys, taken, over) /\ ~Drafted(tab[t1], k)
      BY <1>17, <2>1 DEF DraftsInv, RemovesGood
  <2>4. k # r.key
      BY <1>6, <2>2, <2>3 DEF Drafted
  <2>5. QED
      BY <2>1, <2>2, <2>3, <2>4
<1>18. ASSUME NEW t1 \in Tabs PROVE RemovesGood(line'[t1], tab'[t1], keys', taken, over)
  <2>1. ASSUME NEW i \in 1..Len(line'[t1]), line'[t1][i].op = "remove"
        PROVE  GivenUp(line'[t1][i].record.key, keys', taken, over) /\ ~Drafted(tab'[t1], line'[t1][i].record.key)
    <3>1. i \in 1..Len(line[t1]) /\ line'[t1][i] = line[t1][i]
      <4>1. CASE t1 = t
          BY <1>1, <1>11, <1>12, <2>1, <4>1, AppendIs DEF LineGood
      <4>2. CASE t1 # t
          BY <1>11, <4>2
      <4>3. QED
          BY <4>1, <4>2
    <3>2. PICK k : k = line[t1][i].record.key
        OBVIOUS
    <3>3. k \in DOMAIN keys /\ k # r.key /\ GivenUp(k, keys, taken, over) /\ ~Drafted(tab[t1], k)
        BY <1>17, <2>1, <3>1, <3>2
    <3>4. GivenUp(k, keys', taken, over)
        BY <1>3, <3>3 DEF GivenUp
    <3>5. ~Drafted(tab'[t1], k)
        BY <1>10, <3>3 DEF Drafted
    <3>6. QED
        BY <3>1, <3>2, <3>4, <3>5
  <2>2. QED
      BY <2>1 DEF RemovesGood
<1>19. ASSUME NEW t1 \in Tabs PROVE OffersGood(t1, line'[t1], tab'[t1], keys', store)
  <2> SUFFICES ASSUME tab'[t1].actor # Nobody, ~tab'[t1].error,
                      NEW k \in DOMAIN keys', keys'[k].tab = t1, keys'[k].actor = tab'[t1].actor, ~Drafted(tab'[t1], k)
               PROVE  OfferedIn(k, line'[t1], tab'[t1], store)
      BY DEF OffersGood
  <2>1. k # r.key
      BY <1>4, <1>10 DEF Drafted
  <2>2. k \in DOMAIN keys /\ keys'[k] = keys[k] /\ k # 0
      BY <1>3, <2>1 DEF DraftsInv, CountsGood
  <2>3. OffersGood(t1, line[t1], tab[t1], keys, store)
      BY DEF DraftsInv
  <2>4. CASE t1 # t
      BY <1>10, <1>11, <2>2, <2>3, <2>4 DEF OffersGood
  <2>5. CASE t1 = t
    <3>1. line[t] \in Seq(WriteRow) /\ ~PutOfKey(w, k)
        BY <1>1, <1>12, <2>1 DEF LineGood
    <3>2. OfferedIn(k, Append(line[t], w), tab[t], store)
      <4>1. CASE ~Drafted(tab[t], k)
        <5>1. OfferedIn(k, line[t], tab[t], store)
            BY <1>10, <2>2, <2>3, <2>5, <4>1 DEF OffersGood
        <5>2. QED
            BY <1>1, <3>1, <5>1, OthersJoin
      <4>2. CASE Drafted(tab[t], k)
        <5>1. tab[t].draft[b].key = k
            BY <1>10, <2>5, <4>2 DEF Drafted
        <5>2. tab[t].draft[b] # NoDraft
            BY <2>2, <5>1, NoDraftIs
        <5>3. th
            BY <2>1, <5>1, <5>2 DEF PutStep
        <5>4. Heals(w, tab[t].actor, k)
            BY <1>1, <5>3 DEF Heals
        <5>5. QED
            BY <1>1, <3>1, <5>4, OthersJoin
      <4>3. QED
          BY <4>1, <4>2
    <3>3. QED
        BY <1>10, <1>11, <2>5, <3>2 DEF OfferedIn
  <2>6. QED
      BY <2>4, <2>5
<1>20. ASSUME NEW t1 \in Tabs, NEW b1 \in Blocks PROVE SaveGood(t1, b1, saving'[t1][b1], tab'[t1], keys', texts, taken)
  <2>0. tab'[t1].actor = tab[t1].actor
      BY <1>10
  <2>1. CASE saving'[t1][b1].phase = "none"
      BY <2>1 DEF SaveGood
  <2>2. CASE saving'[t1][b1] = saving[t1][b1] /\ (t1 = t /\ b1 = b /\ r.key \in DOMAIN keys => keys[r.key].seen = seen)
    <3>1. SaveGood(t1, b1, saving[t1][b1], tab[t1], keys, texts, taken)
        BY DEF DraftsInv
    <3>2. ASSUME NEW k \in DOMAIN keys, keys[k].tab = t1, keys[k].block = b1
          PROVE  /\ k \in DOMAIN keys' /\ keys'[k].tab = keys[k].tab /\ keys'[k].block = keys[k].block
                 /\ keys'[k].actor = keys[k].actor /\ keys'[k].seen = keys[k].seen
      <4>1. CASE k = r.key
          BY <1>3, <1>4, <1>6, <2>2, <3>2, <4>1
      <4>2. CASE k # r.key
          BY <1>3, <4>2
      <4>3. QED
          BY <4>1, <4>2
    <3>3. QED
        BY <2>0, <2>2, <3>1, <3>2 DEF SaveGood
  <2>3. CASE t1 = t /\ b1 = b /\ saving'[t][b] = Captured("waits", r)
    <3>1. /\ saving'[t][b].phase = "waits" /\ saving'[t][b].key = r.key /\ saving'[t][b].text = r.text
          /\ saving'[t][b].version = r.version
        BY <2>3 DEF Captured
    <3>2. QED
        BY <1>2, <1>3, <1>4, <2>0, <2>3, <3>1 DEF SaveGood, PutStep
  <2>4. QED
      BY <2>1, <2>2, <2>3 DEF PutStep
<1>21. ASSUME NEW k \in DOMAIN keys' PROVE GivenUp(k, keys', taken, over) \/ KeptIn(k, keys'[k].text, line'[keys'[k].tab], store)
  <2>1. CASE k = r.key
      BY <1>1, <1>4, <1>11, <1>12, <2>1, OthersJoin DEF LineGood
  <2>2. CASE k # r.key
    <3>1. k \in DOMAIN keys /\ keys'[k] = keys[k] /\ keys[k].tab \in Tabs
        BY <1>3, <1>5, <2>2 DEF KeyRow
    <3>2. GivenUp(k, keys, taken, over) \/ KeptIn(k, keys[k].text, line[keys[k].tab], store)
        BY <3>1 DEF DraftsInv
    <3>3. CASE GivenUp(k, keys, taken, over)
        BY <3>1, <3>3 DEF GivenUp
    <3>4. CASE KeptIn(k, keys[k].text, line[keys[k].tab], store)
        BY <1>1, <1>11, <1>12, <3>1, <3>4, OthersJoin DEF LineGood
    <3>5. QED
        BY <3>2, <3>3, <3>4
  <2>3. QED
      BY <2>1, <2>2
<1>22. ASSUME NEW k \in cleared PROVE ClearIn(k, line'[keys'[k].tab], store)
  <2>1. k \in DOMAIN keys /\ k # r.key
      BY <1>6 DEF DraftsInv
  <2>2. keys'[k] = keys[k] /\ keys[k].tab \in Tabs /\ ClearIn(k, line[keys[k].tab], store) /\ ~PutOfKey(w, k)
      BY <1>1, <1>3, <1>5, <2>1 DEF DraftsInv, KeyRow
  <2>3. QED
      BY <1>1, <1>11, <1>12, <2>2, OthersJoin DEF LineGood
<1>23. /\ UNCHANGED <<store, broken, texts, taken, over, cleared, blind>> /\ CountsGood(count', keys')
       /\ saving' \in [Tabs -> [Blocks -> SavingRow]]
    BY DEF PutStep
<1>24. TextsGood(texts, taken) /\ broken \subseteq Tabs /\ cleared \subseteq DOMAIN keys' /\ taken \subseteq 1..MaxTyped /\ blind = FALSE
    BY <1>3 DEF DraftsInv
<1>25. QED
    BY <1>8, <1>10, <1>11, <1>14, <1>15, <1>16, <1>18, <1>19, <1>20, <1>21, <1>22, <1>23, <1>24 DEF DraftsInv

-----------------------------------------------------------------------------
(* Drafts: a draft is cleared, or something else joins a line *)

\* Tab t clears the draft of block b, whose text is taken or given up.
ClearStep(t, b) ==
    /\ tab[t].draft[b] # NoDraft /\ Clear(t, b)
    /\ UNCHANGED <<store, broken, texts, count, taken, blind>> /\ over \subseteq over'
    /\ GivenUp(tab[t].draft[b].key, keys, taken, over')
    /\ saving' \in [Tabs -> [Blocks -> SavingRow]]
    /\ \A t1 \in Tabs, b1 \in Blocks : saving'[t1][b1].phase = "none" \/ saving'[t1][b1] = saving[t1][b1]

LEMMA ClearKeeps ==
    ASSUME DraftsInv, NEW t \in Tabs, NEW b \in Blocks, ClearStep(t, b)
    PROVE  DraftsInv'
<1>0. PICK w : w = DraftWrite("remove", tab[t].draft[b], FALSE)
    OBVIOUS
<1>a. PICK d : d = tab[t].draft[b]
    OBVIOUS
<1>12. \A t1 \in Tabs : TabGood(t1, tab[t1], keys, cleared) /\ LineGood(t1, line[t1], keys, store)
    BY DEF DraftsInv
<1>1. /\ d # NoDraft /\ GoodIn(keys, d) /\ d.actor = tab[t].actor /\ keys[d.key].tab = t /\ keys[d.key].block = b
      /\ keys[d.key].text = d.text /\ d.key \notin cleared /\ d \in DraftRow /\ d.key \in DOMAIN keys /\ d.key # 0
    BY <1>a, <1>12 DEF ClearStep, TabGood, GoodIn, DraftRow
<1>2. /\ w \in WriteRow /\ w.op = "remove" /\ w.record = d
      /\ RemoveOf(w, d.key) /\ \A k : ~PutOfKey(w, k)
    BY <1>0, <1>a, <1>1 DEF DraftWrite, WriteRow, Ops, PutOfKey, RemoveOf
<1>3. /\ UNCHANGED <<store, broken, texts, count, taken, blind, keys>> /\ over \subseteq over'
      /\ cleared' = cleared \cup {d.key} /\ GivenUp(d.key, keys, taken, over')
    BY <1>a DEF ClearStep, Clear
<1>5. \A k \in DOMAIN keys : keys[k] \in KeyRow
    BY DEF DraftsInv, KeysGood
<1>7. Grows(keys, keys)
  <2>1. \A k \in DOMAIN keys : keys[k].text <= keys[k].text /\ keys[k].seen <= keys[k].seen
      BY <1>5 DEF KeyRow
  <2>2. QED
      BY <1>5, <2>1 DEF Grows
<1>10. /\ tab' \in [Tabs -> TabRow] /\ \A t1 \in Tabs : t1 # t => tab'[t1] = tab[t1]
       /\ tab'[t].actor = tab[t].actor /\ tab'[t].offered = tab[t].offered /\ tab'[t].error = tab[t].error
       /\ \A b1 \in Blocks : tab'[t].draft[b1] = IF b1 = b THEN NoDraft ELSE tab[t].draft[b1]
  <2>1. tab \in [Tabs -> TabRow] /\ tab' = [tab EXCEPT ![t] = [tab[t] EXCEPT !.draft = [tab[t].draft EXCEPT ![b] = NoDraft]]]
      BY DEF ClearStep, Clear, DraftsInv
  <2>2. tab[t] \in TabRow /\ tab[t].draft \in [Blocks -> DraftRow \cup {NoDraft}]
      BY <2>1 DEF TabRow
  <2>3. [tab[t].draft EXCEPT ![b] = NoDraft] \in [Blocks -> DraftRow \cup {NoDraft}]
      BY <2>2
  <2>4. tab'[t] = [tab[t] EXCEPT !.draft = [tab[t].draft EXCEPT ![b] = NoDraft]]
      BY <2>1
  <2>5. tab'[t] \in TabRow
      BY <2>2, <2>3, <2>4 DEF TabRow
  <2>6. \A t1 \in Tabs : t1 # t => tab'[t1] = tab[t1]
      BY <2>1
  <2>7. tab'[t].actor = tab[t].actor /\ tab'[t].offered = tab[t].offered /\ tab'[t].error = tab[t].error
      BY <2>2, <2>4 DEF TabRow
  <2>8. tab'[t].draft = [tab[t].draft EXCEPT ![b] = NoDraft]
      BY <2>2, <2>4 DEF TabRow
  <2>9. QED
      BY <2>1, <2>2, <2>5, <2>6, <2>7, <2>8
<1>11. line' \in [Tabs -> Seq(WriteRow)] /\ line'[t] = Append(line[t], w) /\ \A t1 \in Tabs : t1 # t => line'[t1] = line[t1]
    BY <1>0, <1>2, AppendIs DEF ClearStep, Clear, Joins, DraftsInv
<1>13. ASSUME NEW t1 \in Tabs, NEW b1 \in Blocks, tab'[t1].draft[b1] # NoDraft
       PROVE  LET e == tab'[t1].draft[b1] IN
              /\ e = tab[t1].draft[b1] /\ GoodIn(keys, e) /\ e.actor = tab[t1].actor /\ e.key \notin cleared /\ e.key # d.key
              /\ keys[e.key].tab = t1 /\ keys[e.key].block = b1 /\ keys[e.key].text = e.text
  <2>1. tab'[t1].draft[b1] = tab[t1].draft[b1] /\ ~(t1 = t /\ b1 = b)
      BY <1>10, <1>13
  <2>2. TabGood(t1, tab[t1], keys, cleared)
      BY <1>12
  <2>3. QED
      BY <1>1, <1>13, <2>1, <2>2 DEF TabGood
<1>14. ASSUME NEW t1 \in Tabs PROVE TabGood(t1, tab'[t1], keys, cleared')
  <2>1. \A o \in tab'[t1].offered : GoodIn(keys, o) /\ o.actor = tab'[t1].actor
    <3>1. tab'[t1].offered = tab[t1].offered /\ tab'[t1].actor = tab[t1].actor
        BY <1>10
    <3>2. QED
        BY <1>12, <3>1 DEF TabGood
  <2>2. tab'[t1].actor = tab[t1].actor
      BY <1>10
  <2>3. QED
      BY <1>3, <1>10, <1>13, <2>1, <2>2 DEF TabGood
<1>16. ASSUME NEW t1 \in Tabs PROVE LineGood(t1, line'[t1], keys, store)
  <2>1. CASE t1 = t
    <3>1. GoodIn(keys, w.record) /\ keys[w.record.key].tab = t
        BY <1>1, <1>2
    <3>2. StoreGood(store, keys)
        BY DEF DraftsInv
    <3>3. QED
        BY <1>2, <1>7, <1>11, <1>12, <2>1, <3>1, <3>2, LineJoins
  <2>2. CASE t1 # t
      BY <1>11, <1>12, <2>2
  <2>3. QED
      BY <2>1, <2>2
<1>17. ~Drafted(tab'[t], d.key) /\ \A t1 \in Tabs : \A k : ~Drafted(tab[t1], k) /\ k # 0 => ~Drafted(tab'[t1], k)
    BY <1>1, <1>10, <1>13, NoDraftIs DEF Drafted
<1>18. ASSUME NEW t1 \in Tabs PROVE RemovesGood(line'[t1], tab'[t1], keys, taken, over')
  <2>1. ASSUME NEW i \in 1..Len(line[t1]), line[t1][i].op = "remove"
        PROVE  GivenUp(line[t1][i].record.key, keys, taken, over') /\ ~Drafted(tab'[t1], line[t1][i].record.key)
    <3>1. PICK k : k = line[t1][i].record.key
        OBVIOUS
    <3>2. k # 0
        BY <1>12, <2>1, <3>1 DEF LineGood, GoodIn, DraftRow
    <3>3. GivenUp(k, keys, taken, over) /\ ~Drafted(tab[t1], k)
        BY <2>1, <3>1 DEF DraftsInv, RemovesGood
    <3>4. GivenUp(k, keys, taken, over')
        BY <1>3, <3>3 DEF GivenUp
    <3>5. QED
        BY <1>17, <3>1, <3>2, <3>3, <3>4
  <2>2. CASE t1 = t
    <3>1. /\ Len(line[t]) \in Nat /\ line'[t][Len(line[t]) + 1] = w /\ 1..Len(line'[t]) = 1..Len(line[t]) \cup {Len(line[t]) + 1}
          /\ \A i \in 1..Len(line[t]) : line'[t][i] = line[t][i]
        BY <1>2, <1>11, <1>12, AppendIs DEF LineGood
    <3>2. QED
        BY <1>2, <1>3, <1>17, <2>1, <2>2, <3>1 DEF RemovesGood
  <2>3. CASE t1 # t
      BY <1>11, <2>1, <2>3 DEF RemovesGood
  <2>4. QED
      BY <2>2, <2>3
<1>19. ASSUME NEW t1 \in Tabs PROVE OffersGood(t1, line'[t1], tab'[t1], keys, store)
  <2> SUFFICES ASSUME tab'[t1].actor # Nobody, ~tab'[t1].error,
                      NEW k \in DOMAIN keys, keys[k].tab = t1, keys[k].actor = tab'[t1].actor, ~Drafted(tab'[t1], k)
               PROVE  OfferedIn(k, line'[t1], tab'[t1], store)
      BY DEF OffersGood
  <2>3. OffersGood(t1, line[t1], tab[t1], keys, store)
      BY DEF DraftsInv
  <2>4. CASE t1 # t
      BY <1>10, <1>11, <2>3, <2>4 DEF OffersGood
  <2>5. CASE t1 = t
    <3>1. line[t] \in Seq(WriteRow) /\ ~PutOfKey(w, k)
        BY <1>2, <1>12 DEF LineGood
    <3>2. OfferedIn(k, Append(line[t], w), tab[t], store)
      <4>1. CASE k = d.key
        <5>1. Heals(w, tab[t].actor, k)
            BY <1>2, <4>1 DEF Heals
        <5>2. QED
            BY <1>2, <3>1, <5>1, OthersJoin
      <4>2. CASE k # d.key
        <5>1. ~Drafted(tab[t], k)
            BY <1>a, <1>10, <2>5, <4>2 DEF Drafted
        <5>2. OfferedIn(k, line[t], tab[t], store)
            BY <1>10, <2>3, <2>5, <5>1 DEF OffersGood
        <5>3. QED
            BY <1>2, <3>1, <5>2, OthersJoin
      <4>3. QED
          BY <4>1, <4>2
    <3>3. QED
        BY <1>10, <1>11, <2>5, <3>2 DEF OfferedIn
  <2>6. QED
      BY <2>4, <2>5
<1>20. ASSUME NEW t1 \in Tabs, NEW b1 \in Blocks PROVE SaveGood(t1, b1, saving'[t1][b1], tab'[t1], keys, texts, taken)
  <2>0. tab'[t1].actor = tab[t1].actor /\ SaveGood(t1, b1, saving[t1][b1], tab[t1], keys, texts, taken)
      BY <1>10 DEF DraftsInv
  <2>1. CASE saving'[t1][b1].phase = "none"
      BY <2>1 DEF SaveGood
  <2>2. CASE saving'[t1][b1] = saving[t1][b1]
      BY <2>0, <2>2 DEF SaveGood
  <2>3. QED
      BY <2>1, <2>2 DEF ClearStep
<1>21. ASSUME NEW k \in DOMAIN keys PROVE GivenUp(k, keys, taken, over') \/ KeptIn(k, keys[k].text, line'[keys[k].tab], store)
  <2>1. keys[k].tab \in Tabs /\ (GivenUp(k, keys, taken, over) \/ KeptIn(k, keys[k].text, line[keys[k].tab], store))
      BY <1>5 DEF DraftsInv, KeyRow
  <2>2. CASE GivenUp(k, keys, taken, over)
      BY <1>3, <2>2 DEF GivenUp
  <2>3. CASE KeptIn(k, keys[k].text, line[keys[k].tab], store)
      BY <1>2, <1>11, <1>12, <2>1, <2>3, OthersJoin DEF LineGood
  <2>4. QED
      BY <2>1, <2>2, <2>3
<1>22. ASSUME NEW k \in cleared' PROVE ClearIn(k, line'[keys[k].tab], store)
  <2>1. CASE k = d.key
      BY <1>1, <1>2, <1>11, <1>12, <2>1, OthersJoin DEF LineGood
  <2>2. CASE k \in cleared
    <3>1. k \in DOMAIN keys /\ keys[k].tab \in Tabs /\ ClearIn(k, line[keys[k].tab], store)
        BY <1>5, <2>2 DEF DraftsInv, KeyRow
    <3>2. QED
        BY <1>2, <1>11, <1>12, <3>1, OthersJoin DEF LineGood
  <2>3. QED
      BY <1>3, <2>1, <2>2
<1>23. saving' \in [Tabs -> [Blocks -> SavingRow]]
    BY DEF ClearStep
<1>24. /\ CountsGood(count, keys) /\ KeysGood(keys, count.typed, texts) /\ TextsGood(texts, taken) /\ StoreGood(store, keys)
       /\ broken \subseteq Tabs /\ cleared' \subseteq DOMAIN keys /\ taken \subseteq 1..MaxTyped /\ blind = FALSE
    BY <1>1, <1>3 DEF DraftsInv
<1>25. QED
    BY <1>3, <1>10, <1>11, <1>14, <1>16, <1>18, <1>19, <1>20, <1>21, <1>22, <1>23, <1>24 DEF DraftsInv

\* A list or a discard joins the line of tab t, for its account or for the one that comes.
AskStep(t, w) ==
    /\ w \in WriteRow /\ Joins(t, w)
    /\ \/ w.op = "discard" /\ GoodIn(keys, w.record) /\ UNCHANGED <<tab, saving>>
       \/ w.op = "list" /\ UNCHANGED <<tab, saving>>
       \/ \E actor \in Actors : /\ w.op = "list" /\ w.record.actor = actor
                                /\ tab' = [tab EXCEPT ![t] = [Blank EXCEPT !.actor = actor]]
                                /\ saving' = [saving EXCEPT ![t] = [b \in Blocks |-> Resting]]
    /\ UNCHANGED <<store, broken, texts, history, blind>> /\ CountsGood(count', keys) /\ count'.typed = count.typed

LEMMA BlankIs ==
    ASSUME NEW actor \in Actors \cup {Nobody}
    PROVE  LET row == [Blank EXCEPT !.actor = actor] IN
           /\ row \in TabRow /\ row.actor = actor /\ row.offered = {} /\ \A b \in Blocks : row.draft[b] = NoDraft
    BY DEF Blank, TabRow

LEMMA RestingIs == [b \in Blocks |-> Resting] \in [Blocks -> SavingRow] /\ Resting.phase = "none"
    BY DEF Resting, SavingRow

LEMMA AskKeeps ==
    ASSUME DraftsInv, NEW t \in Tabs, NEW w, AskStep(t, w)
    PROVE  DraftsInv'
<1>1. /\ w \in WriteRow /\ w.op \in {"list", "discard"} /\ (w.op # "list" => GoodIn(keys, w.record))
      /\ \A k : ~PutOfKey(w, k) /\ ~RemoveOf(w, k)
    BY DEF AskStep, PutOfKey, RemoveOf
<1>2. \A t1 \in Tabs : TabGood(t1, tab[t1], keys, cleared) /\ LineGood(t1, line[t1], keys, store)
    BY DEF DraftsInv
<1>3. UNCHANGED <<store, broken, texts, keys, taken, over, cleared, blind>> /\ CountsGood(count', keys) /\ count'.typed = count.typed
    BY DEF AskStep, history
<1>5. \A k \in DOMAIN keys : keys[k] \in KeyRow
    BY DEF DraftsInv, KeysGood
<1>7. Grows(keys, keys)
  <2>1. \A k \in DOMAIN keys : keys[k].text <= keys[k].text /\ keys[k].seen <= keys[k].seen
      BY <1>5 DEF KeyRow
  <2>2. QED
      BY <1>5, <2>1 DEF Grows
<1>11. line' \in [Tabs -> Seq(WriteRow)] /\ line'[t] = Append(line[t], w) /\ \A t1 \in Tabs : t1 # t => line'[t1] = line[t1]
    BY <1>1, AppendIs DEF AskStep, Joins, DraftsInv
<1>10. /\ tab' \in [Tabs -> TabRow] /\ saving' \in [Tabs -> [Blocks -> SavingRow]]
       /\ \A t1 \in Tabs : t1 # t => tab'[t1] = tab[t1] /\ saving'[t1] = saving[t1]
       /\ \/ tab'[t] = tab[t] /\ saving'[t] = saving[t]
          \/ /\ tab'[t].offered = {} /\ \A b \in Blocks : tab'[t].draft[b] = NoDraft /\ saving'[t][b].phase = "none"
             /\ w.op = "list" /\ w.record.actor = tab'[t].actor
  <2>0. tab \in [Tabs -> TabRow] /\ saving \in [Tabs -> [Blocks -> SavingRow]]
      BY DEF DraftsInv
  <2>1. CASE UNCHANGED <<tab, saving>>
      BY <2>0, <2>1
  <2>2. ASSUME NEW actor \in Actors, w.op = "list", w.record.actor = actor, tab' = [tab EXCEPT ![t] = [Blank EXCEPT !.actor = actor]],
               saving' = [saving EXCEPT ![t] = [b \in Blocks |-> Resting]]
        PROVE  /\ tab' \in [Tabs -> TabRow] /\ saving' \in [Tabs -> [Blocks -> SavingRow]]
               /\ \A t1 \in Tabs : t1 # t => tab'[t1] = tab[t1] /\ saving'[t1] = saving[t1]
               /\ tab'[t].offered = {} /\ \A b \in Blocks : tab'[t].draft[b] = NoDraft /\ saving'[t][b].phase = "none"
               /\ w.record.actor = tab'[t].actor
    <3>1. PICK row : row = [Blank EXCEPT !.actor = actor]
        OBVIOUS
    <3>2. row \in TabRow /\ row.actor = actor /\ row.offered = {} /\ \A b \in Blocks : row.draft[b] = NoDraft
        BY <3>1, BlankIs
    <3>3. tab'[t] = row /\ tab' \in [Tabs -> TabRow] /\ \A t1 \in Tabs : t1 # t => tab'[t1] = tab[t1]
        BY <2>0, <2>2, <3>1, <3>2
    <3>4. PICK rests : rests = [b \in Blocks |-> Resting]
        OBVIOUS
    <3>5. rests \in [Blocks -> SavingRow] /\ \A b \in Blocks : rests[b].phase = "none"
        BY <3>4, RestingIs
    <3>6. saving'[t] = rests /\ saving' \in [Tabs -> [Blocks -> SavingRow]] /\ \A t1 \in Tabs : t1 # t => saving'[t1] = saving[t1]
        BY <2>0, <2>2, <3>4, <3>5
    <3>7. QED
        BY <2>2, <3>2, <3>3, <3>5, <3>6
  <2>3. QED
      BY <2>1, <2>2 DEF AskStep
<1>14. ASSUME NEW t1 \in Tabs PROVE TabGood(t1, tab'[t1], keys, cleared)
  <2>1. CASE tab'[t1] = tab[t1]
      BY <1>2, <2>1
  <2>2. CASE tab'[t1].offered = {} /\ \A b \in Blocks : tab'[t1].draft[b] = NoDraft
      BY <1>10, <2>2 DEF TabGood
  <2>3. QED
      BY <1>10, <2>1, <2>2
<1>16. ASSUME NEW t1 \in Tabs PROVE LineGood(t1, line'[t1], keys, store)
  <2>1. CASE t1 = t
    <3>1. StoreGood(store, keys)
        BY DEF DraftsInv
    <3>2. QED
        BY <1>1, <1>2, <1>7, <1>11, <2>1, <3>1, LineJoins
  <2>2. CASE t1 # t
      BY <1>2, <1>11, <2>2
  <2>3. QED
      BY <2>1, <2>2
<1>17. ASSUME NEW t1 \in Tabs, NEW k, k # 0, ~Drafted(tab[t1], k) PROVE ~Drafted(tab'[t1], k)
    BY <1>10, <1>17, NoDraftIs DEF Drafted
<1>18. ASSUME NEW t1 \in Tabs PROVE RemovesGood(line'[t1], tab'[t1], keys, taken, over)
  <2>1. ASSUME NEW i \in 1..Len(line[t1]), line[t1][i].op = "remove"
        PROVE  GivenUp(line[t1][i].record.key, keys, taken, over) /\ ~Drafted(tab'[t1], line[t1][i].record.key)
    <3>1. PICK k : k = line[t1][i].record.key
        OBVIOUS
    <3>2. k # 0
        BY <1>2, <2>1, <3>1 DEF LineGood, GoodIn, DraftRow
    <3>3. GivenUp(k, keys, taken, over) /\ ~Drafted(tab[t1], k)
        BY <2>1, <3>1 DEF DraftsInv, RemovesGood
    <3>4. QED
        BY <1>17, <3>1, <3>2, <3>3
  <2>2. CASE t1 = t
    <3>1. /\ Len(line[t]) \in Nat /\ line'[t][Len(line[t]) + 1] = w /\ 1..Len(line'[t]) = 1..Len(line[t]) \cup {Len(line[t]) + 1}
          /\ \A i \in 1..Len(line[t]) : line'[t][i] = line[t][i]
        BY <1>1, <1>2, <1>11, AppendIs DEF LineGood
    <3>2. QED
        BY <1>1, <2>1, <2>2, <3>1 DEF RemovesGood
  <2>3. CASE t1 # t
      BY <1>11, <2>1, <2>3 DEF RemovesGood
  <2>4. QED
      BY <2>2, <2>3
<1>19. ASSUME NEW t1 \in Tabs PROVE OffersGood(t1, line'[t1], tab'[t1], keys, store)
  <2> SUFFICES ASSUME tab'[t1].actor # Nobody, ~tab'[t1].error,
                      NEW k \in DOMAIN keys, keys[k].tab = t1, keys[k].actor = tab'[t1].actor, ~Drafted(tab'[t1], k)
               PROVE  OfferedIn(k, line'[t1], tab'[t1], store)
      BY DEF OffersGood
  <2>3. OffersGood(t1, line[t1], tab[t1], keys, store) /\ line[t1] \in Seq(WriteRow)
      BY <1>2 DEF DraftsInv, LineGood
  <2>4. CASE t1 # t
      BY <1>10, <1>11, <2>3, <2>4 DEF OffersGood
  <2>5. CASE t1 = t /\ tab'[t] = tab[t]
    <3>1. OfferedIn(k, line[t], tab[t], store)
        BY <2>3, <2>5 DEF OffersGood
    <3>2. QED
        BY <1>1, <1>11, <2>3, <2>5, <3>1, OthersJoin
  <2>6. CASE t1 = t /\ w.op = "list" /\ w.record.actor = tab'[t].actor
    <3>1. PICK row : row = tab'[t]
        OBVIOUS
    <3>2. Heals(w, row.actor, k)
        BY <2>6, <3>1 DEF Heals
    <3>3. OfferedIn(k, Append(line[t], w), row, store)
        BY <1>1, <2>3, <2>6, <3>2, OthersJoin
    <3>4. QED
        BY <1>11, <2>6, <3>1, <3>3
  <2>7. QED
      BY <1>10, <2>4, <2>5, <2>6
<1>20. ASSUME NEW t1 \in Tabs, NEW b1 \in Blocks PROVE SaveGood(t1, b1, saving'[t1][b1], tab'[t1], keys, texts, taken)
  <2>0. SaveGood(t1, b1, saving[t1][b1], tab[t1], keys, texts, taken)
      BY DEF DraftsInv
  <2>1. CASE saving'[t1][b1].phase = "none"
      BY <2>1 DEF SaveGood
  <2>2. CASE saving'[t1][b1] = saving[t1][b1] /\ tab'[t1] = tab[t1]
      BY <2>0, <2>2
  <2>3. QED
      BY <1>10, <2>1, <2>2
<1>21. ASSUME NEW k \in DOMAIN keys PROVE GivenUp(k, keys, taken, over) \/ KeptIn(k, keys[k].text, line'[keys[k].tab], store)
  <2>1. keys[k].tab \in Tabs /\ (GivenUp(k, keys, taken, over) \/ KeptIn(k, keys[k].text, line[keys[k].tab], store))
      BY <1>5 DEF DraftsInv, KeyRow
  <2>2. QED
      BY <1>1, <1>2, <1>11, <2>1, OthersJoin DEF LineGood
<1>22. ASSUME NEW k \in cleared PROVE ClearIn(k, line'[keys[k].tab], store)
  <2>1. k \in DOMAIN keys /\ keys[k].tab \in Tabs /\ ClearIn(k, line[keys[k].tab], store)
      BY <1>5 DEF DraftsInv, KeyRow
  <2>2. QED
      BY <1>1, <1>2, <1>11, <2>1, OthersJoin DEF LineGood
<1>24. /\ KeysGood(keys, count.typed, texts) /\ TextsGood(texts, taken) /\ StoreGood(store, keys)
       /\ broken \subseteq Tabs /\ cleared \subseteq DOMAIN keys /\ taken \subseteq 1..MaxTyped /\ blind = FALSE
    BY DEF DraftsInv
<1>25. QED
    BY <1>3, <1>10, <1>11, <1>14, <1>16, <1>18, <1>19, <1>20, <1>21, <1>22, <1>24 DEF DraftsInv

-----------------------------------------------------------------------------
(* Drafts: steps of the server, and saves *)

QuietStep ==
    /\ UNCHANGED <<store, tab, line, broken, keys, over, cleared, blind>>
    /\ CountsGood(count', keys) /\ count'.typed = count.typed
    /\ TextsGood(texts', taken') /\ taken \subseteq taken' /\ taken' \subseteq 1..MaxTyped
    /\ \A a \in Actors, b \in Blocks : texts[a][b].version <= texts'[a][b].version
    /\ saving' \in [Tabs -> [Blocks -> SavingRow]]
    /\ \A t \in Tabs, b \in Blocks :
         saving'[t][b] = saving[t][b] \/ SaveGood(t, b, saving'[t][b], tab[t], keys, texts', taken')

LEMMA QuietKeeps == ASSUME DraftsInv, QuietStep PROVE DraftsInv'
<1>1. /\ UNCHANGED <<store, tab, line, broken, keys, over, cleared, blind>> /\ CountsGood(count', keys)
      /\ TextsGood(texts', taken') /\ taken \subseteq taken' /\ taken' \subseteq 1..MaxTyped
      /\ saving' \in [Tabs -> [Blocks -> SavingRow]]
    BY DEF QuietStep
<1>2. \A a \in Actors, b \in Blocks : /\ texts[a][b].version \in Nat /\ texts'[a][b].version \in Nat
                                      /\ texts[a][b].version <= texts'[a][b].version
    BY DEF QuietStep, DraftsInv, TextsGood, TextRow
<1>3. \A k \in DOMAIN keys : /\ keys[k] \in KeyRow /\ keys[k].text <= count.typed
                             /\ keys[k].seen <= texts[keys[k].actor][keys[k].block].version
    BY DEF DraftsInv, KeysGood
<1>4. KeysGood(keys, count'.typed, texts')
  <2>1. ASSUME NEW k \in DOMAIN keys PROVE keys[k].seen <= texts'[keys[k].actor][keys[k].block].version
    <3>1. keys[k].actor \in Actors /\ keys[k].block \in Blocks /\ keys[k].seen \in Nat
        BY <1>3 DEF KeyRow
    <3>2. QED
        BY <1>2, <1>3, <3>1
  <2>2. QED
      BY <1>3, <2>1 DEF KeysGood, QuietStep
<1>5. ASSUME NEW t \in Tabs, NEW b \in Blocks PROVE SaveGood(t, b, saving'[t][b], tab[t], keys, texts', taken')
  <2>1. CASE saving'[t][b] = saving[t][b] /\ saving[t][b].phase = "none"
      BY <2>1 DEF SaveGood
  <2>2. CASE saving'[t][b] = saving[t][b] /\ saving[t][b].phase # "none"
    <3>1. SaveGood(t, b, saving[t][b], tab[t], keys, texts, taken) /\ saving[t][b].version \in Nat
        BY DEF DraftsInv, SavingRow
    <3>2. tab[t].actor \in Actors
        BY <1>3, <2>2, <3>1 DEF SaveGood, KeyRow
    <3>3. \A v \in Nat : v <= texts[tab[t].actor][b].version => v <= texts'[tab[t].actor][b].version
        BY <1>2, <3>2
    <3>4. QED
        BY <1>1, <2>2, <3>1, <3>3 DEF SaveGood
  <2>3. QED
      BY <2>1, <2>2 DEF QuietStep
<1>6. ASSUME NEW t \in Tabs PROVE RemovesGood(line[t], tab[t], keys, taken', over)
  <2>1. RemovesGood(line[t], tab[t], keys, taken, over)
      BY DEF DraftsInv
  <2>2. QED
      BY <1>1, <2>1 DEF RemovesGood, GivenUp
<1>7. ASSUME NEW k \in DOMAIN keys PROVE GivenUp(k, keys, taken', over) \/ KeptIn(k, keys[k].text, line[keys[k].tab], store)
  <2>1. GivenUp(k, keys, taken, over) \/ KeptIn(k, keys[k].text, line[keys[k].tab], store)
      BY DEF DraftsInv
  <2>2. QED
      BY <1>1, <2>1 DEF GivenUp
<1>8. QED
    BY <1>1, <1>4, <1>5, <1>6, <1>7 DEF DraftsInv

-----------------------------------------------------------------------------
(* Drafts: the first write of a line is made *)

\* The line of tab t loses w.  The store takes a put, and loses what is removed, or discarded as it was
\* read; a list of this account offers all that is stored and not edited.
DoneStep(t, w) ==
    /\ line[t] # <<>> /\ w = Head(line[t])
    /\ \E l \in WriteRow : /\ l.op = "list" /\ l.record.actor = tab[t].actor
                           /\ \/ line' = [line EXCEPT ![t] = Tail(@)] /\ ~(w.op = "put" /\ w.then)
                              \/ line' = [line EXCEPT ![t] = Append(Tail(@), l)]
    /\ UNCHANGED <<saving, texts, count, keys, taken, cleared, blind>> /\ broken' \subseteq Tabs /\ over \subseteq over'
    /\ \A k \in DOMAIN store' : (k \in DOMAIN store /\ store'[k] = store[k]) \/ (PutOfKey(w, k) /\ store'[k] = w.record)
    /\ \A k : PutOfKey(w, k) => k \in DOMAIN store' /\ store'[k] = w.record
    /\ \A k \in DOMAIN store : \/ k \in DOMAIN store' /\ store'[k] = store[k]
                               \/ PutOfKey(w, k) \/ RemoveOf(w, k) \/ <<k, store[k].text>> \in over'
    /\ \A k : RemoveOf(w, k) => k \notin DOMAIN store'
    /\ tab' \in [Tabs -> TabRow] /\ \A t1 \in Tabs : t1 # t => tab'[t1] = tab[t1]
    /\ tab'[t].actor = tab[t].actor /\ tab'[t].draft = tab[t].draft /\ (tab[t].error => tab'[t].error)
    /\ \A r \in tab'[t].offered : r \in tab[t].offered \/ (r \in Stored /\ r.actor = tab[t].actor)
    /\ ~tab'[t].error =>
         /\ \A k \in DOMAIN store' : (\E r \in tab[t].offered : r.key = k) =>
              (\E r \in tab'[t].offered : r.key = k) \/ (w.op = "list" /\ w.record.actor = tab[t].actor)
         /\ w.op = "list" /\ w.record.actor = tab[t].actor =>
              \A k \in DOMAIN store : store[k].actor = tab[t].actor /\ store[k].key \notin Edited(t) => store[k] \in tab'[t].offered

LEMMA DoneKeeps ==
    ASSUME DraftsInv, NEW t \in Tabs, NEW w, DoneStep(t, w)
    PROVE  DraftsInv'
<1>1. \A t1 \in Tabs : TabGood(t1, tab[t1], keys, cleared) /\ LineGood(t1, line[t1], keys, store)
    BY DEF DraftsInv
<1>2. PICK q : q = line[t]
    OBVIOUS
<1>3. /\ q \in Seq(WriteRow) /\ q # <<>> /\ w = Head(q) /\ w \in WriteRow /\ Tail(q) \in Seq(WriteRow)
      /\ w.op # "list" => GoodIn(keys, w.record)
      /\ w.op \in {"put", "remove"} => keys[w.record.key].tab = t
  <2>1. q \in Seq(WriteRow) /\ q # <<>> /\ w = Head(q)
      BY <1>1, <1>2 DEF DoneStep, LineGood
  <2>2. w = q[1] /\ 1 \in 1..Len(q) /\ w \in WriteRow /\ Tail(q) \in Seq(WriteRow)
      BY <2>1, TailIs
  <2>3. LineGood(t, q, keys, store)
      BY <1>1, <1>2
  <2>4. QED
      BY <2>1, <2>2, <2>3 DEF LineGood
<1>4. PICK l \in WriteRow : /\ l.op = "list" /\ l.record.actor = tab[t].actor
                            /\ \/ line' = [line EXCEPT ![t] = Tail(@)] /\ ~(w.op = "put" /\ w.then)
                               \/ line' = [line EXCEPT ![t] = Append(Tail(@), l)]
    BY DEF DoneStep
<1>5. /\ line' \in [Tabs -> Seq(WriteRow)] /\ \A t1 \in Tabs : t1 # t => line'[t1] = line[t1]
      /\ (line'[t] = Tail(q) /\ ~(w.op = "put" /\ w.then)) \/ line'[t] = Append(Tail(q), l)
  <2>1. line \in [Tabs -> Seq(WriteRow)] /\ Append(Tail(q), l) \in Seq(WriteRow)
      BY <1>3, <1>4, AppendIs DEF DraftsInv
  <2>2. CASE line' = [line EXCEPT ![t] = Tail(@)] /\ ~(w.op = "put" /\ w.then)
      BY <1>2, <1>3, <2>1, <2>2
  <2>3. CASE line' = [line EXCEPT ![t] = Append(Tail(@), l)]
      BY <1>2, <1>3, <2>1, <2>3
  <2>4. QED
      BY <1>4, <2>2, <2>3
<1>6. \A k : ~PutOfKey(l, k) /\ ~RemoveOf(l, k)
    BY <1>4 DEF PutOfKey, RemoveOf
<1>7. /\ UNCHANGED <<saving, texts, count, keys, taken, cleared, blind>> /\ broken' \subseteq Tabs /\ over \subseteq over'
      /\ \A k \in DOMAIN store' : (k \in DOMAIN store /\ store'[k] = store[k]) \/ (PutOfKey(w, k) /\ store'[k] = w.record)
      /\ \A k : PutOfKey(w, k) => k \in DOMAIN store' /\ store'[k] = w.record
      /\ \A k \in DOMAIN store : \/ k \in DOMAIN store' /\ store'[k] = store[k]
                                 \/ PutOfKey(w, k) \/ RemoveOf(w, k) \/ <<k, store[k].text>> \in over'
      /\ \A k : RemoveOf(w, k) => k \notin DOMAIN store'
    BY DEF DoneStep
<1>8. /\ tab' \in [Tabs -> TabRow] /\ \A t1 \in Tabs : t1 # t => tab'[t1] = tab[t1]
      /\ tab'[t].actor = tab[t].actor /\ tab'[t].draft = tab[t].draft /\ (tab[t].error => tab'[t].error)
      /\ \A r \in tab'[t].offered : r \in tab[t].offered \/ (r \in Stored /\ r.actor = tab[t].actor)
    BY DEF DoneStep
<1>9. \A k \in DOMAIN keys : keys[k] \in KeyRow
    BY DEF DraftsInv, KeysGood
<1>10. \A k : PutOfKey(w, k) \/ RemoveOf(w, k) => k \in DOMAIN keys /\ keys[k].tab = t /\ (PutOfKey(w, k) => GoodIn(keys, w.record))
    BY <1>3 DEF PutOfKey, RemoveOf, GoodIn
<1>11. DOMAIN store \subseteq DOMAIN keys /\ \A k \in DOMAIN store : store[k].key = k /\ GoodIn(keys, store[k])
    BY DEF DraftsInv, StoreGood
<1>12. StoreGood(store', keys)
  <2>1. ASSUME NEW k \in DOMAIN store' PROVE k \in DOMAIN keys /\ store'[k].key = k /\ GoodIn(keys, store'[k])
    <3>1. CASE k \in DOMAIN store /\ store'[k] = store[k]
        BY <1>11, <3>1
    <3>2. CASE PutOfKey(w, k) /\ store'[k] = w.record
        BY <1>10, <3>2 DEF PutOfKey
    <3>3. QED
        BY <1>7, <3>1, <3>2
  <2>2. QED
      BY <2>1 DEF StoreGood
<1>13. ASSUME NEW t1 \in Tabs PROVE TabGood(t1, tab'[t1], keys, cleared)
  <2>1. CASE t1 # t
      BY <1>1, <1>8, <2>1
  <2>2. CASE t1 = t
    <3>1. \A r \in tab'[t].offered : GoodIn(keys, r) /\ r.actor = tab'[t].actor
      <4>1. \A r \in tab[t].offered : GoodIn(keys, r) /\ r.actor = tab[t].actor
          BY <1>1 DEF TabGood
      <4>2. QED
          BY <1>8, <1>11, <4>1 DEF Stored
    <3>2. QED
        BY <1>1, <1>8, <2>2, <3>1 DEF TabGood
  <2>3. QED
      BY <2>1, <2>2
<1>14. LineGood(t, Tail(q), keys, store')
  <2>1. LineGood(t, q, keys, store)
      BY <1>1, <1>2
  <2>2. QED
      BY <1>3, <1>7, <2>1, LineEnds
<1>15. ASSUME NEW t1 \in Tabs PROVE LineGood(t1, line'[t1], keys, store')
  <2>1. CASE t1 = t /\ line'[t] = Tail(q)
      BY <1>14, <2>1
  <2>2. CASE t1 = t /\ line'[t] = Append(Tail(q), l)
    <3>1. Grows(keys, keys)
      <4>1. \A k \in DOMAIN keys : keys[k].text <= keys[k].text /\ keys[k].seen <= keys[k].seen
          BY <1>9 DEF KeyRow
      <4>2. QED
          BY <1>9, <4>1 DEF Grows
    <3>2. PICK st2, p : st2 = store' /\ p = Tail(q)
        OBVIOUS
    <3>3. LineGood(t, p, keys, st2) /\ StoreGood(st2, keys)
        BY <1>12, <1>14, <3>2
    <3>4. LineGood(t, Append(p, l), keys, st2)
        BY <1>4, <3>1, <3>3, LineJoins
    <3>5. QED
        BY <2>2, <3>2, <3>4
  <2>3. CASE t1 # t
    <3>1. PICK st2 : st2 = store'
        OBVIOUS
    <3>2. \A k \in DOMAIN st2 : keys[k].tab = t1 => k \in DOMAIN store /\ st2[k] = store[k]
        BY <1>7, <1>10, <2>3, <3>1
    <3>3. LineGood(t1, line[t1], keys, st2)
        BY <1>1, <3>2, LineElsewhere
    <3>4. QED
        BY <1>5, <2>3, <3>1, <3>3
  <2>4. QED
      BY <1>5, <2>1, <2>2, <2>3
<1>16. ASSUME NEW t1 \in Tabs PROVE RemovesGood(line'[t1], tab'[t1], keys, taken, over')
  <2>1. RemovesGood(line[t1], tab[t1], keys, taken, over)
      BY DEF DraftsInv
  <2>2. RemovesGood(line[t1], tab'[t1], keys, taken, over')
    <3>1. tab'[t1].draft = tab[t1].draft
        BY <1>8
    <3>2. \A k : Drafted(tab'[t1], k) => Drafted(tab[t1], k)
        BY <3>1 DEF Drafted
    <3>3. \A k : GivenUp(k, keys, taken, over) => GivenUp(k, keys, taken, over')
        BY <1>7 DEF GivenUp
    <3>4. QED
        BY <2>1, <3>2, <3>3 DEF RemovesGood
  <2>3. CASE t1 # t
      BY <1>5, <2>2, <2>3
  <2>4. CASE t1 = t
    <3>1. PICK row, ov : row = tab'[t] /\ ov = over'
        OBVIOUS
    <3>2. RemovesGood(q, row, keys, taken, ov)
        BY <1>2, <2>2, <2>4, <3>1
    <3>3. RemovesGood(Tail(q), row, keys, taken, ov)
        BY <1>3, <3>2, RemovesEnd
    <3>4. RemovesGood(Append(Tail(q), l), row, keys, taken, ov)
        BY <1>3, <1>4, <3>3, AppendIs DEF RemovesGood
    <3>5. QED
        BY <1>5, <2>4, <3>1, <3>3, <3>4
  <2>5. QED
      BY <2>3, <2>4
<1>17. ASSUME NEW t1 \in Tabs PROVE OffersGood(t1, line'[t1], tab'[t1], keys, store')
  <2>1. CASE t1 # t
    <3>1. PICK st2 : st2 = store'
        OBVIOUS
    <3>2. \A k \in DOMAIN st2 : keys[k].tab = t1 => k \in DOMAIN store
        BY <1>7, <1>10, <2>1, <3>1
    <3>3. OffersGood(t1, line[t1], tab[t1], keys, store)
        BY DEF DraftsInv
    <3>4. OffersGood(t1, line[t1], tab[t1], keys, st2)
        BY <3>2, <3>3, OffersElsewhere
    <3>5. QED
        BY <1>5, <1>8, <2>1, <3>1, <3>4
  <2>2. CASE t1 = t
    <3> SUFFICES ASSUME tab'[t].actor # Nobody, ~tab'[t].error,
                        NEW k \in DOMAIN keys, keys[k].tab = t, keys[k].actor = tab'[t].actor, ~Drafted(tab'[t], k)
                 PROVE  OfferedIn(k, line'[t], tab'[t], store')
        BY <2>2 DEF OffersGood
    <3>1. PICK row, row2, st2 : row = tab[t] /\ row2 = tab'[t] /\ st2 = store'
        OBVIOUS
    <3>2. row2.actor = row.actor /\ row2.draft = row.draft /\ ~row.error /\ row.actor # Nobody
        BY <1>8, <3>1
    <3>3. OffersGood(t, q, row, keys, store)
        BY <1>2, <3>1 DEF DraftsInv
    <3>4. ~Drafted(row, k) /\ keys[k].actor = row.actor
        BY <3>1, <3>2 DEF Drafted
    <3>5. OfferedIn(k, q, row, store)
        BY <3>2, <3>3, <3>4 DEF OffersGood
    <3>6. CASE line'[t] = Append(Tail(q), l)
      <4>1. Heals(l, row2.actor, k)
          BY <1>4, <3>1, <3>2 DEF Heals
      <4>2. OfferedIn(k, Append(Tail(q), l), row2, st2)
          BY <1>3, <1>6, <4>1, OthersJoin
      <4>3. QED
          BY <3>1, <3>6, <4>2
    <3>7. CASE line'[t] = Tail(q) /\ ~(w.op = "put" /\ w.then)
      <4>1. k \in DOMAIN st2 => k \in DOMAIN store \/ PutOfKey(Head(q), k)
          BY <1>3, <1>7, <3>1
      <4>2. ASSUME k \in DOMAIN st2, w.op = "list", w.record.actor = row.actor PROVE \E r \in row2.offered : r.key = k
        <5>1. k \in DOMAIN store
            BY <1>7, <3>1, <4>2 DEF PutOfKey
        <5>2. store[k].key = k /\ store[k].actor = row.actor
            BY <1>11, <3>4, <5>1 DEF GoodIn
        <5>3. k \notin Edited(t)
            BY <3>1, <3>4 DEF Edited, Drafted
        <5>4. store[k] \in row2.offered
            BY <3>1, <4>2, <5>1, <5>2, <5>3 DEF DoneStep
        <5>5. QED
            BY <5>2, <5>4
      <4>3. k \in DOMAIN st2 /\ (\E r \in row.offered : r.key = k) => \E r \in row2.offered : r.key = k
          BY <3>1, <4>2 DEF DoneStep
      <4>4. k \in DOMAIN st2 /\ Heals(Head(q), row.actor, k) => \E r \in row2.offered : r.key = k
          BY <1>3, <1>7, <3>1, <3>7, <4>2 DEF Heals
      <4>5. OfferedIn(k, Tail(q), row2, st2)
          BY <1>3, <3>2, <3>5, <4>1, <4>3, <4>4, OfferedEnds
      <4>6. QED
          BY <3>1, <3>7, <4>5
    <3>8. QED
        BY <1>5, <3>6, <3>7
  <2>3. QED
      BY <2>1, <2>2
<1>18. ASSUME NEW t1 \in Tabs, NEW b \in Blocks PROVE SaveGood(t1, b, saving[t1][b], tab'[t1], keys, texts, taken)
  <2>1. SaveGood(t1, b, saving[t1][b], tab[t1], keys, texts, taken) /\ tab'[t1].actor = tab[t1].actor
      BY <1>8 DEF DraftsInv
  <2>2. QED
      BY <2>1 DEF SaveGood
<1>19. ASSUME NEW k \in DOMAIN keys PROVE GivenUp(k, keys, taken, over') \/ KeptIn(k, keys[k].text, line'[keys[k].tab], store')
  <2>1. keys[k].tab \in Tabs /\ keys[k].text \in Nat
      BY <1>9 DEF KeyRow
  <2>2. CASE GivenUp(k, keys, taken, over)
      BY <1>7, <2>2 DEF GivenUp
  <2>3. CASE ~GivenUp(k, keys, taken, over')
    <3>1. KeptIn(k, keys[k].text, line[keys[k].tab], store)
        BY <1>7, <2>3 DEF DraftsInv, GivenUp
    <3>2. ~RemoveOf(w, k)
      <4>1. RemovesGood(q, tab[t], keys, taken, over)
          BY <1>2 DEF DraftsInv
      <4>2. w.op = "remove" => GivenUp(w.record.key, keys, taken, over)
          BY <1>3, <4>1, RemovesEnd
      <4>3. GivenUp(k, keys, taken, over) => GivenUp(k, keys, taken, over')
          BY <1>7 DEF GivenUp
      <4>4. QED
          BY <2>3, <4>2, <4>3 DEF RemoveOf
    <3>3. CASE keys[k].tab = t
      <4>1. PICK st2 : st2 = store'
          OBVIOUS
      <4>2. PutOfKey(Head(q), k) => k \in DOMAIN st2 /\ st2[k] = Head(q).record
          BY <1>3, <1>7, <4>1
      <4>3. KeptIn(k, keys[k].text, Tail(q), st2)
        <5>1. CASE PutOfKey(w, k) \/ k \notin DOMAIN store \/ (k \in DOMAIN st2 /\ st2[k] = store[k])
          <6>1. ~PutOfKey(Head(q), k) /\ k \in DOMAIN store => k \in DOMAIN st2 /\ st2[k] = store[k]
              BY <1>3, <5>1
          <6>2. LineGood(t, q, keys, store) /\ KeptIn(k, keys[k].text, q, store)
              BY <1>1, <1>2, <3>1, <3>3
          <6>3. QED
              BY <1>3, <2>1, <4>2, <6>1, <6>2, KeptEnds
        <5>2. CASE ~PutOfKey(w, k) /\ k \in DOMAIN store /\ <<k, store[k].text>> \in over'
          <6>1. store[k].text # keys[k].text
              BY <2>3, <5>2 DEF GivenUp
          <6>2. PICK i \in 1..Len(q) : PutOfKey(q[i], k) /\ q[i].record.text = keys[k].text
              BY <1>2, <3>1, <3>3, <6>1 DEF KeptIn
          <6>3. i # 1 /\ i - 1 \in 1..Len(Tail(q)) /\ Tail(q)[i - 1] = q[i]
              BY <1>3, <5>2, <6>2, TailIs
          <6>4. QED
              BY <6>2, <6>3 DEF KeptIn
        <5>3. QED
            BY <1>7, <3>2, <4>1, <5>1, <5>2
      <4>4. KeptIn(k, keys[k].text, Append(Tail(q), l), st2)
          BY <1>3, <4>3, OthersJoin
      <4>5. QED
          BY <1>5, <3>3, <4>1, <4>3, <4>4
    <3>4. CASE keys[k].tab # t
      <4>1. ~PutOfKey(w, k)
          BY <1>10, <3>4
      <4>2. CASE k \in DOMAIN store /\ store[k].text = keys[k].text
        <5>1. <<k, store[k].text>> \notin over'
            BY <2>3, <4>2 DEF GivenUp
        <5>2. k \in DOMAIN store' /\ store'[k] = store[k]
            BY <1>7, <3>2, <4>1, <4>2, <5>1
        <5>3. QED
            BY <4>2, <5>2 DEF KeptIn
      <4>3. CASE ~(k \in DOMAIN store /\ store[k].text = keys[k].text)
          BY <1>5, <2>1, <3>1, <3>4, <4>3 DEF KeptIn
      <4>4. QED
          BY <4>2, <4>3
    <3>5. QED
        BY <3>3, <3>4
  <2>4. QED
      BY <1>7, <2>2, <2>3
<1>20. ASSUME NEW k \in cleared PROVE ClearIn(k, line'[keys[k].tab], store')
  <2>1. k \in DOMAIN keys /\ keys[k].tab \in Tabs /\ ClearIn(k, line[keys[k].tab], store)
      BY <1>9 DEF DraftsInv, KeyRow
  <2>2. PICK st2 : st2 = store'
      OBVIOUS
  <2>3. k \in DOMAIN st2 => k \in DOMAIN store \/ PutOfKey(w, k)
      BY <1>7, <2>2
  <2>4. CASE keys[k].tab = t
    <3>1. ClearIn(k, Tail(q), st2)
        BY <1>2, <1>3, <1>7, <2>1, <2>2, <2>3, <2>4, ClearEnds
    <3>2. ClearIn(k, Append(Tail(q), l), st2)
        BY <1>3, <1>6, <3>1, OthersJoin
    <3>3. QED
        BY <1>5, <2>2, <2>4, <3>1, <3>2
  <2>5. CASE keys[k].tab # t
    <3>1. k \in DOMAIN st2 => k \in DOMAIN store
        BY <1>10, <2>3, <2>5
    <3>2. ClearIn(k, line[keys[k].tab], st2)
        BY <2>1, <3>1 DEF ClearIn
    <3>3. QED
        BY <1>5, <2>1, <2>2, <2>5, <3>2
  <2>6. QED
      BY <2>4, <2>5
<1>24. /\ KeysGood(keys, count.typed, texts) /\ TextsGood(texts, taken) /\ CountsGood(count, keys)
       /\ cleared \subseteq DOMAIN keys /\ taken \subseteq 1..MaxTyped /\ blind = FALSE
       /\ saving \in [Tabs -> [Blocks -> SavingRow]]
    BY DEF DraftsInv
<1>25. QED
    BY <1>5, <1>7, <1>8, <1>12, <1>13, <1>15, <1>16, <1>17, <1>18, <1>19, <1>20, <1>24 DEF DraftsInv

LEMMA RowOffers ==
    ASSUME tab \in [Tabs -> TabRow], NEW t \in Tabs, NEW O \in SUBSET DraftRow, tab' = [tab EXCEPT ![t].offered = O]
    PROVE  /\ tab' \in [Tabs -> TabRow] /\ \A t1 \in Tabs : t1 # t => tab'[t1] = tab[t1]
           /\ tab'[t].actor = tab[t].actor /\ tab'[t].draft = tab[t].draft /\ tab'[t].error = tab[t].error /\ tab'[t].offered = O
<1>1. PICK row : row = [tab[t] EXCEPT !.offered = O]
    OBVIOUS
<1>2. /\ row \in TabRow /\ row.actor = tab[t].actor /\ row.draft = tab[t].draft /\ row.error = tab[t].error /\ row.offered = O
    BY <1>1 DEF TabRow
<1>3. tab' = [tab EXCEPT ![t] = row]
    BY <1>1
<1>4. QED
    BY <1>2, <1>3

LEMMA RowErrs ==
    ASSUME tab \in [Tabs -> TabRow], NEW t \in Tabs, tab' = [tab EXCEPT ![t].error = TRUE]
    PROVE  /\ tab' \in [Tabs -> TabRow] /\ \A t1 \in Tabs : t1 # t => tab'[t1] = tab[t1]
           /\ tab'[t].actor = tab[t].actor /\ tab'[t].draft = tab[t].draft /\ tab'[t].error /\ tab'[t].offered = tab[t].offered
<1>1. PICK row : row = [tab[t] EXCEPT !.error = TRUE]
    OBVIOUS
<1>2. /\ row \in TabRow /\ row.actor = tab[t].actor /\ row.draft = tab[t].draft /\ row.error /\ row.offered = tab[t].offered
    BY <1>1 DEF TabRow
<1>3. tab' = [tab EXCEPT ![t] = row]
    BY <1>1
<1>4. QED
    BY <1>2, <1>3

LEMMA ListsIs ==
    ASSUME NEW a \in Actors \cup {Nobody}
    PROVE  LET l == DraftWrite("list", [NoDraft EXCEPT !.actor = a], FALSE) IN
           l \in WriteRow /\ l.op = "list" /\ l.record.actor = a
    BY DEF DraftWrite, NoDraft, WriteRow, AskedFor, Ops

LEMMA ExecuteDoes ==
    ASSUME DraftsInv, NEW t \in Tabs, Execute(t)
    PROVE  DoneStep(t, Head(line[t]))
<1>0. PICK w : w = Head(line[t])
    OBVIOUS
<1>1. TabGood(t, tab[t], keys, cleared) /\ LineGood(t, line[t], keys, store) /\ tab \in [Tabs -> TabRow]
    BY DEF DraftsInv
<1>2. line[t] # <<>> /\ UNCHANGED <<saving, texts, count, keys, taken, cleared, blind>>
    BY DEF Execute
<1>3. line[t] \in Seq(WriteRow) /\ w \in WriteRow /\ w = line[t][1] /\ 1 \in 1..Len(line[t])
    BY <1>0, <1>1, <1>2, TailIs DEF LineGood
<1>4. w.op \in Ops /\ (w.op # "list" => GoodIn(keys, w.record) /\ w.record \in DraftRow)
    BY <1>1, <1>3 DEF LineGood, WriteRow, GoodIn
<1>5. DOMAIN store \subseteq DOMAIN keys /\ \A k \in DOMAIN store : store[k].key = k /\ GoodIn(keys, store[k])
    BY DEF DraftsInv, StoreGood
<1>6. Stored \subseteq DraftRow
    BY <1>5 DEF Stored, GoodIn
<1>7. PICK gone : gone = [k \in DOMAIN store \ {w.record.key} |-> store[k]]
    OBVIOUS
<1>8. DOMAIN gone = DOMAIN store \ {w.record.key} /\ \A k \in DOMAIN gone : gone[k] = store[k]
    BY <1>7
<1>9. /\ w.op = "put" => store' = [k \in DOMAIN store \cup {w.record.key} |-> IF k = w.record.key THEN w.record ELSE store[k]]
      /\ w.op = "remove" => store' = gone
      /\ w.op = "discard" => store' = IF AsRead(w.record) THEN gone ELSE store
      /\ w.op = "list" => store' = store
    BY <1>0, <1>7 DEF Execute
<1>10. /\ over' = IF w.op = "discard" /\ store' # store THEN over \cup {<<w.record.key, w.record.text>>} ELSE over
       /\ broken' = IF w.op = "list" THEN broken ELSE broken \ {t}
    BY <1>0 DEF Execute
<1>11. over \subseteq over' /\ broken' \subseteq Tabs
    BY <1>10 DEF DraftsInv
<1>12. /\ \A k \in DOMAIN store' : (k \in DOMAIN store /\ store'[k] = store[k]) \/ (PutOfKey(w, k) /\ store'[k] = w.record)
       /\ \A k : PutOfKey(w, k) => k \in DOMAIN store' /\ store'[k] = w.record
       /\ \A k \in DOMAIN store : \/ k \in DOMAIN store' /\ store'[k] = store[k]
                                  \/ PutOfKey(w, k) \/ RemoveOf(w, k) \/ <<k, store[k].text>> \in over'
       /\ \A k : RemoveOf(w, k) => k \notin DOMAIN store'
  <2>1. CASE w.op = "put"
      BY <1>9, <2>1 DEF PutOfKey, RemoveOf
  <2>2. CASE w.op = "remove"
      BY <1>8, <1>9, <2>2 DEF PutOfKey, RemoveOf
  <2>3. CASE w.op = "list"
      BY <1>9, <2>3 DEF PutOfKey, RemoveOf
  <2>4. CASE w.op = "discard" /\ ~AsRead(w.record)
      BY <1>9, <2>4 DEF PutOfKey, RemoveOf
  <2>5. CASE w.op = "discard" /\ AsRead(w.record)
    <3>1. store' = gone /\ w.record.key \in DOMAIN store /\ store[w.record.key] = w.record
        BY <1>5, <1>9, <2>5 DEF AsRead, Stored
    <3>2. store' # store
        BY <1>8, <3>1
    <3>3. <<w.record.key, store[w.record.key].text>> \in over'
        BY <1>10, <2>5, <3>1, <3>2
    <3>4. \A k \in DOMAIN store : k # w.record.key => k \in DOMAIN store' /\ store'[k] = store[k]
        BY <1>8, <3>1
    <3>5. \A k \in DOMAIN store' : k \in DOMAIN store /\ store'[k] = store[k]
        BY <1>8, <3>1
    <3>6. \A k : ~PutOfKey(w, k) /\ ~RemoveOf(w, k)
        BY <2>5 DEF PutOfKey, RemoveOf
    <3>7. QED
        BY <3>3, <3>4, <3>5, <3>6
  <2>6. QED
      BY <1>4, <2>1, <2>2, <2>3, <2>4, <2>5 DEF Ops
<1>13. tab' = CASE w.op = "list" -> IF t \in broken THEN [tab EXCEPT ![t].error = TRUE] ELSE Listed(t, w.record.actor)
                [] w.op = "discard" -> Unoffered(t, w)
                [] OTHER -> tab
    BY <1>0 DEF Execute
<1>14. /\ tab' \in [Tabs -> TabRow] /\ \A t1 \in Tabs : t1 # t => tab'[t1] = tab[t1]
       /\ tab'[t].actor = tab[t].actor /\ tab'[t].draft = tab[t].draft /\ (tab[t].error => tab'[t].error)
       /\ \A r \in tab'[t].offered : r \in tab[t].offered \/ (r \in Stored /\ r.actor = tab[t].actor)
       /\ ~tab'[t].error =>
            /\ \A k \in DOMAIN store' : (\E r \in tab[t].offered : r.key = k) =>
                 (\E r \in tab'[t].offered : r.key = k) \/ (w.op = "list" /\ w.record.actor = tab[t].actor)
            /\ w.op = "list" /\ w.record.actor = tab[t].actor =>
                 \A k \in DOMAIN store : store[k].actor = tab[t].actor /\ store[k].key \notin Edited(t) => store[k] \in tab'[t].offered
  <2>1. CASE tab' = tab /\ ~(w.op = "list" /\ w.record.actor = tab[t].actor)
      BY <1>1, <2>1
  <2>2. CASE w.op = "list" /\ t \in broken
    <3>1. tab' = [tab EXCEPT ![t].error = TRUE]
        BY <1>13, <2>2
    <3>2. QED
        BY <1>1, <3>1, RowErrs
  <2>3. CASE w.op = "list" /\ t \notin broken
    <3>1. tab' = Listed(t, w.record.actor)
        BY <1>13, <2>3
    <3>2. CASE w.record.actor # tab[t].actor
      <4>1. tab' = tab
          BY <3>1, <3>2 DEF Listed
      <4>2. QED
          BY <2>1, <3>2, <4>1
    <3>3. CASE w.record.actor = tab[t].actor
      <4>1. PICK O : O = {r \in Stored : r.actor = tab[t].actor /\ r.key \notin Edited(t)}
          OBVIOUS
      <4>2. O \in SUBSET DraftRow /\ tab' = [tab EXCEPT ![t].offered = O]
          BY <1>6, <3>1, <3>3, <4>1 DEF Listed
      <4>3. /\ tab' \in [Tabs -> TabRow] /\ \A t1 \in Tabs : t1 # t => tab'[t1] = tab[t1]
            /\ tab'[t].actor = tab[t].actor /\ tab'[t].draft = tab[t].draft /\ tab'[t].error = tab[t].error /\ tab'[t].offered = O
          BY <1>1, <4>2, RowOffers
      <4>4. \A k \in DOMAIN store : store[k].actor = tab[t].actor /\ store[k].key \notin Edited(t) => store[k] \in O
          BY <4>1 DEF Stored
      <4>5. QED
          BY <2>3, <3>3, <4>1, <4>3, <4>4
    <3>4. QED
        BY <3>2, <3>3
  <2>4. CASE w.op = "discard"
    <3>1. tab' = Unoffered(t, w)
        BY <1>13, <2>4
    <3>2. CASE tab[t].actor = w.record.actor /\ (AsRead(w.record) \/ w.record.key \notin DOMAIN store)
      <4>1. PICK O : O = {r \in tab[t].offered : r.key # w.record.key}
          OBVIOUS
      <4>2. O \in SUBSET DraftRow /\ tab' = [tab EXCEPT ![t].offered = O]
          BY <1>1, <3>1, <3>2, <4>1 DEF Unoffered, TabRow
      <4>3. /\ tab' \in [Tabs -> TabRow] /\ \A t1 \in Tabs : t1 # t => tab'[t1] = tab[t1]
            /\ tab'[t].actor = tab[t].actor /\ tab'[t].draft = tab[t].draft /\ tab'[t].error = tab[t].error /\ tab'[t].offered = O
          BY <1>1, <4>2, RowOffers
      <4>4. w.record.key \notin DOMAIN store'
          BY <1>8, <1>9, <2>4, <3>2
      <4>5. QED
          BY <2>4, <4>1, <4>3, <4>4
    <3>3. CASE ~(tab[t].actor = w.record.actor /\ (AsRead(w.record) \/ w.record.key \notin DOMAIN store))
      <4>1. tab' = tab
          BY <3>1, <3>3 DEF Unoffered
      <4>2. QED
          BY <2>1, <2>4, <4>1
    <3>4. QED
        BY <3>2, <3>3
  <2>5. CASE w.op \in {"put", "remove"}
    <3>1. tab' = tab
        BY <1>13, <2>5
    <3>2. QED
        BY <2>1, <2>5, <3>1
  <2>6. QED
      BY <1>4, <2>2, <2>3, <2>4, <2>5 DEF Ops
<1>15. PICK l : l = DraftWrite("list", [NoDraft EXCEPT !.actor = tab[t].actor], FALSE)
    OBVIOUS
<1>16. l \in WriteRow /\ l.op = "list" /\ l.record.actor = tab[t].actor
  <2>1. tab[t].actor \in Actors \cup {Nobody}
      BY <1>1 DEF TabRow
  <2>2. QED
      BY <1>15, <2>1, ListsIs
<1>17. Lists(t) = l
    BY <1>14, <1>15 DEF Lists
<1>18. \/ line' = [line EXCEPT ![t] = Tail(@)] /\ ~(w.op = "put" /\ w.then)
       \/ line' = [line EXCEPT ![t] = Append(Tail(@), l)]
  <2>1. line' = [line EXCEPT ![t] = IF w.then /\ (w.op = "discard" => tab[t].actor = w.record.actor)
                                    THEN Append(Tail(line[t]), l) ELSE Tail(line[t])]
      BY <1>0, <1>17 DEF Execute
  <2>2. CASE w.then /\ (w.op = "discard" => tab[t].actor = w.record.actor)
      BY <2>1, <2>2
  <2>3. CASE ~(w.then /\ (w.op = "discard" => tab[t].actor = w.record.actor))
      BY <2>1, <2>3
  <2>4. QED
      BY <2>2, <2>3
<1>19. DoneStep(t, w)
    BY <1>0, <1>2, <1>11, <1>12, <1>14, <1>16, <1>18 DEF DoneStep
<1>20. QED
    BY <1>0, <1>19

-----------------------------------------------------------------------------
(* Drafts: a write fails, a tab ends *)

LEMMA FailsKeeps == ASSUME DraftsInv, NEW t \in Tabs, Fails(t) PROVE DraftsInv'
<1>1. \A t1 \in Tabs : TabGood(t1, tab[t1], keys, cleared) /\ LineGood(t1, line[t1], keys, store)
    BY DEF DraftsInv
<1>2. PICK q, w : q = line[t] /\ w = Head(q)
    OBVIOUS
<1>3. /\ q \in Seq(WriteRow) /\ q # <<>> /\ w = q[1] /\ 1 \in 1..Len(q) /\ w \in WriteRow /\ Tail(q) \in Seq(WriteRow)
      /\ w.op \in {"put", "remove", "discard"}
  <2>1. q \in Seq(WriteRow) /\ q # <<>> /\ w.op # "list"
      BY <1>1, <1>2 DEF LineGood, Fails
  <2>2. w = q[1] /\ 1 \in 1..Len(q) /\ w \in WriteRow /\ Tail(q) \in Seq(WriteRow)
      BY <1>2, <2>1, TailIs
  <2>3. QED
      BY <2>1, <2>2 DEF WriteRow, Ops
<1>4. /\ UNCHANGED <<store, saving, texts, keys, taken, blind>>
      /\ count' = [count EXCEPT !.fails = @ + 1] /\ line' = [line EXCEPT ![t] = Tail(@)]
      /\ broken' = IF w.op = "discard" THEN broken \ {t} ELSE broken \cup {t}
      /\ tab' = IF w.op # "discard" THEN [tab EXCEPT ![t].error = TRUE] ELSE tab
      /\ over' = IF w.op = "put" THEN over \cup {<<w.record.key, w.record.text>>} ELSE over
      /\ cleared' = cleared \ (IF w.op = "remove" THEN {w.record.key} ELSE {})
    BY <1>2 DEF Fails
<1>5. CountsGood(count', keys) /\ count'.typed = count.typed
  <2>1. count \in CountRow /\ count.typed <= MaxTyped /\ DOMAIN keys = 1..count.keys
      BY DEF DraftsInv, CountsGood
  <2>2. count' \in CountRow /\ count'.typed = count.typed /\ count'.keys = count.keys
      BY <1>4, <2>1 DEF CountRow
  <2>3. QED
      BY <2>1, <2>2 DEF CountsGood
<1>6. line' \in [Tabs -> Seq(WriteRow)] /\ line'[t] = Tail(q) /\ \A t1 \in Tabs : t1 # t => line'[t1] = line[t1]
    BY <1>2, <1>3, <1>4 DEF DraftsInv
<1>7. /\ tab' \in [Tabs -> TabRow] /\ \A t1 \in Tabs : t1 # t => tab'[t1] = tab[t1]
      /\ tab'[t].actor = tab[t].actor /\ tab'[t].draft = tab[t].draft /\ tab'[t].offered = tab[t].offered
      /\ tab'[t].error \/ (tab'[t] = tab[t] /\ w.op = "discard")
  <2>1. tab \in [Tabs -> TabRow]
      BY DEF DraftsInv
  <2>2. CASE w.op = "discard"
      BY <1>4, <2>1, <2>2
  <2>3. CASE w.op # "discard"
      BY <1>4, <2>1, <2>3, RowErrs
  <2>4. QED
      BY <2>2, <2>3
<1>8. cleared' \subseteq cleared /\ over \subseteq over' /\ broken' \subseteq Tabs
    BY <1>4 DEF DraftsInv
<1>9. \A k \in DOMAIN keys : keys[k] \in KeyRow
    BY DEF DraftsInv, KeysGood
<1>13. ASSUME NEW t1 \in Tabs PROVE TabGood(t1, tab'[t1], keys, cleared')
  <2>1. tab'[t1].actor = tab[t1].actor /\ tab'[t1].draft = tab[t1].draft /\ tab'[t1].offered = tab[t1].offered /\ tab'[t1] \in TabRow
      BY <1>7
  <2>2. QED
      BY <1>1, <1>8, <2>1 DEF TabGood
<1>15. ASSUME NEW t1 \in Tabs PROVE LineGood(t1, line'[t1], keys, store)
  <2>1. LineGood(t, Tail(q), keys, store)
      BY <1>1, <1>2, <1>3, LineEnds
  <2>2. QED
      BY <1>1, <1>6, <2>1
<1>16. ASSUME NEW t1 \in Tabs PROVE RemovesGood(line'[t1], tab'[t1], keys, taken, over')
  <2>1. RemovesGood(line[t1], tab[t1], keys, taken, over)
      BY DEF DraftsInv
  <2>2. RemovesGood(line'[t1], tab[t1], keys, taken, over)
      BY <1>2, <1>3, <1>6, <2>1, RemovesEnd
  <2>3. tab'[t1].draft = tab[t1].draft
      BY <1>7
  <2>4. \A k : Drafted(tab'[t1], k) => Drafted(tab[t1], k)
      BY <2>3 DEF Drafted
  <2>5. \A k : GivenUp(k, keys, taken, over) => GivenUp(k, keys, taken, over')
      BY <1>8 DEF GivenUp
  <2>6. QED
      BY <2>2, <2>4, <2>5 DEF RemovesGood
<1>17. ASSUME NEW t1 \in Tabs PROVE OffersGood(t1, line'[t1], tab'[t1], keys, store)
  <2>0. OffersGood(t1, line[t1], tab[t1], keys, store)
      BY DEF DraftsInv
  <2>1. CASE t1 # t
      BY <1>6, <1>7, <2>0, <2>1
  <2>2. CASE t1 = t /\ tab'[t].error
      BY <2>2 DEF OffersGood
  <2>3. CASE t1 = t /\ tab'[t] = tab[t] /\ w.op = "discard"
    <3> SUFFICES ASSUME tab[t].actor # Nobody, ~tab[t].error,
                        NEW k \in DOMAIN keys, keys[k].tab = t, keys[k].actor = tab[t].actor, ~Drafted(tab[t], k)
                 PROVE  OfferedIn(k, Tail(q), tab[t], store)
        BY <1>6, <2>3 DEF OffersGood
    <3>1. OfferedIn(k, q, tab[t], store)
        BY <1>2, <2>0, <2>3 DEF OffersGood
    <3>2. ~Heals(Head(q), tab[t].actor, k)
        BY <1>2, <2>3 DEF Heals, RemoveOf
    <3>3. QED
        BY <1>3, <3>1, <3>2, OfferedEnds
  <2>4. QED
      BY <1>7, <2>1, <2>2, <2>3
<1>18. ASSUME NEW t1 \in Tabs, NEW b \in Blocks PROVE SaveGood(t1, b, saving[t1][b], tab'[t1], keys, texts, taken)
  <2>1. SaveGood(t1, b, saving[t1][b], tab[t1], keys, texts, taken) /\ tab'[t1].actor = tab[t1].actor
      BY <1>7 DEF DraftsInv
  <2>2. QED
      BY <2>1 DEF SaveGood
<1>19. ASSUME NEW k \in DOMAIN keys PROVE GivenUp(k, keys, taken, over') \/ KeptIn(k, keys[k].text, line'[keys[k].tab], store)
  <2>1. keys[k].tab \in Tabs
      BY <1>9 DEF KeyRow
  <2>2. CASE GivenUp(k, keys, taken, over)
      BY <1>8, <2>2 DEF GivenUp
  <2>3. CASE KeptIn(k, keys[k].text, line[keys[k].tab], store)
    <3>1. CASE keys[k].tab # t
        BY <1>6, <2>1, <2>3, <3>1
    <3>2. CASE keys[k].tab = t /\ PutOfKey(w, k) /\ w.record.text = keys[k].text
        BY <1>4, <3>2 DEF PutOfKey, GivenUp
    <3>3. CASE keys[k].tab = t /\ ~(PutOfKey(w, k) /\ w.record.text = keys[k].text)
        BY <1>2, <1>3, <1>6, <2>3, <3>3, KeptStays
    <3>4. QED
        BY <3>1, <3>2, <3>3
  <2>4. QED
      BY <2>2, <2>3 DEF DraftsInv
<1>20. ASSUME NEW k \in cleared' PROVE ClearIn(k, line'[keys[k].tab], store)
  <2>1. k \in cleared /\ ~RemoveOf(w, k)
      BY <1>4 DEF RemoveOf
  <2>2. k \in DOMAIN keys /\ keys[k].tab \in Tabs /\ ClearIn(k, line[keys[k].tab], store)
      BY <1>9, <2>1 DEF DraftsInv, KeyRow
  <2>3. CASE keys[k].tab = t
    <3>1. ClearIn(k, Tail(q), store)
        BY <1>2, <1>3, <2>1, <2>2, <2>3, ClearEnds
    <3>2. QED
        BY <1>6, <2>3, <3>1
  <2>4. CASE keys[k].tab # t
      BY <1>6, <2>2, <2>4
  <2>5. QED
      BY <2>3, <2>4
<1>24. /\ KeysGood(keys, count.typed, texts) /\ TextsGood(texts, taken) /\ StoreGood(store, keys)
       /\ cleared' \subseteq DOMAIN keys /\ taken \subseteq 1..MaxTyped /\ blind = FALSE
       /\ saving \in [Tabs -> [Blocks -> SavingRow]]
    BY <1>8 DEF DraftsInv
<1>25. /\ CountsGood(count', keys') /\ KeysGood(keys', count'.typed, texts') /\ TextsGood(texts', taken')
       /\ broken' \subseteq Tabs /\ cleared' \subseteq DOMAIN keys' /\ taken' \subseteq 1..MaxTyped /\ blind' = FALSE
       /\ StoreGood(store', keys')
    BY <1>4, <1>5, <1>8, <1>24
<1>26. /\ tab' \in [Tabs -> TabRow] /\ line' \in [Tabs -> Seq(WriteRow)] /\ saving' \in [Tabs -> [Blocks -> SavingRow]]
       /\ \A t1 \in Tabs : TabGood(t1, tab'[t1], keys', cleared') /\ LineGood(t1, line'[t1], keys', store')
       /\ \A t1 \in Tabs : RemovesGood(line'[t1], tab'[t1], keys', taken', over') /\ OffersGood(t1, line'[t1], tab'[t1], keys', store')
       /\ \A t1 \in Tabs, b \in Blocks : SaveGood(t1, b, saving'[t1][b], tab'[t1], keys', texts', taken')
    BY <1>4, <1>6, <1>7, <1>13, <1>15, <1>16, <1>17, <1>18, <1>24
<1>27. /\ \A k \in DOMAIN keys' : GivenUp(k, keys', taken', over') \/ KeptIn(k, keys'[k].text, line'[keys'[k].tab], store')
       /\ \A k \in cleared' : ClearIn(k, line'[keys'[k].tab], store')
    BY <1>4, <1>19, <1>20
<1>28. QED
    BY <1>25, <1>26, <1>27 DEF DraftsInv

LEMMA ReloadKeeps == ASSUME DraftsInv, NEW t \in Tabs, Reload(t) PROVE DraftsInv'
<1>1. \A t1 \in Tabs : TabGood(t1, tab[t1], keys, cleared) /\ LineGood(t1, line[t1], keys, store)
    BY DEF DraftsInv
<1>2. PICK q : q = line[t]
    OBVIOUS
<1>3. q \in Seq(WriteRow) /\ \A i \in 1..Len(q) : q[i] \in Range(q)
    BY <1>1, <1>2 DEF LineGood, Range
<1>4. /\ UNCHANGED <<store, texts, count, keys, taken, blind>>
      /\ tab' = [tab EXCEPT ![t] = Blank] /\ line' = [line EXCEPT ![t] = <<>>] /\ broken' = broken \ {t}
      /\ saving' = [saving EXCEPT ![t] = [b \in Blocks |-> Resting]]
      /\ over' = over \cup {<<w.record.key, w.record.text>> : w \in {v \in Range(q) : v.op = "put"}}
      /\ cleared' = cleared \ {w.record.key : w \in {v \in Range(q) : v.op = "remove"}}
    BY <1>2 DEF Reload
<1>5. /\ line' \in [Tabs -> Seq(WriteRow)] /\ line'[t] = <<>> /\ Len(line'[t]) = 0 /\ \A t1 \in Tabs : t1 # t => line'[t1] = line[t1]
    BY <1>4 DEF DraftsInv
<1>6. Blank \in TabRow /\ Blank.actor = Nobody /\ Blank.offered = {} /\ \A b \in Blocks : Blank.draft[b] = NoDraft
    BY DEF Blank, TabRow
<1>7. tab' \in [Tabs -> TabRow] /\ tab'[t] = Blank /\ \A t1 \in Tabs : t1 # t => tab'[t1] = tab[t1]
    BY <1>4, <1>6 DEF DraftsInv
<1>8. /\ saving' \in [Tabs -> [Blocks -> SavingRow]] /\ \A b \in Blocks : saving'[t][b].phase = "none"
      /\ \A t1 \in Tabs : t1 # t => saving'[t1] = saving[t1]
  <2>1. PICK rests : rests = [b \in Blocks |-> Resting]
      OBVIOUS
  <2>2. rests \in [Blocks -> SavingRow] /\ \A b \in Blocks : rests[b].phase = "none"
      BY <2>1, RestingIs
  <2>3. saving' = [saving EXCEPT ![t] = rests] /\ saving \in [Tabs -> [Blocks -> SavingRow]]
      BY <1>4, <2>1 DEF DraftsInv
  <2>4. QED
      BY <2>2, <2>3
<1>9. cleared' \subseteq cleared /\ over \subseteq over' /\ broken' \subseteq Tabs
    BY <1>4 DEF DraftsInv
<1>10. \A k \in DOMAIN keys : keys[k] \in KeyRow
    BY DEF DraftsInv, KeysGood
<1>13. ASSUME NEW t1 \in Tabs PROVE TabGood(t1, tab'[t1], keys, cleared')
  <2>1. CASE t1 = t
      BY <1>6, <1>7, <2>1 DEF TabGood
  <2>2. CASE t1 # t
      BY <1>1, <1>7, <1>9, <2>2 DEF TabGood
  <2>3. QED
      BY <2>1, <2>2
<1>15. ASSUME NEW t1 \in Tabs PROVE LineGood(t1, line'[t1], keys, store)
  <2>1. CASE t1 = t
      BY <1>5, <2>1 DEF LineGood
  <2>2. CASE t1 # t
      BY <1>1, <1>5, <2>2
  <2>3. QED
      BY <2>1, <2>2
<1>16. ASSUME NEW t1 \in Tabs PROVE RemovesGood(line'[t1], tab'[t1], keys, taken, over')
  <2>1. CASE t1 = t
      BY <1>5, <2>1 DEF RemovesGood
  <2>2. CASE t1 # t
    <3>1. RemovesGood(line[t1], tab[t1], keys, taken, over)
        BY DEF DraftsInv
    <3>2. \A k : GivenUp(k, keys, taken, over) => GivenUp(k, keys, taken, over')
        BY <1>9 DEF GivenUp
    <3>3. QED
        BY <1>5, <1>7, <2>2, <3>1, <3>2 DEF RemovesGood
  <2>3. QED
      BY <2>1, <2>2
<1>17. ASSUME NEW t1 \in Tabs PROVE OffersGood(t1, line'[t1], tab'[t1], keys, store)
  <2>1. CASE t1 = t
      BY <1>6, <1>7, <2>1 DEF OffersGood
  <2>2. CASE t1 # t
      BY <1>5, <1>7, <2>2 DEF DraftsInv
  <2>3. QED
      BY <2>1, <2>2
<1>18. ASSUME NEW t1 \in Tabs, NEW b \in Blocks PROVE SaveGood(t1, b, saving'[t1][b], tab'[t1], keys, texts, taken)
  <2>1. CASE t1 = t
      BY <1>8, <2>1 DEF SaveGood
  <2>2. CASE t1 # t
      BY <1>7, <1>8, <2>2 DEF DraftsInv
  <2>3. QED
      BY <2>1, <2>2
<1>19. ASSUME NEW k \in DOMAIN keys PROVE GivenUp(k, keys, taken, over') \/ KeptIn(k, keys[k].text, line'[keys[k].tab], store)
  <2>1. keys[k].tab \in Tabs
      BY <1>10 DEF KeyRow
  <2>2. CASE GivenUp(k, keys, taken, over)
      BY <1>9, <2>2 DEF GivenUp
  <2>3. CASE KeptIn(k, keys[k].text, line[keys[k].tab], store)
    <3>1. CASE keys[k].tab # t
        BY <1>5, <2>1, <2>3, <3>1
    <3>2. CASE k \in DOMAIN store /\ store[k].text = keys[k].text
        BY <3>2 DEF KeptIn
    <3>3. CASE keys[k].tab = t /\ \E i \in 1..Len(q) : PutOfKey(q[i], k) /\ q[i].record.text = keys[k].text
      <4>1. PICK w \in Range(q) : w.op = "put" /\ w.record.key = k /\ w.record.text = keys[k].text
          BY <1>3, <3>3 DEF PutOfKey
      <4>2. QED
          BY <1>4, <4>1 DEF GivenUp
    <3>4. QED
        BY <1>2, <2>3, <3>1, <3>2, <3>3 DEF KeptIn
  <2>4. QED
      BY <2>2, <2>3 DEF DraftsInv
<1>20. ASSUME NEW k \in cleared' PROVE ClearIn(k, line'[keys[k].tab], store)
  <2>1. k \in cleared /\ k \in DOMAIN keys
      BY <1>9 DEF DraftsInv
  <2>2. keys[k].tab \in Tabs /\ ClearIn(k, line[keys[k].tab], store)
      BY <1>10, <2>1 DEF DraftsInv, KeyRow
  <2>3. CASE keys[k].tab = t
    <3>1. \A i \in 1..Len(q) : ~RemoveOf(q[i], k)
        BY <1>3, <1>4 DEF RemoveOf
    <3>2. k \notin DOMAIN store
        BY <1>2, <2>2, <2>3, <3>1 DEF ClearIn
    <3>3. QED
        BY <1>5, <2>3, <3>2 DEF ClearIn
  <2>4. CASE keys[k].tab # t
      BY <1>5, <2>2, <2>4
  <2>5. QED
      BY <2>3, <2>4
<1>24. /\ CountsGood(count, keys) /\ KeysGood(keys, count.typed, texts) /\ TextsGood(texts, taken) /\ StoreGood(store, keys)
       /\ cleared' \subseteq DOMAIN keys /\ taken \subseteq 1..MaxTyped /\ blind = FALSE
    BY <1>9 DEF DraftsInv
<1>25. /\ CountsGood(count', keys') /\ KeysGood(keys', count'.typed, texts') /\ TextsGood(texts', taken')
       /\ broken' \subseteq Tabs /\ cleared' \subseteq DOMAIN keys' /\ taken' \subseteq 1..MaxTyped /\ blind' = FALSE
       /\ StoreGood(store', keys')
    BY <1>4, <1>9, <1>24
<1>26. /\ tab' \in [Tabs -> TabRow] /\ line' \in [Tabs -> Seq(WriteRow)] /\ saving' \in [Tabs -> [Blocks -> SavingRow]]
       /\ \A t1 \in Tabs : TabGood(t1, tab'[t1], keys', cleared') /\ LineGood(t1, line'[t1], keys', store')
       /\ \A t1 \in Tabs : RemovesGood(line'[t1], tab'[t1], keys', taken', over') /\ OffersGood(t1, line'[t1], tab'[t1], keys', store')
       /\ \A t1 \in Tabs, b \in Blocks : SaveGood(t1, b, saving'[t1][b], tab'[t1], keys', texts', taken')
    BY <1>4, <1>5, <1>7, <1>8, <1>13, <1>15, <1>16, <1>17, <1>18
<1>27. /\ \A k \in DOMAIN keys' : GivenUp(k, keys', taken', over') \/ KeptIn(k, keys'[k].text, line'[keys'[k].tab], store')
       /\ \A k \in cleared' : ClearIn(k, line'[keys'[k].tab], store')
    BY <1>4, <1>19, <1>20
<1>28. QED
    BY <1>25, <1>26, <1>27 DEF DraftsInv

-----------------------------------------------------------------------------
(* Drafts: what is edited is cleared, or rebased *)

LEMMA DraftIs ==
    ASSUME DraftsInv, NEW t \in Tabs, NEW b \in Blocks, NEW d, d = tab[t].draft[b], d # NoDraft
    PROVE  /\ d \in DraftRow /\ GoodIn(keys, d) /\ d.actor = tab[t].actor /\ keys[d.key].tab = t /\ keys[d.key].block = b
           /\ keys[d.key].text = d.text /\ d.key \in DOMAIN keys /\ keys[d.key] \in KeyRow /\ d.actor = keys[d.key].actor
           /\ d.version <= keys[d.key].seen /\ keys[d.key].seen <= texts[d.actor][b].version /\ d.text <= count.typed
<1>1. TabGood(t, tab[t], keys, cleared)
    BY DEF DraftsInv
<1>2. GoodIn(keys, d) /\ d.actor = tab[t].actor /\ keys[d.key].tab = t /\ keys[d.key].block = b /\ keys[d.key].text = d.text
    BY <1>1 DEF TabGood
<1>3. d \in DraftRow /\ d.key \in DOMAIN keys /\ d.actor = keys[d.key].actor /\ d.version <= keys[d.key].seen
    BY <1>2 DEF GoodIn
<1>4. keys[d.key] \in KeyRow /\ keys[d.key].text <= count.typed /\ keys[d.key].seen <= texts[keys[d.key].actor][keys[d.key].block].version
    BY <1>3 DEF DraftsInv, KeysGood
<1>5. QED
    BY <1>2, <1>3, <1>4

LEMMA SaveIs ==
    ASSUME DraftsInv, NEW t \in Tabs, NEW b \in Blocks, NEW s, s = saving[t][b], s.phase # "none"
    PROVE  /\ s \in SavingRow /\ s.key \in DOMAIN keys /\ keys[s.key] \in KeyRow /\ keys[s.key].tab = t /\ keys[s.key].block = b
           /\ keys[s.key].actor = tab[t].actor /\ s.text \in 1..MaxTyped /\ s.key # 0
           /\ s.phase = "taken" => s.text \in taken /\ keys[s.key].seen <= s.version /\ s.version <= texts[tab[t].actor][b].version
           /\ s.phase # "taken" => s.version <= keys[s.key].seen
           /\ keys[s.key].seen <= texts[tab[t].actor][b].version
<1>1. SaveGood(t, b, s, tab[t], keys, texts, taken) /\ s \in SavingRow
    BY DEF DraftsInv
<1>2. s.key \in DOMAIN keys /\ keys[s.key].tab = t /\ keys[s.key].block = b /\ keys[s.key].actor = tab[t].actor /\ s.text \in 1..MaxTyped
    BY <1>1 DEF SaveGood
<1>3. keys[s.key] \in KeyRow /\ keys[s.key].seen <= texts[keys[s.key].actor][keys[s.key].block].version
    BY <1>2 DEF DraftsInv, KeysGood
<1>4. s.key # 0
    BY <1>2 DEF DraftsInv, CountsGood
<1>5. /\ s.phase = "taken" => s.text \in taken /\ keys[s.key].seen <= s.version /\ s.version <= texts[tab[t].actor][b].version
      /\ s.phase # "taken" => s.version <= keys[s.key].seen
    BY <1>1 DEF SaveGood
<1>6. QED
    BY <1>1, <1>2, <1>3, <1>4, <1>5

LEMMA SavingTypes ==
    ASSUME DraftsInv, NEW t \in Tabs, NEW b \in Blocks, NEW s \in SavingRow, saving' = [saving EXCEPT ![t][b] = s]
    PROVE  /\ saving' \in [Tabs -> [Blocks -> SavingRow]] /\ saving'[t][b] = s
           /\ \A t1 \in Tabs, b1 \in Blocks : ~(t1 = t /\ b1 = b) => saving'[t1][b1] = saving[t1][b1]
<1>1. saving \in [Tabs -> [Blocks -> SavingRow]]
    BY DEF DraftsInv
<1>2. QED
    BY <1>1

LEMMA RebaseKeeps ==
    ASSUME DraftsInv, NEW t \in Tabs, NEW b \in Blocks, tab[t].draft[b] # NoDraft,
           NEW version \in Nat, keys[tab[t].draft[b].key].seen <= version, version <= texts[tab[t].actor][b].version,
           Rebase(t, b, version), UNCHANGED <<store, broken, texts, count, taken, over, blind>>,
           NEW s \in SavingRow, saving' = [saving EXCEPT ![t][b] = s], s.phase = "none" \/ s = Captured("waits", tab'[t].draft[b])
    PROVE  DraftsInv'
<1>1. PICK d : d = tab[t].draft[b]
    OBVIOUS
<1>2. PICK r : r = [d EXCEPT !.version = version]
    OBVIOUS
<1>3. /\ d \in DraftRow /\ d.actor = tab[t].actor /\ keys[d.key].text = d.text /\ d.key \in DOMAIN keys /\ keys[d.key] \in KeyRow
      /\ d.version <= keys[d.key].seen /\ keys[d.key].seen <= version /\ d.text <= count.typed
    BY <1>1, DraftIs
<1>4. version \in Nat \ {0}
    BY <1>3 DEF DraftRow, KeyRow
<1>5. r \in DraftRow /\ r.key = d.key /\ r.actor = d.actor /\ r.text = d.text /\ r.version = version
    BY <1>2, <1>3, <1>4 DEF DraftRow
<1>6. /\ tab' = [tab EXCEPT ![t].draft[b] = r] /\ Joins(t, DraftWrite("put", r, FALSE)) /\ Knows(r, t, b, version) /\ UNCHANGED cleared
    BY <1>1, <1>2 DEF Rebase, PutOf
<1>7. tab'[t].draft[b] = r
  <2>1. tab \in [Tabs -> TabRow] /\ tab[t].draft \in [Blocks -> DraftRow \cup {NoDraft}]
      BY DEF DraftsInv, TabRow
  <2>2. QED
      BY <1>6, <2>1 DEF TabRow
<1>8. CountsGood(count', keys') /\ count'.typed = count.typed /\ count.typed \in Nat
  <2>1. count' = count /\ count \in CountRow /\ count.typed <= MaxTyped /\ DOMAIN keys = 1..count.keys
      BY DEF DraftsInv, CountsGood
  <2>2. DOMAIN keys' = DOMAIN keys
      BY <1>3, <1>5, <1>6 DEF Knows
  <2>3. QED
      BY <2>1, <2>2 DEF CountsGood, CountRow
<1>9. /\ saving' \in [Tabs -> [Blocks -> SavingRow]] /\ saving'[t][b] = s
      /\ \A t1 \in Tabs, b1 \in Blocks : ~(t1 = t /\ b1 = b) => saving'[t1][b1] = saving[t1][b1]
    BY SavingTypes
<1>10. \A t1 \in Tabs, b1 \in Blocks :
         \/ saving'[t1][b1].phase = "none"
         \/ /\ saving'[t1][b1] = saving[t1][b1]
            /\ t1 = t /\ b1 = b /\ r.key \in DOMAIN keys => keys[r.key].seen = version
         \/ t1 = t /\ b1 = b /\ saving'[t][b] = Captured("waits", r)
    BY <1>7, <1>9
<1>11. d.text <= d.text /\ count.typed <= count.typed /\ version <= version
    BY <1>3, <1>8 DEF DraftRow
<1>12. PutStep(t, b, r, version, FALSE)
  <2>1. /\ r.actor = tab[t].actor
        /\ tab' = [tab EXCEPT ![t].draft[b] = r] /\ Joins(t, DraftWrite("put", r, FALSE)) /\ Knows(r, t, b, version)
        /\ UNCHANGED <<store, broken, texts, taken, over, cleared, blind>>
      BY <1>3, <1>5, <1>6
  <2>2. /\ CountsGood(count', keys') /\ count.typed <= count'.typed /\ r.text <= count'.typed
        /\ version \in Nat \ {0} /\ r.version <= version /\ version <= texts[r.actor][b].version
      BY <1>3, <1>4, <1>5, <1>8, <1>11
  <2>3. tab[t].draft[b] # NoDraft /\ tab[t].draft[b].key = r.key /\ tab[t].draft[b].text <= r.text /\ keys[r.key].seen <= version
      BY <1>1, <1>3, <1>5, <1>11
  <2>4. QED
      BY <1>9, <1>10, <2>1, <2>2, <2>3 DEF PutStep
<1>13. QED
    BY <1>5, <1>12, PutKeeps

LEMMA CapturedIs ==
    ASSUME NEW r \in DraftRow
    PROVE  /\ Captured("waits", r) \in SavingRow /\ Captured("waits", r).phase = "waits" /\ Captured("waits", r).key = r.key
           /\ Captured("waits", r).text = r.text /\ Captured("waits", r).version = r.version
    BY DEF Captured, SavingRow, DraftRow

LEMMA RestIs == Resting \in SavingRow /\ Resting.phase = "none"
    BY DEF Resting, SavingRow

LEMMA CountTyped ==
    ASSUME NEW c \in CountRow, NEW m \in Nat, NEW c2, c2 = [c EXCEPT !.typed = @ + 1, !.keys = @ + m]
    PROVE  c2 \in CountRow /\ c2.typed = c.typed + 1 /\ c2.keys = c.keys + m
<1>1. PICK d : d = [c EXCEPT !.typed = @ + 1]
    OBVIOUS
<1>2. d \in CountRow /\ d.typed = c.typed + 1 /\ d.keys = c.keys
    BY <1>1 DEF CountRow
<1>3. c2 = [d EXCEPT !.keys = @ + m]
    BY <1>1
<1>4. QED
    BY <1>2, <1>3 DEF CountRow

LEMMA CountCopied ==
    ASSUME NEW c \in CountRow, NEW c2, c2 = [c EXCEPT !.keys = @ + 1, !.copies = @ + 1]
    PROVE  c2 \in CountRow /\ c2.typed = c.typed /\ c2.keys = c.keys + 1
<1>1. PICK d : d = [c EXCEPT !.keys = @ + 1]
    OBVIOUS
<1>2. d \in CountRow /\ d.typed = c.typed /\ d.keys = c.keys + 1
    BY <1>1 DEF CountRow
<1>3. c2 = [d EXCEPT !.copies = @ + 1]
    BY <1>1
<1>4. QED
    BY <1>2, <1>3 DEF CountRow

LEMMA TypeKeeps == ASSUME DraftsInv, NEW t \in Tabs, NEW b \in Blocks, TypeDraft(t, b) PROVE DraftsInv'
<1>1. PICK d : d = tab[t].draft[b]
    OBVIOUS
<1>2. PICK r : r = IF d = NoDraft THEN [key |-> count.keys + 1, actor |-> tab[t].actor,
                                        text |-> count.typed + 1, version |-> Server(t, b).version]
                   ELSE [d EXCEPT !.text = count.typed + 1]
    OBVIOUS
<1>3. PICK seen : seen = IF d = NoDraft THEN r.version ELSE keys[d.key].seen
    OBVIOUS
<1>4. /\ Known(t) /\ count.typed < MaxTyped /\ tab' = [tab EXCEPT ![t].draft[b] = r]
      /\ count' = [count EXCEPT !.typed = @ + 1, !.keys = @ + (IF d = NoDraft THEN 1 ELSE 0)]
      /\ Joins(t, DraftWrite("put", r, FALSE)) /\ Knows(r, t, b, seen)
      /\ UNCHANGED <<store, broken, saving, texts, taken, over, cleared, blind>>
    BY <1>1, <1>2, <1>3 DEF TypeDraft, PutOf
<1>5. /\ tab[t] \in TabRow /\ tab[t].actor \in Actors /\ texts[tab[t].actor][b] \in TextRow
      /\ count \in CountRow /\ count.typed <= MaxTyped /\ DOMAIN keys = 1..count.keys
    BY <1>4 DEF DraftsInv, TabRow, Known, TextsGood, CountsGood
<1>6. count.typed \in Nat /\ count.keys \in Nat /\ MaxTyped \in Nat /\ count.typed + 1 \in 1..MaxTyped
    BY <1>4, <1>5 DEF CountRow
<1>7. /\ count' \in CountRow /\ count'.typed = count.typed + 1
      /\ count'.keys = IF d = NoDraft THEN count.keys + 1 ELSE count.keys
  <2>1. PICK m : m = IF d = NoDraft THEN 1 ELSE 0
      OBVIOUS
  <2>2. m \in Nat /\ count' = [count EXCEPT !.typed = @ + 1, !.keys = @ + m]
      BY <1>4, <2>1
  <2>3. count' \in CountRow /\ count'.typed = count.typed + 1 /\ count'.keys = count.keys + m
      BY <1>5, <2>2, CountTyped
  <2>4. count.keys + 0 = count.keys
      BY <1>6
  <2>5. QED
      BY <2>1, <2>3, <2>4
<1>8. CASE d = NoDraft
  <2>1. PICK v : v = texts[tab[t].actor][b].version
      OBVIOUS
  <2>2. r = [key |-> count.keys + 1, actor |-> tab[t].actor, text |-> count.typed + 1, version |-> v] /\ v \in Nat \ {0}
      BY <1>2, <1>5, <1>8, <2>1 DEF Server, TextRow
  <2>3. /\ r \in DraftRow /\ r.key = count.keys + 1 /\ r.actor = tab[t].actor /\ r.text = count.typed + 1 /\ r.version = v /\ seen = v
      BY <1>3, <1>5, <1>6, <1>8, <2>2 DEF DraftRow
  <2>4. r.key \notin DOMAIN keys /\ DOMAIN keys' = 1..count'.keys
      BY <1>4, <1>5, <1>6, <1>7, <1>8, <2>3 DEF Knows
  <2>5. CountsGood(count', keys') /\ count.typed <= count'.typed /\ r.text <= count'.typed
      BY <1>6, <1>7, <2>3, <2>4 DEF CountsGood
  <2>6. seen \in Nat \ {0} /\ r.version <= seen /\ seen <= texts[r.actor][b].version
      BY <2>1, <2>2, <2>3
  <2>7. /\ saving' \in [Tabs -> [Blocks -> SavingRow]]
        /\ \A t1 \in Tabs, b1 \in Blocks : saving'[t1][b1] = saving[t1][b1] /\ (r.key \in DOMAIN keys => keys[r.key].seen = seen)
      BY <1>4, <2>4 DEF DraftsInv
  <2>8. PutStep(t, b, r, seen, FALSE)
      BY <1>1, <1>4, <1>8, <2>3, <2>4, <2>5, <2>6, <2>7 DEF PutStep
  <2>9. QED
      BY <2>3, <2>8, PutKeeps
<1>9. CASE d # NoDraft
  <2>1. /\ d \in DraftRow /\ d.actor = tab[t].actor /\ d.key \in DOMAIN keys /\ keys[d.key] \in KeyRow
        /\ d.version <= keys[d.key].seen /\ keys[d.key].seen <= texts[d.actor][b].version /\ d.text <= count.typed
      BY <1>1, <1>9, DraftIs
  <2>2. r \in DraftRow /\ r.key = d.key /\ r.actor = d.actor /\ r.text = count.typed + 1 /\ r.version = d.version /\ seen = keys[d.key].seen
      BY <1>2, <1>3, <1>6, <1>9, <2>1 DEF DraftRow
  <2>3. DOMAIN keys' = 1..count'.keys
      BY <1>4, <1>5, <1>7, <1>9, <2>1, <2>2 DEF Knows
  <2>4. CountsGood(count', keys') /\ count.typed <= count'.typed /\ r.text <= count'.typed
      BY <1>6, <1>7, <2>2, <2>3 DEF CountsGood
  <2>5. seen \in Nat \ {0} /\ r.version <= seen /\ seen <= texts[r.actor][b].version /\ keys[r.key].seen <= seen /\ d.text <= r.text
      BY <1>6, <2>1, <2>2 DEF KeyRow, DraftRow
  <2>6. /\ saving' \in [Tabs -> [Blocks -> SavingRow]]
        /\ \A t1 \in Tabs, b1 \in Blocks : saving'[t1][b1] = saving[t1][b1] /\ (r.key \in DOMAIN keys => keys[r.key].seen = seen)
      BY <1>4, <2>2 DEF DraftsInv
  <2>7. PutStep(t, b, r, seen, FALSE)
      BY <1>1, <1>4, <1>9, <2>1, <2>2, <2>4, <2>5, <2>6 DEF PutStep
  <2>8. QED
      BY <2>2, <2>7, PutKeeps
<1>10. QED
    BY <1>8, <1>9

LEMMA RecoverKeeps ==
    ASSUME DraftsInv, NEW t \in Tabs, NEW source \in tab[t].offered, RecoverDraft(t, source)
    PROVE  DraftsInv'
<1>1. PICK b, r : b = keys[source.key].block /\ r = [source EXCEPT !.key = count.keys + 1]
    OBVIOUS
<1>2. PICK seen : seen = keys[source.key].seen
    OBVIOUS
<1>3. TabGood(t, tab[t], keys, cleared) /\ CountsGood(count, keys)
    BY DEF DraftsInv
<1>4. GoodIn(keys, source) /\ source.actor = tab[t].actor
    BY <1>3 DEF TabGood
<1>5. /\ source \in DraftRow /\ source.key \in DOMAIN keys /\ source.actor = keys[source.key].actor
      /\ source.text <= keys[source.key].text /\ source.version <= seen
    BY <1>2, <1>4 DEF GoodIn
<1>6. keys[source.key] \in KeyRow /\ keys[source.key].text <= count.typed /\ seen <= texts[source.actor][b].version
    BY <1>1, <1>2, <1>5 DEF DraftsInv, KeysGood
<1>7. count \in CountRow /\ count.typed <= MaxTyped /\ DOMAIN keys = 1..count.keys /\ count.keys \in Nat /\ count.typed \in Nat
    BY <1>3 DEF CountsGood, CountRow
<1>8. /\ r \in DraftRow /\ r.key = count.keys + 1 /\ r.actor = source.actor /\ r.text = source.text /\ r.version = source.version
      /\ b \in Blocks /\ seen \in Nat \ {0} /\ r.key \notin DOMAIN keys
    BY <1>1, <1>2, <1>5, <1>6, <1>7 DEF DraftRow, KeyRow
<1>9. /\ tab' = [tab EXCEPT ![t].draft[b] = r] /\ count' = [count EXCEPT !.keys = @ + 1, !.copies = @ + 1]
      /\ Joins(t, DraftWrite("put", r, TRUE)) /\ Knows(r, t, b, seen)
      /\ UNCHANGED <<store, broken, saving, texts, taken, over, cleared, blind>>
    BY <1>1, <1>2 DEF RecoverDraft, Copied, PutsAndLists
<1>10. count' \in CountRow /\ count'.typed = count.typed /\ count'.keys = count.keys + 1
    BY <1>7, <1>9, CountCopied
<1>11. DOMAIN keys' = 1..count'.keys
    BY <1>7, <1>8, <1>9, <1>10 DEF Knows
<1>12. CountsGood(count', keys')
    BY <1>7, <1>10, <1>11 DEF CountsGood
<1>13. count.typed <= count'.typed /\ r.text <= count'.typed
    BY <1>5, <1>6, <1>7, <1>8, <1>10 DEF DraftRow, KeyRow
<1>14. /\ saving' \in [Tabs -> [Blocks -> SavingRow]]
       /\ \A t1 \in Tabs, b1 \in Blocks : saving'[t1][b1] = saving[t1][b1] /\ (r.key \in DOMAIN keys => keys[r.key].seen = seen)
    BY <1>8, <1>9 DEF DraftsInv
<1>15. r.actor = tab[t].actor /\ r.version <= seen /\ seen <= texts[r.actor][b].version
    BY <1>4, <1>5, <1>6, <1>8
<1>16. PutStep(t, b, r, seen, TRUE)
    BY <1>8, <1>9, <1>12, <1>13, <1>14, <1>15 DEF PutStep
<1>17. QED
    BY <1>8, <1>16, PutKeeps

LEMMA OverwriteKeeps ==
    ASSUME DraftsInv, NEW t \in Tabs, NEW b \in Blocks, OverwriteDraft(t, b)
    PROVE  DraftsInv'
<1>1. PICK d, version : d = tab[t].draft[b] /\ version = Server(t, b).version
    OBVIOUS
<1>2. d # NoDraft /\ Rebase(t, b, version) /\ UNCHANGED <<store, broken, texts, count, taken, over, blind>>
    BY <1>1 DEF OverwriteDraft
<1>3. d \in DraftRow /\ d.actor = tab[t].actor /\ keys[d.key].seen <= texts[d.actor][b].version /\ d.actor \in Actors
    BY <1>1, <1>2, DraftIs DEF DraftRow
<1>4. texts[d.actor][b] \in TextRow
    BY <1>3 DEF DraftsInv, TextsGood
<1>5. version \in Nat \ {0} /\ keys[d.key].seen <= version /\ version = texts[tab[t].actor][b].version
    BY <1>1, <1>3, <1>4 DEF Server, TextRow
<1>6. version <= version
    BY <1>5
<1>7. PICK r : r = [d EXCEPT !.version = version]
    OBVIOUS
<1>8. r \in DraftRow
    BY <1>3, <1>5, <1>7 DEF DraftRow
<1>9. tab' = [tab EXCEPT ![t].draft[b] = r]
    BY <1>1, <1>2, <1>7 DEF Rebase
<1>10. tab'[t].draft[b] = r
  <2>1. tab \in [Tabs -> TabRow] /\ tab[t].draft \in [Blocks -> DraftRow \cup {NoDraft}]
      BY DEF DraftsInv, TabRow
  <2>2. QED
      BY <1>9, <2>1 DEF TabRow
<1>11. PICK s : s = Captured("waits", r)
    OBVIOUS
<1>12. s \in SavingRow /\ s = Captured("waits", tab'[t].draft[b]) /\ saving' = [saving EXCEPT ![t][b] = s]
    BY <1>8, <1>10, <1>11, CapturedIs DEF OverwriteDraft
<1>13. QED
    BY <1>1, <1>2, <1>5, <1>6, <1>12, RebaseKeeps

-----------------------------------------------------------------------------
(* Drafts: saving *)

LEMMA ClearedIs ==
    ASSUME DraftsInv, NEW t \in Tabs, NEW b \in Blocks, tab[t].draft[b] # NoDraft, Clear(t, b),
           UNCHANGED <<store, broken, texts, count, taken, blind>>, over \subseteq over',
           GivenUp(tab[t].draft[b].key, keys, taken, over'),
           UNCHANGED saving \/ saving' = [saving EXCEPT ![t][b] = Resting]
    PROVE  DraftsInv'
<1>1. saving \in [Tabs -> [Blocks -> SavingRow]]
    BY DEF DraftsInv
<1>2. CASE UNCHANGED saving
  <2>1. /\ saving' \in [Tabs -> [Blocks -> SavingRow]]
        /\ \A t1 \in Tabs, b1 \in Blocks : saving'[t1][b1].phase = "none" \/ saving'[t1][b1] = saving[t1][b1]
      BY <1>1, <1>2
  <2>2. ClearStep(t, b)
      BY <2>1 DEF ClearStep
  <2>3. QED
      BY <2>2, ClearKeeps
<1>3. CASE saving' = [saving EXCEPT ![t][b] = Resting]
  <2>1. /\ saving' \in [Tabs -> [Blocks -> SavingRow]] /\ saving'[t][b] = Resting
        /\ \A t1 \in Tabs, b1 \in Blocks : ~(t1 = t /\ b1 = b) => saving'[t1][b1] = saving[t1][b1]
      BY <1>1, <1>3, RestIs
  <2>2. \A t1 \in Tabs, b1 \in Blocks : saving'[t1][b1].phase = "none" \/ saving'[t1][b1] = saving[t1][b1]
      BY <2>1, RestIs
  <2>3. ClearStep(t, b)
      BY <2>1, <2>2 DEF ClearStep
  <2>4. QED
      BY <2>3, ClearKeeps
<1>4. QED
    BY <1>2, <1>3

\* Nothing but the save of block b in tab t moves.
LEMMA SaveMoves ==
    ASSUME DraftsInv, NEW t \in Tabs, NEW b \in Blocks, NEW s \in SavingRow, saving' = [saving EXCEPT ![t][b] = s],
           UNCHANGED <<store, tab, line, broken, texts, count, history, blind>>,
           SaveGood(t, b, s, tab[t], keys, texts, taken)
    PROVE  DraftsInv'
<1>1. /\ saving' \in [Tabs -> [Blocks -> SavingRow]] /\ saving'[t][b] = s
      /\ \A t1 \in Tabs, b1 \in Blocks : ~(t1 = t /\ b1 = b) => saving'[t1][b1] = saving[t1][b1]
    BY SavingTypes
<1>2. UNCHANGED <<store, tab, line, broken, texts, count, keys, taken, over, cleared, blind>>
    BY DEF history
<1>3. \A t1 \in Tabs, b1 \in Blocks :
         saving'[t1][b1] = saving[t1][b1] \/ SaveGood(t1, b1, saving'[t1][b1], tab[t1], keys, texts', taken')
    BY <1>1, <1>2
<1>4. CountsGood(count', keys) /\ TextsGood(texts', taken') /\ taken \subseteq taken' /\ taken' \subseteq 1..MaxTyped
    BY <1>2 DEF DraftsInv
<1>5. \A a \in Actors, b1 \in Blocks : texts[a][b1].version <= texts'[a][b1].version
    BY <1>2 DEF DraftsInv, TextsGood, TextRow
<1>6. QuietStep
    BY <1>1, <1>2, <1>3, <1>4, <1>5 DEF QuietStep
<1>7. QED
    BY <1>6, QuietKeeps

LEMMA SaveKeeps == ASSUME DraftsInv, NEW t \in Tabs, NEW b \in Blocks, SaveBlock(t, b) PROVE DraftsInv'
<1>1. PICK d : d = tab[t].draft[b]
    OBVIOUS
<1>2. d # NoDraft /\ UNCHANGED <<store, broken, texts, count, taken, over, blind>>
    BY <1>1 DEF SaveBlock
<1>3. /\ d \in DraftRow /\ GoodIn(keys, d) /\ d.actor = tab[t].actor /\ keys[d.key].tab = t /\ keys[d.key].block = b
      /\ keys[d.key].text = d.text /\ d.key \in DOMAIN keys /\ d.actor = keys[d.key].actor /\ d.version <= keys[d.key].seen
    BY <1>1, <1>2, DraftIs
<1>4. d.actor \in Actors /\ d.text \in 1..MaxTyped
    BY <1>3 DEF DraftRow
<1>5. CASE Saved(t, b)
  <2>1. d.text = texts[d.actor][b].text /\ Clear(t, b) /\ UNCHANGED saving
    <3>1. Clear(t, b) /\ UNCHANGED saving
        BY <1>5 DEF SaveBlock
    <3>2. d.text = texts[d.actor][b].text
        BY <1>1, <1>3, <1>5 DEF Saved, Server
    <3>3. QED
        BY <3>1, <3>2
  <2>2. d.text \in taken
    <3>1. texts[d.actor][b].text = 0 \/ texts[d.actor][b].text \in taken \/ texts[d.actor][b].text > MaxTyped
        BY <1>4 DEF DraftsInv, TextsGood
    <3>2. MaxTyped \in Nat
        OBVIOUS
    <3>3. d.text # 0 /\ ~(d.text > MaxTyped)
        BY <1>4, <3>2
    <3>4. QED
        BY <2>1, <3>1, <3>3
  <2>3. GivenUp(d.key, keys, taken, over') /\ over \subseteq over'
      BY <1>2, <1>3, <2>2 DEF GivenUp
  <2>4. QED
      BY <1>1, <1>2, <2>1, <2>3, ClearedIs
<1>6. CASE ~Saved(t, b)
  <2>1. PICK s : s = Captured("waits", d)
      OBVIOUS
  <2>2. s \in SavingRow /\ s.phase = "waits" /\ s.key = d.key /\ s.text = d.text /\ s.version = d.version
      BY <1>3, <2>1, CapturedIs
  <2>3. saving' = [saving EXCEPT ![t][b] = s] /\ UNCHANGED <<store, tab, line, broken, texts, count, history, blind>>
    <3>1. saving' = [saving EXCEPT ![t][b] = Captured("waits", tab[t].draft[b])] /\ UNCHANGED <<tab, line, keys, cleared>>
        BY <1>6 DEF SaveBlock
    <3>2. QED
        BY <1>1, <1>2, <2>1, <3>1 DEF history
  <2>4. SaveGood(t, b, s, tab[t], keys, texts, taken)
      BY <1>3, <1>4, <2>2 DEF SaveGood
  <2>5. QED
      BY <2>2, <2>3, <2>4, SaveMoves
<1>7. QED
    BY <1>5, <1>6

LEMMA SendKeeps == ASSUME DraftsInv, NEW t \in Tabs, NEW b \in Blocks, Send(t, b) PROVE DraftsInv'
<1>1. PICK s, s2 : s = saving[t][b] /\ s2 = IF tab[t].draft[b].key = s.key THEN [s EXCEPT !.phase = "sent"] ELSE Resting
    OBVIOUS
<1>2. /\ s.phase = "waits" /\ saving' = [saving EXCEPT ![t][b] = s2]
      /\ UNCHANGED <<store, tab, line, broken, texts, count, history, blind>>
    BY <1>1 DEF Send
<1>3. s \in SavingRow /\ SaveGood(t, b, s, tab[t], keys, texts, taken)
    BY <1>1 DEF DraftsInv
<1>4. CASE s2 = Resting
  <2>1. s2 \in SavingRow /\ SaveGood(t, b, s2, tab[t], keys, texts, taken)
      BY <1>4, RestIs DEF SaveGood
  <2>2. QED
      BY <1>2, <2>1, SaveMoves
<1>5. CASE s2 = [s EXCEPT !.phase = "sent"]
  <2>1. s2 \in SavingRow /\ s2.phase = "sent" /\ s2.key = s.key /\ s2.text = s.text /\ s2.version = s.version
      BY <1>3, <1>5 DEF SavingRow
  <2>2. SaveGood(t, b, s2, tab[t], keys, texts, taken)
      BY <1>2, <1>3, <2>1 DEF SaveGood
  <2>3. QED
      BY <1>2, <2>1, <2>2, SaveMoves
<1>6. QED
    BY <1>1, <1>4, <1>5

LEMMA TakesKeeps == ASSUME DraftsInv, NEW t \in Tabs, NEW b \in Blocks, ServerTakes(t, b) PROVE DraftsInv'
<1>1. PICK s, a, tx : s = saving[t][b] /\ a = tab[t].actor /\ tx = texts[a][b]
    OBVIOUS
<1>2. s.phase = "sent" /\ UNCHANGED <<store, tab, line, broken, count, keys, over, cleared>>
    BY <1>1 DEF ServerTakes
<1>3. /\ s \in SavingRow /\ s.key \in DOMAIN keys /\ keys[s.key] \in KeyRow /\ keys[s.key].tab = t /\ keys[s.key].block = b
      /\ keys[s.key].actor = a /\ s.text \in 1..MaxTyped /\ s.version <= keys[s.key].seen /\ keys[s.key].seen <= tx.version
    BY <1>1, <1>2, SaveIs
<1>4. a \in Actors /\ keys[s.key].seen \in Nat /\ s.version \in Nat
    BY <1>3 DEF KeyRow, SavingRow
<1>5. tx \in TextRow /\ tx.version \in Nat
    BY <1>1, <1>4 DEF DraftsInv, TextsGood, TextRow
<1>6. /\ CountsGood(count', keys) /\ count'.typed = count.typed /\ blind = FALSE /\ TextsGood(texts, taken) /\ taken \subseteq 1..MaxTyped
    BY <1>2 DEF DraftsInv
<1>7. CASE ~Accepts(s, tx)
  <2>1. saving' = [saving EXCEPT ![t][b] = Resting] /\ UNCHANGED <<texts, taken, blind>>
      BY <1>1, <1>7 DEF ServerTakes
  <2>2. UNCHANGED <<store, tab, line, broken, texts, count, history, blind>>
      BY <1>2, <2>1 DEF history
  <2>3. SaveGood(t, b, Resting, tab[t], keys, texts, taken)
      BY RestIs DEF SaveGood
  <2>4. QED
      BY <2>1, <2>2, <2>3, RestIs, SaveMoves
<1>8. CASE Accepts(s, tx)
  <2>1. PICK s2, tx2 : s2 = [s EXCEPT !.phase = "taken", !.version = @ + 1] /\ tx2 = [text |-> s.text, version |-> tx.version + 1]
      OBVIOUS
  <2>2. /\ taken' = taken \cup {s.text} /\ blind' = (blind \/ keys[s.key].seen # tx.version)
        /\ texts' = [texts EXCEPT ![a][b] = tx2] /\ saving' = [saving EXCEPT ![t][b] = s2]
    <3>1. /\ taken' = taken \cup {saving[t][b].text} /\ blind' = (blind \/ keys[saving[t][b].key].seen # texts[tab[t].actor][b].version)
          /\ texts' = [texts EXCEPT ![tab[t].actor][b] = [text |-> saving[t][b].text, version |-> @.version + 1]]
          /\ saving' = [saving EXCEPT ![t][b] = [saving[t][b] EXCEPT !.phase = "taken", !.version = @ + 1]]
        BY <1>1, <1>8 DEF ServerTakes
    <3>2. texts \in [Actors -> [Blocks -> TextRow]]
        BY <1>6 DEF TextsGood
    <3>3. texts' = [texts EXCEPT ![a][b] = [text |-> s.text, version |-> texts[a][b].version + 1]]
        BY <1>1, <1>4, <3>1, <3>2
    <3>4. QED
        BY <1>1, <2>1, <3>1, <3>3
  <2>3. s.version = tx.version /\ keys[s.key].seen = tx.version
      BY <1>3, <1>4, <1>5, <1>8 DEF Accepts
  <2>4. blind' = FALSE
      BY <1>6, <2>2, <2>3
  <2>5. s2 \in SavingRow /\ s2.phase = "taken" /\ s2.key = s.key /\ s2.text = s.text /\ s2.version = s.version + 1
    <3>1. PICK s1 : s1 = [s EXCEPT !.phase = "taken"]
        OBVIOUS
    <3>2. s1 \in SavingRow /\ s1.phase = "taken" /\ s1.key = s.key /\ s1.text = s.text /\ s1.version = s.version
        BY <1>3, <3>1 DEF SavingRow
    <3>3. s2 = [s1 EXCEPT !.version = @ + 1]
        BY <2>1, <3>1
    <3>4. QED
        BY <1>4, <3>2, <3>3 DEF SavingRow
  <2>6. /\ texts \in [Actors -> [Blocks -> TextRow]] /\ tx2 \in TextRow /\ tx2.text = s.text /\ tx2.version = tx.version + 1
      BY <1>3, <1>5, <1>6, <2>1 DEF TextsGood, TextRow
  <2>7. /\ texts' \in [Actors -> [Blocks -> TextRow]] /\ texts'[a][b] = tx2
        /\ \A a1 \in Actors, b1 \in Blocks : ~(a1 = a /\ b1 = b) => texts'[a1][b1] = texts[a1][b1]
      BY <1>4, <2>2, <2>6
  <2>8. TextsGood(texts', taken')
    <3>1. \A a1 \in Actors, b1 \in Blocks : texts'[a1][b1].text = 0 \/ texts'[a1][b1].text \in taken' \/ texts'[a1][b1].text > MaxTyped
      <4> SUFFICES ASSUME NEW a1 \in Actors, NEW b1 \in Blocks
                   PROVE  texts'[a1][b1].text = 0 \/ texts'[a1][b1].text \in taken' \/ texts'[a1][b1].text > MaxTyped
          OBVIOUS
      <4>1. CASE a1 = a /\ b1 = b
          BY <2>2, <2>6, <2>7, <4>1
      <4>2. CASE ~(a1 = a /\ b1 = b)
          BY <1>6, <2>2, <2>7, <4>2 DEF TextsGood
      <4>3. QED
          BY <4>1, <4>2
    <3>2. QED
        BY <2>7, <3>1 DEF TextsGood
  <2>9. \A a1 \in Actors, b1 \in Blocks : texts[a1][b1].version <= texts'[a1][b1].version
    <3> SUFFICES ASSUME NEW a1 \in Actors, NEW b1 \in Blocks PROVE texts[a1][b1].version <= texts'[a1][b1].version
        OBVIOUS
    <3>1. texts[a1][b1].version \in Nat
        BY <2>6 DEF TextRow
    <3>2. CASE a1 = a /\ b1 = b
        BY <1>1, <1>5, <2>6, <2>7, <3>2
    <3>3. CASE ~(a1 = a /\ b1 = b)
        BY <2>7, <3>1, <3>3
    <3>4. QED
        BY <3>2, <3>3
  <2>10. SaveGood(t, b, s2, tab[t], keys, texts', taken')
    <3>1. s2.text \in taken' /\ keys[s2.key].seen <= s2.version /\ s2.version <= texts'[tab[t].actor][b].version
        BY <1>1, <1>4, <1>5, <2>2, <2>3, <2>5, <2>6, <2>7
    <3>2. QED
        BY <1>1, <1>3, <2>5, <3>1 DEF SaveGood
  <2>11. /\ saving' \in [Tabs -> [Blocks -> SavingRow]] /\ saving'[t][b] = s2
         /\ \A t1 \in Tabs, b1 \in Blocks : ~(t1 = t /\ b1 = b) => saving'[t1][b1] = saving[t1][b1]
      BY <2>2, <2>5, SavingTypes
  <2>12. \A t1 \in Tabs, b1 \in Blocks :
           saving'[t1][b1] = saving[t1][b1] \/ SaveGood(t1, b1, saving'[t1][b1], tab[t1], keys, texts', taken')
      BY <2>10, <2>11
  <2>13. taken \subseteq taken' /\ taken' \subseteq 1..MaxTyped /\ UNCHANGED <<store, tab, line, broken, keys, over, cleared, blind>>
      BY <1>2, <1>3, <1>6, <2>2, <2>4
  <2>14. QuietStep
      BY <1>6, <2>8, <2>9, <2>11, <2>12, <2>13 DEF QuietStep
  <2>15. QED
      BY <2>14, QuietKeeps
<1>9. QED
    BY <1>7, <1>8

LEMMA ForeignKeeps == ASSUME DraftsInv, NEW a \in Actors, NEW b \in Blocks, Foreign(a, b) PROVE DraftsInv'
<1>1. PICK n, tx : n = count.foreign + 1 /\ tx = [text |-> MaxTyped + n, version |-> texts[a][b].version + 1]
    OBVIOUS
<1>2. /\ count \in CountRow /\ count.typed <= MaxTyped /\ DOMAIN keys = 1..count.keys /\ n \in Nat \ {0} /\ MaxTyped \in Nat
      /\ texts \in [Actors -> [Blocks -> TextRow]] /\ TextsGood(texts, taken) /\ taken \subseteq 1..MaxTyped
      /\ saving \in [Tabs -> [Blocks -> SavingRow]]
    BY <1>1 DEF DraftsInv, CountsGood, CountRow, TextsGood
<1>3. count' = [count EXCEPT !.foreign = @ + 1] /\ UNCHANGED <<store, tab, line, broken, saving, keys, taken, over, cleared, blind>>
    BY DEF Foreign, history
<1>4. count' \in CountRow /\ count'.typed = count.typed /\ count'.keys = count.keys /\ count'.foreign = n
    BY <1>1, <1>2, <1>3 DEF CountRow
<1>5. texts' = [texts EXCEPT ![a][b] = tx]
  <2>1. texts' = [texts EXCEPT ![a][b] = [text |-> MaxTyped + count'.foreign, version |-> @.version + 1]]
      BY DEF Foreign
  <2>2. QED
      BY <1>1, <1>2, <1>4, <2>1
<1>6. tx \in TextRow /\ tx.text > MaxTyped /\ tx.version = texts[a][b].version + 1 /\ texts[a][b].version \in Nat
    BY <1>1, <1>2 DEF TextRow
<1>7. /\ texts' \in [Actors -> [Blocks -> TextRow]] /\ texts'[a][b] = tx
      /\ \A a1 \in Actors, b1 \in Blocks : ~(a1 = a /\ b1 = b) => texts'[a1][b1] = texts[a1][b1]
    BY <1>2, <1>5, <1>6
<1>8. TextsGood(texts', taken')
  <2>1. ASSUME NEW a1 \in Actors, NEW b1 \in Blocks
        PROVE  texts'[a1][b1].text = 0 \/ texts'[a1][b1].text \in taken' \/ texts'[a1][b1].text > MaxTyped
    <3>1. CASE a1 = a /\ b1 = b
        BY <1>6, <1>7, <3>1
    <3>2. CASE ~(a1 = a /\ b1 = b)
        BY <1>2, <1>3, <1>7, <3>2 DEF TextsGood
    <3>3. QED
        BY <3>1, <3>2
  <2>2. QED
      BY <1>7, <2>1 DEF TextsGood
<1>9. ASSUME NEW a1 \in Actors, NEW b1 \in Blocks PROVE texts[a1][b1].version <= texts'[a1][b1].version
  <2>1. texts[a1][b1].version \in Nat
      BY <1>2 DEF TextRow
  <2>2. CASE a1 = a /\ b1 = b
      BY <1>6, <1>7, <2>2
  <2>3. CASE ~(a1 = a /\ b1 = b)
      BY <1>7, <2>1, <2>3
  <2>4. QED
      BY <2>2, <2>3
<1>10. CountsGood(count', keys)
    BY <1>2, <1>4 DEF CountsGood
<1>11. QuietStep
    BY <1>2, <1>3, <1>4, <1>8, <1>9, <1>10 DEF QuietStep
<1>12. QED
    BY <1>11, QuietKeeps

LEMMA AcknowledgeKeeps == ASSUME DraftsInv, NEW t \in Tabs, NEW b \in Blocks, Acknowledge(t, b) PROVE DraftsInv'
<1>1. PICK s, d : s = saving[t][b] /\ d = tab[t].draft[b]
    OBVIOUS
<1>2. /\ s.phase = "taken" /\ saving' = [saving EXCEPT ![t][b] = Resting]
      /\ UNCHANGED <<store, broken, texts, count, taken, over, blind>>
    BY <1>1 DEF Acknowledge
<1>3. /\ s \in SavingRow /\ s.key \in DOMAIN keys /\ s.key # 0 /\ keys[s.key].actor = tab[t].actor
      /\ s.text \in taken /\ keys[s.key].seen <= s.version /\ s.version <= texts[tab[t].actor][b].version
    BY <1>1, <1>2, SaveIs
<1>4. CASE Overtaken(d, s)
  <2>1. UNCHANGED <<tab, line, keys, cleared>>
      BY <1>1, <1>4 DEF Acknowledge
  <2>2. UNCHANGED <<store, tab, line, broken, texts, count, history, blind>>
      BY <1>2, <2>1 DEF history
  <2>3. SaveGood(t, b, Resting, tab[t], keys, texts, taken)
      BY RestIs DEF SaveGood
  <2>4. QED
      BY <1>2, <2>2, <2>3, RestIs, SaveMoves
<1>5. CASE ~Overtaken(d, s)
  <2>1. d.key = s.key /\ d # NoDraft
      BY <1>3, <1>5, NoDraftIs DEF Overtaken
  <2>2. keys[d.key].text = d.text
      BY <1>1, <2>1, DraftIs
  <2>3. CASE IsThat(d, s)
    <3>1. Clear(t, b)
        BY <1>1, <1>5, <2>3 DEF Acknowledge
    <3>2. GivenUp(d.key, keys, taken, over') /\ over \subseteq over'
        BY <1>2, <1>3, <2>2, <2>3 DEF GivenUp, IsThat
    <3>3. QED
        BY <1>1, <1>2, <2>1, <3>1, <3>2, ClearedIs
  <2>4. CASE ~IsThat(d, s)
    <3>1. Rebase(t, b, s.version)
        BY <1>1, <1>5, <2>4 DEF Acknowledge
    <3>2. s.version \in Nat
        BY <1>3 DEF SavingRow
    <3>3. QED
        BY <1>1, <1>2, <1>3, <2>1, <3>1, <3>2, RestIs, RebaseKeeps
  <2>5. QED
      BY <2>3, <2>4
<1>6. QED
    BY <1>4, <1>5

LEMMA UseKeeps == ASSUME DraftsInv, NEW t \in Tabs, NEW b \in Blocks, UseServerText(t, b) PROVE DraftsInv'
<1>1. PICK d : d = tab[t].draft[b]
    OBVIOUS
<1>2. /\ d # NoDraft /\ Clear(t, b) /\ over' = over \cup {<<d.key, d.text>>}
      /\ UNCHANGED <<store, broken, saving, texts, count, taken, blind>>
    BY <1>1 DEF UseServerText
<1>3. keys[d.key].text = d.text
    BY <1>1, <1>2, DraftIs
<1>4. GivenUp(d.key, keys, taken, over') /\ over \subseteq over'
    BY <1>2, <1>3 DEF GivenUp
<1>5. QED
    BY <1>1, <1>2, <1>4, ClearedIs

-----------------------------------------------------------------------------
(* Drafts: lists and discards; the theorem *)

LEMMA CountLoads ==
    ASSUME DraftsInv, count' = count \/ count' = [count EXCEPT !.loads = @ + 1]
    PROVE  CountsGood(count', keys) /\ count'.typed = count.typed
<1>1. count \in CountRow /\ count.typed <= MaxTyped /\ DOMAIN keys = 1..count.keys
    BY DEF DraftsInv, CountsGood
<1>2. count' \in CountRow /\ count'.typed = count.typed /\ count'.keys = count.keys
    BY <1>1 DEF CountRow
<1>3. QED
    BY <1>1, <1>2 DEF CountsGood

LEMMA RefreshKeeps == ASSUME DraftsInv, NEW t \in Tabs, RefreshDrafts(t) PROVE DraftsInv'
<1>1. PICK a : a = tab[t].actor
    OBVIOUS
<1>2. PICK w : w = DraftWrite("list", [NoDraft EXCEPT !.actor = a], FALSE)
    OBVIOUS
<1>3. a \in Actors \cup {Nobody}
    BY <1>1 DEF DraftsInv, TabRow
<1>4. w \in WriteRow /\ w.op = "list"
    BY <1>2, <1>3, ListsIs
<1>5. /\ count' = [count EXCEPT !.loads = @ + 1] /\ UNCHANGED tab /\ Joins(t, w)
      /\ UNCHANGED <<store, broken, saving, texts, history, blind>>
    BY <1>1, <1>2 DEF RefreshDrafts, Lists
<1>6. CountsGood(count', keys) /\ count'.typed = count.typed
    BY <1>5, CountLoads
<1>7. AskStep(t, w)
    BY <1>4, <1>5, <1>6 DEF AskStep
<1>8. QED
    BY <1>7, AskKeeps

LEMMA DiscardKeeps ==
    ASSUME DraftsInv, NEW t \in Tabs, NEW source \in tab[t].offered, DiscardDraft(t, source)
    PROVE  DraftsInv'
<1>1. PICK w : w = DraftWrite("discard", source, TRUE)
    OBVIOUS
<1>2. GoodIn(keys, source) /\ source \in DraftRow
    BY DEF DraftsInv, TabGood, GoodIn
<1>3. w \in WriteRow /\ w.op = "discard" /\ w.record = source
    BY <1>1, <1>2 DEF DraftWrite, WriteRow, Ops
<1>4. Joins(t, w) /\ UNCHANGED <<store, tab, broken, saving, texts, count, history, blind>>
    BY <1>1 DEF DiscardDraft
<1>5. CountsGood(count', keys) /\ count'.typed = count.typed
    BY <1>4, CountLoads
<1>6. AskStep(t, w)
    BY <1>2, <1>3, <1>4, <1>5 DEF AskStep
<1>7. QED
    BY <1>6, AskKeeps

LEMMA InitializeKeeps == ASSUME DraftsInv, NEW t \in Tabs, NEW a \in Actors, Initialize(t, a) PROVE DraftsInv'
<1>1. PICK w : w = DraftWrite("list", [NoDraft EXCEPT !.actor = a], FALSE)
    OBVIOUS
<1>2. w \in WriteRow /\ w.op = "list" /\ w.record.actor = a
    BY <1>1, ListsIs
<1>3. /\ tab' = [tab EXCEPT ![t] = [Blank EXCEPT !.actor = a]]
      /\ saving' = [saving EXCEPT ![t] = [b \in Blocks |-> Resting]]
      /\ count' = [count EXCEPT !.loads = @ + 1] /\ UNCHANGED <<store, broken, texts, history, blind>>
    BY DEF Initialize
<1>4. tab'[t].actor = a
    BY <1>3, BlankIs DEF DraftsInv
<1>5. Joins(t, w)
    BY <1>1, <1>4 DEF Initialize, Lists
<1>6. CountsGood(count', keys) /\ count'.typed = count.typed
    BY <1>3, CountLoads
<1>7. AskStep(t, w)
    BY <1>2, <1>3, <1>5, <1>6 DEF AskStep
<1>8. QED
    BY <1>7, AskKeeps

LEMMA DraftsStart == DraftsInit => DraftsInv
<1> SUFFICES ASSUME DraftsInit PROVE DraftsInv
    OBVIOUS
<1>1. /\ store = <<>> /\ tab = [t \in Tabs |-> Blank] /\ line = [t \in Tabs |-> <<>>] /\ broken = {}
      /\ keys = <<>> /\ taken = {} /\ over = {} /\ cleared = {} /\ blind = FALSE
      /\ DOMAIN store = {} /\ DOMAIN keys = {}
    BY DEF DraftsInit
<1>2. Blank \in TabRow /\ Blank.actor = Nobody /\ Blank.offered = {} /\ \A b \in Blocks : Blank.draft[b] = NoDraft
    BY DEF Blank, TabRow
<1>3. CountsGood(count, keys)
  <2>1. count = [keys |-> 0, typed |-> 0, copies |-> 0, loads |-> 0, fails |-> 0, foreign |-> 0]
      BY DEF DraftsInit
  <2>2. count \in CountRow /\ count.typed = 0 /\ count.keys = 0
      BY <2>1 DEF CountRow
  <2>3. MaxTyped \in Nat /\ DOMAIN keys = 1..0
      BY <1>1
  <2>4. QED
      BY <2>2, <2>3 DEF CountsGood
<1>4. TextsGood(texts, taken)
  <2>1. \A a \in Actors, b \in Blocks : texts[a][b] = [text |-> 0, version |-> 1]
      BY DEF DraftsInit
  <2>2. texts \in [Actors -> [Blocks -> TextRow]]
      BY DEF DraftsInit, TextRow
  <2>3. QED
      BY <2>1, <2>2 DEF TextsGood
<1>5. KeysGood(keys, count.typed, texts) /\ StoreGood(store, keys)
    BY <1>1 DEF KeysGood, StoreGood
<1>6. saving \in [Tabs -> [Blocks -> SavingRow]] /\ \A t \in Tabs, b \in Blocks : saving[t][b].phase = "none"
  <2>1. saving = [t \in Tabs |-> [b \in Blocks |-> Resting]]
      BY DEF DraftsInit
  <2>2. QED
      BY <2>1, RestingIs
<1>7. /\ tab \in [Tabs -> TabRow] /\ line \in [Tabs -> Seq(WriteRow)]
      /\ \A t \in Tabs : tab[t] = Blank /\ line[t] = <<>> /\ line[t] \in Seq(WriteRow) /\ Len(line[t]) = 0
    BY <1>1, <1>2
<1>8. \A t \in Tabs : TabGood(t, tab[t], keys, cleared) /\ LineGood(t, line[t], keys, store)
  <2> SUFFICES ASSUME NEW t \in Tabs PROVE TabGood(t, tab[t], keys, cleared) /\ LineGood(t, line[t], keys, store)
      OBVIOUS
  <2>1. TabGood(t, tab[t], keys, cleared)
      BY <1>2, <1>7 DEF TabGood
  <2>2. LineGood(t, line[t], keys, store)
      BY <1>7 DEF LineGood
  <2>3. QED
      BY <2>1, <2>2
<1>9. \A t \in Tabs : RemovesGood(line[t], tab[t], keys, taken, over) /\ OffersGood(t, line[t], tab[t], keys, store)
  <2> SUFFICES ASSUME NEW t \in Tabs PROVE RemovesGood(line[t], tab[t], keys, taken, over) /\ OffersGood(t, line[t], tab[t], keys, store)
      OBVIOUS
  <2>1. RemovesGood(line[t], tab[t], keys, taken, over)
      BY <1>7 DEF RemovesGood
  <2>2. OffersGood(t, line[t], tab[t], keys, store)
      BY <1>2, <1>7 DEF OffersGood
  <2>3. QED
      BY <2>1, <2>2
<1>10. \A t \in Tabs, b \in Blocks : SaveGood(t, b, saving[t][b], tab[t], keys, texts, taken)
    BY <1>6 DEF SaveGood
<1>11. QED
    BY <1>1, <1>3, <1>4, <1>5, <1>6, <1>7, <1>8, <1>9, <1>10 DEF DraftsInv

LEMMA DraftsStep == DraftsInv /\ [DraftsNext]_draftVars => DraftsInv'
<1> SUFFICES ASSUME DraftsInv, [DraftsNext]_draftVars PROVE DraftsInv'
    OBVIOUS
<1>1. ASSUME NEW t \in Tabs, Execute(t) PROVE DraftsInv'
  <2>1. PICK w : w = Head(line[t])
      OBVIOUS
  <2>2. DoneStep(t, w)
      BY <1>1, <2>1, ExecuteDoes
  <2>3. QED
      BY <2>2, DoneKeeps
<1>2. ASSUME NEW t \in Tabs, Fails(t) \/ Reload(t) \/ RefreshDrafts(t) PROVE DraftsInv'
    BY <1>2, FailsKeeps, ReloadKeeps, RefreshKeeps
<1>3. ASSUME NEW t \in Tabs, NEW a \in Actors, Initialize(t, a) PROVE DraftsInv'
    BY <1>3, InitializeKeeps
<1>4. ASSUME NEW t \in Tabs, NEW b \in Blocks, TypeDraft(t, b) \/ SaveBlock(t, b) \/ Send(t, b) \/ ServerTakes(t, b) PROVE DraftsInv'
    BY <1>4, TypeKeeps, SaveKeeps, SendKeeps, TakesKeeps
<1>5. ASSUME NEW t \in Tabs, NEW b \in Blocks, Acknowledge(t, b) \/ UseServerText(t, b) \/ OverwriteDraft(t, b) PROVE DraftsInv'
    BY <1>5, AcknowledgeKeeps, UseKeeps, OverwriteKeeps
<1>6. ASSUME NEW t \in Tabs, NEW source \in tab[t].offered, RecoverDraft(t, source) \/ DiscardDraft(t, source) PROVE DraftsInv'
    BY <1>6, RecoverKeeps, DiscardKeeps
<1>7. ASSUME NEW a \in Actors, NEW b \in Blocks, Foreign(a, b) PROVE DraftsInv'
    BY <1>7, ForeignKeeps
<1>8. CASE UNCHANGED draftVars
  <2>1. UNCHANGED <<store, tab, line, broken, saving, texts, count, keys, taken, over, cleared, blind>>
      BY <1>8 DEF draftVars, history
  <2>2. QED
      BY <2>1 DEF DraftsInv
<1>9. QED
    BY <1>1, <1>2, <1>3, <1>4, <1>5, <1>6, <1>7, <1>8 DEF DraftsNext

LEMMA DraftsShow == DraftsInv => DraftsKept
<1> SUFFICES ASSUME DraftsInv PROVE DraftsKept
    OBVIOUS
<1>1. \A t \in Tabs : /\ TabGood(t, tab[t], keys, cleared) /\ LineGood(t, line[t], keys, store)
                      /\ OffersGood(t, line[t], tab[t], keys, store) /\ line[t] \in Seq(WriteRow) /\ tab[t] \in TabRow
    BY DEF DraftsInv
<1>2. \A k \in DOMAIN keys : keys[k] \in KeyRow
    BY DEF DraftsInv, KeysGood
<1>3. DOMAIN keys = 1..count.keys /\ DOMAIN store \subseteq DOMAIN keys /\ \A k \in DOMAIN store : store[k].key = k /\ GoodIn(keys, store[k])
    BY DEF DraftsInv, CountsGood, StoreGood
<1>4. \A r : GoodIn(keys, r) => r \in Record
    BY <1>3 DEF GoodIn, DraftRow, Record
<1>5. DraftsTypeOK
  <2>1. ASSUME NEW t \in Tabs
        PROVE  /\ tab[t].actor \in Actors \cup {Nobody} /\ tab[t].error \in BOOLEAN
               /\ tab[t].offered \subseteq Record /\ Range(tab[t].draft) \subseteq Record \cup {NoDraft}
    <3>1. tab[t].actor \in Actors \cup {Nobody} /\ tab[t].error \in BOOLEAN /\ tab[t].draft \in [Blocks -> DraftRow \cup {NoDraft}]
        BY <1>1 DEF TabRow
    <3>2. tab[t].offered \subseteq Record
        BY <1>1, <1>4 DEF TabGood
    <3>3. \A b \in Blocks : tab[t].draft[b] \in Record \cup {NoDraft}
        BY <1>1, <1>4 DEF TabGood
    <3>4. QED
        BY <3>1, <3>2, <3>3 DEF Range
  <2>2. ASSUME NEW t \in Tabs, NEW i \in DOMAIN line[t]
        PROVE  line[t][i].op \in {"put", "remove", "discard", "list"} /\ (line[t][i].op # "list" => line[t][i].record \in Record)
    <3>1. i \in 1..Len(line[t])
        BY <1>1
    <3>2. line[t][i] \in WriteRow
        BY <1>1, <3>1
    <3>3. line[t][i].op # "list" => GoodIn(keys, line[t][i].record)
        BY <1>1, <3>1 DEF LineGood
    <3>4. QED
        BY <1>4, <3>2, <3>3 DEF WriteRow, Ops
  <2>3. \A t \in Tabs, b \in Blocks : saving[t][b].phase \in {"none", "waits", "sent", "taken"}
      BY DEF DraftsInv, SavingRow
  <2>4. \A k \in DOMAIN store : store[k] \in Record /\ store[k].key = k
      BY <1>3, <1>4
  <2>5. broken \subseteq Tabs /\ cleared \subseteq DOMAIN keys /\ taken \subseteq 1..MaxTyped /\ blind \in BOOLEAN
      BY DEF DraftsInv
  <2>6. QED
      BY <1>3, <2>1, <2>2, <2>3, <2>4, <2>5 DEF DraftsTypeOK
<1>6. TypedKept
  <2> SUFFICES ASSUME NEW k \in DOMAIN keys, keys[k].text \notin taken, <<k, keys[k].text>> \notin over,
                      ~(k \in DOMAIN store /\ store[k].text = keys[k].text)
               PROVE  \E t \in Tabs : \E i \in DOMAIN line[t] :
                        line[t][i].op = "put" /\ line[t][i].record.key = k /\ line[t][i].record.text = keys[k].text
      BY DEF TypedKept
  <2>1. PICK t \in Tabs : t = keys[k].tab
      BY <1>2 DEF KeyRow
  <2>2. KeptIn(k, keys[k].text, line[t], store)
      BY <2>1 DEF DraftsInv, GivenUp
  <2>3. PICK i \in 1..Len(line[t]) : PutOfKey(line[t][i], k) /\ line[t][i].record.text = keys[k].text
      BY <2>2 DEF KeptIn
  <2>4. i \in DOMAIN line[t]
      BY <1>1
  <2>5. QED
      BY <2>3, <2>4 DEF PutOfKey
<1>7. StaysCleared
  <2> SUFFICES ASSUME NEW k \in cleared \cap DOMAIN store
               PROVE  \E t \in Tabs : \E i \in DOMAIN line[t] : line[t][i].op = "remove" /\ line[t][i].record.key = k
      BY DEF StaysCleared
  <2>1. PICK t \in Tabs : t = keys[k].tab
      BY <1>2, <1>3 DEF KeyRow
  <2>2. ClearIn(k, line[t], store)
      BY <2>1 DEF DraftsInv
  <2>3. PICK i \in 1..Len(line[t]) : RemoveOf(line[t][i], k)
      BY <2>2 DEF ClearIn
  <2>4. i \in DOMAIN line[t]
      BY <1>1
  <2>5. QED
      BY <2>3, <2>4 DEF RemoveOf
<1>8. Offered
  <2> SUFFICES ASSUME NEW t \in Tabs, Known(t), line[t] = <<>>, ~tab[t].error,
                      NEW k \in DOMAIN store \ Edited(t), keys[k].tab = t, store[k].actor = tab[t].actor
               PROVE  \E r \in tab[t].offered : r.key = k
      BY DEF Offered
  <2>1. k \in DOMAIN keys /\ keys[k].actor = tab[t].actor /\ k # 0
      BY <1>3 DEF GoodIn
  <2>2. ~Drafted(tab[t], k)
      BY <2>1 DEF Drafted, Edited
  <2>3. OfferedIn(k, line[t], tab[t], store)
      BY <1>1, <2>1, <2>2 DEF OffersGood, Known
  <2>4. \A j : j \notin 1..Len(line[t])
    <3>1. Len(line[t]) = 0
        OBVIOUS
    <3>2. QED
        BY <3>1
  <2>5. QED
      BY <2>3, <2>4 DEF OfferedIn
<1>9. OwnDrafts
  <2> SUFFICES ASSUME NEW t \in Tabs, NEW r \in (tab[t].offered \cup Range(tab[t].draft)) \ {NoDraft} PROVE r.actor = tab[t].actor
      BY DEF OwnDrafts
  <2>1. CASE r \in tab[t].offered
      BY <1>1, <2>1 DEF TabGood
  <2>2. CASE r \in Range(tab[t].draft)
    <3>1. tab[t].draft \in [Blocks -> DraftRow \cup {NoDraft}]
        BY <1>1 DEF TabRow
    <3>2. PICK b \in Blocks : r = tab[t].draft[b]
        BY <2>2, <3>1 DEF Range
    <3>3. QED
        BY <1>1, <3>2 DEF TabGood
  <2>3. QED
      BY <2>1, <2>2
<1>10. NeverBlind
    BY DEF DraftsInv, NeverBlind
<1>11. QED
    BY <1>5, <1>6, <1>7, <1>8, <1>9, <1>10 DEF DraftsKept

\* Whatever is typed, saved, copied, discarded, reloaded and lost, in however many tabs: drafts are kept until they
\* are taken, given up or replaced, stay cleared, are offered again, overwrite nothing unseen and stay with their
\* account (drafts.ts:20-110, interaction.ts:40-170, workspace.ts over them).
THEOREM DraftsAlwaysKept == DraftsSpec => []DraftsKept
<1>1. DraftsInit => DraftsInv
    BY DraftsStart
<1>2. DraftsInv /\ [DraftsNext]_draftVars => DraftsInv'
    BY DraftsStep
<1>3. DraftsInv => DraftsKept
    BY DraftsShow
<1>4. QED
    BY <1>1, <1>2, <1>3, PTL DEF DraftsSpec

HIDE DraftsAssumption

-----------------------------------------------------------------------------
(* Workspace: the invariant *)

USE WorkspaceAssumption DEF NoTitle, Nothing, NotYet

Title     == Titles \cup {0}
ShownRow  == [shown : Nat, title : Title, spent : Nat]
PageRow   == [open : BOOLEAN, epoch : Nat, gen : Nat, timer : BOOLEAN, error : BOOLEAN, shown : ShownRow]
ReadRow(epoch) == [gen : Nat, epoch : 1..epoch, number : Nat, title : Title, spent : Nat]
SaverRow  == [phase : {"idle", "sending", "applied", "reading"}, title : Title, epoch : Nat, gen : Nat]
AskedRow  == [want : Things \cup {0}, gen : Nat, shown : Things \cup {0}, timer : BOOLEAN]
AnswerRow(epoch) == [kind : Kinds, of : Things, gen : Nat, epoch : 1..epoch]
BudgetReadRow(epoch) == [n : Nat, epoch : 1..epoch, spent : Nat]
BudgetRow(epoch) == [shown : Nat, reads : SUBSET BudgetReadRow(epoch), timer : BOOLEAN,
                     rested : BOOLEAN, count : Nat, last : Nat]

\* What a type needs to be inductive: a brane that is open has been opened, a title being
\* sent is a title, and a timer of an estimate has something to ask for.
Shapes ==
    /\ server \in [title : Title, number : Nat, spent : Nat]
    /\ page \in PageRow
    /\ page.open => page.epoch >= 1
    /\ reads \subseteq ReadRow(page.epoch)
    /\ draft \in Title /\ typed \in Title
    /\ saver \in SaverRow
    /\ saver.phase # "idle" => page.open
    /\ saver.phase = "sending" => saver.title \in Titles
    /\ stray \in Seq(Titles)
    /\ asked \in [Kinds -> AskedRow]
    /\ \A k \in Kinds : asked[k].timer => asked[k].want # Nothing
    /\ answers \subseteq AnswerRow(page.epoch)
    /\ budget \in BudgetRow(page.epoch)
    /\ fails \in 0..MaxFails

-----------------------------------------------------------------------------
(* Types *)

LEMMA LoopTyped ==
    ASSUME NEW title \in Title, NEW shown, page.epoch \in Nat, LoopWith(title, shown)
    PROVE  draft' \in Title /\ saver' \in SaverRow /\ (saver'.phase = "sending" => saver'.title \in Titles)
BY DEF LoopWith, SaverRow, Title, Idle

LEMMA GoesOnTyped ==
    ASSUME Shapes, NEW r, NEW shown, GoesOn(r, shown)
    PROVE  draft' \in Title /\ saver' \in SaverRow /\ (saver'.phase = "sending" => saver'.title \in Titles)
<1>1. page.epoch \in Nat /\ draft \in Title /\ NoTitle \in Title
    BY DEF Shapes, PageRow, Title
<1>2. QED
    BY <1>1, LoopTyped DEF GoesOn, Shapes

LEMMA BudgetTyped ==
    ASSUME NEW epoch \in Nat, epoch >= 1, NEW b \in BudgetRow(epoch), page.epoch = epoch
    PROVE  ReadBudget(b) \in BudgetRow(epoch)
<1>1. b.count + 1 \in Nat
    BY DEF BudgetRow
<1>2. BudgetRead(b, page.epoch) \in BudgetReadRow(epoch)
    BY <1>1 DEF BudgetRead, BudgetReadRow
<1>3. b.reads \cup {BudgetRead(b, page.epoch)} \in SUBSET BudgetReadRow(epoch)
    BY <1>2 DEF BudgetRow
<1>4. [b EXCEPT !.reads = @ \cup {BudgetRead(b, page.epoch)}, !.rested = FALSE, !.count = @ + 1] \in BudgetRow(epoch)
    BY <1>1, <1>3 DEF BudgetRow
<1>5. [b EXCEPT !.timer = TRUE] \in BudgetRow(epoch)
    BY DEF BudgetRow
<1>6. QED
    BY <1>4, <1>5 DEF ReadBudget

LEMMA BeginReadTyped ==
    ASSUME Shapes, page.open, BeginRead
    PROVE  /\ page' \in PageRow /\ page'.epoch = page.epoch /\ page'.open /\ page'.shown = page.shown
           /\ page'.gen = page.gen + 1
           /\ Begun \in ReadRow(page.epoch)
           /\ reads' = reads \cup {Begun} /\ reads' \subseteq ReadRow(page.epoch)
<1>1. page.gen + 1 \in Nat /\ page.epoch \in 1..page.epoch
    BY DEF Shapes, PageRow
<1>2. Begun \in ReadRow(page.epoch)
    BY <1>1 DEF Begun, ReadRow, Title
<1>3. page' \in PageRow
    BY <1>1 DEF Shapes, PageRow, BeginRead
<1>4. page'.epoch = page.epoch /\ page'.open /\ page'.shown = page.shown /\ page'.gen = page.gen + 1
    BY DEF Shapes, PageRow, BeginRead
<1>5. QED
    BY <1>2, <1>3, <1>4 DEF Shapes, BeginRead

LEMMA ApplyTyped ==
    ASSUME Shapes, Apply
    PROVE  /\ server' \in [title : Title, number : Nat, spent : Nat] /\ server'.number = server.number + 1
           /\ stray' \in Seq(Titles) /\ saver' \in SaverRow
           /\ \/ /\ stray # <<>> /\ server'.title = stray[1] /\ stray[1] \in Titles /\ saver' = saver
                 /\ stray' = [i \in 1..Len(stray) - 1 |-> stray[i + 1]]
              \/ /\ stray = <<>> /\ stray' = stray
                 /\ saver.phase = "sending" /\ saver'.phase = "applied" /\ saver'.title = saver.title
                 /\ server'.title = saver.title
<1>1. server.number + 1 \in Nat
    BY DEF Shapes
<1>2. CASE stray # <<>>
  <2>1. /\ server' = [server EXCEPT !.title = stray[1], !.number = @ + 1]
        /\ stray' = [i \in 1..Len(stray) - 1 |-> stray[i + 1]] /\ UNCHANGED saver
      BY <1>2 DEF Apply
  <2>2. stray[1] \in Titles /\ stray' \in Seq(Titles)
      BY <1>2, <2>1 DEF Shapes
  <2>3. /\ server' \in [title : Title, number : Nat, spent : Nat]
        /\ server'.number = server.number + 1 /\ server'.title = stray[1]
      BY <1>1, <2>1, <2>2 DEF Shapes, Title
  <2>4. QED
      BY <1>2, <2>1, <2>2, <2>3 DEF Shapes
<1>3. CASE stray = <<>>
  <2>1. /\ saver.phase = "sending" /\ saver' = [saver EXCEPT !.phase = "applied"]
        /\ server' = [server EXCEPT !.title = saver.title, !.number = @ + 1] /\ UNCHANGED stray
      BY <1>3 DEF Apply
  <2>2. saver.title \in Titles
      BY <2>1 DEF Shapes
  <2>3. /\ server' \in [title : Title, number : Nat, spent : Nat]
        /\ server'.number = server.number + 1 /\ server'.title = saver.title
      BY <1>1, <2>1, <2>2 DEF Shapes, Title
  <2>4. saver' \in SaverRow /\ saver'.phase = "applied" /\ saver'.title = saver.title
      BY <2>1 DEF Shapes, SaverRow
  <2>5. QED
      BY <1>3, <2>1, <2>2, <2>3, <2>4 DEF Shapes
<1>4. QED
    BY <1>2, <1>3

LEMMA ComeTyped ==
    ASSUME Shapes, NEW r \in reads, Come(r)
    PROVE  /\ page' \in PageRow /\ page'.epoch = page.epoch /\ page'.open = page.open /\ page'.gen = page.gen
           /\ page'.shown = IF Newest(r) THEN [shown |-> r.number, title |-> r.title, spent |-> r.spent] ELSE page.shown
           /\ GoesOn(r, page'.shown)
           /\ budget' \in BudgetRow(page.epoch)
<1> DEFINE shown == IF Newest(r) THEN [shown |-> r.number, title |-> r.title, spent |-> r.spent] ELSE page.shown
           initial == Newest(r) /\ page.shown.shown = NotYet
<1>1. /\ page' = [page EXCEPT !.shown = shown, !.timer = @ \/ Arms(initial)]
      /\ budget' = IF Newest(r) /\ ~initial /\ r.spent # page.shown.spent THEN ReadBudget(budget) ELSE budget
      /\ GoesOn(r, shown)
    BY DEF Come
<1>2. shown \in ShownRow
    BY DEF Shapes, ReadRow, ShownRow, PageRow
<1>3. (page.timer \/ Arms(initial)) \in BOOLEAN
    BY DEF Shapes, PageRow
<1>4. /\ page' \in PageRow /\ page'.epoch = page.epoch /\ page'.open = page.open /\ page'.gen = page.gen
      /\ page'.shown = shown
  <2> HIDE DEF shown, initial
  <2>1. QED
      BY <1>1, <1>2, <1>3 DEF Shapes, PageRow
<1>5. budget' \in BudgetRow(page.epoch)
  <2>1. CASE Newest(r)
    <3>1. page.epoch \in Nat /\ page.epoch >= 1 /\ budget \in BudgetRow(page.epoch)
        BY <2>1 DEF Shapes, PageRow, Newest, Valid
    <3>2. QED
        BY <1>1, <3>1, BudgetTyped
  <2>2. CASE ~Newest(r)
      BY <1>1, <2>2 DEF Shapes
  <2>3. QED
      BY <2>1, <2>2
<1>6. QED
    BY <1>1, <1>4, <1>5

LEMMA OpenTyped ==
    ASSUME Shapes, Open
    PROVE  /\ page' = [open |-> TRUE, epoch |-> page.epoch + 1, gen |-> 1, timer |-> FALSE, error |-> FALSE, shown |-> Fresh]
           /\ page' \in PageRow /\ ReadRow(page.epoch) \subseteq ReadRow(page.epoch + 1)
           /\ AnswerRow(page.epoch) \subseteq AnswerRow(page.epoch + 1)
           /\ reads' \subseteq ReadRow(page.epoch + 1)
           /\ asked' \in [Kinds -> AskedRow]
           /\ \A k \in Kinds : /\ asked'[k].timer => asked'[k].want # Nothing
                              /\ asked'[k].shown = Nothing
           /\ answers' = answers \cup {[kind |-> k, of |-> asked'[k].want, gen |-> asked'[k].gen, epoch |-> page.epoch + 1] :
                                         k \in {l \in Kinds \cap {"lineage"} : asked[l].want # Nothing}}
           /\ reads' = reads \cup {[gen |-> 1, epoch |-> page.epoch + 1, number |-> NotYet, title |-> NoTitle, spent |-> NotYet]}
           /\ answers' \subseteq AnswerRow(page.epoch + 1)
           /\ budget' \in BudgetRow(page.epoch + 1)
<1> DEFINE epoch == page.epoch + 1
<1>1. /\ page' = [open |-> TRUE, epoch |-> epoch, gen |-> 1, timer |-> FALSE, error |-> FALSE, shown |-> Fresh]
      /\ reads' = reads \cup {[gen |-> 1, epoch |-> epoch, number |-> NotYet, title |-> NoTitle, spent |-> NotYet]}
      /\ asked' = [k \in Kinds |-> IF Kept(k) THEN Wanted(k, asked[k].want)
                                   ELSE [want |-> Nothing, gen |-> 0, shown |-> Nothing, timer |-> FALSE]]
      /\ answers' = answers \cup {[kind |-> k, of |-> asked'[k].want, gen |-> asked'[k].gen, epoch |-> epoch] :
                                    k \in {l \in Kinds \cap {"lineage"} : asked[l].want # Nothing}}
      /\ budget' = [budget EXCEPT !.shown = NotYet, !.timer = FALSE, !.rested = TRUE, !.count = @ + 1,
                                  !.reads = @ \cup {BudgetRead(budget, page.epoch + 1)}]
    BY DEF Open
<1>2. page.epoch \in Nat /\ epoch \in Nat /\ epoch \in 1..epoch /\ 1..page.epoch \subseteq 1..epoch
    BY DEF Shapes, PageRow
<1>3. Fresh \in ShownRow
    BY DEF Fresh, ShownRow, Title
<1>4. page' \in PageRow
    BY <1>1, <1>2, <1>3 DEF PageRow
<1>5. /\ ReadRow(page.epoch) \subseteq ReadRow(epoch) /\ AnswerRow(page.epoch) \subseteq AnswerRow(epoch)
      /\ BudgetReadRow(page.epoch) \subseteq BudgetReadRow(epoch)
  <2> HIDE DEF epoch
  <2>1. QED
      BY <1>2 DEF ReadRow, AnswerRow, BudgetReadRow
<1>6. reads' \subseteq ReadRow(epoch)
    BY <1>1, <1>2, <1>5 DEF Shapes, ReadRow, Title
<1>7. ASSUME NEW k \in Kinds
      PROVE  /\ asked'[k] \in AskedRow
             /\ asked'[k].timer => asked'[k].want # Nothing
             /\ Kept(k) => asked'[k].want = asked[k].want
             /\ asked'[k].shown = Nothing
  <2>1. asked[k] \in AskedRow /\ asked[k].gen + 1 \in Nat /\ asked[k].want \in Things \cup {0}
      BY DEF Shapes, AskedRow
  <2>2. Wanted(k, asked[k].want) \in AskedRow
      BY <2>1 DEF Wanted, AskedRow
  <2>3. QED
      BY <1>1, <2>1, <2>2 DEF Wanted, AskedRow
<1>8. asked' \in [Kinds -> AskedRow]
  <2>1. asked' = [k \in Kinds |-> asked'[k]]
      BY <1>1
  <2>2. QED
      BY <1>7, <2>1
<1>9. answers' \subseteq AnswerRow(epoch)
  <2>1. ASSUME NEW k \in Kinds \cap {"lineage"}, asked[k].want # Nothing
        PROVE  [kind |-> k, of |-> asked'[k].want, gen |-> asked'[k].gen, epoch |-> epoch] \in AnswerRow(epoch)
    <3>1. asked'[k].want = asked[k].want /\ asked'[k] \in AskedRow
        BY <1>7 DEF Kept
    <3>2. asked'[k].want \in Things /\ asked'[k].gen \in Nat
        BY <2>1, <3>1 DEF AskedRow
    <3>3. QED
        BY <1>2, <3>2 DEF AnswerRow
  <2>2. QED
      BY <1>1, <1>5, <2>1 DEF Shapes
<1>10. budget' \in BudgetRow(epoch)
  <2>1. budget.count + 1 \in Nat
      BY DEF Shapes, BudgetRow
  <2>2. BudgetRead(budget, epoch) \in BudgetReadRow(epoch)
      BY <1>2, <2>1 DEF BudgetRead, BudgetReadRow
  <2>3. budget.reads \cup {BudgetRead(budget, epoch)} \in SUBSET BudgetReadRow(epoch)
      BY <1>5, <2>2 DEF Shapes, BudgetRow
  <2> HIDE DEF epoch
  <2>4. QED
      BY <1>1, <2>1, <2>3 DEF Shapes, BudgetRow, epoch
<1>11. QED
    BY <1>1, <1>4, <1>5, <1>6, <1>7, <1>8, <1>9, <1>10

\* A read that was served keeps its place and takes the numbers of the brane.
ServedRow(r) == [r EXCEPT !.number = server.number, !.title = server.title, !.spent = server.spent]

LEMMA ServeTyped ==
    ASSUME Shapes, NEW r \in reads
    PROVE  /\ ServedRow(r) \in ReadRow(page.epoch)
           /\ ServedRow(r).gen = r.gen /\ ServedRow(r).epoch = r.epoch
           /\ ServedRow(r).number = server.number /\ ServedRow(r).title = server.title
<1>1. r \in ReadRow(page.epoch) /\ server.number \in Nat /\ server.title \in Title /\ server.spent \in Nat
    BY DEF Shapes
<1>2. QED
    BY <1>1 DEF ServedRow, ReadRow

LEMMA WantTyped ==
    ASSUME Shapes, NEW k \in Kinds, NEW thing \in Things \cup {0}, Want(k, thing)
    PROVE  /\ asked'[k].want = thing /\ asked'[k].gen = asked[k].gen + 1 /\ asked'[k].shown = 0
           /\ asked'[k].timer => thing # 0
           /\ asked' \in [Kinds -> AskedRow] /\ \A l \in Kinds \ {k} : asked'[l] = asked[l]
           /\ answers' = answers \/ (thing # 0 /\ answers' = answers \cup {[kind |-> k, of |-> thing, gen |-> asked[k].gen + 1, epoch |-> page.epoch]})
           /\ answers' \subseteq AnswerRow(page.epoch)
<1>1. /\ page.open /\ asked' = [asked EXCEPT ![k] = Wanted(k, thing)]
      /\ answers' = IF thing = Nothing \/ k = "estimate" THEN answers ELSE answers \cup {Ask(k)}
    BY DEF Want
<1>2. asked[k].gen + 1 \in Nat /\ page.epoch \in 1..page.epoch /\ asked \in [Kinds -> AskedRow] /\ answers \subseteq AnswerRow(page.epoch)
    BY <1>1 DEF Shapes, PageRow, AskedRow
<1>3. Wanted(k, thing) \in AskedRow
    BY <1>2 DEF Wanted, AskedRow
<1>4. /\ asked'[k] = Wanted(k, thing) /\ \A l \in Kinds \ {k} : asked'[l] = asked[l]
      /\ asked' \in [Kinds -> AskedRow]
    BY <1>1, <1>2, <1>3
<1>5. Ask(k) = [kind |-> k, of |-> thing, gen |-> asked[k].gen + 1, epoch |-> page.epoch]
    BY <1>4 DEF Ask, Wanted
<1>6. thing # 0 => Ask(k) \in AnswerRow(page.epoch)
    BY <1>2, <1>5 DEF AnswerRow
<1>7. /\ Wanted(k, thing).want = thing /\ Wanted(k, thing).gen = asked[k].gen + 1 /\ Wanted(k, thing).shown = 0
      /\ Wanted(k, thing).timer => thing # 0
    BY DEF Wanted
<1>8. QED
    BY <1>1, <1>2, <1>4, <1>5, <1>6, <1>7

LEMMA TimerTyped ==
    ASSUME Shapes, NEW k \in Kinds, EstimateTimer(k)
    PROVE  /\ asked'[k].want = asked[k].want /\ asked'[k].gen = asked[k].gen /\ asked'[k].shown = asked[k].shown /\ asked'[k].timer = FALSE
           /\ asked' \in [Kinds -> AskedRow] /\ \A l \in Kinds \ {k} : asked'[l] = asked[l]
           /\ answers' = answers \cup {[kind |-> k, of |-> asked[k].want, gen |-> asked[k].gen, epoch |-> page.epoch]}
           /\ answers' \subseteq AnswerRow(page.epoch)
<1>1. /\ page.open /\ asked[k].timer /\ asked' = [asked EXCEPT ![k].timer = FALSE] /\ answers' = answers \cup {Ask(k)}
    BY DEF EstimateTimer
<1>2. /\ page.epoch \in 1..page.epoch /\ asked[k] \in AskedRow /\ asked[k].want \in Things /\ asked[k].gen \in Nat
      /\ asked \in [Kinds -> AskedRow] /\ answers \subseteq AnswerRow(page.epoch)
    BY <1>1 DEF Shapes, PageRow, AskedRow
<1>3. /\ asked'[k] = [asked[k] EXCEPT !.timer = FALSE] /\ \A l \in Kinds \ {k} : asked'[l] = asked[l]
    BY <1>1, <1>2
<1>4. /\ asked'[k].want = asked[k].want /\ asked'[k].gen = asked[k].gen /\ asked'[k].shown = asked[k].shown /\ asked'[k].timer = FALSE
      /\ asked'[k] \in AskedRow
    BY <1>2, <1>3 DEF AskedRow
<1>5. asked' \in [Kinds -> AskedRow]
    BY <1>1, <1>2, <1>3, <1>4
<1>6. Ask(k) = [kind |-> k, of |-> asked[k].want, gen |-> asked[k].gen, epoch |-> page.epoch]
    BY <1>4 DEF Ask
<1>7. Ask(k) \in AnswerRow(page.epoch)
    BY <1>2, <1>6 DEF AnswerRow
<1>8. QED
    BY <1>1, <1>2, <1>3, <1>4, <1>5, <1>6, <1>7

LEMMA AnsweredTyped ==
    ASSUME Shapes, NEW a \in answers, NEW well \in BOOLEAN, Answered(a, well)
    PROVE  /\ asked' \in [Kinds -> AskedRow] /\ answers' \subseteq answers /\ fails' \in 0..MaxFails
           /\ \A k \in Kinds : /\ asked'[k].want = asked[k].want /\ asked'[k].gen = asked[k].gen /\ asked'[k].timer = asked[k].timer
                               /\ \/ asked'[k].shown = asked[k].shown
                                  \/ k = a.kind /\ InTurn(a) /\ asked'[k].shown = a.of
<1>1. /\ answers' = answers \ {a} /\ (well \/ fails < MaxFails) /\ fails' = fails + (IF well THEN 0 ELSE 1)
      /\ asked' = IF well /\ InTurn(a) THEN [asked EXCEPT ![a.kind].shown = a.of] ELSE asked
    BY DEF Answered
<1>2. fails' \in 0..MaxFails
    BY <1>1 DEF Shapes
<1>3. asked \in [Kinds -> AskedRow] /\ a.kind \in Kinds /\ a.of \in Things
    BY DEF Shapes, AnswerRow
<1>4. CASE asked' = [asked EXCEPT ![a.kind].shown = a.of] /\ InTurn(a)
  <2>1. asked'[a.kind] = [asked[a.kind] EXCEPT !.shown = a.of] /\ \A k \in Kinds \ {a.kind} : asked'[k] = asked[k]
      BY <1>3, <1>4
  <2>2. /\ asked'[a.kind] \in AskedRow /\ asked'[a.kind].want = asked[a.kind].want /\ asked'[a.kind].gen = asked[a.kind].gen
        /\ asked'[a.kind].timer = asked[a.kind].timer /\ asked'[a.kind].shown = a.of
      BY <1>3, <2>1 DEF AskedRow
  <2>3. asked' \in [Kinds -> AskedRow]
      BY <1>3, <1>4, <2>1, <2>2
  <2>4. QED
      BY <1>1, <1>2, <1>3, <1>4, <2>1, <2>2, <2>3
<1>5. CASE asked' = asked
    BY <1>1, <1>2, <1>3, <1>5
<1>6. QED
    BY <1>1, <1>4, <1>5

LEMMA CloseTyped ==
    ASSUME Shapes, Close
    PROVE  /\ page' \in PageRow /\ page'.epoch = page.epoch /\ page'.gen = page.gen /\ page'.shown = page.shown
           /\ saver'.phase = "idle" /\ saver' \in SaverRow /\ stray' \in Seq(Titles)
           /\ asked' \in [Kinds -> AskedRow]
           /\ \A k \in Kinds : /\ asked'[k].want = asked[k].want /\ asked'[k].gen = asked[k].gen
                               /\ asked'[k].shown = asked[k].shown /\ asked'[k].timer = FALSE
<1>1. page' = [page EXCEPT !.open = FALSE, !.timer = FALSE] /\ page \in PageRow
    BY DEF Close, Shapes
<1>2. page' \in PageRow /\ page'.epoch = page.epoch /\ page'.gen = page.gen /\ page'.shown = page.shown
    BY <1>1 DEF PageRow
<1>3. saver'.phase = "idle" /\ saver' \in SaverRow
    BY DEF Close, Idle, SaverRow, Title
<1>4. stray' \in Seq(Titles)
    BY DEF Close, Shapes
<1>5. asked' = [k \in Kinds |-> [asked[k] EXCEPT !.timer = FALSE]]
    BY DEF Close
<1>6. ASSUME NEW k \in Kinds
      PROVE  /\ asked'[k].want = asked[k].want /\ asked'[k].gen = asked[k].gen /\ asked'[k] \in AskedRow
             /\ asked'[k].shown = asked[k].shown /\ asked'[k].timer = FALSE
  <2>1. asked'[k] = [asked[k] EXCEPT !.timer = FALSE] /\ asked[k] \in AskedRow
      BY <1>5 DEF Shapes
  <2>2. QED
      BY <2>1 DEF AskedRow
<1>7. asked' \in [Kinds -> AskedRow]
  <2>1. asked' = [k \in Kinds |-> asked'[k]]
      BY <1>5
  <2>2. QED
      BY <1>6, <2>1
<1>8. QED
    BY <1>2, <1>3, <1>4, <1>6, <1>7

LEMMA AllowanceTyped ==
    ASSUME Shapes, BudgetRests \/ \E q \in budget.reads : BudgetServed(q) \/ BudgetComes(q)
    PROVE  budget' \in BudgetRow(page.epoch)
<1>1. budget \in BudgetRow(page.epoch) /\ page.epoch \in Nat /\ (page.open => page.epoch >= 1)
    BY DEF Shapes, PageRow
<1>2. CASE BudgetRests
  <2>1. [budget EXCEPT !.timer = FALSE, !.rested = TRUE] \in BudgetRow(page.epoch)
      BY <1>1 DEF BudgetRow
  <2>2. [budget EXCEPT !.rested = TRUE] \in BudgetRow(page.epoch)
      BY <1>1 DEF BudgetRow
  <2>3. QED
      BY <1>1, <1>2, <2>1, <2>2, BudgetTyped DEF BudgetRests
<1>3. ASSUME NEW q \in budget.reads, BudgetServed(q)
      PROVE  budget' \in BudgetRow(page.epoch)
  <2>1. q \in BudgetReadRow(page.epoch) /\ server.spent \in Nat /\ budget.reads \in SUBSET BudgetReadRow(page.epoch) /\ budget.last \in Nat
      BY <1>1 DEF BudgetRow, Shapes
  <2>2. [q EXCEPT !.spent = server.spent] \in BudgetReadRow(page.epoch)
      BY <2>1 DEF BudgetReadRow
  <2>3. ((budget.reads \ {q}) \cup {[q EXCEPT !.spent = server.spent]}) \in SUBSET BudgetReadRow(page.epoch)
      BY <2>1, <2>2
  <2>4. (IF q.n = budget.count THEN server.spent ELSE budget.last) \in Nat
      BY <2>1
  <2>5. QED
      BY <1>1, <1>3, <2>3, <2>4 DEF BudgetServed, BudgetRow
<1>4. ASSUME NEW q \in budget.reads, BudgetComes(q)
      PROVE  budget' \in BudgetRow(page.epoch)
  <2>1. (budget.reads \ {q}) \in SUBSET BudgetReadRow(page.epoch) /\ q.spent \in Nat
      BY <1>1 DEF BudgetRow, BudgetReadRow
  <2>2. (IF Valid(q.epoch) THEN q.spent ELSE budget.shown) \in Nat
      BY <1>1, <2>1 DEF BudgetRow
  <2>3. QED
      BY <1>1, <1>4, <2>1, <2>2 DEF BudgetComes, BudgetRow
<1>5. QED
    BY <1>2, <1>3, <1>4

\* Every step but these leaves the page, its reads and its title alone.
LEMMA ShapesStep == Shapes /\ [Next]_vars => Shapes'
<1> SUFFICES ASSUME Shapes, [Next]_vars PROVE Shapes'
    OBVIOUS
<1>0. page \in PageRow /\ page.epoch \in Nat
    BY DEF Shapes, PageRow
<1>1. CASE Refresh
  <2>1. UNCHANGED <<server, draft, typed, saver, stray, asked, answers, budget, fails>>
      BY <1>1 DEF Refresh
  <2>2. page.open /\ BeginRead
      BY <1>1 DEF Refresh
  <2>3. QED
      BY <2>1, <2>2, BeginReadTyped DEF Shapes
<1>2. CASE SaveTitle
  <2>1. /\ page.open /\ UNCHANGED <<server, reads, typed, stray, asked, answers, budget, fails>>
      BY <1>2 DEF SaveTitle
  <2>2. page' = [page EXCEPT !.timer = FALSE] \/ page' = [page EXCEPT !.timer = FALSE, !.error = FALSE]
      BY <1>2 DEF SaveTitle
  <2>3. page' \in PageRow /\ page'.epoch = page.epoch /\ page'.open = page.open
      BY <1>0, <2>2 DEF PageRow
  <2>4. draft' \in Title /\ saver' \in SaverRow /\ (saver'.phase = "sending" => saver'.title \in Titles)
    <3>1. CASE UNCHANGED <<draft, saver>>
        BY <3>1 DEF Shapes
    <3>2. CASE LoopWith(draft, page.shown)
        BY <1>0, <3>2, LoopTyped DEF Shapes
    <3>3. QED
        BY <1>2, <3>1, <3>2 DEF SaveTitle
  <2>5. QED
      BY <2>1, <2>3, <2>4 DEF Shapes
<1>3. CASE Apply
  <2>1. UNCHANGED <<page, reads, draft, typed, asked, answers, budget, fails>>
      BY <1>3 DEF Apply
  <2>2. QED
      BY <1>3, <2>1, ApplyTyped DEF Shapes
<1>4. CASE Refused
  <2>1. /\ fails < MaxFails /\ fails' = fails + 1 /\ saver' = Idle /\ page' = [page EXCEPT !.error = TRUE]
        /\ UNCHANGED <<server, reads, draft, typed, stray, asked, answers, budget>>
      BY <1>4 DEF Refused
  <2>2. page' \in PageRow /\ page'.epoch = page.epoch /\ page'.open = page.open
      BY <1>0, <2>1 DEF PageRow
  <2>3. saver' \in SaverRow /\ saver'.phase = "idle"
      BY <2>1 DEF Idle, SaverRow, Title
  <2>4. fails' \in 0..MaxFails
      BY <2>1 DEF Shapes
  <2>5. QED
      BY <2>1, <2>2, <2>3, <2>4 DEF Shapes
<1>5. CASE Acknowledged
  <2>1. /\ UNCHANGED <<server, draft, typed, stray, asked, answers, budget, fails>>
        /\ saver.phase = "applied" /\ saver' = [saver EXCEPT !.phase = "reading", !.gen = page.gen + 1]
        /\ BeginRead
      BY <1>5 DEF Acknowledged
  <2>2. page.open /\ page.gen + 1 \in Nat
      BY <1>0, <2>1 DEF Shapes, PageRow
  <2>3. saver' \in SaverRow /\ saver'.phase = "reading"
      BY <2>1, <2>2 DEF Shapes, SaverRow
  <2>4. QED
      BY <2>1, <2>2, <2>3, BeginReadTyped DEF Shapes
<1>6. CASE BudgetRests \/ \E q \in budget.reads : BudgetServed(q) \/ BudgetComes(q)
  <2>1. UNCHANGED <<server, page, reads, draft, typed, saver, stray, asked, answers, fails>>
      BY <1>6 DEF BudgetRests, BudgetServed, BudgetComes
  <2>2. QED
      BY <1>6, <2>1, AllowanceTyped DEF Shapes
<1>7. CASE Open
  <2>1. UNCHANGED <<server, draft, typed, saver, stray, fails>> /\ ~page.open
      BY <1>7 DEF Open
  <2>2. page'.epoch = page.epoch + 1 /\ page'.open
      BY <1>7, OpenTyped
  <2>3. QED
      BY <1>0, <1>7, <2>1, <2>2, OpenTyped DEF Shapes
<1>8. CASE Close
  <2>1. UNCHANGED <<server, reads, draft, typed, answers, budget, fails>> /\ page.open
      BY <1>8 DEF Close
  <2>2. QED
      BY <1>8, <2>1, CloseTyped DEF Shapes
<1>9. CASE Change
  <2>1. server' = [server EXCEPT !.number = @ + 1, !.spent = @ + 1]
        /\ UNCHANGED <<page, reads, draft, typed, saver, stray, asked, answers, budget, fails>>
      BY <1>9 DEF Change
  <2>2. server.number + 1 \in Nat /\ server.spent + 1 \in Nat
      BY DEF Shapes
  <2>3. server' \in [title : Title, number : Nat, spent : Nat]
      BY <2>1, <2>2 DEF Shapes
  <2>4. QED
      BY <2>1, <2>3 DEF Shapes
<1>10. ASSUME NEW r \in reads, Serve(r)
       PROVE  Shapes'
  <2>1. /\ reads' = (reads \ {r}) \cup {ServedRow(r)}
        /\ UNCHANGED <<server, page, draft, typed, saver, stray, asked, answers, budget, fails>>
      BY <1>10 DEF Serve, ServedRow
  <2>2. QED
      BY <2>1, ServeTyped DEF Shapes
<1>11. ASSUME NEW r \in reads, Come(r)
       PROVE  Shapes'
  <2>1. /\ reads' = reads \ {r} /\ UNCHANGED <<server, typed, stray, asked, answers, fails>>
        /\ GoesOn(r, page'.shown) /\ page'.epoch = page.epoch /\ page'.open = page.open
      BY <1>11, ComeTyped DEF Come
  <2>2. draft' \in Title /\ saver' \in SaverRow /\ (saver'.phase = "sending" => saver'.title \in Titles)
      BY <2>1, GoesOnTyped
  <2>3. saver'.phase # "idle" => page.open
      BY <2>1 DEF GoesOn, LoopWith, Idle, Valid, Shapes
  <2>4. QED
      BY <1>11, <2>1, <2>2, <2>3, ComeTyped DEF Shapes
<1>12. ASSUME NEW r \in reads, Lost(r)
       PROVE  Shapes'
  <2>1. /\ fails < MaxFails /\ fails' = fails + 1 /\ reads' = reads \ {r}
        /\ UNCHANGED <<server, typed, stray, asked, answers, budget>>
      BY <1>12 DEF Lost
  <2>2. fails' \in 0..MaxFails
      BY <2>1 DEF Shapes
  <2>3. CASE saver' = Idle /\ page' = [page EXCEPT !.error = TRUE] /\ UNCHANGED draft
    <3>1. page' \in PageRow /\ page'.epoch = page.epoch /\ page'.open = page.open
        BY <1>0, <2>3 DEF PageRow
    <3>2. saver' \in SaverRow /\ saver'.phase = "idle"
        BY <2>3 DEF Idle, SaverRow, Title
    <3>3. QED
        BY <2>1, <2>2, <2>3, <3>1, <3>2 DEF Shapes
  <2>4. CASE GoesOn(r, page.shown) /\ UNCHANGED page
    <3>1. draft' \in Title /\ saver' \in SaverRow /\ (saver'.phase = "sending" => saver'.title \in Titles)
        BY <2>4, GoesOnTyped
    <3>2. saver'.phase # "idle" => page.open
        BY <2>4 DEF GoesOn, LoopWith, Idle, Valid, Shapes
    <3>3. QED
        BY <2>1, <2>2, <2>4, <3>1, <3>2 DEF Shapes
  <2>5. QED
      BY <1>12, <2>3, <2>4 DEF Lost
<1>13. ASSUME NEW title \in Titles, Type(title)
       PROVE  Shapes'
  <2>1. /\ draft' = title /\ typed' = title
        /\ page' = [page EXCEPT !.timer = page.shown.shown # NotYet, !.error = FALSE]
        /\ UNCHANGED <<server, reads, saver, stray, asked, answers, budget, fails>>
      BY <1>13 DEF Type
  <2>2. page' \in PageRow /\ page'.epoch = page.epoch /\ page'.open = page.open
      BY <1>0, <2>1 DEF PageRow
  <2>3. QED
      BY <2>1, <2>2 DEF Shapes, Title
<1>14. ASSUME NEW k \in Kinds, NEW thing \in Things \cup {Nothing}, Want(k, thing)
       PROVE  Shapes'
  <2>1. UNCHANGED <<server, page, reads, draft, typed, saver, stray, budget, fails>>
      BY <1>14 DEF Want
  <2>2. \A l \in Kinds : asked'[l].timer => asked'[l].want # Nothing
    <3>1. asked'[k].timer => asked'[k].want # Nothing
        BY <1>14, WantTyped
    <3>2. \A l \in Kinds \ {k} : asked'[l] = asked[l]
        BY <1>14, WantTyped
    <3>3. QED
        BY <3>1, <3>2 DEF Shapes
  <2>3. asked' \in [Kinds -> AskedRow] /\ answers' \subseteq AnswerRow(page.epoch)
      BY <1>14, WantTyped
  <2>4. QED
      BY <2>1, <2>2, <2>3 DEF Shapes
<1>15. ASSUME NEW k \in Kinds, EstimateTimer(k)
       PROVE  Shapes'
  <2>1. UNCHANGED <<server, page, reads, draft, typed, saver, stray, budget, fails>>
      BY <1>15 DEF EstimateTimer
  <2>2. \A l \in Kinds : asked'[l].timer => asked'[l].want # Nothing
      BY <1>15, TimerTyped DEF Shapes
  <2>3. asked' \in [Kinds -> AskedRow] /\ answers' \subseteq AnswerRow(page.epoch)
      BY <1>15, TimerTyped
  <2>4. QED
      BY <2>1, <2>2, <2>3 DEF Shapes
<1>16. ASSUME NEW a \in answers, NEW well \in BOOLEAN, Answered(a, well)
       PROVE  Shapes'
  <2>1. UNCHANGED <<server, page, reads, draft, typed, saver, stray, budget>>
      BY <1>16 DEF Answered
  <2>2. QED
      BY <1>16, <2>1, AnsweredTyped DEF Shapes
<1>17. CASE UNCHANGED vars
    BY <1>17 DEF vars, Shapes
<1>18. QED
    BY <1>1, <1>2, <1>3, <1>4, <1>5, <1>6, <1>7, <1>8, <1>9, <1>10, <1>11, <1>12, <1>13, <1>14, <1>15, <1>16, <1>17
    DEF Next

LEMMA InitShapes == Init => Shapes
<1> SUFFICES ASSUME Init PROVE Shapes
    OBVIOUS
<1>1. server \in [title : Title, number : Nat, spent : Nat]
    BY DEF Init, Title
<1>2. Fresh \in ShownRow
    BY DEF Fresh, ShownRow, Title
<1>3. page \in PageRow /\ page.open = FALSE /\ page.epoch = 0
    BY <1>2 DEF Init, PageRow
<1>4. saver \in SaverRow /\ saver.phase = "idle"
    BY DEF Init, Idle, SaverRow, Title
<1>5. asked \in [Kinds -> AskedRow] /\ \A k \in Kinds : asked[k].timer = FALSE
    BY DEF Init, AskedRow
<1>6. budget \in BudgetRow(page.epoch)
    BY DEF Init, BudgetRow
<1>7. QED
    BY <1>1, <1>3, <1>4, <1>5, <1>6 DEF Init, Shapes, Title

LEMMA ShapesInvariance == Spec => []Shapes
    BY InitShapes, ShapesStep, PTL DEF Spec

HistoryTyped == typings \in 0..MaxTypings /\ outdated \in BOOLEAN

LEMMA HistoryStep ==
    ASSUME HistoryTyped, [Next]_vars
    PROVE  HistoryTyped'
<1>1. CASE Refresh \/ Apply \/ Refused \/ Acknowledged \/ BudgetRests \/ Open \/ Close \/ Change \/ UNCHANGED vars
    BY <1>1 DEF Refresh, Apply, Refused, Acknowledged, BudgetRests, Open, Close, Change, vars, HistoryTyped
<1>2. ASSUME NEW title, NEW shown, LoopWith(title, shown)
      PROVE  outdated' \in BOOLEAN
    BY <1>2 DEF LoopWith, HistoryTyped
<1>3. ASSUME NEW r, NEW shown, GoesOn(r, shown)
      PROVE  outdated' \in BOOLEAN
    BY <1>2, <1>3 DEF GoesOn, HistoryTyped
<1>4. CASE SaveTitle
    BY <1>2, <1>4 DEF SaveTitle, HistoryTyped
<1>5. ASSUME NEW r \in reads, Serve(r) \/ Come(r) \/ Lost(r)
      PROVE  HistoryTyped'
    BY <1>3, <1>5 DEF Serve, Come, Lost, HistoryTyped
<1>6. ASSUME NEW q \in budget.reads, BudgetServed(q) \/ BudgetComes(q)
      PROVE  HistoryTyped'
    BY <1>6 DEF BudgetServed, BudgetComes, HistoryTyped
<1>7. ASSUME NEW title \in Titles, Type(title)
      PROVE  HistoryTyped'
  <2>1. MaxTypings \in Nat
      BY WorkspaceAssumption DEF WorkspaceAssumption
  <2>2. typings < MaxTypings /\ typings' = typings + 1 /\ outdated' = FALSE
      BY <1>7 DEF Type
  <2>3. typings' \in 0..MaxTypings
      BY <2>1, <2>2 DEF HistoryTyped
  <2>4. outdated' \in BOOLEAN
      BY <2>2
  <2>5. QED
      BY <2>3, <2>4 DEF HistoryTyped
<1>8. ASSUME NEW k \in Kinds, NEW thing \in Things \cup {Nothing}, Want(k, thing)
      PROVE  HistoryTyped'
    BY <1>8 DEF Want, HistoryTyped
<1>9. ASSUME NEW k \in Kinds, EstimateTimer(k)
      PROVE  HistoryTyped'
    BY <1>9 DEF EstimateTimer, HistoryTyped
<1>10. ASSUME NEW a \in answers, NEW well \in BOOLEAN, Answered(a, well)
       PROVE  HistoryTyped'
    BY <1>10 DEF Answered, HistoryTyped
<1>11. QED
    BY <1>1, <1>4, <1>5, <1>6, <1>7, <1>8, <1>9, <1>10 DEF Next

\* The controller, its reads, its title command and its answers have the shape
\* workspace.ts gives them, whatever is closed, refused or lost.
THEOREM WorkspaceTypeCorrect == Spec => []TypeOK
<1>1. Shapes /\ HistoryTyped => TypeOK
    BY DEF Shapes, HistoryTyped, TypeOK, Title, ShownRow, PageRow, ReadRow, SaverRow, AskedRow, AnswerRow, BudgetReadRow, BudgetRow
<1>2. Init => HistoryTyped
  <2>1. MaxTypings \in Nat
      BY WorkspaceAssumption DEF WorkspaceAssumption
  <2>2. Init => typings = 0 /\ outdated = FALSE
      BY DEF Init
  <2>3. Init => typings \in 0..MaxTypings
      BY <2>1, <2>2
  <2>4. Init => outdated \in BOOLEAN
      BY <2>2
  <2>5. QED
      BY <2>3, <2>4 DEF HistoryTyped
<1>3. HistoryTyped /\ [Next]_vars => HistoryTyped'
    BY HistoryStep
<1>4. QED
    BY <1>1, <1>2, <1>3, ShapesInvariance, PTL DEF Spec

-----------------------------------------------------------------------------
(* Reads *)

\* Reads are told apart by their epoch and generation, and the newest one, once it was
\* served, is of a brane at least as new as the one that is shown.
ReadsInv ==
    /\ \A r \in reads : r.epoch = page.epoch => r.gen <= page.gen
    /\ \A r, q \in reads : r.epoch = q.epoch /\ r.gen = q.gen => r = q
    /\ \A r \in reads : r.number <= server.number
    /\ \A r \in reads : r.epoch = page.epoch /\ r.gen = page.gen /\ r.number # 0 => page.shown.shown <= r.number
    /\ page.shown.shown <= server.number

NumberTypes ==
    /\ server.number \in Nat /\ page.epoch \in Nat /\ page.gen \in Nat /\ page.shown.shown \in Nat
    /\ \A r \in reads : r.gen \in Nat /\ r.number \in Nat /\ r.epoch \in 1..page.epoch

LEMMA Numbers == Shapes => NumberTypes
    BY DEF Shapes, NumberTypes, PageRow, ReadRow, ShownRow

LEMMA BeginReadKeeps ==
    ASSUME Shapes, ReadsInv, page.open, BeginRead, UNCHANGED server
    PROVE  ReadsInv'
<1>1. /\ page'.epoch = page.epoch /\ page'.shown = page.shown /\ page'.gen = page.gen + 1
      /\ reads' = reads \cup {Begun}
    BY BeginReadTyped
<1>2. Begun.gen = page.gen + 1 /\ Begun.epoch = page.epoch /\ Begun.number = 0
    BY DEF Begun
<1>3. NumberTypes
    BY Numbers
<1>4. QED
    BY <1>1, <1>2, <1>3 DEF ReadsInv, NumberTypes

\* Each of the other steps keeps the page's numbers and takes reads away or leaves them.
LEMMA ReadsQuiet ==
    ASSUME Shapes, ReadsInv, reads' \subseteq reads, server'.number >= server.number, server'.number \in Nat,
           page'.epoch = page.epoch, page'.gen = page.gen, page'.shown = page.shown
    PROVE  ReadsInv'
<1>1. NumberTypes
    BY Numbers
<1>2. QED
    BY <1>1 DEF ReadsInv, NumberTypes

LEMMA ReadsStep == Shapes /\ ReadsInv /\ [Next]_vars => ReadsInv' /\ [NeverBack]_vars
<1> SUFFICES ASSUME Shapes, ReadsInv, [Next]_vars PROVE ReadsInv' /\ [NeverBack]_vars
    OBVIOUS
<1>0. NumberTypes /\ page \in PageRow
    BY Numbers DEF Shapes
<1>1. CASE Refresh
  <2>1. page.open /\ BeginRead /\ UNCHANGED server
      BY <1>1 DEF Refresh
  <2>2. QED
      BY <1>0, <2>1, BeginReadKeeps, BeginReadTyped DEF NeverBack, NumberTypes
<1>2. CASE Acknowledged
  <2>1. page.open /\ BeginRead /\ UNCHANGED server
      BY <1>2 DEF Acknowledged, Shapes
  <2>2. QED
      BY <1>0, <2>1, BeginReadKeeps, BeginReadTyped DEF NeverBack, NumberTypes
<1>3. CASE Open
  <2> DEFINE first == [gen |-> 1, epoch |-> page.epoch + 1, number |-> NotYet, title |-> NoTitle, spent |-> NotYet]
  <2>1. /\ reads' = reads \cup {first} /\ UNCHANGED server
        /\ page'.epoch = page.epoch + 1 /\ page'.gen = 1 /\ page'.shown.shown = 0
      BY <1>3, OpenTyped DEF Open, Fresh
  <2>2. first.gen = 1 /\ first.epoch = page.epoch + 1 /\ first.number = 0
      OBVIOUS
  <2> HIDE DEF first
  <2>3. QED
      BY <1>0, <2>1, <2>2 DEF ReadsInv, NumberTypes, NeverBack
<1>4. ASSUME NEW r \in reads, Serve(r)
      PROVE  ReadsInv' /\ [NeverBack]_vars
  <2>1. reads' = (reads \ {r}) \cup {ServedRow(r)} /\ UNCHANGED <<server, page>> /\ r.number = 0
      BY <1>4 DEF Serve, ServedRow
  <2>2. ServedRow(r).gen = r.gen /\ ServedRow(r).epoch = r.epoch /\ ServedRow(r).number = server.number
      BY ServeTyped
  <2>3. QED
      BY <1>0, <2>1, <2>2 DEF ReadsInv, NumberTypes, NeverBack
<1>5. ASSUME NEW r \in reads, Come(r)
      PROVE  ReadsInv' /\ [NeverBack]_vars
  <2>1. /\ reads' = reads \ {r} /\ UNCHANGED server /\ r.number # 0
        /\ page'.epoch = page.epoch /\ page'.gen = page.gen
        /\ page'.shown = IF Newest(r) THEN [shown |-> r.number, title |-> r.title, spent |-> r.spent] ELSE page.shown
      BY <1>5, ComeTyped DEF Come
  <2>2. CASE Newest(r)
    <3>1. page'.shown.shown = r.number /\ r.epoch = page.epoch /\ r.gen = page.gen
        BY <2>1, <2>2 DEF Newest, Valid
    <3>2. QED
        BY <1>0, <2>1, <3>1 DEF ReadsInv, NumberTypes, NeverBack
  <2>3. CASE ~Newest(r)
      BY <1>0, <2>1, <2>3, ReadsQuiet DEF NeverBack, NumberTypes
  <2>4. QED
      BY <2>2, <2>3
<1>6. CASE Apply
  <2>1. UNCHANGED <<page, reads>> /\ server'.number = server.number + 1
      BY <1>6, ApplyTyped DEF Apply
  <2>2. QED
      BY <1>0, <2>1, ReadsQuiet DEF NeverBack, NumberTypes
<1>7. CASE Change
  <2>1. UNCHANGED <<page, reads>> /\ server'.number = server.number + 1
      BY <1>7 DEF Change, Shapes
  <2>2. QED
      BY <1>0, <2>1, ReadsQuiet DEF NeverBack, NumberTypes
<1>8. ASSUME UNCHANGED server, reads' \subseteq reads,
             page' = page \/ page' = [page EXCEPT !.timer = FALSE] \/ page' = [page EXCEPT !.timer = FALSE, !.error = FALSE]
             \/ page' = [page EXCEPT !.error = TRUE] \/ page' = [page EXCEPT !.open = FALSE, !.timer = FALSE]
             \/ page' = [page EXCEPT !.timer = page.shown.shown # NotYet, !.error = FALSE]
      PROVE  ReadsInv' /\ [NeverBack]_vars
  <2>1. page'.epoch = page.epoch /\ page'.gen = page.gen /\ page'.shown = page.shown
      BY <1>0, <1>8 DEF PageRow
  <2>2. QED
      BY <1>0, <1>8, <2>1, ReadsQuiet DEF NeverBack, NumberTypes
<1>9. CASE SaveTitle \/ Refused \/ BudgetRests \/ Close \/ UNCHANGED vars
    BY <1>8, <1>9 DEF SaveTitle, Refused, BudgetRests, Close, vars
<1>10. ASSUME NEW r \in reads, Lost(r)
       PROVE  ReadsInv' /\ [NeverBack]_vars
    BY <1>8, <1>10 DEF Lost
<1>11. ASSUME NEW q \in budget.reads, BudgetServed(q) \/ BudgetComes(q)
       PROVE  ReadsInv' /\ [NeverBack]_vars
    BY <1>8, <1>11 DEF BudgetServed, BudgetComes
<1>12. ASSUME NEW title \in Titles, Type(title)
       PROVE  ReadsInv' /\ [NeverBack]_vars
    BY <1>8, <1>12 DEF Type
<1>13. ASSUME NEW k \in Kinds, NEW thing \in Things \cup {Nothing}, Want(k, thing) \/ EstimateTimer(k)
       PROVE  ReadsInv' /\ [NeverBack]_vars
    BY <1>8, <1>13 DEF Want, EstimateTimer
<1>14. ASSUME NEW a \in answers, NEW well \in BOOLEAN, Answered(a, well)
       PROVE  ReadsInv' /\ [NeverBack]_vars
    BY <1>8, <1>14 DEF Answered
<1>15. ASSUME NEW k \in Kinds, EstimateTimer(k)
       PROVE  ReadsInv' /\ [NeverBack]_vars
    BY <1>8, <1>15 DEF EstimateTimer
<1>16. QED
    BY <1>1, <1>2, <1>3, <1>4, <1>5, <1>6, <1>7, <1>9, <1>10, <1>11, <1>12, <1>13, <1>14, <1>15 DEF Next

-----------------------------------------------------------------------------
(* What is asked for *)

\* An answer that is in turn is of what is wanted.
AskedInv ==
    /\ ShownIsWanted
    /\ \A a \in answers : a.epoch = page.epoch =>
          /\ a.gen <= asked[a.kind].gen
          /\ a.gen = asked[a.kind].gen => a.of = asked[a.kind].want

\* The other steps keep the epoch and what is asked.
LEMMA AskedQuiet ==
    ASSUME Shapes, AskedInv, UNCHANGED <<asked, answers>>,
           page' = page \/ page' = [page EXCEPT !.timer = FALSE] \/ page' = [page EXCEPT !.timer = FALSE, !.error = FALSE]
           \/ page' = [page EXCEPT !.error = TRUE] \/ page' = [page EXCEPT !.timer = page.shown.shown # NotYet, !.error = FALSE]
           \/ page'.epoch = page.epoch
    PROVE  AskedInv'
<1>1. page'.epoch = page.epoch
    BY DEF Shapes, PageRow
<1>2. QED
    BY <1>1 DEF AskedInv, ShownIsWanted

LEMMA AskedStep == Shapes /\ AskedInv /\ [Next]_vars => AskedInv'
<1> SUFFICES ASSUME Shapes, AskedInv, [Next]_vars PROVE AskedInv'
    OBVIOUS
<1>0. /\ asked \in [Kinds -> AskedRow] /\ \A k \in Kinds : asked[k].gen \in Nat
      /\ answers \subseteq AnswerRow(page.epoch) /\ page.epoch \in Nat
      /\ \A a \in answers : a.kind \in Kinds /\ a.gen \in Nat /\ a.epoch \in 1..page.epoch
    BY DEF Shapes, PageRow, AskedRow, AnswerRow
<1>1. ASSUME NEW k \in Kinds, NEW thing \in Things \cup {Nothing}, Want(k, thing)
      PROVE  AskedInv'
  <2>1. UNCHANGED page
      BY <1>1 DEF Want
  <2>2. /\ asked'[k].want = thing /\ asked'[k].gen = asked[k].gen + 1 /\ asked'[k].shown = 0
        /\ asked' \in [Kinds -> AskedRow] /\ \A l \in Kinds \ {k} : asked'[l] = asked[l]
        /\ answers' \subseteq answers \cup {[kind |-> k, of |-> thing, gen |-> asked[k].gen + 1, epoch |-> page.epoch]}
      BY <1>1, WantTyped
  <2>3. ShownIsWanted'
      BY <1>0, <2>2 DEF AskedInv, ShownIsWanted
  <2>4. ASSUME NEW a \in answers', a.epoch = page.epoch
        PROVE  a.gen <= asked'[a.kind].gen /\ (a.gen = asked'[a.kind].gen => a.of = asked'[a.kind].want)
    <3>1. CASE a \in answers
        BY <1>0, <2>2, <2>4, <3>1 DEF AskedInv
    <3>2. CASE a = [kind |-> k, of |-> thing, gen |-> asked[k].gen + 1, epoch |-> page.epoch]
      <4>1. a.kind = k /\ a.of = thing /\ a.gen = asked[k].gen + 1
          BY <3>2
      <4>2. QED
          BY <1>0, <2>2, <4>1
    <3>3. QED
        BY <2>2, <2>4, <3>1, <3>2
  <2>5. QED
      BY <2>1, <2>3, <2>4 DEF AskedInv
<1>2. ASSUME NEW k \in Kinds, EstimateTimer(k)
      PROVE  AskedInv'
  <2>1. UNCHANGED page
      BY <1>2 DEF EstimateTimer
  <2>2. /\ asked'[k].want = asked[k].want /\ asked'[k].gen = asked[k].gen /\ asked'[k].shown = asked[k].shown
        /\ asked' \in [Kinds -> AskedRow] /\ \A l \in Kinds \ {k} : asked'[l] = asked[l]
        /\ answers' = answers \cup {[kind |-> k, of |-> asked[k].want, gen |-> asked[k].gen, epoch |-> page.epoch]}
      BY <1>2, TimerTyped
  <2>3. ShownIsWanted'
      BY <1>0, <2>2 DEF AskedInv, ShownIsWanted
  <2>4. ASSUME NEW a \in answers', a.epoch = page.epoch
        PROVE  a.gen <= asked'[a.kind].gen /\ (a.gen = asked'[a.kind].gen => a.of = asked'[a.kind].want)
    <3>1. CASE a \in answers
        BY <1>0, <2>2, <2>4, <3>1 DEF AskedInv
    <3>2. CASE a = [kind |-> k, of |-> asked[k].want, gen |-> asked[k].gen, epoch |-> page.epoch]
      <4>1. a.kind = k /\ a.of = asked[k].want /\ a.gen = asked[k].gen
          BY <3>2
      <4>2. QED
          BY <1>0, <2>2, <4>1
    <3>3. QED
        BY <2>2, <2>4, <3>1, <3>2
  <2>5. QED
      BY <2>1, <2>3, <2>4 DEF AskedInv
<1>3. ASSUME NEW b \in answers, NEW well \in BOOLEAN, Answered(b, well)
      PROVE  AskedInv'
  <2>1. UNCHANGED page
      BY <1>3 DEF Answered
  <2>2. /\ asked' \in [Kinds -> AskedRow] /\ answers' \subseteq answers
        /\ \A k \in Kinds : /\ asked'[k].want = asked[k].want /\ asked'[k].gen = asked[k].gen
                            /\ \/ asked'[k].shown = asked[k].shown
                               \/ k = b.kind /\ InTurn(b) /\ asked'[k].shown = b.of
      BY <1>3, AnsweredTyped
  <2>3. InTurn(b) => b.of = asked[b.kind].want
      BY DEF InTurn, Valid, AskedInv
  <2>4. ShownIsWanted'
      BY <1>0, <2>2, <2>3 DEF AskedInv, ShownIsWanted
  <2>5. QED
      BY <1>0, <2>1, <2>2, <2>4 DEF AskedInv
<1>4. CASE Open
  <2>1. /\ page'.epoch = page.epoch + 1 /\ asked' \in [Kinds -> AskedRow]
        /\ \A k \in Kinds : asked'[k].shown = Nothing
        /\ answers' = answers \cup {[kind |-> k, of |-> asked'[k].want, gen |-> asked'[k].gen, epoch |-> page.epoch + 1] :
                                      k \in {l \in Kinds \cap {"lineage"} : asked[l].want # Nothing}}
      BY <1>4, OpenTyped
  <2>2. ASSUME NEW a \in answers', a.epoch = page.epoch + 1
        PROVE  a.gen <= asked'[a.kind].gen /\ (a.gen = asked'[a.kind].gen => a.of = asked'[a.kind].want)
    <3>1. a \notin answers
        BY <1>0, <2>2
    <3>2. PICK k \in Kinds : a = [kind |-> k, of |-> asked'[k].want, gen |-> asked'[k].gen, epoch |-> page.epoch + 1]
        BY <2>1, <2>2, <3>1
    <3>3. a.kind = k /\ a.of = asked'[k].want /\ a.gen = asked'[k].gen /\ asked'[k].gen \in Nat
        BY <2>1, <3>2 DEF AskedRow
    <3>4. QED
        BY <3>3
  <2>3. ShownIsWanted'
      BY <2>1 DEF ShownIsWanted
  <2>4. QED
      BY <2>1, <2>2, <2>3 DEF AskedInv
<1>5. CASE Close
  <2>1. /\ page'.epoch = page.epoch /\ asked' \in [Kinds -> AskedRow] /\ UNCHANGED answers
        /\ \A k \in Kinds : asked'[k].want = asked[k].want /\ asked'[k].gen = asked[k].gen /\ asked'[k].shown = asked[k].shown
      BY <1>5, CloseTyped DEF Close
  <2>2. ShownIsWanted'
      BY <1>0, <2>1 DEF AskedInv, ShownIsWanted
  <2>3. QED
      BY <1>0, <2>1, <2>2 DEF AskedInv
<1>6. CASE Refresh \/ Acknowledged
  <2>1. page.open /\ BeginRead /\ UNCHANGED <<asked, answers>>
      BY <1>6 DEF Refresh, Acknowledged, Shapes
  <2>2. QED
      BY <2>1, BeginReadTyped, AskedQuiet
<1>7. CASE SaveTitle \/ Refused \/ BudgetRests \/ Apply \/ Change \/ UNCHANGED vars
    BY <1>7, AskedQuiet DEF SaveTitle, Refused, BudgetRests, Apply, Change, vars
<1>8. ASSUME NEW r \in reads, Serve(r) \/ Come(r) \/ Lost(r)
      PROVE  AskedInv'
    BY <1>8, ComeTyped, AskedQuiet DEF Serve, Come, Lost
<1>9. ASSUME NEW q \in budget.reads, BudgetServed(q) \/ BudgetComes(q)
      PROVE  AskedInv'
    BY <1>9, AskedQuiet DEF BudgetServed, BudgetComes
<1>10. ASSUME NEW title \in Titles, Type(title)
       PROVE  AskedInv'
    BY <1>10, AskedQuiet DEF Type
<1>11. QED
    BY <1>1, <1>2, <1>3, <1>4, <1>5, <1>6, <1>7, <1>8, <1>9, <1>10 DEF Next

-----------------------------------------------------------------------------
(* The title *)

\* The title last typed is in the draft.  A draft is empty only when nothing is being saved, and the brane
\* has the last title and will keep it, or that was taken for saved.  A save applied is the brane's title.
TitleInv ==
    /\ draft \in {NoTitle, typed}
    /\ draft = NoTitle => saver.phase = "idle" /\ (outdated \/ ~Elsewise(typed))
    /\ saver.phase \in {"applied", "reading"} => stray = <<>> /\ server.title = saver.title

\* The command goes on with the title last typed, or with none once the brane has it.
LEMMA LoopKeeps ==
    ASSUME NEW title \in {NoTitle, typed}, title = NoTitle => ~Elsewise(typed), NEW shown, LoopWith(title, shown),
           UNCHANGED <<server, typed, stray>>
    PROVE  TitleInv'
<1>1. ~Elsewise(typed) => ~(Elsewise(typed)')
    BY DEF Elsewise
<1>2. CASE title \in {NoTitle, shown.title}
  <2>1. draft' = NoTitle /\ saver'.phase = "idle"
      BY <1>2 DEF LoopWith, Idle
  <2>2. outdated' \/ ~Elsewise(typed)
    <3>1. CASE title = NoTitle
        BY <3>1
    <3>2. CASE title # NoTitle /\ Elsewise(title)
        BY <1>2, <3>2 DEF LoopWith
    <3>3. CASE title # NoTitle /\ ~Elsewise(title)
        BY <3>3
    <3>4. QED
        BY <3>1, <3>2, <3>3
  <2>3. QED
      BY <1>1, <2>1, <2>2 DEF TitleInv
<1>3. CASE title \notin {NoTitle, shown.title}
  <2>1. draft' = title /\ title = typed /\ saver'.phase = "sending"
      BY <1>3 DEF LoopWith
  <2>2. QED
      BY <1>3, <2>1 DEF TitleInv
<1>4. QED
    BY <1>2, <1>3

LEMMA TitleQuiet ==
    ASSUME TitleInv, UNCHANGED <<draft, saver, typed, outdated, stray>>, server'.title = server.title
    PROVE  TitleInv'
BY DEF TitleInv, Elsewise

LEMMA GoesOnKeeps ==
    ASSUME TitleInv, NEW r, NEW shown, GoesOn(r, shown), UNCHANGED <<server, typed, stray>>
    PROVE  TitleInv'
<1>1. CASE UNCHANGED <<draft, saver, outdated>>
    BY <1>1, TitleQuiet
<1>2. CASE saver.phase = "reading" /\ LoopWith(IF Unchanged(saver.title) THEN NoTitle ELSE draft, shown)
  <2> DEFINE title == IF Unchanged(saver.title) THEN NoTitle ELSE draft
  <2>1. draft = typed /\ draft # NoTitle /\ stray = <<>> /\ server.title = saver.title
      BY <1>2 DEF TitleInv
  <2>2. stray = <<>> /\ server.title = typed => ~Elsewise(typed)
      BY DEF Elsewise
  <2>3. title \in {NoTitle, typed} /\ (title = NoTitle => ~Elsewise(typed))
      BY <2>1, <2>2 DEF Unchanged
  <2> HIDE DEF title
  <2>4. QED
      BY <1>2, <2>3, LoopKeeps DEF title
<1>3. QED
    BY <1>1, <1>2 DEF GoesOn

\* A title applied is the oldest sent, or that of the command when none is before it.
LEMMA ApplyKeeps ==
    ASSUME Shapes, TitleInv, Apply
    PROVE  TitleInv'
<1>1. UNCHANGED <<draft, typed, outdated>>
    BY DEF Apply
<1>2. CASE stray # <<>>
  <2>1. /\ server'.title = stray[1] /\ saver' = saver /\ stray \in Seq(Titles)
        /\ stray' = [i \in 1..Len(stray) - 1 |-> stray[i + 1]]
      BY <1>2, ApplyTyped DEF Shapes
  <2>2. Len(stray) \in Nat /\ Len(stray) >= 1 /\ Len(stray') = Len(stray) - 1
      BY <1>2, <2>1
  <2>3. ~Elsewise(typed) => \A i \in 1..Len(stray) : stray[i] = typed
      BY DEF Elsewise
  <2>4. ~Elsewise(typed) => server'.title = typed /\ \A i \in 1..Len(stray') : stray'[i] = typed
      BY <2>1, <2>2, <2>3
  <2>5. ~Elsewise(typed) => ~Elsewise(typed)'
      BY <1>1, <2>4 DEF Elsewise
  <2>6. QED
      BY <1>1, <1>2, <2>1, <2>5 DEF TitleInv
<1>3. CASE stray = <<>>
  <2>1. /\ stray' = stray /\ saver.phase = "sending" /\ saver'.phase = "applied" /\ saver'.title = saver.title
        /\ server'.title = saver.title
      BY <1>3, ApplyTyped
  <2>2. QED
      BY <1>1, <1>3, <2>1 DEF TitleInv
<1>4. QED
    BY <1>2, <1>3

LEMMA TitleStep ==
    ASSUME Shapes, TitleInv, [Next]_vars
    PROVE  TitleInv'
<1>1. CASE Refresh \/ BudgetRests \/ Open
    BY <1>1, TitleQuiet DEF Refresh, BudgetRests, Open
<1>2. CASE Acknowledged
  <2>1. saver.phase = "applied" /\ saver'.phase = "reading" /\ saver'.title = saver.title
      BY <1>2 DEF Acknowledged, Shapes, SaverRow
  <2>2. UNCHANGED <<draft, typed, outdated, stray, server>>
      BY <1>2 DEF Acknowledged
  <2>3. QED
      BY <2>1, <2>2 DEF TitleInv, Elsewise
<1>3. CASE SaveTitle
  <2>1. UNCHANGED <<server, typed, stray>>
      BY <1>3 DEF SaveTitle
  <2>2. CASE UNCHANGED <<draft, saver, outdated>>
      BY <2>1, <2>2, TitleQuiet
  <2>3. CASE draft # NoTitle /\ LoopWith(draft, page.shown)
    <3>1. draft \in {NoTitle, typed}
        BY DEF TitleInv
    <3>2. QED
        BY <2>1, <2>3, <3>1, LoopKeeps
  <2>4. QED
      BY <1>3, <2>2, <2>3 DEF SaveTitle
<1>4. CASE Apply
    BY <1>4, ApplyKeeps
<1>5. CASE Refused
    BY <1>5 DEF Refused, Idle, TitleInv, Elsewise
<1>6. CASE Close
  <2>1. UNCHANGED <<server, draft, typed, outdated>> /\ saver'.phase = "idle"
      BY <1>6 DEF Close, Idle
  <2>2. draft = NoTitle => stray' = stray
      BY <1>6 DEF Close, TitleInv
  <2>3. QED
      BY <2>1, <2>2 DEF TitleInv, Elsewise
<1>7. CASE Change
  <2>1. server'.title = server.title
      BY <1>7 DEF Change, Shapes
  <2>2. QED
      BY <1>7, <2>1, TitleQuiet DEF Change
<1>8. ASSUME NEW r \in reads, Serve(r)
      PROVE  TitleInv'
    BY <1>8, TitleQuiet DEF Serve
<1>9. ASSUME NEW r \in reads, Come(r)
      PROVE  TitleInv'
    BY <1>9, ComeTyped, GoesOnKeeps DEF Come
<1>10. ASSUME NEW r \in reads, Lost(r)
       PROVE  TitleInv'
  <2>1. UNCHANGED <<server, typed, stray>>
      BY <1>10 DEF Lost
  <2>2. CASE saver' = Idle /\ UNCHANGED <<draft, outdated>>
      BY <2>1, <2>2 DEF Idle, TitleInv, Elsewise
  <2>3. CASE GoesOn(r, page.shown)
      BY <2>1, <2>3, GoesOnKeeps
  <2>4. QED
      BY <1>10, <2>2, <2>3 DEF Lost
<1>11. ASSUME NEW q \in budget.reads, BudgetServed(q) \/ BudgetComes(q)
       PROVE  TitleInv'
    BY <1>11, TitleQuiet DEF BudgetServed, BudgetComes
<1>12. ASSUME NEW title \in Titles, Type(title)
       PROVE  TitleInv'
    BY <1>12, WorkspaceAssumption DEF Type, TitleInv, NoTitle
<1>13. ASSUME NEW k \in Kinds, NEW thing \in Things \cup {Nothing}, Want(k, thing)
       PROVE  TitleInv'
    BY <1>13, TitleQuiet DEF Want
<1>14. ASSUME NEW k \in Kinds, EstimateTimer(k)
       PROVE  TitleInv'
    BY <1>14, TitleQuiet DEF EstimateTimer
<1>15. ASSUME NEW a \in answers, NEW well \in BOOLEAN, Answered(a, well)
       PROVE  TitleInv'
    BY <1>15, TitleQuiet DEF Answered
<1>16. CASE UNCHANGED vars
    BY <1>16, TitleQuiet DEF vars
<1>17. QED
    BY <1>1, <1>2, <1>3, <1>4, <1>5, <1>6, <1>7, <1>8, <1>9, <1>10, <1>11, <1>12, <1>13, <1>14, <1>15, <1>16 DEF Next

LEMMA InitPage == Init => ReadsInv /\ AskedInv /\ TitleInv
<1> SUFFICES ASSUME Init PROVE ReadsInv /\ AskedInv /\ TitleInv
    OBVIOUS
<1>1. ReadsInv
    BY DEF Init, ReadsInv, Fresh
<1>2. AskedInv
    BY DEF Init, AskedInv, ShownIsWanted
<1>3. TitleInv
    BY DEF Init, TitleInv, Idle, Elsewise
<1>4. QED
    BY <1>1, <1>2, <1>3

\* The title last typed is in the draft or is the brane's, what is shown never goes back to an
\* earlier brane, and what is shown for one thing is of what is asked for now.  The one title that may be lost
\* is one typed back to what was shown out of date, which TitleKept excepts (workspace.ts:197-560, :394).
THEOREM PageAlwaysTrue == Spec => PageTrue
<1> DEFINE Inv == Shapes /\ ReadsInv /\ AskedInv /\ TitleInv
<1>1. Init => Inv
    BY InitShapes, InitPage
<1>2. Inv /\ [Next]_vars => Inv'
  <2>1. SUFFICES ASSUME Inv, [Next]_vars PROVE Inv'
      OBVIOUS
  <2>2. QED
      BY <2>1, ShapesStep, ReadsStep, AskedStep, TitleStep
<1>3. Inv => TitleKept /\ ShownIsWanted
  <2>1. SUFFICES ASSUME Inv PROVE TitleKept
      BY DEF AskedInv
  <2>2. QED
      BY <2>1 DEF TitleInv, TitleKept, Elsewise
<1>4. Inv /\ [Next]_vars => [NeverBack]_vars
  <2>1. SUFFICES ASSUME Inv, [Next]_vars PROVE [NeverBack]_vars
      OBVIOUS
  <2>2. QED
      BY <2>1, ReadsStep
<1> HIDE DEF Inv
<1>5. QED
    BY <1>1, <1>2, <1>3, <1>4, PTL DEF Spec, PageTrue

-----------------------------------------------------------------------------
(* Uploads: what is always so *)

\* A task kept for file f, where r is what the server has: it is called ready, and given up, only when the
\* server has it.
Good(r, f, task) ==
    task \in Task /\ (task.status = "ready" => r[f] = "ready") /\ (task.blob \/ r[f] = "ready")

\* File f is not lost, where d is what the browser holds and g how far dismissals are.
Safe(d, r, g, f) == g[f] # "no" \/ r[f] = "ready" \/ d[f] # None

TaskShown(d, r, g, f, task) ==
    task # None =>
      /\ task \in Task /\ (Good(r, f, task) \/ task.status = "rejected")
      /\ task.status \in {"queued", "uploading", "uncertain"} => Safe(d, r, g, f)
MemGood(m, d, r, g) == m \in [Files -> Task \cup {None}] /\ \A f \in Files : TaskShown(d, r, g, f, m[f])

DiskGood(d, r) == d \in [Files -> Task \cup {None}] /\ \A f \in Files : d[f] # None => Good(r, f, d[f])

ServerGood(d, r, g) ==
    /\ r \in [Files -> {"none", "sent", "ready"}] /\ g \in [Files -> {"no", "asked", "done"}]
    /\ \A f \in Files : r[f] # "none" => Safe(d, r, g, f)

\* The chain ws of writes: each is of a task of its file, and one job waits for it.
WritesGood(ws, r) ==
    ws \in Seq([id : Files, task : Task]) /\ \A p \in 1..Len(ws) : ws[p].id \in Files /\ Good(r, ws[p].id, ws[p].task)
Chained(js, ws) ==
    /\ \A j \in js : j.ahead \in 0..Len(ws) /\ (j.at \in Puts => j.ahead >= 1 /\ ws[j.ahead].id = j.id)
    /\ \A p \in 1..Len(ws) : \E j \in js : j.at \in Puts /\ j.ahead = p
    /\ \A j, k \in js : j.at \in Puts /\ k.at \in Puts /\ j.ahead = k.ahead => j = k

JobGood(j, d, r, g) ==
    /\ j \in Job
    /\ IF j.kind = "load" THEN j.at \notin Puts ELSE j.id \in Files
    /\ j.task # None => j.id \in Files /\ Good(r, j.id, j.task)
    /\ j.kind \in {"save", "send", "look", "retry"} \/ j.at \in Puts => j.task # None
    /\ j.at = "settle" => j.kind = "send"
    /\ j.kind = "send" => Safe(d, r, g, j.id)
    /\ j.kind = "deliver" => r[j.id] = "ready"
    /\ j.kind = "dismiss" => g[j.id] # "no"
JobsGood(js, d, r, g) == \A j \in js : JobGood(j, d, r, g)

\* The files being sent are those of the jobs that send, one each.
Sends(js) == {j \in js : j.kind = "send"}
Sending(a, js) ==
    /\ a \subseteq Files /\ Cardinality(a) <= MaxUploads
    /\ \A f \in Files : f \in a <=> \E j \in Sends(js) : j.id = f
    /\ \A j, k \in Sends(js) : j.id = k.id => j = k

\* The page: its map, the files being sent, its jobs and its writes.
PageGood(m, a, js, ws, d, r, g) ==
    /\ MemGood(m, d, r, g) /\ JobsGood(js, d, r, g)
    /\ WritesGood(ws, r) /\ Chained(js, ws) /\ Sending(a, js)

UploadsInv ==
    /\ here \in BOOLEAN /\ given \subseteq Files /\ leaves \in 0..MaxLeaves
    /\ DiskGood(disk, received) /\ ServerGood(disk, received, dismissed)
    /\ PageGood(mem, active, jobs, writes, disk, received, dismissed)

USE UploadsAssumption, NoTaskAssumption

-----------------------------------------------------------------------------
(* Uploads: room *)

\* A nonempty set of files has a last one.
LEMMA LastFile ==
    ASSUME NEW T, T \subseteq Files, T # {}
    PROVE  \E f \in T : \A g \in T : g <= f
<1> DEFINE From(f) == {g \in T : g >= f}
           Parts == {From(f) : f \in T}
<1>1. IsFiniteSet(T) /\ \A x \in T : x \in Nat
    BY FS_Subset
<1>a. \A f \in T : From(f) \subseteq T /\ IsFiniteSet(From(f))
    BY <1>1, FS_Subset
<1>2. Parts \subseteq FiniteSubsetsOf(T) /\ Parts # {}
    BY <1>a DEF FiniteSubsetsOf
<1>3. IsWellFoundedOn(StrictSubsetOrdering(T), FiniteSubsetsOf(T))
    BY FS_StrictSubsetOrderingWellFounded
<1> HIDE DEF Parts
<1>4. PICK P \in Parts : \A U \in Parts : ~ (<<U, P>> \in StrictSubsetOrdering(T))
    BY <1>2, <1>3, WFMin
<1>5. PICK f \in T : P = From(f)
    BY <1>4 DEF Parts
<1>6. ASSUME NEW g \in T, ~(g <= f) PROVE FALSE
  <2>0. f \in Nat /\ g \in Nat /\ g > f
      BY <1>1, <1>6
  <2>a. f \in From(f) /\ f \notin From(g)
      BY <2>0
  <2>b. \A x \in T : x >= g => x >= f
      BY <1>1, <2>0
  <2>1. f \in P /\ f \notin From(g) /\ From(g) \subseteq P /\ P \subseteq T
      BY <2>a, <2>b, <1>5
  <2>2. From(g) \in Parts
      BY DEF Parts
  <2>3. QED
      BY <1>4, <2>1, <2>2 DEF StrictSubsetOrdering
<1>7. QED
    BY <1>6

\* The files taken fit, if those before did.
LEMMA TakeFits ==
    ASSUME NEW a \in SUBSET Files, NEW q \in SUBSET Files, Cardinality(a) <= MaxUploads
    PROVE  Cardinality(a \cup {f \in q : Room(Cardinality(a) + Cardinality({g \in q : g < f}))}) <= MaxUploads
<1> DEFINE before(f) == {g \in q : g < f}
           take == {f \in q : Room(Cardinality(a) + Cardinality(before(f)))}
<1>0. \A f \in q : f \in Nat
    OBVIOUS
<1>1. CASE take = {}
    BY <1>1
<1>2. CASE take # {}
  <2>0. take \subseteq Files
      OBVIOUS
  <2>1. PICK f \in take : \A g \in take : g <= f
      BY <1>2, <2>0, LastFile
  <2>a. \A g \in take : g \in q /\ (g < f \/ g = f)
      BY <1>0, <2>1
  <2>b. PICK B : B = before(f)
      OBVIOUS
  <2>2. take \subseteq B \cup {f}
      BY <2>a, <2>b
  <2>3. IsFiniteSet(a) /\ IsFiniteSet(B)
      BY <2>b, FS_Subset
  <2>4. Cardinality(a) \in Nat /\ Cardinality(B) \in Nat
      BY <2>3, FS_CardinalityType
  <2>5. Cardinality(a) + Cardinality(B) < MaxUploads
      BY <2>1, <2>b DEF Room
  <2> HIDE DEF before, take
  <2>6. IsFiniteSet(B \cup {f}) /\ Cardinality(B \cup {f}) <= Cardinality(B) + 1
    <3>1. IsFiniteSet(B \cup {f}) /\ (Cardinality(B \cup {f}) = Cardinality(B) \/ Cardinality(B \cup {f}) = Cardinality(B) + 1)
        BY <2>3, FS_AddElement, Zenon
    <3>2. QED
        BY <2>4, <3>1
  <2>7. IsFiniteSet(take) /\ Cardinality(take) <= Cardinality(B \cup {f})
      BY <2>2, <2>6, FS_Subset
  <2>8. Cardinality(a \cup take) = Cardinality(a) + Cardinality(take) - Cardinality(a \cap take)
      BY <2>3, <2>7, FS_Union
  <2>9. Cardinality(a \cap take) \in Nat /\ Cardinality(take) \in Nat /\ Cardinality(B \cup {f}) \in Nat
      BY <2>3, <2>6, <2>7, FS_Intersection, FS_CardinalityType
  <2>10. MaxUploads \in Nat
      OBVIOUS
  <2>11. Cardinality(a \cup take) <= MaxUploads
      BY <2>4, <2>5, <2>6, <2>7, <2>8, <2>9, <2>10
  <2>12. QED
      BY <2>11 DEF take, before
<1>3. QED
    BY <1>1, <1>2

\* The pump takes queued files as long as there is room.
Takes(m, a, js, take) ==
    /\ \A f \in take : f \notin a /\ m[f] # None /\ m[f].status = "queued"
    /\ Pump(m, a, js).mem = [f \in Files |-> IF f \in take THEN As(m[f], "uploading") ELSE m[f]]
    /\ Pump(m, a, js).active = a \cup take
    /\ Pump(m, a, js).jobs = js \cup {NewJob("send", f, "server", m[f]) : f \in take}
    /\ Cardinality(a \cup take) <= MaxUploads

LEMMA PumpIs ==
    ASSUME NEW m, NEW a \in SUBSET Files, NEW js, Cardinality(a) <= MaxUploads
    PROVE  \E take \in SUBSET Files : Takes(m, a, js, take)
<1> DEFINE queued == IF here THEN {f \in Files \ a : m[f] # None /\ m[f].status = "queued"} ELSE {}
           take == {f \in queued : Room(Cardinality(a) + Cardinality({g \in queued : g < f}))}
<1>1. queued \in SUBSET Files
    OBVIOUS
<1>2. take \in SUBSET Files /\ \A f \in take : f \notin a /\ m[f] # None /\ m[f].status = "queued"
    OBVIOUS
<1>3. Pump(m, a, js) = [mem |-> [f \in Files |-> IF f \in take THEN As(m[f], "uploading") ELSE m[f]],
                        active |-> a \cup take,
                        jobs |-> js \cup {NewJob("send", f, "server", m[f]) : f \in take}]
    BY DEF Pump
<1>4. Cardinality(a \cup take) <= MaxUploads
  <2> HIDE DEF queued
  <2>1. QED
      BY <1>1, TakeFits
<1> HIDE DEF take
<1>5. Takes(m, a, js, take)
    BY <1>2, <1>3, <1>4 DEF Takes
<1>6. QED
    BY <1>2, <1>5

-----------------------------------------------------------------------------
(* Uploads: the page *)

LEMMA TaskTypes ==
    ASSUME NEW task \in Task, NEW status \in Statuses
    PROVE  As(task, status) \in Task /\ As(task, status).status = status /\ As(task, status).blob = task.blob
BY DEF As, Task

LEMMA SendsTyped ==
    ASSUME NEW f \in Files, NEW task \in Task
    PROVE  NewJob("send", f, "server", task) \in Job
BY DEF NewJob, Job

LEMMA PumpKeeps ==
    ASSUME NEW m, NEW a, NEW js, NEW ws, NEW d, NEW r, NEW g, PageGood(m, a, js, ws, d, r, g), Pumped(m, a, js)
    PROVE  PageGood(mem', active', jobs', ws, d, r, g)
<1>1. MemGood(m, d, r, g) /\ JobsGood(js, d, r, g) /\ WritesGood(ws, r) /\ Chained(js, ws) /\ Sending(a, js)
    BY DEF PageGood
<1>2. a \in SUBSET Files /\ Cardinality(a) <= MaxUploads
    BY <1>1 DEF Sending
<1>a. PICK take \in SUBSET Files : Takes(m, a, js, take)
    BY <1>2, PumpIs
<1>3. (\A f \in take : f \notin a /\ m[f] # None /\ m[f].status = "queued") /\ Cardinality(a \cup take) <= MaxUploads
    BY <1>a DEF Takes
<1>4. /\ mem' = [f \in Files |-> IF f \in take THEN As(m[f], "uploading") ELSE m[f]]
      /\ active' = a \cup take /\ jobs' = js \cup {NewJob("send", f, "server", m[f]) : f \in take}
    BY <1>a DEF Pumped, Takes
<1>5. ASSUME NEW f \in take
      PROVE  m[f] \in Task /\ Good(r, f, m[f]) /\ Safe(d, r, g, f)
    BY <1>1, <1>3 DEF MemGood, TaskShown
<1>6. MemGood(mem', d, r, g)
  <2>1. ASSUME NEW f \in Files PROVE mem'[f] \in Task \cup {None} /\ TaskShown(d, r, g, f, mem'[f])
    <3>1. CASE f \in take
      <4>1. mem'[f] = As(m[f], "uploading")
          BY <1>4, <3>1
      <4>2. mem'[f] \in Task /\ mem'[f].status = "uploading" /\ mem'[f].blob = m[f].blob
          BY <4>1, <1>5, <3>1, TaskTypes DEF Statuses
      <4>3. Good(r, f, mem'[f])
          BY <4>2, <1>5, <3>1 DEF Good
      <4>4. QED
          BY <4>2, <4>3, <1>5, <3>1 DEF TaskShown
    <3>2. CASE f \notin take
        BY <1>1, <1>4, <3>2 DEF MemGood
    <3>3. QED
        BY <3>1, <3>2
  <2>2. mem' = [f \in Files |-> mem'[f]]
      BY <1>4
  <2>3. QED
      BY <2>1, <2>2 DEF MemGood
<1>7. ASSUME NEW j \in jobs', j \notin js
      PROVE  \E f \in take : j = NewJob("send", f, "server", m[f])
    BY <1>4, <1>7
<1>8. JobsGood(jobs', d, r, g)
  <2>1. ASSUME NEW f \in take PROVE JobGood(NewJob("send", f, "server", m[f]), d, r, g)
      BY <1>5, SendsTyped, NoTaskAssumption DEF JobGood, NewJob, Puts
  <2>2. QED
      BY <1>1, <1>7, <2>1 DEF JobsGood
<1>9. Chained(jobs', ws)
  <2>1. \A f \in take : NewJob("send", f, "server", m[f]).at \notin Puts /\ NewJob("send", f, "server", m[f]).ahead = 0
      BY DEF NewJob, Puts
  <2>2. \A j \in jobs' : j \in js \/ (j.at \notin Puts /\ j.ahead = 0)
      BY <1>7, <2>1
  <2>3. js \subseteq jobs' /\ Len(ws) \in Nat
      BY <1>1, <1>4 DEF WritesGood
  <2>4. \A j \in jobs' : j.ahead \in 0..Len(ws) /\ (j.at \in Puts => j.ahead >= 1 /\ ws[j.ahead].id = j.id)
      BY <1>1, <2>2, <2>3 DEF Chained
  <2>5. QED
      BY <1>1, <2>2, <2>3, <2>4 DEF Chained
<1>10. Sending(active', jobs')
  <2>1. \A f \in take : NewJob("send", f, "server", m[f]).kind = "send" /\ NewJob("send", f, "server", m[f]).id = f
      BY DEF NewJob
  <2>2. active' \subseteq Files /\ Cardinality(active') <= MaxUploads
      BY <1>2, <1>3, <1>4
  <2>a. PICK new : new = {NewJob("send", f, "server", m[f]) : f \in take}
      OBVIOUS
  <2>b. \A j \in new : j.kind = "send"
      BY <2>1, <2>a
  <2>3. Sends(jobs') = Sends(js) \cup {NewJob("send", f, "server", m[f]) : f \in take}
      BY <1>4, <2>a, <2>b DEF Sends
  <2>4. ASSUME NEW f \in Files PROVE f \in active' <=> \E j \in Sends(jobs') : j.id = f
    <3>1. f \in a <=> \E j \in Sends(js) : j.id = f
        BY <1>1 DEF Sending
    <3>2. f \in take <=> \E j \in {NewJob("send", h, "server", m[h]) : h \in take} : j.id = f
        BY <2>1
    <3>3. QED
        BY <1>4, <2>3, <3>1, <3>2
  <2>5. \A j \in Sends(js) : j.id \notin take
    <3>1. \A j \in Sends(js) : j.id \in Files => j.id \in a
        BY <1>1 DEF Sending
    <3>2. QED
        BY <1>3, <3>1
  <2>6. \A j, k \in Sends(jobs') : j.id = k.id => j = k
      BY <1>1, <2>1, <2>3, <2>5 DEF Sending
  <2>7. QED
      BY <2>2, <2>4, <2>6 DEF Sending
<1>11. QED
    BY <1>1, <1>6, <1>8, <1>9, <1>10 DEF PageGood

\* What is good stays good when the server or the browser has more, and dismissals go on.
LEMMA Carries ==
    ASSUME NEW m, NEW a, NEW js, NEW ws, NEW d, NEW r, NEW g, PageGood(m, a, js, ws, d, r, g),
           NEW d2, NEW r2, NEW g2,
           \A f \in Files : Safe(d, r, g, f) => Safe(d2, r2, g2, f),
           \A f \in Files : r[f] = "ready" => r2[f] = "ready",
           \A f \in Files : g[f] # "no" => g2[f] # "no"
    PROVE  PageGood(m, a, js, ws, d2, r2, g2)
<1>1. MemGood(m, d, r, g) /\ JobsGood(js, d, r, g) /\ WritesGood(ws, r) /\ Chained(js, ws) /\ Sending(a, js)
    BY DEF PageGood
<1>2. \A f \in Files : \A task : Good(r, f, task) => Good(r2, f, task)
    BY DEF Good
<1>3. MemGood(m, d2, r2, g2)
    BY <1>1, <1>2 DEF MemGood, TaskShown
<1>4. JobsGood(js, d2, r2, g2)
  <2>1. ASSUME NEW j \in js PROVE JobGood(j, d2, r2, g2)
    <3>1. JobGood(j, d, r, g)
        BY <1>1 DEF JobsGood
    <3>2. j.kind \in {"send", "deliver", "dismiss"} => j.id \in Files
        BY <3>1 DEF JobGood
    <3>3. QED
        BY <1>2, <3>1, <3>2 DEF JobGood
  <2>2. QED
      BY <2>1 DEF JobsGood
<1>5. WritesGood(ws, r2)
  <2>a. \A p \in 1..Len(ws) : ws[p].id \in Files
      BY <1>1 DEF WritesGood
  <2>2. QED
      BY <1>1, <1>2, <2>a DEF WritesGood
<1>6. QED
    BY <1>1, <1>3, <1>4, <1>5 DEF PageGood

\* A job joins the chain of writes.
LEMMA PutJoins ==
    ASSUME NEW js, NEW ws, NEW r, WritesGood(ws, r), Chained(js, ws),
           NEW k, k.at \in Puts, k.ahead = Len(ws) + 1, k.id \in Files,
           NEW task \in Task, Good(r, k.id, task)
    PROVE  /\ WritesGood(Append(ws, [id |-> k.id, task |-> task]), r)
           /\ Chained(js \cup {k}, Append(ws, [id |-> k.id, task |-> task]))
<1> DEFINE w == [id |-> k.id, task |-> task]
           ws2 == Append(ws, w)
           Writing == [id : Files, task : Task]
<1>1. ws \in Seq(Writing) /\ w \in Writing /\ Len(ws) \in Nat
    BY DEF WritesGood
<1>2. /\ ws2 \in Seq(Writing) /\ Len(ws2) = Len(ws) + 1 /\ ws2[Len(ws) + 1] = w
      /\ \A p \in 1..Len(ws) : ws2[p] = ws[p]
    BY <1>1
<1>3. w.id = k.id /\ w.task = task
    OBVIOUS
<1> HIDE DEF ws2, w
<1>4. WritesGood(ws2, r)
  <2>1. ASSUME NEW p \in 1..Len(ws2) PROVE ws2[p].id \in Files /\ Good(r, ws2[p].id, ws2[p].task)
    <3>1. CASE p = Len(ws) + 1
        BY <1>2, <1>3, <3>1
    <3>2. CASE p \in 1..Len(ws)
        BY <1>2, <3>2 DEF WritesGood
    <3>3. QED
        BY <1>1, <1>2, <3>1, <3>2
  <2>2. QED
      BY <1>2, <2>1 DEF WritesGood
<1>5. Chained(js \cup {k}, ws2)
  <2>1. ASSUME NEW j \in js PROVE j.ahead \in 0..Len(ws) /\ (j.at \in Puts => j.ahead >= 1 /\ ws[j.ahead].id = j.id)
      BY DEF Chained
  <2>2. ASSUME NEW j \in js \cup {k}
        PROVE  j.ahead \in 0..Len(ws2) /\ (j.at \in Puts => j.ahead >= 1 /\ ws2[j.ahead].id = j.id)
      BY <1>1, <1>2, <1>3, <2>1
  <2>3. ASSUME NEW p \in 1..Len(ws2)
        PROVE  \E j \in js \cup {k} : j.at \in Puts /\ j.ahead = p
    <3>1. CASE p = Len(ws) + 1
        BY <3>1
    <3>2. CASE p \in 1..Len(ws)
        BY <3>2 DEF Chained
    <3>3. QED
        BY <1>1, <1>2, <3>1, <3>2
  <2>4. ASSUME NEW i \in js \cup {k}, NEW j \in js \cup {k}, i.at \in Puts, j.at \in Puts, i.ahead = j.ahead
        PROVE  i = j
    <3>1. CASE i \in js /\ j \in js
        BY <2>4, <3>1 DEF Chained
    <3>2. CASE i = k \/ j = k
        BY <1>1, <2>1, <2>4, <3>2
    <3>3. QED
        BY <3>1, <3>2
  <2>5. QED
      BY <2>2, <2>3, <2>4 DEF Chained
<1>6. QED
    BY <1>4, <1>5 DEF ws2, w

LEMMA PuttingIs ==
    ASSUME NEW j \in Job, NEW at \in Puts, NEW task \in Task, NEW ws, Len(ws) \in Nat
    PROVE  LET k == Putting(j, at, task, ws)
           IN /\ k \in Job /\ k.kind = j.kind /\ k.id = j.id /\ k.at = at /\ k.task = task /\ k.ahead = Len(ws) + 1
<1> DEFINE k == Putting(j, at, task, ws)
<1>1. k.kind = j.kind /\ k.id = j.id /\ k.at = at /\ k.task = task /\ k.ahead = Len(ws) + 1
    BY DEF Putting, Job
<1>2. k \in Job
  <2>1. Len(ws) + 1 \in Nat
      OBVIOUS
  <2>2. PICK n : n = Len(ws) + 1
      OBVIOUS
  <2>3. k = [j EXCEPT !.at = at, !.task = task, !.ahead = n]
      BY <2>2 DEF Putting
  <2>4. QED
      BY <2>1, <2>2, <2>3 DEF Job
<1>3. QED
    BY <1>1, <1>2


\* A call that waits for nothing leaves the chain as it is, and one that goes on to a write joins it.
LEMMA PersistKeeps ==
    ASSUME UploadsInv, NEW j \in jobs, j.at \notin Puts, j.id \in Files, j.kind # "load",
           NEW at \in Puts, NEW task \in Task, Persist(j, at, task),
           Good(received, j.id, task), at = "settle" => j.kind = "send"
    PROVE  /\ JobsGood(jobs', disk, received, dismissed) /\ WritesGood(writes', received)
           /\ Chained(jobs', writes') /\ Sending(active, jobs')
<1> DEFINE k == Putting(j, at, task, writes)
           rest == jobs \ {j}
<1>1. /\ JobsGood(jobs, disk, received, dismissed) /\ WritesGood(writes, received)
      /\ Chained(jobs, writes) /\ Sending(active, jobs)
    BY DEF UploadsInv, PageGood
<1>2. JobGood(j, disk, received, dismissed) /\ j \in Job /\ Len(writes) \in Nat
    BY <1>1 DEF JobsGood, JobGood, WritesGood
<1>3. k \in Job /\ k.kind = j.kind /\ k.id = j.id /\ k.at = at /\ k.task = task /\ k.ahead = Len(writes) + 1
    BY <1>2, PuttingIs
<1>4. jobs' = rest \cup {k} /\ writes' = Append(writes, [id |-> k.id, task |-> task])
    BY <1>3 DEF Persist
<1>5. Chained(rest, writes)
    BY <1>1 DEF Chained
<1> HIDE DEF k
<1>6. WritesGood(writes', received) /\ Chained(jobs', writes')
    BY <1>1, <1>3, <1>4, <1>5, PutJoins
<1>7. JobGood(k, disk, received, dismissed)
    BY <1>2, <1>3, NoTaskAssumption DEF JobGood
<1>8. JobsGood(jobs', disk, received, dismissed)
    BY <1>1, <1>4, <1>7 DEF JobsGood
<1>9. Sending(active, jobs')
  <2>1. ASSUME NEW i \in Sends(jobs') PROVE \E h \in Sends(jobs) : h.id = i.id /\ (i = k => h = j) /\ (i # k => h = i /\ h # j)
    <3>1. CASE i = k
        BY <1>3, <3>1 DEF Sends
    <3>2. CASE i # k
        BY <1>4, <3>2 DEF Sends
    <3>3. QED
        BY <3>1, <3>2
  <2>2. ASSUME NEW h \in Sends(jobs) PROVE \E i \in Sends(jobs') : h.id = i.id
    <3>1. CASE h = j
        BY <1>3, <1>4, <3>1 DEF Sends
    <3>2. CASE h # j
        BY <1>4, <3>2 DEF Sends
    <3>3. QED
        BY <3>1, <3>2
  <2>3. \A i, h \in Sends(jobs') : i.id = h.id => i = h
      BY <1>1, <2>1 DEF Sending
  <2>4. \A f \in Files : f \in active <=> \E i \in Sends(jobs') : i.id = f
      BY <1>1, <2>1, <2>2 DEF Sending
  <2>5. QED
      BY <1>1, <2>3, <2>4 DEF Sending
<1>10. QED
    BY <1>6, <1>8, <1>9

\* A call that ends or begins, and waits for no write.
LEMMA JobsChange ==
    ASSUME NEW js, NEW ws, NEW a, NEW d, NEW r, NEW g, WritesGood(ws, r), Chained(js, ws), Sending(a, js), JobsGood(js, d, r, g),
           NEW gone, \A j \in gone : j.at \notin Puts /\ j.kind # "send",
           NEW come, \A j \in come : JobGood(j, d, r, g) /\ j.at \notin Puts /\ j.kind # "send" /\ j.ahead \in 0..Len(ws)
    PROVE  LET js2 == (js \ gone) \cup come
           IN Chained(js2, ws) /\ Sending(a, js2) /\ JobsGood(js2, d, r, g)
<1> DEFINE js2 == (js \ gone) \cup come
<1>1. Chained(js2, ws)
    BY DEF Chained
<1>2. Sends(js2) = Sends(js)
    BY DEF Sends
<1> HIDE DEF js2
<1>3. Sending(a, js2)
    BY <1>2 DEF Sending
<1>4. JobsGood(js2, d, r, g)
    BY DEF JobsGood, js2
<1>5. QED
    BY <1>1, <1>3, <1>4 DEF js2


-----------------------------------------------------------------------------
(* Uploads: the write at the head of the chain *)

\* Job k has moved one write nearer.
Moved(k, j) ==
    /\ k.kind = j.kind /\ k.id = j.id /\ k.at = j.at /\ k.task = j.task
    /\ k.ahead = IF j.ahead = 0 THEN 0 ELSE j.ahead - 1

LEMMA NearerIs ==
    ASSUME \A j \in jobs : j \in Job
    PROVE  /\ \A k \in Nearer : \E j \in jobs \ {Writer} : Moved(k, j)
           /\ \A j \in jobs \ {Writer} : \E k \in Nearer : Moved(k, j)
           /\ \A k \in Nearer : k \in Job
<1> DEFINE to(j) == [j EXCEPT !.ahead = IF @ = 0 THEN 0 ELSE @ - 1]
<1>1. Nearer = {to(j) : j \in jobs \ {Writer}}
    BY DEF Nearer
<1>2. ASSUME NEW j \in jobs PROVE Moved(to(j), j) /\ to(j) \in Job
  <2>1. j \in Job /\ j.ahead \in Nat
      BY DEF Job
  <2>2. PICK n : n = IF j.ahead = 0 THEN 0 ELSE j.ahead - 1
      OBVIOUS
  <2>3. n \in Nat /\ to(j) = [j EXCEPT !.ahead = n]
      BY <2>1, <2>2
  <2> HIDE DEF to
  <2>4. to(j) \in Job
      BY <2>1, <2>3 DEF Job
  <2>5. Moved(to(j), j)
      BY <2>1, <2>2, <2>3 DEF Moved, Job
  <2>6. QED
      BY <2>4, <2>5
<1> HIDE DEF to
<1>3. QED
    BY <1>1, <1>2

LEMMA NearerMoves ==
    ASSUME \A j \in jobs : j \in Job, NEW k \in Nearer
    PROVE  \E j \in jobs \ {Writer} : k = [j EXCEPT !.ahead = IF @ = 0 THEN 0 ELSE @ - 1] /\ Moved(k, j)
<1>1. PICK j \in jobs \ {Writer} : k = [j EXCEPT !.ahead = IF @ = 0 THEN 0 ELSE @ - 1]
    BY DEF Nearer
<1>2. j \in Job
    OBVIOUS
<1>3. Moved(k, j)
    BY <1>1, <1>2 DEF Moved, Job
<1>4. QED
    BY <1>1, <1>3

\* Of the chain of writes, once the write at its head is over.
LEMMA HeadLeaves ==
    ASSUME UploadsInv, writes # <<>>
    PROVE  /\ Writer \in jobs /\ Writer.at \in Puts /\ Writer.id \in Files /\ Head(writes).id = Writer.id
           /\ Head(writes).task \in Task /\ Good(received, Writer.id, Head(writes).task)
           /\ WritesGood(Tail(writes), received) /\ Chained(Nearer, Tail(writes))
           /\ JobsGood(Nearer, disk, received, dismissed) /\ Sending(Freed(Writer), Nearer)
<1> DEFINE W == Writer
           rest == Tail(writes)
<1>1. /\ JobsGood(jobs, disk, received, dismissed) /\ WritesGood(writes, received)
      /\ Chained(jobs, writes) /\ Sending(active, jobs)
    BY DEF UploadsInv, PageGood
<1>2. writes \in Seq([id : Files, task : Task]) /\ Len(writes) \in Nat /\ Len(writes) >= 1
    BY <1>1 DEF WritesGood
<1>a. Head(writes) \in [id : Files, task : Task]
    BY <1>2, HeadTailProperties
<1>3. Head(writes) = writes[1] /\ Head(writes).id \in Files /\ Head(writes).task \in Task
    BY <1>2, <1>a
<1>4. /\ rest \in Seq([id : Files, task : Task]) /\ Len(rest) = Len(writes) - 1
      /\ \A p \in 1..Len(rest) : rest[p] = writes[p + 1]
    BY <1>2
<1>5. \E j \in jobs : j.at \in Puts /\ j.ahead = 1
    BY <1>1, <1>2 DEF Chained
<1>6. W \in jobs /\ W.at \in Puts /\ W.ahead = 1
    BY <1>5 DEF Writer
<1>7. Head(writes).id = W.id /\ W.id \in Files /\ Good(received, W.id, Head(writes).task)
    BY <1>1, <1>2, <1>3, <1>6 DEF Chained, WritesGood
<1>8. \A j \in jobs : j \in Job
    BY <1>1 DEF JobsGood, JobGood
<1>9. /\ \A k \in Nearer : \E j \in jobs \ {W} : Moved(k, j)
      /\ \A j \in jobs \ {W} : \E k \in Nearer : Moved(k, j)
      /\ \A k \in Nearer : k \in Job
    BY <1>8, NearerIs
<1> HIDE DEF W, rest
<1>10. WritesGood(rest, received)
  <2>1. \A p \in 1..Len(rest) : p + 1 \in 1..Len(writes)
      BY <1>2, <1>4
  <2>2. QED
      BY <1>1, <1>4, <2>1 DEF WritesGood
<1>11. Chained(Nearer, rest)
  <2>1. ASSUME NEW j \in jobs \ {W} PROVE j.ahead \in 0..Len(writes) /\ (j.at \in Puts => j.ahead >= 2 /\ writes[j.ahead].id = j.id)
    <3>1. j.ahead \in 0..Len(writes) /\ (j.at \in Puts => j.ahead >= 1 /\ writes[j.ahead].id = j.id)
        BY <1>1 DEF Chained
    <3>2. j.at \in Puts => j.ahead # 1
        BY <1>1, <1>6 DEF Chained
    <3>3. QED
        BY <3>1, <3>2
  <2>2. ASSUME NEW k \in Nearer
        PROVE  k.ahead \in 0..Len(rest) /\ (k.at \in Puts => k.ahead >= 1 /\ rest[k.ahead].id = k.id)
    <3>1. PICK j \in jobs \ {W} : Moved(k, j)
        BY <1>9
    <3>2. j.ahead \in 0..Len(writes) /\ (j.at \in Puts => j.ahead >= 2 /\ writes[j.ahead].id = j.id)
        BY <2>1
    <3>3. k.ahead \in 0..Len(rest) /\ (k.at \in Puts => k.ahead = j.ahead - 1 /\ k.ahead \in 1..Len(rest))
        BY <1>2, <1>4, <3>1, <3>2 DEF Moved
    <3>4. k.at \in Puts => rest[k.ahead].id = k.id
        BY <1>4, <3>1, <3>2, <3>3 DEF Moved
    <3>5. QED
        BY <3>3, <3>4
  <2>3. ASSUME NEW p \in 1..Len(rest) PROVE \E k \in Nearer : k.at \in Puts /\ k.ahead = p
    <3>1. p + 1 \in 1..Len(writes) /\ p + 1 # 1
        BY <1>2, <1>4
    <3>2. PICK j \in jobs : j.at \in Puts /\ j.ahead = p + 1
        BY <1>1, <3>1 DEF Chained
    <3>3. j # W
        BY <1>6, <3>1, <3>2
    <3>4. PICK k \in Nearer : Moved(k, j)
        BY <1>9, <3>3
    <3>5. QED
        BY <3>1, <3>2, <3>4 DEF Moved
  <2>4. ASSUME NEW k \in Nearer, NEW l \in Nearer, k.at \in Puts, l.at \in Puts, k.ahead = l.ahead PROVE k = l
    <3>1. PICK j \in jobs \ {W} : k = [j EXCEPT !.ahead = IF @ = 0 THEN 0 ELSE @ - 1] /\ Moved(k, j)
        BY <1>8, NearerMoves DEF W
    <3>2. PICK i \in jobs \ {W} : l = [i EXCEPT !.ahead = IF @ = 0 THEN 0 ELSE @ - 1] /\ Moved(l, i)
        BY <1>8, NearerMoves DEF W
    <3>3. j.ahead \in Nat /\ j.ahead >= 2 /\ i.ahead \in Nat /\ i.ahead >= 2
      <4>1. k.at = j.at /\ l.at = i.at
          BY <3>1, <3>2 DEF Moved
      <4>2. j.at \in Puts /\ i.at \in Puts
          BY <2>4, <4>1
      <4>3. j.ahead \in Nat /\ j.ahead >= 2
          BY <2>1, <3>1, <4>2, <1>2
      <4>4. i.ahead \in Nat /\ i.ahead >= 2
          BY <2>1, <3>2, <4>2, <1>2
      <4>5. QED
          BY <4>3, <4>4
    <3>4. j.ahead = i.ahead /\ j.at \in Puts /\ i.at \in Puts
        BY <2>4, <3>1, <3>2, <3>3 DEF Moved
    <3>5. j = i
        BY <1>1, <3>4 DEF Chained
    <3>6. QED
        BY <3>1, <3>2, <3>5
  <2>5. QED
      BY <2>2, <2>3, <2>4 DEF Chained
<1>12. JobsGood(Nearer, disk, received, dismissed)
  <2>1. ASSUME NEW k \in Nearer PROVE JobGood(k, disk, received, dismissed)
    <3>1. PICK j \in jobs : Moved(k, j)
        BY <1>9
    <3>2. JobGood(j, disk, received, dismissed) /\ k \in Job
        BY <1>1, <1>9 DEF JobsGood
    <3>3. QED
        BY <3>1, <3>2 DEF JobGood, Moved
  <2>2. QED
      BY <2>1 DEF JobsGood
<1>13. Sending(Freed(W), Nearer)
  <2>1. Freed(W) \subseteq active /\ Cardinality(Freed(W)) <= MaxUploads
    <3>1. active \subseteq Files /\ Cardinality(active) <= MaxUploads
        BY <1>1 DEF Sending
    <3>2. IsFiniteSet(active) /\ Freed(W) \subseteq active
        BY <3>1, FS_Subset DEF Freed
    <3>3. Cardinality(Freed(W)) <= Cardinality(active) /\ Cardinality(Freed(W)) \in Nat /\ Cardinality(active) \in Nat
        BY <3>2, FS_Subset, FS_CardinalityType
    <3>4. QED
        BY <3>1, <3>2, <3>3
  <2>2. ASSUME NEW f \in Files PROVE f \in Freed(W) <=> \E k \in Sends(Nearer) : k.id = f
    <3>1. ASSUME f \in Freed(W) PROVE \E k \in Sends(Nearer) : k.id = f
      <4>1. PICK j \in Sends(jobs) : j.id = f
          BY <1>1, <2>1, <3>1 DEF Sending
      <4>2. j # W /\ j \in jobs /\ j.kind = "send"
          BY <3>1, <4>1 DEF Freed, Sends
      <4>3. PICK k \in Nearer : Moved(k, j)
          BY <1>9, <4>2
      <4>4. QED
          BY <4>1, <4>2, <4>3 DEF Moved, Sends
    <3>2. ASSUME NEW k \in Sends(Nearer), k.id = f PROVE f \in Freed(W)
      <4>1. PICK j \in jobs \ {W} : Moved(k, j)
          BY <1>9 DEF Sends
      <4>2. j \in Sends(jobs) /\ j.id = f
          BY <3>2, <4>1 DEF Sends, Moved
      <4>3. f \in active
          BY <1>1, <4>2 DEF Sending
      <4>4. W.kind = "send" => W \in Sends(jobs)
          BY <1>6 DEF Sends
      <4>5. W.kind = "send" => W.id # f
          BY <1>1, <4>1, <4>2, <4>4 DEF Sending
      <4>6. QED
          BY <4>3, <4>5 DEF Freed
    <3>3. QED
        BY <3>1, <3>2
  <2>3. ASSUME NEW k \in Sends(Nearer), NEW l \in Sends(Nearer), k.id = l.id PROVE k = l
    <3>1. PICK j \in jobs \ {W} : k = [j EXCEPT !.ahead = IF @ = 0 THEN 0 ELSE @ - 1] /\ Moved(k, j)
        BY <1>8, NearerMoves DEF W, Sends
    <3>2. PICK i \in jobs \ {W} : l = [i EXCEPT !.ahead = IF @ = 0 THEN 0 ELSE @ - 1] /\ Moved(l, i)
        BY <1>8, NearerMoves DEF W, Sends
    <3>3. j \in Sends(jobs) /\ i \in Sends(jobs) /\ j.id = i.id
        BY <2>3, <3>1, <3>2 DEF Moved, Sends
    <3>4. j = i
        BY <1>1, <3>3 DEF Sending
    <3>5. QED
        BY <3>1, <3>2, <3>4
  <2>4. QED
      BY <1>1, <2>1, <2>2, <2>3 DEF Sending
<1>14. QED
    BY <1>3, <1>6, <1>7, <1>10, <1>11, <1>12, <1>13 DEF W, rest


LEMMA WriteKeeps == ASSUME UploadsInv, NEW ok \in BOOLEAN, Write(ok) PROVE UploadsInv'
<1> DEFINE j == Writer
           w == Head(writes)
           rest == Tail(writes)
           m == [mem EXCEPT ![j.id] = Shown(j, ok)]
           original == [j.task EXCEPT !.blob = TRUE]
           unsent == j.at = "complete" /\ ~ok /\ j.kind = "send"
           unheard == j.at = "complete" /\ ~ok /\ j.kind = "retry" /\ here
<1>1. /\ here \in BOOLEAN /\ given \subseteq Files /\ leaves \in 0..MaxLeaves
      /\ DiskGood(disk, received) /\ ServerGood(disk, received, dismissed)
      /\ PageGood(mem, active, jobs, writes, disk, received, dismissed)
    BY DEF UploadsInv
<1>2. /\ j \in jobs /\ j.at \in Puts /\ j.id \in Files /\ w.id = j.id
      /\ w.task \in Task /\ Good(received, j.id, w.task)
      /\ WritesGood(rest, received) /\ Chained(Nearer, rest)
      /\ JobsGood(Nearer, disk, received, dismissed) /\ Sending(Freed(j), Nearer)
    BY HeadLeaves DEF Write
<1>3. /\ UNCHANGED <<here, given, received, dismissed, leaves>>
      /\ disk' = IF ok THEN [disk EXCEPT ![w.id] = w.task] ELSE disk
      /\ writes' = IF unsent THEN Append(rest, [id |-> j.id, task |-> Settled(original, FALSE)])
                   ELSE IF unheard THEN Append(rest, [id |-> j.id, task |-> As(original, "queued")])
                   ELSE rest
      /\ IF unsent
         THEN mem' = m /\ active' = active /\ jobs' = Nearer \cup {Putting(j, "settle", Settled(original, FALSE), rest)}
         ELSE IF unheard
         THEN mem' = m /\ active' = active /\ jobs' = Nearer \cup {Putting(j, "requeue", As(original, "queued"), rest)}
         ELSE IF j.kind \in {"save", "send"} \/ (j.at = "requeue" /\ ok)
         THEN Pumped(m, Freed(j), Nearer)
         ELSE mem' = m /\ active' = active /\ jobs' = Nearer
    BY DEF Write
<1>4. JobGood(j, disk, received, dismissed) /\ j \in Job /\ j.task \in Task /\ Good(received, j.id, j.task)
    BY <1>1, <1>2 DEF PageGood, JobsGood, JobGood, Good
<1>a. original \in Task /\ original.blob
    BY <1>4 DEF Task
<1>5. original \in Task /\ original.blob /\ Len(rest) \in Nat
    BY <1>2, <1>a DEF WritesGood
<1> HIDE DEF j, w, rest, original
<1>6. DiskGood(disk', received) /\ (\A f \in Files : Safe(disk, received, dismissed, f) => Safe(disk', received, dismissed, f))
  <2>1. disk \in [Files -> Task \cup {None}] /\ \A f \in Files : disk[f] # None => Good(received, f, disk[f])
      BY <1>1 DEF DiskGood
  <2>2. CASE ok
    <3>1. disk' = [disk EXCEPT ![j.id] = w.task]
        BY <1>2, <1>3, <2>2
    <3>2. disk' \in [Files -> Task \cup {None}]
        BY <1>2, <2>1, <3>1
    <3>3. \A f \in Files : disk'[f] = IF f = j.id THEN w.task ELSE disk[f]
        BY <2>1, <3>1
    <3>4. DiskGood(disk', received)
        BY <1>2, <2>1, <3>2, <3>3 DEF DiskGood
    <3>5. \A f \in Files : disk[f] # None => disk'[f] # None
        BY <1>2, <3>3, NoTaskAssumption
    <3>6. QED
        BY <3>4, <3>5 DEF Safe
  <2>3. CASE ~ok
      BY <1>1, <1>3, <2>3
  <2>4. QED
      BY <2>2, <2>3
<1>7. ok => Safe(disk', received, dismissed, j.id)
  <2>1. SUFFICES ASSUME ok PROVE disk'[j.id] # None
      BY DEF Safe
  <2>2. disk' = [disk EXCEPT ![j.id] = w.task] /\ disk \in [Files -> Task \cup {None}]
      BY <1>1, <1>2, <1>3, <2>1 DEF DiskGood
  <2>3. QED
      BY <1>2, <2>2, NoTaskAssumption
<1>8. PageGood(mem, active, jobs, writes, disk', received, dismissed)
    BY <1>1, <1>6, Carries
<1>9. /\ MemGood(mem, disk', received, dismissed)
      /\ JobGood(j, disk', received, dismissed)
    BY <1>2, <1>8 DEF PageGood, JobsGood
<1>10. TaskShown(disk', received, dismissed, j.id, Shown(j, ok)) /\ Shown(j, ok) \in Task \cup {None}
  <2>1. CASE j.at = "save"
    <3>1. PICK status \in {"queued", "failed"} : Shown(j, ok) = As(j.task, status) /\ (status = "queued" => ok)
        BY <2>1 DEF Shown
    <3>2. Shown(j, ok) \in Task /\ Shown(j, ok).status = status /\ Shown(j, ok).blob = j.task.blob
        BY <1>4, <3>1, TaskTypes DEF Statuses
    <3>3. QED
        BY <1>4, <1>7, <3>1, <3>2 DEF TaskShown, Good
  <2>2. CASE j.at = "settle"
    <3>1. Shown(j, ok) = j.task /\ Safe(disk', received, dismissed, j.id)
        BY <1>9, <2>2 DEF Shown, JobGood
    <3>2. QED
        BY <1>4, <3>1 DEF TaskShown
  <2>3. CASE j.at \in {"complete", "requeue"} /\ ok
      BY <1>4, <1>7, <2>3 DEF TaskShown, Shown
  <2>4. CASE ~(j.at = "save" \/ j.at = "settle" \/ (j.at \in {"complete", "requeue"} /\ ok))
    <3>1. Shown(j, ok) = mem[j.id]
        BY <2>4 DEF Shown
    <3>2. QED
        BY <1>2, <1>9, <3>1 DEF MemGood
  <2>5. QED
      BY <2>1, <2>2, <2>3, <2>4
<1>11. MemGood(m, disk', received, dismissed)
  <2>1. \A f \in Files : m[f] = IF f = j.id THEN Shown(j, ok) ELSE mem[f]
      BY <1>9 DEF MemGood
  <2>2. m \in [Files -> Task \cup {None}]
      BY <1>9, <1>10 DEF MemGood
  <2>3. QED
      BY <1>9, <1>10, <2>1, <2>2 DEF MemGood
<1> HIDE DEF m
<1>12. JobsGood(Nearer, disk', received, dismissed)
  <2>1. ASSUME NEW k \in Nearer PROVE JobGood(k, disk', received, dismissed)
    <3>1. JobGood(k, disk, received, dismissed)
        BY <1>2 DEF JobsGood
    <3>2. k.kind = "send" => k.id \in Files
        BY <3>1 DEF JobGood
    <3>3. QED
        BY <1>6, <3>1, <3>2 DEF JobGood
  <2>2. QED
      BY <2>1 DEF JobsGood
<1>13. PageGood(m, Freed(j), Nearer, rest, disk', received, dismissed)
    BY <1>2, <1>11, <1>12 DEF PageGood
<1>14. ASSUME unsent \/ unheard
       PROVE  PageGood(mem', active', jobs', writes', disk', received, dismissed)
  <2>1. PICK at \in {"settle", "requeue"}, task \in Task :
          /\ task.blob /\ task.status # "ready" /\ (at = "settle" => j.kind = "send")
          /\ writes' = Append(rest, [id |-> j.id, task |-> task])
          /\ jobs' = Nearer \cup {Putting(j, at, task, rest)}
    <3>1. \A status \in Statuses : As(original, status) \in Task /\ As(original, status).status = status /\ As(original, status).blob
        BY <1>5, TaskTypes
    <3>2. Settled(original, FALSE) = As(original, "uncertain")
        BY DEF Settled
    <3>3. CASE unsent
        BY <1>3, <3>1, <3>2, <3>3 DEF Statuses
    <3>4. CASE unheard /\ ~unsent
        BY <1>3, <3>1, <3>4 DEF Statuses
    <3>5. QED
        BY <1>14, <3>3, <3>4
  <2>2. mem' = m /\ active' = active
      BY <1>3, <1>14
  <2>3. PICK k : k = Putting(j, at, task, rest)
      OBVIOUS
  <2>4. k \in Job /\ k.kind = j.kind /\ k.id = j.id /\ k.at = at /\ k.task = task /\ k.ahead = Len(rest) + 1
    <3>1. at \in Puts
        BY <2>1 DEF Puts
    <3>2. QED
        BY <1>4, <1>5, <2>3, <3>1, PuttingIs
  <2>5. Good(received, k.id, task)
      BY <2>1, <2>4 DEF Good
  <2>6. WritesGood(writes', received) /\ Chained(jobs', writes')
    <3>1. at \in Puts
        BY <2>1 DEF Puts
    <3>2. WritesGood(Append(rest, [id |-> k.id, task |-> task]), received) /\ Chained(Nearer \cup {k}, Append(rest, [id |-> k.id, task |-> task]))
        BY <1>2, <2>4, <2>5, <3>1, PutJoins
    <3>3. QED
        BY <2>1, <2>3, <2>4, <3>2
  <2>7. JobGood(k, disk', received, dismissed)
      BY <1>2, <1>9, <2>1, <2>4, <2>5, NoTaskAssumption DEF JobGood
  <2>8. JobsGood(jobs', disk', received, dismissed)
      BY <1>12, <2>1, <2>3, <2>7 DEF JobsGood
  <2>9. Sending(active, jobs')
    <3>0. jobs' = Nearer \cup {k}
        BY <2>1, <2>3
    <3>1. Sending(active, jobs)
        BY <1>8 DEF PageGood
    <3>2. CASE j.kind # "send"
      <4>1. Freed(j) = active /\ Sends(jobs') = Sends(Nearer)
          BY <2>4, <3>0, <3>2 DEF Freed, Sends
      <4>2. QED
          BY <1>2, <4>1 DEF Sending
    <3>3. CASE j.kind = "send"
      <4>1. Freed(j) = active \ {j.id} /\ Sends(jobs') = Sends(Nearer) \cup {k}
          BY <2>4, <3>0, <3>3 DEF Freed, Sends
      <4>2. j \in Sends(jobs) /\ j.id \in active
          BY <1>2, <3>1, <3>3 DEF Sending, Sends
      <4>3. \A i \in Sends(Nearer) : i.id # j.id
          BY <1>2, <4>1 DEF Sending
      <4>4. QED
          BY <1>2, <2>4, <3>1, <4>1, <4>2, <4>3 DEF Sending
    <3>4. QED
        BY <3>2, <3>3
  <2>10. QED
      BY <1>11, <2>2, <2>6, <2>8, <2>9 DEF PageGood
<1>15. ASSUME ~unsent, ~unheard
       PROVE  PageGood(mem', active', jobs', writes', disk', received, dismissed)
  <2>1. writes' = rest
      BY <1>3, <1>15
  <2>2. CASE j.kind \in {"save", "send"} \/ (j.at = "requeue" /\ ok)
    <3>1. Pumped(m, Freed(j), Nearer)
        BY <1>3, <1>15, <2>2
    <3>2. QED
        BY <1>13, <2>1, <3>1, PumpKeeps
  <2>3. CASE ~(j.kind \in {"save", "send"} \/ (j.at = "requeue" /\ ok))
    <3>1. mem' = m /\ active' = active /\ jobs' = Nearer
        BY <1>3, <1>15, <2>3
    <3>2. Freed(j) = active
        BY <2>3 DEF Freed
    <3>3. QED
        BY <1>13, <2>1, <3>1, <3>2
  <2>4. QED
      BY <2>2, <2>3
<1>16. PageGood(mem', active', jobs', writes', disk', received, dismissed)
    BY <1>14, <1>15
<1>17. ServerGood(disk', received, dismissed)
    BY <1>1, <1>6 DEF ServerGood
<1>18. QED
    BY <1>1, <1>3, <1>6, <1>16, <1>17 DEF UploadsInv


-----------------------------------------------------------------------------
(* Uploads: the other steps *)

Bounded == here \in BOOLEAN /\ given \subseteq Files /\ leaves \in 0..MaxLeaves

LEMMA PageMoves ==
    ASSUME PageGood(mem, active, jobs, writes, disk', received', dismissed'),
           NEW gone, \A j \in gone : j.at \notin Puts /\ j.kind # "send",
           NEW come, \A j \in come : JobGood(j, disk', received', dismissed') /\ j.at \notin Puts /\ j.kind # "send"
                                     /\ j.ahead \in 0..Len(writes),
           MemGood(mem', disk', received', dismissed'),
           jobs' = (jobs \ gone) \cup come, UNCHANGED <<active, writes>>
    PROVE  PageGood(mem', active', jobs', writes', disk', received', dismissed')
<1>1. /\ JobsGood(jobs, disk', received', dismissed') /\ WritesGood(writes, received')
      /\ Chained(jobs, writes) /\ Sending(active, jobs)
    BY DEF PageGood
<1>2. Chained(jobs', writes) /\ Sending(active, jobs') /\ JobsGood(jobs', disk', received', dismissed')
    BY <1>1, JobsChange
<1>3. active' = active /\ writes' = writes
    OBVIOUS
<1>4. QED
    BY <1>1, <1>2, <1>3 DEF PageGood

LEMMA EnqueueKeeps == ASSUME UploadsInv, NEW f \in Files, NEW supported \in BOOLEAN, Enqueue(f, supported) PROVE UploadsInv'
<1>1. /\ Bounded /\ DiskGood(disk, received) /\ ServerGood(disk, received, dismissed)
      /\ PageGood(mem, active, jobs, writes, disk, received, dismissed)
    BY DEF UploadsInv, Bounded
<1>2. /\ MemGood(mem, disk, received, dismissed) /\ JobsGood(jobs, disk, received, dismissed)
      /\ WritesGood(writes, received) /\ Chained(jobs, writes) /\ Sending(active, jobs)
    BY <1>1 DEF PageGood
<1>3. UNCHANGED <<here, disk, active, received, dismissed, leaves>> /\ given' \subseteq Files
    BY <1>1 DEF Enqueue, Bounded
<1>k. PICK ok : ok = (supported /\ Cardinality(Held) < MaxBytes)
    OBVIOUS
<1>b. ok \in BOOLEAN
    BY <1>k
<1>t. PICK task : task = [status |-> IF ok THEN "saving" ELSE "rejected", blob |-> ok, delivered |-> FALSE]
    OBVIOUS
<1>4. /\ mem' = [mem EXCEPT ![f] = task]
      /\ IF ok
         THEN /\ jobs' = jobs \cup {Putting(NewJob("save", f, "save", task), "save", task, writes)}
              /\ writes' = Append(writes, [id |-> f, task |-> As(task, "queued")])
         ELSE UNCHANGED <<jobs, writes>>
    BY <1>k, <1>t DEF Enqueue
<1>5. task \in Task /\ task.status = (IF ok THEN "saving" ELSE "rejected") /\ task.blob = ok
    BY <1>b, <1>t DEF Task, Statuses
<1>6. MemGood(mem', disk, received, dismissed)
  <2>1. TaskShown(disk, received, dismissed, f, task)
      BY <1>5 DEF TaskShown, Good
  <2>2. mem \in [Files -> Task \cup {None}] /\ \A h \in Files : TaskShown(disk, received, dismissed, h, mem[h])
      BY <1>2 DEF MemGood
  <2>3. mem' \in [Files -> Task \cup {None}] /\ \A h \in Files : mem'[h] = IF h = f THEN task ELSE mem[h]
      BY <1>4, <1>5, <2>2
  <2>4. QED
      BY <2>1, <2>2, <2>3 DEF MemGood
<1>7. CASE ok
  <2>1. NewJob("save", f, "save", task) \in Job /\ NewJob("save", f, "save", task).kind = "save" /\ NewJob("save", f, "save", task).id = f
      BY <1>5 DEF NewJob, Job, Puts
  <2>2. PICK k : k = Putting(NewJob("save", f, "save", task), "save", task, writes)
      OBVIOUS
  <2>3. k \in Job /\ k.kind = "save" /\ k.id = f /\ k.at = "save" /\ k.task = task /\ k.ahead = Len(writes) + 1
    <3>1. Len(writes) \in Nat /\ "save" \in Puts
        BY <1>2 DEF WritesGood, Puts
    <3>2. QED
        BY <1>5, <2>1, <2>2, <3>1, PuttingIs
  <2>4. As(task, "queued") \in Task /\ Good(received, f, As(task, "queued")) /\ Good(received, f, task)
    <3>1. As(task, "queued") \in Task /\ As(task, "queued").status = "queued" /\ As(task, "queued").blob = task.blob
        BY <1>5, TaskTypes DEF Statuses
    <3>2. QED
        BY <1>5, <1>7, <3>1 DEF Good
  <2>5. WritesGood(writes', received) /\ Chained(jobs', writes')
    <3>1. "save" \in Puts
        BY DEF Puts
    <3>2. PICK held : held = As(task, "queued")
        OBVIOUS
    <3>3. jobs' = jobs \cup {k} /\ writes' = Append(writes, [id |-> k.id, task |-> held])
        BY <1>4, <1>7, <2>2, <2>3, <3>2
    <3>4. held \in Task /\ Good(received, k.id, held)
        BY <2>3, <2>4, <3>2
    <3>5. QED
        BY <1>2, <2>3, <3>1, <3>3, <3>4, PutJoins
  <2>6. jobs' = jobs \cup {k}
      BY <1>4, <1>7, <2>2
  <2>7. JobGood(k, disk, received, dismissed)
      BY <1>5, <2>3, <2>4, NoTaskAssumption DEF JobGood
  <2>8. JobsGood(jobs', disk, received, dismissed)
      BY <1>2, <2>6, <2>7 DEF JobsGood
  <2>9. Sends(jobs') = Sends(jobs)
      BY <2>3, <2>6 DEF Sends
  <2>10. Sending(active, jobs')
      BY <1>2, <2>9 DEF Sending
  <2>11. PageGood(mem', active, jobs', writes', disk, received, dismissed)
      BY <1>6, <2>5, <2>8, <2>10 DEF PageGood
  <2>12. QED
      BY <1>1, <1>3, <2>11 DEF UploadsInv, Bounded
<1>8. CASE ~ok
  <2>1. jobs' = jobs /\ writes' = writes
      BY <1>4, <1>8
  <2>2. PageGood(mem', active, jobs', writes', disk, received, dismissed)
      BY <1>2, <1>6, <2>1 DEF PageGood
  <2>3. QED
      BY <1>1, <1>3, <2>2 DEF UploadsInv, Bounded
<1>9. QED
    BY <1>7, <1>8

\* The server has more of a file that is safe.
LEMMA ServerMoves ==
    ASSUME UploadsInv, NEW f \in Files, Safe(disk, received, dismissed, f), NEW has \in {"sent", "ready"},
           received[f] # "ready", received' = [received EXCEPT ![f] = has],
           UNCHANGED <<here, given, mem, disk, active, jobs, writes, dismissed, leaves>>
    PROVE  UploadsInv'
<1>1. /\ Bounded /\ DiskGood(disk, received) /\ ServerGood(disk, received, dismissed)
      /\ PageGood(mem, active, jobs, writes, disk, received, dismissed)
    BY DEF UploadsInv, Bounded
<1>2. received \in [Files -> {"none", "sent", "ready"}]
    BY <1>1 DEF ServerGood
<1>3. received' \in [Files -> {"none", "sent", "ready"}] /\ \A h \in Files : received'[h] = IF h = f THEN has ELSE received[h]
    BY <1>2
<1>4. \A h \in Files : received[h] = "ready" => received'[h] = "ready"
    BY <1>3
<1>5. \A h \in Files : Safe(disk, received, dismissed, h) => Safe(disk, received', dismissed, h)
    BY <1>4 DEF Safe
<1>6. PageGood(mem, active, jobs, writes, disk, received', dismissed)
    BY <1>1, <1>4, <1>5, Carries
<1>7. DiskGood(disk, received')
    BY <1>1, <1>4 DEF DiskGood, Good
<1>8. ServerGood(disk, received', dismissed)
    BY <1>1, <1>3, <1>5 DEF ServerGood
<1>9. QED
    BY <1>1, <1>6, <1>7, <1>8 DEF UploadsInv, Bounded

LEMMA SentKeeps == ASSUME UploadsInv, NEW j \in jobs, Sent(j) PROVE UploadsInv'
<1>1. JobGood(j, disk, received, dismissed)
    BY DEF UploadsInv, PageGood, JobsGood
<1>2. j.id \in Files /\ Safe(disk, received, dismissed, j.id)
    BY <1>1 DEF JobGood, Sent
<1>3. QED
    BY <1>2, ServerMoves DEF Sent

LEMMA LandsKeeps == ASSUME UploadsInv, NEW f \in Files, Lands(f) PROVE UploadsInv'
<1>1. Safe(disk, received, dismissed, f)
    BY DEF UploadsInv, ServerGood, Lands
<1>2. QED
    BY <1>1, ServerMoves DEF Lands

\* A call goes on to a write, and nothing else changes.
LEMMA PersistStep ==
    ASSUME UploadsInv, NEW j \in jobs, j.at \notin Puts, j.id \in Files, j.kind # "load",
           NEW at \in Puts, NEW task \in Task, Persist(j, at, task),
           Good(received, j.id, task), at = "settle" => j.kind = "send",
           UNCHANGED <<here, given, mem, disk, active, received, dismissed, leaves>>
    PROVE  UploadsInv'
<1>1. /\ JobsGood(jobs', disk, received, dismissed) /\ WritesGood(writes', received)
      /\ Chained(jobs', writes') /\ Sending(active, jobs')
    BY PersistKeeps
<1>2. PageGood(mem, active, jobs', writes', disk, received, dismissed)
    BY <1>1 DEF UploadsInv, PageGood
<1>3. QED
    BY <1>2 DEF UploadsInv

LEMMA JobOf ==
    ASSUME UploadsInv, NEW j \in jobs
    PROVE  JobGood(j, disk, received, dismissed) /\ j \in Job /\ j.ahead \in 0..Len(writes)
BY DEF UploadsInv, PageGood, JobsGood, JobGood, Chained

LEMMA ReadyIs ==
    ASSUME NEW task \in Task, NEW f, NEW r, r[f] = "ready"
    PROVE  Ready(task) \in Task /\ Good(r, f, Ready(task))
<1>1. Ready(task) \in Task
    BY DEF Ready, Task, Statuses
<1>2. QED
    BY <1>1 DEF Good

LEMMA RepliedKeeps == ASSUME UploadsInv, NEW j \in jobs, Replied(j) PROVE UploadsInv'
<1>1. JobGood(j, disk, received, dismissed) /\ j.kind = "send" /\ j.at = "server"
    BY JobOf DEF Replied
<1>2. j.id \in Files /\ j.task \in Task /\ Good(received, j.id, j.task) /\ j.at \notin Puts
    BY <1>1 DEF JobGood, Good, Puts
<1>3. CASE received[j.id] = "ready" /\ Persist(j, "complete", Ready(j.task))
  <2>1. "complete" \in Puts /\ "complete" # "settle"
      BY DEF Puts
  <2>2. Ready(j.task) \in Task /\ Good(received, j.id, Ready(j.task))
      BY <1>2, <1>3, ReadyIs
  <2>3. QED
      BY <1>2, <1>3, <2>1, <2>2, PersistStep DEF Replied
<1>4. ASSUME NEW known \in BOOLEAN, Persist(j, "settle", Settled(j.task, known)) PROVE UploadsInv'
  <2>1. "settle" \in Puts
      BY DEF Puts
  <2>2. PICK status \in {"failed", "uncertain"} : Settled(j.task, known) = As(j.task, status)
      BY DEF Settled
  <2>3. As(j.task, status) \in Task /\ As(j.task, status).status = status /\ As(j.task, status).blob = j.task.blob
      BY <1>2, TaskTypes DEF Statuses
  <2>4. Settled(j.task, known) \in Task /\ Good(received, j.id, Settled(j.task, known))
      BY <1>2, <2>2, <2>3 DEF Good
  <2>5. QED
      BY <1>1, <1>2, <1>4, <2>1, <2>4, PersistStep DEF Replied
<1>5. QED
    BY <1>3, <1>4 DEF Replied

\* A call begins or ends without a write, and nothing else changes but whose library is open.
LEMMA QuietJobs ==
    ASSUME UploadsInv, NEW gone, \A j \in gone : j.at \notin Puts /\ j.kind # "send",
           NEW come, \A j \in come : JobGood(j, disk, received, dismissed) /\ j.at \notin Puts /\ j.kind # "send"
                                     /\ j.ahead \in 0..Len(writes),
           jobs' = (jobs \ gone) \cup come, here' \in BOOLEAN,
           UNCHANGED <<given, mem, disk, active, writes, received, dismissed, leaves>>
    PROVE  UploadsInv'
<1>1. /\ Bounded /\ DiskGood(disk, received) /\ ServerGood(disk, received, dismissed)
      /\ PageGood(mem, active, jobs, writes, disk, received, dismissed)
    BY DEF UploadsInv, Bounded
<1>2. disk' = disk /\ received' = received /\ dismissed' = dismissed /\ mem' = mem
    OBVIOUS
<1>3. PageGood(mem, active, jobs, writes, disk', received', dismissed') /\ MemGood(mem', disk', received', dismissed')
    BY <1>1, <1>2 DEF PageGood
<1>4. \A j \in come : JobGood(j, disk', received', dismissed')
    BY <1>2
<1>5. PageGood(mem', active', jobs', writes', disk', received', dismissed')
    BY <1>3, <1>4, PageMoves
<1>6. QED
    BY <1>1, <1>2, <1>5 DEF UploadsInv, Bounded

LEMMA JobBegins ==
    ASSUME UploadsInv, NEW k, JobGood(k, disk, received, dismissed), k.at \notin Puts, k.kind # "send", k.ahead \in 0..Len(writes),
           jobs' = jobs \cup {k}, here' \in BOOLEAN,
           UNCHANGED <<given, mem, disk, active, writes, received, dismissed, leaves>>
    PROVE  UploadsInv'
<1>1. PICK gone, come : gone = {} /\ come = {k}
    OBVIOUS
<1>2. jobs' = (jobs \ gone) \cup come
    BY <1>1
<1>3. \A j \in gone : j.at \notin Puts /\ j.kind # "send"
    BY <1>1
<1>4. \A j \in come : JobGood(j, disk, received, dismissed) /\ j.at \notin Puts /\ j.kind # "send" /\ j.ahead \in 0..Len(writes)
    BY <1>1
<1>5. QED
    BY <1>2, <1>3, <1>4, QuietJobs

LEMMA JobEnds ==
    ASSUME UploadsInv, NEW j, j.at \notin Puts, j.kind # "send",
           jobs' = jobs \ {j}, UNCHANGED <<here, given, mem, disk, active, writes, received, dismissed, leaves>>
    PROVE  UploadsInv'
<1>1. PICK gone, come : gone = {j} /\ come = {}
    OBVIOUS
<1>2. jobs' = (jobs \ gone) \cup come /\ here' \in BOOLEAN
    BY <1>1 DEF UploadsInv
<1>3. \A i \in gone : i.at \notin Puts /\ i.kind # "send"
    BY <1>1
<1>4. \A i \in come : JobGood(i, disk, received, dismissed) /\ i.at \notin Puts /\ i.kind # "send" /\ i.ahead \in 0..Len(writes)
    BY <1>1
<1>5. QED
    BY <1>2, <1>3, <1>4, QuietJobs

LEMMA LookedKeeps == ASSUME UploadsInv, NEW j \in jobs, Looked(j) PROVE UploadsInv'
<1>1. JobGood(j, disk, received, dismissed) /\ j.kind \in {"look", "retry"} /\ j.at = "server"
    BY JobOf DEF Looked
<1>2. j.id \in Files /\ j.task \in Task /\ Good(received, j.id, j.task) /\ j.at \notin Puts /\ j.kind # "send"
    BY <1>1 DEF JobGood, Good, Puts
<1>3. CASE Confirmed(j.id) /\ Persist(j, "complete", Ready(j.task))
  <2>1. "complete" \in Puts /\ "complete" # "settle"
      BY DEF Puts
  <2>2. Ready(j.task) \in Task /\ Good(received, j.id, Ready(j.task))
      BY <1>2, <1>3, ReadyIs DEF Confirmed
  <2>3. QED
      BY <1>2, <1>3, <2>1, <2>2, PersistStep DEF Looked
<1>4. CASE Persist(j, "requeue", As(j.task, "queued"))
  <2>1. "requeue" \in Puts /\ "requeue" # "settle"
      BY DEF Puts
  <2>2. As(j.task, "queued") \in Task /\ As(j.task, "queued").status = "queued" /\ As(j.task, "queued").blob = j.task.blob
      BY <1>2, TaskTypes DEF Statuses
  <2>3. Good(received, j.id, As(j.task, "queued"))
      BY <1>2, <2>2 DEF Good
  <2>4. QED
      BY <1>2, <1>4, <2>1, <2>2, <2>3, PersistStep DEF Looked
<1>5. CASE jobs' = jobs \ {j} /\ UNCHANGED writes
  <2>1. QED
      BY <1>2, <1>5, JobEnds DEF Looked
<1>6. QED
    BY <1>3, <1>4, <1>5 DEF Looked

\* A task shown with a status that is not that of a refusal is good.
LEMMA ShownGood ==
    ASSUME UploadsInv, NEW f \in Files, NEW statuses, At(f, statuses), "rejected" \notin statuses
    PROVE  mem[f] \in Task /\ Good(received, f, mem[f]) /\ mem[f].status \in statuses
BY DEF UploadsInv, PageGood, MemGood, TaskShown, At

LEMMA RetryKeeps == ASSUME UploadsInv, NEW f \in Files, NEW n \in 1..MaxPresses, Retry(f, n) PROVE UploadsInv'
<1> DEFINE k == [NewJob("retry", f, "server", mem[f]) EXCEPT !.n = n]
<1>1. mem[f] \in Task /\ Good(received, f, mem[f])
    BY ShownGood DEF Retry
<1>2. k = [kind |-> "retry", id |-> f, n |-> n, at |-> "server", task |-> mem[f], ahead |-> 0]
    BY DEF NewJob
<1>3. n \in Nat \ {0} /\ here' \in BOOLEAN
    BY DEF Retry, UploadsInv
<1> HIDE DEF k
<1>4. k \in Job
    BY <1>1, <1>2, <1>3 DEF Job
<1>5. JobGood(k, disk, received, dismissed) /\ k.at \notin Puts /\ k.kind # "send"
    BY <1>1, <1>2, <1>4, NoTaskAssumption DEF JobGood, Puts
<1>6. k.ahead \in 0..Len(writes)
    BY <1>2 DEF UploadsInv, PageGood, WritesGood
<1>7. jobs' = jobs \cup {k}
    BY DEF Retry, k
<1>8. QED
    BY <1>3, <1>5, <1>6, <1>7, JobBegins DEF Retry

LEMMA DeliverKeeps == ASSUME UploadsInv, NEW f \in Files, Deliver(f) PROVE UploadsInv'
<1> DEFINE k == NewJob("deliver", f, "refresh", None)
<1>1. received[f] = "ready" /\ here' \in BOOLEAN
    BY ShownGood DEF Deliver, Good, UploadsInv
<1>2. k = [kind |-> "deliver", id |-> f, n |-> 1, at |-> "refresh", task |-> None, ahead |-> 0]
    BY DEF NewJob
<1> HIDE DEF k
<1>3. k \in Job
    BY <1>2 DEF Job
<1>4. JobGood(k, disk, received, dismissed) /\ k.at \notin Puts /\ k.kind # "send"
    BY <1>1, <1>2, <1>3 DEF JobGood, Puts
<1>5. k.ahead \in 0..Len(writes)
    BY <1>2 DEF UploadsInv, PageGood, WritesGood
<1>6. jobs' = jobs \cup {k}
    BY DEF Deliver, k
<1>7. QED
    BY <1>1, <1>4, <1>5, <1>6, JobBegins DEF Deliver

LEMMA ReturnKeeps == ASSUME UploadsInv, Return PROVE UploadsInv'
<1> DEFINE k == [NewJob("load", 0, "wait", None) EXCEPT !.ahead = Len(writes)]
<1>1. Len(writes) \in Nat
    BY DEF UploadsInv, PageGood, WritesGood
<1>2. k = [kind |-> "load", id |-> 0, n |-> 1, at |-> "wait", task |-> None, ahead |-> Len(writes)]
    BY DEF NewJob
<1> HIDE DEF k
<1>3. k \in Job
    BY <1>1, <1>2 DEF Job
<1>4. JobGood(k, disk, received, dismissed) /\ k.at \notin Puts /\ k.kind # "send" /\ k.ahead \in 0..Len(writes)
    BY <1>1, <1>2, <1>3 DEF JobGood, Puts
<1>5. jobs' = jobs \cup {k} /\ here' \in BOOLEAN
    BY DEF Return, k
<1>6. QED
    BY <1>4, <1>5, JobBegins DEF Return


LEMMA DismissKeeps == ASSUME UploadsInv, NEW f \in Files, Dismiss(f) PROVE UploadsInv'
<1> DEFINE k == [NewJob("dismiss", f, "wait", None) EXCEPT !.ahead = Len(writes)]
<1>1. /\ Bounded /\ DiskGood(disk, received) /\ ServerGood(disk, received, dismissed)
      /\ PageGood(mem, active, jobs, writes, disk, received, dismissed)
    BY DEF UploadsInv, Bounded
<1>2. UNCHANGED <<here, given, mem, disk, active, writes, received, leaves>> /\ dismissed' = [dismissed EXCEPT ![f] = "asked"]
    BY DEF Dismiss
<1>3. dismissed \in [Files -> {"no", "asked", "done"}] /\ Len(writes) \in Nat
    BY <1>1 DEF ServerGood, PageGood, WritesGood
<1>4. dismissed' \in [Files -> {"no", "asked", "done"}] /\ \A h \in Files : dismissed'[h] = IF h = f THEN "asked" ELSE dismissed[h]
    BY <1>2, <1>3
<1>5. \A h \in Files : dismissed[h] # "no" => dismissed'[h] # "no"
    BY <1>4
<1>6. \A h \in Files : Safe(disk, received, dismissed, h) => Safe(disk, received, dismissed', h)
    BY <1>5 DEF Safe
<1>7. PageGood(mem, active, jobs, writes, disk, received, dismissed')
    BY <1>1, <1>5, <1>6, Carries
<1>8. k = [kind |-> "dismiss", id |-> f, n |-> 1, at |-> "wait", task |-> None, ahead |-> Len(writes)]
    BY DEF NewJob
<1>9. jobs' = jobs \cup {k}
    BY DEF Dismiss
<1> HIDE DEF k
<1>10. k \in Job
    BY <1>3, <1>8 DEF Job
<1>11. JobGood(k, disk, received, dismissed') /\ k.at \notin Puts /\ k.kind # "send" /\ k.ahead \in 0..Len(writes)
    BY <1>3, <1>4, <1>8, <1>10 DEF JobGood, Puts
<1>12. PageGood(mem', active', jobs', writes', disk', received', dismissed')
  <2>1. PICK gone, come : gone = {} /\ come = {k}
      OBVIOUS
  <2>2. jobs' = (jobs \ gone) \cup come
      BY <1>9, <2>1
  <2>3. \A j \in gone : j.at \notin Puts /\ j.kind # "send"
      BY <2>1
  <2>4. disk' = disk /\ received' = received /\ mem' = mem
      BY <1>2
  <2>5. \A j \in come : JobGood(j, disk', received', dismissed') /\ j.at \notin Puts /\ j.kind # "send" /\ j.ahead \in 0..Len(writes)
      BY <1>11, <2>1, <2>4
  <2>6. PageGood(mem, active, jobs, writes, disk', received', dismissed') /\ MemGood(mem', disk', received', dismissed')
      BY <1>7, <2>4 DEF PageGood
  <2>7. QED
      BY <1>2, <2>2, <2>3, <2>5, <2>6, PageMoves
<1>13. ServerGood(disk, received, dismissed')
    BY <1>1, <1>4, <1>6 DEF ServerGood
<1>14. QED
    BY <1>1, <1>2, <1>12, <1>13 DEF UploadsInv, Bounded

LEMMA RemovedKeeps == ASSUME UploadsInv, NEW j \in jobs, Removed(j) PROVE UploadsInv'
<1> DEFINE k == [j EXCEPT !.at = "removed"]
<1>1. /\ Bounded /\ DiskGood(disk, received) /\ ServerGood(disk, received, dismissed)
      /\ PageGood(mem, active, jobs, writes, disk, received, dismissed)
    BY DEF UploadsInv, Bounded
<1>2. /\ UNCHANGED <<here, given, mem, active, writes, received, dismissed, leaves>>
      /\ disk' = [disk EXCEPT ![j.id] = None] /\ jobs' = (jobs \ {j}) \cup {k}
    BY DEF Removed
<1>3. JobGood(j, disk, received, dismissed) /\ j \in Job /\ j.kind = "dismiss" /\ j.at = "wait" /\ j.ahead \in 0..Len(writes)
    BY JobOf DEF Removed
<1>4. j.id \in Files /\ dismissed[j.id] # "no"
    BY <1>3 DEF JobGood
<1>5. disk' \in [Files -> Task \cup {None}] /\ \A h \in Files : disk'[h] = IF h = j.id THEN None ELSE disk[h]
    BY <1>1, <1>2 DEF DiskGood
<1>6. \A h \in Files : Safe(disk, received, dismissed, h) => Safe(disk', received, dismissed, h)
    BY <1>4, <1>5 DEF Safe
<1>7. PageGood(mem, active, jobs, writes, disk', received, dismissed)
    BY <1>1, <1>6, Carries
<1>8. k \in Job /\ k.kind = "dismiss" /\ k.id = j.id /\ k.at = "removed" /\ k.task = j.task /\ k.ahead = j.ahead
    BY <1>3 DEF Job
<1> HIDE DEF k
<1>9. JobGood(k, disk', received, dismissed) /\ k.at \notin Puts
    BY <1>3, <1>4, <1>8 DEF JobGood, Puts
<1>10. PageGood(mem', active', jobs', writes', disk', received', dismissed')
  <2>1. PICK gone, come : gone = {j} /\ come = {k}
      OBVIOUS
  <2>2. jobs' = (jobs \ gone) \cup come
      BY <1>2, <2>1
  <2>3. \A i \in gone : i.at \notin Puts /\ i.kind # "send"
      BY <1>3, <2>1 DEF Puts
  <2>4. received' = received /\ dismissed' = dismissed /\ mem' = mem
      BY <1>2
  <2>5. \A i \in come : JobGood(i, disk', received', dismissed') /\ i.at \notin Puts /\ i.kind # "send" /\ i.ahead \in 0..Len(writes)
      BY <1>3, <1>8, <1>9, <2>1, <2>4
  <2>6. PageGood(mem, active, jobs, writes, disk', received', dismissed') /\ MemGood(mem', disk', received', dismissed')
      BY <1>7, <2>4 DEF PageGood
  <2>7. QED
      BY <1>2, <2>2, <2>3, <2>5, <2>6, PageMoves
<1>11. DiskGood(disk', received) /\ ServerGood(disk', received, dismissed)
    BY <1>1, <1>5, <1>6 DEF DiskGood, ServerGood
<1>12. QED
    BY <1>1, <1>2, <1>10, <1>11 DEF UploadsInv, Bounded

LEMMA ForgottenKeeps == ASSUME UploadsInv, NEW j \in jobs, Forgotten(j) PROVE UploadsInv'
<1>1. /\ Bounded /\ DiskGood(disk, received) /\ ServerGood(disk, received, dismissed)
      /\ PageGood(mem, active, jobs, writes, disk, received, dismissed)
    BY DEF UploadsInv, Bounded
<1>2. /\ UNCHANGED <<here, given, disk, active, writes, received, leaves>>
      /\ mem' = [mem EXCEPT ![j.id] = None] /\ dismissed' = [dismissed EXCEPT ![j.id] = "done"] /\ jobs' = jobs \ {j}
    BY DEF Forgotten
<1>3. JobGood(j, disk, received, dismissed) /\ j.kind = "dismiss" /\ j.at = "removed"
    BY JobOf DEF Forgotten
<1>4. dismissed' \in [Files -> {"no", "asked", "done"}] /\ \A h \in Files : dismissed'[h] = IF h = j.id THEN "done" ELSE dismissed[h]
    BY <1>1, <1>2 DEF ServerGood
<1>5. \A h \in Files : dismissed[h] # "no" => dismissed'[h] # "no"
    BY <1>4
<1>6. \A h \in Files : Safe(disk, received, dismissed, h) => Safe(disk, received, dismissed', h)
    BY <1>5 DEF Safe
<1>7. PageGood(mem, active, jobs, writes, disk, received, dismissed')
    BY <1>1, <1>5, <1>6, Carries
<1>8. MemGood(mem', disk, received, dismissed')
  <2>1. mem \in [Files -> Task \cup {None}] /\ \A h \in Files : TaskShown(disk, received, dismissed', h, mem[h])
      BY <1>7 DEF PageGood, MemGood
  <2>2. mem' \in [Files -> Task \cup {None}] /\ \A h \in Files : mem'[h] = IF h = j.id THEN None ELSE mem[h]
      BY <1>2, <2>1
  <2>3. QED
      BY <2>1, <2>2 DEF MemGood, TaskShown
<1>9. PageGood(mem', active', jobs', writes', disk', received', dismissed')
  <2>1. PICK gone, come : gone = {j} /\ come = {}
      OBVIOUS
  <2>2. jobs' = (jobs \ gone) \cup come
      BY <1>2, <2>1
  <2>3. \A i \in gone : i.at \notin Puts /\ i.kind # "send"
      BY <1>3, <2>1 DEF Puts
  <2>4. received' = received /\ disk' = disk
      BY <1>2
  <2>5. \A i \in come : JobGood(i, disk', received', dismissed') /\ i.at \notin Puts /\ i.kind # "send" /\ i.ahead \in 0..Len(writes)
      BY <2>1
  <2>6. PageGood(mem, active, jobs, writes, disk', received', dismissed') /\ MemGood(mem', disk', received', dismissed')
      BY <1>7, <1>8, <2>4
  <2>7. QED
      BY <1>2, <2>2, <2>3, <2>5, <2>6, PageMoves
<1>10. ServerGood(disk, received, dismissed')
    BY <1>1, <1>4, <1>6 DEF ServerGood
<1>11. QED
    BY <1>1, <1>2, <1>9, <1>10 DEF UploadsInv, Bounded

LEMMA RefreshedKeeps == ASSUME UploadsInv, NEW j \in jobs, Refreshed(j) PROVE UploadsInv'
<1>1. /\ Bounded /\ DiskGood(disk, received) /\ ServerGood(disk, received, dismissed)
      /\ PageGood(mem, active, jobs, writes, disk, received, dismissed)
    BY DEF UploadsInv, Bounded
<1>2. JobGood(j, disk, received, dismissed) /\ j.kind = "deliver" /\ j.at = "refresh"
    BY JobOf DEF Refreshed
<1>3. j.id \in Files /\ received[j.id] = "ready" /\ j.at \notin Puts /\ j.kind # "send" /\ j.kind # "load"
    BY <1>2 DEF JobGood, Puts
<1>4. UNCHANGED <<here, given, disk, active, received, dismissed, leaves>>
    BY DEF Refreshed
<1>5. CASE /\ mem[j.id] # None /\ mem' = [mem EXCEPT ![j.id].delivered = TRUE]
           /\ Persist(j, "mark", [mem[j.id] EXCEPT !.delivered = TRUE])
  <2>1. PICK task : task = [mem[j.id] EXCEPT !.delivered = TRUE]
      OBVIOUS
  <2>2. mem \in [Files -> Task \cup {None}] /\ \A h \in Files : TaskShown(disk, received, dismissed, h, mem[h])
      BY <1>1 DEF PageGood, MemGood
  <2>3. mem[j.id] \in Task
      BY <1>3, <1>5, <2>2
  <2>4. task \in Task /\ task.status = mem[j.id].status
      BY <2>1, <2>3 DEF Task
  <2>5. Good(received, j.id, task)
      BY <1>3, <2>4 DEF Good
  <2>6. "mark" \in Puts /\ "mark" # "settle" /\ Persist(j, "mark", task)
      BY <1>5, <2>1 DEF Puts
  <2>7. /\ JobsGood(jobs', disk, received, dismissed) /\ WritesGood(writes', received)
        /\ Chained(jobs', writes') /\ Sending(active, jobs')
      BY <1>3, <2>4, <2>5, <2>6, PersistKeeps
  <2>8. mem' = [mem EXCEPT ![j.id] = task]
      BY <1>5, <2>1, <2>2
  <2>9. mem' \in [Files -> Task \cup {None}] /\ \A h \in Files : mem'[h] = IF h = j.id THEN task ELSE mem[h]
      BY <1>3, <2>2, <2>4, <2>8
  <2>10. TaskShown(disk, received, dismissed, j.id, task)
      BY <1>3, <2>4, <2>5 DEF TaskShown, Safe
  <2>11. MemGood(mem', disk, received, dismissed)
      BY <2>2, <2>9, <2>10 DEF MemGood
  <2>12. PageGood(mem', active, jobs', writes', disk, received, dismissed)
      BY <2>7, <2>11 DEF PageGood
  <2>13. QED
      BY <1>1, <1>4, <2>12 DEF UploadsInv, Bounded
<1>6. CASE jobs' = jobs \ {j} /\ UNCHANGED <<mem, writes>>
    BY <1>3, <1>4, <1>6, JobEnds
<1>7. QED
    BY <1>5, <1>6 DEF Refreshed

LEMMA LeaveKeeps == ASSUME UploadsInv, Leave PROVE UploadsInv'
<1>1. /\ Bounded /\ DiskGood(disk, received) /\ ServerGood(disk, received, dismissed)
      /\ PageGood(mem, active, jobs, writes, disk, received, dismissed)
    BY DEF UploadsInv, Bounded
<1>2. here' \in BOOLEAN /\ UNCHANGED <<given, mem, disk, active, jobs, writes, received, dismissed>>
    BY DEF Leave
<1>a. leaves \in Nat /\ leaves' = leaves + 1 /\ leaves < MaxLeaves /\ MaxLeaves \in Nat
    BY <1>1 DEF Leave, Bounded
<1>b. leaves' \in 0..MaxLeaves
    BY <1>a
<1>3. QED
    BY <1>1, <1>2, <1>b DEF UploadsInv, Bounded

LEMMA LoadKeeps == ASSUME UploadsInv, NEW j \in jobs, Load(j) PROVE UploadsInv'
<1> DEFINE m == [f \in Files |-> IF disk[f] = None \/ f \in active THEN mem[f] ELSE Reloaded(disk[f])]
           looks == {NewJob("look", f, "server", m[f]) : f \in {g \in Files : m[g] # None /\ m[g].status = "uncertain"}}
<1>1. /\ Bounded /\ DiskGood(disk, received) /\ ServerGood(disk, received, dismissed)
      /\ PageGood(mem, active, jobs, writes, disk, received, dismissed)
    BY DEF UploadsInv, Bounded
<1>2. JobGood(j, disk, received, dismissed) /\ j.kind = "load" /\ j \in Job
    BY JobOf DEF Load
<1>3. j.at \notin Puts /\ j.kind # "send"
    BY <1>2 DEF JobGood
<1>4. UNCHANGED <<here, given, disk, active, received, dismissed, leaves>> /\ writes' = writes
    BY DEF Load
<1>5. CASE mem' = m /\ jobs' = (jobs \ {j}) \cup looks
  <2>1. \A f \in Files : TaskShown(disk, received, dismissed, f, mem[f]) /\ mem[f] \in Task \cup {None}
      BY <1>1 DEF PageGood, MemGood
  <2>2. ASSUME NEW f \in Files PROVE m[f] \in Task \cup {None} /\ TaskShown(disk, received, dismissed, f, m[f])
    <3>1. CASE disk[f] = None \/ f \in active
        BY <2>1, <3>1
    <3>2. CASE ~(disk[f] = None \/ f \in active)
      <4>1. disk[f] \in Task /\ Good(received, f, disk[f]) /\ Safe(disk, received, dismissed, f)
          BY <1>1, <3>2 DEF DiskGood, Safe
      <4>2. Reloaded(disk[f]) \in Task /\ Good(received, f, Reloaded(disk[f]))
        <5>1. As(disk[f], "uncertain") \in Task /\ As(disk[f], "uncertain").status = "uncertain" /\ As(disk[f], "uncertain").blob = disk[f].blob
            BY <4>1, TaskTypes DEF Statuses
        <5>2. QED
            BY <4>1, <5>1 DEF Reloaded, Good
      <4>3. QED
          BY <3>2, <4>1, <4>2 DEF TaskShown
    <3>3. QED
        BY <3>1, <3>2
  <2>3. m \in [Files -> Task \cup {None}]
      BY <2>2
  <2> HIDE DEF m
  <2>4. MemGood(m, disk, received, dismissed)
      BY <2>2, <2>3 DEF MemGood
  <2>5. ASSUME NEW f \in Files, m[f] # None, m[f].status = "uncertain", NEW k, k = NewJob("look", f, "server", m[f])
        PROVE  JobGood(k, disk, received, dismissed) /\ k.at \notin Puts /\ k.kind # "send" /\ k.ahead = 0
    <3>1. m[f] \in Task /\ Good(received, f, m[f])
        BY <2>2, <2>5 DEF TaskShown
    <3>2. k = [kind |-> "look", id |-> f, n |-> 1, at |-> "server", task |-> m[f], ahead |-> 0]
        BY <2>5 DEF NewJob
    <3>3. k \in Job
        BY <3>1, <3>2 DEF Job
    <3>4. QED
        BY <3>1, <3>2, <3>3, NoTaskAssumption DEF JobGood, Puts
  <2>6. 0 \in 0..Len(writes)
      BY <1>1 DEF PageGood, WritesGood
  <2>7. \A k \in looks : \E f \in Files : m[f] # None /\ m[f].status = "uncertain" /\ k = NewJob("look", f, "server", m[f])
      OBVIOUS
  <2>8. \A k \in looks : JobGood(k, disk, received, dismissed) /\ k.at \notin Puts /\ k.kind # "send" /\ k.ahead \in 0..Len(writes)
      BY <2>5, <2>6, <2>7
  <2>9. PICK gone, come : gone = {j} /\ come = looks
      OBVIOUS
  <2> HIDE DEF looks
  <2>10. jobs' = (jobs \ gone) \cup come
      BY <1>5, <2>9
  <2>11. \A i \in gone : i.at \notin Puts /\ i.kind # "send"
      BY <1>3, <2>9
  <2>12. received' = received /\ disk' = disk /\ dismissed' = dismissed /\ mem' = m
      BY <1>4, <1>5
  <2>13. \A i \in come : JobGood(i, disk', received', dismissed') /\ i.at \notin Puts /\ i.kind # "send" /\ i.ahead \in 0..Len(writes)
      BY <2>8, <2>9, <2>12
  <2>14. PageGood(mem, active, jobs, writes, disk', received', dismissed') /\ MemGood(mem', disk', received', dismissed')
      BY <1>1, <2>4, <2>12
  <2>15. PageGood(mem', active', jobs', writes', disk', received', dismissed')
      BY <1>4, <2>10, <2>11, <2>13, <2>14, PageMoves
  <2>16. QED
      BY <1>1, <1>4, <2>15 DEF UploadsInv, Bounded
<1>6. CASE jobs' = jobs \ {j} /\ UNCHANGED mem
    BY <1>3, <1>4, <1>6, JobEnds
<1>7. QED
    BY <1>5, <1>6 DEF Load

LEMMA ClosePageKeeps == ASSUME UploadsInv, ClosePage PROVE UploadsInv'
<1>1. /\ Bounded /\ DiskGood(disk, received) /\ ServerGood(disk, received, dismissed)
    BY DEF UploadsInv, Bounded
<1>a. leaves \in Nat /\ leaves' = leaves + 1 /\ leaves < MaxLeaves /\ MaxLeaves \in Nat
    BY <1>1 DEF ClosePage, Bounded
<1>b. leaves' \in 0..MaxLeaves
    BY <1>a
<1>2. /\ here' \in BOOLEAN /\ given' \subseteq Files /\ leaves' \in 0..MaxLeaves /\ disk' = disk /\ received' = received
      /\ mem' = [f \in Files |-> None] /\ active' = {} /\ jobs' = {} /\ writes' = <<>>
      /\ dismissed' = [f \in Files |-> IF dismissed[f] = "asked" /\ disk[f] # None THEN "no" ELSE dismissed[f]]
    BY <1>1, <1>b DEF ClosePage, Bounded
<1>3. \A f \in Files : Safe(disk, received, dismissed, f) => Safe(disk, received, dismissed', f)
    BY <1>2 DEF Safe
<1>4. dismissed' \in [Files -> {"no", "asked", "done"}]
    BY <1>1, <1>2 DEF ServerGood
<1>5. ServerGood(disk, received, dismissed')
    BY <1>1, <1>3, <1>4 DEF ServerGood
<1>6. MemGood(mem', disk, received, dismissed')
    BY <1>2 DEF MemGood, TaskShown
<1>7. Cardinality({}) = 0
    BY FS_EmptySet
<1>8. Sending({}, {})
    BY <1>7 DEF Sending, Sends
<1>9. WritesGood(<<>>, received) /\ Chained({}, <<>>) /\ JobsGood({}, disk, received, dismissed')
    BY DEF WritesGood, Chained, JobsGood
<1>10. PageGood(mem', active', jobs', writes', disk', received', dismissed')
    BY <1>2, <1>6, <1>8, <1>9 DEF PageGood
<1>11. QED
    BY <1>1, <1>2, <1>5, <1>10 DEF UploadsInv, Bounded

LEMMA InitUploads == UploadsInit => UploadsInv
<1> SUFFICES ASSUME UploadsInit PROVE UploadsInv
    OBVIOUS
<1>1. MemGood(mem, disk, received, dismissed) /\ DiskGood(disk, received) /\ ServerGood(disk, received, dismissed)
    BY DEF UploadsInit, MemGood, TaskShown, DiskGood, ServerGood
<1>2. Cardinality({}) = 0
    BY FS_EmptySet
<1>3. Sending({}, {})
    BY <1>2 DEF Sending, Sends
<1>4. WritesGood(<<>>, received) /\ Chained({}, <<>>) /\ JobsGood({}, disk, received, dismissed)
    BY DEF WritesGood, Chained, JobsGood
<1>5. PageGood(mem, active, jobs, writes, disk, received, dismissed)
    BY <1>1, <1>3, <1>4 DEF PageGood, UploadsInit
<1>6. QED
    BY <1>1, <1>5 DEF UploadsInv, UploadsInit

LEMMA UploadsStep == ASSUME UploadsInv, [UploadsNext]_uploadVars PROVE UploadsInv'
<1>1. CASE UNCHANGED uploadVars
    BY <1>1 DEF uploadVars, UploadsInv
<1>2. ASSUME NEW f \in Files, NEW supported \in BOOLEAN, Enqueue(f, supported) PROVE UploadsInv'
    BY <1>2, EnqueueKeeps
<1>3. ASSUME NEW ok \in BOOLEAN, Write(ok) PROVE UploadsInv'
    BY <1>3, WriteKeeps
<1>4. ASSUME NEW j \in jobs, Sent(j) \/ Replied(j) \/ Looked(j) \/ Removed(j) \/ Forgotten(j) \/ Refreshed(j) \/ Load(j)
      PROVE  UploadsInv'
    BY <1>4, SentKeeps, RepliedKeeps, LookedKeeps, RemovedKeeps, ForgottenKeeps, RefreshedKeeps, LoadKeeps
<1>5. ASSUME NEW f \in Files, Lands(f) \/ Dismiss(f) \/ Deliver(f) PROVE UploadsInv'
    BY <1>5, LandsKeeps, DismissKeeps, DeliverKeeps
<1>6. ASSUME NEW f \in Files, NEW n \in 1..MaxPresses, Retry(f, n) PROVE UploadsInv'
    BY <1>6, RetryKeeps
<1>7. CASE Leave \/ Return \/ ClosePage
    BY <1>7, LeaveKeeps, ReturnKeeps, ClosePageKeeps
<1>8. QED
    BY <1>1, <1>2, <1>3, <1>4, <1>5, <1>6, <1>7 DEF UploadsNext

\* A file given is in the browser until the server has it, however often its page is closed, its
\* sending fails or is retried, its storage refuses a write, or it is delivered late; it is called ready only
\* then; and no more files are sent at once than there is room for (imports.ts:80-330).
THEOREM UploadsAlwaysKept == UploadsSpec => []UploadsKept
<1>1. UploadsInit => UploadsInv
    BY InitUploads
<1>2. UploadsInv /\ [UploadsNext]_uploadVars => UploadsInv'
    BY UploadsStep
<1>3. UploadsInv => UploadsKept
  <2> SUFFICES ASSUME UploadsInv PROVE UploadsKept
      OBVIOUS
  <2>1. /\ Bounded /\ DiskGood(disk, received) /\ ServerGood(disk, received, dismissed)
        /\ MemGood(mem, disk, received, dismissed) /\ JobsGood(jobs, disk, received, dismissed)
        /\ WritesGood(writes, received) /\ Chained(jobs, writes) /\ Sending(active, jobs)
      BY DEF UploadsInv, PageGood, Bounded
  <2>2. active = {j.id : j \in {k \in jobs : k.kind = "send"}}
    <3>1. \A j \in Sends(jobs) : j.id \in Files
        BY <2>1 DEF JobsGood, JobGood, Sends
    <3>2. \A f \in active : f \in Files
        BY <2>1 DEF Sending
    <3>a. \A f \in Files : f \in active <=> \E j \in Sends(jobs) : j.id = f
        BY <2>1 DEF Sending
    <3>b. active \subseteq {j.id : j \in Sends(jobs)}
        BY <3>2, <3>a
    <3>c. {j.id : j \in Sends(jobs)} \subseteq active
        BY <3>1, <3>a
    <3>3. active = {j.id : j \in Sends(jobs)}
        BY <3>b, <3>c
    <3>4. QED
        BY <3>3 DEF Sends
  <2>3. jobs \subseteq Job /\ \A j \in jobs : j.ahead <= Len(writes)
    <3>1. \A j \in jobs : j.ahead \in 0..Len(writes) /\ j \in Job
        BY <2>1 DEF Chained, JobsGood, JobGood
    <3>2. QED
        BY <3>1 DEF WritesGood
  <2>4. UploadsTypeOK
      BY <2>1, <2>2, <2>3 DEF UploadsTypeOK, Bounded, DiskGood, ServerGood, MemGood, WritesGood, Sending
  <2>5. BytesKept
    <3>1. ASSUME NEW f \in Files, received[f] # "none" \/ At(f, {"queued", "uploading", "uncertain"}), dismissed[f] = "no"
          PROVE  received[f] = "ready" \/ (disk[f] # None /\ disk[f].blob)
      <4>1. Safe(disk, received, dismissed, f)
          BY <2>1, <3>1 DEF ServerGood, MemGood, TaskShown, At
      <4>2. QED
          BY <2>1, <3>1, <4>1 DEF Safe, DiskGood, Good
    <3>2. QED
        BY <3>1 DEF BytesKept
  <2>6. ReadyIsTrue
    <3>1. ASSUME NEW f \in Files, NEW task \in {mem[f], disk[f]}, task # None, task.status = "ready"
          PROVE  received[f] = "ready"
        BY <2>1, <3>1 DEF MemGood, TaskShown, DiskGood, Good
    <3>2. QED
        BY <3>1 DEF ReadyIsTrue
  <2>7. QED
      BY <2>4, <2>5, <2>6 DEF UploadsKept
<1>4. QED
    BY <1>1, <1>2, <1>3, PTL DEF UploadsSpec

=============================================================================
