------------------------------- MODULE MCSettles -------------------------------
(***************************************************************************)
(* What a page must eventually show or save: a run that ended though the   *)
(* stream breaks (stream), the end of a chain though a read fails (chain), *)
(* operations of a full outbox (outbox), a title typed while the brane     *)
(* changes (title), a burst of moves of one card (card), two files waiting *)
(* for one place (files).                                                  *)
(*                                                                         *)
(* They share no state, so one of them, the scope, moves in a behaviour    *)
(* and the others rest where nothing they are fair to is enabled.          *)
(***************************************************************************)
EXTENDS LiveUpdates, TLC

CONSTANTS x, y, t1, Empty, None, c1

VARIABLES
    scope,
    runOf, reportOf, wireOf, streamOf, cacheOf, unsentOf, shownOf, gatheredOf, readsOf, chainOf, countOf,   \* the chain
    history, card, remover, receipts, pending, local, visible, drawn, forgotten, calls, opened, elsewhere, lost,   \* Outbox
    brane, page, fetches, draft, typed, typings, outdated, saver, stray, asked, answers, budget, fails,    \* Workspace
    stored, entry, puts, read, sequence, tally, foreign, applied, resolved, dropped, blindly,               \* PlacementSaves
    here, given, mem, disk, active, jobs, writes, server, dismissed, leaves                                 \* ImportTasks

chainVars  == <<runOf, reportOf, wireOf, streamOf, cacheOf, unsentOf, shownOf, gatheredOf, readsOf, chainOf, countOf>>
outboxVars == <<history, card, remover, receipts, pending, local, visible, drawn, forgotten, calls, opened, elsewhere, lost>>
titleVars  == <<brane, page, fetches, draft, typed, typings, outdated, saver, stray, asked, answers, budget, fails>>
cardVars   == <<stored, entry, puts, read, sequence, tally, foreign, applied, resolved, dropped, blindly>>
fileVars   == <<here, given, mem, disk, active, jobs, writes, server, dismissed, leaves>>

Chained == INSTANCE LiveUpdates WITH
    run <- runOf, report <- reportOf, wire <- wireOf, stream <- streamOf, cache <- cacheOf, unsent <- unsentOf,
    shown <- shownOf, gathered <- gatheredOf, reads <- readsOf, chain <- chainOf, count <- countOf,
    N <- 1, MaxBreaks <- 1, MaxLocal <- 0, MaxFails <- 1, MaxReads <- 1

Queued == INSTANCE Outbox WITH
    shown <- visible, reads <- opened, Blocks <- {x, y}, Known <- {x}, Texts <- {t1}, Guest <- TRUE,
    MaxKeys <- 3, MaxElsewhere <- 1, MaxReads <- 0, MaxLost <- 1

Titled == INSTANCE Workspace WITH
    server <- brane, reads <- fetches, Kinds <- {}, Things <- {}, Titles <- {1, 2}, MaxTypings <- 2,
    MaxReads <- 2, MaxAsks <- 0, MaxOpens <- 1, MaxFails <- 1, MaxChanges <- 1, MaxBudgets <- 0

Moved == INSTANCE PlacementSaves WITH
    calls <- puts, Cards <- {c1}, MaxSaves <- 2, MaxElsewhere <- 1, MaxFaults <- 2

Imported == INSTANCE ImportTasks WITH
    received <- server, Files <- {1, 2}, MaxUploads <- 1, MaxBytes <- 2, MaxPresses <- 0, MaxLeaves <- 0

-----------------------------------------------------------------------------
MCInit ==
    /\ scope \in {"stream", "chain", "outbox", "title", "card", "files"}
    /\ Init /\ Chained!Init /\ Queued!Init /\ Titled!Init /\ Moved!PlacementInit /\ Imported!UploadsInit

MCNext ==
    /\ \/ scope = "stream" /\ Next /\ UNCHANGED <<chainVars, outboxVars, titleVars, cardVars, fileVars>>
       \/ scope = "chain" /\ Chained!Next /\ UNCHANGED <<vars, outboxVars, titleVars, cardVars, fileVars>>
       \/ scope = "outbox" /\ Queued!Next /\ UNCHANGED <<vars, chainVars, titleVars, cardVars, fileVars>>
       \/ scope = "title" /\ Titled!Next /\ UNCHANGED <<vars, chainVars, outboxVars, cardVars, fileVars>>
       \/ scope = "card" /\ Moved!PlacementNext /\ UNCHANGED <<vars, chainVars, outboxVars, titleVars, fileVars>>
       \/ scope = "files" /\ Imported!UploadsNext /\ UNCHANGED <<vars, chainVars, outboxVars, titleVars, cardVars>>
    /\ UNCHANGED scope

MCSpec ==
    /\ MCInit /\ [][MCNext]_<<scope, vars, chainVars, outboxVars, titleVars, cardVars, fileVars>>
    /\ Fairness /\ Chained!Fairness /\ Queued!Fairness /\ Titled!Fairness /\ Moved!Fairness /\ Imported!UploadsFairness

-----------------------------------------------------------------------------
\* A finished run appears, whatever the stream loses, where reads do not fail; a chain of one machine ends,
\* though a read fails; an operation leaves the outbox or is held for the person; a title and a card's move
\* are saved or their failure is shown; no file waits for ever, where nobody retries, dismisses or leaves
\* (live-updates.ts:40, workspace.ts:1203, replica.ts:541, placement-saves.ts:89, import-tasks.ts:111).
AllSettles ==
    /\ []TypeOK /\ Appears /\ Chained!ChainEnds
    /\ Queued!Drains
    /\ Titled!TitleSettles
    /\ Moved!FlushEnds
    /\ Imported!UploadsSettle

=============================================================================
