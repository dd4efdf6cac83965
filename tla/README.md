# Verification of mem.brane

mem.brane is a canvas on which cards hold text and *machines* are cards that
send the text of other cards to a language model and lay the answer down as
new cards. A Fastify server keeps everything in one SQLite database and
executes runs with a worker inside the same process; the browser keeps a
persistent replica of the workspace and an outbox of edits. What is hard about
the program is not any one of these but what happens between them: a worker
whose lease ran out while its model still streams, a press repeated because
its acknowledgement was lost, a budget that must hold at midnight, an edit made offline that meets an edit made
elsewhere.

This directory holds TLA+ modules translated from the source, TLC
configurations that model-check them on small instances, and proofs, checked by
TLAPS, of the theorems that matter most for instances of every size.

    tlasany M.tla                            parse a module
    tlc -workers 2 -config X.cfg M.tla       run one configuration
    tlapm M.tla                              check the proofs of a module

Source paths below are relative to the repository (`src/services/replica.ts`
is the browser's replica; `server/jobs/worker.ts` is the worker).
`PROJECT.json` holds the same information as data: components, runs, the lines
each definition models, one deliberate fault for every property, hazards,
findings and theorems.

## 1. Inventory

### Server: runs

| Component | State | Operations | What makes it correct |
|---|---|---|---|
| Run lifecycle (`server/services/run-lifecycle.ts`, `costs.ts`) | rows of `runs`, `run_attempts`, `spend_commitments`, `run_checkpoints`, `run_outputs` | claim, start, renew, checkpoint, cancel, recover, stop, complete, reconcile; each one immediate transaction | a lease and an open attempt fence every write; one attempt per run; output and completion are one commit; the commitment follows the run; finished runs are history |
| Worker (`server/jobs/worker.ts`, `app/main.ts`) | the map of active jobs, their text, their abort signals and timers | tick, claim and start, stream, checkpoint, heartbeat, idle and total timers, shutdown, infrastructure failure | the provider is called at most once per run; no live lease is left untended; bounded text loss; every admitted run ends |
| Admission (`server/services/runs.ts`) | rows of `runs` and `run_batches` | submit, press (fan-out over cards or models), retry; limits, deduplication by key and hash | repeated requests admit nothing twice; limits are limits; a retry never runs beside the run it replaces |
| Spend ledger (`server/services/spend.ts`, `costs.ts`) | `spend_commitments` by run, with amounts and UTC days | reserve, settle, hold, release, reconcile | no day, month or account is committed past its budget |
| Retention (`server/services/retention.ts`) | the same rows | prune checkpoints, manifests | evidence of open billing and unpublished text are never deleted |
| Run parts and output cards (`run-parts.ts`, `run-plan.ts`) | blocks, placements, relations | lay out and append the parts of an answer inside the completing transaction | an answer is never lost to a layout failure, nor half laid out |

### Server: the table and its guests

| Component | State | Operations | What makes it correct |
|---|---|---|---|
| Blocks and placements (`content.ts`, `block-state.ts`, `card-library.ts`) | branes, blocks with versions, placements with versions and hosts | create, edit, save geometry, move to the back of a card, retire, remove | optimistic versions; a card on a back is not itself a host |
| Feeds, relations, groups (`feeds.ts`, `relations.ts`, `groups.ts`) | feeds of a machine, edges, memberships | attach, detach, connect, group | edges and groups refer to cards that are there |
| Workspace operations (`workspace-operations.ts`) | receipts by key | apply a command once, answer its repetition from the receipt | exactly-once under lost acknowledgements |
| Imports, capacity, assets (`imports.ts`, `capacity.ts`, `storage/assets.ts`) | upload intents, objects, reserved bytes | reserve, store, record, replay | bytes charged once, never beyond capacity |
| Guests (`guest-claims.ts`, `guest-reclamation.ts`, `guest-limits.ts`) | claim intents, libraries, purge queue | claim, expire, purge | a library is claimed or purged, never both |
| Mail, alerts, backups, disk (`mail.ts`, `backup-alerts.ts`, `app/backups.ts`, `app/disk.ts`) | queue rows with leases, disk state | lease, deliver, retry, expire; gate writes | at-least-once with an idempotency key, no lost retry |
| Events (`server/sse/hub.ts`) | open streams | publish, drop | hints only: losing one is made good by a reconciliation |

### Browser

| Component | State | Operations | What makes it correct |
|---|---|---|---|
| Submission and journal (`submission.ts`, `request-journal.ts`) | one uncertain request, its journal in session storage | send, retry, settle, replay after a reload | a request that may have been accepted is repeated under the same key until its fate is known |
| Replica and outbox (`replica.ts`, `replica-scheduler.ts`, `replica-projection.ts`, `command-dependencies.ts`, `replica-locks.ts`) | persistent pending operations, cached workspace, locks shared by tabs | apply locally, dispatch, acknowledge, refuse, refresh, resolve a conflict | local writing survives; a refusal is somebody else's write; operations go out in dependency order |
| Placement saves, text saves, drafts (`placement-saves.ts`, `text-saves.ts`, `drafts.ts`) | lanes of coalesced edits | schedule, flush, retry, discard | no edit overtakes another of its lane |
| Live updates (`live-updates.ts`) | stream and reconciliation timer | connect, reconnect, reconcile | a finished run appears although its event was lost |
| Workspace controller, canvas (`workspace.ts`, `workspace-document.ts`, `BraneCanvas.tsx`) | the composition of the above | pointer gestures, reads | that of its parts |

### How they interact

The browser calls the server over HTTP and repeats what was not answered,
under the same key. The server answers from receipts (`workspace_operations`,
`runs.submission_key`). Admission writes a queued run with its reservation; the
worker, in the same process and over the same database, claims it, calls the
provider, and completes it in one transaction that publishes the revision, lays
out its cards and settles the bill. Events travel back as hints and the browser
reads. The operator's scripts and maintenance touch the same rows.

Hard behaviours, listed line by line as `hazards` in `PROJECT.json`: stale
workers after an expired lease; cancellation racing completion; a crash between
claiming and starting; a stalled event loop that lets the process recover its
own jobs; partial failure of accounting; budgets at midnight and across accounts;
repeated and changed presses; retries of runs still stopping; lost
acknowledgements and several tabs on one outbox; answers older than local edits;
conflict resolution beside requests in flight; uncertain writes counted against
capacity; purges racing claims.

## 2. What is modelled

| Module | Models |
|---|---|
| `RunContract` | the promise made to the person who pressed run: the diagram of `docs/architecture/04-run-lifecycle.md` with its accounting |
| `RunLifecycle` | the rows of a run and every transaction over them, called by anybody in any order |
| `RunWorker` | the worker process over those transactions, with crashes and restarts; extends `RunLifecycle` |
| `RunAdmission` | presses, retries, limits, deduplication and the spend ledger; uses `RunContract` |
| `Submission` | the client's lane of one uncertain request, its journal, reloads and several views |
| `OutboxPromise` | the promise made to the person who writes: each intent carried out at most once, after those it builds on, over the text its writer saw |
| `Outbox` | the replica of a library, its outbox and scheduler, the network, the receipts of the server, other devices; uses `OutboxPromise` |
| `OutboxConflicts` | the same with a person who retries and resolves what was refused; extends `Outbox` |
| `TextSaves` | text from the keyboard to the server: drafts, lanes, barriers of several sources, receipts |
| `PlacementSaves` | lanes of card geometry: coalescing, versions, retry, discard, flush |
| `LiveUpdates` | the stream of hints, its loss and reopening, the reads that reconcile, the chain of due machines |
| `Workspace` | the controller of one brane: which of its reads it shows, how it saves the title, answers asked for one thing at a time |
| `Drafts` | the browser's store of drafts, shared by tabs, with copies, discards, failures and reloads |
| `Gestures` | pointer, touch and keyboard gestures and the selection, beside other devices |
| `Table` | cards and their backs, groups, feeds, arrows, and what a press, a split answer, Keep and Retry do to them, with the database's triggers |
| `OutputCards` | how an answer is read as cards and arrows and where they are laid |
| `Staleness` | which machines are stale and what one press of Run all due reruns |
| `Contexts` | what a run is admitted to read: planning, freezing, the manifest and the reading of it |
| `Imports` | the server's side of file imports: keys, reservations, objects, receipts, crashes, claims and purges of the guest |
| `ImportTasks` | the browser's side: files kept until the server has them, retried, dismissed, delivered |
| `Ingestion` | the queue of webpages, the worker and the owner's edits of the same card |
| `Entry` | sessions of one browser: guests, accounts and the libraries accounts claim |
| `Mail` | the leased queue of mails, its retries and expiry, and the notices of a backup incident |
| `Backups` | the daily and the forced bundle, the bucket, verification and expiry, over assets that come and go |
| `Server` | the process: its gates, its jobs, fatal errors, the shutdown and its deadline, the disk monitor |
| `MC*` | the instances TLC checks, one for each run of section 3 |
| `*Proofs` | the theorems of section 5 |

How state and actions correspond to the code is said where they are declared: each
VARIABLE names its table, column or field, each action the function it stands for, and
`PROJECT.json` (`map`) its lines. What needs more explanation follows.

### RunLifecycle

The variables are the columns: `status`, `created`, `leaseOwner`, `leaseLeft`
(`lease_until` kept as the time left), `failure`, `attempt`, `cost`,
`checkpoint`, `output`. The actions are the transactions: `Submit`, `Claim`,
`StartAttempt`, `RenewAttempt`, `SaveCheckpoint`, `CancelRun`, `RecoverStale`
(all stale runs in one transaction), `StopAttempt`, `CompleteAttempt`,
`ReconcileCost`, `PruneCheckpoints`, and `Tick` for the clock. They are called
by the most general client: any worker, with any attempt it was ever given, at
any moment. So what holds there is owed to the guards inside the transactions
(`OwnedAttempt`, the `where` clauses of the updates) and to nothing a caller
promises.

`RunContract` hides leases, claims, attempts, checkpoints and workers. A claimed
run that a dying process drops is simply waiting again. `KeepsContract` maps the
rows to it (`Stage`).

### RunWorker

One process at a time (the deployment stops the old one before it starts the
next: `.kamal/hooks/pre-app-boot`, `docs/deployment.md:44`); `process` is its
identity, `mode` whether it is up, stopping or down, `job` the active map with
each job's phase, attempt, text and saved text. The process is one event loop, so
an action is what one callback does up to its last await. A claim and the start
of the claimed run are two adjacent transactions: between them only the clock and
a crash may come (`LoopFree`). `calls` counts, over all processes, how often a
run was handed to the provider. Text is its length, which is all that limits and
checkpoints look at. `Crash` may come between any two steps and loses the memory; a
shutdown past its deadline is a crash. `JobFails` is a transaction refused by the
database, which makes the worker fail as a whole. The `canClaim` flag is taken as true
and `READ_ONLY` is left out: they stop claims, they do not change them (`Server` has the
disk monitor behind the flag).

### RunAdmission and Submission

`row` holds what admission writes, `stage` and `bill` what becomes of the run as
`RunContract` sees it, `charged` the settled amount, `principal` the account each
library belongs to, `today` the UTC day. `Press` models `submitRun` and
`runMachine` from the point where the request is known: the lookup by key and
position, the comparison of hashes, the limits that only a press with a new first
part meets, the budget, and the insertion of all missing parts. `Retry`,
`ClaimLibrary`, `Midnight` and the moves of the run follow. `answered` is history:
the requests that got a receipt. Prices enter as amounts; `money.ts` only scales them.

`Submission` has one request at most in each lane (the composer, a machine, a
developed card). A request the browser gave up, after thirty seconds or with its page, is
on its way still and may reach the server at any later time, beside its repetition: its
`view` is `Gone`, and nobody learns its verdict. `marks` is history, for the cases in which the
code gives a request up: keys refused before they were looked up (`unread`), asked about
twice at a time (`crossed`), or written over or back by another view's copy of the journal
(`disturbed`). `Recoverable` and `NeverDenied` name these; `SameKey` does not, and is false.

### Outbox and OutboxConflicts

Three commands stand for the others: a card is created, its text is edited, it is
taken off. They are the least that has all the relations between commands: a
creation comes before both others, edits of one text keep their order, an edit and
a removal do not wait for each other. A block has one card on one brane, so `card`
and `shown` are functions of blocks.

On the server, `history` keeps every version of a text with the operation that
wrote it (the program keeps the last; the earlier ones serve the properties), `card`
and `remover` the fate of its card, `receipts` the table `workspace_operations`. In
the browser, `pending`, `local` and `shown` are the storage all tabs share. `calls`
holds the operations sent: `live` means that a tab still waits for the answer, and so
holds the lock of the operation. `GiveUp` stands for a timeout, a lost answer, a closed
tab and a retryable refusal: the operation stays in the outbox, and the request may
still arrive, at any later time, beside its repetition. Requests that gather several
operations are left out, since the endpoint applies each in a transaction of its own and
answers each by itself.

A local write is one storage change (`Write`): projection, operation, and the
sequence number that makes the answers of reads under way too old; the number itself is
abstracted to whether a read is still `current`. `InstalledText` and `InstalledCards`
are `installWorkspace` over `overlayPending`.

`OutboxConflicts` adds `resolution`, the await inside `resolveConflict` between what it
reads (`BeginReview`), the answer of the server (`Fetch`) and its one storage change
(`FinishReview`), with writing in between. It holds the library's lock exclusively, so
no request is in flight as it begins and none is sent before it ends; a request
already given up is not bound by that. `Rebuild` is the loop over the outbox: discard,
rebase under a new key, or project again.

Left out of both: placement versions and moves, titles, feeds, relations and groups;
blocks read without their brane (`state.reads`); the versions a run's receipt carries
(`acknowledgeEdits`, see `TextSaves`); session checks and changes of account (`Entry`).
Guest limits refuse any command of a guest's library at any time, which is more than the
counts they compare.

### The page

`TextSaves`: a text is the number of its typing. A command reserves the lanes of its
blocks when it is made and waits for the earlier commands of any of them; a run carries
the texts of all its sources to the server itself. Another device writes to the server.
`PlacementSaves`: a card has one lane, whose newest intent is shown at once; other
writers move, put back and take away cards.

`LiveUpdates`: reports are hints. The hub keeps the latest report of each run for a
moment, the stream may break and lose them, and a page learns of an outcome only by
reading the brane. Assumed: a read made by the poll takes less than the three seconds
between two; cancelling a queued run publishes nothing; reports of text only replace a
waiting report. `Appears` is checked without reads that fail (see `live_failed_read`).

`Workspace`: whatever is read has a number that grows with every change to it, so that
"older" can be said. Saves of a title are applied in the order sent. Left out: the
refusal of a blank title, commands of several steps, notices, search, braneless
commands. `TitleSettles` excuses a brane that was never shown because its read failed.

`Drafts`: lists are bounded by `MaxLoads`, one save per block is out at a time, and the
view a save starts from is fresh. `Gestures`: the table has one dimension; zoom and the
corner of a resize are left out; there are a mouse and two fingers.

### The table and what is made of an answer

`Table` has the tables a press touches and the triggers that abort it; `SlotsStayFed`, the
action half of `TableKept`, is about every operation. Versions of text and geometry are in the
modules above. `OutputCards` knows a line by its kind only, `MaxCards` is 3 or 5 for 24,
and positions are cells. `Staleness` compares what the next press would send with what
the last one froze; Retry and comparisons are only of a machine whose tray feeds no
other, and there is one stack. Left out of it: which feed is named as changed, lists of
presses, receipts, drafts of a template.

`Contexts`: a text is its length; one owner; a failed fetch keeps the text; `Limit` is 2 or 3
for 200. Left out: the price of a length, images and PDF files; arrows of earlier turns
are not read again with a lineage.

### What comes in

`Imports`: a file stands for its digest and has one byte; one guest library beside the
account's; the body and the read of its hash are one await; a write that comes late lands
before the grace period is over. `ImportTasks`: batches of one file, one tab, the order
of the map is the number of the file, one retry of a file at a time. `Ingestion`: which
addresses are refused and how text is extracted is left out, each fetch ends in a text or
a failure; a stop aborts the fetch and records a failure, a start queues again what
was running.

### The service

`Entry`: the browser's tabs share cookies and stored session; requests are lost before or
after the server applied them. A session lapses (external) while every tab is idle or
closed; a page hears of another session from another tab or by a refusal. `Mail`: the
provider, external, accepts a mail once per idempotency key; two servers share the queue
while one replaces the other, and one may be suspended with its lease. Password mails
are not told apart. `Backups`: a job is a process that may be killed at any step; a day
has two halves. The server stops an hourly job after five minutes, here within half a day; of one
started by hand only each request has a limit, and it is assumed to end before its archive is old
enough to expire, within `KeepDays` (`Longest`). `Server`: what its jobs do is elsewhere, here they are at work or not;
how a suspended process ages the disk sample is left out.

## 3. Runs

Components that share no state are checked in one run as a sum: a constant variable
`scope`, chosen in the initial state, says which of them moves while the others rest in
an initial state. So the states of a run are the sum of those of its components and never their
product, and a property of the run has one conjunct for each component it is about.
A component may appear in several scopes with different constants, where one instance
large enough for all questions would be too large. Resting components are in states in
which nothing they are fair to is enabled, or liveness conjuncts of the others would be
empty.

| Run | Scopes | Properties and the question they answer |
|---|---|---|
| `lifecycle` | `rows`: 2 runs of 2 owners, one unpriced, 2 workers, 3 attempts, 2 texts, leases of 2 units; `answers`, `diagrams`: every answer of 5 lines, diagrams of 4 items and 3 arrows; `slots`, `chain`: a machine of two slots, three machines in a chain | `OneAttempt`, `RowsExact`, `Fenced`, `HistoryKept`, `KeepsContract`: do the transactions keep leases, attempts, billing and output consistent under any caller? `AnswersDrawn`: are the cards and arrows of an answer those it names? `StalenessTrue`: would a stale machine send something else when pressed next, one of several slots that is not stale the same (`staleness_mode`), and does Run all due leave nothing due? |
| `worker` | 2 runs, 2 processes, 2 characters of text and a checkpoint each 2, concurrency 2, with fairness | `CalledOnce`, `LeasesTended`, `TextSafe`, `NoOverlap`, `TextKept`, `UsesLifecycle`: what does a worker that is killed, shut down or refused at any step keep? `RunsEnd`: does every admitted run end? |
| `admission` | `money`: 3 runs, two libraries, an account and a guest, 3 days in 2 months, budgets 4/4/3, prices 1 and 2; `keys`: presses of two parts, retries, a free one, limits of 2; `sent`: five lanes, two views, lost answers and reloads, refusals of new keys; `refused`: two lanes, two views, refusals before the key is looked up, and a brane left and returned to | `Budgets`, `AccountBudget`: do the budgets hold over midnights, late settlements and a claimed library? `PressesWhole`: do repeated presses and retries admit exactly the runs their keys name, within the limits, where a key is not reused for another request (`changed_press`)? `RequestsKept`: is no uncertain request lost in the client, but those refused unread, asked twice at a time or disturbed by an old journal, and no question? |
| `press_denied` | as `admission` | `KeysKept` is violated: section 4 |
| `outbox` | `plain`: a known and a new block, 2 texts, 3 operations, a write elsewhere, a read in flight, a lost request; `reads`: the same with two reads and no lost request; `review`: 4 operations, both choices, no reads and no lost requests | `FairRefusal`, `CacheTrue`, `WritingSurvives`, `PromiseKept`: is every intent applied once, in order, over what its writer saw, is only somebody else's write refused, does the cache stay true, and what does a resolution keep? |
| `outbox_lost` | two known blocks, 3 operations, a lost request and a resolution | `FairRefusal` is violated: section 4 |
| `service` | `mail`: two servers, three mails; `entry`, `alone`: two guests and one or two accounts of one tab, with and without faults; `backups`: an hourly and a forced job over five half-days, archives kept for two days | `OneSender`: is a mail sent by one server at a time? `LibrariesKept`, `GuestsKept`: is a guest's library claimed once and for good, and no work of a guest left behind? `BackupsKept`: does what is marked restore, and does it stay for as many dates as archives are kept? |
| `editing` | texts of two blocks; moves of cards; gestures of a mouse and of two fingers; `presses`, `feeds`, `copies`: two machines pressed, split, kept; fed by hand through two slots; shown elsewhere, grouped and retried | `TextsKept`, `MovesKept`, `GesturesWhole`: is nothing overwritten blindly, nothing newest lost but a text typed back (`text_saves_retyped`), nothing left half-done? `TableKept`: is the shape the triggers demand kept, without an abort until a card is shown elsewhere (`table_shown`) and without a loop until a group is made by hand (`table_loop`), and does no press with as many outputs as before, retry or end of a run leave a slot unfed that was fed (`SlotsStayFed`)? |
| `pages` | reads and titles; answers asked for one thing at a time; drafts of two tabs and two accounts; uploads of a tab | `PageTrue`, `DraftsKept`, `UploadsKept`: is what is shown never older than what was shown, no title lost but one typed back (`workspace_revert`), no draft lost or given away, and no file given up before the server has it or it is dismissed? |
| `intake` | webpages; deliveries to a store that is atomic and to one that is not; contexts of a conversation, a machine and a webpage | `PagesKept`, `ImportsWhole`, `ContextsTrue` |
| `serves` | the process; mails; webpages; deliveries, with fairness | `ServerHolds`: does exit code 0 mean a clean end and do writes wait for room? `Serves`: do a shutdown, a mail, a fetch, a delivery and the deletion of a guest's bytes end? |
| `settles` | `stream`, `chain`, `outbox`, `title`, `card`, `files`, with fairness | `AllSettles`: does what a page waits for come: a finished run where no read fails (`live_failed_read`), the end of a chain of one machine (`live_chain_waits`) though a read fails, the saving of an operation, a title, a move, or the news that it failed, the sending of files nobody touches meanwhile? |

What each property says is in the comment above it. Some are worth a word:

* `Fenced` and `HistoryKept` say what no step may do: write without a live lease, or
  change a finished run. `UsesLifecycle` is the refinement: every behaviour of the worker
  is one of `RunLifecycle`.
* `CalledOnce` joins the provider, outside the database, to the rows: at most one
  call per run over all processes, and never a refund after a call.
* `Budgets` bounds what admitted runs can cost, at the rates they were admitted at, and
  not merely what the query of `spend.ts` computes. `AccountBudget` is an action property
  because a claim may bring an account past its allowance, which only the next admission
  notices.
* `FairRefusal` (nobody conflicts with themselves) relates a refusal in the outbox to the
  author of the very version that stood in its way. `CacheTrue` compares the cache with
  the history of the server, for quiet texts only, because the point of a replica is to be
  ahead otherwise.

### Bounds

Each bound on a counter is a constant named in its module (`MaxKeys`, `MaxElsewhere`,
`MaxReads`, `MaxLost`, `MaxDay`, `MaxCharge`, `Starts`, `MaxText`, `MaxFaults`, ...) and
given its value in a cfg, or in the INSTANCE of a scope.

Two runs are enough for the lifecycle since no transaction relates more
than two (the order of the queue compares pairs, recovery treats each stale run
alike) and the theorems below lift the bound; the third attempt is there so that a
second attempt of a run would have an identity to take. Leases of 2 units tell a
fresh lease, a running one and the deadline apart. Two processes give one that dies
at any step and one that finds what it left; the last one does not stop, since a
world in which nobody starts the server proves nothing about runs. `MaxText` equal
to the checkpoint threshold reaches the character limit, an unsaved character and
a saved one. Three runs and three days with a month boundary inside give a
liability that outlives its day and one that outlives its month. For the outbox, three
operations are a chain of dependencies, or a pair beside an independent one, and a fourth
lets a resolution draw the two keys of a copy; one lost request makes two of the
same operation, one write elsewhere makes a conflict, two reads in
flight make an answer older than the cache; of two blocks one is new. Archives kept for two days
let a forced job outlast midnights without outlasting its archive. Everywhere
else two of a kind are taken (tabs, servers, files, cards of a machine) where two can race, one
fault where a second does what the first did, and one more of whatever has an order.
Members of a set are interchangeable (`SYMMETRY`) where nothing but equality looks at
them and the run checks no liveness.

Deadlock checking is off in every configuration: the instances have finitely many
runs, days and keys, and a world in which all runs have ended, all bills are
closed and the outbox is empty rightly stops. That nobody waits for ever is what the liveness
properties say.

### Fairness

* `RunWorker`. The supervisor starts a process whenever none runs; the loop of the process
  fires due timers (the tick, the total timer of every job) and finishes a shutdown; time
  passes. Claim and start are adjacent statements with one await on a database in
  the same process between them, so a lease cannot expire between them time after time:
  this is the strong fairness of `StartJob`, and the only strong one of the project.
  Nothing is assumed of the provider, of cancellation, or of heartbeats.
* `Outbox`. A tab that is open synchronizes on every change, on reconnection and every
  ten seconds, and a request somebody waits for is answered or given up (`remote` has a
  timeout): some step of sending, serving or settling is taken as long as one is possible.
  `Drains` is about a browser that comes online; one that never does keeps its outbox.
* `LiveUpdates`. The worker ends its runs (`RunsEnd`), the hub pumps, an `EventSource`
  reopens, timers of the page fire, requests are answered or fail.
* `Workspace`, `PlacementSaves`, `ImportTasks`. Timers fire and requests are answered or fail;
  IndexedDB finishes its writes. Nothing is assumed of the person.
* `Imports`. A delivery under way takes its next step unless the process dies; the process
  is started; maintenance purges and the store deletes, in the end with success.
* `Ingestion`. The worker's timer fires, a fetch ends (it has a timeout), the process is
  started after it stopped, a disk that was short is given room.
* `Mail`. Time passes; a server takes what is due, and its send ends.
* `Server`. Only the clock and the deadline of the shutdown: a job or a request need not end.

## 4. Findings

* `outbox_lost` (a run whose property TLC refutes): a resolution projects unrelated
  operations again over the fetched brane (`src/services/replica.ts:741`). One that was
  applied, and whose answer was lost, is projected over its own result, so the cache
  takes its expected version for the current one, and the next edit of that text is
  refused as somebody else's, where `docs/offline-pwa.md:42` says that only dependent
  changes pause. The cause, projecting an edit over another text than it was
  written over, shows once more when a read that ends during the review brings a newer
  version than the review fetched, and the person then types a text the newer version
  already has: then the cache is not true. For these two reasons the scope `review` has
  neither lost requests nor reads; the scopes `plain` and `reads` have both, without reviews.
* `press_denied` (a run whose property TLC refutes): a press is admitted and its answer lost;
  its repetition is refused before the server looks its key up, by an ended session, the rate
  limit, a machine taken off the brane, or by the replica itself, which sends nothing while it cannot
  synchronize the sources. Every answer of 4xx but 408 deletes the request from the journal
  (`src/services/submission.ts:49`), so the next press draws a new key and is a second run, where
  `src/services/request-journal.ts:1` says that losing an acknowledgement must not create a new
  operation key. `Recoverable` and `NeverDenied` except such keys (`Blurred`).

Other places where the code and what is said of it differ, met while modelling. The
models behave as the code does, and a property that would be false for this reason is
stated, or its instance chosen, without the case; the property's comment says what is excepted,
and the head of the cfg file names the finding and the constant or definition that leaves it out.

| Name | Where | What the code does, and what is said of it |
|---|---|---|
| `changed_press` | `server/services/runs.ts:676` | a press fanned out over more cards under an old key is taken for a repetition and admits the additional runs, without the limits; `docs/architecture/01-invariants.md:40`: a changed payload under the same key is rejected |
| `user_share` | `server/services/runs.ts:37` | the active-run limit counts the runs of a library, so an account with a claimed library has it twice; `docs/development.md:59` calls it per user |
| `outbox_server` | `src/services/replica.ts:702` | choosing the server's text copies the local one only beside an original that is on a brane, as it was before the server was asked; `docs/offline-pwa.md:48`: the choice never discards writing |
| `outbox_two_reads` | `src/services/replica-projection.ts:392` | with an edit paused, a tab installs a brane without its card, taken off elsewhere, so its text is forgotten; the older answer another tab waits for brings the text of before the edit back, and the next edit, over that version, is refused as somebody else's; `docs/offline-pwa.md:42`: a conflicting operation pauses only its dependent changes |
| `submission_return` | `src/services/request-journal.ts:46` | two controllers of a brane write their copies of the journal over each other; the same line of `request-journal.ts` |
| `text_saves_retyped` | `src/services/workspace.ts:668` | a card typed back to the text still shown while a save is under way keeps the text that was undone; `workspace.ts:767`: later typing joins behind the snapshot |
| `live_failed_read` | `src/services/workspace.ts:540` | the one read a report leads to may fail and nothing repeats it; `docs/architecture/README.md:27`: final results survive missed events |
| `live_chain_waits` | `src/services/workspace.ts:997` | a chain may press its next machine while the one before is queued, when the read after the press is superseded; `workspace.ts:984`: only once the one before has finished |
| `table_tray` | `server/services/runs.ts:334` | a retry becomes the tray without taking the stopped output's feeds; `runs.ts:359` and `docs/architecture/redo/domain.md:95`: feeds follow the tray |
| `table_loop` | `server/services/groups.ts:55` | group edits may close a loop of feeds; `shared/machines.ts:119`: an acyclic graph |
| `table_shown` | `server/services/runs.ts:334` | a tray card shown on another brane may abort every press of its machine; `runs.ts:332` calls it the output on the table |
| `imports_files` | `server/storage/assets.ts:25` | a short file left by a crash refuses every later delivery of that file; `docs/architecture/11-artifact-imports.md:19`: a retry verifies and writes again |
| `entry_left` | `src/services/replica.ts:211` | work begun in a second tab while the first signs in stays with a library nobody claims; `server/auth/index.ts:39`: it is claimed later |
| `import_tasks_dismiss` | `src/services/imports.ts:219` | a file dismissed while its retry asks for the status comes back and is sent; `imports.ts:244`: dismiss removes the receipt |
| `backups_age` | `server/storage/remote-backup.ts:49` | an archive is expired by its date, hardly more than 13 days old; `docs/deployment.md:87`: older than 14 days |
| `mail_order` | `server/services/backup-alerts.ts:29` | a failure notice put off may be delivered after the recovery; `backup-alerts.ts:33` |
| `staleness_mode` | `shared/machine-staleness.ts:235` | a change of mode of a stack alone in its slot is not seen; `machine-staleness.ts:233` |
| `gestures_selection` | `src/canvas/gestures.ts:155` | a selection rectangle brings back a card removed meanwhile; `docs/architecture/05-client-state.md:12` |
| `workspace_revert` | `src/services/workspace.ts:394` | a title typed back to the one still shown is taken for saved; `workspace.ts:381` |
| `workspace_allowance` | `src/services/workspace.ts:528` | a late answer replaces a newer allowance; `workspace.ts:514`: once more at the end of the stream |
| `output_dropped` | `shared/machine-output.ts:83` | a repeated arrow counts as one that names no item; `machine-output.ts:34` |

## 5. What is proved

For every set of runs, owners, workers, attempts, requests, cards, servers, and every
bound, from the assumptions on the constants named in the modules (`OwnerAssumption`,
`LeaseAssumption`, `WorkersAssumption`, `RequestAssumption`, `LimitAssumption`,
`MailAssumption`, `IngestionAssumption`, `ImportsAssumption`, `ServerAssumption`, `WorkspaceAssumption`,
`TextSavesAssumption`, `UploadsAssumption`, `NoTaskAssumption`, `DraftsAssumption`, `BackupsAssumption`, `EntryAssumption`, ...).
Everything is an inductive invariant, an action property that follows from one, or a
step simulation.

* `RunWorkerProofs`, on the rows (`RunLifecycle`). `IInv == TypeOK /\ Exact`, where `Exact` conjoins the
  relations between the columns. No conjunct is inductive alone: that a run has one
  attempt needs that a waiting run has none, billing needs to know where an attempt is
  possible, published output needs the lease. `TypeStep` and `ExactStep` show that each
  action keeps `IInv`, one step per action. From it follow `TypeCorrect`, `RowsAgree`
  (`RowsExact`), `AtMostOneAttempt`, the action properties `FencedWrites` and
  `FinishedRunsKept`, and `RunsKeepContract`, the refinement of `RunContract`, whose
  heart is `ContractSimulated`: for each run, every transaction is one move of the
  contract or none.
* `RunWorkerProofs`, on the process. `StepUses` shows that every step of the worker is a
  transaction of `RunLifecycle` or leaves the rows alone, so `IInv` and all that
  follows from it carries over (`WorkerUsesLifecycle`, `WorkerKeepsContract`).
  `WInv == IInv /\ WorkerInv` adds what ties memory to rows: a job in preparation
  or in a call holds an attempt of its run by this process, only a job in
  preparation may have an uncalled open attempt, every live lease of the process
  has a job. It gives `WorkerTypeCorrect`, `CalledAtMostOnce`, `LeasesAlwaysTended` and
  `JobsNeverOverlap`. `TextInv` adds, for each run, how the checkpoint in the rows, the
  saved and the received text of a job in call are ordered: the checkpoint of a live
  attempt *is* what the job believes it saved, and less than a checkpoint's worth has
  come since. Each kind of step has a lemma (`TextRests`, `TextQuiet`, `TextSaved`,
  `TextStopped`), from which `TextAlwaysSafe` and `TextAlwaysKept` follow.
* `RunAdmissionProofs`. `Shapes` types the rows. `RowsInv` says that each part of a
  request has one row at most, that every row was asked for by a request, that the parts
  of an answered request are all there, and that a retry stands under another key than
  what it replaces. `QueueInv` counts presses rather than rows: a press adds one to
  what is under way however many parts it has. From them `AdmissionTypeCorrect`,
  `PressesAlwaysWhole`, under `OneRequestPerKey`: two requests with owner, key and first part in
  common are the same. The client draws a key for each request; without the hypothesis the
  property is false (`changed_press`).
* `RunAdmissionProofs`, on money. The budgets are sums over sets of runs. Sums have no induction
  here, but the strict subsets of a finite set are well-founded (`SmallestSet`), so a set for
  which a law of sums fails would have a smallest one: so `SumUnfolds`, `TotalTake`, `TotalJoined`,
  `TotalSame` and `TotalMonotone` are proved, once, for any amounts. `BudgetInv` strengthens
  `Budgets`: a run under way keeps its reservation, what all days and months may still cost is
  within their limits, and so is what is reserved for calls unsettled (`HeldSpend`). `Admits`
  says what an admission adds, whether a press or a retry, and `HasRoom` what its look at the
  ledger ensures. It gives `AlwaysWithinBudgets`, and `AccountsWithinBudget` (`AccountBudget`)
  for the admission of an account.
* `WorkspaceProofs`. `ReadsInv` and `AskedInv` order the numbers of reads and of answers
  under way against what is shown; `TitleInv` says where the title typed last is: in the
  draft, or, once that is empty, nothing is being saved and the brane has the title and will
  keep it when all that was sent is applied. They give `WorkspaceTypeCorrect` and
  `PageAlwaysTrue`, both without a hypothesis, whatever is typed back. What `TitleKept` excepts
  is the one drop that loses a title (`workspace_revert`): a draft equal to what was shown,
  while the brane had, or was sent, another (`outdated`).
* `OutboxProofs`. `Shape` types the state. `OutboxInv` conjoins, in named parts, that keys
  are drawn once and the queue is in their order, that an operation answered or received has
  a receipt, that every version of the server has a receipt or another writer, that a cached
  text is the server's of the cached version unless it is being written, and that a read
  under way holds what the server had. One lemma for each kind of step (`Writes`, `Installs`,
  `Grows`, ...) says what it does to queue, cache and server, and the invariants are shown from those.
  From it follow `OutboxKeepsOrder`, `CacheAlwaysTrue` and `OutboxKeepsPromise`, the refinement of
  `OutboxPromise`: dispatching, losing, repeating and reading are no moves of the
  promise, receiving an operation for the first time is carrying its intent out.
  `RefusalsAlwaysFair` (`FairRefusal`) needs more, `FairInv`: the operations of one text form a
  chain, each expecting what the one before leaves (`Chained`), and nothing but other devices
  writes over what the first of them, the cache, or a current answer expects (`FreshInv`); an
  operation with a receipt waits for none (`ReceivedInTurn`), and a card is created and taken
  off at most once by the outbox (`CardsOnce`). It has no hypothesis. What `FairRefusal` excepts is
  the history variable `forgotten`: the edits of a block whose cached text an installed answer
  removed while it was being written (`outbox_two_reads`). The theorem says that this is the only way.
* `TextSavesProofs`. `Effect` says what each action does to whole variables and to one
  block; each invariant is kept by each effect. `TextInv` conjoins: texts shown, stored and
  queued were taken, and one being typed is newer than all of them (`TextsKnown`); an edit
  moved on only over versions this controller replaced (`Stepped`); a command past its turn
  is first in each of its lanes (`Laned`); the edits of a block in the outbox lead, one
  from the other, from a version in the server's past to the replica's text (`Chain`, `Level`);
  and a version of this controller's own that another device wrote in its place is one an edit
  still on its way will be refused for (`Delivered`, `Contested`). The last two give
  `NoBlindOverwrite`. `Alone` is what holds of a block no other device wrote: its first edit
  in the outbox expects the server's version, what is shown and read is the replica's or
  older, and a command that is first has seen all the replica took (`CaughtUp`), which gives
  `OwnHarmony`. `Latest` says that every text under way after one that holds the last typed
  text holds it too, and `Current` that what is shown is the replica's but for a command of the
  block already carried out, so that a text typed back with none under way is the replica's.
  They give `TextsAlwaysKept` (`TextsKept`) without a hypothesis. What `LastTypedWins` excepts
  is the history variable `retyped`: the blocks into which the person, while a command of the
  block is under way, typed the text that is shown, until something else is typed
  (`text_saves_retyped`).
* `IntakeProofs`, on webpages. `PagesInv` ties rows, jobs and worker: a row marked running is in
  the worker's hands or waits for a restart, a fetched page belongs to a card still
  pending. It gives `IngestionTypeCorrect` and `PagesAlwaysKept`.
* `IntakeProofs`, on deliveries. `ImportsInv` conjoins: an identity stands for the one file
  and library it was drawn for, whichever table names it (`Origins`); stored and reserved are
  disjoint, and no two identities held stand for the same bytes in the same library (`Apart`);
  a purged library holds nothing, and nothing works for it (`Purged`); what a delivery works with
  is there (`Works`), as is what is stored, and what is yet to land (`Stored`); a key that
  published has its receipt (`Receipts`); and both capacities hold, said of the number of
  identities charged instead of the sums `capacity.ts` adds up (`Charged`; `UsageIs` shows
  them equal). `Purged` and `Origins` are what a write that lands late needs. There is a lemma for
  each kind of step: `DeliveryStep` where rows rest, `RowsStep` for `Reserve` and `Finish`,
  `LossStep` for `Reconcile`, `DeleteObject` and `Purge`. They give `ImportsAlwaysWhole`,
  without a hypothesis, and whether or not the store writes an object at once.
* `PlacementSavesProofs`. `LanesInv` conjoins: what is known of a card is not newer than the
  card (`NothingAhead`), a lane has one call out at most, over the version the lane goes on
  from (`OneCall`), and nobody else wrote between the version a burst began over and the one
  it goes on from (`OwnBursts`). `Good` says what a lane must be for the invariant, and one
  lemma (`LaneStep`) serves every action that changes one lane. With it the parts of
  `MovesKept` are inductive: `MovesAlwaysKept`, without a hypothesis.
* `WorkspaceProofs`, on uploads. Every copy of a task, in the page, in IndexedDB, in a write or in
  the hands of a job, is called ready, and lacks its bytes, only when the server has the file
  (`Good`); a file given is in IndexedDB until it is received or dismissed, as long as a job
  sends it (`Safe`). The chain of writes is what makes the copies hard: `Chained` says that each
  write is waited for by one job, which knows its place in it, and `Sending` that the files
  counted as being sent are those of the jobs that send, one each, and no more than there is
  room for. `PumpKeeps` takes the pump's choice of waiting files, `HeadLeaves` a write that ends
  and moves all others up, `PutJoins` one that is added. `UploadsInv` gives `UploadsAlwaysKept`, without a
  hypothesis.
* `WorkspaceProofs`, on drafts. Copies of a draft are in the tab that types, in the store, in the lists
  of every tab, in lines of writes and in a save under way. `GoodIn` says that none is ahead of what is
  known of its key: of the text typed last and of the newest version its author has seen. A tab's own
  is level with it (`TabGood`); in a line the texts of a key never go back, nor behind the store
  (`LineGood`), so what is written last is what was typed last (`KeptIn`). Nothing follows a removal that
  waits, and its draft was taken or given up (`ClearIn`, `RemovesGood`). A draft that waits to be
  written is followed by a write that leads to a list of drafts, unless it is still edited (`Heals`,
  `OffersGood`). A save holds a version its author has seen, and what anybody has seen is not ahead of
  the server (`SaveGood`, `KeysGood`), so a save taken replaces only that. `PutKeeps`, `ClearKeeps`,
  `AskKeeps`, `DoneKeeps` and `QuietKeeps` take the five kinds of step; every action but `Fails` and
  `Reload` is one of them. `DraftsInv` gives `DraftsAlwaysKept`, without a hypothesis.
* `ServiceProofs`, on mails. `MailInv`: a server that sends holds the lease it took, unless the lease
  has run out since. It gives `AlwaysOneSender`, for any number of servers.
* `ServiceProofs`, on the process. `ServerInv` relates phase, exit code, failure and the disk sample to the
  writes under way. It gives `ServerTypeCorrect` and `ServerAlwaysHolds`.
* `ServiceProofs`, on backups. `BackupsInv`: until a job is complete nothing is marked under its key, and
  no two jobs at work have the same key, the hourly ones by turns and the forced ones by number
  (`KeysApart`); a job that expires leaves a verified archive of the day it began. What a job may change
  (`MayChange`) is its own key, or one older than `KeepDays`, and since a job ends
  before its own archive is that old it is nobody's key and nobody's archive of the day
  (`TooOldForAll`, `NobodyElses`). So
  the other jobs are unharmed (`OthersUnharmed`) and what must stay stays (`ChangesKeep`).
  `JobStepKeeps` serves every action of a job. It gives `BackupsAlwaysKept`, without a hypothesis.
* `ServiceProofs`, on guests. `EntryInv`: the owner of a library is who its receipt says, and one that was
  purged is too old, nobody's and empty (`LibGood`), which is why a command that arrives late is not
  written into it (`SyncedKeeps`); who signs in knows as whom, and what a tab sends is for the library of a
  guest that entered (`TabGood`). It gives `LibrariesAlwaysKept`, for any number of tabs.

Only model-checked, and why:

* `RunsEnd`, `Serves`, `AllSettles`: liveness, beyond this prover.
* `GuestsKept`: it is about one tab. With two its second half is false (`entry_left`).
* `StalenessTrue`: its module has RECURSIVE operators.
* the type invariant of `Mail`, in which the delay between attempts is a power.
* `CacheTrue` and the promise are proved for `Outbox`; with resolutions (`OutboxConflicts`)
  they are model-checked.
* `WritingSurvives`, `RequestsKept`, `AnswersDrawn`, `TableKept`,
  `GesturesWhole`, `ContextsTrue`: each is about a module whose
  inductive invariant has not been worked out. `TableKept` would need what every trigger demands
  as an invariant of all operations together; the others are within reach (section 7).

## 6. What is left out

Rendering, the authentication library, fetching and parsing of web pages, prompts and their
wording, archive formats and hashing are data or input and output without control of
their own. Representations and reads project stored rows into answers. Publishing events
is a hint and appears as such in `LiveUpdates`. `READ_ONLY` mode stops claims. Retention of manifests and
of ingestions, the arithmetic of `money.ts`, passwords, recovery and invitations,
the restoring of a downloaded bundle, and the offline scripts other than
`reconcile-cost` and `reconcile-uploads` are not modelled. What each module leaves out of
its own component is said in section 2, and in the notes of `PROJECT.json`.

## 7. Plan

All components of the inventory that have control of their own are modelled and checked. What is
left is proof, in this order:

1. `TableKept`, operation by operation, from a lemma per trigger.
2. `StalenessTrue`, once its recursion is stated as a function.
