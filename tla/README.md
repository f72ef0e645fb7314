# A TLA+ development of job-hq

job-hq finds job postings, lets a person triage them, and follows the applications that
come out of it. This directory holds TLA+ modules for its core, TLC configurations that
check them on small instances, and TLAPS proofs for every size of instance. It covers the
commands of the database, the screens that call them, and nine parts around them: the warm
intro search, lifecycle mail, the discovery push, the spreadsheet import, the staging
record of the autopilot, the rotation of the sweep, the wide sweep, the LinkedIn ids and the
capture of mail. `PROJECT.json`
maps each definition to the lines it models and lists runs, mutants, hazards, findings and
theorems.

`F` below is `src/db/migrations/20260820_013851_replay_compares_the_command.sql`, the
migration that redefines nearly every command and so is the code in force.

## 1. The system

Everything a user or a bot changes lives in Postgres (`src/db/migrations`). No client writes
a table. A write is a *command*: one security-definer RPC, one READ COMMITTED transaction,
which looks up its idempotency key, locks the row it is about, looks the key up again,
compares the version the caller read, writes, appends an audit event, and stores its answer
under the key (`src/docs/specs/write-path.md`). Clients mint a key per gesture and keep it
over retries; bots (the email lane, the digest) call commands through the service role.

### Inventory

| Component | State | Operations | Talks to | Hard behaviour | Correct when |
|---|---|---|---|---|---|
| write path and idempotency (`F`, `0003_write_path.sql`) | `command_idempotency`, `events`, row versions (`updated_at`) | look up, lock, look up, compare, write, store, commit | every command | double delivery, lost response, lock waits | a key applies once and answers the same for ever; a write on a version replaces that version |
| triage (`F:3681-4040`, `4711-4890`) | `user_postings`, creates and deletes `applications` | `app_set_triage`, `app_set_triage_bulk`, `hq_digest_set_triage` | email lane and pipeline, through the application row | two tables in step; deadlock of batches | interested has an application; leaving interested deletes only what is untouched; a batch is all or nothing |
| application pipeline (`F`, `0010_pipeline.sql`) | `applications`, `application_notes` | set status, resolve suggestion, note, next action, human-lock trigger | triage, email lane | races with bots | bots never overrule a person |
| engine email lane (`F:4392-4706`, `0015_engine_writes.sql`) | `applications`, `email_events` | `hq_apply_email_event`, unapplied note | triage, pipeline | insert race, emails out of order, rerun | forward moves only; nothing on a claimed row but a suggestion |
| warm referral search (`0020_warm_referral.sql`, `F:4042-4190`) | `warm_searches`, `warm_pins` | start, attach run, complete, fail, cancel | vendor run, rate bounds | late vendor answers, caps under bursts | one terminal state; caps hold; one charge per gesture |
| rate bounds (`20260817_011844_...`) | `usage_counters` | charge | warm search and other metered commands | burst at a window edge | never above the bound |
| entitlement (`0027_...`, `20260817_051941_...`) | `entitlements` | activate, suspend | guards every command | suspension between delivery and replay | a suspended account is told nothing new |
| autopilot staging and handoff (`20260802_094615_...`, `20260814_030545_...`) | `autopilot_stages`, `autopilot_transitions`, `autopilot_receipts` | stage, approve, hand off, settle | application status | late settlement, sibling attempts, receipts racing a cancel | what may have been sent is not sent again; only what was read is approved; evidence stays |
| email sends (`20260813_055534_...`, `src/webapp/lib/email/dispatch.ts`) | `email_sends`, suppressions | claim, send, record | mail provider | crash after the provider accepted | never mailed twice; every claim recorded |
| notification outbox (`src/core/outbox.py`, `src/tracker/outbox.py`) | outbox rows (`notification_outbox`) | hold, flush, requeue, abandon | push service | crash between push and mark | nothing lost silently |
| import wizard (`0011_import.sql`) | `import_batches`, `import_rows` | stage, commit a chunk, undo, discard | applications | undo after edits | undo removes only what the import made |
| company review, universe (`0008`, `0009`) | reviews, universe rows | bulk review, reconcile | monitor | same shape as bulk triage | as bulk triage |
| capture tokens, email events (`0018_capture.sql`, `src/appsscript/capture/Code.gs`) | tokens, `email_events`, the script's queue and pen | mint, rotate, revoke, append, post, save | email lane | a request fails between others; rotation under way; a full queue | every event is stored, kept or counted |
| LinkedIn ids (`0016_linkedin_fill.sql`, `src/monitor/linkedin_backfill.py`) | `companies.linkedin_company_id` and its source | paste, harvest, backfill, fill | wide sweep | a person answers while an engine fills | a person's answer stands |
| digest links (`src/core/digest_links.py`, `src/webapp/lib/digest`) | none (signed tokens) | sign, verify, POST | `hq_digest_set_triage` | prefetching mail gateways | a GET never writes |
| connections (`0013_referral.sql`) | `connections` | import, match | warm search | re-import | - |
| bot runs (`0023_bot_runs.sql`) | `bot_runs` | record | tracker, monitor | - | - |
| resume store (`0026`, `0028`) | versions | append, restore | write path with an argument hash | replay with other arguments | append-only |
| answers and apply policy (`0014`, `0017`) | answers, policy | set, scope, prepare | write path | stale answers | - |
| profile and preferences (`0012`, `0025`, `20260814_021627`) | one row each | set | write path | two tabs | compare and set |
| saved views (`0005`) | views | save, rename, delete | write path | two tabs | compare and set |
| sweep state and cursors (`20260803_*`, `src/monitor/run.py`, `src/monitor/wide.py`) | cursors | resume, park, store | monitor | a budget that stops a run anywhere; a page that is cut off; crash between fetch and store | no board starves; no cursor passes what is not stored |
| discovery monitor and feed mirror (`src/monitor`) | postings, sheet rows | fetch, gate, mirror, close | triage through `postings.status` and `user_postings` | mirror overwrites a decision | a person's triage survives a sweep |
| webapp data layer and overlay (`src/webapp/lib/data`, `.../jobs/decisions.ts`) | overlay, keys, undo stack | decide, settle, undo | commands | late answers | the overlay converges to the store |
| sheet store (`src/core/sheets.py`) | spreadsheet | keyed reads and writes | monitor, tracker | remote API | - |
| tracker jobs (`src/tracker`) | sheet | join, digest, stale | email lane | - | - |
| infrastructure, editor, scripts | none of the product's | deploy, render | - | - | - |

`PROJECT.json` gives each its status and reason.

## 2. The modules

| Module | Models | Notes |
|---|---|---|
| `StatusLadder` | status vocabulary, `hq_status_rank`, the outcome ladder of `hq_apply_email_event` | pure operators |
| `Commands` | the transaction of a command: `Mint`, `Deliver`, `Commit`, `Fail`, `Lose`, `Sweep`, row locks, buffered writes | variables of the whole write path |
| `Triage` | `app_set_triage`, `hq_digest_set_triage` | extends `Commands` |
| `Pipeline` | the four gestures of the pipeline page and `hq_apply_email_event` | extends `Commands`, `StatusLadder` |
| `Lifecycle` | composition of `Triage` and `Pipeline` on shared tables; properties | `Spec`, `FairSpec` |
| `DecisionRegister` | abstract specification: a versioned register per posting and one answer per key, no transactions | |
| `LifecycleRefinement` | `Lifecycle` implements `DecisionRegister` | `INSTANCE ... WITH` |
| `BulkTriage` | `app_set_triage_bulk` row by row, with deadlock victims | own state; the other lanes are one atomic action |
| `BatchRegister` | abstract specification: rows, applications and answers, on which a whole batch takes effect in one step | |
| `BulkRefinement` | `BulkTriage` implements `BatchRegister` | `INSTANCE ... WITH` |
| `Claims` | sentences of the repository that the commands do not keep | each violated by a run |
| `TabServer` | the server as a browser tab sees it: rows, versions, keys, a line of requests and a network that refuses, loses and delays | commands are one step here |
| `Decisions` | `useDecisions` of /jobs and /queue: overlay, undo, retry, revert, refresh | extends `TabServer` |
| `PipelineWrites` | the write queue of the pipeline page: optimistic rows, time-out, retry, revalidation | extends `TabServer` |
| `Tab` | one tab on one of those pages, its server and other devices; properties | extends both |
| `WarmSearch` | cells, handlers, the search's row, the bounds it is charged to, the vendor's runs | own state |
| `EmailSends` | lifecycle mail: pending read, claim, provider, record | own state |
| `PushOutbox` | the sweep's push, quiet hours, the Outbox tab and its flush | own state |
| `ImportBatch` | an import from its mapping to its undo, driven by several tabs | own state |
| `Autopilot` | the staging record: stage, review, retry, settle, the delete of an application, and an executor | own state |
| `BoardRotation` | the order in which the sweep walks its boards, and where a run that its budget stops parks | own state |
| `WideSweep` | the TheirStack lane of the wide sweep: window, budget, page, append, cursor | own state |
| `LinkedInFill` | who answers an employer's LinkedIn id: a person, or engine lanes | own state |
| `Capture` | a mail's way from the sheet to the store, with the script's queue, its pen and its token | own state |
| `Apart` | the eight parts that share no state in one specification; a behaviour works one of them | composition |
| `LifecycleInvariants` | the inductive invariants of the write path: `LockInv`, `OnceInv`, `WriteInv` | |
| `LifecycleProofs` | types, locks and idempotency of the write path | TLAPS |
| `WritePathProofs` | its rows, its answers, its trail, and the refinement | TLAPS, extends `LifecycleProofs` |
| `TabProofs` | theorems about `Tab`: what each of the three pages promises | TLAPS |
| `BulkTriageProofs`, `WarmSearchProofs` | theorems about those modules | TLAPS |
| `ImportProofs` | theorems about `ImportBatch` | TLAPS |
| `DeliveryProofs` | theorems about `EmailSends`, `PushOutbox` and `Autopilot` | TLAPS |
| `IntakeProofs` | theorems about `WideSweep`, `LinkedInFill`, `Capture` and `BoardRotation` | TLAPS |
| `MCLifecycle`, `MCBulkTriage`, `MCTab`, `MCWarm`, `MCImport`, `MCCapture`, `MCApart` | instances for TLC | |

### How state and actions correspond

* `up`, `app`, `idem`, `events`, `board` are committed rows of `user_postings`,
  `applications` (with the notes of an application in the row), `command_idempotency`,
  `events` and `postings.status`. The primary key of an application is the `now()` of the
  transaction that inserted it, which is as unique as the identity column.
* A transaction buffers its writes in `wUp`, `wApp`, `wEv` and publishes them in `Commit`.
  READ COMMITTED: every statement that reads sees what is committed when it runs, so a
  command is cut into actions exactly where a statement can wait for a lock or take a new
  snapshot of data others may change. `pc` names those points: `lock` (after the first
  lookup), `check` (row in hand), `sync` (`user_postings` updated, the application not yet),
  `insert` (the `where not exists` or the first select found nothing), `again` (lost the
  insert race), `noted`, `commit`.
* Statements that run while the rows they read are locked by the transaction are one action,
  from the second lookup through the version check to the buffered update, event and result.
* A row lock is `upLock`/`appLock`. `appLock` is also the place in the unique index
  `(user_id, posting_key)`: an uncommitted insert makes other inserters wait.
  `on conflict do nothing` waits for an uncommitted writer of the row and not for a mere
  row lock (`BeingWritten`).
* `updated_at` is the transaction's start (`now[t]`), as in Postgres, not its commit.
  One transaction, one value: `clock` counts transactions.
* `Lose` is a connection lost, or a server stopped, anywhere before the commit. A response
  lost after the commit is a gesture delivered again by another transaction: any number
  of transactions may carry one key, one after the other or at once. A client mints a key
  only for a row it has read, with the version on that page or with none.
* `Sweep` is all that triage sees of the monitor: a posting appears, a listing closes.

Data is reduced to what the properties tell apart: a choice is [triage, reason, wake], an
email is what the classifier concluded from it, texts are members of small sets.

In the model a key names one gesture, because clients mint a fresh one for each; the check
of `F` that a key is not owned by *another* command (#288) can then never fire and is left
out, as are authentication, entitlement and the validation of arguments (inputs are the
ones that pass it).

**The screens** (`Tab`). `store` is what the database holds, `base` and `rows` what the page
was rendered with, `patches` the overlay. A gesture is `Decide` (rows as shown, a key, their
versions); it is in flight until `Settle`, which takes the server's rows, or puts back what
the overlay held (`PutBack`), and asks for the page again after a conflict. `Undo` parts its
rows by what they were before, one call per group, each with the versions the gesture
returned. On the pipeline page `Make` queues a write, `Take` reads the version when its turn
comes, and the wait ends with `SettleWrite` or `GiveUp`; `TryAgain` sends the same key.
The framework sends the actions of a tab one after the other (`line`), so only the first
request is at the server; a request the tab has given up on may run later (`strays`). A page
rendered with an answer waits in `initial` until `Revalidated` replaces every row.

**The warm search** (`WarmSearch`). A handler is a process with the step it is before: a start
takes the account's advisory lock, looks its key up, is admitted or refused, inserts the row,
starts one vendor run per persona and attaches them; a poll reads the row, asks the vendor,
lands the answer; a cancel aborts the runs and flips the row. Between two steps everything
else may move, and the handler may die (`Crash`). `created` is the instant the transaction
began, as in Postgres, so the instants need not be in the order of the inserts.

**Lifecycle mail** (`EmailSends`). A fact is an entitlement event with its send key; `ledger` is
`email_sends`; `mails` counts what the provider has accepted. `claim` and `insert` are two
steps because the suppression is read before the row is inserted. A store call that throws
ends the dispatch as a death does.

**The push** (`PushOutbox`). The sweep reads settings and history once, reconciles board by
board, then pushes, holds or drops once, and stamps the Feed. The flush reads clock,
settings and due rows once and works the rows. Time is reduced to `wake` (a row's wake time is
still to come) and `quiet`. A chunk of boards is one board.

**The import** (`ImportBatch`). Each command locks the batch and is one step; a chunk settles
its rows in file order (`Settle`: skip, fail, update, create). A row remembers the cells answered
"theirs" and "mine", and `KeepsMine` is what it will not write for them. `tab` and `calls` are the loops
of the commit and report screens: a call may be given up on, its answer lost, its button
pressed again with the same key while the first call still runs.

**The autopilot** (`Autopilot`). `stages` is `autopilot_stages` by id; a package is its
`payload_hash`, `sent` what no row says: the employer has it. `Permitted` is an update of the
state as the trigger and the partial index let it pass, `MovedTo` what the trigger makes of it.
A delivery looks its key up first under no lock (`LookUp`), where a stage command also
asks for a live sibling, and then acts behind the row lock or the index in one step; only
a retry has a second cut, because its sibling test and its insert read different snapshots,
and it holds the prior attempt between them (`Locked`). What is refused behind the lock is
`StageEnds` and `Refused`. The executor is not in the repository: it is what the service role is
allowed to do, and it may die between any two of its statements; the receipt is filed in two,
because the guard reads the stage without locking it. No screen calls the server actions that
stage, review and settle yet, and retry has no action: the gestures of the model are what the
database's commands accept.

**The rotation** (`BoardRotation`). Boards are numbered in the order of the list, and `Away` is how
far down the list, past its end and round, one is from another. A run (`tour`) walks the boards on the list from the parked
one and wraps, chunk by chunk. The budget may stop it between chunks or in one, with any
part of that chunk fetched; a kill parks nothing. `waits` counts, per board, the runs that have
ended since it was fetched.

**The wide sweep** (`WideSweep`). A run reads cursor, budget and known keys once, buys a page of
its window in any order, appends the rows it lacks and then moves the cursor, unless the page
was full. Time is the day the vendor stamps a job with. A malformed row ends the mapping
where it stands.

**LinkedIn ids** (`LinkedInFill`). A lane buys ids in one step and fills them employer by employer
in later ones: lock every row of the employer in the order of ids, count, update. The
person's command locks one row and compares its version.

**Capture** (`Capture`). A pass appends mails to the sheet, and then sends queue, mails and pen
chunk by chunk. `Replies` is what a request may come to, from a refused row to a lost answer
whose rows were stored. `Saved` is what a bounded property may keep of a list.

## 3. Runs

| Run | Instance | Shows |
|---|---|---|
| `lanes` | 3 deliveries of up to 2 gestures on one posting that the sweep lists and may close; all choices of triage, digest, set status, creating email | `TypeOK`, `TrailAgrees`, `InterestedHasApplication`, `Idempotent`, `MovedOnSurvives`, `RefusedMeansUnapplied`, and the refinement `RegisterSpec` |
| `pipeline` | 3 deliveries of 2 gestures on an existing application, claimed by a person or not, with a pending suggestion; all four gestures and four kinds of email | `Idempotent` (`AppliedOnce` and `SameAnswer`), `CompareAndSet`, `BotsDefer` |
| `ends` | 2 deliveries of triage, digest, pipeline or email gestures on a posting with a Queued application or none, fair | `EveryCallEnds` |
| `bulk` | 3 deliveries of 2 batches over two postings in either order, with versions or without | `Consistent`, `VersionedBatchOnce`, `BatchWhole`, `BatchSeesItsVersions`, and the refinement `BatchRegisterSpec` |
| `screens` | a tab on each page, two rows, one application, two gestures and two writes of two choices, one retry, one foreign write, one refused, lost or late request | `NothingGuessed`, `VersionStandsForRow`, `UndoRestores`, `GestureOnce`, `NoSelfConflict`, `EveryGestureSettles`, `ConflictIsShown` |
| `warm` | two searches, two handlers, two personas, a window of one and a day of two ticks, two ticks in all, each bound tight in turn, one crash, lost call or repeated delivery | `CapsHold`, `ResultsComplete`, `EndsOnce`, `WatchedEnds` |
| `apart` | mail: two facts, two dispatchers, three dispatches; push: two roles on one board, three sweeps, two changes of boards or settings, one fault; import: five spreadsheets over two applications, two tabs, chunks of two, one edit, one lost call; autopilot: two applications of one posting, two packages, two gestures, two deliveries at once, two stages; rotation: four boards in chunks of two, one that joins or leaves, one kill; wide sweep: three jobs, two of them wanted, budgets of two and four, three days, one malformed row, one kill; LinkedIn ids: two boards of one employer, a person, a harvest and a backfill, two gestures and two purchases; capture: three mails in chunks of two, a queue of two, a pen of one, rotations, one pass cut short | `LedgerTrue`, `StampIsBacked`, `QueueDrains`, `LandedOnce`, `PersonsStatusKept`, `UndoExact`, `NeverBlindlyRetried`, `ApprovedAsRead`, `EvidenceKept`, `TailIsReached`, `CursorPassesOnlyStored`, `HumanAnswerStands`, `Accounted` |
| `capture_pen` | two mails, a queue and a pen of two, no pass cut short | the finding of section 5 |
| `import_wedge` | one spreadsheet of three rows, a chunk of two, one edit of its application | the finding of section 5 |
| `burial`, `orphan_email`, `bulk_phantom` | 2 or 3 transactions | the findings of section 5 |

**Bounds.** `Txns` bounds how many transactions ever run, `Keys` how many gestures are
minted; `clock` is bounded by `Txns`. Three transactions are the fewest in which two
deliveries of one gesture race while a third command changes the row under them, or
in which a row is created, found and deleted by three parties; each safety property
relates at most two commands and one delivery. `ends` has two, one that holds a row and one that
waits for it; that no larger number of them wait for each other is `NoDeadlock` (section 4). One posting is enough in `Lifecycle` because no
command of it touches two; `BulkTriage` has two, which is what a deadlock needs. Sets
of choices, statuses and signals hold one member of each class the code tells apart.
`CompareAndSet` (`NoLostUpdate` and `TokensNeverReturn`) and the others are not affected by the bound on `clock`: it
ends behaviours, it does not wrap.

In `screens`, `MaxGestures`, `MaxWrites` and `MaxRetries` bound what the person does,
`MaxElsewhere` and `MaxFailures` what others and the network do. Two gestures are what an undo
of an earlier gesture under a later one needs, or two queued writes of one row; one retry is
enough for a second request with the key of a first that still runs. `warm` needs two
searches to race for one place under a bound, a third tick to leave the window and the day.
Its scenarios start at different instants and make one of the three bounds tight each.
`apart` takes what the parts need: three dispatches for a claim left by a dead dispatcher to be
met again; three sweeps because the first only seeds a board; for the import files
with a row that is stale, one whose status agrees and whose next action is in conflict (so that the
status can move after the preview), a round trip, a duplicate, a weak key, a new one, one without a
name and one with a marker where none may be; for the autopilot two
gestures, two deliveries at once and two stages. Its record starts where a package waits for its
review (`MCRecords`) in the keyed application of a posting, with a manual one beside it, so
that two gestures reach a review that races a re-stage, a hand-off or a cancel of a
submission, a retry and a late receipt. A stage command asks for one state (`Words`), since the
editable ones differ only in their arrows among themselves, and one application ends (`MaxEnded`).
Four boards in chunks of two let a run stop before, in and after its second chunk; three days let
a window hold more than a page and a later one hold news. Two boards of one employer are what a
fill can half lock; two purchases let an id be filled that was bought before another was. Three
mails are one more than a chunk and than the queue, so that a request fails with another
behind it.
`Apart` does not interleave its parts because they share no variable: every behaviour of
their product projects onto one of each, so that nothing the properties say of one part could
depend on another.

**Symmetry** is over transactions and keys, used only in runs without liveness; nothing
orders them (`now` is a value, not a transaction).

**Deadlock** is checked in the runs of the database: `AllServed` is the only way to stop, so a state in which
transactions wait for each other and nobody can move is an error. In `BulkTriage` the
cycle of two batches is broken by `DeadlockVictim`, as Postgres does after
`deadlock_timeout`.

In the other runs the system may really stop: the person does nothing more, the vendor has
nothing to do, a batch is discarded. There `CHECK_DEADLOCK FALSE` is set, and what must
not stop is said by the liveness properties.

**Fairness.** Of the database: `FairSpec` has `WF(Serve(t))`: the database runs a transaction it has
started, statement by statement, and grants a lock that stays free. Weak fairness is what the
scheduler of Postgres gives. Clients, lost connections and the sweep owe nothing.
`EveryCallEnds` says that every started call ends, and why: a call waits for the holder of a
row or can go on (`WaitsOrRuns`, where `WaitsFor` is the guards read from the side of who has to
wait), and no row is waited for in a circle (`NoCircularWait`): triage takes the posting and
then the application, everything else only the application.

`Tab`: the event loop runs what has arrived and timers run out (`EventLoop`). On /jobs and
/queue the network owes an answer (`Answers`), because `useDecisions` has no time-out: a
request that is never answered leaves the page busy, which the model would show without it.
The pipeline page needs no such promise. `WarmSearch`: a running handler goes on, the vendor
ends its runs, and the timer of a cell that watches polls; strong fairness there, because
with a bounded number of handlers the poll may have to wait again and again for a free one,
which the server does not make it do. `PushOutbox`: the tracker chain runs on its schedule and
sees its rows through, and the wake time comes (`FlushWorks`, `Wake`); deaths and
failures are bounded by `MaxPushFaults`, and the sweep owes nothing. `ImportBatch` (wedge
run): a call that reached the server ends, and the person presses the button offered.

**Mutants.** Each property of a passing run has a mutant, a small bug in one mapped operator,
that TLC must find: no second lookup, a replay without its answer, a plain select, no version
check, an update that keeps `updated_at`, a read of uncommitted rows, a delete that does not
ask for the status, swapped events, an insert that waits for ever, a gesture that does not ask
for the busy flag, a retry with a fresh key, a start without the advisory lock, a claim taken
over from a dispatcher that seems dead, an undo that does not look at versions, a slot that an ambiguous submission gives up. They stand next to the
operators they change and are used by nothing else.

## 4. Proofs

Theorems hold for every number of transactions, keys and postings and all sets of choices,
statuses, texts and signals that satisfy the named `ASSUME`s: what argument validation and
the `CHECK`s guarantee (`ChoicesAssumption`, `BlanksAssumption`, `SignalsAssumption`:
the classifier never names an ending only a person may write), that initial rows are rows,
and that the null markers are not values (`NullsAssumption`, `AnswersAssumption`,
`EventsAssumption`, `RowsAssumption`). `BirthsAssumption` says that what was there at the start
was written before any of the transactions, `BatchesAssumption` that a selection lists distinct
postings. The same markers are no gesture either (`RowsAssumption`).

| Theorem | Statement | Inductive invariant |
|---|---|---|
| `LocksHeld` | `Spec => []LockInv` (`Lifecycle`) | `LockInv` |
| `TypeCorrect` | `Spec => []TypeOK` | `LockInv` |
| `OnlyOnce` | `Spec => []AppliedOnce` | `OnceInv` |
| `EffectsAnswered` | an effect on the trail has an answer under its key | `OnceInv` |
| `NoDeadlock` | `Spec => []NoCircularWait` | `LockInv`, `HeldInv` |
| `SaidOnce` | `Spec => []Idempotent` | `PathInv` |
| `ComparesAndSets` | `Spec => CompareAndSet` | `PathInv` |
| `BotsAlwaysDefer` | `Spec => BotsDefer` | `PathInv` |
| `InterestIsServed` | `Spec => []InterestedHasApplication` | `PathInv` |
| `OnlyQueuedIsBuried` | `Spec => MovedOnSurvives` | `PathInv` |
| `RefusalsAreReal` | `Spec => RefusedMeansUnapplied` | `PathInv` |
| `TrailIsTheTruth` | `Spec => []TrailAgrees` | `PathInv` |
| `ImplementsRegister` | `Spec => RegisterSpec`: the write path implements `DecisionRegister` | `PathInv` |
| `BulkTrailIsTheTruth` | `Spec => []Consistent` (`BulkTriage`) | `BulkInv` |
| `VersionsStopTheSecond` | `Spec => []VersionedBatchOnce` | `BulkInv` |
| `AllOrNothing` | `Spec => BatchWhole` | `BulkInv` |
| `ComparesTheWholeBatch` | `Spec => BatchSeesItsVersions` | `BulkInv` |
| `ImplementsBatchRegister` | `Spec => BatchRegisterSpec`: batches implement `BatchRegister` | `BulkInv`, `AnswerInv` |
| `NothingGuessedRemains` | `Spec => []NothingGuessed` (`Tab`) | `TabInv` |
| `ReadIsOverwritten` | `Spec => []VersionStandsForRow` | `TabInv` |
| `UndoPutsBack` | `Spec => []UndoRestores` | `TabInv` |
| `AppliedOncePerGesture` | `Spec => []GestureOnce` | `TabInv` |
| `NoConflictOfOnesOwn` | `Spec => []NoSelfConflict` | `TabInv` |
| `NobodyWaitsInVain` | `Spec => []Accompanied` | `TabInv`, `AccompaniedInv` |
| `WarmTypeCorrect`, `EndsOnlyOnce` | `Spec => []TypeOK`, `Spec => EndsOnce` (`WarmSearch`) | `TypeOK` |
| `CapsAlwaysHold` | `Spec => []CapsHold` | `WarmInv` |
| `RankedFromAll` | `Spec => []ResultsComplete` | `ResultsInv` |
| `MailTypeCorrect`, `LedgerNeverLies` | `MailSpec => []MailTypeOK`, `MailSpec => []LedgerTrue` | `MailInv` |
| `PushTypeCorrect`, `NoPushIsLost` | `PushSpec => []PushTypeOK`, `PushSpec => []StampIsBacked` | `PushInv` |
| `AutopilotTypeCorrect`, `NeverRetriedBlindly` | `AutopilotSpec => []AutopilotTypeOK`, `AutopilotSpec => []NeverBlindlyRetried` | `AutopilotInv` |
| `ApprovesWhatWasRead`, `ReceiptsOutlive` | `AutopilotSpec => ApprovedAsRead`, `AutopilotSpec => EvidenceKept` | `SealedInv` |
| `RowsLandOnce` | `ImportSpec => []LandedOnce` | `ImportInv` |
| `ImportKeepsPersonsStatus`, `UndoIsExact` | `ImportSpec => PersonsStatusKept`, `ImportSpec => UndoExact` | `ImportInv` |
| `WideCursorSafe` | `WideSpec => CursorPassesOnlyStored` | `WideInv` |
| `HumanAnswerWins` | `FillSpec => HumanAnswerStands` | `FillInv` |
| `NoMailIsForgotten` | `CaptureSpec => []Accounted` | `CaptureInv` |
| `NoBoardStarves` | `RotationSpec => []TailIsReached` | `RotationInv` |

`Lifecycle!TypeOK` is not inductive alone: that an application command writes a row needs the row
it locked to be still there. `LockInv` adds, per point of a command, which lock it
holds (`Holds`) and which commands pass there (`Staged`). A step of `t` disturbs others only
through locks and rows, and takes only free locks; `AloneKeeps` says so once, and each
action then has to restore the invariant for `t` only.

`AppliedOnce` is about the trail alone and also not inductive. `OnceInv` adds: a pending
command's key has no effect yet; an effect has an answer under its key; a pending email
holds the application. The argument: a command becomes pending only after it found no
answer *while holding the row* and keeps the row until it commits. Two deliveries of one
key are about the same row, so they are never pending together (`Exclusive`), and
the one that commits stores the answer that stops the next. Drop the lookup behind
the lock and `Unanswered` no longer applies, which is what the mutants `AppSetTriageAskedOnce`
and `AppAddNoteAskedOnce` show on small instances. An email that found no row is not an effect:
it holds no lock, and two deliveries may both record it.

`NoDeadlock` needs the converse of `LockInv`, which says what a command at some point holds:
`HeldInv` says at which point the holder of a row is. A posting is held by a triage of it on its way
to the commit; an application only by a command that takes nothing more, since every command
that takes one goes on to its decision or its commit. So whoever waits for an application waits for somebody
who waits for nobody, and whoever waits for a posting waits for one that waits at most for an
application (`ShortChains`): a circle would have to be a chain of three. This is the safety half of
`EveryCallEnds`, for any number of calls and postings; that a call that waits for nobody has a
step (`WaitsOrRuns`) is about `ENABLED` and stays with the run.

The other properties of the write path are about what a commit writes, and a commit writes what
was decided some steps before. `WriteInv` says of every command, at each of its points, that what
it has buffered is still right by the rows as they are now (`Grounded`): the decision
is the one the gesture asks for and replaces the row it saw, the application to be created
or deleted fits the decision and the row under it, the event says what the row will say, the
answer is the answer of this gesture; and that the stamp it will write is nobody else's, on no
row and held by no client. `PathInv` is `LockInv`, `OnceInv` and `WriteInv` together.
`GroundKept` says once what a command needs of the steps of others: that the rows it holds,
the application of a posting it decides about and the answer under its key stay.
`CommitMoves` then reads off what a commit changes, and each property is one look at it.
`RefusedMeansUnapplied` needs the second lookup, `CompareAndSet` that stamps do not return,
`BotsDefer` what `EmailOutcome` may say of a claimed row (`EmailAdvances`, `EmailSuggests`).
For the refinement the register's step is the commit: a triage that changes a row maps to one
atomic step, every other step to a stutter, to an answer or to a new question.

A batch (`BulkTriage`) has no second lookup, so two deliveries of one key can both get past the
first. `BulkInv` follows the loop: behind its counter each row is locked, is the version the
client read, and has or is about to get the decision (`Ready`), with one buffered event for each
buffered row (`Buffered`); that gives `BatchWhole` and `BatchSeesItsVersions`. That the second
delivery is stopped by the version is not a matter of locks but of stamps: they are taken at the
start of a transaction, so that a row may go from a later one to an earlier one. `Retired(p, v)`
says that no row and no running transaction has the version `v` any more, which no step undoes,
and every event on the trail was written over a retired version (`Recorded`). A second event
of the same key on the same posting would have to be written over that version.

That a batch is one step, although its rows are locked, compared and written one at a time, is
`ImplementsBatchRegister`: the commit maps to a step of `BatchRegister`, every turn of the loop,
wait, conflict and abort to a stutter. `AnswerInv` adds what the loop has built besides its
writes (`Built`): the answer holds each row as the commit will leave it, and the application
buffered for a row is the one it would get if it were decided now (`Follow`), which other
lanes cannot change under the row's uncommitted write. And of a batch that has its answer it
says that each row sent with a version has that version and the decision, or has left the
version for good (`SettledAt`, from `Retired`): a second delivery that gets to its commit has
found every version it names, so it finds those rows decided and moves none of them. What it
may move are rows sent without a version, and `DecideAgain` says that and no more; the
answer of the first delivery stands (`Stored`).

`TabInv` has the whole tab in one invariant, since a page, the line, the server and the requests
that were given up on must agree. Of the server (`StoreInv`, `EffectsInv`): the rows it has
held, of which two with one version differ in their notes at most, and one effect per key,
whose rows are the answer under it. Of everything else: that it speaks of such rows.
A request names rows that were once true and the versions they then had (`Grounded`), so that where
the versions still match, what is overwritten is what was read (`FoundAsRead`):
`VersionStandsForRow` is one look at a command that runs. A toast, an undo begun and an
undo sent name rows that one effect of their gesture wrote, with what that effect found under them
(`Wrote`), and the undo of them is versioned: hence `UndoRestores`, and it does not matter that
rows of one gesture go back in several calls. For `NothingGuessed`, what is painted is what the gesture in
flight targets, everything else was held (`Overlay`), and so was what a gesture puts back
(`InFlight`). On the pipeline page a key is a gesture, for the writes that wait, run or
may be retried and for the requests they became (`Matched`), which with one effect per key is
`GestureOnce`. `NoSelfConflict` needs the most: as long as nobody else has written (`Undisturbed`), the page
has the current version of every row, in its rows or in the render it is about to take
(`Current`), unless the answer that brings it is in hand; and a queued write reads its version
only when its turn comes. A note is the exception throughout, as it moves no version.
`NobodyWaitsInVain` counts calls: `AccompaniedInv` adds that each undo in flight has one call in the
line (`OneCallEach`) and that no gesture is taken back twice (`Numbered`), so that the answer
which ends an undo takes its last call out of the line.

`CapsHold` holds because a start counts behind the account's lock and inserts before it lets
go. `WarmInv` says what a start at `insert` knows (`Cleared`): its search has no row and at
its instant each bound has room for one more; that it alone holds the lock (`LockHeld`); and
that the units charged to a window are its rows (`UnitsCounted`). Other starts cannot insert
meanwhile, and everything else that touches a row can only make room. The daily count is taken
over `[asof - Day + 1, MaxTime]` and not over a day, which is what makes it hold for
every day although the instants of the inserts are not ordered. `EndsOnce` needs the type
invariant only, through `Land`. `ResultsComplete` needs the history of a delivery: `ResultsInv`
numbers the deliveries of a search (`Numbered`), and says that the runs a row holds are all the
runs of one delivery, one for each persona (`RowBatched`), and that so are those a poll has in hand,
which have all succeeded once it is about to land them (`PollBatched`).

`LedgerTrue` needs who holds which claim. `MailInv` adds that a dispatcher past the insert
holds a row still `claimed` (`ClaimStands`), that no mail has gone out before its call, that the
answer it is about to record is what happened, and that no two dispatchers hold one claim
(`OneHolder`). A dispatcher that dies leaves its claim, and a taken key is never taken again.

`StampIsBacked` needs two facts about the moment before: what a sweep is about to stamp is
pushed or in the Outbox, and the row a flush is about to mark as sent was sent. Rows only grow
and keep their news, and what was pushed stays pushed.

`NeverBlindlyRetried` follows from two facts that every write of a stage keeps (`Fits`): one
stage at most holds an application's slot (`OneSlot`), and what has been sent is in a
state that holds it, was cancelled or was written off (`SentReached`). The second needs to know
of the executor that what it is handing to the provider has not been taken yet and is in flight or
was cancelled under it (`ExecutorTrue`); else a failure that is "proved" could free the slot
of something sent. `PermittedFits` says once that the trigger and the index let through
only such writes, and each action is then one of three shapes: a stage is written, one is
inserted, or none changes. `ApprovedAsRead` adds that what a stage is authorised for is the
package it holds (`ApprovalBinds`, in `SealedInv`): the trigger throws an approval away with the
package it was given for, and a review names the package it read. `EvidenceKept` then needs one
look at every write of a stage (`Seals`: none drops a receipt) and at the delete, whose guard asks
for the receipts of the application before anything else.

A chunk of an import goes through the file row by row, and so does an undo. Both are written as
the chain of the states they come to (`Settling`, `TakingBack`), which is a recursive
function; that the chain exists is `SettlingRows` and `TakingBackRows`, and what holds at its start
and passes from row to row holds at its end (`Climbs`, from the least number at which it would
fail). `ChunkInv` is what holds of the state a chunk has come to, with the rows of `D` settled: a row not
in `D` and an application no row of `D` landed on are as they were, one that was landed on is at
the chunk's instant, its notes count the rows upon it, and a status a person set has moved
only if a row of `D` was allowed to (`ChunkLocks`; a later row of the same chunk cannot be, since no
export carries the chunk's instant). `ChunkSteps` takes it one row further: a row passes, updates
one application or creates one (`SettleRow`). `TakenBack` and `UndoSteps` do the same for
the undo. Between commands `ImportInv` holds: nothing has landed before the first chunk
(`Untouched`), what a row would create is not there before (`Unborn`), and until the undo the version of
an application tells who was there last (`Tracks`) and what an update remembers is what the
application was (`Recalls`), if it was the only one there.

`CursorPassesOnlyStored` is about a window: `WideInv` says that of a whole and well-formed one
every wanted job is in the Feed or about to be appended (`WindowCovered`), until the cursor moves.
`HumanAnswerStands` needs that what a lane holds it has locked, and that none of it carries a
person's answer once the lane has counted (`LaneInv`): a person who answers meanwhile waits. `Accounted` follows
an event from list to list: `CaptureInv` says where each may be at each point of a pass
(`Placed`), and what a chunk, a save or a cut does to the sets of the lists' members. `TailIsReached` counts
runs, and is inductive with the way to the board: `RotationInv` says that what a board has waited and its
way from the cursor are at most a turn of the list, once over for each change of the list. A run
that stops has fetched a board before the one it parks, so the cursor has come nearer by as much as the
waiting grew; when the list changed under a run, so that the parked board may be off it, the change has
given every board a whole turn more.

TLC has evaluated the invariants before they were proved: `LockInv` and `OnceInv` on the
instances of `lanes` and `pipeline` (`MCLifecycle` extends their module), `WriteInv` on the same
(195,313 and 662,205 states), with the stamps it quantifies over bounded by `clock + 2`; `BulkInv`
and `AnswerInv` on that of `bulk` (1,046,188 states), `HeldInv` on `lanes` and `pipeline`, `TabInv` and `AccompaniedInv` on that of `screens` (232,620 states), `ResultsInv`
on that of `warm` (154,997 states), `ImportInv` and `RotationInv` on the parts of `apart` (314,592 and 5,186 states).

The theorems about the screens and the parts beside the write path hold for any number of rows, texts, gestures, retries, searches,
handlers, personas, facts, dispatchers, roles, boards, spreadsheets, tabs, applications, requests, packages, jobs, lanes, employers and mails and any bounds on time and faults; the
assumptions are `PagesAssumption` (initial rows are rows, and what a page or another device may
change is a change of that page), `NullAssumption` (no gesture, turn or answer is `None`), `WarmAssumption` (the numbers are numbers, the set of searches is finite),
`NoneAssumption`, `MailAssumption`, `WideAssumption` (the vendor has finitely many jobs, a budget
buys at least one), `FillAssumption` (no lane is called "person" or "nobody"), `CaptureAssumption`
(a chunk, the queue and the pen hold at least one mail), `ImportAssumption` (what the cells of a
file and the columns of an application may hold includes what the app itself writes there, and
no export or application is newer than the upload), `RotationAssumption` (a chunk is a board at
least) and `AutopilotAssumption` (the record may
begin as any record with one slot per application, none of it sent out of turn, and in which
what is authorised is what was approved, as the trigger of the hand-off migration has it from
the first row on). `PushOutbox` assumes nothing.

Only model-checked is all liveness: `EveryCallEnds`, `EveryGestureSettles`, `ConflictIsShown`,
`WatchedEnds` and `QueueDrains`. Of the first two a safety half is proved, by `NoDeadlock` and
`NobodyWaitsInVain`: nobody waits in a circle, and nobody for an answer that is not under way.

`AppliedOnce` and `SameAnswer` are the halves of `Idempotent`. Out of the prover's reach altogether: liveness
under fairness and `ENABLED`, and induction over data (what a recursive definition computes
for every input). No module here declares a `RECURSIVE` operator.

## 5. Where code and comments disagree

Runs that TLC must find violated:

* `burial` — "a human moved it ... it must survive" (`F:3831-3836`). The delete tests
  only the status, so an application a person set to Queued is deleted with its
  notes.
* `orphan_email` — "The winner's row is the row" (`F:4541`). When the winner's row is deleted
  before the second select, the email is recorded as applied to no application, under its
  key, and is never applied.
* `bulk_phantom` — "Repeating the key returns the first result"
  (`src/docs/specs/write-path.md:12`). A batch delivered twice at once is told of a conflict with
  itself.

* `import_wedge` — "one stale row must not wedge the batch" (`src/tests/db/test_import.py:477`),
  "Chunks always make progress" (`src/webapp/app/(app)/import/run.ts:32`). A row that the commit
  itself finds stale is failed *and* set to `unresolved` (`F:1218`); the next chunk counts it
  (`F:1031-1035`) and is refused, and in `committing` nothing resolves or excludes a row any
  more. The rest of the file cannot be imported; the commit screen offers no undo.
* `capture_pen` — "account for every one of them" (`src/appsscript/capture/Code.gs:624`), "stays
  parked until it is evicted, and the eviction is its own push" (`src/docs/RUNBOOK.md:795-796`). A
  pass that finds the endpoint down does not post the pen (`Code.gs:678`) but rewrites it from
  this pass's refusals (`Code.gs:695`): what was parked is gone and counted nowhere. This is why
  `Accounted` speaks of the events that were never parked (`parkedOnce`).

Met on the way, with no run of their own.

In the database:

* The digest refuses a closed posting before its second lookup (`F:4797`), so of two taps at
  once the second may be told the listing is gone; the comment (`F:4794`) says a
  replay still renders its recorded result, which holds for the first lookup only.
* The insert of a triage has no `on conflict` (`F:3820`): an application created by an email in
  between aborts the gesture with `unique_violation`. A retry succeeds.
* Confirming a suggestion reopens a finished application without the reason
  `app_set_status` demands (`F:2458`, `src/docs/specs/application.md:93`).
* The unapplied note is guarded by an unlocked existence check
  (`0015_engine_writes.sql:399-428`) and may be written twice.
* `updated_at` is a start time, so versions may go backwards between commits; the overlay
  compares them to find the fresher row (`decisions.ts:75-77`). They do not repeat
  (`TokensNeverReturn`), so compare-and-set is sound.
* Two deliveries of one email that both end with a row of nulls (`F:4550`) hold no common lock and
  may both record their effect.
* A batch without versions applies twice when delivered twice at once; with versions
  it does not (`VersionedBatchOnce`).

On the screens:

* `useDecisions` has no time-out: an action that never answers leaves the page busy for ever.
* A failed gesture puts back the overlay it saw when it started (`decisions.ts:206`), over what
  an undo has put there since. A conflict on /jobs heals it by reading the page again; after
  an error, or on /queue, the older row stands until the next reload.
* On /queue the selection is never pruned (`today-list.tsx:105-181`): a row that has left the
  list can still be selected. A key pressed while a gesture is in flight clears the selection.
* The demo's `setTriageBulk` moves `updatedAt` of rows it does not change; the SQL does not.
* A retry after a time-out is answered from the record, so the page shows the row as it was
  written then until the next revalidation.
* The pipeline page reads the version of a write when its turn comes (`pipeline-table.tsx:450`),
  not when the gesture was made. Two writes are queued on one version of a row and another
  device changes it: the first meets the conflict and the page settles on the other device's
  row, the second takes the version of that row and overwrites it, though it was made on the
  row before and the notice says "Review the latest version before saving" (458-460).
  `VersionStandsForRow` therefore speaks of the row a request was formed on, which is the
  row the gesture was made on for /jobs and /queue only.

In the warm search:

* Only the cell polls, so a search whose tab was closed stays `running` and keeps its place
  under `warm.concurrent`; "Wait for one to finish, or cancel it"
  (`src/webapp/lib/limits/bounds.ts:114`), but no screen lists it.
* A repeated delivery of a start is answered with the first row and then starts the vendor's
  runs again (`handler.ts:164-178`): billed twice, the first runs forgotten.
* A cancel before the attach aborts nothing, because the row has no runs yet. An attach the
  store refuses, or a handler that dies before it, leaves a search that only a cancel ends.
* When one run fails the search fails, and its other runs go on at the vendor.

In mail and push:

* A dispatcher that dies leaves its row `claimed` for good; nothing sends it again. A
  suppression between the read and the insert is one mail too many. A 5xx of the provider is
  recorded `failed` though it may follow acceptance; the model takes a refusal to
  mean not accepted.
* `_send` reads no HTTP status (`src/core/notify.py:61-78`): a push ntfy refused counts as sent
  (`unread` in the model).
* Attempts count deferrals into quiet hours and failed sends alike (`src/tracker/outbox.py`),
  so a row is "abandoned after 3 failed sends" after fewer.
* A failed mark after a push sends it again; a sweep that dies between its last
  board and the push loses the push, though the roles are in the Feed.

In the import:

* A note does not move an application's version, so the undo deletes a created application
  with the note a person has added since, though "An undo never overwrites work done
  after it" (`report-step.tsx`).
* Two rows of one file that land on one application in two chunks: the undo restores what the
  second found, not what was there before the import. `UndoExact` leaves such applications
  out.
* A resolved row is not compared again, so "theirs", chosen against what the preview showed,
  overwrites an edit made since.
* Nor is a cell of a resolved row that was not in conflict. The file says `Applied` and so did the
  application at the preview, another cell was in conflict and was resolved, then the person
  sets the status: the chunk puts `Applied` back, unasked. Only cells in conflict or answered
  "mine" are blanked (`F:1142-1147`) and the version test exempts the row (`F:1213-1214`), against
  "a resolved row writes exactly the cells a person explicitly answered 'theirs', and nothing
  else rides through on the row's exemption" (`F:1210-1212`) and "an explicit 'mine' discards a
  value that agreed anyway; harmless" (`F:1133-1134`). `PersonsStatusKept` admits this case and
  says so.
* The demo's commit has no re-check of a stale row; the SQL has, and is what is modelled.

In the autopilot:

* A receipt whose guard has passed is filed although a cancel commits in between: a cancelled
  stage then holds a receipt, and no legal state says so. That the delete guard asks for the
  receipt before it asks for the state is what keeps it (`EvidenceKept`).
* A review may cancel a `submitting` stage after the provider has taken it, which frees the slot;
  `NeverBlindlyRetried` lets a cancel by a person count as a decision. Before a receipt is
  filed, deleting the application then takes the only trace along.
* "no Prepare/Review path creates a second live attempt" (header of the hand-off migration,
  129-152), which says of the window it leaves that "what the guard removes is every sequential
  path". A re-approval of a `failed_retryable` stage does not ask for siblings, so that
  staging the sibling after the failure and approving again gives one posting two live attempts,
  one after the other and with no race. The index keeps one per application.
* A stage command delivered twice, with a cancel between the lookup of the second and its insert,
  inserts a second stage in `preparing` and is then answered from the record.
* The settlement sets the status with no version and locks stage and then application; the delete
  of an application locks them the other way round.

In the sweeps, the LinkedIn ids and the capture:

* A malformed row makes the wide sweep move its cursor past jobs it has not mapped
  (`wide.py:616-617` sets `ts_ok` and `ts_max` before the mapping, and the exception is swallowed),
  though a malformed row should cost only itself (`src/tests/monitor/test_wide.py:715`, whose null
  stands last). `CursorPassesOnlyStored` excepts such pages (`spoilt`).
* The hiring.cafe lane moves its cursor to the newest date of all its terms, also when one of them
  failed, and so passes what only that term would have listed.
* While no cursor is set, the window begins two days back from today: a first page that is
  truncated every day slides on without its tail. "safe to blank; keys re-dedupe everything"
  (`src/docs/RUNBOOK.md:340`) holds only of a cursor that is not older than that.
* A window that always holds more than the budget buys is bought again and again.
* A killed backfill has moved its cursor past ids it bought and did not fill. A correction on one
  board leaves the engine's id on its siblings; a board born after a fill stays blank, because the
  employer is then `already_set`; one born between the locks and the update is not locked.
* A capture pass that is cut short loses for the store what it had in hand; the sheet has it
  (`cutOff`). The eviction of the pen is "DROP-OLDEST" (`Code.gs:808`) but this pass's refusals stand
  in front of what was parked, so that the newest go first.

## 6. Not modelled, and why

* Of the autopilot: how a package is prepared from profile and answers, the rules on sensitive
  answers and attachments, the audit rows (written by a trigger with each update) and the page.
* Of an import: an application deleted from elsewhere while a batch is open. The foreign key
  then empties the match of its row (`0011_import.sql:267`), which is inserted anew; `Settle` has the
  refusal of `F:1196-1202`, which no run reaches. Of the eight columns
  that may not hold the marker the model has the status and the name.
* Of an email: the event `email.application_created` beside the one that says what the email did
  (`F:4568-4574`; nothing reads the trail's last word about the status from it); evidence and
  `last_activity` are one field.
* Of a batch: the `unique_violation` of its insert (`F:3996`), which aborts the batch as a lost
  deadlock does (`Lose`). A selection is assumed to list distinct postings (`BatchesAssumption`).
* Of the modelled parts: validation, authentication and texts; selection, filters and the other
  surfaces of the webapp; pins and the ranking of warm results; uploading a file and its
  formats; the rows a revalidation removes while a write for them is queued; an append to a
  sheet that was written and then raised.
* Company review, resume versions, answers, profile and preferences, saved views: commands on
  the modelled write path whose own state is not modelled. Their idempotency and
  compare-and-set are those of `Commands`.
* Entitlement: authorization. Every command asks for it first; the models begin behind it.
* The hiring.cafe lane of the wide sweep and the walk of the LinkedIn backfill: cursors of the
  kind `WideSweep` and `BoardRotation` model, with the differences of section 5.
* The mirror of the Feed into `user_postings`, the sheet store and the tracker's other jobs: they
  write without versions, so that the last writer wins by design.
* Digest links, connections, bot runs, infrastructure: pure functions, text matching, logs.

## 7. Plan

1. `Entitlement`: suspension racing commands and their replays, over `Commands`.
2. The mirror's upsert over `Lifecycle`'s registers.

