# Verification of the YouTube processing pipeline

The repository (`src/codex_sdk_cli`, paths below are relative to that package) turns YouTube
channels into published, timestamped archives.  Everything it does is a *work item*: a row in
`work_items` with a task type, an idempotency key and a status, executed under a lease by a worker,
by the workflow coordinator, or inline by an API request, with one row in `work_attempts` for each
execution.  All processes share one SQLite database and coordinate through nothing else.

This directory holds TLA+ modules of that system, TLC configurations that check them on small
instances, and TLAPS proofs.

| file | what it is |
| --- | --- |
| `WorkExecution.tla` | the work tables, and everything that writes them while work is executed |
| `ClaimBoard.tla` | the abstract specification of claims that `WorkExecution` implements |
| `WorkflowCoordinator.tla` | a process-to-publish workflow, its stages and the coordinators that advance it |
| `StageCommands.tla` | the commands that enqueue the five stages of a video, and what becomes of their items |
| `ChannelIntake.tla` | the scheduler's tick, the video-collect command and the collection of a channel's uploads |
| `WindowValidation.tla`, `MicroEventExtraction.tla` | windows and model answers as pure definitions; attempts of extraction over them |
| `TimelineRepair.tla`, `TimelineComposition.tla` | drafts and their repair as pure definitions; attempts, patches and the stored rows |
| `ArchiveContents.tla` | what a publication makes of a stored timeline: the artifact and the catalog's rows |
| `ArchivePublish.tla` | publications writing objects, rows, the public catalog, indexes and pointers |
| `Subsequences.tla`, `SubsequencesProofs.tla` | parts of a sequence given by sets of positions, and lemmas about them |
| `WorkExecutionProofs.tla`, `WorkflowCoordinatorProofs.tla`, `StageCommandsProofs.tla`, `ChannelIntakeProofs.tla`, `MicroEventExtractionProofs.tla`, `TimelineCompositionProofs.tla`, `ArchivePublishProofs.tla` | theorems about the modules they are named after, proved for every value of the constants |
| `MC*.tla` with `Work*.cfg`, `Flow*.cfg`, `Stages*.cfg`, `Intake.cfg`, `MicroEvents.cfg`, `Timeline.cfg`, `ArchiveRaces.cfg` | small instances, properties that hold |
| `DocStageInput.cfg`, `DocStageOrder.cfg`, `DocScheduler.cfg` | small instances on which a sentence of the documents is refuted |

`TimelineRepair` and `WindowValidation` extend `Subsequences`; `ArchiveContents` extends `TimelineRepair` and is extended by `TimelineComposition`, so that one run
follows a model's draft to the rows that visitors search.  `WorkExecution` refines `ClaimBoard`.  The other modules
reduce the work engine to what it shows of an item: a status, an outcome, and whether somebody
executes it.

## Inventory

**Work execution engine** (`application/work/execution.py`, `workers/work.py`).  Keeps no state of
its own; a worker process runs `max_concurrency` slots.  A slot recovers expired leases once when it
starts and then polls: block dependents of failed items, claim one item, open an attempt, commit; run
the executor next to a heartbeat task and under the item's timeout; close attempt and item in one
transaction.  `run_inline` does the same for one named item without claiming by task type.  Hard:
several processes on one database, leases that run out under a live owner, crashes between claim and
completion, a heartbeat that fails.  Correct when a running item always has a lease that can be
recovered, runs under exactly one open attempt, starts only after its upstream items, and its
recorded result is the result of one of its attempts.

**Work item and attempt repository** (`infra/work/item_repository.py`).  `work_items`,
`work_attempts`, `work_item_dependencies`.  Claims are one UPDATE with a subquery; retry and cancel
are a SELECT followed by an ORM flush; recovery is a SELECT of ids followed by two UPDATEs by id;
creation is an INSERT that does nothing on a conflict of the idempotency key.

**Executors that record their own result** (`infra/work/execution_repositories.py`, and the
adapters `processing_execution.py`, `archive_execution.py`, `channel_execution.py`, `scheduler.py`).
Micro-event, timeline and archive executors, channel collection and video collection are older use
cases with a session of their own.  They record the terminal state of the attempt and the item and
commit; the engine then tries to record it a second time.  Hard: two writers of one row with
different snapshots of it.

**Operator commands** (`application/work/commands.py`): retry, rerun of a succeeded item, cancel.
**Cancel-pending** when a video becomes ineligible.

**API start-up recovery** (`infra/database/recovery.py`, `api/main.py`): closes what the last API
process left running, before requests are served.

**Workflow coordinator** (`application/workflows/coordinator.py`,
`infra/work/workflow_repository.py`).  `workflow_runs` with a lease of their own and
`workflow_steps`.  Claims a pending or waiting workflow and advances it through transcript collection,
cues, micro-events, timeline and archive publication: it creates a stage's work item only once the
previous one has succeeded, waits for workers, and runs the last stage inline.  Hard: coordinators
whose lease expired under them, steps that remember a status the item no longer has, executions that
outlive their lease and write over what came after them, retry of failed stages with a limit.  Correct
when every workflow ends, ends as succeeded only if every stage is, and never executes a stage early.

**Enqueue commands** (`application/transcripts/commands.py`, `application/processing/commands.py`,
`application/workflows/publish.py`).  Each looks up the newest succeeded item of the stage before,
makes an input of it, and creates, reuses or resets the item with that input's key; publication runs
what it scheduled inline.  Flags retry failures, rerun successes, recheck videos without transcript.
Hard: two commands create one key, what was looked up is canceled or run again behind the order,
results of one stage change under the items of the next.  Correct when a stage is never executed on a result that is not
there, and when an agent that keeps repeating the commands gets all stages to agree.

**Pipeline scheduler and channel collection** (`application/scheduler/use_cases.py`,
`domains/videos/use_cases.py`, `application/videos/commands.py`).  Each tick, for each active channel
that is due, creates or resets a video-collect item, runs it inline, and enqueues transcripts.  A
collection pages through the uploads, newest first, until the first stored one.  Hard: ticks that
die, uploads that shift the pages, hidden videos, two collections of one channel, and a collection
that records its result before the engine does.  Correct when no upload is passed over without one
of the known reasons, and every other upload is stored in the end.

**Micro-event extraction** (`domains/micro_events`, `infra/micro_events`).  Cuts a transcript's cues
into windows, asks a model for each with a few concurrent workers, normalises, validates and repairs
the answers, stores each window as it succeeds and all of them at the end; a later attempt resumes
what fits.  Hard: cues on the edges of windows, references that are misspelled, rounds of retries,
attempts that overlap, cues generated anew.  Correct when every cue is read, a stored window accounts
for each of its cues once, and a success is never lost.

**Timeline composition and patches** (`domains/timelines`, `infra/timelines`).  Normalises the
model's draft, splits broad episodes, repairs coverage by the model and then without it, arranges
blocks by meaning, validates, stores.  Patches edit what is stored; no route of the API offers them at
this commit.  Hard: drafts with any ranges, repairs that bring a defect about, reruns over the rows of
a deleted composition.  Correct when
what is stored covers every micro-event once and the blocks hold the episodes.

**Archive publication** (`domains/archive_publish/use_cases.py`, `infra/archive_publish`).  Timeline
object, artifact row, public catalog, index object, publication row, pointer object: six places, no
common transaction.  Hard: failures between any two, puts that go on after their execution has timed
out, two publications at once, names by the second.
Correct when readers can always fetch what they are pointed at, and nothing published is taken back.

**Transcripts, cues, ASR** (`domains/youtube_transcripts`, `domains/transcript_cues`,
`domains/asr`): external services and text processing; their executors are part of `StageCommands`.
**Prompts and domain knowledge**: CRUD.  **Operator queries, events, usage**: reads and an
append-only log.  **HTTP layer, Codex runtime and CLI**: parsing, wiring, a wrapper over an SDK.
**Legacy task and job domains** (`domains/video_tasks`, `domains/pipeline_jobs`,
`domains/process_publish`): not mounted by `api/main.py`, nothing calls them at run time.  The same is
true of the **patch use case** (`domains/timelines/patch_use_cases.py`): its route is mounted by
`tests/support/legacy_api.py` alone.  **Work model cutover**: an offline migration.

`PROJECT.json` lists every component with its status, and under `hazards` the lines at which each of
the hard behaviours bites.

## How the modules correspond to the code

### WorkExecution

One database transaction is one step, with the exception the code really has.  pysqlite opens a
transaction at the first DML statement, so a SELECT before it sees an older snapshot than the writes
meet.  Every unit of work that reads and then writes is therefore split into `...Read` and `...Write`
(`RecoverRead`/`RecoverWrite`, `ApiRecoverRead`/`ApiRecoverWrite`, `CommandRead`/`CommandWrite`,
`LoadRow`/`ExecutorRecords`).  Completion, claim and heartbeat write before, or under the same
predicate as, what they read, and are one step.  ORM writes go through `OrmWrite`: the session flushes
the columns that differ from the row it loaded, not the columns the caller assigned.

| variable | code |
| --- | --- |
| `item` | `work_items`: status, outcome_code, lease_owner, and lease_expires_at as none, live or expired |
| `attempts` | `work_attempts` in the order of attempt_no: worker_id and status |
| `runner` | what a worker slot, a coordinator's inline run or an API request is doing, with the claim it holds, the row its executor loaded and its heartbeat task |
| `found` | ids selected by a recovery that has not written yet |
| `request` | operator requests between read and write |
| `crashes` | a counter for the bound |

Items differ by how their executor records: `TaskRecorders` through `WorkVideoTaskRepository`
(micro-events, timelines, archives), `JobRecorders` through `WorkPipelineJobRepository` (video
collection, channels), the rest (transcripts and cues) through the engine.  `InlineItems` are never
claimed by a worker.  `ProcessOf` groups runners into operating-system processes: a crash, or a
rejected completion, which nothing in a worker catches, takes all slots of a process with it.

Abstracted: time (a lease is live or expired, and can expire at any moment), inputs, outputs and error
texts, priorities and the FIFO order of claims (any claimable item may be chosen), cool-downs and poll
intervals.  An executor is its verdict.  `get_or_create` and `add_dependency` are the initial state:
the items of an instance exist and are pending.

Timeline and archive executors refuse an item whose input has no `inputHash`
(`domains/timelines/use_cases.py:239`, `domains/archive_publish/use_cases.py:324`), before they record
anything, and no present enqueuer writes that key.  Such an execution is `ExecutorReturns("failed")`
from `claimed` in the model.  The recording path (`Relabels`, `ExecutorRecords` for an inline item) is
modelled as well, because items that carry the key would take it; one difference is under *Known
limits*.

### ClaimBoard

Who holds which item, and how many claims were granted.  `Grant` needs a free item; a claim can only
be released.  The mapping reads the holder off the newest attempt of a running item and the number of
grants off the length of its attempt list.  Refinement says that the pair of tables, written by
workers, recoveries, late executors and operators independently, still behaves like a lock.

### WorkflowCoordinator

One iteration of `_advance` is one unit of work.  All it reads it reads before its first write, so it
is `AdvanceRead`, which keeps the rows in the coordinator's record, and a write: `AdvanceWrite`
(`_ensure_stage_item`, `add_step`, and the transition of the workflow, one commit), `AdvanceCompletes`
(every step succeeded) or `AdvanceRaises` (an input or a dependency is missing, or another coordinator
inserted the step meanwhile; nothing catches it, and the process ends).

| variable | code |
| --- | --- |
| `run` | `workflow_runs`: status, lease_owner, lease_expires_at as none, live or expired |
| `step` | `workflow_steps`: the status last recorded of each stage, "none" without a row |
| `item` | `work_items` of the stages: status, outcome (no_transcript kept apart from null), number of attempts |
| `doing` | how many executions of an item workers have under way, those included whose lease was lost |
| `coord` | what a coordinator process is doing: the workflow it claimed, iterations left, what the iteration read |
| `produced` | history: items that have committed a usable result; read by no action |
| `commands`, `crashes` | counters for the bounds |

Items are what `WorkExecution` shows of them to a reader.  A running item may lose its lease at any
time (`ItemRecovered`), which includes executions whose worker is alive: `doing` counts them, and
`WorkerEnds` ends any of them.  The executors of the stages in `Recording` (micro-events, timelines and
archives in the code) write the item whatever its status is (`_complete` and `_fail`,
`execution_repositories.py:494`); what the engine records needs an item that runs, and so does a
failure before the executor has begun to record (`Drops`).  The verdict of an executor is
chosen from `Verdicts`, except in a stage of `Refused`, whose executor refuses the input it is given.
With `Refused = {}` the model assumes executors that accept the coordinator's input, as the
coordinator's own test does; at this commit it is `{4, 5}`, because `_stage_input` writes no
`inputHash`, which the timeline and archive executors require (see `doc_stage_input`).

`ItemOf[w][s]` stands for the idempotency key: the hash of the stage's input.  Two workflows for one
video share the items of the stages up to the first option in which they differ, which is what
`ItemAssumption` says: equal items have equal predecessors.

`workflow_runs` transitions are not fenced by owner or status (`_finish_transition`), and are
`OrmWrite`s of the row that was read.  `start.ps1` starts one coordinator; a second is what remains
when a scheduled start overlaps an old process, or an operator runs `codex-workflow-coordinator` by
hand.  Which properties need a single coordinator is said below.

Abstracted: time, stage inputs and outputs beyond "usable", the batch rows of a publish request, error
texts, `updated_at` (its effect, that the workflow that waited longest is claimed first, appears as
strong fairness).  Stage 1 is the only one with the outcome no_transcript.

### StageCommands

A command is read as two steps for each video, `Looks` (what it works from, and the row of the key if
there is one) and `Writes` (insert or reset, and the dependency, one commit).  Steps of other commands
may come between the two.  In the code they may not: a command inserts and flushes its batch row first
(`processing/commands.py:100`, `transcripts/commands.py:75`, `publish.py:63`), so that it looks up
inside a write transaction, of which SQLite lets one run at a time.  The model allows more than that,
and what is shown of it does not rest on the order in which a command writes its rows.  `Held` is the
row as its session holds it: what it saw, or, when another command's insert came first, the row that
it finds instead.

| variable | code |
| --- | --- |
| `items` | `work_items` of one video in the order of their ids: task, the options in the key (`choice`), the item named in the input (`source`), status, outcome, output |
| `needs` | `work_item_dependencies` |
| `available`, `stored` | languages YouTube has a transcript in, and languages whose transcript is stored |
| `composed` | timeline items with a row in `timeline_compositions` |
| `refused` | the tasks whose executors refuse the input of their items, chosen at the start among `Refusals` |
| `doing` | the item that a worker slot, or a client's publication, executes |
| `calls` | each client's command between its steps |
| `turn` | the stage that the agent comes to next (AGENT_WORK_RUNBOOKS.md) |
| `faults`, `surprises` | counters for the bounds |

`Latest` is `find_latest`: the succeeded item with the highest id.  The micro-event, timeline and
archive executors write the item whatever it is by then, the others only if it runs (`Accepted`).
The executors of the tasks in `refused` refuse the input that the commands write, and the engine fails
their items (`Fated`).  At this commit these are timeline and archive: no command writes an
`inputHash` (`processing/commands.py:230`, `publish.py:147`), and both executors require one before
they do anything else (`domains/timelines/use_cases.py:239`, `domains/archive_publish/use_cases.py:324`).
`refused = {}` stands for executors to come; the run `stages` has both, and `StagesGetInStep` promises
micro-events in the one case and a published archive in the other.
Abstracted: leases and attempts (`WorkExecution` has them), prompts and model options beyond one
choice, batch rows, and videos that share a transaction.

### ChannelIntake

| variable | code |
| --- | --- |
| `uploads`, `hidden` | YouTube: how many videos a channel's uploads playlist has, and which of them `videos.list` leaves out |
| `stored`, `transcripts` | rows of `videos`, and videos with a transcript_collect item |
| `passed` | history: videos a collection left out for ever (`PassedOver`: no details, or `Beyond` a limit); read by no action |
| `item`, `latest`, `fresh` | the status of a channel's two video_collect items (the tick's key and the command's), which of them is newer, and whether it completed within the interval |
| `proc` | what the scheduler's tick and the operator's request are doing: channels left, listing offset, pages read, the sets of candidates and of details |
| `batch`, `surprises` | the request's batch; a counter for the bound |

A listing page, a request for details and an insert of rows are steps of their own, so that uploads
and the other collection come between.  A page's offset counts from the newest upload, as a page
token does; `Uploaded` does not add so many during a listing that the next page would begin above
everything listed (fifty within seconds, in the code).  The item a tick runs is the newest of the channel, whichever command created it.
Abstracted: video metadata, embed status checks, the API key and its quota, the recheck of
no-transcript outcomes.

### WindowValidation and MicroEventExtraction

`WindowValidation` has no variables: `Windows` cuts cues into the windows of `_cue_windows`, `Verdict`
and `Ranges` judge an answer the way `output_validation.py` does: continued and misplaced entries are
merged, references are taken as they are or, if exactly one owned cue is one edit away, as that
one, and ranges must follow one another from the first owned cue to the last.  A cue's id is reduced to two digits,
enough for one edit to be ambiguous or not.

| variable | code |
| --- | --- |
| `cues` | the cues stored for the transcript |
| `item` | status of the work item |
| `rows` | `micro_event_extraction_windows`: status, first cue, last cue and count, and the ranges |
| `attempts` | each attempt's plan, results, windows in work, windows to call again, round and outcome |
| `faults`, `overlapped` | a counter for the bound; history: an attempt began while an earlier one was alive |

An attempt plans (`Plan` resumes or deletes), calls, stores each window with a transaction of its own
(`Accept`, `Reject`, `CallFails`), and replaces all of them at the end (`Store`), and records the item
whatever its status is by then (`Record`).  `TimesOut`, `Breaks`, `Crash` and `LosesLease` end it
anywhere.  Abstracted: texts, copy style, corrections of recognised speech, traces.

### TimelineRepair, TimelineComposition and ArchiveContents

`TimelineRepair` has no variables.  It follows the pipeline of `composition.py`: `Normalized`,
`PartsOf` and `SplitEpisode` (a broad episode split by the model), `RepairTarget` (the next range that
is unknown, overlaps or is missing) and `ApplyCoverage`, `ChunksOf` (the repair without the model),
`Arranged` (short breaks, daily chat after a game, closings, adjacent blocks of one type), `Storable`,
and the split of a block by a patch.  What texts tell the code is reduced to marks ("closing",
"game", "topics").

| variable | code |
| --- | --- |
| `stage`, `composition`, `targets`, `repairs` | where an attempt is, its episodes, blocks and topics so far, the broad episodes left, the repairs of the round |
| `given` | history: the normalised draft |
| `stored` | what the repository reads back of the composition of the item |
| `newest`, `orphans` | whether its row is the last of `timeline_compositions`, and the rows that a deleted composition left under the id the next row will get |
| `patching`, `patches`, `reruns` | what a patch request has read; counters for the bound |

`newest` and `orphans` are there because no connection of the program switches foreign keys on and no
table is AUTOINCREMENT: `delete_composition` deletes one row, and SQLite gives its id away again.

`ArchiveContents` builds the artifact of `_timeline_artifact` and the rows of
`_public_catalog_timeline_index` from a composition; both are functions of it.  A micro-event's
place in the stream stands for its times.

### ArchivePublish

| variable | code |
| --- | --- |
| `artifacts`, `publications` | `archive_video_artifacts` and `archive_index_publications`, in the order of their ids |
| `timelines`, `indexes`, `pointers` | objects in the bucket, under the keys of the code: the prefix of a profile, a video and a second; a profile and a second; a profile and an environment |
| `catalog` | the artifact the public catalog shows of each video |
| `embeddable`, `clock` | videos that may be shown, the second |
| `pub` | per publisher, the step it is at and what it has read |
| `late` | executions that timed out in a put of an object whose thread goes on |
| `active`, `catalogOn` | the publishers of this behaviour, whether the catalog is synchronised |
| `built`, `checks` | counters for the bounds |
| `blocked`, `cut` | history: videos that were once not embeddable; profiles of which a timeout has cut off a put of an index or pointer, until their rows are next read with no such put under way |

Each await is a step, and `Fails` may follow any of them.  `save_json` runs the put in a thread
(`infra/archive_publish/storage.py:101`), and the item's timeout cancels the await and not the thread
(`application/work/execution.py:228`): `TimesOut` ends the execution and leaves the put in `late`, from
where it lands at any later time (`Lands`), after later publications as well, or never (`IsLost`).

A request names its publish mode and its environment independently (`publish.py:149`).  The mode
chooses the *profile*, a bucket and a prefix; the environment is a column of the rows.  `Targets` are
the pairs that are asked for: an environment may be published under two profiles, whose indexes then
list the same rows, and a profile may hold two environments, because object keys other than the
pointer's do not contain the environment.

A request to the public catalog is assumed not to be applied after a later one: one that times out, or
raises, has been applied by then or never will be (`UpsertCatalog`, `MarkSyncFailed`).  What the
catalog's server does with a request that its client has given up is not in this repository.

## What the runs check

All instances but `Intake.cfg` and `DocScheduler.cfg` set `CHECK_DEADLOCK FALSE`: the system really
stops when all work has ended and the bounds on crashes, retries and changes are used up.  A scheduler
never stops ticking.

| run | instance | result |
| --- | --- | --- |
| `work_races` | one engine-recorded item, two workers in two processes, two concurrent operators, 2 attempts, 1 crash | tables consistent, verdicts final |
| `work_inline` | one archive item, a coordinator and two requests of the API process, one operator, 2 attempts, 1 crash | the whole inductive invariant, and starts implement `ClaimBoard`, with the relabelled lease, and the API's recovery after both requests died with the process |
| `work_liveness` | a pair cue, micro-event; one worker, one operator, 2 attempts each, one crash, fairness | no stage before its upstream; pending items are served, leases that expired before a start are recovered |
| `flow_two_coordinators` | three stages, two coordinators that lose their lease to each other, executions that outlive their lease, 1 operator command | the inductive invariant, no stage before its upstream, success is published |
| `flow_liveness` | one coordinator, one workflow with retry_failed, executions that outlive their lease, 1 crash, 1 operator command, fairness | the retry is made once, an ending is final, it settles or for a listed reason never, and is published unless an executor fails or an item is canceled |
| `stages` | five stages, two languages, one slot per task, an agent and another client, executors that refuse the last two stages or accept them, 1 fault, 1 surprise, fairness | one row per key, no stage before its source; in the end the stages agree, as far as executors accept, or for a listed reason never |
| `intake` | two channels with up to 3 and 1 uploads, pages of one, limits of two, 2 surprises, fairness | every hole has a known cause, every other upload is stored |
| `micro_events` | four cue lists, 11 answers, two workers in an attempt, one round of retries, 2 attempts, 1 fault, fairness | no cue lost, stored windows partition their cues, success is complete, successes are kept, attempts end |
| `timeline` | micro-events one of which has a mode no block has, drafts of three episodes with every combination of ranges and four layouts of blocks, one hopeless and one crowded draft, repairs that may answer anything, two patchers, 2 changes | see the properties below |
| `archive_races` | two publishers and videos, three targets of two profiles and two environments, 2 executions, 2 seconds, 1 change of embed status, puts that land late | readers resolve; alone, nothing is taken back but by a put that outlived its timeout |
| `doc_stage_input`, `doc_scheduler` | | see *Sentences of the documents* |

Properties, each about something that takes several steps or several actors to violate:

* `RunningIsClaimed`: a running item runs under its newest attempt, which is open, and under that
  attempt's lease.
* `SucceededHasAttempt`, `SucceededAttemptIsFinal`: success is recorded on an attempt, and is not
  rewritten by a recovery or by a late completion (the latter only where the engine alone records:
  executors of their own may overwrite their attempt).
* `ClaimsAreExclusive`: the tables implement `ClaimBoard`.
* `StartedAfterUpstream`: through retries and reruns of the upstream item and cancellations, an item
  has an attempt only if each upstream item once succeeded (for engine-recorded upstream items).
* `CreatedAfterUpstream`, `SucceededIsPublished`: two coordinators write the same workflow from rows
  that either may have changed since, while operators rerun and cancel items behind recorded steps.
  No stage has an item before every earlier one has had a usable result, and a succeeded workflow has
  published.
* `RetriedOnce`, `EndedStaysEnded`: with one coordinator, the limit on automatic retries counts
  attempts, not resets, and survives a crash between the reset and its record, and each command of an
  operator adds one try at most; an ending is final.
  With two, a stale write may record an ending over another one.
* `StartsAfterItsSource`: a worker starts an item only while the item its order was made from has a
  usable result, whatever commands and cancellations come between the order and the start.
* `WorkflowSettles`: every workflow ends in the end.  Excused are two kinds that never do.  Of an
  *orphaned* one (`Orphaned`) the coordinator or a worker was restarted within the lease.  Of the other
  kind (`TakenBack`) a stage that its step remembers as succeeded has lost its result, to the late
  failure of an execution that had lost its lease or to an operator's rerun: if the next stage has no
  step yet, each claim of the workflow ends its coordinator; if it has one, with retry_failed, the
  coordinator resets its item at each poll and a worker blocks it again.
* `WorkflowPublishes`: a requested workflow is published, unless it is orphaned, an executor fails, a
  lease is lost, an item is canceled, or there is no transcript.  Executors are assumed to accept the
  coordinator's input (`Refused = {}`); `doc_stage_input` shows what happens with those of this commit.
* `StagesGetInStep`: an agent that keeps calling the commands in turn gets each stage's newest result
  made from the newest result of the stage before; up to the micro-events with the executors of this
  commit, up to the published archive with executors that accept what the commands order.  Besides
  their refusal there are four ways in which this code never gets there, which `Excused` lists.
* `HolesAreExplained`: an upload that is older than a stored one and not stored was passed over
  because it lies below where a limit stopped the listing or because YouTube did not return its details.
* `EveryUploadIsStored`: every upload is stored in the end, unless passed over, hidden, below
  as many hidden ones as a listing can take (`Shaded`), or on a channel whose item a crash left
  pending or an operator canceled.
* `NoCueIsLost`, `WindowsPartitionTheirCues`: every cue that lasts is owned by a window; a stored
  window accounts for each owned cue exactly once, and every event's evidence lies in its range.
* `SuccessIsComplete`, `SuccessfulWindowsAreKept`: without overlapping attempts, a succeeded item's
  windows are exactly those of the cues its last attempt read, and a stored success goes only when the
  cues were cut anew.
* `RepairedIsStorable`: a draft that needs no more repairs than both rounds may make without the model
  always becomes storable, whatever the model answers (`RepairsNeeded` counts them), unless the draft
  uses an id such as repairs make up.
* `TopicsResolve`, `SoundEpisodesAreKept`, `ArrangementSettles`: repairs leave no topic with a
  reference to what they replaced, or with fewer references than it needs unless the draft repeated
  one, and leave sound episodes alone, with the same exception; what is stored is a fixed point of
  the arrangement, if the first round of repairs sufficed.
* `StoredIsWhole`, `CatalogFollowsTimeline`: what is stored covers every micro-event once, its blocks
  hold its episodes, and the catalog built from it divides the stream as it does, however patches
  and reruns interleave.
* `ReadersResolve`: whatever the pointer, its index or the catalog refers to exists.
* `SuccessShowsAll`, `CatalogIsCurrent`, `ShownMovesForward`: with one publisher at a time, a success
  shows every video's newest artifact, failed executions' included; the catalog is never behind a row
  marked as synchronised; and nothing shown of a profile with one environment is taken back.  The first
  and the last except a profile in `cut`: the put of an index or pointer that outlived its timeout can
  land over what the same process has published since.  A publication that reads its rows when no such
  put is under way makes up for it.

The type invariants of `StageCommands` and `TimelineComposition` say more than types: no two rows
share a key; every range a repair writes lies among the micro-events, and every mode and kind is one
that the tables accept.

### Bounds

* `MaxAttempts = 2`: a late owner of the first attempt meets the owner of the second, which is the
  situation every race in the code is about.  One crash lets a restart race its leftover claim.
  Executors that write the status alone (`JobRecorders`) are in no instance; the proofs include them.
* Three stages are the smallest number with a first stage, one in the middle and the inline one; the
  code's five are used in `doc_stage_input`.  Two workflows that share items are in no instance (their
  states are too many); `FlowInvariant`, `EndedStays` and `RetriedOnceAtMost` are proved for any sharing.
* Workflows that lose an execution to its lease need a second attempt and a late end of the first, which
  `RetryFailed` gives without an operator; `Recording = {2, 3}` has a stage whose executor records itself
  in the middle and at the end, and the first recorded by the engine.  In `flow_liveness` an operator's
  command takes a result back as well.
* `stages`: two languages let a request for the other one come between; one surprise is one command or
  cancellation, one fault one failed execution or dead process.  With one model, timelines differ by
  their source alone.
* `intake`: `PageSize = 1`, `PageLimit = 2` and `CandidateLimit = 2` (50, 10 and 500 in the code)
  make three uploads reach every limit, and shift pages by one.  The second channel is there to be
  starved by the first; the operator selects the first one, where two collections can meet.
* `micro_events`: three cues with a straddling one, an empty slot, cues without duration; windows of
  six units.  Answers include each error of the validation and each repair.
* `timeline`: three micro-events of different modes and kinds; thresholds scaled to three and four
  (9 and 12 in the code), chunks of 2 (4), repair limits 1, 2 and 3 (3, 8 and 32), so that they are
  exceeded.  Two changes are two patches, two reruns, or one of each.
* `archive_races`: two executions in two seconds overlap, follow each other, or share a second; the
  first may time out in a put that lands during or after the second.  `prod` is a target under both
  profiles, and `trial` holds both environments.

Symmetry is used in `work_races` (workers, operators), `timeline` (patchers) and `archive_races`
(publishers), where the symmetric values appear in no property; the only temporal formulas checked
there are step formulas `[][...]_vars`.

### Fairness

`start.ps1`, run every five minutes by a scheduled task (`scripts/local-home/register-task.ps1`,
docs/LOCAL_NATIVE_DEPLOYMENT.md:167), starts missing processes: weak fairness of `Restart`.  A started
slot recovers and polls in a loop: `RecoverRead`, `RecoverWrite`, `Claim`, `PollBlocks`.  `asyncio.timeout`
ends every execution: `ExecutorReturns`.  The engine then completes: `MarkFinished`,
`CompletionRejected`.  Nothing is assumed fair about a crash, an operator, a lease running out, or a
heartbeat.

For workflows, the coordinator's process is started by the same task (`Restart`) and its loop claims
and advances (`RecoverExpired`, `AdvanceRead`, `AdvanceWrite`, `AdvanceCompletes`, `AdvanceRaises`,
`AdvanceExceeded`, `InlineStarts`).  `Claim` of each workflow is strongly fair: `claim_next` orders by
`updated_at`, so that two waiting workflows take turns.  Workers serve pending items and their
executors end (`WorkerStarts`, `WorkerBlocks`, `WorkerEnds`, `InlineEnds`).  `ItemRecovered` and
`RunLeaseExpires` are not fair, and neither is `WorkerDies`.  Both liveness properties let a workflow
escape that is *orphaned*: its coordinator was restarted within the lease, and nothing recovers it
before the next start.

For stages, the agent keeps calling (the runbook's loop), a request is carried on by the event loop,
slots poll and executions end.  For intake, the scheduler's process ticks (`Tick`), the event loop
carries a request on, and the interval of a channel elapses strongly fairly: the model lets time pass
only when no channel is due, because the interval is far longer than the ticks that visit all
channels.  For micro-events, an attempt that is not interrupted goes on.  Faults, other clients,
operators, uploads and claims of a new attempt are never fair.  `timeline` and `archive_races` check
safety only.

### Sentences of the documents that the code does not keep

| run | sentence | what happens |
| --- | --- | --- |
| `doc_stage_input` | "workflow runs coordinate one video through all downstream stages" (PROJECT_OVERVIEW.md:21) | the timeline and archive executors require an `inputHash` that `_stage_input` does not write: with executors that otherwise succeed, the workflow fails.  The enqueue commands do not write it either (`stages`), although the pipeline "composes a navigable timeline, and publishes a public archive" (PROJECT_OVERVIEW.md:5) |
| `doc_scheduler` | "enqueues bounded transcript work for new videos" (YOUTUBE_DATA_PIPELINE.md:47) | `NewVideosGetTranscripts`: the collection records its own success, the engine's completion raises out of the tick, and the transcript command after it is never reached |

Seen in the code while modelling, and not kept as runs:

* Work.  "Workers recover expired leases." (AGENT_WORK_RUNBOOKS.md:92): only when a slot starts
  (`workers/work.py:60`); crash, restart within the lease, and the item is running for good; the same
  holds of workflows (`workers/workflow_coordinator.py:35`).  "`canceled`: operator or eligibility
  policy stopped execution." (YOUTUBE_DATA_PIPELINE.md:27): the executor of a canceled running item
  writes succeeded over it, and canceling leaves the attempt running (`item_repository.py:409`).
  The engine owns terminal state recording (CLEAN_ARCHITECTURE.md:61): after a self-recording
  executor the item is already terminal, and the engine's completion raises out of the worker.  A
  micro-event executor that sees its own timeout records timed_out on the item but failed on the
  attempt (`domains/micro_events/use_cases.py:1158`; YOUTUBE_DATA_PIPELINE.md:25 says both).
* Workflows.  The loop of `_advance` is bounded by the number of stages and the last one needs two
  iterations (`coordinator.py:95`): a request that reuses the first four items publishes in the fifth
  and then raises.  "Poll ... until terminal." (AGENT_WORK_RUNBOOKS.md:11): when an upstream item is
  rerun and fails, the coordinator resets the blocked stage at each poll, a worker blocks it again,
  and the limit on retries never counts it.  No operator is needed for this: an execution that lost its
  lease fails the item over the success of its retry (`execution_repositories.py:517`).  If the next
  stage has no item by then, its dependency is not ready (`coordinator.py:300`), and each coordinator
  that claims the workflow ends.
* Commands.  `find_latest` goes by id: back from language B to an earlier language A, the newest
  result stays B's.  A newer request that found no transcript hides an older one that did.  A rerun
  of a transcript item reuses the stored transcript and fetches nothing, and a rerun upstream leaves
  the stages after it "already succeeded".  Canceled items are never reset by a command.  The first
  inline archive's success raises out of the command, and leaves its batch pending.
* Intake.  A canceled item fails every tick before later channels are reached, and a crash between
  the commit of a pending item and its start makes every later tick skip the channel.  Two hidden
  newest videos that fill the candidate limit keep older ones out.
* Micro-events.  A rerun of a success resumes every window and calls the model for none
  (AGENT_API_OPERATIONS.md:14 asks for it when a result must be regenerated).  A cue without duration
  on a boundary belongs to no window.  An attempt that outlives its lease overwrites the newer one's
  windows.
* Timelines.  A rerun deletes the stored composition before the model is asked.  If that was the
  last row of its table, the new composition gets its id, finds its blocks under it, and since blocks
  are always numbered from one it violates `uq_timeline_blocks_key`: it is never stored, and neither is
  the next composition of any other video.  It is this collision that keeps two compositions from
  being mixed, and `StoredIsWhole` true.  Normalisation counts a topic's references without looking for repeated
  ones (`normalization.py:301`), and a repair that replaces any episode drops the repeated ones without
  counting again (`episode_repair.py:449`): a topic that names one episode twice is kept, and one
  reference is left of it.  A draft with more than `FallbackLimit` defects is rejected.  The patch
  use case, which no route of the API reaches, would let the later of two patches undo the other
  silently, and one that lands between a rerun's deletion and its store bring the deleted composition
  back.
* Publication.  Two publishers can move the pointer back to an older index, and so can a single one
  whose execution timed out in a put that lands after its next publication.  "Index and timeline
  objects are immutable." (ARCHIVE_PUBLISH.md:15): names are by the second and without the
  environment, so that two builds within a second write one object.

### Mutations

A definition of the left column in the place of the one in the middle is a plausible bug; the run
finds the property on the right violated.

| instead | of | run: property |
| --- | --- | --- |
| `OpenPending`: an attempt opened with the item's old status | `OpenAttempt` | work_races: `TypeOK` |
| `OpenFirst`: a retry reuses the first attempt | `OpenAttempt` | work_races: `RunningIsClaimed` |
| `CloseOpen`: completion skips an attempt that recovery closed | `CloseAttempt` | work_races: `SucceededHasAttempt` |
| `CloseOf`: recovery closes every attempt of the worker, not only open ones | `CloseRunning` | work_races: `SucceededAttemptIsFinal`; work_inline: `WorkInv` |
| `StartInlineAnyStatus`: an inline start without the status condition | `Startable` | work_inline: `ClaimsAreExclusive` |
| `NotFailedDependency`: claim unless an upstream failed | `DependenciesSatisfied` | work_liveness: `StartedAfterUpstream` |
| `FailedByStatus`: a success without result does not block dependents | `FailedDependency` | work_liveness: `PendingIsServed` |
| `LeftRunning`: recovery closes the attempts only | `Recovered` | work_liveness: `ExpiredBeforeRestartIsRecovered` |
| `RetriesTwice`: an off-by-one in the limit on attempts | `RetriesLeft` | flow_liveness: `RetriedOnce` |
| `ItemAsRead`: the stage's item is not looked up again after the INSERT | `StageItem` | flow_two_coordinators: `FlowInv` |
| `DependencyKnown`: the stage before exists | `DependencyReady` | flow_two_coordinators: `CreatedAfterUpstream` |
| `HastyOutcome`: a running publication counts as done | `Outcome` | flow_two_coordinators: `SucceededIsPublished` |
| `PatientOutcome`: a stage that failed or timed out is waited for | `Outcome` | flow_liveness: `WorkflowSettles` |
| `ClaimableOnce`: waiting workflows are not polled | `Claimable` | flow_liveness: `WorkflowPublishes` |
| `ClaimableAgain`: failed workflows are claimed, whatever their lease | `Claimable` | flow_liveness: `EndedStaysEnded` |
| `MarkSyncError`: the error text in the place of the status | `MarkSyncFailed` | archive_races: `TypeOK` |
| `RowBeforeObject`: the row first, then the object | `InsertArtifact` | archive_races: `ReadersResolve` |
| `NewestSynced`: only rows whose catalog synchronisation is done are listed | `Newest` | archive_races: `SuccessShowsAll` |
| `MarkSyncedEarly`: marked before the request is answered | `MarkSynced` | archive_races: `CatalogIsCurrent` |
| `ReadOwnOnly`: an index of what this execution has published | `ReadIndex` | archive_races: `ShownMovesForward` |
| `EnqueueListed`: transcripts for what was listed, stored or not | `EnqueueTranscripts` | intake: `TypeOK` |
| `CreateNewestRow`: one row is committed before the next is inserted | `CreateRows` | intake: `HolesAreExplained` |
| `SkippedAfterFailure`: a failed collection is not tried again | `Skipped` | intake: `EveryUploadIsStored` |
| `ReleasedCall`: a window under repair is not released | `Released` | micro_events: `TypeOK` |
| `WholeSlots`: no slot for the rest after the last whole window | `Slots` | micro_events: `NoCueIsLost` |
| `CoversOverlapping`: ranges may overlap | `CoversInOrder` | micro_events: `WindowsPartitionTheirCues` |
| `ResumableByIndex`: windows are resumed by their index | `Resumable` | micro_events: `SuccessIsComplete` |
| `ResumableWhenComplete`: windows are resumed only if all of them are there | `Resumable` | micro_events: `SuccessfulWindowsAreKept` |
| `RoundUncounted`: rounds of retries are not counted | `NextRound` | micro_events: `ExtractionEnds` |
| `InvalidTargetUnclipped`: the range that replaces an unknown one is not clipped | `InvalidTarget` | timeline: `TypeOK` |
| `OverlapTargetOfLater`: only the later of two overlapping episodes is replaced | `OverlapTarget` | timeline: `RepairedIsStorable` |
| `TopicsOfFirst`: only the first of the replaced episodes is replaced in topics | `CoveredTopics` | timeline: `TopicsResolve` |
| `FromTheFirst`: an overlap is repaired from the first episode on | `FirstOverlapping` | timeline: `SoundEpisodesAreKept` |
| `ArrangedOnlyOnce`: what the second round of repairs leaves is not arranged again | `CoverByChunksEnds` | timeline: `ArrangementSettles` |
| `StoreUnvalidated`: the composition is stored as it is | `Store` | timeline: `StoredIsWhole` |
| `BlockIndexOfFirst`: a block's row ends with its first episode | `BlockIndex` | timeline: `CatalogFollowsTimeline` |
| `RowSeen`: the row is inserted if the command has seen none | `RowFor` | stages: `TypeOK` |
| `NotRefused`: only a dependency that failed keeps an item back | `Satisfied` | stages: `StartsAfterItsSource` |
| `ShouldResetFailed`: a blocked item is not reset | `ShouldReset` | stages: `StagesGetInStep` |
| `ScheduledNow`: an archive is run only by the command that orders it | `Scheduled` | stages: `StagesGetInStep` |

## What is proved

`WorkExecutionProofs` proves, for all sets of items, runners and operators, all dependency relations
and all bounds:

| theorem | statement |
| --- | --- |
| `Invariance` | `Spec => []WorkInv` |
| `TypeCorrect`, `RunningHoldsLeaseAlways`, `RunningIsClaimedAlways`, `SucceededHasAttemptAlways`, `StartedAfterUpstreamAlways` | conjuncts of `WorkInv` |
| `SucceededAttemptIsFinalAlways` | `Spec => SucceededAttemptIsFinal`, an action property |
| `ClaimsImplementBoard` | `Spec => ClaimsAreExclusive`: every step grants one free item, releases some, or changes nothing |

Assumptions: runners are partitioned by kind; a task records through one repository; NULL and the
archive label are not runners; the API process runs API requests only (`ApiAssumption`).  The last one
is used: `recover_interrupted_running_work` closes attempts by worker id, and would be wrong if a
coordinator shared the process that it restarts with.

Why the invariant is what it is.  `RunningIsClaimed` is not inductive, for four reasons, each of which
is a conjunct of `WorkInv`:

* A late owner completes by attempt number.  `HoldersOwnAttempts`: whoever holds a claim opened the
  attempt it names, and nobody else records that attempt as succeeded.
* An executor flushes the difference to the row it loaded.  `LoadedRunning`: that row was running, so
  that a terminal verdict is always a difference and reaches the table; for executors that load
  without looking at the status, unless the item has left its attempt behind.
* A retry or cancel flushes the difference to the row it read.  `RequestsPending`: the status it
  writes is always a difference.
* The API's recovery closes attempts by worker id and items by the ids it selected.
  `ApiRecoversFirst`: no API request runs while it recovers, and every running item whose newest
  attempt is the API's is among the ids, so that an attempt is never closed under a running item.

The step lemmas split a step by what it does to an item (`StepKinds`: claims it, completes it,
releases it, leaves it running) rather than by action, and each conjunct is proved from the kinds.

`WorkflowCoordinatorProofs` proves, for all sets of workflows and coordinators, any number of stages,
any sharing of items that `ItemAssumption` allows, and all bounds:

| theorem | statement |
| --- | --- |
| `FlowInvariant` | `Spec => []FlowInv` |
| `StagesFollowUpstream` | `Spec => []CreatedAfterUpstream` |
| `SuccessIsPublished` | `Spec => []SucceededIsPublished` |
| `EndedStays` | `Spec => EndedStaysEnded`, an action property, if there is one coordinator |
| `RetriedOnceAtMost` | `Spec => []RetriedOnce`, if there is one coordinator |

No coordinator is excluded by a lock or a fence in this proof.  The argument is that what a coordinator
has read is *stable*: items are never deleted and results never taken back (`Grows`, of every step),
so that "the item I saw exists", "the stage before mine has had a result" and "the publication I saw
succeeded has happened" (`SeenFacts`) are still true when it writes, whatever was done to the rows.
`ItemFacts` and `StepFacts` carry those facts from the tables to the reader.  `DoingFacts` says what is
left to rely on of executions whose lease is lost: their items exist and are not executed inline, so
that what they write late, over whatever the row has become, is a worker's result.  That is also why
`CreatedAfterUpstream` speaks of results that *were* produced: an operator may rerun an upstream item at
any time, so that nothing stronger about its present status is true.

The last two are about one coordinator, because with two they are false: nothing fences a write, and
a coordinator whose lease ran out may record an ending over another one or reset an item it saw fail.
With one, `Working` says that the workflow it writes has not ended: the read, which looks, and the
write are its own.  `RetryInv` bounds the tries of an item by a cap, two where some workflow asked for retries and
one elsewhere, and one more for each command of an operator, and says that a pending item has a try
left.  Of the row that a coordinator has read as failed, `SeenRow` says the same with the tries that it
read in the place of the cap: late executions may end the row again, but only an operator, whose
command is counted, has it started, so that a reset written over it leaves it within the bound.

`StageCommandsProofs` proves, for any languages, models, flags, slots, refused tasks and bounds:

| theorem | statement |
| --- | --- |
| `StageInvariant` | `Spec => []StageInv` |
| `StageTypes` | `Spec => []TypeOK`: among others, no two rows share an idempotency key |
| `StartsAfterSource` | `Spec => StartsAfterItsSource`, an action property |

What a command has looked up may be reset, canceled or rerun before it writes; but a row keeps its key
and its dependencies (`Grows`).  So `StageInv` says of an order in a client's hands, and of a row in
the table, that the item it was made from exists and is among its dependencies (`OrderFacts`,
`Ordered`), and that a result names a stored transcript (`Resulted`); whether that item is still usable
is looked at again when a worker claims (`Satisfied`).  `NameAssumption` tells slots from clients, and
NULL from outcomes.

`ChannelIntakeProofs` proves, for any number of channels and uploads, any page size and limits:

| theorem | statement |
| --- | --- |
| `IntakeInvariant` | `Spec => []IntakeInv` |
| `IntakeTypes` | `Spec => []TypeOK` |
| `ExplainedHoles` | `Spec => []HolesAreExplained` |

The invariant is about one listing: what it has found is an unbroken stretch of the channel
(`Unbroken`) that the next page adjoins (`Adjoins`), however uploads shift its pages, and when it is
over, nothing below the stretch is unstored unless a limit stopped it (`Listed`).  A second collection
of the channel may store rows meanwhile; they can only be above or in the stretch, and in the latter case
the inserts conflict.  `NoKey`: NULL is not a key.

`MicroEventExtractionProofs` proves, for any cue lists, any answers, any
length of windows, any numbers of attempts, workers and rounds:

| theorem | statement |
| --- | --- |
| `MicroInvariant` | `Spec => []MicroInv` |
| `MicroTypes`, `CompleteSuccess` | `Spec => []TypeOK`, `Spec => []SuccessIsComplete` |
| `PartitionedWindows` | `Spec => []WindowsPartitionTheirCues` |
| `EveryCueIsOwned` | `Spec => []NoCueIsLost`, if no cue starts before the first one or after the last one has ended |
| `KeptSuccesses` | `Spec => SuccessfulWindowsAreKept`, an action property |

Its first part is about the pure definitions of `WindowValidation`: the windows are the slots that own
a cue, the slot in which a cue starts owns it (`CueInWindow`), and ranges that follow one another contain every position once (`CoveredOnce`, by the smallest position
that is not).  `ValidRanges` is what the verdict lets through, whatever was merged or repaired before.
`MicroInv` says where each window of an attempt is (`InOnePlace`; all of them while it extracts), and,
as long as no two attempts overlap, that the stored successes are the results of the one that is alive
(`Alone`).  `CueAssumption` and `AnswerAssumption` are types: a transcript has a cue
(`_cue_windows` is not reached without), and answers are what the response schema lets through.  The
hypothesis of `EveryCueIsOwned` is the order in which transcripts list their cues.  The code relies on it and does not
look: a cue that begins after the end of the last one would be in no window.

`ArchivePublishProofs` proves, for all sets of videos, environments, profiles and publishers, any targets
(pairs of profile and environment that are asked for) and all bounds:

| theorem | statement |
| --- | --- |
| `PublishInvariant` | `Spec => []PublishInv` |
| `PublishTypes`, `ReadersAlwaysResolve` | `Spec => []TypeOK`, `Spec => []ReadersResolve`, for any number of publishers at once |
| `SuccessAlwaysShowsAll`, `CatalogAlwaysCurrent` | `Spec => []SuccessShowsAll`, `Spec => []CatalogIsCurrent`, about a publisher that runs alone |
| `ShownAlwaysMovesForward` | `Spec => ShownMovesForward`, an action property about a publisher that runs alone |

The argument is the order of the writes: an object is written before the row, index or pointer that
names it, and neither is ever deleted (`Grows`).  `PublicFacts` says so of what is public, `OwnFacts`
of what a publisher remembers, and both survive the steps of others.  That rows are published in the
order of their ids is true of a publisher that runs alone only: `AloneFacts` are what it read and
nobody has changed since, and `NewestFacts` that every video with a row has a newest one.  `LateFacts`
are about puts that outlive their execution: the rows and objects that a put refers to were there when
its execution came to it, and still are.  So `ReadersResolve` needs no exception, whenever such a put
lands.  The other two need one: a late put of an index or pointer can take what is shown back, and
`LateFacts` puts its profile in `cut` until a publication reads its rows with no such put under way.  The
exception of `ShownMovesForward` for profiles with several environments is needed too: a publication
for one of them can overwrite the index that the other's pointer names (within the second), and its
rows are not the other's.  With two publishers `SuccessShowsAll` and `ShownMovesForward` are false of
the code.

`TimelineCompositionProofs` proves, for any micro-events, drafts, answers, thresholds, limits and patches:

| theorem | statement |
| --- | --- |
| `TimelineIsInvariant` | `Spec => []TimelineInvariant` |
| `TimelineTypes` | `Spec => []TypeOK` |
| `TopicsAlwaysResolve` | `Spec => []TopicsResolve` |
| `StoredIsAlwaysWhole` | `Spec => []StoredIsWhole` |
| `CatalogAlwaysFollows` | `Spec => []CatalogFollowsTimeline` |
| `StoredAsWritten` | `Spec => [][AsWritten]_vars`: a store is read back as it was written |
| `AttemptsStaySound` | `Spec => []AttemptSound`, the second inductive invariant |
| `RepairedAlwaysStorable` | `Spec => []RepairedIsStorable`: a draft that needs no more repairs than both rounds may make becomes storable, whatever the model answers |
| `SoundAlwaysKept` | `Spec => []SoundEpisodesAreKept`: what was in order in the draft is still there |

Most of the work is in the lemmas about the operators of `TimelineRepair`: what each of them keeps, for
any episodes, blocks and topics (`NormalizedDraft`, `SplitEpisodeKeeps`, `ApplyCoverageKeeps`,
`ArrangedKeeps`, `SplitBlockAfterKeeps`).  `RepairTargetIs` is the one that fails first if an end is
not clipped: whatever is not covered, the range chosen to be repaired lies among the micro-events and
begins and ends at episodes.  `TimelineInvariant` adds to the types what the next steps rely on:

* an attempt at work has an episode, because a repair at the end takes the block of the last one;
* the broad episodes still to be split have valid ranges, because their micro-events are looked up;
* topics resolve at every step, not only when the attempt stores;
* a composition about to be validated has blocks numbered from one (`Numbered`), so what is stored,
  left behind by a deletion, or held by a patch is nothing or `Whole`: storable, with distinct block ids
  and a block 1.  A store over what a deletion left behind therefore always collides (`Collides` on block
  1), and this is why two compositions are never mixed (`StoredAsItIs`).  The property alone is not
  inductive: without the block 1, or with patches that rename blocks, a composition could be stored over
  the children of another one.

The second invariant, `AttemptSound`, is about repair: that it comes to an end within its rounds, and what
it leaves alone.  It speaks of drafts whose ids are ids as the model gives them (`IdsAreGiven`).

* *Every repair is progress.*  `Work` counts what may still have to be repaired: nothing if the draft is
  covered, and otherwise one more than the `Slots`, which are the pairs of a position that is out of
  place, or behind one that is, and a micro-event at which a repair of that episode may begin.  A valid
  episode has one slot, one of unknown range two, one that is still to be split one for each of
  its micro-events.  `RepairWorks`: whatever `next_coverage_repair_range` chooses, the slots of the
  episodes that result are the images of distinct old slots, at least one of which is not among the images;
  `OneSlotLess` turns that into cardinalities.  `SplitWorks` and `SameOutlineWorks`: a split, and the
  arrangement of blocks, never add work.
* *The rounds suffice.*  `Within` adds up `Work` and the repairs tried without the model (`Effort`: of the
  round that runs, and a whole round for each that has ended) to no more than `RepairsNeeded` of the
  draft, unless no work is left.  After two whole rounds, no work is left.  The rounds with the model
  are not counted: each of its answers may be refused.
* *Ids tell parts from others.*  A repair removes a range of positions, but `_apply_coverage_repair` also
  looks at ids, and a split replaces by id.  `Families`: ids are distinct, and the episodes whose ids
  extend another's stand behind it in one run.  `Recoveries`: ids made up by a repair begin at the front.
  With both, what a replacement finds by id is what stands in the range (`SplitEntries`,
  `ExchangeEntries`); and a made-up id is a new one (`RecoveryIdIsNew`).  `Standing`: the broad episodes still to be split stand
  as they were given.
* *What was in order stays.*  An episode that is valid, not broad and shares no micro-event with others stands
  `Apart`: whatever stands before it ends before it, whatever stands behind it begins behind it.  It is
  then in no range that is repaired (`ApartRepaired`), in no split (`ApartSplitAt`), and the arrangement
  of blocks changes no episode's id, range or place (`ApartArranged`).

Neither property is inductive alone, and the two share the argument about ids.  That blocks hold their
episodes (`ArrangedBlocksHold`), the third part of `Storable`, comes from the last arrangement, and
nothing is repaired between it and the validation.

`CatalogOfWhole` follows the catalog's rows back to the composition: `BlocksSpan` says that the blocks of
a storable composition are consecutive stretches of its episodes (`Spans`), which the code never states,
and which makes a block's times those of its first and last episode.  `AnswersAssumption` is the response
schema and the check in `normalization.py`: at least one episode and one block, modes and kinds of the
enumerations.

`SubsequencesProofs` has the lemmas about sequences that these proofs and those of the micro-events share:
`Chosen` lists the entries at some positions in order, `Pieces` divides without loss and put together is
what was divided (`FlattenPieces`), and what a sequence of sequences put together has at each position, in
whichever order it is put together (`FlattenConcat`, `FlattenTwice`, `MappedFlatten`).  The library's induction theorems cannot be
instantiated here, so each of them is an argument about the smallest position for which it fails.

### Model-checked only

* Liveness: `PendingIsServed`, `ExpiredBeforeRestartIsRecovered`, `WorkflowSettles`, `WorkflowPublishes`,
  `StagesGetInStep`, `EveryUploadIsStored`, `ExtractionEnds`.  Fairness and `ENABLED` are beyond the
  provers.
* `ArrangementSettles`: arranging the blocks of a composition that is to be validated once more changes
  nothing.  It compares two runs of the whole arrangement, the second on the segments of the first; the lemmas
  say of a run that it keeps the episodes in their order, and not where it cuts.
* The sentences that are refuted, by their nature.

### What the proof attempts corrected

* `HolesAreExplained` and `passed`: with four uploads a collection that meets a limit while uploads
  shift its pages leaves videos out that the first version of `passed` did not count.  TLC found no
  counterexample with three; the step of `CreateRows` did not go through.  `PassedOver` now counts what
  lies `Beyond` the limit.  The same proof made explicit how many uploads a listing may see
  (`Uploaded`).
* `SuccessfulWindowsAreKept`: cues that were cut anew and all lack duration have no window, and an
  attempt on them deletes the stored windows when it stores, not when it plans.  The instance has such
  a cue list now (`Still`), and the property says so.
* `TopicsResolve`: a draft may repeat a reference of a topic, see the observation about normalisation
  above.  The instance had no such draft; it has one now.
* `EveryUploadIsStored`: a listing can be full of videos without details (`Shaded`).
* `RepairedIsStorable` and `ArrangementSettles`: the number of defects of a draft, which the first versions
  compared with a round's limit, does not bound its repairs.  A single episode out of place inside a broad
  one can take as many as the broad one has micro-events, and an episode of unknown range two.
  `RepairsNeeded` is the measure that every repair lowers.  And a composition the second round had to repair
  need not be settled: the repair may remove the block between two others, which the last arrangement
  joins, so that arranging once more would join or cut again.  The instance has such a draft now
  (`Crowded`).
* `RepairedIsStorable` and `SoundEpisodesAreKept` once more: a split replaces every episode that has the id it
  splits.  If the draft has an episode whose id is one that the split of another makes up, and both are
  split, the first split's part is replaced too, the second replacement stands there twice, and the repair
  of the overlap takes the sound episodes in between along.  Both properties say now that the draft's ids
  are given ones (`IdsAreGiven`).
  With that, the proof went through with the measure as it was: the work of a draft is at most its
  `RepairsNeeded` (`WorkOfDraft`), and every repair spends some of it.
* `TimelineRepair`: a chunk of the repair without the model takes over the mode its micro-events have in
  common only if blocks have such a mode (`coverage_repair.py:312`; a micro-event's may be "UNKNOWN"), and an
  episode's modes and kinds are counted without those that are missing (`semantic_repair.py:238`).  The
  model did neither, and no instance had such a micro-event; the step of `TypeOK` did not go through.  It
  has one now.

## Not modelled

Each component with its reason in `PROJECT.json`.  Left out of modelled parts: wording (titles, summaries,
copy style, corrections of recognised speech, review flags), traces, usage and events, batch rows,
the recheck of no-transcript outcomes by the scheduler, text edits of patches, direct edits of videos.

The definitions stand for about a seventh of the implementation.  Most of the rest decides nothing
that changes state: request and response schemas, ports and their adapters, read-only queries and
pages of the operations interface, generated clients, the Codex SDK's wrapper and command line,
transcript text processing, migrations and the legacy domains, of which `domains/video_tasks` alone
has sixteen hundred lines that nothing calls.  What is left with state of its own is CRUD of prompts
and domain knowledge, and the offline cutover.

### Known limits

* An instance has one video (`StageCommands`, `MicroEventExtraction`, `TimelineComposition`), one workflow
  (`WorkflowCoordinator`, whose proofs have any number), one item (`work_races`, `work_inline`) or an
  item and the one it depends on (`work_liveness`).
* Executions that have lost their lease and end late are in `WorkExecution` and `WorkflowCoordinator`; the
  executors of `StageCommands` do not overlap with themselves.  Micro-event attempts that overlap are
  modelled but excluded from two properties, because nothing fences their writes.
* `work_races` has items whose result the engine records; executors that record their own are in
  `work_inline`, and in the proofs.
* `Relabels` says that `mark_task_running` writes no status.  It reads the row a second time
  (`infra/work/execution_repositories.py:358`), so that it would write `running` over a row canceled or
  timed out since the first time.  No execution gets there at this commit: the archive executor, the
  only one to call it in the program, refuses the items that the commands and the coordinator make
  before it does.
* The patch route is mounted by tests only, so the patches of `TimelineComposition` are more than the
  program does.  `StoredIsWhole` and `CatalogFollowsTimeline` are about reruns and what they leave behind
  as much as about patches.
* A video removed from a channel between two page requests, which moves the pages up, is not in
  `ChannelIntake`; uploads, which move them down, are.
* A chunk's text is the events of its first and last micro-event and the topics of all.  `ChunkOf` gives it
  the marks of all of them: a micro-event's marks are what its topics say.  The cut of a chunk's topics at a
  number is not modelled.
* A request to the public catalog is applied when its answer comes, or its failure, and not later.
* Contents of objects are the number of the execution that built them.

## Plan

All modules of the first plan are written, and each has an inductive invariant that is proved.  Of the
properties that are safety properties, those listed under *Model-checked only* are left.  Then:

1. Batches: several videos in one transaction, and what `_batch_status` makes of them.
2. The scheduler's recheck of no-transcript outcomes, whose limit can starve later videos.
3. The prompt cache, which processes keep for some time after a prompt changes; the supervision of
   processes by `start.ps1` and their PID files.
