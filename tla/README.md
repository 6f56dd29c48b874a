# A TLA+ model of MetaProfile

MetaProfile builds profiles of technologies, organisations, persons and projects
from an ODS warehouse, public collectors and LLM calls. This directory models its
core in TLA+: the modules are checked with TLC on small instances (`*.cfg`), and
what matters most is proved with TLAPS for every value of the constants
(`*_proofs.tla`). Paths below are relative to `src/metaprofile/`; the table from
definitions to source lines is in `PROJECT.json` under `map`, the hazards each
property is for under `hazards`.

## The system

One FastAPI process (asyncio, one event loop), prefork celery workers (each with a
persistent event loop, `acks_late`, prefetch 1) and a celery beat. They share
PostgreSQL, Neo4j, Elasticsearch, the Doris ODS and an LLM gateway. A session of
PostgreSQL commits when its request handler or `get_session` block ends, or where
the code says so; a flush the database refuses leaves the session unusable until a
rollback. Nothing is transactional across two stores.

| Component | State it keeps | Operations | Talks to | What is hard | What makes it correct |
|---|---|---|---|---|---|
| ODS ingest pipeline (`ingest_ods/`) | profiles, ingest errors, tech evidence, watermarks in `config_json`, graph; in memory `_active_types` | a run over the tables of a source: extract, resolve, score, write, tech stage, relations, commit, finish | Doris, PostgreSQL, Neo4j, LLM, broker | overlapping runs, failures inside a batch, two sessions, crashes | no row skipped or claimed without cause; runs end |
| Collection runs (`shared/worker/collection_tasks.py`, `settings_api/services/collector_service.py`, the sweep of `backend/main.py`) | `collection_tasks` rows, `config_json` and `last_run_status` of the source | trigger, background task, celery job, sweep at start | ingest pipeline, REST and RSS sources, profile services | a background task that may start before its row is committed; crashes; whole-column writes of `config_json` | every row ends once and truly, or is swept; edits survive |
| Scheduler (`shared/scheduler/poller.py`, `settings_api/services/scheduler_service.py`) | `scheduled_task` rows | tick, run now, create, edit, delete | broker | overlapping ticks, lost rounds, edits in between | every fire served; edits kept |
| LLM enrichment, translation (`shared/enrich/`, `shared/worker/enrich_tasks.py`, `translate_tasks.py`, the `*_enrichment_service.py`) | profile columns, completeness, change log, `enrichment_tasks` | trigger, job, log; translate one or a batch | broker, LLM | read before and written after an LLM call; message before commit; redelivery | values a job has read stay; the log explains the row; every task ends |
| Profile services | profiles, change log | create, update, bulk import | PostgreSQL | one bad profile of a bulk import rolls back all before it | counted = stored, but for that |
| Frontier scan, verification, topics (`scan_monitor/`, `topic_selection/`, `shared/worker/scan_tasks.py`) | candidates, alerts, topics | scan, verify, sync to topics | LLM, broker | a scan that deletes while verifications and other scans run; a list read before its own flush | no verdict lost, no candidate left over, no topic without a verdict |
| New technology discovery (`new_tech_discovery/`) | weak signals, co-occurrence and network edges, emergence and disruption scores | extraction, scoring | Doris, LLM | overlapping or repeated jobs that replace rows without a lock | a signal stays one; edges are not doubled |
| Settings (`settings_api/`) | data sources, LLM configurations, connections | forms, default switch, tests | PostgreSQL | whole-column writes of shared JSON, concurrent defaults | watermarks and edits survive each other |
| Foundation storage (`foundation/storage/`) | three stores, outbox | save, delete, search | PostgreSQL, ES, Neo4j | one store of three fails | used by tests only |
| Foundation collectors (`foundation/collectors/base.py`) | throttle clock | get, post with retries | HTTP | retry and back-off at their limits | used by tests only |
| Text processing (disambiguation, cleaning, NER, extraction) and entity mining | none | pure functions | - | ties, order dependence | - |
| Gateways, queries, MCP server, front end, deployment | none of their own | read-only or wiring | - | - | - |

### The hard behaviours

* Overlap: runs of one source in one process or in several, ticks, task rows with their
  background tasks, jobs over one profile, extractions, scans and verifications. There
  are few locks but those of rows and unique indexes, which the modules model.
* Stale reads: `config_json`, profiles and schedules are read before an `await` or an LLM call and
  written after it; a verification reads what it has not flushed.
* Partial failure: a refused flush breaks its session; a message leaves before its row is
  committed, a count before its profiles; three stores share no transaction.
* Crashes: of workers (redelivery) and of the backend (a sweep at the next start, which cannot tell
  whose row it marks).

## Modules

| Module | Content |
|---|---|
| `OdsIngest` | The ingest pipeline: every step of `BatchOrchestrator.run`, `_process_batch`, the tech concept stage, content mining, the weak-signal hook, and how celery and HTTP runs commit and fail. |
| `IngestPromise` | What the pipeline promises about durable state, without sessions, batches, locks or processes. `OdsIngest` implements it (`PromiseKept`). |
| `CollectionTask` | The task rows around a run: trigger request, background task, celery job, sweep; users who edit or delete the source. Extends `BulkImport`. |
| `BulkImport` | `bulk_import` of the profile services as a function of its request. |
| `ProfileStore` | One profile between user updates, the ingest writer, enrichment jobs and translations. Extends `Completeness`. |
| `Completeness` | The completeness score and the threshold for enrichment. |
| `TaskLife` | What any task row promises to who watches it: it appears, ends at most once, and keeps its end. `CollectionTask` and `ProfileStore` implement it, each through a refinement mapping of its own (`LifeKept`). |
| `WeakSignals` | The extraction of weak signals as one transaction among others. |
| `Frontier` | Scans, verifications and topics. Extends `WeakSignals`, whose extractions go on meanwhile. |
| `Scheduler` | The tick with its row locks, `run_now`, and the task CRUD. |
| `MCOdsIngest`, `MCCollectionTask`, `MCProfileStore`, `MCFrontier`, `MCScheduler` | Instances for TLC. |
| `OdsIngest_proofs`, `OdsOutcome_proofs`, `BulkImport_proofs`, `CollectionTask_proofs`, `ProfileStore_proofs`, `WeakSignals_proofs`, `Frontier_proofs`, `Scheduler_proofs` | Proofs. |

Operators whose names end in `Bug` are seeded faults: plausible mistakes in the
definition that follows each. Nothing refers to them; they show that
every checked property can fail.

### OdsIngest and the code

`store` is what PostgreSQL has committed: `done` (source rows whose entity is in a
profile table), `errs` (rows an ingest error stands for), `evid` (rows whose
tech evidence is there), `wm` (`last_id:<table>`), `taskdb` and `recdb` (the task
row). `graph` is Neo4j and is written at once, outside any transaction. `env` has
the ODS, the broker, `_active_types` of each process and the crash counter. A run has
a program point `pc`, its loop variables `scan`, the entity at hand `ent`, the
uncommitted writes of its profile session `tx` (with those inside the SAVEPOINT in
`sp`), its copy of the source row `src`, and the relations of its batch `rel`.

| Code | Action |
|---|---|
| load of the source row, first table | `Start` |
| table loop, `extract_batch` | `NextTable`, `TablesDone`, `ExtractBatch`, `ExtractFails` |
| wait for and add to `_active_types` | `Acquire` |
| resolve; a failure is one error for the batch and a commit | `Resolve`, `ResolveFails` |
| entity loop: score, id, SELECT | `Select` |
| `write_profile`, node, index, structured triples; recorded failure; refused flush | `WriteOk`, `WriteFails`, `FlushBreaks`, `EntitiesDone` |
| tech concept stage in its SAVEPOINT | `TechRow`, `TechDone`, `TechFails` |
| relations of the batch | `Relate` |
| watermark, commit, counters, cap, discard of the type | `Commit`, `CommitFails` |
| mining, staging, hook, last commit | `Finish` |
| a process dies; the ODS grows | `Crash`, `OdsAppend` |

The grain is the `await`: a step of the model is what runs, or is sent to one
database, between two points at which another run may act. One step is coarser:
`TechRow` is the domain write, the LLM call and the concept flushes of one row, all in the
SAVEPOINT of the batch. It takes all its row locks or waits with none, so two runs that
deadlock inside one row, and a crash there, are not told apart from a row that fails
(`TechFails`) and from a crash before it: both undo the SAVEPOINT or the session in the
same way, and nothing of it is seen by anybody before the commit of the batch. Rows
keep their rank in key order instead of their key; an entity is a profile type and an
id, and is merged by id as its strong key; contents of profiles are the sets of rows
they were made from. The scores, mappings, LLM answers and relation rules enter as
constants or as a choice, since the control flow depends only on whether they fail.
Row locks and PostgreSQL's deadlock detector are modelled from how the writes use
them. Every write of an existing profile is taken to lock its row.

### Scheduler and the code

`task` is the committed table, `tick` the rounds in flight with the rows each has
flushed but not committed (`mark`), `manual` the `run_now` requests, `sent` the
messages dispatched by the time they stand for, `now` the clock in units in which
crons fire. `TickStart` reads the clock, `TickSelect` loads the enabled due tasks,
`TickFlush` or `TickWait` is the flush of `last_status = "running"`, which takes the row's lock,
`TickSend` and `TickSendFails` are `dispatch`, `TickCommit` the one commit of the
round, `TickLost` a round that ends on a row deleted meanwhile or on a deadlock, `TickCrash` a
dead worker or a lost commit. `RunNowSend` and `RunNowCommit` are the two halves of
`run_now`; `Edit` and `Create` are the forms. Tasks of an unregistered type
(`Known` says which are registered) are marked "ok" by a tick and "failed" by
`run_now`, and nothing is sent. PATCH may write any column; the model follows
`enabled` and `cron`, the two that a tick reads and decides by.

### CollectionTask and the code

`source` is the committed data source, `row` the committed `collection_tasks`, `req`
the trigger requests, `run` what executes them, `form` the forms users have open,
`stored` what the profile service has stored for a run. `unswept` remembers that a start of
the backend could not sweep; `began` in a run is history, the edits that were there when it
began.

| Code | Action |
|---|---|
| `trigger_collection`: flush, `create_task`, the request's commit | `Trigger`, `TriggerCommit`, `TriggerLost` |
| `_run_collection`: look for the row, branch on `source_type`, fetch, import, commit | `Look`, `Branch`, `Fetch`, `Import`, `Finish`, `FinishLost` |
| the warehouse branch: batches of the pipeline over the task's copy of the source | `Batch`, `BatchesEnd` |
| `_async_run_collection`: one session, a commit with each batch | `JobStart`, `JobBatch`, `JobEnd`, `JobCrash` |
| `update_datasource`, `delete_datasource` | `FormOpen`, `FormSave`, `Delete` |
| the backend dies; `_recover_orphan_collection_tasks` | `BackendCrash`, `Restart` |

A batch is a step that moves the watermark: what it does inside is `OdsIngest`. The
four fetched source types differ in how they parse, not in what they do with the
result, and are one. A profile of a fetched feed is good, refused by the database, or
not admitted by the request schema (`Kinds`); an empty one is dropped. `Answers` has
every outcome of the one import request, a lost answer included.

### ProfileStore and the code

A value is who wrote it: `Typed[w]` of a user or an import, or the job. `row` and `score` are the committed
profile, `log` the committed change log, `task` the `enrichment_tasks` rows. `Columns` are
the columns that the field specification of the type names, `Ghosts` what it names that is
no column of the table: setting such a field stores nothing and counts as filled. An entry
of the log is a function from the fields it names to what was put into them; those about
columns that no field specification names are left out. `Fits` are the fills whose
names, joined, are not longer than the log's `field` (64 characters).

| Code | Action |
|---|---|
| `update` of the profile services, which may also blank a column | `UpdateRead`, `UpdateCommit` |
| `write_profile` of the ingest pipeline on a profile that is there: mapped columns and blank defaults (`Mapped`, `Defaulted`), the completeness of the source row alone, one log entry | `IngestRead`, `IngestCommit` |
| `trigger` of the enrichment services | `Trigger`, `TriggerCommit`, `TriggerLost` |
| `enrich_one`, `LLMFieldFiller.fill`, the commit with its log | `Load`, `Answer`, `EnrichCommit` |
| what the LLM call's own `except` does not cover: a malformed answer, a value the column does not take, a fill too long for the log | `JobRefused` |
| `finish_task`, the failure path, acknowledgement, redelivery | `Finish`, `JobFails`, `MarkFailed`, `Ack`, `Crash` |
| `translate_name_one` | `Send`, `TranslateLoad`, `TranslateCommit`, `TranslateFails` |

### WeakSignals, Frontier and the code

`signal`, `pair`, `link` are the committed rows of an extraction, `cand` and `topic` the
candidates a scan made for a term, a domain or a demo row and the topics of a name (`Name`:
a demo row is named after a technology profile, as a term or another demo row may be). The transactions are READ
COMMITTED: a DELETE sees what is committed when it starts (`saw`), waits for a
session that has deleted one of these rows, and looks again at a row that has changed
(`Visible`, `Deletable`); the unique index on `signal_id` makes an INSERT wait for a session
that has inserted or deleted the same term, and refuses it when a row is left (`Refused`).

| Code | Action |
|---|---|
| `extract` in the celery task: compute, delete and insert the signals, edges, commit | `Compute`, `Delete`, `Insert`, `Network`, `Commit`, `Fail` |
| `trigger_scan`, `build_frontier_candidates`, `generate_frontier` | `ScanStart`, `ScanDelete`, `ScanFill`, `ScanRefused`, `ScanDemo` |
| `trigger_verify_frontier_tech`, `_async_verify`, `sync_validated_to_topics` | `VerifySend`, `VerifyLoad`, `Judge`, `Titles`, `VerifyCommit`, `VerifyCrash` |

A scan that cannot read an indicator falls back to demo rows with its deletion still
uncommitted, so `ScanDemo` follows a scan without candidates (`demo`) or ends one
that was filling (`fill`); a refused flush leaves no session to fall back with (`ScanRefused`).
A verification whose worker dies is delivered again, also after its commit (`VerifyCrash`).

What an extraction finds, which signals and domains a scan takes up and what the LLM says are left
open. The session factory sets `autoflush=False`: a verification reads back candidates and
titles as they are committed, without its own verdict.

## What the runs check

| Run | Instance | Shows |
|---|---|---|
| `ods_celery` | two celery runs one after the other, an unmapped, a profile and a tech table, up to 3 rows each, batches of 2, an anonymous and a refused row, all faults but the broker's (there is no hook), one crash | `TypeOK`, `NoSilentLoss`, `CrashConsistent`, `CompletedIsHonest`, `ImportedNeverOverstated`, `TechBatchAtomic`, `WatermarkAdvances`, and the refinement `PromiseKept` |
| `ods_backend` | two HTTP runs interleaving in one process, three tables, relations across them, a row cap, content mining, the hook | `NoSilentLoss`, `NoWaitInProcess`, `RelationsLand`, that the runs never all wait (`NoStandstill`) and that they end (`RunsFinish`) |
| `ods_workers` | two celery runs of one source at the same time in two processes, four companies and four patents whose second batch meets the profiles and concepts of the first in the opposite order: refused inserts, and deadlocks over both; no injected faults | `CompletedIsHonest`, `PromiseKept`, `RunsFinish`, `RowsEventuallyAccounted` |
| `ods_commit_lost` | an HTTP run, commits may fail | `NoSilentLoss` does not hold (finding 1) |
| `ods_bad_row` | celery runs, one refused row, no other fault | `EndedIsMarked` does not hold (finding 2) |
| `ods_containment` | celery runs, no fault | `ContainmentLands` does not hold (finding 3) |
| `collection` | one triggered task and one celery job over a source of any type, two users with its form, a deletion; two faults among backend crashes, lost commits, failed sweeps and job crashes | `TypeOK`, `ImportedIsStored`, `ErasesOnlyOverlapping`, the refinement `LifeKept`, that a pending row has somebody to end it (`PendingIsAttended`) and that triggered tasks end (`OpenTasksEnd`) |
| `profiles` | an update, an import of a source row, an enrichment with redeliveries, a translation; two columns and a ghost; one fault | `TypeOK`, `LogExplainsRow`, `SeenValuesStay`, `DoneIsLogged`, the refinement `LifeKept`, and that queued tasks end (`QueuedEnds`) |
| `discovery` | two extractions of two periods, two scans and two verifications, two terms, a demo row that has the name of one; one fault | `TypeOK`, `PairsOnce`, `SignalsStay`, `OldCandidatesGone`, `VerdictsKept`, `TopicsWereValidated`, `SyncedHaveTopics` |
| `frontier_topic` | an extraction of one term, a scan and a verification, no fault | `ValidatedHasTopic` does not hold (finding 5) |
| `scheduler` | two ticks, two tasks (one created during the run, of an unregistered type), two times, two changes by users or requests, one fault | `TypeOK`, `RanMeansSent`, `EditsKept`, and that every fire is served (`FiresServed`) |
| `scheduler_twice` | two ticks, nobody else, no fault | `SentOnce` does not hold (finding 4) |

**Bounds.** Two runs are enough for each way they meet: in sequence (resuming from a
watermark), in one process (lock), in two (row conflicts). Three rows give a full
batch, a partial one and a resumed table, four the two batches in opposite orders that a deadlock takes; ids repeat so that batches merge, update
and conflict. `MaxCrashes`, `MaxActive`, `MaxKey`, `MaxTime`, `MaxEdits` and
`MaxFaults` are the only bounds, each a guard of one action or in `Fault`. In `Scheduler` two times
are enough for a late tick to overwrite a later `last_run_at`, two ticks for a
deadlock and for one to wait behind the other. In `CollectionTask` and `ProfileStore` one
task of each kind meets every kind of writer there is; two forms are enough for one edit to be erased and
another to be kept. In `ProfileStore` the update names one column and the import is mapped to
the other and may blank both, so that each overwrites what the other, the job and the translation wrote, with one
value for all of them. `MaxMark`, `MaxFaults` and the sets `Feeds`, `Finds` and `Pairs` bound them; a
feed has up to three profiles, of which the middle one is refused. `MCCollectionTask` assumes,
and TLC evaluates, that `Stored` and `Accepted` are what `SessionAfter` ends with, for
all requests of up to four profiles; `BulkImport_proofs` has it for all. In `discovery` two extractions of different
periods, two scans and two verifications meet in every order; the domains, which only add names to a
scan, are left out there and covered by the proofs. Scans, and verifications, are
interchangeable (`MCSymmetry`), which is sound as the run checks no liveness. The
proofs need none of these bounds.

**Fairness.** `OdsIngest!FairSpec` has weak fairness of each run's `Step` and of its
`Start`: an event loop and a worker go on with a task that can go on, celery delivers
a message it has (`acks_late`), and a requested background task is scheduled. No
fault and no crash is fair. `Step` waits at a profile type another run holds and at
row locks; `RunsFinish` says those waits end. `Scheduler!FairSpec` has weak fairness of
the steps of each tick but the faults: the beat enqueues one every 60 seconds for ever
(`celery_app.py` `beat_schedule`), and a free worker takes it. Row locks are granted
to the session that has waited for them, as PostgreSQL's queue does; without that a
tick could be overtaken at its flush for ever. In `ods_backend` and `ods_workers` no
process crashes, since a crashed run does not finish. `CollectionTask!FairSpec` has weak
fairness of a request's end, of a background task's steps and of `Restart`: the event loop
goes on, and compose restarts the backend (`restart: unless-stopped`, `deploy/docker-compose.yml`). Users,
jobs and faults are not fair. `ProfileStore!FairSpec` has weak fairness of a request's end and of a
job's steps: an unacknowledged message is delivered again (`acks_late`). The discovery modules state none.

## What is proved

TLAPS checks these for every number of runs, processes, tables, rows, ticks, tasks and
for any set of faults, from the named assumptions on the constants
(`ConstantsOK`, `SchedulerConstants`, `CollectionConstants`, `ProfileConstants`,
`WeakSignalConstants`, `FrontierConstants`).

* `TypeCorrect`: `Spec => [](TypeOK /\ Placed)`. `Placed` (a run with a batch is at one
  of its tables) is needed to type `Table(r)`.
* `NoLossForever`: `Spec => []NoSilentLoss`, assuming `DurableCommits`: every run is a
  celery run, or commits do not fail. Without it the property is false (finding 1).
  `NoSilentLoss` speaks of the committed watermark, which a run computes from its
  memory, so the invariant `LossInv` adds, of each run: below the watermarks in its copy of
  the source row all is accounted for; below the in-memory `last_id` a row is
  accounted for or in the batch (`Reached`); a row of the batch is to do, being written, or
  pending in the session (`Handled`); and the batch is empty outside its program
  points (`Shape`). A stale copy written over a newer watermark is harmless
  because all that is ever accounted for stays so.
* `PromiseForever`: `Spec => PromiseKept` under the same assumption: each step of the
  pipeline is a step of `IngestPromise` or leaves its variables alone.
* `NoWaitForever`: `Spec => []NoWaitInProcess`. `LockInv` says a run inside a batch
  holds its profile type in its process's `_active_types` (`Held`), alone (`Alone`),
  and has uncommitted rows only inside a batch and only of its table (`Pending`).
* `EvidenceIsWhole`: `Spec => TechBatchAtomic`. `BatchInv` splits a batch into what is
  to do and what is written (`Within`), places it above the run's watermark (`Ahead`), and keeps the
  evidence in the SAVEPOINT until that of the whole batch is there (`Whole`).
* `CountsAreCovered`: `Spec => []ImportedNeverOverstated`. A run reads a table from its
  watermark on and may come by a table twice, so counting batches is not enough:
  `CountInv` says that what a run has counted is no more than the committed rows at or below
  its own watermarks, which grow with each batch it commits.
* `CompletedMeansAccounted`: `Spec => []CompletedIsHonest`, assuming `DurableCommits`.
  `HonestInv` adds to `LossInv` that a run without a row cap leaves a table only with
  every row the table held at the start accounted for (`Passed`), and that tables only grow (`Grown`).
* `MarksAdvance`: `Spec => WatermarkAdvances`, assuming only `OneAtATime` (of finitely many runs no two
  at once); two overlapping runs do set the mark back. `MarkInv`: the one run there is has a copy of the
  database's watermarks, ahead of them only while it is dirty, which the copy of a celery run never is.
* `ProfilesStayBelow`: `Spec => []CrashConsistent`, assuming `OneAtATime` and `MarksSurvive` (celery
  runs, or no process that dies): an HTTP run commits profiles long before its watermark, and TLC
  finds the violation when the backend dies in between. `BelowInv`: a profile lies at or below the watermarks
  in the copy of the run there is, and at or below those of the database when there is none.
* `RelationsAreLinked`: `Spec => []RelationsLand`, assuming `GraphAnswers` (Neo4j does not fail
  and a refused entity ends its run). `RelateInv`: what the index of the batch names has its node.
* `NeverAtStandstill`: `Spec => []NoStandstill`. A profile type in `_active_types` has an owner inside a
  batch (`Owned`), who never waits for another type; so a chain of waits ends at a run that waits for a
  row lock or for nothing, and a cycle of row locks is one that PostgreSQL breaks.
* `RunsOnlyAdvance`: each `Step(r)` brings the run forward (`Advances`) in the lexicographic order of its stage,
  its table, its `last_id`, its point in the batch and the entities left to do, failed steps included, and no
  step of anybody sets a run back. Tables, keys and batches are finite, so a run has only so many
  steps: with `NeverAtStandstill` and the fairness of its steps, this is why `RunsFinish` holds.
* `FinalRowsStay`: a task row of the pipeline that says "completed" or "failed", and its count, never
  change again. `HttpRunsAreMarked`: every HTTP run that has ended has such a row, whatever failed.
* `UnbrokenRunsAreMarked`: `EndedIsMarked`, which `ods_bad_row` refutes, holds of all runs under `OneAtATime` and
  `SessionHolds` (no refused row, no lost commit, no failed staging). `StillNew`: an entity the SELECT did not
  find is still not there, so nothing else is left to break a session.
* `ContainmentNeverLands`: finding 3 in every instance: no edge from a domain to a concept is ever written,
  since an edge joins nodes of the graph, and those are profiles and satellites (`Solid`).
* `SchedulerTypeCorrect`: `Spec => []TypeOK` of `Scheduler`.
* `RecordedRunsWereSent`: `Spec => []RanMeansSent`. `last_run_at` is written long after
  the message: `RunInv` says that a mark "ok" of an open round and a request about to
  commit are already justified by a message, and that a tick has no marks before it
  selects.
* `UnservedStaysDue`: a time at which a standing task has fired, and since which nothing was sent for it, makes
  it due at the next tick, whatever became of the rounds in between (from `RanMeansSent`). What
  `FiresServed` adds is that a tick comes.
* `OneTickSendsOnce`: `SentOnce`, which `scheduler_twice` refutes, holds under `OneTick` (rounds follow one
  another) until a user changes something or a fault happens. `OnceInv`: a task the round is still to
  send is due since its last recorded run, and one it has sent it sends no more.
* `UsersDecide`: `Spec => EditsKept`: a round and a request write no column a user decides.
* `CollectionTypeCorrect`: `Spec => []TypeOK` of `CollectionTask`.
* `RowsKeepTheirPromise`: `Spec => LifeKept`. `LifeInv`: no row, and no task past its look
  for it, before the request's commit; no final row under a live background task, since the sweep marks
  rows only while none lives; no row before its job.
* `PendingNeverForgotten`: `Spec => []PendingIsAttended`. `AttendInv` follows a request from the moment its task is
  scheduled to the commit of its row: a task that ends without a word leaves a row only in the ways named.
* `ErasesOnlyLaterEdits`: `Spec => ErasesOnlyOverlapping`. `EraseInv` (of each run `MayErase`): the copy a run
  will write back has every edit that was there when it began and still is.
* `ClaimsAreStored`: `Spec => []ImportedIsStored`, for feeds of any length. `TallyInv`: a
  task of a feed counts nothing before its import and afterwards no more than was stored; the lemma
  `GoodAreStored` is about `BulkImport`.
* `LoopIsClosedForm`: `Accepted` and `Stored`, by which `CollectionTask` calls `bulk_import`, are what its loop
  (`SessionAfter`) ends with, for requests of any length. The provers have no induction over the request; the
  proof takes the least prefix after which the two differ (`Smallest`) and shows that there is none.
  `OverstatesExactlyAfterRefusal`: it counts more than it stores exactly if a profile it took comes before
  one that was refused.
* `ProfileTypeCorrect`, `LogAlwaysExplainsRow`, `JobsKeepSeenValues`, `DoneTasksAreLogged`,
  `TaskRowsKeepTheirPromise`: `TypeOK`, `LogExplainsRow`, `SeenValuesStay`, `DoneIsLogged` and
  `LifeKept` of `ProfileStore`. `LogExplainsRow` is inductive as it stands; the others
  need that a fill is of fields the job saw empty (`Careful`), that a job which will report "done" has logged
  its fields (`Reportable`), that one about to finish has an outcome (`Decided`), and
  where request, message and row are in step (`LifeInv`).
* `QueuedNeverForgotten`: a task row that says "queued" has its message in the queue or with a worker, but for the
  two ways out that `QueuedEnds` names. `Dispatched`: the message has left before the row is there.
  `OnlyRedeliveryRepeats`: each step of a job brings it nearer to its acknowledgement (`Way`), and only a crash of its
  worker, which is a fault, takes it back. The two are what `QueuedEnds` adds fairness to.
* `EnrichmentRaisesScore`: an enrichment that commits stores a completeness above that of the profile it read
  (`Filling`: it has fields, and saw them empty; the lemma `ScoreGrows` about `Completeness`), so that the same profile
  is not enriched over and over; unless the stored completeness it read was above already, which it writes only if
  it differs. It need not exceed what the row holds by then: users and imports write meanwhile.
  `DoneTasksFilled`: "done" is said only of a job that has filled something.
* `FrontierTypeCorrect`, `OneEdgePerPair`, `TermsStaySignals`, `HistoryKept`,
  `ScanLeavesNoneBehind`, `TopicsAreJustified`, `SyncIsComplete`: the invariants and action properties of
  `discovery`, assuming only that names and scans are finitely many. `SignalInv` says
  that no two sessions have inserted the same term (`Apart`), and that one about to commit cuts
  just the edges there are from its terms (`CutsWhole`); `ScanOK` and `GoneOnce` that scans hold different
  rows, all pending; `VerOK` that what a verification has read stays true: a candidate it saw
  validated has a verdict, a title it saw has its topic. `FirstVerdictHasNoTopic`: finding 5 in every instance: the
  first candidate of a name that is validated leaves the name without a topic.

Of each finding a theorem says how far it reaches, where the run shows one instance: what is missing for the property
to hold (`NoLossForever`, `UnbrokenRunsAreMarked`, `OneTickSendsOnce`), or that it never does (`ContainmentNeverLands`,
`FirstVerdictHasNoTopic`).

**Only model-checked:** liveness, which depends on fairness and ENABLED (`RunsFinish`,
`RowsEventuallyAccounted`, `FiresServed`, `OpenTasksEnd`, `QueuedEnds`), beyond TLAPS here; what each
rests on is proved: `NeverAtStandstill` and `RunsOnlyAdvance`, `CompletedMeansAccounted`,
`UnservedStaysDue`, `PendingNeverForgotten`, `QueuedNeverForgotten` and `OnlyRedeliveryRepeats`. Every safety
property of a passing run is proved.

## Where code and documents differ

1. **The watermark of an HTTP run survives a lost commit** (`ods_commit_lost`).
   The comment at `ingest_ods/services/orchestrator.py:284` promises that watermark
   and profiles commit together. That is so in a celery run, where one session holds
   both. An HTTP run has the profiles in an inner session and the source row in the
   outer one, which is committed whatever became of the batch.
2. **A refused row ends a celery run with no final status** (`ods_bad_row`). After a refused
   flush the session cannot be used, the error record and the status cannot be written, and the task row stays "running" or is never there.
   `collection_tasks.py:28` says that a failure is marked "failed". It takes a session that breaks
   (`UnbrokenRunsAreMarked`); an HTTP run always says how it ended (`HttpRunsAreMarked`).
3. **`TECH_CONTAINS` edges never reach the graph** (`ods_containment`). Their end nodes are profiles of
   PostgreSQL only, and the MATCH-based MERGE of an edge needs nodes; `writer.py:177`
   says they were made. The edges are missing in every instance (`ContainmentNeverLands`).
4. **Overlapping ticks send a task twice** (`scheduler_twice`). The design note of
   2026-06-20 writes `last_run_at` before the dispatch to prevent it; the code writes
   it after, and decides by a value read before. Ticks that do not overlap send once (`OneTickSendsOnce`).

5. **A validated candidate gets no topic of its own verification** (`frontier_topic`).
   `scan_tasks.py:44` and `frontier_candidate_service.py:11` promise the link from
   "validated" to a topic. The verification sets the status and selects the validated
   candidates before anything is flushed (autoflush is off, `postgres.py:45`): it finds those of earlier
   verifications only. The topic appears with the next candidate that is validated
   (`FirstVerdictHasNoTopic`).

Smaller ones met on the way, without a run of their own.

Ingest: the row cap never applies to
tech tables, whose batches import nothing (`orchestrator.py:158`); staging unmapped
relations "does not kill the main path" but can, by leaving the session broken
(`sql_warehouse.py:144`);
two runs of one source may set each other's watermark back (`watermark.py:18`), which costs
work and never a row, so `WatermarkAdvances` is claimed of runs in sequence only.

Scheduler: the comment that a failed task does not end the tick's round
(`poller.py:108`) does not hold of a failed flush, such as that of a task deleted meanwhile (`TickLost`).

Collection: a background task that looks for its row before the request has committed it is gone for good and
the row stays "pending" until the next start of the backend (`collector_service.py:48`, `Look`); the sweep fails
the row of a job that celery still runs, which later overwrites the status and keeps the error
message (`main.py:136`); `last_run_status` of a source never leaves "running"; the celery job ignores
`is_enabled`; `bulk_import` counts the profiles that the rollback for a later one took with it.

Profiles: some fields of the specifications are no columns (all of a project's but `start_date`;
`research_domains`, `title`, `edu_background` of a person): they are "filled", raise the completeness and are
stored nowhere (`Ghosts`); a redelivered job finds its own work done and turns "done" into
"skipped" or "no_fill"; an update does not recompute the completeness that decides whether to enrich;
an import blanks the columns its source row has nothing for, if they have a default, though another source
filled them (`writer.py:100`), and sets the completeness to that of the source row alone; a fill whose names
exceed the 64 characters of the log's `field` is refused whenever it is tried;
`overwrite` of the enrichment is read by nothing; the scan for untranslated names
compares JSON columns with a string (`translate_tasks.py:58`), so that a batch over all types fails.

Discovery: `NetworkCorrelator` only adds edges and each extraction adds those of its period again,
though `weak_signal_extractor.py:209` leaves the cleaning to the writers; `signal_id` does not name the period, so that
an extraction of another period takes a term's row over, and signals that are no longer found stay;
a scan takes up only signals of exactly its period; a strong candidate's alert lacks columns that may not be null, so
that its scan ends in an error and a rollback (`ScanRefused`); two candidates of one name get two topics in one sync
(`Made`); two overlapping scans each add a candidate of one name; a scan that cannot read an indicator replaces
the pending candidates by demo rows although there are signals (`ScanDemo`); a disruption assessment whose judgement fails keeps its old verdict under new scores, though
`disruption_service.py:179` says it stays pending; a pair of domains first seen just
`lookback_years` ago is not new, though `emergence_metrics.py:174` counts it.

Settings: changing the role of a default LLM configuration clears the defaults of its old role
(`routes_llm.py:47`).

## Not modelled

Inside the ingest pipeline: the fuzzy part of entity resolution (all entities have
strong keys), the text of scores and mappings, rows updated in place in
the ODS (the default configuration reads by key only), a commit whose outcome is unknown to the client
(a lost commit is lost), and failure of the outer commit of an HTTP run (it leaves
what a crash at `finish` leaves). In the scheduler: what a dispatched message does
when it runs, a broker that takes a message and reports a failure, and changes of a task's type.

In collection tasks: connection tests, the formats of feeds, and `is_enabled`, which only the trigger
route reads. In profiles: `create`, whose result is an initial state, and which profiles a batch selects. In
discovery: the statistics behind a signal and the fusion scores (a floating-point outcome is
left open), the indicators of `EmergenceService` and `DisruptionService`, each upserted by one statement and
taken by scans as an open choice of domains, and the technology graph. Of topics: their review, whose
one step adds a feedback row and sets a redundant status, and the demo generators but for
`generate_frontier`.

Not at all: the components with status `not_modelled` in `PROJECT.json`. Read-only services (queries,
statistics, MCP server, front end), thin clients, text processing and floating-point metrics have no states, or
none TLC can enumerate. `UnifiedRepo` with its outbox, `EntityMerger`, the foundation's enrichment pipeline and its
collectors are called by tests only; entity mining is dispatched by nothing: there is no
environment to check them in. Of the LLM configurations only the newest default is read, whatever their number.

## What is left

1. The emergence and disruption upserts with the LLM funnel as a module that `Frontier` takes its
   domains from, once the state space of `discovery` allows it.
2. `NameIndex` and the relation rules as recursive functions against reference definitions; today `OdsIngest`
   resolves by strong key.
3. Review of topics and its feedback, if it comes to change more than the reviewed row.

Instances stay at two actors and two or three rows; runs are added one per question.
