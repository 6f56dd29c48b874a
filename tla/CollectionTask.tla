--------------------------- MODULE CollectionTask ---------------------------
(***************************************************************************)
(* Collection tasks of one data source: the trigger request with the       *)
(* background task it starts, the celery job, the forms that edit the      *)
(* source, the backend that dies, restarts and sweeps the task rows.       *)
(*                                                                         *)
(* A step is what runs between two awaits that other parts may use.  What  *)
(* a warehouse run does inside is the matter of OdsIngest; here it reads   *)
(* rows and moves a mark (the watermark in config_json).                   *)
(***************************************************************************)
EXTENDS Integers, Sequences, FiniteSets, BulkImport

CONSTANTS
  Triggers,   \* POST trigger requests, each with its background task
  Jobs,       \* deliveries of the celery task collection.run
  Forms,      \* users with the data source's form open
  Types,      \* the source types of an instance: "feed" is any of the four that
              \* are fetched, "unroutable" one whose profile_type has no service
  Feeds,      \* what a fetch may return: how many empty records, and the others
  MaxMark,    \* bound: batches a warehouse run may read
  MaxFaults   \* bound: crashes, lost commits, failed sweeps

ASSUME CollectionConstants ==
  /\ Triggers \cap Jobs = {}
  /\ Types \subseteq {"feed", "unroutable", "sql_warehouse", "web_page"}
  /\ Feeds \subseteq [blank : Nat, valid : Seq(Kinds)]
  /\ MaxMark \in Nat /\ MaxFaults \in Nat

Tasks == Triggers \cup Jobs

VARIABLES
  source,    \* the committed data_source_configs row
  row,       \* the committed collection_tasks rows
  req,       \* the trigger requests
  run,       \* the background tasks and jobs
  form,      \* the forms
  stored,    \* profiles the profile service stored for each run
  backend,   \* "up" or "down"
  unswept,   \* a start of the backend could not sweep
  faults

vars == <<source, row, req, run, form, stored, backend, unswept, faults>>
-----------------------------------------------------------------------------
Ends == {"completed", "failed"}
Row == [status : {"absent", "pending", "running"} \cup Ends, imported : Nat]

\* config_json: the edits users made, and the watermark.
Config == [edits : SUBSET Forms, mark : 0..MaxMark]

Source == [there : BOOLEAN, type : Types, config : Config,
           last : {"never", "running"}]

NoFeed == [blank |-> 0, valid |-> <<>>]

\* `began`: edits committed when the run began and not erased since (history).
PCs == {"idle", "scheduled", "load", "fetch", "import", "batches", "job", "finish",
        "missed", "lost", "over"}
Run == [pc : PCs,
        copy : Config, dirty : BOOLEAN, feed : Feeds \cup {NoFeed},
        count : Nat, ok : BOOLEAN, began : SUBSET Forms]

NoConfig == [edits |-> {}, mark |-> 0]
NoRun == [pc |-> "idle", copy |-> NoConfig, dirty |-> FALSE, feed |-> NoFeed,
          count |-> 0, ok |-> TRUE, began |-> {}]

Fault == faults < MaxFaults /\ faults' = faults + 1
Final(t) == row[t].status \in Ends

Init ==
  /\ \E y \in Types :
       source = [there |-> TRUE, type |-> y, config |-> NoConfig, last |-> "never"]
  /\ row = [t \in Tasks |-> [status |-> "absent", imported |-> 0]]
  /\ req = [t \in Triggers |-> "none"]
  /\ run = [t \in Tasks |-> NoRun]
  /\ form = [f \in Forms |-> [pc |-> "closed", copy |-> NoConfig]]
  /\ stored = [t \in Tasks |-> 0]
  /\ backend = "up" /\ unswept = FALSE /\ faults = 0
-----------------------------------------------------------------------------
(* The trigger request. *)

\* trigger_collection: the row is flushed, the background task is created, and
\* both wait for the request's session to commit.
Trigger(t) ==
  /\ backend = "up" /\ req[t] = "none" /\ source.there
  /\ req' = [req EXCEPT ![t] = "open"]
  /\ run' = [run EXCEPT ![t].pc = "scheduled"]
  /\ UNCHANGED <<source, row, form, stored, backend, unswept, faults>>

TriggerCommit(t) ==
  /\ req[t] = "open" /\ source.there
  /\ req' = [req EXCEPT ![t] = "done"]
  /\ row' = [row EXCEPT ![t].status = "pending"]
  /\ source' = [source EXCEPT !.last = "running"]
  /\ UNCHANGED <<run, form, stored, backend, unswept, faults>>

\* The UPDATE of a deleted source, or a lost commit, undoes the new row too.
TriggerLost(t) ==
  /\ req[t] = "open"
  /\ \/ ~source.there /\ faults' = faults
     \/ Fault
  /\ req' = [req EXCEPT ![t] = "lost"]
  /\ UNCHANGED <<source, row, run, form, stored, backend, unswept>>
-----------------------------------------------------------------------------
(* The background task, _run_collection: one session from Look to Finish. *)

Goto(t, pc) == run' = [run EXCEPT ![t].pc = pc]
FailRunUnmarkedBug(t) == Goto(t, "over")
FailRun(t) == run' = [run EXCEPT ![t].pc = "finish", ![t].ok = FALSE]

\* A row that is not committed yet cannot be seen: the task returns for good.
Look(t) ==
  /\ run[t].pc = "scheduled"
  /\ IF row[t].status = "absent" THEN Goto(t, "missed")
     ELSE run' = [run EXCEPT ![t].pc = "load", ![t].began = source.config.edits]
  /\ UNCHANGED <<source, row, req, form, stored, backend, unswept, faults>>

Fetched == {"feed", "unroutable"}

\* The branches of source_type.  A warehouse run loads the source itself.
Branch(t) ==
  /\ run[t].pc = "load"
  /\ \/ source.type \in Fetched /\ Goto(t, "fetch")
     \/ /\ source.type = "sql_warehouse" /\ source.there
        /\ run' = [run EXCEPT ![t].pc = "batches", ![t].copy = source.config]
     \/ /\ \/ source.type \notin Fetched \cup {"sql_warehouse"}
           \/ source.type = "sql_warehouse" /\ ~source.there
        /\ FailRun(t)
  /\ UNCHANGED <<source, row, req, form, stored, backend, unswept, faults>>

Fetch(t) ==
  /\ run[t].pc = "fetch"
  /\ \/ FailRun(t)
     \/ \E f \in Feeds :
          run' = [run EXCEPT ![t].pc = IF f = NoFeed THEN "finish" ELSE "import",
                             ![t].feed = f]
  /\ UNCHANGED <<source, row, req, form, stored, backend, unswept, faults>>

\* What may come of one import request: what the task counts, what is stored.
\* Any answer but 200 or 201, and any exception, counts as nothing imported,
\* whatever the profile service has done.
CountsUnansweredBug(valid) ==
  {<<Len(valid), 0>>} \cup
    {<<Accepted(valid), n>> : n \in {Cardinality(Stored(valid))}}
Answers(valid) ==
  {<<0, 0>>} \cup
    IF valid = <<>> \/ ~Admitted(valid) THEN {}
    ELSE {Accepted(valid), 0} \X {Cardinality(Stored(valid))}

\* _import_to_profile: empty records are dropped, one request takes the rest.
Import(t) ==
  /\ run[t].pc = "import"
  /\ IF source.type = "feed"
     THEN \E a \in Answers(run[t].feed.valid) :
            /\ run' = [run EXCEPT ![t].pc = "finish", ![t].count = a[1]]
            /\ stored' = [stored EXCEPT ![t] = a[2]]
     ELSE FailRun(t) /\ UNCHANGED stored
  /\ UNCHANGED <<source, row, req, form, backend, unswept, faults>>

\* The profiles of a batch are committed by the inner session, the watermark
\* stays in this one's copy of the source.
Batch(t) ==
  /\ run[t].pc = "batches" /\ run[t].copy.mark < MaxMark
  /\ run' = [run EXCEPT ![t].copy.mark = @ + 1, ![t].dirty = TRUE, ![t].count = @ + 1]
  /\ UNCHANGED <<source, row, req, form, stored, backend, unswept, faults>>

BatchesEnd(t) ==
  /\ run[t].pc = "batches"
  /\ Goto(t, "finish") \/ FailRun(t)
  /\ UNCHANGED <<source, row, req, form, stored, backend, unswept, faults>>

ErrorStatusBug(t) == IF run[t].ok THEN "completed" ELSE "error"
Status(t) == IF run[t].ok THEN "completed" ELSE "failed"

\* History: an edit that is erased no longer counts for the runs under way.
Keep(runs, edits) == [t \in Tasks |-> [runs[t] EXCEPT !.began = @ \cap edits]]

\* A dirty copy is written as a whole: config_json is one column.
FreshConfigBug(t) ==
  [source EXCEPT !.config = IF run[t].dirty THEN [NoConfig EXCEPT !.mark = run[t].copy.mark]
                            ELSE @]
Written(t) ==
  IF run[t].dirty THEN [source EXCEPT !.config = run[t].copy] ELSE source

\* The flush of a copy whose row was deleted is refused.
Refused(t) == run[t].dirty /\ ~source.there

Finish(t) ==
  /\ run[t].pc = "finish" /\ ~Refused(t)
  /\ row' = [row EXCEPT ![t] = [status |-> Status(t), imported |-> run[t].count]]
  /\ source' = Written(t)
  /\ run' = Keep([run EXCEPT ![t].pc = "over"], Written(t).config.edits)
  /\ UNCHANGED <<req, form, stored, backend, unswept, faults>>

\* The session of the task rolls back: its row stays as it was.
FinishLost(t) ==
  /\ run[t].pc = "finish"
  /\ \/ Refused(t) /\ faults' = faults
     \/ Fault
  /\ Goto(t, "lost")
  /\ UNCHANGED <<source, row, req, form, stored, backend, unswept>>
-----------------------------------------------------------------------------
(* The celery job, _async_run_collection: one session, that commits at each *)
(* batch.  A crashed job is delivered again, as another element of Jobs.    *)

\* The task row is flushed and not yet committed.
JobStart(j) ==
  /\ run[j].pc = "idle"
  /\ IF ~source.there THEN Goto(j, "over")
     ELSE run' = [run EXCEPT ![j].pc = "job", ![j].copy = source.config,
                             ![j].began = source.config.edits]
  /\ UNCHANGED <<source, row, req, form, stored, backend, unswept, faults>>

\* The row appears with the first commit; later ones write only what changed.
JobBatch(j) ==
  /\ run[j].pc = "job" /\ source.type = "sql_warehouse" /\ run[j].copy.mark < MaxMark
  /\ IF source.there THEN
       /\ source' = [source EXCEPT !.config = [run[j].copy EXCEPT !.mark = @ + 1]]
       /\ row' = [row EXCEPT ![j].status = IF @ = "absent" THEN "running" ELSE @,
                             ![j].imported = run[j].count]
       /\ run' = Keep([run EXCEPT ![j].copy.mark = @ + 1, ![j].count = @ + 1],
                      run[j].copy.edits)
     ELSE Goto(j, "lost") /\ UNCHANGED <<source, row>>
  /\ UNCHANGED <<req, form, stored, backend, unswept, faults>>

\* A job of a source that is no warehouse fails: its config names no database.
JobEnd(j) ==
  /\ run[j].pc = "job"
  /\ \E ok \in IF source.type = "sql_warehouse" THEN BOOLEAN ELSE {FALSE} :
       row' = [row EXCEPT ![j] = [status |-> IF ok THEN "completed" ELSE "failed",
                                  imported |-> run[j].count]]
  /\ Goto(j, "over")
  /\ UNCHANGED <<source, req, form, stored, backend, unswept, faults>>

JobCrash(j) ==
  /\ run[j].pc = "job" /\ Fault
  /\ Goto(j, "lost")
  /\ UNCHANGED <<source, row, req, form, stored, backend, unswept>>
-----------------------------------------------------------------------------
(* Users and the backend process. *)

\* The form shows config_json as a whole and sends it back as a whole.
FormOpen(f) ==
  /\ backend = "up" /\ source.there /\ form[f].pc = "closed"
  /\ form' = [form EXCEPT ![f] = [pc |-> "open", copy |-> source.config]]
  /\ UNCHANGED <<source, row, req, run, stored, backend, unswept, faults>>

\* update_datasource; a deleted source answers 404.
FormSave(f) ==
  /\ backend = "up" /\ form[f].pc = "open"
  /\ form' = [form EXCEPT ![f].pc = "saved"]
  /\ IF source.there THEN
       /\ source' = [source EXCEPT !.config = [form[f].copy EXCEPT !.edits = @ \cup {f}]]
       /\ run' = Keep(run, form[f].copy.edits \cup {f})
     ELSE UNCHANGED <<source, run>>
  /\ UNCHANGED <<row, req, stored, backend, unswept, faults>>

\* delete_datasource asks nothing about running tasks.
Delete ==
  /\ backend = "up" /\ source.there
  /\ source' = [source EXCEPT !.there = FALSE]
  /\ UNCHANGED <<row, req, run, form, stored, backend, unswept, faults>>

\* Requests and background tasks die with the process, and so do their sessions.
BackendCrash ==
  /\ backend = "up" /\ Fault
  /\ backend' = "down"
  /\ req' = [t \in Triggers |-> IF req[t] = "open" THEN "lost" ELSE req[t]]
  /\ run' = [t \in Tasks |->
       IF t \in Jobs \/ run[t].pc \in {"idle", "missed", "lost", "over"} THEN run[t]
       ELSE [run[t] EXCEPT !.pc = "over"]]
  /\ UNCHANGED <<source, row, form, stored, unswept>>

\* _recover_orphan_collection_tasks: every row that is not final is marked
\* failed, also that of a job another process is still running.
SweepsAllBug ==
  [t \in Tasks |-> IF row[t].status # "absent" THEN [row[t] EXCEPT !.status = "failed"]
                   ELSE row[t]]
SweepsRunningBug ==
  [t \in Tasks |-> IF row[t].status = "running" THEN [row[t] EXCEPT !.status = "failed"]
                   ELSE row[t]]
Swept ==
  [t \in Tasks |-> IF row[t].status \in {"pending", "running"}
                   THEN [row[t] EXCEPT !.status = "failed"] ELSE row[t]]

Restart ==
  /\ backend = "down"
  /\ backend' = "up"
  /\ \/ row' = Swept /\ UNCHANGED <<unswept, faults>>
     \/ Fault /\ unswept' = TRUE /\ row' = row
  /\ UNCHANGED <<source, req, run, form, stored>>
-----------------------------------------------------------------------------
RequestStep(t) == TriggerCommit(t) \/ TriggerLost(t)

Step(t) ==
  \/ Look(t) \/ Branch(t) \/ Fetch(t) \/ Import(t)
  \/ Batch(t) \/ BatchesEnd(t) \/ Finish(t) \/ FinishLost(t)

JobStep(j) == JobStart(j) \/ JobBatch(j) \/ JobEnd(j) \/ JobCrash(j)

Next ==
  \/ \E t \in Triggers : Trigger(t) \/ RequestStep(t) \/ Step(t)
  \/ \E j \in Jobs : JobStep(j)
  \/ \E f \in Forms : FormOpen(f) \/ FormSave(f)
  \/ Delete \/ BackendCrash \/ Restart

Spec == Init /\ [][Next]_vars

\* The event loop goes on with requests and background tasks that can go on, and
\* the container of the backend is restarted (restart: unless-stopped).
FairSpec ==
  /\ Spec
  /\ \A t \in Triggers : WF_vars(RequestStep(t)) /\ WF_vars(Step(t))
  /\ WF_vars(Restart)
-----------------------------------------------------------------------------
StoreOK == source \in Source /\ row \in [Tasks -> Row] /\ stored \in [Tasks -> Nat]
RunsOK == run \in [Tasks -> Run]
EnvOK ==
  /\ req \in [Triggers -> {"none", "open", "done", "lost"}]
  /\ form \in [Forms -> [pc : {"closed", "open", "saved"}, copy : Config]]
  /\ backend \in {"up", "down"}
  /\ unswept \in BOOLEAN /\ faults \in 0..MaxFaults

TypeOK == StoreOK /\ RunsOK /\ EnvOK

\* What a finished task claims to have imported is in the profile tables, unless
\* the profile service refused one of its profiles (bulk_import counts those it
\* has rolled back).  A task claims less when the answer was lost.
ImportedIsStored ==
  source.type = "feed" =>
    \A t \in Triggers :
      \/ row[t].imported \in {0, stored[t]}
      \/ \E i \in DOMAIN run[t].feed.valid : run[t].feed.valid[i] = "bad"

\* A run writes back the whole config_json it has read, so it may erase a user's
\* edit, but only one made after it began: never one that was there before.
ErasesOnlyOverlapping ==
  [][\A t \in Tasks : run'[t].pc # run[t].pc \/ run'[t].copy # run[t].copy =>
       run[t].began \cap source.config.edits \subseteq source'.config.edits]_vars

\* Each task row keeps the promise of TaskLife.  The row of a job that is still
\* running may be marked failed by a starting backend: it is not final until the
\* job is over, which then overwrites the mark.
LifeOf(t) == IF row[t].status = "absent" THEN "absent"
             ELSE IF Final(t) /\ run[t].pc # "job" THEN row[t].status ELSE "open"
Life == [t \in Tasks |-> LifeOf(t)]
Promised == INSTANCE TaskLife WITH Tasks <- Tasks, Ends <- Ends, life <- Life
LifeKept == Promised!Spec

\* A row that a user sees pending has a background task under way that will end it,
\* or waits for the sweep of the next start.  Nobody is left to end it only if the
\* task looked too early, if its last commit was lost, or if a sweep failed.
PendingIsAttended ==
  \A t \in Triggers : row[t].status = "pending" =>
    \/ run[t].pc \in {"scheduled", "load", "fetch", "import", "batches", "finish"}
    \/ backend = "down"
    \/ run[t].pc \in {"missed", "lost"} \/ unswept

\* A task a user has triggered ends, also when the backend dies under it.  It is
\* left pending only if its background task looked for the row before the request
\* committed it, if its last commit was lost or refused (the source was deleted),
\* or if a starting backend could not sweep.
OpenTasksEnd ==
  \A t \in Triggers :
    row[t].status = "pending" ~> Final(t) \/ run[t].pc \in {"missed", "lost"} \/ unswept
=============================================================================
