---------------------------- MODULE ProfileStore ----------------------------
(***************************************************************************)
(* One profile and those who write it: users who correct it, the ingest    *)
(* pipeline that meets it in a source row, enrichment jobs that let an LLM *)
(* fill its empty fields, jobs that translate its name.  Each of them      *)
(* reads the profile some time before it writes.                           *)
(*                                                                         *)
(* The broker delivers a job again when its worker dies (acks_late): a job *)
(* is a message with all its deliveries.                                   *)
(***************************************************************************)
EXTENDS Integers, Sequences, FiniteSets, Completeness

CONSTANTS
  Columns,      \* columns of the profile table that the field specification names
  Ghosts,       \* fields it names that are no columns of the table
  Required,     \* the required ones of both; the others are recommended
  Cn, En,       \* the Chinese and the English name
  Users,        \* update requests
  Imports,      \* source rows of the profile that the ingest pipeline writes
  Updatable,    \* columns an update request may name
  Typed,        \* the value each of them brings
  Mapped,       \* columns the source table is mapped to
  Defaulted,    \* columns left blank when the source row has nothing for them
  Fits,         \* fills whose names fit the field column of the change log
  Tasks,        \* enrichment requests, each with the job it sends
  Translations, \* translation jobs
  MaxFaults     \* bound: crashes, lost commits and lost requests

Jobs == Tasks \cup Translations
Fields == Columns \cup Ghosts
Writers == Users \cup Imports
Brought == {Typed[w] : w \in Writers}
Values == Brought \cup Jobs

ASSUME ProfileConstants ==
  /\ Tasks \cap Translations = {} /\ Users \cap Imports = {}
  /\ "none" \notin Values /\ Brought \cap Jobs = {} /\ IsFiniteSet(Fields)
  /\ {Cn, En} \cup Updatable \cup Mapped \cup Defaulted \subseteq Columns
  /\ Columns \cap Ghosts = {}
  /\ Required \subseteq Fields /\ MaxFaults \in Nat

VARIABLES
  row,      \* the committed columns of the profile
  score,    \* its committed completeness
  log,      \* the committed change log
  task,     \* the committed enrichment_tasks rows
  writer,   \* the update requests and the imports
  req,      \* the enrichment requests
  job,      \* the jobs
  faults

vars == <<row, score, log, task, writer, req, job, faults>>
-----------------------------------------------------------------------------
Columned == [Columns -> Values \cup {"none"}]
Present(r) == {f \in Columns : r[f] # "none"}
Finals == {"done", "skipped", "no_fill", "failed"}

Unread == [f \in Columns |-> "none"]
Idle == [pc |-> "idle", saw |-> Unread, was |-> 0, fill |-> {}, outcome |-> "none"]
NoWrite == [pc |-> "idle", saw |-> Unread, was |-> 0, new |-> [f \in {} |-> "none"]]

\* A job that goes on with nothing in hand.
Goto(j, pc) == job' = [job EXCEPT ![j] = [Idle EXCEPT !.pc = pc]]
Fault == faults < MaxFaults /\ faults' = faults + 1

\* A profile as an import leaves it: its completeness is set by the ingest
\* pipeline and left at zero by the profile service.
Init ==
  /\ row \in [Columns -> Brought \cup {"none"}]
  /\ score \in {0, Score(Present(row), Required, Fields)}
  /\ log = <<>>
  /\ task = [t \in Tasks |-> [status |-> "absent", filled |-> {}]]
  /\ writer = [w \in Writers |-> NoWrite]
  /\ req = [t \in Tasks |-> "none"]
  /\ job = [j \in Jobs |-> Idle]
  /\ faults = 0
-----------------------------------------------------------------------------
(* A writer reads the profile, then writes and logs the columns whose      *)
(* value differs from what it has read.                                    *)

\* An entry of the change log says what it has put into which fields.
Entry(fields, value) == [f \in fields |-> value]
Written(entry) == [f \in Columns |-> IF f \in DOMAIN entry THEN entry[f] ELSE row[f]]

\* A flush leaves a completeness alone that is the one it has read.
Rescored(was, new) == score' = IF new = was THEN score ELSE new

Read(w, new) ==
  /\ writer[w].pc = "idle"
  /\ writer' = [writer EXCEPT
       ![w] = [pc |-> "read", saw |-> row, was |-> score, new |-> new]]
  /\ UNCHANGED <<row, score, log, task, req, job, faults>>

Changed(w) ==
  [f \in {g \in DOMAIN writer[w].new : writer[w].saw[g] # writer[w].new[g]} |->
     writer[w].new[f]]

Commit(w) ==
  /\ writer[w].pc = "read"
  /\ row' = Written(Changed(w))
  /\ log' = IF DOMAIN Changed(w) = {} THEN log ELSE Append(log, Changed(w))
  /\ writer' = [writer EXCEPT ![w] = [NoWrite EXCEPT !.pc = "done"]]
  /\ UNCHANGED <<task, req, job, faults>>

\* update: some columns, each with a value or blank.
UpdateRead(u) ==
  \E S \in SUBSET Updatable \ {{}} : \E new \in [S -> {Typed[u], "none"}] : Read(u, new)

UpdateCommit(u) == Commit(u) /\ UNCHANGED score

\* write_profile: the mapped columns the source row has a value for, and a blank for
\* those of the others that have a default.
IngestRead(i) ==
  \E given \in SUBSET Mapped :
    Read(i, [f \in given \cup Defaulted |-> IF f \in given THEN Typed[i] ELSE "none"])

\* The completeness is that of the source row alone, or zero when none was computed.
SourceScores(i) ==
  LET given == {f \in DOMAIN writer[i].new : writer[i].new[f] # "none"} IN
  {Score(given \cup G, Required, Fields) : G \in SUBSET Ghosts}

IngestCommit(i) ==
  Commit(i) /\ \E new \in {0} \cup SourceScores(i) : Rescored(writer[i].was, new)
-----------------------------------------------------------------------------
(* The enrichment request: the message goes out, then the row is committed. *)

\* A profile that is complete enough by its stored score sends nothing.
Trigger(t) ==
  /\ req[t] = "none"
  /\ IF Low(score, Required, Fields)
     THEN req' = [req EXCEPT ![t] = "open"] /\ Goto(t, "sent")
     ELSE req' = [req EXCEPT ![t] = "done"] /\ job' = job
  /\ UNCHANGED <<row, score, log, task, writer, faults>>

TriggerCommit(t) ==
  /\ req[t] = "open"
  /\ req' = [req EXCEPT ![t] = "done"]
  /\ task' = [task EXCEPT ![t].status = "queued"]
  /\ UNCHANGED <<row, score, log, writer, job, faults>>

TriggerLost(t) ==
  /\ req[t] = "open" /\ Fault
  /\ req' = [req EXCEPT ![t] = "lost"]
  /\ UNCHANGED <<row, score, log, task, writer, job>>
-----------------------------------------------------------------------------
(* The enrichment job. *)

\* What enrich_one returns, for the task row.
Conclude(t, outcome, filled) ==
  job' = [job EXCEPT ![t] =
            [Idle EXCEPT !.pc = "finish", !.outcome = outcome, !.fill = filled]]

\* enrich_one, up to the LLM call.
Load(t) ==
  /\ job[t].pc = "sent"
  /\ IF Low(Score(Present(row), Required, Fields), Required, Fields)
     THEN job' = [job EXCEPT ![t].pc = "llm", ![t].saw = row, ![t].was = score]
     ELSE Conclude(t, "skipped", {})
  /\ UNCHANGED <<row, score, log, task, writer, req, faults>>

\* LLMFieldFiller.fill keeps the answers for the fields it asked for, all of
\* them or none (one confidence for the whole answer); a failed call is none.
FillsAnyBug(asked, answer) == answer
Filled(asked, answer) == answer \cap asked

Answer(t) ==
  /\ job[t].pc = "llm"
  /\ \E answer \in SUBSET Fields :
       LET fill == Filled(Fields \ Present(job[t].saw), answer) IN
       IF fill = {} THEN Conclude(t, "no_fill", {})
       ELSE job' = [job EXCEPT ![t].pc = "write", ![t].fill = fill]
  /\ UNCHANGED <<row, score, log, task, writer, req, faults>>

\* What the outcome says was filled.
AskedBug(t) == Fields \ Present(job[t].saw)
Applied(t) == job[t].fill

\* A field that is no column is set on the object and not stored, and counts.
EnrichCommit(t) ==
  /\ job[t].pc = "write" /\ job[t].fill \in Fits
  /\ row' = Written(Entry(job[t].fill, t))
  /\ Rescored(job[t].was, Score(Present(job[t].saw) \cup job[t].fill, Required, Fields))
  /\ log' = Append(log, Entry(job[t].fill, t))
  /\ Conclude(t, "done", Applied(t))
  /\ UNCHANGED <<task, writer, req, faults>>

\* finish_task: an UPDATE by task_id, which finds no row before the request's commit.
UpsertsBug(t, status, filled) ==
  [task EXCEPT ![t] = [status |-> status, filled |-> filled]]
FinishTask(t, status, filled) ==
  IF task[t].status = "absent" THEN task
  ELSE [task EXCEPT ![t] = [status |-> status, filled |-> filled]]

Told(t) == IF task[t].status = "absent" THEN "late" ELSE "ack"

Finish(t) ==
  /\ job[t].pc = "finish"
  /\ task' = FinishTask(t, job[t].outcome, job[t].fill)
  /\ Goto(t, Told(t))
  /\ UNCHANGED <<row, score, log, writer, req, faults>>

\* An answer of a shape fill does not expect raises outside its caught call; a value
\* the column does not take, or names too long for the log, are refused by the flush.
JobRefused(t) ==
  /\ job[t].pc \in {"llm", "write"}
  /\ Goto(t, "failing")
  /\ UNCHANGED <<row, score, log, task, writer, req, faults>>

\* Any other exception outside the LLM call: the database refuses a query or a commit.
JobFails(t) ==
  /\ job[t].pc \in {"sent", "llm", "write", "finish"} /\ Fault
  /\ Goto(t, "failing")
  /\ UNCHANGED <<row, score, log, task, writer, req>>

\* The row is marked in a session of its own, which may fail too.
SilentFailureBug(t) == task
Marked(t) == FinishTask(t, "failed", task[t].filled)

MarkFailed(t) ==
  /\ job[t].pc = "failing"
  /\ \/ task' = Marked(t) /\ Goto(t, Told(t)) /\ UNCHANGED faults
     \/ Fault /\ Goto(t, "unmarked") /\ task' = task
  /\ UNCHANGED <<row, score, log, writer, req>>

\* The message is acknowledged when the task function is over.
Ack(t) ==
  /\ job[t].pc \in {"ack", "late"}
  /\ Goto(t, IF job[t].pc = "ack" THEN "over" ELSE "missed")
  /\ UNCHANGED <<row, score, log, task, writer, req, faults>>

\* A worker that dies leaves the message to be delivered again.
Crash(t) ==
  /\ job[t].pc \in {"llm", "write", "finish", "failing", "ack", "late"} /\ Fault
  /\ Goto(t, "sent")
  /\ UNCHANGED <<row, score, log, task, writer, req>>
-----------------------------------------------------------------------------
(* The translation job, by itself or as an element of a batch. *)

Send(j) ==
  /\ job[j].pc = "idle" /\ Goto(j, "sent")
  /\ UNCHANGED <<row, score, log, task, writer, req, faults>>

\* translate_name_one, up to the LLM call.
TranslateLoad(j) ==
  /\ job[j].pc = "sent"
  /\ IF row[Cn] = "none" /\ row[En] # "none"
     THEN job' = [job EXCEPT ![j].pc = "llm", ![j].saw = row]
     ELSE Goto(j, "over")
  /\ UNCHANGED <<row, score, log, task, writer, req, faults>>

\* An answer or none, and one commit for the name and its log entry.
UnloggedBug(j) == log
Logged(j) == Append(log, Entry({Cn}, j))

TranslateCommit(j) ==
  /\ job[j].pc = "llm"
  /\ row' = Written(Entry({Cn}, j))
  /\ log' = Logged(j)
  /\ Goto(j, "over")
  /\ UNCHANGED <<score, task, writer, req, faults>>

TranslateFails(j) ==
  /\ job[j].pc = "llm"
  /\ Goto(j, "over")
  /\ UNCHANGED <<row, score, log, task, writer, req, faults>>
-----------------------------------------------------------------------------
WriterStep ==
  \/ \E u \in Users : UpdateRead(u) \/ UpdateCommit(u)
  \/ \E i \in Imports : IngestRead(i) \/ IngestCommit(i)

RequestStep(t) == TriggerCommit(t) \/ TriggerLost(t)

JobStep(t) ==
  \/ Load(t) \/ Answer(t) \/ EnrichCommit(t) \/ JobRefused(t)
  \/ Finish(t) \/ MarkFailed(t) \/ Ack(t)

TranslateStep(j) == TranslateLoad(j) \/ TranslateCommit(j) \/ TranslateFails(j)

Next ==
  \/ WriterStep
  \/ \E t \in Tasks : Trigger(t) \/ RequestStep(t) \/ JobStep(t) \/ JobFails(t)
  \/ \E j \in Translations : Send(j) \/ TranslateStep(j)
  \/ \E j \in Jobs : Crash(j)

Spec == Init /\ [][Next]_vars

\* A request that is being served goes on, and so does a worker with its message.
FairSpec == Spec /\ \A t \in Tasks : WF_vars(RequestStep(t)) /\ WF_vars(JobStep(t))
-----------------------------------------------------------------------------
PCs == {"idle", "sent", "llm", "write", "finish", "failing", "ack", "late", "unmarked",
        "missed", "over"}
Scores == 0..Total(Required, Fields)
Entries(fields, values) == UNION {[S -> values \cup {"none"}] : S \in SUBSET fields}
Job == [pc : PCs, saw : Columned, was : Scores, fill : SUBSET Fields,
        outcome : Finals \cup {"none"}]
TaskRow == [status : {"absent", "queued"} \cup Finals, filled : SUBSET Fields]
Writer == [pc : {"idle", "read", "done"}, saw : Columned, was : Scores,
           new : Entries(Columns, Brought)]

StoreOK ==
  /\ row \in Columned /\ score \in Scores /\ log \in Seq(Entries(Fields, Values))
  /\ task \in [Tasks -> TaskRow]

ActorsOK ==
  /\ writer \in [Writers -> Writer]
  /\ req \in [Tasks -> {"none", "open", "done", "lost"}]
  /\ job \in [Jobs -> Job]
  /\ faults \in 0..MaxFaults

TypeOK == StoreOK /\ ActorsOK

\* The last entry of the change log about a column says what is in it, however the
\* updates, imports, enrichments and translations overlap.
Latest(f) == {i \in DOMAIN log : f \in DOMAIN log[i] /\ \A k \in DOMAIN log :
                                   k > i => f \notin DOMAIN log[k]}
LogExplainsRow == \A f \in Columns : \A i \in Latest(f) : row[f] = log[i][f]

\* A job may overwrite a value only if it was entered while the LLM was asked: a
\* value the job has read stays.
SeenValuesStay ==
  [][\A j \in Jobs, f \in Columns :
       row'[f] = j /\ row[f] \notin {"none", j} => job[j].saw[f] = "none"]_vars

\* A task that says it has filled fields has an entry in the change log for them.
DoneIsLogged ==
  \A t \in Tasks : task[t].status = "done" =>
    \E i \in DOMAIN log : log[i] = Entry(task[t].filled, t)

\* A task row shows one end, once its message is acknowledged.
LifeOf(t) == IF task[t].status = "absent" THEN "absent"
             ELSE IF task[t].status \in Finals /\ job[t].pc = "over" THEN task[t].status
             ELSE "open"
Life == [t \in Tasks |-> LifeOf(t)]
Promised == INSTANCE TaskLife WITH Tasks <- Tasks, Ends <- Finals, life <- Life
LifeKept == Promised!Spec

\* A queued task ends, unless its job was over before the row was there, or its
\* failure could not be recorded.
QueuedEnds ==
  \A t \in Tasks :
    task[t].status = "queued" ~> \/ task[t].status \in Finals
                                 \/ job[t].pc \in {"missed", "unmarked"}
=============================================================================
