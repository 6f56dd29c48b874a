----------------------------- MODULE OdsIngest -----------------------------
(***************************************************************************)
(* The ODS ingest pipeline: BatchOrchestrator.run and everything it calls  *)
(* that changes state, as executed by one or more collection runs over one *)
(* data source.                                                            *)
(*                                                                         *)
(* A run is one execution of run_sql_warehouse_collection.  A celery run   *)
(* (collection_tasks.py) uses ONE database session for the task row, the   *)
(* source row holding the watermark, and the profiles.  A run started over *)
(* HTTP (collector_service.py) uses two: the profiles are written in an    *)
(* inner session committed batch by batch, task and source belong to an    *)
(* outer session committed when the run is over.                           *)
(*                                                                         *)
(* A source row is its rank in key order; an entity is a profile type and  *)
(* an id, and an id also stands for the name it is known by.  Contents of  *)
(* profiles are abstracted to the set of source rows they were built from. *)
(***************************************************************************)
EXTENDS Integers, Sequences, FiniteSets

CONSTANTS
  Runs,        \* executions of run_sql_warehouse_collection
  CeleryRuns,  \* those of the celery task; the others are HTTP runs
  Procs,       \* operating system processes
  ProcOf,      \* the process that executes a run
  Tables, TableSeq,   \* config_json["table_set"]
  TechTables,  \* _TECH_TABLES: patents and papers
  Unmapped,    \* tables without a mapping
  Types, TypeOf,      \* profile types, and the one a table produces
  MaxKey,      \* bound: rows a source table may ever hold
  InitRows,    \* rows a source table holds at first
  Ids, NoId, EntityOf,    \* the entity a row describes, or NoId
  Bad,         \* rows with a value the profile table refuses at flush
  Related,     \* entities a row's structured columns name
  Concepts, Terms,        \* concepts the LLM finds in a patent or paper
  Domains, DomainOf,      \* its IPC subclass, or NoId
  BatchSize,   \* config_json["batch_size"]
  MaxRows,     \* config_json["max_rows"], 0 when absent
  Mined,       \* relations content mining finds in the attachments
  HookOn,      \* config_json["enable_weak_signal"]
  Faults,      \* the kinds of failure that may happen
  MaxCrashes,  \* bound: process crashes
  MaxActive    \* bound: runs going on at the same time

Keys == 1..MaxKey
Rows == Tables \X Keys
Entities == Types \X Ids
FaultKinds == {"extract", "resolve", "score", "write", "node", "tech", "graph",
               "commit", "staging", "broker", "crash"}

ASSUME ConstantsOK ==
  /\ CeleryRuns \subseteq Runs
  /\ ProcOf \in [Runs -> Procs]
  /\ TableSeq \in Seq(Tables)
  /\ TechTables \subseteq Tables /\ Unmapped \subseteq Tables
  /\ TypeOf \in [Tables -> Types]
  /\ \A t, u \in TechTables : TypeOf[t] = TypeOf[u]
  /\ "concept" \notin Types /\ "ipc" \notin Types
  /\ MaxKey \in Nat
  /\ InitRows \in [Tables -> 0..MaxKey]
  /\ NoId \notin Ids /\ EntityOf \in [Rows -> Ids \cup {NoId}]
  /\ Bad \subseteq Rows
  /\ Related \in [Rows -> SUBSET Entities]
  /\ Terms \in [Rows -> SUBSET Concepts]
  /\ NoId \notin Domains /\ DomainOf \in [Rows -> Domains \cup {NoId}]
  /\ BatchSize \in Nat \ {0} /\ MaxRows \in Nat
  /\ Mined \subseteq Entities \X Entities
  /\ HookOn \in BOOLEAN
  /\ Faults \subseteq FaultKinds
  /\ MaxCrashes \in Nat /\ MaxActive \in Nat

VARIABLES
  \* PostgreSQL, committed state
  done,     \* rows whose entity was written to its profile table
  errs,     \* rows an ingest_errors record stands for
  evid,     \* tech rows whose concepts and tech_evidence were written
  wm,       \* the source's config_json["last_id:<table>"], 0 when absent
  taskdb,   \* collection_tasks.status
  recdb,    \* collection_tasks.records_imported
  \* Neo4j, not transactional with PostgreSQL
  nodes, edges,
  \* Doris and the broker
  ods,      \* rows each source table holds
  hooks,    \* runs that enqueued the weak-signal extraction
  \* processes
  active,   \* _active_types of each process
  crashes,
  \* the runs
  pc,       \* what the run does next
  scan,     \* table, in-memory last_id, batch, rows left in it, total_imported
  ent,      \* the entity being written: its rows, did the SELECT find it
  tx,       \* uncommitted writes of the profile session; sp: its SAVEPOINT
  src,      \* the run's copy of config_json, and is it dirty
  rel       \* NameIndex and the structured relations of the batch

store == <<done, errs, evid, wm, taskdb, recdb>>
graph == <<nodes, edges>>
env == <<ods, hooks, active, crashes>>
vars == <<store, graph, env, pc, scan, ent, tx, src, rel>>
-----------------------------------------------------------------------------
(* Helpers *)

Node(e) == <<"pk", e>>
Satellite(e) == <<"name", e>>
Domain(d) == <<"ipc", d>>
Concept(c) == <<"concept", c>>

Celery(r) == r \in CeleryRuns
Table(r) == TableSeq[scan[r].tab]
Ent(t, k) == <<TypeOf[t], EntityOf[<<t, k>>]>>
Finished == {"ended", "crashed"}
Running(r) == pc[r] \notin Finished \cup {"idle"}
May(fault) == fault \in Faults

EmptyTx == [done |-> {}, errs |-> {}, evid |-> {}, sp |-> {}, n |-> 0]
NoEnt == [group |-> {}, seen |-> FALSE]
NoRel == [named |-> {}, trip |-> {}]

\* (Operators named ...Bug are seeded faults of the definition that follows
\* them; nothing refers to them but the mutation checks.)

AtTableFromZeroBug(r, i, marks) ==
  [tab |-> i, batch |-> {}, todo |-> {}, total |-> scan[r].total, last |-> 0]
\* Entering the i-th table: last_id = watermark of that table, or 0.
AtTable(r, i, marks) ==
  [tab |-> i, batch |-> {}, todo |-> {}, total |-> scan[r].total,
   last |-> IF i <= Len(TableSeq) THEN marks[TableSeq[i]] ELSE 0]

Skipped(t) == t \in Unmapped /\ t \notin TechTables

UpToUncappedBug(r) == scan[r].last + BatchSize
\* SELECT ... WHERE key > last_id ORDER BY key LIMIT batch_size
UpTo(r) == IF ods[Table(r)] < scan[r].last + BatchSize
           THEN ods[Table(r)] ELSE scan[r].last + BatchSize

First(K) == {k \in K : \A j \in K : k <= j}

\* The resolver merges the rows of a batch that describe one entity; a row
\* without identity stands alone.
Group(t, k, K) ==
  IF EntityOf[<<t, k>>] = NoId THEN {k}
  ELSE {j \in K : EntityOf[<<t, j>>] = EntityOf[<<t, k>>]}

Rowset(t, K) == {t} \X K
Written(rows) == {Ent(x[1], x[2]) : x \in rows}
\* The tech profiles a set of tech rows is read into: IPC domains, concepts.
TechProfiles(rows) ==
  {Concept(c) : c \in UNION {Terms[x] : x \in rows}}
    \cup {Domain(DomainOf[x]) : x \in {y \in rows : DomainOf[y] # NoId}}

\* MATCH-based upsert_relation: an edge needs both end nodes.
Linked(pairs, N) == {p \in pairs : p[1] \in N /\ p[2] \in N}
\* _ensure_satellite_node: the end points that are name: placeholders.
Satellites(pairs) ==
  {n \in {p[1] : p \in pairs} \cup {p[2] : p \in pairs} : n[1] = "name"}
\* resolve_triple: a name the batch index knows becomes a profile id.
Endpoint(r, e) == IF e \in rel[r].named THEN Node(e) ELSE Satellite(e)
ResolvedTriples(r) == {<<Node(p[1]), Endpoint(r, p[2])>> : p \in rel[r].trip}

NoSatellitesBug(pairs) == nodes' = nodes /\ edges' = edges \cup Linked(pairs, nodes)
\* write_relations: make the satellites, then one MERGE per triple.  Neo4j may
\* fail while the nodes are made, or at any of the triples.
WriteRelations(pairs) ==
  LET sats == Satellites(pairs)
      all == Linked(pairs, nodes \cup sats)
  IN  \/ nodes' = nodes \cup sats /\ edges' = edges \cup all
      \/ May("graph") /\ \E N \in SUBSET sats : nodes' = nodes \cup N /\ UNCHANGED edges
      \/ May("graph") /\ \E E \in SUBSET all :
           nodes' = nodes \cup sats /\ edges' = edges \cup E
-----------------------------------------------------------------------------
(* Row locks.  An uncommitted INSERT or UPDATE of a profile row makes every *)
(* other session that writes the same row wait for the transaction's end.   *)
(* (An UPDATE is assumed to change the row; one that does not takes no lock.)*)

Holds(r) == Written(tx[r].done) \cup TechProfiles(tx[r].evid \cup tx[r].sp)

Wants(r) ==
  CASE pc[r] = "flush" -> Written(Rowset(Table(r), ent[r].group))
    [] pc[r] = "tech" -> TechProfiles(Rowset(Table(r), First(scan[r].todo)))
    [] OTHER -> {}

WaitsFor(r, q) == q # r /\ Holds(q) \cap Wants(r) # {}
Blocked(r) == \E q \in Runs : WaitsFor(r, q)

\* PostgreSQL aborts a statement of a session caught in a cycle of waits.
Deadlocked(r) ==
  \E S \in SUBSET Runs : r \in S /\ \A x \in S : \E y \in S : WaitsFor(x, y)
-----------------------------------------------------------------------------
(* How a run ends *)

Goto(r, to) == pc' = [pc EXCEPT ![r] = to]

Forget(R) ==
  /\ scan' = [r \in Runs |-> IF r \in R THEN [tab |-> 1, last |-> 0, batch |-> {}, todo |-> {}, total |-> 0]
                             ELSE scan[r]]
  /\ ent' = [r \in Runs |-> IF r \in R THEN NoEnt ELSE ent[r]]
  /\ tx' = [r \in Runs |-> IF r \in R THEN EmptyTx ELSE tx[r]]
  /\ src' = [r \in Runs |-> IF r \in R THEN [snap |-> [t \in Tables |-> 0], dirty |-> FALSE]
                            ELSE src[r]]
  /\ rel' = [r \in Runs |-> IF r \in R THEN NoRel ELSE rel[r]]

CloseOptimisticBug(r, status, source) ==
  /\ taskdb' = [taskdb EXCEPT ![r] = "completed"]
  /\ recdb' = [recdb EXCEPT ![r] = scan[r].total]
  /\ wm' = IF source.dirty THEN source.snap ELSE wm
  /\ UNCHANGED <<done, errs, evid>>

\* The last commit of the session that holds the task and the source row.
Close(r, status, source) ==
  /\ taskdb' = [taskdb EXCEPT ![r] = status]
  /\ recdb' = [recdb EXCEPT ![r] = scan[r].total]
  /\ wm' = IF source.dirty THEN source.snap ELSE wm
  /\ UNCHANGED <<done, errs, evid>>

BreakKeepsLocksBug(r, source) ==
  /\ IF Celery(r) THEN UNCHANGED store ELSE Close(r, "failed", source)
  /\ Goto(r, "ended")
  /\ UNCHANGED <<scan, ent, tx, src, rel>>

\* The run raised after its profile session broke: a celery run has no other
\* session to say so in, an HTTP run still commits the outer one.
Break(r, source) ==
  /\ IF Celery(r) THEN UNCHANGED store ELSE Close(r, "failed", source)
  /\ Goto(r, "ended")
  /\ Forget({r})

ReleaseNeverBug(r) == UNCHANGED active

Release(r) ==
  active' = [active EXCEPT ![ProcOf[r]] = @ \ {TypeOf[Table(r)]}]

\* The task row of a celery run is committed along with its batches.
CommitTaskRow(r) ==
  IF Celery(r)
  THEN /\ taskdb' = [taskdb EXCEPT ![r] = "running"]
       /\ recdb' = [recdb EXCEPT ![r] = scan[r].total]
  ELSE UNCHANGED <<taskdb, recdb>>
-----------------------------------------------------------------------------
Init ==
  /\ done = {} /\ errs = {} /\ evid = {}
  /\ wm = [t \in Tables |-> 0]
  /\ taskdb = [r \in Runs |-> IF Celery(r) THEN "absent" ELSE "pending"]
  /\ recdb = [r \in Runs |-> 0]
  /\ nodes = {} /\ edges = {}
  /\ ods = InitRows
  /\ hooks = {}
  /\ active = [p \in Procs |-> {}]
  /\ crashes = 0
  /\ pc = [r \in Runs |-> "idle"]
  /\ scan = [r \in Runs |-> [tab |-> 1, last |-> 0, batch |-> {}, todo |-> {}, total |-> 0]]
  /\ ent = [r \in Runs |-> NoEnt]
  /\ tx = [r \in Runs |-> EmptyTx]
  /\ src = [r \in Runs |-> [snap |-> [t \in Tables |-> 0], dirty |-> FALSE]]
  /\ rel = [r \in Runs |-> NoRel]

(* A run loads the source row, whose config_json it keeps as it was. *)
Start(r) ==
  /\ pc[r] = "idle"
  /\ Cardinality({q \in Runs : Running(q)}) < MaxActive
  /\ src' = [src EXCEPT ![r] = [snap |-> wm, dirty |-> FALSE]]
  /\ scan' = [scan EXCEPT ![r] = AtTable(r, 1, wm)]
  /\ Goto(r, "extract")
  /\ UNCHANGED <<store, graph, env, ent, tx, rel>>

(* An unmapped table, or no row beyond last_id: on to the next table. *)
NextTable(r) ==
  /\ pc[r] = "extract"
  /\ scan[r].tab <= Len(TableSeq)
  /\ Skipped(Table(r)) \/ ods[Table(r)] <= scan[r].last
  /\ scan' = [scan EXCEPT ![r] = AtTable(r, scan[r].tab + 1, src[r].snap)]
  /\ UNCHANGED <<store, graph, env, pc, ent, tx, src, rel>>

TablesDone(r) ==
  /\ pc[r] = "extract"
  /\ scan[r].tab > Len(TableSeq)
  /\ Goto(r, "finish")
  /\ UNCHANGED <<store, graph, env, scan, ent, tx, src, rel>>

ExtractBatch(r) ==
  /\ pc[r] = "extract"
  /\ scan[r].tab <= Len(TableSeq)
  /\ ~Skipped(Table(r))
  /\ ods[Table(r)] > scan[r].last
  /\ scan' = [scan EXCEPT ![r].batch = (scan[r].last + 1)..UpTo(r),
                          ![r].last = UpTo(r)]
  /\ Goto(r, "lock")
  /\ UNCHANGED <<store, graph, env, ent, tx, src, rel>>

(* Doris is unreachable, or a mapping's transform raises: nothing in run() *)
(* catches it.  The profile session is clean, so the failure is recorded.  *)
ExtractFails(r) ==
  /\ May("extract")
  /\ pc[r] = "extract"
  /\ scan[r].tab <= Len(TableSeq)
  /\ ~Skipped(Table(r))
  /\ Close(r, "failed", src[r])
  /\ Goto(r, "ended")
  /\ Forget({r})
  /\ UNCHANGED <<graph, env>>

AcquireUncheckedBug(r) ==
  /\ pc[r] = "lock"
  /\ active' = [active EXCEPT ![ProcOf[r]] = @ \cup {TypeOf[Table(r)]}]
  /\ Goto(r, "resolve")
  /\ UNCHANGED <<store, graph, ods, hooks, crashes, scan, ent, tx, src, rel>>

(* while ptype in _active_types: sleep; add *)
Acquire(r) ==
  /\ pc[r] = "lock"
  /\ TypeOf[Table(r)] \notin active[ProcOf[r]]
  /\ active' = [active EXCEPT ![ProcOf[r]] = @ \cup {TypeOf[Table(r)]}]
  /\ Goto(r, "resolve")
  /\ UNCHANGED <<store, graph, ods, hooks, crashes, scan, ent, tx, src, rel>>

(* A tech table has no entities; its rows go to the tech concept stage. *)
Resolve(r) ==
  /\ pc[r] = "resolve"
  /\ scan' = [scan EXCEPT ![r].todo = scan[r].batch]
  /\ Goto(r, IF Table(r) \in TechTables THEN "tech" ELSE "select")
  /\ UNCHANGED <<store, graph, env, ent, tx, src, rel>>

ResolveUnrecordedBug(r) ==
  /\ May("resolve")
  /\ pc[r] = "resolve"
  /\ Table(r) \notin TechTables
  /\ CommitTaskRow(r)
  /\ scan' = [scan EXCEPT ![r].batch = {}]
  /\ Release(r)
  /\ Goto(r, "extract")
  /\ UNCHANGED <<done, errs, evid, wm, graph, ods, hooks, crashes, ent, tx, src, rel>>

ResolveKeepsTypeBug(r) ==
  /\ May("resolve")
  /\ pc[r] = "resolve"
  /\ Table(r) \notin TechTables
  /\ errs' = errs \cup Rowset(Table(r), scan[r].batch)
  /\ CommitTaskRow(r)
  /\ scan' = [scan EXCEPT ![r].batch = {}]
  /\ Goto(r, "extract")
  /\ UNCHANGED <<done, evid, wm, graph, env, ent, tx, src, rel>>

(* The batch is recorded as one resolve error, committed, and left behind: *)
(* last_id in memory has moved on, the watermark has not.                   *)
ResolveFails(r) ==
  /\ May("resolve")
  /\ pc[r] = "resolve"
  /\ Table(r) \notin TechTables
  /\ errs' = errs \cup Rowset(Table(r), scan[r].batch)
  /\ CommitTaskRow(r)
  /\ scan' = [scan EXCEPT ![r].batch = {}]
  /\ Release(r)
  /\ Goto(r, "extract")
  /\ UNCHANGED <<done, evid, wm, graph, ods, hooks, crashes, ent, tx, src, rel>>

(* Score the next entity, compute its id, look it up in the profile table. *)
(* A scoring failure is recorded and the entity goes on with zero scores;  *)
(* an entity without identity is recorded and skipped.                      *)
Select(r) ==
  /\ pc[r] = "select"
  /\ \E k \in First(scan[r].todo), scored \in BOOLEAN :
       LET t == Table(r)
           g == Group(t, k, scan[r].todo)
           anonymous == EntityOf[<<t, k>>] = NoId
       IN  /\ ~scored => May("score")
           /\ scan' = [scan EXCEPT ![r].todo = @ \ g]
           /\ tx' = [tx EXCEPT ![r].errs =
                       IF anonymous \/ ~scored THEN @ \cup Rowset(t, g) ELSE @]
           /\ IF anonymous
              THEN UNCHANGED <<pc, ent, rel>>
              ELSE /\ ent' = [ent EXCEPT ![r] =
                        [group |-> g,
                         seen |-> Ent(t, k) \in Written(done \cup tx[r].done)]]
                   /\ rel' = [rel EXCEPT ![r].named = @ \cup {Ent(t, k)}]
                   /\ Goto(r, "flush")
  /\ UNCHANGED <<store, graph, env, src>>

\* The flush is refused: the row appeared since the SELECT, or a value does
\* not fit its column.
Refused(r) ==
  LET rows == Rowset(Table(r), ent[r].group)
  IN  \/ ~ent[r].seen /\ Written(rows) \subseteq Written(done)
      \/ rows \cap Bad # {}

(* write_profile, the profile's node in Neo4j (a failure there is swallowed) *)
(* and the relations of the entity's first source row.                       *)
WriteOk(r) ==
  /\ pc[r] = "flush"
  /\ ~Blocked(r) /\ ~Refused(r)
  /\ \E k \in First(ent[r].group), linked \in BOOLEAN :
       LET e == Ent(Table(r), k)
       IN  /\ ~linked => May("node")
           /\ nodes' = IF linked THEN nodes \cup {Node(e)} ELSE nodes
           /\ rel' = [rel EXCEPT ![r].trip =
                        @ \cup ({e} \X Related[<<Table(r), k>>])]
  /\ tx' = [tx EXCEPT ![r].done = @ \cup Rowset(Table(r), ent[r].group),
                      ![r].n = @ + 1]
  /\ ent' = [ent EXCEPT ![r] = NoEnt]
  /\ Goto(r, "select")
  /\ UNCHANGED <<store, edges, env, scan, src>>

WriteFailsCountedBug(r) ==
  /\ May("write")
  /\ pc[r] = "flush"
  /\ tx' = [tx EXCEPT ![r].errs = @ \cup Rowset(Table(r), ent[r].group), ![r].n = @ + 1]
  /\ ent' = [ent EXCEPT ![r] = NoEnt]
  /\ Goto(r, "select")
  /\ UNCHANGED <<store, graph, env, scan, src, rel>>

(* An exception other than a refused flush: recorded, the next entity goes on. *)
WriteFails(r) ==
  /\ May("write")
  /\ pc[r] = "flush"
  /\ tx' = [tx EXCEPT ![r].errs = @ \cup Rowset(Table(r), ent[r].group)]
  /\ ent' = [ent EXCEPT ![r] = NoEnt]
  /\ Goto(r, "select")
  /\ UNCHANGED <<store, graph, env, scan, src, rel>>

(* A refused flush leaves the session unusable until it is rolled back, so *)
(* record_error raises in its turn and the run is over.                     *)
FlushBreaks(r) ==
  /\ pc[r] = "flush"
  /\ (~Blocked(r) /\ Refused(r)) \/ Deadlocked(r)
  /\ Break(r, src[r])
  /\ Release(r)
  /\ UNCHANGED <<graph, ods, hooks, crashes>>

EntitiesDone(r) ==
  /\ pc[r] = "select"
  /\ scan[r].todo = {}
  /\ Goto(r, "relate")
  /\ UNCHANGED <<store, graph, env, scan, ent, tx, src, rel>>

\* TECH_CONTAINS triples of the batch, from a domain to its concepts.
Containment(r) ==
  UNION {IF DomainOf[<<Table(r), k>>] = NoId THEN {}
         ELSE {<<Domain(DomainOf[<<Table(r), k>>]), Concept(c)>> : c \in Terms[<<Table(r), k>>]}
         : k \in scan[r].batch}

\* uq_tech_evidence: a row that gave evidence before gives it again.
Duplicate(r) == \E x \in tx[r].sp \cap evid : Terms[x] # {}

(* One row of _tech_concept_stage: its domain, what the LLM finds in it, its *)
(* concept profiles and their evidence, inside the SAVEPOINT.  These are     *)
(* several awaits and one step, which takes every row lock of the row or     *)
(* waits for them with none.  What a row has written is private to its       *)
(* session until the commit; a deadlock in the middle of a row ends in       *)
(* TechFails, as one between two rows does.                                  *)
TechRow(r) ==
  /\ pc[r] = "tech"
  /\ ~Blocked(r)
  /\ \E k \in First(scan[r].todo) :
       /\ tx' = [tx EXCEPT ![r].sp = @ \cup {<<Table(r), k>>}]
       /\ scan' = [scan EXCEPT ![r].todo = @ \ {k}]
  /\ UNCHANGED <<store, graph, env, pc, ent, src, rel>>

TechDone(r) ==
  /\ pc[r] = "tech"
  /\ scan[r].todo = {}
  /\ ~Duplicate(r)
  /\ WriteRelations(Containment(r))
  /\ tx' = [tx EXCEPT ![r].evid = tx[r].sp, ![r].sp = {}]
  /\ Goto(r, "relate")
  /\ UNCHANGED <<store, env, scan, ent, src, rel>>

NoSavepointBug(r) ==
  /\ pc[r] = "tech" /\ May("tech")
  /\ tx' = [tx EXCEPT ![r].evid = tx[r].sp, ![r].sp = {}]
  /\ scan' = [scan EXCEPT ![r].todo = {}]
  /\ Goto(r, "relate")
  /\ UNCHANGED <<store, graph, env, ent, src, rel>>

(* The stage failed -- an LLM error, evidence that is already there, a      *)
(* concept another process inserted first -- and is rolled back to its      *)
(* SAVEPOINT.  Only the graph keeps what the last step may have written.    *)
TechFails(r) ==
  /\ pc[r] = "tech"
  /\ \/ May("tech") \/ Duplicate(r) \/ Deadlocked(r)
     \/ \E q \in Runs : Running(q) /\ ProcOf[q] # ProcOf[r]
  /\ \/ UNCHANGED graph
     \/ scan[r].todo = {} /\ WriteRelations(Containment(r))
  /\ tx' = [tx EXCEPT ![r].sp = {}]
  /\ scan' = [scan EXCEPT ![r].todo = {}]
  /\ Goto(r, "relate")
  /\ UNCHANGED <<store, env, ent, src, rel>>

(* The structured relations of the batch; a failure is swallowed. *)
Relate(r) ==
  /\ pc[r] = "relate"
  /\ WriteRelations(ResolvedTriples(r))
  /\ Goto(r, "commit")
  /\ UNCHANGED <<store, env, scan, ent, tx, src, rel>>

MarkAfterCommitBug(r) == src[r]
MarkAheadBug(r) == [snap |-> [src[r].snap EXCEPT ![Table(r)] = ods[Table(r)]], dirty |-> TRUE]
\* WatermarkStore.set on the session's source row.
Marked(r) == [snap |-> [src[r].snap EXCEPT ![Table(r)] = scan[r].last], dirty |-> TRUE]

\* The run is over its row cap; 0 stands for no cap.
CapAtZeroBug(r) == scan[r].total + tx[r].n >= MaxRows
CapHit(r) == MaxRows > 0 /\ scan[r].total + tx[r].n >= MaxRows

(* WatermarkStore.set, session.commit, records_imported, and the finally    *)
(* that frees the profile type.  A run over its cap reads no further batch. *)
Commit(r) ==
  /\ pc[r] = "commit"
  /\ done' = done \cup tx[r].done
  /\ errs' = errs \cup tx[r].errs
  /\ evid' = evid \cup tx[r].evid
  /\ CommitTaskRow(r)
  /\ wm' = IF Celery(r) THEN Marked(r).snap ELSE wm
  /\ src' = [src EXCEPT ![r] = [snap |-> Marked(r).snap, dirty |-> ~Celery(r)]]
  /\ scan' = [scan EXCEPT ![r].batch = {}, ![r].total = @ + tx[r].n]
  /\ tx' = [tx EXCEPT ![r] = EmptyTx]
  /\ rel' = [rel EXCEPT ![r] = NoRel]
  /\ Release(r)
  /\ Goto(r, IF CapHit(r) THEN "finish" ELSE "extract")
  /\ UNCHANGED <<graph, ods, hooks, crashes, ent>>

(* The database goes away during the commit: the profile session loses the *)
(* batch, the watermark was already set on the source row.                  *)
CommitFails(r) ==
  /\ May("commit")
  /\ pc[r] = "commit"
  /\ Break(r, Marked(r))
  /\ Release(r)
  /\ UNCHANGED <<graph, ods, hooks, crashes>>

(* After the last batch: content mining, the weak-signal hook, and the last *)
(* commit.  A failure to stage unmapped relations is swallowed, but leaves  *)
(* the session broken for that commit.                                       *)
Finish(r) ==
  /\ pc[r] = "finish"
  /\ WriteRelations({<<Satellite(p[1]), Satellite(p[2])>> : p \in Mined})
  /\ \/ hooks' = IF HookOn /\ scan[r].total > 0 THEN hooks \cup {r} ELSE hooks
     \/ May("broker") /\ UNCHANGED hooks
  /\ \/ /\ Close(r, "completed", src[r])
        /\ Goto(r, "ended") /\ Forget({r})
     \/ May("staging") /\ Break(r, src[r])
  /\ UNCHANGED <<ods, active, crashes>>
-----------------------------------------------------------------------------
(* The environment *)

(* A process dies: what its sessions had not committed is gone. *)
Crash(p) ==
  LET lost == {r \in Runs : ProcOf[r] = p /\ Running(r)}
  IN  /\ May("crash")
      /\ crashes < MaxCrashes
      /\ lost # {}
      /\ crashes' = crashes + 1
      /\ active' = [active EXCEPT ![p] = {}]
      /\ pc' = [r \in Runs |-> IF r \in lost THEN "crashed" ELSE pc[r]]
      /\ Forget(lost)
      /\ UNCHANGED <<store, graph, ods, hooks>>

(* The ODS grows at its end. *)
OdsAppend(t) ==
  /\ ods[t] < MaxKey
  /\ ods' = [ods EXCEPT ![t] = @ + 1]
  /\ UNCHANGED <<store, graph, hooks, active, crashes, pc, scan, ent, tx, src, rel>>

AllRunsOver ==
  /\ \A r \in Runs : pc[r] \in Finished
  /\ UNCHANGED vars

Step(r) ==
  \/ NextTable(r) \/ TablesDone(r) \/ ExtractBatch(r) \/ ExtractFails(r)
  \/ Acquire(r) \/ Resolve(r) \/ ResolveFails(r)
  \/ Select(r) \/ WriteOk(r) \/ WriteFails(r) \/ FlushBreaks(r) \/ EntitiesDone(r)
  \/ TechRow(r) \/ TechDone(r) \/ TechFails(r)
  \/ Relate(r) \/ Commit(r) \/ CommitFails(r) \/ Finish(r)

Next ==
  \/ \E r \in Runs : Start(r) \/ Step(r)
  \/ \E p \in Procs : Crash(p)
  \/ \E t \in Tables : OdsAppend(t)
  \/ AllRunsOver

Spec == Init /\ [][Next]_vars

\* A run that can go on does (the event loop and the worker run their task);
\* a requested run is started (celery delivers, the loop schedules the task).
FairSpec ==
  /\ Spec
  /\ \A r \in Runs : WF_vars(Step(r))
  /\ \A r \in Runs : WF_vars(Start(r))
-----------------------------------------------------------------------------
(* Properties *)

Inside == {"resolve", "select", "flush", "tech", "relate", "commit"}
PCs == {"idle", "extract", "lock", "finish"} \cup Inside \cup Finished

Statuses == {"absent", "pending", "running", "completed", "failed"}
Marks == [Tables -> 0..MaxKey]
Scans == [tab : 1..(Len(TableSeq) + 1), last : 0..MaxKey,
          batch : SUBSET Keys, todo : SUBSET Keys, total : Nat]
Ents == [group : SUBSET Keys, seen : BOOLEAN]
Txs == [done : SUBSET Rows, errs : SUBSET Rows, evid : SUBSET Rows,
        sp : SUBSET Rows, n : Nat]
Srcs == [snap : Marks, dirty : BOOLEAN]

StoreOK ==
  /\ done \subseteq Rows /\ errs \subseteq Rows /\ evid \subseteq Rows
  /\ wm \in Marks
  /\ taskdb \in [Runs -> Statuses]
  /\ recdb \in [Runs -> Nat]
EnvOK ==
  /\ ods \in Marks
  /\ hooks \subseteq Runs
  /\ active \in [Procs -> SUBSET Types]
  /\ crashes \in 0..MaxCrashes
RunsOK ==
  /\ pc \in [Runs -> PCs]
  /\ scan \in [Runs -> Scans]
  /\ ent \in [Runs -> Ents]
  /\ tx \in [Runs -> Txs]
  /\ src \in [Runs -> Srcs]

\* Types of all variables but the graph, whose nodes are of several kinds.
TypeOK == StoreOK /\ EnvOK /\ RunsOK

\* Tables whose rows become profiles.
Promised == Tables \ (TechTables \cup Unmapped)
Listed == {TableSeq[i] : i \in 1..Len(TableSeq)}
Accounted(t, k) == <<t, k>> \in done \cup errs

\* Resuming from the watermark skips nothing: every row at or below the
\* committed watermark of its table is in a profile or in an error record
\* (orchestrator.py "C3": the watermark and the profiles commit together).
NoSilentLoss == \A t \in Promised : \A k \in 1..wm[t] : Accounted(t, k)

\* The other half of C3: once nothing runs, whether the last run ended or
\* died, no row that reached a profile lies above the watermark.
CrashConsistent ==
  (\A r \in Runs : ~Running(r)) => \A x \in done : x[2] <= wm[x[1]]

\* Task status "completed" means what it says: without a row cap, every row
\* the tables held at the start is in a profile or in an error record.
CompletedIsHonest ==
  MaxRows = 0 =>
    \A r \in Runs : taskdb[r] = "completed" =>
      \A t \in Promised \cap Listed : \A k \in 1..InitRows[t] : Accounted(t, k)

\* records_imported of a task never claims more than was committed, whatever
\* failed in between.
ImportedNeverOverstated == \A r \in Runs : recdb[r] <= Cardinality(done)

\* The purpose of _active_types: within one process no run ever waits for, or
\* collides with, the uncommitted profile writes of another.
NoWaitInProcess ==
  \A q, r \in Runs : ProcOf[q] = ProcOf[r] => ~WaitsFor(r, q)

\* A run waits for a profile type that is taken, or for the row of a session that
\* PostgreSQL sees no deadlock with.
Waits(r) ==
  \/ pc[r] = "lock" /\ TypeOf[Table(r)] \in active[ProcOf[r]]
  \/ Blocked(r) /\ ~Deadlocked(r)

\* The runs never all wait: no profile type stays taken by a run that is over, and
\* no cycle of waits goes through _active_types, where PostgreSQL cannot see it.
NoStandstill ==
  (\E r \in Runs : Running(r)) => \E r \in Runs : Running(r) /\ ~Waits(r)

\* The SAVEPOINT around _tech_concept_stage: a commit that adds concepts and
\* evidence adds those of every row of the batch, never of a part of it.
TechBatchAtomic ==
  [][\A r \in Runs :
       pc[r] = "commit" /\ pc'[r] # "commit" /\ evid' # evid
         => Rowset(Table(r), scan[r].batch) \subseteq evid']_vars

\* Per-table watermarks (C2) only move forward: a run never resumes one table
\* from the position of another, nor from an older one.
WatermarkAdvances == [][\A t \in Tables : wm[t] <= wm'[t]]_vars

\* Every structured relation of a batch is in the graph when the batch
\* commits: the end nodes were made before the MATCH-based MERGE needed them.
RelationsLand ==
  \A r \in Runs : pc[r] = "commit" => ResolvedTriples(r) \subseteq edges

\* Committed evidence of a concept comes with the TECH_CONTAINS edge from the
\* concept's IPC domain.
ContainmentLands ==
  \A x \in evid : DomainOf[x] # NoId =>
    \A c \in Terms[x] : <<Domain(DomainOf[x]), Concept(c)>> \in edges

\* A run that is over, and did not die with its process, has left a final
\* status in its task row.
EndedIsMarked ==
  \A r \in Runs : pc[r] = "ended" => taskdb[r] \in {"completed", "failed"}

\* Every run comes to its end: no run waits forever for a profile type, for a
\* row lock, or for another run.
RunsFinish == \A r \in Runs : Running(r) ~> pc[r] \in Finished

\* Two runs over the same rows never bring each other down: whichever loses a
\* row conflict, every row ends up in a profile or in an error record.
RowsEventuallyAccounted ==
  <>[](\A t \in Promised \cap Listed : \A k \in 1..InitRows[t] : Accounted(t, k))

\* The pipeline keeps its promise (refinement of IngestPromise).
Promise == INSTANCE IngestPromise WITH
  Tables <- Tables, Promised <- Promised, MaxKey <- MaxKey, done <- done, errs <- errs, wm <- wm
PromiseKept == Promise!Spec
=============================================================================
