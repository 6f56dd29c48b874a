------------------------ MODULE CollectionTask_proofs ------------------------
(***************************************************************************)
(* Proofs about CollectionTask, for any number of tasks, users and faults. *)
(***************************************************************************)
EXTENDS CollectionTask, FiniteSetTheorems, TLAPS

-----------------------------------------------------------------------------
(* Types. *)

\* What an import request counts and stores are numbers.
LEMMA AnswersAreCounts ==
  ASSUME NEW valid \in Seq(Kinds)
  PROVE  Answers(valid) \subseteq Nat \X Nat
<1>1. IsFiniteSet(DOMAIN valid)
  BY FS_Interval
<1>2. Accepted(valid) \in Nat
  <2>1. IsFiniteSet({i \in DOMAIN valid : valid[i] = "good"})
    BY <1>1, FS_Subset
  <2> QED BY <2>1, FS_CardinalityType DEF Accepted
<1>3. Cardinality(Stored(valid)) \in Nat
  <2>1. IsFiniteSet(Stored(valid))
    BY <1>1, FS_Subset DEF Stored
  <2> QED BY <2>1, FS_CardinalityType
<1> QED BY <1>2, <1>3 DEF Answers

\* The profiles a run has fetched are a sequence of admitted and other kinds.
LEMMA FeedType ==
  ASSUME RunsOK, NEW t \in Tasks
  PROVE  run[t].feed.valid \in Seq(Kinds)
<1>1. run[t].feed \in Feeds \cup {NoFeed}
  BY DEF RunsOK, Run
<1>2. NoFeed.valid \in Seq(Kinds)
  BY DEF NoFeed
<1>3. \A f \in Feeds : f.valid \in Seq(Kinds)
  BY CollectionConstants
<1> QED BY <1>1, <1>2, <1>3

\* An empty config is a config, and an empty run a run.
LEMMA NoRunType == NoConfig \in Config /\ NoRun \in Run
<1>1. 0 \in 0..MaxMark
  BY CollectionConstants
<1>2. NoConfig \in Config
  BY <1>1 DEF NoConfig, Config
<1> QED BY <1>2 DEF NoRun, Run, PCs

LEMMA TypeInit == Init => TypeOK
<1> SUFFICES ASSUME Init PROVE TypeOK
  OBVIOUS
<1>1. PICK y \in Types :
        source = [there |-> TRUE, type |-> y, config |-> NoConfig, last |-> "never"]
  BY DEF Init
<1>2. source \in Source
  BY <1>1, NoRunType DEF Source
<1>3. row \in [Tasks -> Row] /\ stored \in [Tasks -> Nat]
  BY DEF Init, Row
<1>4. RunsOK
  BY NoRunType DEF Init, RunsOK
<1>5. form \in [Forms -> [pc : {"closed", "open", "saved"}, copy : Config]]
  BY NoRunType DEF Init
<1>6. 0 \in 0..MaxFaults
  BY CollectionConstants
<1>7. EnvOK
  BY <1>5, <1>6 DEF Init, EnvOK
<1> QED BY <1>2, <1>3, <1>4, <1>7 DEF TypeOK, StoreOK

\* A run that is written back, or forgets erased edits, is still a run.
LEMMA KeepType ==
  ASSUME NEW runs \in [Tasks -> Run], NEW edits
  PROVE  Keep(runs, edits) \in [Tasks -> Run]
BY DEF Keep, Run

LEMMA PointType ==
  ASSUME RunsOK, NEW t \in Tasks, NEW pc \in PCs
  PROVE  [run EXCEPT ![t].pc = pc] \in [Tasks -> Run]
BY DEF RunsOK, Run

LEMMA GotoType ==
  ASSUME RunsOK, NEW t \in Tasks, NEW pc \in PCs, Goto(t, pc)
  PROVE  RunsOK'
BY PointType DEF Goto, RunsOK

LEMMA FailType ==
  ASSUME RunsOK, NEW t \in Tasks, FailRun(t)
  PROVE  RunsOK'
<1>1. [run EXCEPT ![t].pc = "finish", ![t].ok = FALSE] \in [Tasks -> Run]
  BY DEF RunsOK, Run, PCs
<1> QED BY <1>1 DEF FailRun, RunsOK

\* What a run reads of the source.
LEMMA ConfigType ==
  ASSUME StoreOK
  PROVE  source.config \in Config /\ source.config.edits \in SUBSET Forms
BY DEF StoreOK, Source, Config

LEMMA BeganType ==
  ASSUME RunsOK, NEW t \in Tasks, NEW pc \in PCs, NEW e \in SUBSET Forms
  PROVE  [run EXCEPT ![t].pc = pc, ![t].began = e] \in [Tasks -> Run]
BY DEF RunsOK, Run

LEMMA CopyType ==
  ASSUME RunsOK, NEW t \in Tasks, NEW pc \in PCs, NEW c \in Config
  PROVE  [run EXCEPT ![t].pc = pc, ![t].copy = c] \in [Tasks -> Run]
BY DEF RunsOK, Run

LEMMA CopyBeganType ==
  ASSUME RunsOK, NEW t \in Tasks, NEW pc \in PCs, NEW c \in Config, NEW e \in SUBSET Forms
  PROVE  [run EXCEPT ![t].pc = pc, ![t].copy = c, ![t].began = e] \in [Tasks -> Run]
BY DEF RunsOK, Run

LEMMA FeedTakenType ==
  ASSUME RunsOK, NEW t \in Tasks, NEW pc \in PCs, NEW f \in Feeds
  PROVE  [run EXCEPT ![t].pc = pc, ![t].feed = f] \in [Tasks -> Run]
BY DEF RunsOK, Run

LEMMA CountType ==
  ASSUME RunsOK, NEW t \in Tasks, NEW pc \in PCs, NEW n \in Nat
  PROVE  [run EXCEPT ![t].pc = pc, ![t].count = n] \in [Tasks -> Run]
BY DEF RunsOK, Run

\* A run that has read one more batch.
LEMMA MarkType ==
  ASSUME RunsOK, NEW t \in Tasks, run[t].copy.mark < MaxMark
  PROVE  [run[t].copy EXCEPT !.mark = @ + 1] \in Config
<1>1. MaxMark \in Nat
  BY CollectionConstants
<1>2. run[t].copy \in Config
  BY DEF RunsOK, Run
<1>3. run[t].copy.mark + 1 \in 0..MaxMark
  BY <1>1, <1>2 DEF Config
<1> QED BY <1>2, <1>3 DEF Config

LEMMA FieldType ==
  ASSUME NEW r \in Run
  PROVE  /\ \A c \in Config : [r EXCEPT !.copy = c] \in Run
         /\ [r EXCEPT !.dirty = TRUE] \in Run
         /\ \A n \in Nat : [r EXCEPT !.count = n] \in Run
<1>1. \A c \in Config : [r EXCEPT !.copy = c] \in Run
  BY DEF Run
<1>2. [r EXCEPT !.dirty = TRUE] \in Run
  BY DEF Run
<1>3. \A n \in Nat : [r EXCEPT !.count = n] \in Run
  BY DEF Run
<1> QED BY <1>1, <1>2, <1>3

LEMMA ReadType ==
  ASSUME NEW r \in Run, NEW c \in Config
  PROVE  /\ [[r EXCEPT !.copy = c] EXCEPT !.count = r.count + 1] \in Run
         /\ [[[r EXCEPT !.copy = c] EXCEPT !.dirty = TRUE] EXCEPT !.count = r.count + 1] \in Run
<1>1. r.count + 1 \in Nat
  BY DEF Run
<1> DEFINE a == [r EXCEPT !.copy = c]
           b == [a EXCEPT !.dirty = TRUE]
<1>2. a \in Run
  BY FieldType
<1>3. b \in Run
  <2> HIDE DEF a
  <2> QED BY <1>2, FieldType
<1> HIDE DEF a, b
<1>4. [a EXCEPT !.count = r.count + 1] \in Run /\ [b EXCEPT !.count = r.count + 1] \in Run
  BY <1>1, <1>2, <1>3, FieldType
<1> QED BY <1>4 DEF a, b

LEMMA BatchType ==
  ASSUME RunsOK, NEW t \in Tasks, run[t].copy.mark < MaxMark
  PROVE  [run EXCEPT ![t].copy.mark = @ + 1, ![t].dirty = TRUE, ![t].count = @ + 1]
           \in [Tasks -> Run]
<1> DEFINE r == [[[run[t] EXCEPT !.copy = [run[t].copy EXCEPT !.mark = @ + 1]]
                    EXCEPT !.dirty = TRUE] EXCEPT !.count = run[t].count + 1]
<1>1. run[t] \in Run
  BY DEF RunsOK
<1>2. r \in Run
  BY <1>1, MarkType, ReadType
<1>3. [run EXCEPT ![t] = r] \in [Tasks -> Run]
  BY <1>2 DEF RunsOK
<1>4. [run EXCEPT ![t].copy.mark = @ + 1, ![t].dirty = TRUE, ![t].count = @ + 1]
        = [run EXCEPT ![t] = r]
  BY <1>1 DEF RunsOK, Run
<1> QED BY <1>3, <1>4

LEMMA JobBatchType ==
  ASSUME RunsOK, NEW t \in Tasks, run[t].copy.mark < MaxMark
  PROVE  [run EXCEPT ![t].copy.mark = @ + 1, ![t].count = @ + 1] \in [Tasks -> Run]
<1> DEFINE r == [[run[t] EXCEPT !.copy = [run[t].copy EXCEPT !.mark = @ + 1]]
                    EXCEPT !.count = run[t].count + 1]
<1>1. run[t] \in Run
  BY DEF RunsOK
<1>2. r \in Run
  BY <1>1, MarkType, ReadType
<1>3. [run EXCEPT ![t] = r] \in [Tasks -> Run]
  BY <1>2 DEF RunsOK
<1>4. [run EXCEPT ![t].copy.mark = @ + 1, ![t].count = @ + 1] = [run EXCEPT ![t] = r]
  BY <1>1 DEF RunsOK, Run
<1> QED BY <1>3, <1>4

\* A fault is counted within its bound.
LEMMA FaultType ==
  ASSUME faults \in 0..MaxFaults, Fault
  PROVE  faults' \in 0..MaxFaults
BY CollectionConstants DEF Fault

LEMMA TypeStep == TypeOK /\ [Next]_vars => TypeOK'
<1> SUFFICES ASSUME StoreOK, RunsOK, EnvOK, [Next]_vars
             PROVE  StoreOK' /\ RunsOK' /\ EnvOK'
  BY DEF TypeOK
<1>1. ASSUME NEW t \in Triggers, Trigger(t) \/ RequestStep(t)
      PROVE  StoreOK' /\ RunsOK' /\ EnvOK'
  <2> t \in Tasks
    BY DEF Tasks
  <2>1. CASE Trigger(t)
    <3>1. RunsOK'
      BY <2>1, PointType DEF Trigger, RunsOK, PCs
    <3> QED BY <2>1, <3>1 DEF Trigger, StoreOK, EnvOK
  <2>2. CASE TriggerCommit(t)
    <3>1. row' \in [Tasks -> Row]
      BY <2>2 DEF TriggerCommit, StoreOK, Row
    <3>2. source' \in Source
      BY <2>2 DEF TriggerCommit, StoreOK, Source
    <3> QED BY <2>2, <3>1, <3>2 DEF TriggerCommit, StoreOK, RunsOK, EnvOK
  <2>3. CASE TriggerLost(t)
    BY <2>3, FaultType DEF TriggerLost, StoreOK, RunsOK, EnvOK
  <2> QED BY <1>1, <2>1, <2>2, <2>3 DEF RequestStep
<1>2. ASSUME NEW t \in Triggers, Step(t)
      PROVE  StoreOK' /\ RunsOK' /\ EnvOK'
  <2> t \in Tasks
    BY DEF Tasks
  <2>1. CASE Look(t)
    <3>1. CASE Goto(t, "missed")
      BY <2>1, <3>1, GotoType DEF Look, PCs, StoreOK, EnvOK
    <3>2. CASE run' = [run EXCEPT ![t].pc = "load", ![t].began = source.config.edits]
      <4>1. RunsOK'
        BY <3>2, BeganType, ConfigType DEF RunsOK, PCs
      <4> QED BY <2>1, <4>1 DEF Look, StoreOK, EnvOK
    <3> QED BY <2>1, <3>1, <3>2 DEF Look
  <2>2. CASE Branch(t)
    <3>1. RunsOK'
      <4>1. CASE Goto(t, "fetch")
        BY <4>1, GotoType DEF PCs
      <4>2. CASE run' = [run EXCEPT ![t].pc = "batches", ![t].copy = source.config]
        BY <4>2, CopyType, ConfigType DEF RunsOK, PCs
      <4>3. CASE FailRun(t)
        BY <4>3, FailType
      <4> QED BY <2>2, <4>1, <4>2, <4>3 DEF Branch
    <3> QED BY <2>2, <3>1 DEF Branch, StoreOK, EnvOK
  <2>3. CASE Fetch(t)
    <3>1. RunsOK'
      <4>1. CASE FailRun(t)
        BY <4>1, FailType
      <4>2. ASSUME NEW f \in Feeds,
                   run' = [run EXCEPT ![t].pc = IF f = NoFeed THEN "finish" ELSE "import",
                                      ![t].feed = f]
            PROVE  RunsOK'
        <5>1. (IF f = NoFeed THEN "finish" ELSE "import") \in PCs
          BY DEF PCs
        <5> QED BY <4>2, <5>1, FeedTakenType DEF RunsOK
      <4> QED BY <2>3, <4>1, <4>2 DEF Fetch
    <3> QED BY <2>3, <3>1 DEF Fetch, StoreOK, EnvOK
  <2>4. CASE Import(t)
    <3>1. Answers(run[t].feed.valid) \subseteq Nat \X Nat
      BY FeedType, AnswersAreCounts
    <3>2. RunsOK' /\ stored' \in [Tasks -> Nat]
      <4>1. CASE source.type = "feed"
        <5>1. PICK a \in Answers(run[t].feed.valid) :
                /\ run' = [run EXCEPT ![t].pc = "finish", ![t].count = a[1]]
                /\ stored' = [stored EXCEPT ![t] = a[2]]
          BY <2>4, <4>1 DEF Import
        <5>2. a[1] \in Nat /\ a[2] \in Nat
          BY <3>1
        <5>3. RunsOK'
          BY <5>1, <5>2, CountType DEF RunsOK, PCs
        <5> QED BY <5>1, <5>2, <5>3 DEF StoreOK
      <4>2. CASE source.type # "feed"
        BY <2>4, <4>2, FailType DEF Import, StoreOK
      <4> QED BY <4>1, <4>2
    <3> QED BY <2>4, <3>2 DEF Import, StoreOK, EnvOK
  <2>5. CASE Batch(t)
    <3>1. RunsOK'
      BY <2>5, BatchType DEF Batch, RunsOK
    <3> QED BY <2>5, <3>1 DEF Batch, StoreOK, EnvOK
  <2>6. CASE BatchesEnd(t)
    <3>1. RunsOK'
      BY <2>6, GotoType, FailType DEF BatchesEnd, PCs
    <3> QED BY <2>6, <3>1 DEF BatchesEnd, StoreOK, EnvOK
  <2>7. CASE Finish(t)
    <3>1. [run EXCEPT ![t].pc = "over"] \in [Tasks -> Run]
      BY PointType DEF PCs
    <3>2. RunsOK'
      BY <2>7, <3>1, KeepType DEF Finish, RunsOK
    <3>3. Written(t) \in Source
      BY DEF Written, StoreOK, Source, RunsOK, Run
    <3>4. [status |-> Status(t), imported |-> run[t].count] \in Row
      BY DEF Status, Row, Ends, RunsOK, Run
    <3> QED BY <2>7, <3>2, <3>3, <3>4 DEF Finish, StoreOK, EnvOK
  <2>8. CASE FinishLost(t)
    <3>1. RunsOK'
      BY <2>8, GotoType DEF FinishLost, PCs
    <3> QED BY <2>8, <3>1, FaultType DEF FinishLost, StoreOK, EnvOK
  <2> QED BY <1>2, <2>1, <2>2, <2>3, <2>4, <2>5, <2>6, <2>7, <2>8 DEF Step
<1>3. ASSUME NEW j \in Jobs, JobStep(j)
      PROVE  StoreOK' /\ RunsOK' /\ EnvOK'
  <2> j \in Tasks
    BY DEF Tasks
  <2>1. CASE JobStart(j)
    <3>1. RunsOK'
      <4>1. CASE Goto(j, "over")
        BY <4>1, GotoType DEF PCs
      <4>2. CASE run' = [run EXCEPT ![j].pc = "job", ![j].copy = source.config,
                                    ![j].began = source.config.edits]
        BY <4>2, CopyBeganType, ConfigType DEF RunsOK, PCs
      <4> QED BY <2>1, <4>1, <4>2 DEF JobStart
    <3> QED BY <2>1, <3>1 DEF JobStart, StoreOK, EnvOK
  <2>2. CASE JobBatch(j)
    <3>1. RunsOK'
      <4>1. CASE source.there
        <5> DEFINE runs == [run EXCEPT ![j].copy.mark = @ + 1, ![j].count = @ + 1]
        <5>1. runs \in [Tasks -> Run]
          BY <2>2, JobBatchType DEF JobBatch
        <5>2. run' = Keep(runs, run[j].copy.edits)
          BY <2>2, <4>1 DEF JobBatch
        <5> HIDE DEF runs
        <5> QED BY <5>1, <5>2, KeepType DEF RunsOK
      <4>2. CASE ~source.there
        BY <2>2, <4>2, GotoType DEF JobBatch, PCs
      <4> QED BY <4>1, <4>2
    <3>2. source' \in Source
      BY <2>2, MarkType DEF JobBatch, StoreOK, Source
    <3>3. row' \in [Tasks -> Row]
      BY <2>2 DEF JobBatch, StoreOK, Row, RunsOK, Run
    <3> QED BY <2>2, <3>1, <3>2, <3>3 DEF JobBatch, StoreOK, EnvOK
  <2>3. CASE JobEnd(j)
    <3>1. row' \in [Tasks -> Row]
      BY <2>3 DEF JobEnd, StoreOK, Row, RunsOK, Run, Ends
    <3>2. RunsOK'
      BY <2>3, GotoType DEF JobEnd, PCs
    <3> QED BY <2>3, <3>1, <3>2 DEF JobEnd, StoreOK, EnvOK
  <2>4. CASE JobCrash(j)
    <3>1. RunsOK'
      BY <2>4, GotoType DEF JobCrash, PCs
    <3> QED BY <2>4, <3>1, FaultType DEF JobCrash, StoreOK, EnvOK
  <2> QED BY <1>3, <2>1, <2>2, <2>3, <2>4 DEF JobStep
<1>4. ASSUME NEW f \in Forms, FormOpen(f) \/ FormSave(f)
      PROVE  StoreOK' /\ RunsOK' /\ EnvOK'
  <2>1. CASE FormOpen(f)
    <3>1. form' \in [Forms -> [pc : {"closed", "open", "saved"}, copy : Config]]
      BY <2>1 DEF FormOpen, EnvOK, StoreOK, Source
    <3> QED BY <2>1, <3>1 DEF FormOpen, StoreOK, RunsOK, EnvOK
  <2>2. CASE FormSave(f)
    <3>1. RunsOK'
      BY <2>2, KeepType DEF FormSave, RunsOK
    <3>2. source' \in Source
      BY <2>2 DEF FormSave, StoreOK, EnvOK, Source, Config
    <3>3. form' \in [Forms -> [pc : {"closed", "open", "saved"}, copy : Config]]
      BY <2>2 DEF FormSave, EnvOK
    <3> QED BY <2>2, <3>1, <3>2, <3>3 DEF FormSave, StoreOK, EnvOK
  <2> QED BY <1>4, <2>1, <2>2
<1>5. CASE Delete
  <2>1. source' \in Source
    BY <1>5 DEF Delete, StoreOK, Source
  <2> QED BY <1>5, <2>1 DEF Delete, StoreOK, RunsOK, EnvOK
<1>6. CASE BackendCrash
  <2>1. RunsOK'
    <3>1. \A t \in Tasks : [run[t] EXCEPT !.pc = "over"] \in Run
      BY DEF RunsOK, Run, PCs
    <3> QED BY <1>6, <3>1 DEF BackendCrash, RunsOK
  <2> QED BY <1>6, <2>1, FaultType DEF BackendCrash, StoreOK, EnvOK
<1>7. CASE Restart
  <2>1. Swept \in [Tasks -> Row]
    BY DEF Swept, StoreOK, Row, Ends
  <2> QED BY <1>7, <2>1, FaultType DEF Restart, StoreOK, RunsOK, EnvOK
<1>8. CASE UNCHANGED vars
  BY <1>8 DEF vars, StoreOK, RunsOK, EnvOK
<1> QED BY <1>1, <1>2, <1>3, <1>4, <1>5, <1>6, <1>7, <1>8 DEF Next

\* Whatever happens to the backend, the jobs and the source, every row, run and
\* form stays what its columns and code points allow.
THEOREM CollectionTypeCorrect == Spec => []TypeOK
<1>1. Init => TypeOK
  BY TypeInit
<1>2. TypeOK /\ [Next]_vars => TypeOK'
  BY TypeStep
<1> QED BY <1>1, <1>2, PTL DEF Spec

-----------------------------------------------------------------------------
(* The rows keep the promise of TaskLife. *)

\* Where a background task still has its session open.
Live == {"scheduled", "load", "fetch", "import", "batches", "finish"}

\* No row, and no run past its look at it, before the request's commit; no final row under a live background task
\* (the sweep marks rows only while none lives), and no row before its job.
LifeInv ==
  /\ \A t \in Triggers :
       /\ req[t] \in {"none", "open"} => row[t].status = "absent"
       /\ req[t] = "open" => backend = "up"
       /\ run[t].pc \in Live => ~Final(t) /\ backend = "up"
       /\ run[t].pc \in Live \ {"scheduled"} => req[t] \notin {"none", "open"}
       /\ run[t].pc # "job"
  /\ \A j \in Jobs : run[j].pc = "idle" => row[j].status = "absent"

\* One task row, in one step.
LifeMove(t) ==
  \/ LifeOf(t)' = LifeOf(t)
  \/ LifeOf(t) = "absent" /\ LifeOf(t)' = "open"
  \/ LifeOf(t) \in {"absent", "open"} /\ LifeOf(t)' \in Ends

\* What a step leaves alone of the other tasks.
Others(t) == \A u \in Tasks \ {t} : run'[u].pc = run[u].pc /\ row'[u] = row[u]

LEMMA KeepPc ==
  ASSUME NEW runs \in [Tasks -> Run], NEW edits, NEW u \in Tasks
  PROVE  Keep(runs, edits)[u].pc = runs[u].pc
BY DEF Keep, Run

LEMMA GotoEffect ==
  ASSUME RunsOK, NEW t \in Tasks, NEW pc, Goto(t, pc)
  PROVE  run'[t].pc = pc /\ \A u \in Tasks \ {t} : run'[u].pc = run[u].pc
BY DEF Goto, RunsOK, Run

LEMMA FailEffect ==
  ASSUME RunsOK, NEW t \in Tasks, FailRun(t)
  PROVE  run'[t].pc = "finish" /\ \A u \in Tasks \ {t} : run'[u].pc = run[u].pc
BY DEF FailRun, RunsOK, Run

\* A step of a background task touches its own row only, and only to end it.
LEMMA StepEffect ==
  ASSUME TypeOK, NEW t \in Triggers, Step(t)
  PROVE  /\ Others(t)
         /\ run[t].pc \in Live
         /\ \/ /\ row'[t] = row[t] /\ run'[t].pc \in Live \cup {"missed", "lost"}
               /\ run[t].pc = "scheduled" /\ run'[t].pc \in Live => row[t].status # "absent"
            \/ run[t].pc = "finish" /\ row'[t].status \in Ends /\ run'[t].pc = "over"
         /\ req' = req /\ backend' = backend
<1> t \in Tasks
  BY DEF Tasks
<1> RunsOK /\ StoreOK
  BY DEF TypeOK
<1>1. CASE Look(t)
  <2>1. CASE row[t].status = "absent"
    BY <1>1, <2>1, GotoEffect DEF Look, Live, Others
  <2>2. CASE row[t].status # "absent"
    <3>1. run'[t].pc = "load" /\ \A u \in Tasks \ {t} : run'[u].pc = run[u].pc
      BY <1>1, <2>2 DEF Look, RunsOK, Run
    <3> QED BY <1>1, <2>2, <3>1 DEF Look, Live, Others
  <2> QED BY <1>1, <2>1, <2>2 DEF Look
<1>2. CASE Branch(t)
  <2>1. CASE Goto(t, "fetch")
    BY <1>2, <2>1, GotoEffect DEF Branch, Live, Others
  <2>2. CASE run' = [run EXCEPT ![t].pc = "batches", ![t].copy = source.config]
    <3>1. run'[t].pc = "batches" /\ \A u \in Tasks \ {t} : run'[u].pc = run[u].pc
      BY <2>2 DEF RunsOK, Run
    <3> QED BY <1>2, <3>1 DEF Branch, Live, Others
  <2>3. CASE FailRun(t)
    BY <1>2, <2>3, FailEffect DEF Branch, Live, Others
  <2> QED BY <1>2, <2>1, <2>2, <2>3 DEF Branch
<1>3. CASE Fetch(t)
  <2>1. CASE FailRun(t)
    BY <1>3, <2>1, FailEffect DEF Fetch, Live, Others
  <2>2. ASSUME NEW f \in Feeds,
               run' = [run EXCEPT ![t].pc = IF f = NoFeed THEN "finish" ELSE "import",
                                  ![t].feed = f]
        PROVE  /\ run'[t].pc \in {"finish", "import"}
               /\ \A u \in Tasks \ {t} : run'[u].pc = run[u].pc
    BY <2>2 DEF RunsOK, Run
  <2>3. run[t].pc = "fetch" /\ row' = row /\ req' = req /\ backend' = backend
    BY <1>3 DEF Fetch
  <2>4. /\ run'[t].pc \in {"finish", "import"}
        /\ \A u \in Tasks \ {t} : run'[u].pc = run[u].pc
    BY <1>3, <2>2, FailEffect DEF Fetch
  <2> QED BY <2>3, <2>4 DEF Live, Others
<1>4. CASE Import(t)
  <2>1. run'[t].pc = "finish" /\ \A u \in Tasks \ {t} : run'[u].pc = run[u].pc
    <3>1. CASE source.type = "feed"
      <4>1. PICK a : run' = [run EXCEPT ![t].pc = "finish", ![t].count = a[1]]
        BY <1>4, <3>1 DEF Import
      <4> QED BY <4>1 DEF RunsOK, Run
    <3>2. CASE source.type # "feed"
      BY <1>4, <3>2, FailEffect DEF Import
    <3> QED BY <3>1, <3>2
  <2> QED BY <1>4, <2>1 DEF Import, Live, Others
<1>5. CASE Batch(t)
  <2>1. run'[t].pc = run[t].pc /\ \A u \in Tasks \ {t} : run'[u].pc = run[u].pc
    BY <1>5 DEF Batch, RunsOK, Run
  <2> QED BY <1>5, <2>1 DEF Batch, Live, Others
<1>6. CASE BatchesEnd(t)
  <2>1. run'[t].pc = "finish" /\ \A u \in Tasks \ {t} : run'[u].pc = run[u].pc
    BY <1>6, GotoEffect, FailEffect DEF BatchesEnd
  <2> QED BY <1>6, <2>1 DEF BatchesEnd, Live, Others
<1>7. CASE Finish(t)
  <2> DEFINE runs == [run EXCEPT ![t].pc = "over"]
  <2>1. runs \in [Tasks -> Run]
    BY PointType DEF PCs
  <2>2. runs[t].pc = "over" /\ \A u \in Tasks \ {t} : runs[u].pc = run[u].pc
    BY DEF RunsOK, Run
  <2>3. run' = Keep(runs, Written(t).config.edits)
    BY <1>7 DEF Finish
  <2> HIDE DEF runs
  <2>4. run'[t].pc = "over" /\ \A u \in Tasks \ {t} : run'[u].pc = run[u].pc
    BY <2>1, <2>2, <2>3, KeepPc
  <2>5. row'[t].status \in Ends /\ \A u \in Tasks \ {t} : row'[u] = row[u]
    BY <1>7 DEF Finish, StoreOK, Status, Ends
  <2> QED BY <1>7, <2>4, <2>5 DEF Finish, Live, Others
<1>8. CASE FinishLost(t)
  BY <1>8, GotoEffect DEF FinishLost, Live, Others
<1> QED BY <1>1, <1>2, <1>3, <1>4, <1>5, <1>6, <1>7, <1>8 DEF Step

\* So does a step of a job; the row appears while the job runs.
LEMMA JobEffect ==
  ASSUME TypeOK, NEW j \in Jobs, JobStep(j)
  PROVE  /\ Others(j)
         /\ \/ /\ run[j].pc = "idle" /\ run'[j].pc \in {"job", "over"}
               /\ row'[j] = row[j]
            \/ /\ run[j].pc = "job" /\ run'[j].pc = "job"
               /\ row'[j].status = IF row[j].status = "absent" THEN "running"
                                   ELSE row[j].status
            \/ run[j].pc = "job" /\ run'[j].pc = "lost" /\ row'[j] = row[j]
            \/ run[j].pc = "job" /\ run'[j].pc = "over" /\ row'[j].status \in Ends
         /\ req' = req /\ backend' = backend
<1> j \in Tasks
  BY DEF Tasks
<1> RunsOK /\ StoreOK
  BY DEF TypeOK
<1>1. CASE JobStart(j)
  <2>1. CASE Goto(j, "over")
    BY <1>1, <2>1, GotoEffect DEF JobStart, Others
  <2>2. CASE run' = [run EXCEPT ![j].pc = "job", ![j].copy = source.config,
                                ![j].began = source.config.edits]
    <3>1. run'[j].pc = "job" /\ \A u \in Tasks \ {j} : run'[u].pc = run[u].pc
      BY <2>2 DEF RunsOK, Run
    <3> QED BY <1>1, <3>1 DEF JobStart, Others
  <2> QED BY <1>1, <2>1, <2>2 DEF JobStart
<1>2. CASE JobBatch(j)
  <2>1. CASE source.there
    <3> DEFINE runs == [run EXCEPT ![j].copy.mark = @ + 1, ![j].count = @ + 1]
    <3>1. runs \in [Tasks -> Run]
      BY <1>2, JobBatchType DEF JobBatch
    <3>2. \A u \in Tasks : runs[u].pc = run[u].pc
      BY DEF RunsOK, Run
    <3>3. run' = Keep(runs, run[j].copy.edits)
      BY <1>2, <2>1 DEF JobBatch
    <3> HIDE DEF runs
    <3>4. \A u \in Tasks : run'[u].pc = run[u].pc
      BY <3>1, <3>2, <3>3, KeepPc
    <3>5. /\ row'[j].status = IF row[j].status = "absent" THEN "running" ELSE row[j].status
          /\ \A u \in Tasks \ {j} : row'[u] = row[u]
      BY <1>2, <2>1 DEF JobBatch, StoreOK, Row
    <3> QED BY <1>2, <3>4, <3>5 DEF JobBatch, Others
  <2>2. CASE ~source.there
    BY <1>2, <2>2, GotoEffect DEF JobBatch, Others
  <2> QED BY <2>1, <2>2
<1>3. CASE JobEnd(j)
  <2>1. row'[j].status \in Ends /\ \A u \in Tasks \ {j} : row'[u] = row[u]
    BY <1>3 DEF JobEnd, StoreOK, Ends
  <2> QED BY <1>3, <2>1, GotoEffect DEF JobEnd, Others
<1>4. CASE JobCrash(j)
  BY <1>4, GotoEffect DEF JobCrash, Others
<1> QED BY <1>1, <1>2, <1>3, <1>4 DEF JobStep

\* A step that leaves the code points and the rows' statuses moves no life.
LEMMA SameLife ==
  ASSUME NEW u \in Tasks, run'[u].pc = run[u].pc, row'[u].status = row[u].status
  PROVE  LifeMove(u)
BY DEF LifeMove, LifeOf, Final

LEMMA LifeInit == TypeOK /\ Init => LifeInv /\ Life = [t \in Tasks |-> "absent"]
<1> SUFFICES ASSUME Init PROVE LifeInv /\ Life = [t \in Tasks |-> "absent"]
  OBVIOUS
<1>1. \A t \in Tasks : row[t].status = "absent" /\ run[t].pc = "idle"
  BY DEF Init, NoRun
<1>2. \A t \in Tasks : LifeOf(t) = "absent"
  BY <1>1 DEF LifeOf
<1>3. LifeInv
  BY <1>1 DEF LifeInv, Init, Live, Tasks
<1> QED BY <1>2, <1>3 DEF Life

\* A row under a live task, a job's own row: each step moves its life as TaskLife
\* allows, and keeps the invariant.
LEMMA LifeStep ==
  ASSUME TypeOK, LifeInv, [Next]_vars
  PROVE  LifeInv' /\ \A t \in Tasks : LifeMove(t)
<1> RunsOK /\ StoreOK /\ EnvOK
  BY DEF TypeOK
<1> Triggers \cap Jobs = {}
  BY CollectionConstants
<1>1. ASSUME NEW t \in Triggers, Trigger(t)
      PROVE  LifeInv' /\ \A u \in Tasks : LifeMove(u)
  <2> t \in Tasks
    BY DEF Tasks
  <2>1. /\ run'[t].pc = "scheduled" /\ \A u \in Tasks \ {t} : run'[u].pc = run[u].pc
        /\ run[t].pc # "job" /\ row[t].status = "absent"
    BY <1>1 DEF Trigger, RunsOK, Run, LifeInv
  <2>2. LifeMove(t)
    BY <1>1, <2>1 DEF Trigger, LifeMove, LifeOf
  <2>3. \A u \in Tasks \ {t} : LifeMove(u)
    BY <1>1, <2>1, SameLife DEF Trigger
  <2>4. /\ req'[t] = "open" /\ \A u \in Triggers \ {t} : req'[u] = req[u]
        /\ row' = row /\ backend = "up" /\ backend' = "up"
    BY <1>1 DEF Trigger, EnvOK
  <2>5. LifeInv'
    BY <2>1, <2>4 DEF LifeInv, Final, Ends, Tasks
  <2> QED BY <2>2, <2>3, <2>5
<1>2. ASSUME NEW t \in Triggers, RequestStep(t)
      PROVE  LifeInv' /\ \A u \in Tasks : LifeMove(u)
  <2> t \in Tasks
    BY DEF Tasks
  <2>1. CASE TriggerCommit(t)
    <3>1. /\ run' = run /\ backend' = backend /\ row[t].status = "absent"
          /\ row'[t].status = "pending" /\ \A u \in Tasks \ {t} : row'[u] = row[u]
          /\ req'[t] = "done" /\ \A u \in Triggers \ {t} : req'[u] = req[u]
      BY <2>1 DEF TriggerCommit, LifeInv, StoreOK, EnvOK, Row
    <3>2. LifeMove(t)
      BY <3>1 DEF LifeMove, LifeOf, Final, Ends
    <3>3. \A u \in Tasks \ {t} : LifeMove(u)
      BY <3>1, SameLife
    <3>4. LifeInv'
      BY <3>1 DEF LifeInv, Final, Ends, Tasks
    <3> QED BY <3>2, <3>3, <3>4
  <2>2. CASE TriggerLost(t)
    <3>1. /\ run' = run /\ backend' = backend /\ row' = row
          /\ req'[t] = "lost" /\ \A u \in Triggers \ {t} : req'[u] = req[u]
      BY <2>2 DEF TriggerLost, EnvOK
    <3>2. LifeInv'
      BY <3>1 DEF LifeInv, Final
    <3> QED BY <3>1, <3>2, SameLife
  <2> QED BY <1>2, <2>1, <2>2 DEF RequestStep
<1>3. ASSUME NEW t \in Triggers, Step(t)
      PROVE  LifeInv' /\ \A u \in Tasks : LifeMove(u)
  <2> t \in Tasks
    BY DEF Tasks
  <2>1. /\ Others(t) /\ run[t].pc \in Live /\ req' = req /\ backend' = backend
        /\ \/ /\ row'[t] = row[t] /\ run'[t].pc \in Live \cup {"missed", "lost"}
              /\ run[t].pc = "scheduled" /\ run'[t].pc \in Live => row[t].status # "absent"
           \/ run[t].pc = "finish" /\ row'[t].status \in Ends /\ run'[t].pc = "over"
    BY <1>3, StepEffect
  <2>2. \A u \in Tasks \ {t} : LifeMove(u)
    BY <2>1, SameLife DEF Others
  <2>3. ~Final(t) /\ backend = "up"
    BY <2>1 DEF LifeInv
  <2>4. CASE /\ row'[t] = row[t] /\ run'[t].pc \in Live \cup {"missed", "lost"}
             /\ run[t].pc = "scheduled" /\ run'[t].pc \in Live => row[t].status # "absent"
    <3>1. LifeMove(t)
      BY <2>3, <2>4 DEF LifeMove, LifeOf, Final
    <3>2. LifeInv'
      BY <2>1, <2>3, <2>4 DEF LifeInv, Final, Others, Live, Tasks
    <3> QED BY <2>2, <3>1, <3>2
  <2>5. CASE run[t].pc = "finish" /\ row'[t].status \in Ends /\ run'[t].pc = "over"
    <3>1. LifeMove(t)
      BY <2>3, <2>5 DEF LifeMove, LifeOf, Final, Ends
    <3>2. LifeInv'
      BY <2>1, <2>3, <2>5 DEF LifeInv, Final, Others, Live, Tasks
    <3> QED BY <2>2, <3>1, <3>2
  <2> QED BY <2>1, <2>4, <2>5
<1>4. ASSUME NEW j \in Jobs, JobStep(j)
      PROVE  LifeInv' /\ \A u \in Tasks : LifeMove(u)
  <2> j \in Tasks
    BY DEF Tasks
  <2>1. Others(j) /\ req' = req /\ backend' = backend
    BY <1>4, JobEffect
  <2>2. \A u \in Tasks \ {j} : LifeMove(u)
    BY <2>1, SameLife DEF Others
  <2>3. LifeMove(j)
    <3>1. CASE run[j].pc = "idle" /\ row'[j] = row[j]
      BY <3>1 DEF LifeMove, LifeOf, LifeInv
    <3>2. CASE /\ run[j].pc = "job" /\ run'[j].pc = "job"
               /\ row'[j].status = IF row[j].status = "absent" THEN "running"
                                   ELSE row[j].status
      BY <3>2 DEF LifeMove, LifeOf
    <3>3. CASE run[j].pc = "job" /\ run'[j].pc = "lost" /\ row'[j] = row[j]
      BY <3>3 DEF LifeMove, LifeOf, Final
    <3>4. CASE run[j].pc = "job" /\ run'[j].pc = "over" /\ row'[j].status \in Ends
      BY <3>4 DEF LifeMove, LifeOf, Final, Ends
    <3> QED BY <1>4, JobEffect, <3>1, <3>2, <3>3, <3>4
  <2>4. run'[j].pc # "idle"
    BY <1>4, JobEffect
  <2>5. LifeInv'
    BY <2>1, <2>4 DEF LifeInv, Final, Others, Tasks
  <2> QED BY <2>2, <2>3, <2>5
<1>5. ASSUME NEW f \in Forms, FormOpen(f) \/ FormSave(f)
      PROVE  LifeInv' /\ \A u \in Tasks : LifeMove(u)
  <2>1. /\ row' = row /\ req' = req /\ backend' = backend
        /\ \A u \in Tasks : run'[u].pc = run[u].pc
    BY <1>5, KeepPc DEF FormOpen, FormSave, RunsOK
  <2>2. LifeInv'
    BY <2>1 DEF LifeInv, Final, Tasks
  <2> QED BY <2>1, <2>2, SameLife
<1>6. CASE Delete \/ UNCHANGED vars
  <2>1. row' = row /\ req' = req /\ backend' = backend /\ run' = run
    BY <1>6 DEF Delete, vars
  <2>2. LifeInv'
    BY <2>1 DEF LifeInv, Final
  <2> QED BY <2>1, <2>2, SameLife
<1>7. CASE BackendCrash
  <2>1. /\ row' = row /\ backend' = "down"
        /\ \A t \in Triggers : req'[t] = IF req[t] = "open" THEN "lost" ELSE req[t]
    BY <1>7 DEF BackendCrash
  <2>2. /\ \A j \in Jobs : run'[j].pc = run[j].pc
        /\ \A t \in Triggers : run'[t].pc \notin Live \cup {"job"}
    <3>1. \A t \in Tasks : [run[t] EXCEPT !.pc = "over"].pc = "over"
      BY DEF RunsOK, Run
    <3>2. \A t \in Triggers : run[t].pc # "job"
      BY DEF LifeInv
    <3> QED BY <1>7, <3>1, <3>2 DEF BackendCrash, Live, Tasks
  <2>3. \A t \in Tasks : LifeMove(t)
    <3>1. \A t \in Triggers : run[t].pc # "job"
      BY DEF LifeInv
    <3> QED BY <2>1, <2>2, <3>1 DEF LifeMove, LifeOf, Final, Tasks
  <2>4. LifeInv'
    BY <2>1, <2>2 DEF LifeInv, Final
  <2> QED BY <2>3, <2>4
<1>8. CASE Restart
  <2>1. run' = run /\ req' = req /\ backend = "down" /\ backend' = "up"
    BY <1>8 DEF Restart
  <2>2. \A t \in Tasks :
          \/ row'[t].status = row[t].status
          \/ row[t].status \in {"pending", "running"} /\ row'[t].status = "failed"
    BY <1>8 DEF Restart, Swept, StoreOK, Row
  <2>3. \A t \in Tasks : LifeMove(t)
    BY <2>1, <2>2 DEF LifeMove, LifeOf, Final, Ends
  <2>4. LifeInv'
    BY <2>1, <2>2 DEF LifeInv, Final, Ends, Tasks
  <2> QED BY <2>3, <2>4
<1> QED BY <1>1, <1>2, <1>3, <1>4, <1>5, <1>6, <1>7, <1>8 DEF Next

\* The moves of all rows together are a step of TaskLife.
LEMMA LifeWrite ==
  ASSUME TypeOK, TypeOK', \A t \in Tasks : LifeMove(t)
  PROVE  [Promised!Write]_Life
<1>1. \A t \in Tasks : LifeOf(t)' \in {"absent", "open"} \cup Ends
  BY DEF LifeOf, Final
<1>2. Life' = [t \in Tasks |-> LifeOf(t)']
  BY DEF Life
<1>3. Life' \in [Tasks -> {"absent", "open"} \cup Ends]
  BY <1>1, <1>2
<1>4. \A t \in Tasks : Life[t] = LifeOf(t) /\ Life'[t] = LifeOf(t)'
  BY <1>2 DEF Life
<1> QED
  BY <1>3, <1>4 DEF Promised!Write, Promised!Open, Promised!Appear, Promised!End, LifeMove

\* Every row keeps the promise of TaskLife: whatever the background tasks, the
\* jobs, the sweeps and the crashes do, an end that a reader has seen stays.
THEOREM RowsKeepTheirPromise == Spec => LifeKept
<1>1. Init => TypeOK /\ LifeInv /\ Promised!Init
  BY TypeInit, LifeInit DEF Promised!Init
<1>2. TypeOK /\ LifeInv /\ [Next]_vars => (TypeOK /\ LifeInv)' /\ [Promised!Write]_Life
  BY TypeStep, LifeStep, LifeWrite
<1> QED BY <1>1, <1>2, PTL DEF Spec, LifeKept, Promised!Spec

-----------------------------------------------------------------------------
(* Who ends a pending row. *)

\* A request that has not committed yet has its background task before the look at
\* the row, or past a look that missed it.
AttendInv ==
  /\ PendingIsAttended
  /\ \A t \in Triggers : req[t] = "open" => run[t].pc \in {"scheduled", "missed"}

\* One background task and its row.
Attended(t) ==
  /\ row[t].status = "pending" =>
       run[t].pc \in Live \cup {"missed", "lost"} \/ backend = "down" \/ unswept
  /\ req[t] = "open" => run[t].pc \in {"scheduled", "missed"}

LEMMA AttendParts == AttendInv <=> \A t \in Triggers : Attended(t)
BY DEF AttendInv, PendingIsAttended, Attended, Live

\* What a step has left alone is attended as before.
LEMMA AttendedKept ==
  ASSUME NEW t \in Triggers, Attended(t), run'[t].pc = run[t].pc, row'[t] = row[t],
         req'[t] = req[t], backend' = backend, unswept' = unswept
  PROVE  Attended(t)'
BY DEF Attended

LEMMA AttendStep ==
  ASSUME TypeOK, LifeInv, AttendInv, [Next]_vars
  PROVE  AttendInv'
<1> RunsOK /\ StoreOK /\ EnvOK
  BY DEF TypeOK
<1> Triggers \cap Jobs = {}
  BY CollectionConstants
<1> SUFFICES ASSUME NEW u \in Triggers PROVE Attended(u)'
  BY DEF AttendInv, PendingIsAttended, Attended, Live
<1>u. u \in Tasks /\ u \notin Jobs /\ Attended(u)
  BY AttendParts DEF Tasks
<1>1. ASSUME NEW t \in Triggers, Trigger(t) PROVE Attended(u)'
  <2>1. CASE u = t
    <3>1. run'[t].pc = "scheduled"
      BY <1>1, <2>1, <1>u DEF Trigger, RunsOK, Run
    <3> QED BY <2>1, <3>1 DEF Attended, Live
  <2>2. CASE u # t
    <3>1. run'[u].pc = run[u].pc /\ req'[u] = req[u]
      BY <1>1, <1>u, <2>2 DEF Trigger, RunsOK, EnvOK
    <3> QED BY <1>1, <1>u, <3>1, AttendedKept DEF Trigger
  <2> QED BY <2>1, <2>2
<1>2. ASSUME NEW t \in Triggers, RequestStep(t) PROVE Attended(u)'
  <2>1. run' = run /\ backend' = backend /\ unswept' = unswept /\ req[t] = "open"
    BY <1>2 DEF RequestStep, TriggerCommit, TriggerLost
  <2>2. CASE u = t
    <3>1. run[t].pc \in {"scheduled", "missed"}
      BY <1>u, <2>1, <2>2 DEF Attended
    <3> QED BY <2>1, <2>2, <3>1 DEF Attended, Live
  <2>3. CASE u # t
    <3>1. row'[u] = row[u] /\ req'[u] = req[u]
      BY <1>2, <1>u, <2>3 DEF RequestStep, TriggerCommit, TriggerLost, StoreOK, EnvOK
    <3> QED BY <1>u, <2>1, <3>1, AttendedKept
  <2> QED BY <2>2, <2>3
<1>3. ASSUME NEW t \in Triggers, Step(t) PROVE Attended(u)'
  <2>1. /\ Others(t) /\ run[t].pc \in Live /\ req' = req /\ backend' = backend
        /\ \/ /\ row'[t] = row[t] /\ run'[t].pc \in Live \cup {"missed", "lost"}
              /\ run[t].pc = "scheduled" /\ run'[t].pc \in Live => row[t].status # "absent"
           \/ run[t].pc = "finish" /\ row'[t].status \in Ends /\ run'[t].pc = "over"
    BY <1>3, StepEffect
  <2>2. unswept' = unswept
    BY <1>3 DEF Step, Look, Branch, Fetch, Import, Batch, BatchesEnd, Finish, FinishLost
  <2>3. CASE u = t
    <3>1. row'[t].status = "pending" => run'[t].pc \in Live \cup {"missed", "lost"}
      BY <2>1 DEF Ends
    <3>2. req[t] = "open" => run'[t].pc \in {"scheduled", "missed"}
      <4>1. SUFFICES ASSUME req[t] = "open" PROVE Look(t) /\ row[t].status = "absent"
        <5>1. Look(t) /\ row[t].status = "absent" => run'[t].pc = "missed"
          BY <2>3, <1>u, GotoEffect DEF Look
        <5> QED BY <4>1, <5>1
      <4>2. run[t].pc = "scheduled" /\ row[t].status = "absent"
        BY <1>u, <2>1, <2>3, <4>1 DEF Attended, Live, LifeInv
      <4> QED
        BY <1>3, <4>2 DEF Step, Look, Branch, Fetch, Import, Batch, BatchesEnd, Finish, FinishLost
    <3> QED BY <2>1, <2>3, <3>1, <3>2 DEF Attended
  <2>4. CASE u # t
    BY <1>u, <2>1, <2>2, <2>4, AttendedKept DEF Others
  <2> QED BY <2>3, <2>4
<1>4. ASSUME NEW j \in Jobs, JobStep(j) PROVE Attended(u)'
  <2>1. Others(j) /\ req' = req /\ backend' = backend
    BY <1>4, JobEffect
  <2>2. unswept' = unswept
    BY <1>4 DEF JobStep, JobStart, JobBatch, JobEnd, JobCrash
  <2> QED BY <1>u, <2>1, <2>2, AttendedKept DEF Others
<1>5. ASSUME NEW f \in Forms, FormOpen(f) \/ FormSave(f) PROVE Attended(u)'
  <2>1. row' = row /\ req' = req /\ backend' = backend /\ unswept' = unswept
    BY <1>5 DEF FormOpen, FormSave
  <2>2. run'[u].pc = run[u].pc
    BY <1>5, <1>u, KeepPc DEF FormOpen, FormSave, RunsOK
  <2> QED BY <1>u, <2>1, <2>2, AttendedKept
<1>6. CASE Delete \/ UNCHANGED vars
  BY <1>6, <1>u, AttendedKept DEF Delete, vars
<1>7. CASE BackendCrash
  BY <1>7 DEF BackendCrash, Attended
<1>8. CASE Restart
  <2>1. run' = run /\ req' = req /\ backend = "down"
    BY <1>8 DEF Restart
  <2>2. row'[u].status # "pending" \/ unswept'
    BY <1>8, <1>u DEF Restart, Swept, StoreOK, Row
  <2> QED BY <1>u, <2>1, <2>2 DEF Attended
<1> QED BY <1>1, <1>2, <1>3, <1>4, <1>5, <1>6, <1>7, <1>8 DEF Next

\* A pending row has somebody to end it, in every state and for any number of
\* triggers and faults: what the liveness of a trigger rests on.
THEOREM PendingNeverForgotten == Spec => []PendingIsAttended
<1>1. TypeOK /\ Init => AttendInv
  BY DEF Init, AttendInv, PendingIsAttended, TypeOK, Tasks
<1>2. TypeOK /\ LifeInv /\ [Next]_vars => LifeInv'
  BY LifeStep
<1>3. TypeOK /\ LifeInv /\ AttendInv /\ [Next]_vars => AttendInv'
  BY AttendStep
<1>4. AttendInv => PendingIsAttended
  BY DEF AttendInv
<1> QED
  BY <1>1, <1>2, <1>3, <1>4, TypeInit, LifeInit, CollectionTypeCorrect, PTL DEF Spec

-----------------------------------------------------------------------------
(* What a run may erase. *)

\* A run that may write its copy back has in it every edit that was there when the
\* run began, and still is.
MayErase(r, edits) ==
  /\ r.pc \in {"batches", "job"} \/ r.dirty => r.began \subseteq r.copy.edits
  /\ r.began \subseteq edits
  /\ r.pc \in {"idle", "scheduled", "load"} => ~r.dirty

EraseInv ==
  /\ \A t \in Tasks : MayErase(run[t], source.config.edits)
  /\ \A t \in Triggers : req[t] = "none" => run[t].pc = "idle"

\* The goal of ErasesOnlyOverlapping for one task.
ErasesLate(t) ==
  run'[t].pc # run[t].pc \/ run'[t].copy # run[t].copy =>
    run[t].began \cap source.config.edits \subseteq source'.config.edits

LEMMA KeepErase ==
  ASSUME NEW runs \in [Tasks -> Run], NEW old, NEW new, NEW t \in Tasks,
         MayErase(runs[t], old)
  PROVE  MayErase(Keep(runs, new)[t], new) /\ Keep(runs, new)[t].copy = runs[t].copy
<1>1. runs[t] \in Run
  OBVIOUS
<1>2. Keep(runs, new)[t] = [runs[t] EXCEPT !.began = runs[t].began \cap new]
  BY DEF Keep
<1> QED BY <1>1, <1>2 DEF MayErase, Run

\* Runs that leave the source alone erase nothing.
LEMMA ErasesNothing ==
  ASSUME source' = source
  PROVE  \A t \in Tasks : ErasesLate(t)
BY DEF ErasesLate

\* One run goes on, without the source.
LEMMA GoesOn ==
  ASSUME EraseInv, NEW t \in Tasks, source' = source, req' = req,
         t \in Triggers => run[t].pc # "idle",
         \A u \in Tasks \ {t} : run'[u] = run[u],
         MayErase(run'[t], source.config.edits)
  PROVE  EraseInv' /\ \A u \in Tasks : ErasesLate(u)
<1>1. \A u \in Tasks : MayErase(run'[u], source'.config.edits)
  BY DEF EraseInv
<1>2. \A u \in Triggers : req'[u] = "none" => run'[u].pc = "idle"
  BY DEF EraseInv, Tasks
<1> QED BY <1>1, <1>2, ErasesNothing DEF EraseInv

\* A run whose code point only moves forward.
LEMMA Forward ==
  ASSUME NEW r \in Run, NEW pc, NEW edits, MayErase(r, edits),
         pc \notin {"idle", "scheduled", "load", "batches", "job"}
  PROVE  /\ MayErase([r EXCEPT !.pc = pc], edits)
         /\ \A ok : MayErase([[r EXCEPT !.pc = pc] EXCEPT !.ok = ok], edits)
         /\ \A f : MayErase([[r EXCEPT !.pc = pc] EXCEPT !.feed = f], edits)
         /\ \A n : MayErase([[r EXCEPT !.pc = pc] EXCEPT !.count = n], edits)
BY DEF MayErase, Run

LEMMA GotoErase ==
  ASSUME RunsOK, NEW t \in Tasks, NEW pc, NEW edits, MayErase(run[t], edits), Goto(t, pc),
         pc \notin {"idle", "scheduled", "load", "batches", "job"}
  PROVE  MayErase(run'[t], edits) /\ \A u \in Tasks \ {t} : run'[u] = run[u]
<1>1. run[t] \in Run
  BY DEF RunsOK
<1>2. run'[t] = [run[t] EXCEPT !.pc = pc] /\ \A u \in Tasks \ {t} : run'[u] = run[u]
  BY DEF Goto, RunsOK
<1>3. MayErase([run[t] EXCEPT !.pc = pc], edits)
  BY <1>1, Forward
<1> QED BY <1>2, <1>3, Zenon

LEMMA FailErase ==
  ASSUME RunsOK, NEW t \in Tasks, NEW edits, MayErase(run[t], edits), FailRun(t)
  PROVE  MayErase(run'[t], edits) /\ \A u \in Tasks \ {t} : run'[u] = run[u]
<1>1. run[t] \in Run
  BY DEF RunsOK
<1>2. /\ run'[t] = [[run[t] EXCEPT !.pc = "finish"] EXCEPT !.ok = FALSE]
      /\ \A u \in Tasks \ {t} : run'[u] = run[u]
  BY DEF FailRun, RunsOK
<1>3. MayErase([[run[t] EXCEPT !.pc = "finish"] EXCEPT !.ok = FALSE], edits)
  BY <1>1, Forward
<1> QED BY <1>2, <1>3, Zenon

LEMMA Leaves ==
  ASSUME RunsOK, EraseInv, NEW t \in Tasks, source' = source, req' = req,
         t \in Triggers => run[t].pc # "idle",
         \/ Goto(t, "fetch") \/ Goto(t, "finish") \/ FailRun(t)
         \/ Goto(t, "missed") \/ Goto(t, "lost") \/ Goto(t, "over")
  PROVE  EraseInv' /\ \A u \in Tasks : ErasesLate(u)
<1>1. MayErase(run[t], source.config.edits)
  BY DEF EraseInv
<1>2. MayErase(run'[t], source.config.edits) /\ \A u \in Tasks \ {t} : run'[u] = run[u]
  <2>1. ASSUME NEW pc, Goto(t, pc), pc \notin {"idle", "scheduled", "load", "batches", "job"}
        PROVE  MayErase(run'[t], source.config.edits)
               /\ \A u \in Tasks \ {t} : run'[u] = run[u]
    BY <1>1, <2>1, GotoErase
  <2>2. CASE FailRun(t)
    BY <1>1, <2>2, FailErase
  <2>3. CASE Goto(t, "fetch")
    BY <2>1, <2>3
  <2>4. CASE Goto(t, "finish")
    BY <2>1, <2>4
  <2>5. CASE Goto(t, "missed")
    BY <2>1, <2>5
  <2>6. CASE Goto(t, "lost")
    BY <2>1, <2>6
  <2>7. CASE Goto(t, "over")
    BY <2>1, <2>7
  <2> QED BY <2>2, <2>3, <2>4, <2>5, <2>6, <2>7
<1> QED BY <1>2, GoesOn

\* The step of a background task.
LEMMA StepErases ==
  ASSUME TypeOK, EraseInv, NEW t \in Triggers, Step(t)
  PROVE  EraseInv' /\ \A u \in Tasks : ErasesLate(u)
<1> t \in Tasks
  BY DEF Tasks
<1> RunsOK /\ StoreOK
  BY DEF TypeOK
<1> DEFINE edits == source.config.edits
<1>1. MayErase(run[t], edits) /\ run[t] \in Run
  BY DEF EraseInv, RunsOK
<1>2. CASE Look(t)
  <2>1. CASE Goto(t, "missed")
    BY <1>1, <1>2, <2>1, Leaves DEF Look
  <2>2. CASE run' = [run EXCEPT ![t].pc = "load", ![t].began = source.config.edits]
    <3>1. /\ run'[t].pc = "load" /\ run'[t].began = edits /\ run'[t].dirty = run[t].dirty
          /\ \A u \in Tasks \ {t} : run'[u] = run[u]
      BY <2>2 DEF RunsOK, Run
    <3>2. MayErase(run'[t], edits)
      BY <1>1, <1>2, <3>1 DEF MayErase, Look
    <3> QED BY <1>2, <3>1, <3>2, GoesOn DEF Look
  <2> QED BY <1>2, <2>1, <2>2 DEF Look
<1>3. CASE Branch(t)
  <2>1. CASE Goto(t, "fetch") \/ FailRun(t)
    BY <1>1, <1>3, <2>1, Leaves DEF Branch
  <2>2. CASE run' = [run EXCEPT ![t].pc = "batches", ![t].copy = source.config]
    <3>1. /\ run'[t].pc = "batches" /\ run'[t].copy = source.config
          /\ run'[t].began = run[t].began
          /\ \A u \in Tasks \ {t} : run'[u] = run[u]
      BY <2>2 DEF RunsOK, Run
    <3>2. MayErase(run'[t], edits)
      BY <1>1, <3>1 DEF MayErase
    <3> QED BY <1>3, <3>1, <3>2, GoesOn DEF Branch
  <2> QED BY <1>3, <2>1, <2>2 DEF Branch
<1>4. CASE Fetch(t)
  <2>1. CASE FailRun(t)
    BY <1>1, <1>4, <2>1, Leaves DEF Fetch
  <2>2. ASSUME NEW f \in Feeds,
               run' = [run EXCEPT ![t].pc = IF f = NoFeed THEN "finish" ELSE "import",
                                  ![t].feed = f]
        PROVE  EraseInv' /\ \A u \in Tasks : ErasesLate(u)
    <3> DEFINE pc == IF f = NoFeed THEN "finish" ELSE "import"
    <3>1. /\ run'[t] = [[run[t] EXCEPT !.pc = pc] EXCEPT !.feed = f]
          /\ \A u \in Tasks \ {t} : run'[u] = run[u]
      BY <2>2 DEF RunsOK
    <3>2. pc \notin {"idle", "scheduled", "load", "batches", "job"}
      OBVIOUS
    <3> HIDE DEF pc
    <3>3. MayErase([[run[t] EXCEPT !.pc = pc] EXCEPT !.feed = f], edits)
      BY <1>1, <3>2, Forward
    <3>4. MayErase(run'[t], edits)
      BY <3>1, <3>3, Zenon
    <3> QED BY <1>4, <3>1, <3>4, GoesOn DEF Fetch
  <2> QED BY <1>4, <2>1, <2>2 DEF Fetch
<1>5. CASE Import(t)
  <2>1. CASE source.type = "feed"
    <3>1. PICK a : run' = [run EXCEPT ![t].pc = "finish", ![t].count = a[1]]
      BY <1>5, <2>1 DEF Import
    <3>2. /\ run'[t] = [[run[t] EXCEPT !.pc = "finish"] EXCEPT !.count = a[1]]
          /\ \A u \in Tasks \ {t} : run'[u] = run[u]
      BY <3>1 DEF RunsOK
    <3>3. MayErase([[run[t] EXCEPT !.pc = "finish"] EXCEPT !.count = a[1]], edits)
      BY <1>1, Forward
    <3>4. MayErase(run'[t], edits)
      BY <3>2, <3>3, Zenon
    <3> QED BY <1>5, <3>2, <3>4, GoesOn DEF Import
  <2>2. CASE source.type # "feed"
    BY <1>1, <1>5, <2>2, Leaves DEF Import
  <2> QED BY <2>1, <2>2
<1>6. CASE Batch(t)
  <2>1. /\ run'[t].pc = "batches" /\ run'[t].copy.edits = run[t].copy.edits
        /\ run'[t].began = run[t].began
        /\ \A u \in Tasks \ {t} : run'[u] = run[u]
    BY <1>6 DEF Batch, RunsOK, Run, Config
  <2>2. MayErase(run'[t], edits)
    BY <1>1, <1>6, <2>1 DEF MayErase, Batch
  <2> QED BY <1>6, <2>1, <2>2, GoesOn DEF Batch
<1>7. CASE BatchesEnd(t)
  BY <1>1, <1>7, Leaves DEF BatchesEnd
<1>8. CASE Finish(t)
  <2> DEFINE runs == [run EXCEPT ![t].pc = "over"]
             new == Written(t).config.edits
  <2>1. runs \in [Tasks -> Run] /\ \A u \in Tasks \ {t} : runs[u] = run[u]
    BY PointType DEF PCs, RunsOK
  <2>2. MayErase(runs[t], edits)
    <3>1. runs[t] = [run[t] EXCEPT !.pc = "over"]
      BY DEF RunsOK
    <3>2. MayErase([run[t] EXCEPT !.pc = "over"], edits)
      BY <1>1, Forward
    <3> QED BY <3>1, <3>2, Zenon
  <2>3. \A u \in Tasks : MayErase(runs[u], edits)
    BY <2>1, <2>2 DEF EraseInv
  <2>4. run' = Keep(runs, new) /\ source' = Written(t) /\ req' = req
    BY <1>8 DEF Finish
  <2>5. \A u \in Tasks \ {t} : runs[u].pc = run[u].pc /\ runs[u].copy = run[u].copy
    BY <2>1
  <2> HIDE DEF runs, new
  <2>6. \A u \in Tasks : /\ MayErase(run'[u], new) /\ run'[u].copy = runs[u].copy
                         /\ run'[u].pc = runs[u].pc
    BY <2>1, <2>3, <2>4, KeepErase, KeepPc
  <2>7. new = source'.config.edits
    BY <2>4 DEF new
  <2>8. EraseInv'
    <3>1. \A u \in Triggers : req'[u] = "none" => run'[u].pc = "idle"
      BY <1>8, <2>4, <2>5, <2>6 DEF EraseInv, Finish, Tasks
    <3> QED BY <2>6, <2>7, <3>1 DEF EraseInv
  <2>9. run[t].began \cap edits \subseteq new
    BY <1>1 DEF new, Written, MayErase
  <2>10. \A u \in Tasks : ErasesLate(u)
    BY <2>5, <2>6, <2>7, <2>9 DEF ErasesLate
  <2> QED BY <2>8, <2>10
<1>9. CASE FinishLost(t)
  BY <1>1, <1>9, Leaves DEF FinishLost
<1> QED BY <1>2, <1>3, <1>4, <1>5, <1>6, <1>7, <1>8, <1>9 DEF Step

\* The step of a job.
LEMMA JobErases ==
  ASSUME TypeOK, EraseInv, NEW j \in Jobs, JobStep(j)
  PROVE  EraseInv' /\ \A u \in Tasks : ErasesLate(u)
<1> j \in Tasks /\ Triggers \cap Jobs = {}
  BY CollectionConstants DEF Tasks
<1> RunsOK /\ StoreOK
  BY DEF TypeOK
<1> DEFINE edits == source.config.edits
<1>1. MayErase(run[j], edits) /\ run[j] \in Run
  BY DEF EraseInv, RunsOK
<1>3. CASE JobStart(j)
  <2>1. CASE Goto(j, "over")
    BY <1>1, <1>3, <2>1, Leaves DEF JobStart
  <2>2. CASE run' = [run EXCEPT ![j].pc = "job", ![j].copy = source.config,
                                ![j].began = source.config.edits]
    <3>1. /\ run'[j].pc = "job" /\ run'[j].copy = source.config /\ run'[j].began = edits
          /\ \A u \in Tasks \ {j} : run'[u] = run[u]
      BY <2>2 DEF RunsOK, Run
    <3>2. MayErase(run'[j], edits)
      BY <3>1 DEF MayErase
    <3> QED BY <1>3, <3>1, <3>2, GoesOn DEF JobStart
  <2> QED BY <1>3, <2>1, <2>2 DEF JobStart
<1>4. CASE JobBatch(j)
  <2>1. CASE source.there
    <3> DEFINE runs == [run EXCEPT ![j].copy.mark = @ + 1, ![j].count = @ + 1]
               new == run[j].copy.edits
    <3>1. runs \in [Tasks -> Run]
      BY <1>4, JobBatchType DEF JobBatch
    <3>2. /\ runs[j].pc = run[j].pc /\ runs[j].copy.edits = run[j].copy.edits
          /\ runs[j].began = run[j].began /\ runs[j].dirty = run[j].dirty
          /\ \A u \in Tasks \ {j} : runs[u] = run[u]
      BY DEF RunsOK, Run, Config
    <3>3. MayErase(runs[j], edits)
      BY <1>1, <3>2 DEF MayErase
    <3>4. \A u \in Tasks : MayErase(runs[u], edits)
      BY <3>2, <3>3 DEF EraseInv
    <3>5. run' = Keep(runs, new) /\ req' = req
      BY <1>4, <2>1 DEF JobBatch
    <3>6. source'.config.edits = new
      BY <1>4, <2>1 DEF JobBatch, StoreOK, Source, RunsOK, Run, Config
    <3>7. run[j].began \subseteq new
      BY <1>1, <1>4 DEF MayErase, JobBatch
    <3> HIDE DEF runs, new
    <3>8. \A u \in Tasks : /\ MayErase(run'[u], new) /\ run'[u].copy = runs[u].copy
                           /\ run'[u].pc = runs[u].pc
      BY <3>1, <3>4, <3>5, KeepErase, KeepPc
    <3>9. EraseInv'
      <4>1. \A u \in Triggers : req'[u] = "none" => run'[u].pc = "idle"
        BY <3>2, <3>5, <3>8 DEF EraseInv, Tasks
      <4> QED BY <3>6, <3>8, <4>1 DEF EraseInv
    <3>10. \A u \in Tasks : ErasesLate(u)
      BY <3>2, <3>6, <3>7, <3>8 DEF ErasesLate
    <3> QED BY <3>9, <3>10
  <2>2. CASE ~source.there
    BY <1>1, <1>4, <2>2, Leaves DEF JobBatch
  <2> QED BY <2>1, <2>2
<1>5. CASE JobEnd(j)
  BY <1>1, <1>5, Leaves DEF JobEnd
<1>6. CASE JobCrash(j)
  BY <1>1, <1>6, Leaves DEF JobCrash
<1> QED BY <1>3, <1>4, <1>5, <1>6 DEF JobStep

LEMMA EraseStep ==
  ASSUME TypeOK, EraseInv, [Next]_vars
  PROVE  EraseInv' /\ \A u \in Tasks : ErasesLate(u)
<1> RunsOK /\ StoreOK /\ EnvOK
  BY DEF TypeOK
<1>1. ASSUME NEW t \in Triggers, Trigger(t)
      PROVE  EraseInv' /\ \A u \in Tasks : ErasesLate(u)
  <2> t \in Tasks
    BY DEF Tasks
  <2>1. /\ source' = source /\ run[t].pc = "idle" /\ run'[t].pc = "scheduled"
        /\ run'[t].began = run[t].began /\ run'[t].copy = run[t].copy
        /\ run'[t].dirty = run[t].dirty /\ \A u \in Tasks \ {t} : run'[u] = run[u]
    BY <1>1 DEF Trigger, RunsOK, Run, EraseInv
  <2>2. MayErase(run'[t], source.config.edits)
    BY <2>1 DEF EraseInv, MayErase
  <2>3. req'[t] = "open" /\ \A u \in Triggers \ {t} : req'[u] = req[u]
    BY <1>1 DEF Trigger, EnvOK
  <2>4. EraseInv'
    BY <2>1, <2>2, <2>3 DEF EraseInv, Tasks
  <2> QED BY <2>1, <2>4, ErasesNothing
<1>2. ASSUME NEW t \in Triggers, RequestStep(t)
      PROVE  EraseInv' /\ \A u \in Tasks : ErasesLate(u)
  <2>1. /\ run' = run /\ source'.config = source.config
        /\ req'[t] # "none" /\ \A u \in Triggers \ {t} : req'[u] = req[u]
    BY <1>2 DEF RequestStep, TriggerCommit, TriggerLost, EnvOK, StoreOK, Source
  <2> QED BY <2>1 DEF EraseInv, ErasesLate
<1>3. ASSUME NEW f \in Forms, FormOpen(f) \/ FormSave(f)
      PROVE  EraseInv' /\ \A u \in Tasks : ErasesLate(u)
  <2>1. CASE run' = run /\ source' = source
    BY <1>3, <2>1, ErasesNothing DEF EraseInv, FormOpen, FormSave
  <2>2. CASE FormSave(f) /\ source.there
    <3> DEFINE new == form[f].copy.edits \cup {f}
    <3>1. run' = Keep(run, new) /\ req' = req
      BY <2>2 DEF FormSave
    <3>2. source'.config.edits = new
      BY <2>2 DEF FormSave, StoreOK, Source, EnvOK, Config
    <3> HIDE DEF new
    <3>3. \A u \in Tasks : /\ MayErase(run'[u], new) /\ run'[u].copy = run[u].copy
                           /\ run'[u].pc = run[u].pc
      BY <3>1, KeepErase, KeepPc DEF EraseInv, RunsOK
    <3>4. EraseInv'
      BY <3>1, <3>2, <3>3 DEF EraseInv, Tasks
    <3> QED BY <3>3, <3>4 DEF ErasesLate
  <2> QED BY <1>3, <2>1, <2>2 DEF FormOpen, FormSave
<1>4. CASE Delete
  BY <1>4 DEF Delete, EraseInv, ErasesLate, StoreOK, Source
<1>5. CASE BackendCrash
  <2>1. source' = source
    BY <1>5 DEF BackendCrash
  <2>2. ASSUME NEW u \in Tasks
        PROVE  MayErase(run'[u], source.config.edits)
    <3>1. run[u] \in Run /\ MayErase(run[u], source.config.edits)
      BY DEF RunsOK, EraseInv
    <3>2. MayErase([run[u] EXCEPT !.pc = "over"], source.config.edits)
      BY <3>1, Forward
    <3>3. run'[u] = run[u] \/ run'[u] = [run[u] EXCEPT !.pc = "over"]
      BY <1>5 DEF BackendCrash
    <3> QED BY <3>1, <3>2, <3>3, Zenon
  <2>3. \A t \in Triggers : req'[t] = "none" => run'[t].pc = "idle"
    BY <1>5 DEF BackendCrash, EraseInv, Tasks
  <2> QED BY <2>1, <2>2, <2>3, ErasesNothing DEF EraseInv
<1>6. CASE Restart \/ UNCHANGED vars
  <2>1. source' = source /\ run' = run /\ req' = req
    BY <1>6 DEF Restart, vars
  <2> QED BY <2>1, ErasesNothing DEF EraseInv
<1> QED BY <1>1, <1>2, <1>3, <1>4, <1>5, <1>6, StepErases, JobErases DEF Next

\* A run that writes back the source's configuration erases only edits made after
\* the run began.
THEOREM ErasesOnlyLaterEdits == Spec => ErasesOnlyOverlapping
<1>1. Init => TypeOK /\ EraseInv
  <2>1. Init => \A t \in Tasks : run[t] = NoRun
    BY DEF Init
  <2>2. \A e : MayErase(NoRun, e)
    BY DEF MayErase, NoRun
  <2>3. Init => \A t \in Triggers : t \in Tasks
    BY DEF Tasks
  <2>4. NoRun.pc = "idle"
    BY DEF NoRun
  <2>5. Init => EraseInv
    BY <2>1, <2>2, <2>3, <2>4 DEF EraseInv
  <2> QED BY <2>5, TypeInit
<1>2. TypeOK /\ EraseInv /\ [Next]_vars => (TypeOK /\ EraseInv)'
  BY TypeStep, EraseStep
<1>3. TypeOK /\ EraseInv /\ [Next]_vars =>
        [\A t \in Tasks : run'[t].pc # run[t].pc \/ run'[t].copy # run[t].copy =>
           run[t].began \cap source.config.edits \subseteq source'.config.edits]_vars
  BY EraseStep DEF ErasesLate
<1> QED BY <1>1, <1>2, <1>3, PTL DEF Spec, ErasesOnlyOverlapping
-----------------------------------------------------------------------------
(* What a finished task claims to have imported. *)

\* A request of which every profile is good stores what it counts.
LEMMA GoodAreStored ==
  ASSUME NEW valid \in Seq(Kinds), Admitted(valid),
         ~\E i \in DOMAIN valid : valid[i] = "bad"
  PROVE  Cardinality(Stored(valid)) = Accepted(valid)
<1>1. \A i \in DOMAIN valid : valid[i] = "good"
  BY DEF Admitted, Kinds
<1>2. \A i \in DOMAIN valid : \A k \in i..Len(valid) : k \in DOMAIN valid
  OBVIOUS
<1>3. Stored(valid) = {i \in DOMAIN valid : valid[i] = "good"}
  BY <1>1, <1>2 DEF Stored
<1> QED BY <1>3 DEF Accepted

Early == {"idle", "scheduled", "load", "fetch", "import"}

HasBad(t) == \E i \in DOMAIN run[t].feed.valid : run[t].feed.valid[i] = "bad"
Claims(t, n) == n \in {0, stored[t]} \/ HasBad(t)

\* Until its import a task of a feed counts nothing; a request that has not come has no task.
Tally(t) ==
  /\ req[t] = "none" => run[t].pc = "idle"
  /\ source.type = "feed" =>
       /\ run[t].pc \notin {"batches", "job"}
       /\ run[t].pc \in Early => run[t].count = 0 /\ row[t].imported = 0
       /\ Claims(t, run[t].count)
       /\ Claims(t, row[t].imported)

TallyInv == \A t \in Triggers : Tally(t)

\* What a step leaves alone of a task's count.
CountSame(t) ==
  /\ run'[t].count = run[t].count
  /\ run'[t].feed = run[t].feed
  /\ row'[t].imported = row[t].imported
  /\ stored'[t] = stored[t]
  /\ source'.type = source.type

\* A task whose count is left alone, wherever it goes that does not open a warehouse run.
LEMMA TallyKept ==
  ASSUME NEW t \in Triggers, Tally(t), CountSame(t),
         \/ /\ run'[t].pc = run[t].pc
            /\ req'[t] = "none" => req[t] = "none"
         \/ /\ req'[t] # "none"
            /\ run[t].pc \in Early \/ run'[t].pc \notin Early
            /\ source.type = "feed" => run'[t].pc \notin {"batches", "job"}
  PROVE  Tally(t)'
<1>1. CASE source.type # "feed"
  BY <1>1 DEF Tally, CountSame
<1>2. CASE source.type = "feed"
  <2>1. Claims(t, run[t].count)' /\ Claims(t, row[t].imported)'
    BY <1>2 DEF Tally, CountSame, Claims, HasBad
  <2>2. req'[t] = "none" => run'[t].pc = "idle"
    BY DEF Tally
  <2>3. run'[t].pc \notin {"batches", "job"}
    BY <1>2 DEF Tally
  <2>4. run'[t].pc \in Early => run'[t].count = 0 /\ row'[t].imported = 0
    BY <1>2 DEF Tally, CountSame
  <2> QED BY <2>1, <2>2, <2>3, <2>4 DEF Tally
<1> QED BY <1>1, <1>2

LEMMA SameType ==
  ASSUME StoreOK
  PROVE  /\ \A c : [source EXCEPT !.config = c].type = source.type
         /\ [source EXCEPT !.last = "running"].type = source.type
         /\ [source EXCEPT !.there = FALSE].type = source.type
BY DEF StoreOK, Source

\* A run that forgets erased edits forgets nothing else.
LEMMA KeepCount ==
  ASSUME NEW runs \in [Tasks -> Run], NEW edits, NEW u \in Tasks
  PROVE  /\ Keep(runs, edits)[u].pc = runs[u].pc
         /\ Keep(runs, edits)[u].count = runs[u].count
         /\ Keep(runs, edits)[u].feed = runs[u].feed
BY DEF Keep, Run

\* The step of another task, seen from this one.
LEMMA PointCount ==
  ASSUME RunsOK, NEW t \in Tasks, NEW pc
  PROVE  \A u \in Tasks :
           /\ [run EXCEPT ![t].pc = pc][u].count = run[u].count
           /\ [run EXCEPT ![t].pc = pc][u].feed = run[u].feed
           /\ [run EXCEPT ![t].pc = pc][u].pc = IF u = t THEN pc ELSE run[u].pc
BY DEF RunsOK, Run

LEMMA FailCount ==
  ASSUME RunsOK, NEW t \in Tasks, FailRun(t)
  PROVE  \A u \in Tasks :
           /\ run'[u].count = run[u].count
           /\ run'[u].feed = run[u].feed
           /\ run'[u].pc = IF u = t THEN "finish" ELSE run[u].pc
BY DEF FailRun, RunsOK, Run

\* The steps of a background task keep its tally and every other.
LEMMA StepTallies ==
  ASSUME TypeOK, TallyInv, NEW t \in Triggers, Step(t), NEW u \in Triggers
  PROVE  Tally(u)'
<1> t \in Tasks /\ u \in Tasks
  BY DEF Tasks
<1> RunsOK /\ StoreOK
  BY DEF TypeOK
<1>0. Tally(t) /\ Tally(u)
  BY DEF TallyInv
<1>e. /\ req' = req
      /\ run[t].pc \in {"scheduled", "load", "fetch", "import", "batches", "finish"}
  BY DEF Step, Look, Branch, Fetch, Import, Batch, BatchesEnd, Finish, FinishLost
<1>n. req[t] # "none"
  BY <1>0, <1>e DEF Tally
\* The step only moves the task on.
<1>m. ASSUME NEW pc, pc \notin {"batches", "job"},
             \A v \in Tasks : /\ run'[v].count = run[v].count
                              /\ run'[v].feed = run[v].feed
                              /\ run'[v].pc = IF v = t THEN pc ELSE run[v].pc,
             \A v \in Tasks : row'[v].imported = row[v].imported,
             stored' = stored, source'.type = source.type,
             run[t].pc \in Early \/ pc \notin Early
      PROVE  Tally(u)'
  <2>1. CountSame(u)
    BY <1>m DEF CountSame
  <2> QED BY <1>0, <1>e, <1>m, <1>n, <2>1, TallyKept
<1>1. CASE Look(t)
  <2>1. CASE Goto(t, "missed")
    BY <1>1, <2>1, <1>m, PointCount DEF Look, Goto, Early
  <2>2. CASE run' = [run EXCEPT ![t].pc = "load", ![t].began = source.config.edits]
    <3>1. \A v \in Tasks : /\ run'[v].count = run[v].count
                           /\ run'[v].feed = run[v].feed
                           /\ run'[v].pc = IF v = t THEN "load" ELSE run[v].pc
      BY <2>2 DEF RunsOK, Run
    <3> QED BY <1>1, <3>1, <1>m DEF Look, Early
  <2> QED BY <1>1, <2>1, <2>2 DEF Look
<1>2. CASE Branch(t)
  <2>1. CASE Goto(t, "fetch")
    BY <1>2, <2>1, <1>m, PointCount DEF Branch, Goto, Early
  <2>2. CASE /\ source.type = "sql_warehouse"
             /\ run' = [run EXCEPT ![t].pc = "batches", ![t].copy = source.config]
    <3>1. source' = source /\ source.type # "feed"
      BY <1>2, <2>2 DEF Branch
    <3>2. u # t => run'[u].pc = run[u].pc
      BY <2>2 DEF RunsOK, Run
    <3> QED BY <1>0, <1>e, <1>n, <3>1, <3>2 DEF Tally
  <2>3. CASE FailRun(t)
    <3>1. run[t].pc \in Early
      BY <1>2 DEF Branch, Early
    <3>2. row' = row /\ stored' = stored /\ source' = source
      BY <1>2 DEF Branch
    <3> QED BY <2>3, <3>1, <3>2, <1>m, FailCount
  <2> QED BY <1>2, <2>1, <2>2, <2>3 DEF Branch
<1>3. CASE Fetch(t)
  <2>p. run[t].pc = "fetch" /\ row' = row /\ stored' = stored /\ source' = source
    BY <1>3 DEF Fetch
  <2>1. CASE FailRun(t)
    BY <2>p, <2>1, <1>m, FailCount DEF Early
  <2>2. ASSUME NEW f \in Feeds,
               run' = [run EXCEPT ![t].pc = IF f = NoFeed THEN "finish" ELSE "import",
                                  ![t].feed = f]
        PROVE  Tally(u)'
    <3>1. CASE u # t
      <4>1. run'[u] = run[u]
        BY <2>2, <3>1 DEF RunsOK
      <4>2. CountSame(u)
        BY <2>p, <4>1 DEF CountSame
      <4> QED BY <1>0, <1>e, <4>1, <4>2, TallyKept
    <3>2. CASE u = t
      <4>1. run'[u].count = run[u].count /\ run'[u].pc \in {"finish", "import"}
        BY <2>2, <3>2 DEF RunsOK, Run
      <4>2. source.type = "feed" => run[u].count = 0 /\ row[u].imported = 0
        BY <1>0, <2>p, <3>2 DEF Tally, Early
      <4> QED BY <1>e, <1>n, <2>p, <3>2, <4>1, <4>2 DEF Tally, Claims
    <3> QED BY <3>1, <3>2
  <2> QED BY <1>3, <2>1, <2>2 DEF Fetch
<1>4. CASE Import(t)
  <2>p. run[t].pc = "import" /\ row' = row /\ source' = source
    BY <1>4 DEF Import
  <2>1. CASE source.type # "feed"
    BY <1>4, <2>p, <2>1, <1>m, FailCount DEF Import, Early
  <2>2. CASE source.type = "feed"
    <3> DEFINE valid == run[t].feed.valid
    <3>1. PICK a \in Answers(valid) :
            /\ run' = [run EXCEPT ![t].pc = "finish", ![t].count = a[1]]
            /\ stored' = [stored EXCEPT ![t] = a[2]]
      BY <1>4, <2>2 DEF Import
    <3>2. CASE u # t
      <4>1. run'[u] = run[u] /\ stored'[u] = stored[u]
        BY <3>1, <3>2 DEF RunsOK, StoreOK
      <4>2. CountSame(u)
        BY <2>p, <4>1 DEF CountSame
      <4> QED BY <1>0, <1>e, <4>1, <4>2, TallyKept
    <3>3. CASE u = t
      <4>1. valid \in Seq(Kinds)
        BY FeedType
      <4>2. a[1] \in {0, a[2]} \/ \E i \in DOMAIN valid : valid[i] = "bad"
        <5>1. CASE a = <<0, 0>>
          BY <5>1
        <5>2. CASE a # <<0, 0>>
          <6>1. Admitted(valid) /\ a \in {Accepted(valid), 0} \X {Cardinality(Stored(valid))}
            BY <3>1, <5>2 DEF Answers
          <6>2. a[1] \in {Accepted(valid), 0} /\ a[2] = Cardinality(Stored(valid))
            BY <6>1
          <6> QED BY <4>1, <6>1, <6>2, GoodAreStored
        <5> QED BY <5>1, <5>2
      <4>3. /\ run'[t].pc = "finish" /\ run'[t].count = a[1]
            /\ run'[t].feed = run[t].feed /\ stored'[t] = a[2]
        BY <3>1 DEF RunsOK, Run, StoreOK
      <4>4. row'[t].imported = 0
        BY <1>0, <2>p, <2>2 DEF Tally, Early
      <4>5. Claims(t, run[t].count)' /\ Claims(t, row[t].imported)'
        BY <4>2, <4>3, <4>4 DEF Claims, HasBad
      <4> QED BY <1>e, <1>n, <3>3, <4>3, <4>5 DEF Tally, Early
    <3> QED BY <3>2, <3>3
  <2> QED BY <2>1, <2>2
<1>5. CASE Batch(t)
  <2>1. source.type # "feed" /\ source' = source
    BY <1>0, <1>5 DEF Batch, Tally
  <2>2. run'[u].pc = run[u].pc
    BY <1>5 DEF Batch, RunsOK, Run
  <2> QED BY <1>0, <1>e, <2>1, <2>2 DEF Tally
<1>6. CASE BatchesEnd(t)
  <2>1. row' = row /\ stored' = stored /\ source' = source /\ "finish" \notin Early
    BY <1>6 DEF BatchesEnd, Early
  <2>2. CASE Goto(t, "finish")
    BY <2>1, <2>2, <1>m, PointCount DEF Goto
  <2>3. CASE FailRun(t)
    BY <2>1, <2>3, <1>m, FailCount
  <2> QED BY <1>6, <2>2, <2>3 DEF BatchesEnd
<1>7. CASE Finish(t)
  <2> DEFINE runs == [run EXCEPT ![t].pc = "over"]
  <2>1. runs \in [Tasks -> Run]
    BY PointType DEF PCs
  <2>2. \A v \in Tasks : /\ runs[v].count = run[v].count
                         /\ runs[v].feed = run[v].feed
                         /\ runs[v].pc = IF v = t THEN "over" ELSE run[v].pc
    BY PointCount
  <2>3. run' = Keep(runs, Written(t).config.edits) /\ stored' = stored
    BY <1>7 DEF Finish
  <2> HIDE DEF runs
  <2>4. \A v \in Tasks : /\ run'[v].count = run[v].count
                         /\ run'[v].feed = run[v].feed
                         /\ run'[v].pc = IF v = t THEN "over" ELSE run[v].pc
    BY <2>1, <2>2, <2>3, KeepCount
  <2>5. source'.type = source.type
    BY <1>7, SameType DEF Finish, Written
  <2>6. /\ row'[t].imported = run[t].count
        /\ \A v \in Tasks \ {t} : row'[v] = row[v]
    BY <1>7 DEF Finish, StoreOK
  <2>7. CASE u # t
    <3>1. CountSame(u)
      BY <2>3, <2>4, <2>5, <2>6, <2>7 DEF CountSame
    <3> QED BY <1>0, <1>e, <2>4, <2>7, <3>1, TallyKept
  <2>8. CASE u = t
    <3>1. source.type = "feed" => Claims(t, run[t].count)
      BY <1>0 DEF Tally
    <3>2. source'.type = "feed" => Claims(t, run[t].count)' /\ Claims(t, row[t].imported)'
      BY <2>3, <2>4, <2>5, <2>6, <3>1 DEF Claims, HasBad
    <3> QED BY <1>e, <1>n, <2>4, <2>8, <3>2 DEF Tally, Early
  <2> QED BY <2>7, <2>8
<1>8. CASE FinishLost(t)
  BY <1>8, <1>m, PointCount DEF FinishLost, Goto, Early
<1> QED BY <1>1, <1>2, <1>3, <1>4, <1>5, <1>6, <1>7, <1>8 DEF Step

\* A job counts in its own row.
LEMMA JobTallies ==
  ASSUME TypeOK, TallyInv, NEW j \in Jobs, JobStep(j), NEW u \in Triggers
  PROVE  Tally(u)'
<1> j \in Tasks /\ u \in Tasks /\ u # j
  BY CollectionConstants DEF Tasks
<1> RunsOK /\ StoreOK
  BY DEF TypeOK
<1>0. Tally(u)
  BY DEF TallyInv
<1>e. req' = req /\ stored' = stored
  BY DEF JobStep, JobStart, JobBatch, JobEnd, JobCrash
<1>1. CASE JobBatch(j) /\ source.there
  <2> DEFINE runs == [run EXCEPT ![j].copy.mark = @ + 1, ![j].count = @ + 1]
  <2>1. runs \in [Tasks -> Run]
    BY <1>1, JobBatchType DEF JobBatch
  <2>2. runs[u] = run[u]
    BY DEF RunsOK
  <2>3. run' = Keep(runs, run[j].copy.edits)
    BY <1>1 DEF JobBatch
  <2> HIDE DEF runs
  <2>4. run'[u].pc = run[u].pc /\ run'[u].count = run[u].count /\ run'[u].feed = run[u].feed
    BY <2>1, <2>2, <2>3, KeepCount
  <2>5. row'[u] = row[u]
    BY <1>1 DEF JobBatch, StoreOK
  <2>6. source'.type = source.type
    BY <1>1, SameType DEF JobBatch
  <2>7. CountSame(u)
    BY <1>e, <2>4, <2>5, <2>6 DEF CountSame
  <2> QED BY <1>0, <1>e, <2>4, <2>7, TallyKept
<1>2. CASE ~(JobBatch(j) /\ source.there)
  <2>1. run'[u] = run[u] /\ row'[u] = row[u] /\ source' = source
    BY <1>2 DEF JobStep, JobStart, JobBatch, JobEnd, JobCrash, Goto, RunsOK, StoreOK
  <2>2. CountSame(u)
    BY <1>e, <2>1 DEF CountSame
  <2> QED BY <1>0, <1>e, <2>1, <2>2, TallyKept
<1> QED BY <1>1, <1>2

\* The request comes, its row is committed or not: nothing is counted yet.
LEMMA RequestTallies ==
  ASSUME TypeOK, TallyInv, NEW t \in Triggers, Trigger(t) \/ RequestStep(t), NEW u \in Triggers
  PROVE  Tally(u)'
<1> t \in Tasks /\ u \in Tasks
  BY DEF Tasks
<1> RunsOK /\ StoreOK
  BY DEF TypeOK
<1>q. req \in [Triggers -> {"none", "open", "done", "lost"}]
  BY DEF TypeOK, EnvOK
<1>0. Tally(t) /\ Tally(u)
  BY DEF TallyInv
<1>1. CASE Trigger(t)
  <2>1. \A v \in Tasks : /\ run'[v].count = run[v].count
                         /\ run'[v].feed = run[v].feed
                         /\ run'[v].pc = IF v = t THEN "scheduled" ELSE run[v].pc
    BY <1>1, PointCount DEF Trigger
  <2>2. CountSame(u)
    BY <1>1, <2>1 DEF Trigger, CountSame
  <2>3. CASE u = t
    <3>1. req'[u] = "open" /\ run[u].pc = "idle"
      BY <1>0, <1>1, <1>q, <2>3 DEF Trigger, Tally
    <3> QED BY <1>0, <2>1, <2>2, <2>3, <3>1, TallyKept DEF Early
  <2>4. CASE u # t
    <3>1. req'[u] = req[u]
      BY <1>1, <1>q, <2>4 DEF Trigger
    <3> QED BY <1>0, <2>1, <2>2, <2>4, <3>1, TallyKept
  <2> QED BY <2>3, <2>4
<1>2. CASE RequestStep(t)
  <2>1. run' = run /\ stored' = stored
    BY <1>2 DEF RequestStep, TriggerCommit, TriggerLost
  <2>2. source'.type = source.type
    BY <1>2, SameType DEF RequestStep, TriggerCommit, TriggerLost
  <2>3. row'[u].imported = row[u].imported
    BY <1>2 DEF RequestStep, TriggerCommit, TriggerLost, StoreOK, Row
  <2>4. req'[u] = "none" => req[u] = "none"
    BY <1>2, <1>q DEF RequestStep, TriggerCommit, TriggerLost
  <2>5. CountSame(u)
    BY <2>1, <2>2, <2>3 DEF CountSame
  <2> QED BY <1>0, <2>1, <2>4, <2>5, TallyKept
<1> QED BY <1>1, <1>2

\* Users and the backend count nothing; a dead process leaves its tasks' counts alone.
LEMMA EnvTallies ==
  ASSUME TypeOK, TallyInv, NEW u \in Triggers,
         \/ \E f \in Forms : FormOpen(f) \/ FormSave(f)
         \/ Delete \/ BackendCrash \/ Restart
  PROVE  Tally(u)'
<1> u \in Tasks
  BY DEF Tasks
<1> RunsOK /\ StoreOK
  BY DEF TypeOK
<1>0. Tally(u)
  BY DEF TallyInv
<1>1. ASSUME NEW f \in Forms, FormOpen(f) PROVE Tally(u)'
  <2>1. CountSame(u) /\ run' = run /\ req' = req
    BY <1>1 DEF FormOpen, CountSame
  <2> QED BY <1>0, <2>1, TallyKept
<1>2. ASSUME NEW f \in Forms, FormSave(f) PROVE Tally(u)'
  <2>1. run'[u].pc = run[u].pc /\ run'[u].count = run[u].count /\ run'[u].feed = run[u].feed
    BY <1>2, KeepCount DEF FormSave, RunsOK
  <2>2. source'.type = source.type
    BY <1>2, SameType DEF FormSave
  <2>3. CountSame(u) /\ req' = req
    BY <1>2, <2>1, <2>2 DEF FormSave, CountSame
  <2> QED BY <1>0, <2>1, <2>3, TallyKept
<1>3. CASE Delete
  <2>1. CountSame(u) /\ run' = run /\ req' = req
    BY <1>3, SameType DEF Delete, CountSame
  <2> QED BY <1>0, <2>1, TallyKept
<1>4. CASE BackendCrash
  <2>1. /\ run'[u].count = run[u].count /\ run'[u].feed = run[u].feed
        /\ \/ run'[u].pc = run[u].pc
           \/ run[u].pc # "idle" /\ run'[u].pc = "over"
    BY <1>4 DEF BackendCrash, RunsOK, Run
  <2>2. CountSame(u)
    BY <1>4, <2>1 DEF BackendCrash, CountSame
  <2>3. req'[u] = "none" => req[u] = "none"
    BY <1>4 DEF BackendCrash
  <2>4. CASE run'[u].pc = run[u].pc
    BY <1>0, <2>2, <2>3, <2>4, TallyKept
  <2>5. CASE run[u].pc # "idle" /\ run'[u].pc = "over"
    BY <1>0, <2>2, <2>3, <2>5, TallyKept DEF Tally, Early
  <2> QED BY <2>1, <2>4, <2>5
<1>5. CASE Restart
  <2>1. row'[u].imported = row[u].imported
    BY <1>5 DEF Restart, Swept, StoreOK, Row
  <2>2. CountSame(u) /\ run' = run /\ req' = req
    BY <1>5, <2>1 DEF Restart, CountSame
  <2> QED BY <1>0, <2>2, TallyKept
<1> QED BY <1>1, <1>2, <1>3, <1>4, <1>5

LEMMA TallyStep == TypeOK /\ TallyInv /\ [Next]_vars => TallyInv'
<1> SUFFICES ASSUME TypeOK, TallyInv, [Next]_vars, NEW u \in Triggers
             PROVE  Tally(u)'
  BY DEF TallyInv
<1>1. CASE UNCHANGED vars
  <2>1. CountSame(u) /\ run' = run /\ req' = req
    BY <1>1 DEF vars, CountSame
  <2> QED BY <2>1, TallyKept DEF TallyInv
<1>2. ASSUME NEW t \in Triggers, Trigger(t) \/ RequestStep(t) \/ Step(t) PROVE Tally(u)'
  BY <1>2, RequestTallies, StepTallies
<1>3. ASSUME NEW j \in Jobs, JobStep(j) PROVE Tally(u)'
  BY <1>3, JobTallies
<1>4. CASE \/ \E f \in Forms : FormOpen(f) \/ FormSave(f)
           \/ Delete \/ BackendCrash \/ Restart
  BY <1>4, EnvTallies
<1> QED BY <1>1, <1>2, <1>3, <1>4 DEF Next

\* A finished task claims no profile that is not stored, unless one of its request
\* was refused, for any number of tasks, lengths of feeds, crashes and sweeps.
THEOREM ClaimsAreStored == Spec => []ImportedIsStored
<1>1. Init => TypeOK /\ TallyInv
  <2> SUFFICES ASSUME Init, NEW t \in Triggers PROVE Tally(t)
    BY TypeInit DEF TallyInv
  <2>1. run[t] = NoRun /\ row[t].imported = 0
    BY DEF Init, Tasks
  <2> QED BY <2>1 DEF Tally, Claims, NoRun
<1>2. TypeOK /\ TallyInv /\ [Next]_vars => (TypeOK /\ TallyInv)'
  BY TypeStep, TallyStep
<1>3. TallyInv => ImportedIsStored
  BY DEF TallyInv, Tally, Claims, HasBad, ImportedIsStored
<1> QED BY <1>1, <1>2, <1>3, PTL DEF Spec
=============================================================================
