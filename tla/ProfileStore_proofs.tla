------------------------ MODULE ProfileStore_proofs ------------------------
(***************************************************************************)
(* Proofs about ProfileStore, for any fields, users, tasks and faults.     *)
(***************************************************************************)
EXTENDS ProfileStore, FiniteSetTheorems, TLAPS

-----------------------------------------------------------------------------
(* Types. *)

\* A score lies between nothing and everything.
LEMMA ScoreType ==
  ASSUME NEW present
  PROVE  /\ Score(present, Required, Fields) \in 0..Total(Required, Fields)
         /\ 0 \in 0..Total(Required, Fields)
<1> DEFINE S == present \cap Fields
<1>1. IsFiniteSet(Fields \cap Required) /\ IsFiniteSet(Fields \ Required)
  BY ProfileConstants, FS_Subset
<1>2. /\ Cardinality(S \cap Required) \in Nat /\ Cardinality(S \ Required) \in Nat
      /\ Cardinality(Fields \cap Required) \in Nat /\ Cardinality(Fields \ Required) \in Nat
      /\ Cardinality(S \cap Required) <= Cardinality(Fields \cap Required)
      /\ Cardinality(S \ Required) <= Cardinality(Fields \ Required)
  <2>1. S \cap Required \subseteq Fields \cap Required
    OBVIOUS
  <2>2. S \ Required \subseteq Fields \ Required
    OBVIOUS
  <2>3. IsFiniteSet(S \cap Required) /\ IsFiniteSet(S \ Required)
    BY <1>1, <2>1, <2>2, FS_Subset
  <2>4. /\ Cardinality(S \cap Required) <= Cardinality(Fields \cap Required)
        /\ Cardinality(S \ Required) <= Cardinality(Fields \ Required)
    BY <1>1, <2>1, <2>2, FS_Subset
  <2> QED BY <1>1, <2>3, <2>4, FS_CardinalityType
<1> HIDE DEF S
<1>3. /\ Score(present, Required, Fields)
           = 2 * Cardinality(S \cap Required) + Cardinality(S \ Required)
      /\ Total(Required, Fields)
           = 2 * Cardinality(Fields \cap Required) + Cardinality(Fields \ Required)
  BY DEF Score, Total, Weight, S
<1> QED BY <1>2, <1>3

\* Who writes the columns writes values, and a job writes itself.
LEMMA ValueTypes ==
  /\ \A w \in Writers : Typed[w] \in Brought
  /\ Brought \subseteq Values /\ Brought \cap Jobs = {}
  /\ Jobs \subseteq Values /\ Tasks \subseteq Jobs /\ Translations \subseteq Jobs
  /\ Columns \subseteq Fields /\ \A j \in Jobs : j # "none"
BY ProfileConstants DEF Values, Brought, Writers, Jobs, Fields

LEMMA WrittenType ==
  ASSUME row \in Columned, NEW e \in Entries(Fields, Values)
  PROVE  Written(e) \in Columned
<1>1. PICK S \in SUBSET Fields : e \in [S -> Values \cup {"none"}]
  BY DEF Entries
<1> QED BY <1>1 DEF Written, Columned

LEMMA LoggedType ==
  ASSUME NEW S \in SUBSET Fields, NEW v \in Values
  PROVE  Entry(S, v) \in Entries(Fields, Values)
<1>1. Entry(S, v) \in [S -> Values \cup {"none"}]
  BY DEF Entry
<1> QED BY <1>1 DEF Entries

LEMMA ChangedType ==
  ASSUME writer \in [Writers -> Writer], NEW w \in Writers
  PROVE  Changed(w) \in Entries(Fields, Values)
<1>1. PICK S \in SUBSET Columns : writer[w].new \in [S -> Brought \cup {"none"}]
  BY DEF Writer, Entries
<1> DEFINE D == {g \in DOMAIN writer[w].new : writer[w].saw[g] # writer[w].new[g]}
<1>2. D \in SUBSET Fields /\ \A f \in D : writer[w].new[f] \in Values \cup {"none"}
  BY <1>1, ValueTypes
<1>3. Changed(w) \in [D -> Values \cup {"none"}]
  BY <1>2 DEF Changed
<1> HIDE DEF D
<1> QED BY <1>2, <1>3 DEF Entries

\* A writer touches the profile, its log and itself.
LEMMA WriterEffect ==
  ASSUME WriterStep
  PROVE  /\ UNCHANGED <<task, req, job, faults>>
         /\ \/ UNCHANGED <<row, log>>
            \/ \E w \in Writers : Commit(w)
BY DEF WriterStep, UpdateRead, UpdateCommit, IngestRead, IngestCommit, Read, Commit, Writers

LEMMA RescoredType ==
  ASSUME score \in Scores, NEW was, NEW present,
         Rescored(was, Score(present, Required, Fields)) \/ Rescored(was, 0)
  PROVE  score' \in Scores
BY ScoreType DEF Rescored, Scores

LEMMA IdleType == Idle \in Job
BY ScoreType DEF Idle, Job, PCs, Unread, Columned, Scores

LEMMA GotoType ==
  ASSUME job \in [Jobs -> Job], NEW j \in Jobs, NEW pc \in PCs, Goto(j, pc)
  PROVE  job' \in [Jobs -> Job]
BY IdleType DEF Goto, Job

LEMMA ConcludeType ==
  ASSUME job \in [Jobs -> Job], NEW j \in Jobs, NEW o \in Finals, NEW filled \in SUBSET Fields,
         Conclude(j, o, filled)
  PROVE  job' \in [Jobs -> Job]
BY IdleType DEF Conclude, Job, PCs

LEMMA FinishTaskType ==
  ASSUME task \in [Tasks -> TaskRow], NEW t \in Tasks, NEW status \in Finals,
         NEW filled \in SUBSET Fields
  PROVE  FinishTask(t, status, filled) \in [Tasks -> TaskRow]
BY DEF FinishTask, TaskRow

LEMMA FaultType == ASSUME faults \in 0..MaxFaults, Fault PROVE faults' \in 0..MaxFaults
BY ProfileConstants DEF Fault

\* A job that is about to finish knows its outcome.
Decided == \A j \in Jobs : job[j].pc = "finish" => job[j].outcome # "none"

LEMMA NoWriteType == NoWrite \in Writer
<1>1. [f \in {} |-> "none"] \in [{} -> Brought \cup {"none"}]
  OBVIOUS
<1>2. [f \in {} |-> "none"] \in Entries(Columns, Brought)
  BY <1>1 DEF Entries
<1>3. 0 \in Scores
  BY ScoreType DEF Scores
<1> QED BY <1>2, <1>3 DEF NoWrite, Writer, Unread, Columned

\* What a step makes of its job.
LEMMA GotoEffect ==
  ASSUME ActorsOK, NEW k \in Jobs, NEW pc, Goto(k, pc)
  PROVE  /\ \A j \in Jobs : j # k => job'[j] = job[j]
         /\ job'[k].pc = pc
BY DEF ActorsOK, Goto, Idle, Job

LEMMA ConcludeEffect ==
  ASSUME ActorsOK, NEW k \in Jobs, NEW o, NEW S, Conclude(k, o, S)
  PROVE  /\ \A j \in Jobs : j # k => job'[j] = job[j]
         /\ job'[k].pc = "finish" /\ job'[k].outcome = o /\ job'[k].fill = S
BY DEF ActorsOK, Conclude, Idle, Job

\* The way of an enrichment job.
LEMMA Moves ==
  ASSUME ActorsOK, NEW t \in Tasks
  PROVE  /\ Load(t) => job[t].pc = "sent" /\ job'[t].pc \in {"llm", "finish"}
         /\ Answer(t) => job[t].pc = "llm" /\ job'[t].pc \in {"write", "finish"}
         /\ EnrichCommit(t) => job[t].pc = "write" /\ job'[t].pc = "finish"
         /\ JobRefused(t) => job[t].pc \in {"llm", "write"} /\ job'[t].pc = "failing"
         /\ JobFails(t) =>
              job[t].pc \in {"sent", "llm", "write", "finish"} /\ job'[t].pc = "failing"
         /\ Finish(t) => job[t].pc = "finish" /\ job'[t].pc \in {"ack", "late"}
         /\ MarkFailed(t) =>
              job[t].pc = "failing" /\ job'[t].pc \in {"ack", "late", "unmarked"}
         /\ Ack(t) => job[t].pc \in {"ack", "late"} /\ job'[t].pc \in {"over", "missed"}
<1> t \in Jobs
  BY DEF Jobs
<1>1. ASSUME Load(t) PROVE job[t].pc = "sent" /\ job'[t].pc \in {"llm", "finish"}
  <2>1. CASE job' = [job EXCEPT ![t].pc = "llm", ![t].saw = row, ![t].was = score]
    BY <1>1, <2>1 DEF Load, ActorsOK, Job
  <2> QED BY <1>1, <2>1, ConcludeEffect DEF Load
<1>2. ASSUME Answer(t) PROVE job[t].pc = "llm" /\ job'[t].pc \in {"write", "finish"}
  <2>1. ASSUME NEW S, job' = [job EXCEPT ![t].pc = "write", ![t].fill = S]
        PROVE  job'[t].pc = "write"
    BY <2>1 DEF ActorsOK, Job
  <2> QED BY <1>2, <2>1, ConcludeEffect DEF Answer
<1>3. ASSUME EnrichCommit(t) PROVE job[t].pc = "write" /\ job'[t].pc = "finish"
  BY <1>3, ConcludeEffect DEF EnrichCommit
<1>4. ASSUME JobRefused(t) PROVE job[t].pc \in {"llm", "write"} /\ job'[t].pc = "failing"
  BY <1>4, GotoEffect DEF JobRefused
<1>5. ASSUME JobFails(t)
      PROVE  job[t].pc \in {"sent", "llm", "write", "finish"} /\ job'[t].pc = "failing"
  BY <1>5, GotoEffect DEF JobFails
<1>6. ASSUME Finish(t) PROVE job[t].pc = "finish" /\ job'[t].pc \in {"ack", "late"}
  BY <1>6, GotoEffect DEF Finish, Told
<1>7. ASSUME MarkFailed(t)
      PROVE  job[t].pc = "failing" /\ job'[t].pc \in {"ack", "late", "unmarked"}
  BY <1>7, GotoEffect DEF MarkFailed, Told
<1>8. ASSUME Ack(t) PROVE job[t].pc \in {"ack", "late"} /\ job'[t].pc \in {"over", "missed"}
  BY <1>8, GotoEffect DEF Ack
<1> QED BY <1>1, <1>2, <1>3, <1>4, <1>5, <1>6, <1>7, <1>8

LEMMA TypeInit == Init => TypeOK /\ Decided
<1> SUFFICES ASSUME Init PROVE TypeOK /\ Decided
  OBVIOUS
<1>1. row \in Columned
  BY ValueTypes DEF Init, Columned
<1>2. score \in Scores /\ 0 \in Scores
  BY ScoreType DEF Init, Scores
<1>3. StoreOK
  BY <1>1, <1>2 DEF Init, StoreOK, TaskRow
<1>4. Idle \in Job /\ NoWrite \in Writer
  BY IdleType, NoWriteType
<1>5. ActorsOK
  BY <1>1, <1>4, ProfileConstants DEF Init, ActorsOK
<1>6. Decided
  BY DEF Init, Decided, Idle
<1> QED BY <1>3, <1>5, <1>6 DEF TypeOK

LEMMA DecidedStep == TypeOK /\ Decided /\ [Next]_vars => Decided'
<1> SUFFICES ASSUME ActorsOK, Decided, [Next]_vars, NEW j \in Jobs, job'[j].pc = "finish"
             PROVE  job'[j].outcome # "none"
  BY DEF TypeOK, Decided
<1> USE ValueTypes
<1>1. CASE job'[j] = job[j]
  BY <1>1 DEF Decided
<1>2. ASSUME NEW k \in Jobs, NEW o \in Finals, NEW S, Conclude(k, o, S)
      PROVE  job'[j].outcome # "none"
  BY <1>2 DEF Conclude, Idle, ActorsOK, Job, Finals, Decided
<1>3. ASSUME NEW k \in Jobs, NEW pc, Goto(k, pc), pc # "finish"
      PROVE  job'[j].outcome # "none"
  BY <1>3 DEF Goto, Idle, ActorsOK, Job, Decided
<1>4. ASSUME WriterStep
      PROVE  job'[j].outcome # "none"
  BY <1>1, <1>4, WriterEffect
<1>5. ASSUME NEW t \in Tasks, Trigger(t) \/ RequestStep(t)
      PROVE  job'[j].outcome # "none"
  BY <1>1, <1>3, <1>5 DEF Trigger, RequestStep, TriggerCommit, TriggerLost
<1>6. ASSUME NEW t \in Tasks, Load(t) \/ Answer(t) \/ EnrichCommit(t)
      PROVE  job'[j].outcome # "none"
  <2>1. ASSUME NEW S, \/ Conclude(t, "skipped", S) \/ Conclude(t, "no_fill", S)
                     \/ Conclude(t, "done", S)
        PROVE  job'[j].outcome # "none"
    BY <1>2, <2>1 DEF Finals
  <2>2. CASE job' = [job EXCEPT ![t].pc = "llm", ![t].saw = row, ![t].was = score]
    BY <2>2 DEF ActorsOK, Job, Decided
  <2>3. ASSUME NEW S, job' = [job EXCEPT ![t].pc = "write", ![t].fill = S]
        PROVE  job'[j].outcome # "none"
    BY <2>3 DEF ActorsOK, Job, Decided
  <2> QED BY <1>6, <2>1, <2>2, <2>3 DEF Load, Answer, EnrichCommit
<1>7. ASSUME NEW t \in Tasks, \/ Finish(t) \/ MarkFailed(t) \/ Ack(t) \/ JobRefused(t)
                              \/ JobFails(t)
      PROVE  job'[j].outcome # "none"
  BY <1>3, <1>7 DEF Finish, MarkFailed, Ack, JobRefused, JobFails, Told
<1>8. ASSUME NEW k \in Translations, Send(k) \/ TranslateStep(k)
      PROVE  job'[j].outcome # "none"
  <2>1. CASE job' = [job EXCEPT ![k].pc = "llm", ![k].saw = row]
    BY <2>1 DEF ActorsOK, Job, Decided
  <2>2. CASE Goto(k, "sent") \/ Goto(k, "over")
    BY <1>3, <2>2
  <2> QED BY <1>8, <2>1, <2>2 DEF Send, TranslateStep, TranslateLoad, TranslateCommit,
                                   TranslateFails
<1>9. ASSUME NEW k \in Jobs, Crash(k)
      PROVE  job'[j].outcome # "none"
  BY <1>3, <1>9 DEF Crash
<1>10. CASE UNCHANGED vars
  BY <1>1, <1>10 DEF vars
<1> QED BY <1>4, <1>5, <1>6, <1>7, <1>8, <1>9, <1>10 DEF Next, JobStep

LEMMA TypeStep == TypeOK /\ Decided /\ [Next]_vars => TypeOK'
<1> SUFFICES ASSUME StoreOK, ActorsOK, Decided, [Next]_vars PROVE StoreOK' /\ ActorsOK'
  BY DEF TypeOK
<1> USE ValueTypes
<1>1. ASSUME WriterStep
      PROVE  StoreOK' /\ ActorsOK'
  <2>1. UNCHANGED <<task, req, job, faults>>
    BY <1>1, WriterEffect
  <2>2. row' \in Columned /\ log' \in Seq(Entries(Fields, Values))
    <3>1. CASE UNCHANGED <<row, log>>
      BY <3>1 DEF StoreOK
    <3>2. ASSUME NEW w \in Writers, Commit(w)
          PROVE  row' \in Columned /\ log' \in Seq(Entries(Fields, Values))
      <4>1. Changed(w) \in Entries(Fields, Values)
        BY ChangedType DEF ActorsOK
      <4> QED BY <3>2, <4>1, WrittenType DEF Commit, StoreOK
    <3> QED BY <1>1, <3>1, <3>2, WriterEffect
  <2>3. score' \in Scores
    <3>1. ASSUME NEW u \in Users, UpdateRead(u) \/ UpdateCommit(u)
          PROVE  score' \in Scores
      BY <3>1 DEF UpdateRead, Read, UpdateCommit, StoreOK
    <3>2. ASSUME NEW i \in Imports, IngestRead(i)
          PROVE  score' \in Scores
      BY <3>2 DEF IngestRead, Read, StoreOK
    <3>3. ASSUME NEW i \in Imports, IngestCommit(i)
          PROVE  score' \in Scores
      <4>1. \A new \in {0} \cup SourceScores(i) : new \in Scores
        BY ScoreType DEF SourceScores, Scores
      <4> QED BY <3>3, <4>1 DEF IngestCommit, Rescored, StoreOK
    <3> QED BY <1>1, <3>1, <3>2, <3>3 DEF WriterStep
  <2>4. writer' \in [Writers -> Writer]
    <3>1. ASSUME NEW w \in Writers, NEW new \in Entries(Columns, Brought), Read(w, new)
          PROVE  writer' \in [Writers -> Writer]
      BY <3>1 DEF Read, StoreOK, ActorsOK, Writer
    <3>2. ASSUME NEW w \in Writers, Commit(w)
          PROVE  writer' \in [Writers -> Writer]
      <4>1. [NoWrite EXCEPT !.pc = "done"] \in Writer
        BY NoWriteType DEF Writer
      <4> QED BY <3>2, <4>1 DEF Commit, ActorsOK
    <3>3. ASSUME NEW u \in Users, UpdateRead(u)
          PROVE  writer' \in [Writers -> Writer]
      <4>1. PICK S \in SUBSET Updatable : \E new \in [S -> {Typed[u], "none"}] : Read(u, new)
        BY <3>3 DEF UpdateRead
      <4>2. PICK new \in [S -> {Typed[u], "none"}] : Read(u, new)
        BY <4>1
      <4>3. S \in SUBSET Columns /\ Typed[u] \in Brought
        BY ProfileConstants, ValueTypes DEF Writers
      <4>4. new \in Entries(Columns, Brought)
        BY <4>2, <4>3 DEF Entries
      <4> QED BY <3>1, <4>2, <4>4 DEF Writers
    <3>4. ASSUME NEW i \in Imports, IngestRead(i)
          PROVE  writer' \in [Writers -> Writer]
      <4>1. PICK given \in SUBSET Mapped :
              Read(i, [f \in given \cup Defaulted |-> IF f \in given THEN Typed[i] ELSE "none"])
        BY <3>4 DEF IngestRead
      <4> DEFINE new == [f \in given \cup Defaulted |-> IF f \in given THEN Typed[i] ELSE "none"]
      <4>2. given \cup Defaulted \in SUBSET Columns /\ Typed[i] \in Brought
        BY ProfileConstants DEF Writers
      <4>3. new \in [given \cup Defaulted -> Brought \cup {"none"}]
        BY <4>2
      <4>4. Read(i, new)
        BY <4>1
      <4> HIDE DEF new
      <4>5. new \in Entries(Columns, Brought)
        BY <4>2, <4>3 DEF Entries
      <4> QED BY <3>1, <4>4, <4>5 DEF Writers
    <3> QED BY <1>1, <3>2, <3>3, <3>4 DEF WriterStep, UpdateCommit, IngestCommit, Writers
  <2> QED BY <2>1, <2>2, <2>3, <2>4 DEF StoreOK, ActorsOK
<1>2. ASSUME NEW t \in Tasks, Trigger(t) \/ RequestStep(t)
      PROVE  StoreOK' /\ ActorsOK'
  <2>1. CASE Trigger(t)
    <3>1. job' \in [Jobs -> Job]
      BY <2>1, GotoType DEF Trigger, ActorsOK, PCs
    <3> QED BY <2>1, <3>1 DEF Trigger, StoreOK, ActorsOK
  <2>2. CASE TriggerCommit(t)
    BY <2>2 DEF TriggerCommit, StoreOK, ActorsOK, TaskRow
  <2>3. CASE TriggerLost(t)
    BY <2>3, FaultType DEF TriggerLost, StoreOK, ActorsOK
  <2> QED BY <1>2, <2>1, <2>2, <2>3 DEF RequestStep
<1>3. ASSUME NEW t \in Tasks, JobStep(t) \/ JobFails(t)
      PROVE  StoreOK' /\ ActorsOK'
  <2>1. CASE Load(t)
    <3>1. job' \in [Jobs -> Job]
      <4>1. CASE Conclude(t, "skipped", {})
        BY <4>1, ConcludeType DEF ActorsOK, Finals
      <4>2. CASE job' = [job EXCEPT ![t].pc = "llm", ![t].saw = row, ![t].was = score]
        <5>1. row \in Columned /\ score \in Scores
          BY DEF StoreOK
        <5> QED BY <4>2, <5>1 DEF ActorsOK, Job, PCs
      <4> QED BY <2>1, <4>1, <4>2 DEF Load
    <3> QED BY <2>1, <3>1 DEF Load, StoreOK, ActorsOK
  <2>2. CASE Answer(t)
    <3>1. job' \in [Jobs -> Job]
      <4>1. CASE Conclude(t, "no_fill", {})
        BY <4>1, ConcludeType DEF ActorsOK, Finals
      <4>2. ASSUME NEW answer \in SUBSET Fields,
                   job' = [job EXCEPT ![t].pc = "write",
                             ![t].fill = Filled(Fields \ Present(job[t].saw), answer)]
            PROVE  job' \in [Jobs -> Job]
        BY <4>2 DEF Filled, ActorsOK, Job, PCs
      <4> QED BY <2>2, <4>1, <4>2 DEF Answer
    <3> QED BY <2>2, <3>1 DEF Answer, StoreOK, ActorsOK
  <2>3. CASE EnrichCommit(t)
    <3>1. job[t].fill \in SUBSET Fields
      BY DEF ActorsOK, Job
    <3>2. row' \in Columned
      BY <2>3, <3>1, LoggedType, WrittenType DEF EnrichCommit, StoreOK
    <3>3. score' \in Scores
      BY <2>3, RescoredType DEF EnrichCommit, StoreOK
    <3>4. log' \in Seq(Entries(Fields, Values))
      BY <2>3, <3>1, LoggedType DEF EnrichCommit, StoreOK
    <3>5. job' \in [Jobs -> Job]
      BY <2>3, <3>1, ConcludeType DEF EnrichCommit, Applied, ActorsOK, Finals
    <3> QED BY <2>3, <3>2, <3>3, <3>4, <3>5 DEF EnrichCommit, StoreOK, ActorsOK
  <2>4. CASE Finish(t)
    <3>1. job' \in [Jobs -> Job]
      BY <2>4, GotoType DEF Finish, Told, PCs, ActorsOK
    <3>2. task' \in [Tasks -> TaskRow]
      <4>1. job[t].outcome \in Finals /\ job[t].fill \in SUBSET Fields
        BY <2>4 DEF Finish, Decided, ActorsOK, Job
      <4> QED BY <2>4, <4>1, FinishTaskType DEF Finish, StoreOK
    <3> QED BY <2>4, <3>1, <3>2 DEF Finish, StoreOK, ActorsOK
  <2>5. CASE MarkFailed(t)
    <3>1. job' \in [Jobs -> Job]
      BY <2>5, GotoType DEF MarkFailed, Told, PCs, ActorsOK
    <3>2. task' \in [Tasks -> TaskRow]
      <4>1. task[t].filled \in SUBSET Fields
        BY DEF StoreOK, TaskRow
      <4> QED BY <2>5, <4>1, FinishTaskType DEF MarkFailed, Marked, StoreOK, Finals
    <3>3. faults' \in 0..MaxFaults
      BY <2>5, FaultType DEF MarkFailed, ActorsOK
    <3> QED BY <2>5, <3>1, <3>2, <3>3 DEF MarkFailed, StoreOK, ActorsOK
  <2>6. CASE Ack(t)
    <3>1. job' \in [Jobs -> Job]
      BY <2>6, GotoType DEF Ack, PCs, ActorsOK
    <3> QED BY <2>6, <3>1 DEF Ack, StoreOK, ActorsOK
  <2>7. CASE JobRefused(t) \/ JobFails(t)
    <3>1. job' \in [Jobs -> Job]
      BY <2>7, GotoType DEF JobRefused, JobFails, PCs, ActorsOK
    <3> QED BY <2>7, <3>1, FaultType DEF JobRefused, JobFails, StoreOK, ActorsOK
  <2> QED BY <1>3, <2>1, <2>2, <2>3, <2>4, <2>5, <2>6, <2>7 DEF JobStep
<1>4. ASSUME NEW j \in Translations, Send(j) \/ TranslateStep(j)
      PROVE  StoreOK' /\ ActorsOK'
  <2>1. CASE Send(j)
    <3>1. job' \in [Jobs -> Job]
      BY <2>1, GotoType DEF Send, PCs, ActorsOK
    <3> QED BY <2>1, <3>1 DEF Send, StoreOK, ActorsOK
  <2>2. CASE TranslateLoad(j)
    <3>1. job' \in [Jobs -> Job]
      <4>1. CASE Goto(j, "over")
        BY <4>1, GotoType DEF PCs, ActorsOK
      <4>2. CASE job' = [job EXCEPT ![j].pc = "llm", ![j].saw = row]
        <5>1. row \in Columned /\ score \in Scores
          BY DEF StoreOK
        <5> QED BY <4>2, <5>1 DEF ActorsOK, Job, PCs
      <4> QED BY <2>2, <4>1, <4>2 DEF TranslateLoad
    <3> QED BY <2>2, <3>1 DEF TranslateLoad, StoreOK, ActorsOK
  <2>3. CASE TranslateCommit(j)
    <3>2. {Cn} \in SUBSET Fields
      BY ProfileConstants DEF Fields
    <3>1. row' \in Columned
      BY <2>3, <3>2, LoggedType, WrittenType DEF TranslateCommit, StoreOK
    <3>3. log' \in Seq(Entries(Fields, Values))
      BY <2>3, <3>2, LoggedType DEF TranslateCommit, Logged, StoreOK
    <3>4. job' \in [Jobs -> Job]
      BY <2>3, GotoType DEF TranslateCommit, PCs, ActorsOK
    <3> QED BY <2>3, <3>1, <3>3, <3>4 DEF TranslateCommit, StoreOK, ActorsOK
  <2>4. CASE TranslateFails(j)
    <3>1. job' \in [Jobs -> Job]
      BY <2>4, GotoType DEF TranslateFails, PCs, ActorsOK
    <3> QED BY <2>4, <3>1 DEF TranslateFails, StoreOK, ActorsOK
  <2> QED BY <1>4, <2>1, <2>2, <2>3, <2>4 DEF TranslateStep
<1>5. ASSUME NEW j \in Jobs, Crash(j)
      PROVE  StoreOK' /\ ActorsOK'
  <2>1. job' \in [Jobs -> Job]
    BY <1>5, GotoType DEF Crash, PCs, ActorsOK
  <2> QED BY <1>5, <2>1, FaultType DEF Crash, StoreOK, ActorsOK
<1>6. CASE UNCHANGED vars
  BY <1>6 DEF vars, StoreOK, ActorsOK
<1> QED BY <1>1, <1>2, <1>3, <1>4, <1>5, <1>6 DEF Next

\* The profile, its log, the task rows and the jobs keep their types, and the
\* stored completeness stays between 0 and the weight of all fields.
THEOREM ProfileTypeCorrect == Spec => []TypeOK
<1>1. Init => TypeOK /\ Decided
  BY TypeInit
<1>2. TypeOK /\ Decided /\ [Next]_vars => (TypeOK /\ Decided)'
  BY TypeStep, DecidedStep
<1> QED BY <1>1, <1>2, PTL DEF Spec

-----------------------------------------------------------------------------
(* The log and the row. *)

\* Writing what an entry says and logging it keeps the log true.
LEMMA LoggedWrite ==
  ASSUME StoreOK, LogExplainsRow, NEW e, row' = Written(e), log' = Append(log, e)
  PROVE  LogExplainsRow'
<1> SUFFICES ASSUME NEW f \in Columns, NEW i \in Latest(f)' PROVE row'[f] = log'[i][f]
  BY DEF LogExplainsRow
<1>1. /\ DOMAIN log = 1..Len(log) /\ DOMAIN log' = 1..(Len(log) + 1) /\ Len(log) \in Nat
      /\ log'[Len(log) + 1] = e
      /\ \A k \in 1..Len(log) : log'[k] = log[k]
  BY DEF StoreOK
<1>2. /\ i \in DOMAIN log' /\ f \in DOMAIN log'[i]
      /\ \A k \in DOMAIN log' : k > i => f \notin DOMAIN log'[k]
  BY DEF Latest
<1>3. CASE f \in DOMAIN e
  <2>1. i = Len(log) + 1
    BY <1>1, <1>2, <1>3
  <2> QED BY <1>1, <1>3, <2>1 DEF Written
<1>4. CASE f \notin DOMAIN e
  <2>1. i \in DOMAIN log /\ log'[i] = log[i]
    BY <1>1, <1>2, <1>4
  <2>2. \A k \in DOMAIN log : k > i => f \notin DOMAIN log[k]
    BY <1>1, <1>2
  <2>3. row[f] = log[i][f]
    BY <1>2, <2>1, <2>2 DEF LogExplainsRow, Latest
  <2> QED BY <1>4, <2>1, <2>3 DEF Written
<1> QED BY <1>3, <1>4

LEMMA LogStep == TypeOK /\ LogExplainsRow /\ [Next]_vars => LogExplainsRow'
<1> SUFFICES ASSUME StoreOK, LogExplainsRow, [Next]_vars PROVE LogExplainsRow'
  BY DEF TypeOK
<1>1. CASE row' = row /\ log' = log
  BY <1>1 DEF LogExplainsRow, Latest
<1>2. ASSUME NEW w \in Writers, Commit(w)
      PROVE  LogExplainsRow'
  <2>1. CASE DOMAIN Changed(w) = {}
    <3>1. row' = row /\ log' = log
      BY <1>2, <2>1 DEF Commit, Written, StoreOK, Columned
    <3> QED BY <1>1, <3>1
  <2>2. CASE DOMAIN Changed(w) # {}
    BY <1>2, <2>2, LoggedWrite DEF Commit
  <2> QED BY <2>1, <2>2
<1>3. ASSUME NEW t \in Tasks, EnrichCommit(t)
      PROVE  LogExplainsRow'
  BY <1>3, LoggedWrite DEF EnrichCommit
<1>4. ASSUME NEW j \in Translations, TranslateCommit(j)
      PROVE  LogExplainsRow'
  BY <1>4, LoggedWrite DEF TranslateCommit, Logged
<1>5. ASSUME \/ WriterStep /\ UNCHANGED <<row, log>>
             \/ \E t \in Tasks : Trigger(t) \/ RequestStep(t) \/ Load(t) \/ Answer(t)
                                \/ Finish(t) \/ MarkFailed(t) \/ Ack(t) \/ JobRefused(t)
                                \/ JobFails(t)
             \/ \E j \in Translations : Send(j) \/ TranslateLoad(j) \/ TranslateFails(j)
             \/ \E j \in Jobs : Crash(j)
             \/ UNCHANGED vars
      PROVE  row' = row /\ log' = log
  BY <1>5 DEF Trigger, RequestStep, TriggerCommit, TriggerLost, Load, Answer,
              Finish, MarkFailed, Ack, JobRefused, JobFails, Send, TranslateLoad, TranslateFails,
              Crash, vars
<1> QED BY <1>1, <1>2, <1>3, <1>4, <1>5, WriterEffect DEF Next, JobStep, TranslateStep

\* The last entry of the change log about a column says what is in it.
THEOREM LogAlwaysExplainsRow == Spec => []LogExplainsRow
<1>1. Init => LogExplainsRow
  BY DEF Init, LogExplainsRow, Latest
<1> QED BY <1>1, LogStep, ProfileTypeCorrect, PTL DEF Spec

-----------------------------------------------------------------------------
(* What a job may overwrite. *)

\* A job about to write fills only fields it has seen empty.
Careful ==
  /\ \A t \in Tasks : job[t].pc = "write" =>
       \A f \in Columns \cap job[t].fill : job[t].saw[f] = "none"
  /\ \A j \in Translations : job[j].pc = "llm" => job[j].saw[Cn] = "none"

LEMMA CarefulKept ==
  ASSUME Careful,
         \A j \in Jobs : \/ job'[j] = job[j] \/ job'[j].pc \notin {"write", "llm"}
                         \/ j \in Tasks /\ job'[j].pc = "llm"
  PROVE  Careful'
<1>1. \A j \in Translations : j \notin Tasks /\ j \in Jobs
  BY ProfileConstants DEF Jobs
<1>2. \A t \in Tasks : t \in Jobs
  BY DEF Jobs
<1>3. \A t \in Tasks : job'[t].pc = "write" =>
        \A f \in Columns \cap job'[t].fill : job'[t].saw[f] = "none"
  BY <1>2 DEF Careful
<1>4. \A j \in Translations : job'[j].pc = "llm" => job'[j].saw[Cn] = "none"
  BY <1>1 DEF Careful
<1> QED BY <1>3, <1>4 DEF Careful

LEMMA CarefulStep == TypeOK /\ Careful /\ [Next]_vars => Careful'
<1> SUFFICES ASSUME StoreOK, ActorsOK, Careful, [Next]_vars PROVE Careful'
  BY DEF TypeOK
<1> USE ValueTypes
<1>2. ASSUME NEW k \in Jobs, NEW pc, Goto(k, pc), pc \notin {"write", "llm"}
      PROVE  Careful'
  BY <1>2, GotoEffect, CarefulKept
<1>3. ASSUME NEW k \in Jobs, NEW o, NEW S, Conclude(k, o, S)
      PROVE  Careful'
  <2>1. \A j \in Jobs : job'[j] = job[j] \/ job'[j].pc = "finish"
    BY <1>3 DEF Conclude, Idle, ActorsOK, Job
  <2> QED BY <2>1, CarefulKept
<1>4. CASE job' = job
  BY <1>4, CarefulKept
<1>5. ASSUME WriterStep
      PROVE  Careful'
  BY <1>4, <1>5, WriterEffect
<1>6. ASSUME NEW t \in Tasks, Trigger(t) \/ RequestStep(t)
      PROVE  Careful'
  BY <1>2, <1>4, <1>6 DEF Trigger, RequestStep, TriggerCommit, TriggerLost
<1>7. ASSUME NEW t \in Tasks, Load(t)
      PROVE  Careful'
  <2>1. CASE job' = [job EXCEPT ![t].pc = "llm", ![t].saw = row, ![t].was = score]
    <3>1. \A j \in Jobs : job'[j] = job[j] \/ (j = t /\ job'[j].pc = "llm")
      BY <2>1 DEF ActorsOK, Job
    <3> QED BY <3>1, CarefulKept
  <2> QED BY <1>3, <1>7, <2>1 DEF Load
<1>8. ASSUME NEW t \in Tasks, Answer(t)
      PROVE  Careful'
  <2>1. ASSUME NEW answer \in SUBSET Fields,
               job' = [job EXCEPT ![t].pc = "write",
                         ![t].fill = Filled(Fields \ Present(job[t].saw), answer)]
        PROVE  Careful'
    <3>1. /\ job'[t].saw = job[t].saw
          /\ job'[t].fill = Filled(Fields \ Present(job[t].saw), answer)
          /\ \A j \in Jobs \ {t} : job'[j] = job[j]
      BY <2>1 DEF ActorsOK, Job
    <3>2. \A f \in Columns \cap job'[t].fill : job'[t].saw[f] = "none"
      BY <3>1 DEF Filled, Present
    <3>3. \A j \in Translations : j # t
      BY ProfileConstants
    <3> QED BY <3>1, <3>2, <3>3 DEF Careful
  <2> QED BY <1>3, <1>8, <2>1 DEF Answer
<1>9. ASSUME NEW t \in Tasks, EnrichCommit(t)
      PROVE  Careful'
  BY <1>3, <1>9 DEF EnrichCommit
<1>10. ASSUME NEW t \in Tasks, \/ Finish(t) \/ MarkFailed(t) \/ Ack(t) \/ JobRefused(t)
                               \/ JobFails(t)
       PROVE  Careful'
  BY <1>2, <1>10 DEF Finish, MarkFailed, Ack, JobRefused, JobFails, Told
<1>11. ASSUME NEW j \in Translations, Send(j) \/ TranslateStep(j)
       PROVE  Careful'
  <2>1. CASE row[Cn] = "none" /\ job' = [job EXCEPT ![j].pc = "llm", ![j].saw = row]
    <3>1. job'[j].saw[Cn] = "none" /\ \A i \in Jobs \ {j} : job'[i] = job[i]
      BY <2>1 DEF ActorsOK, Job
    <3>2. j \notin Tasks
      BY ProfileConstants
    <3> QED BY <3>1, <3>2 DEF Careful
  <2>2. CASE Goto(j, "sent") \/ Goto(j, "over")
    BY <1>2, <2>2
  <2> QED BY <1>11, <2>1, <2>2 DEF Send, TranslateStep, TranslateLoad, TranslateCommit,
                                   TranslateFails
<1>12. ASSUME NEW k \in Jobs, Crash(k)
       PROVE  Careful'
  BY <1>2, <1>12 DEF Crash
<1>13. CASE UNCHANGED vars
  BY <1>4, <1>13 DEF vars
<1> QED BY <1>5, <1>6, <1>7, <1>8, <1>9, <1>10, <1>11, <1>12, <1>13 DEF Next, JobStep

\* The goal of SeenValuesStay.
StaysSeen ==
  \A j \in Jobs, f \in Columns :
    row'[f] = j /\ row[f] \notin {"none", j} => job[j].saw[f] = "none"

LEMMA SeenStep == TypeOK /\ Careful /\ [Next]_vars => StaysSeen
<1> SUFFICES ASSUME StoreOK, ActorsOK, Careful, [Next]_vars,
                    NEW j \in Jobs, NEW f \in Columns,
                    row'[f] = j, row[f] \notin {"none", j}
             PROVE  job[j].saw[f] = "none"
  BY DEF TypeOK, StaysSeen
<1>1. row' # row
  OBVIOUS
<1>2. ASSUME NEW w \in Writers, Commit(w)
      PROVE  FALSE
  <2>1. row'[f] \in Brought \cup {"none", row[f]}
    <3>1. PICK S \in SUBSET Columns : writer[w].new \in [S -> Brought \cup {"none"}]
      BY DEF ActorsOK, Writer, Entries
    <3>2. CASE f \in DOMAIN Changed(w)
      BY <1>2, <3>1, <3>2 DEF Commit, Written, Changed
    <3> QED BY <1>2, <3>2 DEF Commit, Written
  <2> QED BY <2>1, ValueTypes
<1>3. ASSUME NEW t \in Tasks, EnrichCommit(t)
      PROVE  job[j].saw[f] = "none"
  <2>1. f \in job[t].fill /\ j = t
    BY <1>3 DEF EnrichCommit, Written, Entry
  <2> QED BY <1>3, <2>1 DEF EnrichCommit, Careful
<1>4. ASSUME NEW k \in Translations, TranslateCommit(k)
      PROVE  job[j].saw[f] = "none"
  <2>1. f = Cn /\ j = k
    BY <1>4 DEF TranslateCommit, Written, Entry
  <2> QED BY <1>4, <2>1 DEF TranslateCommit, Careful
<1>5. ASSUME \/ WriterStep /\ UNCHANGED <<row, log>>
             \/ \E t \in Tasks : Trigger(t) \/ RequestStep(t) \/ Load(t) \/ Answer(t)
                                \/ Finish(t) \/ MarkFailed(t) \/ Ack(t) \/ JobRefused(t)
                                \/ JobFails(t)
             \/ \E k \in Translations : Send(k) \/ TranslateLoad(k) \/ TranslateFails(k)
             \/ \E k \in Jobs : Crash(k)
             \/ UNCHANGED vars
      PROVE  row' = row
  BY <1>5 DEF Trigger, RequestStep, TriggerCommit, TriggerLost, Load, Answer,
              Finish, MarkFailed, Ack, JobRefused, JobFails, Send, TranslateLoad, TranslateFails,
              Crash, vars
<1> QED BY <1>1, <1>2, <1>3, <1>4, <1>5, WriterEffect DEF Next, JobStep, TranslateStep

\* A job overwrites no value it has read.
THEOREM JobsKeepSeenValues == Spec => SeenValuesStay
<1>1. Init => TypeOK /\ Decided /\ Careful
  BY TypeInit DEF Init, Careful, Idle, Jobs
<1>2. TypeOK /\ Decided /\ Careful /\ [Next]_vars => (TypeOK /\ Decided /\ Careful)'
  BY TypeStep, DecidedStep, CarefulStep
<1>3. TypeOK /\ Careful /\ [Next]_vars => [StaysSeen]_vars
  BY SeenStep
<1> QED BY <1>1, <1>2, <1>3, PTL DEF Spec, SeenValuesStay, StaysSeen

-----------------------------------------------------------------------------
(* The task rows. *)

\* A job that will report its fields has logged them.
Reportable ==
  \A t \in Tasks : job[t].pc = "finish" /\ job[t].outcome = "done" =>
    \E i \in DOMAIN log : log[i] = Entry(job[t].fill, t)

LogGrows == log' = log \/ \E e : log' = Append(log, e)

LEMMA LogKept ==
  ASSUME StoreOK, LogGrows, NEW e, \E i \in DOMAIN log : log[i] = e
  PROVE  \E i \in DOMAIN log' : log'[i] = e
<1>1. PICK i \in DOMAIN log : log[i] = e
  OBVIOUS
<1>2. CASE log' = log
  BY <1>1, <1>2
<1>3. ASSUME NEW x, log' = Append(log, x)
      PROVE  i \in DOMAIN log' /\ log'[i] = log[i]
  BY <1>3 DEF StoreOK
<1> QED BY <1>1, <1>2, <1>3 DEF LogGrows

LEMMA Growing == [Next]_vars => LogGrows
<1> SUFFICES ASSUME [Next]_vars PROVE LogGrows
  OBVIOUS
<1>1. ASSUME \/ WriterStep
             \/ \E t \in Tasks : Trigger(t) \/ RequestStep(t) \/ JobStep(t) \/ JobFails(t)
      PROVE  LogGrows
  BY <1>1, WriterEffect DEF LogGrows, Commit, Trigger, RequestStep, TriggerCommit,
              TriggerLost, JobStep, Load, Answer, EnrichCommit, Finish, MarkFailed, Ack,
              JobRefused, JobFails
<1>2. ASSUME \/ \E j \in Translations : Send(j) \/ TranslateStep(j)
             \/ \E j \in Jobs : Crash(j)
             \/ UNCHANGED vars
      PROVE  LogGrows
  BY <1>2 DEF LogGrows, Send, TranslateStep, TranslateLoad, TranslateCommit, Logged,
              TranslateFails, Crash, vars
<1> QED BY <1>1, <1>2 DEF Next

LEMMA ReportStep == TypeOK /\ Reportable /\ [Next]_vars => Reportable'
<1> SUFFICES ASSUME StoreOK, ActorsOK, Reportable, [Next]_vars, NEW t \in Tasks,
                    job'[t].pc = "finish", job'[t].outcome = "done"
             PROVE  \E i \in DOMAIN log' : log'[i] = Entry(job'[t].fill, t)
  BY DEF TypeOK, Reportable
<1> t \in Jobs /\ ActorsOK
  BY DEF Jobs
<1>1. CASE job'[t] = job[t]
  BY <1>1, Growing, LogKept DEF Reportable
<1>2. CASE EnrichCommit(t)
  <2>1. job'[t].fill = job[t].fill
    BY <1>2 DEF EnrichCommit, Applied, Conclude, Idle, ActorsOK, Job
  <2>2. /\ Len(log) + 1 \in DOMAIN log'
        /\ log'[Len(log) + 1] = Entry(job[t].fill, t)
    BY <1>2 DEF EnrichCommit, StoreOK
  <2> QED BY <2>1, <2>2
<1>3. ASSUME NEW k \in Jobs, NEW pc, Goto(k, pc), pc # "finish"
      PROVE  job'[t] = job[t]
  BY <1>3 DEF Goto, Idle, ActorsOK, Job
<1>4. ASSUME NEW k \in Tasks, Load(k) \/ Answer(k) \/ (k # t /\ EnrichCommit(k))
      PROVE  job'[t] = job[t]
  <2> k \in Jobs
    BY DEF Jobs
  <2>1. ASSUME NEW o, NEW S, Conclude(k, o, S), o # "done" \/ k # t
        PROVE  job'[t] = job[t]
    BY <2>1 DEF Conclude, Idle, ActorsOK, Job
  <2>2. CASE job' = [job EXCEPT ![k].pc = "llm", ![k].saw = row, ![k].was = score]
    BY <2>2 DEF ActorsOK, Job
  <2>3. ASSUME NEW S, job' = [job EXCEPT ![k].pc = "write", ![k].fill = S]
        PROVE  job'[t] = job[t]
    BY <2>3 DEF ActorsOK, Job
  <2> QED BY <1>4, <2>1, <2>2, <2>3 DEF Load, Answer, EnrichCommit
<1>5. ASSUME NEW k \in Tasks, \/ Trigger(k) \/ RequestStep(k) \/ Finish(k) \/ MarkFailed(k)
                              \/ Ack(k) \/ JobRefused(k) \/ JobFails(k)
      PROVE  job'[t] = job[t]
  <2> k \in Jobs
    BY DEF Jobs
  <2> QED BY <1>3, <1>5 DEF Trigger, RequestStep, TriggerCommit, TriggerLost, Finish,
                            MarkFailed, Ack, JobRefused, JobFails, Told
<1>6. ASSUME NEW k \in Translations, Send(k) \/ TranslateStep(k)
      PROVE  job'[t] = job[t]
  <2> k \in Jobs
    BY DEF Jobs
  <2>1. CASE job' = [job EXCEPT ![k].pc = "llm", ![k].saw = row]
    BY <2>1 DEF ActorsOK, Job
  <2>2. CASE Goto(k, "sent") \/ Goto(k, "over")
    BY <1>3, <2>2
  <2> QED BY <1>6, <2>1, <2>2 DEF Send, TranslateStep, TranslateLoad, TranslateCommit,
                                   TranslateFails
<1>7. ASSUME NEW k \in Jobs, Crash(k)
      PROVE  job'[t] = job[t]
  BY <1>7, GotoEffect DEF Crash
<1>8. ASSUME \/ WriterStep
             \/ UNCHANGED vars
      PROVE  job'[t] = job[t]
  BY <1>8, WriterEffect DEF vars
<1> QED BY <1>1, <1>2, <1>4, <1>5, <1>6, <1>7, <1>8 DEF Next, JobStep

\* What a step may make of a task row.
LEMMA TaskEffect ==
  ASSUME StoreOK, [Next]_vars, NEW t \in Tasks
  PROVE  \/ task'[t] = task[t]
         \/ task'[t].status = "queued" /\ TriggerCommit(t)
         \/ /\ Finish(t) /\ task[t].status # "absent"
            /\ task'[t] = [status |-> job[t].outcome, filled |-> job[t].fill]
         \/ /\ MarkFailed(t) /\ task[t].status # "absent" /\ task'[t].status = "failed"
<1>1. ASSUME NEW k \in Tasks, TriggerCommit(k)
      PROVE  \/ task'[t] = task[t]
             \/ task'[t].status = "queued" /\ TriggerCommit(t)
  BY <1>1 DEF TriggerCommit, StoreOK, TaskRow
<1>2. ASSUME NEW k \in Tasks, Finish(k)
      PROVE  \/ task'[t] = task[t]
             \/ /\ Finish(t) /\ task[t].status # "absent"
                /\ task'[t] = [status |-> job[t].outcome, filled |-> job[t].fill]
  <2>1. task' = FinishTask(k, job[k].outcome, job[k].fill)
    BY <1>2 DEF Finish
  <2>2. CASE task[k].status = "absent" \/ k # t
    BY <2>1, <2>2 DEF FinishTask, StoreOK
  <2>3. CASE task[k].status # "absent" /\ k = t
    <3>1. task'[t] = [status |-> job[t].outcome, filled |-> job[t].fill]
      BY <2>1, <2>3 DEF FinishTask, StoreOK
    <3> QED BY <1>2, <2>3, <3>1, Zenon
  <2> QED BY <2>2, <2>3
<1>3. ASSUME NEW k \in Tasks, MarkFailed(k)
      PROVE  \/ task'[t] = task[t]
             \/ /\ MarkFailed(t) /\ task[t].status # "absent" /\ task'[t].status = "failed"
  BY <1>3 DEF MarkFailed, Marked, FinishTask, StoreOK
<1>4. ASSUME \/ WriterStep
             \/ \E k \in Tasks : Trigger(k) \/ TriggerLost(k) \/ Load(k) \/ Answer(k)
                                \/ EnrichCommit(k) \/ Ack(k) \/ JobRefused(k) \/ JobFails(k)
             \/ \E k \in Translations : Send(k) \/ TranslateStep(k)
             \/ \E k \in Jobs : Crash(k)
             \/ UNCHANGED vars
      PROVE  task' = task
  BY <1>4, WriterEffect DEF Trigger, TriggerLost, Load, Answer, EnrichCommit, Ack,
              JobRefused, JobFails, Send, TranslateStep, TranslateLoad, TranslateCommit,
              TranslateFails, Crash, vars
<1> QED BY <1>1, <1>2, <1>3, <1>4 DEF Next, JobStep, RequestStep

LEMMA DoneStep == TypeOK /\ Reportable /\ DoneIsLogged /\ [Next]_vars => DoneIsLogged'
<1> SUFFICES ASSUME StoreOK, Reportable, DoneIsLogged, [Next]_vars, NEW t \in Tasks,
                    task'[t].status = "done"
             PROVE  \E i \in DOMAIN log' : log'[i] = Entry(task'[t].filled, t)
  BY DEF TypeOK, DoneIsLogged
<1>1. \E i \in DOMAIN log : log[i] = Entry(task'[t].filled, t)
  <2>1. CASE task'[t] = task[t]
    BY <2>1 DEF DoneIsLogged
  <2>2. CASE Finish(t) /\ task'[t] = [status |-> job[t].outcome, filled |-> job[t].fill]
    BY <2>2 DEF Finish, Reportable
  <2> QED BY <2>1, <2>2, TaskEffect
<1> QED BY <1>1, Growing, LogKept

\* A task row that says "done" names fields the change log has, by the same job.
THEOREM DoneTasksAreLogged == Spec => []DoneIsLogged
<1>1. Init => Reportable /\ DoneIsLogged
  BY DEF Init, Reportable, DoneIsLogged, Idle, Jobs
<1> QED BY <1>1, ReportStep, DoneStep, ProfileTypeCorrect, PTL DEF Spec

-----------------------------------------------------------------------------
(* The life of a task row. *)

\* A row is there only once its request has been served, and a job that has told
\* it how it ended has left it at its end.
LifeInv ==
  \A t \in Tasks :
    /\ task[t].status # "absent" => req[t] = "done"
    /\ job[t].pc \in {"ack", "over"} => task[t].status \in Finals

\* What a step may make of a request and of a job that is being acknowledged.
LEMMA RequestEffect ==
  ASSUME ActorsOK, [Next]_vars, NEW t \in Tasks, req[t] = "done"
  PROVE  req'[t] = "done" /\ ~ TriggerCommit(t) /\ ~ Trigger(t)
<1>1. ASSUME NEW k \in Tasks, Trigger(k) \/ TriggerCommit(k) \/ TriggerLost(k)
      PROVE  req'[t] = "done"
  BY <1>1 DEF Trigger, TriggerCommit, TriggerLost, ActorsOK
<1>2. ASSUME \/ WriterStep
             \/ \E k \in Tasks : JobStep(k) \/ JobFails(k)
             \/ \E k \in Translations : Send(k) \/ TranslateStep(k)
             \/ \E k \in Jobs : Crash(k)
             \/ UNCHANGED vars
      PROVE  req' = req
  BY <1>2, WriterEffect DEF JobStep, Load, Answer, EnrichCommit, Conclude, Idle, Finish,
              MarkFailed, Ack, JobRefused, JobFails, Send, TranslateStep, TranslateLoad,
              TranslateCommit, TranslateFails, Crash, vars
<1>3. ~ TriggerCommit(t) /\ ~ Trigger(t)
  BY DEF TriggerCommit, Trigger
<1> QED BY <1>1, <1>2, <1>3 DEF Next, RequestStep

\* A job reaches its acknowledgement from a report, and leaves it by a crash or for good.
LEMMA AckEffect ==
  ASSUME ActorsOK, [Next]_vars, NEW t \in Tasks
  PROVE  \/ job'[t].pc \notin {"ack", "over"} /\ job[t].pc # "over"
         \/ job'[t].pc \notin {"ack", "over"} /\ Trigger(t)
         \/ job'[t].pc = job[t].pc
         \/ job[t].pc = "ack" /\ job'[t].pc = "over"
         \/ Finish(t) \/ MarkFailed(t)
<1> t \in Jobs
  BY DEF Jobs
<1>1. CASE job'[t] = job[t]
  BY <1>1
<1>2. ASSUME NEW k \in Tasks, Trigger(k)
      PROVE  \/ job'[t] = job[t]
             \/ job'[t].pc \notin {"ack", "over"} /\ Trigger(t)
  BY <1>2 DEF Trigger, Goto, Idle, ActorsOK, Job
<1>3. ASSUME NEW k \in Tasks, k # t, JobStep(k) \/ JobFails(k)
      PROVE  job'[t] = job[t]
  BY <1>3 DEF JobStep, Load, Answer, EnrichCommit, Conclude, Finish, MarkFailed, Ack,
              JobRefused, JobFails, Goto, ActorsOK
<1>4. ASSUME Load(t) \/ Answer(t) \/ EnrichCommit(t) \/ JobRefused(t) \/ JobFails(t)
      PROVE  job'[t].pc \notin {"ack", "over"} /\ job[t].pc # "over"
  BY <1>4, Moves
<1>5. ASSUME Ack(t)
      PROVE  \/ job[t].pc = "ack" /\ job'[t].pc = "over"
             \/ job'[t].pc \notin {"ack", "over"} /\ job[t].pc # "over"
  BY <1>5 DEF Ack, Goto, Idle, ActorsOK, Job
<1>6. ASSUME NEW k \in Translations, Send(k) \/ TranslateStep(k)
      PROVE  job'[t] = job[t]
  <2>1. k # t /\ k \in Jobs
    BY ProfileConstants DEF Jobs
  <2> QED BY <1>6, <2>1 DEF Send, TranslateStep, TranslateLoad, TranslateCommit,
                            TranslateFails, Goto, ActorsOK
<1>7. ASSUME NEW k \in Jobs, Crash(k)
      PROVE  \/ job'[t] = job[t]
             \/ job'[t].pc \notin {"ack", "over"} /\ job[t].pc # "over"
  BY <1>7, GotoEffect DEF Crash
<1>8. ASSUME \/ WriterStep
             \/ \E k \in Tasks : RequestStep(k)
             \/ UNCHANGED vars
      PROVE  job' = job
  BY <1>8, WriterEffect DEF RequestStep, TriggerCommit, TriggerLost, vars
<1> QED BY <1>1, <1>2, <1>3, <1>4, <1>5, <1>6, <1>7, <1>8 DEF Next, JobStep

\* What a report leaves of its row and its job.
LEMMA ReportEffect ==
  ASSUME TypeOK, Decided, NEW t \in Tasks, Finish(t) \/ MarkFailed(t)
  PROVE  /\ job[t].pc \in {"finish", "failing"}
         /\ task[t].status # "absent" =>
              task'[t] = task[t] \/ task'[t].status \in Finals
         /\ job'[t].pc \in {"ack", "over"} => task'[t].status \in Finals
<1> t \in Jobs /\ StoreOK /\ ActorsOK
  BY DEF Jobs, TypeOK
<1>1. CASE Finish(t)
  <2>1. job[t].pc = "finish" /\ job[t].outcome \in Finals
    BY <1>1 DEF Finish, Decided, ActorsOK, Job
  <2>2. task[t].status = "absent" => job'[t].pc = "late"
    BY <1>1 DEF Finish, Told, Goto, Idle, ActorsOK, Job
  <2>3. task[t].status # "absent" => task'[t].status = job[t].outcome
    BY <1>1 DEF Finish, FinishTask, StoreOK
  <2> QED BY <2>1, <2>2, <2>3
<1>2. CASE MarkFailed(t)
  <2>1. CASE task' = Marked(t) /\ Goto(t, Told(t))
    <3>1. task[t].status = "absent" => job'[t].pc = "late"
      BY <2>1 DEF Told, Goto, Idle, ActorsOK, Job
    <3>2. task[t].status # "absent" => task'[t].status = "failed"
      BY <2>1 DEF Marked, FinishTask, StoreOK
    <3> QED BY <1>2, <3>1, <3>2 DEF MarkFailed, Finals
  <2>2. CASE Goto(t, "unmarked") /\ task' = task
    BY <1>2, <2>2 DEF MarkFailed, Goto, Idle, ActorsOK, Job
  <2> QED BY <1>2, <2>1, <2>2 DEF MarkFailed
<1> QED BY <1>1, <1>2

LEMMA LifeStep ==
  ASSUME TypeOK, Decided, LifeInv, [Next]_vars
  PROVE  /\ LifeInv'
         /\ \A t \in Tasks : \/ LifeOf(t)' = LifeOf(t)
                             \/ LifeOf(t) = "absent" /\ LifeOf(t)' = "open"
                             \/ LifeOf(t) = "open" /\ LifeOf(t)' \in Finals
<1> SUFFICES ASSUME NEW t \in Tasks
             PROVE  /\ task'[t].status # "absent" => req'[t] = "done"
                    /\ job'[t].pc \in {"ack", "over"} => task'[t].status \in Finals
                    /\ \/ LifeOf(t)' = LifeOf(t)
                       \/ LifeOf(t) = "absent" /\ LifeOf(t)' = "open"
                       \/ LifeOf(t) = "open" /\ LifeOf(t)' \in Finals
  BY DEF LifeInv
<1> StoreOK /\ ActorsOK /\ t \in Jobs
  BY DEF TypeOK, Jobs
<1>1. /\ task[t].status # "absent" => req[t] = "done"
      /\ job[t].pc \in {"ack", "over"} => task[t].status \in Finals
  BY DEF LifeInv
<1>2. "absent" \notin Finals /\ "open" \notin Finals /\ "queued" \notin Finals
  BY DEF Finals
<1>3. CASE TriggerCommit(t)
  <2>1. /\ task[t].status = "absent" /\ req'[t] = "done" /\ job' = job
        /\ task'[t].status = "queued"
    BY <1>1, <1>3 DEF TriggerCommit, ActorsOK, StoreOK, TaskRow
  <2>2. job'[t].pc \notin {"ack", "over"}
    BY <1>1, <1>2, <2>1
  <2> QED BY <1>2, <2>1, <2>2 DEF LifeOf
<1>4. CASE Finish(t) \/ MarkFailed(t)
  <2>1. /\ job[t].pc \notin {"ack", "over"}
        /\ task[t].status # "absent" => task'[t] = task[t] \/ task'[t].status \in Finals
        /\ job'[t].pc \in {"ack", "over"} => task'[t].status \in Finals
    BY <1>4, ReportEffect
  <2>2. job'[t].pc # "over"
    BY <1>4 DEF Finish, MarkFailed, Told, Goto, Idle, ActorsOK, Job
  <2>3. task[t].status = "absent" => task'[t] = task[t]
    BY <1>4, TaskEffect, <1>3 DEF Finish, MarkFailed, Marked, FinishTask, StoreOK
  <2>4. req' = req
    BY <1>4 DEF Finish, MarkFailed
  <2> QED BY <1>1, <1>2, <2>1, <2>2, <2>3, <2>4 DEF LifeOf
<1>5. CASE task'[t] = task[t] /\ ~ Finish(t) /\ ~ MarkFailed(t)
  <2>1. task'[t].status # "absent" => req'[t] = "done" /\ ~ Trigger(t)
    BY <1>1, <1>5, RequestEffect
  <2>2. task[t].status = "absent" => LifeOf(t)' = LifeOf(t)
    BY <1>5 DEF LifeOf
  <2>3. CASE job'[t].pc = job[t].pc
    BY <1>1, <1>5, <2>1, <2>3 DEF LifeOf
  <2>4. CASE job'[t].pc \notin {"ack", "over"} /\ job[t].pc # "over"
    BY <1>1, <1>5, <2>1, <2>4 DEF LifeOf
  <2>5. CASE job[t].pc = "ack" /\ job'[t].pc = "over"
    BY <1>1, <1>2, <1>5, <2>1, <2>5 DEF LifeOf
  <2>6. CASE job'[t].pc \notin {"ack", "over"} /\ Trigger(t)
    <3>1. task[t].status = "absent"
      BY <1>1, <2>6, RequestEffect
    <3> QED BY <1>5, <2>2, <2>6, <3>1
  <2> QED BY <1>5, <2>3, <2>4, <2>5, <2>6, AckEffect
<1> QED BY <1>3, <1>4, <1>5, TaskEffect

LEMMA LifeInit == Init => LifeInv /\ Life = [t \in Tasks |-> "absent"]
BY DEF Init, LifeInv, Life, LifeOf, Idle, Jobs

LEMMA LifeWrite ==
  ASSUME TypeOK, \A t \in Tasks : \/ LifeOf(t)' = LifeOf(t)
                                  \/ LifeOf(t) = "absent" /\ LifeOf(t)' = "open"
                                  \/ LifeOf(t) = "open" /\ LifeOf(t)' \in Finals,
         TypeOK'
  PROVE  Promised!Write
<1>1. \A t \in Tasks : Life[t] = LifeOf(t) /\ Life'[t] = LifeOf(t)'
  BY DEF Life
<1>2. Life' \in [Tasks -> Promised!Open \cup Finals]
  BY DEF Life, LifeOf, Promised!Open
<1> QED BY <1>1, <1>2 DEF Promised!Write, Promised!Appear, Promised!End, Promised!Open

\* Every task row refines TaskLife: it appears open, ends at most once, and keeps
\* its end, with any number of tasks, redeliveries and crashes.
THEOREM TaskRowsKeepTheirPromise == Spec => LifeKept
<1>1. Init => TypeOK /\ Decided /\ LifeInv /\ Promised!Init
  BY TypeInit, LifeInit DEF Promised!Init
<1>2. TypeOK /\ Decided /\ LifeInv /\ [Next]_vars
        => (TypeOK /\ Decided /\ LifeInv)' /\ [Promised!Write]_Life
  BY TypeStep, DecidedStep, LifeStep, LifeWrite
<1> QED BY <1>1, <1>2, PTL DEF Spec, LifeKept, Promised!Spec

(***************************************************************************)
(* A queued row has its message: what the end of every queued task rests   *)
(* on.                                                                     *)
(***************************************************************************)

\* The message leaves before the row is committed, and is never taken back.
Dispatched ==
  \A t \in Tasks : req[t] = "open" \/ task[t].status # "absent" => job[t].pc # "idle"

\* No step makes a job idle again.
LEMMA StaysSent ==
  ASSUME ActorsOK, [Next]_vars, NEW t \in Tasks, job[t].pc # "idle"
  PROVE  job'[t].pc # "idle"
<1> t \in Jobs
  BY DEF Jobs
<1>1. ASSUME Trigger(t) \/ JobStep(t) \/ JobFails(t)
      PROVE  job'[t].pc # "idle"
  BY <1>1, Moves, GotoEffect DEF Trigger, JobStep
<1>5. ASSUME NEW k \in Tasks, k # t, Trigger(k) \/ JobStep(k) \/ JobFails(k)
      PROVE  job'[t] = job[t]
  BY <1>5 DEF Trigger, JobStep, Load, Answer, EnrichCommit, Conclude, Finish, MarkFailed, Ack,
              JobRefused, JobFails, Goto, ActorsOK
<1>2. ASSUME NEW k \in Translations, Send(k) \/ TranslateStep(k)
      PROVE  job'[t].pc # "idle"
  BY <1>2 DEF Send, TranslateStep, TranslateLoad, TranslateCommit, TranslateFails, Goto, Idle,
              ActorsOK, Job
<1>3. ASSUME NEW k \in Jobs, Crash(k)
      PROVE  job'[t].pc # "idle"
  BY <1>3, GotoEffect DEF Crash
<1>4. ASSUME \/ WriterStep
             \/ \E k \in Tasks : RequestStep(k)
             \/ UNCHANGED vars
      PROVE  job' = job
  BY <1>4, WriterEffect DEF RequestStep, TriggerCommit, TriggerLost, vars
<1> QED BY <1>1, <1>2, <1>3, <1>4, <1>5 DEF Next

\* A request that opens has sent its message in the same step.
LEMMA OpensSent ==
  ASSUME ActorsOK, [Next]_vars, NEW t \in Tasks, req'[t] = "open"
  PROVE  req[t] = "open" \/ job'[t].pc = "sent"
<1> t \in Jobs
  BY DEF Jobs
<1>1. ASSUME NEW k \in Tasks, Trigger(k)
      PROVE  req[t] = "open" \/ job'[t].pc = "sent"
  BY <1>1 DEF Trigger, Goto, Idle, ActorsOK, Job
<1>2. ASSUME NEW k \in Tasks, TriggerCommit(k) \/ TriggerLost(k)
      PROVE  req[t] = "open"
  BY <1>2 DEF TriggerCommit, TriggerLost, ActorsOK
<1>3. ASSUME \/ WriterStep
             \/ \E k \in Tasks : JobStep(k) \/ JobFails(k)
             \/ \E k \in Translations : Send(k) \/ TranslateStep(k)
             \/ \E k \in Jobs : Crash(k)
             \/ UNCHANGED vars
      PROVE  req' = req
  BY <1>3, WriterEffect DEF JobStep, Load, Answer, EnrichCommit, Conclude, Idle, Finish,
              MarkFailed, Ack, JobRefused, JobFails, Send, TranslateStep, TranslateLoad,
              TranslateCommit, TranslateFails, Crash, vars
<1> QED BY <1>1, <1>2, <1>3 DEF Next, RequestStep

LEMMA DispatchedStep == TypeOK /\ Dispatched /\ [Next]_vars => Dispatched'
<1> SUFFICES ASSUME StoreOK, ActorsOK, Dispatched, [Next]_vars, NEW t \in Tasks,
                    req'[t] = "open" \/ task'[t].status # "absent"
             PROVE  job'[t].pc # "idle"
  BY DEF TypeOK, Dispatched
<1>1. CASE req[t] = "open" \/ task[t].status # "absent"
  BY <1>1, StaysSent DEF Dispatched
<1>2. CASE req'[t] = "open" /\ req[t] # "open"
  BY <1>2, OpensSent
<1>3. CASE task'[t].status # "absent" /\ task[t].status = "absent" /\ req[t] # "open"
  <2>1. CASE task'[t] = task[t]
    BY <1>3, <2>1
  <2>2. CASE TriggerCommit(t)
    BY <1>3, <2>2 DEF TriggerCommit
  <2>3. CASE Finish(t) \/ MarkFailed(t)
    BY <1>3, <2>3 DEF Finish, MarkFailed, Marked, FinishTask
  <2> QED BY <1>3, <2>1, <2>2, <2>3, TaskEffect
<1> QED BY <1>1, <1>2, <1>3

\* A row a user sees queued has a job under way, in the queue or with a worker, in
\* every state and after any crashes and redeliveries: except where the job reported
\* before the row was there, or where its failure could not be recorded.
THEOREM QueuedNeverForgotten ==
  Spec => [](\A t \in Tasks : task[t].status = "queued" =>
               job[t].pc \in {"sent", "llm", "write", "finish", "failing", "late",
                              "missed", "unmarked"})
<1> DEFINE Attended ==
      \A t \in Tasks : task[t].status = "queued" =>
        job[t].pc \in {"sent", "llm", "write", "finish", "failing", "late", "missed", "unmarked"}
<1>1. Init => Dispatched /\ Decided /\ LifeInv
  <2>1. Init => Dispatched
    BY DEF Init, Dispatched
  <2>2. Init => Decided
    BY DEF Init, Decided, Idle, Jobs
  <2> QED BY <2>1, <2>2, LifeInit
<1>2. TypeOK /\ Decided /\ LifeInv /\ [Next]_vars => Decided' /\ LifeInv'
  BY DecidedStep, LifeStep
<1>3. TypeOK /\ Dispatched /\ LifeInv => Attended
  <2> SUFFICES ASSUME ActorsOK, Dispatched, LifeInv, NEW t \in Tasks,
                      task[t].status = "queued"
               PROVE  job[t].pc \in {"sent", "llm", "write", "finish", "failing", "late",
                                     "missed", "unmarked"}
    BY DEF TypeOK
  <2>1. job[t].pc # "idle"
    BY DEF Dispatched
  <2>2. job[t].pc \notin {"ack", "over"}
    BY DEF LifeInv, Finals
  <2>3. job[t].pc \in PCs
    BY DEF ActorsOK, Job, Jobs
  <2> QED BY <2>1, <2>2, <2>3 DEF PCs
<1> HIDE DEF Attended
<1>4. Spec => []Attended
  BY <1>1, <1>2, <1>3, DispatchedStep, ProfileTypeCorrect, PTL DEF Spec
<1> QED BY <1>4 DEF Attended

(***************************************************************************)
(* What an enrichment achieves.                                            *)
(***************************************************************************)

\* More fields weigh more.
LEMMA ScoreGrows ==
  ASSUME NEW present, NEW F \in SUBSET Fields, F # {}, F \cap present = {}
  PROVE  Score(present \cup F, Required, Fields) > Score(present, Required, Fields)
<1> DEFINE S == present \cap Fields
           T == (present \cup F) \cap Fields
<1>1. IsFiniteSet(S) /\ IsFiniteSet(F)
  BY ProfileConstants, FS_Subset
<1>2. /\ T \cap Required = (S \cap Required) \cup (F \cap Required)
      /\ T \ Required = (S \ Required) \cup (F \ Required)
      /\ (S \cap Required) \cap (F \cap Required) = {}
      /\ (S \ Required) \cap (F \ Required) = {}
  OBVIOUS
<1>3. F \cap Required # {} \/ F \ Required # {}
  OBVIOUS
<1> HIDE DEF S, T
<1>4. ASSUME NEW A, NEW B, IsFiniteSet(A), IsFiniteSet(B), A \cap B = {}
      PROVE  /\ Cardinality(A) \in Nat /\ Cardinality(B) \in Nat
             /\ Cardinality(A \cup B) = Cardinality(A) + Cardinality(B)
             /\ B # {} => Cardinality(B) > 0
  <2>1. Cardinality(A \cup B) = Cardinality(A) + Cardinality(B) - Cardinality({})
    BY <1>4, FS_Union
  <2>2. Cardinality({}) = 0 /\ (B # {} => Cardinality(B) # 0)
    BY <1>4, FS_EmptySet
  <2>3. Cardinality(A) \in Nat /\ Cardinality(B) \in Nat
    BY <1>4, FS_CardinalityType
  <2> QED BY <2>1, <2>2, <2>3
<1>5. /\ IsFiniteSet(S \cap Required) /\ IsFiniteSet(F \cap Required)
      /\ IsFiniteSet(S \ Required) /\ IsFiniteSet(F \ Required)
  BY <1>1, FS_Subset
<1>6. /\ Cardinality(S \cap Required) \in Nat /\ Cardinality(F \cap Required) \in Nat
      /\ Cardinality(T \cap Required)
           = Cardinality(S \cap Required) + Cardinality(F \cap Required)
      /\ F \cap Required # {} => Cardinality(F \cap Required) > 0
  BY <1>2, <1>4, <1>5
<1>7. /\ Cardinality(S \ Required) \in Nat /\ Cardinality(F \ Required) \in Nat
      /\ Cardinality(T \ Required) = Cardinality(S \ Required) + Cardinality(F \ Required)
      /\ F \ Required # {} => Cardinality(F \ Required) > 0
  BY <1>2, <1>4, <1>5
<1>8. /\ Score(present, Required, Fields)
           = 2 * Cardinality(S \cap Required) + Cardinality(S \ Required)
      /\ Score(present \cup F, Required, Fields)
           = 2 * Cardinality(T \cap Required) + Cardinality(T \ Required)
  BY DEF Score, Weight, S, T
<1> QED BY <1>3, <1>6, <1>7, <1>8

\* A job with an answer has something to write, of fields it saw empty; what it has
\* written it will report.
Filling ==
  \A t \in Tasks :
    /\ job[t].pc = "write" =>
         /\ job[t].fill \in SUBSET Fields /\ job[t].fill # {}
         /\ job[t].fill \cap Present(job[t].saw) = {}
    /\ job[t].pc = "finish" /\ job[t].outcome = "done" => job[t].fill # {}

LEMMA FillingStep == TypeOK /\ Filling /\ [Next]_vars => Filling'
<1> SUFFICES ASSUME ActorsOK, Filling, [Next]_vars, NEW t \in Tasks
             PROVE  /\ job'[t].pc = "write" =>
                         /\ job'[t].fill \in SUBSET Fields /\ job'[t].fill # {}
                         /\ job'[t].fill \cap Present(job'[t].saw) = {}
                    /\ job'[t].pc = "finish" /\ job'[t].outcome = "done" => job'[t].fill # {}
  BY DEF TypeOK, Filling
<1> t \in Jobs
  BY DEF Jobs
<1>1. CASE job'[t] = job[t]
  BY <1>1 DEF Filling
<1>2. CASE job'[t].pc \notin {"write", "finish"}
  BY <1>2
<1>3. ASSUME NEW o, NEW S, o # "done", Conclude(t, o, S)
      PROVE  job'[t].pc = "finish" /\ job'[t].outcome # "done"
  BY <1>3 DEF Conclude, Idle, ActorsOK, Job
<1>4. CASE Load(t)
  <2>1. CASE job' = [job EXCEPT ![t].pc = "llm", ![t].saw = row, ![t].was = score]
    <3>1. job'[t].pc = "llm"
      BY <2>1 DEF ActorsOK, Job
    <3> QED BY <1>2, <3>1
  <2> QED BY <1>3, <1>4, <2>1 DEF Load
<1>5. CASE Answer(t)
  <2>1. ASSUME NEW answer \in SUBSET Fields,
               Filled(Fields \ Present(job[t].saw), answer) # {},
               job' = [job EXCEPT ![t].pc = "write",
                         ![t].fill = Filled(Fields \ Present(job[t].saw), answer)]
        PROVE  /\ job'[t].pc = "write" /\ job'[t].saw = job[t].saw
               /\ job'[t].fill \in SUBSET Fields /\ job'[t].fill # {}
               /\ job'[t].fill \cap Present(job[t].saw) = {}
    BY <2>1 DEF Filled, ActorsOK, Job
  <2>2. CASE Conclude(t, "no_fill", {})
    BY <1>3, <2>2
  <2> QED BY <1>5, <2>1, <2>2 DEF Answer
<1>6. CASE EnrichCommit(t)
  <2>1. job[t].pc = "write" /\ job'[t].pc = "finish" /\ job'[t].fill = job[t].fill
    BY <1>6 DEF EnrichCommit, Applied, Conclude, Idle, ActorsOK, Job
  <2> QED BY <2>1 DEF Filling
<1>7. CASE \/ Trigger(t) \/ RequestStep(t) \/ Finish(t) \/ MarkFailed(t) \/ Ack(t) \/ JobRefused(t)
           \/ JobFails(t)
  <2>1. CASE Trigger(t) \/ RequestStep(t)
    BY <1>1, <1>2, <2>1, GotoEffect DEF Trigger, RequestStep, TriggerCommit, TriggerLost
  <2>2. CASE Finish(t) \/ MarkFailed(t) \/ Ack(t) \/ JobRefused(t) \/ JobFails(t)
    <3>1. job'[t].pc \notin {"write", "finish"}
      BY <2>2, Moves
    <3> QED BY <1>2, <3>1
  <2> QED BY <1>7, <2>1, <2>2
<1>8. ASSUME NEW k \in Tasks, k # t,
             Trigger(k) \/ RequestStep(k) \/ JobStep(k) \/ JobFails(k)
      PROVE  job'[t] = job[t]
  BY <1>8 DEF Trigger, RequestStep, TriggerCommit, TriggerLost, JobStep, Load, Answer,
              EnrichCommit, Finish, MarkFailed, Ack, JobRefused, JobFails, Conclude, Goto,
              ActorsOK
<1>9. ASSUME NEW k \in Translations, Send(k) \/ TranslateStep(k)
      PROVE  job'[t] = job[t]
  <2>1. k # t /\ k \in Jobs
    BY ProfileConstants DEF Jobs
  <2> QED BY <1>9, <2>1 DEF Send, TranslateStep, TranslateLoad, TranslateCommit,
                            TranslateFails, Goto, ActorsOK
<1>10. ASSUME NEW k \in Jobs, Crash(k)
       PROVE  job'[t] = job[t] \/ job'[t].pc = "sent"
  BY <1>10, GotoEffect DEF Crash
<1>11. ASSUME WriterStep \/ UNCHANGED vars
       PROVE  job' = job
  BY <1>11, WriterEffect DEF vars
<1> QED BY <1>1, <1>2, <1>4, <1>5, <1>6, <1>7, <1>8, <1>9, <1>10, <1>11 DEF Next, JobStep

\* An enrichment that commits stores a completeness above that of the profile it
\* has read, unless the stored one it read was that high already, which it leaves as it
\* finds it: a profile is not enriched again and again for nothing.
THEOREM EnrichmentRaisesScore ==
  Spec => [][\A t \in Tasks : EnrichCommit(t) =>
               LET before == Score(Present(job[t].saw), Required, Fields) IN
               score' > before \/ (job[t].was > before /\ score' = score)]_vars
<1> DEFINE Raised == \A t \in Tasks : EnrichCommit(t) =>
                       LET before == Score(Present(job[t].saw), Required, Fields) IN
                       score' > before \/ (job[t].was > before /\ score' = score)
<1>1. Init => Filling
  BY DEF Init, Filling, Idle, Jobs
<1>2. Filling => Raised
  <2> SUFFICES ASSUME Filling, NEW t \in Tasks, EnrichCommit(t)
               PROVE  \/ score' > Score(Present(job[t].saw), Required, Fields)
                      \/ /\ job[t].was > Score(Present(job[t].saw), Required, Fields)
                         /\ score' = score
    OBVIOUS
  <2> DEFINE after == Score(Present(job[t].saw) \cup job[t].fill, Required, Fields)
  <2>1. /\ job[t].fill \in SUBSET Fields /\ job[t].fill # {}
        /\ job[t].fill \cap Present(job[t].saw) = {}
    BY DEF EnrichCommit, Filling
  <2>2. after > Score(Present(job[t].saw), Required, Fields)
    BY <2>1, ScoreGrows
  <2>3. score' = IF after = job[t].was THEN score ELSE after
    BY DEF EnrichCommit, Rescored
  <2> QED BY <2>2, <2>3
<1> HIDE DEF Raised
<1>3. Spec => [][Raised]_vars
  BY <1>1, <1>2, FillingStep, ProfileTypeCorrect, PTL DEF Spec
<1> QED BY <1>3 DEF Raised

\* A task row says "done" only of a job that has filled something.
THEOREM DoneTasksFilled ==
  Spec => [](\A t \in Tasks : task[t].status = "done" => task[t].filled # {})
<1> DEFINE Named == \A t \in Tasks : task[t].status = "done" => task[t].filled # {}
<1>1. Init => Filling /\ Named
  BY DEF Init, Filling, Idle, Jobs
<1>2. TypeOK /\ Filling /\ Named /\ [Next]_vars => Named'
  <2> SUFFICES ASSUME StoreOK, Filling, Named, [Next]_vars, NEW t \in Tasks,
                      task'[t].status = "done"
               PROVE  task'[t].filled # {}
    BY DEF TypeOK
  <2>1. CASE task'[t] = task[t]
    BY <2>1
  <2>2. CASE Finish(t) /\ task'[t] = [status |-> job[t].outcome, filled |-> job[t].fill]
    BY <2>2 DEF Finish, Filling
  <2> QED BY <2>1, <2>2, TaskEffect
<1> HIDE DEF Named
<1>3. Spec => []Named
  BY <1>1, <1>2, FillingStep, ProfileTypeCorrect, PTL DEF Spec
<1> QED BY <1>3 DEF Named

(***************************************************************************)
(* A job goes round only as often as its message is delivered again.       *)
(***************************************************************************)

\* How far a job is on its way from the broker to its acknowledgement.
Way(pc) ==
  CASE pc = "idle" -> 0 [] pc = "sent" -> 1 [] pc = "llm" -> 2 [] pc = "write" -> 3
    [] pc = "finish" -> 4 [] pc = "failing" -> 5 [] pc \in {"ack", "late"} -> 6 [] OTHER -> 7

LEMMA Ways ==
  /\ Way("idle") = 0 /\ Way("sent") = 1 /\ Way("llm") = 2 /\ Way("write") = 3
  /\ Way("finish") = 4 /\ Way("failing") = 5 /\ Way("ack") = 6 /\ Way("late") = 6
  /\ Way("unmarked") = 7 /\ Way("missed") = 7 /\ Way("over") = 7
BY DEF Way

LEMMA WayStep ==
  ASSUME ActorsOK, NEW t \in Tasks, JobStep(t) \/ JobFails(t)
  PROVE  Way(job[t].pc) < Way(job'[t].pc)
<1>1. CASE Load(t) \/ Answer(t) \/ EnrichCommit(t) \/ JobRefused(t) \/ JobFails(t)
  BY <1>1, Moves, Ways
<1>2. CASE Finish(t) \/ MarkFailed(t) \/ Ack(t)
  BY <1>2, Moves, Ways
<1> QED BY <1>1, <1>2 DEF JobStep

\* What may move an enrichment job.
LEMMA JobMoves ==
  ASSUME ActorsOK, [Next]_vars, NEW t \in Tasks, job'[t] # job[t]
  PROVE  \/ JobStep(t) \/ JobFails(t)
         \/ Trigger(t) /\ job'[t].pc = "sent"
         \/ Crash(t)
<1> t \in Jobs
  BY DEF Jobs
<1>1. ASSUME NEW k \in Tasks, k # t, Trigger(k) \/ JobStep(k) \/ JobFails(k)
      PROVE  FALSE
  BY <1>1 DEF Trigger, JobStep, Load, Answer, EnrichCommit, Conclude, Finish, MarkFailed, Ack,
              JobRefused, JobFails, Goto, ActorsOK
<1>2. ASSUME NEW k \in Translations, Send(k) \/ TranslateStep(k)
      PROVE  FALSE
  <2>1. k # t /\ k \in Jobs
    BY ProfileConstants DEF Jobs
  <2> QED BY <1>2, <2>1 DEF Send, TranslateStep, TranslateLoad, TranslateCommit,
                            TranslateFails, Goto, ActorsOK
<1>3. ASSUME NEW k \in Jobs, k # t, Crash(k)
      PROVE  FALSE
  BY <1>3, GotoEffect DEF Crash
<1>4. ASSUME Trigger(t)
      PROVE  job'[t].pc = "sent"
  BY <1>4 DEF Trigger, Goto, Idle, ActorsOK, Job
<1>5. ASSUME \/ WriterStep
             \/ \E k \in Tasks : RequestStep(k)
             \/ UNCHANGED vars
      PROVE  FALSE
  BY <1>5, WriterEffect DEF RequestStep, TriggerCommit, TriggerLost, vars
<1> QED BY <1>1, <1>2, <1>3, <1>4, <1>5 DEF Next

\* A request that has not been made has sent nothing.
Unsent == \A t \in Tasks : req[t] = "none" => job[t].pc = "idle"

LEMMA UnsentStep == TypeOK /\ Unsent /\ [Next]_vars => Unsent'
<1> SUFFICES ASSUME ActorsOK, Unsent, [Next]_vars, NEW t \in Tasks, req'[t] = "none"
             PROVE  job'[t].pc = "idle"
  BY DEF TypeOK, Unsent
<1>1. ASSUME NEW k \in Tasks, Trigger(k) \/ RequestStep(k)
      PROVE  req[t] = "none" /\ k # t
  BY <1>1 DEF Trigger, RequestStep, TriggerCommit, TriggerLost, ActorsOK
<1>2. ASSUME \/ WriterStep
             \/ \E k \in Tasks : JobStep(k) \/ JobFails(k)
             \/ \E k \in Translations : Send(k) \/ TranslateStep(k)
             \/ \E k \in Jobs : Crash(k)
             \/ UNCHANGED vars
      PROVE  req' = req
  BY <1>2, WriterEffect DEF JobStep, Load, Answer, EnrichCommit, Conclude, Idle, Finish,
              MarkFailed, Ack, JobRefused, JobFails, Send, TranslateStep, TranslateLoad,
              TranslateCommit, TranslateFails, Crash, vars
<1>3. req[t] = "none" /\ ~ Trigger(t)
  <2>1. ~ Trigger(t)
    BY <1>1
  <2>2. req[t] = "none"
    BY <1>1, <1>2 DEF Next
  <2> QED BY <2>1, <2>2
<1>4. job[t].pc = "idle"
  BY <1>3 DEF Unsent
<1>5. ~ JobStep(t) /\ ~ JobFails(t) /\ ~ Crash(t)
  BY <1>4 DEF JobStep, Load, Answer, EnrichCommit, Finish, MarkFailed, Ack, JobRefused,
              JobFails, Crash
<1> QED BY <1>3, <1>4, <1>5, JobMoves

\* Every step of an enrichment job brings it nearer to its acknowledgement, and
\* nothing but the death of its worker sets it back, each time at the price of a
\* fault.  With QueuedNeverForgotten, this is why queued tasks end.
THEOREM OnlyRedeliveryRepeats ==
  Spec => [][\A t \in Tasks :
               /\ JobStep(t) => Way(job[t].pc) < Way(job'[t].pc)
               /\ \/ Way(job[t].pc) <= Way(job'[t].pc)
                  \/ Crash(t) /\ faults' = faults + 1]_vars
<1> DEFINE Onward == \A t \in Tasks :
             /\ JobStep(t) => Way(job[t].pc) < Way(job'[t].pc)
             /\ \/ Way(job[t].pc) <= Way(job'[t].pc)
                \/ Crash(t) /\ faults' = faults + 1
<1>1. ASSUME ActorsOK, Unsent, [Next]_vars, NEW t \in Tasks
      PROVE  \/ Way(job[t].pc) <= Way(job'[t].pc)
             \/ Crash(t) /\ faults' = faults + 1
  <2>1. \A p : Way(p) \in 0..7
    BY DEF Way
  <2>2. CASE job'[t] = job[t]
    BY <2>1, <2>2
  <2>3. CASE JobStep(t) \/ JobFails(t)
    BY <1>1, <2>1, <2>3, WayStep
  <2>4. CASE Trigger(t) /\ job'[t].pc = "sent"
    <3>1. job[t].pc = "idle"
      BY <1>1, <2>4 DEF Trigger, Unsent
    <3> QED BY <2>4, <3>1, Ways
  <2>5. CASE Crash(t)
    BY <2>5 DEF Crash, Fault
  <2> QED BY <1>1, <2>2, <2>3, <2>4, <2>5, JobMoves
<1>2. TypeOK /\ Unsent /\ [Next]_vars => Onward
  BY <1>1, WayStep DEF TypeOK
<1>3. Init => Unsent
  BY DEF Init, Unsent, Idle, Jobs
<1>4. [][Onward]_vars <=>
        [][\A t \in Tasks :
             /\ JobStep(t) => Way(job[t].pc) < Way(job'[t].pc)
             /\ \/ Way(job[t].pc) <= Way(job'[t].pc)
                \/ Crash(t) /\ faults' = faults + 1]_vars
  OBVIOUS
<1> HIDE DEF Onward
<1> QED BY <1>2, <1>3, <1>4, UnsentStep, ProfileTypeCorrect, PTL DEF Spec
=============================================================================
