-------------------------- MODULE OdsIngest_proofs --------------------------
(***************************************************************************)
(* Proofs about OdsIngest, for every value of its constants: the types of  *)
(* its variables, the exclusion of batches of one profile type within a    *)
(* process, and that the watermark never passes an unaccounted row.        *)
(***************************************************************************)
EXTENDS OdsIngest, TLAPS

(***************************************************************************)
(* Types                                                                   *)
(***************************************************************************)

\* While a run is at one of its tables, Table(r) is a table.
LEMMA TableType ==
  ASSUME NEW r \in Runs, RunsOK, scan[r].tab <= Len(TableSeq)
  PROVE  Table(r) \in Tables
BY ConstantsOK DEF Table, RunsOK, Scans

\* Entering a table reads a watermark of the right type.
LEMMA AtTableType ==
  ASSUME NEW r \in Runs, NEW i \in 1..(Len(TableSeq) + 1), NEW marks \in Marks,
         RunsOK
  PROVE  AtTable(r, i, marks) \in Scans
<1>1. scan[r].total \in Nat
  BY DEF RunsOK, Scans
<1>2. i <= Len(TableSeq) => TableSeq[i] \in Tables
  BY ConstantsOK
<1>3. (IF i <= Len(TableSeq) THEN marks[TableSeq[i]] ELSE 0) \in 0..MaxKey
  BY <1>2, ConstantsOK DEF Marks
<1> QED
  BY <1>1, <1>3 DEF AtTable, Scans

\* A step of one run to another program point.
LEMMA GotoType ==
  ASSUME RunsOK, NEW r \in Runs, NEW to \in PCs, Goto(r, to)
  PROVE  pc' \in [Runs -> PCs]
BY DEF Goto, RunsOK

\* Runs that lose their memory keep the types.
LEMMA ForgetType ==
  ASSUME RunsOK, NEW R, Forget(R)
  PROVE  /\ scan' \in [Runs -> Scans] /\ ent' \in [Runs -> Ents]
         /\ tx' \in [Runs -> Txs] /\ src' \in [Runs -> Srcs]
<1>1. [tab |-> 1, last |-> 0, batch |-> {}, todo |-> {}, total |-> 0] \in Scans
  BY ConstantsOK DEF Scans
<1>2. NoEnt \in Ents /\ EmptyTx \in Txs
  BY DEF NoEnt, EmptyTx, Ents, Txs
<1>3. [snap |-> [t \in Tables |-> 0], dirty |-> FALSE] \in Srcs
  BY ConstantsOK DEF Srcs, Marks
<1> QED
  BY <1>1, <1>2, <1>3 DEF Forget, RunsOK

\* The watermark a batch sets on the source row has the type of a watermark.
LEMMA MarkedType ==
  ASSUME RunsOK, NEW r \in Runs
  PROVE  Marked(r) \in Srcs
BY DEF Marked, RunsOK, Srcs, Marks, Scans

\* The last commit of a run keeps the types of the committed state.
LEMMA CloseType ==
  ASSUME StoreOK, RunsOK, NEW r \in Runs, NEW status \in Statuses,
         NEW source \in Srcs, Close(r, status, source)
  PROVE  StoreOK'
<1>1. wm' \in Marks
  BY DEF Close, StoreOK, Srcs
<1>2. recdb' \in [Runs -> Nat]
  BY DEF Close, StoreOK, RunsOK, Scans
<1> QED
  BY <1>1, <1>2 DEF Close, StoreOK

\* So does the commit of a task row along with a batch.
LEMMA TaskRowType ==
  ASSUME StoreOK, RunsOK, NEW r \in Runs, CommitTaskRow(r)
  PROVE  taskdb' \in [Runs -> Statuses] /\ recdb' \in [Runs -> Nat]
BY DEF CommitTaskRow, StoreOK, RunsOK, Statuses, Scans

\* And a run that breaks off.
LEMMA BreakType ==
  ASSUME StoreOK, RunsOK, NEW r \in Runs, NEW source \in Srcs, Break(r, source)
  PROVE  StoreOK' /\ RunsOK'
<1>1. StoreOK'
  <2>1. CASE Celery(r)
    BY <2>1 DEF Break, StoreOK, store
  <2>2. CASE ~Celery(r)
    BY <2>2, CloseType DEF Break, Statuses
  <2> QED
    BY <2>1, <2>2
<1>2. pc' \in [Runs -> PCs]
  BY GotoType DEF Break, PCs, Finished
<1> QED
  BY <1>1, <1>2, ForgetType DEF Break, RunsOK

\* Freeing a profile type.
LEMMA ReleaseType ==
  ASSUME EnvOK, NEW r \in Runs, Release(r)
  PROVE  active' \in [Procs -> SUBSET Types]
BY DEF Release, EnvOK

\* The program points at which a run has a batch, and is at one of its tables.
Batching == {"lock"} \cup Inside
Placed == \A r \in Runs : pc[r] \in Batching => scan[r].tab <= Len(TableSeq)

LEMMA TypeInit == Init => TypeOK
<1> SUFFICES ASSUME Init PROVE TypeOK
  OBVIOUS
<1> USE ConstantsOK DEF Init
<1>1. Len(TableSeq) \in Nat
  OBVIOUS
<1>2. pc \in [Runs -> PCs] /\ taskdb \in [Runs -> Statuses]
  BY DEF PCs, Statuses
<1>3. scan \in [Runs -> Scans]
  BY <1>1 DEF Scans
<1>4. ent \in [Runs -> Ents]
  BY DEF NoEnt, Ents
<1>5. tx \in [Runs -> Txs]
  BY DEF EmptyTx, Txs
<1>6. wm \in Marks /\ ods \in Marks /\ src \in [Runs -> Srcs]
  BY DEF Srcs, Marks
<1>7. /\ active \in [Procs -> SUBSET Types] /\ recdb \in [Runs -> Nat]
      /\ crashes \in 0..MaxCrashes
  OBVIOUS
<1>8. done \subseteq Rows /\ errs \subseteq Rows /\ evid \subseteq Rows /\ hooks \subseteq Runs
  OBVIOUS
<1> HIDE DEF Init
<1> QED
  BY <1>2, <1>3, <1>4, <1>5, <1>6, <1>7, <1>8 DEF TypeOK, StoreOK, EnvOK, RunsOK

\* Every step of one run keeps the types.
LEMMA TypeRun == 
  ASSUME TypeOK, Placed, NEW r \in Runs, Start(r) \/ Step(r)
  PROVE  TypeOK'
<1> USE DEF TypeOK
<1>0. Len(TableSeq) \in Nat
  BY ConstantsOK
<1>scan. scan \in [Runs -> Scans] /\ scan[r] \in Scans
  BY DEF RunsOK
<1>1. ASSUME Start(r) PROVE TypeOK'
  <2>1. wm \in Marks /\ 1 \in 1..(Len(TableSeq) + 1)
    BY <1>0 DEF StoreOK
  <2>2. AtTable(r, 1, wm) \in Scans
    BY <2>1, AtTableType
  <2>3. src' \in [Runs -> Srcs]
    BY <1>1, <2>1 DEF Start, RunsOK, Srcs
  <2>4. pc' \in [Runs -> PCs]
    BY <1>1, GotoType DEF Start, PCs
  <2> QED
    BY <1>1, <2>2, <2>3, <2>4 DEF Start, StoreOK, EnvOK, RunsOK, store, env
<1>2. ASSUME NextTable(r) PROVE TypeOK'
  <2>1. scan[r].tab + 1 \in 1..(Len(TableSeq) + 1) /\ src[r].snap \in Marks
    BY <1>2, <1>0 DEF NextTable, RunsOK, Scans, Srcs
  <2>2. AtTable(r, scan[r].tab + 1, src[r].snap) \in Scans
    BY <2>1, AtTableType
  <2> QED
    BY <1>2, <2>2 DEF NextTable, StoreOK, EnvOK, RunsOK, store, env
<1>3. ASSUME TablesDone(r) PROVE TypeOK'
  <2>1. pc' \in [Runs -> PCs]
    BY <1>3, GotoType DEF TablesDone, PCs
  <2> QED
    BY <1>3, <2>1 DEF TablesDone, StoreOK, EnvOK, RunsOK, store, env
<1>4. ASSUME ExtractBatch(r) PROVE TypeOK'
  <2>1. Table(r) \in Tables
    BY <1>4, TableType DEF ExtractBatch
  <2>2. UpTo(r) \in 0..MaxKey /\ scan[r].last \in Nat
    BY <2>1, <1>scan, ConstantsOK DEF UpTo, EnvOK, Scans, Marks
  <2>3. (scan[r].last + 1)..UpTo(r) \subseteq Keys
    BY <2>2, ConstantsOK DEF Keys
  <2>4. scan' \in [Runs -> Scans]
    <3>1. scan' = [scan EXCEPT ![r].batch = (scan[r].last + 1)..UpTo(r), ![r].last = UpTo(r)]
      BY <1>4 DEF ExtractBatch
    <3> QED
      BY <3>1, <1>scan, <2>2, <2>3 DEF Scans
  <2>5. pc' \in [Runs -> PCs]
    BY <1>4, GotoType DEF ExtractBatch, PCs
  <2> QED
    BY <1>4, <2>4, <2>5 DEF ExtractBatch, StoreOK, EnvOK, RunsOK, store, env
<1>5. ASSUME ExtractFails(r) PROVE TypeOK'
  <2>1. src[r] \in Srcs /\ "failed" \in Statuses
    BY DEF RunsOK, Statuses
  <2>2. StoreOK'
    BY <1>5, <2>1, CloseType DEF ExtractFails
  <2>3. pc' \in [Runs -> PCs]
    BY <1>5, GotoType DEF ExtractFails, PCs, Finished
  <2> QED
    BY <1>5, <2>2, <2>3, ForgetType DEF ExtractFails, EnvOK, RunsOK, env
<1>6. ASSUME Acquire(r) PROVE TypeOK'
  <2>1. pc' \in [Runs -> PCs]
    BY <1>6, GotoType DEF Acquire, PCs, Inside
  <2>2. Table(r) \in Tables
    BY <1>6, TableType DEF Acquire, Placed, Batching
  <2>3. active' \in [Procs -> SUBSET Types]
    BY <1>6, <2>2, ConstantsOK DEF Acquire, EnvOK
  <2> QED
    BY <1>6, <2>1, <2>3 DEF Acquire, StoreOK, EnvOK, RunsOK, store
<1>7. ASSUME Resolve(r) PROVE TypeOK'
  <2>1. pc' \in [Runs -> PCs]
    BY <1>7, GotoType DEF Resolve, PCs, Inside
  <2>2. scan' \in [Runs -> Scans]
    <3>1. scan' = [scan EXCEPT ![r].todo = scan[r].batch]
      BY <1>7 DEF Resolve
    <3> QED
      BY <3>1, <1>scan DEF Scans
  <2> QED
    BY <1>7, <2>1, <2>2 DEF Resolve, StoreOK, EnvOK, RunsOK, store, env
<1>8. ASSUME ResolveFails(r) PROVE TypeOK'
  <2>1. pc' \in [Runs -> PCs]
    BY <1>8, GotoType DEF ResolveFails, PCs
  <2>2. taskdb' \in [Runs -> Statuses] /\ recdb' \in [Runs -> Nat]
    BY <1>8, TaskRowType DEF ResolveFails
  <2>3. active' \in [Procs -> SUBSET Types]
    BY <1>8, ReleaseType DEF ResolveFails
  <2>4. scan' \in [Runs -> Scans]
    <3>1. scan' = [scan EXCEPT ![r].batch = {}]
      BY <1>8 DEF ResolveFails
    <3> QED
      BY <3>1, <1>scan DEF Scans
  <2>5. errs' \subseteq Rows
    <3>1. Table(r) \in Tables /\ scan[r].batch \subseteq Keys
      BY <1>8, <1>scan, TableType DEF ResolveFails, Placed, Batching, Inside, Scans
    <3>2. errs' = errs \cup Rowset(Table(r), scan[r].batch) /\ errs \subseteq Rows
      BY <1>8 DEF ResolveFails, StoreOK
    <3> QED
      BY <3>1, <3>2 DEF Rowset, Rows
  <2> QED
    BY <1>8, <2>1, <2>2, <2>3, <2>4, <2>5 DEF ResolveFails, StoreOK, EnvOK, RunsOK
<1>9. ASSUME Select(r) PROVE TypeOK'
  <2> DEFINE t == Table(r)
  <2>1. PICK k \in First(scan[r].todo), scored \in BOOLEAN :
          /\ scan' = [scan EXCEPT ![r].todo = @ \ Group(t, k, scan[r].todo)]
          /\ tx' = [tx EXCEPT ![r].errs =
                     IF EntityOf[<<t, k>>] = NoId \/ ~scored
                     THEN @ \cup Rowset(t, Group(t, k, scan[r].todo)) ELSE @]
          /\ \/ UNCHANGED <<pc, ent, rel>>
             \/ /\ ent' = [ent EXCEPT ![r] =
                     [group |-> Group(t, k, scan[r].todo),
                      seen |-> Ent(t, k) \in Written(done \cup tx[r].done)]]
                /\ Goto(r, "flush")
    BY <1>9 DEF Select
  <2>2. t \in Tables /\ scan[r].todo \subseteq Keys
    BY <1>9, <1>scan, TableType DEF Select, Placed, Batching, Inside, Scans
  <2>3. k \in scan[r].todo
    BY DEF First
  <2>4. Group(t, k, scan[r].todo) \subseteq scan[r].todo
    BY <2>3 DEF Group
  <2>5. Rowset(t, Group(t, k, scan[r].todo)) \subseteq Rows
    BY <2>2, <2>4 DEF Rowset, Rows
  <2>6. scan' \in [Runs -> Scans]
    BY <2>1, <1>scan DEF Scans
  <2>7. tx' \in [Runs -> Txs]
    <3>1. tx \in [Runs -> Txs]
      BY DEF RunsOK
    <3> QED
      BY <2>1, <2>5, <3>1 DEF Txs
  <2>8. ent' \in [Runs -> Ents] /\ pc' \in [Runs -> PCs]
    <3>1. CASE UNCHANGED <<pc, ent, rel>>
      BY <3>1 DEF RunsOK
    <3>2. CASE /\ ent' = [ent EXCEPT ![r] =
                     [group |-> Group(t, k, scan[r].todo),
                      seen |-> Ent(t, k) \in Written(done \cup tx[r].done)]]
               /\ Goto(r, "flush")
      <4>1. pc' \in [Runs -> PCs]
        BY <3>2, GotoType DEF PCs, Inside
      <4>2. Group(t, k, scan[r].todo) \in SUBSET Keys
        BY <2>2, <2>4
      <4>3. ASSUME NEW found \in BOOLEAN
            PROVE  [group |-> Group(t, k, scan[r].todo), seen |-> found] \in Ents
        BY <4>2 DEF Ents
      <4>4. (Ent(t, k) \in Written(done \cup tx[r].done)) \in BOOLEAN
        OBVIOUS
      <4>5. [group |-> Group(t, k, scan[r].todo),
             seen |-> Ent(t, k) \in Written(done \cup tx[r].done)] \in Ents
        BY <4>3, <4>4
      <4> QED
        BY <3>2, <4>1, <4>5 DEF RunsOK
    <3> QED
      BY <2>1, <3>1, <3>2
  <2> QED
    BY <1>9, <2>6, <2>7, <2>8 DEF Select, StoreOK, EnvOK, RunsOK, store, env
<1>10. ASSUME WriteOk(r) PROVE TypeOK'
  <2>1. pc' \in [Runs -> PCs]
    BY <1>10, GotoType DEF WriteOk, PCs, Inside
  <2>2. ent' \in [Runs -> Ents]
    BY <1>10 DEF WriteOk, RunsOK, Ents, NoEnt
  <2>3. Rowset(Table(r), ent[r].group) \subseteq Rows
    <3>1. Table(r) \in Tables
      BY <1>10, TableType DEF WriteOk, Placed, Batching, Inside
    <3> QED
      BY <3>1 DEF RunsOK, Ents, Rowset, Rows
  <2>4. tx' \in [Runs -> Txs]
    <3>1. tx' = [tx EXCEPT ![r].done = @ \cup Rowset(Table(r), ent[r].group), ![r].n = @ + 1]
      BY <1>10 DEF WriteOk
    <3>2. tx \in [Runs -> Txs]
      BY DEF RunsOK
    <3> QED
      BY <3>1, <3>2, <2>3 DEF Txs
  <2> QED
    BY <1>10, <2>1, <2>2, <2>4 DEF WriteOk, StoreOK, EnvOK, RunsOK, store, env
<1>11. ASSUME WriteFails(r) PROVE TypeOK'
  <2>1. pc' \in [Runs -> PCs]
    BY <1>11, GotoType DEF WriteFails, PCs, Inside
  <2>2. ent' \in [Runs -> Ents]
    BY <1>11 DEF WriteFails, RunsOK, Ents, NoEnt
  <2>3. Rowset(Table(r), ent[r].group) \subseteq Rows
    <3>1. Table(r) \in Tables
      BY <1>11, TableType DEF WriteFails, Placed, Batching, Inside
    <3> QED
      BY <3>1 DEF RunsOK, Ents, Rowset, Rows
  <2>4. tx' \in [Runs -> Txs]
    <3>1. tx' = [tx EXCEPT ![r].errs = @ \cup Rowset(Table(r), ent[r].group)]
      BY <1>11 DEF WriteFails
    <3>2. tx \in [Runs -> Txs]
      BY DEF RunsOK
    <3> QED
      BY <3>1, <3>2, <2>3 DEF Txs
  <2> QED
    BY <1>11, <2>1, <2>2, <2>4 DEF WriteFails, StoreOK, EnvOK, RunsOK, store, env
<1>12. ASSUME FlushBreaks(r) PROVE TypeOK'
  <2>1. StoreOK' /\ RunsOK'
    BY <1>12, BreakType DEF FlushBreaks, RunsOK
  <2>2. active' \in [Procs -> SUBSET Types]
    BY <1>12, ReleaseType DEF FlushBreaks
  <2> QED
    BY <1>12, <2>1, <2>2 DEF FlushBreaks, EnvOK
<1>13. ASSUME EntitiesDone(r) PROVE TypeOK'
  <2>1. pc' \in [Runs -> PCs]
    BY <1>13, GotoType DEF EntitiesDone, PCs, Inside
  <2> QED
    BY <1>13, <2>1 DEF EntitiesDone, StoreOK, EnvOK, RunsOK, store, env
<1>14. ASSUME TechRow(r) PROVE TypeOK'
  <2>1. PICK k \in First(scan[r].todo) :
          /\ tx' = [tx EXCEPT ![r].sp = @ \cup {<<Table(r), k>>}]
          /\ scan' = [scan EXCEPT ![r].todo = @ \ {k}]
    BY <1>14 DEF TechRow
  <2>2. <<Table(r), k>> \in Rows
    <3>1. Table(r) \in Tables /\ scan[r].todo \subseteq Keys
      BY <1>14, <1>scan, TableType DEF TechRow, Placed, Batching, Inside, Scans
    <3> QED
      BY <3>1 DEF First, Rows
  <2>3. scan' \in [Runs -> Scans]
    BY <2>1, <1>scan DEF Scans
  <2>4. tx' \in [Runs -> Txs]
    <3>1. tx \in [Runs -> Txs]
      BY DEF RunsOK
    <3> QED
      BY <2>1, <2>2, <3>1 DEF Txs
  <2> QED
    BY <1>14, <2>3, <2>4 DEF TechRow, StoreOK, EnvOK, RunsOK, store, env
<1>15. ASSUME TechDone(r) PROVE TypeOK'
  <2>1. pc' \in [Runs -> PCs]
    BY <1>15, GotoType DEF TechDone, PCs, Inside
  <2>2. tx' \in [Runs -> Txs]
    <3>1. tx' = [tx EXCEPT ![r].evid = tx[r].sp, ![r].sp = {}]
      BY <1>15 DEF TechDone
    <3>2. tx \in [Runs -> Txs]
      BY DEF RunsOK
    <3> QED
      BY <3>1, <3>2 DEF Txs
  <2> QED
    BY <1>15, <2>1, <2>2 DEF TechDone, StoreOK, EnvOK, RunsOK, store, env
<1>16. ASSUME TechFails(r) PROVE TypeOK'
  <2>1. pc' \in [Runs -> PCs]
    BY <1>16, GotoType DEF TechFails, PCs, Inside
  <2>2. tx' \in [Runs -> Txs]
    <3>1. tx' = [tx EXCEPT ![r].sp = {}]
      BY <1>16 DEF TechFails
    <3>2. tx \in [Runs -> Txs]
      BY DEF RunsOK
    <3> QED
      BY <3>1, <3>2 DEF Txs
  <2>3. scan' \in [Runs -> Scans]
    <3>1. scan' = [scan EXCEPT ![r].todo = {}]
      BY <1>16 DEF TechFails
    <3> QED
      BY <3>1, <1>scan DEF Scans
  <2> QED
    BY <1>16, <2>1, <2>2, <2>3 DEF TechFails, StoreOK, EnvOK, RunsOK, store, env
<1>17. ASSUME Relate(r) PROVE TypeOK'
  <2>1. pc' \in [Runs -> PCs]
    BY <1>17, GotoType DEF Relate, PCs, Inside
  <2> QED
    BY <1>17, <2>1 DEF Relate, StoreOK, EnvOK, RunsOK, store, env
<1>18. ASSUME Commit(r) PROVE TypeOK'
  <2>1. pc' \in [Runs -> PCs]
    BY <1>18, GotoType DEF Commit, PCs
  <2>2. active' \in [Procs -> SUBSET Types]
    BY <1>18, ReleaseType DEF Commit
  <2>3. taskdb' \in [Runs -> Statuses] /\ recdb' \in [Runs -> Nat]
    BY <1>18, TaskRowType DEF Commit
  <2>4. Marked(r).snap \in Marks
    BY MarkedType DEF Srcs
  <2>5. wm' \in Marks /\ src' \in [Runs -> Srcs]
    BY <1>18, <2>4 DEF Commit, StoreOK, RunsOK, Celery, Srcs
  <2>6. tx[r] \in Txs /\ EmptyTx \in Txs
    BY DEF RunsOK, EmptyTx, Txs
  <2>7. tx' \in [Runs -> Txs]
    BY <1>18, <2>6 DEF Commit, RunsOK
  <2>8. scan' \in [Runs -> Scans]
    <3> DEFINE total == scan[r].total + tx[r].n
    <3>1. scan' = [scan EXCEPT ![r].batch = {}, ![r].total = total]
      BY <1>18 DEF Commit
    <3>2. total \in Nat
      BY <1>scan, <2>6 DEF Scans, Txs
    <3> HIDE DEF total
    <3> QED
      BY <3>1, <3>2, <1>scan DEF Scans
  <2>9. done' \subseteq Rows /\ errs' \subseteq Rows /\ evid' \subseteq Rows
    BY <1>18, <2>6 DEF Commit, StoreOK, Txs
  <2> QED
    BY <1>18, <2>1, <2>2, <2>3, <2>5, <2>7, <2>8, <2>9
    DEF Commit, StoreOK, EnvOK, RunsOK
<1>19. ASSUME CommitFails(r) PROVE TypeOK'
  <2>1. StoreOK' /\ RunsOK'
    BY <1>19, BreakType, MarkedType DEF CommitFails
  <2>2. active' \in [Procs -> SUBSET Types]
    BY <1>19, ReleaseType DEF CommitFails
  <2> QED
    BY <1>19, <2>1, <2>2 DEF CommitFails, EnvOK
<1>20. ASSUME Finish(r) PROVE TypeOK'
  <2>1. src[r] \in Srcs /\ "completed" \in Statuses
    BY DEF RunsOK, Statuses
  <2>2. StoreOK' /\ RunsOK'
    <3>1. CASE Break(r, src[r])
      BY <3>1, <2>1, BreakType
    <3>2. CASE Close(r, "completed", src[r]) /\ Goto(r, "ended") /\ Forget({r})
      <4>1. StoreOK'
        BY <3>2, <2>1, CloseType
      <4>2. pc' \in [Runs -> PCs]
        BY <3>2, GotoType DEF PCs, Finished
      <4>3. /\ scan' \in [Runs -> Scans] /\ ent' \in [Runs -> Ents]
            /\ tx' \in [Runs -> Txs] /\ src' \in [Runs -> Srcs]
        BY <3>2, ForgetType
      <4> QED
        BY <4>1, <4>2, <4>3 DEF RunsOK
    <3> QED
      BY <1>20, <3>1, <3>2 DEF Finish
  <2>3. hooks' \subseteq Runs
    BY <1>20 DEF Finish, EnvOK
  <2> QED
    BY <1>20, <2>2, <2>3 DEF Finish, EnvOK
<1> QED
  BY <1>1, <1>2, <1>3, <1>4, <1>5, <1>6, <1>7, <1>8, <1>9, <1>10, <1>11, <1>12,
     <1>13, <1>14, <1>15, <1>16, <1>17, <1>18, <1>19, <1>20 DEF Step

\* The environment's steps keep the types.
LEMMA TypeEnv ==
  ASSUME TypeOK, \/ \E p \in Procs : Crash(p)
                 \/ \E t \in Tables : OdsAppend(t)
                 \/ UNCHANGED vars
  PROVE  TypeOK'
<1> USE DEF TypeOK
<1>1. ASSUME NEW p \in Procs, Crash(p) PROVE TypeOK'
  <2>1. pc' \in [Runs -> PCs]
    BY <1>1 DEF Crash, RunsOK, PCs, Finished
  <2>2. active' \in [Procs -> SUBSET Types] /\ crashes' \in 0..MaxCrashes
    BY <1>1, ConstantsOK DEF Crash, EnvOK
  <2>3. PICK lost : Forget(lost)
    BY <1>1 DEF Crash
  <2> QED
    BY <1>1, <2>1, <2>2, <2>3, ForgetType DEF Crash, StoreOK, EnvOK, RunsOK, store
<1>2. ASSUME NEW t \in Tables, OdsAppend(t) PROVE TypeOK'
  <2>1. ods' \in Marks
    BY <1>2, ConstantsOK DEF OdsAppend, EnvOK, Marks
  <2> QED
    BY <1>2, <2>1 DEF OdsAppend, StoreOK, EnvOK, RunsOK, store
<1>3. ASSUME UNCHANGED vars PROVE TypeOK'
  BY <1>3 DEF vars, store, env, StoreOK, EnvOK, RunsOK
<1> QED
  BY <1>1, <1>2, <1>3

(***************************************************************************)
(* What a step leaves alone                                                *)
(***************************************************************************)

Kept(q) ==
  /\ pc'[q] = pc[q] /\ scan'[q] = scan[q] /\ ent'[q] = ent[q]
  /\ tx'[q] = tx[q] /\ src'[q] = src[q]

\* A run that forgets leaves the memory of the others alone.
LEMMA ForgetOthers ==
  ASSUME NEW r \in Runs, NEW q \in Runs, q # r, Forget({r})
  PROVE  scan'[q] = scan[q] /\ ent'[q] = ent[q] /\ tx'[q] = tx[q] /\ src'[q] = src[q]
BY DEF Forget

LEMMA GotoOthers ==
  ASSUME RunsOK, NEW r \in Runs, NEW q \in Runs, q # r, NEW to, Goto(r, to)
  PROVE  pc'[q] = pc[q]
BY DEF Goto, RunsOK

\* A step of one run does not touch another run's memory.
LEMMA OthersKept ==
  ASSUME RunsOK, NEW r \in Runs, NEW q \in Runs, q # r, Start(r) \/ Step(r)
  PROVE  Kept(q)
<1>1. CASE Start(r)
  BY <1>1 DEF Start, Goto, Kept, RunsOK
<1>2. CASE NextTable(r)
  BY <1>2 DEF NextTable, Kept, RunsOK
<1>3. CASE TablesDone(r)
  BY <1>3 DEF TablesDone, Goto, Kept, RunsOK
<1>4. CASE ExtractBatch(r)
  BY <1>4 DEF ExtractBatch, Goto, Kept, RunsOK
<1>5. CASE ExtractFails(r)
  BY <1>5, GotoOthers, ForgetOthers DEF ExtractFails, Kept
<1>6. CASE Acquire(r)
  BY <1>6 DEF Acquire, Goto, Kept, RunsOK
<1>7. CASE Resolve(r)
  BY <1>7 DEF Resolve, Goto, Kept, RunsOK
<1>8. CASE ResolveFails(r)
  BY <1>8 DEF ResolveFails, Goto, Kept, RunsOK
<1>9. CASE Select(r)
  BY <1>9 DEF Select, Goto, Kept, RunsOK
<1>10. CASE WriteOk(r)
  BY <1>10 DEF WriteOk, Goto, Kept, RunsOK
<1>11. CASE WriteFails(r)
  BY <1>11 DEF WriteFails, Goto, Kept, RunsOK
<1>12. CASE FlushBreaks(r)
  BY <1>12, GotoOthers, ForgetOthers DEF FlushBreaks, Break, Kept
<1>13. CASE EntitiesDone(r)
  BY <1>13 DEF EntitiesDone, Goto, Kept, RunsOK
<1>14. CASE TechRow(r)
  BY <1>14 DEF TechRow, Kept, RunsOK
<1>15. CASE TechDone(r)
  BY <1>15 DEF TechDone, Goto, Kept, RunsOK
<1>16. CASE TechFails(r)
  BY <1>16 DEF TechFails, Goto, Kept, RunsOK
<1>17. CASE Relate(r)
  BY <1>17 DEF Relate, Goto, Kept, RunsOK
<1>18. CASE Commit(r)
  BY <1>18 DEF Commit, Goto, Kept, RunsOK
<1>19. CASE CommitFails(r)
  BY <1>19, GotoOthers, ForgetOthers DEF CommitFails, Break, Kept
<1>20. CASE Finish(r)
  BY <1>20, GotoOthers, ForgetOthers DEF Finish, Break, Kept
<1> QED
  BY <1>1, <1>2, <1>3, <1>4, <1>5, <1>6, <1>7, <1>8, <1>9, <1>10, <1>11, <1>12,
     <1>13, <1>14, <1>15, <1>16, <1>17, <1>18, <1>19, <1>20 DEF Step

\* What a run commits: only ResolveFails and Commit add to the profiles and to
\* the error records, and only a commit of the source row moves the watermark.
LEMMA StepCommits ==
  ASSUME NEW r \in Runs, Start(r) \/ Step(r)
  PROVE  /\ done \subseteq done' /\ errs \subseteq errs'
         /\ \/ wm' = wm
            \/ wm' = src[r].snap
            \/ pc[r] = "commit" /\ (Commit(r) \/ CommitFails(r)) /\ wm' = Marked(r).snap
<1>1. CASE Start(r)
  BY <1>1 DEF Start, store
<1>2. CASE NextTable(r) \/ TablesDone(r) \/ ExtractBatch(r)
  BY <1>2 DEF NextTable, TablesDone, ExtractBatch, store
<1>3. CASE ExtractFails(r)
  BY <1>3 DEF ExtractFails, Close
<1>4. CASE Acquire(r) \/ Resolve(r)
  BY <1>4 DEF Acquire, Resolve, store
<1>5. CASE ResolveFails(r)
  BY <1>5 DEF ResolveFails
<1>6. CASE Select(r) \/ WriteOk(r) \/ WriteFails(r) \/ EntitiesDone(r)
  BY <1>6 DEF Select, WriteOk, WriteFails, EntitiesDone, store
<1>7. CASE FlushBreaks(r)
  BY <1>7 DEF FlushBreaks, Break, Close, store
<1>8. CASE TechRow(r) \/ TechDone(r) \/ TechFails(r) \/ Relate(r)
  BY <1>8 DEF TechRow, TechDone, TechFails, Relate, store
<1>9. CASE Commit(r)
  BY <1>9 DEF Commit
<1>10. CASE CommitFails(r)
  BY <1>10 DEF CommitFails, Break, Close, store
<1>11. CASE Finish(r)
  BY <1>11 DEF Finish, Break, Close, store
<1> QED
  BY <1>1, <1>2, <1>3, <1>4, <1>5, <1>6, <1>7, <1>8, <1>9, <1>10, <1>11 DEF Step

(***************************************************************************)
(* No silent loss                                                          *)
(***************************************************************************)

\* The profile session's commit and the source row's commit are one (a celery
\* run), or a commit never fails: what an HTTP run needs and is not given.
DurableCommits == \A r \in Runs : Celery(r) \/ ~May("commit")

AllAccounted(marks) == \A t \in Promised : \A k \in 1..marks[t] : Accounted(t, k)

Shape(r) ==
  /\ pc[r] \in Batching => scan[r].tab <= Len(TableSeq)
  /\ pc[r] \notin Batching => scan[r].batch = {}
  /\ pc[r] # "flush" => ent[r].group = {}
  /\ pc[r] = "tech" => Table(r) \in TechTables
  /\ pc[r] \in {"relate", "commit"} => scan[r].todo = {}

\* Below the in-memory last_id a row is accounted for, or in the batch at hand.
Reached(r) ==
  scan[r].tab <= Len(TableSeq) /\ Table(r) \in Promised =>
    \A k \in 1..scan[r].last : Accounted(Table(r), k) \/ k \in scan[r].batch

\* A row of the batch at hand is still to do, being written, or pending.
Handled(r) ==
  pc[r] \in {"select", "flush", "relate", "commit"} /\ Table(r) \in Promised =>
    \A k \in scan[r].batch :
      \/ k \in scan[r].todo \cup ent[r].group
      \/ <<Table(r), k>> \in tx[r].done \cup tx[r].errs

RunInv(r) ==
  Shape(r) /\ AllAccounted(src[r].snap) /\ Reached(r) /\ Handled(r)

LossInv == NoSilentLoss /\ \A r \in Runs : RunInv(r)

\* What is accounted for stays accounted for.
LEMMA AccountedKept ==
  ASSUME done \subseteq done', errs \subseteq errs', NEW t, NEW k, Accounted(t, k)
  PROVE  Accounted(t, k)'
BY DEF Accounted

\* A run that a step leaves alone keeps its invariant.
LEMMA RunKept ==
  ASSUME NEW q \in Runs, RunInv(q), Kept(q), done \subseteq done', errs \subseteq errs'
  PROVE  RunInv(q)'
<1> USE DEF RunInv, Kept
<1>1. Table(q)' = Table(q)
  BY DEF Table
<1>2. Shape(q)'
  BY <1>1 DEF Shape
<1>3. AllAccounted(src[q].snap)'
  BY AccountedKept DEF AllAccounted
<1>4. Reached(q)'
  BY <1>1, AccountedKept DEF Reached
<1>5. Handled(q)'
  BY <1>1 DEF Handled
<1> QED
  BY <1>2, <1>3, <1>4, <1>5

\* A run over, dead or not yet begun has nothing to keep.
LEMMA RunForgotten ==
  ASSUME NEW R \in SUBSET Runs, Forget(R), NEW r \in R, pc'[r] \in Finished
  PROVE  RunInv(r)'
<1>1. /\ scan'[r] = [tab |-> 1, last |-> 0, batch |-> {}, todo |-> {}, total |-> 0]
      /\ ent'[r] = NoEnt
      /\ src'[r] = [snap |-> [t \in Tables |-> 0], dirty |-> FALSE]
  BY DEF Forget
<1>2. pc'[r] \notin Batching /\ pc'[r] # "flush" /\ pc'[r] # "tech"
      /\ pc'[r] \notin {"select", "flush", "relate", "commit"}
  BY DEF Finished, Batching, Inside
<1>3. Shape(r)'
  BY <1>1, <1>2 DEF Shape, NoEnt
<1>4. AllAccounted(src[r].snap)'
  BY <1>1 DEF AllAccounted, Promised
<1>5. Reached(r)'
  BY <1>1 DEF Reached
<1>6. Handled(r)'
  BY <1>2 DEF Handled
<1> QED
  BY <1>3, <1>4, <1>5, <1>6 DEF RunInv

\* A run that enters a table at a watermark below which all is accounted for.
LEMMA RunEnters ==
  ASSUME NEW r \in Runs, NEW i, NEW marks, AllAccounted(marks),
         scan'[r] = AtTable(r, i, marks), pc'[r] = "extract",
         AllAccounted(src'[r].snap), ent'[r].group = {}, UNCHANGED store
  PROVE  RunInv(r)'
<1>1. Table(r)' = TableSeq[i] /\ scan'[r].tab = i /\ scan'[r].batch = {}
      /\ scan'[r].last = IF i <= Len(TableSeq) THEN marks[TableSeq[i]] ELSE 0
  BY DEF Table, AtTable
<1>2. Shape(r)'
  BY <1>1 DEF Shape, Batching, Inside
<1>3. AllAccounted(src[r].snap)'
  BY DEF AllAccounted, Accounted, store
<1>4. Reached(r)'
  BY <1>1 DEF Reached, AllAccounted, Accounted, store
<1>5. Handled(r)'
  BY DEF Handled
<1> QED
  BY <1>2, <1>3, <1>4, <1>5 DEF RunInv

LEMMA LossInit == Init => LossInv
<1> SUFFICES ASSUME Init PROVE LossInv
  OBVIOUS
<1>1. NoSilentLoss
  BY DEF Init, NoSilentLoss, Promised
<1>2. ASSUME NEW r \in Runs PROVE RunInv(r)
  <2>1. /\ scan[r] = [tab |-> 1, last |-> 0, batch |-> {}, todo |-> {}, total |-> 0]
        /\ ent[r] = NoEnt /\ pc[r] = "idle"
        /\ src[r] = [snap |-> [t \in Tables |-> 0], dirty |-> FALSE]
    BY DEF Init
  <2>2. Shape(r)
    BY <2>1 DEF Shape, NoEnt, Batching, Inside
  <2>3. AllAccounted(src[r].snap)
    BY <2>1 DEF AllAccounted, Promised
  <2>4. Reached(r) /\ Handled(r)
    BY <2>1 DEF Reached, Handled
  <2> QED
    BY <2>2, <2>3, <2>4 DEF RunInv
<1> QED
  BY <1>1, <1>2 DEF LossInv

\* A commit accounts for all rows the run has read of the table at hand.
LEMMA BatchCommits ==
  ASSUME NEW r \in Runs, Commit(r), Shape(r), Reached(r), Handled(r),
         Table(r) \in Promised, NEW k \in 1..scan[r].last
  PROVE  <<Table(r), k>> \in done' \cup errs'
<1>1. /\ pc[r] = "commit" /\ done' = done \cup tx[r].done /\ errs' = errs \cup tx[r].errs
  BY DEF Commit
<1>2. scan[r].todo \cup ent[r].group = {} /\ scan[r].tab <= Len(TableSeq)
  BY <1>1 DEF Shape, Batching, Inside
<1>3. CASE k \in scan[r].batch
  BY <1>1, <1>2, <1>3 DEF Handled, Accounted
<1>4. CASE Accounted(Table(r), k)
  BY <1>1, <1>4 DEF Accounted
<1> QED
  BY <1>2, <1>3, <1>4 DEF Reached

\* The watermarks a commit leaves behind are passed by accounted rows only.
LEMMA MarkedAccounted ==
  ASSUME RunsOK, NEW r \in Runs, done \subseteq done', errs \subseteq errs',
         AllAccounted(src[r].snap), scan[r].tab <= Len(TableSeq),
         Table(r) \in Promised =>
           \A k \in 1..scan[r].last : <<Table(r), k>> \in done' \cup errs'
  PROVE  \A t \in Promised : \A k \in 1..Marked(r).snap[t] : Accounted(t, k)'
<1> SUFFICES ASSUME NEW t \in Promised, NEW k \in 1..Marked(r).snap[t]
             PROVE  Accounted(t, k)'
  OBVIOUS
<1>1. Marked(r).snap[t] = IF t = Table(r) THEN scan[r].last ELSE src[r].snap[t]
  BY DEF Marked, RunsOK, Srcs, Marks, Promised
<1>2. CASE t = Table(r)
  BY <1>1, <1>2 DEF Accounted
<1>3. CASE t # Table(r)
  BY <1>1, <1>3, AccountedKept DEF AllAccounted
<1> QED
  BY <1>2, <1>3

\* A step of run r keeps r's own part of the invariant.
LEMMA RunStep ==
  ASSUME TypeOK, LossInv, DurableCommits, NEW r \in Runs, Start(r) \/ Step(r)
  PROVE  RunInv(r)'
<1> USE DEF TypeOK
<1>inv. /\ Shape(r) /\ AllAccounted(src[r].snap) /\ Reached(r) /\ Handled(r)
        /\ AllAccounted(wm)
  BY DEF LossInv, RunInv, NoSilentLoss, AllAccounted
<1>type. /\ scan \in [Runs -> Scans] /\ scan[r] \in Scans /\ pc \in [Runs -> PCs]
         /\ ent \in [Runs -> Ents] /\ tx \in [Runs -> Txs] /\ src \in [Runs -> Srcs]
  BY DEF RunsOK
<1>grow. done \subseteq done' /\ errs \subseteq errs'
  BY StepCommits
<1>snap. ASSUME src'[r] = src[r] PROVE AllAccounted(src[r].snap)'
  BY <1>snap, <1>inv, <1>grow, AccountedKept DEF AllAccounted
<1>1. CASE Start(r)
  <2>1. scan'[r] = AtTable(r, 1, wm) /\ pc'[r] = "extract" /\ ent' = ent
        /\ src'[r].snap = wm /\ UNCHANGED store
    BY <1>1, <1>type DEF Start, Goto
  <2>2. ent[r].group = {}
    BY <1>1, <1>inv DEF Start, Shape
  <2> QED
    BY <2>1, <2>2, <1>inv, RunEnters
<1>2. CASE NextTable(r)
  <2>1. scan'[r] = AtTable(r, scan[r].tab + 1, src[r].snap) /\ pc'[r] = "extract"
        /\ ent' = ent /\ src' = src /\ UNCHANGED store
    BY <1>2, <1>type DEF NextTable
  <2>2. ent[r].group = {}
    BY <1>2, <1>inv DEF NextTable, Shape
  <2> QED
    BY <2>1, <2>2, <1>inv, RunEnters
<1>3. CASE TablesDone(r)
  <2>1. pc[r] = "extract" /\ pc'[r] = "finish" /\ UNCHANGED <<store, scan, ent, tx, src>>
    BY <1>3, <1>type DEF TablesDone, Goto
  <2>2. Shape(r)'
    BY <2>1, <1>inv DEF Shape, Batching, Inside
  <2>3. Reached(r)' /\ Handled(r)'
    BY <2>1, <1>inv DEF Reached, Handled, Table, Accounted, store
  <2> QED
    BY <2>1, <2>2, <2>3, <1>snap DEF RunInv
<1>4. CASE ExtractBatch(r)
  <2>1. /\ pc[r] = "extract" /\ pc'[r] = "lock" /\ scan[r].tab <= Len(TableSeq)
        /\ UNCHANGED <<store, ent, tx, src>>
        /\ ods[Table(r)] > scan[r].last
    BY <1>4, <1>type DEF ExtractBatch, Goto
  <2>2. /\ scan'[r].batch = (scan[r].last + 1)..UpTo(r) /\ scan'[r].last = UpTo(r)
        /\ scan'[r].tab = scan[r].tab
    <3>1. scan' = [scan EXCEPT ![r].batch = (scan[r].last + 1)..UpTo(r), ![r].last = UpTo(r)]
      BY <1>4 DEF ExtractBatch
    <3> QED
      BY <3>1, <1>type DEF Scans
  <2>3. Table(r)' = Table(r)
    BY <2>2 DEF Table
  <2>4. Shape(r)'
    BY <2>1, <2>2, <1>inv DEF Shape, Batching, Inside
  <2>5. Reached(r)'
    <3>1. SUFFICES ASSUME Table(r) \in Promised, NEW k \in 1..UpTo(r)
                   PROVE  Accounted(Table(r), k) \/ k \in (scan[r].last + 1)..UpTo(r)
      BY <2>1, <2>2, <2>3 DEF Reached, Accounted, store
    <3>2. UpTo(r) \in Nat /\ scan[r].last \in Nat
      <4>1. Table(r) \in Tables
        BY <2>1, TableType
      <4> QED
        BY <4>1, <1>type, ConstantsOK DEF UpTo, EnvOK, Scans, Marks
    <3>3. CASE k <= scan[r].last
      <4>1. scan[r].batch = {}
        BY <2>1, <1>inv DEF Shape, Batching, Inside
      <4> QED
        BY <3>1, <3>2, <3>3, <4>1, <2>1, <1>inv DEF Reached
    <3> QED
      BY <3>1, <3>2, <3>3
  <2>6. Handled(r)'
    BY <2>1 DEF Handled
  <2> QED
    BY <2>1, <2>4, <2>5, <2>6, <1>snap DEF RunInv
<1>5. CASE ExtractFails(r)
  BY <1>5, <1>type, RunForgotten DEF ExtractFails, Goto, Finished
<1>6. CASE Acquire(r)
  <2>1. pc[r] = "lock" /\ pc'[r] = "resolve" /\ UNCHANGED <<store, scan, ent, tx, src>>
    BY <1>6, <1>type DEF Acquire, Goto
  <2>2. Shape(r)'
    BY <2>1, <1>inv DEF Shape, Batching, Inside
  <2>3. Reached(r)' /\ Handled(r)'
    BY <2>1, <1>inv DEF Reached, Handled, Table, Accounted, store
  <2> QED
    BY <2>1, <2>2, <2>3, <1>snap DEF RunInv
<1>7. CASE Resolve(r)
  <2>1. /\ pc[r] = "resolve" /\ UNCHANGED <<store, ent, tx, src>>
        /\ pc'[r] = IF Table(r) \in TechTables THEN "tech" ELSE "select"
    BY <1>7, <1>type DEF Resolve, Goto
  <2>2. /\ scan'[r].todo = scan[r].batch /\ scan'[r].batch = scan[r].batch
        /\ scan'[r].last = scan[r].last /\ scan'[r].tab = scan[r].tab
    <3>1. scan' = [scan EXCEPT ![r].todo = scan[r].batch]
      BY <1>7 DEF Resolve
    <3> QED
      BY <3>1, <1>type DEF Scans
  <2>3. Table(r)' = Table(r)
    BY <2>2 DEF Table
  <2>4. Shape(r)'
    BY <2>1, <2>2, <2>3, <1>inv DEF Shape, Batching, Inside
  <2>5. Reached(r)' /\ Handled(r)'
    BY <2>1, <2>2, <2>3, <1>inv DEF Reached, Handled, Accounted, store
  <2> QED
    BY <2>1, <2>4, <2>5, <1>snap DEF RunInv
<1>8. CASE ResolveFails(r)
  <2>1. /\ pc[r] = "resolve" /\ pc'[r] = "extract" /\ UNCHANGED <<ent, tx, src>>
        /\ errs' = errs \cup Rowset(Table(r), scan[r].batch)
    BY <1>8, <1>type DEF ResolveFails, Goto
  <2>2. /\ scan'[r].batch = {} /\ scan'[r].last = scan[r].last /\ scan'[r].tab = scan[r].tab
    <3>1. scan' = [scan EXCEPT ![r].batch = {}]
      BY <1>8 DEF ResolveFails
    <3> QED
      BY <3>1, <1>type DEF Scans
  <2>3. Table(r)' = Table(r)
    BY <2>2 DEF Table
  <2>4. Shape(r)'
    BY <2>1, <2>2, <1>inv DEF Shape, Batching, Inside
  <2>5. Reached(r)'
    BY <2>1, <2>2, <2>3, <1>inv, <1>grow DEF Reached, Accounted, Rowset
  <2>6. Handled(r)'
    BY <2>1 DEF Handled
  <2> QED
    BY <2>1, <2>4, <2>5, <2>6, <1>snap DEF RunInv
<1>9. CASE Select(r)
  <2> DEFINE t == Table(r)
             todo == scan[r].todo
  <2>1. pc[r] = "select" /\ UNCHANGED <<store, src>>
    BY <1>9 DEF Select
  <2>2. PICK k \in First(todo), scored \in BOOLEAN :
          /\ scan' = [scan EXCEPT ![r].todo = @ \ Group(t, k, todo)]
          /\ tx' = [tx EXCEPT ![r].errs =
                     IF EntityOf[<<t, k>>] = NoId \/ ~scored
                     THEN @ \cup Rowset(t, Group(t, k, todo)) ELSE @]
          /\ IF EntityOf[<<t, k>>] = NoId
             THEN UNCHANGED <<pc, ent, rel>>
             ELSE /\ ent' = [ent EXCEPT ![r] =
                       [group |-> Group(t, k, todo),
                        seen |-> Ent(t, k) \in Written(done \cup tx[r].done)]]
                  /\ Goto(r, "flush")
    BY <1>9 DEF Select
  <2>3. /\ scan'[r].batch = scan[r].batch /\ scan'[r].last = scan[r].last
        /\ scan'[r].tab = scan[r].tab /\ scan'[r].todo = todo \ Group(t, k, todo)
    BY <2>2, <1>type DEF Scans
  <2>4. Table(r)' = t
    BY <2>3 DEF Table
  <2>5. tx'[r].done = tx[r].done /\ tx[r].errs \subseteq tx'[r].errs
    BY <2>2, <1>type DEF Txs
  <2>6. Reached(r)'
    BY <2>1, <2>3, <2>4, <1>inv DEF Reached, Accounted, store
  <2>7. CASE EntityOf[<<t, k>>] = NoId
    <3>1. pc'[r] = "select" /\ ent'[r] = ent[r]
      BY <2>1, <2>2, <2>7
    <3>2. Rowset(t, Group(t, k, todo)) \subseteq tx'[r].errs
      BY <2>2, <2>7, <1>type DEF Txs
    <3>3. Shape(r)'
      BY <2>1, <2>3, <3>1, <1>inv DEF Shape, Batching, Inside
    <3>4. Handled(r)'
      BY <2>1, <2>3, <2>4, <2>5, <3>1, <3>2, <1>inv DEF Handled, Rowset
    <3> QED
      BY <2>1, <2>6, <3>3, <3>4, <1>snap DEF RunInv
  <2>8. CASE EntityOf[<<t, k>>] # NoId
    <3>1. pc'[r] = "flush" /\ ent'[r].group = Group(t, k, todo)
      BY <2>2, <2>8, <1>type DEF Goto
    <3>2. ent[r].group = {}
      BY <2>1, <1>inv DEF Shape
    <3>3. Shape(r)'
      BY <2>1, <2>3, <3>1, <1>inv DEF Shape, Batching, Inside
    <3>4. Handled(r)'
      BY <2>1, <2>3, <2>4, <2>5, <3>1, <3>2, <1>inv DEF Handled
    <3> QED
      BY <2>1, <2>6, <3>3, <3>4, <1>snap DEF RunInv
  <2> QED
    BY <2>7, <2>8
<1>10. CASE WriteOk(r)
  <2>1. /\ pc[r] = "flush" /\ pc'[r] = "select" /\ UNCHANGED <<store, scan, src>>
        /\ ent'[r] = NoEnt
    BY <1>10, <1>type DEF WriteOk, Goto
  <2>2. /\ tx'[r].done = tx[r].done \cup Rowset(Table(r), ent[r].group)
        /\ tx'[r].errs = tx[r].errs
    <3>1. tx' = [tx EXCEPT ![r].done = @ \cup Rowset(Table(r), ent[r].group), ![r].n = @ + 1]
      BY <1>10 DEF WriteOk
    <3> QED
      BY <3>1, <1>type DEF Txs
  <2>3. Shape(r)'
    BY <2>1, <1>inv DEF Shape, Batching, Inside, NoEnt
  <2>4. Reached(r)'
    BY <2>1, <1>inv DEF Reached, Table, Accounted, store
  <2>5. Handled(r)'
    BY <2>1, <2>2, <1>inv DEF Handled, Table, Rowset
  <2> QED
    BY <2>1, <2>3, <2>4, <2>5, <1>snap DEF RunInv
<1>11. CASE WriteFails(r)
  <2>1. /\ pc[r] = "flush" /\ pc'[r] = "select" /\ UNCHANGED <<store, scan, src>>
        /\ ent'[r] = NoEnt
    BY <1>11, <1>type DEF WriteFails, Goto
  <2>2. /\ tx'[r].errs = tx[r].errs \cup Rowset(Table(r), ent[r].group)
        /\ tx'[r].done = tx[r].done
    <3>1. tx' = [tx EXCEPT ![r].errs = @ \cup Rowset(Table(r), ent[r].group)]
      BY <1>11 DEF WriteFails
    <3> QED
      BY <3>1, <1>type DEF Txs
  <2>3. Shape(r)'
    BY <2>1, <1>inv DEF Shape, Batching, Inside, NoEnt
  <2>4. Reached(r)'
    BY <2>1, <1>inv DEF Reached, Table, Accounted, store
  <2>5. Handled(r)'
    BY <2>1, <2>2, <1>inv DEF Handled, Table, Rowset
  <2> QED
    BY <2>1, <2>3, <2>4, <2>5, <1>snap DEF RunInv
<1>12. CASE FlushBreaks(r)
  BY <1>12, <1>type, RunForgotten DEF FlushBreaks, Break, Goto, Finished
<1>13. CASE EntitiesDone(r)
  <2>1. /\ pc[r] = "select" /\ pc'[r] = "relate" /\ scan[r].todo = {}
        /\ UNCHANGED <<store, scan, ent, tx, src>>
    BY <1>13, <1>type DEF EntitiesDone, Goto
  <2>2. Shape(r)'
    BY <2>1, <1>inv DEF Shape, Batching, Inside
  <2>3. Reached(r)' /\ Handled(r)'
    BY <2>1, <1>inv DEF Reached, Handled, Table, Accounted, store
  <2> QED
    BY <2>1, <2>2, <2>3, <1>snap DEF RunInv
<1>14. CASE TechRow(r) \/ TechDone(r) \/ TechFails(r)
  <2>1. /\ pc[r] = "tech" /\ pc'[r] \in {"tech", "relate"} /\ UNCHANGED <<store, ent, src>>
    BY <1>14, <1>type DEF TechRow, TechDone, TechFails, Goto
  <2>2. /\ scan'[r].batch = scan[r].batch /\ scan'[r].last = scan[r].last
        /\ scan'[r].tab = scan[r].tab
        /\ pc'[r] = "relate" => scan'[r].todo = {}
    <3>1. CASE TechRow(r)
      BY <3>1, <1>type DEF TechRow, Scans
    <3>2. CASE TechDone(r)
      BY <3>2 DEF TechDone
    <3>3. CASE TechFails(r)
      BY <3>3, <1>type DEF TechFails, Scans
    <3> QED
      BY <1>14, <3>1, <3>2, <3>3
  <2>3. Table(r)' = Table(r) /\ Table(r) \in TechTables
    BY <2>1, <2>2, <1>inv DEF Table, Shape
  <2>4. Shape(r)'
    BY <2>1, <2>2, <2>3, <1>inv DEF Shape, Batching, Inside
  <2>5. Reached(r)' /\ Handled(r)'
    BY <2>3 DEF Reached, Handled, Promised
  <2> QED
    BY <2>1, <2>4, <2>5, <1>snap DEF RunInv
<1>15. CASE Relate(r)
  <2>1. /\ pc[r] = "relate" /\ pc'[r] = "commit" /\ UNCHANGED <<store, scan, ent, tx, src>>
    BY <1>15, <1>type DEF Relate, Goto
  <2>2. Shape(r)'
    BY <2>1, <1>inv DEF Shape, Batching, Inside
  <2>3. Reached(r)' /\ Handled(r)'
    BY <2>1, <1>inv DEF Reached, Handled, Table, Accounted, store
  <2> QED
    BY <2>1, <2>2, <2>3, <1>snap DEF RunInv
<1>16. CASE Commit(r)
  <2>1. /\ pc[r] = "commit" /\ pc'[r] \in {"finish", "extract"} /\ UNCHANGED ent
        /\ src'[r].snap = Marked(r).snap
    BY <1>16, <1>type DEF Commit, Goto
  <2>2. scan'[r].batch = {} /\ scan'[r].last = scan[r].last /\ scan'[r].tab = scan[r].tab
    <3>1. scan' = [scan EXCEPT ![r].batch = {}, ![r].total = @ + tx[r].n]
      BY <1>16 DEF Commit
    <3> QED
      BY <3>1, <1>type DEF Scans
  <2>3. Table(r)' = Table(r)
    BY <2>2 DEF Table
  <2>4. Shape(r)'
    BY <2>1, <2>2, <1>inv DEF Shape, Batching, Inside
  <2>5. ASSUME Table(r) \in Promised, NEW k \in 1..scan[r].last
        PROVE  <<Table(r), k>> \in done' \cup errs'
    BY <1>16, <2>1, <2>5, <1>inv, BatchCommits
  <2>6. Reached(r)'
    BY <2>2, <2>3, <2>5 DEF Reached, Accounted
  <2>7. AllAccounted(src[r].snap)'
    <3>1. scan[r].tab <= Len(TableSeq)
      BY <1>16, <1>inv DEF Commit, Shape, Batching, Inside
    <3>2. \A t \in Promised : \A k \in 1..Marked(r).snap[t] : Accounted(t, k)'
      BY <3>1, <2>5, <1>inv, <1>grow, MarkedAccounted
    <3> QED
      BY <3>2, <2>1 DEF AllAccounted
  <2>8. Handled(r)'
    BY <2>1 DEF Handled
  <2> QED
    BY <2>4, <2>6, <2>7, <2>8 DEF RunInv
<1>17. CASE CommitFails(r)
  BY <1>17, <1>type, RunForgotten DEF CommitFails, Break, Goto, Finished
<1>18. CASE Finish(r)
  BY <1>18, <1>type, RunForgotten DEF Finish, Break, Goto, Finished
<1> QED
  BY <1>1, <1>2, <1>3, <1>4, <1>5, <1>6, <1>7, <1>8, <1>9, <1>10, <1>11, <1>12,
     <1>13, <1>14, <1>15, <1>16, <1>17, <1>18 DEF Step

\* The watermark in the database moves only over accounted rows.
LEMMA WatermarkStep ==
  ASSUME TypeOK, LossInv, DurableCommits, NEW r \in Runs, Start(r) \/ Step(r)
  PROVE  NoSilentLoss'
<1>1. done \subseteq done' /\ errs \subseteq errs'
  BY StepCommits
<1>2. /\ AllAccounted(wm) /\ AllAccounted(src[r].snap)
      /\ Shape(r) /\ Reached(r) /\ Handled(r)
  BY DEF LossInv, RunInv, NoSilentLoss, AllAccounted
<1>3. CASE wm' = wm \/ wm' = src[r].snap
  BY <1>1, <1>2, <1>3, AccountedKept DEF NoSilentLoss, AllAccounted
<1>4. CASE Commit(r)
  <2>1. \/ wm' = wm
        \/ wm' = Marked(r).snap
    BY <1>4 DEF Commit
  <2>2. scan[r].tab <= Len(TableSeq)
    BY <1>2, <1>4 DEF Commit, Shape, Batching, Inside
  <2>3. ASSUME Table(r) \in Promised, NEW k \in 1..scan[r].last
        PROVE  <<Table(r), k>> \in done' \cup errs'
    BY <1>2, <1>4, <2>3, BatchCommits
  <2>4. \A t \in Promised : \A k \in 1..Marked(r).snap[t] : Accounted(t, k)'
    BY <1>1, <1>2, <2>2, <2>3, MarkedAccounted DEF TypeOK
  <2> QED
    BY <1>3, <2>1, <2>4 DEF NoSilentLoss
<1>5. CASE CommitFails(r)
  <2>1. Celery(r)
    BY <1>5 DEF DurableCommits, CommitFails
  <2> QED
    BY <1>3, <1>5, <2>1 DEF CommitFails, Break, store
<1> QED
  BY <1>3, <1>4, <1>5, StepCommits

LEMMA LossStep ==
  TypeOK /\ LossInv /\ DurableCommits /\ [Next]_vars => LossInv'
<1> SUFFICES ASSUME TypeOK, LossInv, DurableCommits, [Next]_vars PROVE LossInv'
  OBVIOUS
<1>1. ASSUME NEW r \in Runs, Start(r) \/ Step(r) PROVE LossInv'
  <2>1. ASSUME NEW q \in Runs PROVE RunInv(q)'
    <3>1. CASE q = r
      BY <1>1, <3>1, RunStep
    <3>2. CASE q # r
      BY <1>1, <3>2, OthersKept, StepCommits, RunKept DEF LossInv, TypeOK
    <3> QED
      BY <3>1, <3>2
  <2> QED
    BY <1>1, <2>1, WatermarkStep DEF LossInv
<1>2. ASSUME NEW p \in Procs, Crash(p) PROVE LossInv'
  <2> DEFINE lost == {r \in Runs : ProcOf[r] = p /\ Running(r)}
  <2>1. /\ Forget(lost) /\ UNCHANGED store
        /\ pc' = [r \in Runs |-> IF r \in lost THEN "crashed" ELSE pc[r]]
    BY <1>2 DEF Crash
  <2>2. ASSUME NEW q \in Runs PROVE RunInv(q)'
    <3>1. CASE q \in lost
      BY <2>1, <3>1, RunForgotten DEF Finished
    <3>2. CASE q \notin lost
      <4>1. Kept(q)
        BY <2>1, <3>2 DEF Kept, Forget
      <4> QED
        BY <2>1, <4>1, RunKept DEF LossInv, store
    <3> QED
      BY <3>1, <3>2
  <2> QED
    BY <2>1, <2>2 DEF LossInv, NoSilentLoss, Accounted, store
<1>3. CASE (\E t \in Tables : OdsAppend(t)) \/ UNCHANGED vars
  <2>1. UNCHANGED <<store, pc, scan, ent, tx, src>>
    BY <1>3 DEF OdsAppend, vars
  <2>2. ASSUME NEW q \in Runs PROVE RunInv(q)'
    BY <2>1, RunKept DEF LossInv, Kept, store
  <2> QED
    BY <2>1, <2>2 DEF LossInv, NoSilentLoss, Accounted, store
<1> QED
  BY <1>1, <1>2, <1>3 DEF Next, AllRunsOver

\* A run with a batch is at one of its tables, whatever happens to commits.
LEMMA PlacedStep == TypeOK /\ Placed /\ [Next]_vars => Placed'
<1> SUFFICES ASSUME TypeOK, Placed, [Next]_vars, NEW q \in Runs, pc'[q] \in Batching
             PROVE  scan'[q].tab <= Len(TableSeq)
  BY DEF Placed
<1>type. pc \in [Runs -> PCs] /\ scan \in [Runs -> Scans] /\ scan[q] \in Scans
  BY DEF TypeOK, RunsOK
<1>1. CASE Kept(q)
  BY <1>1 DEF Kept, Placed
<1>2. CASE Start(q) \/ Step(q)
  <2>1. pc'[q] \notin Batching \/ (pc[q] \in Batching /\ scan'[q].tab = scan[q].tab)
        \/ ExtractBatch(q)
    <3> USE <1>type DEF Goto, Batching, Inside
    <3>1. CASE Start(q) \/ NextTable(q) \/ TablesDone(q)
      BY <3>1 DEF Start, NextTable, TablesDone
    <3>2. CASE ExtractFails(q) \/ FlushBreaks(q) \/ CommitFails(q) \/ Finish(q)
      BY <3>2 DEF ExtractFails, FlushBreaks, CommitFails, Finish, Break
    <3>3. CASE Acquire(q) \/ EntitiesDone(q) \/ Relate(q) \/ TechDone(q) \/ WriteOk(q) \/ WriteFails(q)
      BY <3>3 DEF Acquire, EntitiesDone, Relate, TechDone, WriteOk, WriteFails
    <3>4. CASE Resolve(q) \/ TechRow(q) \/ TechFails(q) \/ Select(q)
      <4>1. pc[q] \in Batching
        BY <3>4 DEF Resolve, TechRow, TechFails, Select
      <4>2. PICK todo : scan' = [scan EXCEPT ![q].todo = todo]
        BY <3>4 DEF Resolve, TechRow, TechFails, Select
      <4> QED
        BY <4>1, <4>2 DEF Scans
    <3>5. CASE Commit(q) \/ ResolveFails(q)
      BY <3>5 DEF Commit, ResolveFails
    <3> QED
      BY <1>2, <3>1, <3>2, <3>3, <3>4, <3>5 DEF Step
  <2>2. CASE ExtractBatch(q)
    BY <2>2, <1>type DEF ExtractBatch, Scans
  <2> QED
    BY <2>1, <2>2 DEF Placed
<1>3. CASE \E p \in Procs : Crash(p)
  <2>1. pc'[q] = "crashed" \/ (pc'[q] = pc[q] /\ scan'[q] = scan[q])
    BY <1>3 DEF Crash, Forget
  <2> QED
    BY <2>1 DEF Placed, Batching, Inside
<1> QED
  <2>1. ASSUME NEW r \in Runs, r # q, Start(r) \/ Step(r) PROVE Kept(q)
    BY <2>1, OthersKept DEF TypeOK
  <2>2. ASSUME (\E t \in Tables : OdsAppend(t)) \/ UNCHANGED vars PROVE Kept(q)
    BY <2>2 DEF OdsAppend, vars, Kept
  <2> QED
    BY <1>1, <1>2, <1>3, <2>1, <2>2 DEF Next, AllRunsOver

LEMMA TypeStep == TypeOK /\ Placed /\ [Next]_vars => TypeOK'
BY TypeRun, TypeEnv DEF Next, AllRunsOver

\* Every variable keeps its type: orchestrator, sessions, watermark and lock.
THEOREM TypeCorrect == Spec => [](TypeOK /\ Placed)
<1>1. Init => TypeOK /\ Placed
  BY TypeInit DEF Init, Placed, Batching, Inside
<1>2. TypeOK /\ Placed /\ [Next]_vars => (TypeOK /\ Placed)'
  BY TypeStep, PlacedStep
<1> QED
  BY <1>1, <1>2, PTL DEF Spec

\* The promise of orchestrator.py "C3", for any number of runs, processes,
\* tables, rows and failures: no row at or below the committed watermark of its
\* table is missing from both the profiles and the error records -- provided
\* the run is a celery run, or its commits do not fail.
THEOREM NoLossForever ==
  ASSUME DurableCommits
  PROVE  Spec => []NoSilentLoss
<1>1. Init => LossInv
  BY LossInit
<1>2. TypeOK /\ LossInv /\ [Next]_vars => LossInv'
  BY DurableCommits, LossStep
<1>3. LossInv => NoSilentLoss
  BY DEF LossInv
<1> QED
  BY <1>1, <1>2, <1>3, TypeCorrect, PTL DEF Spec

(***************************************************************************)
(* The pipeline implements IngestPromise                                   *)
(***************************************************************************)

\* Every step of the pipeline only adds to the profiles and the error records.
LEMMA OnlyAdds ==
  [Next]_vars => done \subseteq done' /\ errs \subseteq errs'
<1> SUFFICES ASSUME [Next]_vars PROVE done \subseteq done' /\ errs \subseteq errs'
  OBVIOUS
<1>1. CASE \E r \in Runs : Start(r) \/ Step(r)
  BY <1>1, StepCommits
<1>2. CASE (\E p \in Procs : Crash(p)) \/ (\E t \in Tables : OdsAppend(t)) \/ UNCHANGED vars
  BY <1>2 DEF Crash, OdsAppend, store, vars
<1> QED
  BY <1>1, <1>2 DEF Next, AllRunsOver

LEMMA PromiseInit == Init => Promise!Init
BY DEF Init, Promise!Init

\* Every step is a step of the promise: what it leaves in the database is
\* more, of the right type, and accounted for up to the watermarks.
LEMMA PromiseStep ==
  TypeOK' /\ NoSilentLoss' /\ [Next]_vars => [Promise!Advance]_(Promise!vars)
<1> SUFFICES ASSUME TypeOK', NoSilentLoss', [Next]_vars PROVE Promise!Advance
  OBVIOUS
<1>1. done \subseteq done' /\ errs \subseteq errs'
  BY OnlyAdds
<1>2. wm' \in [Tables -> 0..MaxKey]
  BY DEF TypeOK, StoreOK, Marks
<1>3. Promise!Accounted(done', errs', wm')
  BY DEF NoSilentLoss, Accounted, Promise!Accounted
<1> QED
  BY <1>1, <1>2, <1>3 DEF Promise!Advance

\* The refinement, for every value of the constants: with commits that are as
\* atomic as a celery run's, sessions, batches, locks, concurrent runs, failures
\* and crashes all amount to steps of IngestPromise.
THEOREM PromiseForever ==
  ASSUME DurableCommits
  PROVE  Spec => PromiseKept
<1>1. Init => Promise!Init
  BY PromiseInit
<1>2. TypeOK' /\ NoSilentLoss' /\ [Next]_vars => [Promise!Advance]_(Promise!vars)
  BY PromiseStep
<1>3. Spec => []NoSilentLoss
  BY DurableCommits, NoLossForever
<1> QED
  BY <1>1, <1>2, <1>3, TypeCorrect, PTL DEF Spec, PromiseKept, Promise!Spec

(***************************************************************************)
(* One batch of a profile type at a time                                   *)
(***************************************************************************)

Writing == {"select", "flush", "tech", "relate", "commit"}

\* The lock a run holds while inside a batch, and that it holds it alone.
Held(r) == pc[r] \in Inside => TypeOf[Table(r)] \in active[ProcOf[r]]
Alone(q, r) ==
  q # r /\ ProcOf[q] = ProcOf[r] /\ pc[q] \in Inside /\ pc[r] \in Inside
    => TypeOf[Table(q)] # TypeOf[Table(r)]

\* A run has uncommitted profile rows only inside a batch, and of its table.
Pending(r) ==
  /\ tx[r].done \subseteq Rowset(Table(r), Keys)
  /\ pc[r] \notin Writing => tx[r].done = {} /\ tx[r].evid = {} /\ tx[r].sp = {}
  /\ pc[r] \in {"select", "flush"} => Table(r) \notin TechTables
  /\ pc[r] = "tech" => Table(r) \in TechTables
  /\ tx[r].evid \cup tx[r].sp # {} => Table(r) \in TechTables

LockInv ==
  \A r \in Runs : Held(r) /\ Pending(r) /\ \A q \in Runs : Alone(q, r)

\* How a step of a run changes its lock: it takes it, drops it, or keeps it.
LEMMA StepLock ==
  ASSUME TypeOK, NEW r \in Runs, Start(r) \/ Step(r)
  PROVE  \/ Acquire(r)
         \/ pc[r] \in Inside /\ pc'[r] \notin Inside /\ Release(r)
         \/ /\ UNCHANGED active
            /\ pc'[r] \in Inside => pc[r] \in Inside /\ Table(r)' = Table(r)
<1>type. pc \in [Runs -> PCs] /\ scan \in [Runs -> Scans]
  BY DEF TypeOK, RunsOK
<1> USE <1>type DEF Goto, Inside
<1>1. CASE Start(r) \/ NextTable(r) \/ TablesDone(r)
  BY <1>1 DEF Start, NextTable, TablesDone, env
<1>2. CASE ExtractBatch(r) \/ ExtractFails(r) \/ Finish(r)
  BY <1>2 DEF ExtractBatch, ExtractFails, Finish, Break, env
<1>3. CASE FlushBreaks(r) \/ CommitFails(r)
  BY <1>3 DEF FlushBreaks, CommitFails, Break
<1>4. CASE EntitiesDone(r) \/ Relate(r) \/ TechDone(r) \/ WriteOk(r) \/ WriteFails(r)
  BY <1>4 DEF EntitiesDone, Relate, TechDone, WriteOk, WriteFails, Table, env
<1>5. CASE Resolve(r) \/ TechRow(r) \/ TechFails(r) \/ Select(r)
  <2>1. pc[r] \in Inside /\ UNCHANGED active
    BY <1>5 DEF Resolve, TechRow, TechFails, Select, env
  <2>2. PICK todo : scan' = [scan EXCEPT ![r].todo = todo]
    BY <1>5 DEF Resolve, TechRow, TechFails, Select
  <2> QED
    BY <2>1, <2>2 DEF Scans, Table
<1>6. CASE Commit(r) \/ ResolveFails(r)
  BY <1>6 DEF Commit, ResolveFails
<1> QED
  BY <1>1, <1>2, <1>3, <1>4, <1>5, <1>6 DEF Step

\* A step of a run keeps what is said of its uncommitted rows.
LEMMA PendingStep ==
  ASSUME TypeOK, Placed, NEW r \in Runs, Pending(r), Start(r) \/ Step(r)
  PROVE  Pending(r)'
<1>type. /\ pc \in [Runs -> PCs] /\ scan \in [Runs -> Scans] /\ scan[r] \in Scans
         /\ tx \in [Runs -> Txs] /\ ent \in [Runs -> Ents]
  BY DEF TypeOK, RunsOK
<1> DEFINE Empty(x) == x.done = {} /\ x.evid = {} /\ x.sp = {}
<1>empty. ASSUME Empty(tx'[r]), pc'[r] \notin {"select", "flush", "tech"} PROVE Pending(r)'
  BY <1>empty DEF Pending
<1>1. CASE Start(r) \/ NextTable(r) \/ TablesDone(r) \/ ExtractBatch(r) \/ Acquire(r)
  <2>1. pc[r] \notin Writing /\ tx' = tx /\ pc'[r] \notin {"select", "flush", "tech"}
    BY <1>1, <1>type DEF Start, NextTable, TablesDone, ExtractBatch, Acquire, Goto, Writing
  <2> QED
    BY <2>1, <1>empty DEF Pending
<1>2. CASE ExtractFails(r) \/ FlushBreaks(r) \/ CommitFails(r) \/ Finish(r)
  <2>1. Forget({r}) /\ pc'[r] = "ended"
    BY <1>2, <1>type DEF ExtractFails, FlushBreaks, CommitFails, Finish, Break, Goto
  <2>2. Empty(tx'[r])
    BY <2>1 DEF Forget, EmptyTx
  <2> QED
    BY <2>1, <2>2, <1>empty
<1>3. CASE ResolveFails(r) \/ Commit(r)
  <2>1. Empty(tx'[r]) /\ pc'[r] \in {"extract", "finish"}
    BY <1>3, <1>type DEF ResolveFails, Commit, Goto, EmptyTx, Pending, Writing
  <2> QED
    BY <2>1, <1>empty
<1>4. CASE Resolve(r)
  <2>1. /\ Empty(tx'[r]) /\ tx' = tx
        /\ pc'[r] = IF Table(r) \in TechTables THEN "tech" ELSE "select"
    BY <1>4, <1>type DEF Resolve, Goto, Pending, Writing
  <2>2. Table(r)' = Table(r)
    <3>1. scan' = [scan EXCEPT ![r].todo = scan[r].batch]
      BY <1>4 DEF Resolve
    <3> QED
      BY <3>1, <1>type DEF Scans, Table
  <2> QED
    BY <2>1, <2>2 DEF Pending
<1>5. CASE Select(r)
  <2>1. pc[r] = "select" /\ pc'[r] \in {"select", "flush"}
    BY <1>5, <1>type DEF Select, Goto
  <2>2. PICK todo : scan' = [scan EXCEPT ![r].todo = todo]
    BY <1>5 DEF Select
  <2>3. PICK some : tx' = [tx EXCEPT ![r].errs = some]
    BY <1>5 DEF Select
  <2>4. Table(r)' = Table(r)
    BY <2>2, <1>type DEF Scans, Table
  <2>5. tx'[r].done = tx[r].done /\ tx'[r].evid = tx[r].evid /\ tx'[r].sp = tx[r].sp
    BY <2>3, <1>type DEF Txs
  <2> QED
    BY <2>1, <2>4, <2>5 DEF Pending, Writing
<1>6. CASE WriteOk(r)
  <2>1. pc[r] = "flush" /\ pc'[r] = "select" /\ scan' = scan
    BY <1>6, <1>type DEF WriteOk, Goto
  <2>2. tx' = [tx EXCEPT ![r].done = @ \cup Rowset(Table(r), ent[r].group), ![r].n = @ + 1]
    BY <1>6 DEF WriteOk
  <2>3. /\ tx'[r].done = tx[r].done \cup Rowset(Table(r), ent[r].group)
        /\ tx'[r].evid = tx[r].evid /\ tx'[r].sp = tx[r].sp
    BY <2>2, <1>type DEF Txs
  <2>4. Rowset(Table(r), ent[r].group) \subseteq Rowset(Table(r), Keys)
    BY <1>type DEF Rowset, Ents
  <2> QED
    BY <2>1, <2>3, <2>4 DEF Pending, Table, Writing
<1>7. CASE WriteFails(r)
  <2>1. pc[r] = "flush" /\ pc'[r] = "select" /\ scan' = scan
    BY <1>7, <1>type DEF WriteFails, Goto
  <2>2. PICK some : tx' = [tx EXCEPT ![r].errs = some]
    BY <1>7 DEF WriteFails
  <2>3. tx'[r].done = tx[r].done /\ tx'[r].evid = tx[r].evid /\ tx'[r].sp = tx[r].sp
    BY <2>2, <1>type DEF Txs
  <2> QED
    BY <2>1, <2>3 DEF Pending, Table, Writing
<1>8. CASE EntitiesDone(r) \/ Relate(r)
  <2>1. pc[r] \in Writing /\ pc'[r] \in {"relate", "commit"} /\ scan' = scan /\ tx' = tx
    BY <1>8, <1>type DEF EntitiesDone, Relate, Goto, Writing
  <2> QED
    BY <2>1 DEF Pending, Table, Writing
<1>9. CASE TechRow(r) \/ TechDone(r) \/ TechFails(r)
  <2>1. pc[r] = "tech" /\ pc'[r] \in {"tech", "relate"}
    BY <1>9, <1>type DEF TechRow, TechDone, TechFails, Goto
  <2>2. Table(r)' = Table(r)
    <3>1. scan' = scan \/ \E todo : scan' = [scan EXCEPT ![r].todo = todo]
      BY <1>9 DEF TechRow, TechDone, TechFails
    <3> QED
      BY <3>1, <1>type DEF Scans, Table
  <2>3. tx'[r].done = tx[r].done
    BY <1>9, <1>type DEF TechRow, TechDone, TechFails, Txs
  <2> QED
    BY <2>1, <2>2, <2>3 DEF Pending, Writing
<1> QED
  BY <1>1, <1>2, <1>3, <1>4, <1>5, <1>6, <1>7, <1>8, <1>9 DEF Step

LEMMA LockInit == Init => LockInv
BY DEF Init, LockInv, Held, Alone, Pending, Inside, Writing, EmptyTx

LEMMA LockStep == TypeOK /\ Placed /\ LockInv /\ [Next]_vars => LockInv'
<1> SUFFICES ASSUME TypeOK, Placed, LockInv, [Next]_vars PROVE LockInv'
  OBVIOUS
<1>type. /\ active \in [Procs -> SUBSET Types] /\ ProcOf \in [Runs -> Procs]
  BY ConstantsOK DEF TypeOK, EnvOK
<1>1. ASSUME NEW r \in Runs, Start(r) \/ Step(r) PROVE LockInv'
  <2>1. ASSUME NEW q \in Runs, q # r
        PROVE  /\ pc'[q] = pc[q] /\ Table(q)' = Table(q) /\ tx'[q] = tx[q]
    BY <1>1, <2>1, OthersKept DEF TypeOK, Kept, Table
  <2>2. ASSUME NEW q \in Runs PROVE Pending(q)'
    <3>1. CASE q = r
      BY <1>1, <3>1, PendingStep DEF LockInv
    <3>2. CASE q # r
      BY <2>1, <3>2 DEF LockInv, Pending
    <3> QED
      BY <3>1, <3>2
  <2>3. CASE Acquire(r)
    <3>1. /\ TypeOf[Table(r)] \notin active[ProcOf[r]] /\ Table(r)' = Table(r)
          /\ active' = [active EXCEPT ![ProcOf[r]] = @ \cup {TypeOf[Table(r)]}]
      BY <2>3 DEF Acquire, Table
    <3>2. ASSUME NEW q \in Runs PROVE Held(q)'
      BY <1>type, <2>1, <3>1 DEF LockInv, Held
    <3>3. ASSUME NEW p \in Runs, NEW q \in Runs PROVE Alone(p, q)'
      BY <2>1, <3>1 DEF LockInv, Held, Alone
    <3> QED
      BY <2>2, <3>2, <3>3 DEF LockInv
  <2>4. CASE pc[r] \in Inside /\ pc'[r] \notin Inside /\ Release(r)
    <3>1. ASSUME NEW q \in Runs PROVE Held(q)'
      BY <1>type, <2>1, <2>4 DEF LockInv, Held, Alone, Release
    <3>2. ASSUME NEW p \in Runs, NEW q \in Runs PROVE Alone(p, q)'
      BY <2>1, <2>4 DEF LockInv, Alone
    <3> QED
      BY <2>2, <3>1, <3>2 DEF LockInv
  <2>5. CASE /\ UNCHANGED active
             /\ pc'[r] \in Inside => pc[r] \in Inside /\ Table(r)' = Table(r)
    <3>1. ASSUME NEW q \in Runs PROVE Held(q)'
      BY <2>1, <2>5 DEF LockInv, Held
    <3>2. ASSUME NEW p \in Runs, NEW q \in Runs PROVE Alone(p, q)'
      BY <2>1, <2>5 DEF LockInv, Alone
    <3> QED
      BY <2>2, <3>1, <3>2 DEF LockInv
  <2> QED
    BY <1>1, <2>3, <2>4, <2>5, StepLock
<1>2. ASSUME NEW p \in Procs, Crash(p) PROVE LockInv'
  <2> DEFINE lost == {r \in Runs : ProcOf[r] = p /\ Running(r)}
  <2>1. /\ Forget(lost) /\ active' = [active EXCEPT ![p] = {}]
        /\ pc' = [r \in Runs |-> IF r \in lost THEN "crashed" ELSE pc[r]]
    BY <1>2 DEF Crash
  <2>2. ASSUME NEW q \in Runs, q \in lost
        PROVE  pc'[q] = "crashed" /\ tx'[q] = EmptyTx
    BY <2>1, <2>2 DEF Forget
  <2>3. ASSUME NEW q \in Runs, q \notin lost
        PROVE  pc'[q] = pc[q] /\ Table(q)' = Table(q) /\ tx'[q] = tx[q]
    BY <2>1, <2>3 DEF Forget, Table
  <2>4. ASSUME NEW q \in Runs, q \notin lost, pc[q] \in Inside
        PROVE  ProcOf[q] # p
    BY <2>4 DEF Running, Finished, Inside
  <2>5. ASSUME NEW q \in Runs PROVE Held(q)'
    BY <1>type, <2>1, <2>2, <2>3, <2>4 DEF LockInv, Held, Inside
  <2>6. ASSUME NEW q \in Runs PROVE Pending(q)'
    BY <2>2, <2>3 DEF LockInv, Pending, EmptyTx
  <2>7. ASSUME NEW x \in Runs, NEW y \in Runs PROVE Alone(x, y)'
    BY <2>2, <2>3 DEF LockInv, Alone, Inside
  <2> QED
    BY <2>5, <2>6, <2>7 DEF LockInv
<1>3. CASE (\E t \in Tables : OdsAppend(t)) \/ UNCHANGED vars
  <2>1. UNCHANGED <<active, pc, scan, tx>>
    BY <1>3 DEF OdsAppend, vars, env
  <2> QED
    BY <2>1 DEF LockInv, Held, Alone, Pending, Table
<1> QED
  BY <1>1, <1>2, <1>3 DEF Next, AllRunsOver

\* A run inside a batch waits for no run that holds no lock of its type.
LEMMA LockProtects == TypeOK /\ Placed /\ LockInv => NoWaitInProcess
<1> SUFFICES ASSUME TypeOK, Placed, LockInv, NEW q \in Runs, NEW r \in Runs,
                    ProcOf[q] = ProcOf[r], q # r,
                    NEW e \in Holds(q), e \in Wants(r)
             PROVE  FALSE
  BY DEF NoWaitInProcess, WaitsFor
<1>1. pc[r] \in {"flush", "tech"}
  BY DEF Wants
<1>2. pc[q] \in Writing
  <2>1. SUFFICES ASSUME tx[q].done = {}, tx[q].evid = {}, tx[q].sp = {} PROVE FALSE
    BY DEF LockInv, Pending
  <2> QED
    BY <2>1 DEF Holds, Written, TechProfiles
<1>3. TypeOf[Table(q)] # TypeOf[Table(r)]
  BY <1>1, <1>2 DEF LockInv, Alone, Writing, Inside
<1>4. Table(q) \in Tables /\ Table(r) \in Tables
  BY <1>1, <1>2, TableType DEF Placed, Batching, Inside, Writing, TypeOK
<1>5. CASE pc[r] = "flush"
  <2>1. e \in Written(Rowset(Table(r), ent[r].group))
    BY <1>5 DEF Wants
  <2>2. e[1] = TypeOf[Table(r)]
    <3>1. PICK x \in Rowset(Table(r), ent[r].group) : e = Ent(x[1], x[2])
      BY <2>1 DEF Written
    <3>2. x[1] = Table(r)
      BY DEF Rowset
    <3> QED
      BY <3>1, <3>2 DEF Ent
  <2>3. CASE e \in Written(tx[q].done)
    <3>1. PICK x \in tx[q].done : e = Ent(x[1], x[2])
      BY <2>3 DEF Written
    <3>2. x[1] = Table(q)
      BY <3>1 DEF LockInv, Pending, Rowset
    <3> QED
      BY <1>3, <2>2, <3>1, <3>2 DEF Ent
  <2>4. CASE e \in TechProfiles(tx[q].evid \cup tx[q].sp)
    <3>1. e[1] \in {"concept", "ipc"}
      BY <2>4 DEF TechProfiles, Concept, Domain
    <3> QED
      BY <1>4, <2>2, <3>1, ConstantsOK
  <2> QED
    BY <2>3, <2>4 DEF Holds
<1>6. CASE pc[r] = "tech"
  <2>1. e[1] \in {"concept", "ipc"} /\ Table(r) \in TechTables
    BY <1>6 DEF Wants, TechProfiles, Concept, Domain, LockInv, Pending
  <2>2. CASE e \in Written(tx[q].done)
    <3>1. PICK x \in tx[q].done : e = Ent(x[1], x[2])
      BY <2>2 DEF Written
    <3>2. x[1] = Table(q)
      BY <3>1 DEF LockInv, Pending, Rowset
    <3> QED
      BY <1>4, <2>1, <3>1, <3>2, ConstantsOK DEF Ent
  <2>3. CASE e \in TechProfiles(tx[q].evid \cup tx[q].sp)
    <3>1. Table(q) \in TechTables
      BY <2>3 DEF TechProfiles, LockInv, Pending
    <3> QED
      BY <1>3, <2>1, <3>1, ConstantsOK
  <2> QED
    BY <2>2, <2>3 DEF Holds
<1> QED
  BY <1>1, <1>5, <1>6

\* What _active_types is for, with any number of runs in any number of
\* processes: the batches that are open at one time in one process never wait
\* for each other's uncommitted rows.
THEOREM NoWaitForever == Spec => []NoWaitInProcess
<1>1. Init => LockInv
  BY LockInit
<1>2. TypeOK /\ Placed /\ LockInv /\ [Next]_vars => LockInv'
  BY LockStep
<1>3. TypeOK /\ Placed /\ LockInv => NoWaitInProcess
  BY LockProtects
<1> QED
  BY <1>1, <1>2, <1>3, TypeCorrect, PTL DEF Spec

(***************************************************************************)
(* The runs never all wait                                                 *)
(***************************************************************************)

\* A profile type that is taken is that of a run inside a batch.
Owned ==
  \A p \in Procs : \A y \in active[p] :
    \E r \in Runs : ProcOf[r] = p /\ pc[r] \in Inside /\ TypeOf[Table(r)] = y

\* Whatever ends a batch gives its profile type back.
LEMMA LeavingReleases ==
  ASSUME TypeOK, NEW r \in Runs, Start(r) \/ Step(r), pc[r] \in Inside, pc'[r] \notin Inside
  PROVE  Release(r)
<1> pc \in [Runs -> PCs]
  BY DEF TypeOK, RunsOK
<1> USE DEF Goto, Inside
<1>1. ~ (Start(r) \/ NextTable(r) \/ TablesDone(r) \/ ExtractBatch(r) \/ ExtractFails(r)
         \/ Acquire(r) \/ Finish(r))
  BY DEF Start, NextTable, TablesDone, ExtractBatch, ExtractFails, Acquire, Finish
<1>2. ~ (Resolve(r) \/ WriteOk(r) \/ WriteFails(r) \/ EntitiesDone(r) \/ Relate(r))
  BY DEF Resolve, WriteOk, WriteFails, EntitiesDone, Relate
<1>3. ~ (TechRow(r) \/ TechDone(r) \/ TechFails(r))
  BY DEF TechRow, TechDone, TechFails
<1>4. ~ Select(r)
  BY DEF Select
<1>5. CASE ResolveFails(r) \/ Commit(r) \/ CommitFails(r) \/ FlushBreaks(r)
  BY <1>5 DEF ResolveFails, Commit, CommitFails, FlushBreaks
<1> QED
  BY <1>1, <1>2, <1>3, <1>4, <1>5 DEF Step

LEMMA OwnedStep == TypeOK /\ Placed /\ Owned /\ [Next]_vars => Owned'
<1> SUFFICES ASSUME TypeOK, Placed, Owned, [Next]_vars,
                    NEW p \in Procs, NEW y \in active'[p]
             PROVE  \E q \in Runs : /\ ProcOf[q] = p /\ pc'[q] \in Inside
                                    /\ TypeOf[Table(q)'] = y
  BY DEF Owned
<1>type. active \in [Procs -> SUBSET Types] /\ ProcOf \in [Runs -> Procs] /\ pc \in [Runs -> PCs]
  BY ConstantsOK DEF TypeOK, EnvOK, RunsOK
<1>1. ASSUME NEW r \in Runs, Start(r) \/ Step(r)
      PROVE  \E q \in Runs : ProcOf[q] = p /\ pc'[q] \in Inside /\ TypeOf[Table(q)'] = y
  <2>1. ASSUME NEW q \in Runs, q # r PROVE pc'[q] = pc[q] /\ Table(q)' = Table(q)
    BY <1>1, <2>1, OthersKept DEF TypeOK, Kept, Table
  <2>2. CASE Acquire(r)
    <3>1. /\ Table(r)' = Table(r) /\ pc'[r] \in Inside /\ pc[r] \notin Inside
          /\ active' = [active EXCEPT ![ProcOf[r]] = @ \cup {TypeOf[Table(r)]}]
      BY <1>type, <2>2 DEF Acquire, Table, Goto, Inside
    <3>2. CASE p = ProcOf[r] /\ y = TypeOf[Table(r)]
      BY <3>1, <3>2
    <3>3. CASE y \in active[p]
      BY <2>1, <3>1, <3>3 DEF Owned
    <3> QED
      BY <1>type, <3>1, <3>2, <3>3
  <2>3. CASE ~ Acquire(r)
    <3>1. \/ active' = active
          \/ pc[r] \in Inside /\ pc'[r] \notin Inside /\ Release(r)
      BY <1>1, <2>3, StepLock
    <3>2. y \in active[p]
      BY <1>type, <3>1 DEF Release
    <3>3. PICK q \in Runs : ProcOf[q] = p /\ pc[q] \in Inside /\ TypeOf[Table(q)] = y
      BY <3>2 DEF Owned
    <3>4. CASE q # r
      BY <2>1, <3>3, <3>4
    <3>5. CASE q = r
      <4>1. pc'[r] \in Inside
        <5>1. SUFFICES ASSUME pc'[r] \notin Inside PROVE FALSE
          OBVIOUS
        <5>2. Release(r)
          BY <1>1, <3>3, <3>5, <5>1, LeavingReleases
        <5> QED
          BY <1>type, <3>3, <3>5, <5>2 DEF Release
      <4>2. Table(r)' = Table(r)
        BY <1>1, <2>3, <4>1, StepLock
      <4> QED
        BY <3>3, <3>5, <4>1, <4>2
    <3> QED
      BY <3>4, <3>5
  <2> QED
    BY <2>2, <2>3
<1>2. ASSUME NEW c \in Procs, Crash(c)
      PROVE  \E q \in Runs : ProcOf[q] = p /\ pc'[q] \in Inside /\ TypeOf[Table(q)'] = y
  <2> DEFINE lost == {r \in Runs : ProcOf[r] = c /\ Running(r)}
  <2>1. /\ Forget(lost) /\ active' = [active EXCEPT ![c] = {}]
        /\ pc' = [r \in Runs |-> IF r \in lost THEN "crashed" ELSE pc[r]]
    BY <1>2 DEF Crash
  <2>2. p # c /\ y \in active[p]
    BY <1>type, <2>1
  <2>3. PICK q \in Runs : ProcOf[q] = p /\ pc[q] \in Inside /\ TypeOf[Table(q)] = y
    BY <2>2 DEF Owned
  <2>4. q \notin lost
    BY <2>2, <2>3
  <2>5. pc'[q] = pc[q] /\ Table(q)' = Table(q)
    BY <2>1, <2>4 DEF Forget, Table
  <2> QED
    BY <2>3, <2>5
<1>3. CASE (\E t \in Tables : OdsAppend(t)) \/ UNCHANGED vars
  <2>1. UNCHANGED <<active, pc, scan>>
    BY <1>3 DEF OdsAppend, vars, env
  <2> QED
    BY <2>1 DEF Owned, Table
<1> QED
  BY <1>1, <1>2, <1>3 DEF Next, AllRunsOver

\* Whoever others wait for is inside a batch.
LEMMA HoldersAreInside ==
  ASSUME LockInv, NEW q \in Runs, NEW r \in Runs, WaitsFor(r, q)
  PROVE  pc[q] \in Writing
<1>1. SUFFICES ASSUME tx[q].done = {}, tx[q].evid = {}, tx[q].sp = {} PROVE FALSE
  BY DEF LockInv, Pending
<1> QED
  BY <1>1 DEF WaitsFor, Holds, Written, TechProfiles

\* A run that waits for a profile type has written nothing that others wait for, so
\* that a cycle of waits is one of row locks, and PostgreSQL sees it.
LEMMA SomeoneGoesOn == TypeOK /\ LockInv /\ Owned => NoStandstill
<1> SUFFICES ASSUME TypeOK, LockInv, Owned, NEW first \in Runs, Running(first),
                    \A r \in Runs : Running(r) => Waits(r)
             PROVE  FALSE
  BY DEF NoStandstill
<1>1. ASSUME NEW r \in Runs, pc[r] \in Inside
      PROVE  Running(r) /\ Blocked(r) /\ ~Deadlocked(r)
  BY <1>1 DEF Running, Finished, Inside, Waits
<1>2. PICK q \in Runs : pc[q] \in Inside
  <2>1. CASE pc[first] = "lock" /\ TypeOf[Table(first)] \in active[ProcOf[first]]
    <3>1. ProcOf[first] \in Procs
      BY ConstantsOK
    <3> QED
      BY <2>1, <3>1 DEF Owned
  <2>2. CASE Blocked(first)
    <3>1. PICK q \in Runs : WaitsFor(first, q)
      BY <2>2 DEF Blocked
    <3>2. pc[q] \in Writing
      BY <3>1, HoldersAreInside
    <3> QED
      BY <3>2 DEF Writing, Inside
  <2> QED
    BY <2>1, <2>2 DEF Waits
<1> DEFINE S == {r \in Runs : pc[r] \in Inside}
<1>3. \A x \in S : \E y \in S : WaitsFor(x, y)
  <2>1. SUFFICES ASSUME NEW x \in S PROVE \E y \in S : WaitsFor(x, y)
    OBVIOUS
  <2>2. PICK y \in Runs : WaitsFor(x, y)
    BY <1>1 DEF Blocked
  <2>3. pc[y] \in Writing
    BY <2>2, HoldersAreInside
  <2> QED
    BY <2>2, <2>3 DEF Writing, Inside
<1>4. Deadlocked(q)
  <2>1. S \in SUBSET Runs /\ q \in S
    BY <1>2
  <2> HIDE DEF S
  <2> QED
    BY <1>3, <2>1 DEF Deadlocked
<1> QED
  BY <1>1, <1>2, <1>4

\* However many runs there are, in however many processes, and whatever fails: they
\* never all wait.  A profile type is given back by every way out of a batch, and no
\* cycle of waits goes through _active_types.
THEOREM NeverAtStandstill == Spec => []NoStandstill
<1>1. Init => LockInv /\ Owned
  <2>1. Init => Owned
    BY DEF Init, Owned
  <2> QED
    BY <2>1, LockInit
<1>2. TypeOK /\ Placed /\ LockInv /\ Owned /\ [Next]_vars => LockInv' /\ Owned'
  BY LockStep, OwnedStep
<1>3. TypeOK /\ LockInv /\ Owned => NoStandstill
  BY SomeoneGoesOn
<1> QED
  BY <1>1, <1>2, <1>3, TypeCorrect, PTL DEF Spec
=============================================================================
