------------------------- MODULE OdsOutcome_proofs -------------------------
(***************************************************************************)
(* What a run of the ingest pipeline leaves behind, for every value of the *)
(* constants of OdsIngest: batches of technology evidence are whole, what  *)
(* a task row counts was committed, "completed" is true, the watermark     *)
(* keeps up with the profiles, relations find their end nodes (and those   *)
(* of domains never do), runs say how they end, and only go forward.       *)
(***************************************************************************)
EXTENDS OdsIngest_proofs, FiniteSetTheorems

(***************************************************************************)
(* The batch at hand                                                       *)
(***************************************************************************)

\* A run has a batch only at the program points that work on it; what it still
\* has to do and what it has written are disjoint parts of the batch.
Within(r) ==
  /\ pc[r] \notin Batching => scan[r].batch = {}
  /\ pc[r] \in Writing => scan[r].todo \subseteq scan[r].batch
  /\ pc[r] = "flush" => /\ ent[r].group # {}
                        /\ ent[r].group \subseteq scan[r].batch \ scan[r].todo
                        /\ tx[r].done \cap Rowset(Table(r), ent[r].group) = {}
  /\ pc[r] \notin Writing => tx[r].done = {} /\ tx[r].n = 0
  /\ tx[r].done \subseteq Rowset(Table(r), scan[r].batch \ scan[r].todo)

\* The rows of the batch lie above the run's watermark of the table.
Ahead(r) ==
  scan[r].tab <= Len(TableSeq) =>
    /\ src[r].snap[Table(r)] <= scan[r].last
    /\ \A k \in scan[r].batch : src[r].snap[Table(r)] < k /\ k <= scan[r].last

\* Evidence waits in the SAVEPOINT until that of the whole batch is there.
Whole(r) ==
  /\ pc[r] \notin {"relate", "commit"} => tx[r].evid = {}
  /\ pc[r] = "tech" => Rowset(Table(r), scan[r].batch \ scan[r].todo) \subseteq tx[r].sp
  /\ tx[r].evid # {} => Rowset(Table(r), scan[r].batch) \subseteq tx[r].evid

BatchInv(r) == Within(r) /\ Ahead(r) /\ Whole(r)

LEMMA BatchInit == Init => \A r \in Runs : BatchInv(r)
<1> SUFFICES ASSUME Init, NEW r \in Runs PROVE BatchInv(r)
  OBVIOUS
<1>1. /\ scan[r] = [tab |-> 1, last |-> 0, batch |-> {}, todo |-> {}, total |-> 0]
      /\ tx[r] = EmptyTx /\ pc[r] = "idle"
      /\ src[r] = [snap |-> [t \in Tables |-> 0], dirty |-> FALSE]
  BY DEF Init
<1>2. Within(r) /\ Whole(r)
  BY <1>1 DEF Within, Whole, EmptyTx, Batching, Inside, Writing, Rowset
<1>3. Ahead(r)
  BY <1>1, ConstantsOK DEF Ahead, Table
<1> QED
  BY <1>2, <1>3 DEF BatchInv

\* A run that forgets is as it was at first.
LEMMA BatchForgotten ==
  ASSUME NEW R \in SUBSET Runs, Forget(R), NEW r \in R, pc'[r] \in Finished
  PROVE  BatchInv(r)'
<1>1. /\ scan'[r] = [tab |-> 1, last |-> 0, batch |-> {}, todo |-> {}, total |-> 0]
      /\ tx'[r] = EmptyTx
      /\ src'[r] = [snap |-> [t \in Tables |-> 0], dirty |-> FALSE]
  BY DEF Forget
<1>2. pc'[r] \notin Batching /\ pc'[r] \notin Writing
      /\ pc'[r] \notin {"relate", "commit"} /\ pc'[r] # "flush" /\ pc'[r] # "tech"
  BY DEF Finished, Batching, Inside, Writing
<1>3. Within(r)' /\ Whole(r)'
  BY <1>1, <1>2 DEF Within, Whole, EmptyTx, Rowset
<1>4. Ahead(r)'
  BY <1>1, ConstantsOK DEF Ahead, Table
<1> QED
  BY <1>3, <1>4 DEF BatchInv

LEMMA BatchKept ==
  ASSUME NEW q \in Runs, BatchInv(q), Kept(q)
  PROVE  BatchInv(q)'
<1>1. Table(q)' = Table(q)
  BY DEF Table, Kept
<1> QED
  BY <1>1 DEF BatchInv, Within, Ahead, Whole, Kept

\* Every step of a run keeps what is said of its batch.
LEMMA BatchStep ==
  ASSUME TypeOK, Placed, NEW r \in Runs, BatchInv(r), Start(r) \/ Step(r)
  PROVE  BatchInv(r)'
<1> USE DEF TypeOK
<1>inv. Within(r) /\ Ahead(r) /\ Whole(r)
  BY DEF BatchInv
<1>type. /\ scan \in [Runs -> Scans] /\ scan[r] \in Scans /\ pc \in [Runs -> PCs]
         /\ ent \in [Runs -> Ents] /\ ent[r] \in Ents /\ tx \in [Runs -> Txs]
         /\ tx[r] \in Txs /\ src \in [Runs -> Srcs] /\ src[r] \in Srcs
  BY DEF RunsOK
<1>1. CASE Start(r)
  <2>1. /\ pc[r] = "idle" /\ pc'[r] = "extract" /\ tx' = tx /\ scan'[r] = AtTable(r, 1, wm)
        /\ src'[r].snap = wm
    BY <1>1, <1>type DEF Start, Goto
  <2>2. /\ scan'[r].batch = {} /\ scan'[r].todo = {} /\ scan'[r].tab = 1
        /\ 1 <= Len(TableSeq) => scan'[r].last = wm[TableSeq[1]]
    BY <2>1 DEF AtTable
  <2>3. Within(r)' /\ Whole(r)'
    <3>1. tx[r].done = {} /\ tx[r].n = 0 /\ tx[r].evid = {}
      BY <2>1, <1>inv DEF Within, Whole, Writing
    <3> QED
      BY <2>1, <2>2, <3>1 DEF Within, Whole, Batching, Inside, Writing
  <2>4. Ahead(r)'
    <3>1. ASSUME 1 <= Len(TableSeq) PROVE wm[TableSeq[1]] \in Int
      <4>1. TableSeq[1] \in Tables /\ MaxKey \in Nat
        BY <3>1, ConstantsOK
      <4>2. wm \in [Tables -> 0..MaxKey]
        BY DEF StoreOK, Marks
      <4> QED
        BY <4>1, <4>2
    <3> QED
      BY <2>1, <2>2, <3>1 DEF Ahead, Table
  <2> QED
    BY <2>3, <2>4 DEF BatchInv
<1>2. CASE NextTable(r)
  <2> DEFINE i == scan[r].tab + 1
  <2>1. /\ pc[r] = "extract" /\ pc'[r] = "extract" /\ tx' = tx /\ src' = src
        /\ scan'[r] = AtTable(r, i, src[r].snap)
    BY <1>2, <1>type DEF NextTable
  <2>2. /\ scan'[r].batch = {} /\ scan'[r].todo = {} /\ scan'[r].tab = i
        /\ i <= Len(TableSeq) => scan'[r].last = src[r].snap[TableSeq[i]]
    BY <2>1 DEF AtTable
  <2>3. Within(r)' /\ Whole(r)'
    <3>1. tx[r].done = {} /\ tx[r].n = 0 /\ tx[r].evid = {}
      BY <2>1, <1>inv DEF Within, Whole, Writing
    <3> QED
      BY <2>1, <2>2, <3>1 DEF Within, Whole, Batching, Inside, Writing
  <2>4. Ahead(r)'
    <3>1. ASSUME i <= Len(TableSeq) PROVE src[r].snap[TableSeq[i]] \in Int
      <4>1. i \in Nat \ {0}
        BY <1>type DEF Scans
      <4>2. TableSeq[i] \in Tables /\ MaxKey \in Nat
        BY <3>1, <4>1, ConstantsOK
      <4>3. src[r].snap \in [Tables -> 0..MaxKey]
        BY <1>type DEF Srcs, Marks
      <4> QED
        BY <4>2, <4>3
    <3> QED
      BY <2>1, <2>2, <3>1 DEF Ahead, Table
  <2> QED
    BY <2>3, <2>4 DEF BatchInv
<1>3. CASE TablesDone(r) \/ Acquire(r) \/ EntitiesDone(r) \/ Relate(r)
  <2>1. /\ UNCHANGED <<scan, ent, tx, src>>
        /\ \/ pc[r] = "extract" /\ pc'[r] = "finish"
           \/ pc[r] = "lock" /\ pc'[r] = "resolve"
           \/ pc[r] = "select" /\ pc'[r] = "relate"
           \/ pc[r] = "relate" /\ pc'[r] = "commit"
    BY <1>3, <1>type DEF TablesDone, Acquire, EntitiesDone, Relate, Goto
  <2>2. Table(r)' = Table(r)
    BY <2>1 DEF Table
  <2>3. Within(r)'
    BY <2>1, <2>2, <1>inv DEF Within, Batching, Inside, Writing
  <2>4. Ahead(r)' /\ Whole(r)'
    BY <2>1, <2>2, <1>inv DEF Ahead, Whole
  <2> QED
    BY <2>3, <2>4 DEF BatchInv
<1>4. CASE ExtractBatch(r)
  <2>1. /\ pc[r] = "extract" /\ pc'[r] = "lock" /\ scan[r].tab <= Len(TableSeq)
        /\ UNCHANGED <<ent, tx, src>> /\ ods[Table(r)] > scan[r].last
    BY <1>4, <1>type DEF ExtractBatch, Goto
  <2>2. /\ scan'[r].batch = (scan[r].last + 1)..UpTo(r) /\ scan'[r].last = UpTo(r)
        /\ scan'[r].tab = scan[r].tab
    <3>1. scan' = [scan EXCEPT ![r].batch = (scan[r].last + 1)..UpTo(r), ![r].last = UpTo(r)]
      BY <1>4 DEF ExtractBatch
    <3> QED
      BY <3>1, <1>type DEF Scans
  <2>3. Table(r)' = Table(r) /\ Table(r) \in Tables
    BY <2>1, <2>2, TableType DEF Table
  <2>4. UpTo(r) \in Int /\ scan[r].last \in Int /\ src[r].snap[Table(r)] \in Int
        /\ scan[r].last <= UpTo(r)
    <3>1. MaxKey \in Nat /\ BatchSize \in Nat \ {0}
      BY ConstantsOK
    <3>2. ods \in [Tables -> 0..MaxKey] /\ src[r].snap \in [Tables -> 0..MaxKey]
          /\ scan[r].last \in 0..MaxKey
      BY <1>type DEF EnvOK, Scans, Marks, Srcs
    <3>3. ods[Table(r)] \in Int /\ src[r].snap[Table(r)] \in Int /\ scan[r].last \in Int
      BY <3>1, <3>2, <2>3
    <3> QED
      BY <2>1, <3>1, <3>3 DEF UpTo
  <2>5. Within(r)' /\ Whole(r)'
    BY <2>1, <2>2, <2>3, <1>inv DEF Within, Whole, Batching, Inside, Writing
  <2>6. Ahead(r)'
    <3>1. src[r].snap[Table(r)] <= scan[r].last
      BY <2>1, <1>inv DEF Ahead
    <3>2. src[r].snap[Table(r)] <= UpTo(r)
      BY <2>4, <3>1
    <3>3. ASSUME NEW k \in (scan[r].last + 1)..UpTo(r)
          PROVE  src[r].snap[Table(r)] < k /\ k <= UpTo(r)
      BY <2>4, <3>1
    <3> QED
      BY <2>1, <2>2, <2>3, <3>2, <3>3 DEF Ahead
  <2> QED
    BY <2>5, <2>6 DEF BatchInv
<1>5. CASE ExtractFails(r) \/ FlushBreaks(r) \/ CommitFails(r) \/ Finish(r)
  BY <1>5, <1>type, BatchForgotten
  DEF ExtractFails, FlushBreaks, CommitFails, Finish, Break, Goto, Finished
<1>6. CASE Resolve(r)
  <2>1. /\ pc[r] = "resolve" /\ UNCHANGED <<ent, tx, src>> /\ pc'[r] \in {"tech", "select"}
    BY <1>6, <1>type DEF Resolve, Goto
  <2>2. /\ scan'[r].todo = scan[r].batch /\ scan'[r].batch = scan[r].batch
        /\ scan'[r].last = scan[r].last /\ scan'[r].tab = scan[r].tab
    <3>1. scan' = [scan EXCEPT ![r].todo = scan[r].batch]
      BY <1>6 DEF Resolve
    <3> QED
      BY <3>1, <1>type DEF Scans
  <2>3. Table(r)' = Table(r)
    BY <2>2 DEF Table
  <2>4. Within(r)' /\ Ahead(r)'
    BY <2>1, <2>2, <2>3, <1>inv DEF Within, Ahead, Batching, Inside, Writing
  <2>5. Whole(r)'
    BY <2>1, <2>2, <2>3, <1>inv DEF Whole, Rowset
  <2> QED
    BY <2>4, <2>5 DEF BatchInv
<1>7. CASE ResolveFails(r)
  <2>1. pc[r] = "resolve" /\ pc'[r] = "extract" /\ UNCHANGED <<ent, tx, src>>
    BY <1>7, <1>type DEF ResolveFails, Goto
  <2>2. /\ scan'[r].batch = {} /\ scan'[r].last = scan[r].last /\ scan'[r].tab = scan[r].tab
    <3>1. scan' = [scan EXCEPT ![r].batch = {}]
      BY <1>7 DEF ResolveFails
    <3> QED
      BY <3>1, <1>type DEF Scans
  <2>3. Table(r)' = Table(r)
    BY <2>2 DEF Table
  <2>4. Within(r)' /\ Whole(r)'
    BY <2>1, <2>2, <1>inv DEF Within, Whole, Batching, Inside, Writing
  <2>5. Ahead(r)'
    BY <2>1, <2>2, <2>3, <1>inv DEF Ahead
  <2> QED
    BY <2>4, <2>5 DEF BatchInv
<1>8. CASE Select(r)
  <2> DEFINE t == Table(r)
             todo == scan[r].todo
  <2>1. pc[r] = "select" /\ UNCHANGED src /\ pc'[r] \in {"select", "flush"}
    BY <1>8, <1>type DEF Select, Goto
  <2>k. PICK k \in First(todo) : \E some :
          /\ scan' = [scan EXCEPT ![r].todo = @ \ Group(t, k, todo)]
          /\ tx' = [tx EXCEPT ![r].errs = some]
          /\ \/ UNCHANGED <<pc, ent, rel>>
             \/ /\ ent' = [ent EXCEPT ![r] =
                       [group |-> Group(t, k, todo),
                        seen |-> Ent(t, k) \in Written(done \cup tx[r].done)]]
                /\ Goto(r, "flush")
    BY <1>8 DEF Select
  <2>2. PICK some :
          /\ scan' = [scan EXCEPT ![r].todo = @ \ Group(t, k, todo)]
          /\ tx' = [tx EXCEPT ![r].errs = some]
          /\ \/ UNCHANGED <<pc, ent, rel>>
             \/ /\ ent' = [ent EXCEPT ![r] =
                       [group |-> Group(t, k, todo),
                        seen |-> Ent(t, k) \in Written(done \cup tx[r].done)]]
                /\ Goto(r, "flush")
    BY <2>k
  <2>3. /\ scan'[r].batch = scan[r].batch /\ scan'[r].last = scan[r].last
        /\ scan'[r].tab = scan[r].tab /\ scan'[r].todo = todo \ Group(t, k, todo)
    BY <2>2, <1>type DEF Scans
  <2>4. Table(r)' = t
    BY <2>3 DEF Table
  <2>5. tx'[r].done = tx[r].done /\ tx'[r].n = tx[r].n /\ tx'[r].evid = tx[r].evid
    BY <2>2, <1>type DEF Txs
  <2>6. k \in todo /\ k \in Group(t, k, todo) /\ Group(t, k, todo) \subseteq todo
    BY DEF First, Group
  <2>7. todo \subseteq scan[r].batch
        /\ tx[r].done \subseteq Rowset(t, scan[r].batch \ todo)
    BY <2>1, <1>inv DEF Within, Writing
  <2>8. pc'[r] = "flush" => ent'[r].group = Group(t, k, todo)
    BY <2>1, <2>2, <1>type DEF Goto
  <2>9. Within(r)'
    <3>1. tx[r].done \cap Rowset(t, Group(t, k, todo)) = {}
      BY <2>6, <2>7 DEF Rowset
    <3>2. tx[r].done \subseteq Rowset(t, scan[r].batch \ (todo \ Group(t, k, todo)))
      BY <2>7 DEF Rowset
    <3> HIDE DEF todo, t
    <3> QED
      BY <2>1, <2>3, <2>4, <2>5, <2>6, <2>7, <2>8, <3>1, <3>2
      DEF Within, Batching, Inside, Writing
  <2>10. Ahead(r)' /\ Whole(r)'
    BY <2>1, <2>3, <2>4, <2>5, <1>inv DEF Ahead, Whole
  <2> QED
    BY <2>9, <2>10 DEF BatchInv
<1>9. CASE WriteOk(r) \/ WriteFails(r)
  <2>1. pc[r] = "flush" /\ pc'[r] = "select" /\ UNCHANGED <<scan, src>>
    BY <1>9, <1>type DEF WriteOk, WriteFails, Goto
  <2>2. /\ tx'[r].done \subseteq tx[r].done \cup Rowset(Table(r), ent[r].group)
        /\ tx'[r].evid = tx[r].evid
    <3>1. CASE WriteOk(r)
      <4>1. tx' = [tx EXCEPT ![r].done = @ \cup Rowset(Table(r), ent[r].group), ![r].n = @ + 1]
        BY <3>1 DEF WriteOk
      <4> QED
        BY <4>1, <1>type DEF Txs
    <3>2. CASE WriteFails(r)
      <4>1. tx' = [tx EXCEPT ![r].errs = @ \cup Rowset(Table(r), ent[r].group)]
        BY <3>2 DEF WriteFails
      <4> QED
        BY <4>1, <1>type DEF Txs
    <3> QED
      BY <1>9, <3>1, <3>2
  <2>3. Table(r)' = Table(r)
    BY <2>1 DEF Table
  <2>4. Within(r)'
    <3>1. Rowset(Table(r), ent[r].group) \subseteq Rowset(Table(r), scan[r].batch \ scan[r].todo)
      BY <2>1, <1>inv DEF Within, Rowset
    <3> QED
      BY <2>1, <2>2, <2>3, <3>1, <1>inv DEF Within, Batching, Inside, Writing
  <2>5. Ahead(r)' /\ Whole(r)'
    BY <2>1, <2>2, <2>3, <1>inv DEF Ahead, Whole
  <2> QED
    BY <2>4, <2>5 DEF BatchInv
<1>10. CASE TechRow(r)
  <2>1. pc[r] = "tech" /\ pc'[r] = "tech" /\ UNCHANGED <<ent, src>>
    BY <1>10, <1>type DEF TechRow
  <2>2. PICK k \in First(scan[r].todo) :
          /\ tx' = [tx EXCEPT ![r].sp = @ \cup {<<Table(r), k>>}]
          /\ scan' = [scan EXCEPT ![r].todo = @ \ {k}]
    BY <1>10 DEF TechRow
  <2>3. /\ scan'[r].batch = scan[r].batch /\ scan'[r].last = scan[r].last
        /\ scan'[r].tab = scan[r].tab /\ scan'[r].todo = scan[r].todo \ {k}
    BY <2>2, <1>type DEF Scans
  <2>4. /\ tx'[r].done = tx[r].done /\ tx'[r].n = tx[r].n /\ tx'[r].evid = tx[r].evid
        /\ tx'[r].sp = tx[r].sp \cup {<<Table(r), k>>}
    BY <2>2, <1>type DEF Txs
  <2>5. Table(r)' = Table(r)
    BY <2>3 DEF Table
  <2>6. Within(r)'
    <3>1. tx[r].done \subseteq Rowset(Table(r), scan[r].batch \ (scan[r].todo \ {k}))
      BY <1>inv DEF Within, Rowset
    <3> QED
      BY <2>1, <2>3, <2>4, <2>5, <3>1, <1>inv DEF Within, Batching, Inside, Writing
  <2>7. Whole(r)'
    BY <2>1, <2>3, <2>4, <2>5, <1>inv DEF Whole, Rowset
  <2>8. Ahead(r)'
    BY <2>1, <2>3, <2>5, <1>inv DEF Ahead
  <2> QED
    BY <2>6, <2>7, <2>8 DEF BatchInv
<1>11. CASE TechDone(r)
  <2>1. /\ pc[r] = "tech" /\ pc'[r] = "relate" /\ UNCHANGED <<scan, ent, src>>
        /\ scan[r].todo = {}
    BY <1>11, <1>type DEF TechDone, Goto
  <2>2. tx'[r].done = tx[r].done /\ tx'[r].n = tx[r].n /\ tx'[r].evid = tx[r].sp
    <3>1. tx' = [tx EXCEPT ![r].evid = tx[r].sp, ![r].sp = {}]
      BY <1>11 DEF TechDone
    <3> QED
      BY <3>1, <1>type DEF Txs
  <2>3. Table(r)' = Table(r)
    BY <2>1 DEF Table
  <2>4. Within(r)' /\ Ahead(r)'
    BY <2>1, <2>2, <2>3, <1>inv DEF Within, Ahead, Batching, Inside, Writing
  <2>5. Whole(r)'
    BY <2>1, <2>2, <2>3, <1>inv DEF Whole
  <2> QED
    BY <2>4, <2>5 DEF BatchInv
<1>12. CASE TechFails(r)
  <2>1. pc[r] = "tech" /\ pc'[r] = "relate" /\ UNCHANGED <<ent, src>>
    BY <1>12, <1>type DEF TechFails, Goto
  <2>2. tx'[r].done = tx[r].done /\ tx'[r].n = tx[r].n /\ tx'[r].evid = tx[r].evid
    <3>1. tx' = [tx EXCEPT ![r].sp = {}]
      BY <1>12 DEF TechFails
    <3> QED
      BY <3>1, <1>type DEF Txs
  <2>3. /\ scan'[r].batch = scan[r].batch /\ scan'[r].last = scan[r].last
        /\ scan'[r].tab = scan[r].tab /\ scan'[r].todo = {}
    <3>1. scan' = [scan EXCEPT ![r].todo = {}]
      BY <1>12 DEF TechFails
    <3> QED
      BY <3>1, <1>type DEF Scans
  <2>4. Table(r)' = Table(r)
    BY <2>3 DEF Table
  <2>5. Within(r)'
    <3>1. tx[r].done \subseteq Rowset(Table(r), scan[r].batch \ {})
      BY <1>inv DEF Within, Rowset
    <3> QED
      BY <2>1, <2>2, <2>3, <2>4, <3>1, <1>inv DEF Within, Batching, Inside, Writing
  <2>6. Ahead(r)' /\ Whole(r)'
    BY <2>1, <2>2, <2>3, <2>4, <1>inv DEF Ahead, Whole
  <2> QED
    BY <2>5, <2>6 DEF BatchInv
<1>13. CASE Commit(r)
  <2>1. pc[r] = "commit" /\ pc'[r] \in {"finish", "extract"} /\ tx'[r] = EmptyTx
        /\ src'[r].snap = Marked(r).snap
    BY <1>13, <1>type DEF Commit, Goto
  <2>2. scan'[r].batch = {} /\ scan'[r].last = scan[r].last /\ scan'[r].tab = scan[r].tab
    <3>1. scan' = [scan EXCEPT ![r].batch = {}, ![r].total = @ + tx[r].n]
      BY <1>13 DEF Commit
    <3> QED
      BY <3>1, <1>type DEF Scans
  <2>3. Table(r)' = Table(r)
    BY <2>2 DEF Table
  <2>4. Within(r)' /\ Whole(r)'
    BY <2>1, <2>2 DEF Within, Whole, EmptyTx, Batching, Inside, Writing
  <2>5. Ahead(r)'
    <3>1. Table(r) \in Tables /\ scan[r].last \in Int
      BY <2>1, <1>type, TableType DEF Placed, Batching, Inside, Scans
    <3>2. Marked(r).snap[Table(r)] = scan[r].last
      BY <3>1, <1>type DEF Marked, Srcs, Marks
    <3> QED
      BY <2>1, <2>2, <2>3, <3>1, <3>2 DEF Ahead
  <2> QED
    BY <2>4, <2>5 DEF BatchInv
<1> QED
  BY <1>1, <1>2, <1>3, <1>4, <1>5, <1>6, <1>7, <1>8, <1>9, <1>10, <1>11, <1>12, <1>13
  DEF Step

\* Whatever happens, a run is stepped, left alone, or dead and forgotten.
LEMMA Cases ==
  ASSUME TypeOK, [Next]_vars, NEW q \in Runs
  PROVE  \/ Start(q) \/ Step(q)
         \/ Kept(q)
         \/ \E R \in SUBSET Runs : q \in R /\ Forget(R) /\ pc'[q] = "crashed" /\ UNCHANGED store
<1>1. ASSUME NEW r \in Runs, Start(r) \/ Step(r), r # q PROVE Kept(q)
  BY <1>1, OthersKept DEF TypeOK
<1>2. ASSUME NEW p \in Procs, Crash(p)
      PROVE  \/ Kept(q)
             \/ \E R \in SUBSET Runs : q \in R /\ Forget(R) /\ pc'[q] = "crashed" /\ UNCHANGED store
  <2> DEFINE lost == {r \in Runs : ProcOf[r] = p /\ Running(r)}
  <2>1. /\ Forget(lost) /\ UNCHANGED store
        /\ pc' = [r \in Runs |-> IF r \in lost THEN "crashed" ELSE pc[r]]
    BY <1>2 DEF Crash
  <2>2. CASE q \in lost
    <3>1. pc'[q] = "crashed" /\ lost \in SUBSET Runs
      BY <2>1, <2>2
    <3> HIDE DEF lost
    <3> QED
      BY <2>1, <2>2, <3>1
  <2>3. CASE q \notin lost
    BY <2>1, <2>3 DEF Kept, Forget
  <2> QED
    BY <2>2, <2>3
<1>3. ASSUME (\E t \in Tables : OdsAppend(t)) \/ UNCHANGED vars PROVE Kept(q)
  BY <1>3 DEF OdsAppend, vars, Kept
<1> QED
  BY <1>1, <1>2, <1>3 DEF Next, AllRunsOver

LEMMA BatchNext ==
  TypeOK /\ Placed /\ (\A r \in Runs : BatchInv(r)) /\ [Next]_vars
    => (\A r \in Runs : BatchInv(r))'
<1> SUFFICES ASSUME TypeOK, Placed, \A r \in Runs : BatchInv(r), [Next]_vars,
                    NEW q \in Runs
             PROVE  BatchInv(q)'
  OBVIOUS
<1>1. CASE Start(q) \/ Step(q)
  BY <1>1, BatchStep
<1>2. CASE Kept(q)
  BY <1>2, BatchKept
<1>3. ASSUME NEW R \in SUBSET Runs, q \in R, Forget(R), pc'[q] = "crashed"
      PROVE  BatchInv(q)'
  BY <1>3, BatchForgotten DEF Finished
<1> QED
  BY <1>1, <1>2, <1>3, Cases

LEMMA BatchForever == Spec => [](\A r \in Runs : BatchInv(r))
<1>1. TypeOK /\ Placed /\ (\A r \in Runs : BatchInv(r)) /\ [Next]_vars
        => (\A r \in Runs : BatchInv(r))'
  BY BatchNext
<1> QED
  BY <1>1, BatchInit, TypeCorrect, PTL DEF Spec

\* A step in which a run's commit adds evidence adds that of its whole batch.
LEMMA EvidenceWhole ==
  ASSUME TypeOK, NEW r \in Runs, BatchInv(r), [Next]_vars,
         pc[r] = "commit", pc'[r] # "commit", evid' # evid
  PROVE  Rowset(Table(r), scan[r].batch) \subseteq evid'
<1>1. Start(r) \/ Step(r)
  BY Cases DEF Kept, store
<1>2. Commit(r) \/ CommitFails(r)
  BY <1>1 DEF Step, Start, NextTable, TablesDone, ExtractBatch, ExtractFails, Acquire,
     Resolve, ResolveFails, Select, WriteOk, WriteFails, FlushBreaks, EntitiesDone,
     TechRow, TechDone, TechFails, Relate, Finish
<1>3. ~CommitFails(r)
  BY DEF CommitFails, Break, Close, store
<1>4. evid' = evid \cup tx[r].evid
  BY <1>2, <1>3 DEF Commit
<1>5. tx[r].evid # {}
  BY <1>4
<1> QED
  BY <1>4, <1>5 DEF BatchInv, Whole

\* The SAVEPOINT of _tech_concept_stage, for batches of any size and any failure:
\* evidence is committed for all rows of a batch or for none.
THEOREM EvidenceIsWhole == Spec => TechBatchAtomic
<1> DEFINE Atomic ==
      \A r \in Runs : pc[r] = "commit" /\ pc'[r] # "commit" /\ evid' # evid
                        => Rowset(Table(r), scan[r].batch) \subseteq evid'
<1>1. TypeOK /\ (\A r \in Runs : BatchInv(r)) /\ [Next]_vars => Atomic
  BY EvidenceWhole
<1>2. TechBatchAtomic <=> [][Atomic]_vars
  BY DEF TechBatchAtomic
<1> HIDE DEF Atomic
<1> QED
  BY <1>1, <1>2, BatchForever, TypeCorrect, PTL DEF Spec

(***************************************************************************)
(* What a task row counts                                                  *)
(***************************************************************************)

\* The committed rows at or below a run's own watermarks.
Imported(r) == {x \in done : x[2] <= src[r].snap[x[1]]}

\* A run counts no entity twice and none that is not written: total_imported is
\* covered by rows below its watermarks, the count of the open batch by the
\* rows it has written above them.
Counts(r) ==
  /\ IsFiniteSet(tx[r].done)
  /\ tx[r].n <= Cardinality(tx[r].done)
  /\ scan[r].total <= Cardinality(Imported(r))
  /\ pc[r] = "idle" => scan[r].total = 0

CountInv ==
  /\ IsFiniteSet(done)
  /\ ImportedNeverOverstated
  /\ \A r \in Runs : Counts(r)

\* A part of a finite set has no more elements than the set.
LEMMA Smaller ==
  ASSUME NEW S, NEW T, IsFiniteSet(T), S \subseteq T
  PROVE  /\ IsFiniteSet(S) /\ Cardinality(S) \in Nat /\ Cardinality(T) \in Nat
         /\ Cardinality(S) <= Cardinality(T)
BY FS_Subset, FS_CardinalityType

LEMMA CountInit == Init => CountInv
<1> SUFFICES ASSUME Init PROVE CountInv
  OBVIOUS
<1>1. IsFiniteSet(done) /\ Cardinality(done) = 0
  BY FS_EmptySet DEF Init
<1>2. ASSUME NEW r \in Runs PROVE recdb[r] <= Cardinality(done) /\ Counts(r)
  <2>1. tx[r] = EmptyTx /\ scan[r].total = 0 /\ recdb[r] = 0
    BY DEF Init
  <2>2. Imported(r) = {}
    BY DEF Imported, Init
  <2> QED
    BY <1>1, <2>1, <2>2, FS_EmptySet DEF Counts, EmptyTx
<1> QED
  BY <1>1, <1>2 DEF CountInv, ImportedNeverOverstated

LEMMA CountsKept ==
  ASSUME NEW q \in Runs, Counts(q), Kept(q), scan[q].total \in Nat,
         done \subseteq done', IsFiniteSet(done')
  PROVE  Counts(q)'
<1>1. Imported(q) \subseteq Imported(q)' /\ Imported(q)' \subseteq done'
  BY DEF Imported, Kept
<1>2. /\ Cardinality(Imported(q)) \in Nat /\ Cardinality(Imported(q)') \in Nat
      /\ Cardinality(Imported(q)) <= Cardinality(Imported(q)')
  <2>1. IsFiniteSet(Imported(q)')
    BY <1>1, Smaller
  <2> QED
    BY <1>1, <2>1, Smaller
<1>3. scan[q].total <= Cardinality(Imported(q)')
  BY <1>2 DEF Counts
<1> QED
  BY <1>3 DEF Counts, Kept

LEMMA CountsForgotten ==
  ASSUME NEW R \in SUBSET Runs, Forget(R), NEW r \in R, pc'[r] \in Finished,
         IsFiniteSet(done')
  PROVE  Counts(r)'
<1>1. scan'[r].total = 0 /\ tx'[r] = EmptyTx
  BY DEF Forget
<1>2. Imported(r)' \subseteq done'
  BY DEF Imported
<1>3. Cardinality(Imported(r)') \in Nat
  BY <1>2, Smaller
<1> QED
  BY <1>1, <1>3, FS_EmptySet DEF Counts, EmptyTx, Finished

\* Only WriteOk and Commit count; any other step leaves the counters and what
\* they count alone, or forgets the run.
LEMMA OtherCounts ==
  ASSUME TypeOK, NEW r \in Runs, Start(r) \/ Step(r), ~WriteOk(r), ~Commit(r)
  PROVE  /\ UNCHANGED done
         /\ recdb' = recdb \/ recdb' = [recdb EXCEPT ![r] = scan[r].total]
         /\ \/ Forget({r}) /\ pc'[r] = "ended"
            \/ Start(r)
            \/ /\ tx'[r].done = tx[r].done /\ tx'[r].n = tx[r].n
               /\ scan'[r].total = scan[r].total /\ src' = src
               /\ pc'[r] # "idle"
<1>type. /\ scan \in [Runs -> Scans] /\ scan[r] \in Scans /\ pc \in [Runs -> PCs]
         /\ tx \in [Runs -> Txs] /\ tx[r] \in Txs
  BY DEF TypeOK, RunsOK
<1> USE <1>type DEF Goto
<1>1. CASE Start(r)
  BY <1>1 DEF Start, store
<1>2. CASE NextTable(r) \/ TablesDone(r) \/ Acquire(r) \/ EntitiesDone(r) \/ Relate(r)
  BY <1>2 DEF NextTable, TablesDone, Acquire, EntitiesDone, Relate, AtTable, store
<1>3. CASE ExtractBatch(r)
  BY <1>3 DEF ExtractBatch, Scans, store
<1>4. CASE ExtractFails(r) \/ FlushBreaks(r) \/ CommitFails(r) \/ Finish(r)
  BY <1>4 DEF ExtractFails, FlushBreaks, CommitFails, Finish, Break, Close, store
<1>5. CASE Resolve(r)
  BY <1>5 DEF Resolve, Scans, store
<1>6. CASE ResolveFails(r)
  BY <1>6 DEF ResolveFails, CommitTaskRow, Scans, store
<1>7. CASE Select(r)
  <2>1. PICK todo : scan' = [scan EXCEPT ![r].todo = todo]
    BY <1>7 DEF Select
  <2>2. PICK some : tx' = [tx EXCEPT ![r].errs = some]
    BY <1>7 DEF Select
  <2>3. pc'[r] # "idle" /\ UNCHANGED <<done, recdb, src>>
    BY <1>7 DEF Select, store
  <2> QED
    BY <2>1, <2>2, <2>3 DEF Scans, Txs
<1>8. CASE WriteFails(r)
  <2>1. PICK some : tx' = [tx EXCEPT ![r].errs = some]
    BY <1>8 DEF WriteFails
  <2>2. pc'[r] # "idle" /\ UNCHANGED <<done, recdb, src, scan>>
    BY <1>8 DEF WriteFails, store
  <2> QED
    BY <2>1, <2>2 DEF Txs
<1>9. CASE TechRow(r) \/ TechDone(r) \/ TechFails(r)
  <2>1. PICK e, s : tx' = [tx EXCEPT ![r].evid = e, ![r].sp = s] \/ tx' = [tx EXCEPT ![r].sp = s]
    BY <1>9 DEF TechRow, TechDone, TechFails
  <2>2. scan' = scan \/ \E todo : scan' = [scan EXCEPT ![r].todo = todo]
    BY <1>9 DEF TechRow, TechDone, TechFails
  <2>3. pc'[r] # "idle" /\ UNCHANGED <<done, recdb, src>>
    BY <1>9 DEF TechRow, TechDone, TechFails, store
  <2> QED
    BY <2>1, <2>2, <2>3 DEF Scans, Txs
<1> QED
  BY <1>1, <1>2, <1>3, <1>4, <1>5, <1>6, <1>7, <1>8, <1>9 DEF Step

\* Writing an entity adds at least one row that was not written before.
LEMMA WriteCounts ==
  ASSUME TypeOK, NEW r \in Runs, Within(r), Counts(r), WriteOk(r)
  PROVE  IsFiniteSet(tx'[r].done) /\ tx'[r].n <= Cardinality(tx'[r].done)
<1> DEFINE A == tx[r].done
           B == Rowset(Table(r), ent[r].group)
<1>1. tx \in [Runs -> Txs] /\ tx[r].n \in Nat /\ ent[r].group \subseteq Keys
  BY DEF TypeOK, RunsOK, Txs, Ents
<1>2. tx'[r].done = A \cup B /\ tx'[r].n = tx[r].n + 1
  <2>1. tx' = [tx EXCEPT ![r].done = @ \cup B, ![r].n = @ + 1]
    BY DEF WriteOk
  <2> QED
    BY <2>1, <1>1 DEF Txs
<1>3. IsFiniteSet(A) /\ tx[r].n <= Cardinality(A)
  BY DEF Counts
<1>4. IsFiniteSet(B)
  <2>1. IsFiniteSet(1..MaxKey)
    BY FS_Interval, ConstantsOK
  <2>2. IsFiniteSet(ent[r].group)
    BY <1>1, <2>1, Smaller DEF Keys
  <2> QED
    BY <2>2, FS_Singleton, FS_Product DEF Rowset
<1>5. B # {} /\ A \cap B = {}
  <2>1. ent[r].group # {} /\ A \cap B = {}
    BY DEF WriteOk, Within
  <2>2. PICK k \in ent[r].group : TRUE
    BY <2>1
  <2>3. <<Table(r), k>> \in B
    BY DEF Rowset
  <2> HIDE DEF B
  <2> QED
    BY <2>1, <2>3
<1>6. /\ IsFiniteSet(A \cup B) /\ Cardinality(A) \in Nat /\ Cardinality(B) \in Nat \ {0}
      /\ Cardinality(A \cup B) = Cardinality(A) + Cardinality(B)
  <2> HIDE DEF A, B
  <2>1. Cardinality(A) \in Nat /\ Cardinality(B) \in Nat
    BY <1>3, <1>4, FS_CardinalityType
  <2>2. Cardinality(B) # 0
    BY <1>4, <1>5, FS_EmptySet
  <2>3. IsFiniteSet(A \cup B)
        /\ Cardinality(A \cup B) = Cardinality(A) + Cardinality(B) - Cardinality(A \cap B)
    BY <1>3, <1>4, FS_Union
  <2>4. Cardinality(A \cap B) = 0
    BY <1>5, FS_EmptySet
  <2> QED
    BY <2>1, <2>2, <2>3, <2>4
<1> HIDE DEF A, B
<1> QED
  BY <1>1, <1>2, <1>3, <1>6

\* A commit counts the rows of its batch, which lie above the watermarks the
\* run had and at or below those it has now.
LEMMA CommitCounts ==
  ASSUME TypeOK, Placed, NEW r \in Runs, Within(r), Ahead(r), Counts(r), Commit(r),
         IsFiniteSet(done)
  PROVE  IsFiniteSet(done') /\ scan'[r].total <= Cardinality(Imported(r)')
<1> DEFINE A == Imported(r)
           B == tx[r].done
<1>type. /\ scan \in [Runs -> Scans] /\ scan[r] \in Scans /\ tx[r].n \in Nat
         /\ src \in [Runs -> Srcs] /\ src[r].snap \in [Tables -> 0..MaxKey]
         /\ tx[r].done \subseteq Rows /\ done \subseteq Rows
  BY DEF TypeOK, RunsOK, StoreOK, Txs, Srcs, Marks
<1>0. MaxKey \in Nat
  BY ConstantsOK
<1>1. /\ pc[r] = "commit" /\ done' = done \cup B /\ src'[r].snap = Marked(r).snap
  BY <1>type DEF Commit
<1>2. Table(r) \in Tables /\ scan[r].tab <= Len(TableSeq)
  BY <1>1, TableType DEF TypeOK, Placed, Batching, Inside
<1>3. scan'[r].total = scan[r].total + tx[r].n /\ scan[r].total \in Nat
  <2>1. scan' = [scan EXCEPT ![r].batch = {}, ![r].total = @ + tx[r].n]
    BY DEF Commit
  <2> QED
    BY <2>1, <1>type DEF Scans
<1>4. \A t \in Tables : src'[r].snap[t] = IF t = Table(r) THEN scan[r].last ELSE src[r].snap[t]
  BY <1>1, <1>type DEF Marked
<1>5. src[r].snap[Table(r)] <= scan[r].last /\ scan[r].last \in Nat
      /\ src[r].snap[Table(r)] \in Nat
  BY <1>type, <1>0, <1>2 DEF Ahead, Scans
<1>6. \A x \in B : /\ x[1] = Table(r) /\ src[r].snap[x[1]] < x[2] /\ x[2] <= scan[r].last
                   /\ x[2] \in Nat
  <2>1. B \subseteq Rowset(Table(r), scan[r].batch)
    BY DEF Within, Rowset
  <2>2. \A k \in scan[r].batch : src[r].snap[Table(r)] < k /\ k <= scan[r].last
    BY <1>2 DEF Ahead
  <2>3. scan[r].batch \subseteq Nat
    BY <1>type, <1>0 DEF Scans, Keys
  <2> QED
    BY <2>1, <2>2, <2>3 DEF Rowset
<1>7. A \cap B = {}
  BY <1>5, <1>6, <1>2 DEF Imported
<1>8. A \cup B \subseteq Imported(r)'
  <2>1. ASSUME NEW x \in A PROVE x \in Imported(r)'
    <3>1. x \in done /\ x[1] \in Tables /\ x[2] \in Nat /\ x[2] <= src[r].snap[x[1]]
      BY <2>1, <1>type, <1>0 DEF Imported, Rows, Keys
    <3>2. x[2] <= src'[r].snap[x[1]]
      BY <3>1, <1>4, <1>5
    <3> QED
      BY <3>1, <3>2, <1>1 DEF Imported
  <2>2. ASSUME NEW x \in B PROVE x \in Imported(r)'
    BY <2>2, <1>1, <1>2, <1>4, <1>6 DEF Imported
  <2> QED
    BY <2>1, <2>2
<1>9. IsFiniteSet(B) /\ tx[r].n <= Cardinality(B) /\ scan[r].total <= Cardinality(A)
  BY DEF Counts
<1>10. IsFiniteSet(A)
  <2>1. A \subseteq done
    BY DEF Imported
  <2> QED
    BY <2>1, Smaller
<1>11. Imported(r)' \subseteq done'
  BY DEF Imported
<1> HIDE DEF A, B
<1>12. IsFiniteSet(done')
  BY <1>1, <1>9, FS_Union
<1>13. /\ Cardinality(A) \in Nat /\ Cardinality(B) \in Nat
       /\ Cardinality(A \cup B) = Cardinality(A) + Cardinality(B)
  <2>1. Cardinality(A \cup B) = Cardinality(A) + Cardinality(B) - Cardinality(A \cap B)
    BY <1>9, <1>10, FS_Union
  <2>2. Cardinality(A \cap B) = 0
    BY <1>7, FS_EmptySet
  <2>3. Cardinality(A) \in Nat /\ Cardinality(B) \in Nat
    BY <1>9, <1>10, FS_CardinalityType
  <2> QED
    BY <2>1, <2>2, <2>3
<1>14. /\ Cardinality(A \cup B) <= Cardinality(Imported(r)')
       /\ Cardinality(Imported(r)') \in Nat
  <2>1. IsFiniteSet(Imported(r)')
    BY <1>11, <1>12, Smaller
  <2> QED
    BY <1>8, <2>1, Smaller
<1> QED
  BY <1>3, <1>type, <1>9, <1>12, <1>13, <1>14

\* Every step of a run keeps what its counters say.
LEMMA CountStep ==
  ASSUME TypeOK, Placed, NEW r \in Runs, BatchInv(r), CountInv, Start(r) \/ Step(r)
  PROVE  CountInv'
<1>type. /\ recdb \in [Runs -> Nat] /\ scan \in [Runs -> Scans] /\ pc \in [Runs -> PCs]
         /\ \A q \in Runs : scan[q].total \in Nat
         /\ tx \in [Runs -> Txs]
  BY DEF TypeOK, StoreOK, RunsOK, Scans
<1>grow. done \subseteq done'
  BY StepCommits
<1>inv. Counts(r) /\ Within(r) /\ Ahead(r) /\ IsFiniteSet(done)
  BY DEF CountInv, BatchInv
<1>1. IsFiniteSet(done')
  <2>1. CASE Commit(r)
    BY <2>1, <1>inv, CommitCounts
  <2>2. CASE WriteOk(r)
    BY <2>2, <1>inv DEF WriteOk, store
  <2>3. CASE ~Commit(r) /\ ~WriteOk(r)
    BY <2>3, <1>inv, OtherCounts
  <2> QED
    BY <2>1, <2>2, <2>3
<1>2. Counts(r)'
  <2>1. CASE Commit(r)
    <3>1. scan'[r].total <= Cardinality(Imported(r)')
      BY <2>1, <1>inv, CommitCounts
    <3>2. tx'[r] = EmptyTx /\ pc'[r] # "idle"
      BY <2>1, <1>type DEF Commit, Goto
    <3> QED
      BY <3>1, <3>2, FS_EmptySet DEF Counts, EmptyTx
  <2>2. CASE WriteOk(r)
    <3>1. UNCHANGED <<done, scan, src>> /\ pc'[r] # "idle"
      BY <2>2, <1>type DEF WriteOk, store, Goto
    <3>2. Imported(r)' = Imported(r)
      BY <3>1 DEF Imported
    <3>3. IsFiniteSet(tx'[r].done) /\ tx'[r].n <= Cardinality(tx'[r].done)
      BY <2>2, <1>inv, WriteCounts
    <3> QED
      BY <3>1, <3>2, <3>3, <1>inv DEF Counts
  <2>3. CASE Forget({r}) /\ pc'[r] = "ended"
    BY <2>3, <1>1, CountsForgotten DEF Finished
  <2>4. CASE Start(r)
    <3>1. pc[r] = "idle" /\ pc'[r] = "extract" /\ tx' = tx /\ scan'[r].total = scan[r].total
      BY <2>4, <1>type DEF Start, Goto, AtTable
    <3>2. Imported(r)' \subseteq done'
      BY DEF Imported
    <3>3. Cardinality(Imported(r)') \in Nat
      BY <3>2, <1>1, Smaller
    <3> QED
      BY <3>1, <3>3, <1>inv DEF Counts
  <2>5. CASE /\ tx'[r].done = tx[r].done /\ tx'[r].n = tx[r].n
             /\ scan'[r].total = scan[r].total /\ src' = src /\ done' = done
             /\ pc'[r] # "idle"
    <3>1. Imported(r)' = Imported(r)
      BY <2>5 DEF Imported
    <3> QED
      BY <2>5, <3>1, <1>inv DEF Counts
  <2> QED
    BY <2>1, <2>2, <2>3, <2>4, <2>5, OtherCounts
<1>3. ASSUME NEW q \in Runs PROVE Counts(q)'
  BY <1>1, <1>2, <1>type, <1>grow, OthersKept, CountsKept DEF CountInv, TypeOK
<1>4. ASSUME NEW q \in Runs PROVE recdb'[q] <= Cardinality(done')
  <2>1. recdb[q] <= Cardinality(done) /\ scan[r].total <= Cardinality(Imported(r))
    BY DEF CountInv, ImportedNeverOverstated, Counts
  <2>2. /\ Cardinality(Imported(r)) <= Cardinality(done) /\ Cardinality(Imported(r)) \in Nat
        /\ Cardinality(done) <= Cardinality(done') /\ Cardinality(done) \in Nat
        /\ Cardinality(done') \in Nat
    <3>1. Imported(r) \subseteq done
      BY DEF Imported
    <3> QED
      BY <3>1, <1>1, <1>inv, <1>grow, Smaller
  <2>3. recdb' = recdb \/ recdb' = [recdb EXCEPT ![r] = scan[r].total]
    <3>1. CASE Commit(r)
      BY <3>1 DEF Commit, CommitTaskRow
    <3>2. CASE WriteOk(r)
      BY <3>2 DEF WriteOk, store
    <3> QED
      BY <3>1, <3>2, OtherCounts
  <2>4. recdb'[q] = recdb[q] \/ recdb'[q] = scan[r].total
    BY <2>3, <1>type
  <2>5. recdb[q] \in Nat /\ scan[r].total \in Nat
    BY <1>type
  <2> QED
    BY <2>1, <2>2, <2>4, <2>5
<1> QED
  BY <1>1, <1>3, <1>4 DEF CountInv, ImportedNeverOverstated

LEMMA CountNext ==
  TypeOK /\ Placed /\ (\A r \in Runs : BatchInv(r)) /\ CountInv /\ [Next]_vars => CountInv'
<1> SUFFICES ASSUME TypeOK, Placed, \A r \in Runs : BatchInv(r), CountInv, [Next]_vars
             PROVE  CountInv'
  OBVIOUS
<1>1. CASE \E r \in Runs : Start(r) \/ Step(r)
  BY <1>1, CountStep
<1>2. CASE ~\E r \in Runs : Start(r) \/ Step(r)
  <2>1. UNCHANGED <<done, recdb>>
    BY <1>2 DEF Next, AllRunsOver, Crash, OdsAppend, vars, store
  <2>2. IsFiniteSet(done') /\ done \subseteq done' /\ ImportedNeverOverstated'
    BY <2>1 DEF CountInv, ImportedNeverOverstated
  <2>3. ASSUME NEW q \in Runs PROVE Counts(q)'
    <3>1. CASE Kept(q)
      BY <2>2, <3>1, CountsKept DEF CountInv, TypeOK, RunsOK, Scans
    <3>2. ASSUME NEW R \in SUBSET Runs, q \in R, Forget(R), pc'[q] = "crashed"
          PROVE  Counts(q)'
      BY <2>2, <3>2, CountsForgotten DEF Finished
    <3> QED
      BY <1>2, <3>1, <3>2, Cases
  <2> QED
    BY <2>2, <2>3 DEF CountInv
<1> QED
  BY <1>1, <1>2

\* records_imported of every task row, for any number of runs, workers, batches,
\* repeated tables and failures, counts no more entities than rows were committed.
THEOREM CountsAreCovered == Spec => []ImportedNeverOverstated
<1>1. TypeOK /\ Placed /\ (\A r \in Runs : BatchInv(r)) /\ CountInv /\ [Next]_vars => CountInv'
  BY CountNext
<1>2. CountInv => ImportedNeverOverstated
  BY DEF CountInv
<1> QED
  BY <1>1, <1>2, CountInit, BatchForever, TypeCorrect, PTL DEF Spec

(***************************************************************************)
(* What "completed" says                                                   *)
(***************************************************************************)

\* Without a row cap a run leaves a table when it has read all of it.
Passed(r) ==
  /\ pc[r] = "idle" => scan[r].tab = 1
  /\ MaxRows = 0 =>
       /\ \A i \in 1..Len(TableSeq) : i < scan[r].tab /\ TableSeq[i] \in Promised =>
            \A k \in 1..InitRows[TableSeq[i]] : Accounted(TableSeq[i], k)
       /\ pc[r] = "finish" => scan[r].tab > Len(TableSeq)

\* The ODS only grows.
Grown == \A t \in Tables : InitRows[t] <= ods[t]

HonestInv == CompletedIsHonest /\ Grown /\ \A r \in Runs : Passed(r)

LEMMA HonestInit == Init => HonestInv
<1> SUFFICES ASSUME Init PROVE HonestInv
  OBVIOUS
<1>1. Grown
  <2>1. \A t \in Tables : InitRows[t] \in 0..MaxKey
    BY ConstantsOK
  <2> QED
    BY <2>1, ConstantsOK DEF Grown, Init
<1>2. CompletedIsHonest
  BY DEF CompletedIsHonest, Init
<1>3. ASSUME NEW r \in Runs PROVE Passed(r)
  BY ConstantsOK DEF Passed, Init
<1> QED
  BY <1>1, <1>2, <1>3 DEF HonestInv

LEMMA PassedKept ==
  ASSUME NEW q \in Runs, Passed(q), scan'[q].tab = scan[q].tab,
         pc'[q] = "idle" => pc[q] = "idle", pc'[q] = "finish" => pc[q] = "finish",
         done \subseteq done', errs \subseteq errs'
  PROVE  Passed(q)'
BY AccountedKept DEF Passed

LEMMA PassedForgotten ==
  ASSUME NEW R \in SUBSET Runs, Forget(R), NEW r \in R, pc'[r] \in Finished
  PROVE  Passed(r)'
<1>1. scan'[r].tab = 1
  BY DEF Forget
<1>2. \A i \in 1..Len(TableSeq) : ~(i < 1)
  BY ConstantsOK
<1> QED
  BY <1>1, <1>2 DEF Passed, Finished

\* A step of a run that is not an entry to a table keeps the run's place.
LEMMA PlaceKept ==
  ASSUME TypeOK, NEW r \in Runs, Step(r), ~NextTable(r), ~TablesDone(r),
         ~Commit(r), pc'[r] \notin Finished
  PROVE  scan'[r].tab = scan[r].tab /\ pc'[r] # "idle" /\ pc'[r] # "finish"
<1>type. /\ scan \in [Runs -> Scans] /\ pc \in [Runs -> PCs]
  BY DEF TypeOK, RunsOK
<1> USE <1>type DEF Goto
<1>1. CASE ExtractBatch(r)
  BY <1>1 DEF ExtractBatch, Scans
<1>2. CASE ExtractFails(r) \/ FlushBreaks(r) \/ CommitFails(r) \/ Finish(r)
  BY <1>2 DEF ExtractFails, FlushBreaks, CommitFails, Finish, Break, Finished
<1>3. CASE Acquire(r) \/ EntitiesDone(r) \/ Relate(r) \/ WriteOk(r) \/ WriteFails(r) \/ TechDone(r)
  BY <1>3 DEF Acquire, EntitiesDone, Relate, WriteOk, WriteFails, TechDone
<1>4. CASE ResolveFails(r)
  BY <1>4 DEF ResolveFails, Scans
<1>5. CASE Resolve(r) \/ Select(r) \/ TechRow(r) \/ TechFails(r)
  <2>1. PICK todo : scan' = [scan EXCEPT ![r].todo = todo]
    BY <1>5 DEF Resolve, Select, TechRow, TechFails
  <2>2. pc'[r] # "idle" /\ pc'[r] # "finish"
    BY <1>5 DEF Resolve, Select, TechRow, TechFails
  <2> QED
    BY <2>1, <2>2 DEF Scans
<1> QED
  BY <1>1, <1>2, <1>3, <1>4, <1>5 DEF Step

\* A run that leaves a table has accounted for every row the table held at first.
LEMMA TableRead ==
  ASSUME TypeOK, NEW r \in Runs, RunInv(r), Grown, NextTable(r), Table(r) \in Promised,
         NEW k \in 1..InitRows[Table(r)]
  PROVE  Accounted(Table(r), k)
<1>1. Table(r) \in Tables /\ ~Skipped(Table(r))
  BY DEF Promised, Skipped
<1>2. ods[Table(r)] <= scan[r].last /\ pc[r] = "extract" /\ scan[r].tab <= Len(TableSeq)
  BY <1>1 DEF NextTable
<1>3. InitRows[Table(r)] <= ods[Table(r)]
  BY <1>1 DEF Grown
<1>4. k \in 1..scan[r].last
  <2>1. InitRows[Table(r)] \in 0..MaxKey /\ MaxKey \in Nat
    BY <1>1, ConstantsOK
  <2>2. ods[Table(r)] \in 0..MaxKey /\ scan[r].last \in 0..MaxKey
    BY <1>1 DEF TypeOK, EnvOK, RunsOK, Marks, Scans
  <2> QED
    BY <1>2, <1>3, <2>1, <2>2
<1>5. scan[r].batch = {}
  BY <1>2 DEF RunInv, Shape, Batching, Inside
<1> QED
  BY <1>2, <1>4, <1>5 DEF RunInv, Reached

LEMMA PassedStep ==
  ASSUME TypeOK, NEW r \in Runs, RunInv(r), Grown, Passed(r), Start(r) \/ Step(r)
  PROVE  Passed(r)'
<1>type. /\ scan \in [Runs -> Scans] /\ scan[r] \in Scans /\ pc \in [Runs -> PCs]
         /\ tx[r].n \in Nat
  BY DEF TypeOK, RunsOK, Txs
<1>grow. done \subseteq done' /\ errs \subseteq errs'
  BY StepCommits
<1>1. CASE Start(r)
  <2>1. scan'[r].tab = 1 /\ pc'[r] = "extract"
    BY <1>1, <1>type DEF Start, Goto, AtTable
  <2>2. \A i \in 1..Len(TableSeq) : ~(i < 1)
    BY ConstantsOK
  <2> QED
    BY <2>1, <2>2 DEF Passed
<1>2. CASE NextTable(r)
  <2>1. /\ scan'[r].tab = scan[r].tab + 1 /\ pc'[r] = "extract" /\ pc' = pc
        /\ UNCHANGED store /\ scan[r].tab \in Nat
    BY <1>2, <1>type DEF NextTable, AtTable, Scans
  <2>2. ASSUME MaxRows = 0, NEW i \in 1..Len(TableSeq), i < scan[r].tab + 1,
               TableSeq[i] \in Promised, NEW k \in 1..InitRows[TableSeq[i]]
        PROVE  Accounted(TableSeq[i], k)
    <3>1. CASE i < scan[r].tab
      BY <2>2, <3>1 DEF Passed
    <3>2. CASE i = scan[r].tab
      BY <1>2, <2>2, <3>2, TableRead DEF Table
    <3>3. i \in Int /\ Len(TableSeq) \in Nat
      BY ConstantsOK
    <3> QED
      BY <2>1, <2>2, <3>1, <3>2, <3>3
  <2> QED
    BY <2>1, <2>2 DEF Passed, Accounted, store
<1>3. CASE TablesDone(r)
  <2>1. scan' = scan /\ pc'[r] = "finish" /\ scan[r].tab > Len(TableSeq) /\ UNCHANGED store
    BY <1>3, <1>type DEF TablesDone, Goto
  <2> QED
    BY <2>1 DEF Passed, Accounted, store
<1>4. CASE Commit(r)
  <2>1. MaxRows = 0 => pc'[r] = "extract"
    BY <1>4, <1>type, ConstantsOK DEF Commit, Goto, CapHit
  <2>2. pc'[r] # "idle"
    BY <1>4, <1>type DEF Commit, Goto
  <2>3. scan'[r].tab = scan[r].tab
    <3>1. scan' = [scan EXCEPT ![r].batch = {}, ![r].total = @ + tx[r].n]
      BY <1>4 DEF Commit
    <3> QED
      BY <3>1, <1>type DEF Scans
  <2> QED
    BY <2>1, <2>2, <2>3, <1>grow, AccountedKept DEF Passed
<1>5. CASE pc'[r] \in Finished
  <2>1. Forget({r})
    BY <1>5, <1>type DEF Finished, Goto, PCs, Inside, Start, Step, NextTable, TablesDone,
       ExtractBatch, ExtractFails, Acquire, Resolve, ResolveFails, Select, WriteOk,
       WriteFails, FlushBreaks, EntitiesDone, TechRow, TechDone, TechFails, Relate,
       Commit, CommitFails, Finish, Break
  <2> QED
    BY <1>5, <2>1, PassedForgotten
<1>6. CASE /\ Step(r) /\ ~NextTable(r) /\ ~TablesDone(r) /\ ~Commit(r)
           /\ pc'[r] \notin Finished
  BY <1>6, <1>grow, PlaceKept, PassedKept
<1> QED
  BY <1>1, <1>2, <1>3, <1>4, <1>5, <1>6

\* Only the last commit of a run that has passed all tables says "completed".
LEMMA CompletedStep ==
  ASSUME TypeOK, NEW r \in Runs, Passed(r), CompletedIsHonest, Start(r) \/ Step(r)
  PROVE  CompletedIsHonest'
<1>type. taskdb \in [Runs -> Statuses]
  BY DEF TypeOK, StoreOK
<1>grow. done \subseteq done' /\ errs \subseteq errs'
  BY StepCommits
<1>1. CASE Finish(r) /\ taskdb' = [taskdb EXCEPT ![r] = "completed"]
  <2>1. ASSUME MaxRows = 0, NEW t \in Promised \cap Listed, NEW k \in 1..InitRows[t]
        PROVE  Accounted(t, k)
    <3>1. PICK i \in 1..Len(TableSeq) : t = TableSeq[i]
      BY DEF Listed
    <3>2. scan[r].tab > Len(TableSeq) /\ scan[r].tab \in Nat /\ Len(TableSeq) \in Nat
      BY <1>1, <2>1, ConstantsOK DEF Finish, Passed, TypeOK, RunsOK, Scans
    <3>3. i < scan[r].tab
      BY <3>2
    <3> QED
      BY <2>1, <3>1, <3>3 DEF Passed
  <2> QED
    BY <1>1, <1>type, <1>grow, <2>1, AccountedKept DEF CompletedIsHonest
<1>2. CASE \A q \in Runs : taskdb'[q] = "completed" => taskdb[q] = "completed"
  BY <1>2, <1>grow, AccountedKept DEF CompletedIsHonest
<1>3. taskdb' = taskdb \/ (\E s \in {"failed", "running"} : taskdb' = [taskdb EXCEPT ![r] = s])
      \/ (Finish(r) /\ taskdb' = [taskdb EXCEPT ![r] = "completed"])
  <2>1. CASE Start(r) \/ NextTable(r) \/ TablesDone(r) \/ ExtractBatch(r) \/ Acquire(r)
             \/ Resolve(r) \/ Select(r) \/ WriteOk(r) \/ WriteFails(r) \/ EntitiesDone(r)
             \/ TechRow(r) \/ TechDone(r) \/ TechFails(r) \/ Relate(r)
    BY <2>1 DEF Start, NextTable, TablesDone, ExtractBatch, Acquire, Resolve, Select, WriteOk,
       WriteFails, EntitiesDone, TechRow, TechDone, TechFails, Relate, store
  <2>2. CASE ResolveFails(r) \/ Commit(r)
    BY <2>2 DEF ResolveFails, Commit, CommitTaskRow
  <2>3. CASE ExtractFails(r) \/ FlushBreaks(r) \/ CommitFails(r) \/ Finish(r)
    BY <2>3 DEF ExtractFails, FlushBreaks, CommitFails, Finish, Break, Close, store
  <2> QED
    BY <2>1, <2>2, <2>3 DEF Step
<1> QED
  BY <1>1, <1>2, <1>3, <1>type

LEMMA HonestNext ==
  TypeOK /\ LossInv /\ HonestInv /\ [Next]_vars => HonestInv'
<1> SUFFICES ASSUME TypeOK, LossInv, HonestInv, [Next]_vars PROVE HonestInv'
  OBVIOUS
<1>grow. done \subseteq done' /\ errs \subseteq errs'
  BY OnlyAdds
<1>1. Grown'
  <2>1. \/ ods' = ods
        \/ \E t \in Tables : ods' = [ods EXCEPT ![t] = @ + 1]
    BY DEF Next, AllRunsOver, Crash, OdsAppend, vars, env, Step, Start, NextTable, TablesDone,
       ExtractBatch, ExtractFails, Acquire, Resolve, ResolveFails, Select, WriteOk, WriteFails,
       FlushBreaks, EntitiesDone, TechRow, TechDone, TechFails, Relate, Commit, CommitFails, Finish
  <2>2. /\ ods \in [Tables -> 0..MaxKey] /\ MaxKey \in Nat
        /\ \A t \in Tables : InitRows[t] \in 0..MaxKey /\ InitRows[t] <= ods[t]
    BY ConstantsOK DEF TypeOK, EnvOK, Marks, HonestInv, Grown
  <2>3. ASSUME NEW u \in Tables PROVE InitRows[u] <= ods'[u]
    <3>1. ods'[u] = ods[u] \/ ods'[u] = ods[u] + 1
      BY <2>1, <2>2
    <3>2. InitRows[u] \in Int /\ ods[u] \in Int /\ InitRows[u] <= ods[u]
      BY <2>2
    <3> QED
      BY <3>1, <3>2
  <2> QED
    BY <2>3 DEF Grown
<1>2. ASSUME NEW q \in Runs PROVE Passed(q)'
  <2>1. CASE Start(q) \/ Step(q)
    BY <2>1, PassedStep DEF HonestInv, LossInv
  <2>2. CASE Kept(q)
    BY <2>2, <1>grow, PassedKept DEF HonestInv, Kept
  <2>3. ASSUME NEW R \in SUBSET Runs, q \in R, Forget(R), pc'[q] = "crashed"
        PROVE  Passed(q)'
    BY <2>3, PassedForgotten DEF Finished
  <2> QED
    BY <2>1, <2>2, <2>3, Cases
<1>3. CompletedIsHonest'
  <2>1. CASE \E r \in Runs : Start(r) \/ Step(r)
    BY <2>1, CompletedStep DEF HonestInv
  <2>2. CASE ~\E r \in Runs : Start(r) \/ Step(r)
    <3>1. UNCHANGED <<done, errs, taskdb>>
      BY <2>2 DEF Next, AllRunsOver, Crash, OdsAppend, vars, store
    <3> QED
      BY <3>1 DEF HonestInv, CompletedIsHonest, Accounted
  <2> QED
    BY <2>1, <2>2
<1> QED
  BY <1>1, <1>2, <1>3 DEF HonestInv

\* "completed" in a task row means, with no row cap and however many runs share
\* the source, that every row the tables held at first is in a profile or in an
\* error record -- provided commits are as durable as a celery run's.
THEOREM CompletedMeansAccounted ==
  ASSUME DurableCommits
  PROVE  Spec => []CompletedIsHonest
<1>1. TypeOK /\ LossInv /\ [Next]_vars => LossInv'
  BY DurableCommits, LossStep
<1>2. TypeOK /\ LossInv /\ HonestInv /\ [Next]_vars => HonestInv'
  BY HonestNext
<1>3. HonestInv => CompletedIsHonest
  BY DEF HonestInv
<1> QED
  BY <1>1, <1>2, <1>3, LossInit, HonestInit, TypeCorrect, PTL DEF Spec

(***************************************************************************)
(* The watermark keeps up with the profiles                                *)
(***************************************************************************)

\* The runs of the source follow one another, whoever starts them.
OneAtATime == IsFiniteSet(Runs) /\ MaxActive <= 1
\* No process dies in an HTTP run, whose watermark is committed only at its end.
MarksSurvive == CeleryRuns = Runs \/ "crash" \notin Faults

Solo == \A q \in Runs, r \in Runs : Running(q) /\ Running(r) => q = r

\* What the one run there is knows of the watermarks: those of the database, or
\* newer ones that wait for the commit at the end of an HTTP run.
Current(r) ==
  /\ \A t \in Tables : wm[t] <= src[r].snap[t]
  /\ src[r].dirty \/ src[r].snap = wm
  /\ Celery(r) => ~src[r].dirty

MarkInv == Solo /\ \A r \in Runs : Running(r) => Current(r)

LEMMA MarkInit == Init => MarkInv
BY DEF Init, MarkInv, Solo, Running

\* A step of a run that goes on or ends is a step of a running run.
LEMMA StepRuns ==
  ASSUME NEW r \in Runs, Step(r)
  PROVE  Running(r)
BY DEF Step, NextTable, TablesDone, ExtractBatch, ExtractFails, Acquire, Resolve, ResolveFails,
   Select, WriteOk, WriteFails, FlushBreaks, EntitiesDone, TechRow, TechDone, TechFails, Relate,
   Commit, CommitFails, Finish, Running, Finished

\* A run is started only when none is running.
LEMMA StartsAlone ==
  ASSUME OneAtATime, NEW r \in Runs, Start(r), NEW q \in Runs, MaxActive \in Nat
  PROVE  ~Running(q)
<1> DEFINE R == {x \in Runs : Running(x)}
<1>1. IsFiniteSet(R) /\ Cardinality(R) \in Nat
  <2>1. R \subseteq Runs
    OBVIOUS
  <2> HIDE DEF R
  <2> QED
    BY <2>1, Smaller DEF OneAtATime
<1>2. Cardinality(R) < MaxActive
  BY DEF Start
<1>3. R = {}
  <2> HIDE DEF R
  <2>1. Cardinality(R) = 0
    BY <1>1, <1>2 DEF OneAtATime
  <2> QED
    BY <1>1, <2>1, FS_EmptySet
<1> QED
  BY <1>3

\* How a step other than the commit of a batch leaves the watermark: alone, or as
\* the last commit of the run sets it.
LEMMA MarkLeft ==
  ASSUME TypeOK, NEW r \in Runs, Step(r), ~Commit(r)
  PROVE  /\ done' = done
         /\ \/ wm' = wm /\ src' = src /\ Running(r)'
            \/ /\ pc'[r] = "ended"
               /\ \/ wm' = src[r].snap
                  \/ wm' = wm /\ (Celery(r) \/ ~src[r].dirty)
                  \/ pc[r] = "commit" /\ wm' = Marked(r).snap
<1>type. pc \in [Runs -> PCs]
  BY DEF TypeOK, RunsOK
<1> USE <1>type DEF Goto
<1>1. CASE ExtractFails(r)
  BY <1>1 DEF ExtractFails, Close
<1>2. CASE FlushBreaks(r)
  BY <1>2 DEF FlushBreaks, Break, Close, store
<1>3. CASE CommitFails(r)
  BY <1>3 DEF CommitFails, Break, Close, Marked, store
<1>4. CASE Finish(r)
  <2>1. CASE Close(r, "completed", src[r]) /\ Goto(r, "ended")
    BY <2>1 DEF Close
  <2>2. CASE Break(r, src[r])
    BY <2>2 DEF Break, Close, store
  <2> QED
    BY <1>4, <2>1, <2>2 DEF Finish
<1>5. CASE NextTable(r) \/ TablesDone(r) \/ ExtractBatch(r) \/ Acquire(r) \/ Resolve(r)
           \/ ResolveFails(r)
  <2>1. UNCHANGED <<done, wm, src>>
    BY <1>5 DEF NextTable, TablesDone, ExtractBatch, Acquire, Resolve, ResolveFails, store
  <2>2. pc'[r] \in {"extract", "finish", "lock", "resolve", "tech", "select"}
    BY <1>5 DEF NextTable, TablesDone, ExtractBatch, Acquire, Resolve, ResolveFails
  <2> QED
    BY <2>1, <2>2 DEF Running, Finished
<1>6. CASE Select(r) \/ WriteOk(r) \/ WriteFails(r) \/ EntitiesDone(r)
  <2>1. UNCHANGED <<done, wm, src>>
    BY <1>6 DEF Select, WriteOk, WriteFails, EntitiesDone, store
  <2>2. pc'[r] \in {"select", "flush", "relate"}
    BY <1>6 DEF Select, WriteOk, WriteFails, EntitiesDone
  <2> QED
    BY <2>1, <2>2 DEF Running, Finished
<1>7. CASE TechRow(r) \/ TechDone(r) \/ TechFails(r) \/ Relate(r)
  <2>1. UNCHANGED <<done, wm, src>>
    BY <1>7 DEF TechRow, TechDone, TechFails, Relate, store
  <2>2. pc'[r] \in {"tech", "relate", "commit"}
    BY <1>7 DEF TechRow, TechDone, TechFails, Relate
  <2> QED
    BY <2>1, <2>2 DEF Running, Finished
<1> QED
  BY <1>1, <1>2, <1>3, <1>4, <1>5, <1>6, <1>7 DEF Step

\* The mark that the commit of a batch sets is at or after every older one, and
\* after every row of the batch.
LEMMA MarkedForward ==
  ASSUME TypeOK, Placed, NEW r \in Runs, BatchInv(r), pc[r] = "commit"
  PROVE  /\ \A t \in Tables : src[r].snap[t] <= Marked(r).snap[t]
         /\ \A x \in tx[r].done : x[2] <= Marked(r).snap[x[1]]
<1>1. src[r].snap \in Marks /\ scan[r] \in Scans /\ MaxKey \in Nat
  BY ConstantsOK DEF TypeOK, RunsOK, Srcs
<1>2. Table(r) \in Tables /\ scan[r].tab <= Len(TableSeq)
  BY TableType DEF TypeOK, Placed, Batching, Inside
<1>3. /\ src[r].snap[Table(r)] <= scan[r].last
      /\ \A k \in scan[r].batch : k <= scan[r].last
  BY <1>2 DEF BatchInv, Ahead
<1>4. Marked(r).snap = [src[r].snap EXCEPT ![Table(r)] = scan[r].last]
  BY DEF Marked
<1>5. \A t \in Tables : src[r].snap[t] \in Int
  BY <1>1 DEF Marks
<1>6. \A t \in Tables : src[r].snap[t] <= Marked(r).snap[t]
  BY <1>1, <1>2, <1>3, <1>4, <1>5 DEF Marks
<1>7. ASSUME NEW x \in tx[r].done PROVE x[2] <= Marked(r).snap[x[1]]
  <2>1. x[1] = Table(r) /\ x[2] \in scan[r].batch
    BY DEF BatchInv, Within, Rowset
  <2>2. Marked(r).snap[Table(r)] = scan[r].last
    BY <1>1, <1>2, <1>4 DEF Marks
  <2> QED
    BY <1>3, <2>1, <2>2
<1> QED
  BY <1>6, <1>7

\* While a run goes on no other one does.
LEMMA OthersIdle ==
  ASSUME OneAtATime, TypeOK, MarkInv, NEW r \in Runs, Start(r) \/ Step(r), NEW q \in Runs, q # r
  PROVE  ~Running(q) /\ ~Running(q)'
<1>1. Kept(q) /\ MaxActive \in Nat
  BY OthersKept, ConstantsOK DEF TypeOK
<1>2. ~Running(q)
  <2>1. CASE Start(r)
    BY <1>1, <2>1, StartsAlone
  <2>2. CASE Step(r)
    BY <2>2, StepRuns DEF MarkInv, Solo
  <2> QED
    BY <2>1, <2>2
<1> QED
  BY <1>1, <1>2 DEF Running, Kept

\* The one run of a source moves the watermark only forward, at the commit of a
\* batch or at its end.
LEMMA MarkStep ==
  ASSUME OneAtATime, TypeOK, Placed, NEW r \in Runs, BatchInv(r), MarkInv,
         Start(r) \/ Step(r)
  PROVE  /\ MarkInv'
         /\ \A t \in Tables : wm[t] <= wm'[t]
<1>type. /\ src \in [Runs -> Srcs] /\ pc \in [Runs -> PCs] /\ src[r].snap \in Marks
         /\ wm \in Marks /\ MaxKey \in Nat
  BY ConstantsOK DEF TypeOK, RunsOK, StoreOK, Srcs
<1>nums. \A t \in Tables : wm[t] \in Int /\ src[r].snap[t] \in Int
  BY <1>type DEF Marks
<1>solo. Solo' /\ \A q \in Runs : q # r => ~Running(q)'
  BY OthersIdle DEF Solo
<1>1. CASE Start(r)
  <2>1. wm' = wm /\ src'[r] = [snap |-> wm, dirty |-> FALSE]
    BY <1>1, <1>type DEF Start, store
  <2>2. Current(r)'
    BY <2>1, <1>nums DEF Current, Celery
  <2> QED
    BY <1>solo, <1>nums, <2>1, <2>2 DEF MarkInv
<1>2. CASE Commit(r)
  <2>1. /\ pc[r] = "commit" /\ Current(r)
        /\ wm' = IF Celery(r) THEN Marked(r).snap ELSE wm
        /\ src'[r] = [snap |-> Marked(r).snap, dirty |-> ~Celery(r)]
    BY <1>2, <1>type, StepRuns DEF Commit, MarkInv, Step
  <2>2. \A t \in Tables : src[r].snap[t] <= Marked(r).snap[t]
    BY <2>1, MarkedForward
  <2>3. \A t \in Tables : Marked(r).snap[t] \in Int
    <3>1. scan[r].last \in Int
      BY <1>type DEF TypeOK, RunsOK, Scans
    <3> QED
      BY <3>1, <1>type, <1>nums DEF Marked, Marks
  <2>4. \A t \in Tables : wm[t] <= Marked(r).snap[t]
    BY <1>nums, <2>1, <2>2, <2>3 DEF Current
  <2>5. \A t \in Tables : wm[t] <= wm'[t] /\ wm'[t] <= Marked(r).snap[t]
    BY <1>nums, <2>1, <2>3, <2>4
  <2>6. Current(r)'
    <3>1. src'[r].snap = Marked(r).snap
      BY <2>1
    <3>2. src'[r].dirty <=> ~Celery(r)
      <4> DEFINE http == ~Celery(r)
      <4>1. src'[r] = [snap |-> Marked(r).snap, dirty |-> http] /\ http \in BOOLEAN
        BY <2>1
      <4> HIDE DEF http
      <4>2. src'[r].dirty = http
        BY <4>1
      <4>3. src'[r].dirty <=> http
        BY <4>2
      <4> QED
        BY <4>3 DEF http
    <3>3. Celery(r) => wm' = Marked(r).snap
      BY <2>1
    <3> QED
      BY <2>5, <3>1, <3>2, <3>3 DEF Current, Celery
  <2> QED
    BY <1>solo, <2>5, <2>6 DEF MarkInv
<1>3. CASE Step(r) /\ ~Commit(r)
  <2>1. Current(r)
    BY <1>3, StepRuns DEF MarkInv
  <2>2. CASE wm' = wm /\ src' = src
    BY <1>solo, <1>nums, <2>1, <2>2 DEF MarkInv, Current, Celery
  <2>3. CASE pc'[r] = "ended" /\ wm' = wm
    BY <1>solo, <1>nums, <2>3 DEF MarkInv, Running, Finished
  <2>4. CASE pc'[r] = "ended" /\ wm' = src[r].snap
    BY <1>solo, <2>1, <2>4 DEF MarkInv, Running, Finished, Current
  <2>5. CASE pc'[r] = "ended" /\ pc[r] = "commit" /\ wm' = Marked(r).snap
    <3>1. \A t \in Tables : src[r].snap[t] <= wm'[t]
      BY <2>5, MarkedForward
    <3>2. \A t \in Tables : wm'[t] \in Int
      <4>1. scan[r].last \in Int
        BY <1>type DEF TypeOK, RunsOK, Scans
      <4> QED
        BY <2>5, <4>1, <1>type, <1>nums DEF Marked, Marks
    <3>3. \A t \in Tables : wm[t] <= wm'[t]
      BY <1>nums, <2>1, <3>1, <3>2 DEF Current
    <3> QED
      BY <1>solo, <2>5, <3>3 DEF MarkInv, Running, Finished
  <2> QED
    BY <1>3, <2>2, <2>3, <2>4, <2>5, MarkLeft
<1> QED
  BY <1>1, <1>2, <1>3

\* What is not a step of a run leaves the profiles and the marks alone, and a run
\* that then goes on as it was.
LEMMA MarkIdle ==
  ASSUME TypeOK, [Next]_vars, ~\E r \in Runs : Start(r) \/ Step(r)
  PROVE  /\ UNCHANGED <<done, wm>>
         /\ \A q \in Runs : Running(q)' => Running(q) /\ src'[q] = src[q]
<1>1. UNCHANGED <<done, wm>>
  BY DEF Next, AllRunsOver, Crash, OdsAppend, vars, store
<1>2. ASSUME NEW q \in Runs, Running(q)' PROVE Running(q) /\ src'[q] = src[q]
  <2>1. Kept(q)
    BY <1>2, Cases DEF Running, Finished
  <2> QED
    BY <1>2, <2>1 DEF Kept, Running
<1> QED
  BY <1>1, <1>2

LEMMA MarkNext ==
  ASSUME OneAtATime, TypeOK, Placed, \A r \in Runs : BatchInv(r), MarkInv, [Next]_vars
  PROVE  /\ MarkInv'
         /\ \A t \in Tables : wm[t] <= wm'[t]
<1>1. CASE \E r \in Runs : Start(r) \/ Step(r)
  BY <1>1, MarkStep
<1>2. CASE ~\E r \in Runs : Start(r) \/ Step(r)
  <2>1. MarkInv'
    BY <1>2, MarkIdle DEF MarkInv, Solo, Current, Celery
  <2>2. \A t \in Tables : wm[t] \in Int
    BY ConstantsOK DEF TypeOK, StoreOK, Marks
  <2> QED
    BY <1>2, <2>1, <2>2, MarkIdle
<1> QED
  BY <1>1, <1>2

LEMMA MarkForever ==
  ASSUME OneAtATime
  PROVE  Spec => []MarkInv
<1>1. TypeOK /\ Placed /\ (\A r \in Runs : BatchInv(r)) /\ MarkInv /\ [Next]_vars => MarkInv'
  BY MarkNext, OneAtATime
<1> QED
  BY <1>1, MarkInit, BatchForever, TypeCorrect, PTL DEF Spec

\* C2, for any tables in any order, celery runs and HTTP runs alike, and wherever
\* a process dies: while the runs of a source follow one another, no table is ever
\* resumed from an older position or from that of another table.
THEOREM MarksAdvance ==
  ASSUME OneAtATime
  PROVE  Spec => WatermarkAdvances
<1> DEFINE Forward == \A t \in Tables : wm[t] <= wm'[t]
<1>1. TypeOK /\ Placed /\ (\A r \in Runs : BatchInv(r)) /\ MarkInv /\ [Next]_vars => Forward
  BY MarkNext, OneAtATime
<1>2. WatermarkAdvances <=> [][Forward]_vars
  BY DEF WatermarkAdvances
<1>3. Spec => []MarkInv
  BY MarkForever, OneAtATime
<1> HIDE DEF Forward
<1> QED
  BY <1>1, <1>2, <1>3, BatchForever, TypeCorrect, PTL DEF Spec

\* No profile lies above the marks of the run there is, nor above those of the
\* database when there is none.
BelowInv ==
  /\ \A r \in Runs : Running(r) => \A x \in done : x[2] <= src[r].snap[x[1]]
  /\ CrashConsistent

LEMMA BelowStep ==
  ASSUME OneAtATime, TypeOK, Placed, NEW r \in Runs, BatchInv(r), MarkInv, BelowInv,
         Start(r) \/ Step(r)
  PROVE  BelowInv'
<1>type. /\ src \in [Runs -> Srcs] /\ pc \in [Runs -> PCs] /\ src[r].snap \in Marks
         /\ scan[r].last \in Int /\ MaxKey \in Nat
  BY ConstantsOK DEF TypeOK, RunsOK, Srcs, Scans
<1>rows. \A x \in done : x[1] \in Tables /\ x[2] \in Int
  BY <1>type DEF TypeOK, StoreOK, Rows, Keys
<1>nums. \A t \in Tables : src[r].snap[t] \in Int /\ Marked(r).snap[t] \in Int
  BY <1>type DEF Marked, Marks
<1>others. \A q \in Runs : q # r => ~Running(q) /\ ~Running(q)'
  BY OthersIdle
<1>1. CASE Start(r)
  <2>1. /\ done' = done /\ wm' = wm /\ src'[r].snap = wm /\ ~Running(r) /\ Running(r)'
    BY <1>1, <1>type DEF Start, Goto, Running, Finished, store
  <2>2. \A x \in done : x[2] <= wm[x[1]]
    BY <1>others, <2>1 DEF BelowInv, CrashConsistent
  <2> QED
    BY <1>others, <2>1, <2>2 DEF BelowInv, CrashConsistent
<1>2. CASE Commit(r)
  <2>1. /\ pc[r] = "commit" /\ done' = done \cup tx[r].done
        /\ src'[r].snap = Marked(r).snap /\ Running(r) /\ Running(r)'
    <3>1. pc'[r] \in {"finish", "extract"}
      BY <1>2, <1>type DEF Commit, Goto
    <3> QED
      BY <1>2, <1>type, <3>1 DEF Commit, Running, Finished
  <2>2. \A x \in done : x[2] <= src[r].snap[x[1]]
    BY <2>1 DEF BelowInv
  <2>3. ASSUME NEW x \in done PROVE x[2] <= Marked(r).snap[x[1]]
    <3>1. x[1] \in Tables /\ x[2] \in Int
      BY <1>rows
    <3>2. src[r].snap[x[1]] <= Marked(r).snap[x[1]] /\ x[2] <= src[r].snap[x[1]]
      BY <2>1, <2>2, <3>1, MarkedForward
    <3> QED
      BY <1>nums, <3>1, <3>2
  <2>4. \A x \in tx[r].done : x[2] <= Marked(r).snap[x[1]]
    BY <2>1, MarkedForward
  <2> QED
    BY <1>others, <2>1, <2>3, <2>4 DEF BelowInv, CrashConsistent
<1>3. CASE Step(r) /\ ~Commit(r)
  <2>1. /\ Running(r) /\ Current(r) /\ done' = done
        /\ \A x \in done : x[2] <= src[r].snap[x[1]]
    BY <1>3, StepRuns, MarkLeft DEF MarkInv, BelowInv
  <2>2. CASE wm' = wm /\ src' = src /\ Running(r)'
    BY <1>others, <2>1, <2>2 DEF BelowInv, CrashConsistent
  <2>3. CASE ~Running(r)'
    <3>1. CASE wm' = src[r].snap
      BY <1>others, <2>1, <2>3, <3>1 DEF BelowInv, CrashConsistent
    <3>2. CASE wm' = wm /\ (Celery(r) \/ ~src[r].dirty)
      BY <1>others, <2>1, <2>3, <3>2 DEF BelowInv, CrashConsistent, Current
    <3>3. CASE pc[r] = "commit" /\ wm' = Marked(r).snap
      <4>1. ASSUME NEW x \in done PROVE x[2] <= wm'[x[1]]
        <5>1. x[1] \in Tables /\ x[2] \in Int
          BY <1>rows
        <5>2. src[r].snap[x[1]] <= Marked(r).snap[x[1]] /\ x[2] <= src[r].snap[x[1]]
          BY <2>1, <3>3, <5>1, MarkedForward
        <5> QED
          BY <1>nums, <3>3, <5>1, <5>2
      <4> QED
        BY <1>others, <2>1, <2>3, <4>1 DEF BelowInv, CrashConsistent
    <3> QED
      BY <1>3, <3>1, <3>2, <3>3, <2>3, MarkLeft
  <2> QED
    BY <1>3, <2>1, <2>2, <2>3, MarkLeft DEF Running, Finished
<1> QED
  BY <1>1, <1>2, <1>3

\* A process that dies takes no HTTP run with it, and a celery run's marks are
\* those of the database.
LEMMA BelowIdle ==
  ASSUME MarksSurvive, TypeOK, MarkInv, BelowInv, [Next]_vars, ~\E r \in Runs : Start(r) \/ Step(r)
  PROVE  BelowInv'
<1>1. UNCHANGED <<done, wm>> /\ \A q \in Runs : Running(q)' => Running(q) /\ src'[q] = src[q]
  BY MarkIdle
<1>2. \A r \in Runs : Running(r)' => \A x \in done' : x[2] <= src'[r].snap[x[1]]
  BY <1>1 DEF BelowInv
<1>3. ASSUME \A r \in Runs : ~Running(r)' PROVE \A x \in done' : x[2] <= wm'[x[1]]
  <2>1. CASE \A r \in Runs : ~Running(r)
    BY <1>1, <2>1 DEF BelowInv, CrashConsistent
  <2>2. ASSUME NEW r \in Runs, Running(r) PROVE \A x \in done' : x[2] <= wm'[x[1]]
    <3>1. "crash" \in Faults
      <4>1. pc' # pc
        BY <1>3, <2>2 DEF Running
      <4>2. PICK p \in Procs : Crash(p)
        BY <1>2, <4>1 DEF Next, AllRunsOver, OdsAppend, vars
      <4> QED
        BY <4>2 DEF Crash, May
    <3>2. Celery(r)
      BY <3>1 DEF MarksSurvive, Celery
    <3> QED
      BY <1>1, <2>2, <3>2 DEF BelowInv, MarkInv, Current
  <2> QED
    BY <2>1, <2>2
<1> QED
  BY <1>2, <1>3 DEF BelowInv, CrashConsistent

\* C3's other half: while the runs of a source follow one another, and unless a
\* process dies in an HTTP run, no profile is above the watermark once none is
\* going on -- whatever failed in them.
THEOREM ProfilesStayBelow ==
  ASSUME OneAtATime, MarksSurvive
  PROVE  Spec => []CrashConsistent
<1>1. Init => BelowInv
  BY DEF Init, BelowInv, Running, CrashConsistent
<1>2. ASSUME TypeOK, Placed, \A r \in Runs : BatchInv(r), MarkInv, BelowInv, [Next]_vars
      PROVE  BelowInv'
  BY <1>2, BelowStep, BelowIdle, OneAtATime, MarksSurvive
<1>3. TypeOK /\ Placed /\ (\A r \in Runs : BatchInv(r)) /\ MarkInv /\ BelowInv /\ [Next]_vars
        => BelowInv'
  BY <1>2
<1>4. BelowInv => CrashConsistent
  BY DEF BelowInv
<1>5. Spec => []MarkInv
  BY MarkForever, OneAtATime
<1> QED
  BY <1>1, <1>3, <1>4, <1>5, BatchForever, TypeCorrect, PTL DEF Spec

(***************************************************************************)
(* Relations find their end nodes                                          *)
(***************************************************************************)

\* Neo4j answers, and an entity that was looked up is written or ends the run.
GraphAnswers == Faults \cap {"node", "graph", "write"} = {}

Names == Types \X (Ids \cup {NoId})
RelType == rel \in [Runs -> [named : SUBSET Names, trip : SUBSET (Names \X Entities)]]

\* A name in the index has its node, unless it is that of the entity at hand;
\* what a triple starts from was written.
Known(r) ==
  /\ \A e \in rel[r].named :
       Node(e) \in nodes \/ (pc[r] = "flush" /\ \A k \in ent[r].group : e = Ent(Table(r), k))
  /\ \A p \in rel[r].trip : Node(p[1]) \in nodes
  /\ pc[r] = "commit" => ResolvedTriples(r) \subseteq edges

RelateInv == RelType /\ \A r \in Runs : Known(r)

LEMMA RelateInit == Init => RelateInv
BY DEF Init, RelateInv, RelType, Known, NoRel

\* With a graph that answers, writing relations makes all their satellites and
\* every edge whose other end nodes are there.
LEMMA AllLinked ==
  ASSUME GraphAnswers, NEW pairs, WriteRelations(pairs)
  PROVE  /\ nodes \subseteq nodes' /\ edges \subseteq edges'
         /\ Linked(pairs, nodes \cup Satellites(pairs)) \subseteq edges'
BY DEF WriteRelations, May, GraphAnswers

\* The graph only grows, and a step touches the index of its own run only.
LEMMA GraphGrows ==
  ASSUME GraphAnswers, RelType, NEW r \in Runs, Start(r) \/ Step(r)
  PROVE  /\ nodes \subseteq nodes' /\ edges \subseteq edges'
         /\ RelType => \A q \in Runs : q # r => rel'[q] = rel[q]
<1>1. CASE Start(r) \/ NextTable(r) \/ TablesDone(r) \/ ExtractBatch(r) \/ Acquire(r)
           \/ Resolve(r) \/ ResolveFails(r) \/ WriteFails(r) \/ EntitiesDone(r) \/ TechRow(r)
  BY <1>1 DEF Start, NextTable, TablesDone, ExtractBatch, Acquire, Resolve, ResolveFails,
     WriteFails, EntitiesDone, TechRow, graph
<1>2. CASE ExtractFails(r) \/ FlushBreaks(r) \/ CommitFails(r)
  BY <1>2 DEF ExtractFails, FlushBreaks, CommitFails, Break, Forget, graph
<1>3. CASE Select(r) \/ WriteOk(r)
  BY <1>3 DEF Select, WriteOk, RelType, graph
<1>4. CASE TechDone(r) \/ TechFails(r) \/ Relate(r)
  <2>1. UNCHANGED graph \/ \E pairs : WriteRelations(pairs)
    BY <1>4 DEF TechDone, TechFails, Relate
  <2>2. rel' = rel
    BY <1>4 DEF TechDone, TechFails, Relate
  <2> QED
    BY <2>1, <2>2, AllLinked DEF graph
<1>5. CASE Commit(r)
  BY <1>5 DEF Commit, RelType, graph
<1>6. CASE Finish(r)
  <2>1. \E pairs : WriteRelations(pairs)
    BY <1>6 DEF Finish
  <2>2. Forget({r})
    BY <1>6 DEF Finish, Break
  <2> QED
    BY <2>1, <2>2, AllLinked DEF Forget
<1> QED
  BY <1>1, <1>2, <1>3, <1>4, <1>5, <1>6 DEF Step

LEMMA KnownKept ==
  ASSUME NEW q \in Runs, Known(q), Kept(q), rel'[q] = rel[q],
         nodes \subseteq nodes', edges \subseteq edges'
  PROVE  Known(q)'
<1>1. Table(q)' = Table(q) /\ ResolvedTriples(q)' = ResolvedTriples(q)
  BY DEF Table, Kept, ResolvedTriples, Endpoint
<1>2. \A k : Ent(Table(q), k)' = Ent(Table(q), k)
  BY <1>1 DEF Ent
<1> QED
  BY <1>1, <1>2 DEF Known, Kept

\* An empty index and no triples: nothing to know.
LEMMA KnownEmpty ==
  ASSUME NEW r \in Runs, rel'[r] = NoRel
  PROVE  Known(r)'
<1>1. ResolvedTriples(r)' = {}
  BY DEF ResolvedTriples, NoRel
<1> QED
  BY <1>1 DEF Known, NoRel

LEMMA RelTypeStep ==
  ASSUME TypeOK, Placed, RelType, NEW r \in Runs, Start(r) \/ Step(r)
  PROVE  RelType'
<1> DEFINE RelSet == [named : SUBSET Names, trip : SUBSET (Names \X Entities)]
<1>type. rel \in [Runs -> RelSet] /\ rel[r] \in RelSet /\ NoRel \in RelSet
  BY DEF RelType, NoRel
<1>1. CASE Start(r) \/ NextTable(r) \/ TablesDone(r) \/ ExtractBatch(r) \/ Acquire(r)
           \/ Resolve(r) \/ ResolveFails(r) \/ WriteFails(r) \/ EntitiesDone(r) \/ TechRow(r)
           \/ TechDone(r) \/ TechFails(r) \/ Relate(r)
  BY <1>1 DEF Start, NextTable, TablesDone, ExtractBatch, Acquire, Resolve, ResolveFails,
     WriteFails, EntitiesDone, TechRow, TechDone, TechFails, Relate, RelType
<1>2. CASE ExtractFails(r) \/ FlushBreaks(r) \/ CommitFails(r) \/ Finish(r)
  <2>1. Forget({r})
    BY <1>2 DEF ExtractFails, FlushBreaks, CommitFails, Finish, Break
  <2> HIDE DEF RelSet
  <2>2. rel' \in [Runs -> RelSet]
    BY <2>1, <1>type DEF Forget
  <2> QED
    BY <2>2 DEF RelType, RelSet
<1>3. CASE Commit(r)
  <2> HIDE DEF RelSet
  <2>1. rel' \in [Runs -> RelSet]
    BY <1>3, <1>type DEF Commit
  <2> QED
    BY <2>1 DEF RelType, RelSet
<1>names. ASSUME NEW k \in Keys, pc[r] \in {"select", "flush"} PROVE Ent(Table(r), k) \in Names
  <2>1. Table(r) \in Tables
    BY <1>names, TableType DEF TypeOK, Placed, Batching, Inside
  <2>2. <<Table(r), k>> \in Rows
    BY <2>1 DEF Rows
  <2> QED
    BY <2>1, <2>2, ConstantsOK DEF Ent, Names
<1>4. CASE Select(r)
  <2>1. PICK k \in First(scan[r].todo) :
          rel' = rel \/ rel' = [rel EXCEPT ![r].named = @ \cup {Ent(Table(r), k)}]
    BY <1>4 DEF Select
  <2>2. k \in Keys /\ pc[r] = "select"
    BY <1>4 DEF Select, First, TypeOK, RunsOK, Scans
  <2>3. Ent(Table(r), k) \in Names
    BY <2>2, <1>names
  <2>4. rel' \in [Runs -> RelSet]
    BY <2>1, <2>3, <1>type
  <2> QED
    BY <2>4 DEF RelType
<1>5. CASE WriteOk(r)
  <2>1. PICK k \in First(ent[r].group) :
          rel' = [rel EXCEPT ![r].trip = @ \cup ({Ent(Table(r), k)} \X Related[<<Table(r), k>>])]
    BY <1>5 DEF WriteOk
  <2>2. k \in Keys /\ pc[r] = "flush"
    BY <1>5 DEF WriteOk, First, TypeOK, RunsOK, Ents
  <2>3. Ent(Table(r), k) \in Names
    BY <2>2, <1>names
  <2>4. Related[<<Table(r), k>>] \subseteq Entities
    <3>1. Table(r) \in Tables
      BY <2>2, TableType DEF TypeOK, Placed, Batching, Inside
    <3> QED
      BY <2>2, <3>1, ConstantsOK DEF Rows
  <2>5. rel' \in [Runs -> RelSet]
    BY <2>1, <2>3, <2>4, <1>type
  <2> QED
    BY <2>5 DEF RelType
<1> QED
  BY <1>1, <1>2, <1>3, <1>4, <1>5 DEF Step

\* A step of a run keeps what is known of its relations.
LEMMA KnownStep ==
  ASSUME GraphAnswers, TypeOK, Placed, RelType, NEW r \in Runs, BatchInv(r), Known(r),
         Start(r) \/ Step(r)
  PROVE  Known(r)'
<1>type. /\ pc \in [Runs -> PCs] /\ scan \in [Runs -> Scans] /\ scan[r] \in Scans
         /\ ent \in [Runs -> Ents]
         /\ rel \in [Runs -> [named : SUBSET Names, trip : SUBSET (Names \X Entities)]]
  BY DEF TypeOK, RunsOK, RelType
<1>grow. nodes \subseteq nodes' /\ edges \subseteq edges'
  BY GraphGrows
<1>keep. ASSUME rel'[r] = rel[r], pc[r] # "flush", pc'[r] # "commit" PROVE Known(r)'
  BY <1>keep, <1>grow DEF Known
<1>1. CASE Start(r) \/ NextTable(r) \/ TablesDone(r) \/ ExtractBatch(r) \/ Acquire(r)
           \/ Resolve(r) \/ ResolveFails(r) \/ EntitiesDone(r) \/ TechRow(r)
           \/ TechDone(r) \/ TechFails(r)
  <2>1. rel' = rel /\ pc[r] # "flush" /\ pc'[r] # "commit"
    BY <1>1, <1>type DEF Start, NextTable, TablesDone, ExtractBatch, Acquire, Resolve,
       ResolveFails, EntitiesDone, TechRow, TechDone, TechFails, Goto
  <2> QED
    BY <2>1, <1>keep
<1>2. CASE ExtractFails(r) \/ FlushBreaks(r) \/ CommitFails(r) \/ Finish(r)
  <2>1. Forget({r})
    BY <1>2 DEF ExtractFails, FlushBreaks, CommitFails, Finish, Break
  <2> QED
    BY <2>1, KnownEmpty DEF Forget
<1>3. CASE Commit(r)
  BY <1>3, <1>type, KnownEmpty DEF Commit
<1>4. CASE WriteFails(r)
  BY <1>4 DEF WriteFails, May, GraphAnswers
<1>5. CASE Select(r)
  <2> DEFINE t == Table(r)
             todo == scan[r].todo
  <2>1. PICK k \in First(todo) :
          /\ scan' = [scan EXCEPT ![r].todo = @ \ Group(t, k, todo)]
          /\ IF EntityOf[<<t, k>>] = NoId
             THEN UNCHANGED <<pc, ent, rel>>
             ELSE /\ ent' = [ent EXCEPT ![r] =
                       [group |-> Group(t, k, todo),
                        seen |-> Ent(t, k) \in Written(done \cup tx[r].done)]]
                  /\ rel' = [rel EXCEPT ![r].named = @ \cup {Ent(t, k)}]
                  /\ Goto(r, "flush")
    BY <1>5 DEF Select
  <2>2. pc[r] = "select"
    BY <1>5 DEF Select
  <2>3. CASE EntityOf[<<t, k>>] = NoId
    BY <2>1, <2>2, <2>3, <1>keep
  <2>4. CASE EntityOf[<<t, k>>] # NoId
    <3>1. /\ pc'[r] = "flush" /\ ent'[r].group = Group(t, k, todo)
          /\ rel'[r].named = rel[r].named \cup {Ent(t, k)} /\ rel'[r].trip = rel[r].trip
      BY <2>1, <2>4, <1>type DEF Goto
    <3>2. Table(r)' = t
      BY <2>1, <1>type DEF Table, Scans
    <3>3. \A j \in Group(t, k, todo) : Ent(t, k) = Ent(t, j)
      BY <2>4 DEF Group, Ent
    <3>4. \A j : Ent(Table(r), j)' = Ent(t, j)
      BY <3>2 DEF Ent
    <3>5. \A e \in rel[r].named : Node(e) \in nodes
      BY <2>2 DEF Known
    <3> HIDE DEF t, todo
    <3>6. \A e \in rel'[r].named :
            Node(e) \in nodes' \/ (pc'[r] = "flush" /\ \A j \in ent'[r].group : e = Ent(t, j))
      BY <3>1, <3>3, <3>5, <1>grow
    <3>7. \A p \in rel'[r].trip : Node(p[1]) \in nodes'
      BY <3>1, <1>grow DEF Known
    <3> QED
      BY <3>1, <3>2, <3>4, <3>6, <3>7 DEF Known
  <2> QED
    BY <2>3, <2>4
<1>6. CASE WriteOk(r)
  <2> DEFINE t == Table(r)
  <2>1. PICK k \in First(ent[r].group) :
          /\ nodes' = nodes \cup {Node(Ent(t, k))}
          /\ rel' = [rel EXCEPT ![r].trip = @ \cup ({Ent(t, k)} \X Related[<<t, k>>])]
    BY <1>6 DEF WriteOk, May, GraphAnswers
  <2>2. k \in ent[r].group
    BY DEF First
  <2>3. /\ rel'[r].named = rel[r].named
        /\ rel'[r].trip = rel[r].trip \cup ({Ent(t, k)} \X Related[<<t, k>>])
    BY <2>1, <1>type
  <2>4. pc'[r] = "select"
    BY <1>6, <1>type DEF WriteOk, Goto
  <2>5. \A e \in rel[r].named : Node(e) \in nodes'
    BY <2>1, <2>2 DEF Known
  <2>6. \A p \in rel'[r].trip : Node(p[1]) \in nodes'
    BY <2>1, <2>3 DEF Known
  <2> QED
    BY <2>3, <2>4, <2>5, <2>6 DEF Known
<1>7. CASE Relate(r)
  <2> DEFINE all == ResolvedTriples(r)
  <2>1. pc[r] = "relate" /\ pc'[r] = "commit" /\ rel' = rel /\ WriteRelations(all)
    BY <1>7, <1>type DEF Relate, Goto
  <2>2. \A e \in rel[r].named : Node(e) \in nodes
    BY <2>1 DEF Known
  <2>3. all \subseteq Linked(all, nodes \cup Satellites(all))
    <3>1. SUFFICES ASSUME NEW p \in rel[r].trip, NEW x, x = <<Node(p[1]), Endpoint(r, p[2])>>,
                          x \in all
                   PROVE  x \in Linked(all, nodes \cup Satellites(all))
      BY DEF ResolvedTriples
    <3>2. x[1] \in nodes /\ x[2] = Endpoint(r, p[2])
      BY <3>1 DEF Known
    <3>3. CASE p[2] \in rel[r].named
      BY <2>2, <3>1, <3>2, <3>3 DEF Endpoint, Linked
    <3>4. CASE p[2] \notin rel[r].named
      <4>1. x[2][1] = "name"
        BY <3>2, <3>4 DEF Endpoint, Satellite
      <4>2. x[2] \in Satellites(all)
        BY <3>1, <4>1 DEF Satellites
      <4> QED
        BY <3>1, <3>2, <4>2 DEF Linked
    <3> QED
      BY <3>3, <3>4
  <2>4. all \subseteq edges'
    BY <2>1, <2>3, AllLinked
  <2>5. ResolvedTriples(r)' = all
    BY <2>1 DEF ResolvedTriples, Endpoint
  <2> HIDE DEF all
  <2> QED
    BY <2>1, <2>2, <2>4, <2>5, <1>grow DEF Known
<1> QED
  BY <1>1, <1>2, <1>3, <1>4, <1>5, <1>6, <1>7 DEF Step

LEMMA RelateNext ==
  ASSUME GraphAnswers, TypeOK, Placed, \A r \in Runs : BatchInv(r), RelateInv, [Next]_vars
  PROVE  RelateInv'
<1>1. ASSUME NEW r \in Runs, Start(r) \/ Step(r) PROVE RelateInv'
  <2>1. RelType'
    BY <1>1, RelTypeStep DEF RelateInv
  <2>2. ASSUME NEW q \in Runs PROVE Known(q)'
    <3>1. CASE q = r
      BY <1>1, <3>1, KnownStep DEF RelateInv
    <3>2. CASE q # r
      BY <1>1, <3>2, GraphGrows, OthersKept, KnownKept DEF RelateInv, TypeOK
    <3> QED
      BY <3>1, <3>2
  <2> QED
    BY <2>1, <2>2 DEF RelateInv
<1>2. ASSUME NEW p \in Procs, Crash(p) PROVE RelateInv'
  <2> DEFINE lost == {r \in Runs : ProcOf[r] = p /\ Running(r)}
  <2>1. /\ Forget(lost) /\ UNCHANGED graph
        /\ pc' = [r \in Runs |-> IF r \in lost THEN "crashed" ELSE pc[r]]
    BY <1>2 DEF Crash
  <2>2. rel' = [r \in Runs |-> IF r \in lost THEN NoRel ELSE rel[r]]
    BY <2>1 DEF Forget
  <2>3. RelType'
    BY <2>2 DEF RelateInv, RelType, NoRel
  <2>4. ASSUME NEW q \in Runs PROVE Known(q)'
    <3>1. CASE q \in lost
      BY <2>2, <3>1, KnownEmpty
    <3>2. CASE q \notin lost
      <4>1. Kept(q) /\ rel'[q] = rel[q]
        BY <2>1, <2>2, <3>2 DEF Kept, Forget
      <4> QED
        BY <2>1, <4>1, KnownKept DEF RelateInv, graph
    <3> QED
      BY <3>1, <3>2
  <2> QED
    BY <2>3, <2>4 DEF RelateInv
<1>3. CASE (\E t \in Tables : OdsAppend(t)) \/ UNCHANGED vars
  <2>1. UNCHANGED <<graph, pc, scan, ent, tx, src, rel>>
    BY <1>3 DEF OdsAppend, vars
  <2>2. ASSUME NEW q \in Runs PROVE Known(q)'
    BY <2>1, KnownKept DEF RelateInv, Kept, graph
  <2> QED
    BY <2>1, <2>2 DEF RelateInv, RelType
<1> QED
  BY <1>1, <1>2, <1>3 DEF Next, AllRunsOver

\* The order node, satellite, edge of a batch, for any relations and any
\* interleaving of runs: while Neo4j answers and no entity is refused without
\* ending its run, a batch commits with all its structured relations in the graph.
THEOREM RelationsAreLinked ==
  ASSUME GraphAnswers
  PROVE  Spec => []RelationsLand
<1>1. TypeOK /\ Placed /\ (\A r \in Runs : BatchInv(r)) /\ RelateInv /\ [Next]_vars => RelateInv'
  BY RelateNext, GraphAnswers
<1>2. RelateInv => RelationsLand
  BY DEF RelateInv, Known, RelationsLand
<1> QED
  BY <1>1, <1>2, RelateInit, BatchForever, TypeCorrect, PTL DEF Spec

(***************************************************************************)
(* Edges have their end nodes, and the edges from domains never do         *)
(***************************************************************************)

\* Profiles and satellites are all the nodes there are; an edge joins nodes.
Solid ==
  /\ \A n \in nodes : n[1] \in {"pk", "name"}
  /\ \A p \in edges : p[1] \in nodes /\ p[2] \in nodes

LEMMA SolidWrite ==
  ASSUME Solid, NEW pairs, WriteRelations(pairs)
  PROVE  Solid'
<1> DEFINE sats == Satellites(pairs)
           all == Linked(pairs, nodes \cup sats)
<1>1. \A n \in sats : n[1] = "name"
  BY DEF Satellites
<1>2. \A p \in all : p[1] \in nodes \cup sats /\ p[2] \in nodes \cup sats
  BY DEF Linked
<1>3. \/ nodes' = nodes \cup sats /\ edges' = edges \cup all
      \/ \E N \in SUBSET sats : nodes' = nodes \cup N /\ edges' = edges
      \/ \E E \in SUBSET all : nodes' = nodes \cup sats /\ edges' = edges \cup E
  BY DEF WriteRelations
<1> HIDE DEF sats, all
<1>4. CASE nodes' = nodes \cup sats /\ edges' = edges \cup all
  BY <1>1, <1>2, <1>4 DEF Solid
<1>5. CASE \E N \in SUBSET sats : nodes' = nodes \cup N /\ edges' = edges
  BY <1>1, <1>5 DEF Solid
<1>6. CASE \E E \in SUBSET all : nodes' = nodes \cup sats /\ edges' = edges \cup E
  <2>1. PICK E \in SUBSET all : nodes' = nodes \cup sats /\ edges' = edges \cup E
    BY <1>6
  <2> QED
    BY <1>1, <1>2, <2>1 DEF Solid
<1> QED
  BY <1>3, <1>4, <1>5, <1>6

LEMMA SolidStep ==
  ASSUME Solid, [Next]_vars
  PROVE  Solid'
<1>same. UNCHANGED graph => Solid'
  BY DEF Solid, graph
<1>1. ASSUME NEW r \in Runs, Start(r) \/ Step(r) PROVE Solid'
  <2>1. CASE Start(r) \/ NextTable(r) \/ TablesDone(r) \/ ExtractBatch(r) \/ Acquire(r)
             \/ Resolve(r) \/ ResolveFails(r) \/ Select(r) \/ WriteFails(r) \/ EntitiesDone(r)
             \/ TechRow(r) \/ Commit(r)
    BY <1>same, <2>1 DEF Start, NextTable, TablesDone, ExtractBatch, Acquire, Resolve,
       ResolveFails, Select, WriteFails, EntitiesDone, TechRow, Commit
  <2>2. CASE ExtractFails(r) \/ FlushBreaks(r) \/ CommitFails(r)
    BY <1>same, <2>2 DEF ExtractFails, FlushBreaks, CommitFails
  <2>3. CASE WriteOk(r)
    <3>1. PICK e : edges' = edges /\ (nodes' = nodes \/ nodes' = nodes \cup {Node(e)})
      BY <2>3 DEF WriteOk
    <3> QED
      BY <3>1 DEF Solid, Node
  <2>4. CASE TechDone(r) \/ TechFails(r) \/ Relate(r) \/ Finish(r)
    <3>1. UNCHANGED graph \/ \E pairs : WriteRelations(pairs)
      BY <2>4 DEF TechDone, TechFails, Relate, Finish
    <3> QED
      BY <1>same, <3>1, SolidWrite
  <2> QED
    BY <1>1, <2>1, <2>2, <2>3, <2>4 DEF Step
<1>2. CASE ~\E r \in Runs : Start(r) \/ Step(r)
  BY <1>2, <1>same DEF Next, AllRunsOver, Crash, OdsAppend, vars
<1> QED
  BY <1>1, <1>2

\* Why ContainmentLands fails, in every instance and not only in that of its run:
\* no step makes the node of an IPC domain, so no edge ever starts at one.
THEOREM ContainmentNeverLands ==
  Spec => [](\A d \in Domains : \A c \in Concepts : <<Domain(d), Concept(c)>> \notin edges)
<1>1. Init => Solid
  BY DEF Init, Solid
<1>2. Solid => \A d \in Domains : \A c \in Concepts : <<Domain(d), Concept(c)>> \notin edges
  BY DEF Solid, Domain
<1>3. Solid /\ [Next]_vars => Solid'
  BY SolidStep
<1> QED
  BY <1>1, <1>2, <1>3, PTL DEF Spec

(***************************************************************************)
(* What a run that ended says of itself                                    *)
(***************************************************************************)

Final(q) == taskdb[q] \in {"completed", "failed"}

\* The only steps that end a run without a final status: a celery run whose one
\* session is broken.
Unsaid(r) ==
  Celery(r) /\ (FlushBreaks(r) \/ CommitFails(r) \/ (Finish(r) /\ May("staging")))

LEMMA StepSays ==
  ASSUME TypeOK, NEW r \in Runs, Start(r) \/ Step(r)
  PROVE  /\ \A q \in Runs : q # r => taskdb'[q] = taskdb[q] /\ recdb'[q] = recdb[q]
         /\ pc'[r] = "ended" => Final(r)' \/ Unsaid(r)
         /\ pc'[r] # "ended" => taskdb'[r] \in {taskdb[r], "running"}
<1>type. /\ pc \in [Runs -> PCs] /\ taskdb \in [Runs -> Statuses]
         /\ recdb \in [Runs -> Nat]
  BY DEF TypeOK, RunsOK, StoreOK
<1>close. ASSUME NEW status \in {"completed", "failed"}, NEW source, Close(r, status, source)
          PROVE  /\ Final(r)'
                 /\ \A q \in Runs : q # r => taskdb'[q] = taskdb[q] /\ recdb'[q] = recdb[q]
  BY <1>close, <1>type DEF Close, Final
<1>break. ASSUME NEW source, Break(r, source)
          PROVE  /\ Celery(r) \/ Final(r)'
                 /\ \A q \in Runs : q # r => taskdb'[q] = taskdb[q] /\ recdb'[q] = recdb[q]
  <2>1. CASE Celery(r)
    BY <1>break, <2>1 DEF Break, store
  <2>2. CASE ~Celery(r)
    BY <1>break, <1>close, <2>2 DEF Break
  <2> QED
    BY <2>1, <2>2
<1>1. CASE Start(r) \/ NextTable(r) \/ TablesDone(r) \/ ExtractBatch(r) \/ Acquire(r)
           \/ Resolve(r)
  <2>1. taskdb' = taskdb /\ recdb' = recdb
    BY <1>1 DEF Start, NextTable, TablesDone, ExtractBatch, Acquire, Resolve, store
  <2>2. pc'[r] \in {"extract", "finish", "lock", "resolve", "tech", "select"}
    BY <1>1, <1>type DEF Start, NextTable, TablesDone, ExtractBatch, Acquire, Resolve, Goto
  <2> QED
    BY <2>1, <2>2
<1>2. CASE Select(r) \/ WriteOk(r) \/ WriteFails(r) \/ EntitiesDone(r)
  <2>1. taskdb' = taskdb /\ recdb' = recdb
    BY <1>2 DEF Select, WriteOk, WriteFails, EntitiesDone, store
  <2>2. pc'[r] \in {"select", "flush", "relate"}
    BY <1>2, <1>type DEF Select, WriteOk, WriteFails, EntitiesDone, Goto
  <2> QED
    BY <2>1, <2>2
<1>3. CASE TechRow(r) \/ TechDone(r) \/ TechFails(r) \/ Relate(r)
  <2>1. taskdb' = taskdb /\ recdb' = recdb
    BY <1>3 DEF TechRow, TechDone, TechFails, Relate, store
  <2>2. pc'[r] \in {"tech", "relate", "commit"}
    BY <1>3, <1>type DEF TechRow, TechDone, TechFails, Relate, Goto
  <2> QED
    BY <2>1, <2>2
<1>4. CASE ResolveFails(r) \/ Commit(r)
  <2>1. /\ \A q \in Runs : q # r => taskdb'[q] = taskdb[q] /\ recdb'[q] = recdb[q]
        /\ taskdb'[r] \in {taskdb[r], "running"}
    BY <1>4, <1>type DEF ResolveFails, Commit, CommitTaskRow
  <2>2. pc'[r] \in {"extract", "finish"}
    BY <1>4, <1>type DEF ResolveFails, Commit, Goto
  <2> QED
    BY <2>1, <2>2
<1>5. CASE ExtractFails(r)
  BY <1>5, <1>close, <1>type DEF ExtractFails, Goto
<1>6. CASE FlushBreaks(r) \/ CommitFails(r)
  <2>1. pc'[r] = "ended" /\ \E source : Break(r, source)
    BY <1>6, <1>type DEF FlushBreaks, CommitFails, Break, Goto
  <2> QED
    BY <1>6, <1>break, <2>1 DEF Unsaid
<1>7. CASE Finish(r)
  <2>1. pc'[r] = "ended"
    BY <1>7, <1>type DEF Finish, Break, Goto
  <2>2. CASE Close(r, "completed", src[r])
    BY <1>close, <2>1, <2>2
  <2>3. CASE May("staging") /\ Break(r, src[r])
    BY <1>7, <1>break, <2>1, <2>3 DEF Unsaid
  <2> QED
    BY <1>7, <2>2, <2>3 DEF Finish
<1> QED
  BY <1>1, <1>2, <1>3, <1>4, <1>5, <1>6, <1>7 DEF Step

\* A run that ended stays as it is, whatever the others do.
LEMMA SaidStep ==
  ASSUME TypeOK, [Next]_vars, NEW q \in Runs,
         pc[q] = "ended" => Final(q), ~Unsaid(q)
  PROVE  (pc[q] = "ended" => Final(q))'
<1>1. ASSUME NEW r \in Runs, Start(r) \/ Step(r) PROVE (pc[q] = "ended" => Final(q))'
  <2>1. CASE r = q
    BY <1>1, <2>1, StepSays
  <2>2. CASE r # q
    <3>1. pc'[q] = pc[q] /\ taskdb'[q] = taskdb[q]
      BY <1>1, <2>2, StepSays, OthersKept DEF Kept, TypeOK
    <3> QED
      BY <3>1 DEF Final
  <2> QED
    BY <2>1, <2>2
<1>2. CASE ~\E r \in Runs : Start(r) \/ Step(r)
  <2>1. taskdb' = taskdb
    BY <1>2 DEF Next, AllRunsOver, Crash, OdsAppend, vars, store
  <2>2. pc'[q] = "ended" => pc[q] = "ended"
    <3>1. Kept(q) \/ pc'[q] = "crashed"
      BY <1>2, Cases
    <3> QED
      BY <3>1 DEF Kept
  <2> QED
    BY <2>1, <2>2 DEF Final
<1> QED
  BY <1>1, <1>2

\* Only a run that has ended shows a final status.
EndsLast == \A q \in Runs : Final(q) => pc[q] = "ended"

RowStays(q) == Final(q) => taskdb'[q] = taskdb[q] /\ recdb'[q] = recdb[q]

LEMMA EndsLastStep ==
  ASSUME TypeOK, EndsLast, [Next]_vars
  PROVE  EndsLast' /\ \A q \in Runs : RowStays(q)
<1>1. ASSUME NEW r \in Runs, Start(r) \/ Step(r), NEW q \in Runs
      PROVE  (Final(q)' => pc'[q] = "ended") /\ RowStays(q)
  <2>1. CASE q = r
    <3>1. pc[r] # "ended"
      BY <1>1, StepRuns DEF Start, Running, Finished
    <3>2. ~Final(r)
      BY <3>1 DEF EndsLast
    <3>3. pc'[r] # "ended" => taskdb'[r] \in {taskdb[r], "running"}
      BY <1>1, StepSays
    <3>4. pc'[r] # "ended" => ~Final(r)'
      BY <3>2, <3>3 DEF Final
    <3> QED
      BY <2>1, <3>2, <3>4 DEF RowStays
  <2>2. CASE q # r
    <3>1. pc'[q] = pc[q] /\ taskdb'[q] = taskdb[q] /\ recdb'[q] = recdb[q]
      BY <1>1, <2>2, StepSays, OthersKept DEF Kept, TypeOK
    <3> QED
      BY <3>1 DEF EndsLast, RowStays, Final
  <2> QED
    BY <2>1, <2>2
<1>2. CASE \E r \in Runs : Start(r) \/ Step(r)
  BY <1>1, <1>2 DEF EndsLast
<1>3. CASE ~\E r \in Runs : Start(r) \/ Step(r)
  <2>1. taskdb' = taskdb /\ recdb' = recdb
    BY <1>3 DEF Next, AllRunsOver, Crash, OdsAppend, vars, store
  <2>2. ASSUME NEW q \in Runs, pc[q] = "ended" PROVE pc'[q] = "ended"
    BY <1>3, <2>2 DEF Next, AllRunsOver, Crash, OdsAppend, vars, Running, Finished
  <2> QED
    BY <2>1, <2>2 DEF EndsLast, RowStays, Final
<1> QED
  BY <1>2, <1>3

\* A task row that says "completed" or "failed" says so, and what it imported, for
\* ever: no batch of another run, no crash and no late commit touches it.
THEOREM FinalRowsStay ==
  Spec => [][\A r \in Runs : taskdb[r] \in {"completed", "failed"} =>
               taskdb'[r] = taskdb[r] /\ recdb'[r] = recdb[r]]_vars
<1> DEFINE Body == \A r \in Runs : taskdb[r] \in {"completed", "failed"} =>
                     taskdb'[r] = taskdb[r] /\ recdb'[r] = recdb[r]
<1>1. Init => EndsLast
  BY DEF Init, EndsLast, Final
<1>2. TypeOK /\ EndsLast /\ [Next]_vars => EndsLast' /\ Body
  BY EndsLastStep DEF RowStays, Final
<1>3. [][Body]_vars <=>
        [][\A r \in Runs : taskdb[r] \in {"completed", "failed"} =>
             taskdb'[r] = taskdb[r] /\ recdb'[r] = recdb[r]]_vars
  OBVIOUS
<1> HIDE DEF Body
<1> QED
  BY <1>1, <1>2, <1>3, TypeCorrect, PTL DEF Spec

\* An HTTP run that comes to its end, by whatever failure, has said how.
THEOREM HttpRunsAreMarked ==
  Spec => [](\A r \in Runs \ CeleryRuns :
               pc[r] = "ended" => taskdb[r] \in {"completed", "failed"})
<1> DEFINE Said == \A r \in Runs \ CeleryRuns : pc[r] = "ended" => Final(r)
<1>1. Init => Said
  BY DEF Init
<1>2. ASSUME TypeOK, Said, [Next]_vars PROVE Said'
  BY <1>2, SaidStep DEF Unsaid, Celery
<1>3. TypeOK /\ Said /\ [Next]_vars => Said'
  BY <1>2
<1>4. Said <=> \A r \in Runs \ CeleryRuns :
                pc[r] = "ended" => taskdb[r] \in {"completed", "failed"}
  BY DEF Final
<1> HIDE DEF Said
<1> QED
  BY <1>1, <1>3, <1>4, TypeCorrect, PTL DEF Spec

\* Nothing that breaks the one session of a celery run: every value fits its
\* column, and the database is there at each commit.
SessionHolds == Bad = {} /\ Faults \cap {"commit", "staging"} = {}

\* An entity that the SELECT did not find is still not there.
StillNew(r) ==
  pc[r] = "flush" /\ ~ent[r].seen =>
    \A k \in ent[r].group : Ent(Table(r), k) \notin Written(done)

LEMMA StillNewStep ==
  ASSUME TypeOK, NEW r \in Runs, Start(r) \/ Step(r), StillNew(r)
  PROVE  StillNew(r)'
<1>type. pc \in [Runs -> PCs] /\ ent \in [Runs -> Ents] /\ scan \in [Runs -> Scans]
  BY DEF TypeOK, RunsOK
<1>1. CASE Select(r)
  <2> DEFINE t == Table(r)
  <2>1. PICK k \in First(scan[r].todo) :
          /\ scan' = [scan EXCEPT ![r].todo = @ \ Group(t, k, scan[r].todo)]
          /\ IF EntityOf[<<t, k>>] = NoId THEN UNCHANGED <<pc, ent, rel>>
             ELSE ent' = [ent EXCEPT ![r] =
                    [group |-> Group(t, k, scan[r].todo),
                     seen |-> Ent(t, k) \in Written(done \cup tx[r].done)]]
    BY <1>1 DEF Select
  <2>2. pc[r] = "select" /\ done' = done
    BY <1>1 DEF Select, store
  <2>3. Table(r)' = t
    BY <2>1, <1>type DEF Table, Scans
  <2>4. CASE EntityOf[<<t, k>>] = NoId
    BY <2>1, <2>2, <2>4 DEF StillNew
  <2>5. CASE EntityOf[<<t, k>>] # NoId
    <3>1. /\ ent'[r].group = Group(t, k, scan[r].todo)
          /\ ent'[r].seen <=> Ent(t, k) \in Written(done \cup tx[r].done)
      <4> DEFINE found == Ent(t, k) \in Written(done \cup tx[r].done)
      <4>1. ent'[r] = [group |-> Group(t, k, scan[r].todo), seen |-> found] /\ found \in BOOLEAN
        BY <2>1, <2>5, <1>type
      <4> HIDE DEF found
      <4>2. ent'[r].group = Group(t, k, scan[r].todo) /\ ent'[r].seen = found
        BY <4>1
      <4>3. ent'[r].seen <=> found
        BY <4>2
      <4> QED
        BY <4>2, <4>3 DEF found
    <3>2. \A j \in Group(t, k, scan[r].todo) : Ent(t, j) = Ent(t, k)
      BY <2>5 DEF Group, Ent
    <3>3. Ent(t, k) \notin Written(done \cup tx[r].done) => Ent(t, k) \notin Written(done)
      BY DEF Written
    <3> HIDE DEF t
    <3>4. \A j : Ent(Table(r), j)' = Ent(t, j)
      BY <2>3 DEF Ent
    <3> QED
      BY <2>2, <3>1, <3>2, <3>3, <3>4 DEF StillNew, Written, Ent
  <2> QED
    BY <2>4, <2>5
<1>2. CASE ~Select(r)
  <2>1. pc'[r] # "flush"
    <3>1. CASE Start(r) \/ NextTable(r) \/ TablesDone(r) \/ ExtractBatch(r) \/ Acquire(r)
               \/ Resolve(r)
      BY <3>1, <1>type DEF Start, NextTable, TablesDone, ExtractBatch, Acquire, Resolve, Goto
    <3>2. CASE WriteOk(r) \/ WriteFails(r) \/ EntitiesDone(r)
      BY <3>2, <1>type DEF WriteOk, WriteFails, EntitiesDone, Goto
    <3>3. CASE TechRow(r) \/ TechDone(r) \/ TechFails(r) \/ Relate(r)
      BY <3>3, <1>type DEF TechRow, TechDone, TechFails, Relate, Goto
    <3>4. CASE ResolveFails(r) \/ Commit(r)
      BY <3>4, <1>type DEF ResolveFails, Commit, Goto
    <3>5. CASE ExtractFails(r) \/ FlushBreaks(r) \/ CommitFails(r) \/ Finish(r)
      BY <3>5, <1>type DEF ExtractFails, FlushBreaks, CommitFails, Finish, Break, Goto
    <3> QED
      BY <1>2, <3>1, <3>2, <3>3, <3>4, <3>5 DEF Step
  <2> QED
    BY <2>1 DEF StillNew
<1> QED
  BY <1>1, <1>2

\* A run alone, with values that fit, is refused nothing and waits for nobody.
LEMMA NothingBreaks ==
  ASSUME SessionHolds, TypeOK, MarkInv, LockInv, NEW r \in Runs, BatchInv(r), StillNew(r)
  PROVE  ~Unsaid(r)
<1> SUFFICES ASSUME FlushBreaks(r) PROVE FALSE
  BY DEF Unsaid, CommitFails, May, SessionHolds
<1>1. pc[r] = "flush" /\ (Refused(r) \/ Deadlocked(r))
  BY DEF FlushBreaks
<1>2. ~Refused(r)
  <2> DEFINE rows == Rowset(Table(r), ent[r].group)
  <2>1. rows \cap Bad = {}
    BY DEF SessionHolds
  <2>2. PICK k \in ent[r].group : TRUE
    BY <1>1 DEF BatchInv, Within
  <2>3. <<Table(r), k>> \in rows
    BY <2>2 DEF Rowset
  <2>4. Ent(Table(r), k) \in Written(rows)
    <3> HIDE DEF rows
    <3>1. \E x \in rows : x[1] = Table(r) /\ x[2] = k
      BY <2>3
    <3> QED
      BY <3>1 DEF Written
  <2>5. ent[r].seen \/ ~(Written(rows) \subseteq Written(done))
    BY <1>1, <2>2, <2>4 DEF StillNew
  <2> QED
    BY <2>1, <2>5 DEF Refused
<1>3. \A y \in Runs : y # r => Holds(y) = {}
  <2> SUFFICES ASSUME NEW y \in Runs, y # r PROVE Holds(y) = {}
    OBVIOUS
  <2>1. ~Running(y)
    BY <1>1 DEF MarkInv, Solo, Running, Finished
  <2>2. pc[y] \notin Writing
    BY <2>1 DEF Running, Finished, Writing
  <2>3. tx[y].done = {} /\ tx[y].evid = {} /\ tx[y].sp = {}
    BY <2>2 DEF LockInv, Pending
  <2> QED
    BY <2>3 DEF Holds, Written, TechProfiles
<1>4. ~Deadlocked(r)
  BY <1>3 DEF Deadlocked, WaitsFor
<1> QED
  BY <1>1, <1>2, <1>4

\* EndedIsMarked, which a refused row violates, holds of runs in sequence whose
\* session holds: a run that comes to its end has said how, wherever extraction,
\* resolution, the LLM, the graph or another process failed.
THEOREM UnbrokenRunsAreMarked ==
  ASSUME OneAtATime, SessionHolds
  PROVE  Spec => []EndedIsMarked
<1> DEFINE New == \A r \in Runs : StillNew(r)
           Inv == \A r \in Runs : BatchInv(r)
<1>1. Init => New /\ EndedIsMarked /\ LockInv
  BY LockInit DEF Init, StillNew, EndedIsMarked
<1>2. ASSUME TypeOK, MarkInv, New, [Next]_vars PROVE New'
  <2> SUFFICES ASSUME NEW q \in Runs PROVE StillNew(q)'
    OBVIOUS
  <2>1. ASSUME NEW r \in Runs, Start(r) \/ Step(r) PROVE StillNew(q)'
    <3>1. CASE q = r
      BY <1>2, <2>1, <3>1, StillNewStep
    <3>2. CASE q # r
      <4>1. ~Running(q)'
        BY <1>2, <2>1, <3>2, OthersIdle, OneAtATime
      <4> QED
        BY <4>1 DEF StillNew, Running, Finished
    <3> QED
      BY <3>1, <3>2
  <2>2. CASE ~\E r \in Runs : Start(r) \/ Step(r)
    <3>1. done' = done
      BY <1>2, <2>2, MarkIdle
    <3>2. Kept(q) \/ pc'[q] = "crashed"
      BY <1>2, <2>2, Cases
    <3>3. CASE Kept(q)
      <4>1. \A k : Ent(Table(q), k)' = Ent(Table(q), k)
        BY <3>3 DEF Ent, Table, Kept
      <4> QED
        BY <1>2, <3>1, <3>3, <4>1 DEF StillNew, Kept, Written, Ent
    <3>4. CASE pc'[q] = "crashed"
      BY <3>4 DEF StillNew
    <3> QED
      BY <3>2, <3>3, <3>4
  <2> QED
    BY <2>1, <2>2
<1>3. ASSUME TypeOK, MarkInv, LockInv, Inv, New, EndedIsMarked, [Next]_vars
      PROVE  EndedIsMarked'
  <2>1. \A q \in Runs : ~Unsaid(q)
    BY <1>3, NothingBreaks, SessionHolds
  <2> QED
    BY <1>3, <2>1, SaidStep DEF EndedIsMarked, Final
<1>4. TypeOK /\ MarkInv /\ New /\ [Next]_vars => New'
  BY <1>2
<1>5. TypeOK /\ MarkInv /\ LockInv /\ Inv /\ New /\ EndedIsMarked /\ [Next]_vars
        => EndedIsMarked'
  BY <1>3
<1>6. TypeOK /\ Placed /\ LockInv /\ [Next]_vars => LockInv'
  BY LockStep
<1>7. Spec => []MarkInv
  BY MarkForever, OneAtATime
<1>8. Spec => []Inv
  BY BatchForever
<1> HIDE DEF New, Inv
<1> QED
  BY <1>1, <1>4, <1>5, <1>6, <1>7, <1>8, TypeCorrect, PTL DEF Spec

(***************************************************************************)
(* No run goes round in circles: what its termination rests on.            *)
(***************************************************************************)

\* How far a run has come, and how far it is within a batch.
Stage(p) == CASE p = "idle" -> 0 [] p = "finish" -> 2 [] p \in Finished -> 3 [] OTHER -> 1
Phase(p) == CASE p = "lock" -> 1 [] p = "resolve" -> 2 [] p \in {"select", "flush", "tech"} -> 3
              [] p = "relate" -> 4 [] p = "commit" -> 5 [] OTHER -> 6

\* The entities of a batch: one fewer to do, or the one at hand is done.
NextEntity(r) ==
  \/ scan'[r].todo \subseteq scan[r].todo /\ scan'[r].todo # scan[r].todo
  \/ scan'[r].todo = scan[r].todo /\ pc[r] = "flush" /\ pc'[r] = "select"

\* A run comes forward: in its table, in its batch, to a further batch, to a further
\* table, or to its end.  Tables, rows and batches are finite, so it can do so only
\* so often.
Advances(r) ==
  \/ Stage(pc[r]) < Stage(pc'[r])
  \/ /\ Stage(pc'[r]) = Stage(pc[r])
     /\ \/ scan[r].tab < scan'[r].tab
        \/ /\ scan'[r].tab = scan[r].tab
           /\ \/ scan[r].last < scan'[r].last
              \/ /\ scan'[r].last = scan[r].last
                 /\ \/ Phase(pc[r]) < Phase(pc'[r])
                    \/ Phase(pc'[r]) = Phase(pc[r]) /\ NextEntity(r)

Stays(r) == pc'[r] = pc[r] /\ scan'[r] = scan[r]

LEMMA Stages ==
  /\ Stage("idle") = 0 /\ Stage("finish") = 2 /\ Stage("ended") = 3 /\ Stage("crashed") = 3
  /\ \A p \in Batching \cup {"extract"} : Stage(p) = 1
BY DEF Stage, Finished, Batching, Inside

LEMMA Phases ==
  /\ Phase("lock") = 1 /\ Phase("resolve") = 2 /\ Phase("relate") = 4 /\ Phase("commit") = 5
  /\ Phase("select") = 3 /\ Phase("flush") = 3 /\ Phase("tech") = 3 /\ Phase("extract") = 6
BY DEF Phase

\* A run that reaches a later stage, and one that reaches a later point of its batch.
LEMMA LaterStage ==
  ASSUME RunsOK, NEW r \in Runs, NEW to \in PCs, Goto(r, to), Stage(pc[r]) < Stage(to)
  PROVE  Advances(r)
<1>1. pc'[r] = to
  BY DEF Goto, RunsOK
<1> QED
  BY <1>1 DEF Advances

LEMMA LaterPhase ==
  ASSUME RunsOK, NEW r \in Runs, NEW to, Goto(r, to),
         pc[r] \in Batching, to \in Batching \cup {"extract"}, Phase(pc[r]) < Phase(to),
         scan'[r].tab = scan[r].tab, scan'[r].last = scan[r].last
  PROVE  Advances(r)
<1>1. pc'[r] = to
  BY DEF Goto, RunsOK
<1>2. Stage(pc[r]) = 1 /\ Stage(to) = 1
  BY Stages
<1> QED
  BY <1>1, <1>2 DEF Advances

LEMMA NextOne ==
  ASSUME RunsOK, NEW r \in Runs, pc[r] \in {"select", "flush", "tech"},
         pc'[r] \in {"select", "flush", "tech"},
         scan'[r].tab = scan[r].tab, scan'[r].last = scan[r].last, NextEntity(r)
  PROVE  Advances(r)
<1>1. Stage(pc[r]) = Stage(pc'[r]) /\ Phase(pc[r]) = Phase(pc'[r])
  BY Stages, Phases DEF Batching, Inside
<1> QED
  BY <1>1 DEF Advances

\* The rows of an entity are taken from what is to do.
LEMMA GroupMeets ==
  ASSUME NEW t, NEW K, NEW k \in K
  PROVE  k \in Group(t, k, K)
BY DEF Group


\* Every step of a run brings it forward, a failed one to its end.
LEMMA RunAdvances ==
  ASSUME TypeOK, NEW r \in Runs, Start(r) \/ Step(r)
  PROVE  Advances(r)
<1> DEFINE Points == {"extract", "finish", "ended"} \cup Batching
<1>a. RunsOK /\ EnvOK /\ scan[r] \in Scans /\ Points \subseteq PCs
  BY DEF TypeOK, RunsOK, PCs, Batching, Inside, Finished
<1>b. \A p \in {"resolve", "select", "flush", "tech", "relate", "commit", "lock"} : p \in Batching
  BY DEF Batching, Inside
<1>1. ASSUME NEW to \in Points, Goto(r, to), Stage(pc[r]) < Stage(to) PROVE Advances(r)
  BY <1>a, <1>1, LaterStage
<1>2. ASSUME NEW to \in Batching \cup {"extract"}, Goto(r, to), pc[r] \in Batching,
             Phase(pc[r]) < Phase(to), scan'[r].tab = scan[r].tab, scan'[r].last = scan[r].last
      PROVE  Advances(r)
  BY <1>a, <1>2, LaterPhase
<1>3. CASE Start(r)
  BY <1>1, <1>3, Stages DEF Start
<1>4. CASE NextTable(r)
  <2>1. pc' = pc /\ scan'[r].tab = scan[r].tab + 1
    BY <1>a, <1>4 DEF NextTable, AtTable, RunsOK
  <2>2. scan[r].tab \in Nat
    BY <1>a DEF Scans
  <2>3. scan[r].tab < scan'[r].tab
    BY <2>1, <2>2
  <2> QED
    BY <2>1, <2>3 DEF Advances
<1>5. CASE TablesDone(r)
  BY <1>1, <1>5, Stages DEF TablesDone
<1>6. CASE ExtractBatch(r)
  <2>1. /\ pc[r] = "extract" /\ pc'[r] = "lock" /\ scan[r].tab <= Len(TableSeq)
        /\ scan'[r].tab = scan[r].tab /\ scan'[r].last = UpTo(r) /\ ods[Table(r)] > scan[r].last
    BY <1>a, <1>6 DEF ExtractBatch, Goto, RunsOK
  <2>2. ods[Table(r)] \in Nat /\ scan[r].last \in Nat
    BY <1>a, <2>1, TableType DEF EnvOK, Marks, Scans
  <2>3. scan[r].last < scan'[r].last
    BY <2>1, <2>2, ConstantsOK DEF UpTo
  <2>4. Stage(pc[r]) = Stage(pc'[r])
    BY <1>b, <2>1, Stages
  <2> QED
    BY <2>1, <2>3, <2>4 DEF Advances
<1>7. CASE ExtractFails(r)
  BY <1>1, <1>7, Stages DEF ExtractFails
<1>8. CASE Acquire(r)
  <2>1. scan' = scan /\ pc[r] = "lock" /\ Goto(r, "resolve")
    BY <1>8 DEF Acquire
  <2> QED
    BY <1>2, <1>b, <2>1, Phases
<1>9. CASE Resolve(r)
  <2>1. scan'[r].tab = scan[r].tab /\ scan'[r].last = scan[r].last
    BY <1>a, <1>9 DEF Resolve, RunsOK, Scans
  <2>2. pc[r] = "resolve" /\ (Goto(r, "tech") \/ Goto(r, "select"))
    BY <1>9 DEF Resolve
  <2> QED
    BY <1>2, <1>b, <2>1, <2>2, Phases
<1>10. CASE ResolveFails(r)
  <2>1. scan'[r].tab = scan[r].tab /\ scan'[r].last = scan[r].last
    BY <1>a, <1>10 DEF ResolveFails, RunsOK, Scans
  <2>2. pc[r] = "resolve" /\ Goto(r, "extract")
    BY <1>10 DEF ResolveFails
  <2> QED
    BY <1>2, <1>b, <2>1, <2>2, Phases
<1>11. CASE Select(r)
  <2>1. PICK k \in First(scan[r].todo) :
          scan' = [scan EXCEPT ![r].todo = @ \ Group(Table(r), k, scan[r].todo)]
    BY <1>11 DEF Select
  <2>2. k \in scan[r].todo
    BY DEF First
  <2>3. k \in Group(Table(r), k, scan[r].todo)
    BY <2>2, GroupMeets
  <2>4. /\ scan'[r].tab = scan[r].tab /\ scan'[r].last = scan[r].last
        /\ scan'[r].todo = scan[r].todo \ Group(Table(r), k, scan[r].todo)
    BY <1>a, <2>1 DEF RunsOK, Scans
  <2>5. NextEntity(r)
    BY <2>2, <2>3, <2>4 DEF NextEntity
  <2>6. pc[r] = "select" /\ (pc' = pc \/ Goto(r, "flush"))
    BY <1>11 DEF Select
  <2>7. pc'[r] \in {"select", "flush"}
    BY <1>a, <2>6 DEF Goto, RunsOK
  <2> QED
    BY <1>a, <2>4, <2>5, <2>6, <2>7, NextOne
<1>12. CASE WriteOk(r) \/ WriteFails(r)
  <2>1. pc[r] = "flush" /\ pc'[r] = "select" /\ scan' = scan
    BY <1>a, <1>12 DEF WriteOk, WriteFails, Goto, RunsOK
  <2>2. NextEntity(r)
    BY <2>1 DEF NextEntity
  <2> QED
    BY <1>a, <2>1, <2>2, NextOne
<1>13. CASE FlushBreaks(r)
  <2>1. pc[r] = "flush" /\ Goto(r, "ended")
    BY <1>13 DEF FlushBreaks, Break
  <2> QED
    BY <1>1, <1>b, <2>1, Stages
<1>14. CASE EntitiesDone(r)
  <2>1. scan' = scan /\ pc[r] = "select" /\ Goto(r, "relate")
    BY <1>14 DEF EntitiesDone
  <2> QED
    BY <1>2, <1>b, <2>1, Phases
<1>15. CASE TechRow(r)
  <2>1. PICK k \in First(scan[r].todo) : scan' = [scan EXCEPT ![r].todo = @ \ {k}]
    BY <1>15 DEF TechRow
  <2>2. k \in scan[r].todo
    BY DEF First
  <2>3. /\ scan'[r].tab = scan[r].tab /\ scan'[r].last = scan[r].last
        /\ scan'[r].todo = scan[r].todo \ {k}
    BY <1>a, <2>1 DEF RunsOK, Scans
  <2>4. NextEntity(r)
    BY <2>2, <2>3 DEF NextEntity
  <2>5. pc[r] = "tech" /\ pc' = pc
    BY <1>15 DEF TechRow
  <2> QED
    BY <1>a, <2>3, <2>4, <2>5, NextOne
<1>16. CASE TechDone(r) \/ TechFails(r)
  <2>1. scan'[r].tab = scan[r].tab /\ scan'[r].last = scan[r].last
    BY <1>a, <1>16 DEF TechDone, TechFails, RunsOK, Scans
  <2>2. pc[r] = "tech" /\ Goto(r, "relate")
    BY <1>16 DEF TechDone, TechFails
  <2> QED
    BY <1>2, <1>b, <2>1, <2>2, Phases
<1>17. CASE Relate(r)
  <2>1. scan' = scan /\ pc[r] = "relate" /\ Goto(r, "commit")
    BY <1>17 DEF Relate
  <2> QED
    BY <1>2, <1>b, <2>1, Phases
<1>18. CASE Commit(r)
  <2>1. scan'[r].tab = scan[r].tab /\ scan'[r].last = scan[r].last
    BY <1>a, <1>18 DEF Commit, RunsOK, Scans
  <2>2. pc[r] = "commit" /\ (Goto(r, "extract") \/ Goto(r, "finish"))
    BY <1>18 DEF Commit
  <2>3. CASE Goto(r, "extract")
    BY <1>2, <1>b, <2>1, <2>2, <2>3, Phases
  <2>4. CASE Goto(r, "finish")
    BY <1>1, <1>b, <2>2, <2>4, Stages
  <2> QED
    BY <2>2, <2>3, <2>4
<1>19. CASE CommitFails(r)
  <2>1. pc[r] = "commit" /\ Goto(r, "ended")
    BY <1>19 DEF CommitFails, Break
  <2> QED
    BY <1>1, <1>b, <2>1, Stages
<1>20. CASE Finish(r)
  <2>1. pc[r] = "finish" /\ Goto(r, "ended")
    BY <1>20 DEF Finish, Break
  <2> QED
    BY <1>1, <2>1, Stages
<1> QED
  BY <1>3, <1>4, <1>5, <1>6, <1>7, <1>8, <1>9, <1>10, <1>11, <1>12, <1>13, <1>14, <1>15,
     <1>16, <1>17, <1>18, <1>19, <1>20 DEF Step

\* Every step of a run brings it forward, whatever fails in it, and nobody sets it
\* back: no other run, no growth of the ODS, and a dead process ends it.  With
\* NeverAtStandstill, this is why runs end.
THEOREM RunsOnlyAdvance ==
  Spec => [][\A r \in Runs : /\ Start(r) \/ Step(r) => Advances(r)
                             /\ Advances(r) \/ Stays(r)]_vars
<1> DEFINE Forward == \A r \in Runs : /\ Start(r) \/ Step(r) => Advances(r)
                                      /\ Advances(r) \/ Stays(r)
<1>1. ASSUME TypeOK, [Next]_vars, NEW r \in Runs
      PROVE  Advances(r) \/ Stays(r)
  <2>1. CASE Start(r) \/ Step(r)
    BY <1>1, <2>1, RunAdvances
  <2>2. ASSUME NEW q \in Runs, q # r, Start(q) \/ Step(q)
        PROVE  Stays(r)
    BY <1>1, <2>2, OthersKept DEF TypeOK, Kept, Stays
  <2>3. ASSUME NEW p \in Procs, Crash(p)
        PROVE  Advances(r) \/ Stays(r)
    <3> DEFINE lost == {q \in Runs : ProcOf[q] = p /\ Running(q)}
    <3>1. /\ Forget(lost)
          /\ pc' = [q \in Runs |-> IF q \in lost THEN "crashed" ELSE pc[q]]
      BY <2>3 DEF Crash
    <3>2. CASE r \in lost
      <4>1. pc'[r] = "crashed" /\ Running(r)
        BY <3>1, <3>2
      <4>2. pc[r] \in Batching \cup {"extract", "finish"}
        BY <1>1, <4>1 DEF TypeOK, RunsOK, PCs, Running, Batching
      <4>3. Stage(pc[r]) < Stage(pc'[r])
        BY <4>1, <4>2, Stages
      <4> QED
        BY <4>3 DEF Advances
    <3>3. CASE r \notin lost
      BY <3>1, <3>3 DEF Stays, Forget
    <3> QED
      BY <3>2, <3>3
  <2>4. ASSUME (\E t \in Tables : OdsAppend(t)) \/ AllRunsOver \/ UNCHANGED vars
        PROVE  Stays(r)
    BY <2>4 DEF OdsAppend, AllRunsOver, vars, Stays
  <2> QED
    BY <1>1, <2>1, <2>2, <2>3, <2>4 DEF Next
<1>2. TypeOK /\ [Next]_vars => Forward
  BY <1>1, RunAdvances
<1>3. [][Forward]_vars <=>
        [][\A r \in Runs : /\ Start(r) \/ Step(r) => Advances(r)
                           /\ Advances(r) \/ Stays(r)]_vars
  OBVIOUS
<1> HIDE DEF Forward
<1> QED
  BY <1>2, <1>3, TypeCorrect, PTL DEF Spec
=============================================================================
