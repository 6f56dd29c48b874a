-------------------------- MODULE Scheduler_proofs --------------------------
(***************************************************************************)
(* Proofs about Scheduler, for every number of ticks, requests and tasks   *)
(* and every table of crons: the types of its variables, that a task with  *)
(* a last_run_at was sent at that time, that users alone decide what they  *)
(* set, that a fire nobody served stays due, and that ticks in sequence    *)
(* send a task once per fire.                                              *)
(***************************************************************************)
EXTENDS Scheduler, TLAPS

LEMMA AnyTaskType == AnyTask \in Tasks
BY SchedulerConstants DEF AnyTask

LEMMA FirstTime == 1 \in Time
BY SchedulerConstants DEF Time

TickRec == [pc : {"idle", "select", "loop", "wait", "send"}, at : Time,
            todo : SUBSET Tasks, mark : [Tasks -> Marks], cur : Tasks]
RequestRec == [pc : {"idle", "sent"}, of : Tasks, at : Time, was : {"pending", "ok", "failed"}]

LEMMA RoundType == NoRound \in TickRec /\ NoRequest \in RequestRec
BY AnyTaskType, FirstTime DEF NoRound, NoRequest, TickRec, RequestRec, Marks

LEMMA RowType == ASSUME NEW t \in Tasks PROVE NewRow(t) \in Row
BY SchedulerConstants DEF NewRow, Row

\* A round that marks a row of its transaction keeps its type.
LEMMA MarkType ==
  ASSUME NEW T \in TickRec, NEW t \in Tasks, NEW m \in Marks, NEW c \in Tasks,
         NEW p \in {"send", "loop"}, NEW d \in SUBSET Tasks
  PROVE  /\ [T EXCEPT !.pc = p, !.cur = c, !.todo = d, !.mark[t] = m] \in TickRec
         /\ [T EXCEPT !.pc = p, !.cur = c, !.mark[t] = m] \in TickRec
<1>1. [T.mark EXCEPT ![t] = m] \in [Tasks -> Marks]
  BY DEF TickRec
<1>2. \A x \in [Tasks -> Marks] : [T EXCEPT !.pc = p, !.cur = c, !.todo = d, !.mark = x] \in TickRec
  BY DEF TickRec
<1>3. \A x \in [Tasks -> Marks] : [T EXCEPT !.pc = p, !.cur = c, !.mark = x] \in TickRec
  BY DEF TickRec
<1>4. [T EXCEPT !.pc = p, !.cur = c, !.todo = d, !.mark[t] = m]
        = [T EXCEPT !.pc = p, !.cur = c, !.todo = d, !.mark = [T.mark EXCEPT ![t] = m]]
  OBVIOUS
<1>5. [T EXCEPT !.pc = p, !.cur = c, !.mark[t] = m]
        = [T EXCEPT !.pc = p, !.cur = c, !.mark = [T.mark EXCEPT ![t] = m]]
  OBVIOUS
<1> QED
  BY <1>1, <1>2, <1>3, <1>4, <1>5

\* A dispatch only adds messages.
LEMMA DispatchAdds ==
  ASSUME sent \in [Tasks -> [Time -> Nat]], NEW t \in Tasks, NEW at \in Time, Dispatch(t, at)
  PROVE  /\ sent' \in [Tasks -> [Time -> Nat]]
         /\ \A u \in Tasks : \A x \in Time : sent[u][x] > 0 => sent'[u][x] > 0
         /\ t \in Known => sent'[t][at] > 0
<1>1. CASE t \in Known
  <2>1. sent' = [sent EXCEPT ![t][at] = @ + 1]
    BY <1>1 DEF Dispatch
  <2>2. sent[t] \in [Time -> Nat] /\ sent[t][at] \in Nat
    OBVIOUS
  <2>3. sent' = [sent EXCEPT ![t] = [sent[t] EXCEPT ![at] = sent[t][at] + 1]]
    BY <2>1
  <2>4. [sent[t] EXCEPT ![at] = sent[t][at] + 1] \in [Time -> Nat]
    BY <2>2
  <2>5. sent' \in [Tasks -> [Time -> Nat]]
    BY <2>3, <2>4
  <2>6. ASSUME NEW u \in Tasks, NEW x \in Time
        PROVE  sent'[u][x] = IF u = t /\ x = at THEN sent[u][x] + 1 ELSE sent[u][x]
    BY <2>2, <2>3
  <2>7. \A u \in Tasks : \A x \in Time : sent[u][x] \in Nat
    OBVIOUS
  <2> QED
    BY <2>2, <2>5, <2>6, <2>7
<1>2. CASE t \notin Known
  BY <1>2 DEF Dispatch
<1> QED
  BY <1>1, <1>2

LEMMA TypeInit == Init => TypeOK
<1> SUFFICES ASSUME Init PROVE TypeOK
  OBVIOUS
<1> USE DEF Init
<1>1. now \in Time
  BY FirstTime
<1>2. task \in [Tasks -> Row]
  <2>1. \A t \in Tasks : [NewRow(t) EXCEPT !.life = "new"] \in Row
    BY RowType DEF Row
  <2> QED
    BY <2>1, RowType
<1>3. sent \in [Tasks -> [Time -> Nat]]
  OBVIOUS
<1>4. tick \in [Ticks -> TickRec] /\ manual \in [Requests -> RequestRec]
  BY RoundType
<1>5. edits \in 0..MaxEdits /\ faults \in 0..MaxFaults
  BY SchedulerConstants
<1> QED
  BY <1>1, <1>2, <1>3, <1>4, <1>5 DEF TypeOK, TickRec, RequestRec

LEMMA TypeStep == TypeOK /\ [Next]_vars => TypeOK'
<1> SUFFICES ASSUME TypeOK, [Next]_vars PROVE TypeOK'
  OBVIOUS
<1>t. /\ now \in Time /\ task \in [Tasks -> Row] /\ sent \in [Tasks -> [Time -> Nat]]
      /\ tick \in [Ticks -> TickRec] /\ manual \in [Requests -> RequestRec]
      /\ edits \in 0..MaxEdits /\ faults \in 0..MaxFaults
  BY DEF TypeOK, TickRec, RequestRec
<1>c. MaxTime \in Nat \ {0} /\ MaxEdits \in Nat /\ MaxFaults \in Nat
  BY SchedulerConstants
<1> DEFINE Good == /\ now' \in Time /\ task' \in [Tasks -> Row] /\ sent' \in [Tasks -> [Time -> Nat]]
             /\ tick' \in [Ticks -> TickRec] /\ manual' \in [Requests -> RequestRec]
             /\ edits' \in 0..MaxEdits /\ faults' \in 0..MaxFaults
<1>fault. Fault => faults' \in 0..MaxFaults
  BY <1>t, <1>c DEF Fault
<1>1. ASSUME NEW w \in Ticks, TickStart(w) PROVE Good
  BY <1>1, <1>t DEF TickStart, TickRec
<1>2. ASSUME NEW w \in Ticks, TickSelect(w) PROVE Good
  BY <1>2, <1>t DEF TickSelect, TickRec
<1>3. ASSUME NEW w \in Ticks, TickFlush(w) PROVE Good
  <2>1. PICK t \in Tasks :
          tick' = [tick EXCEPT ![w].pc = "send", ![w].cur = t, ![w].todo = @ \ {t},
                              ![w].mark[t] = "running"]
    BY <1>3 DEF TickFlush
  <2>2. tick[w] \in TickRec /\ tick[w].todo \ {t} \in SUBSET Tasks
    BY <1>t DEF TickRec
  <2>3. [tick[w] EXCEPT !.pc = "send", !.cur = t, !.todo = tick[w].todo \ {t},
                        !.mark[t] = "running"] \in TickRec
    BY <2>2, MarkType DEF Marks
  <2>4. tick' = [tick EXCEPT ![w] = [tick[w] EXCEPT !.pc = "send", !.cur = t,
                               !.todo = tick[w].todo \ {t}, !.mark[t] = "running"]]
    BY <2>1, <1>t
  <2>5. tick' \in [Ticks -> TickRec]
    BY <1>t, <2>3, <2>4
  <2> QED
    BY <1>3, <1>t, <2>5 DEF TickFlush
<1>4. ASSUME NEW w \in Ticks, TickWait(w) PROVE Good
  <2>1. tick[w] \in TickRec /\ tick[w].todo \subseteq Tasks
    BY <1>t DEF TickRec
  <2>2. PICK t \in Tasks : tick' = [tick EXCEPT ![w].pc = "wait", ![w].cur = t,
                                                ![w].todo = @ \ {t}]
    BY <1>4, <2>1 DEF TickWait
  <2>3. tick' = [tick EXCEPT ![w] = [tick[w] EXCEPT !.pc = "wait", !.cur = t,
                                                    !.todo = tick[w].todo \ {t}]]
    BY <1>t, <2>2
  <2>4. [tick[w] EXCEPT !.pc = "wait", !.cur = t, !.todo = tick[w].todo \ {t}] \in TickRec
    BY <2>1 DEF TickRec
  <2>5. tick' \in [Ticks -> TickRec]
    BY <1>t, <2>3, <2>4
  <2> QED
    BY <1>4, <1>t, <2>5 DEF TickWait
<1>5. ASSUME NEW w \in Ticks, TickLost(w) PROVE Good
  BY RoundType, <1>5, <1>t DEF TickLost, TickRec
<1>6. ASSUME NEW w \in Ticks, TickSend(w) PROVE Good
  <2>1. tick[w].cur \in Tasks /\ tick[w].at \in Time
    BY <1>t DEF TickRec
  <2>2. sent' \in [Tasks -> [Time -> Nat]]
    BY <1>6, <1>t, <2>1, DispatchAdds DEF TickSend
  <2>3. [tick[w] EXCEPT !.pc = "loop", !.cur = AnyTask, !.mark[tick[w].cur] = "ok"] \in TickRec
    BY <1>t, <2>1, AnyTaskType, MarkType DEF Marks
  <2>4. tick' = [tick EXCEPT ![w] = [tick[w] EXCEPT !.pc = "loop", !.cur = AnyTask,
                                                    !.mark[tick[w].cur] = "ok"]]
    BY <1>6, <1>t DEF TickSend
  <2>5. tick' \in [Ticks -> TickRec]
    BY <1>t, <2>3, <2>4
  <2> QED
    BY <1>6, <1>t, <2>2, <2>5 DEF TickSend
<1>7. ASSUME NEW w \in Ticks, TickSendFails(w) PROVE Good
  <2>1. tick[w].cur \in Tasks
    BY <1>t DEF TickRec
  <2>2. [tick[w] EXCEPT !.pc = "loop", !.cur = AnyTask, !.mark[tick[w].cur] = "failed"] \in TickRec
    BY <1>t, <2>1, AnyTaskType, MarkType DEF Marks
  <2>3. tick' = [tick EXCEPT ![w] = [tick[w] EXCEPT !.pc = "loop", !.cur = AnyTask,
                                                    !.mark[tick[w].cur] = "failed"]]
    BY <1>7, <1>t DEF TickSendFails
  <2>4. tick' \in [Ticks -> TickRec]
    BY <1>t, <2>2, <2>3
  <2> QED
    BY <1>7, <1>t, <1>fault, <2>4 DEF TickSendFails
<1>8. ASSUME NEW w \in Ticks, TickCommit(w) PROVE Good
  <2>1. ASSUME NEW t \in Tasks PROVE Committed(t, w) \in Row
    <3>1. task[t] \in Row /\ tick[w].at \in 0..MaxTime
      BY <1>t, <1>c DEF TickRec, Time
    <3> QED
      BY <3>1 DEF Committed, Row
  <2> QED
    BY <1>8, <1>t, <2>1, RoundType DEF TickCommit
<1>9. ASSUME NEW w \in Ticks, TickCrash(w) PROVE Good
  BY RoundType, <1>fault, <1>9, <1>t DEF TickCrash, TickRec
<1>10. ASSUME NEW q \in Requests, RunNowSend(q) PROVE Good
  <2>1. PICK t \in Tasks :
          /\ manual' = [manual EXCEPT ![q] =
               [pc |-> "sent", of |-> t, at |-> now, was |-> task[t].status]]
          /\ Dispatch(t, now)
    BY <1>10 DEF RunNowSend
  <2>2. sent' \in [Tasks -> [Time -> Nat]]
    BY <1>t, <2>1, DispatchAdds
  <2>3. manual' \in [Requests -> RequestRec]
    BY <1>t, <2>1 DEF RequestRec, Row
  <2> QED
    BY <1>10, <1>t, <1>c, <2>2, <2>3 DEF RunNowSend
<1>11. ASSUME NEW q \in Requests, RunNowCommit(q) PROVE Good
  <2>1. manual[q].of \in Tasks /\ manual[q].at \in 0..MaxTime
    BY <1>t, <1>c DEF RequestRec, Time
  <2>2. manual' \in [Requests -> RequestRec]
    BY <1>11, <1>t, RoundType DEF RunNowCommit
  <2>3. task[manual[q].of] \in Row
    BY <1>t, <2>1
  <2>4. task' = task \/ \E st \in {"pending", "ok", "failed"} :
          task' = [task EXCEPT ![manual[q].of] =
                     [task[manual[q].of] EXCEPT !.last = manual[q].at, !.status = st]]
    BY <1>11, <1>t, <2>1, <2>3 DEF RunNowCommit, Row
  <2>5. \A st \in {"pending", "ok", "failed"} :
          [task[manual[q].of] EXCEPT !.last = manual[q].at, !.status = st] \in Row
    BY <2>1, <2>3 DEF Row
  <2>6. task' \in [Tasks -> Row]
    BY <1>t, <2>1, <2>4, <2>5
  <2> QED
    BY <1>11, <1>t, <2>2, <2>6 DEF RunNowCommit
<1>12. ASSUME NEW t \in Tasks, Edit(t) PROVE Good
  <2>1. task[t] \in Row
    BY <1>t
  <2>2. /\ [task[t] EXCEPT !.enabled = ~@] \in Row
        /\ \A c \in Crons : [task[t] EXCEPT !.cron = c] \in Row
        /\ [task[t] EXCEPT !.life = "gone"] \in Row
    BY <2>1 DEF Row
  <2>3. \E row \in Row : task' = [task EXCEPT ![t] = row]
    BY <1>12, <1>t, <2>2 DEF Edit
  <2>4. task' \in [Tasks -> Row]
    BY <1>t, <2>3
  <2> QED
    BY <1>12, <1>t, <1>c, <2>4 DEF Edit
<1>13. ASSUME NEW t \in Tasks, Create(t) PROVE Good
  BY RowType, <1>c, <1>13, <1>t DEF Create
<1>14. ASSUME Clock PROVE Good
  BY <1>c, <1>14, <1>t DEF Clock, Time
<1>15. ASSUME UNCHANGED vars PROVE Good
  BY <1>15, <1>t DEF vars
<1> QED
  <2>1. Good
    BY <1>1, <1>2, <1>3, <1>4, <1>5, <1>6, <1>7, <1>8, <1>9, <1>10, <1>11, <1>12, <1>13, <1>14, <1>15 DEF Next, TickStep
  <2> QED
    BY <2>1 DEF TypeOK, TickRec, RequestRec

\* The variables keep their types, whatever the number of ticks and requests.
THEOREM SchedulerTypeCorrect == Spec => []TypeOK
<1> QED
  BY TypeInit, TypeStep, PTL DEF Spec


(***************************************************************************)
(* last_run_at is written long after the message it records, by a tick or  *)
(* a request that may have been overtaken: what they are about to write is *)
(* already justified.                                                      *)
(***************************************************************************)
SentAt(t, x) == t \in Known => sent[t][x] > 0
Recorded == \A t \in Tasks : task[t].last # 0 => SentAt(t, task[t].last)
Dispatched == \A w \in Ticks : \A t \in Tasks :
                tick[w].mark[t] = "ok" => SentAt(t, tick[w].at)
Requested == \A q \in Requests :
               manual[q].pc = "sent" => SentAt(manual[q].of, manual[q].at)
\* A tick that has not selected yet has no marks of an earlier time.
Fresh == \A w \in Ticks : tick[w].pc \in {"idle", "select"} =>
           \A t \in Tasks : tick[w].mark[t] = "none"
RunInv == Recorded /\ Dispatched /\ Requested /\ Fresh

LEMMA RunInit == Init => RunInv
BY SchedulerConstants DEF Init, RunInv, Recorded, Dispatched, Requested, Fresh, NewRow,
   NoRound, NoRequest


\* What is sent stays sent.
LEMMA KeepSent ==
  ASSUME TypeOK,
         \A u \in Tasks : \A x \in Time : sent[u][x] > 0 => sent'[u][x] > 0
  PROVE  /\ \A t \in Tasks : \A x \in Time : SentAt(t, x) => SentAt(t, x)'
         /\ task' = task /\ Recorded => Recorded'
         /\ tick' = tick /\ Dispatched => Dispatched'
         /\ manual' = manual /\ Requested => Requested'
<1>1. \A t \in Tasks : \A x \in Time : SentAt(t, x) => SentAt(t, x)'
  BY DEF SentAt
<1>2. \A t \in Tasks : task[t].last # 0 => task[t].last \in Time
  BY SchedulerConstants DEF TypeOK, Row, Time
<1>3. \A w \in Ticks : tick[w].at \in Time
  BY DEF TypeOK
<1>4. \A q \in Requests : manual[q].of \in Tasks /\ manual[q].at \in Time
  BY DEF TypeOK
<1>5. task' = task /\ Recorded => Recorded'
  BY <1>1, <1>2 DEF Recorded
<1>6. tick' = tick /\ Dispatched => Dispatched'
  BY <1>1, <1>3 DEF Dispatched
<1>7. manual' = manual /\ Requested => Requested'
  BY <1>1, <1>4 DEF Requested
<1> QED
  BY <1>1, <1>5, <1>6, <1>7

LEMMA RunStep == TypeOK /\ RunInv /\ [Next]_vars => RunInv'
<1> SUFFICES ASSUME TypeOK, RunInv, [Next]_vars PROVE RunInv'
  OBVIOUS
<1>t. /\ now \in Time /\ task \in [Tasks -> Row] /\ sent \in [Tasks -> [Time -> Nat]]
      /\ tick \in [Ticks -> TickRec] /\ manual \in [Requests -> RequestRec]
  BY DEF TypeOK, TickRec, RequestRec
<1>i. Recorded /\ Dispatched /\ Requested /\ Fresh
  BY DEF RunInv
<1>same. sent' = sent => \A t, x : SentAt(t, x)' = SentAt(t, x)
  BY DEF SentAt

<1>1. ASSUME NEW w \in Ticks, TickStart(w) PROVE RunInv'
  <2>1. sent' = sent /\ task' = task /\ manual' = manual
    BY <1>1 DEF TickStart
  <2>2. Recorded' /\ Requested'
    BY <2>1, <1>i DEF Recorded, Requested, SentAt
  <2>3. Dispatched'
    BY <1>1, <1>t, <1>i, <2>1, <1>same DEF Dispatched, Fresh, TickStart, TickRec
  <2>4. Fresh'
    BY <1>1, <1>t, <1>i DEF Fresh, TickStart, TickRec
  <2> QED
    BY <2>2, <2>3, <2>4 DEF RunInv
<1>2. ASSUME NEW w \in Ticks, TickSelect(w) PROVE RunInv'
  <2>1. sent' = sent /\ task' = task /\ manual' = manual
    BY <1>2 DEF TickSelect
  <2>2. Recorded' /\ Requested'
    BY <2>1, <1>i DEF Recorded, Requested, SentAt
  <2>3. Dispatched'
    BY <1>2, <1>t, <1>i, <2>1, <1>same DEF Dispatched, Fresh, TickSelect, TickRec
  <2>4. Fresh'
    BY <1>2, <1>t, <1>i DEF Fresh, TickSelect, TickRec
  <2> QED
    BY <2>2, <2>3, <2>4 DEF RunInv
<1>3. ASSUME NEW w \in Ticks, TickFlush(w) PROVE RunInv'
  <2>1. sent' = sent /\ task' = task /\ manual' = manual
    BY <1>3 DEF TickFlush
  <2>2. Recorded' /\ Requested'
    BY <2>1, <1>i DEF Recorded, Requested, SentAt
  <2>3. Dispatched'
    BY <1>3, <1>t, <1>i, <2>1, <1>same DEF Dispatched, Fresh, TickFlush, TickRec, Flushes
  <2>4. Fresh'
    BY <1>3, <1>t, <1>i DEF Fresh, TickFlush, TickRec, Flushes
  <2> QED
    BY <2>2, <2>3, <2>4 DEF RunInv
<1>4. ASSUME NEW w \in Ticks, TickWait(w) PROVE RunInv'
  <2>1. sent' = sent /\ task' = task /\ manual' = manual
    BY <1>4 DEF TickWait
  <2>2. Recorded' /\ Requested'
    BY <2>1, <1>i DEF Recorded, Requested, SentAt
  <2>3. Dispatched'
    BY <1>4, <1>t, <1>i, <2>1, <1>same DEF Dispatched, Fresh, TickWait, TickRec
  <2>4. Fresh'
    BY <1>4, <1>t, <1>i DEF Fresh, TickWait, TickRec
  <2> QED
    BY <2>2, <2>3, <2>4 DEF RunInv
<1>5. ASSUME NEW w \in Ticks, TickLost(w) PROVE RunInv'
  <2>1. sent' = sent /\ task' = task /\ manual' = manual
    BY <1>5 DEF TickLost
  <2>2. Recorded' /\ Requested'
    BY <2>1, <1>i DEF Recorded, Requested, SentAt
  <2>3. Dispatched'
    BY <1>5, <1>t, <1>i, <2>1, <1>same DEF Dispatched, Fresh, TickLost, TickRec, NoRound
  <2>4. Fresh'
    BY <1>5, <1>t, <1>i DEF Fresh, TickLost, TickRec, NoRound
  <2> QED
    BY <2>2, <2>3, <2>4 DEF RunInv
<1>6. ASSUME NEW w \in Ticks, TickSend(w) PROVE RunInv'
  <2>1. tick[w].cur \in Tasks /\ tick[w].at \in Time /\ Dispatch(tick[w].cur, tick[w].at)
    BY <1>6, <1>t DEF TickSend, TickRec
  <2>2. /\ \A u \in Tasks : \A x \in Time : sent[u][x] > 0 => sent'[u][x] > 0
        /\ tick[w].cur \in Known => sent'[tick[w].cur][tick[w].at] > 0
    <3>1. tick[w].cur \in Known => sent'[tick[w].cur][tick[w].at] > 0
      BY <1>t, <2>1, DispatchAdds
    <3>2. \A u \in Tasks : \A x \in Time : sent[u][x] > 0 => sent'[u][x] > 0
      BY <1>t, <2>1, DispatchAdds
    <3> QED
      BY <3>1, <3>2
  <2>3. task' = task /\ manual' = manual
    BY <1>6 DEF TickSend
  <2>4. Recorded' /\ Requested'
    BY <1>i, <2>2, <2>3, KeepSent
  <2>5. Dispatched'
    <3>1. \A t \in Tasks : \A x \in Time : SentAt(t, x) => SentAt(t, x)'
      BY <2>2, KeepSent
    <3> SUFFICES ASSUME NEW v \in Ticks, NEW t \in Tasks, tick'[v].mark[t] = "ok"
                 PROVE  SentAt(t, tick[v].at)'
      BY DEF Dispatched
    <3>2. tick'[v].at = tick[v].at /\ tick[v].at \in Time
      BY <1>6, <1>t DEF TickSend, TickRec
    <3>3. CASE v = w /\ t = tick[w].cur
      BY <3>2, <3>3, <2>2 DEF SentAt
    <3>4. CASE ~(v = w /\ t = tick[w].cur)
      <4>1. tick[v].mark[t] = "ok"
        BY <3>4, <1>6, <1>t DEF TickSend, TickRec
      <4>2. SentAt(t, tick[v].at)'  <=> (t \in Known => sent'[t][tick'[v].at] > 0)
        BY DEF SentAt
      <4>3. t \in Known => sent[t][tick[v].at] > 0
        BY <4>1, <1>i DEF Dispatched, SentAt
      <4> QED
        BY <4>2, <4>3, <3>2, <2>2
    <3> QED
      BY <3>3, <3>4
  <2>6. Fresh'
    BY <1>6, <1>t, <1>i DEF Fresh, TickSend, TickRec
  <2> QED
    BY <2>4, <2>5, <2>6 DEF RunInv
<1>7. ASSUME NEW w \in Ticks, TickSendFails(w) PROVE RunInv'
  <2>1. sent' = sent /\ task' = task /\ manual' = manual
    BY <1>7 DEF TickSendFails
  <2>2. Recorded' /\ Requested'
    BY <2>1, <1>i DEF Recorded, Requested, SentAt
  <2>3. Dispatched'
    BY <1>7, <1>t, <1>i, <2>1, <1>same DEF Dispatched, Fresh, TickSendFails, TickRec
  <2>4. Fresh'
    BY <1>7, <1>t, <1>i DEF Fresh, TickSendFails, TickRec
  <2> QED
    BY <2>2, <2>3, <2>4 DEF RunInv
<1>8. ASSUME NEW w \in Ticks, TickCommit(w) PROVE RunInv'
  <2>1. sent' = sent /\ manual' = manual /\ tick' = [tick EXCEPT ![w] = NoRound]
    BY <1>8 DEF TickCommit
  <2>2. Recorded'
    <3> SUFFICES ASSUME NEW t \in Tasks, task'[t].last # 0
                 PROVE  SentAt(t, task'[t].last)
      BY <1>same, <2>1 DEF Recorded, SentAt
    <3>1. task'[t] = Committed(t, w) /\ task[t] \in Row
      BY <1>8, <1>t DEF TickCommit
    <3>2. \/ task'[t].last = task[t].last
          \/ tick[w].mark[t] = "ok" /\ task'[t].last = tick[w].at
      BY <3>1 DEF Committed, Row
    <3> QED
      BY <3>2, <1>i DEF Recorded, Dispatched
  <2>3. Requested'
    BY <2>1, <1>i DEF Requested, SentAt
  <2>4. Dispatched'
    BY <1>t, <1>i, <2>1, <1>same DEF Dispatched, NoRound
  <2>5. Fresh'
    BY <1>t, <1>i, <2>1 DEF Fresh, NoRound
  <2> QED
    BY <2>2, <2>3, <2>4, <2>5 DEF RunInv
<1>9. ASSUME NEW w \in Ticks, TickCrash(w) PROVE RunInv'
  <2>1. sent' = sent /\ task' = task /\ manual' = manual
    BY <1>9 DEF TickCrash
  <2>2. Recorded' /\ Requested'
    BY <2>1, <1>i DEF Recorded, Requested, SentAt
  <2>3. Dispatched'
    BY <1>9, <1>t, <1>i, <2>1, <1>same DEF Dispatched, Fresh, TickCrash, TickRec, NoRound
  <2>4. Fresh'
    BY <1>9, <1>t, <1>i DEF Fresh, TickCrash, TickRec, NoRound
  <2> QED
    BY <2>2, <2>3, <2>4 DEF RunInv
<1>10. ASSUME NEW q \in Requests, RunNowSend(q) PROVE RunInv'
  <2>1. PICK t \in Tasks :
          /\ manual' = [manual EXCEPT ![q] =
               [pc |-> "sent", of |-> t, at |-> now, was |-> task[t].status]]
          /\ Dispatch(t, now)
    BY <1>10 DEF RunNowSend
  <2>2. /\ \A u \in Tasks : \A x \in Time : sent[u][x] > 0 => sent'[u][x] > 0
        /\ t \in Known => sent'[t][now] > 0
    BY <1>t, <2>1, DispatchAdds
  <2>3. task' = task /\ tick' = tick
    BY <1>10 DEF RunNowSend
  <2>4. Recorded' /\ Dispatched' /\ Fresh'
    BY <1>i, <2>2, <2>3, KeepSent DEF Fresh
  <2>5. Requested'
    <3>1. \A s \in Tasks : \A x \in Time : SentAt(s, x) => SentAt(s, x)'
      BY <2>2, KeepSent
    <3> SUFFICES ASSUME NEW p \in Requests, manual'[p].pc = "sent"
                 PROVE  SentAt(manual[p].of, manual[p].at)'
      BY DEF Requested
    <3>2. CASE p = q
      BY <3>2, <1>t, <2>1, <2>2 DEF SentAt
    <3>3. CASE p # q
      BY <3>1, <3>3, <1>t, <1>i, <2>1 DEF Requested, RequestRec, SentAt
    <3> QED
      BY <3>2, <3>3
  <2> QED
    BY <2>4, <2>5 DEF RunInv
<1>11. ASSUME NEW q \in Requests, RunNowCommit(q) PROVE RunInv'
  <2>1. sent' = sent /\ tick' = tick /\ manual' = [manual EXCEPT ![q] = NoRequest]
    BY <1>11 DEF RunNowCommit
  <2>2. Recorded'
    <3> SUFFICES ASSUME NEW t \in Tasks, task'[t].last # 0
                 PROVE  SentAt(t, task'[t].last)
      BY <1>same, <2>1 DEF Recorded, SentAt
    <3>1. \/ task'[t].last = task[t].last
          \/ t = manual[q].of /\ task'[t].last = manual[q].at
      BY <1>11, <1>t DEF RunNowCommit, Row, RequestRec
    <3>2. manual[q].pc = "sent"
      BY <1>11 DEF RunNowCommit
    <3> QED
      BY <3>1, <3>2, <1>i DEF Recorded, Requested
  <2>3. Dispatched' /\ Fresh'
    BY <2>1, <1>i DEF Dispatched, Fresh, SentAt
  <2>4. Requested'
    BY <1>t, <1>i, <2>1, <1>same DEF Requested, NoRequest
  <2> QED
    BY <2>2, <2>3, <2>4 DEF RunInv
<1>12. ASSUME NEW t \in Tasks, Edit(t) PROVE RunInv'
  <2>1. sent' = sent /\ tick' = tick /\ manual' = manual
    BY <1>12 DEF Edit
  <2>2. \A s \in Tasks : task'[s].last \in {0, task[s].last}
    BY <1>12, <1>t DEF Edit, Row, NewRow
  <2> QED
    BY <2>1, <2>2, <1>i DEF RunInv, Recorded, Dispatched, Requested, Fresh, SentAt
<1>13. ASSUME NEW t \in Tasks, Create(t) PROVE RunInv'
  <2>1. sent' = sent /\ tick' = tick /\ manual' = manual
    BY <1>13 DEF Create
  <2>2. \A s \in Tasks : task'[s].last \in {0, task[s].last}
    BY <1>13, <1>t DEF Create, Row, NewRow
  <2> QED
    BY <2>1, <2>2, <1>i DEF RunInv, Recorded, Dispatched, Requested, Fresh, SentAt
<1>14. ASSUME Clock PROVE RunInv'
  BY <1>14, <1>i DEF Clock, RunInv, Recorded, Dispatched, Requested, Fresh, SentAt
<1>15. ASSUME UNCHANGED vars PROVE RunInv'
  BY <1>15, <1>i DEF vars, RunInv, Recorded, Dispatched, Requested, Fresh, SentAt
<1> QED
  BY <1>1, <1>2, <1>3, <1>4, <1>5, <1>6, <1>7, <1>8, <1>9, <1>10, <1>11, <1>12, <1>13, <1>14, <1>15 DEF Next, TickStep

\* A recorded run took place, for any number of overlapping ticks and requests,
\* with any rounds lost: last_run_at never names a time at which nothing was sent.
THEOREM RecordedRunsWereSent == Spec => []RanMeansSent
<1>1. TypeOK /\ RunInv => RanMeansSent
  BY SchedulerConstants DEF RunInv, Recorded, RanMeansSent, SentAt
<1>2. Spec => [](TypeOK /\ RunInv)
  BY TypeInit, TypeStep, RunInit, RunStep, PTL DEF Spec
<1> QED
  BY <1>1, <1>2, PTL
-----------------------------------------------------------------------------
(* What users set. *)

\* Nothing users decide differs between the rows.
SameTasks ==
  \A t \in Tasks : /\ task'[t].enabled = task[t].enabled
                   /\ task'[t].cron = task[t].cron
                   /\ task'[t].life = task[t].life

\* The commit of a round writes nothing users decide, however old its rows are.
LEMMA CommitDecidesNothing ==
  ASSUME TypeOK, NEW w \in Ticks, TickCommit(w)
  PROVE  SameTasks
<1> SUFFICES ASSUME NEW t \in Tasks
             PROVE  /\ task'[t].enabled = task[t].enabled
                    /\ task'[t].cron = task[t].cron
                    /\ task'[t].life = task[t].life
  BY DEF SameTasks
<1>1. task[t] \in Row
  BY DEF TypeOK
<1>2. task'[t] = Committed(t, w)
  BY DEF TickCommit
<1>3. CASE tick[w].mark[t] = "ok"
  BY <1>1, <1>2, <1>3 DEF Committed, Row
<1>4. CASE tick[w].mark[t] = "failed"
  BY <1>1, <1>2, <1>4 DEF Committed, Row
<1>5. CASE tick[w].mark[t] \notin {"ok", "failed"}
  BY <1>2, <1>5 DEF Committed
<1> QED BY <1>3, <1>4, <1>5

\* Nor does a request to run a task, which writes when and how it went.
LEMMA RunNowDecidesNothing ==
  ASSUME TypeOK, NEW q \in Requests, RunNowCommit(q)
  PROVE  SameTasks
<1> DEFINE s == manual[q].of
<1> SUFFICES ASSUME NEW t \in Tasks
             PROVE  /\ task'[t].enabled = task[t].enabled
                    /\ task'[t].cron = task[t].cron
                    /\ task'[t].life = task[t].life
  BY DEF SameTasks
<1>1. task[t] \in Row /\ task \in [Tasks -> Row]
  BY DEF TypeOK
<1>2. CASE t # s
  BY <1>1, <1>2 DEF RunNowCommit
<1>3. CASE t = s
  BY <1>1, <1>3 DEF RunNowCommit, Row
<1> QED BY <1>2, <1>3

\* A change a user makes is counted as one.
LEMMA OnlyUsersDecide ==
  ASSUME TypeOK, [Next]_vars, edits' = edits
  PROVE  SameTasks
<1>1. edits + 1 # edits
  BY SchedulerConstants DEF TypeOK
<1>2. ASSUME NEW w \in Ticks, TickStep(w) \/ TickSendFails(w) \/ TickCrash(w)
      PROVE  SameTasks
  <2>1. CASE TickCommit(w)
    BY <2>1, CommitDecidesNothing
  <2>2. CASE ~TickCommit(w)
    BY <1>2, <2>2 DEF TickStep, TickStart, TickSelect, TickFlush, TickWait, TickLost,
                      TickSend, TickSendFails, TickCrash, SameTasks
  <2> QED BY <2>1, <2>2
<1>3. ASSUME NEW q \in Requests, RunNowSend(q) \/ RunNowCommit(q)
      PROVE  SameTasks
  <2>1. CASE RunNowSend(q)
    BY <2>1 DEF RunNowSend, SameTasks
  <2>2. CASE RunNowCommit(q)
    BY <2>2, RunNowDecidesNothing
  <2> QED BY <1>3, <2>1, <2>2
<1>4. ASSUME NEW t \in Tasks, Edit(t) \/ Create(t)
      PROVE  FALSE
  BY <1>1, <1>4 DEF Edit, Create
<1>5. CASE Clock \/ UNCHANGED vars
  BY <1>5 DEF Clock, vars, SameTasks
<1> QED BY <1>2, <1>3, <1>4, <1>5 DEF Next

\* No tick and no request undoes what a user set, for any number of them that
\* write rows they have read before the user's change.
THEOREM UsersDecide == Spec => EditsKept
<1> DEFINE Body ==
      edits' = edits =>
        \A t \in Tasks : /\ task'[t].enabled = task[t].enabled /\ task'[t].cron = task[t].cron
                         /\ task'[t].life = task[t].life
<1>1. EditsKept <=> [][Body]_vars
  BY DEF EditsKept
<1>2. TypeOK /\ [Next]_vars => Body
  BY OnlyUsersDecide DEF SameTasks
<1> HIDE DEF Body
<1> QED
  BY <1>1, <1>2, SchedulerTypeCorrect, PTL DEF Spec

(***************************************************************************)
(* A fire that was not served is still due: what the service of every fire *)
(* rests on, and why nothing has to remember a lost round.                 *)
(***************************************************************************)

\* A time a standing task fired at, and since which nothing was sent for it, makes
\* the task due at the next tick, whatever happened to the rounds in between.
Unserved(t, f) == Stands(t, f) /\ ~\E x \in f..MaxTime : sent[t][x] > 0

THEOREM UnservedStaysDue ==
  Spec => [](\A t \in Known : \A f \in Time : Unserved(t, f) => Due(task[t], now))
<1>1. ASSUME TypeOK, RanMeansSent, NEW t \in Known, NEW f \in Time, Unserved(t, f)
      PROVE  Due(task[t], now)
  <2>1. /\ f \in Fires[task[t].cron] /\ f <= now
        /\ \A x \in f..MaxTime : ~(sent[t][x] > 0)
    BY <1>1 DEF Unserved, Stands
  <2>2. task[t].last \in 0..MaxTime /\ f \in 1..MaxTime /\ MaxTime \in Nat
    BY <1>1, SchedulerConstants DEF TypeOK, Row, Time
  <2>3. task[t].last < f
    <3>1. SUFFICES ASSUME task[t].last >= f PROVE FALSE
      BY <2>2
    <3>2. task[t].last \in f..MaxTime /\ task[t].last # 0
      BY <2>2, <3>1
    <3> QED
      BY <1>1, <2>1, <3>2 DEF RanMeansSent
  <2> QED
    BY <2>1, <2>3 DEF Due
<1>2. TypeOK /\ RanMeansSent
        => \A t \in Known : \A f \in Time : Unserved(t, f) => Due(task[t], now)
  BY <1>1
<1> QED
  BY <1>2, SchedulerTypeCorrect, RecordedRunsWereSent, PTL

(***************************************************************************)
(* One tick at a time sends a task once between two fires of its cron.     *)
(***************************************************************************)

\* The ticks follow one another: the beat waits for the round before.
OneTick == \A v \in Ticks, w \in Ticks : v = w

\* A task the tick has yet to send is there and due since its last recorded run;
\* one it has sent was due, and is not sent again in the round.
OnceRound(w, t) ==
  /\ tick[w].pc # "wait"
  /\ tick[w].pc \in {"idle", "select"} \/ (tick[w].pc = "send" /\ tick[w].cur = t)
       => t \notin tick[w].todo
  /\ t \in tick[w].todo \/ (tick[w].pc = "send" /\ tick[w].cur = t)
       => There(t) /\ Due(task[t], tick[w].at) /\ tick[w].mark[t] \in {"none", "running"}
  /\ tick[w].mark[t] = "ok" => Due(task[t], tick[w].at)

\* A message stands for a time up to last_run_at, or for the round at hand.
OnceSent(t) ==
  \A x \in Time : sent[t][x] > 0 =>
    \/ x <= task[t].last
    \/ \E w \in Ticks : tick[w].mark[t] = "ok" /\ x = tick[w].at

OnceBody ==
  /\ \A q \in Requests : manual[q].pc = "idle"
  /\ \A t \in Tasks : /\ task[t].cron = CronOf[t]
                      /\ \A w \in Ticks : OnceRound(w, t)
                      /\ OnceSent(t)
  /\ SentOnce

\* Nobody has edited, and nothing has failed.
Undisturbed == edits = 0 /\ faults = 0
OnceInv == Undisturbed => OnceBody

LEMMA OnceInit == TypeOK /\ Init => OnceInv
<1> SUFFICES ASSUME TypeOK, Init PROVE OnceBody
  BY DEF OnceInv
<1>1. \A t \in Tasks : \A x \in Time : sent[t][x] = 0
  BY DEF Init
<1>2. \A t \in Tasks : task[t].cron = CronOf[t]
  BY DEF Init, NewRow
<1>3. \A w \in Ticks : \A t \in Tasks :
        tick[w].pc = "idle" /\ tick[w].todo = {} /\ tick[w].mark[t] = "none"
  BY DEF Init, NoRound
<1>4. \A q \in Requests : manual[q].pc = "idle"
  BY DEF Init, NoRequest
<1>5. SentOnce
  <2>1. ASSUME NEW t \in Tasks, NEW f \in Fires[CronOf[t]], NEW x \in Until(t, f)
        PROVE  sent[t][x] = 0
    <3>1. f \in Time /\ MaxTime \in Nat
      BY SchedulerConstants
    <3>2. x \in Time
      BY <3>1 DEF Until, Time
    <3> QED
      BY <1>1, <3>2
  <2> QED
    BY <2>1 DEF SentOnce
<1> QED
  BY <1>1, <1>2, <1>3, <1>4, <1>5 DEF OnceBody, OnceRound, OnceSent

\* What one message more does to SentOnce: its time lies after a fire that lies
\* after every other message of the task.
LEMMA OneMore ==
  ASSUME TypeOK, SentOnce, NEW t \in Tasks, NEW a \in Time,
         \E f \in Fires[CronOf[t]] : f <= a /\ \A x \in Time : sent[t][x] > 0 => x < f,
         sent' = [sent EXCEPT ![t][a] = @ + 1]
  PROVE  SentOnce'
<1>t. /\ sent \in [Tasks -> [Time -> Nat]] /\ MaxTime \in Nat
      /\ Fires[CronOf[t]] \subseteq Time
  BY SchedulerConstants DEF TypeOK
<1>1. PICK h \in Fires[CronOf[t]] : h <= a /\ \A x \in Time : sent[t][x] > 0 => x < h
  OBVIOUS
<1>h. h \in Int /\ a \in Int
  BY <1>t DEF Time
<1>2. /\ sent'[t][a] = sent[t][a] + 1
      /\ \A x \in Time : x # a => sent'[t][x] = sent[t][x]
      /\ \A u \in Tasks : u # t => sent'[u] = sent[u]
  BY <1>t
<1>3. sent[t][a] = 0
  <2>1. sent[t][a] \in Nat
    BY <1>t
  <2> QED
    BY <1>1, <1>h, <2>1
<1>4. \A u \in Tasks, f \in Time : Until(u, f) \subseteq Time
  BY <1>t DEF Until, Time
<1> SUFFICES ASSUME NEW u \in Tasks, NEW f \in Fires[CronOf[u]],
                    NEW x \in Until(u, f), NEW y \in Until(u, f)
             PROVE  sent'[u][x] + (IF x = y THEN 0 ELSE sent'[u][y]) <= 1
  BY DEF SentOnce, Until
<1>5. f \in Time /\ x \in Time /\ y \in Time
  BY <1>4, SchedulerConstants
<1>6. sent[u][x] + (IF x = y THEN 0 ELSE sent[u][y]) <= 1
  BY DEF SentOnce
<1>7. CASE u # t
  BY <1>2, <1>6, <1>7
<1>8. ASSUME u = t, NEW v \in Until(t, f), NEW z \in Until(t, f), v = a, z # a
      PROVE  sent[t][z] = 0
  <2>1. v \in Int /\ z \in Time /\ z \in Int /\ f \in Int /\ f <= z
    BY <1>4, <1>5, <1>8, <1>t DEF Time, Until
  <2>2. h <= f
    <3>1. h <= f \/ v < h
      BY <1>8, <1>1 DEF Until
    <3> QED
      BY <1>1, <1>8, <1>h, <3>1
  <2>3. ~(sent[t][z] > 0)
    BY <1>1, <1>h, <2>1, <2>2
  <2> QED
    BY <1>t, <2>1, <2>3
<1>9. CASE u = t /\ x = a /\ y = a
  BY <1>2, <1>3, <1>9
<1>10. CASE u = t /\ x = a /\ y # a
  <2>1. sent[t][y] = 0
    BY <1>8, <1>10
  <2> QED
    BY <1>2, <1>3, <1>5, <1>10, <2>1
<1>11. CASE u = t /\ x # a /\ y = a
  <2>1. sent[t][x] = 0
    BY <1>8, <1>11
  <2> QED
    BY <1>2, <1>3, <1>5, <1>11, <2>1
<1>12. CASE u = t /\ x # a /\ y # a
  BY <1>2, <1>5, <1>6, <1>12
<1> QED
  BY <1>7, <1>9, <1>10, <1>11, <1>12

\* A step of the one tick there is.
LEMMA OnceTick ==
  ASSUME OneTick, TypeOK, Fresh, OnceBody, NEW w \in Ticks, TickStep(w)
  PROVE  OnceBody'
<1>t. /\ task \in [Tasks -> Row] /\ sent \in [Tasks -> [Time -> Nat]]
      /\ tick \in [Ticks -> TickRec] /\ tick[w] \in TickRec
      /\ tick[w].mark \in [Tasks -> Marks] /\ tick[w].at \in Time
  BY DEF TypeOK, TickRec
<1>m. manual' = manual /\ \A q \in Requests : manual[q].pc = "idle"
  BY DEF OnceBody, TickStep, TickStart, TickSelect, TickFlush, TickWait, TickLost, TickSend,
     TickCommit
<1>r. /\ \A u \in Tasks : task[u].cron = CronOf[u] /\ OnceRound(w, u) /\ OnceSent(u)
      /\ SentOnce
  BY DEF OnceBody
<1>only. \A v \in Ticks : v = w
  BY DEF OneTick
<1>s. \A u \in Tasks : \A x \in Time : sent[u][x] > 0 =>
        x <= task[u].last \/ (tick[w].mark[u] = "ok" /\ x = tick[w].at)
  BY <1>r, <1>only DEF OnceSent
<1>goal. SUFFICES
           /\ \A u \in Tasks : task'[u].cron = CronOf[u] /\ OnceRound(w, u)'
           /\ \A u \in Tasks : \A x \in Time : sent'[u][x] > 0 =>
                x <= task'[u].last \/ (tick'[w].mark[u] = "ok" /\ x = tick'[w].at)
           /\ SentOnce'
  BY <1>m, <1>only DEF OnceBody, OnceSent
<1>keeps. ASSUME task' = task, sent' = sent,
                 \A u \in Tasks : tick[w].mark[u] = "ok" =>
                   tick'[w].mark[u] = "ok" /\ tick'[w].at = tick[w].at
          PROVE  /\ \A u \in Tasks : task'[u].cron = CronOf[u]
                 /\ \A u \in Tasks : \A x \in Time : sent'[u][x] > 0 =>
                      x <= task'[u].last \/ (tick'[w].mark[u] = "ok" /\ x = tick'[w].at)
                 /\ SentOnce'
  BY <1>keeps, <1>r, <1>s DEF SentOnce
<1>1. CASE TickStart(w)
  <2>1. /\ tick[w].pc = "idle" /\ tick'[w].pc = "select" /\ tick'[w].todo = tick[w].todo
        /\ tick'[w].mark = tick[w].mark /\ task' = task /\ sent' = sent
    BY <1>1, <1>t DEF TickStart, TickRec
  <2>2. \A u \in Tasks : tick[w].mark[u] = "none" /\ u \notin tick[w].todo
    BY <1>r, <2>1 DEF Fresh, OnceRound
  <2>3. \A u \in Tasks : OnceRound(w, u)'
    BY <2>1, <2>2 DEF OnceRound
  <2> QED
    BY <1>keeps, <2>1, <2>2, <2>3
<1>2. CASE TickSelect(w)
  <2>1. /\ tick[w].pc = "select" /\ tick'[w].pc = "loop" /\ task' = task /\ sent' = sent
        /\ tick'[w].todo = {u \in Tasks : /\ There(u) /\ task[u].enabled
                                          /\ Due(task[u], tick[w].at)}
        /\ tick'[w].mark = tick[w].mark /\ tick'[w].at = tick[w].at
    BY <1>2, <1>t DEF TickSelect, TickRec
  <2>2. \A u \in Tasks : tick[w].mark[u] = "none"
    BY <2>1 DEF Fresh
  <2>3. \A u \in Tasks : OnceRound(w, u)'
    BY <2>1, <2>2 DEF OnceRound, There
  <2> QED
    BY <1>keeps, <2>1, <2>2, <2>3
<1>3. CASE TickFlush(w)
  <2>1. PICK t \in Tasks :
          /\ Flushes(w, t)
          /\ tick' = [tick EXCEPT ![w].pc = "send", ![w].cur = t, ![w].todo = @ \ {t},
                                  ![w].mark[t] = "running"]
    BY <1>3 DEF TickFlush
  <2>2. t \in tick[w].todo /\ tick[w].pc = "loop"
    BY <1>r, <2>1 DEF Flushes, OnceRound
  <2>3. /\ tick'[w].pc = "send" /\ tick'[w].cur = t /\ tick'[w].todo = tick[w].todo \ {t}
        /\ tick'[w].mark = [tick[w].mark EXCEPT ![t] = "running"]
        /\ tick'[w].at = tick[w].at /\ task' = task /\ sent' = sent
    BY <1>3, <1>t, <2>1 DEF TickFlush, TickRec
  <2>4. \A u \in Tasks : tick'[w].mark[u] = IF u = t THEN "running" ELSE tick[w].mark[u]
    BY <1>t, <2>3
  <2>5. tick[w].mark[t] # "ok"
    BY <1>r, <2>2 DEF OnceRound
  <2>6. \A u \in Tasks : OnceRound(w, u)'
    BY <1>r, <2>2, <2>3, <2>4 DEF OnceRound, There
  <2> QED
    BY <1>keeps, <2>3, <2>4, <2>5, <2>6
<1>4. CASE TickWait(w)
  BY <1>4, <1>only DEF TickWait, Locked, Others
<1>5. CASE TickLost(w)
  <2>1. CASE \E t \in Tasks : Flushes(w, t) /\ ~There(t)
    BY <1>r, <2>1 DEF Flushes, OnceRound
  <2>2. CASE Deadlocked(w)
    BY <1>only, <2>2 DEF Deadlocked, WaitsFor
  <2> QED
    BY <1>5, <2>1, <2>2 DEF TickLost
<1>6. CASE TickSend(w)
  <2> DEFINE t == tick[w].cur
             a == tick[w].at
  <2>1. t \in Tasks /\ a \in Time /\ tick[w].pc = "send" /\ task' = task /\ Dispatch(t, a)
    BY <1>6, <1>t DEF TickSend, TickRec
  <2>2. /\ There(t) /\ Due(task[t], a) /\ tick[w].mark[t] \in {"none", "running"}
        /\ t \notin tick[w].todo
    BY <1>r, <2>1 DEF OnceRound
  <2>3. /\ tick'[w].pc = "loop" /\ tick'[w].todo = tick[w].todo /\ tick'[w].at = a
        /\ tick'[w].mark = [tick[w].mark EXCEPT ![t] = "ok"]
    BY <1>6, <1>t DEF TickSend, TickRec
  <2>4. \A u \in Tasks : tick'[w].mark[u] = IF u = t THEN "ok" ELSE tick[w].mark[u]
    BY <1>t, <2>1, <2>3
  <2>5. /\ \A u \in Tasks : task'[u].cron = CronOf[u]
        /\ \A u \in Tasks : OnceRound(w, u)'
    BY <1>r, <2>1, <2>2, <2>3, <2>4 DEF OnceRound, There
  <2>6. \A x \in Time : sent[t][x] > 0 => x <= task[t].last
    BY <1>s, <2>1, <2>2
  <2> HIDE DEF t, a
  <2>7. CASE t \in Known
    <3>1. sent' = [sent EXCEPT ![t][a] = @ + 1]
      BY <2>1, <2>7 DEF Dispatch
    <3>2. \A u \in Tasks, x \in Time : u # t \/ x # a => sent'[u][x] = sent[u][x]
      BY <1>t, <2>1, <3>1
    <3>3. ASSUME NEW u \in Tasks, NEW x \in Time, sent'[u][x] > 0
          PROVE  x <= task'[u].last \/ (tick'[w].mark[u] = "ok" /\ x = tick'[w].at)
      <4>1. CASE u = t /\ x = a
        BY <2>3, <2>4, <4>1
      <4>2. CASE u # t \/ x # a
        <5>1. sent[u][x] > 0
          BY <3>2, <3>3, <4>2
        <5>2. u = t => x <= task[u].last
          BY <2>6, <5>1
        <5>3. u # t => x <= task[u].last \/ (tick[w].mark[u] = "ok" /\ x = tick[w].at)
          BY <1>s, <5>1
        <5> QED
          BY <2>1, <2>3, <2>4, <5>2, <5>3 DEF a
      <4> QED
        BY <4>1, <4>2
    <3>4. PICK h \in Fires[CronOf[t]] : task[t].last < h /\ h <= a
      BY <1>r, <2>1, <2>2 DEF Due
    <3>5. \A x \in Time : sent[t][x] > 0 => x < h
      <4>1. task[t].last \in Int /\ h \in Int /\ \A x \in Time : x \in Int
        BY <1>t, <2>1, SchedulerConstants DEF Row, Time
      <4> QED
        BY <2>6, <3>4, <4>1
    <3>6. SentOnce'
      BY <1>r, <2>1, <3>1, <3>4, <3>5, OneMore
    <3> QED
      BY <2>5, <3>3, <3>6
  <2>8. CASE t \notin Known
    <3>1. sent' = sent
      BY <2>1, <2>8 DEF Dispatch
    <3>2. \A u \in Tasks : tick[w].mark[u] = "ok" =>
            tick'[w].mark[u] = "ok" /\ tick'[w].at = tick[w].at
      BY <2>3, <2>4 DEF a
    <3> QED
      BY <1>keeps, <2>1, <2>5, <3>1, <3>2
  <2> QED
    BY <2>7, <2>8
<1>7. CASE TickCommit(w)
  <2>1. tick'[w] = NoRound /\ sent' = sent /\ \A u \in Tasks : task'[u] = Committed(u, w)
    BY <1>7, <1>t DEF TickCommit
  <2>2. \A u \in Tasks : OnceRound(w, u)'
    BY <2>1 DEF OnceRound, NoRound
  <2>3. ASSUME NEW u \in Tasks
        PROVE  /\ task'[u].cron = task[u].cron
               /\ task'[u].last = IF tick[w].mark[u] = "ok" THEN tick[w].at ELSE task[u].last
    <3>1. task[u] \in Row
      BY <1>t
    <3>2. CASE tick[w].mark[u] = "ok"
      <4>1. task'[u] = [task[u] EXCEPT !.last = tick[w].at, !.status = "ok"]
        BY <2>1, <3>2 DEF Committed
      <4> QED
        BY <3>1, <3>2, <4>1 DEF Row
    <3>3. CASE tick[w].mark[u] = "failed"
      <4>1. task'[u] = [task[u] EXCEPT !.status = "failed"]
        BY <2>1, <3>3 DEF Committed
      <4> QED
        BY <3>1, <3>3, <4>1 DEF Row
    <3>4. CASE tick[w].mark[u] \notin {"ok", "failed"}
      <4>1. task'[u] = task[u]
        BY <2>1, <3>4 DEF Committed
      <4> QED
        BY <3>4, <4>1
    <3> QED
      BY <3>2, <3>3, <3>4
  <2>4. ASSUME NEW u \in Tasks, NEW x \in Time, sent'[u][x] > 0
        PROVE  x <= task'[u].last
    <3>1. task[u].last \in Int /\ tick[w].at \in Int /\ x \in Int
      BY <1>t, SchedulerConstants DEF Row, Time
    <3>2. x <= task[u].last \/ (tick[w].mark[u] = "ok" /\ x = tick[w].at)
      BY <1>s, <2>1, <2>4
    <3>3. CASE tick[w].mark[u] = "ok"
      <4>1. PICK h \in Fires[task[u].cron] : task[u].last < h /\ h <= tick[w].at
        BY <1>r, <3>3 DEF OnceRound, Due
      <4>2. h \in Int
        <5>1. task[u].cron \in Crons
          BY <1>t DEF Row
        <5> QED
          BY <4>1, <5>1, SchedulerConstants DEF Time
      <4> QED
        BY <2>3, <3>1, <3>2, <3>3, <4>1, <4>2
    <3>4. CASE tick[w].mark[u] # "ok"
      BY <2>3, <3>2, <3>4
    <3> QED
      BY <3>3, <3>4
  <2>5. SentOnce'
    BY <1>r, <2>1 DEF SentOnce
  <2> QED
    BY <1>r, <2>2, <2>3, <2>4, <2>5
<1> QED
  BY <1>1, <1>2, <1>3, <1>4, <1>5, <1>6, <1>7 DEF TickStep

LEMMA OnceStep ==
  ASSUME OneTick, TypeOK, Fresh, OnceInv, [Next]_vars
  PROVE  OnceInv'
<1> SUFFICES ASSUME Undisturbed' PROVE OnceBody'
  BY DEF OnceInv
<1>e. edits \in Nat /\ faults \in Nat /\ edits' = 0 /\ faults' = 0
  BY SchedulerConstants DEF TypeOK, Undisturbed
<1>1. ASSUME NEW w \in Ticks, TickStep(w) PROVE OnceBody'
  <2>1. edits' = edits /\ faults' = faults
    BY <1>1 DEF TickStep, TickStart, TickSelect, TickFlush, TickWait, TickLost, TickSend,
       TickCommit
  <2>2. OnceBody
    BY <1>e, <2>1 DEF OnceInv, Undisturbed
  <2> QED
    BY <1>1, <2>2, OnceTick
<1>2. ASSUME NEW w \in Ticks, TickSendFails(w) \/ TickCrash(w) PROVE FALSE
  BY <1>2, <1>e DEF TickSendFails, TickCrash, Fault
<1>3. ASSUME NEW q \in Requests, RunNowSend(q) PROVE FALSE
  BY <1>3, <1>e DEF RunNowSend
<1>4. ASSUME NEW q \in Requests, RunNowCommit(q) PROVE FALSE
  <2>1. edits' = edits /\ faults' = faults /\ manual[q].pc = "sent"
    BY <1>4 DEF RunNowCommit
  <2> QED
    BY <1>e, <2>1 DEF OnceInv, Undisturbed, OnceBody
<1>5. ASSUME NEW t \in Tasks, Edit(t) \/ Create(t) PROVE FALSE
  BY <1>5, <1>e DEF Edit, Create
<1>6. CASE Clock \/ UNCHANGED vars
  <2>1. /\ edits' = edits /\ faults' = faults /\ task' = task /\ sent' = sent
        /\ tick' = tick /\ manual' = manual
    BY <1>6 DEF Clock, vars
  <2>2. OnceBody
    BY <1>e, <2>1 DEF OnceInv, Undisturbed
  <2>3. SentOnce'
    BY <2>1, <2>2 DEF OnceBody, SentOnce
  <2>4. \A t \in Tasks : \A w \in Ticks : OnceRound(w, t)'
    BY <2>1, <2>2 DEF OnceBody, OnceRound, There
  <2>5. \A t \in Tasks : OnceSent(t)'
    BY <2>1, <2>2 DEF OnceBody, OnceSent
  <2> QED
    BY <2>1, <2>2, <2>3, <2>4, <2>5 DEF OnceBody
<1> QED
  BY <1>1, <1>2, <1>3, <1>4, <1>5, <1>6 DEF Next

\* SentOnce, which overlapping ticks violate, holds of ticks that follow one
\* another: until a user changes something or a fault happens, a task is sent at
\* most once between two fires of its cron.  So the overlap alone sends twice.
THEOREM OneTickSendsOnce ==
  ASSUME OneTick
  PROVE  Spec => [](edits = 0 /\ faults = 0 => SentOnce)
<1>1. TypeOK /\ RunInv /\ OnceInv /\ [Next]_vars => OnceInv'
  BY OnceStep, OneTick DEF RunInv
<1>2. OnceInv => (edits = 0 /\ faults = 0 => SentOnce)
  BY DEF OnceInv, Undisturbed, OnceBody
<1>3. TypeOK /\ RunInv /\ [Next]_vars => RunInv'
  BY RunStep
<1> QED
  BY <1>1, <1>2, <1>3, RunInit, TypeInit, OnceInit, SchedulerTypeCorrect, PTL DEF Spec
=============================================================================
