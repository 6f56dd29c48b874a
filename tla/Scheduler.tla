----------------------------- MODULE Scheduler -----------------------------
(***************************************************************************)
(* The cron scheduler: ticks of the celery beat run in any number of       *)
(* workers over the table scheduled_task, while users edit the tasks and   *)
(* run them by hand.  Time is counted in units in which crons fire; a      *)
(* dispatched celery message is counted, its execution is not modelled.    *)
(*                                                                         *)
(* A tick is one database transaction: it reads the enabled tasks, and for *)
(* each due one takes the row lock with a first flush, dispatches, and     *)
(* leaves last_run_at to the commit that ends the round.                   *)
(***************************************************************************)
EXTENDS Integers, FiniteSets

CONSTANTS
  Tasks,      \* rows of scheduled_task
  Ticks,      \* ticks that may be in flight at once
  Requests,   \* run_now requests in flight
  Known,      \* the tasks whose type the registry knows
  Crons, Fires,   \* cron expressions, and the times each of them fires
  CronOf,     \* the cron a task is created with
  Existing,   \* the tasks that exist at the start
  MaxTime,    \* bound: the clock
  MaxEdits,   \* bound: changes users make
  MaxFaults   \* bound: crashes, lost commits, broker failures

Time == 1..MaxTime

ASSUME SchedulerConstants ==
  /\ Tasks # {}
  /\ MaxTime \in Nat \ {0} /\ MaxEdits \in Nat /\ MaxFaults \in Nat
  /\ Fires \in [Crons -> SUBSET Time]
  /\ CronOf \in [Tasks -> Crons] /\ Existing \subseteq Tasks /\ Known \subseteq Tasks

VARIABLES
  now,      \* the clock
  task,     \* the committed rows; last = 0 stands for no last_run_at
  sent,     \* messages dispatched for a task, by the time they stand for
  tick,     \* the ticks
  manual,   \* the run_now requests
  edits, faults

vars == <<now, task, sent, tick, manual, edits, faults>>
-----------------------------------------------------------------------------
\* Ids are not used again: a deleted task stays "gone".
Row == [life : {"new", "there", "gone"}, enabled : BOOLEAN, cron : Crons,
        last : 0..MaxTime, status : {"pending", "ok", "failed"}]

\* is_due: the next time the cron fires after last_run_at has come.
Due(row, at) == \E f \in Fires[row.cron] : row.last < f /\ f <= at

NewRow(t) == [life |-> "there", enabled |-> TRUE, cron |-> CronOf[t],
              last |-> 0, status |-> "pending"]
There(t) == task[t].life = "there"
AnyTask == CHOOSE t \in Tasks : TRUE

\* The round's uncommitted row: none, only "running", or how the dispatch went.
Marks == {"none", "running", "ok", "failed"}
NoRound == [pc |-> "idle", at |-> 1, todo |-> {}, mark |-> [t \in Tasks |-> "none"],
            cur |-> AnyTask]
NoRequest == [pc |-> "idle", of |-> AnyTask, at |-> 1, was |-> "pending"]

\* A row with an uncommitted UPDATE is locked.
Locked(t, W) == \E v \in W : tick[v].mark[t] # "none"
Others(w) == Ticks \ {w}

Waiting(t, W) == \E v \in W : tick[v].pc = "wait" /\ tick[v].cur = t

WaitsFor(w, v) == v # w /\ tick[w].pc = "wait" /\ tick[v].mark[tick[w].cur] # "none"
\* PostgreSQL aborts a statement of a session caught in a cycle of waits.
Deadlocked(w) ==
  \E S \in SUBSET Ticks : w \in S /\ \A x \in S : \E y \in S : WaitsFor(x, y)

Fault == faults < MaxFaults /\ faults' = faults + 1

\* dispatch: for a type without entry in the registry a warning is all there is.
Dispatch(t, at) == sent' = IF t \in Known THEN [sent EXCEPT ![t][at] = @ + 1] ELSE sent
-----------------------------------------------------------------------------
Init ==
  /\ now = 1
  /\ task = [t \in Tasks |-> IF t \in Existing THEN NewRow(t)
                            ELSE [NewRow(t) EXCEPT !.life = "new"]]
  /\ sent = [t \in Tasks |-> [x \in Time |-> 0]]
  /\ tick = [w \in Ticks |-> NoRound]
  /\ manual = [q \in Requests |-> NoRequest]
  /\ edits = 0 /\ faults = 0

(* A tick reads the clock, *)
TickStart(w) ==
  /\ tick[w].pc = "idle"
  /\ tick' = [tick EXCEPT ![w].pc = "select", ![w].at = now]
  /\ UNCHANGED <<now, task, sent, manual, edits, faults>>

(* loads the enabled tasks, and looks for the due ones: is_due depends on   *)
(* nothing that changes during the round.                                   *)
TickSelect(w) ==
  /\ tick[w].pc = "select"
  /\ tick' = [tick EXCEPT
       ![w].pc = "loop",
       ![w].todo = {t \in Tasks : There(t) /\ task[t].enabled /\ Due(task[t], tick[w].at)}]
  /\ UNCHANGED <<now, task, sent, manual, edits, faults>>

\* The row whose flush is the tick's next step: any due one, or the one it waits for.
Flushes(w, t) ==
  \/ tick[w].pc = "loop" /\ t \in tick[w].todo /\ ~Waiting(t, Others(w))
  \/ tick[w].pc = "wait" /\ t = tick[w].cur

\* last_run_at is written before the message is sent.
FlushMarksFirstBug(w) ==
  \E t \in Tasks :
    /\ Flushes(w, t)
    /\ There(t) /\ ~Locked(t, Others(w))
    /\ task' = [task EXCEPT ![t].last = tick[w].at]
    /\ tick' = [tick EXCEPT ![w].pc = "send", ![w].cur = t, ![w].todo = @ \ {t},
                            ![w].mark[t] = "running"]
    /\ UNCHANGED <<now, sent, manual, edits, faults>>

\* "running" is committed instead of flushed, and stays if the worker dies.
CommitsRunningBug(w) ==
  \E t \in Tasks :
    /\ Flushes(w, t)
    /\ There(t) /\ ~Locked(t, Others(w))
    /\ task' = [task EXCEPT ![t].status = "running"]
    /\ tick' = [tick EXCEPT ![w].pc = "send", ![w].cur = t, ![w].todo = @ \ {t},
                            ![w].mark[t] = "running"]
    /\ UNCHANGED <<now, sent, manual, edits, faults>>

(* last_status = "running", flushed: the row is locked until the commit.    *)
(* Locks are granted in the order in which they were asked for.             *)
TickFlush(w) ==
  \E t \in Tasks :
    /\ Flushes(w, t)
    /\ There(t) /\ ~Locked(t, Others(w))
    /\ tick' = [tick EXCEPT ![w].pc = "send", ![w].cur = t, ![w].todo = @ \ {t},
                            ![w].mark[t] = "running"]
    /\ UNCHANGED <<now, task, sent, manual, edits, faults>>

TickWait(w) ==
  /\ tick[w].pc = "loop"
  /\ \E t \in tick[w].todo :
       /\ Locked(t, Others(w))
       /\ tick' = [tick EXCEPT ![w].pc = "wait", ![w].cur = t, ![w].todo = @ \ {t}]
  /\ UNCHANGED <<now, task, sent, manual, edits, faults>>

(* The flush fails: the row is gone, or a deadlock is broken.  The session  *)
(* is unusable, the next statement of the loop raises, the round is rolled  *)
(* back -- not what it has sent.                                            *)
TickLost(w) ==
  /\ (\E t \in Tasks : Flushes(w, t) /\ ~There(t)) \/ Deadlocked(w)
  /\ tick' = [tick EXCEPT ![w] = NoRound]
  /\ UNCHANGED <<now, task, sent, manual, edits, faults>>

(* The message is sent, or nobody hears of it; last_status = "ok" for both. *)
TickSend(w) ==
  /\ tick[w].pc = "send"
  /\ Dispatch(tick[w].cur, tick[w].at)
  /\ tick' = [tick EXCEPT ![w].pc = "loop", ![w].cur = AnyTask, ![w].mark[tick[w].cur] = "ok"]
  /\ UNCHANGED <<now, task, manual, edits, faults>>

\* A dispatch that raised counts as a run.
FailureCountsBug(w) ==
  /\ tick[w].pc = "send"
  /\ tick[w].cur \in Known
  /\ Fault
  /\ tick' = [tick EXCEPT ![w].pc = "loop", ![w].cur = AnyTask, ![w].mark[tick[w].cur] = "ok"]
  /\ UNCHANGED <<now, task, sent, manual, edits>>

(* The broker does not take the message: last_run_at stays as it was. *)
TickSendFails(w) ==
  /\ tick[w].pc = "send"
  /\ tick[w].cur \in Known
  /\ Fault
  /\ tick' = [tick EXCEPT ![w].pc = "loop", ![w].cur = AnyTask, ![w].mark[tick[w].cur] = "failed"]
  /\ UNCHANGED <<now, task, sent, manual, edits>>

\* The UPDATE writes every column as it was read: ticks read enabled tasks only.
WholeRowBug(t, w) ==
  CASE tick[w].mark[t] = "ok" ->
         [task[t] EXCEPT !.last = tick[w].at, !.status = "ok", !.enabled = TRUE]
    [] tick[w].mark[t] = "failed" -> [task[t] EXCEPT !.status = "failed"]
    [] OTHER -> task[t]
\* The row the commit leaves: an UPDATE writes the columns that were set.
Committed(t, w) ==
  CASE tick[w].mark[t] = "ok" -> [task[t] EXCEPT !.last = tick[w].at, !.status = "ok"]
    [] tick[w].mark[t] = "failed" -> [task[t] EXCEPT !.status = "failed"]
    [] OTHER -> task[t]

TickCommit(w) ==
  /\ tick[w].pc = "loop"
  /\ tick[w].todo = {}
  /\ task' = [t \in Tasks |-> Committed(t, w)]
  /\ tick' = [tick EXCEPT ![w] = NoRound]
  /\ UNCHANGED <<now, sent, manual, edits, faults>>

(* The worker dies, or the commit is lost. *)
TickCrash(w) ==
  /\ tick[w].pc # "idle"
  /\ Fault
  /\ tick' = [tick EXCEPT ![w] = NoRound]
  /\ UNCHANGED <<now, task, sent, manual, edits>>
-----------------------------------------------------------------------------
(* run_now: the message is sent, and the clock read, before the row is      *)
(* written.  A failure of the broker only fails the request.                *)
RunNowSend(q) ==
  /\ manual[q].pc = "idle"
  /\ edits < MaxEdits /\ edits' = edits + 1
  /\ \E t \in Tasks :
       /\ There(t)
       /\ manual' = [manual EXCEPT ![q] =
            [pc |-> "sent", of |-> t, at |-> now, was |-> task[t].status]]
       /\ Dispatch(t, now)
  /\ UNCHANGED <<now, task, tick, faults>>

(* The commit waits for a tick that holds the row; of a row deleted in the  *)
(* meantime nothing is left to write.  An unchanged status is not written.  *)
RunNowCommit(q) ==
  LET t == manual[q].of
      status == IF t \in Known THEN "ok" ELSE "failed"
  IN  /\ manual[q].pc = "sent"
      /\ ~Locked(t, Ticks)
      /\ task' = IF There(t)
                 THEN [task EXCEPT ![t].last = manual[q].at,
                                   ![t].status = IF status = manual[q].was THEN @ ELSE status]
                 ELSE task
      /\ manual' = [manual EXCEPT ![q] = NoRequest]
      /\ UNCHANGED <<now, sent, tick, edits, faults>>

(* A user enables, disables or reschedules a task (PATCH checks the cron), or *)
(* deletes it; each waits for a tick that holds the row.                      *)
Edit(t) ==
  /\ There(t) /\ ~Locked(t, Ticks)
  /\ edits < MaxEdits /\ edits' = edits + 1
  /\ \/ task' = [task EXCEPT ![t].enabled = ~@]
     \/ \E c \in Crons \ {task[t].cron} : task' = [task EXCEPT ![t].cron = c]
     \/ task' = [task EXCEPT ![t].life = "gone"]
  /\ UNCHANGED <<now, sent, tick, manual, faults>>

(* create_task *)
Create(t) ==
  /\ task[t].life = "new"
  /\ edits < MaxEdits /\ edits' = edits + 1
  /\ task' = [task EXCEPT ![t] = NewRow(t)]
  /\ UNCHANGED <<now, sent, tick, manual, faults>>

Clock ==
  /\ now < MaxTime
  /\ now' = now + 1
  /\ UNCHANGED <<task, sent, tick, manual, edits, faults>>

TickStep(w) ==
  \/ TickStart(w) \/ TickSelect(w) \/ TickFlush(w) \/ TickWait(w) \/ TickLost(w)
  \/ TickSend(w) \/ TickCommit(w)

Next ==
  \/ \E w \in Ticks : TickStep(w) \/ TickSendFails(w) \/ TickCrash(w)
  \/ \E q \in Requests : RunNowSend(q) \/ RunNowCommit(q)
  \/ \E t \in Tasks : Edit(t) \/ Create(t)
  \/ Clock

Spec == Init /\ [][Next]_vars

\* The beat sends ticks for ever and workers run them.
FairSpec == Spec /\ \A w \in Ticks : WF_vars(TickStep(w))
-----------------------------------------------------------------------------
(* Properties *)

\* In particular no committed row says "running": a worker that dies in the middle
\* of a round leaves none behind that would say so for ever.
TypeOK ==
  /\ now \in Time
  /\ task \in [Tasks -> Row]
  /\ sent \in [Tasks -> [Time -> Nat]]
  /\ tick \in [Ticks -> [pc : {"idle", "select", "loop", "wait", "send"}, at : Time,
                         todo : SUBSET Tasks, mark : [Tasks -> Marks], cur : Tasks]]
  /\ manual \in [Requests -> [pc : {"idle", "sent"}, of : Tasks, at : Time,
                              was : {"pending", "ok", "failed"}]]
  /\ edits \in 0..MaxEdits /\ faults \in 0..MaxFaults

\* A recorded run took place: whatever ticks, users and crashes do, a task with
\* last_run_at had a message sent for that very time.
RanMeansSent ==
  \A t \in Known : LET x == task[t].last IN x # 0 => sent[t][x] > 0

\* What users set -- that the task exists, is enabled, its cron -- is changed by
\* nobody else, though ticks and run_now write rows they read long before.
EditsKept ==
  [][edits' = edits =>
       \A t \in Tasks : /\ task'[t].enabled = task[t].enabled /\ task'[t].cron = task[t].cron
                        /\ task'[t].life = task[t].life]_vars

\* No fire of a cron is missed: a task that is due is sent, unless a user
\* disables, deletes or changes it first -- rounds lost to a deadlock or a crash,
\* a broker that is down and last_run_at set back by an older tick included.
Stands(t, f) ==
  /\ There(t) /\ task[t].enabled /\ t \in Known
  /\ f \in Fires[task[t].cron] /\ f <= now
FiresServed ==
  \A t \in Known : \A f \in Time :
    Stands(t, f) ~> (\E x \in f..MaxTime : sent[t][x] > 0) \/ ~Stands(t, f)

\* One dispatch per fire: between two fires of its cron a task is sent once,
\* as the design of the scheduler wants it ("avoid that a re-entered tick sends
\* again").
Until(t, f) == {x \in f..MaxTime : \A g \in Fires[CronOf[t]] : g <= f \/ x < g}
SentOnce ==
  \A t \in Tasks : \A f \in Fires[CronOf[t]] :
    \A x, y \in Until(t, f) : sent[t][x] + (IF x = y THEN 0 ELSE sent[t][y]) <= 1
=============================================================================
