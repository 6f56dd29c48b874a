----------------------------- MODULE WeakSignals -----------------------------
(***************************************************************************)
(* The extraction of weak signals as celery runs it: one transaction that  *)
(* replaces the rows of the terms it has found, the co-occurrence edges    *)
(* between them, and adds network edges for every signal of its period.    *)
(*                                                                         *)
(* signal_id is a hash of the term alone and unique: a term has one row,   *)
(* whatever the period.  Deliveries of the same message are different      *)
(* elements of Extractions.  Which terms an extraction finds is left open. *)
(***************************************************************************)
EXTENDS Integers, FiniteSets

CONSTANTS
  Terms,
  Finds,        \* bound: the sets of terms an extraction may find
  Pairs,        \* pairs <<a, b>> of terms that documents may share, a before b
  Extractions,
  Periods,
  PeriodOf,     \* the period of each extraction
  MaxFaults     \* bound: crashes, lost commits, refused statements

ASSUME WeakSignalConstants ==
  /\ Finds \subseteq SUBSET Terms /\ Pairs \subseteq Terms \X Terms
  /\ PeriodOf \in [Extractions -> Periods] /\ "none" \notin Periods
  /\ MaxFaults \in Nat

VARIABLES
  signal,   \* the committed weak_signal rows
  pair,     \* how many committed co_occurrence edges each pair has
  link,     \* how many runs have committed their network edges of each signal
  ext,      \* the extractions
  faults

wvars == <<signal, pair, link, ext, faults>>
-----------------------------------------------------------------------------
\* A row: its period, and the extraction that wrote it.
Signal == [period : Periods, by : Extractions]
NoSignal == [period |-> "none", by |-> "none"]

NoExt == [pc |-> "idle", found |-> {}, saw |-> [t \in Terms |-> NoSignal], gone |-> {},
          cut |-> [p \in Pairs |-> 0], pairs |-> {}, linked |-> {}]

Fault == faults < MaxFaults /\ faults' = faults + 1

SignalInit ==
  /\ signal = [t \in Terms |-> NoSignal]
  /\ pair = [p \in Pairs |-> 0]
  /\ link = [t \in Terms |-> 0]
  /\ ext = [e \in Extractions |-> NoExt]
  /\ faults = 0
-----------------------------------------------------------------------------
\* What a session has deleted or inserted and not yet committed.
NoIndexBug(e) == {}
Inserted(e) == IF ext[e].pc \in {"network", "commit"} THEN ext[e].found ELSE {}
Holds(e) == ext[e].gone \cup Inserted(e)

\* extract, up to the DELETE of the old rows, which starts with what is committed
\* by then.  Without any signal there is nothing to delete or to insert.
Compute(e) ==
  /\ ext[e].pc = "idle"
  /\ \E found \in Finds :
       ext' = [ext EXCEPT ![e].pc = IF found = {} THEN "network" ELSE "delete",
                          ![e].found = found,
                          ![e].saw = IF found = {} THEN @ ELSE signal]
  /\ UNCHANGED <<signal, pair, link, faults>>

\* The DELETE waits for whoever is deleting one of its rows, and leaves alone
\* what was not there when it started.
Visible(e) == {t \in ext[e].found : ext[e].saw[t] # NoSignal}

Delete(e) ==
  /\ ext[e].pc = "delete"
  /\ \A o \in Extractions \ {e} : ext[o].gone \cap Visible(e) = {}
  /\ ext' = [ext EXCEPT ![e].pc = "insert", ![e].saw = NoExt.saw,
                        ![e].gone = {t \in Visible(e) : signal[t] = ext[e].saw[t]}]
  /\ UNCHANGED <<signal, pair, link, faults>>

\* A row of one of the terms is there that this session has not deleted.
Refused(e) == \E t \in ext[e].found \ ext[e].gone : signal[t] # NoSignal

\* The unique index makes an INSERT wait for who deletes or inserts the same term.
Insert(e) ==
  /\ ext[e].pc = "insert"
  /\ \A o \in Extractions \ {e} : Holds(o) \cap ext[e].found = {}
  /\ ext' = IF Refused(e) THEN [ext EXCEPT ![e] = [NoExt EXCEPT !.pc = "failed"]]
            ELSE [ext EXCEPT ![e].pc = "network"]
  /\ UNCHANGED <<signal, pair, link, faults>>

\* The edges of the documents' common terms replace those that start at one of
\* the terms -- unless there is none.  The signals of the period are linked,
\* those of earlier extractions again.
OfPeriod(e) ==
  {t \in Terms \ ext[e].gone : signal[t] # NoSignal /\ signal[t].period = PeriodOf[e]}

Network(e) ==
  /\ ext[e].pc = "network"
  /\ \E shared \in SUBSET {p \in Pairs : p[1] \in ext[e].found /\ p[2] \in ext[e].found} :
       ext' = [ext EXCEPT
         ![e].pc = "commit",
         ![e].pairs = shared,
         ![e].cut = [p \in Pairs |-> IF shared # {} /\ p[1] \in ext[e].found
                                     THEN pair[p] ELSE 0],
         ![e].linked = ext[e].found \cup OfPeriod(e)]
  /\ UNCHANGED <<signal, pair, link, faults>>

\* The rows the INSERT leaves for the terms found.
OnlyNewBug(e) == ext[e].found \ ext[e].gone
Written(e) == ext[e].found

Commit(e) ==
  /\ ext[e].pc = "commit"
  /\ signal' = [t \in Terms |->
       IF t \in Written(e) THEN [period |-> PeriodOf[e], by |-> e]
       ELSE IF t \in ext[e].gone THEN NoSignal ELSE signal[t]]
  /\ pair' = [p \in Pairs |->
       pair[p] - ext[e].cut[p] + IF p \in ext[e].pairs THEN 1 ELSE 0]
  /\ link' = [t \in Terms |-> link[t] + IF t \in ext[e].linked THEN 1 ELSE 0]
  /\ ext' = [ext EXCEPT ![e] = [NoExt EXCEPT !.pc = "over"]]
  /\ UNCHANGED faults

\* Any exception, a deadlock or the death of the worker rolls everything back.
Fail(e) ==
  /\ ext[e].pc \in {"delete", "insert", "network", "commit"} /\ Fault
  /\ ext' = [ext EXCEPT ![e] = [NoExt EXCEPT !.pc = "failed"]]
  /\ UNCHANGED <<signal, pair, link>>

SignalNext ==
  \E e \in Extractions :
    Compute(e) \/ Delete(e) \/ Insert(e) \/ Network(e) \/ Commit(e) \/ Fail(e)

SignalSpec == SignalInit /\ [][SignalNext]_wvars
-----------------------------------------------------------------------------
PCs == {"idle", "delete", "insert", "network", "commit", "over", "failed"}

Ext == [pc : PCs, found : SUBSET Terms, saw : [Terms -> Signal \cup {NoSignal}],
        gone : SUBSET Terms, cut : [Pairs -> Nat], pairs : SUBSET Pairs,
        linked : SUBSET Terms]

SignalTypeOK ==
  /\ signal \in [Terms -> Signal \cup {NoSignal}]
  /\ pair \in [Pairs -> Nat] /\ link \in [Terms -> Nat]
  /\ ext \in [Extractions -> Ext]
  /\ faults \in 0..MaxFaults

\* A term that was a signal stays one: extractions that overlap, fail or find less
\* than an earlier one move its row to another period at most.
SignalsStay == [][\A t \in Terms : signal[t] # NoSignal => signal'[t] # NoSignal]_wvars

\* However deliveries of the same extraction overlap or repeat, a pair of signals
\* has one co-occurrence edge at most: no constraint of the table says so.
PairsOnce == \A p \in Pairs : pair[p] \in {0, 1}
=============================================================================
