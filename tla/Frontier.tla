------------------------------ MODULE Frontier ------------------------------
(***************************************************************************)
(* Frontier candidates: scans that replace the pending ones by what weak   *)
(* signals and the domains' indicators suggest, LLM verifications of a     *)
(* candidate, and the topics made from validated ones; over the weak       *)
(* signals of WeakSignals, which go on changing meanwhile.                 *)
(***************************************************************************)
EXTENDS WeakSignals

CONSTANTS
  Domains,        \* names of IPC domains with indicators or disruption scores
  DemoRows,       \* the rows generate_frontier may add
  DemoName,       \* the technology profile each of them is named after
  Scans,          \* requests for a scan
  ScanPeriod,     \* the period each of them asks for
  Verifications   \* requests to verify a candidate, each with its celery job

Keys == Terms \cup Domains \cup DemoRows
Names == Terms \cup Domains \cup {DemoName[d] : d \in DemoRows}
Ids == Scans \X Keys

\* A demo row may have the name of a term, of a domain or of another demo row.
Name(i) == IF i[2] \in DemoRows THEN DemoName[i[2]] ELSE i[2]

ASSUME FrontierConstants ==
  /\ DemoRows \cap (Terms \cup Domains) = {} /\ ScanPeriod \in [Scans -> Periods]
  /\ IsFiniteSet(Ids)

VARIABLES
  cand,    \* the status of the frontier_tech row a scan has made for a key
  topic,   \* how many topic_candidate rows each name has
  scan,    \* the scans
  ver      \* the verifications

fvars == <<cand, topic, scan, ver>>
vars == <<wvars, fvars>>
-----------------------------------------------------------------------------
Verdicts == {"validated", "rejected"}
With(status) == {i \in Ids : cand[i] = status}

\* A verification of the candidate in `of` that has read nothing, or no longer knows.
Blank(pc, of) ==
  [pc |-> pc, of |-> of, was |-> "absent", now |-> "absent", seen |-> {}, titles |-> {}]

Init ==
  /\ SignalInit
  /\ cand = [i \in Ids |-> "absent"]
  /\ topic = [n \in Names |-> 0]
  /\ scan = [s \in Scans |-> [pc |-> "idle", saw |-> {}, gone |-> {}]]
  /\ ver = [v \in Verifications |-> Blank("idle", {})]
-----------------------------------------------------------------------------
(* trigger_scan and build_frontier_candidates. *)

\* The DELETE of the pending candidates starts, with what is committed by then.
ScanStart(s) ==
  /\ scan[s].pc = "idle"
  /\ scan' = [scan EXCEPT ![s] = [pc |-> "delete", saw |-> With("pending"), gone |-> {}]]
  /\ UNCHANGED <<cand, topic, ver>>

\* It waits for a scan that is deleting the same rows, and looks again at a row
\* that was changed since: one with a verdict by now stays.
NoRecheckBug(s) == scan[s].saw
Deletable(s) == {i \in scan[s].saw : cand[i] = "pending"}

ScanDelete(s) ==
  /\ scan[s].pc = "delete"
  /\ \A o \in Scans \ {s} : scan[o].gone \cap scan[s].saw = {}
  /\ scan' = [scan EXCEPT ![s].pc = "fill", ![s].gone = Deletable(s)]
  /\ UNCHANGED <<cand, topic, ver>>

ScanOver(s, pc) == scan' = [scan EXCEPT ![s].pc = pc, ![s].gone = {}]

\* What is left of the pending candidates when a scan commits, and what it adds.
OnlyRenewedBug(s, keys) ==
  [i \in Ids |->
     IF i \in scan[s].gone /\ i[2] \in keys THEN "deleted"
     ELSE IF i[1] = s /\ i[2] \in keys THEN "pending" ELSE cand[i]]
Replaced(s, keys) ==
  [i \in Ids |-> IF i \in scan[s].gone THEN "deleted"
                 ELSE IF i[1] = s /\ i[2] \in keys THEN "pending" ELSE cand[i]]

\* The signals of exactly the scan's period, the domains, and the one commit: not
\* all of them, names of one character and those beyond per_source are left out.
\* Without any candidate the deletion is committed, and demo data follow.
Suggested(s) == {t \in Terms : signal[t] # NoSignal /\ signal[t].period = ScanPeriod[s]}

ScanFill(s) ==
  /\ scan[s].pc = "fill"
  /\ \E keys \in SUBSET (Suggested(s) \cup Domains) :
       /\ cand' = Replaced(s, keys)
       /\ ScanOver(s, IF keys = {} THEN "demo" ELSE "over")
  /\ UNCHANGED <<topic, ver>>

\* A strong candidate adds an alert without the columns scan_alert requires: the
\* flush is refused, the fallback finds a broken session, all is rolled back.
ScanRefused(s) ==
  /\ scan[s].pc = "fill"
  /\ Suggested(s) \cup Domains # {}
  /\ ScanOver(s, "failed")
  /\ UNCHANGED <<cand, topic, ver>>

\* generate_frontier, after a scan without candidates or one that could not read an
\* indicator: its deletion, not committed yet, is committed with the demo rows.
\* Without technology profiles there are none.
ScanDemo(s) ==
  /\ scan[s].pc \in {"fill", "demo"}
  /\ \E rows \in SUBSET DemoRows : cand' = Replaced(s, rows)
  /\ ScanOver(s, "over")
  /\ UNCHANGED <<topic, ver>>
-----------------------------------------------------------------------------
(* trigger_verify_frontier_tech and the celery job _async_verify. *)

\* Any candidate may be verified, also one that has a verdict.
VerifySend(v) ==
  /\ ver[v].pc = "idle"
  /\ \E i \in Ids : /\ cand[i] \notin {"absent", "deleted"}
                    /\ ver' = [ver EXCEPT ![v] = Blank("sent", {i})]
  /\ UNCHANGED <<cand, topic, scan>>

Over(v) == ver' = [ver EXCEPT ![v] = Blank("over", ver[v].of)]

VerifyLoad(v) ==
  /\ ver[v].pc = "sent"
  /\ \E i \in ver[v].of :
       IF cand[i] = "deleted" THEN Over(v)
       ELSE ver' = [ver EXCEPT ![v].pc = "llm", ![v].was = cand[i]]
  /\ UNCHANGED <<cand, topic, scan>>

\* The verdict is yes, no, or an open one that keeps the status; or the LLM fails.
\* sync_validated_to_topics reads the committed candidates: the one just judged is
\* not flushed yet (autoflush is off) and counts with its old status.
PendingTooBug(v) == With("validated") \cup With("pending")
Synced(v) == With("validated")

OpenStatusBug(v) == Verdicts \cup {"open"}
Outcomes(v) == Verdicts \cup {ver[v].was}

Judge(v) ==
  /\ ver[v].pc = "llm"
  /\ \/ Over(v)
     \/ \E now \in Outcomes(v) :
          ver' = IF now = "validated"
                 THEN [ver EXCEPT ![v].pc = "titles", ![v].now = now, ![v].seen = Synced(v)]
                 ELSE [ver EXCEPT ![v].pc = "commit", ![v].now = now]
  /\ UNCHANGED <<cand, topic, scan>>

\* The titles there are, read by a second SELECT.
Titles(v) ==
  /\ ver[v].pc = "titles"
  /\ ver' = [ver EXCEPT ![v].pc = "commit", ![v].titles = {n \in Names : topic[n] > 0}]
  /\ UNCHANGED <<cand, topic, scan>>

\* A topic for each validated candidate without a title, and so two topics for two
\* candidates of one name.
OnlyItsOwnBug(v, n) == {i \in ver[v].of \cap ver[v].seen : Name(i) = n /\ n \notin ver[v].titles}
Made(v, n) == {i \in ver[v].seen : Name(i) = n /\ n \notin ver[v].titles}

\* The row is written where it differs from what was loaded, once no scan holds it.
\* A row that was deleted meanwhile makes the flush fail, and the topics with it.
VerifyCommit(v) ==
  /\ ver[v].pc = "commit"
  /\ \A s \in Scans : scan[s].gone \cap ver[v].of = {}
  /\ IF \E i \in ver[v].of : cand[i] = "deleted" THEN UNCHANGED <<cand, topic>>
     ELSE /\ cand' = [i \in Ids |-> IF i \in ver[v].of /\ ver[v].now # ver[v].was
                                    THEN ver[v].now ELSE cand[i]]
          /\ topic' = [n \in Names |-> topic[n] + Cardinality(Made(v, n))]
  /\ Over(v)
  /\ UNCHANGED scan

\* acks_late: the message of a worker that died is delivered again, also when it
\* died after its commit and before the acknowledgement.
VerifyCrash(v) ==
  /\ ver[v].pc \in {"llm", "titles", "commit", "over"} /\ Fault
  /\ ver' = [ver EXCEPT ![v] = Blank("sent", ver[v].of)]
  /\ UNCHANGED <<cand, topic, scan, signal, pair, link, ext>>
-----------------------------------------------------------------------------
ScanStep(s) == ScanStart(s) \/ ScanDelete(s) \/ ScanFill(s) \/ ScanRefused(s) \/ ScanDemo(s)

VerifyStep(v) ==
  VerifySend(v) \/ VerifyLoad(v) \/ Judge(v) \/ Titles(v) \/ VerifyCommit(v)

Next ==
  \/ SignalNext /\ UNCHANGED fvars
  \/ \E s \in Scans : ScanStep(s) /\ UNCHANGED wvars
  \/ \E v \in Verifications : VerifyStep(v) /\ UNCHANGED wvars
  \/ \E v \in Verifications : VerifyCrash(v)

Spec == Init /\ [][Next]_vars
-----------------------------------------------------------------------------
Statuses == {"absent", "pending", "deleted"} \cup Verdicts

Scan == [pc : {"idle", "delete", "fill", "demo", "over", "failed"},
         saw : SUBSET Ids, gone : SUBSET Ids]

Verification ==
  [pc : {"idle", "sent", "llm", "titles", "commit", "over"}, of : SUBSET Ids,
   was : Statuses, now : Statuses, seen : SUBSET Ids, titles : SUBSET Names]

TypeOK ==
  /\ SignalTypeOK
  /\ cand \in [Ids -> Statuses] /\ topic \in [Names -> Nat]
  /\ scan \in [Scans -> Scan] /\ ver \in [Verifications -> Verification]

\* A candidate with a verdict is the audit history: no scan deletes it, also not
\* one that saw it pending, and only another verdict replaces it.
VerdictsKept == [][\A i \in Ids : cand[i] \in Verdicts => cand'[i] \in Verdicts]_vars

\* Candidates do not pile up: what was pending when a scan began is gone or judged
\* once it has committed, whichever scans and verifications overlap it.
OldCandidatesGone ==
  \A s \in Scans : scan[s].pc \in {"demo", "over"} =>
    \A i \in scan[s].saw : cand[i] # "pending"

\* A topic comes from a candidate of its name that was validated: if it no longer
\* is, a later verdict has rejected it.
TopicsWereValidated ==
  \A n \in Names : topic[n] > 0 => \E i \in Ids : Name(i) = n /\ cand[i] \in Verdicts

\* When a verification that validates commits, every candidate that had been
\* validated when it read them is a topic, also after a crash that repeats it.
SyncedHaveTopics ==
  [][\A v \in Verifications :
       ver[v].pc = "commit" /\ ver'[v].pc = "over" /\ ver[v].now = "validated"
         => \/ \E i \in ver[v].of : cand[i] = "deleted"
            \/ \A i \in ver[v].seen : topic'[Name(i)] > 0]_vars

\* What the design asks of the link from scan to topics: a validated candidate is
\* a topic.  The code makes its topic at the next validation only.
ValidatedHasTopic == \A i \in Ids : cand[i] = "validated" => topic[Name(i)] > 0
=============================================================================
