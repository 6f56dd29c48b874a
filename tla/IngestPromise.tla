--------------------------- MODULE IngestPromise ---------------------------
(***************************************************************************)
(* What the ingest pipeline promises about its durable state, without      *)
(* sessions, batches, locks or processes: a source row, once it is in a    *)
(* profile or stands in an error record, stays so; and whatever value the  *)
(* watermark of a table takes, no row below it is unaccounted for.         *)
(***************************************************************************)
EXTENDS Integers

CONSTANTS
  Tables,   \* all source tables
  Promised, \* those whose rows become profiles
  MaxKey    \* rows a table may hold

VARIABLES done, errs, wm

vars == <<done, errs, wm>>

Accounted(D, E, marks) ==
  \A t \in Promised : \A k \in 1..marks[t] : <<t, k>> \in D \cup E

Init ==
  /\ done = {} /\ errs = {}
  /\ wm = [t \in Tables |-> 0]

Advance ==
  /\ done \subseteq done'
  /\ errs \subseteq errs'
  /\ wm' \in [Tables -> 0..MaxKey]
  /\ Accounted(done', errs', wm')

Spec == Init /\ [][Advance]_vars
=============================================================================
