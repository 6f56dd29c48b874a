----------------------------- MODULE BulkImport -----------------------------
(***************************************************************************)
(* bulk_import of the profile services: the profiles of one request are    *)
(* created one after the other in one session.  A profile the database or  *)
(* the response schema refuses rolls the session back, and with it the     *)
(* profiles created before it, which stay counted.  One commit ends the    *)
(* request.                                                                *)
(***************************************************************************)
EXTENDS Integers, Sequences, FiniteSets

\* A profile of a request: one `create` takes, one it refuses, and one the
\* request schema does not even admit.
Kinds == {"good", "bad", "invalid"}

\* The session of a request: what it has counted, what its transaction holds.
Fresh == [accepted |-> 0, held |-> {}]

\* The i-th profile p of the request.
Create(s, i, p) ==
  IF p = "good" THEN [accepted |-> s.accepted + 1, held |-> s.held \cup {i}]
                ELSE [s EXCEPT !.held = {}]

\* The session after the first i profiles of a request.
SessionAfter(ps) ==
  LET after[i \in 0..Len(ps)] == IF i = 0 THEN Fresh ELSE Create(after[i - 1], i, ps[i])
  IN  after[Len(ps)]

\* The request schema refuses a request with one profile it does not admit.
Admitted(ps) == \A i \in DOMAIN ps : ps[i] # "invalid"

\* What the commit stores, and what the response counts, in closed form.
Stored(ps) == {i \in DOMAIN ps : \A k \in i..Len(ps) : ps[k] = "good"}
Accepted(ps) == Cardinality({i \in DOMAIN ps : ps[i] = "good"})
=============================================================================
