---------------------------- MODULE Completeness ----------------------------
(***************************************************************************)
(* The completeness of a profile: how much of the weight of the fields its *)
(* type names is present.  Weights are doubled to stay integers.           *)
(***************************************************************************)
EXTENDS Integers, FiniteSets

\* A required field weighs 1, a recommended one a half.
Weight(S, required) == 2 * Cardinality(S \cap required) + Cardinality(S \ required)
Total(required, fields) == Weight(fields, required)

\* The score, in units of 1/Total.
CountsTwiceBug(present, required, fields) ==
  Weight(present \cap fields, required) + Cardinality(present \cap required)
Score(present, required, fields) == Weight(present \cap fields, required)

\* Below 60 percent a profile needs enrichment.
Low(score, required, fields) == 10 * score < 6 * Total(required, fields)
=============================================================================
