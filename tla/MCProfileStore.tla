---------------------------- MODULE MCProfileStore ----------------------------
(* Instances of ProfileStore for TLC. *)
EXTENDS ProfileStore

MCTyped == [w \in Writers |-> "typed"]
MCFits == {S \in SUBSET Fields : Cardinality(S) < 3}
=============================================================================
