--------------------------- MODULE MCCollectionTask ---------------------------
(* Instances of CollectionTask for TLC. *)
EXTENDS CollectionTask

\* Nothing; one profile; an empty record alone, with profiles of which one is
\* refused, or with one the schema does not admit.
MCFeeds == [blank : {1}, valid : {<<>>, <<"good", "bad", "good">>, <<"invalid">>}]
             \cup {[blank |-> 0, valid |-> v] : v \in {<<>>, <<"good">>}}

\* What a bulk import stores and counts in closed form is what its session ends
\* with, one profile after the other, for every request of up to four profiles.
ASSUME ClosedFormHolds ==
  \A n \in 0..4 : \A ps \in [1..n -> Kinds] :
    SessionAfter(ps) = [accepted |-> Accepted(ps), held |-> Stored(ps)]
=============================================================================
