----------------------------- MODULE MCFrontier -----------------------------
(* Instances of Frontier for TLC. *)
EXTENDS Frontier, TLC

\* The extractions are of two periods, the scans all of one.
MCPeriodOf == [e \in Extractions |-> IF e = "e2" THEN "feb" ELSE "jan"]
MCScanPeriod == [s \in Scans |-> "jan"]
\* The demo rows are named like a term the extractions may find.
MCDemoName == [d \in DemoRows |-> "chip"]
\* Scans and verifications are interchangeable.
MCSymmetry == Permutations(Scans) \cup Permutations(Verifications)
MCFinds == {{}, {"agent"}, Terms}
MCPairs == {<<a, b>> \in Terms \X Terms : a = "agent" /\ b = "chip"}
=============================================================================
