---------------------------- MODULE MCScheduler ----------------------------
(* Instances of Scheduler for TLC. *)
EXTENDS Scheduler

\* "often" fires at every time, "once" at 1 only.
MCFires == [c \in Crons |-> IF c = "often" THEN Time ELSE {1}]
MCCronOf == [t \in Tasks |-> "often"]
=============================================================================
