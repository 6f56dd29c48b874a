------------------------------ MODULE TaskLife ------------------------------
(***************************************************************************)
(* The life a task row promises to whoever watches it: it appears, open    *)
(* or at its end, ends at most once, and what it says then it says for     *)
(* ever.                                                                   *)
(***************************************************************************)
CONSTANTS
  Tasks,    \* the task rows
  Ends      \* the final statuses

VARIABLE life

Open == {"absent", "open"}

Init == life = [t \in Tasks |-> "absent"]

Appear(t) == life[t] = "absent" /\ life'[t] = "open"
End(t) == life[t] \in Open /\ life'[t] \in Ends

\* One commit may write several rows.
Write ==
  /\ life' \in [Tasks -> Open \cup Ends]
  /\ \A t \in Tasks : life'[t] = life[t] \/ Appear(t) \/ End(t)

Spec == Init /\ [][Write]_life
=============================================================================
