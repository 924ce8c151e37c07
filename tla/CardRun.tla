------------------------------- MODULE CardRun -------------------------------
(***************************************************************************)
(* What a run of a card promises to whoever starts it: RunRegistry.start   *)
(* and run_card_lifecycle as the scheduler, the inbox and the operator see *)
(* them, through the card row alone.  Scheduler takes its runs to be this, *)
(* and Attempt, the runs in detail, implements it.                         *)
(***************************************************************************)

CONSTANT Reasons      \* blocked_reason_code; "none" is one

VARIABLES
  stage,      \* of the card's newest run
  row         \* the card row

vars == <<stage, row>>

Flagged(reason) == [row EXCEPT !.reason = reason, !.flag = TRUE]

Init == stage = "off" /\ row = [status |-> "todo", reason |-> "none", flag |-> FALSE]

\* one run per card; an answer clears the block as it starts one
Start ==
  /\ stage = "off" /\ stage' = "registered"
  /\ row' \in {row, [row EXCEPT !.reason = "none", !.flag = FALSE]}

\* a run begins by clearing what the last one left
Begin ==
  /\ stage = "registered" /\ stage' = "working"
  /\ row' = [status |-> "doing", reason |-> "none", flag |-> FALSE]

\* both gates passed
Opening ==
  /\ stage = "working" /\ stage' = "opening"
  /\ row' = [row EXCEPT !.status = "checking"]

\* whatever becomes of a run, somebody is called: it ends with its card flagged
End ==
  /\ stage \in {"registered", "working", "opening"} /\ stage' = "ended"
  /\ \E reason \in Reasons : row' = Flagged(reason)

Leave == stage = "ended" /\ stage' = "off" /\ UNCHANGED row

LooksAtWork == row.status = "doing" /\ row.reason = "none"

\* the board may die, and then calls somebody only for a card that was at work: one answered
\* after an earlier death may still look like one
Die ==
  /\ stage # "off" /\ stage' = "off"
  /\ \/ stage = "working" /\ row.reason = "none" /\ row' = Flagged("CRASH")
     \/ stage = "registered" /\ LooksAtWork /\ row' = Flagged("CRASH")
     \/ ~(stage = "working" /\ row.reason = "none") /\ UNCHANGED row

\* the sweep blocks a card it read as checking, whatever the card does by then
Outdated ==
  /\ "OUTDATED" \in Reasons
  /\ row' = Flagged("OUTDATED") /\ UNCHANGED stage

Accept ==
  /\ stage = "off" /\ row.status = "checking"
  /\ row' = [row EXCEPT !.status = "accepted"] /\ UNCHANGED stage

Next == Start \/ Begin \/ Opening \/ End \/ Leave \/ Die \/ Outdated \/ Accept

Spec == Init /\ [][Next]_vars
=============================================================================
