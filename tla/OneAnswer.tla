------------------------------ MODULE OneAnswer ------------------------------
(***************************************************************************)
(* What PendingUserQuestionStore promises of the questions to the user: a  *)
(* question is closed once and for good, its answer is submitted as a turn *)
(* once at most, and not after the question was answered or lost.          *)
(***************************************************************************)
EXTENDS Naturals

CONSTANT Questions

VARIABLES
  status,  \* "new", "pending", or what a question was closed with
  turns    \* turns submitted with its answer

vars == <<status, turns>>

Init == status = [q \in Questions |-> "new"] /\ turns = [q \in Questions |-> 0]

Pose(q) ==
  /\ status[q] = "new" /\ status' = [status EXCEPT ![q] = "pending"]
  /\ UNCHANGED turns

Close(S, how) ==
  /\ \A q \in S : status[q] = "pending"
  /\ status' = [q \in Questions |-> IF q \in S THEN how ELSE status[q]]
  /\ UNCHANGED turns

(* The agent that asked is gone: the answer becomes a turn.  A question     *)
(* that was cancelled in the meantime stays so.                            *)
Submit(q) ==
  /\ status[q] \in {"pending", "cancelled"} /\ turns[q] = 0
  /\ turns' = [turns EXCEPT ![q] = 1]
  /\ status' = [status EXCEPT ![q] = IF @ = "pending" THEN "answered" ELSE @]

Next ==
  \/ \E q \in Questions : Pose(q) \/ Submit(q)
  \/ \E S \in SUBSET Questions, how \in {"answered", "cancelled", "lost"} : Close(S, how)

Spec == Init /\ [][Next]_vars
=============================================================================
