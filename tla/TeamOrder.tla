------------------------------ MODULE TeamOrder ------------------------------
(* TeamDispatch, where members have no dispatch tools, implements            *)
(* DispatchOrder.                                                            *)
EXTENDS TeamDispatch

Stage(d) ==
  CASE phase[d] \in {"new", "refused"} -> phase[d]
    [] phase[d] = "queued" -> "waiting"
    [] phase[d] \in {"executing", "forwarding"} -> IF Serial(d) THEN "serving" ELSE "free"
    [] OTHER -> "done"

Outcome(d) == IF row[d] \in Final THEN row[d] ELSE "none"

Stages == [d \in Dispatches |-> Stage(d)]

Results == [d \in Dispatches |-> Outcome(d)]

Order == INSTANCE DispatchOrder WITH stage <- Stages, outcome <- Results

(* The serial dispatches of a turn are served one at a time in the order of  *)
(* the calls, and an outcome that was given is given for good, under         *)
(* timeouts, cancellation, the end of the turn, shutdown and restart.        *)
OrderSpec == Order!Spec
==============================================================================
