---------------------------- MODULE DispatchOrder ----------------------------
(***************************************************************************)
(* What the dispatches of one turn promise to those who make them: serial  *)
(* ones are served one at a time in the order they came, each that was     *)
(* accepted gets one outcome for good, and a crash gives an outcome to all *)
(* that have none.                                                         *)
(***************************************************************************)
CONSTANT Dispatches

VARIABLES
  stage,    \* where each dispatch stands
  ahead,    \* the dispatches that were in the lane when it came
  outcome   \* "none", or what it came to

vars == <<stage, ahead, outcome>>

Outcomes == {"completed", "failed", "canceled"}

Init ==
  /\ stage = [d \in Dispatches |-> "new"]
  /\ ahead = [d \in Dispatches |-> {}]
  /\ outcome = [d \in Dispatches |-> "none"]

InLane == {d \in Dispatches : stage[d] \in {"waiting", "serving"}}

ItsTurn(d) == \A e \in ahead[d] : stage[e] = "done"

Moves(d, from, to) == stage[d] = from /\ stage' = [stage EXCEPT ![d] = to]

(* A call is refused, runs beside the others, or returns at once and       *)
(* leaves its outcome open.                                                *)
Call(d) ==
  /\ \E s \in {"refused", "free", "done"} : Moves(d, "new", s)
  /\ UNCHANGED <<ahead, outcome>>

(* A serial call gets in line.                                             *)
Join(d) ==
  /\ Moves(d, "new", "waiting")
  /\ ahead' = [ahead EXCEPT ![d] = InLane]
  /\ UNCHANGED outcome

Begin(d) == ItsTurn(d) /\ Moves(d, "waiting", "serving") /\ UNCHANGED <<ahead, outcome>>

(* The outcome is known before the call has returned.                      *)
Answer(d) ==
  /\ stage[d] \in {"serving", "free"} /\ outcome[d] = "none"
  /\ outcome' = [outcome EXCEPT ![d] = "completed"]
  /\ UNCHANGED <<stage, ahead>>

End(d) ==
  /\ Moves(d, "serving", "done") \/ Moves(d, "free", "done")
  /\ \E o \in Outcomes : /\ outcome[d] \in {"none", o}
                         /\ outcome' = [outcome EXCEPT ![d] = o]
  /\ UNCHANGED ahead

(* One that is canceled while it waits keeps its place.                    *)
Withdraw(d) ==
  /\ ItsTurn(d) /\ Moves(d, "waiting", "done")
  /\ outcome' = [outcome EXCEPT ![d] = "canceled"]
  /\ UNCHANGED ahead

Uncalled(d) == stage[d] \in {"new", "refused"}

Crash ==
  /\ stage' = [d \in Dispatches |-> IF Uncalled(d) THEN stage[d] ELSE "done"]
  /\ outcome' = [d \in Dispatches |->
                   IF Uncalled(d) \/ outcome[d] # "none" THEN outcome[d] ELSE "failed"]
  /\ ahead' = [d \in Dispatches |-> {}]

Next ==
  \/ \E d \in Dispatches :
        Call(d) \/ Join(d) \/ Begin(d) \/ Answer(d) \/ End(d) \/ Withdraw(d)
  \/ Crash

Spec == Init /\ [][Next]_vars
=============================================================================
