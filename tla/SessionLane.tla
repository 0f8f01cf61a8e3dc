---------------------------- MODULE SessionLane ----------------------------
(* SessionTurns, while all turns are durable, implements TurnLane. *)
EXTENDS SessionTurns

(* A turn holds the lane from startNextQueuedTurn until its startTurn has  *)
(* returned and its executor is no longer registered.                      *)
HoldsLane(t) == pc[t] \in Startup \/ active = t

LaneHolder == IF \E t \in Turns : HoldsLane(t) THEN CHOOSE t \in Turns : HoldsLane(t)
              ELSE None

LaneWaiting == {t \in Turns : request[t] = "accepted"}

LaneEnded == {t \in Turns : request[t] \notin {"none", "accepted"} /\ t # LaneHolder}

Lane == INSTANCE TurnLane
          WITH waiting <- LaneWaiting, holder <- LaneHolder, ended <- LaneEnded

(* Accepted turns run one at a time and at most once each, across          *)
(* interruptions, cancellations, shutdowns and restarts.                   *)
LaneSpec == Lane!Spec
=============================================================================
