------------------------------ MODULE TurnLane ------------------------------
(***************************************************************************)
(* What the durable turn queue of a session promises: one lane.  A turn    *)
(* that was accepted waits, holds the lane alone at most once, and has     *)
(* then ended for good, whatever is interrupted, disposed of or restarted. *)
(***************************************************************************)
CONSTANTS Turns, None

VARIABLES
  waiting,  \* turns accepted and not begun
  holder,   \* the turn that holds the lane, or None
  ended     \* turns that have left the lane, or were withdrawn

vars == <<waiting, holder, ended>>

Init == waiting = {} /\ holder = None /\ ended = {}

Fresh(t) == t \in Turns /\ t \notin waiting \cup ended /\ t # holder

Accept(t) == Fresh(t) /\ waiting' = waiting \cup {t} /\ UNCHANGED <<holder, ended>>

Withdraw(t) ==
  /\ t \in waiting
  /\ waiting' = waiting \ {t} /\ ended' = ended \cup {t}
  /\ UNCHANGED holder

Begin(t) ==
  /\ holder = None /\ t \in waiting
  /\ holder' = t /\ waiting' = waiting \ {t}
  /\ UNCHANGED ended

End == /\ holder # None
       /\ ended' = ended \cup {holder} /\ holder' = None
       /\ UNCHANGED waiting

(* The lane passes from one turn to the next in one step.                  *)
HandOver(t) ==
  /\ holder # None /\ t \in waiting
  /\ ended' = ended \cup {holder}
  /\ holder' = t /\ waiting' = waiting \ {t}

(* A new turn interrupts the holder.                                       *)
Interrupt(t) ==
  /\ holder # None /\ Fresh(t)
  /\ ended' = ended \cup {holder} /\ holder' = None
  /\ waiting' = waiting \cup {t}

Next == \/ End
        \/ \E t \in Turns : \/ Accept(t) \/ Withdraw(t) \/ Begin(t)
                            \/ HandOver(t) \/ Interrupt(t)

Spec == Init /\ [][Next]_vars
=============================================================================
