--------------------------- MODULE MCUserPrompts ---------------------------
(* Instances of UserPrompts for TLC. *)
EXTENDS UserPrompts

CONSTANTS s1, s2, act, tool, proj, q1

(* Two sessions, one without a project; one request of each kind: the      *)
(* application always forces a prompt, other callers of the service do not.*)
OneProject == [s \in {s1, s2} |-> IF s = s1 THEN proj ELSE None]
TwoAsks == {[session |-> s1, action |-> act, tool |-> tool, force |-> TRUE],
            [session |-> s2, action |-> act, tool |-> tool, force |-> FALSE]}
QuestionOfFirst == [q \in {q1} |-> s1]
=============================================================================
