--------------------------- MODULE UserQuestions ---------------------------
(***************************************************************************)
(* The questions of agents to the user: class PendingUserQuestionStore of  *)
(* apps/desktop/src/main/ipc/user-question-store.ts with the callbacks     *)
(* that apps/desktop/src/main/ipc/index.ts gives it.                       *)
(*                                                                         *)
(* A question id is the id of a tool call (or random): one that is closed  *)
(* is not asked again, one that is pending may be, by an SDK that connects *)
(* again.                                                                  *)
(***************************************************************************)
EXTENDS Naturals

CONSTANTS
  Questions,
  SessionOf  \* the session of a question

VARIABLES
  outcome,    \* "new", "pending", or what a question was closed with
  attached,   \* questions with a signal that has not been aborted
  detached,   \* entry.detached
  settling,   \* entry.settling
  delivering, \* calls of resolve that await onDetachedAnswer
  recovered   \* turns submitted with the answer

questionVars == <<outcome, attached, detached, settling, delivering, recovered>>

Closed == {"answered", "cancelled", "lost"}

MaxRecovered == 2  \* bound on recovered, one above what may happen

TypeOK ==
  /\ outcome \in [Questions -> {"new", "pending"} \cup Closed]
  /\ attached \subseteq Questions /\ detached \subseteq Questions
  /\ settling \subseteq Questions
  /\ delivering \in [Questions -> 0 .. 2]
  /\ recovered \in [Questions -> 0 .. MaxRecovered]

Init ==
  /\ outcome = [q \in Questions |-> "new"]
  /\ attached = {} /\ detached = {} /\ settling = {}
  /\ delivering = [q \in Questions |-> 0]
  /\ recovered = [q \in Questions |-> 0]

-----------------------------------------------------------------------------
(* A definition marked "Faulty:" is the one that follows it with a mistake *)
(* put in; no action uses it.                                              *)

Pending(q) == outcome[q] = "pending"

(* attachSignal: a signal replaces the one before, or is aborted already.  *)
AttachSignal(q, live) ==
  IF live THEN attached' = attached \cup {q} /\ detached' = detached \ {q}
  ELSE attached' = attached \ {q} /\ detached' = detached \cup {q}

(* request() of a question that is not pending; a workflow's has no signal.*)
Ask(q) ==
  /\ outcome[q] = "new"
  /\ outcome' = [outcome EXCEPT ![q] = "pending"]
  /\ \/ UNCHANGED <<attached, detached>>
     \/ \E live \in BOOLEAN : AttachSignal(q, live)
  /\ UNCHANGED <<settling, delivering, recovered>>

(* request() of one that is, with another signal.                          *)
AskAgain(q) ==
  /\ Pending(q) /\ q \in attached \cup detached
  /\ \E live \in BOOLEAN : AttachSignal(q, live)
  /\ UNCHANGED <<outcome, settling, delivering, recovered>>

(* onAbort: the SDK's control request is gone, the question stays.         *)
SignalAborts(q) ==
  /\ Pending(q) /\ q \in attached
  /\ attached' = attached \ {q} /\ detached' = detached \cup {q}
  /\ UNCHANGED <<outcome, settling, delivering, recovered>>

-----------------------------------------------------------------------------
(* finish() of those of S that are in the map.                             *)
Finish(S, reason) ==
  LET open == {q \in S : Pending(q)}
  IN  /\ outcome' = [q \in Questions |-> IF q \in open THEN reason ELSE outcome[q]]
      /\ attached' = attached \ open
      /\ UNCHANGED detached

(* Faulty: an answer that is on its way is no obstacle. *)
TakesEveryAnswer(q) == Pending(q) /\ delivering[q] < 2

TakesAnswer(q) == Pending(q) /\ q \notin settling

(* resolve() by the user: an answer, unless the question is detached.      *)
Answer(q) ==
  /\ TakesAnswer(q) /\ q \notin detached
  /\ settling' = settling \cup {q}
  /\ Finish({q}, "answered")
  /\ UNCHANGED <<delivering, recovered>>

(* resolve() with cancelled or declined.                                   *)
Decline(q) ==
  /\ TakesAnswer(q) /\ q \in detached
  /\ settling' = settling \cup {q}
  /\ Finish({q}, "answered")
  /\ UNCHANGED <<delivering, recovered>>

(* resolve() of a detached question: onDetachedAnswer looks for the        *)
(* attachments of the turn that asked, then submits a turn.                *)
AnswerDetached(q) ==
  /\ TakesAnswer(q) /\ q \in detached
  /\ settling' = settling \cup {q}
  /\ delivering' = [delivering EXCEPT ![q] = @ + 1]
  /\ UNCHANGED <<outcome, attached, detached, recovered>>

(* submitTurn has accepted the turn; the question may be closed by now.    *)
Delivered(q) ==
  /\ delivering[q] > 0 /\ recovered[q] < MaxRecovered
  /\ delivering' = [delivering EXCEPT ![q] = @ - 1]
  /\ recovered' = [recovered EXCEPT ![q] = @ + 1]
  /\ Finish({q}, "answered")
  /\ UNCHANGED settling

Reopen(q) == settling' = settling \ {q}

(* submitTurn rejects; the user may try again.                             *)
DeliveryFails(q) ==
  /\ delivering[q] > 0
  /\ delivering' = [delivering EXCEPT ![q] = @ - 1]
  /\ Reopen(q)
  /\ UNCHANGED <<outcome, attached, detached, recovered>>

(* cancelSession *)
CancelSession(s) ==
  /\ Finish({q \in Questions : SessionOf[q] = s}, "cancelled")
  /\ UNCHANGED <<settling, delivering, recovered>>

(* The process exits with the store.                                       *)
Exit ==
  /\ Finish(Questions, "lost")
  /\ delivering' = [q \in Questions |-> 0]
  /\ UNCHANGED <<settling, recovered>>

Step == \E q \in Questions : \/ Ask(q) \/ AskAgain(q) \/ SignalAborts(q)
                             \/ Answer(q) \/ Decline(q) \/ AnswerDetached(q)
                             \/ Delivered(q) \/ DeliveryFails(q)

-----------------------------------------------------------------------------
(* Properties *)

(* An answer to a question is submitted as a turn once, however often the  *)
(* user sends it, the SDK detaches, or a submission fails and is repeated. *)
RecoveredOnce == \A q \in Questions : recovered[q] <= 1

(* What a question was closed with stays: an answer whose turn is accepted *)
(* after the session was cancelled does not make it an answered one.       *)
FirstOutcomeStays ==
  [][\A q \in Questions : outcome[q] \in Closed => outcome'[q] = outcome[q]]_questionVars
=============================================================================
