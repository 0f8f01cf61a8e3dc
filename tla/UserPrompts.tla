---------------------------- MODULE UserPrompts ----------------------------
(***************************************************************************)
(* Everything the main process waits for the user with: PermissionService  *)
(* and PendingUserQuestionStore, which SessionService cancels together     *)
(* (onApprovalCancel in apps/desktop/src/main/ipc/index.ts) and which the  *)
(* exit of the process empties together.                                   *)
(***************************************************************************)
EXTENDS PermissionApprovals

CONSTANTS Questions, SessionOf

ASSUME QuestionAssumption == SessionOf \in [Questions -> Sessions]

VARIABLES outcome, attached, detached, settling, delivering, recovered

Questioning == INSTANCE UserQuestions

questionVars == <<outcome, attached, detached, settling, delivering, recovered>>
vars == <<permissionVars, questionVars>>

TypeOK == PermissionTypeOK /\ Questioning!TypeOK

Init == PermissionInit /\ Questioning!Init

(* onApprovalCancel, called when a turn is cancelled, interrupted, deleted *)
(* or recovered.                                                           *)
OnApprovalCancel(s) ==
  /\ CancelPendingApprovals(s)
  /\ Questioning!CancelSession(s)

Exit == PermissionExit /\ Questioning!Exit

Next ==
  \/ PermissionStep /\ UNCHANGED questionVars
  \/ Questioning!Step /\ UNCHANGED permissionVars
  \/ \E s \in Sessions : OnApprovalCancel(s)
  \/ Exit

Spec == Init /\ [][Next]_vars

Times(r) == Timeout(r) /\ UNCHANGED questionVars

Delivers(q) ==
  /\ Questioning!Delivered(q) \/ Questioning!DeliveryFails(q)
  /\ UNCHANGED permissionVars

(* Timers fire, and submitTurn returns or rejects.  No user has to answer. *)
Fairness ==
  /\ \A r \in Requests : WF_vars(Times(r))
  /\ \A q \in Questions : WF_vars(Delivers(q))

FairSpec == Spec /\ Fairness

-----------------------------------------------------------------------------
(* Properties *)

(* Of the questions: an answer becomes a turn once.                        *)
RecoveredOnce == Questioning!RecoveredOnce

(* A question that was cancelled is not answered later, nor the reverse.   *)
FirstOutcomeStays == Questioning!FirstOutcomeStays

(* Both, and that no turn follows once the question was answered or lost:  *)
(* the store implements OneAnswer, beside the approvals.                   *)
Promise == INSTANCE OneAnswer WITH status <- outcome, turns <- recovered

QuestionSpec == Promise!Spec
=============================================================================
