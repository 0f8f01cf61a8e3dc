------------------------- MODULE UserPrompts_proofs -------------------------
(* Proofs about UserPrompts, for any requests, sessions, rules and           *)
(* questions.                                                                *)
EXTENDS UserPrompts, Naturals, TLAPS

(* What the local variables of requestApproval hold while it awaits a        *)
(* prompt, and that nobody else has any.                                     *)
Locals ==
  \A r \in Requests :
    /\ Waiting(r) => call[r] \in Asks
    /\ stage[r] = "second" => first[r] \in Allow
    /\ r \in twice => Waiting(r)

(* An answer is on its way once, by a question that takes no other; a        *)
(* question whose answer was submitted is closed.                            *)
Deliveries ==
  \A q \in Questions :
    /\ delivering[q] \in {0, 1} /\ recovered[q] \in {0, 1}
    /\ delivering[q] = 1 => /\ q \in settling /\ recovered[q] = 0
                            /\ outcome[q] \in {"pending", "cancelled"}
    /\ recovered[q] = 1 => outcome[q] \in Questioning!Closed

(* The inductive invariant. *)
Books == PermissionTypeOK /\ Questioning!TypeOK /\ Locals /\ Deliveries

Approving == PermissionStep \/ PermissionExit
             \/ \E s \in Sessions : CancelPendingApprovals(s)
Asking    == Questioning!Step \/ Questioning!Exit
             \/ \E s \in Sessions : Questioning!CancelSession(s)

(* A step is one of the prompts, one of the questions, or both.              *)
LEMMA Halves ==
  ASSUME [Next]_vars
  PROVE  /\ Approving \/ UNCHANGED permissionVars
         /\ Asking \/ UNCHANGED questionVars
BY DEF Next, vars, OnApprovalCancel, Exit, Approving, Asking

-----------------------------------------------------------------------------
(* The prompts *)

LEMMA RulingType == ASSUME NEW q PROVE Ruling(q) \in {"first"} \cup Results
BY DEF Ruling, Results

LEMMA AskFields ==
  ASSUME NEW q \in Asks
  PROVE  q.session \in Sessions /\ q.action \in Actions /\ q.tool \in Tools
BY PermissionAssumption

LEMMA EndKeeps ==
  ASSUME PermissionTypeOK, Locals, NEW S \in SUBSET Requests,
         NEW result \in {"lost"} \cup Results, End(S, result)
  PROVE  /\ stage' \in [Requests -> {"new", "first", "second", "lost"} \cup Results]
         /\ call' \in [Requests -> Asks \cup {None}]
         /\ twice' \subseteq Requests /\ first' \in [Requests -> Allow \cup {None}]
         /\ Locals'
BY DEF PermissionTypeOK, Locals, End, Waiting, Results

LEMMA RememberType ==
  ASSUME PermissionTypeOK, NEW q \in Asks, NEW d \in Allow \cup Deny,
         NEW verdict \in {"allow", "deny"}, Remember(q, d, verdict)
  PROVE  remembered' \in [Keys -> {"none", "allow", "deny"}]
<1>1. q.session \in Sessions /\ q.action \in Actions /\ q.tool \in Tools
  BY AskFields
<1>2. ProjectOf[q.session] \in Projects \cup {None}
  BY <1>1, PermissionAssumption
<1> DEFINE scope == CASE d \in {"allow-project", "deny-project"} -> ProjectOf[q.session]
                      [] d \in {"allow-global", "deny-global"} -> Global
                      [] OTHER -> None
<1>3. scope \in Projects \cup {Global, None}
  BY <1>2
<1>4. remembered' = IF scope = None THEN remembered
                    ELSE [remembered EXCEPT ![Key(scope, q)] = verdict]
  BY DEF Remember
<1>5. scope # None => Key(scope, q) \in Keys
  BY <1>1, <1>3 DEF Key, Keys
<1> HIDE DEF scope
<1> QED BY <1>4, <1>5 DEF PermissionTypeOK

LEMMA RequestKeeps ==
  ASSUME PermissionTypeOK, Locals, NEW r \in Requests, NEW q \in Asks,
         RequestApproval(r, q)
  PROVE  PermissionTypeOK' /\ Locals'
<1> USE DEF RequestApproval, decisions, locals
<1>1. Ruling(q) \in {"first"} \cup Results
  BY RulingType
<1>2. CASE Ruling(q) \in Results
  BY <1>2 DEF PermissionTypeOK, Locals, Waiting, Results
<1>3. CASE Ruling(q) = "first"
  <2>1. call' = [call EXCEPT ![r] = q] /\ twice \subseteq twice'
        /\ twice' \subseteq twice \cup {r} /\ first' = first
    BY <1>3 DEF Results
  <2> QED BY <1>3, <2>1 DEF PermissionTypeOK, Locals, Waiting, Results
<1> QED BY <1>1, <1>2, <1>3

LEMMA RefuseKeeps ==
  ASSUME PermissionTypeOK, Locals, NEW r \in Requests, Waiting(r), NEW d \in Deny,
         Refuse(r, d)
  PROVE  PermissionTypeOK' /\ Locals'
<1>1. call[r] \in Asks
  BY DEF Locals
<1>2. Topic(call[r]) \in Sessions \X Actions
  BY <1>1, AskFields DEF Topic
<1>3. remembered' \in [Keys -> {"none", "allow", "deny"}]
  BY <1>1, RememberType DEF Refuse
<1>4. denials' \subseteq Sessions \X Actions /\ allowances' \subseteq Sessions \X Actions
  BY <1>2 DEF Refuse, PermissionTypeOK
<1>5. End({r}, "denied") /\ mode' = mode
  BY DEF Refuse
<1> QED BY <1>3, <1>4, <1>5, EndKeeps DEF PermissionTypeOK, Results

LEMMA GrantKeeps ==
  ASSUME PermissionTypeOK, Locals, NEW r \in Requests, Waiting(r), NEW d \in Allow,
         Grant(r, d)
  PROVE  PermissionTypeOK' /\ Locals'
<1>1. call[r] \in Asks
  BY DEF Locals
<1>2. Topic(call[r]) \in Sessions \X Actions
  BY <1>1, AskFields DEF Topic
<1>3. remembered' \in [Keys -> {"none", "allow", "deny"}]
  BY <1>1, RememberType DEF Grant
<1>4. denials' \subseteq Sessions \X Actions /\ allowances' \subseteq Sessions \X Actions
  BY <1>2 DEF Grant, PermissionTypeOK
<1>5. End({r}, "granted") /\ mode' = mode
  BY DEF Grant
<1> QED BY <1>3, <1>4, <1>5, EndKeeps DEF PermissionTypeOK, Results

LEMMA HoldKeeps ==
  ASSUME PermissionTypeOK, Locals, NEW r \in Requests, Waiting(r), NEW d \in Allow,
         Hold(r, d)
  PROVE  PermissionTypeOK' /\ Locals'
BY DEF Hold, PermissionTypeOK, Locals, Waiting, decisions

LEMMA WiderType == ASSUME NEW d, NEW e PROVE Wider(d, e) \in Allow
BY DEF Wider, Allow

LEMMA ApprovingKeeps ==
  ASSUME PermissionTypeOK, Locals, Approving
  PROVE  PermissionTypeOK' /\ Locals'
<1>1. CASE \E r \in Requests, q \in Asks : RequestApproval(r, q)
  BY <1>1, RequestKeeps
<1>2. ASSUME NEW r \in Requests, NEW d \in Allow \cup Deny, Answer(r, d)
      PROVE  PermissionTypeOK' /\ Locals'
  <2>1. Waiting(r)
    BY <1>2 DEF Answer
  <2>2. CASE d \in Deny /\ Refuse(r, d)
    BY <2>1, <2>2, RefuseKeeps
  <2>3. CASE d \in Allow /\ Hold(r, d)
    BY <2>1, <2>3, HoldKeeps
  <2>4. CASE Grant(r, Wider(first[r], d))
    BY <2>1, <2>4, WiderType, GrantKeeps
  <2> QED BY <1>2, <2>2, <2>3, <2>4 DEF Answer
<1>3. CASE \E r \in Requests : Timeout(r)
  BY <1>3, RefuseKeeps DEF Timeout, HasTimer, Deny
<1>4. CASE ChangeRules
  BY <1>4 DEF ChangeRules, decisions, locals, PermissionTypeOK, Locals, Waiting
<1>5. CASE PermissionExit
  <2>1. {r \in Requests : Waiting(r)} \in SUBSET Requests
    OBVIOUS
  <2> QED BY <1>5, <2>1, EndKeeps DEF PermissionExit, PermissionTypeOK
<1>6. CASE \E s \in Sessions : CancelPendingApprovals(s)
  <2> PICK s \in Sessions : CancelPendingApprovals(s)
    BY <1>6
  <2>1. PromptsOf(s) \in SUBSET Requests
    BY DEF PromptsOf
  <2>2. End(PromptsOf(s), "denied") /\ mode' = mode /\ remembered' = remembered
        /\ allowances' \subseteq allowances /\ denials' \subseteq denials
    BY DEF CancelPendingApprovals
  <2> QED BY <2>1, <2>2, EndKeeps DEF PermissionTypeOK, Results
<1> QED BY <1>1, <1>2, <1>3, <1>4, <1>5, <1>6 DEF Approving, PermissionStep

-----------------------------------------------------------------------------
(* The questions *)

LEMMA FinishKeeps ==
  ASSUME Questioning!TypeOK, NEW S \in SUBSET Questions,
         NEW reason \in Questioning!Closed, Questioning!Finish(S, reason)
  PROVE  /\ outcome' \in [Questions -> {"new", "pending"} \cup Questioning!Closed]
         /\ attached' \subseteq Questions /\ detached' \subseteq Questions
         /\ \A q \in Questions :
              /\ outcome[q] \in Questioning!Closed => outcome'[q] = outcome[q]
              /\ outcome[q] # "new" => outcome'[q] # "new"
              /\ q \in S /\ outcome[q] # "new" => outcome'[q] \in Questioning!Closed
              /\ outcome'[q] \in {outcome[q], reason}
              /\ q \notin S => outcome'[q] = outcome[q]
BY DEF Questioning!TypeOK, Questioning!Finish, Questioning!Pending, Questioning!Closed

LEMMA StepKeeps ==
  ASSUME Questioning!TypeOK, Deliveries, NEW q \in Questions,
         \/ Questioning!Ask(q) \/ Questioning!AskAgain(q) \/ Questioning!SignalAborts(q)
         \/ Questioning!Answer(q) \/ Questioning!Decline(q) \/ Questioning!AnswerDetached(q)
         \/ Questioning!Delivered(q) \/ Questioning!DeliveryFails(q)
  PROVE  /\ Questioning!TypeOK' /\ Deliveries'
         /\ \A p \in Questions : outcome[p] \in Questioning!Closed => outcome'[p] = outcome[p]
<1> USE DEF Questioning!TypeOK, Deliveries
<1>1. CASE Questioning!Ask(q) \/ Questioning!AskAgain(q) \/ Questioning!SignalAborts(q)
  <2>1. /\ attached' \subseteq Questions /\ detached' \subseteq Questions
        /\ UNCHANGED <<settling, delivering, recovered>>
    BY <1>1 DEF Questioning!Ask, Questioning!AskAgain, Questioning!SignalAborts,
                Questioning!AttachSignal
  <2>2. \/ outcome' = outcome
        \/ outcome[q] = "new" /\ outcome' = [outcome EXCEPT ![q] = "pending"]
    BY <1>1 DEF Questioning!Ask, Questioning!AskAgain, Questioning!SignalAborts
  <2> QED BY <2>1, <2>2 DEF Questioning!Closed
<1>2. CASE Questioning!Answer(q) \/ Questioning!Decline(q)
  <2>1. /\ Questioning!Finish({q}, "answered") /\ settling' = settling \cup {q}
        /\ UNCHANGED <<delivering, recovered>>
    BY <1>2 DEF Questioning!Answer, Questioning!Decline
  <2>2. "answered" \in Questioning!Closed /\ {q} \in SUBSET Questions
    BY DEF Questioning!Closed
  <2>3. delivering[q] = 0
    BY <1>2 DEF Questioning!Answer, Questioning!Decline, Questioning!TakesAnswer
  <2>4. /\ outcome' \in [Questions -> {"new", "pending"} \cup Questioning!Closed]
        /\ attached' \subseteq Questions /\ detached' \subseteq Questions
        /\ \A p \in Questions :
             /\ outcome[p] \in Questioning!Closed => outcome'[p] = outcome[p]
             /\ p # q => outcome'[p] = outcome[p]
    BY <2>1, <2>2, FinishKeeps
  <2> QED BY <2>1, <2>3, <2>4
<1>3. CASE Questioning!AnswerDetached(q)
  <2>1. outcome[q] = "pending" /\ q \notin settling
    BY <1>3 DEF Questioning!AnswerDetached, Questioning!TakesAnswer, Questioning!Pending
  <2>2. delivering[q] = 0 /\ recovered[q] = 0
    BY <2>1 DEF Questioning!Closed
  <2> QED BY <1>3, <2>1, <2>2 DEF Questioning!AnswerDetached
<1>4. CASE Questioning!Delivered(q)
  <2>1. /\ delivering[q] = 1 /\ Questioning!Finish({q}, "answered")
        /\ delivering' = [delivering EXCEPT ![q] = @ - 1]
        /\ recovered' = [recovered EXCEPT ![q] = @ + 1]
        /\ settling' = settling
    BY <1>4 DEF Questioning!Delivered
  <2>2. "answered" \in Questioning!Closed /\ {q} \in SUBSET Questions
    BY DEF Questioning!Closed
  <2>3. outcome[q] # "new" /\ recovered[q] = 0
    BY <2>1
  <2>4. /\ outcome' \in [Questions -> {"new", "pending"} \cup Questioning!Closed]
        /\ attached' \subseteq Questions /\ detached' \subseteq Questions
        /\ outcome'[q] \in Questioning!Closed
        /\ \A p \in Questions :
             /\ outcome[p] \in Questioning!Closed => outcome'[p] = outcome[p]
             /\ p # q => outcome'[p] = outcome[p]
    BY <2>1, <2>2, <2>3, FinishKeeps
  <2>5. /\ delivering' \in [Questions -> 0..2] /\ recovered' \in [Questions -> 0..2]
        /\ delivering'[q] = 0 /\ recovered'[q] = 1
        /\ \A p \in Questions \ {q} :
             delivering'[p] = delivering[p] /\ recovered'[p] = recovered[p]
    BY <2>1, <2>3 DEF Questioning!MaxRecovered
  <2>6. Questioning!TypeOK'
    BY <2>1, <2>4, <2>5 DEF Questioning!MaxRecovered
  <2>7. Deliveries'
    BY <2>1, <2>4, <2>5
  <2> QED BY <2>4, <2>6, <2>7
<1>5. CASE Questioning!DeliveryFails(q)
  <2>1. /\ delivering[q] = 1 /\ delivering' = [delivering EXCEPT ![q] = @ - 1]
        /\ settling' = settling \ {q}
        /\ UNCHANGED <<outcome, attached, detached, recovered>>
    BY <1>5 DEF Questioning!DeliveryFails, Questioning!Reopen
  <2> QED BY <2>1
<1> QED BY <1>1, <1>2, <1>3, <1>4, <1>5

LEMMA AskingKeeps ==
  ASSUME Questioning!TypeOK, Deliveries, Asking
  PROVE  /\ Questioning!TypeOK' /\ Deliveries'
         /\ \A p \in Questions : outcome[p] \in Questioning!Closed => outcome'[p] = outcome[p]
<1>1. CASE Questioning!Step
  BY <1>1, StepKeeps DEF Questioning!Step
<1>2. ASSUME NEW S \in SUBSET Questions, NEW reason \in Questioning!Closed,
             Questioning!Finish(S, reason),
             \/ delivering' = delivering /\ reason = "cancelled"
             \/ delivering' = [q \in Questions |-> 0],
             UNCHANGED <<settling, recovered>>
      PROVE  /\ Questioning!TypeOK' /\ Deliveries'
             /\ \A p \in Questions : outcome[p] \in Questioning!Closed => outcome'[p] = outcome[p]
  <2>1. /\ outcome' \in [Questions -> {"new", "pending"} \cup Questioning!Closed]
        /\ attached' \subseteq Questions /\ detached' \subseteq Questions
        /\ \A p \in Questions :
             /\ outcome[p] \in Questioning!Closed => outcome'[p] = outcome[p]
             /\ outcome'[p] \in {outcome[p], reason}
    BY <1>2, FinishKeeps
  <2>2. /\ delivering' \in [Questions -> 0..2] /\ settling' = settling
        /\ recovered' = recovered
        /\ \A p \in Questions : /\ delivering'[p] \in {0, delivering[p]}
                                /\ delivering'[p] = 1 => reason = "cancelled"
    BY <1>2 DEF Questioning!TypeOK
  <2>3. Questioning!TypeOK'
    BY <2>1, <2>2 DEF Questioning!TypeOK
  <2>4. ASSUME NEW p \in Questions, delivering'[p] # 0
        PROVE  delivering[p] = 1 /\ reason = "cancelled"
    BY <2>2, <2>4 DEF Deliveries
  <2>5. Deliveries'
    BY <2>1, <2>2, <2>4 DEF Deliveries
  <2> QED BY <2>1, <2>3, <2>5
<1>3. CASE Questioning!Exit
  BY <1>2, <1>3 DEF Questioning!Exit, Questioning!Closed
<1>4. CASE \E s \in Sessions : Questioning!CancelSession(s)
  BY <1>2, <1>4 DEF Questioning!CancelSession, Questioning!Closed
<1> QED BY <1>1, <1>3, <1>4 DEF Asking

-----------------------------------------------------------------------------
(* The invariant *)

LEMMA InitBooks == Init => Books
BY DEF Init, PermissionInit, Questioning!Init, Books, PermissionTypeOK, Questioning!TypeOK,
       Locals, Deliveries, Waiting, Questioning!MaxRecovered

LEMMA NextBooks == Books /\ [Next]_vars => Books'
<1> SUFFICES ASSUME Books, [Next]_vars PROVE Books'
  OBVIOUS
<1>1. PermissionTypeOK' /\ Locals'
  <2>1. CASE UNCHANGED permissionVars
    BY <2>1 DEF Books, permissionVars, decisions, locals, PermissionTypeOK, Locals, Waiting
  <2> QED BY <2>1, Halves, ApprovingKeeps DEF Books
<1>2. Questioning!TypeOK' /\ Deliveries'
  <2>1. CASE UNCHANGED questionVars
    BY <2>1 DEF Books, questionVars, Questioning!TypeOK, Deliveries
  <2> QED BY <2>1, Halves, AskingKeeps DEF Books
<1> QED BY <1>1, <1>2 DEF Books

LEMMA BooksKept == Spec => []Books
BY InitBooks, NextBooks, PTL DEF Spec

(* Every variable keeps its type, whatever is asked, answered and cancelled. *)
THEOREM TypeCorrect == Spec => []TypeOK
<1>1. Books => TypeOK
  BY DEF Books, TypeOK
<1> QED BY BooksKept, <1>1, PTL

(* user-question-store.ts submits the answer to a detached question as a     *)
(* turn once.                                                                *)
THEOREM AnswerIsSubmittedOnce == Spec => []RecoveredOnce
<1>1. Books => RecoveredOnce
  BY DEF Books, Deliveries, RecoveredOnce, Questioning!RecoveredOnce
<1> QED BY BooksKept, <1>1, PTL

(* What finish() has closed a question with is never changed.                *)
THEOREM OutcomeIsFinal == Spec => FirstOutcomeStays
<1>1. Books /\ [Next]_vars
        => [\A q \in Questions : outcome[q] \in Questioning!Closed
                                   => outcome'[q] = outcome[q]]_(Questioning!questionVars)
  BY Halves, AskingKeeps DEF Books, questionVars
<1> QED BY BooksKept, <1>1, PTL DEF Spec, FirstOutcomeStays, Questioning!FirstOutcomeStays

LEMMA FinishCloses ==
  ASSUME Questioning!TypeOK, NEW S \in SUBSET Questions, NEW how \in Questioning!Closed,
         Questioning!Finish(S, how), recovered' = recovered
  PROVE  Promise!Next
<1> DEFINE open == {q \in S : outcome[q] = "pending"}
<1>1. Promise!Close(open, how)
  BY DEF Promise!Close, Questioning!Finish, Questioning!Pending
<1> QED BY <1>1 DEF Promise!Next, Questioning!Closed

LEMMA StepIsPromise ==
  ASSUME Books, Asking
  PROVE  [Promise!Next]_(Promise!vars)
<1> USE DEF Books
<1>1. ASSUME NEW q \in Questions, Questioning!Ask(q) PROVE Promise!Next
  BY <1>1 DEF Questioning!Ask, Promise!Pose, Promise!Next
<1>2. ASSUME NEW q \in Questions,
             \/ Questioning!AskAgain(q) \/ Questioning!SignalAborts(q)
             \/ Questioning!AnswerDetached(q) \/ Questioning!DeliveryFails(q)
      PROVE  UNCHANGED Promise!vars
  BY <1>2 DEF Questioning!AskAgain, Questioning!SignalAborts, Questioning!AnswerDetached,
              Questioning!DeliveryFails, Promise!vars
<1>3. ASSUME NEW q \in Questions, Questioning!Answer(q) \/ Questioning!Decline(q)
      PROVE  Promise!Next
  <2>1. Questioning!Finish({q}, "answered") /\ recovered' = recovered
    BY <1>3 DEF Questioning!Answer, Questioning!Decline
  <2>2. "answered" \in Questioning!Closed /\ {q} \in SUBSET Questions
    BY DEF Questioning!Closed
  <2> QED BY <2>1, <2>2, FinishCloses
<1>4. ASSUME NEW q \in Questions, Questioning!Delivered(q) PROVE Promise!Next
  <2>1. /\ outcome[q] \in {"pending", "cancelled"} /\ recovered[q] = 0
        /\ recovered' = [recovered EXCEPT ![q] = 1]
    <3>1. delivering[q] > 0 /\ recovered' = [recovered EXCEPT ![q] = @ + 1]
      BY <1>4 DEF Questioning!Delivered
    <3>2. delivering[q] \in {0, 1}
      BY DEF Deliveries
    <3>3. delivering[q] = 1
      BY <3>1, <3>2
    <3>4. outcome[q] \in {"pending", "cancelled"} /\ recovered[q] = 0
      BY <3>3 DEF Deliveries
    <3> QED BY <3>1, <3>4
  <2>2. outcome' = [outcome EXCEPT ![q] = IF @ = "pending" THEN "answered" ELSE @]
    BY <1>4 DEF Questioning!Delivered, Questioning!Finish, Questioning!Pending,
                Questioning!TypeOK
  <2> QED BY <2>1, <2>2 DEF Promise!Submit, Promise!Next
<1>5. CASE Questioning!Exit
  BY <1>5, FinishCloses DEF Questioning!Exit, Questioning!Closed
<1>6. CASE \E s \in Sessions : Questioning!CancelSession(s)
  BY <1>6, FinishCloses DEF Questioning!CancelSession, Questioning!Closed
<1> QED BY <1>1, <1>2, <1>3, <1>4, <1>5, <1>6 DEF Asking, Questioning!Step

(* PendingUserQuestionStore, beside the approvals, implements OneAnswer: a   *)
(* question is closed once, and its answer becomes a turn once and not after *)
(* it was answered or lost.                                                  *)
THEOREM OneAnswerEach == Spec => QuestionSpec
<1>1. Init => Promise!Init
  BY DEF Init, Questioning!Init, Promise!Init
<1>2. Books /\ [Next]_vars => [Promise!Next]_(Promise!vars)
  <2>1. UNCHANGED questionVars => UNCHANGED Promise!vars
    BY DEF questionVars, Promise!vars
  <2> QED BY <2>1, Halves, StepIsPromise
<1> QED BY <1>1, <1>2, BooksKept, PTL DEF Spec, QuestionSpec, Promise!Spec

(* permission.service.ts grants a request under ask-twice only after two     *)
(* answers that allow it.                                                    *)
THEOREM TwoAnswers == Spec => AskTwiceHolds
<1>1. ASSUME Books, [Next]_vars, NEW r \in twice, stage'[r] = "granted"
      PROVE  stage[r] = "second" /\ first[r] \in Allow
  <2>1. r \in Requests /\ Waiting(r)
    BY <1>1 DEF Books, PermissionTypeOK, Locals
  <2>2. stage[r] = "second" => first[r] \in Allow
    BY <1>1, <2>1 DEF Books, Locals
  <2>3. ASSUME stage[r] = "first" PROVE FALSE
    <3>1. Approving
      BY <1>1, <2>3, Halves DEF permissionVars
    <3>2. stage \in [Requests -> {"new", "first", "second", "lost"} \cup Results]
      BY <1>1 DEF Books, PermissionTypeOK
    <3>3. ASSUME NEW s \in Requests, NEW q \in Asks, RequestApproval(s, q) PROVE FALSE
      BY <1>1, <2>1, <2>3, <3>2, <3>3 DEF RequestApproval
    <3>4. ASSUME NEW s \in Requests, NEW d \in Allow \cup Deny, Answer(s, d) PROVE FALSE
      BY <1>1, <2>1, <2>3, <3>2, <3>4
         DEF Answer, Refuse, Grant, Hold, NeedsSecond, End
    <3>5. ASSUME NEW s \in Requests, Timeout(s) PROVE FALSE
      BY <1>1, <2>1, <2>3, <3>2, <3>5 DEF Timeout, Refuse, End
    <3>6. CASE PermissionExit \/ \E s \in Sessions : CancelPendingApprovals(s)
      BY <1>1, <2>1, <2>3, <3>2, <3>6 DEF PermissionExit, CancelPendingApprovals, End
    <3>7. CASE ChangeRules
      BY <1>1, <2>3, <3>7 DEF ChangeRules
    <3> QED BY <3>1, <3>3, <3>4, <3>5, <3>6, <3>7 DEF Approving, PermissionStep
  <2> QED BY <2>1, <2>2, <2>3 DEF Waiting
<1>2. Books /\ [Next]_vars
        => [\A r \in twice : stage'[r] = "granted"
                               => stage[r] = "second" /\ first[r] \in Allow]_permissionVars
  BY <1>1
<1> QED BY BooksKept, <1>2, PTL DEF Spec, AskTwiceHolds

LEMMA RememberAllows ==
  ASSUME PermissionTypeOK, NEW q \in Asks, NEW d \in Allow \cup Deny,
         NEW verdict \in {"allow", "deny"}, Remember(q, d, verdict),
         NEW k \in Keys, remembered'[k] = "allow", remembered[k] # "allow"
  PROVE  verdict = "allow" /\ k[1] \in {ProjectOf[q.session], Global}
<1> DEFINE scope == CASE d \in {"allow-project", "deny-project"} -> ProjectOf[q.session]
                      [] d \in {"allow-global", "deny-global"} -> Global
                      [] OTHER -> None
<1>1. scope # None /\ remembered' = [remembered EXCEPT ![Key(scope, q)] = verdict]
  BY DEF Remember
<1>2. scope \in {ProjectOf[q.session], Global, None}
  OBVIOUS
<1> HIDE DEF scope
<1>3. k = Key(scope, q) /\ verdict = "allow"
  BY <1>1 DEF PermissionTypeOK
<1> QED BY <1>1, <1>2, <1>3 DEF Key

(* A session allowance or a stored "allow" comes with the grant of a request *)
(* that was prompted (requestApproval applies nothing before its last        *)
(* answer).                                                                  *)
THEOREM NoHalfAllowance == Spec => NothingAllowedByHalf
<1> DEFINE Backed ==
      /\ \A t \in allowances' \ allowances : Granting(t[1]) # {}
      /\ \A k \in Keys :
           remembered'[k] = "allow" /\ remembered[k] # "allow"
             => \E s \in Sessions : k[1] \in {ProjectOf[s], Global} /\ Granting(s) # {}
<1>1. ASSUME Books, Approving PROVE Backed
  <2>1. PermissionTypeOK /\ Locals
    BY <1>1 DEF Books
  <2>2. CASE remembered' = remembered /\ allowances' \subseteq allowances
    BY <2>2
  <2>3. ASSUME NEW r \in Requests, NEW d \in Deny, Waiting(r), Refuse(r, d)
        PROVE  Backed
    <3>1. call[r] \in Asks
      BY <2>1, <2>3 DEF Locals
    <3>2. \A k \in Keys : ~(remembered'[k] = "allow" /\ remembered[k] # "allow")
      BY <2>1, <2>3, <3>1, RememberAllows DEF Refuse
    <3> QED BY <2>3, <3>2 DEF Refuse
  <2>4. ASSUME NEW r \in Requests, NEW d \in Allow, Waiting(r), Grant(r, d)
        PROVE  Backed
    <3>1. call[r] \in Asks /\ call[r].session \in Sessions
      BY <2>1, <2>4, AskFields DEF Locals
    <3>2. r \in Granting(call[r].session)
      BY <2>4 DEF Grant, End, Granting
    <3>3. \A t \in allowances' \ allowances : t[1] = call[r].session
      BY <2>4 DEF Grant, Topic
    <3>4. \A k \in Keys : remembered'[k] = "allow" /\ remembered[k] # "allow"
                            => k[1] \in {ProjectOf[call[r].session], Global}
      BY <2>1, <2>4, <3>1, RememberAllows DEF Grant
    <3> QED BY <3>1, <3>2, <3>3, <3>4
  <2>5. CASE \E r \in Requests, q \in Asks : RequestApproval(r, q)
    BY <2>2, <2>5 DEF RequestApproval, decisions
  <2>6. ASSUME NEW r \in Requests, NEW d \in Allow \cup Deny, Answer(r, d) PROVE Backed
    <3>1. CASE d \in Allow /\ Hold(r, d)
      BY <2>2, <3>1 DEF Hold, decisions
    <3> QED BY <2>3, <2>4, <2>6, <3>1, WiderType DEF Answer
  <2>7. CASE \E r \in Requests : Timeout(r)
    BY <2>3, <2>7 DEF Timeout, HasTimer, Deny
  <2>8. CASE ChangeRules \/ PermissionExit \/ \E s \in Sessions : CancelPendingApprovals(s)
    BY <2>2, <2>8 DEF ChangeRules, PermissionExit, CancelPendingApprovals, decisions
  <2> QED BY <1>1, <2>5, <2>6, <2>7, <2>8 DEF Approving, PermissionStep
<1>2. Books /\ [Next]_vars => [Backed]_permissionVars
  BY <1>1, Halves
<1> QED BY BooksKept, <1>2, PTL DEF Spec, NothingAllowedByHalf
=============================================================================
