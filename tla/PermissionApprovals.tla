------------------------ MODULE PermissionApprovals ------------------------
(***************************************************************************)
(* The approval of tool calls: class PermissionService of                  *)
(* packages/agent-runtime/src/services/permission.service.ts and the rows  *)
(* of permission_rules and permission_decisions it reads and writes.       *)
(*                                                                         *)
(* A prompt's entry in _pendingApprovals, its entry in _approvalSessions   *)
(* and its timer are made and deleted together; the stage of the request   *)
(* that awaits it stands for the three.  An answer to a prompt that is no  *)
(* longer pending returns false and changes nothing: it is no step.  The   *)
(* promise callbacks of an answer run before the next event of the process.*)
(***************************************************************************)
CONSTANTS
  Requests,   \* calls of requestApproval
  Sessions,
  Actions,    \* the keys of the rules: file_write, command_dangerous, ...
  Tools,      \* tool names
  Projects,
  ProjectOf,  \* the project of a session
  Global,     \* the scope of a decision for all projects
  Asks,       \* what requestApproval may be called with
  None        \* nothing

ASSUME PermissionAssumption ==
  /\ ProjectOf \in [Sessions -> Projects \cup {None}]
  /\ Asks \subseteq [session : Sessions, action : Actions, tool : Tools, force : BOOLEAN]
  /\ None \notin Projects \cup Asks \cup {Global} /\ Global \notin Projects

VARIABLES
  mode,       \* the rules of the active profile
  allowances, \* _sessionAllowances
  denials,    \* _sessionDenials
  remembered, \* permission_decisions
  stage,      \* where a request stands: the prompt it awaits, or its result
  call,       \* what a request that awaits a prompt was called with
  twice,      \* those of them that read the mode ask-twice
  first       \* the answer to the first of two prompts, before the second

decisions == <<allowances, denials, remembered>>
locals == <<call, twice, first>>
permissionVars == <<mode, decisions, stage, locals>>

Modes   == {"allow", "ask", "ask-twice", "deny"}
Deny    == {"deny", "deny-session", "deny-project", "deny-global"}
Allow   == {"allow-once", "allow-session", "allow-project", "allow-global"}
Results == {"granted", "denied"}

(* A key of permission_decisions: project or global, action, tool name.    *)
Keys == (Projects \cup {Global}) \X Actions \X Tools

PermissionTypeOK ==
  /\ mode \in [Actions -> Modes]
  /\ allowances \subseteq Sessions \X Actions
  /\ denials \subseteq Sessions \X Actions
  /\ remembered \in [Keys -> {"none", "allow", "deny"}]
  /\ call \in [Requests -> Asks \cup {None}]
  /\ stage \in [Requests -> {"new", "first", "second", "lost"} \cup Results]
  /\ twice \subseteq Requests
  /\ first \in [Requests -> Allow \cup {None}]

PermissionInit ==
  /\ mode \in [Actions -> Modes]
  /\ allowances = {} /\ denials = {}
  /\ remembered = [k \in Keys |-> "none"]
  /\ call = [r \in Requests |-> None]
  /\ stage = [r \in Requests |-> "new"]
  /\ twice = {}
  /\ first = [r \in Requests |-> None]

-----------------------------------------------------------------------------
(* requestApproval up to its first await                                   *)
(*                                                                         *)
(* A definition marked "Faulty:" is the one that follows it with a mistake *)
(* put in; no action uses it.                                              *)

Waiting(r) == stage[r] \in {"first", "second"}

Topic(q) == <<q.session, q.action>>

Key(scope, q) == <<scope, q.action, q.tool>>

(* findDecision: the row of the project before the global one.             *)
Remembered(q) ==
  LET p == ProjectOf[q.session]
  IN  IF p # None /\ remembered[Key(p, q)] # "none" THEN remembered[Key(p, q)]
      ELSE remembered[Key(Global, q)]

(* The checks before a prompt.  forcePrompt disregards what denies, and    *)
(* the mode allow.                                                         *)
Ruling(q) ==
  IF ~q.force /\ Topic(q) \in denials THEN "denied"
  ELSE IF Topic(q) \in allowances THEN "granted"
  ELSE IF ~q.force /\ "deny" \in {mode[q.action], Remembered(q)} THEN "denied"
  ELSE IF Remembered(q) = "allow" \/ (~q.force /\ mode[q.action] = "allow") THEN "granted"
  ELSE "first"

RequestApproval(r, q) ==
  /\ stage[r] = "new"
  /\ stage' = [stage EXCEPT ![r] = Ruling(q)]
  /\ IF Ruling(q) \in Results THEN UNCHANGED locals
     ELSE /\ call' = [call EXCEPT ![r] = q]
          /\ twice' = twice \cup (IF mode[q.action] = "ask-twice" THEN {r} ELSE {})
          /\ UNCHANGED first
  /\ UNCHANGED <<mode, decisions>>

-----------------------------------------------------------------------------
(* The answers *)

(* Faulty: the answer is stored, not what it means. *)
RememberAnswer(q, d, verdict) ==
  remembered' = IF d \in {"allow-global", "deny-global"}
                THEN [remembered EXCEPT ![Key(Global, q)] = d] ELSE remembered

(* rememberDecision: a decision for a project needs one.                   *)
Remember(q, d, verdict) ==
  LET p == ProjectOf[q.session]
      scope == CASE d \in {"allow-project", "deny-project"} -> p
                 [] d \in {"allow-global", "deny-global"} -> Global
                 [] OTHER -> None
  IN  remembered' = IF scope = None THEN remembered
                    ELSE [remembered EXCEPT ![Key(scope, q)] = verdict]

(* The requests of S are over, and their local variables with them.        *)
End(S, result) ==
  /\ stage' = [r \in Requests |-> IF r \in S THEN result ELSE stage[r]]
  /\ call' = [r \in Requests |-> IF r \in S THEN None ELSE call[r]]
  /\ twice' = twice \ S
  /\ first' = [r \in Requests |-> IF r \in S THEN None ELSE first[r]]

(* applyDenyDecision, denyForSession                                       *)
Refuse(r, d) ==
  LET t == IF d = "deny-session" THEN {Topic(call[r])} ELSE {}
  IN  /\ End({r}, "denied")
      /\ denials' = denials \cup t /\ allowances' = allowances \ t
      /\ Remember(call[r], d, "deny")
      /\ UNCHANGED mode

(* selectGrantDecision: the wider of the two.                              *)
Wider(d, e) ==
  IF "allow-global" \in {d, e} THEN "allow-global"
  ELSE IF "allow-project" \in {d, e} THEN "allow-project"
  ELSE IF "allow-session" \in {d, e} THEN "allow-session"
  ELSE "allow-once"

(* What follows the last answer that allows; allowForSession.              *)
Grant(r, d) ==
  LET t == IF d = "allow-session" THEN {Topic(call[r])} ELSE {}
  IN  /\ End({r}, "granted")
      /\ allowances' = allowances \cup t /\ denials' = denials \ t
      /\ Remember(call[r], d, "allow")
      /\ UNCHANGED mode

(* Faulty: the rule is read again, after the await. *)
NeedsSecondNow(r) == stage[r] = "first" /\ mode[call[r].action] = "ask-twice"

NeedsSecond(r) == stage[r] = "first" /\ r \in twice

(* Faulty: the first answer is applied at once. *)
HoldAndApply(r, d) ==
  /\ stage' = [stage EXCEPT ![r] = "second"]
  /\ first' = [first EXCEPT ![r] = d]
  /\ allowances' = allowances \cup
                     (IF d = "allow-session" THEN {Topic(call[r])} ELSE {})
  /\ UNCHANGED <<mode, denials, remembered, call, twice>>

(* The second prompt; the first answer waits in a local variable.          *)
Hold(r, d) ==
  /\ stage' = [stage EXCEPT ![r] = "second"]
  /\ first' = [first EXCEPT ![r] = d]
  /\ UNCHANGED <<mode, decisions, call, twice>>

(* resolveApproval *)
Answer(r, d) ==
  /\ Waiting(r)
  /\ \/ d \in Deny /\ Refuse(r, d)
     \/ d \in Allow /\ NeedsSecond(r) /\ Hold(r, d)
     \/ d \in Allow /\ ~NeedsSecond(r) /\ Grant(r, Wider(first[r], d))

(* Faulty: the second prompt has no timer. *)
TimerOfFirst(r) == stage[r] = "first"

HasTimer(r) == Waiting(r)

(* The timer of a prompt, five minutes after it was shown.                 *)
Timeout(r) == HasTimer(r) /\ Refuse(r, "deny")

-----------------------------------------------------------------------------
(* Rules, cancellation, the exit of the process *)

(* updateRule, setActiveProfileId *)
ChangeRules ==
  /\ mode' \in [Actions -> Modes]
  /\ UNCHANGED <<decisions, stage, locals>>

PromptsOf(s) == {r \in Requests : Waiting(r) /\ call[r].session = s}

(* cancelPendingApprovals: the answer "deny", then the decisions.          *)
CancelPendingApprovals(s) ==
  /\ End(PromptsOf(s), "denied")
  /\ allowances' = allowances \ ({s} \X Actions)
  /\ denials' = denials \ ({s} \X Actions)
  /\ UNCHANGED <<mode, remembered>>

(* The process exits: what is in memory is gone.                           *)
PermissionExit ==
  /\ End({r \in Requests : Waiting(r)}, "lost")
  /\ allowances' = {} /\ denials' = {}
  /\ UNCHANGED <<mode, remembered>>

PermissionStep ==
  \/ \E r \in Requests : \/ \E q \in Asks : RequestApproval(r, q)
                         \/ \E d \in Allow \cup Deny : Answer(r, d)
                         \/ Timeout(r)
  \/ ChangeRules

-----------------------------------------------------------------------------
(* Properties *)

(* Requests of session s that a step grants. *)
Granting(s) == {r \in Requests : /\ Waiting(r) /\ stage'[r] = "granted"
                                 /\ call[r].session = s}

(* What a later call may rely on (a session allowance, a stored "allow")   *)
(* appears only together with the grant of a request that was prompted, in *)
(* its session or project: never with the first of two answers, a denial,  *)
(* a timeout or a cancellation.                                            *)
NothingAllowedByHalf ==
  [][/\ \A t \in allowances' \ allowances : Granting(t[1]) # {}
     /\ \A k \in Keys :
          remembered'[k] = "allow" /\ remembered[k] # "allow"
            => \E s \in Sessions : k[1] \in {ProjectOf[s], Global} /\ Granting(s) # {}
    ]_permissionVars

(* A request that met the rule ask-twice and was prompted is granted after *)
(* two answers that allow it, whatever becomes of the rule in between.     *)
AskTwiceHolds ==
  [][\A r \in twice : stage'[r] = "granted" => stage[r] = "second" /\ first[r] \in Allow]_permissionVars

(* Every prompted request ends, in one prompt or two: the agent does not   *)
(* hang on a user who is away.                                             *)
EveryRequestAnswered == \A r \in Requests : Waiting(r) ~> ~Waiting(r)
=============================================================================
