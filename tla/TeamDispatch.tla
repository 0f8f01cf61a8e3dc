---------------------------- MODULE TeamDispatch ----------------------------
(***************************************************************************)
(* The dispatches of one turn to the members of a team: class              *)
(* TeamDispatchService of                                                  *)
(* packages/agent-runtime/src/services/team-dispatch.service.ts, its       *)
(* team_dispatches rows, and the tools of session.service.ts that call it. *)
(*                                                                         *)
(* Budgets and the serial chain are keyed by turn id; one turn is          *)
(* modelled.  The limits on messages of a discussion (total, per pair,     *)
(* remaining deadline) only refuse a call before it changes anything:      *)
(* refusing is not calling, so they are left out.                          *)
(***************************************************************************)
EXTENDS Naturals, FiniteSets

CONSTANTS
  Dispatches,            \* dispatch ids, one per call of run()
  Members,               \* the enabled members
  Host,                  \* the agent of the turn
  None,                  \* no dispatch
  MaxDispatchesPerTurn,  \* maxDispatchesPerTurn
  MaxPeerCallsPerTurn,   \* maxPeerCallsPerTurn
  MaxSyncConsultDepth,   \* MAX_SYNC_CONSULT_DEPTH
  MaxAutoMentionHops,    \* MAX_AUTO_MENTION_HOPS
  AllowNesting,          \* teamConfig.allowNesting
  MaxDepth,              \* teamConfig.maxDepth
  ShortTimeout           \* teamConfig.dispatchTimeoutMs is below the 30 s a
                         \* peer call keeps in reserve

ASSUME DispatchAssumption ==
  /\ IsFiniteSet(Dispatches) /\ None \notin Dispatches \cup Members
  /\ Host \notin Members /\ Host \notin Dispatches

ASSUME LimitsAssumption ==
  /\ AllowNesting \in BOOLEAN /\ ShortTimeout \in BOOLEAN
  /\ {MaxDispatchesPerTurn, MaxPeerCallsPerTurn, MaxSyncConsultDepth,
      MaxAutoMentionHops, MaxDepth} \subseteq Nat

VARIABLES
  shuttingDown,  \* cancelAllAndWait has been called
  over,          \* the turn's executor has ended and clearTurn was called
  phase,         \* where run() of each dispatch stands
  call,          \* what each dispatch was called with
  controllers,   \* the map of abort controllers
  aborted,       \* dispatches whose signal is aborted
  timedOut,      \* dispatches whose timer fired
  mentions,      \* members still to be forwarded to by a completed dispatch
  previous,      \* the dispatch whose end a serial one awaits, or None
  marker,        \* executionQueueByTurn: the last serial dispatch, or None
  ahead,         \* history: serial dispatches in progress when this one came
  dispatchCount, \* dispatchCountByTurn
  peerCount,     \* peerCallCountByTurn
  row,           \* team_dispatches.state, "none" without a row
  stopped        \* history: dispatches in progress at the latest cancelAll()

control == <<shuttingDown, over, stopped>>
serial  == <<previous, marker, ahead>>
budget  == <<dispatchCount, peerCount>>
vars == <<control, phase, call, controllers, aborted, timedOut, mentions,
          serial, budget, row>>

Kinds    == {"serial", "batch", "call", "forward"}
Phases   == {"new", "refused", "queued", "executing", "forwarding", "early",
             "settled", "lost"}
Progress == {"queued", "executing", "forwarding"}
Final    == {"completed", "failed", "canceled"}

(* deadline: an absolute deadline came with the call.  signal: the         *)
(* dispatch whose signal came with it.  follows: the dispatches whose      *)
(* abort reaches this one.                                                 *)
Calls == [member : Members, caller : Dispatches \cup {Host}, kind : Kinds,
          depth : Nat, hops : Nat, deadline : BOOLEAN,
          signal : Dispatches \cup {None}, follows : SUBSET Dispatches]

NoCall == [member |-> None]

TypeOK ==
  /\ shuttingDown \in BOOLEAN /\ over \in BOOLEAN
  /\ phase \in [Dispatches -> Phases]
  /\ call \in [Dispatches -> Calls \cup {NoCall}]
  /\ controllers \subseteq Dispatches /\ aborted \subseteq Dispatches
  /\ timedOut \subseteq Dispatches /\ stopped \subseteq Dispatches
  /\ mentions \in [Dispatches -> SUBSET Members]
  /\ previous \in [Dispatches -> Dispatches \cup {None}]
  /\ marker \in Dispatches \cup {None}
  /\ ahead \in [Dispatches -> SUBSET Dispatches]
  /\ dispatchCount \in Nat /\ peerCount \in Nat
  /\ row \in [Dispatches -> {"none", "working"} \cup Final]

Init ==
  /\ shuttingDown = FALSE /\ over = FALSE /\ stopped = {}
  /\ phase = [d \in Dispatches |-> "new"]
  /\ call = [d \in Dispatches |-> NoCall]
  /\ controllers = {} /\ aborted = {} /\ timedOut = {}
  /\ mentions = [d \in Dispatches |-> {}]
  /\ previous = [d \in Dispatches |-> None] /\ marker = None
  /\ ahead = [d \in Dispatches |-> {}]
  /\ dispatchCount = 0 /\ peerCount = 0
  /\ row = [d \in Dispatches |-> "none"]

-----------------------------------------------------------------------------
(* run(): checks, row, controller, and the serial chain                    *)
(*                                                                         *)
(* A definition marked "Faulty:" is the one that follows it with a mistake *)
(* put in; no action uses it.                                              *)

Returned(d) == phase[d] \in {"refused", "early", "settled", "lost"}

Live(d) == phase[d] \in Progress

(* Faulty: the failure of the predecessor is not caught. *)
TurnAfterSuccess(d) ==
  previous[d] \in {None} \cup {e \in Dispatches : Returned(e) /\ row[e] = "completed"}

(* The serial predecessor has ended, however it ended.                     *)
Turn(d) == previous[d] \in {None} \cup {e \in Dispatches : Returned(e)}

Forwarded(d) == {f \in Dispatches : call[f] # NoCall /\ call[f].kind = "forward"
                                    /\ call[f].caller = d}

Idle(d) == phase[d] = "forwarding" /\ \A f \in Forwarded(d) : Returned(f)

(* Promise callbacks run before the next tool call, timer or cancellation. *)
Drained == \A d \in Dispatches : ~Idle(d) /\ ~(phase[d] = "queued" /\ Turn(d))

(* abort() of the controllers of S, with the listeners onParentAbort.      *)
Reach(S) == S \cup {d \in Dispatches : call[d] # NoCall /\ call[d].follows \cap S # {}}

(* The signals that reach a call made under the signal of dispatch s: a    *)
(* listener on a signal that is already aborted is never called.           *)
Following(s) == IF s = None \/ s \in aborted THEN {} ELSE {s} \cup call[s].follows

(* What makes run() refuse: the shutdown, the depth, or the budget, which  *)
(* is counted before it is checked.                                        *)
TooDeep(c) == c.depth > 0 /\ (~AllowNesting \/ c.depth >= MaxDepth)

IsPeer(c) == c.kind \in {"call", "forward"}

Denied(c) == shuttingDown \/ TooDeep(c)

OverBudget(c) == IF IsPeer(c) THEN peerCount >= MaxPeerCallsPerTurn
                 ELSE dispatchCount >= MaxDispatchesPerTurn

Refused(c) == Denied(c) \/ OverBudget(c)

(* Faulty: dispatches of a batch are not counted. *)
CountSerialOnly(c) ==
  /\ dispatchCount' = dispatchCount + (IF c.kind = "serial" /\ ~Denied(c) THEN 1 ELSE 0)
  /\ peerCount' = peerCount + (IF IsPeer(c) /\ ~Denied(c) THEN 1 ELSE 0)

Count(c) ==
  /\ dispatchCount' = dispatchCount + (IF IsPeer(c) \/ Denied(c) THEN 0 ELSE 1)
  /\ peerCount' = peerCount + (IF IsPeer(c) /\ ~Denied(c) THEN 1 ELSE 0)

(* A peer call with too little time left returns before the try block.     *)
ReturnsEarly(c) == IsPeer(c) /\ ShortTimeout /\ ~c.deadline

(* The serial dispatches in progress. *)
Serial(d) == call[d] # NoCall /\ call[d].kind = "serial"

Lane == {d \in Dispatches : Serial(d) /\ Live(d)}

Arrives(d) == ahead' = [ahead EXCEPT ![d] = Lane]

(* Faulty: a serial dispatch awaits nobody. *)
JoinsFreely(d) == marker' = d /\ Arrives(d) /\ UNCHANGED previous

(* enqueueTurnExecution *)
Joins(d) == previous' = [previous EXCEPT ![d] = marker] /\ marker' = d /\ Arrives(d)

(* Faulty: a peer call queues up behind the member that makes it. *)
QueuesPeers(c) == c.kind \in {"serial", "call"}

(* Peer calls and the items of a batch pass the queue: options.parallel.   *)
Queues(c) == c.kind = "serial"

(* run() of a call c, up to its first await.                               *)
Run(d, c) ==
  /\ phase[d] = "new"
  /\ call' = [call EXCEPT ![d] = c]
  /\ Count(c)
  /\ \/ /\ Refused(c)
        /\ phase' = [phase EXCEPT ![d] = "refused"]
        /\ UNCHANGED <<row, controllers, serial>>
     \/ /\ ~Refused(c)
        /\ row' = [row EXCEPT ![d] = "working"]
        /\ controllers' = controllers \cup {d}
        /\ IF Queues(c)
           THEN Joins(d) /\ phase' = [phase EXCEPT ![d] = "queued"]
           ELSE /\ phase' = [phase EXCEPT ![d] = IF ReturnsEarly(c) THEN "early" ELSE "executing"]
                /\ UNCHANGED serial
  /\ UNCHANGED <<control, aborted, timedOut>>

-----------------------------------------------------------------------------
(* The tools of the host and of the members *)

(* agent_dispatch and, item by item, agent_dispatch_batch of the host.     *)
HostDispatch(d, m, kind) ==
  /\ Drained /\ ~over
  /\ kind \in {"serial", "batch"}
  /\ Run(d, [member |-> m, caller |-> Host, kind |-> kind, depth |-> 0, hops |-> 0,
             deadline |-> FALSE, signal |-> None, follows |-> {}])
  /\ UNCHANGED mentions

(* The same tools of a member that has them; no signal is passed.          *)
NestedDispatch(d, m, kind, c) ==
  /\ Drained /\ phase[c] = "executing"
  /\ AllowNesting /\ call[c].depth + 1 < MaxDepth
  /\ kind \in {"serial", "batch"}
  /\ Run(d, [member |-> m, caller |-> c, kind |-> kind, depth |-> call[c].depth + 1,
             hops |-> 0, deadline |-> TRUE, signal |-> None, follows |-> {}])
  /\ UNCHANGED mentions

(* ctx.consultDepth of an agent_message call: the tool does not pass it.   *)
ConsultDepth(c) == 0

(* agent_message with a target and mode "call", by a member that executes  *)
(* for dispatch c.  Its deadline may be 30 s away even if the team's is     *)
(* short: the task it works on may have brought its own timeout.           *)
PeerCall(d, m, c) ==
  /\ Drained /\ phase[c] = "executing" /\ call[c].member # m
  /\ ConsultDepth(c) < MaxSyncConsultDepth
  /\ Run(d, [member |-> m, caller |-> c, kind |-> "call", depth |-> 0, hops |-> 1,
             deadline |-> TRUE, signal |-> c, follows |-> Following(c)])
  /\ UNCHANGED mentions

(* The same by the host, without deadline or signal.                       *)
HostCall(d, m) ==
  /\ Drained /\ ~over
  /\ Run(d, [member |-> m, caller |-> Host, kind |-> "call", depth |-> 0, hops |-> 1,
             deadline |-> FALSE, signal |-> None, follows |-> {}])
  /\ UNCHANGED mentions

-----------------------------------------------------------------------------
(* runMember(): the member's turn, its outcome, forwarding, the finally     *)

(* Faulty: the controller is not aborted. *)
SettleQuietly(d, verdict) ==
  /\ phase' = [phase EXCEPT ![d] = "settled"]
  /\ row' = [row EXCEPT ![d] = verdict]
  /\ controllers' = controllers \ {d}
  /\ marker' = IF marker = d THEN None ELSE marker
  /\ UNCHANGED <<control, call, aborted, timedOut, mentions, previous, ahead, budget>>

(* Faulty: the controller stays in the map. *)
SettleListed(d, verdict) ==
  /\ phase' = [phase EXCEPT ![d] = "settled"]
  /\ row' = [row EXCEPT ![d] = verdict]
  /\ aborted' = aborted \cup Reach({d})
  /\ marker' = IF marker = d THEN None ELSE marker
  /\ UNCHANGED <<control, call, controllers, timedOut, mentions, previous, ahead, budget>>

(* The row and the reply, then the finally blocks of runMember and of      *)
(* enqueueTurnExecution.                                                   *)
Settle(d, verdict) ==
  /\ phase' = [phase EXCEPT ![d] = "settled"]
  /\ row' = [row EXCEPT ![d] = verdict]
  /\ aborted' = aborted \cup Reach({d})
  /\ controllers' = controllers \ {d}
  /\ marker' = IF marker = d THEN None ELSE marker
  /\ UNCHANGED <<control, call, timedOut, mentions, previous, ahead, budget>>

(* Faulty: the signal is not looked at when the turn in the chain comes.   *)
StartUnchecked(d) ==
  /\ phase[d] = "queued" /\ Turn(d)
  /\ phase' = [phase EXCEPT ![d] = "executing"]
  /\ UNCHANGED <<control, call, controllers, aborted, timedOut, mentions, serial,
                 budget, row>>

StartQueued(d) ==
  /\ phase[d] = "queued" /\ Turn(d)
  /\ \/ /\ d \in aborted
        /\ Settle(d, "canceled")
     \/ /\ d \notin aborted
        /\ phase' = [phase EXCEPT ![d] = "executing"]
        /\ UNCHANGED <<control, call, controllers, aborted, timedOut, mentions,
                       serial, budget, row>>

(* The timer of a dispatch runs until its finally.                         *)
Timeout(d) ==
  /\ Drained /\ phase[d] \in {"executing", "forwarding"} /\ d \notin timedOut
  /\ timedOut' = timedOut \cup {d}
  /\ aborted' = aborted \cup Reach({d})
  /\ UNCHANGED <<control, phase, call, controllers, mentions, serial, budget, row>>

(* Faulty: the code of the error is stored for the state of the reply. *)
VerdictIsCode(d) == IF d \in timedOut THEN "timeout" ELSE "denied"

Verdict(d) == IF d \in aborted /\ d \notin timedOut THEN "canceled" ELSE "failed"

(* executeMember rejects, or fulfils with what an aborted member had.  An  *)
(* error of the thread or of an event after a reply ends here too: the row *)
(* is "completed" and at once "failed", with no await between.             *)
MemberStops(d) == Drained /\ phase[d] = "executing" /\ Settle(d, Verdict(d))

(* It fulfils: a reply that mentions members is forwarded to at most three *)
(* of them before run() returns.                                           *)
MemberReplies(d) ==
  /\ Drained /\ phase[d] = "executing" /\ d \notin aborted
  /\ \/ Settle(d, "completed")
     \/ /\ call[d].hops < MaxAutoMentionHops
        /\ phase' = [phase EXCEPT ![d] = "forwarding"]
        /\ row' = [row EXCEPT ![d] = "completed"]
        /\ \E ms \in SUBSET (Members \ {call[d].member}) :
             /\ ms # {} /\ Cardinality(ms) <= 3
             /\ mentions' = [mentions EXCEPT ![d] = ms]
        /\ UNCHANGED <<control, call, controllers, aborted, timedOut, serial, budget>>

(* maybeAutoDispatchMentions, one target: recordPeerMessage refuses it, or *)
(* calls run() with the caller, signal and deadline of d.                  *)
SkipMention(d, m) ==
  /\ Idle(d) /\ m \in mentions[d]
  /\ mentions' = [mentions EXCEPT ![d] = @ \ {m}]
  /\ UNCHANGED <<control, phase, call, controllers, aborted, timedOut, serial,
                 budget, row>>

Forward(d, m, f) ==
  LET c == call[d]
  IN  /\ Idle(d) /\ m \in mentions[d]
      /\ mentions' = [mentions EXCEPT ![d] = @ \ {m}]
      /\ Run(f, [member |-> m, caller |-> d, kind |-> "forward", depth |-> 0,
                 hops |-> c.hops + 1, deadline |-> c.deadline, signal |-> c.signal,
                 follows |-> Following(c.signal)])

ForwardingEnds(d) == Idle(d) /\ mentions[d] = {} /\ Settle(d, row[d])

-----------------------------------------------------------------------------
(* Cancellation, the end of the turn, shutdown, the next launch *)

AbortAll == aborted' = aborted \cup Reach(controllers) /\ controllers' = {}

(* cancelAll(), called by cancelTurn, by an interruption, or on behalf of  *)
(* another session.                                                        *)
CancelAll ==
  /\ Drained /\ AbortAll
  /\ stopped' = {d \in Dispatches : Live(d)}
  /\ UNCHANGED <<shuttingDown, over, phase, call, timedOut, mentions, serial,
                 budget, row>>

(* The executor of the host ends; it does not wait for the tools it called.*)
ClearTurn ==
  /\ Drained /\ ~over /\ over' = TRUE
  /\ dispatchCount' = 0 /\ peerCount' = 0 /\ marker' = None
  /\ UNCHANGED <<shuttingDown, stopped, phase, call, controllers, aborted, timedOut,
                 mentions, previous, ahead, row>>

(* cancelAllAndWait, up to its await.                                      *)
ShutDown ==
  /\ Drained /\ ~shuttingDown /\ shuttingDown' = TRUE
  /\ AbortAll
  /\ stopped' = {d \in Dispatches : Live(d)}
  /\ UNCHANGED <<over, phase, call, timedOut, mentions, serial, budget, row>>

Reclaim(state) == IF state = "working" THEN "failed" ELSE state

(* The process exits; markStaleAsFailed of the next one closes the rows.   *)
Restart ==
  /\ \E d \in Dispatches : Live(d) \/ phase[d] = "early"
  /\ phase' = [d \in Dispatches |-> IF row[d] = "none" THEN phase[d] ELSE "lost"]
  /\ row' = [d \in Dispatches |-> Reclaim(row[d])]
  /\ shuttingDown' = FALSE /\ over' = TRUE /\ stopped' = {}
  /\ controllers' = {} /\ aborted' = {} /\ timedOut' = {}
  /\ mentions' = [d \in Dispatches |-> {}]
  /\ previous' = [d \in Dispatches |-> None] /\ marker' = None
  /\ ahead' = [d \in Dispatches |-> {}]
  /\ dispatchCount' = 0 /\ peerCount' = 0
  /\ call' = [d \in Dispatches |-> NoCall]

-----------------------------------------------------------------------------
Dispatch(d, m) ==
  \/ HostCall(d, m)
  \/ \E k \in {"serial", "batch"} : HostDispatch(d, m, k)
  \/ \E c \in Dispatches :
        PeerCall(d, m, c) \/ \E k \in {"serial", "batch"} : NestedDispatch(d, m, k, c)

Proceed(d) ==
  \/ StartQueued(d) \/ ForwardingEnds(d)
  \/ \E m \in Members : SkipMention(d, m) \/ \E f \in Dispatches : Forward(d, m, f)

Next ==
  \/ \E d \in Dispatches : \/ \E m \in Members : Dispatch(d, m)
                           \/ Proceed(d) \/ Timeout(d)
                           \/ MemberStops(d) \/ MemberReplies(d)
  \/ CancelAll \/ ClearTurn \/ ShutDown \/ Restart

Spec == Init /\ [][Next]_vars

(* Promise callbacks run, timers fire, and a member whose signal is        *)
(* aborted stops (its executor is cancelled).  A member that is not may    *)
(* work for ever.                                                          *)
Fairness ==
  \A d \in Dispatches :
    WF_vars(Proceed(d)) /\ WF_vars(Timeout(d)) /\ WF_vars(d \in aborted /\ MemberStops(d))

FairSpec == Spec /\ Fairness

-----------------------------------------------------------------------------
(* Properties *)

(* enqueueTurnExecution: of the serial dispatches of a turn one at a time  *)
(* holds the working directory, forwarding included.                       *)
OneAtATime ==
  \A d, e \in {x \in Dispatches : Serial(x)} :
    phase[d] \in {"executing", "forwarding"} /\ phase[e] \in {"executing", "forwarding"} => d = e

(* The finally of runMember: a settled dispatch has a final row, is in the *)
(* map of controllers no more, and has told its signal.                    *)
SettledIsClean ==
  \A d \in Dispatches :
    phase[d] = "settled" => row[d] \in Final /\ d \notin controllers /\ d \in aborted

(* A peer that runs for a caller is stopped when that caller is done.      *)
NobodyRunsForTheGone ==
  \A d \in Dispatches :
    Live(d) => \A c \in call[d].follows : phase[c] = "settled" => d \in aborted

(* The members that run for one turn stay within its two budgets, however  *)
(* many callers there are at a time, until the counters are deleted.       *)
BudgetsHold ==
  LET run(peer) == {d \in Dispatches : /\ row[d] # "none" /\ call[d] # NoCall
                                       /\ IsPeer(call[d]) = peer}
  IN  ~over => /\ Cardinality(run(FALSE)) <= MaxDispatchesPerTurn
               /\ Cardinality(run(TRUE)) <= MaxPeerCallsPerTurn

(* A dispatch that waits when cancelAll or the shutdown comes never runs.  *)
CanceledNeverStarts ==
  [][\A d \in stopped : phase'[d] = "executing" => phase[d] = "executing"]_vars

(* A queued dispatch awaits its predecessor, a member the peers it calls,  *)
(* and a dispatch that forwards those it forwards to.                      *)
WaitsFor(d, e) ==
  /\ ~Returned(e)
  /\ \/ phase[d] = "queued" /\ previous[d] = e
     \/ /\ phase[d] \in {"executing", "forwarding"} /\ call[e] # NoCall
        /\ IsPeer(call[e]) /\ call[e].caller = d

(* Peer calls pass the queue, so that no dispatches wait for each other in *)
(* a ring; only the wait of a member for an agent_dispatch of its own can  *)
(* close one.                                                              *)
NoRing ==
  \A S \in SUBSET Dispatches : S # {} => \E d \in S : \A e \in S : ~WaitsFor(d, e)

(* A final row is not rewritten, by a late timeout, by cancelAll or by     *)
(* markStaleAsFailed.                                                      *)
FinalRowsStay == [][\A d \in Dispatches : row[d] \in Final => row'[d] = row[d]]_vars

(* Every dispatch that was accepted ends.                                  *)
EveryDispatchEnds == \A d \in Dispatches : Live(d) ~> Returned(d)
=============================================================================
