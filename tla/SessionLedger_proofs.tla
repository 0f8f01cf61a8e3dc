-------------------------- MODULE SessionLedger_proofs --------------------------
(* The queue and the turn_requests rows of SessionTurns tell the same story: *)
(* NoLostTurn, for any number of turns, restarts and user operations.        *)
EXTENDS SessionTurns_proofs

(* The code of t has left the queue, and its row, if it has one, says so.    *)
Begun(t) == pc[t] # "new" /\ request[t] # "accepted"

(* What a queue q, the places at and the rows reqs have to agree on, disp    *)
(* being disposing: dispose() drops the queue and leaves the rows accepted.  *)
Books(q, at, reqs, disp) ==
  /\ \A t \in Turns : (\E i \in DOMAIN q : q[i] = t) <=> at[t] = "queued"
  /\ \A i, j \in DOMAIN q : q[i] = q[j] => i = j
  /\ \A t \in DurableTurns : ~disp => (reqs[t] = "accepted" <=> at[t] = "queued")
  /\ \A t \in Turns \ DurableTurns : reqs[t] = "none"
  /\ \A t \in Turns : at[t] = "new" => reqs[t] = "none"
  /\ \A t \in Turns : at[t] \in Startup \cup Running => reqs[t] # "accepted"

(* The turns the process may still write a row for by name (cancelTurn names *)
(* the turn of the latest event, rejectPlan the plan's, an answer the asking *)
(* turn) have all begun, so no such write touches a waiting turn.            *)
Heard == \A t \in Turns : t = latest \/ t = planGate \/ questions[t] > 0 => Begun(t)

(* The inductive invariant. *)
Ledger == Books(queue, pc, request, disposing) /\ Heard

-----------------------------------------------------------------------------
(* Sequences *)

(* What is left of a queue without its entry i. *)
LEMMA RemoveIndexContent ==
  ASSUME NEW S, NEW q \in Seq(S), NEW i \in DOMAIN q
  PROVE  /\ Len(RemoveIndex(q, i)) = Len(q) - 1
         /\ \A k \in DOMAIN RemoveIndex(q, i) :
              RemoveIndex(q, i)[k] = IF k < i THEN q[k] ELSE q[k + 1]
<1> DEFINE a == SubSeq(q, 1, i - 1)
           b == SubSeq(q, i + 1, Len(q))
<1>0. i \in 1..Len(q) /\ Len(q) \in Nat /\ DOMAIN q = 1..Len(q)
  OBVIOUS
<1>1. a \in Seq(S) /\ Len(a) = i - 1 /\ \A k \in 1..(i - 1) : a[k] = q[k]
  BY <1>0, SubSeqProperties
<1>2. b \in Seq(S) /\ Len(b) = Len(q) - i /\ \A k \in 1..(Len(q) - i) : b[k] = q[i + k]
  BY <1>0, SubSeqProperties
<1>3. Len(a \o b) = Len(q) - 1
  BY <1>0, <1>1, <1>2, ConcatProperties
<1>4. ASSUME NEW k \in 1..(Len(q) - 1)
      PROVE  (a \o b)[k] = IF k < i THEN q[k] ELSE q[k + 1]
  <2> HIDE DEF a, b
  <2>0. a \in Seq(S) /\ b \in Seq(S) /\ k \in 1..(Len(a) + Len(b))
    BY <1>0, <1>1, <1>2
  <2>1. (a \o b)[k] = IF k <= Len(a) THEN a[k] ELSE b[k - Len(a)]
    BY <2>0, ConcatProperties
  <2>2. CASE k < i
    BY <1>0, <1>1, <2>1, <2>2
  <2>3. CASE k >= i
    <3> DEFINE m == k - (i - 1)
    <3>1. m \in 1..(Len(q) - i) /\ i + m = k + 1
      BY <1>0, <2>3
    <3>2. b[m] = q[k + 1]
      BY <1>2, <3>1
    <3>3. Len(a) = i - 1 /\ ~(k <= i - 1)
      BY <1>0, <1>1, <2>3
    <3>4. (a \o b)[k] = b[m]
      BY <2>1, <3>3
    <3>5. ~(k < i)
      BY <1>0, <2>3
    <3> QED BY <3>2, <3>4, <3>5, Zenon
  <2>4. k < i \/ k >= i
    BY <1>0
  <2> QED BY <2>2, <2>3, <2>4, Zenon
<1>5. a \o b \in Seq(S)
  BY <1>1, <1>2, ConcatProperties
<1>6. DOMAIN (a \o b) = 1..(Len(q) - 1)
  BY <1>3, <1>5
<1> QED BY <1>3, <1>4, <1>6 DEF RemoveIndex

(* The queue r is the queue q without t.                                     *)
Without(q, r, t) ==
  /\ \A x : (\E k \in DOMAIN r : r[k] = x) <=> (x # t /\ \E k \in DOMAIN q : q[k] = x)
  /\ \A m, n \in DOMAIN r : r[m] = r[n] => m = n

(* A queue without repetitions keeps the others when one entry is taken out. *)
LEMMA RemoveIndexOthers ==
  ASSUME NEW S, NEW q \in Seq(S), NEW i \in DOMAIN q,
         \A m, n \in DOMAIN q : q[m] = q[n] => m = n
  PROVE  Without(q, RemoveIndex(q, i), q[i])
<1> DEFINE r == RemoveIndex(q, i)
<1>1. /\ r \in Seq(S) /\ Len(r) = Len(q) - 1
      /\ \A k \in DOMAIN r : r[k] = IF k < i THEN q[k] ELSE q[k + 1]
  BY RemoveIndexType, RemoveIndexContent
<1>2. DOMAIN r = 1..(Len(q) - 1) /\ DOMAIN q = 1..Len(q) /\ i \in 1..Len(q) /\ Len(q) \in Nat
  BY <1>1
<1> HIDE DEF r
<1>3. ASSUME NEW x, NEW k \in DOMAIN r, r[k] = x
      PROVE  x # q[i] /\ \E m \in DOMAIN q : q[m] = x
  <2>1. k \in DOMAIN q /\ k + 1 \in DOMAIN q
    BY <1>2
  <2> QED BY <1>1, <1>2, <1>3, <2>1
<1>4. ASSUME NEW x, x # q[i], NEW k \in DOMAIN q, q[k] = x
      PROVE  \E m \in DOMAIN r : r[m] = x
  <2>1. CASE k < i
    <3>1. k \in DOMAIN r
      BY <1>2, <2>1
    <3> QED BY <1>1, <1>2, <1>4, <2>1, <3>1
  <2>2. CASE k > i
    <3>1. k - 1 \in DOMAIN r /\ ~(k - 1 < i) /\ (k - 1) + 1 = k
      BY <1>2, <2>2
    <3> QED BY <1>1, <1>4, <3>1
  <2> QED BY <1>2, <1>4, <2>1, <2>2
<1>5. ASSUME NEW m \in DOMAIN r, NEW n \in DOMAIN r, r[m] = r[n] PROVE m = n
  <2> DEFINE f(k) == IF k < i THEN k ELSE k + 1
  <2>1. f(m) \in DOMAIN q /\ f(n) \in DOMAIN q /\ r[m] = q[f(m)] /\ r[n] = q[f(n)]
    BY <1>1, <1>2
  <2>2. f(m) = f(n)
    BY <1>5, <2>1
  <2> QED BY <1>2, <2>2
<1> QED BY <1>3, <1>4, <1>5 DEF r, Without

(* The same for the head of a queue. *)
LEMMA TailOthers ==
  ASSUME NEW S, NEW q \in Seq(S), q # <<>>,
         \A m, n \in DOMAIN q : q[m] = q[n] => m = n
  PROVE  Without(q, Tail(q), Head(q))
<1> DEFINE r == Tail(q)
<1>1. /\ r \in Seq(S) /\ Len(r) = Len(q) - 1 /\ Head(q) = q[1]
      /\ \A k \in 1..Len(r) : r[k] = q[k + 1]
  BY HeadTailProperties
<1>2. DOMAIN r = 1..(Len(q) - 1) /\ DOMAIN q = 1..Len(q) /\ Len(q) \in Nat /\ Len(q) > 0
  BY <1>1, EmptySeq
<1> HIDE DEF r
<1>3. ASSUME NEW x, NEW k \in DOMAIN r, r[k] = x
      PROVE  x # q[1] /\ \E m \in DOMAIN q : q[m] = x
  <2>1. 1 \in DOMAIN q /\ k + 1 \in DOMAIN q /\ k + 1 # 1 /\ r[k] = q[k + 1]
    BY <1>1, <1>2
  <2> QED BY <1>3, <2>1
<1>4. ASSUME NEW x, x # q[1], NEW k \in DOMAIN q, q[k] = x
      PROVE  \E m \in DOMAIN r : r[m] = x
  <2>1. k # 1
    BY <1>4
  <2>2. k - 1 \in DOMAIN r /\ (k - 1) + 1 = k
    BY <1>2, <2>1
  <2> QED BY <1>1, <1>2, <1>4, <2>2
<1>5. ASSUME NEW m \in DOMAIN r, NEW n \in DOMAIN r, r[m] = r[n] PROVE m = n
  <2>1. /\ m + 1 \in DOMAIN q /\ n + 1 \in DOMAIN q
        /\ r[m] = q[m + 1] /\ r[n] = q[n + 1]
    BY <1>1, <1>2
  <2>2. m + 1 = n + 1
    BY <1>5, <2>1
  <2> QED BY <1>2, <2>2
<1> QED BY <1>1, <1>3, <1>4, <1>5 DEF r, Without

-----------------------------------------------------------------------------
(* What a step does to the books *)

(* The rows are the rows reqs, but for t's, which does not wait any more.    *)
WaitsNoMore(reqs, rows, t) ==
  /\ \A u \in Turns \ {t} : rows[u] = reqs[u]
  /\ rows[t] # "accepted"
  /\ t \notin DurableTurns => rows[t] = "none"

(* A turn t leaves the queue q, if it was in it, and begins (or is over).    *)
LEMMA Leave ==
  ASSUME NEW q, NEW at \in [Turns -> Places], NEW reqs \in [Turns -> RowStates],
         NEW d, Books(q, at, reqs, d), NEW t \in Turns,
         NEW r, Without(q, r, t), NEW rows, WaitsNoMore(reqs, rows, t),
         NEW p \in Places \ {"new", "queued"}
  PROVE  Books(r, [at EXCEPT ![t] = p], rows, d)
<1> DEFINE at2 == [at EXCEPT ![t] = p]
<1>1. at2[t] = p /\ \A u \in Turns \ {t} : at2[u] = at[u]
  OBVIOUS
<1> HIDE DEF at2
<1>2. p # "queued" /\ p # "new"
  OBVIOUS
<1>3. ASSUME NEW u \in Turns
      PROVE  (\E k \in DOMAIN r : r[k] = u) <=> at2[u] = "queued"
  BY <1>1, <1>2 DEF Books, Without
<1>4. ASSUME NEW u \in DurableTurns, ~d
      PROVE  rows[u] = "accepted" <=> at2[u] = "queued"
  BY <1>1, <1>2, <1>4 DEF Books, Turns, WaitsNoMore
<1>5. ASSUME NEW u \in Turns \ DurableTurns PROVE rows[u] = "none"
  BY DEF Books, WaitsNoMore
<1>6. ASSUME NEW u \in Turns, at2[u] = "new" PROVE rows[u] = "none"
  BY <1>1, <1>2, <1>6 DEF Books, WaitsNoMore
<1>7. ASSUME NEW u \in Turns, at2[u] \in Startup \cup Running PROVE rows[u] # "accepted"
  BY <1>1, <1>7 DEF Books, WaitsNoMore
<1> QED BY <1>3, <1>4, <1>5, <1>6, <1>7 DEF Books, Without, at2

(* The same for a turn that is not in the queue, its row left alone.         *)
LEMMA Move ==
  ASSUME NEW q, NEW at \in [Turns -> Places], NEW reqs \in [Turns -> RowStates],
         NEW d, Books(q, at, reqs, d), NEW t \in Turns,
         NEW p \in Places \ {"new", "queued"},
         at[t] # "queued", reqs[t] # "accepted"
  PROVE  Books(q, [at EXCEPT ![t] = p], reqs, d)
<1>1. \A k \in DOMAIN q : q[k] # t
  BY DEF Books
<1>2. \A m, n \in DOMAIN q : q[m] = q[n] => m = n
  BY DEF Books
<1>3. t \notin DurableTurns => reqs[t] = "none"
  BY DEF Books
<1>4. Without(q, q, t)
  BY <1>1, <1>2 DEF Without
<1>5. WaitsNoMore(reqs, reqs, t)
  BY <1>3 DEF WaitsNoMore
<1> QED BY <1>4, <1>5, Leave

(* Closing the row of a turn that has begun.                                 *)
LEMMA CloseBegun ==
  ASSUME NEW q, NEW at \in [Turns -> Places], NEW reqs \in [Turns -> RowStates],
         NEW d, Books(q, at, reqs, d), NEW t,
         t \in Turns => at[t] # "new" /\ reqs[t] # "accepted",
         NEW s \in {"completed", "failed", "cancelled"}
  PROVE  /\ Books(q, at, Close(reqs, t, s), d)
         /\ \A u \in Turns : reqs[u] # "accepted" => Close(reqs, t, s)[u] # "accepted"
<1> DEFINE rows == Close(reqs, t, s)
<1>1. CASE rows = reqs
  BY <1>1
<1>2. CASE rows # reqs
  <2>1. t \in Turns /\ reqs[t] = "running" /\ rows = [reqs EXCEPT ![t] = s]
    BY <1>2 DEF Close
  <2>2. rows[t] = s /\ \A u \in Turns \ {t} : rows[u] = reqs[u]
    BY <2>1
  <2>3. s # "accepted"
    OBVIOUS
  <2> HIDE DEF rows
  <2>4. at[t] # "queued" \/ d \/ t \notin DurableTurns
    BY <2>1 DEF Books
  <2>5. t \in DurableTurns
    BY <2>1 DEF Books
  <2>6. ASSUME NEW u \in DurableTurns, ~d
        PROVE  rows[u] = "accepted" <=> at[u] = "queued"
    BY <2>1, <2>2, <2>3, <2>4, <2>6 DEF Books, Turns
  <2>7. ASSUME NEW u \in Turns \ DurableTurns PROVE rows[u] = "none"
    BY <2>2, <2>5 DEF Books
  <2>8. ASSUME NEW u \in Turns, at[u] = "new" PROVE rows[u] = "none"
    BY <2>1, <2>2, <2>8 DEF Books
  <2>9. ASSUME NEW u \in Turns, at[u] \in Startup \cup Running PROVE rows[u] # "accepted"
    BY <2>2, <2>3, <2>9 DEF Books
  <2>10. Books(q, at, rows, d)
    BY <2>6, <2>7, <2>8, <2>9 DEF Books
  <2>11. \A u \in Turns : reqs[u] # "accepted" => rows[u] # "accepted"
    BY <2>2, <2>3
  <2> QED BY <2>10, <2>11 DEF rows
<1> QED BY <1>1, <1>2

(* The queue takes its head away and calls startTurn: nothing is lost.       *)
LEMMA StartNextKeeps ==
  ASSUME NEW q \in Seq(Turns), NEW act, NEW gate, NEW st \in BOOLEAN,
         NEW at \in [Turns -> Places], NEW reqs \in [Turns -> RowStates], NEW tm,
         Books(q, at, reqs, disposing),
         StartNextQueuedTurn(q, act, gate, st, at, reqs, tm)
  PROVE  /\ Books(queue', pc', request', disposing)
         /\ \A t \in Turns : at[t] # "new" /\ reqs[t] # "accepted"
                               => pc'[t] # "new" /\ request'[t] # "accepted"
<1> DEFINE h == Head(q)
<1>1. CASE HeldBack(act, gate, st) \/ q = <<>>
  BY <1>1 DEF StartNextQueuedTurn
<1>2. CASE ~(HeldBack(act, gate, st) \/ q = <<>>)
  <2>1. h \in Turns /\ q # <<>>
    BY <1>2, HeadTailProperties
  <2>2. \A m, n \in DOMAIN q : q[m] = q[n] => m = n
    BY DEF Books
  <2>3. Without(q, Tail(q), h)
    BY <2>1, <2>2, TailOthers
  <2>4. /\ queue' = Tail(q)
        /\ \/ pc' = [at EXCEPT ![h] = "preflight"]
           \/ pc' = [at EXCEPT ![h] = "over"]
        /\ request'[h] # "accepted"
        /\ \A u \in Turns \ {h} : request'[u] = reqs[u]
        /\ reqs[h] = "none" => request'[h] = "none"
    BY <1>2, <2>1 DEF StartNextQueuedTurn
  <2>5. WaitsNoMore(reqs, request', h)
    BY <2>1, <2>4 DEF Books, WaitsNoMore
  <2>6. "preflight" \in Places \ {"new", "queued"} /\ "over" \in Places \ {"new", "queued"}
    BY DEF Places
  <2>7. Books(queue', pc', request', disposing)
    <3> HIDE DEF h
    <3>1. CASE pc' = [at EXCEPT ![h] = "preflight"]
      BY <2>1, <2>3, <2>4, <2>5, <2>6, <3>1, Leave
    <3>2. CASE pc' = [at EXCEPT ![h] = "over"]
      BY <2>1, <2>3, <2>4, <2>5, <2>6, <3>2, Leave
    <3> QED BY <2>4, <3>1, <3>2
  <2>8. \A t \in Turns : at[t] # "new" /\ reqs[t] # "accepted"
                           => pc'[t] # "new" /\ request'[t] # "accepted"
    BY <2>1, <2>4
  <2> QED BY <2>7, <2>8
<1> QED BY <1>1, <1>2

(* The same for the end of startTurn.                                        *)
LEMMA StartReturnsKeeps ==
  ASSUME TypeOK, NEW t \in Turns, NEW act,
         NEW at \in [Turns -> Places], NEW rows \in [Turns -> RowStates],
         Books(queue, at, rows, disposing),
         StartReturns(t, at, rows, act)
  PROVE  /\ Books(queue', pc', request', disposing)
         /\ \A u \in Turns : at[u] # "new" /\ rows[u] # "accepted"
                               => pc'[u] # "new" /\ request'[u] # "accepted"
<1>1. CASE t \in viaQueue
  <2>1. queue \in Seq(Turns)
    BY DEF TypeOK
  <2>2. PICK st \in BOOLEAN :
          StartNextQueuedTurn(queue, act, planGate, st, at, rows, timers)
    BY <1>1 DEF StartReturns
  <2> QED BY <2>1, <2>2, StartNextKeeps
<1>2. CASE t \notin viaQueue
  BY <1>2 DEF StartReturns
<1> QED BY <1>1, <1>2

(* A goal iteration takes a turn id that has never been used.                *)
LEMMA StartGoalLoopKeeps ==
  ASSUME NEW q, NEW at \in [Turns -> Places], NEW reqs \in [Turns -> RowStates],
         NEW d, Books(q, at, reqs, d), NEW act, NEW last,
         StartGoalLoop(act, at, last)
  PROVE  /\ Books(q, pc', reqs, d)
         /\ \A u \in Turns : at[u] # "new" => pc'[u] # "new"
         /\ latest' \in {None, last}
<1>1. latest' \in {None, last}
  BY DEF StartGoalLoop
<1>2. CASE pc' = at
  BY <1>1, <1>2
<1>3. CASE pc' # at
  <2>1. PICK g \in GoalTurns : at[g] = "new" /\ pc' = [at EXCEPT ![g] = "preflight"]
    BY <1>3 DEF StartGoalLoop
  <2>2. g \in Turns
    BY DEF Turns
  <2>3. at[g] # "queued" /\ reqs[g] # "accepted"
    BY <2>1, <2>2 DEF Books
  <2>4. "preflight" \in Places \ {"new", "queued"}
    BY DEF Places
  <2>5. Books(q, pc', reqs, d)
    BY <2>1, <2>2, <2>3, <2>4, Move
  <2>6. \A u \in Turns : at[u] # "new" => pc'[u] # "new"
    BY <2>1, <2>2
  <2> QED BY <1>1, <2>5, <2>6
<1> QED BY <1>2, <1>3

LEMMA ContinueKeeps ==
  ASSUME TypeOK, NEW last,
         NEW at \in [Turns -> Places], NEW reqs \in [Turns -> RowStates],
         Books(queue, at, reqs, disposing),
         ContinueGoalOrQueue(at, reqs, last)
  PROVE  /\ Books(queue', pc', request', disposing)
         /\ \A u \in Turns : at[u] # "new" /\ reqs[u] # "accepted"
                               => pc'[u] # "new" /\ request'[u] # "accepted"
         /\ latest' \in {None, last}
<1>1. CASE disposing
  BY <1>1 DEF ContinueGoalOrQueue
<1>2. CASE ~disposing /\ goal = "active"
  <2>1. StartGoalLoop(None, at, last) /\ request' = reqs /\ queue' = queue
    BY <1>2 DEF ContinueGoalOrQueue
  <2> QED BY <2>1, StartGoalLoopKeeps
<1>3. CASE ~disposing /\ goal # "active"
  <2>1. StartNextQueuedTurn(queue, None, planGate, starting, at, reqs, timers)
    BY <1>3 DEF ContinueGoalOrQueue
  <2>2. queue \in Seq(Turns) /\ starting \in BOOLEAN /\ latest' = last
    BY <1>3 DEF ContinueGoalOrQueue, TypeOK
  <2> QED BY <2>1, <2>2, StartNextKeeps
<1> QED BY <1>1, <1>2, <1>3

-----------------------------------------------------------------------------
(* The ledger is kept, action by action *)

(* A step that keeps the books and forgets no beginning keeps the ledger, if *)
(* the turns it newly refers to have begun.                                  *)
LEMMA LedgerStep ==
  ASSUME Heard, Books(queue', pc', request', disposing'),
         \A t \in Turns : Begun(t) => pc'[t] # "new" /\ request'[t] # "accepted",
         \A t \in Turns : t = latest' \/ t = planGate' \/ questions'[t] > 0
                            => t = latest \/ t = planGate \/ questions[t] > 0 \/ Begun(t)
  PROVE  Ledger'
BY DEF Ledger, Heard, Begun

LEMMA InitLedger == Init => Ledger
<1> SUFFICES ASSUME Init PROVE Ledger
  OBVIOUS
<1>1. DOMAIN queue = {}
  BY DEF Init
<1>2. \A t \in Turns : pc[t] = "new" /\ request[t] = "none"
  BY DEF Init
<1>3. Books(queue, pc, request, disposing)
  BY <1>1, <1>2 DEF Books, Startup, Running, Turns
<1>4. \A t \in Turns : t # latest /\ t # planGate /\ ~(questions[t] > 0)
  BY TurnsAssumption DEF Init
<1> QED BY <1>3, <1>4 DEF Ledger, Heard

(* The code of a turn in these places has begun.                             *)
LEMMA PlacesBegun ==
  ASSUME Ledger, NEW t \in Turns, pc[t] \in Startup \cup Running
  PROVE  Begun(t) /\ pc[t] # "queued"
BY DEF Ledger, Books, Begun, Startup, Running

(* A new turn t is appended to the queue; its row, if any, is accepted.      *)
LEMMA Append1 ==
  ASSUME TypeOK, Ledger, NEW t \in Turns, pc[t] = "new",
         queue' = Append(queue, t), pc' = [pc EXCEPT ![t] = "queued"],
         request' = IF t \in DurableTurns THEN [request EXCEPT ![t] = "accepted"]
                    ELSE request
  PROVE  Books(queue', pc', request', disposing)
<1>1. queue \in Seq(Turns) /\ pc \in [Turns -> Places] /\ request \in [Turns -> RowStates]
  BY DEF TypeOK
<1>2. DOMAIN queue = 1..Len(queue) /\ DOMAIN queue' = 1..(Len(queue) + 1)
      /\ Len(queue) \in Nat
  BY <1>1, AppendProperties
<1>3. queue'[Len(queue) + 1] = t /\ \A k \in DOMAIN queue : queue'[k] = queue[k]
  BY <1>1, <1>2, AppendProperties
<1>4. pc'[t] = "queued" /\ \A u \in Turns \ {t} : pc'[u] = pc[u]
  BY <1>1
<1>5. \A u \in Turns \ {t} : request'[u] = request[u]
  BY <1>1
<1>6. \A k \in DOMAIN queue : queue[k] # t
  BY DEF Ledger, Books
<1>7. ASSUME NEW u \in Turns
      PROVE  (\E k \in DOMAIN queue' : queue'[k] = u) <=> pc'[u] = "queued"
  <2>1. CASE u = t
    <3>1. Len(queue) + 1 \in DOMAIN queue'
      BY <1>2
    <3> QED BY <1>3, <1>4, <2>1, <3>1
  <2>2. CASE u # t
    <3>1. \A k \in DOMAIN queue' : k = Len(queue) + 1 \/ k \in DOMAIN queue
      BY <1>2
    <3>2. \A k \in DOMAIN queue : k \in DOMAIN queue'
      BY <1>2
    <3>3. (\E k \in DOMAIN queue' : queue'[k] = u) <=> \E k \in DOMAIN queue : queue[k] = u
      BY <1>3, <2>2, <3>1, <3>2
    <3> QED BY <1>4, <2>2, <3>3 DEF Ledger, Books
  <2> QED BY <2>1, <2>2
<1>8. ASSUME NEW m \in DOMAIN queue', NEW n \in DOMAIN queue', queue'[m] = queue'[n]
      PROVE  m = n
  <2>1. /\ m = Len(queue) + 1 \/ m \in DOMAIN queue
        /\ n = Len(queue) + 1 \/ n \in DOMAIN queue
    BY <1>2
  <2> QED BY <1>3, <1>6, <1>8, <2>1 DEF Ledger, Books
<1>9. ASSUME NEW u \in DurableTurns, ~disposing
      PROVE  request'[u] = "accepted" <=> pc'[u] = "queued"
  <2>1. u \in Turns
    BY DEF Turns
  <2>2. CASE u = t
    BY <1>1, <1>4, <2>2
  <2>3. CASE u # t
    BY <1>4, <1>5, <1>9, <2>1, <2>3 DEF Ledger, Books
  <2> QED BY <2>2, <2>3
<1>10. ASSUME NEW u \in Turns \ DurableTurns PROVE request'[u] = "none"
  BY <1>1, <1>5 DEF Ledger, Books
<1>11. ASSUME NEW u \in Turns, pc'[u] = "new" PROVE request'[u] = "none"
  BY <1>4, <1>5, <1>11 DEF Ledger, Books
<1>12. ASSUME NEW u \in Turns, pc'[u] \in Startup \cup Running
       PROVE  request'[u] # "accepted"
  BY <1>4, <1>5, <1>12 DEF Ledger, Books, Startup, Running
<1> QED BY <1>7, <1>8, <1>9, <1>10, <1>11, <1>12 DEF Books

LEMMA EnqueueNewLedger ==
  ASSUME TypeOK, Ledger, NEW t \in Turns, Accepting(t), EnqueueNew(t)
  PROVE  Ledger'
<1>1. Books(queue', pc', request', disposing)
  BY Append1 DEF Accepting, EnqueueNew, Enqueue
<1>2. disposing' = disposing
  BY DEF EnqueueNew, process
<1>3. \A u \in Turns : Begun(u) => pc'[u] # "new" /\ request'[u] # "accepted"
  BY DEF EnqueueNew, Accepting, Begun, TypeOK
<1>4. latest' = latest /\ questions' = questions /\ planGate' = None
  BY DEF EnqueueNew
<1>5. Heard /\ None \notin Turns
  BY TurnsAssumption DEF Ledger
<1> QED BY <1>1, <1>2, <1>3, <1>4, <1>5, LedgerStep

LEMMA SubmitLedger == ASSUME TypeOK, Ledger, Submit PROVE Ledger'
<1>1. PICK t \in Turns : SubmitBehind(t) \/ SubmitAndSchedule(t) \/ SendDirect(t)
  BY DEF Submit
<1>2. CASE SubmitBehind(t) \/ SubmitAndSchedule(t)
  BY <1>2, EnqueueNewLedger DEF SubmitBehind, SubmitAndSchedule
<1>3. CASE SendDirect(t)
  <2>1. /\ pc[t] = "new" /\ t \in DirectTurns /\ queue' = queue /\ disposing' = disposing
        /\ pc' = [pc EXCEPT ![t] = "preflight"] /\ request' = request
        /\ latest' = latest /\ questions' = questions /\ planGate' = None
    BY <1>3 DEF SendDirect, Accepting, process
  <2>2. /\ pc \in [Turns -> Places] /\ request \in [Turns -> RowStates]
        /\ "preflight" \in Places \ {"new", "queued"}
    BY DEF TypeOK, Places
  <2>3. Books(queue, pc, request, disposing) /\ Heard /\ request[t] = "none"
    BY <2>1 DEF Ledger, Books
  <2>4. pc[t] # "queued" /\ request[t] # "accepted"
    BY <2>1, <2>3
  <2>5. Books(queue, [pc EXCEPT ![t] = "preflight"], request, disposing)
    BY <2>2, <2>3, <2>4, Move
  <2>6. \A u \in Turns : Begun(u) => pc'[u] # "new" /\ request'[u] # "accepted"
    BY <2>1, <2>2 DEF Begun
  <2>7. None \notin Turns
    BY TurnsAssumption
  <2> QED BY <2>1, <2>3, <2>5, <2>6, <2>7, LedgerStep
<1> QED BY <1>1, <1>2, <1>3

(* StartNextQueuedTurn called by a step that leaves places and rows alone.   *)
LEMMA CallNext ==
  ASSUME TypeOK, Ledger, NEW act, NEW gate, NEW tm, disposing' = disposing,
         StartNextQueuedTurn(queue, act, gate, starting, pc, request, tm),
         latest' \in {None, latest, planGate}, planGate' \in {None, planGate},
         questions' = questions
  PROVE  Ledger'
<1>1. /\ queue \in Seq(Turns) /\ starting \in BOOLEAN /\ pc \in [Turns -> Places]
      /\ request \in [Turns -> RowStates] /\ Books(queue, pc, request, disposing)
      /\ Heard /\ None \notin Turns
  BY TurnsAssumption DEF TypeOK, Ledger
<1>2. /\ Books(queue', pc', request', disposing)
      /\ \A t \in Turns : pc[t] # "new" /\ request[t] # "accepted"
                            => pc'[t] # "new" /\ request'[t] # "accepted"
  BY <1>1, StartNextKeeps
<1> QED BY <1>1, <1>2, LedgerStep DEF Begun

LEMMA FireTimerLedger == ASSUME TypeOK, Ledger, FireTimer PROVE Ledger'
BY CallNext DEF FireTimer, process

LEMMA DecidePlanLedger ==
  ASSUME TypeOK, Ledger, NEW last \in {latest, planGate}, DecidePlan(last)
  PROVE  Ledger'
BY CallNext DEF DecidePlan, process

(* The code of t, between its start and its end, goes on to the place p.     *)
LEMMA GoOn ==
  ASSUME TypeOK, Ledger, NEW t \in Turns, pc[t] \in Startup \cup Running,
         NEW p \in Places \ {"new", "queued"}
  PROVE  /\ Books(queue, [pc EXCEPT ![t] = p], request, disposing)
         /\ [pc EXCEPT ![t] = p] \in [Turns -> Places]
         /\ \A u \in Turns : Begun(u) => [pc EXCEPT ![t] = p][u] # "new"
         /\ Begun(t)
<1>1. Begun(t) /\ pc[t] # "queued"
  BY PlacesBegun
<1>2. /\ pc \in [Turns -> Places] /\ request \in [Turns -> RowStates]
      /\ Books(queue, pc, request, disposing) /\ request[t] # "accepted"
  BY <1>1 DEF TypeOK, Ledger, Begun
<1>3. Books(queue, [pc EXCEPT ![t] = p], request, disposing)
  BY <1>1, <1>2, Move
<1>4. /\ [pc EXCEPT ![t] = p] \in [Turns -> Places]
      /\ \A u \in Turns : Begun(u) => [pc EXCEPT ![t] = p][u] # "new"
  BY <1>2 DEF Begun
<1> QED BY <1>1, <1>3, <1>4

(* The code of t goes on, and nothing else of the books changes.             *)
LEMMA GoOnLedger ==
  ASSUME TypeOK, Ledger, NEW t \in Turns, pc[t] \in Startup \cup Running,
         NEW p \in Places \ {"new", "queued"},
         pc' = [pc EXCEPT ![t] = p], queue' = queue, request' = request,
         disposing' = disposing, latest' \in {None, latest, t},
         planGate' = planGate, questions' = questions
  PROVE  Ledger'
<1>1. /\ Books(queue', pc', request', disposing')
      /\ \A u \in Turns : Begun(u) => pc'[u] # "new" /\ request'[u] # "accepted"
      /\ Begun(t)
  BY GoOn DEF Begun
<1>2. Heard /\ None \notin Turns
  BY TurnsAssumption DEF Ledger
<1> QED BY <1>1, <1>2, LedgerStep

LEMMA AnnounceLedger == ASSUME TypeOK, Ledger, NEW t \in Turns, Announce(t) PROVE Ledger'
<1>1. pc[t] \in Startup \cup Running /\ "announced" \in Places \ {"new", "queued"}
  BY DEF Announce, Startup, Places
<1> QED BY <1>1, GoOnLedger DEF Announce, memory, process

LEMMA RegisterLedger == ASSUME TypeOK, Ledger, NEW t \in Turns, Register(t) PROVE Ledger'
<1>1. pc[t] \in Startup \cup Running /\ "registered" \in Places \ {"new", "queued"}
  BY DEF Register, Startup, Places
<1> QED BY <1>1, GoOnLedger DEF Register, process

(* startTurn of t ends at p with the rows rows, t's row perhaps closed.      *)
LEMMA StartReturnsLedger ==
  ASSUME TypeOK, Ledger, NEW t \in Turns, pc[t] \in Startup \cup Running,
         NEW p \in Places \ {"new", "queued"}, NEW act,
         NEW rows \in {request, Close(request, t, "failed")},
         StartReturns(t, [pc EXCEPT ![t] = p], rows, act),
         disposing' = disposing, latest' \in {latest, t},
         planGate' = planGate, questions' = questions
  PROVE  Ledger'
<1> DEFINE at == [pc EXCEPT ![t] = p]
<1>1. /\ Books(queue, at, request, disposing) /\ at \in [Turns -> Places]
      /\ \A u \in Turns : Begun(u) => at[u] # "new"
      /\ Begun(t)
  BY GoOn
<1> HIDE DEF at
<1>2. request \in [Turns -> RowStates] /\ rows \in [Turns -> RowStates]
  <2>1. request \in [Turns -> RowStates] /\ "failed" \in RowStates
    BY DEF TypeOK, RowStates
  <2>2. Close(request, t, "failed") \in [Turns -> RowStates]
    BY <2>1, CloseType
  <2> QED BY <2>1, <2>2, Zenon
<1>3. at[t] # "new" /\ request[t] # "accepted"
  BY <1>1 DEF Begun
<1>4. /\ Books(queue, at, Close(request, t, "failed"), disposing)
      /\ \A u \in Turns : request[u] # "accepted" => Close(request, t, "failed")[u] # "accepted"
  BY <1>1, <1>2, <1>3, CloseBegun
<1>5. /\ Books(queue, at, rows, disposing)
      /\ \A u \in Turns : request[u] # "accepted" => rows[u] # "accepted"
  BY <1>1, <1>4
<1>6. StartReturns(t, at, rows, act)
  BY DEF at
<1>7. /\ Books(queue', pc', request', disposing)
      /\ \A u \in Turns : at[u] # "new" /\ rows[u] # "accepted"
                            => pc'[u] # "new" /\ request'[u] # "accepted"
  BY <1>1, <1>2, <1>5, <1>6, StartReturnsKeeps
<1>8. \A u \in Turns : Begun(u) => pc'[u] # "new" /\ request'[u] # "accepted"
  BY <1>1, <1>5, <1>7 DEF Begun
<1>9. Heard /\ disposing' = disposing
  BY DEF Ledger
<1> QED BY <1>1, <1>7, <1>8, <1>9, LedgerStep

LEMMA StartRejectsLedger ==
  ASSUME TypeOK, Ledger, NEW t \in Turns, StartRejects(t)
  PROVE  Ledger'
<1> DEFINE told == (t \in GoalTurns => t \in viaQueue) /\ verdict[t] = {}
           rows == IF told THEN Close(request, t, "failed") ELSE request
<1>1. pc[t] \in Startup \cup Running /\ "over" \in Places \ {"new", "queued"}
  BY DEF StartRejects, Startup, Places
<1>2. StartReturns(t, [pc EXCEPT ![t] = "over"], rows, active)
  BY DEF StartRejects
<1>3. rows \in {request, Close(request, t, "failed")}
  OBVIOUS
<1>4. /\ disposing' = disposing /\ planGate' = planGate /\ questions' = questions
      /\ latest' \in {latest, t}
  BY DEF StartRejects, process
<1> HIDE DEF rows
<1> QED BY <1>1, <1>2, <1>3, <1>4, StartReturnsLedger

LEMMA SetupUnavailableLedger ==
  ASSUME TypeOK, Ledger, NEW t \in Turns, SetupUnavailable(t)
  PROVE  Ledger'
<1>1. pc[t] \in Startup \cup Running /\ "over" \in Places \ {"new", "queued"}
  BY DEF SetupUnavailable, Startup, Places
<1>2. StartReturns(t, [pc EXCEPT ![t] = "over"], Close(request, t, "failed"), active)
  BY DEF SetupUnavailable
<1>3. /\ disposing' = disposing /\ planGate' = planGate /\ questions' = questions
      /\ latest' \in {latest, t}
  BY DEF SetupUnavailable, process
<1> QED BY <1>1, <1>2, <1>3, StartReturnsLedger

LEMMA ExecuteLedger == ASSUME TypeOK, Ledger, NEW t \in Turns, Execute(t) PROVE Ledger'
<1>1. pc[t] \in Startup \cup Running
  BY DEF Execute, Startup
<1>2. "over" \in Places \ {"new", "queued"} /\ "executing" \in Places \ {"new", "queued"}
  BY DEF Places
<1>3. \/ StartReturns(t, [pc EXCEPT ![t] = "executing"], request, active)
      \/ StartReturns(t, [pc EXCEPT ![t] = "over"], request, active')
  BY DEF Execute
<1>4. /\ disposing' = disposing /\ planGate' = planGate /\ questions' = questions
      /\ latest' \in {latest, t}
  BY DEF Execute, process
<1> QED BY <1>1, <1>2, <1>3, <1>4, StartReturnsLedger

-----------------------------------------------------------------------------
(* A step that leaves places, rows and queue alone, about the turn t. *)
LEMMA TalkLedger ==
  ASSUME Ledger, NEW t \in Turns, Begun(t),
         queue' = queue, pc' = pc, request' = request, disposing' = disposing,
         latest' \in {latest, t}, planGate' \in {planGate, t},
         \A u \in Turns \ {t} : questions'[u] = questions[u]
  PROVE  Ledger'
<1>1. Heard /\ Books(queue', pc', request', disposing')
  BY DEF Ledger
<1>2. \A u \in Turns : Begun(u) => pc'[u] # "new" /\ request'[u] # "accepted"
  BY DEF Begun
<1>3. \A u \in Turns : u = latest' \/ u = planGate' \/ questions'[u] > 0
                         => u = latest \/ u = planGate \/ questions[u] > 0 \/ Begun(u)
  OBVIOUS
<1> QED BY <1>1, <1>2, <1>3, LedgerStep

LEMMA EmitLedger == ASSUME TypeOK, Ledger, NEW t \in Turns, Emit(t) PROVE Ledger'
<1>1. Begun(t)
  BY PlacesBegun DEF Emit, Running
<1> QED BY <1>1, TalkLedger DEF Emit, memory, process, threads

LEMMA ProposePlanLedger ==
  ASSUME TypeOK, Ledger, NEW t \in Turns, ProposePlan(t)
  PROVE  Ledger'
<1>1. Begun(t)
  BY PlacesBegun DEF ProposePlan, Running
<1> QED BY <1>1, TalkLedger DEF ProposePlan, process, threads

LEMMA AskQuestionLedger ==
  ASSUME TypeOK, Ledger, NEW t \in Turns, AskQuestion(t)
  PROVE  Ledger'
<1>1. Begun(t)
  BY PlacesBegun DEF AskQuestion, Running
<1>2. \A u \in Turns \ {t} : questions'[u] = questions[u]
  BY DEF AskQuestion, TypeOK
<1> QED BY <1>1, <1>2, TalkLedger DEF AskQuestion, process, threads

LEMMA AnswerQuestionLedger ==
  ASSUME TypeOK, Ledger, NEW t \in Turns, AnswerQuestion(t)
  PROVE  Ledger'
<1>1. Begun(t)
  BY DEF Ledger, Heard, AnswerQuestion
<1>2. \A u \in Turns \ {t} : questions'[u] = questions[u]
  BY DEF AnswerQuestion, TypeOK
<1> QED BY <1>1, <1>2, TalkLedger DEF AnswerQuestion, process, threads

-----------------------------------------------------------------------------
(* The end of a turn *)

LEMMA EndUnownedLedger ==
  ASSUME TypeOK, Ledger, NEW t \in Turns, pc[t] \in Running, EndUnowned(t)
  PROVE  Ledger'
<1>1. "over" \in Places \ {"new", "queued"}
  BY DEF Places
<1> QED BY <1>1, GoOnLedger DEF EndUnowned, memory, process, database

LEMMA EndOwnedLedger ==
  ASSUME TypeOK, Ledger, NEW t \in Turns, pc[t] \in Running,
         NEW v \in Verdicts, EndOwned(t, v)
  PROVE  Ledger'
<1> DEFINE at   == [pc EXCEPT ![t] = "over"]
           rows == Close(request, t, RowOf(v))
<1>1. "over" \in Places \ {"new", "queued"}
  BY DEF Places
<1>2. /\ Books(queue, at, request, disposing) /\ at \in [Turns -> Places]
      /\ \A u \in Turns : Begun(u) => at[u] # "new"
      /\ Begun(t)
  BY <1>1, GoOn
<1>3. RowOf(v) \in {"completed", "failed", "cancelled"}
  BY DEF RowOf, Verdicts
<1>4. request \in [Turns -> RowStates] /\ rows \in [Turns -> RowStates]
  BY <1>3, CloseType DEF TypeOK, RowStates
<1>5. ContinueGoalOrQueue(at, rows, t)
  BY DEF EndOwned
<1> HIDE DEF at
<1>6. at[t] # "new" /\ request[t] # "accepted"
  BY <1>2 DEF Begun
<1>7. /\ Books(queue, at, rows, disposing)
      /\ \A u \in Turns : request[u] # "accepted" => rows[u] # "accepted"
  BY <1>2, <1>3, <1>4, <1>6, CloseBegun
<1> HIDE DEF rows
<1>8. /\ Books(queue', pc', request', disposing)
      /\ \A u \in Turns : at[u] # "new" /\ rows[u] # "accepted"
                            => pc'[u] # "new" /\ request'[u] # "accepted"
      /\ latest' \in {None, t}
  BY <1>2, <1>4, <1>5, <1>7, ContinueKeeps
<1>9. \A u \in Turns : Begun(u) => pc'[u] # "new" /\ request'[u] # "accepted"
  BY <1>2, <1>7, <1>8 DEF Begun
<1>10. /\ disposing' = disposing /\ planGate' = planGate /\ questions' = questions
       /\ Heard /\ None \notin Turns
  BY TurnsAssumption DEF EndOwned, process, Ledger
<1> QED BY <1>2, <1>8, <1>9, <1>10, LedgerStep

LEMMA EndSilentLedger ==
  ASSUME TypeOK, Ledger, NEW t \in Turns, pc[t] \in Running, EndSilent(t)
  PROVE  Ledger'
<1> DEFINE at == [pc EXCEPT ![t] = "over"]
<1>1. "over" \in Places \ {"new", "queued"}
  BY DEF Places
<1>2. /\ Books(queue, at, request, disposing) /\ at \in [Turns -> Places]
      /\ \A u \in Turns : Begun(u) => at[u] # "new"
  BY <1>1, GoOn
<1>3. ContinueGoalOrQueue(at, request, latest) /\ request \in [Turns -> RowStates]
  BY DEF EndSilent, TypeOK
<1> HIDE DEF at
<1>4. /\ Books(queue', pc', request', disposing)
      /\ \A u \in Turns : at[u] # "new" /\ request[u] # "accepted"
                            => pc'[u] # "new" /\ request'[u] # "accepted"
      /\ latest' \in {None, latest}
  BY <1>2, <1>3, ContinueKeeps
<1>5. \A u \in Turns : Begun(u) => pc'[u] # "new" /\ request'[u] # "accepted"
  BY <1>2, <1>4 DEF Begun
<1>6. /\ disposing' = disposing /\ planGate' = planGate /\ questions' = questions
      /\ Heard /\ None \notin Turns
  BY TurnsAssumption DEF EndSilent, process, Ledger
<1> QED BY <1>4, <1>5, <1>6, LedgerStep

LEMMA ConcludeLedger == ASSUME TypeOK, Ledger, NEW t \in Turns, Conclude(t) PROVE Ledger'
<1>1. CASE Settle(t)
  <2>1. pc[t] \in Running
    BY <1>1 DEF Settle, Running
  <2> QED BY <1>1, <2>1, EndUnownedLedger, EndOwnedLedger, EndSilentLedger
       DEF Settle, Verdicts
<1>2. CASE SettleCompleted(t)
  <2>1. pc[t] \in Startup \cup Running /\ "finishing" \in Places \ {"new", "queued"}
    BY <1>2 DEF SettleCompleted, Running, Places
  <2>2. latest' \in {None, latest, t}
    BY <1>2 DEF SettleCompleted
  <2> QED BY <1>2, <2>1, <2>2, GoOnLedger DEF SettleCompleted, memory, process
<1>3. CASE Finish(t)
  <2>1. pc[t] \in Running
    BY <1>3 DEF Finish, Running
  <2> QED BY <1>3, <2>1, EndUnownedLedger, EndOwnedLedger DEF Finish, Verdicts
<1> QED BY <1>1, <1>2, <1>3 DEF Conclude

-----------------------------------------------------------------------------
(* The user's operations *)

(* Taking t, a queued turn, out of the queue. *)
LEMMA WithdrawT ==
  ASSUME TypeOK, Ledger, NEW t \in Turns, Queued(t)
  PROVE  /\ Without(queue, RemoveIndex(queue, Position(t)), t)
         /\ RemoveIndex(queue, Position(t)) \in Seq(Turns)
<1>1. Position(t) \in DOMAIN queue /\ queue[Position(t)] = t
  BY PositionType
<1>2. queue \in Seq(Turns) /\ \A m, n \in DOMAIN queue : queue[m] = queue[n] => m = n
  BY DEF TypeOK, Ledger, Books
<1> QED BY <1>1, <1>2, RemoveIndexOthers, RemoveIndexType

LEMMA CancelQueuedTurnLedger ==
  ASSUME TypeOK, Ledger, NEW t \in Turns, CancelQueuedTurn(t)
  PROVE  Ledger'
<1>1. Without(queue, queue', t)
  BY WithdrawT DEF CancelQueuedTurn
<1>2. /\ pc' = [pc EXCEPT ![t] = "over"] /\ request' = Close(request, t, "cancelled")
      /\ disposing' = disposing /\ latest' = latest /\ planGate' = planGate
      /\ questions' = questions
  BY DEF CancelQueuedTurn, process
<1>3. /\ pc \in [Turns -> Places] /\ request \in [Turns -> RowStates]
      /\ Books(queue, pc, request, disposing) /\ Heard
      /\ "over" \in Places \ {"new", "queued"}
  BY DEF TypeOK, Ledger, Places
<1>4. \A u \in Turns : request[u] # "accepted" => request'[u] # "accepted"
  BY <1>2, <1>3 DEF Close
<1>5. WaitsNoMore(request, request', t)
  <2>1. \A u \in Turns \ {t} : request'[u] = request[u]
    BY <1>2, <1>3 DEF Close
  <2>2. request'[t] # "accepted"
    BY <1>2, <1>3 DEF Close
  <2>3. t \notin DurableTurns => request'[t] = "none"
    <3>1. t \notin DurableTurns => request[t] = "none"
      BY <1>3 DEF Books
    <3> QED BY <1>2, <1>3, <3>1 DEF Close
  <2> QED BY <2>1, <2>2, <2>3 DEF WaitsNoMore
<1>6. Books(queue', pc', request', disposing)
  BY <1>1, <1>2, <1>3, <1>5, Leave
<1>7. \A u \in Turns : Begun(u) => pc'[u] # "new" /\ request'[u] # "accepted"
  BY <1>2, <1>3, <1>4 DEF Begun
<1> QED BY <1>2, <1>3, <1>6, <1>7, LedgerStep

(* Moving t to the front of the queue keeps what is in it. *)
LEMMA Promote ==
  ASSUME TypeOK, Ledger, NEW t \in Turns, Queued(t),
         NEW q, q = <<t>> \o RemoveIndex(queue, Position(t))
  PROVE  q \in Seq(Turns) /\ Books(q, pc, request, disposing)
<1> DEFINE r == RemoveIndex(queue, Position(t))
<1>1. Without(queue, r, t) /\ r \in Seq(Turns)
  BY WithdrawT
<1> HIDE DEF r
<1>2. <<t>> \in Seq(Turns) /\ Len(<<t>>) = 1 /\ <<t>>[1] = t
  OBVIOUS
<1>3. q \in Seq(Turns) /\ Len(q) = 1 + Len(r) /\ Len(r) \in Nat
  BY <1>1, <1>2, ConcatProperties DEF r
<1>4. q[1] = t /\ \A k \in DOMAIN r : q[k + 1] = r[k]
  BY <1>1, <1>2, <1>3, ConcatProperties DEF r
<1>5. DOMAIN q = 1..(1 + Len(r)) /\ DOMAIN r = 1..Len(r)
  BY <1>1, <1>3
<1>6. \A k \in DOMAIN q : k = 1 \/ (k - 1 \in DOMAIN r /\ q[k] = r[k - 1])
  <2> SUFFICES ASSUME NEW k \in DOMAIN q, k # 1
               PROVE  k - 1 \in DOMAIN r /\ q[k] = r[k - 1]
    OBVIOUS
  <2>1. k - 1 \in DOMAIN r /\ (k - 1) + 1 = k
    BY <1>3, <1>5
  <2> QED BY <1>4, <2>1
<1>7. \A k \in DOMAIN r : k + 1 \in DOMAIN q
  BY <1>3, <1>5
<1>8. 1 \in DOMAIN q
  BY <1>3, <1>5
<1>9. \A u : (\E k \in DOMAIN q : q[k] = u) <=> (\E k \in DOMAIN queue : queue[k] = u)
  <2>1. \E k \in DOMAIN queue : queue[k] = t
    BY DEF Queued
  <2>2. \A u : (\E k \in DOMAIN r : r[k] = u)
                <=> (u # t /\ \E k \in DOMAIN queue : queue[k] = u)
    BY <1>1 DEF Without
  <2>3. ASSUME NEW u, NEW k \in DOMAIN q, q[k] = u
        PROVE  \E m \in DOMAIN queue : queue[m] = u
    <3>1. CASE k = 1
      BY <1>4, <2>1, <2>3, <3>1
    <3>2. CASE k # 1
      <4>1. k - 1 \in DOMAIN r /\ r[k - 1] = u
        BY <1>6, <2>3, <3>2
      <4> QED BY <2>2, <4>1
    <3> QED BY <3>1, <3>2
  <2>4. ASSUME NEW u, \E m \in DOMAIN queue : queue[m] = u
        PROVE  \E k \in DOMAIN q : q[k] = u
    <3>1. CASE u = t
      BY <1>4, <1>8, <3>1
    <3>2. CASE u # t
      <4>1. PICK k \in DOMAIN r : r[k] = u
        BY <2>2, <2>4, <3>2
      <4> QED BY <1>4, <1>7, <4>1
    <3> QED BY <3>1, <3>2
  <2> QED BY <2>3, <2>4
<1>10. ASSUME NEW m \in DOMAIN q, NEW n \in DOMAIN q, q[m] = q[n] PROVE m = n
  <2>1. \A k \in DOMAIN r : r[k] # t
    BY <1>1 DEF Without
  <2>2. CASE m = 1 \/ n = 1
    BY <1>4, <1>6, <1>10, <2>1, <2>2
  <2>3. CASE m # 1 /\ n # 1
    <3>1. m - 1 = n - 1
      BY <1>1, <1>6, <1>10, <2>3 DEF Without
    <3> QED BY <1>5, <3>1
  <2> QED BY <2>2, <2>3
<1>11. Books(queue, pc, request, disposing)
  BY DEF Ledger
<1> QED BY <1>3, <1>9, <1>10, <1>11 DEF Books

LEMMA SendQueuedTurnNowLedger ==
  ASSUME TypeOK, Ledger, NEW t \in Turns, SendQueuedTurnNow(t)
  PROVE  Ledger'
<1> DEFINE q == <<t>> \o RemoveIndex(queue, Position(t))
<1>1. q \in Seq(Turns) /\ Books(q, pc, request, disposing)
  BY Promote DEF SendQueuedTurnNow
<1>2. /\ disposing' = disposing /\ latest' = latest /\ planGate' = None
      /\ questions' = questions /\ Heard /\ None \notin Turns
  BY TurnsAssumption DEF SendQueuedTurnNow, Ledger
<1>3. /\ Books(queue', pc', request', disposing)
      /\ \A u \in Turns : Begun(u) => pc'[u] # "new" /\ request'[u] # "accepted"
  <2>1. CASE active = None
    <3>1. queue' = q /\ pc' = pc /\ request' = request
      BY <2>1 DEF SendQueuedTurnNow, TakeOver
    <3> HIDE DEF q
    <3> QED BY <1>1, <3>1 DEF Begun
  <2>2. CASE active # None
    <3>1. StartNextQueuedTurn(q, None, None, starting, pc, request, timers)
      BY <2>2 DEF SendQueuedTurnNow
    <3>2. /\ starting \in BOOLEAN /\ pc \in [Turns -> Places]
          /\ request \in [Turns -> RowStates]
      BY DEF TypeOK
    <3> HIDE DEF q
    <3> QED BY <1>1, <3>1, <3>2, StartNextKeeps DEF Begun
  <2> QED BY <2>1, <2>2
<1> HIDE DEF q
<1> QED BY <1>2, <1>3, LedgerStep

LEMMA CancelTurnLedger == ASSUME TypeOK, Ledger, CancelTurn PROVE Ledger'
<1> DEFINE rows == Close(request, latest, "cancelled")
<1>1. /\ disposing' = disposing /\ latest' = latest /\ planGate' = None
      /\ questions' = questions /\ Heard /\ None \notin Turns
  BY TurnsAssumption DEF CancelTurn, Ledger, process
<1>2. /\ queue \in Seq(Turns) /\ starting \in BOOLEAN /\ pc \in [Turns -> Places]
      /\ request \in [Turns -> RowStates] /\ Books(queue, pc, request, disposing)
  BY DEF TypeOK, Ledger
<1>3. rows \in [Turns -> RowStates]
  <2>1. "cancelled" \in RowStates
    BY DEF RowStates
  <2> QED BY <1>2, <2>1, CloseType
<1>4. latest \in Turns => pc[latest] # "new" /\ request[latest] # "accepted"
  BY <1>1 DEF Heard, Begun
<1>5. /\ Books(queue, pc, rows, disposing)
      /\ \A u \in Turns : request[u] # "accepted" => rows[u] # "accepted"
  BY <1>2, <1>4, CloseBegun
<1>6. StartNextQueuedTurn(queue, None, None, starting, pc, rows, timers)
  BY DEF CancelTurn
<1> HIDE DEF rows
<1>7. /\ Books(queue', pc', request', disposing)
      /\ \A u \in Turns : pc[u] # "new" /\ rows[u] # "accepted"
                            => pc'[u] # "new" /\ request'[u] # "accepted"
  BY <1>2, <1>3, <1>5, <1>6, StartNextKeeps
<1>8. \A u \in Turns : Begun(u) => pc'[u] # "new" /\ request'[u] # "accepted"
  BY <1>5, <1>7 DEF Begun
<1> QED BY <1>1, <1>7, <1>8, LedgerStep

LEMMA CancelWhileIdleLedger == ASSUME TypeOK, Ledger, CancelWhileIdle PROVE Ledger'
BY TurnsAssumption DEF CancelWhileIdle, Ledger, Heard, Begun, process, threads, database

LEMMA ControlLedger == ASSUME TypeOK, Ledger, Control PROVE Ledger'
BY AnswerQuestionLedger, CancelQueuedTurnLedger, SendQueuedTurnNowLedger,
   CancelTurnLedger, DecidePlanLedger DEF Control, RejectPlan, UpdatePermissionMode

-----------------------------------------------------------------------------
(* Goals *)

LEMMA PursueLedger == ASSUME TypeOK, Ledger, Pursue PROVE Ledger'
<1>1. /\ pc \in [Turns -> Places] /\ request \in [Turns -> RowStates]
      /\ Books(queue, pc, request, disposing) /\ Heard /\ None \notin Turns
  BY TurnsAssumption DEF TypeOK, Ledger
<1>2. CASE ActivateGoal
  <2>1. /\ StartGoalLoop(active, pc, None)
        /\ queue' = queue /\ request' = request /\ disposing' = disposing
        /\ planGate' = planGate /\ questions' = questions
    BY <1>2 DEF ActivateGoal, GoalUnchanged, process
  <2>2. /\ Books(queue', pc', request', disposing')
        /\ \A u \in Turns : pc[u] # "new" => pc'[u] # "new"
        /\ latest' \in {None, None}
    BY <1>1, <2>1, StartGoalLoopKeeps
  <2>3. \A u \in Turns : Begun(u) => pc'[u] # "new" /\ request'[u] # "accepted"
    BY <2>1, <2>2 DEF Begun
  <2> QED BY <1>1, <2>1, <2>2, <2>3, LedgerStep
<1>3. CASE SuspendGoal \/ ClearGoal
  <2>1. /\ queue' = queue /\ request' = request /\ disposing' = disposing /\ pc' = pc
        /\ planGate' = planGate /\ questions' = questions /\ latest' = None
    BY <1>3 DEF SuspendGoal, ClearGoal, GoalUnchanged, process, memory
  <2> QED BY <1>1, <2>1, LedgerStep DEF Begun
<1>4. ASSUME NEW g \in GoalTurns, DraftGoal(g) PROVE Ledger'
  <2>1. g \in Turns /\ g \notin DurableTurns
    BY TurnsAssumption DEF Turns
  <2>2. /\ pc[g] = "new" /\ request' = request /\ disposing' = disposing
        /\ planGate' = planGate /\ questions' = questions /\ latest' = None
    BY <1>4 DEF DraftGoal, process
  <2>3. Books(queue', pc', request', disposing)
    <3>1. CASE active = None
      <4>1. pc' = [pc EXCEPT ![g] = "preflight"] /\ queue' = queue
        BY <1>4, <3>1 DEF DraftGoal
      <4>2. pc[g] # "queued" /\ request[g] # "accepted"
        BY <1>1, <2>1, <2>2 DEF Books
      <4>3. "preflight" \in Places \ {"new", "queued"}
        BY DEF Places
      <4> QED BY <1>1, <2>1, <2>2, <4>1, <4>2, <4>3, Move
    <3>2. CASE active # None
      <4>1. pc' = [pc EXCEPT ![g] = "queued"] /\ queue' = Append(queue, g)
        BY <1>4, <3>2 DEF DraftGoal, Enqueue
      <4> QED BY <2>1, <2>2, <4>1, Append1
    <3> QED BY <3>1, <3>2
  <2>4. pc' = [pc EXCEPT ![g] = "preflight"] \/ pc' = [pc EXCEPT ![g] = "queued"]
    BY <1>4 DEF DraftGoal
  <2>5. \A u \in Turns : Begun(u) => pc'[u] # "new" /\ request'[u] # "accepted"
    BY <1>1, <2>2, <2>4 DEF Begun
  <2> QED BY <1>1, <2>2, <2>3, <2>5, LedgerStep
<1> QED BY <1>2, <1>3, <1>4 DEF Pursue

-----------------------------------------------------------------------------
(* Shutdown and recovery *)

LEMMA DisposeLedger == ASSUME TypeOK, Ledger, Dispose PROVE Ledger'
<1>1. /\ disposing' = TRUE /\ queue' = <<>> /\ request' = request /\ latest' = latest
      /\ planGate' = None /\ Heard /\ None \notin Turns
      /\ \A t \in Turns : questions'[t] = 0
      /\ \A t \in Turns : pc'[t] = IF pc[t] = "queued" THEN "over" ELSE pc[t]
  BY TurnsAssumption DEF Dispose, Ledger, database
<1>2. \A t \in Turns : ~(questions'[t] > 0)
  BY <1>1
<1>3. DOMAIN queue' = {}
  BY <1>1
<1>4. Books(queue', pc', request', disposing')
  <2>1. \A t \in Turns : pc'[t] # "queued" /\ (pc'[t] = "new" => pc[t] = "new")
    BY <1>1
  <2>2. \A t \in Turns : pc'[t] \in Startup \cup Running => pc[t] \in Startup \cup Running
    BY <1>1 DEF Startup, Running
  <2> QED BY <1>1, <1>3, <2>1, <2>2 DEF Ledger, Books
<1>5. \A u \in Turns : Begun(u) => pc'[u] # "new" /\ request'[u] # "accepted"
  BY <1>1 DEF Begun
<1> QED BY <1>1, <1>2, <1>4, <1>5, LedgerStep

(* The n entries of q carry strictly increasing stamps. *)
Increasing(q, n, stamp) == \A i, j \in 1..n : i < j => stamp[q[i]] < stamp[q[j]]

(* The n entries of q are the members of A, each of them once. *)
Lists(q, n, A) ==
  /\ \A i, j \in 1..n : q[i] = q[j] => i = j
  /\ \A x \in A : \E i \in 1..n : q[i] = x

(* Ordering a finite set by a strictly increasing stamp lists each member.   *)
LEMMA OrderedListing ==
  ASSUME NEW A, IsFiniteSet(A), NEW n \in Nat, n = Cardinality(A),
         NEW q \in [1..n -> A], NEW stamp \in [A -> Nat], Increasing(q, n, stamp)
  PROVE  Lists(q, n, A)
<1>1. ASSUME NEW i \in 1..n, NEW j \in 1..n, q[i] = q[j] PROVE i = j
  <2>1. ~(i < j) /\ ~(j < i)
    BY <1>1 DEF Increasing
  <2> QED BY <2>1
<1>2. q \in Injection(1..n, A)
  BY <1>1 DEF Injection, IsInjective
<1>3. Cardinality(1..n) = Cardinality(A)
  <2>1. 1 \in Int /\ n \in Int
    OBVIOUS
  <2>2. Cardinality(1..n) = IF 1 > n THEN 0 ELSE n - 1 + 1
    BY <2>1, FS_Interval, Zenon
  <2> QED BY <2>2
<1>4. q \in Surjection(1..n, A)
  BY <1>2, <1>3, FS_Injection
<1> QED BY <1>1, <1>4 DEF Surjection, Lists

LEMMA RestartLedger == ASSUME TypeOK, Ledger, Restart PROVE Ledger'
<1> DEFINE A == {t \in Turns : request[t] = "accepted"}
           n == Cardinality(A)
<1>1. IsFiniteSet(A) /\ n \in Nat
  BY FS_Subset, FS_CardinalityType, TurnsAssumption
<1>2. PICK q \in [1..n -> A] :
        /\ \A i, j \in DOMAIN q : i < j => created[q[i]] < created[q[j]]
        /\ queue' = q
  BY DEF Restart, RecoverRequests, RecoverRow
<1>3. DOMAIN queue' = 1..n
  BY <1>2
<1>4. /\ \A i, j \in 1..n : queue'[i] = queue'[j] => i = j
      /\ \A x \in A : \E i \in 1..n : queue'[i] = x
      /\ \A i \in 1..n : queue'[i] \in A
  <2> DEFINE stamp == [t \in A |-> created[t]]
  <2>1. stamp \in [A -> Nat] /\ \A t \in A : stamp[t] = created[t]
    BY DEF TypeOK
  <2> HIDE DEF n, A, stamp
  <2>2. \A i \in 1..n : q[i] \in A
    BY <1>1, <1>2
  <2>3. Increasing(q, n, stamp)
    BY <1>1, <1>2, <2>1, <2>2 DEF Increasing
  <2>4. n = Cardinality(A)
    BY DEF n
  <2>5. Lists(q, n, A)
    BY <1>1, <2>1, <2>3, <2>4, OrderedListing
  <2> QED BY <1>2, <2>2, <2>5 DEF Lists
<1>5. \A t \in Turns : request'[t] = IF request[t] = "running" THEN "failed" ELSE request[t]
  BY DEF Restart, RecoverRequests, RecoverRow
<1>6. \A t \in Turns : pc'[t] = CASE t \in A     -> "queued"
                                  [] pc[t] = "new" -> "new"
                                  [] OTHER         -> "over"
  BY DEF Restart, RecoverRequests, RecoverRow
<1>7. Books(queue, pc, request, disposing) /\ Heard
  BY DEF Ledger
<1>8. \A t \in Turns : pc[t] = "new" => t \notin A
  BY <1>7 DEF Books
<1>9. \A t \in Turns : pc'[t] = "queued" <=> t \in A
  <2> HIDE DEF A
  <2> QED BY <1>6, <1>8
<1>10. \A t \in Turns : request'[t] = "accepted" <=> t \in A
  BY <1>5
<1>11. \A t \in Turns : pc'[t] = "new" => pc[t] = "new"
  <2> HIDE DEF A
  <2> QED BY <1>6, <1>8
<1>12. \A t \in Turns : pc'[t] \notin Startup \cup Running
  <2> HIDE DEF A
  <2> QED BY <1>6, <1>8 DEF Startup, Running
<1>13. Books(queue', pc', request', disposing')
  <2>1. ASSUME NEW t \in Turns
        PROVE  (\E i \in DOMAIN queue' : queue'[i] = t) <=> pc'[t] = "queued"
    BY <1>3, <1>4, <1>9
  <2>2. \A t \in Turns \ DurableTurns : request'[t] = "none"
    BY <1>5, <1>7 DEF Books
  <2>3. \A t \in Turns : pc'[t] = "new" => request'[t] = "none"
    BY <1>5, <1>7, <1>11 DEF Books
  <2>4. \A t \in DurableTurns : request'[t] = "accepted" <=> pc'[t] = "queued"
    BY <1>9, <1>10 DEF Turns
  <2> QED BY <1>3, <1>4, <1>12, <2>1, <2>2, <2>3, <2>4 DEF Books
<1>14. \A t \in Turns : Begun(t) => pc'[t] # "new" /\ request'[t] # "accepted"
  BY <1>10, <1>11 DEF Begun
<1>15. /\ latest' = latest /\ planGate' = None /\ None \notin Turns
       /\ \A t \in Turns : questions'[t] = 0
  BY TurnsAssumption DEF Restart
<1>16. \A t \in Turns : ~(questions'[t] > 0)
  BY <1>15
<1> QED BY <1>7, <1>13, <1>14, <1>15, <1>16, LedgerStep

LEMMA NextLedger == TypeOK /\ Ledger /\ [Next]_vars => Ledger'
<1> SUFFICES ASSUME TypeOK, Ledger, [Next]_vars PROVE Ledger'
  OBVIOUS
<1>1. CASE Submit
  BY <1>1, SubmitLedger
<1>2. CASE FireTimer
  BY <1>2, FireTimerLedger
<1>3. ASSUME NEW t \in Turns, Preflight(t) PROVE Ledger'
  BY <1>3, AnnounceLedger, StartRejectsLedger, SetupUnavailableLedger,
     RegisterLedger, ExecuteLedger DEF Preflight
<1>4. CASE Run
  BY <1>3, <1>4, ConcludeLedger, EmitLedger, ProposePlanLedger, AskQuestionLedger
  DEF Run
<1>5. CASE Control \/ CancelWhileIdle
  BY <1>5, ControlLedger, CancelWhileIdleLedger
<1>6. CASE Pursue
  BY <1>6, PursueLedger
<1>7. CASE Dispose \/ Restart
  BY <1>7, DisposeLedger, RestartLedger
<1>8. CASE UNCHANGED vars
  BY <1>8 DEF Ledger, Books, Heard, Begun, vars, memory, process, threads, database
<1> QED BY <1>1, <1>2, <1>4, <1>5, <1>6, <1>7, <1>8 DEF Next, Steps

LEMMA LedgerMeansNoLostTurn == ASSUME TypeOK, Ledger PROVE NoLostTurn
<1>1. \A t \in DurableTurns : t \in Turns
  BY DEF Turns
<1> QED BY <1>1 DEF Ledger, Books, NoLostTurn, Queued

(* No accepted turn is ever lost, queued twice, or left in the queue after   *)
(* its row has moved on, for any number of turns of each kind, whatever the  *)
(* users do, and across any number of restarts.                              *)
THEOREM NothingLost == Spec => []NoLostTurn
<1>1. Init => Ledger
  BY InitLedger
<1>2. TypeOK /\ Ledger /\ [Next]_vars => Ledger'
  BY NextLedger
<1>3. TypeOK /\ Ledger => NoLostTurn
  BY LedgerMeansNoLostTurn
<1> QED BY <1>1, <1>2, <1>3, TypeCorrect, PTL DEF Spec
-----------------------------------------------------------------------------
(* Final rows *)

FinalRow == {"completed", "failed", "cancelled"}

(* The rows have changed, but no final one; none is deleted; and after       *)
(* dispose() those that wait for the next launch wait on.                    *)
Spares(reqs, rows) ==
  \A t \in Turns :
    /\ reqs[t] \in FinalRow => rows[t] = reqs[t]
    /\ reqs[t] # "none" => rows[t] # "none"
    /\ disposing /\ queue = <<>> => (rows[t] = "accepted" <=> reqs[t] = "accepted")

LEMMA CloseSpares ==
  ASSUME NEW reqs \in [Turns -> RowStates], NEW t, NEW s \in FinalRow,
         t \in Turns => reqs[t] # "accepted" \/ queue # <<>>
  PROVE  /\ Close(reqs, t, s) \in [Turns -> RowStates]
         /\ Spares(reqs, Close(reqs, t, s))
BY DEF Close, Spares, FinalRow, RowStates

LEMMA StartNextSpares ==
  ASSUME NEW q, NEW act, NEW gate, NEW st, NEW at, NEW reqs \in [Turns -> RowStates], NEW tm,
         StartNextQueuedTurn(q, act, gate, st, at, reqs, tm)
  PROVE  Spares(reqs, request')
<1>1. CASE request' = reqs
  BY <1>1 DEF Spares
<1>2. CASE request' # reqs
  <2>1. /\ ~disposing /\ reqs[Head(q)] \in {"none", "accepted"}
        /\ request' = [reqs EXCEPT ![Head(q)] = IF @ = "none" THEN "none" ELSE "running"]
    BY <1>2 DEF StartNextQueuedTurn, HeldBack
  <2> QED BY <2>1 DEF Spares, FinalRow
<1> QED BY <1>1, <1>2

LEMMA StartReturnsSpares ==
  ASSUME NEW t, NEW at, NEW rows \in [Turns -> RowStates], NEW act,
         StartReturns(t, at, rows, act)
  PROVE  Spares(rows, request')
BY StartNextSpares DEF StartReturns, Spares

LEMMA ContinueSpares ==
  ASSUME NEW at, NEW reqs \in [Turns -> RowStates], NEW last,
         ContinueGoalOrQueue(at, reqs, last)
  PROVE  Spares(reqs, request')
BY StartNextSpares DEF ContinueGoalOrQueue, Spares

(* Two writes after each other. *)
LEMMA SparesTwice ==
  ASSUME NEW reqs, NEW rows, Spares(reqs, rows), Spares(rows, request')
  PROVE  Spares(reqs, request')
BY DEF Spares

LEMMA NextSpares ==
  ASSUME TypeOK, Ledger, [Next]_vars
  PROVE  Spares(request, request')
<1>0. request \in [Turns -> RowStates]
  BY DEF TypeOK
<1>1. CASE request' = request
  BY <1>1 DEF Spares
<1>2. CASE Submit
  <2>1. PICK t \in Turns : SubmitBehind(t) \/ SubmitAndSchedule(t) \/ SendDirect(t)
    BY <1>2 DEF Submit
  <2>2. request[t] = "none" /\ ~disposing
    BY <2>1 DEF SubmitBehind, SubmitAndSchedule, SendDirect, Accepting, Ledger, Books
  <2>3. request' = request \/ request' = [request EXCEPT ![t] = "accepted"]
    BY <2>1 DEF SubmitBehind, SubmitAndSchedule, SendDirect, EnqueueNew
  <2> QED BY <1>0, <2>2, <2>3 DEF Spares, FinalRow
<1>3. CASE FireTimer
  BY <1>0, <1>3, StartNextSpares DEF FireTimer
<1>4. CASE Run
  <2>1. PICK t \in Turns : \/ Preflight(t) \/ Conclude(t)
                           \/ Emit(t) \/ ProposePlan(t) \/ AskQuestion(t)
    BY <1>4 DEF Run
  <2>0. pc[t] \in Startup \cup Running => request[t] # "accepted"
    BY DEF Ledger, Books
  <2>2. CASE pc[t] \in Startup /\ \E rows \in {request, Close(request, t, "failed")} : \E at, act :
               StartReturns(t, at, rows, act)
    <3>1. PICK rows \in {request, Close(request, t, "failed")} :
                 \E at, act : StartReturns(t, at, rows, act)
      BY <2>2
    <3>2. rows \in [Turns -> RowStates] /\ Spares(request, rows)
      BY <1>0, <2>0, <2>2, <3>1, CloseSpares DEF FinalRow, Spares
    <3> QED BY <3>1, <3>2, StartReturnsSpares, SparesTwice
  <2>3. ASSUME NEW v \in Verdicts, pc[t] \in Running, EndOwned(t, v) PROVE Spares(request, request')
    <3>1. RowOf(v) \in FinalRow
      BY DEF RowOf, FinalRow, Verdicts
    <3>2. /\ Close(request, t, RowOf(v)) \in [Turns -> RowStates]
          /\ Spares(request, Close(request, t, RowOf(v)))
      BY <1>0, <2>0, <2>3, <3>1, CloseSpares
    <3>3. \E at, last : ContinueGoalOrQueue(at, Close(request, t, RowOf(v)), last)
      BY <2>3 DEF EndOwned
    <3> QED BY <3>2, <3>3, ContinueSpares, SparesTwice
  <2>4. CASE EndSilent(t)
    BY <1>0, <2>4, ContinueSpares DEF EndSilent
  <2>5. CASE StartRejects(t) \/ SetupUnavailable(t) \/ Execute(t)
    <3>1. CASE StartRejects(t)
      BY <2>2, <3>1 DEF StartRejects, Startup
    <3>2. CASE SetupUnavailable(t)
      BY <2>2, <3>2 DEF SetupUnavailable, Startup
    <3>3. CASE Execute(t)
      <4>1. pc[t] \in Startup /\ \E at, act : StartReturns(t, at, request, act)
        BY <3>3 DEF Execute, Startup
      <4> QED BY <2>2, <4>1
    <3> QED BY <2>5, <3>1, <3>2, <3>3
  <2>6. CASE Announce(t) \/ Register(t) \/ EndUnowned(t) \/ SettleCompleted(t)
             \/ Emit(t) \/ ProposePlan(t) \/ AskQuestion(t)
    BY <1>1, <2>6 DEF Announce, Register, EndUnowned, SettleCompleted, Emit, ProposePlan,
                      AskQuestion, database
  <2>7. CASE Conclude(t)
    <3>0. pc[t] \in Running
      BY <2>7 DEF Conclude, Settle, SettleCompleted, Finish, Running
    <3>1. \/ EndUnowned(t) \/ SettleCompleted(t) \/ EndSilent(t)
          \/ EndOwned(t, "error") \/ EndOwned(t, "cancelled") \/ EndOwned(t, "completed")
      BY <2>7 DEF Conclude, Settle, Finish
    <3> QED BY <2>3, <2>4, <2>6, <3>0, <3>1 DEF Verdicts
  <2> QED BY <2>1, <2>5, <2>6, <2>7 DEF Preflight
<1>5. CASE Control
  <2>1. ASSUME NEW t \in Turns, AnswerQuestion(t) PROVE Spares(request, request')
    BY <1>1, <2>1 DEF AnswerQuestion
  <2>2. ASSUME NEW t \in Turns, CancelQueuedTurn(t) PROVE Spares(request, request')
    <3>1. queue # <<>>
      BY <2>2 DEF CancelQueuedTurn, Queued
    <3> QED BY <1>0, <2>2, <3>1, CloseSpares DEF CancelQueuedTurn, FinalRow
  <2>3. ASSUME NEW t \in Turns, SendQueuedTurnNow(t) PROVE Spares(request, request')
    BY <1>0, <1>1, <2>3, StartNextSpares DEF SendQueuedTurnNow
  <2>4. CASE CancelTurn
    <3> DEFINE rows == Close(request, latest, "cancelled")
    <3>1. rows \in [Turns -> RowStates] /\ Spares(request, rows)
      BY <1>0, CloseSpares DEF FinalRow, Ledger, Heard, Begun
    <3>2. StartNextQueuedTurn(queue, None, None, starting, pc, rows, timers)
      BY <2>4 DEF CancelTurn
    <3> HIDE DEF rows
    <3>3. Spares(rows, request')
      BY <3>1, <3>2, StartNextSpares
    <3> QED BY <3>1, <3>3, SparesTwice
  <2>5. CASE RejectPlan \/ UpdatePermissionMode
    BY <1>0, <2>5, StartNextSpares DEF RejectPlan, UpdatePermissionMode, DecidePlan
  <2> QED BY <1>5, <2>1, <2>2, <2>3, <2>4, <2>5 DEF Control
<1>6. CASE Pursue \/ Dispose \/ CancelWhileIdle \/ UNCHANGED vars
  BY <1>1, <1>6 DEF Pursue, ActivateGoal, SuspendGoal, ClearGoal, DraftGoal, GoalUnchanged,
                    Dispose, CancelWhileIdle, vars, database
<1>7. CASE Restart
  <2>1. \A t \in Turns : request'[t] = RecoverRow(request[t])
    BY <1>7 DEF Restart, RecoverRequests
  <2> QED BY <2>1 DEF RecoverRow, Spares, FinalRow
<1> QED BY <1>2, <1>3, <1>4, <1>5, <1>6, <1>7 DEF Next, Steps

(* The guard on the status in turn_requests: no late event, cancellation or  *)
(* recovery rewrites a row that is final.                                    *)
THEOREM FinalRows == Spec => FinalRowsStay
<1>1. Init => Ledger
  BY InitLedger
<1>2. TypeOK /\ Ledger /\ [Next]_vars => Ledger'
  BY NextLedger
<1>3. TypeOK /\ Ledger /\ [Next]_vars
        => [\A t \in Turns : request[t] \in {"completed", "failed", "cancelled"}
                               => request'[t] = request[t]]_vars
  BY NextSpares DEF Spares, FinalRow
<1> QED BY <1>1, <1>2, <1>3, TypeCorrect, PTL DEF Spec, FinalRowsStay
=============================================================================
