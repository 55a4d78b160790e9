------------------------- MODULE ControlInboxProofs -------------------------
(***************************************************************************)
(* Proofs about the control inbox and the runtime it delivers to, for any  *)
(* set of controls, any retry budget, fallback list and inbox capacity.    *)
(*                                                                         *)
(* A control is in one place: its row, the call of the delivery task, the  *)
(* runtime's deferred list or the harness.  HandInv says which places are  *)
(* exclusive; the steps of executeQuery, of the harness and of the other   *)
(* callers only move controls forward (HandMoves), so only the actions of  *)
(* the dispatcher need a look of their own.  For the settlement of a       *)
(* prompt SettleInv adds why the one ending that leaves late controls      *)
(* behind, the abort of a TaskRun that waits for input, is never clean.    *)
(***************************************************************************)
EXTENDS ControlInbox, TLAPS

Status == {"absent", "queued", "delivering", "delivered", "rejected",
           "superseded", "outcome_unknown"}
Stages == {"none", "start", "calling", "threw", "accepted", "settled", "failed"}

\* The shapes the other parts rest on
Shapes ==
    /\ item \in [Controls -> [status : Status, attempt : Nat]]
    /\ order \in Seq(Controls)
    /\ entered \in Seq(Controls) /\ deferred \in Seq(Controls)
    /\ task \in [stage : Stages, attempt : Nat, control : SUBSET Controls]
    /\ attempt \in Nat

\* Nobody took c: neither the harness nor the list kept for its next turn.
Untaken(c, e, d) == c \notin ToSet(e) /\ c \notin ToSet(d)

\* What the harness took and what waits for it: each control at most once
Apart(e, d) ==
    /\ \A i, j \in 1..Len(e) : e[i] = e[j] => i = j
    /\ \A i, j \in 1..Len(d) : d[i] = d[j] => i = j
    /\ \A i \in 1..Len(e), j \in 1..Len(d) : e[i] # d[j]

\* A row that was not handed over, and a call that did not hand it over
RowsOK ==
    \A c \in Controls :
        item[c].status \in {"absent", "queued", "rejected"} => Untaken(c, entered, deferred)

TaskOK ==
    /\ task.stage \in {"none", "start"} => task.control = {}
    /\ \A c \in Controls :
        c \in task.control =>
            /\ item[c].status = "delivering"
            /\ task.stage # "accepted" => Untaken(c, entered, deferred)

HandInv == Shapes /\ Apart(entered, deferred) /\ RowsOK /\ TaskOK

SettleInv ==
    /\ turn \in BOOLEAN
    /\ turn => pc = "turn"
    /\ pc = "compact_last" => run # "waiting"
    /\ pc = "abort_wait" => why # "clean"
    /\ SettlesEmpty

\* ToSet, element by element
LEMMA Elements ==
    ASSUME NEW S, NEW q \in Seq(S)
    PROVE  \A x : x \in ToSet(q) <=> \E i \in 1..Len(q) : q[i] = x
  BY DEF ToSet

-----------------------------------------------------------------------------
\* What the moves of a control do to the two sequences

\* Forgetting the deferred controls (abort, a new runtime)
LEMMA Forgotten ==
    ASSUME NEW e \in Seq(Controls), NEW d \in Seq(Controls), Apart(e, d)
    PROVE  /\ <<>> \in Seq(Controls)
           /\ Apart(e, <<>>)
           /\ \A c : Untaken(c, e, d) => Untaken(c, e, <<>>)
  <1>1. <<>> \in Seq(Controls) /\ Len(<<>>) = 0
    OBVIOUS
  <1>2. ToSet(<<>>) = {}
    BY <1>1 DEF ToSet
  <1> QED
    BY <1>1, <1>2 DEF Apart, Untaken

\* A control nobody took is added at the end of one of the sequences.
LEMMA Added ==
    ASSUME NEW e \in Seq(Controls), NEW d \in Seq(Controls), Apart(e, d),
           NEW c \in Controls, Untaken(c, e, d)
    PROVE  /\ Append(e, c) \in Seq(Controls) /\ Append(d, c) \in Seq(Controls)
           /\ Apart(Append(e, c), d) /\ Apart(e, Append(d, c))
           /\ \A x : Untaken(x, e, d) /\ x # c =>
                Untaken(x, Append(e, c), d) /\ Untaken(x, e, Append(d, c))
  <1> DEFINE E == Append(e, c)
             D == Append(d, c)
  <1>1. /\ E \in Seq(Controls) /\ D \in Seq(Controls)
        /\ Len(E) = Len(e) + 1 /\ Len(D) = Len(d) + 1
        /\ \A i \in 1..Len(e) : E[i] = e[i]
        /\ \A i \in 1..Len(d) : D[i] = d[i]
        /\ E[Len(e) + 1] = c /\ D[Len(d) + 1] = c
        /\ \A i \in 1..Len(E) : i \in 1..Len(e) \/ i = Len(e) + 1
        /\ \A i \in 1..Len(D) : i \in 1..Len(d) \/ i = Len(d) + 1
    OBVIOUS
  <1>2. /\ \A i \in 1..Len(e) : e[i] # c
        /\ \A i \in 1..Len(d) : d[i] # c
    BY Elements DEF Untaken
  <1> HIDE DEF E, D
  <1>3. Apart(E, d)
    <2>1. ASSUME NEW i \in 1..Len(E), NEW j \in 1..Len(E), E[i] = E[j]
          PROVE  i = j
      <3>1. CASE i \in 1..Len(e) /\ j \in 1..Len(e)
        BY <1>1, <2>1, <3>1 DEF Apart
      <3>2. CASE i = Len(e) + 1 \/ j = Len(e) + 1
        BY <1>1, <1>2, <2>1, <3>2
      <3> QED
        BY <1>1, <3>1, <3>2
    <2>2. ASSUME NEW i \in 1..Len(E), NEW j \in 1..Len(d)
          PROVE  E[i] # d[j]
      <3>1. CASE i \in 1..Len(e)
        BY <1>1, <3>1 DEF Apart
      <3>2. CASE i = Len(e) + 1
        BY <1>1, <1>2, <3>2
      <3> QED
        BY <1>1, <3>1, <3>2
    <2>3. \A i, j \in 1..Len(d) : d[i] = d[j] => i = j
      BY DEF Apart
    <2> QED
      BY <2>1, <2>2, <2>3 DEF Apart
  <1>4. Apart(e, D)
    <2>1. ASSUME NEW i \in 1..Len(D), NEW j \in 1..Len(D), D[i] = D[j]
          PROVE  i = j
      <3>1. CASE i \in 1..Len(d) /\ j \in 1..Len(d)
        BY <1>1, <2>1, <3>1 DEF Apart
      <3>2. CASE i = Len(d) + 1 \/ j = Len(d) + 1
        BY <1>1, <1>2, <2>1, <3>2
      <3> QED
        BY <1>1, <3>1, <3>2
    <2>2. ASSUME NEW i \in 1..Len(e), NEW j \in 1..Len(D)
          PROVE  e[i] # D[j]
      <3>1. CASE j \in 1..Len(d)
        BY <1>1, <3>1 DEF Apart
      <3>2. CASE j = Len(d) + 1
        BY <1>1, <1>2, <3>2
      <3> QED
        BY <1>1, <3>1, <3>2
    <2> QED
      BY <2>1, <2>2 DEF Apart
  <1>5. ASSUME NEW x, Untaken(x, e, d), x # c
        PROVE  Untaken(x, E, d) /\ Untaken(x, e, D)
    <2>1. /\ \A i \in 1..Len(e) : e[i] # x
          /\ \A i \in 1..Len(d) : d[i] # x
      BY <1>5, Elements DEF Untaken
    <2>2. /\ \A i \in 1..Len(E) : E[i] # x
          /\ \A i \in 1..Len(D) : D[i] # x
      BY <1>1, <1>5, <2>1
    <2> QED
      BY <1>1, <1>5, <2>2, Elements DEF Untaken
  <1> QED
    BY <1>1, <1>3, <1>4, <1>5 DEF E, D

\* The head of the deferred controls reaches the harness.
LEMMA Flushed ==
    ASSUME NEW e \in Seq(Controls), NEW d \in Seq(Controls), Apart(e, d), d # <<>>
    PROVE  /\ Append(e, Head(d)) \in Seq(Controls) /\ Tail(d) \in Seq(Controls)
           /\ Apart(Append(e, Head(d)), Tail(d))
           /\ \A x : Untaken(x, e, d) => Untaken(x, Append(e, Head(d)), Tail(d))
  <1> DEFINE E == Append(e, Head(d))
             D == Tail(d)
  <1>1. /\ E \in Seq(Controls) /\ D \in Seq(Controls)
        /\ Len(E) = Len(e) + 1 /\ Len(d) = Len(D) + 1
        /\ \A i \in 1..Len(e) : E[i] = e[i]
        /\ E[Len(e) + 1] = d[1] /\ 1 \in 1..Len(d)
        /\ \A i \in 1..Len(E) : i \in 1..Len(e) \/ i = Len(e) + 1
        /\ \A i \in 1..Len(D) : D[i] = d[i + 1] /\ i + 1 \in 1..Len(d) /\ i + 1 # 1
        /\ \A i, j \in 1..Len(D) : i + 1 = j + 1 => i = j
    OBVIOUS
  <1> HIDE DEF E, D
  <1>2. Apart(E, D)
    <2>1. ASSUME NEW i \in 1..Len(E), NEW j \in 1..Len(E), E[i] = E[j]
          PROVE  i = j
      <3>1. \A k \in 1..Len(e) : e[k] # d[1]
        BY <1>1 DEF Apart
      <3>2. CASE i \in 1..Len(e) /\ j \in 1..Len(e)
        BY <1>1, <2>1, <3>2 DEF Apart
      <3>3. CASE i = Len(e) + 1 \/ j = Len(e) + 1
        BY <1>1, <2>1, <3>1, <3>3
      <3> QED
        BY <1>1, <3>2, <3>3
    <2>2. \A i, j \in 1..Len(D) : D[i] = D[j] => i = j
      BY <1>1 DEF Apart
    <2>3. ASSUME NEW i \in 1..Len(E), NEW j \in 1..Len(D)
          PROVE  E[i] # D[j]
      <3>1. D[j] = d[j + 1] /\ j + 1 \in 1..Len(d) /\ j + 1 # 1
        BY <1>1
      <3>2. CASE i \in 1..Len(e)
        <4>1. e[i] # d[j + 1]
          BY <3>1, <3>2 DEF Apart
        <4>2. E[i] = e[i]
          BY <1>1, <3>2
        <4> QED
          BY <3>1, <4>1, <4>2
      <3>3. CASE i = Len(e) + 1
        BY <1>1, <3>1, <3>3 DEF Apart
      <3> QED
        BY <1>1, <3>2, <3>3
    <2> QED
      BY <2>1, <2>2, <2>3 DEF Apart
  <1>3. ASSUME NEW x, Untaken(x, e, d)
        PROVE  Untaken(x, E, D)
    <2>1. /\ \A i \in 1..Len(e) : e[i] # x
          /\ \A i \in 1..Len(d) : d[i] # x
      BY <1>3, Elements DEF Untaken
    <2>2. \A i \in 1..Len(E) : E[i] # x
      BY <1>1, <2>1
    <2>3. \A i \in 1..Len(D) : D[i] # x
      BY <1>1, <2>1
    <2> QED
      BY <1>1, <2>2, <2>3, Elements DEF Untaken
  <1> QED
    BY <1>1, <1>2, <1>3 DEF E, D

-----------------------------------------------------------------------------
\* The runtime: its steps keep the controls, forget the deferred ones or hand
\* the first of those to the harness.

Moves ==
    \/ UNCHANGED <<deferred, entered>>
    \/ deferred' = <<>> /\ UNCHANGED entered
    \/ /\ deferred # <<>>
       /\ deferred' = Tail(deferred)
       /\ entered' = Append(entered, Head(deferred))

LEMMA StartTurnMoves == StartTurn => Moves
  BY DEF StartTurn, Moves

LEMMA FinishMoves == ASSUME NEW r, Finish(r) PROVE Moves
  BY DEF Finish, Moves, queueVars

LEMMA AfterSuccessMoves == AfterSuccess => Moves
  BY StartTurnMoves, FinishMoves DEF AfterSuccess, Moves, queueVars

LEMMA QueryMoves == Query => Moves
  <1>1. Prompt => Moves
    BY DEF Prompt, Moves, queueVars
  <1>2. FirstTurn => Moves
    BY DEF FirstTurn, Moves, queueVars
  <1>3. FlushControl \/ FlushDone \/ FlushThrows \/ TurnReturns => Moves
    BY DEF FlushControl, FlushDone, FlushThrows, TurnReturns, Moves, queueVars
  <1>4. LoopStops => Moves
    BY FinishMoves DEF LoopStops
  <1>5. LoopOverflowsAgain \/ LoopCompacts \/ LoopOverflows \/ LoopWindowTooLong
        \/ LoopRetries \/ LoopFallsBack \/ LoopFails \/ AbortWaited => Moves
    BY DEF LoopOverflowsAgain, LoopCompacts, LoopOverflows, LoopWindowTooLong,
           LoopRetries, LoopFallsBack, LoopFails, AbortWaited, Moves, queueVars
  <1>6. ASSUME NEW ok \in BOOLEAN, PendingCompacted(ok) PROVE Moves
    BY <1>6, FinishMoves DEF PendingCompacted, Moves, queueVars
  <1>7. ASSUME NEW ok \in BOOLEAN, OverflowCompacted(ok) PROVE Moves
    BY <1>7, FinishMoves, StartTurnMoves DEF OverflowCompacted
  <1>8. GoesOnCompacted => Moves
    BY FinishMoves, StartTurnMoves DEF GoesOnCompacted
  <1>9. RetryCancelled => Moves
    BY FinishMoves DEF RetryCancelled, Moves, queueVars
  <1>10. ModelSet \/ LoopFailsQueued => Moves
    BY StartTurnMoves DEF ModelSet, LoopFailsQueued
  <1>11. LoopSucceeds \/ CompactedLast => Moves
    BY AfterSuccessMoves DEF LoopSucceeds, CompactedLast, Moves, queueVars
  <1> QED
    BY <1>1, <1>2, <1>3, <1>4, <1>5, <1>6, <1>7, <1>8, <1>9, <1>10, <1>11 DEF Query

LEMMA TurnEndMoves == ASSUME NEW a, NEW b, NEW c, EndTurn(a, b, c) PROVE Moves
  BY DEF EndTurn, Moves, queueVars

LEMMA HarnessMoves == Harness \/ TurnStopped => Moves
  <1>1. ProviderAnswers \/ StreamIdle \/ StreamTruncated \/ TurnStopped => Moves
    BY TurnEndMoves DEF ProviderAnswers, StreamIdle, StreamTruncated, TurnStopped
  <1>2. ASSUME NEW res, NEW after, ProviderFails(res, after) PROVE Moves
    BY <1>2, TurnEndMoves DEF ProviderFails
  <1>3. ASSUME NEW res, ContextOverflows(res) PROVE Moves
    BY <1>3, TurnEndMoves DEF ContextOverflows
  <1>4. RetryElapses => Moves
    BY StartTurnMoves DEF RetryElapses
  <1>5. ASSUME NEW c, Consume(c) PROVE Moves
    BY <1>5 DEF Consume, Moves
  <1>6. ScheduleThreshold \/ CallBlocked \/ ToolAsksUser => Moves
    BY DEF ScheduleThreshold, CallBlocked, ToolAsksUser, Moves, queueVars
  <1> QED
    BY <1>1, <1>2, <1>3, <1>4, <1>5, <1>6 DEF Harness

LEMMA CallersMove == Callers => Moves
  BY DEF Callers, CompactPending, DirectCompacted, RunEnds, CompactDirect, Abort,
         Moves, queueVars

-----------------------------------------------------------------------------
\* HandInv is inductive

LEMMA HandInit == Init => HandInv
  <1> SUFFICES ASSUME Init PROVE HandInv
    OBVIOUS
  <1>1. /\ entered = <<>> /\ deferred = <<>> /\ order = <<>> /\ attempt = 1
        /\ task = [stage |-> "none", attempt |-> 0, control |-> {}]
        /\ item = [c \in Controls |-> [status |-> "absent", attempt |-> 0]]
    BY DEF Init, PiInit, PiFresh, NoTask
  <1>2. Shapes
    BY <1>1 DEF Shapes, Status, Stages
  <1>3. Apart(<<>>, <<>>) /\ \A c : Untaken(c, <<>>, <<>>)
    BY DEF Apart, Untaken, ToSet
  <1> QED
    BY <1>1, <1>2, <1>3 DEF HandInv, RowsOK, TaskOK

\* What a move of the runtime leaves true of the two sequences
LEMMA MovedApart ==
    ASSUME Shapes, Apart(entered, deferred), Moves
    PROVE  /\ entered' \in Seq(Controls) /\ deferred' \in Seq(Controls)
           /\ Apart(entered', deferred')
           /\ \A c : Untaken(c, entered, deferred) => Untaken(c, entered', deferred')
  <1> entered \in Seq(Controls) /\ deferred \in Seq(Controls)
    BY DEF Shapes
  <1>1. CASE UNCHANGED <<deferred, entered>>
    BY <1>1
  <1>2. CASE deferred' = <<>> /\ UNCHANGED entered
    BY <1>2, Forgotten
  <1>3. CASE /\ deferred # <<>>
             /\ deferred' = Tail(deferred)
             /\ entered' = Append(entered, Head(deferred))
    BY <1>3, Flushed
  <1> QED
    BY <1>1, <1>2, <1>3 DEF Moves

\* Steps of the runtime alone
LEMMA HandMoved == ASSUME HandInv, Moves, UNCHANGED inboxVars PROVE HandInv'
  <1>1. /\ entered' \in Seq(Controls) /\ deferred' \in Seq(Controls)
        /\ Apart(entered', deferred')
        /\ \A c : Untaken(c, entered, deferred) => Untaken(c, entered', deferred')
    BY MovedApart DEF HandInv
  <1>2. /\ item' = item /\ task' = task /\ order' = order /\ attempt' = attempt
    BY DEF inboxVars
  <1>3. Shapes'
    BY <1>1, <1>2 DEF HandInv, Shapes
  <1>4. RowsOK'
    BY <1>1, <1>2 DEF HandInv, RowsOK
  <1>5. TaskOK'
    BY <1>1, <1>2 DEF HandInv, TaskOK
  <1> QED
    BY <1>1, <1>3, <1>4, <1>5 DEF HandInv

\* Steps of the dispatcher that leave the controls the runtime has alone: what
\* is left to show is about rows and the task.
LEMMA HandFrame ==
    ASSUME HandInv, UNCHANGED <<entered, deferred>>, Shapes', RowsOK', TaskOK'
    PROVE  HandInv'
  BY DEF HandInv

LEMMA HandEnqueue == ASSUME HandInv, NEW c \in Controls, Enqueue(c) PROVE HandInv'
  <1>1. /\ item[c].status = "absent"
        /\ order' = Append(order, c)
        /\ item' = [item EXCEPT ![c] = [status |-> "queued", attempt |-> attempt]]
        /\ task' = IF task = NoTask THEN [NoTask EXCEPT !.stage = "start", !.attempt = attempt]
                   ELSE task
        /\ UNCHANGED <<attempt, entered, deferred>>
    BY DEF Enqueue, Insert, Schedule, piVars, queueVars
  <1>2. Shapes
    BY DEF HandInv
  <1>3. Untaken(c, entered, deferred)
    BY <1>1 DEF HandInv, RowsOK
  <1>4. /\ item' \in [Controls -> [status : Status, attempt : Nat]]
        /\ \A x \in Controls : x # c => item'[x] = item[x]
        /\ item'[c].status = "queued"
    BY <1>1, <1>2 DEF Shapes, Status
  <1>5. task' = task \/ task' = [stage |-> "start", attempt |-> attempt, control |-> {}]
    BY <1>1 DEF NoTask
  <1>6. Shapes'
    BY <1>1, <1>2, <1>4, <1>5 DEF Shapes, Stages
  <1>7. RowsOK'
    BY <1>1, <1>3, <1>4 DEF HandInv, RowsOK
  <1>8. TaskOK'
    <2>1. c \notin task.control
      BY <1>1 DEF HandInv, TaskOK
    <2>2. CASE task' = task
      BY <1>1, <1>4, <2>1, <2>2 DEF HandInv, TaskOK
    <2>3. CASE task' = [stage |-> "start", attempt |-> attempt, control |-> {}]
      BY <2>3 DEF TaskOK
    <2> QED
      BY <1>5, <2>2, <2>3
  <1> QED
    BY <1>1, <1>6, <1>7, <1>8, HandFrame

\* claimControlItem's supersession of other Attempts' rows
LEMMA SupersededRows ==
    ASSUME Shapes, NEW a
    PROVE  /\ Superseded(a) \in [Controls -> [status : Status, attempt : Nat]]
           /\ \A c \in Controls :
                /\ item[c].status # "queued" => Superseded(a)[c] = item[c]
                /\ Superseded(a)[c].status \in {"absent", "queued", "rejected"} =>
                     Superseded(a)[c].status = item[c].status
  BY DEF Shapes, Superseded, Status

LEMMA HandDeliver == ASSUME HandInv, Deliver PROVE HandInv'
  <1> DEFINE a == task.attempt
  <1>1. /\ task.stage = "start" /\ task.control = {}
        /\ UNCHANGED <<attempt, order, entered, deferred>>
    BY DEF Deliver, HandInv, TaskOK, piVars, queueVars
  <1>2. Shapes /\ RowsOK /\ a \in Nat
    BY DEF HandInv, Shapes
  <1>3. CASE task' = NoTask /\ item' \in {item, Superseded(a)}
    <2>1. /\ item' \in [Controls -> [status : Status, attempt : Nat]]
          /\ \A c \in Controls : item'[c].status \in {"absent", "queued", "rejected"} =>
                item'[c].status = item[c].status
      BY <1>2, <1>3, SupersededRows DEF Shapes
    <2>2. Shapes'
      BY <1>1, <1>2, <1>3, <2>1 DEF Shapes, NoTask, Stages
    <2>3. RowsOK'
      BY <1>1, <1>2, <2>1 DEF RowsOK
    <2>4. TaskOK'
      BY <1>3 DEF TaskOK, NoTask
    <2> QED
      BY <1>1, <2>2, <2>3, <2>4, HandFrame
  <1>4. ASSUME NEW i \in Queued(a),
               item' = [Superseded(a) EXCEPT ![order[i]].status = "delivering"],
               task' = [stage |-> "calling", attempt |-> a, control |-> {order[i]}]
        PROVE  HandInv'
    <2> DEFINE c == order[i]
    <2>1. c \in Controls /\ item[c].status = "queued"
      BY <1>2, <1>4 DEF Queued, Shapes
    <2> HIDE DEF c, a
    <2>2. /\ item' \in [Controls -> [status : Status, attempt : Nat]]
          /\ item'[c].status = "delivering"
          /\ \A x \in Controls : x # c => item'[x] = Superseded(a)[x]
      BY <1>2, <1>4, <2>1, SupersededRows DEF Status, c
    <2>3. Untaken(c, entered, deferred)
      BY <1>2, <2>1 DEF RowsOK
    <2>4. Shapes'
      BY <1>1, <1>2, <1>4, <2>1, <2>2 DEF Shapes, Stages, c
    <2>5. RowsOK'
      BY <1>1, <1>2, <2>2, SupersededRows DEF RowsOK
    <2>6. TaskOK'
      BY <1>1, <1>4, <2>1, <2>2, <2>3 DEF TaskOK, c
    <2> QED
      BY <1>1, <2>4, <2>5, <2>6, HandFrame
  <1> QED
    BY <1>3, <1>4 DEF Deliver, TaskEnds

\* The stages of one call.  The runtime keeps, forgets or takes nothing else.
LEMMA HandStage ==
    ASSUME HandInv, NEW c \in Controls, task.control = {c},
           NEW s \in {"threw", "settled", "failed"},
           task.stage # "accepted",
           task' = [task EXCEPT !.stage = s],
           UNCHANGED <<entered, deferred, attempt, order, item>>
    PROVE  HandInv'
  <1>1. /\ task'.stage = s /\ task'.control = task.control
        /\ task' \in [stage : Stages, attempt : Nat, control : SUBSET Controls]
    BY DEF HandInv, Shapes, Stages
  <1>2. Shapes'
    BY <1>1 DEF HandInv, Shapes
  <1>3. RowsOK'
    BY DEF HandInv, RowsOK
  <1>4. TaskOK'
    BY <1>1 DEF HandInv, TaskOK
  <1> QED
    BY <1>2, <1>3, <1>4, HandFrame

\* The control of the call is taken, for now or for the next turn.
LEMMA HandTaken ==
    ASSUME HandInv, NEW c \in Controls, task.control = {c},
           task.stage \in {"calling", "threw"},
           task' = [task EXCEPT !.stage = "accepted"],
           UNCHANGED <<attempt, order, item>>,
           \/ entered' = Append(entered, c) /\ deferred' = deferred
           \/ entered' = entered /\ deferred' = Append(deferred, c)
    PROVE  HandInv'
  <1>1. Shapes /\ Apart(entered, deferred)
    BY DEF HandInv
  <1>2. entered \in Seq(Controls) /\ deferred \in Seq(Controls)
    BY <1>1 DEF Shapes
  <1>3. Untaken(c, entered, deferred) /\ item[c].status = "delivering"
    BY DEF HandInv, TaskOK
  <1>4. /\ entered' \in Seq(Controls) /\ deferred' \in Seq(Controls)
        /\ Apart(entered', deferred')
        /\ \A x : Untaken(x, entered, deferred) /\ x # c => Untaken(x, entered', deferred')
    <2>1. CASE entered' = Append(entered, c) /\ deferred' = deferred
      BY <1>1, <1>2, <1>3, <2>1, Added
    <2>2. CASE entered' = entered /\ deferred' = Append(deferred, c)
      BY <1>1, <1>2, <1>3, <2>2, Added
    <2> QED
      BY <2>1, <2>2
  <1>5. /\ task'.stage = "accepted" /\ task'.control = {c}
        /\ task' \in [stage : Stages, attempt : Nat, control : SUBSET Controls]
    BY <1>1 DEF Shapes, Stages
  <1>6. Shapes'
    BY <1>1, <1>4, <1>5 DEF Shapes
  <1>7. RowsOK'
    BY <1>3, <1>4 DEF HandInv, RowsOK
  <1>8. TaskOK'
    BY <1>3, <1>5 DEF TaskOK
  <1> QED
    BY <1>4, <1>6, <1>7, <1>8 DEF HandInv

LEMMA HandCall ==
    ASSUME HandInv, NEW c \in Controls,
           CallSettled(c) \/ CallAccepted(c) \/ CallThrows(c) \/ CallCaught(c)
    PROVE  HandInv'
  <1>1. CASE CallSettled(c)
    <2>1. /\ task.control = {c} /\ task.stage = "calling"
          /\ task' = [task EXCEPT !.stage = "settled"]
          /\ UNCHANGED <<entered, deferred, attempt, order, item>>
      BY <1>1 DEF CallSettled, Called, QueueSettled, piVars, queueVars
    <2> QED
      BY <2>1, HandStage
  <1>2. CASE CallAccepted(c)
    <2>1. /\ task.control = {c} /\ task.stage = "calling"
          /\ task' = [task EXCEPT !.stage = "accepted"]
          /\ UNCHANGED <<attempt, order, item>>
          /\ \/ entered' = Append(entered, c) /\ deferred' = deferred
             \/ entered' = entered /\ deferred' = Append(deferred, c)
      BY <1>2 DEF CallAccepted, Called, QueueHarness, QueueDeferred
    <2> QED
      BY <2>1, HandTaken
  <1>3. CASE CallThrows(c)
    <2>1. /\ task.control = {c} /\ task.stage = "calling"
          /\ task' = [task EXCEPT !.stage = "threw"]
          /\ UNCHANGED <<entered, deferred, attempt, order, item>>
      BY <1>3 DEF CallThrows, Called, piVars, queueVars
    <2> QED
      BY <2>1, HandStage
  <1>4. CASE CallCaught(c)
    <2>1. /\ task.control = {c} /\ task.stage = "threw"
          /\ UNCHANGED <<attempt, order, item>>
      BY <1>4 DEF CallCaught
    <2>2. CASE /\ QueueDeferred(c)
               /\ task' = [task EXCEPT !.stage = "accepted"]
      <3>1. entered' = entered /\ deferred' = Append(deferred, c)
        BY <2>2 DEF QueueDeferred
      <3> QED
        BY <2>1, <2>2, <3>1, HandTaken
    <2>3. CASE /\ task' = [task EXCEPT !.stage = "failed"]
               /\ UNCHANGED piVars
      <3>1. UNCHANGED <<entered, deferred>>
        BY <2>3 DEF piVars, queueVars
      <3> QED
        BY <2>1, <2>3, <3>1, HandStage
    <2> QED
      BY <1>4, <2>2, <2>3 DEF CallCaught
  <1> QED
    BY <1>1, <1>2, <1>3, <1>4

LEMMA HandComplete == ASSUME HandInv, NEW c \in Controls, Complete(c) PROVE HandInv'
  <1> DEFINE s == IF FenceValid(task.attempt) THEN Answer ELSE "superseded"
  <1>1. /\ task.control = {c} /\ task.stage \in {"accepted", "settled", "failed"}
        /\ item' = [item EXCEPT ![c].status = IF @ = "delivering" THEN s ELSE @]
        /\ UNCHANGED <<entered, deferred, attempt, order>>
    BY DEF Complete, SetStatus, piVars, queueVars
  <1>2. /\ task' = NoTask \/ task' = [NoTask EXCEPT !.stage = "start", !.attempt = task.attempt]
    BY DEF Complete, TaskEnds
  <1>3. /\ s \in {"delivered", "rejected", "superseded"}
        /\ s = "rejected" => task.stage # "accepted"
    BY DEF Answer
  <1>4. Shapes /\ task.attempt \in Nat
    BY DEF HandInv, Shapes
  <1> HIDE DEF s
  <1>5. /\ item[c].status = "delivering"
        /\ s = "rejected" => Untaken(c, entered, deferred)
    BY <1>1, <1>3 DEF HandInv, TaskOK
  <1>6. /\ item' \in [Controls -> [status : Status, attempt : Nat]]
        /\ item'[c].status = s
        /\ \A x \in Controls : x # c => item'[x] = item[x]
    BY <1>1, <1>3, <1>4, <1>5 DEF Shapes, Status
  <1>7. /\ task' \in [stage : Stages, attempt : Nat, control : SUBSET Controls]
        /\ task'.control = {}
    <2>1. CASE task' = NoTask
      BY <2>1 DEF NoTask, Stages
    <2>2. CASE task' = [NoTask EXCEPT !.stage = "start", !.attempt = task.attempt]
      BY <1>4, <2>2 DEF NoTask, Stages
    <2> QED
      BY <1>2, <2>1, <2>2
  <1>8. Shapes'
    BY <1>1, <1>4, <1>6, <1>7 DEF Shapes
  <1>9. RowsOK'
    BY <1>1, <1>3, <1>5, <1>6 DEF HandInv, RowsOK
  <1>10. TaskOK'
    BY <1>7 DEF TaskOK
  <1> QED
    BY <1>1, <1>8, <1>9, <1>10, HandFrame

\* Steps that only start or chain a delivery
LEMMA HandScheduled ==
    ASSUME HandInv, UNCHANGED <<entered, deferred, attempt, order, item>>,
           \/ UNCHANGED task
           \/ task' = [NoTask EXCEPT !.stage = "start", !.attempt = attempt]
    PROVE  HandInv'
  <1>1. Shapes
    BY DEF HandInv
  <1>2. CASE UNCHANGED task
    BY <1>2 DEF HandInv, Shapes, RowsOK, TaskOK
  <1>3. CASE task' = [NoTask EXCEPT !.stage = "start", !.attempt = attempt]
    <2>1. /\ task' \in [stage : Stages, attempt : Nat, control : SUBSET Controls]
          /\ task'.control = {}
      BY <1>1, <1>3 DEF Shapes, NoTask, Stages
    <2>2. Shapes' /\ RowsOK' /\ TaskOK'
      BY <1>1, <2>1 DEF HandInv, Shapes, RowsOK, TaskOK
    <2> QED
      BY <2>2, HandFrame
  <1> QED
    BY <1>2, <1>3

\* A runtime of its own for the next Attempt, and for the restarted process
LEMMA HandRenewed ==
    ASSUME HandInv, NextAttempt \/ Restart
    PROVE  HandInv'
  <1>1. deferred' = <<>> /\ entered' = entered /\ order' = order
    BY DEF NextAttempt, Restart, PiRenew
  <1>2. Shapes /\ Apart(entered, deferred)
    BY DEF HandInv
  <1>3. /\ deferred' \in Seq(Controls) /\ Apart(entered', deferred')
        /\ \A c : Untaken(c, entered, deferred) => Untaken(c, entered', deferred')
    BY <1>1, <1>2, Forgotten DEF Shapes
  <1>4. CASE NextAttempt
    <2>1. item' = item /\ task' = task /\ attempt' = attempt + 1
      BY <1>4 DEF NextAttempt
    <2>2. Shapes'
      BY <1>1, <1>2, <1>3, <2>1 DEF Shapes
    <2>3. RowsOK' /\ TaskOK'
      BY <1>3, <2>1 DEF HandInv, RowsOK, TaskOK
    <2> QED
      BY <1>3, <2>2, <2>3 DEF HandInv
  <1>5. CASE Restart
    <2>1. /\ item' = [c \in Controls |-> [item[c] EXCEPT !.status = Recovered(@)]]
          /\ task' = NoTask /\ attempt' = attempt
      BY <1>5 DEF Restart
    <2>2. /\ item' \in [Controls -> [status : Status, attempt : Nat]]
          /\ \A c \in Controls : item'[c].status \in {"absent", "queued", "rejected"} =>
                item'[c].status = item[c].status
      BY <1>2, <2>1 DEF Shapes, Recovered, Status
    <2>3. Shapes'
      BY <1>1, <1>2, <1>3, <2>1, <2>2 DEF Shapes, NoTask, Stages
    <2>4. RowsOK' /\ TaskOK'
      BY <1>3, <2>1, <2>2 DEF HandInv, RowsOK, TaskOK, NoTask
    <2> QED
      BY <1>3, <2>3, <2>4 DEF HandInv
  <1> QED
    BY <1>4, <1>5

LEMMA HandNext == HandInv /\ [Next]_vars => HandInv'
  <1> SUFFICES ASSUME HandInv, [Next]_vars PROVE HandInv'
    OBVIOUS
  <1>1. CASE (Query \/ Harness \/ Callers \/ TurnStopped) /\ UNCHANGED inboxVars
    BY <1>1, QueryMoves, HarnessMoves, CallersMove, HandMoved
  <1>2. CASE Deliver
    BY <1>2, HandDeliver
  <1>3. CASE ReadyDelivers
    <2>1. /\ UNCHANGED <<entered, deferred, attempt, order, item>>
          /\ \/ UNCHANGED task
             \/ task' = [NoTask EXCEPT !.stage = "start", !.attempt = attempt]
      BY <1>3 DEF ReadyDelivers, Schedule, piVars, queueVars
    <2> QED
      BY <2>1, HandScheduled
  <1>4. ASSUME NEW c \in Controls,
               CallSettled(c) \/ CallAccepted(c) \/ CallThrows(c) \/ CallCaught(c)
        PROVE  HandInv'
    BY <1>4, HandCall
  <1>5. ASSUME NEW c \in Controls, Complete(c) PROVE HandInv'
    BY <1>5, HandComplete
  <1>6. ASSUME NEW c \in Controls, Enqueue(c) PROVE HandInv'
    BY <1>6, HandEnqueue
  <1>7. CASE RuntimeReady
    <2>1. /\ UNCHANGED <<entered, deferred, attempt, order, item>>
          /\ \/ UNCHANGED task
             \/ task' = [NoTask EXCEPT !.stage = "start", !.attempt = attempt]
      BY <1>7 DEF RuntimeReady, Schedule, piVars, queueVars
    <2> QED
      BY <2>1, HandScheduled
  <1>8. CASE NextAttempt \/ Restart
    BY <1>8, HandRenewed
  <1>9. CASE UNCHANGED vars
    BY <1>9, HandMoved DEF vars, piVars, queueVars, Moves
  <1> QED
    BY <1>1, <1>2, <1>3, <1>4, <1>5, <1>6, <1>7, <1>8, <1>9 DEF Next, Delivery

\* Where a control went, for every execution: it is handed to a harness at
\* most once, and a row that is absent, queued or rejected was never handed
\* over, whatever Attempts, restarts, failed calls and aborts lie between.
THEOREM OutcomesAreTrue == Spec => []OutcomeIsTrue
  <1>1. HandInv => OutcomeIsTrue
    <2> SUFFICES ASSUME HandInv PROVE OutcomeIsTrue
      OBVIOUS
    <2>1. entered \in Seq(Controls) /\ DOMAIN entered = 1..Len(entered)
      BY DEF HandInv, Shapes
    <2>2. IsInjective(entered)
      BY <2>1 DEF HandInv, Apart, IsInjective
    <2> QED
      BY <2>2 DEF HandInv, RowsOK, Untaken, OutcomeIsTrue
  <1> QED
    BY <1>1, HandInit, HandNext, PTL DEF Spec

-----------------------------------------------------------------------------
\* The settlement of a prompt

\* A prompt that is not at its end, or ends cut short, owes nothing.
LEMMA NotClean ==
    ASSUME turn' \in BOOLEAN, turn' => pc' = "turn",
           pc' = "compact_last" => run' # "waiting",
           pc' \in {"done", "abort_wait"} => why' # "clean"
    PROVE  SettleInv'
  BY DEF SettleInv, SettlesEmpty

\* The steps at which executeQuery goes on or settles
LEMMA StartTurnSettle == StartTurn => SettleInv'
  BY NotClean DEF StartTurn

LEMMA SettleCut ==
    ASSUME NEW r, r # "clean", Settle(r), turn' = FALSE
    PROVE  SettleInv'
  <1>1. pc' = "done" /\ why' = r
    BY DEF Settle
  <1> QED
    BY <1>1, NotClean

LEMMA FinishCut == ASSUME Finish("cut"), turn' = FALSE PROVE SettleInv'
  <1>1. CASE Settle("cut")
    BY <1>1, SettleCut
  <1>2. CASE pc' = "abort_wait" /\ why' = "cut"
    BY <1>2, NotClean
  <1> QED
    BY <1>1, <1>2 DEF Finish

\* A clean end: the runtime holds no control, and the TaskRun does not wait.
LEMMA SettleClean ==
    ASSUME Settle("clean"), turn' = FALSE, UNCHANGED queueVars, Unconsumed = {}
    PROVE  SettleInv'
  <1>1. pc' = "done" /\ Unconsumed' = {}
    BY DEF Settle, Unconsumed, queueVars
  <1> QED
    BY <1>1 DEF SettleInv, SettlesEmpty

LEMMA FinishClean ==
    ASSUME Finish("clean"), run # "waiting", turn' = FALSE, Unconsumed = {}
    PROVE  SettleInv'
  BY SettleClean DEF Finish

LEMMA AfterSuccessSettle ==
    ASSUME AfterSuccess, turn = FALSE, run # "waiting"
    PROVE  SettleInv'
  <1>1. CASE pc' = "loop" /\ UNCHANGED turnVars
    BY <1>1, NotClean DEF turnVars
  <1>2. CASE StartTurn
    BY <1>2, StartTurnSettle
  <1>3. CASE Unconsumed = {} /\ Finish("clean") /\ UNCHANGED turnVars
    BY <1>3, FinishClean DEF turnVars
  <1> QED
    BY <1>1, <1>2, <1>3 DEF AfterSuccess

LEMMA SettleQuery == ASSUME SettleInv, Query PROVE SettleInv'
  <1>0. /\ turn \in BOOLEAN
        /\ pc # "turn" => turn = FALSE
        /\ pc = "compact_last" => run # "waiting"
        /\ pc = "abort_wait" => why # "clean"
    BY DEF SettleInv
  <1>1. CASE Prompt
    <2>1. turn' = FALSE
      BY <1>0, <1>1 DEF Prompt, turnVars
    <2>2. CASE Settle("cut")
      BY <2>1, <2>2, SettleCut
    <2>3. CASE pc' = "compact_first"
      BY <2>1, <2>3, NotClean
    <2> QED
      BY <1>1, <2>2, <2>3 DEF Prompt
  <1>2. CASE FirstTurn
    <2>1. CASE Settle("cut") /\ UNCHANGED <<turnVars, queueVars>>
      BY <1>0, <1>2, <2>1, SettleCut DEF FirstTurn, turnVars
    <2>2. CASE pc' = "turn" /\ turn' = TRUE
      BY <2>2, NotClean
    <2> QED
      BY <1>2, <2>1, <2>2 DEF FirstTurn
  <1>3. CASE FlushControl \/ FlushDone
    BY <1>0, <1>3, NotClean DEF FlushControl, FlushDone, turnVars
  <1>4. CASE FlushThrows
    <2>1. Settle("cut") /\ turn' = FALSE
      BY <1>0, <1>4 DEF FlushThrows
    <2> QED
      BY <2>1, SettleCut
  <1>5. CASE TurnReturns
    BY <1>0, <1>5, NotClean DEF TurnReturns
  <1>6. CASE LoopStops
    <2>1. Finish("cut") /\ turn' = FALSE
      BY <1>0, <1>6 DEF LoopStops, turnVars
    <2> QED
      BY <2>1, FinishCut
  <1>7. CASE LoopOverflowsAgain \/ LoopWindowTooLong
    <2>1. Settle("cut") /\ turn' = FALSE
      BY <1>0, <1>7 DEF LoopOverflowsAgain, LoopWindowTooLong, turnVars
    <2> QED
      BY <2>1, SettleCut
  <1>8. CASE LoopCompacts \/ LoopOverflows \/ LoopRetries \/ LoopFallsBack
    <2>1. pc' \in {"pending", "overflow", "retry_wait", "set_model"} /\ turn' = FALSE
      BY <1>0, <1>8 DEF LoopCompacts, LoopOverflows, LoopRetries, LoopFallsBack, turnVars
    <2> QED
      BY <2>1, NotClean
  <1>9. ASSUME NEW ok \in BOOLEAN, PendingCompacted(ok) PROVE SettleInv'
    <2>1. turn' = FALSE
      BY <1>0, <1>9 DEF PendingCompacted, turnVars
    <2>2. CASE pc' = "compacted" \/ (pc' = "done" /\ why' = "cut")
      BY <2>1, <2>2, NotClean
    <2>3. CASE Finish("cut")
      BY <2>1, <2>3, FinishCut
    <2> QED
      BY <1>9, <2>2, <2>3 DEF PendingCompacted
  <1>10. CASE GoesOnCompacted
    <2>1. CASE StartTurn
      BY <2>1, StartTurnSettle
    <2>2. CASE Finish("cut") /\ UNCHANGED turnVars
      BY <1>0, <1>10, <2>2, FinishCut DEF GoesOnCompacted, turnVars
    <2> QED
      BY <1>10, <2>1, <2>2 DEF GoesOnCompacted
  <1>11. ASSUME NEW ok \in BOOLEAN, OverflowCompacted(ok) PROVE SettleInv'
    <2>1. CASE StartTurn
      BY <2>1, StartTurnSettle
    <2>2. CASE Finish("cut") /\ UNCHANGED turnVars
      BY <1>0, <1>11, <2>2, FinishCut DEF OverflowCompacted, turnVars
    <2> QED
      BY <1>11, <2>1, <2>2 DEF OverflowCompacted
  <1>12. CASE RetryCancelled
    <2>1. turn' = FALSE
      BY <1>0, <1>12 DEF RetryCancelled, turnVars
    <2>2. CASE pc' = "loop"
      BY <2>1, <2>2, NotClean
    <2>3. CASE Finish("cut")
      BY <2>1, <2>3, FinishCut
    <2> QED
      BY <1>12, <2>2, <2>3 DEF RetryCancelled
  <1>13. CASE ModelSet \/ LoopFailsQueued
    BY <1>13, StartTurnSettle DEF ModelSet, LoopFailsQueued
  <1>14. CASE LoopFails
    <2>1. Settle("clean") /\ turn' = FALSE /\ UNCHANGED queueVars /\ Unconsumed = {}
      BY <1>0, <1>14 DEF LoopFails, Failed, turnVars
    <2> QED
      BY <2>1, SettleClean
  <1>15. CASE LoopSucceeds
    <2>1. turn = FALSE /\ run # "waiting" /\ run' = run
      BY <1>0, <1>15 DEF LoopSucceeds, Live
    <2>2. CASE AfterSuccess
      BY <2>1, <2>2, AfterSuccessSettle
    <2>3. CASE pc' = "compact_last" /\ UNCHANGED turnVars
      BY <2>1, <2>3, NotClean DEF turnVars
    <2> QED
      BY <1>15, <2>2, <2>3 DEF LoopSucceeds
  <1>16. CASE CompactedLast
    <2>1. AfterSuccess /\ turn = FALSE /\ run # "waiting"
      BY <1>0, <1>16 DEF CompactedLast
    <2> QED
      BY <2>1, AfterSuccessSettle
  <1>17. CASE AbortWaited
    <2>1. Settle(why) /\ why # "clean" /\ turn' = FALSE
      BY <1>0, <1>17 DEF AbortWaited, turnVars
    <2> QED
      BY <2>1, SettleCut
  <1> QED
    BY <1>1, <1>2, <1>3, <1>4, <1>5, <1>6, <1>7, <1>8, <1>9, <1>10, <1>11, <1>12,
       <1>13, <1>14, <1>15, <1>16, <1>17 DEF Query

\* A turn is under way: whatever happens in it, the prompt has not settled.
LEMMA SettleInTurn ==
    ASSUME SettleInv, turn, UNCHANGED pc, turn' \in BOOLEAN
    PROVE  SettleInv'
  BY NotClean DEF SettleInv

LEMMA SettleHarness == ASSUME SettleInv, Harness \/ TurnStopped PROVE SettleInv'
  <1>0. ASSUME turn, NEW a, NEW b, NEW c, EndTurn(a, b, c) PROVE SettleInv'
    BY <1>0, SettleInTurn DEF EndTurn
  <1>1. CASE ProviderAnswers \/ StreamIdle \/ StreamTruncated \/ TurnStopped
    BY <1>0, <1>1 DEF ProviderAnswers, StreamIdle, StreamTruncated, TurnStopped
  <1>2. ASSUME NEW res, NEW after, ProviderFails(res, after) PROVE SettleInv'
    BY <1>0, <1>2 DEF ProviderFails
  <1>3. ASSUME NEW res, ContextOverflows(res) PROVE SettleInv'
    BY <1>0, <1>3 DEF ContextOverflows
  <1>4. CASE RetryElapses
    BY <1>4, StartTurnSettle DEF RetryElapses
  <1>5. ASSUME NEW c, Consume(c) PROVE SettleInv'
    <2>1. turn /\ UNCHANGED pc /\ turn' = turn /\ turn \in BOOLEAN
      BY <1>5 DEF Consume, turnVars, SettleInv
    <2> QED
      BY <2>1, SettleInTurn
  <1>6. CASE ScheduleThreshold \/ CallBlocked \/ ToolAsksUser
    <2>1. turn /\ UNCHANGED pc /\ turn' = turn /\ turn \in BOOLEAN
      BY <1>6 DEF ScheduleThreshold, CallBlocked, ToolAsksUser, turnVars, SettleInv
    <2> QED
      BY <2>1, SettleInTurn
  <1> QED
    BY <1>1, <1>2, <1>3, <1>4, <1>5, <1>6 DEF Harness

\* The steps that leave executeQuery where it is, and take or forget controls
\* only of a prompt that has not settled or all of them.
LEMMA SettleKept ==
    ASSUME SettleInv, UNCHANGED <<pc, turn, why>>, run' \in {run, "ended"},
           \/ pc # "done"
           \/ Unconsumed' \in {Unconsumed, {}}
    PROVE  SettleInv'
  BY DEF SettleInv, SettlesEmpty

LEMMA SettleCallers == ASSUME SettleInv, Callers PROVE SettleInv'
  <1>1. CASE CompactPending
    <2>1. pc # "done" /\ UNCHANGED <<pc, turn, why, run>>
      BY <1>1 DEF CompactPending, Streaming
    <2> QED
      BY <2>1, SettleKept
  <1>2. CASE DirectCompacted \/ CompactDirect \/ RunEnds
    <2>1. UNCHANGED <<pc, turn, why, queue, deferred>> /\ run' \in {run, "ended"}
      BY <1>2 DEF DirectCompacted, CompactDirect, RunEnds, turnVars, queueVars
    <2>2. Unconsumed' = Unconsumed
      BY <2>1 DEF Unconsumed
    <2> QED
      BY <2>1, <2>2, SettleKept
  <1>3. CASE Abort
    <2>1. UNCHANGED <<pc, turn, why, run>> /\ queue' = {} /\ deferred' = <<>>
      BY <1>3 DEF Abort
    <2>2. Unconsumed' = {}
      BY <2>1 DEF Unconsumed, ToSet
    <2> QED
      BY <2>1, <2>2, SettleKept
  <1> QED
    BY <1>1, <1>2, <1>3 DEF Callers

LEMMA SettleStutter == ASSUME SettleInv, UNCHANGED piVars PROVE SettleInv'
  <1>1. UNCHANGED <<pc, turn, why, run, queue, deferred>>
    BY DEF piVars, turnVars, queueVars
  <1>2. Unconsumed' = Unconsumed
    BY <1>1 DEF Unconsumed
  <1> QED
    BY <1>1, <1>2, SettleKept

LEMMA SettleCall == ASSUME SettleInv, NEW c \in Controls,
        CallSettled(c) \/ CallAccepted(c) \/ CallThrows(c) \/ CallCaught(c) \/ Complete(c)
    PROVE  SettleInv'
  <1>1. CASE QueueHarness(c) \/ QueueDeferred(c)
    <2>1. pc # "done" /\ UNCHANGED <<pc, turn, why, run>>
      BY <1>1 DEF QueueHarness, QueueDeferred, Streaming, turnVars
    <2> QED
      BY <2>1, SettleKept
  <1>2. CASE UNCHANGED piVars
    BY <1>2, SettleStutter
  <1> QED
    BY <1>1, <1>2 DEF CallSettled, CallAccepted, CallThrows, CallCaught, Complete,
                      QueueSettled

LEMMA SettleNext == SettleInv /\ [Next]_vars => SettleInv'
  <1> SUFFICES ASSUME SettleInv, [Next]_vars PROVE SettleInv'
    OBVIOUS
  <1>1. CASE Query \/ Harness \/ Callers \/ TurnStopped
    BY <1>1, SettleQuery, SettleHarness, SettleCallers
  <1>2. CASE Deliver \/ ReadyDelivers \/ RuntimeReady
    BY <1>2, SettleStutter DEF Deliver, ReadyDelivers, RuntimeReady
  <1>3. ASSUME NEW c \in Controls,
               \/ CallSettled(c) \/ CallAccepted(c) \/ CallThrows(c) \/ CallCaught(c)
               \/ Complete(c)
        PROVE  SettleInv'
    BY <1>3, SettleCall
  <1>4. ASSUME NEW c \in Controls, Enqueue(c) PROVE SettleInv'
    BY <1>4, SettleStutter DEF Enqueue
  <1>5. CASE NextAttempt \/ Restart
    BY <1>5, NotClean DEF NextAttempt, Restart, PiRenew
  <1>6. CASE UNCHANGED vars
    BY <1>6, SettleStutter DEF vars
  <1> QED
    BY <1>1, <1>2, <1>3, <1>4, <1>5, <1>6 DEF Next, Delivery

\* Pending delivery prevents settled completion, for every execution: when a
\* prompt ends by itself, with an answer or with a failure nothing recovers,
\* neither the harness nor the deferred list holds a control that the runtime
\* accepted, whatever calls, compactions and aborts ran beside it.
THEOREM PromptsSettleEmpty == Spec => []SettlesEmpty
  <1>1. Init => SettleInv
    BY DEF Init, PiInit, PiFresh, SettleInv, SettlesEmpty
  <1>2. SettleInv => SettlesEmpty
    BY DEF SettleInv
  <1> QED
    BY <1>1, <1>2, SettleNext, PTL DEF Spec

=============================================================================
