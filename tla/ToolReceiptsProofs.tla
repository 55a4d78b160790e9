------------------------- MODULE ToolReceiptsProofs -------------------------
(***************************************************************************)
(* Proofs about ToolReceipts for every set of call ids, every script of     *)
(* requests and every bound on Attempts and faults.                         *)
(*                                                                          *)
(* 1. ReceiptInv relates the receipt of an operation, its process tree and  *)
(*    the number of times its effect landed, and a body that executes to    *)
(*    its running receipt.                                                  *)
(* 2. With it every step is a step of EffectLedger or leaves the ledger     *)
(*    alone: the pipeline implements the ledger.                            *)
(* 3. OvertakenInv, which says of every mutation since the registration of  *)
(*    a check what TrustedCheckIsCurrent says of a trusted one, is          *)
(*    inductive together with ReceiptInv.                                   *)
(* 4. RepeatInv: the repeat of a failed command is a failed row of a blocked *)
(*    call, and a command that can still fail is the newest row.            *)
(*    NoBlindRepeat follows.                                                *)
(***************************************************************************)
EXTENDS ToolReceipts, FiniteSetTheorems, TLAPS

Statuses == {"absent", "running", "succeeded", "failed", "outcome_unknown",
             "pre_effect_rejected"}

CallFields == {"stage", "q", "blocked", "activated", "settled", "recorded"}

\* the tables have an entry for every id, with its fields
Shape ==
    /\ attempt \in 1..MaxAttempts
    /\ DOMAIN calls = Calls
    /\ \A c \in Calls : CallFields \subseteq DOMAIN calls[c]
    /\ DOMAIN operations = Ids
    /\ \A o \in Ids : {"status", "q"} \subseteq DOMAIN operations[o]
    /\ \A o \in Ids : operations[o].status \in Statuses
    /\ trees \in [Ids -> {"none", "working", "done"}]
    /\ effects \in [Ids -> {0, 1}]

\* receipt, process tree and effect of one operation
OperationOK(o) ==
    LET s == operations[o].status IN
    /\ s \in {"absent", "pre_effect_rejected"} => trees[o] = "none" /\ effects[o] = 0
    /\ s = "succeeded" => trees[o] = "none" /\ effects[o] = 1
    /\ trees[o] = "working" => effects[o] = 0
    /\ trees[o] = "done" => effects[o] = 1
    /\ s # "absent" => o[1] <= attempt
    /\ s = "outcome_unknown" => o[1] < attempt \/ run # "running"

\* a body that executes belongs to a running receipt of its request
CallOK(c) ==
    calls[c].stage = "executing" =>
        /\ operations[OperationId(c)].status = "running"
        /\ operations[OperationId(c)].q = calls[c].q

ReceiptInv ==
    /\ Shape
    /\ \A o \in Ids : OperationOK(o)
    /\ \A c \in Calls : CallOK(c)

-----------------------------------------------------------------------------
(* 1. The receipts.                                                         *)

\* The id of a call's operation, and that calls have different ones.
LEMMA OperationIds ==
    ASSUME Shape
    PROVE  /\ \A c \in Calls : OperationId(c) \in Ids
           /\ \A c \in Calls : OperationId(c)[1] = attempt
           /\ \A c, d \in Calls : OperationId(c) = OperationId(d) => c = d
  BY DEF Shape, Ids, OperationId

\* the entry of c is the only one of the pipeline's calls that changes
OnlyCall(c) ==
    /\ DOMAIN calls' = Calls
    /\ CallFields \subseteq DOMAIN calls'[c]
    /\ \A d \in Calls \ {c} : calls'[d] = calls[d]

\* What Settle does to the calls.
LEMMA SettleCalls ==
    ASSUME NEW cs, NEW rs, NEW c \in Calls, NEW ok, Settle(cs, rs, c, ok),
           DOMAIN cs = Calls, CallFields \subseteq DOMAIN cs[c],
           \A d \in Calls \ {c} : cs[d] = calls[d]
    PROVE  OnlyCall(c) /\ calls'[c].stage = "returned"
  BY DEF Settle, OnlyCall, CallFields

\* A step that leaves receipts, processes and effects alone, and executes nothing new.
LEMMA QuietStep ==
    ASSUME ReceiptInv, NEW c \in Calls, OnlyCall(c), calls'[c].stage # "executing",
           UNCHANGED <<attempt, operations, trees, effects>>,
           run' = run \/ run' # "running"
    PROVE  ReceiptInv'
  <1> USE DEF ReceiptInv, OnlyCall
  <1>1. Shape'
    BY DEF Shape
  <1>2. ASSUME NEW o \in Ids PROVE OperationOK(o)'
    BY DEF OperationOK
  <1>3. ASSUME NEW d \in Calls PROVE CallOK(d)'
    BY DEF CallOK, OperationId
  <1> QED
    BY <1>1, <1>2, <1>3 DEF Ids

\* A step of the operation of c alone.
LEMMA OperationStep ==
    ASSUME ReceiptInv, NEW c \in Calls, OnlyCall(c), UNCHANGED <<attempt, run>>,
           Shape', CallOK(c)', NEW o \in Ids, o = OperationId(c), OperationOK(o)',
           \A x \in Ids \ {o} :
              /\ operations'[x] = operations[x] /\ trees'[x] = trees[x]
              /\ effects'[x] = effects[x]
    PROVE  ReceiptInv'
  <1> USE DEF ReceiptInv, OnlyCall
  <1>1. ASSUME NEW x \in Ids \ {o} PROVE OperationOK(x)'
    BY DEF OperationOK
  <1>2. ASSUME NEW d \in Calls \ {c} PROVE CallOK(d)'
    <2>1. OperationId(d) \in Ids \ {o}
      BY OperationIds
    <2> QED
      BY <2>1 DEF CallOK, OperationId
  <1> QED
    BY <1>1, <1>2 DEF Ids

\* Announcing a call keeps the receipts.
LEMMA ReceiptBefore ==
    ASSUME ReceiptInv, NEW c \in Calls, NEW q, BeforeToolCall(c, q)
    PROVE  ReceiptInv'
  <1> USE DEF ReceiptInv, Shape
  <1>1. ASSUME AnnounceAgain(c, q)
        PROVE  OnlyCall(c) /\ calls'[c].stage # "executing"
    BY <1>1 DEF AnnounceAgain, OnlyCall, CallFields
  <1>2. ASSUME Announce(c, q)
        PROVE  OnlyCall(c) /\ calls'[c].stage # "executing"
    <2>1. PICK cs, rs, ok : /\ DOMAIN cs = Calls /\ CallFields \subseteq DOMAIN cs[c]
                            /\ \A d \in Calls \ {c} : cs[d] = calls[d]
                            /\ cs[c].stage = "hooked"
                            /\ calls' = cs \/ Settle(cs, rs, c, ok)
      BY <1>2 DEF Announce, NoCall, CallFields
    <2> QED
      BY <2>1, SettleCalls DEF OnlyCall
  <1> QED
    BY <1>1, <1>2, QuietStep DEF BeforeToolCall

\* A call that fails or returns without touching its receipt.
LEMMA ReceiptReturns ==
    ASSUME ReceiptInv, NEW c \in Calls,
           \/ AbortedBeforeDispatch(c) \/ ReplayOrRefuse(c)
           \/ RegisterCheck(c) \/ RequestUserInput(c)
    PROVE  ReceiptInv'
  <1> USE DEF ReceiptInv, Shape
  <1>1. ASSUME NEW ok, Settle(calls, rows, c, ok) PROVE OnlyCall(c) /\ calls'[c].stage = "returned"
    BY <1>1, SettleCalls
  <1>2. CASE AbortedBeforeDispatch(c)
    BY <1>1, <1>2, QuietStep DEF AbortedBeforeDispatch, Fails
  <1>3. CASE ReplayOrRefuse(c)
    BY <1>1, <1>3, QuietStep DEF ReplayOrRefuse, Unclaimed, Fails
  <1>4. CASE RegisterCheck(c)
    BY <1>1, <1>4, QuietStep DEF RegisterCheck, Fails
  <1>5. CASE RequestUserInput(c)
    <2>1. OnlyCall(c) /\ calls'[c].stage = "returned"
      BY <1>1, <1>5 DEF RequestUserInput, Fails, OnlyCall, CallFields
    <2>2. run' = run \/ run' # "running"
      BY <1>5 DEF RequestUserInput
    <2> QED
      BY <1>5, <2>1, <2>2, QuietStep DEF RequestUserInput
  <1> QED
    BY <1>2, <1>3, <1>4, <1>5

\* What ReceiptWritten does to the receipts.
LEMMA Written ==
    ASSUME Shape, NEW c \in Calls, NEW s \in Statuses, ReceiptWritten(c, s)
    PROVE  /\ DOMAIN operations' = Ids
           /\ operations'[OperationId(c)].status = s
           /\ operations'[OperationId(c)].q = calls[c].q
           /\ \A o \in Ids \ {OperationId(c)} : operations'[o] = operations[o]
           /\ \A o \in Ids : {"status", "q"} \subseteq DOMAIN operations'[o]
           /\ \A o \in Ids : operations'[o].status \in Statuses
  BY OperationIds DEF ReceiptWritten, Shape

\* The tables keep their shape.
LEMMA ShapeStep ==
    ASSUME Shape, NEW c \in Calls, OnlyCall(c), UNCHANGED <<attempt, effects>>,
           trees' \in [Ids -> {"none", "working", "done"}],
           \/ operations' = operations
           \/ \E s \in Statuses : ReceiptWritten(c, s)
    PROVE  Shape'
  <1>1. \A d \in Calls : CallFields \subseteq DOMAIN calls'[d]
    BY DEF Shape, OnlyCall
  <1>2. /\ DOMAIN operations' = Ids
        /\ \A o \in Ids : {"status", "q"} \subseteq DOMAIN operations'[o]
        /\ \A o \in Ids : operations'[o].status \in Statuses
    BY Written DEF Shape
  <1> QED
    BY <1>1, <1>2 DEF Shape, OnlyCall, Ids

\* A claim that ends before anything was started keeps the receipts.
LEMMA ReceiptRefused ==
    ASSUME ReceiptInv, NEW c \in Calls, AuthorizationRejected(c) \/ CommandBlocked(c)
    PROVE  ReceiptInv'
  <1>0. PICK o \in Ids : o = OperationId(c) /\ o[1] = attempt
    BY OperationIds DEF ReceiptInv
  <1>1. Shape /\ attempt \in Nat
    BY DEF ReceiptInv, Shape
  <1>2. /\ operations[o].status = "absent"
        /\ \E s \in {"pre_effect_rejected", "failed"} : ReceiptWritten(c, s)
        /\ Fails(c)
        /\ UNCHANGED <<attempt, run, trees, effects>>
    BY <1>0 DEF AuthorizationRejected, CommandBlocked, Claimed
  <1>3. PICK s \in {"pre_effect_rejected", "failed"} : ReceiptWritten(c, s)
    BY <1>2
  <1>4. OnlyCall(c) /\ calls'[c].stage = "returned"
    BY <1>0, <1>1, <1>2, SettleCalls DEF Fails, Shape
  <1>5. /\ operations'[o].status = s
        /\ \A x \in Ids \ {o} : operations'[x] = operations[x]
    BY <1>0, <1>1, <1>3, Written DEF Statuses
  <1>9. Shape'
    BY <1>1, <1>2, <1>3, <1>4, ShapeStep DEF Shape, Statuses
  <1>6. trees[o] = "none" /\ effects[o] = 0
    BY <1>0, <1>1, <1>2 DEF ReceiptInv, OperationOK
  <1>7. OperationOK(o)'
    BY <1>0, <1>1, <1>2, <1>5, <1>6 DEF OperationOK, Shape
  <1>8. CallOK(c)'
    BY <1>4 DEF CallOK
  <1> QED
    BY <1>0, <1>2, <1>4, <1>5, <1>7, <1>8, <1>9, OperationStep

\* A dispatch starts the process of a receipt it has just claimed.
LEMMA ReceiptDispatch ==
    ASSUME ReceiptInv, NEW c \in Calls, Dispatch(c)
    PROVE  ReceiptInv'
  <1>0. PICK o \in Ids : o = OperationId(c) /\ o[1] = attempt
    BY OperationIds DEF ReceiptInv
  <1>1. Shape /\ attempt \in Nat
    BY DEF ReceiptInv, Shape
  <1>2. /\ operations[o].status = "absent"
        /\ ReceiptWritten(c, "running")
        /\ trees' = [trees EXCEPT ![o] = "working"]
        /\ UNCHANGED <<attempt, run, effects>>
    BY <1>0 DEF Dispatch, Claimed
  <1>3. OnlyCall(c) /\ calls'[c].q = calls[c].q
    BY <1>0, <1>1 DEF Dispatch, OnlyCall, Shape, CallFields
  <1>4. /\ operations'[o].status = "running" /\ operations'[o].q = calls[c].q
        /\ \A x \in Ids \ {o} : operations'[x] = operations[x] /\ trees'[x] = trees[x]
    BY <1>0, <1>1, <1>2, Written DEF Shape, Statuses
  <1>9. Shape'
    BY <1>1, <1>2, <1>3, ShapeStep DEF Shape, Statuses
  <1>5. effects[o] = 0 /\ trees'[o] = "working"
    BY <1>0, <1>1, <1>2 DEF ReceiptInv, OperationOK, Shape
  <1>6. OperationOK(o)'
    BY <1>0, <1>1, <1>2, <1>4, <1>5 DEF OperationOK, Shape
  <1>7. CallOK(c)'
    BY <1>0, <1>2, <1>3, <1>4 DEF CallOK, OperationId
  <1> QED
    BY <1>0, <1>2, <1>3, <1>4, <1>6, <1>7, <1>9, OperationStep

\* A body that ends settles its running receipt, or leaves it when the fence is lost.
LEMMA ReceiptBody ==
    ASSUME ReceiptInv, NEW c \in Calls,
           (\E ok \in BOOLEAN : BodyEnds(c, ok)) \/ CleanupTimesOut(c)
    PROVE  ReceiptInv'
  <1>0. PICK o \in Ids : o = OperationId(c) /\ o[1] = attempt
    BY OperationIds DEF ReceiptInv
  <1>1. Shape /\ attempt \in Nat
    BY DEF ReceiptInv, Shape
  <1>2. /\ operations[o].status = "running"
        /\ trees'[o] \in {"none", trees[o]}
        /\ \A x \in Ids \ {o} : trees'[x] = trees[x]
        /\ trees' \in [Ids -> {"none", "working", "done"}]
        /\ UNCHANGED <<attempt, run, effects>>
        /\ \E ok : Settle(calls, rows, c, ok)
    BY <1>0, <1>1 DEF ReceiptInv, CallOK, Shape, BodyEnds, CleanupTimesOut, Fails
  <1>3. OnlyCall(c) /\ calls'[c].stage = "returned"
    BY <1>0, <1>1, <1>2, SettleCalls DEF Shape
  <1>4. \/ operations' = operations
        \/ ReceiptWritten(c, "failed")
        \/ ReceiptWritten(c, "succeeded") /\ trees[o] = "done" /\ trees'[o] = "none"
    BY <1>0, <1>1 DEF BodyEnds, CleanupTimesOut, Shape
  <1>5. /\ operations'[o].status \in {"running", "failed", "succeeded"}
        /\ operations'[o].status = "succeeded" => trees[o] = "done" /\ trees'[o] = "none"
        /\ \A x \in Ids \ {o} : operations'[x] = operations[x]
    BY <1>0, <1>1, <1>2, <1>4, Written DEF Statuses
  <1>9. Shape'
    BY <1>1, <1>2, <1>3, <1>4, ShapeStep DEF Shape, Statuses
  <1>6. OperationOK(o)'
    BY <1>0, <1>1, <1>2, <1>5 DEF OperationOK, ReceiptInv, Shape
  <1>7. CallOK(c)'
    BY <1>3 DEF CallOK
  <1> QED
    BY <1>0, <1>2, <1>3, <1>5, <1>6, <1>7, <1>9, OperationStep

\* An effect lands once, of a process that works.
LEMMA ReceiptLands ==
    ASSUME ReceiptInv, NEW o \in Ids, EffectLands(o)
    PROVE  /\ ReceiptInv'
           /\ operations[o].status \in {"running", "failed", "outcome_unknown"}
           /\ effects[o] = 0
  <1>1. Shape /\ OperationOK(o)
    BY DEF ReceiptInv
  <1>2. /\ effects[o] = 0
        /\ operations[o].status \in {"running", "failed", "outcome_unknown"}
    BY <1>1 DEF OperationOK, EffectLands, Shape, Statuses
  <1>3. /\ trees' = [trees EXCEPT ![o] = "done"]
        /\ effects' = [effects EXCEPT ![o] = 1]
        /\ UNCHANGED <<attempt, run, calls, operations>>
    BY <1>1, <1>2 DEF EffectLands, Shape
  <1>4. Shape'
    BY <1>1, <1>3 DEF Shape
  <1>5. ASSUME NEW x \in Ids PROVE OperationOK(x)'
    BY <1>1, <1>2, <1>3 DEF ReceiptInv, OperationOK, Shape
  <1>6. ASSUME NEW c \in Calls PROVE CallOK(c)'
    BY <1>3 DEF ReceiptInv, CallOK, OperationId
  <1> QED
    BY <1>2, <1>4, <1>5, <1>6 DEF ReceiptInv, Ids

\* The next Attempt has a new pipeline; older operations stay behind it.
LEMMA ReceiptNextAttempt ==
    ASSUME ReceiptInv, NextAttempt
    PROVE  ReceiptInv'
  <1> USE ToolAssumption DEF ReceiptInv, NextAttempt
  <1>1. Shape'
    BY DEF Shape, NoCall, CallFields, Ids
  <1>2. ASSUME NEW o \in Ids PROVE OperationOK(o)'
    <2>1. o[1] \in Nat /\ attempt \in Nat /\ attempt' = attempt + 1 /\ OperationOK(o)
      BY DEF Ids, Shape
    <2> QED
      BY <2>1 DEF OperationOK
  <1>3. ASSUME NEW c \in Calls PROVE CallOK(c)'
    BY DEF CallOK, NoCall
  <1> QED
    BY <1>1, <1>2, <1>3 DEF Ids

\* A restart forgets the pipeline, and takes running receipts for unknown.
LEMMA ReceiptRestart ==
    ASSUME ReceiptInv, Restart
    PROVE  ReceiptInv'
  <1> USE DEF ReceiptInv
  <1>1. /\ operations' = [o \in Ids |-> [operations[o] EXCEPT !.status = Recovered(@)]]
        /\ run' # "running"
        /\ calls' = [c \in Calls |-> NoCall]
        /\ UNCHANGED <<attempt, trees, effects>>
    BY DEF Restart
  <1>2. ASSUME NEW o \in Ids
        PROVE  /\ {"status", "q"} \subseteq DOMAIN operations'[o]
               /\ operations'[o].status = Recovered(operations[o].status)
               /\ operations'[o].status \in Statuses
    BY <1>1 DEF Shape, Recovered, Statuses
  <1>3. Shape'
    BY <1>1, <1>2 DEF Shape, NoCall, CallFields
  <1>4. ASSUME NEW o \in Ids PROVE OperationOK(o)'
    BY <1>1, <1>2 DEF OperationOK, Recovered
  <1>5. ASSUME NEW c \in Calls PROVE CallOK(c)'
    BY <1>1 DEF CallOK, NoCall
  <1> QED
    BY <1>3, <1>4, <1>5 DEF Ids

\* Every step keeps the receipts.
LEMMA ReceiptNext == ReceiptInv /\ [Next]_vars => ReceiptInv'
  <1> SUFFICES ASSUME ReceiptInv, [Next]_vars PROVE ReceiptInv'
    OBVIOUS
  <1>1. ASSUME UNCHANGED <<attempt, calls, operations, trees, effects>>,
               run' = run \/ run' # "running"
        PROVE  ReceiptInv'
    BY <1>1 DEF ReceiptInv, Shape, OperationOK, CallOK, OperationId, Ids
  <1>2. CASE UNCHANGED vars
    BY <1>1, <1>2 DEF vars
  <1>3. CASE Abort \/ AttemptEnds \/ LeaseExpires \/ ApprovalExpires
    BY <1>1, <1>3 DEF Abort, AttemptEnds, LeaseExpires, ApprovalExpires
  <1> QED
    BY <1>2, <1>3, ReceiptBefore, ReceiptReturns, ReceiptRefused, ReceiptDispatch, ReceiptBody,
       ReceiptLands, ReceiptNextAttempt, ReceiptRestart DEF Next

\* No operation exists in the initial state.
LEMMA ReceiptInit == Init => ReceiptInv
  BY ToolAssumption DEF Init, ReceiptInv, Shape, OperationOK, CallOK, NoCall, NoOperation, CallFields,
     Statuses, Ids

\* The receipts in every reachable state.
LEMMA ReceiptsHold == Spec => []ReceiptInv
  BY ReceiptInit, ReceiptNext, PTL DEF Spec

-----------------------------------------------------------------------------
(* 2. The pipeline implements the ledger.                                   *)

\* the ledger's view of the receipts
LedgerEntry == [o \in Ids |-> Entry(o)]

\* A receipt that changes alone is one entry of the ledger that changes.
LEMMA EntryStep ==
    ASSUME NEW o \in Ids, \A x \in Ids \ {o} : operations'[x] = operations[x]
    PROVE  LedgerEntry' = [LedgerEntry EXCEPT ![o] = Entry(o)']
  BY DEF LedgerEntry, Entry, Ids

\* Receipts that do not change leave the ledger alone.
LEMMA EntryUnchanged ==
    ASSUME operations' = operations
    PROVE  LedgerEntry' = LedgerEntry
  BY DEF LedgerEntry, Entry, Ids

\* Every step of the pipeline is a step of the ledger, or none.
LEMMA LedgerStep ==
    ASSUME ReceiptInv, [Next]_vars
    PROVE  Ledger!LedgerNext \/ UNCHANGED <<LedgerEntry, effects>>
  <1>0. Shape
    BY DEF ReceiptInv
  <1>1. CASE UNCHANGED <<operations, effects>>
    BY <1>1, EntryUnchanged
  <1>2. ASSUME NEW c \in Calls, AuthorizationRejected(c) \/ CommandBlocked(c) \/ Dispatch(c)
        PROVE  Ledger!LedgerNext
    <2>0. PICK o \in Ids : o = OperationId(c)
      BY <1>0, OperationIds
    <2>1. PICK s \in {"pre_effect_rejected", "failed", "running"} : ReceiptWritten(c, s)
      BY <1>2 DEF AuthorizationRejected, CommandBlocked, Dispatch
    <2>2. operations[o].status = "absent" /\ effects' = effects
      BY <1>2, <2>0 DEF AuthorizationRejected, CommandBlocked, Dispatch, Claimed
    <2>3. /\ operations'[o].status = s
          /\ \A x \in Ids \ {o} : operations'[x] = operations[x]
      BY <1>0, <2>0, <2>1, Written DEF Statuses
    <2>4. Entry(o) = "absent" /\ Entry(o)' \in {"claimed", "failed", "rejected"}
      BY <2>2, <2>3 DEF Entry
    <2>5. LedgerEntry' = [LedgerEntry EXCEPT ![o] = Entry(o)'] /\ LedgerEntry[o] = "absent"
      BY <2>3, <2>4, EntryStep DEF LedgerEntry
    <2>6. Ledger!Claim(o) \/ Ledger!Refuse(o)
      BY <2>2, <2>4, <2>5 DEF Ledger!Claim, Ledger!Refuse, LedgerEntry
    <2> QED
      BY <2>6 DEF Ledger!LedgerNext
  <1>3. ASSUME NEW c \in Calls, (\E ok \in BOOLEAN : BodyEnds(c, ok)) \/ CleanupTimesOut(c)
        PROVE  Ledger!LedgerNext \/ UNCHANGED <<LedgerEntry, effects>>
    <2>0. PICK o \in Ids : o = OperationId(c)
      BY <1>0, OperationIds
    <2>1. effects' = effects /\ operations[o].status = "running" /\ OperationOK(o)
      BY <1>3, <2>0 DEF BodyEnds, CleanupTimesOut, ReceiptInv, CallOK
    <2>2. \/ operations' = operations
          \/ ReceiptWritten(c, "failed")
          \/ ReceiptWritten(c, "succeeded") /\ trees[o] = "done"
      BY <1>3, <2>0 DEF BodyEnds, CleanupTimesOut
    <2>3. ASSUME NEW s \in {"failed", "succeeded"}, ReceiptWritten(c, s),
                 s = "succeeded" => trees[o] = "done"
          PROVE  Ledger!LedgerNext
      <3>1. /\ operations'[o].status = s
            /\ \A x \in Ids \ {o} : operations'[x] = operations[x]
        BY <1>0, <2>0, <2>3, Written DEF Statuses
      <3>2. Entry(o) = "claimed" /\ Entry(o)' = s
        BY <2>1, <3>1 DEF Entry
      <3>3. LedgerEntry' = [LedgerEntry EXCEPT ![o] = s] /\ LedgerEntry[o] = "claimed"
        BY <3>1, <3>2, EntryStep DEF LedgerEntry
      <3>4. s = "succeeded" => effects[o] = 1
        BY <2>1, <2>3 DEF OperationOK
      <3>5. Ledger!Succeed(o) \/ Ledger!Fail(o)
        BY <2>1, <3>3, <3>4 DEF Ledger!Succeed, Ledger!Fail, LedgerEntry
      <3> QED
        BY <3>5 DEF Ledger!LedgerNext
    <2> QED
      BY <2>1, <2>2, <2>3, EntryUnchanged
  <1>4. ASSUME NEW o \in Ids, EffectLands(o)
        PROVE  Ledger!LedgerNext
    <2>1. operations[o].status \in {"running", "failed", "outcome_unknown"} /\ effects[o] = 0
      BY <1>4, ReceiptLands
    <2>2. LedgerEntry[o] \in {"claimed", "failed", "unknown"} /\ LedgerEntry' = LedgerEntry
      BY <1>4, <2>1, EntryUnchanged DEF EffectLands, LedgerEntry, Entry
    <2>3. Ledger!Land(o)
      BY <1>4, <2>1, <2>2 DEF Ledger!Land, LedgerEntry, EffectLands
    <2> QED
      BY <2>3 DEF Ledger!LedgerNext
  <1>5. CASE Restart
    <2>1. /\ operations' = [o \in Ids |-> [operations[o] EXCEPT !.status = Recovered(@)]]
          /\ effects' = effects
      BY <1>5 DEF Restart
    <2>2. ASSUME NEW o \in Ids
          PROVE  Entry(o)' = IF Entry(o) = "claimed" THEN "unknown" ELSE Entry(o)
      <3>1. operations'[o].status = Recovered(operations[o].status)
        BY <1>0, <2>1 DEF Shape
      <3> QED
        BY <1>0, <3>1 DEF Entry, Recovered, Shape, Statuses
    <2>3. LedgerEntry' = [o \in Ids |-> IF LedgerEntry[o] = "claimed" THEN "unknown"
                                        ELSE LedgerEntry[o]]
      BY <2>2 DEF LedgerEntry, Ids
    <2>4. Ledger!Forget
      BY <2>1, <2>3 DEF Ledger!Forget, LedgerEntry
    <2> QED
      BY <2>4 DEF Ledger!LedgerNext
  <1>6. ASSUME NEW c \in Calls,
               \/ \E q : BeforeToolCall(c, q)
               \/ AbortedBeforeDispatch(c) \/ ReplayOrRefuse(c)
               \/ RegisterCheck(c) \/ RequestUserInput(c)
        PROVE  UNCHANGED <<operations, effects>>
    BY <1>6 DEF BeforeToolCall, AbortedBeforeDispatch, ReplayOrRefuse, RegisterCheck,
                RequestUserInput
  <1>7. ASSUME \/ Abort \/ AttemptEnds \/ LeaseExpires \/ ApprovalExpires
               \/ NextAttempt \/ UNCHANGED vars
        PROVE  UNCHANGED <<operations, effects>>
    BY <1>7 DEF Abort, AttemptEnds, LeaseExpires, ApprovalExpires, NextAttempt, vars
  <1> QED
    BY <1>1, <1>2, <1>3, <1>4, <1>5, <1>6, <1>7 DEF Next

(***************************************************************************)
(* executeWithReceipt, claimOperation, updateOperation and                  *)
(* runStartupRecovery implement the effect ledger: an operation is claimed  *)
(* once, its effect lands at most once and only after the claim, success is *)
(* written only over an effect that landed, and settled receipts never      *)
(* change.                                                                  *)
(***************************************************************************)
THEOREM PipelineImplementsLedger == Spec => EffectsAreLedgered
  <1>1. Init => Ledger!LedgerInit
    BY DEF Init, Ledger!LedgerInit, Entry, NoOperation
  <1>2. ReceiptInv /\ [Next]_vars => [Ledger!LedgerNext]_<<LedgerEntry, effects>>
    BY LedgerStep
  <1>3. ReceiptInv /\ [Next]_vars
          => [Ledger!LedgerNext]_<<[o \in Ids |-> Entry(o)], effects>>
    BY <1>2 DEF LedgerEntry
  <1> QED
    BY <1>1, <1>3, ReceiptsHold, PTL DEF Spec, EffectsAreLedgered, Ledger!LedgerSpec

-----------------------------------------------------------------------------
(* 3. A trusted check has not been overtaken.                               *)

\* why a mutation since the registration did not mark the checks stale
Excused(o) ==
    \/ operations[o].status \in {"running", "outcome_unknown"}
    \/ operations[o].status = "failed" /\ trees[o] = "done"

CheckShape == {"status", "stale", "source"} \subseteq DOMAIN check

Landed(o) == effects[o] = 1 /\ InvalidatesChecks(operations[o].q)

\* what landed since the registration, and what a fresh check has missed
OvertakenInv ==
    /\ CheckShape
    /\ check.status = "passed" => check.source \in Ids
    /\ since \subseteq Ids
    /\ \A o \in since : Landed(o)
    /\ check.status = "passed" /\ ~check.stale => \A o \in since : Excused(o)

\* Marking the checks leaves all but their staleness.
LEMMA Marked ==
    ASSUME OvertakenInv, NEW c \in Calls, check' = check \/ check' = MarkChecksStale(c)
    PROVE  /\ CheckShape' /\ check'.status = check.status /\ check'.source = check.source
           /\ ~check'.stale => ~check.stale \/ check.status # "passed"
  BY DEF OvertakenInv, CheckShape, MarkChecksStale

\* Checks whose staleness alone may change, and excuses that stay.
LEMMA OvertakenKept ==
    ASSUME OvertakenInv, since' = since,
           CheckShape', check'.status = check.status, check'.source = check.source,
           ~check'.stale => ~check.stale \/ check.status # "passed",
           \A o \in since : Landed(o)',
           check.status = "passed" /\ ~check'.stale /\ ~check.stale
              => \A o \in since : Excused(o) => Excused(o)'
    PROVE  OvertakenInv'
  BY DEF OvertakenInv, Ids

\* A claim concerns an operation that has not landed.
LEMMA OvertakenClaim ==
    ASSUME ReceiptInv, OvertakenInv, NEW c \in Calls,
           AuthorizationRejected(c) \/ CommandBlocked(c) \/ Dispatch(c)
    PROVE  OvertakenInv'
  <1>0. PICK o \in Ids : o = OperationId(c)
    BY OperationIds DEF ReceiptInv
  <1>1. Shape /\ OperationOK(o)
    BY DEF ReceiptInv
  <1>2. PICK s \in {"pre_effect_rejected", "failed", "running"} : ReceiptWritten(c, s)
    BY DEF AuthorizationRejected, CommandBlocked, Dispatch
  <1>3. /\ operations[o].status = "absent"
        /\ UNCHANGED <<effects, since>>
        /\ check' = check \/ check' = MarkChecksStale(c)
        /\ \A x \in Ids \ {o} : trees'[x] = trees[x]
    BY <1>0, <1>1 DEF AuthorizationRejected, CommandBlocked, Dispatch, Claimed, Shape
  <1>4. \A x \in Ids \ {o} : operations'[x] = operations[x]
    BY <1>0, <1>1, <1>2, Written DEF Statuses
  <1>5. o \notin since /\ since \subseteq Ids
    BY <1>1, <1>3 DEF OperationOK, OvertakenInv, Landed
  <1>6. ASSUME NEW x \in since PROVE Landed(x)' /\ (Excused(x) => Excused(x)')
    BY <1>3, <1>4, <1>5, <1>6 DEF OvertakenInv, Landed, Excused
  <1> QED
    BY <1>3, <1>6, Marked, OvertakenKept

\* A body that ends under the fence marks the checks its effect overtook.
LEMMA OvertakenBody ==
    ASSUME ReceiptInv, OvertakenInv, NEW c \in Calls,
           (\E ok \in BOOLEAN : BodyEnds(c, ok)) \/ CleanupTimesOut(c)
    PROVE  OvertakenInv'
  <1>0. PICK o \in Ids : o = OperationId(c)
    BY OperationIds DEF ReceiptInv
  <1>1. Shape
    BY DEF ReceiptInv
  <1>2. /\ operations[o].status = "running" /\ operations[o].q = calls[c].q
        /\ UNCHANGED <<effects, since>>
        /\ \A x \in Ids \ {o} : trees'[x] = trees[x]
    BY <1>0, <1>1 DEF BodyEnds, CleanupTimesOut, ReceiptInv, CallOK, Shape
  <1>3. \/ UNCHANGED <<check, operations>>
        \/ /\ check' = MarkChecksStale(c)
           /\ \E s \in {"failed", "succeeded"} : ReceiptWritten(c, s)
    BY DEF BodyEnds, CleanupTimesOut
  <1>4. /\ operations'[o].q = operations[o].q
        /\ \A x \in Ids \ {o} : operations'[x] = operations[x]
    BY <1>0, <1>1, <1>2, <1>3, Written DEF Statuses
  <1>5. since \subseteq Ids
    BY DEF OvertakenInv
  <1>6. ASSUME NEW x \in since PROVE Landed(x)'
    BY <1>2, <1>4, <1>5, <1>6 DEF OvertakenInv, Landed
  <1>7. ASSUME NEW x \in since, Excused(x), check.status = "passed", ~check'.stale
        PROVE  Excused(x)'
    <2>1. CASE x # o
      BY <1>2, <1>4, <1>5, <1>7, <2>1 DEF Excused
    <2>2. CASE UNCHANGED <<check, operations>> /\ x = o
      BY <1>2, <2>2 DEF Excused
    <2>3. CASE check' = MarkChecksStale(c) /\ x = o
      BY <1>2, <1>7, <2>3 DEF OvertakenInv, Landed, MarkChecksStale, CheckShape
    <2> QED
      BY <1>3, <2>1, <2>2, <2>3
  <1> QED
    BY <1>2, <1>3, <1>6, <1>7, Marked, OvertakenKept

\* What lands is landed, and its receipt has not succeeded.
LEMMA OvertakenLands ==
    ASSUME ReceiptInv, OvertakenInv, NEW o \in Ids, EffectLands(o)
    PROVE  OvertakenInv'
  <1>1. /\ operations[o].status \in {"running", "failed", "outcome_unknown"}
        /\ effects[o] = 0
    BY ReceiptLands
  <1>2. /\ UNCHANGED <<operations, check>>
        /\ \A x \in Ids : effects'[x] = (IF x = o THEN 1 ELSE effects[x])
        /\ \A x \in Ids : trees'[x] = (IF x = o THEN "done" ELSE trees[x])
        /\ since' = since \cup {x \in {o} : InvalidatesChecks(operations[x].q)}
    BY <1>1 DEF EffectLands, ReceiptInv, Shape
  <1>3. since' \subseteq Ids
    BY <1>2 DEF OvertakenInv, Ids
  <1>4. ASSUME NEW x \in since' PROVE Landed(x)'
    BY <1>2, <1>3, <1>4 DEF OvertakenInv, Landed
  <1>5. ASSUME NEW x \in since', check.status = "passed", ~check.stale PROVE Excused(x)'
    BY <1>1, <1>2, <1>3, <1>5 DEF OvertakenInv, Excused
  <1> QED
    BY <1>2, <1>3, <1>4, <1>5 DEF OvertakenInv, CheckShape, Ids

\* A restart takes running receipts for unknown, and may have marked the checks.
LEMMA OvertakenRestart ==
    ASSUME ReceiptInv, OvertakenInv, Restart
    PROVE  OvertakenInv'
  <1>1. /\ operations' = [o \in Ids |-> [operations[o] EXCEPT !.status = Recovered(@)]]
        /\ UNCHANGED <<trees, effects, since>>
        /\ check' = check \/ \E c \in Calls : check' = MarkChecksStale(c)
    BY DEF Restart
  <1>2. ASSUME NEW o \in Ids
        PROVE  /\ operations'[o].status = Recovered(operations[o].status)
               /\ operations'[o].q = operations[o].q
    BY <1>1 DEF ReceiptInv, Shape
  <1>3. ASSUME NEW o \in since PROVE Landed(o)' /\ (Excused(o) => Excused(o)')
    BY <1>1, <1>2, <1>3 DEF OvertakenInv, Landed, Excused, Recovered
  <1>4. CASE check' = check
    BY <1>1, <1>3, <1>4, OvertakenKept DEF OvertakenInv, CheckShape
  <1>5. ASSUME NEW c \in Calls, check' = MarkChecksStale(c) PROVE OvertakenInv'
    BY <1>1, <1>3, <1>5, Marked, OvertakenKept
  <1> QED
    BY <1>1, <1>4, <1>5

\* Registering starts anew, with a receipt of this TaskRun.
LEMMA OvertakenRegister ==
    ASSUME ReceiptInv, OvertakenInv, NEW c \in Calls, RegisterCheck(c)
    PROVE  OvertakenInv'
  <1>1. UNCHANGED <<operations, trees, effects>>
    BY DEF RegisterCheck
  <1>2. CASE UNCHANGED <<check, since>>
    BY <1>1, <1>2 DEF OvertakenInv, CheckShape, Landed, Excused, Ids
  <1>3. ASSUME NEW o \in Bindable, since' = {},
               check' = [status |-> "passed", stale |-> FALSE, source |-> o]
        PROVE  OvertakenInv'
    BY <1>3 DEF OvertakenInv, CheckShape, Bindable, Ids
  <1> QED
    BY <1>2, <1>3 DEF RegisterCheck

\* Every step keeps the excuses.
LEMMA OvertakenNext == ReceiptInv /\ OvertakenInv /\ [Next]_vars => OvertakenInv'
  <1> SUFFICES ASSUME ReceiptInv, OvertakenInv, [Next]_vars PROVE OvertakenInv'
    OBVIOUS
  <1>1. ASSUME UNCHANGED <<operations, trees, check, effects, since>> PROVE OvertakenInv'
    BY <1>1 DEF OvertakenInv, CheckShape, Landed, Excused, Ids
  <1>2. CASE \/ UNCHANGED vars \/ Abort \/ AttemptEnds \/ LeaseExpires \/ ApprovalExpires
             \/ NextAttempt
    BY <1>1, <1>2 DEF vars, Abort, AttemptEnds, LeaseExpires, ApprovalExpires, NextAttempt
  <1>3. ASSUME NEW c \in Calls,
               \/ \E q : BeforeToolCall(c, q)
               \/ AbortedBeforeDispatch(c) \/ ReplayOrRefuse(c) \/ RequestUserInput(c)
        PROVE  OvertakenInv'
    BY <1>1, <1>3 DEF BeforeToolCall, AbortedBeforeDispatch, ReplayOrRefuse, RequestUserInput
  <1> QED
    BY <1>2, <1>3, OvertakenClaim, OvertakenBody, OvertakenRegister, OvertakenLands,
       OvertakenRestart DEF Next

(***************************************************************************)
(* evaluateGate trusts no check that was overtaken: of the mutations that   *)
(* landed since bindTrustedCheckEvidence registered it, each belongs to a   *)
(* receipt that never settled or to a process that outlived its body.       *)
(* markChecksStale runs under the same fence as updateOperation, so a body  *)
(* that settles its receipt has marked the check.                           *)
(***************************************************************************)
THEOREM TrustedChecksAreCurrent == Spec => []TrustedCheckIsCurrent
  <1>1. Init => OvertakenInv
    BY DEF Init, OvertakenInv, CheckShape, NoCheck
  <1>2. ReceiptInv /\ OvertakenInv => TrustedCheckIsCurrent
    <2> SUFFICES ASSUME ReceiptInv, OvertakenInv, TrustedCheck
                 PROVE  /\ effects[check.source] = 1
                        /\ \A o \in since :
                              \/ operations[o].status = "running"
                              \/ operations[o].status = "outcome_unknown" /\ o[1] < attempt
                              \/ operations[o].status = "failed" /\ trees[o] = "done"
      BY DEF TrustedCheckIsCurrent
    <2>1. check.source \in Ids /\ operations[check.source].status = "succeeded"
      BY DEF OvertakenInv, TrustedCheck
    <2>2. effects[check.source] = 1
      BY <2>1 DEF ReceiptInv, OperationOK
    <2>3. ASSUME NEW o \in since
          PROVE  Excused(o) /\ (operations[o].status = "outcome_unknown" => o[1] < attempt)
      BY <2>3 DEF OvertakenInv, TrustedCheck, CurrentAttempt, ReceiptInv, OperationOK
    <2> QED
      BY <2>2, <2>3 DEF Excused
  <1> QED
    BY <1>1, <1>2, OvertakenNext, ReceiptsHold, PTL DEF Spec

-----------------------------------------------------------------------------
(* 4. Repeats.  RepeatInv strengthens NoBlindRepeat: the repeat of a failed *)
(* command is itself a failed row, of a call that was blocked, so that the  *)
(* guard sees the failure again; and a command that can still fail is the   *)
(* newest row, so that nothing follows a failure the guard has not seen.    *)

\* rs is a sequence of rows
IsRows(rs) ==
    /\ \E S : rs \in Seq(S)
    /\ \A i \in DOMAIN rs : DOMAIN rs[i] = {"id", "q", "status"}

RowShape ==
    /\ IsRows(rows)
    /\ \A i, j \in DOMAIN rows : rows[i].id = rows[j].id => i = j
    /\ \A i \in DOMAIN rows : rows[i].id \in Ids /\ rows[i].id[1] <= attempt

\* row j of rs repeats the failed command of row i, with nothing else between them
RepeatsIn(rs, i, j) ==
    /\ i < j /\ rs[i].q = rs[j].q /\ rs[i].q.tool = "bash"
    /\ rs[i].status = "failed"
    /\ \A k \in (i + 1)..(j - 1) : rs[k].q = rs[i].q

Live(c) == calls[c].stage \in {"hooked", "executing"}

\* i is the row of a call that was let through; the row of a sequential one that
\* has not settled is the newest
RowOf(c, i) ==
    /\ rows[i].id = OperationId(c) /\ rows[i].q = calls[c].q
    /\ Live(c) /\ ~calls[c].settled /\ calls[c].q.tool # "ls" => i = Len(rows)

CallRow(c) ==
    /\ Live(c) => ~calls[c].blocked
    /\ calls[c].stage = "returned" => calls[c].settled
    /\ calls[c].stage # "idle" /\ ~calls[c].blocked => \E i \in DOMAIN rows : RowOf(c, i)

\* nothing was claimed, and nothing can be, for row j
Stopped(j) ==
    /\ rows[j].status = "failed"
    /\ operations[rows[j].id].status = "absent"
    /\ \A c \in Calls : rows[j].id = OperationId(c) /\ calls[c].stage # "idle" => calls[c].blocked

RepeatInv ==
    /\ RowShape
    /\ \A c \in Calls : CallRow(c)
    /\ \A o \in Ids : operations[o].status # "absent" => \E i \in DOMAIN rows : rows[i].id = o
    /\ \A i, j \in DOMAIN rows : RepeatsIn(rows, i, j) => Stopped(j)

\* Indices of rows are numbers.
LEMMA RowIndices ==
    ASSUME NEW rs, IsRows(rs)
    PROVE  Len(rs) \in Nat /\ DOMAIN rs = 1..Len(rs)
  BY DEF IsRows

\* A table of rows with the domain of another one.
LEMMA SameRows ==
    ASSUME NEW rs, IsRows(rs), NEW ts, ts = [i \in DOMAIN rs |-> ts[i]],
           \A i \in DOMAIN rs : DOMAIN ts[i] = {"id", "q", "status"}
    PROVE  IsRows(ts) /\ Len(ts) = Len(rs) /\ DOMAIN ts = DOMAIN rs
  <1> DEFINE T == {ts[i] : i \in DOMAIN rs}
  <1>1. Len(rs) \in Nat /\ DOMAIN rs = 1..Len(rs)
    BY RowIndices
  <1>2. ts \in [1..Len(rs) -> T]
    BY <1>1
  <1>3. ts \in Seq(T)
    BY <1>1, <1>2
  <1>4. Len(ts) = Len(rs)
    BY <1>1, <1>2, <1>3
  <1> QED
    BY <1>1, <1>2, <1>3, <1>4 DEF IsRows

\* What completeToolAttempt does to the rows.
LEMMA CompletedRows ==
    ASSUME NEW rs, IsRows(rs), NEW o, NEW ok \in BOOLEAN, NEW ts, ts = Completed(rs, o, ok)
    PROVE  /\ IsRows(ts) /\ Len(ts) = Len(rs) /\ DOMAIN ts = DOMAIN rs
           /\ \A i \in DOMAIN rs :
                 /\ ts[i].id = rs[i].id /\ ts[i].q = rs[i].q
                 /\ rs[i].id = o /\ rs[i].status = "running" =>
                       ts[i].status = IF ok THEN "succeeded" ELSE "failed"
                 /\ rs[i].id # o \/ rs[i].status # "running" => ts[i].status = rs[i].status
  <1>1. \A i \in DOMAIN rs : DOMAIN rs[i] = {"id", "q", "status"}
    BY DEF IsRows
  <1>2. \A i \in DOMAIN rs : ts[i] = IF rs[i].id = o /\ rs[i].status = "running"
                                     THEN [rs[i] EXCEPT !.status = IF ok THEN "succeeded" ELSE "failed"]
                                     ELSE rs[i]
    BY DEF Completed
  <1>3. ts = [i \in DOMAIN rs |-> ts[i]]
    BY DEF Completed
  <1>4. \A i \in DOMAIN rs : DOMAIN ts[i] = {"id", "q", "status"}
    BY <1>1, <1>2
  <1>5. IsRows(ts) /\ Len(ts) = Len(rs) /\ DOMAIN ts = DOMAIN rs
    BY <1>3, <1>4, SameRows
  <1>6. ASSUME NEW i \in DOMAIN rs
        PROVE  /\ ts[i].id = rs[i].id /\ ts[i].q = rs[i].q
               /\ rs[i].id = o /\ rs[i].status = "running" =>
                     ts[i].status = IF ok THEN "succeeded" ELSE "failed"
               /\ rs[i].id # o \/ rs[i].status # "running" => ts[i].status = rs[i].status
    BY <1>1, <1>2
  <1> QED
    BY <1>5, <1>6

\* ts is rs with the row e at its end
Grown(rs, e, ts) == ts = Append(rs, e)

\* What recordToolAttempt does to the rows.
LEMMA AppendedRows ==
    ASSUME NEW rs, IsRows(rs), NEW e, DOMAIN e = {"id", "q", "status"},
           NEW ts, Grown(rs, e, ts)
    PROVE  /\ IsRows(ts) /\ Len(ts) = Len(rs) + 1 /\ DOMAIN ts = 1..(Len(rs) + 1)
           /\ \A i \in DOMAIN rs : ts[i] = rs[i]
           /\ ts[Len(rs) + 1] = e
  <1>1. PICK S : rs \in Seq(S)
    BY DEF IsRows
  <1>2. rs \in Seq(S \cup {e})
    BY <1>1
  <1>3. /\ ts \in Seq(S \cup {e}) /\ Len(ts) = Len(rs) + 1
        /\ \A i \in 1..Len(rs) : ts[i] = rs[i]
        /\ ts[Len(rs) + 1] = e
    BY <1>2 DEF Grown
  <1>4. Len(rs) \in Nat /\ DOMAIN rs = 1..Len(rs) /\ DOMAIN ts = 1..(Len(rs) + 1)
    BY <1>2, <1>3
  <1>5. \A i \in DOMAIN ts : DOMAIN ts[i] = {"id", "q", "status"}
    BY <1>3, <1>4 DEF IsRows
  <1> QED
    BY <1>3, <1>4, <1>5 DEF IsRows

\* evaluateToolGuard stops a command that is the newest row and failed.
LEMMA GuardSeesFailure ==
    ASSUME IsRows(rows), rows # <<>>, NEW q, q.tool = "bash",
           rows[Len(rows)].q = q, rows[Len(rows)].status = "failed"
    PROVE  EvaluateToolGuard(q)
  <1> DEFINE n == Len(rows)
             P(r) == r.q = q /\ r.status = "failed"
             F == {i \in DOMAIN rows :
                      /\ rows[i].status # "running"
                      /\ \A j \in i..Len(rows) : rows[j].status # "running" => P(rows[j])}
  <1>1. n \in Nat \ {0} /\ DOMAIN rows = 1..n
    BY RowIndices DEF IsRows
  <1>2. n \in F
    BY <1>1
  <1>3. IsFiniteSet(F)
    <2>1. IsFiniteSet(1..n)
      BY <1>1, FS_Interval
    <2>2. F \subseteq 1..n
      BY <1>1
    <2> QED
      BY <2>1, <2>2, FS_Subset
  <1>4. Cardinality(F) \in Nat /\ Cardinality(F) # 0
    BY <1>2, <1>3, FS_CardinalityType, FS_EmptySet
  <1>5. Streak(P) = Cardinality(F)
    BY DEF Streak
  <1> QED
    BY <1>4, <1>5 DEF EvaluateToolGuard

\* Receipts are claimed only by calls that were let through.
ClaimsOf(c) ==
    \A o \in Ids : operations'[o].status # "absent" =>
        operations[o].status # "absent" \/ (o = OperationId(c) /\ Live(c))

\* c goes on or returns, with the request and the verdict it was announced with.
CallGoesOn(c) ==
    /\ OnlyCall(c)
    /\ calls'[c].q = calls[c].q /\ calls'[c].blocked = calls[c].blocked
    /\ calls'[c].stage \in {"executing", "returned"}
    /\ calls[c].settled => calls'[c].settled
    /\ calls'[c].stage = "returned" => calls'[c].settled

\* The row of c is completed at most, and fails only when c has not settled before.
RowGoesOn(c) ==
    \/ rows' = rows
    \/ \E ok \in BOOLEAN :
          rows' = Completed(rows, OperationId(c), ok) /\ (ok \/ ~calls[c].settled)

\* What RowGoesOn does to each row.
LEMMA RowsGoOn ==
    ASSUME IsRows(rows), NEW c \in Calls, RowGoesOn(c)
    PROVE  /\ IsRows(rows)' /\ Len(rows') = Len(rows) /\ DOMAIN rows' = DOMAIN rows
           /\ \A i \in DOMAIN rows :
                 /\ rows'[i].id = rows[i].id /\ rows'[i].q = rows[i].q
                 /\ rows[i].status # "running" => rows'[i].status = rows[i].status
                 /\ rows'[i].status = "failed" =>
                       \/ rows[i].status = "failed"
                       \/ rows[i].id = OperationId(c) /\ ~calls[c].settled
  <1>1. CASE rows' = rows
    BY <1>1
  <1>2. ASSUME NEW ok \in BOOLEAN, rows' = Completed(rows, OperationId(c), ok),
               ok \/ ~calls[c].settled
        PROVE  /\ IsRows(rows)' /\ Len(rows') = Len(rows) /\ DOMAIN rows' = DOMAIN rows
               /\ \A i \in DOMAIN rows :
                     /\ rows'[i].id = rows[i].id /\ rows'[i].q = rows[i].q
                     /\ rows[i].status # "running" => rows'[i].status = rows[i].status
                     /\ rows'[i].status = "failed" =>
                           \/ rows[i].status = "failed"
                           \/ rows[i].id = OperationId(c) /\ ~calls[c].settled
    BY <1>2, CompletedRows
  <1> QED
    BY <1>1, <1>2 DEF RowGoesOn

\* A live call goes on or returns.
LEMMA RepeatGoesOn ==
    ASSUME Shape, RepeatInv, NEW c \in Calls, Live(c), UNCHANGED attempt,
           CallGoesOn(c), RowGoesOn(c), ClaimsOf(c)
    PROVE  RepeatInv'
  <1>1. /\ IsRows(rows)' /\ Len(rows') = Len(rows) /\ DOMAIN rows' = DOMAIN rows
        /\ \A i \in DOMAIN rows :
              /\ rows'[i].id = rows[i].id /\ rows'[i].q = rows[i].q
              /\ rows[i].status # "running" => rows'[i].status = rows[i].status
              /\ rows'[i].status = "failed" =>
                    \/ rows[i].status = "failed"
                    \/ rows[i].id = OperationId(c) /\ ~calls[c].settled
    BY RowsGoOn DEF RepeatInv, RowShape
  <1>2. RowShape'
    BY <1>1 DEF RepeatInv, RowShape
  <1>3. PICK n \in DOMAIN rows : RowOf(c, n)
    BY DEF RepeatInv, CallRow, Live
  <1>4. ~calls[c].blocked
    BY DEF RepeatInv, CallRow
  <1>5. \A d \in Calls : OperationId(d)' = OperationId(d)
    BY DEF OperationId
  <1>6. ASSUME NEW d \in Calls PROVE CallRow(d)'
    <2>1. CASE d = c
      <3>1. RowOf(c, n)'
        BY <1>1, <1>3, <1>5 DEF RowOf, CallGoesOn, Live
      <3> QED
        BY <1>1, <1>4, <2>1, <3>1 DEF CallRow, CallGoesOn, Live
    <2>2. CASE d # c
      <3>1. calls'[d] = calls[d]
        BY <2>2 DEF CallGoesOn, OnlyCall
      <3>2. \A i \in DOMAIN rows : RowOf(d, i) => RowOf(d, i)'
        BY <1>1, <1>5, <3>1 DEF RowOf, Live
      <3> QED
        BY <1>1, <3>1, <3>2 DEF CallRow, RepeatInv, Live
    <2> QED
      BY <2>1, <2>2
  <1>7. ASSUME NEW o \in Ids, operations'[o].status # "absent"
        PROVE  \E i \in DOMAIN rows' : rows'[i].id = o
    BY <1>1, <1>3, <1>7 DEF ClaimsOf, RepeatInv, RowOf
  <1>8. ASSUME NEW i \in DOMAIN rows, NEW j \in DOMAIN rows, RepeatsIn(rows', i, j)
        PROVE  Stopped(j)'
    <2>1. i \in Nat /\ j \in Nat /\ j <= Len(rows) /\ i < j /\ DOMAIN rows = 1..Len(rows)
      BY <1>8, RowIndices DEF RepeatsIn, RepeatInv, RowShape
    <2>2. rows[i].status = "failed"
      <3> SUFFICES ASSUME rows[i].id = OperationId(c), ~calls[c].settled PROVE FALSE
        BY <1>1, <1>8 DEF RepeatsIn
      <3>1. i = n
        BY <1>3 DEF RowOf, RepeatInv, RowShape
      <3>2. calls[c].q.tool = "bash"
        BY <1>1, <1>3, <1>8, <3>1 DEF RowOf, RepeatsIn
      <3> QED
        BY <1>3, <2>1, <3>1, <3>2 DEF RowOf
    <2>3. \A k \in (i + 1)..(j - 1) : rows[k].q = rows[i].q
      <3>1. \A k \in (i + 1)..(j - 1) : k \in DOMAIN rows
        BY <2>1
      <3> QED
        BY <1>1, <1>8, <3>1 DEF RepeatsIn
    <2>4. RepeatsIn(rows, i, j)
      BY <1>1, <1>8, <2>2, <2>3 DEF RepeatsIn
    <2>5. Stopped(j)
      BY <2>4 DEF RepeatInv
    <2>6. rows[j].id # OperationId(c)
      BY <1>4, <2>5 DEF Stopped, Live
    <2>7. rows'[j].status = "failed" /\ rows'[j].id = rows[j].id /\ rows[j].id \in Ids
      BY <1>1, <2>5 DEF Stopped, RepeatInv, RowShape
    <2>8. operations'[rows[j].id].status = "absent"
      BY <2>5, <2>6, <2>7 DEF Stopped, ClaimsOf
    <2>9. ASSUME NEW d \in Calls, rows[j].id = OperationId(d), calls'[d].stage # "idle"
          PROVE  calls'[d].blocked
      <3>1. calls'[d] = calls[d]
        BY <2>6, <2>9 DEF CallGoesOn, OnlyCall
      <3> QED
        BY <2>5, <2>9, <3>1 DEF Stopped
    <2> QED
      BY <1>5, <2>7, <2>8, <2>9 DEF Stopped
  <1> QED
    BY <1>1, <1>2, <1>6, <1>7, <1>8 DEF RepeatInv

\* A live call that settles.
LEMMA SettleGoesOn ==
    ASSUME Shape, NEW c \in Calls, Live(c), NEW ok \in BOOLEAN, Settle(calls, rows, c, ok)
    PROVE  CallGoesOn(c) /\ RowGoesOn(c)
  <1>1. OnlyCall(c) /\ calls'[c].stage = "returned"
    BY SettleCalls DEF Shape
  <1>2. /\ calls'[c].settled
        /\ calls'[c].q = calls[c].q /\ calls'[c].blocked = calls[c].blocked
    BY DEF Settle, Shape, CallFields
  <1>3. RowGoesOn(c)
    BY DEF Settle, RowGoesOn
  <1> QED
    BY <1>1, <1>2, <1>3 DEF CallGoesOn

\* A step that writes the receipt of c, or none, claims for c alone.
LEMMA ReceiptClaims ==
    ASSUME Shape, NEW c \in Calls, Live(c),
           UNCHANGED operations \/ \E st : ReceiptWritten(c, st)
    PROVE  ClaimsOf(c)
  <1>1. CASE UNCHANGED operations
    BY <1>1 DEF ClaimsOf
  <1>2. ASSUME NEW st, ReceiptWritten(c, st)
        PROVE  ClaimsOf(c)
    BY <1>2, OperationIds DEF ClaimsOf, ReceiptWritten, Shape
  <1> QED
    BY <1>1, <1>2

\* The steps of a call that was let through.
LEMMA RepeatCall ==
    ASSUME Shape, RepeatInv, NEW c \in Calls,
           \/ AbortedBeforeDispatch(c) \/ ReplayOrRefuse(c)
           \/ AuthorizationRejected(c) \/ CommandBlocked(c) \/ Dispatch(c)
           \/ \E ok \in BOOLEAN : BodyEnds(c, ok)
           \/ CleanupTimesOut(c) \/ RegisterCheck(c) \/ RequestUserInput(c)
    PROVE  RepeatInv'
  <1>1. ASSUME NEW ok \in BOOLEAN, Live(c), UNCHANGED attempt, Settle(calls, rows, c, ok),
               UNCHANGED operations \/ \E st : ReceiptWritten(c, st)
        PROVE  RepeatInv'
    BY <1>1, SettleGoesOn, ReceiptClaims, RepeatGoesOn
  <1>2. CASE AbortedBeforeDispatch(c)
    BY <1>1, <1>2 DEF AbortedBeforeDispatch, Fails, Live
  <1>3. CASE ReplayOrRefuse(c)
    <2>1. Live(c) /\ UNCHANGED <<attempt, operations>>
      BY <1>3 DEF ReplayOrRefuse, Live
    <2>2. \E ok \in BOOLEAN : Settle(calls, rows, c, ok)
      BY <1>3 DEF ReplayOrRefuse, Unclaimed, Fails
    <2> QED
      BY <1>1, <2>1, <2>2
  <1>4. CASE AuthorizationRejected(c)
    BY <1>1, <1>4 DEF AuthorizationRejected, Fails, Live
  <1>5. CASE CommandBlocked(c)
    BY <1>1, <1>5 DEF CommandBlocked, Fails, Live
  <1>6. CASE Dispatch(c)
    <2>1. Live(c) /\ UNCHANGED <<attempt, rows>> /\ ReceiptWritten(c, "running")
      BY <1>6 DEF Dispatch, Live
    <2>2. CallGoesOn(c)
      BY <1>6 DEF Dispatch, CallGoesOn, OnlyCall, Shape, CallFields
    <2> QED
      BY <2>1, <2>2, ReceiptClaims, RepeatGoesOn DEF RowGoesOn
  <1>7. ASSUME NEW ok \in BOOLEAN, BodyEnds(c, ok)
        PROVE  RepeatInv'
    <2>1. Live(c) /\ UNCHANGED attempt
      BY <1>7 DEF BodyEnds, Live
    <2>2. UNCHANGED operations \/ \E st : ReceiptWritten(c, st)
      BY <1>7 DEF BodyEnds
    <2>3. \E b \in BOOLEAN : Settle(calls, rows, c, b)
      BY <1>7 DEF BodyEnds, FenceValid, CurrentAttempt
    <2> QED
      BY <1>1, <2>1, <2>2, <2>3
  <1>8. CASE CleanupTimesOut(c)
    <2>1. Live(c) /\ UNCHANGED attempt /\ Settle(calls, rows, c, FALSE)
      BY <1>8 DEF CleanupTimesOut, Fails, Live
    <2>2. UNCHANGED operations \/ \E st : ReceiptWritten(c, st)
      BY <1>8 DEF CleanupTimesOut
    <2> QED
      BY <1>1, <2>1, <2>2
  <1>9. CASE RegisterCheck(c)
    <2>1. Live(c) /\ UNCHANGED <<attempt, operations>>
      BY <1>9 DEF RegisterCheck, Live
    <2>2. \E ok \in BOOLEAN : Settle(calls, rows, c, ok)
      BY <1>9 DEF RegisterCheck, Fails
    <2> QED
      BY <1>1, <2>1, <2>2
  <1>10. CASE RequestUserInput(c)
    <2>1. Live(c) /\ UNCHANGED <<attempt, operations>>
      BY <1>10 DEF RequestUserInput, Live
    <2>2. CASE Fails(c)
      BY <1>1, <2>1, <2>2 DEF Fails
    <2>3. CASE /\ rows' = Completed(rows, OperationId(c), TRUE)
               /\ calls' = [calls EXCEPT ![c].stage = "returned", ![c].settled = TRUE]
      <3>1. CallGoesOn(c)
        BY <2>3 DEF CallGoesOn, OnlyCall, Shape, CallFields
      <3> QED
        BY <2>1, <2>3, <3>1, ReceiptClaims, RepeatGoesOn DEF RowGoesOn
    <2> QED
      BY <1>10, <2>2, <2>3 DEF RequestUserInput
  <1> QED
    BY <1>2, <1>3, <1>4, <1>5, <1>6, <1>7, <1>8, <1>9, <1>10

\* A call id that comes again has settled, so its row stays as it is.
LEMMA RepeatAgain ==
    ASSUME Shape, RepeatInv, NEW c \in Calls, NEW q, AnnounceAgain(c, q),
           UNCHANGED <<attempt, operations>>
    PROVE  RepeatInv'
  <1>1. /\ OnlyCall(c) /\ UNCHANGED rows
        /\ calls'[c].q = calls[c].q /\ calls'[c].blocked = calls[c].blocked
        /\ calls'[c].stage = "hooked" /\ calls'[c].settled = calls[c].settled
    BY DEF AnnounceAgain, OnlyCall, Shape, CallFields
  <1>2. calls[c].stage = "returned" /\ ~calls[c].blocked /\ calls[c].settled
    BY DEF AnnounceAgain, RepeatInv, CallRow
  <1>3. \A d \in Calls : OperationId(d)' = OperationId(d)
    BY DEF OperationId
  <1>4. ASSUME NEW d \in Calls PROVE CallRow(d)'
    <2>1. CASE d = c
      <3>1. \A i \in DOMAIN rows : RowOf(c, i) => RowOf(c, i)'
        BY <1>1, <1>2, <1>3 DEF RowOf
      <3> QED
        BY <1>1, <1>2, <2>1, <3>1 DEF CallRow, RepeatInv, Live
    <2>2. CASE d # c
      <3>1. calls'[d] = calls[d]
        BY <1>1, <2>2 DEF OnlyCall
      <3>2. \A i \in DOMAIN rows : RowOf(d, i) => RowOf(d, i)'
        BY <1>1, <1>3, <3>1 DEF RowOf, Live
      <3> QED
        BY <1>1, <3>1, <3>2 DEF CallRow, RepeatInv, Live
    <2> QED
      BY <2>1, <2>2
  <1>5. ASSUME NEW j \in DOMAIN rows, Stopped(j) PROVE Stopped(j)'
    BY <1>1, <1>2, <1>3, <1>5 DEF Stopped, OnlyCall
  <1>6. RowShape'
    BY <1>1 DEF RepeatInv, RowShape
  <1> QED
    BY <1>1, <1>4, <1>5, <1>6 DEF RepeatInv

\* A new call with a row of its own.
LEMMA RepeatRecorded ==
    ASSUME Shape, RepeatInv, NEW c \in Calls, NEW q, MayStart(q), ~Recorded(c),
           UNCHANGED <<attempt, operations>>, OnlyCall(c), calls'[c].q = q,
           IsRows(rows)', Len(rows') = Len(rows) + 1,
           \A i \in DOMAIN rows : rows'[i] = rows[i],
           rows'[Len(rows) + 1].id = OperationId(c), rows'[Len(rows) + 1].q = q,
           \/ /\ calls'[c].blocked /\ calls'[c].stage = "returned" /\ calls'[c].settled
              /\ rows'[Len(rows) + 1].status = "failed"
           \/ /\ ~calls'[c].blocked /\ calls'[c].stage = "hooked"
              /\ ~EvaluateToolGuard(q)
    PROVE  RepeatInv'
  <1> DEFINE n == Len(rows)
  <1>1. /\ n \in Nat /\ DOMAIN rows = 1..n /\ DOMAIN rows' = 1..(n + 1)
        /\ n + 1 \notin DOMAIN rows
    BY RowIndices DEF RepeatInv, RowShape
  <1>2. \A i \in DOMAIN rows : rows[i].id # OperationId(c)
    BY DEF Recorded
  <1>3. \A d \in Calls : OperationId(d)' = OperationId(d)
    BY DEF OperationId
  <1>4. \A d \in Calls \ {c} : calls'[d] = calls[d] /\ OperationId(d) # OperationId(c)
    BY OperationIds DEF OnlyCall
  <1>5. OperationId(c) \in Ids /\ OperationId(c)[1] = attempt /\ attempt \in Nat
    BY OperationIds DEF Shape
  <1>6. RowShape'
    <2>1. \A i \in DOMAIN rows' : i \in DOMAIN rows \/ i = n + 1
      BY <1>1
    <2>2. \A i, j \in DOMAIN rows' : rows'[i].id = rows'[j].id => i = j
      BY <1>2, <2>1 DEF RepeatInv, RowShape
    <2>3. \A i \in DOMAIN rows' : rows'[i].id \in Ids /\ rows'[i].id[1] <= attempt
      BY <1>5, <2>1 DEF RepeatInv, RowShape
    <2> QED
      BY <2>2, <2>3 DEF RowShape
  <1>7. ASSUME NEW d \in Calls PROVE CallRow(d)'
    <2>1. CASE d = c
      <3>1. PICK m \in DOMAIN rows' : m = Len(rows')
        BY <1>1
      <3>2. RowOf(c, m)'
        BY <1>1, <1>3, <3>1 DEF RowOf
      <3> QED
        BY <2>1, <3>2 DEF CallRow, Live
    <2>2. CASE d # c
      <3>1. Live(d) => calls[d].q.tool = "ls"
        BY DEF MayStart, Live, ExecutionModeSequential
      <3>2. \A i \in DOMAIN rows : RowOf(d, i) => i \in DOMAIN rows' /\ RowOf(d, i)'
        BY <1>1, <1>3, <1>4, <2>2, <3>1 DEF RowOf, Live
      <3>3. CallRow(d) /\ calls'[d] = calls[d]
        BY <1>4, <2>2 DEF RepeatInv
      <3> QED
        BY <3>2, <3>3 DEF CallRow, Live
    <2> QED
      BY <2>1, <2>2
  <1>8. ASSUME NEW o \in Ids, operations[o].status # "absent"
        PROVE  \E i \in DOMAIN rows' : rows'[i].id = o
    BY <1>1, <1>8 DEF RepeatInv
  <1>9. ASSUME NEW i \in DOMAIN rows', NEW j \in DOMAIN rows', RepeatsIn(rows', i, j)
        PROVE  Stopped(j)'
    <2>1. i \in DOMAIN rows /\ i \in Nat /\ j \in Nat /\ i < j /\ j <= n + 1
      BY <1>1, <1>9 DEF RepeatsIn
    <2>2. ASSUME NEW k \in DOMAIN rows, i < k, k <= j, rows[k].q = rows[i].q
          PROVE  Stopped(k)
      <3>1. \A m \in (i + 1)..(k - 1) : m \in DOMAIN rows /\ m \in (i + 1)..(j - 1)
        BY <1>1, <2>1, <2>2
      <3>2. \A m \in (i + 1)..(k - 1) : rows[m].q = rows[i].q
        BY <1>9, <2>1, <3>1 DEF RepeatsIn
      <3>3. RepeatsIn(rows, i, k)
        BY <1>9, <2>1, <2>2, <3>2 DEF RepeatsIn
      <3> QED
        BY <2>1, <2>2, <3>3 DEF RepeatInv
    <2>3. CASE j \in DOMAIN rows
      <3>1. Stopped(j)
        BY <1>9, <2>1, <2>2, <2>3 DEF RepeatsIn
      <3>2. ASSUME NEW d \in Calls, rows[j].id = OperationId(d), calls'[d].stage # "idle"
            PROVE  calls'[d].blocked
        BY <1>2, <1>4, <2>3, <3>1, <3>2 DEF Stopped
      <3> QED
        BY <1>3, <2>3, <3>1, <3>2 DEF Stopped
    <2>4. CASE j = n + 1
      <3>1. q.tool = "bash" /\ rows[i].q = q /\ rows[i].status = "failed"
        BY <1>9, <2>1, <2>4 DEF RepeatsIn
      <3>2. n \in DOMAIN rows /\ rows[n].q = q
        BY <1>1, <1>9, <2>1, <2>4, <3>1 DEF RepeatsIn
      <3>3. rows[n].status = "failed"
        BY <1>1, <2>1, <2>2, <2>4, <3>1, <3>2 DEF Stopped
      <3>4. EvaluateToolGuard(q)
        BY <1>1, <3>1, <3>2, <3>3, GuardSeesFailure DEF RepeatInv, RowShape
      <3>5. operations[OperationId(c)].status = "absent"
        BY <1>2, <1>5 DEF RepeatInv
      <3>6. ASSUME NEW d \in Calls, rows'[j].id = OperationId(d), calls'[d].stage # "idle"
            PROVE  calls'[d].blocked
        BY <1>4, <2>4, <3>4, <3>6
      <3> QED
        BY <1>3, <2>4, <3>4, <3>5, <3>6 DEF Stopped
    <2> QED
      BY <1>1, <2>3, <2>4
  <1> QED
    BY <1>6, <1>7, <1>8, <1>9 DEF RepeatInv

\* A new call that is refused before it gets a row.
LEMMA RepeatRefused ==
    ASSUME Shape, RepeatInv, NEW c \in Calls, calls[c].stage = "idle",
           UNCHANGED <<attempt, operations, rows>>, OnlyCall(c),
           calls'[c].blocked, calls'[c].stage = "returned", calls'[c].settled
    PROVE  RepeatInv'
  <1>1. \A d \in Calls : OperationId(d)' = OperationId(d)
    BY DEF OperationId
  <1>2. ASSUME NEW d \in Calls PROVE CallRow(d)'
    <2>1. CASE d = c
      BY <2>1 DEF CallRow, Live
    <2>2. CASE d # c
      <3>1. calls'[d] = calls[d]
        BY <2>2 DEF OnlyCall
      <3>2. \A i \in DOMAIN rows : RowOf(d, i) => RowOf(d, i)'
        BY <1>1, <3>1 DEF RowOf, Live
      <3> QED
        BY <3>1, <3>2 DEF CallRow, RepeatInv, Live
    <2> QED
      BY <2>1, <2>2
  <1>3. ASSUME NEW j \in DOMAIN rows, Stopped(j) PROVE Stopped(j)'
    BY <1>1, <1>3 DEF Stopped, OnlyCall
  <1>4. RowShape'
    BY DEF RepeatInv, RowShape
  <1> QED
    BY <1>2, <1>3, <1>4 DEF RepeatInv

\* Announcing a call.
LEMMA RepeatBefore ==
    ASSUME Shape, RepeatInv, NEW c \in Calls, NEW q, BeforeToolCall(c, q)
    PROVE  RepeatInv'
  <1>1. UNCHANGED <<attempt, operations>>
    BY DEF BeforeToolCall
  <1>2. CASE AnnounceAgain(c, q)
    BY <1>1, <1>2, RepeatAgain
  <1>3. CASE Announce(c, q)
    <2>1. PICK goalAllows \in BOOLEAN :
            LET admitted == Preflight(q, goalAllows)
                created == admitted /\ ~Recorded(c)
                blocked == ~admitted \/ Recorded(c) \/ EvaluateToolGuard(q)
                called == [NoCall EXCEPT !.stage = "hooked", !.q = q,
                                         !.blocked = blocked, !.recorded = created]
                recorded == IF created
                            THEN Append(rows, [id |-> OperationId(c), q |-> q,
                                               status |-> "running"])
                            ELSE rows
            IN  /\ admitted => FenceValid
                /\ IF blocked
                   THEN Settle([calls EXCEPT ![c] = called], recorded, c, FALSE)
                   ELSE /\ calls' = [calls EXCEPT ![c] = called]
                        /\ rows' = recorded
      BY <1>3 DEF Announce
    <2> DEFINE admitted == Preflight(q, goalAllows)
               created == admitted /\ ~Recorded(c)
               blocked == ~admitted \/ Recorded(c) \/ EvaluateToolGuard(q)
               called == [NoCall EXCEPT !.stage = "hooked", !.q = q,
                                        !.blocked = blocked, !.recorded = created]
               cs == [calls EXCEPT ![c] = called]
               added == Append(rows, [id |-> OperationId(c), q |-> q, status |-> "running"])
    <2>2. /\ created \in BOOLEAN /\ blocked \in BOOLEAN
          /\ ~created => blocked
          /\ created => FenceValid
          /\ created => ~Recorded(c)
          /\ ~blocked => ~EvaluateToolGuard(q)
      BY <2>1 DEF Preflight
    <2>3. blocked => Settle(cs, IF created THEN added ELSE rows, c, FALSE)
      BY <2>1
    <2>4. ~blocked => calls' = cs /\ rows' = IF created THEN added ELSE rows
      BY <2>1
    <2> HIDE DEF created, blocked
    <2>5. /\ called.stage = "hooked" /\ called.q = q /\ called.blocked = blocked
          /\ called.recorded = created /\ called.settled = FALSE
          /\ CallFields \subseteq DOMAIN called
      BY <2>2 DEF NoCall, CallFields
    <2> HIDE DEF called
    <2>6. /\ DOMAIN cs = Calls /\ cs[c] = called
          /\ \A d \in Calls \ {c} : cs[d] = calls[d]
      BY DEF Shape
    <2> HIDE DEF cs
    <2>7. blocked => /\ OnlyCall(c) /\ calls'[c].stage = "returned" /\ calls'[c].settled
                     /\ calls'[c].q = q /\ calls'[c].blocked
      <3> SUFFICES ASSUME blocked PROVE /\ OnlyCall(c) /\ calls'[c].stage = "returned"
                                        /\ calls'[c].settled
                                        /\ calls'[c].q = q /\ calls'[c].blocked
        OBVIOUS
      <3>1. OnlyCall(c) /\ calls'[c].stage = "returned"
        BY <2>3, <2>5, <2>6, SettleCalls
      <3>2. calls'[c].settled /\ calls'[c].q = q /\ calls'[c].blocked
        BY <2>3, <2>5, <2>6 DEF Settle, CallFields
      <3> QED
        BY <3>1, <3>2
    <2>8. CASE ~created
      <3>1. blocked /\ rows' = rows
        BY <2>2, <2>3, <2>5, <2>6, <2>8 DEF Settle
      <3>2. calls[c].stage = "idle"
        BY <1>3 DEF Announce
      <3> QED
        BY <1>1, <2>7, <3>1, <3>2, RepeatRefused
    <2>9. CASE created
      <3>1. IsRows(rows) /\ Len(rows) \in Nat /\ DOMAIN rows = 1..Len(rows)
        BY RowIndices DEF RepeatInv, RowShape
      <3>2. /\ IsRows(added) /\ Len(added) = Len(rows) + 1 /\ DOMAIN added = 1..(Len(rows) + 1)
            /\ \A i \in DOMAIN rows : added[i] = rows[i]
            /\ added[Len(rows) + 1] = [id |-> OperationId(c), q |-> q, status |-> "running"]
        <4>1. PICK e : e = [id |-> OperationId(c), q |-> q, status |-> "running"]
          OBVIOUS
        <4>2. DOMAIN e = {"id", "q", "status"} /\ added = Append(rows, e)
          BY <4>1
        <4>3. Grown(rows, e, added)
          BY <4>2 DEF Grown
        <4> HIDE DEF added
        <4>4. /\ IsRows(added) /\ Len(added) = Len(rows) + 1 /\ DOMAIN added = 1..(Len(rows) + 1)
              /\ \A i \in DOMAIN rows : added[i] = rows[i]
              /\ added[Len(rows) + 1] = e
          BY <3>1, <4>2, <4>3, AppendedRows
        <4> QED
          BY <4>1, <4>4
      <3>3. MayStart(q)
        BY <1>3 DEF Announce
      <3> HIDE DEF added
      <3>4. CASE blocked
        <4>1. rows' = Completed(added, OperationId(c), FALSE)
          BY <2>2, <2>3, <2>5, <2>6, <2>9, <3>4 DEF Settle
        <4>2. /\ IsRows(rows') /\ Len(rows') = Len(rows) + 1
              /\ rows'[Len(rows) + 1].id = OperationId(c) /\ rows'[Len(rows) + 1].q = q
              /\ rows'[Len(rows) + 1].status = "failed"
          <5>1. /\ IsRows(rows') /\ Len(rows') = Len(added)
                /\ \A i \in DOMAIN added :
                      /\ rows'[i].id = added[i].id /\ rows'[i].q = added[i].q
                      /\ added[i].id = OperationId(c) /\ added[i].status = "running" =>
                            rows'[i].status = "failed"
            <6>1. PICK ok \in BOOLEAN : ok = FALSE
              OBVIOUS
            <6>2. rows' = Completed(added, OperationId(c), ok)
              BY <4>1, <6>1
            <6> QED
              BY <3>2, <6>1, <6>2, CompletedRows
          <5>2. Len(rows) + 1 \in DOMAIN added
            BY <3>1, <3>2
          <5> QED
            BY <3>2, <5>1, <5>2
        <4>3. \A i \in DOMAIN rows : rows'[i] = rows[i]
          <5>1. \A i \in DOMAIN rows : i \in DOMAIN added /\ added[i].id # OperationId(c)
            BY <2>2, <2>9, <3>1, <3>2 DEF Recorded
          <5> QED
            BY <3>2, <4>1, <5>1 DEF Completed
        <4>4. IsRows(rows)'
          BY <4>2 DEF IsRows
        <4> QED
          BY <1>1, <2>2, <2>7, <2>9, <3>3, <3>4, <4>2, <4>3, <4>4, RepeatRecorded
      <3>5. CASE ~blocked
        <4>1. rows' = added /\ calls' = cs
          BY <2>4, <2>9, <3>5
        <4>2. /\ OnlyCall(c) /\ calls'[c].q = q /\ ~calls'[c].blocked
              /\ calls'[c].stage = "hooked"
          BY <2>5, <2>6, <3>5, <4>1 DEF OnlyCall
        <4>3. IsRows(rows)'
          BY <3>2, <4>1 DEF IsRows
        <4> QED
          BY <1>1, <2>2, <2>9, <3>2, <3>3, <3>5, <4>1, <4>2, <4>3, RepeatRecorded
      <3> QED
        BY <3>4, <3>5
    <2> QED
      BY <2>8, <2>9
  <1> QED
    BY <1>2, <1>3 DEF BeforeToolCall

\* A restart settles no row as failed, and forgets the calls.
LEMMA RepeatRestart ==
    ASSUME Shape, RepeatInv, Restart
    PROVE  RepeatInv'
  <1>1. \A c \in Calls : calls'[c] = NoCall
    BY DEF Restart
  <1>2. \A o \in Ids : operations'[o].status = Recovered(operations[o].status)
    BY DEF Restart, Shape
  <1>3. /\ rows' = [i \in DOMAIN rows |-> [rows[i] EXCEPT !.status = Recovered(@)]]
        /\ UNCHANGED attempt
    BY DEF Restart
  <1>4. \A i \in DOMAIN rows : DOMAIN rows[i] = {"id", "q", "status"}
    BY DEF RepeatInv, RowShape, IsRows
  <1>5. \A i \in DOMAIN rows :
           /\ DOMAIN rows'[i] = {"id", "q", "status"}
           /\ rows'[i].id = rows[i].id /\ rows'[i].q = rows[i].q
           /\ rows'[i].status = Recovered(rows[i].status)
    BY <1>3, <1>4
  <1>6. IsRows(rows') /\ Len(rows') = Len(rows) /\ DOMAIN rows' = DOMAIN rows
    <2>1. rows' = [i \in DOMAIN rows |-> rows'[i]]
      BY <1>3
    <2> QED
      BY <1>5, <2>1, SameRows DEF RepeatInv, RowShape
  <1>7. RowShape'
    <2>1. \A i, j \in DOMAIN rows : rows'[i].id = rows'[j].id => i = j
      BY <1>5 DEF RepeatInv, RowShape
    <2>2. \A i \in DOMAIN rows : rows'[i].id \in Ids /\ rows'[i].id[1] <= attempt
      BY <1>5 DEF RepeatInv, RowShape
    <2>3. IsRows(rows)'
      BY <1>6 DEF IsRows
    <2> QED
      BY <1>3, <1>6, <2>1, <2>2, <2>3 DEF RowShape
  <1>8. \A c \in Calls : CallRow(c)'
    BY <1>1 DEF CallRow, Live, NoCall
  <1>9. \A o \in Ids : operations'[o].status # "absent" => \E i \in DOMAIN rows' : rows'[i].id = o
    BY <1>2, <1>5, <1>6 DEF RepeatInv, Recovered
  <1>10. ASSUME NEW i \in DOMAIN rows, NEW j \in DOMAIN rows, RepeatsIn(rows', i, j)
         PROVE  Stopped(j)'
    <2>1. \A k \in (i + 1)..(j - 1) : k \in DOMAIN rows
      BY RowIndices DEF RepeatInv, RowShape
    <2>2. RepeatsIn(rows, i, j)
      BY <1>5, <1>10, <2>1 DEF RepeatsIn, Recovered
    <2>3. Stopped(j) /\ rows[j].id \in Ids
      BY <2>2 DEF RepeatInv, RowShape
    <2> QED
      BY <1>1, <1>2, <1>5, <2>3 DEF Stopped, Recovered, NoCall
  <1> QED
    BY <1>6, <1>7, <1>8, <1>9, <1>10 DEF RepeatInv

\* Every step keeps the repeats stopped.
LEMMA RepeatNext == ReceiptInv /\ RepeatInv /\ [Next]_vars => RepeatInv'
  <1> SUFFICES ASSUME Shape, RepeatInv, [Next]_vars PROVE RepeatInv'
    BY DEF ReceiptInv
  <1>1. ASSUME UNCHANGED <<attempt, calls, rows, operations>> PROVE RepeatInv'
    <2>1. \A d \in Calls : OperationId(d)' = OperationId(d)
      BY <1>1 DEF OperationId
    <2>2. \A d \in Calls : CallRow(d)'
      BY <1>1, <2>1 DEF RepeatInv, CallRow, RowOf, Live
    <2>3. \A j \in DOMAIN rows : Stopped(j) => Stopped(j)'
      BY <1>1, <2>1 DEF Stopped
    <2> QED
      BY <1>1, <2>2, <2>3 DEF RepeatInv, RowShape
  <1>2. CASE NextAttempt
    <2>1. /\ attempt' = attempt + 1 /\ attempt \in Nat /\ UNCHANGED <<rows, operations>>
          /\ \A c \in Calls : calls'[c] = NoCall
      BY <1>2 DEF NextAttempt, Shape
    <2>2. RowShape'
      <3>1. \A i \in DOMAIN rows : rows[i].id[1] \in Nat
        BY DEF RepeatInv, RowShape, Ids
      <3> QED
        BY <2>1, <3>1 DEF RepeatInv, RowShape
    <2>3. \A c \in Calls : CallRow(c)'
      BY <2>1 DEF CallRow, Live, NoCall
    <2>4. \A j \in DOMAIN rows : Stopped(j) => Stopped(j)'
      BY <2>1 DEF Stopped, NoCall
    <2> QED
      BY <2>1, <2>2, <2>3, <2>4 DEF RepeatInv
  <1>3. CASE UNCHANGED vars
    BY <1>1, <1>3 DEF vars
  <1>4. CASE (\E o \in Ids : EffectLands(o)) \/ Abort \/ AttemptEnds \/ LeaseExpires
             \/ ApprovalExpires
    BY <1>1, <1>4 DEF EffectLands, Abort, AttemptEnds, LeaseExpires, ApprovalExpires
  <1> QED
    BY <1>2, <1>3, <1>4, RepeatBefore, RepeatCall, RepeatRestart DEF Next

(***************************************************************************)
(* evaluateToolGuard: a Bash command that failed is not claimed again with  *)
(* the same arguments as the next call, in this Attempt or a later one,     *)
(* whatever was aborted, fenced off or restarted in between.                *)
(***************************************************************************)
THEOREM FailedCommandsDoNotRepeat == Spec => []NoBlindRepeat
  <1>1. Init => RepeatInv
    <2> SUFFICES ASSUME Init PROVE RepeatInv
      OBVIOUS
    <2>1. rows = <<>> /\ DOMAIN rows = {}
      BY DEF Init
    <2>2. RowShape
      BY <2>1 DEF RowShape, IsRows
    <2> QED
      BY <2>1, <2>2 DEF Init, RepeatInv, CallRow, Live, NoCall, NoOperation
  <1>2. RepeatInv => NoBlindRepeat
    BY DEF RepeatInv, RepeatsIn, Stopped, NoBlindRepeat
  <1> QED
    BY <1>1, <1>2, RepeatNext, ReceiptsHold, PTL DEF Spec

=============================================================================
