------------------------- MODULE OperationReceipts -------------------------
(***************************************************************************)
(* Receipts of effects that are not one transaction: operator and admin    *)
(* operations (runProfileOperation) and TaskRun commands. The receipt is   *)
(* claimed as "started" before the effect, settled after it, and a restart *)
(* turns what is still started into outcome_unknown.                       *)
(*                                                                         *)
(* Three kinds of operation: "start" launches a queued Inbox item in the   *)
(* same synchronous step as the claim, and the TaskRun it creates freezes  *)
(* the Skills of its Workspace; "memory" awaits the Memory service, whose  *)
(* effect may land after the call failed; "command" awaits a service of    *)
(* the Core. effects is a history variable that counts what landed.        *)
(***************************************************************************)
EXTENDS SkillCenter

CONSTANTS OpKeys    \* idempotency keys of operations

VARIABLES
    ops,            \* profile_operation_receipts and task_run_command_receipts
    effects,        \* how often the effect of each key landed
    told            \* terminal states the clients of each key were told

opVars == <<ops, effects, told>>

NoOperation == [kind |-> None, status |-> "none", running |-> FALSE, pending |-> FALSE]

Terminal == {"succeeded", "failed", "outcome_unknown"}

(* A claim that takes an interrupted operation for one never made. *)
ClaimableAgain(k) == ops[k].status \in {"none", "outcome_unknown"}

Claimable(k) == ops[k].status = "none"

(* The receipt a claim inserts: started, its execution under way, and its  *)
(* effect still to land unless the claim and the effect are one step.      *)
Claimed(kind, pending) ==
    [kind |-> kind, status |-> "started", running |-> TRUE, pending |-> pending]

Tell(k, status) ==
    told' = [told EXCEPT ![k] = IF status \in Terminal THEN @ \cup {status} ELSE @]

(* The claim and the synchronous launch; the settlement follows the await. *)
StartOperation(k, w) ==
    /\ Claimable(k)
    /\ ops' = [ops EXCEPT ![k] = Claimed("start", FALSE)]
    /\ effects' = [effects EXCEPT ![k] = @ + 1]
    /\ Freeze(w)
    /\ UNCHANGED told

(* No effect: the launch was refused, or a command names a decision that   *)
(* is no longer pending or an Attempt that is no longer current ("failed");*)
(* or the launch threw before it changed anything ("outcome_unknown").     *)
RefuseOperation(k, kind, status) ==
    /\ Claimable(k)
    /\ status = "failed" \/ kind = "start"
    /\ ops' = [ops EXCEPT ![k] = [kind |-> kind, status |-> status,
                                  running |-> FALSE, pending |-> FALSE]]
    /\ Tell(k, status)
    /\ UNCHANGED <<effects, runs>>

(* Capture, governance and deletion of Memory await the Memory service.    *)
CallMemory(k) ==
    /\ Claimable(k)
    /\ ops' = [ops EXCEPT ![k] = Claimed("memory", TRUE)]
    /\ UNCHANGED <<effects, told, runs>>

(* A TaskRun command passes its checks and awaits the service it calls.    *)
CallCommand(k) ==
    /\ Claimable(k)
    /\ ops' = [ops EXCEPT ![k] = Claimed("command", TRUE)]
    /\ UNCHANGED <<effects, told, runs>>

EffectLands(k) ==
    /\ ops[k].pending
    /\ ops' = [ops EXCEPT ![k].pending = FALSE]
    /\ effects' = [effects EXCEPT ![k] = @ + 1]
    /\ UNCHANGED <<told, runs>>

(* A settlement that does not ask whether the receipt is still started. *)
SettledAnyway(old, status) == status

(* settleOperation and settleTaskRunCommand change a started receipt only. *)
Settled(old, status) == IF old = "started" THEN status ELSE old

Settle(k, status, pending) ==
    /\ ops[k].running
    /\ ops' = [ops EXCEPT ![k].status = Settled(@, status),
                          ![k].running = FALSE, ![k].pending = pending]
    /\ Tell(k, ops'[k].status)
    /\ UNCHANGED <<effects, runs>>

OperationReturns(k) == ~ops[k].pending /\ Settle(k, "succeeded", FALSE)

(* The awaited call throws, before or after its effect landed: a Memory    *)
(* request may still be under way, so its outcome is unknown; that of a    *)
(* launch that threw after it started the TaskRun is unknown too.          *)
EffectThrows(k) ==
    /\ ops[k].kind \in {"start", "memory"}
    /\ Settle(k, "outcome_unknown", ops[k].pending)

(* A command ends with its call and has failed: the route settles the      *)
(* receipt and throws the failure at its client, whether or not the        *)
(* settlement changed the receipt.                                         *)
CommandThrows(k) ==
    /\ ops[k].kind = "command" /\ ops[k].running
    /\ ops' = [ops EXCEPT ![k].status = Settled(@, "failed"),
                          ![k].running = FALSE, ![k].pending = FALSE]
    /\ Tell(k, "failed")
    /\ UNCHANGED <<effects, runs>>

(* A retry, or a read of the receipt.                                      *)
ReadReceipt(k) ==
    /\ ~Claimable(k)
    /\ Tell(k, ops[k].status)
    /\ UNCHANGED <<ops, effects, runs>>

(* Opening the store marks every started receipt.                          *)
InitializeSchema(o) ==
    [k \in OpKeys |->
        [o[k] EXCEPT !.status = IF @ = "started" THEN "outcome_unknown" ELSE @]]

(* A second process opens the store while this one executes: WriterFence   *)
(* shows how the instance lock can be lost, and nothing else guards it.    *)
OpenElsewhere ==
    /\ ops' = InitializeSchema(ops)
    /\ ops' # ops
    /\ UNCHANGED <<effects, told, runs>>

(* The executions of a dead process are gone; a Memory request is not.     *)
Recovered ==
    LET o == InitializeSchema(ops)
    IN [k \in OpKeys |-> [o[k] EXCEPT !.running = FALSE,
                                      !.pending = @ /\ o[k].kind = "memory"]]

(* The process ends at any point of any handler and starts again.          *)
Restart ==
    /\ HandlersLost
    /\ ops' = Recovered
    /\ UNCHANGED <<db, disk, receipts, asked, reply, runs, effects, told>>

(* The process ends between the claim of an operation and its effect.      *)
RestartAfterClaim(k) ==
    /\ Claimable(k)
    /\ HandlersLost
    /\ ops' = [Recovered EXCEPT ![k] = [kind |-> "start", status |-> "outcome_unknown",
                                        running |-> FALSE, pending |-> FALSE]]
    /\ UNCHANGED <<db, disk, receipts, asked, reply, runs, effects, told>>

Operate(k) ==
    \/ \E w \in Workspaces : StartOperation(k, w)
    \/ \E kind \in {"start", "command"}, status \in {"failed", "outcome_unknown"} :
          RefuseOperation(k, kind, status)
    \/ CallMemory(k) \/ CallCommand(k)
    \/ OpenElsewhere
    \/ EffectLands(k) \/ OperationReturns(k)
    \/ EffectThrows(k) \/ CommandThrows(k) \/ ReadReceipt(k)

OperationInit ==
    /\ ops = [k \in OpKeys |-> NoOperation]
    /\ effects = [k \in OpKeys |-> 0]
    /\ told = [k \in OpKeys |-> {}]

(***************************************************************************)
(* Properties.                                                             *)
(***************************************************************************)

(* The effect bound to one key lands at most once, with retries, throws,   *)
(* late effects and restarts at any point (runProfileOperation claims      *)
(* before the effect; outcome_unknown is never permission to replay).      *)
OneEffectPerKey == \A k \in OpKeys : effects[k] <= 1

(* A receipt was swept under a command that then threw: the client of the  *)
(* command heard a failure, and the receipt says its outcome is unknown.   *)
FailedUnderSweep(k) ==
    /\ ops[k].kind = "command" /\ ops[k].status = "outcome_unknown"
    /\ told[k] \subseteq {"failed", "outcome_unknown"}

(* What the clients of a key were told, whichever of them asked and before *)
(* or after a restart, is what its receipt says: settleOperation and       *)
(* settleTaskRunCommand never overwrite a swept receipt. The one exception *)
(* is a command whose receipt a second opener swept (store.ts:263) and     *)
(* whose service then threw; no client of it is told that it succeeded.    *)
OutcomesAgree ==
    \A k \in OpKeys : told[k] \subseteq {ops[k].status} \/ FailedUnderSweep(k)
============================================================================
