------------------------- MODULE SkillConsoleProofs -------------------------
(***************************************************************************)
(* Proofs about SkillConsole, the composition of the Skills center, the     *)
(* operation receipts and one tab of the web console, for every set of      *)
(* Workspaces, keys, uploads, edits and scenarios.                          *)
(*                                                                          *)
(* 1. The receipts: a claim is made once, so an effect is owed or has       *)
(*    landed, never both (OwedInv), and what a client was told is what the  *)
(*    receipt says now, but for a command that threw under a sweep          *)
(*    (OutcomesAgree, inductive as it stands).  OneEffectPerKey follows.    *)
(* 2. The tab: a refresh or a mutation whose authority is still current     *)
(*    belongs to the Workspace the tab shows (AuthorityInv).                *)
(*    ShownSelectionIsHere follows.                                         *)
(* 3. Edits: every revision a client, a handler or the tab expects was read *)
(*    from the catalog and is not ahead of it (EditInv), so an edit that is *)
(*    not refused holds the files of the revision it supersedes.            *)
(*    EditKeepsSupportingFiles follows.                                     *)
(***************************************************************************)
EXTENDS SkillConsole, FiniteSetTheorems, TLAPS

-----------------------------------------------------------------------------
(* 1. Operation receipts.                                                   *)

OpKinds == {None, "start", "memory", "command"}
OpStatuses == {"none", "started"} \cup Terminal

OpRecord == [kind : OpKinds, status : OpStatuses, running : BOOLEAN, pending : BOOLEAN]

OpsOK ==
    /\ ops \in [OpKeys -> OpRecord]
    /\ effects \in [OpKeys -> Nat]
    /\ told \in [OpKeys -> SUBSET Terminal]
    /\ scenario \in Scenarios

\* a key that was never claimed has no effect; an effect still to land has not landed;
\* while an operation executes, only a sweep has touched its receipt
OwedInv ==
    \A k \in OpKeys :
        /\ effects[k] <= 1
        /\ ops[k].pending => effects[k] = 0
        /\ ops[k].status = "none" => effects[k] = 0 /\ ~ops[k].pending /\ ~ops[k].running
        /\ ops[k].running => ops[k].status \in {"started", "outcome_unknown"}

\* what the clients of one key were told fits the status of its receipt
TellsReceipt(k) == told[k] \subseteq {ops[k].status} \/ FailedUnderSweep(k)

ReceiptInv == OpsOK /\ OwedInv /\ OutcomesAgree

\* How one step treats the receipt of k, the count of its effect and what was told.
Untouched(k) == ops'[k] = ops[k] /\ effects'[k] = effects[k] /\ told'[k] = told[k]

\* Everything said of a key holds of the untouched ones after the step.
LEMMA ReceiptStep ==
    ASSUME ReceiptInv, OpsOK', NEW k \in OpKeys,
           \A j \in OpKeys \ {k} : Untouched(j),
           /\ effects'[k] <= 1
           /\ ops'[k].pending => effects'[k] = 0
           /\ ops'[k].status = "none" => effects'[k] = 0 /\ ~ops'[k].pending /\ ~ops'[k].running
           /\ ops'[k].running => ops'[k].status \in {"started", "outcome_unknown"},
           TellsReceipt(k)'
    PROVE  ReceiptInv'
  <1>1. OwedInv'
    BY DEF ReceiptInv, OwedInv, Untouched
  <1>2. OutcomesAgree'
    BY DEF ReceiptInv, OutcomesAgree, TellsReceipt, FailedUnderSweep, Untouched
  <1> QED
    BY <1>1, <1>2 DEF ReceiptInv

\* A claim, a refusal and a call keep the receipts.
LEMMA ReceiptClaim ==
    ASSUME ReceiptInv, scenario' = scenario, NEW k \in OpKeys,
           \/ \E w \in Workspaces : StartOperation(k, w)
           \/ \E kind \in {"start", "command"}, status \in {"failed", "outcome_unknown"} :
                 RefuseOperation(k, kind, status)
           \/ CallMemory(k)
           \/ CallCommand(k)
    PROVE  ReceiptInv'
  <1> USE DEF ReceiptInv, OpsOK, OpRecord, OpKinds, OpStatuses, Terminal, Claimable, Claimed, Untouched,
             TellsReceipt
  <1>0. ops[k].status = "none" /\ effects[k] = 0 /\ told[k] = {}
    BY DEF OwedInv, OutcomesAgree, FailedUnderSweep, StartOperation, RefuseOperation, CallMemory, CallCommand
  <1>1. ASSUME NEW w \in Workspaces, StartOperation(k, w) PROVE ReceiptInv'
    BY <1>0, <1>1, ReceiptStep DEF StartOperation
  <1>2. ASSUME NEW kind \in {"start", "command"}, NEW status \in {"failed", "outcome_unknown"},
               RefuseOperation(k, kind, status)
        PROVE  ReceiptInv'
    BY <1>0, <1>2, ReceiptStep DEF RefuseOperation, Tell
  <1>3. CASE CallMemory(k)
    BY <1>0, <1>3, ReceiptStep DEF CallMemory
  <1>4. CASE CallCommand(k)
    BY <1>0, <1>4, ReceiptStep DEF CallCommand
  <1> QED
    BY <1>1, <1>2, <1>3, <1>4

\* The effect lands: it was still to land.
LEMMA ReceiptLands ==
    ASSUME ReceiptInv, scenario' = scenario, NEW k \in OpKeys, EffectLands(k)
    PROVE  ReceiptInv'
  <1> USE DEF ReceiptInv, OpsOK, OpRecord, Untouched
  <1>1. /\ effects[k] = 0 /\ ops[k].status # "none" /\ TellsReceipt(k)
        /\ ops[k].running => ops[k].status \in {"started", "outcome_unknown"}
    BY DEF OwedInv, OutcomesAgree, TellsReceipt, EffectLands
  <1>2. /\ ops' = [ops EXCEPT ![k] = [ops[k] EXCEPT !.pending = FALSE]]
        /\ effects' = [effects EXCEPT ![k] = 1]
        /\ told' = told
    BY <1>1 DEF EffectLands
  <1>3. /\ ops'[k].status = ops[k].status /\ ~ops'[k].pending /\ effects'[k] = 1
        /\ ops'[k].kind = ops[k].kind /\ ops'[k].running = ops[k].running
    BY <1>2
  <1>4. \A j \in OpKeys \ {k} : Untouched(j)
    BY <1>2
  <1>5. ops' \in [OpKeys -> OpRecord] /\ effects' \in [OpKeys -> Nat]
    BY <1>2
  <1>6. TellsReceipt(k)'
    BY <1>1, <1>2, <1>3 DEF TellsReceipt, FailedUnderSweep
  <1> QED
    BY <1>1, <1>2, <1>3, <1>4, <1>5, <1>6, ReceiptStep

\* A settlement moves a started receipt only.
LEMMA ReceiptSettled ==
    ASSUME ReceiptInv, NEW k \in OpKeys, NEW status \in Terminal, NEW pending \in BOOLEAN,
           ops[k].running,
           ops' = [ops EXCEPT ![k].status = Settled(@, status),
                              ![k].running = FALSE, ![k].pending = pending]
    PROVE  /\ ops' \in [OpKeys -> OpRecord]
           /\ \A j \in OpKeys \ {k} : ops'[j] = ops[j]
           /\ ops'[k].kind = ops[k].kind /\ ops'[k].pending = pending /\ ~ops'[k].running
           /\ \/ ops[k].status = "started" /\ ops'[k].status = status
              \/ ops[k].status = "outcome_unknown" /\ ops'[k].status = "outcome_unknown"
  <1> USE DEF ReceiptInv, OpsOK, OpRecord, OpStatuses, Terminal
  <1>1. ops[k].status \in {"started", "outcome_unknown"} /\ ops[k] \in OpRecord
    BY DEF OwedInv
  <1>2. ops' = [ops EXCEPT ![k] = [ops[k] EXCEPT !.status = Settled(ops[k].status, status),
                                                 !.running = FALSE, !.pending = pending]]
    OBVIOUS
  <1>3. \/ ops[k].status = "started" /\ Settled(ops[k].status, status) = status
        \/ ops[k].status = "outcome_unknown"
           /\ Settled(ops[k].status, status) = "outcome_unknown"
    BY <1>1 DEF Settled
  <1>4. /\ ops'[k].kind = ops[k].kind /\ ops'[k].pending = pending /\ ~ops'[k].running
        /\ ops'[k].status = Settled(ops[k].status, status)
    BY <1>1, <1>2
  <1>5. ops' \in [OpKeys -> OpRecord]
    BY <1>1, <1>2, <1>3
  <1> QED
    BY <1>2, <1>3, <1>4, <1>5

\* A settlement whose client is told where the receipt is.
LEMMA ReceiptSettle ==
    ASSUME ReceiptInv, scenario' = scenario, NEW k \in OpKeys,
           NEW status \in Terminal, NEW pending \in BOOLEAN, pending => ops[k].pending,
           Settle(k, status, pending)
    PROVE  ReceiptInv'
  <1>1. /\ ops' \in [OpKeys -> OpRecord]
        /\ \A j \in OpKeys \ {k} : ops'[j] = ops[j]
        /\ ops'[k].kind = ops[k].kind /\ ops'[k].pending = pending /\ ~ops'[k].running
        /\ \/ ops[k].status = "started" /\ ops'[k].status = status
           \/ ops[k].status = "outcome_unknown" /\ ops'[k].status = "outcome_unknown"
    BY ReceiptSettled DEF Settle
  <1> USE DEF ReceiptInv, OpsOK, Terminal, Untouched
  <1>2. effects[k] <= 1 /\ (pending => effects[k] = 0) /\ TellsReceipt(k)
    BY DEF OwedInv, OutcomesAgree, TellsReceipt
  <1>3. /\ told' = [told EXCEPT ![k] = @ \cup {ops'[k].status}] /\ effects' = effects
        /\ ops'[k].status \in Terminal
    BY <1>1 DEF Settle, Tell
  <1>4. told'[k] = told[k] \cup {ops'[k].status} /\ told' \in [OpKeys -> SUBSET Terminal]
    BY <1>3
  <1>5. TellsReceipt(k)'
    BY <1>1, <1>2, <1>4 DEF TellsReceipt, FailedUnderSweep
  <1>6. \A j \in OpKeys \ {k} : Untouched(j)
    BY <1>1, <1>3
  <1> QED
    BY <1>1, <1>2, <1>3, <1>4, <1>5, <1>6, ReceiptStep

\* A command that throws: its client hears the failure, its receipt moves if it was started.
LEMMA ReceiptThrows ==
    ASSUME ReceiptInv, scenario' = scenario, NEW k \in OpKeys, CommandThrows(k)
    PROVE  ReceiptInv'
  <1>1. /\ ops' \in [OpKeys -> OpRecord]
        /\ \A j \in OpKeys \ {k} : ops'[j] = ops[j]
        /\ ops'[k].kind = ops[k].kind /\ ops'[k].pending = FALSE /\ ~ops'[k].running
        /\ \/ ops[k].status = "started" /\ ops'[k].status = "failed"
           \/ ops[k].status = "outcome_unknown" /\ ops'[k].status = "outcome_unknown"
    BY ReceiptSettled DEF CommandThrows, Terminal
  <1> USE DEF ReceiptInv, OpsOK, Terminal, Untouched
  <1>2. effects[k] <= 1 /\ TellsReceipt(k) /\ ops[k].kind = "command"
    BY DEF OwedInv, OutcomesAgree, TellsReceipt, CommandThrows
  <1>3. told' = [told EXCEPT ![k] = @ \cup {"failed"}] /\ effects' = effects
    BY DEF CommandThrows, Tell
  <1>4. told'[k] = told[k] \cup {"failed"} /\ told' \in [OpKeys -> SUBSET Terminal]
    BY <1>3
  <1>5. TellsReceipt(k)'
    BY <1>1, <1>2, <1>4 DEF TellsReceipt, FailedUnderSweep
  <1>6. \A j \in OpKeys \ {k} : Untouched(j)
    BY <1>1, <1>3
  <1> QED
    BY <1>1, <1>2, <1>3, <1>4, <1>5, <1>6, ReceiptStep

\* A retry or a read tells the status and changes nothing else.
LEMMA ReceiptRead ==
    ASSUME ReceiptInv, scenario' = scenario, NEW k \in OpKeys, ReadReceipt(k)
    PROVE  ReceiptInv'
  <1> USE DEF ReceiptInv, OpsOK, OpRecord, OpStatuses, Terminal, Untouched
  <1>1. TellsReceipt(k) /\ OwedInv
    BY DEF OutcomesAgree, TellsReceipt
  <1>2. TellsReceipt(k)' /\ told' \in [OpKeys -> SUBSET Terminal]
    BY <1>1 DEF ReadReceipt, Tell, TellsReceipt, FailedUnderSweep
  <1> QED
    BY <1>1, <1>2, ReceiptStep DEF OwedInv, ReadReceipt, Tell

\* What opening the store makes of a receipt.
Swept(r) == [r EXCEPT !.status = IF @ = "started" THEN "outcome_unknown" ELSE @]

\* Opening the store, and a restart, leave every key as it may be.
LEMMA ReceiptSweep ==
    ASSUME ReceiptInv, scenario' = scenario, UNCHANGED <<effects, told>>,
           ops' \in [OpKeys -> OpRecord],
           \A k \in OpKeys : /\ ops'[k].status = Swept(ops[k]).status
                             /\ ops'[k].pending => ops[k].pending
                             /\ ops'[k].running => ops[k].running
                             /\ ops'[k].kind = ops[k].kind
    PROVE  ReceiptInv'
  <1> USE DEF ReceiptInv, OpsOK, OpRecord, OpStatuses, Terminal
  <1>1. ASSUME NEW k \in OpKeys
        PROVE  /\ ops'[k].status = "none" => ops[k].status = "none"
               /\ \/ ops[k].status = "started" /\ ops'[k].status = "outcome_unknown"
                  \/ ops'[k].status = ops[k].status
    BY DEF Swept
  <1>2. OwedInv'
    BY <1>1 DEF OwedInv
  <1>3. OutcomesAgree'
    BY <1>1 DEF OutcomesAgree, FailedUnderSweep
  <1> QED
    BY <1>2, <1>3

\* The store is opened by another process.
LEMMA ReceiptOpenElsewhere ==
    ASSUME ReceiptInv, scenario' = scenario, OpenElsewhere
    PROVE  ReceiptInv'
  <1>1. ops' = [k \in OpKeys |-> Swept(ops[k])]
    BY DEF OpenElsewhere, InitializeSchema, Swept
  <1>2. \A k \in OpKeys : Swept(ops[k]) \in OpRecord /\ Swept(ops[k]).pending = ops[k].pending
                          /\ Swept(ops[k]).running = ops[k].running
                          /\ Swept(ops[k]).kind = ops[k].kind
    BY DEF ReceiptInv, OpsOK, OpRecord, OpStatuses, Terminal, Swept
  <1> QED
    BY <1>1, <1>2, ReceiptSweep DEF OpenElsewhere

\* What a restart makes of the receipts.
LEMMA RecoveredReceipts ==
    ASSUME ReceiptInv
    PROVE  /\ Recovered \in [OpKeys -> OpRecord]
           /\ \A k \in OpKeys : /\ Recovered[k].status = Swept(ops[k]).status
                                /\ Recovered[k].pending => ops[k].pending
                                /\ ~Recovered[k].running
                                /\ Recovered[k].kind = ops[k].kind
  <1>1. Recovered = [k \in OpKeys |-> [Swept(ops[k]) EXCEPT !.running = FALSE,
                                          !.pending = @ /\ Swept(ops[k]).kind = "memory"]]
    BY DEF Recovered, InitializeSchema, Swept
  <1>2. ASSUME NEW k \in OpKeys
        PROVE  /\ Swept(ops[k]) \in OpRecord /\ Swept(ops[k]).pending = ops[k].pending
               /\ Swept(ops[k]).kind = ops[k].kind
    BY DEF ReceiptInv, OpsOK, OpRecord, OpStatuses, Terminal, Swept
  <1> QED
    BY <1>1, <1>2 DEF OpRecord

\* A restart at any point, also right after a claim.
LEMMA ReceiptRestart ==
    ASSUME ReceiptInv, scenario' = scenario,
           Restart \/ \E k \in scenario.operations : RestartAfterClaim(k)
    PROVE  ReceiptInv'
  <1>1. CASE Restart
    BY <1>1, RecoveredReceipts, ReceiptSweep DEF Restart
  <1>2. ASSUME NEW k \in OpKeys, RestartAfterClaim(k)
        PROVE  ReceiptInv'
    <2> USE DEF ReceiptInv, OpsOK, OpRecord, OpKinds, OpStatuses, Terminal
    <2>1. effects[k] = 0 /\ told[k] = {}
      BY <1>2 DEF RestartAfterClaim, Claimable, OwedInv, OutcomesAgree, FailedUnderSweep
    <2>2. /\ ops'[k] = [kind |-> "start", status |-> "outcome_unknown",
                        running |-> FALSE, pending |-> FALSE]
          /\ \A j \in OpKeys \ {k} : ops'[j] = Recovered[j]
          /\ ops' \in [OpKeys -> OpRecord]
          /\ UNCHANGED <<effects, told>>
      BY <1>2, RecoveredReceipts DEF RestartAfterClaim
    <2>3. ASSUME NEW j \in OpKeys \ {k}
          PROVE  /\ ops'[j].pending => ops[j].pending
                 /\ ~ops'[j].running
                 /\ ops'[j].kind = ops[j].kind
                 /\ ops'[j].status = "none" => ops[j].status = "none"
                 /\ \/ ops[j].status = "started" /\ ops'[j].status = "outcome_unknown"
                    \/ ops'[j].status = ops[j].status
      BY <2>2, RecoveredReceipts DEF Swept
    <2>4. OwedInv'
      BY <2>1, <2>2, <2>3 DEF OwedInv
    <2>5. OutcomesAgree'
      BY <2>1, <2>2, <2>3 DEF OutcomesAgree, FailedUnderSweep
    <2> QED
      BY <1>2, <2>2, <2>4, <2>5
  <1> QED
    BY <1>1, <1>2, SkillConsoleAssumption DEF ReceiptInv, OpsOK

\* Every step keeps the receipts.
LEMMA ReceiptNext == ReceiptInv /\ [Next]_vars => ReceiptInv'
  <1> SUFFICES ASSUME ReceiptInv, [Next]_vars PROVE ReceiptInv'
    OBVIOUS
  <1>1. ASSUME UNCHANGED <<opVars, scenario>> PROVE ReceiptInv'
    BY <1>1 DEF opVars, ReceiptInv, OpsOK, OwedInv, OutcomesAgree, FailedUnderSweep
  <1>2. ASSUME NEW k \in scenario.operations, Operate(k), scenario' = scenario
        PROVE  ReceiptInv'
    <2>1. k \in OpKeys
      BY SkillConsoleAssumption DEF ReceiptInv, OpsOK
    <2>2. ops[k].pending \in BOOLEAN
      BY <2>1 DEF ReceiptInv, OpsOK, OpRecord
    <2>3. CASE OperationReturns(k)
      BY <1>2, <2>1, <2>3, ReceiptSettle DEF OperationReturns, Terminal
    <2>4. CASE EffectThrows(k)
      BY <1>2, <2>1, <2>2, <2>4, ReceiptSettle DEF EffectThrows, Terminal
    <2>5. CASE CommandThrows(k)
      BY <1>2, <2>1, <2>5, ReceiptThrows
    <2> QED
      BY <1>2, <2>1, <2>3, <2>4, <2>5, ReceiptClaim, ReceiptLands, ReceiptRead,
         ReceiptOpenElsewhere DEF Operate
  <1>3. CASE RestartCore
    BY <1>3, ReceiptRestart DEF RestartCore
  <1>4. CASE Console
    BY <1>1, <1>4 DEF Console, Mine, EnterWorkspace, ServeCatalog, ServeSelection, ApplyRefresh,
       RefreshFails, Send, Toggle, Upload, RemoveSkill, Save, BeginEdit, OpenEditor, CloseEditor,
       MutationFails, ToggleSucceeds, ToggleCatalog, CatalogChanged
  <1> QED
    BY <1>1, <1>2, <1>3, <1>4 DEF Next, vars

\* No operation was made in the initial state.
LEMMA ReceiptInit == Init => ReceiptInv
  BY DEF Init, OperationInit, NoOperation, ReceiptInv, OpsOK, OpRecord, OpKinds, OpStatuses,
         OwedInv, OutcomesAgree

\* The receipts of operations and commands, in every reachable state.
LEMMA ReceiptsHold == Spec => []ReceiptInv
  BY ReceiptInit, ReceiptNext, PTL DEF Spec

(***************************************************************************)
(* runProfileOperation and the TaskRun commands: the effect bound to one    *)
(* idempotency key lands at most once, whatever retries, throws, late       *)
(* answers, restarts and second processes come between.                     *)
(***************************************************************************)
THEOREM EffectsLandOnce == Spec => []OneEffectPerKey
  <1>1. ReceiptInv => OneEffectPerKey
    BY DEF ReceiptInv, OwedInv, OneEffectPerKey
  <1> QED
    BY <1>1, ReceiptsHold, PTL

(***************************************************************************)
(* settleOperation, settleTaskRunCommand and the sweep at startup: what the *)
(* clients of a key were told is what its receipt says, but for a command   *)
(* that threw after a second opener swept its receipt.                      *)
(***************************************************************************)
THEOREM ClientsAreToldTheSame == Spec => []OutcomesAgree
  <1>1. ReceiptInv => OutcomesAgree
    BY DEF ReceiptInv
  <1> QED
    BY <1>1, ReceiptsHold, PTL

-----------------------------------------------------------------------------
(* 2. The tab.                                                              *)

TabFields == {"ws", "shown", "shownFor", "entries", "editor", "catalogRev", "skillRev", "bindRev"}

\* the records of the tab, of its refreshes and of its mutation have their fields
ConsoleShape ==
    /\ TabFields \subseteq DOMAIN tab
    /\ \A f \in fetches : {"ws", "current"} \subseteq DOMAIN f
    /\ job # None => {"ws", "current", "step"} \subseteq DOMAIN job

\* an answer that would still be shown is an answer for the Workspace shown
AuthorityInv ==
    /\ ConsoleShape
    /\ ShownSelectionIsHere
    /\ \A f \in fetches : f.current => f.ws = tab.ws
    /\ job # None /\ job.current => job.ws = tab.ws

\* u has the fields of t, and shows the same selection of the same Workspace
SameView(t, u) == DOMAIN u = DOMAIN t /\ u.ws = t.ws /\ u.shownFor = t.shownFor

\* What the client learns from a page does not change what the tab shows.
LEMMA LearnView ==
    ASSUME NEW t, TabFields \subseteq DOMAIN t, NEW c
    PROVE  SameView(t, Learn(t, c))
  BY DEF SameView, Learn, TabFields

\* A step that leaves the refreshes current as they were, or ends them.
LEMMA SameViewKeeps ==
    ASSUME AuthorityInv, SameView(tab, tab'), fetches' \subseteq fetches,
           job' = job \/ job' = None
    PROVE  AuthorityInv'
  BY DEF AuthorityInv, ConsoleShape, ShownSelectionIsHere, SameView

\* Entering a Workspace takes the authority of everything under way.
LEMMA EnterKeeps ==
    ASSUME AuthorityInv, NEW w \in Workspaces, EnterWorkspace(w)
    PROVE  AuthorityInv'
  <1> USE DEF AuthorityInv, ConsoleShape, TabFields
  <1>1. DOMAIN tab' = DOMAIN tab /\ tab'.ws = w /\ tab'.shownFor = None
    BY DEF EnterWorkspace
  <1>2. ASSUME NEW f \in fetches'
        PROVE  {"ws", "current"} \subseteq DOMAIN f /\ (f.current => f.ws = w)
    BY <1>2 DEF EnterWorkspace, WithRefresh, NewFetch
  <1>3. job' # None => {"ws", "current", "step"} \subseteq DOMAIN job' /\ ~job'.current
    BY DEF EnterWorkspace
  <1> QED
    BY <1>1, <1>2, <1>3 DEF ShownSelectionIsHere

\* A refresh gets an answer, is applied or fails.
LEMMA RefreshKeeps ==
    ASSUME AuthorityInv, NEW f \in fetches,
           ServeCatalog(f) \/ ServeSelection(f) \/ ApplyRefresh(f) \/ RefreshFails(f)
    PROVE  AuthorityInv'
  <1> USE DEF AuthorityInv, ConsoleShape
  <1>1. CASE ServeCatalog(f)
    BY <1>1 DEF ServeCatalog, ShownSelectionIsHere
  <1>2. CASE ServeSelection(f)
    BY <1>2 DEF ServeSelection, ShownSelectionIsHere
  <1>3. CASE ApplyRefresh(f)
    <2> DEFINE t == [Learn(tab, f.catalog) EXCEPT !.bindRev[f.ws] = f.selection.revision]
    <2>1. SameView(tab, t)
      BY LearnView DEF SameView, TabFields
    <2>2. fetches' \subseteq fetches /\ (job' = job \/ job' = None)
      BY <1>3 DEF ApplyRefresh
    <2>3. CASE ~IsCurrent(f)
      BY <1>3, <2>1, <2>2, <2>3, SameViewKeeps DEF ApplyRefresh
    <2>4. CASE IsCurrent(f)
      <3>1. tab' = [t EXCEPT !.entries = DOMAIN f.catalog.rows,
                             !.shown = f.selection.ids, !.shownFor = f.ws]
        BY <1>3, <2>4 DEF ApplyRefresh
      <3>2. DOMAIN tab' = DOMAIN tab /\ tab'.ws = tab.ws /\ tab'.shownFor = f.ws
        BY <2>1, <3>1 DEF SameView, TabFields
      <3>3. f.ws = tab.ws
        BY <2>4 DEF IsCurrent
      <3> QED
        BY <2>2, <3>2, <3>3 DEF ShownSelectionIsHere
    <2> QED
      BY <2>3, <2>4
  <1>4. CASE RefreshFails(f)
    BY <1>4, SameViewKeeps DEF RefreshFails, SameView
  <1> QED
    BY <1>1, <1>2, <1>3, <1>4

\* A mutation starts under the authority of the Workspace shown.
LEMMA SendKeeps ==
    ASSUME AuthorityInv, NEW k, NEW kind, NEW r, NEW e, Send(k, kind, r, e)
    PROVE  AuthorityInv'
  BY DEF AuthorityInv, ConsoleShape, ShownSelectionIsHere, Send

\* The steps of a mutation that has been sent, and of the editor.
LEMMA MutationKeeps ==
    ASSUME AuthorityInv,
           \/ OpenEditor \/ CloseEditor \/ MutationFails
           \/ ToggleSucceeds \/ ToggleCatalog \/ CatalogChanged
    PROVE  AuthorityInv'
  <1> USE DEF AuthorityInv, ConsoleShape
  <1>1. CASE OpenEditor
    <2> DEFINE t == Learn(tab, [revision |-> db.catalog, rows |-> Restrict(db.rows, {job.skill})])
    <2>1. SameView(tab, t)
      BY LearnView
    <2>2. SameView(tab, tab')
      BY <1>1, <2>1 DEF OpenEditor, SameView, TabFields
    <2> QED
      BY <1>1, <2>2, SameViewKeeps DEF OpenEditor
  <1>2. CASE CloseEditor
    BY <1>2, SameViewKeeps DEF CloseEditor, SameView, TabFields
  <1>3. CASE MutationFails
    BY <1>3, SameViewKeeps DEF MutationFails, SameView
  <1>4. CASE ToggleSucceeds
    <2>1. fetches' = fetches
      BY <1>4 DEF ToggleSucceeds
    <2>2. CASE ~IsCurrent(job)
      BY <1>4, <2>2, SameViewKeeps DEF ToggleSucceeds, SameView, TabFields
    <2>3. CASE IsCurrent(job)
      <3>1. job # None /\ job.ws = tab.ws
        BY <1>4, <2>3 DEF ToggleSucceeds, Answered, IsCurrent
      <3>2. /\ DOMAIN tab' = DOMAIN tab /\ tab'.ws = tab.ws /\ tab'.shownFor = job.ws
            /\ job' = [job EXCEPT !.step = "catalog"]
        BY <1>4, <2>3 DEF ToggleSucceeds, TabFields
      <3>3. DOMAIN job' = DOMAIN job /\ job'.ws = job.ws
        BY <3>1, <3>2
      <3> QED
        BY <2>1, <3>1, <3>2, <3>3 DEF ShownSelectionIsHere
    <2> QED
      BY <2>2, <2>3
  <1>5. CASE ToggleCatalog
    <2>1. SameView(tab, Learn(tab, CatalogPage))
      BY LearnView
    <2>2. SameView(tab, tab')
      BY <1>5, <2>1 DEF ToggleCatalog, SameView, TabFields
    <2> QED
      BY <1>5, <2>2, SameViewKeeps DEF ToggleCatalog
  <1>6. CASE CatalogChanged
    <2> DEFINE c == [revision |-> reply[job.key].value.catalog,
                     rows |-> [id \in {reply[job.key].value.skill} |->
                                  [revision |-> reply[job.key].value.revision]]]
    <2>1. SameView(tab, Learn(tab, c))
      BY LearnView
    <2>2. SameView(tab, tab')
      BY <1>6, <2>1 DEF CatalogChanged, SameView, TabFields
    <2>3. /\ job # None /\ job' = [job EXCEPT !.step = "refresh"]
          /\ fetches' = WithRefresh(fetches, tab.ws, TRUE)
      BY <1>6 DEF CatalogChanged, Answered
    <2>4. DOMAIN job' = DOMAIN job /\ job'.ws = job.ws /\ job'.current = job.current
      BY <2>3
    <2>5. ASSUME NEW f \in fetches'
          PROVE  {"ws", "current"} \subseteq DOMAIN f /\ (f.current => f.ws = tab.ws)
      BY <2>3 DEF WithRefresh, NewFetch
    <2> QED
      BY <2>2, <2>3, <2>4, <2>5 DEF SameView, ShownSelectionIsHere
  <1> QED
    BY <1>1, <1>2, <1>3, <1>4, <1>5, <1>6

\* Every step keeps the authority of the tab.
LEMMA AuthorityNext == AuthorityInv /\ [Next]_vars => AuthorityInv'
  <1> SUFFICES ASSUME AuthorityInv, [Next]_vars PROVE AuthorityInv'
    OBVIOUS
  <1>1. ASSUME UNCHANGED <<tab, fetches, job>> PROVE AuthorityInv'
    BY <1>1 DEF AuthorityInv, ConsoleShape, ShownSelectionIsHere
  <1>2. CASE Console
    <2>1. ASSUME NEW id, BeginEdit(id) PROVE AuthorityInv'
      BY <2>1 DEF BeginEdit, AuthorityInv, ConsoleShape, ShownSelectionIsHere
    <2>2. ASSUME NEW k, NEW id, Toggle(k, id) \/ RemoveSkill(k, id) PROVE AuthorityInv'
      BY <2>2, SendKeeps DEF Toggle, RemoveSkill
    <2>3. ASSUME NEW k, NEW u, Upload(k, u) \/ Save(k, u) PROVE AuthorityInv'
      BY <2>3, SendKeeps DEF Upload, Save
    <2> QED
      BY <1>2, <2>1, <2>2, <2>3, EnterKeeps, RefreshKeeps, MutationKeeps DEF Console
  <1> QED
    BY <1>1, <1>2 DEF Next, vars, RestartCore, consoleVars

(***************************************************************************)
(* workspace-skill-authority.ts: whatever answers arrive after a switch of  *)
(* the Workspace, the selection the tab shows is the answer for the         *)
(* Workspace it shows.                                                      *)
(***************************************************************************)
THEOREM ShownSelectionBelongsHere == Spec => []ShownSelectionIsHere
  <1>1. Init => AuthorityInv
    BY DEF Init, AuthorityInv, ConsoleShape, TabFields, ShownSelectionIsHere, NewFetch
  <1>2. AuthorityInv => ShownSelectionIsHere
    BY DEF AuthorityInv
  <1> QED
    BY <1>1, <1>2, AuthorityNext, PTL DEF Spec

-----------------------------------------------------------------------------
(* 3. Edits.  An edit commits when the revision it expects is still the     *)
(* current one.  Whatever a client expects it has read, so it is not ahead  *)
(* of the catalog (Known); hence a revision that is current at the commit   *)
(* was current when the edit read the files, and nothing came between.      *)

SkillOK(d, id) ==
    /\ id \in Nat /\ id < d.next
    /\ DOMAIN d.rows[id] = {"name", "revision"}
    /\ d.rows[id].revision \in Nat \ {0}
    /\ \E S : d.revs[id] \in Seq(S)

DbOK(d) ==
    /\ DOMAIN d = {"rows", "revs", "next", "catalog", "binds", "bindRev"}
    /\ d.next \in Nat
    /\ DOMAIN d.revs = SkillIds(d)
    /\ \A id \in SkillIds(d) : SkillOK(d, id)

\* v was a revision of Skill id, and is not ahead of the catalog
Known(d, id, v) ==
    /\ id \in Nat /\ id < d.next /\ v \in Nat
    /\ id \in SkillIds(d) => v <= d.rows[id].revision

PageOK(d, c) == \A id \in DOMAIN c.rows : Known(d, id, c.rows[id].revision)
ValueOK(d, v) == Known(d, v.skill, v.revision)

HandlerFields == {"key", "request", "expected", "pc", "bundle"}

\* an edit whose revision is still current holds the current supporting files
HandlerOK(d, h) ==
    /\ HandlerFields \subseteq DOMAIN h
    /\ h.key \in Keys /\ Async(h.request)
    /\ h.request.op = "update" =>
          /\ Known(d, h.request.skill, h.expected)
          /\ h.request.skill \in SkillIds(d) /\ d.rows[h.request.skill].revision = h.expected =>
                h.bundle.extra = Latest(d, h.request.skill).extra

AskedOK(d, a) ==
    a # None =>
        /\ {"request", "expected"} \subseteq DOMAIN a
        /\ a.request.op = "update" => Known(d, a.request.skill, a.expected)

TabOK(d, t) ==
    /\ TabFields \subseteq DOMAIN t
    /\ \A id \in DOMAIN t.skillRev : Known(d, id, t.skillRev[id])
    /\ t.editor # None => Known(d, t.editor, 1)

FetchOK(d, f) ==
    /\ {"ws", "current", "awaited", "catalog", "selection"} \subseteq DOMAIN f
    /\ f.catalog # None => PageOK(d, f.catalog)

\* what the receipt of a key of the tab, and the answer to it, say about a Skill
ToldOK(d, a, receipt, answer) ==
    /\ a = None => receipt = None /\ answer = None
    /\ Async(a.request) /\ receipt # None => ValueOK(d, receipt.value)
    /\ Async(a.request) /\ answer # None /\ answer.status = "succeeded" =>
          ValueOK(d, answer.value)

\* an upload or a save of the tab waits for the answer to an upload or an edit
JobOK ==
    job # None =>
        /\ {"kind", "key", "ws", "current", "step"} \subseteq DOMAIN job
        /\ job.step = "sent" /\ job.kind \notin {"toggle", "remove"} =>
              job.key \in scenario.console /\ Async(asked[job.key].request)

\* the handler of a key of the tab serves a request of the tab
HandlerAsked(h) == h.key \in scenario.console => asked[h.key] # None

\* what is known to clients, handlers and the tab, relative to the tables d
KnowledgeOK(d) ==
    /\ TabOK(d, tab)
    /\ \A f \in fetches : FetchOK(d, f)
    /\ \A h \in handlers : HandlerOK(d, h)
    /\ \A k \in Keys : AskedOK(d, asked[k])
    /\ \A k \in scenario.console : ToldOK(d, asked[k], receipts[k], reply[k])

EditShape ==
    /\ scenario \in Scenarios
    /\ DOMAIN asked = Keys /\ DOMAIN receipts = Keys /\ DOMAIN reply = Keys
    /\ DbOK(db)
    /\ \A h \in handlers : HandlerAsked(h)
    /\ JobOK

EditInv == EditShape /\ KnowledgeOK(db)

\* From tables d to tables e: a Skill whose revision stays keeps its bundles, and
\* a new Skill gets a new id.
DbGrows(d, e) ==
    /\ DbOK(e) /\ d.next <= e.next
    /\ \A id \in SkillIds(e) :
          \/ id \notin SkillIds(d) /\ id >= d.next
          \/ id \in SkillIds(d) /\ e.rows[id].revision > d.rows[id].revision
          \/ /\ id \in SkillIds(d) /\ e.rows[id].revision = d.rows[id].revision
             /\ e.revs[id] = d.revs[id]

\* What was known stays known.
LEMMA KnownKept ==
    ASSUME NEW d, NEW e, DbOK(d), DbGrows(d, e), NEW id, NEW v, Known(d, id, v)
    PROVE  Known(e, id, v)
  BY DEF DbOK, SkillOK, DbGrows, Known

\* Knowledge survives every change of the tables.
LEMMA KnowledgeKept ==
    ASSUME NEW d, NEW e, DbOK(d), DbGrows(d, e), KnowledgeOK(d)
    PROVE  KnowledgeOK(e)
  <1>1. \A c : PageOK(d, c) => PageOK(e, c)
    BY KnownKept DEF PageOK
  <1>2. \A v : ValueOK(d, v) => ValueOK(e, v)
    BY KnownKept DEF ValueOK
  <1>3. TabOK(e, tab)
    BY KnownKept DEF KnowledgeOK, TabOK
  <1>4. \A f \in fetches : FetchOK(e, f)
    BY <1>1 DEF KnowledgeOK, FetchOK
  <1>5. ASSUME NEW h \in handlers PROVE HandlerOK(e, h)
    <2>1. HandlerOK(d, h)
      BY DEF KnowledgeOK
    <2>2. ASSUME h.request.op = "update" PROVE Known(e, h.request.skill, h.expected)
      BY <2>1, <2>2, KnownKept DEF HandlerOK
    <2>3. ASSUME h.request.op = "update", h.request.skill \in SkillIds(e),
                 e.rows[h.request.skill].revision = h.expected
          PROVE  h.bundle.extra = Latest(e, h.request.skill).extra
      <3>1. Known(d, h.request.skill, h.expected)
        BY <2>1, <2>3 DEF HandlerOK
      <3>2. /\ h.request.skill \in SkillIds(d) /\ d.rows[h.request.skill].revision = h.expected
            /\ e.revs[h.request.skill] = d.revs[h.request.skill]
        BY <2>3, <3>1 DEF Known, DbGrows, DbOK, SkillOK
      <3> QED
        BY <2>1, <2>3, <3>2 DEF HandlerOK, Latest
    <2> QED
      BY <2>1, <2>2, <2>3 DEF HandlerOK
  <1>6. \A k \in Keys : AskedOK(e, asked[k])
    BY KnownKept DEF KnowledgeOK, AskedOK
  <1>7. \A k \in scenario.console : ToldOK(e, asked[k], receipts[k], reply[k])
    BY <1>2 DEF KnowledgeOK, ToldOK
  <1> QED
    BY <1>3, <1>4, <1>5, <1>6, <1>7 DEF KnowledgeOK

\* createRevision gives a Skill a new revision or leaves the tables alone.
LEMMA CreateGrows ==
    ASSUME NEW d, DbOK(d), NEW id, id \in SkillIds(d) \/ id = d.next, NEW b,
           NEW e, e = CreateRevision(d, id, b)
    PROVE  /\ DbGrows(d, e)
           /\ id \in SkillIds(e) /\ e.rows[id].name = b.name
           /\ id \in SkillIds(d) /\ e.revs[id] # d.revs[id] => Latest(e, id) = b
  <1>1. id \in Nat /\ d.next \in Nat /\ d.next \notin SkillIds(d)
    BY DEF DbOK, SkillOK
  <1>2. CASE id \notin SkillIds(d)
    <2>1. e = [d EXCEPT !.rows = With(@, id, [name |-> b.name, revision |-> 1]),
                        !.revs = With(@, id, <<b>>), !.next = @ + 1, !.catalog = @ + 1]
      BY <1>2 DEF CreateRevision
    <2>2. /\ DOMAIN e = DOMAIN d /\ e.next = d.next + 1
          /\ e.rows = With(d.rows, id, [name |-> b.name, revision |-> 1])
          /\ e.revs = With(d.revs, id, <<b>>)
      BY <2>1 DEF DbOK, SkillOK
    <2>3. /\ SkillIds(e) = SkillIds(d) \cup {id} /\ DOMAIN e.revs = SkillIds(d) \cup {id}
          /\ e.rows[id] = [name |-> b.name, revision |-> 1] /\ e.revs[id] = <<b>>
          /\ \A x \in SkillIds(d) : e.rows[x] = d.rows[x] /\ e.revs[x] = d.revs[x]
      BY <1>2, <2>2 DEF With, SkillIds, DbOK, SkillOK
    <2>4. <<b>> \in Seq({b})
      OBVIOUS
    <2>5. DbOK(e)
      <3>1. SkillOK(e, id)
        <4>1. id = d.next
          BY <1>2
        <4>2. id \in Nat /\ id < e.next
          BY <1>1, <2>2, <4>1
        <4>3. DOMAIN e.rows[id] = {"name", "revision"} /\ e.rows[id].revision = 1
          BY <2>3
        <4>4. \E S : e.revs[id] \in Seq(S)
          BY <2>3, <2>4
        <4> QED
          BY <4>2, <4>3, <4>4 DEF SkillOK
      <3>2. \A x \in SkillIds(d) : SkillOK(e, x)
        BY <1>1, <2>2, <2>3 DEF DbOK, SkillOK
      <3> QED
        BY <1>1, <2>2, <2>3, <3>1, <3>2 DEF DbOK
    <2>6. DbGrows(d, e)
      BY <1>1, <1>2, <2>2, <2>3, <2>5 DEF DbGrows
    <2> QED
      BY <1>2, <2>3, <2>6
  <1>3. CASE id \in SkillIds(d) /\ b \notin Range(d.revs[id])
    <2>1. e = [d EXCEPT !.rows[id] = [name |-> b.name, revision |-> @.revision + 1],
                        !.revs[id] = Append(@, b), !.catalog = @ + 1]
      BY <1>3 DEF CreateRevision
    <2>2. PICK s : s = Append(d.revs[id], b)
      OBVIOUS
    <2>3. /\ DOMAIN e = DOMAIN d /\ e.next = d.next
          /\ SkillIds(e) = SkillIds(d) /\ DOMAIN e.revs = SkillIds(d)
          /\ e.rows[id] = [name |-> b.name, revision |-> d.rows[id].revision + 1]
          /\ e.revs[id] = s
          /\ \A x \in SkillIds(d) \ {id} : e.rows[x] = d.rows[x] /\ e.revs[x] = d.revs[x]
      BY <1>3, <2>1, <2>2 DEF SkillIds, DbOK, SkillOK
    <2>4. PICK S : d.revs[id] \in Seq(S)
      BY <1>3 DEF DbOK, SkillOK
    <2>5. s \in Seq(S \cup {b}) /\ s[Len(s)] = b
      BY <2>2, <2>4
    <2>6. DbOK(e)
      <3>1. SkillOK(e, id)
        BY <1>3, <2>3, <2>5 DEF DbOK, SkillOK
      <3>2. \A x \in SkillIds(d) \ {id} : SkillOK(e, x)
        BY <2>3 DEF DbOK, SkillOK
      <3> QED
        BY <2>3, <3>1, <3>2 DEF DbOK
    <2>7. DbGrows(d, e)
      <3>1. d.rows[id].revision \in Nat /\ d.next \in Nat
        BY <1>3 DEF DbOK, SkillOK
      <3>2. e.rows[id].revision > d.rows[id].revision
        BY <2>3, <3>1
      <3> QED
        BY <1>3, <2>3, <2>6, <3>1, <3>2 DEF DbGrows
    <2> QED
      BY <1>3, <2>3, <2>5, <2>7 DEF Latest, Last
  <1>4. CASE id \in SkillIds(d) /\ b \in Range(d.revs[id]) /\ d.rows[id].name # b.name
    <2>1. e = [d EXCEPT !.rows[id] = [name |-> b.name, revision |-> @.revision + 1],
                        !.catalog = @ + 1]
      BY <1>4 DEF CreateRevision
    <2>2. /\ DOMAIN e = DOMAIN d /\ e.next = d.next /\ e.revs = d.revs
          /\ SkillIds(e) = SkillIds(d)
          /\ e.rows[id] = [name |-> b.name, revision |-> d.rows[id].revision + 1]
          /\ \A x \in SkillIds(d) \ {id} : e.rows[x] = d.rows[x]
      BY <1>4, <2>1 DEF SkillIds, DbOK, SkillOK
    <2>3. DbOK(e)
      BY <1>4, <2>2 DEF DbOK, SkillOK
    <2>4. DbGrows(d, e)
      BY <1>4, <2>2, <2>3 DEF DbGrows, DbOK, SkillOK
    <2> QED
      BY <1>4, <2>2, <2>4
  <1>5. CASE id \in SkillIds(d) /\ b \in Range(d.revs[id]) /\ d.rows[id].name = b.name
    <2>1. e = d
      BY <1>5 DEF CreateRevision
    <2> QED
      BY <1>5, <2>1 DEF DbGrows, DbOK, SkillOK
  <1> QED
    BY <1>2, <1>3, <1>4, <1>5

\* deleteSkill and the replacement of a selection.
LEMMA OtherGrows ==
    ASSUME NEW d, DbOK(d), NEW e,
           \/ \E id : e = DeleteSkill(d, id)
           \/ \E w, ids : e = ReplaceWorkspaceSkills(d, w, ids)
    PROVE  DbGrows(d, e)
  <1>1. ASSUME NEW id, e = DeleteSkill(d, id) PROVE DbGrows(d, e)
    <2>1. /\ DOMAIN e = DOMAIN d /\ e.next = d.next
          /\ e.rows = Restrict(d.rows, SkillIds(d) \ {id})
          /\ e.revs = Restrict(d.revs, SkillIds(d) \ {id})
      BY <1>1 DEF DeleteSkill, DbOK, SkillOK
    <2>2. /\ SkillIds(e) = SkillIds(d) \ {id} /\ DOMAIN e.revs = SkillIds(e)
          /\ \A x \in SkillIds(e) : e.rows[x] = d.rows[x] /\ e.revs[x] = d.revs[x]
      BY <2>1 DEF SkillIds, Restrict
    <2>3. DbOK(e)
      BY <2>1, <2>2 DEF DbOK, SkillOK
    <2>4. d.next <= e.next
      BY <2>1 DEF DbOK
    <2> QED
      BY <2>2, <2>3, <2>4 DEF DbGrows
  <1>2. ASSUME NEW w, NEW ids, e = ReplaceWorkspaceSkills(d, w, ids) PROVE DbGrows(d, e)
    <2>1. /\ DOMAIN e = DOMAIN d /\ e.next = d.next
          /\ e.rows = d.rows /\ e.revs = d.revs
      BY <1>2 DEF ReplaceWorkspaceSkills, DbOK, SkillOK
    <2>2. SkillIds(e) = SkillIds(d)
      BY <2>1 DEF SkillIds
    <2>3. \A id : SkillOK(d, id) => SkillOK(e, id)
      BY <2>1 DEF SkillOK
    <2>4. DbOK(e) /\ d.next <= e.next
      BY <2>1, <2>2, <2>3 DEF DbOK
    <2> QED
      BY <2>1, <2>2, <2>4 DEF DbGrows
  <1> QED
    BY <1>1, <1>2

\* A mutation: an upload or an edit answers with a Skill of the catalog and its
\* revision, and an edit that adds a revision adds the bundle it submits.
LEMMA PerformGrows ==
    ASSUME NEW d, DbOK(d), NEW r, NEW b, NEW e, e = Perform(d, r, b),
           r.op = "update" => r.skill \in SkillIds(d)
    PROVE  /\ DbGrows(d, e)
           /\ Async(r) => ValueOK(e, MutationValue(e, r, b))
           /\ r.op = "update" /\ e.revs[r.skill] # d.revs[r.skill] => Latest(e, r.skill) = b
  <1>1. CASE r.op = "delete"
    <2>1. e = DeleteSkill(d, r.skill)
      BY <1>1 DEF Perform
    <2> QED
      BY <1>1, <2>1, OtherGrows DEF Async
  <1>2. CASE r.op = "replace"
    <2>1. e = ReplaceWorkspaceSkills(d, r.ws, r.ids)
      BY <1>2 DEF Perform
    <2> QED
      BY <1>2, <2>1, OtherGrows DEF Async
  <1>3. CASE r.op # "delete" /\ r.op # "replace"
    <2>1. PICK id : id = RevisionTarget(d, r, b)
      OBVIOUS
    <2>2. id \in SkillIds(d) \/ id = d.next
      BY <2>1 DEF RevisionTarget
    <2>3. r.op = "update" => id = r.skill
      BY <2>1 DEF RevisionTarget
    <2>4. e = CreateRevision(d, id, b)
      BY <1>3, <2>1 DEF Perform
    <2>5. /\ DbGrows(d, e)
          /\ id \in SkillIds(e) /\ e.rows[id].name = b.name
          /\ id \in SkillIds(d) /\ e.revs[id] # d.revs[id] => Latest(e, id) = b
      BY <2>2, <2>4, CreateGrows
    <2>6. PICK i : i = CHOOSE x \in SkillIds(e) : e.rows[x].name = b.name
      OBVIOUS
    <2>7. i \in SkillIds(e)
      BY <2>5, <2>6
    <2>8. MutationValue(e, r, b) = [skill |-> i, bundle |-> b,
                                    revision |-> e.rows[i].revision, catalog |-> e.catalog]
      BY <1>3, <2>6 DEF MutationValue
    <2>9. Known(e, i, e.rows[i].revision)
      BY <2>5, <2>7 DEF DbGrows, DbOK, SkillOK, Known
    <2>10. ValueOK(e, MutationValue(e, r, b))
      BY <2>8, <2>9 DEF ValueOK
    <2> QED
      BY <2>3, <2>5, <2>10
  <1> QED
    BY <1>1, <1>2, <1>3

LEMMA GrowsSelf ==
    ASSUME NEW d, DbOK(d)
    PROVE  DbGrows(d, d)
  BY DEF DbGrows, DbOK

\* The transaction behind every answer.
LEMMA TransactGrows ==
    ASSUME DbOK(db), DOMAIN receipts = Keys, DOMAIN reply = Keys,
           NEW k \in Keys, NEW r, NEW e, NEW b, Transact(k, r, e, b)
    PROVE  /\ DbGrows(db, db')
           /\ DOMAIN receipts' = Keys /\ DOMAIN reply' = Keys
           /\ \A j \in Keys \ {k} : receipts'[j] = receipts[j] /\ reply'[j] = reply[j]
           /\ receipts'[k] = receipts[k] \/ (Async(r) => ValueOK(db', receipts'[k].value))
           /\ \/ reply'[k].status # "succeeded"
              \/ receipts[k] # None /\ reply'[k].value = receipts[k].value
              \/ Async(r) => ValueOK(db', reply'[k].value)
           /\ r.op = "update" /\ db' # db =>
                 /\ r.skill \in SkillIds(db) /\ db.rows[r.skill].revision = e
                 /\ db'.revs[r.skill] # db.revs[r.skill] => Latest(db', r.skill) = b
  <1>1. CASE receipts[k] # None
    <2>1. /\ reply' = [reply EXCEPT ![k] = Replay(k, e)] /\ db' = db /\ receipts' = receipts
      BY <1>1 DEF Transact
    <2>2. reply'[k] = Replay(k, e) /\ DOMAIN reply' = Keys /\ \A j \in Keys \ {k} : reply'[j] = reply[j]
      BY <2>1
    <2>3. reply'[k].status # "succeeded" \/ reply'[k].value = receipts[k].value
      BY <2>2 DEF Replay, Answer
    <2> QED
      BY <1>1, <2>1, <2>2, <2>3, GrowsSelf
  <1>2. CASE /\ receipts[k] = None
             /\ CurrentRevision(db, r) = 0 \/ RevisionRefuses(db, r, e) \/ ~Precondition(db, r, b)
    <2>1. PICK s : /\ s \in {"not_found", "concurrency_conflict", "state_conflict", "rejected"}
                   /\ reply' = [reply EXCEPT ![k] = Answer(s, None)]
      BY <1>2 DEF Transact
    <2>2. /\ db' = db /\ receipts' = receipts
      BY <1>2 DEF Transact
    <2>3. reply'[k] = Answer(s, None) /\ DOMAIN reply' = Keys /\ \A j \in Keys \ {k} : reply'[j] = reply[j]
      BY <2>1
    <2>4. reply'[k].status # "succeeded"
      BY <2>1, <2>3 DEF Answer
    <2> QED
      BY <2>2, <2>3, <2>4, GrowsSelf
  <1>3. CASE /\ receipts[k] = None /\ CurrentRevision(db, r) # 0
             /\ ~RevisionRefuses(db, r, e) /\ Precondition(db, r, b)
    <2>1. PICK v : v = MutationValue(db', r, b)
      OBVIOUS
    <2>2. /\ db' = Perform(db, r, b)
          /\ receipts' = [receipts EXCEPT ![k] = [expected |-> e, value |-> v]]
          /\ reply' = [reply EXCEPT ![k] = Answer("succeeded", v)]
      BY <1>3, <2>1 DEF Transact
    <2>3. r.op = "update" => r.skill \in SkillIds(db) /\ db.rows[r.skill].revision = e
      BY <1>3 DEF RevisionRefuses, CurrentRevision
    <2>4. /\ DbGrows(db, db')
          /\ Async(r) => ValueOK(db', v)
          /\ r.op = "update" /\ db'.revs[r.skill] # db.revs[r.skill] => Latest(db', r.skill) = b
      BY <2>1, <2>2, <2>3, PerformGrows
    <2>5. /\ receipts'[k].value = v /\ reply'[k].value = v
          /\ DOMAIN receipts' = Keys /\ DOMAIN reply' = Keys
          /\ \A j \in Keys \ {k} : receipts'[j] = receipts[j] /\ reply'[j] = reply[j]
      BY <2>2 DEF Answer
    <2> QED
      BY <2>3, <2>4, <2>5
  <1> QED
    BY <1>1, <1>2, <1>3

\* A transaction keeps what is known: a deletion, a replacement, or the commit of
\* an upload or an edit.
LEMMA TransactKeeps ==
    ASSUME EditInv, NEW k \in Keys, NEW r, NEW e, NEW b, Transact(k, r, e, b),
           k \in scenario.console => asked[k] # None,
           Async(r) \/ ~Async(asked[k].request),
           handlers' \subseteq handlers,
           UNCHANGED <<asked, tab, fetches, job, scenario>>
    PROVE  EditInv'
  <1>1. /\ DbGrows(db, db')
        /\ DOMAIN receipts' = Keys /\ DOMAIN reply' = Keys
        /\ \A j \in Keys \ {k} : receipts'[j] = receipts[j] /\ reply'[j] = reply[j]
        /\ receipts'[k] = receipts[k] \/ (Async(r) => ValueOK(db', receipts'[k].value))
        /\ \/ reply'[k].status # "succeeded"
           \/ receipts[k] # None /\ reply'[k].value = receipts[k].value
           \/ Async(r) => ValueOK(db', reply'[k].value)
    BY TransactGrows DEF EditInv, EditShape
  <1>2. KnowledgeOK(db')
    BY <1>1, KnowledgeKept DEF EditInv, EditShape
  <1>3. scenario.console \subseteq Keys
    BY SkillConsoleAssumption DEF EditInv, EditShape
  <1>4. ASSUME NEW j \in scenario.console
        PROVE  ToldOK(db', asked[j], receipts'[j], reply'[j])
    <2>1. ToldOK(db', asked[j], receipts[j], reply[j])
      BY <1>2 DEF KnowledgeOK
    <2>2. CASE j # k
      BY <1>1, <1>3, <2>1, <2>2
    <2>3. CASE j = k
      BY <1>1, <2>1, <2>3 DEF ToldOK
    <2> QED
      BY <2>2, <2>3
  <1>5. KnowledgeOK(db)'
    BY <1>2, <1>4 DEF KnowledgeOK
  <1>6. EditShape'
    BY <1>1 DEF EditInv, EditShape, HandlerAsked, JobOK, DbGrows
  <1> QED
    BY <1>5, <1>6 DEF EditInv

LEMMA ServeKeeps ==
    ASSUME EditInv, Serve, UNCHANGED <<tab, fetches, job, scenario>>
    PROVE  EditInv'
  <1>0. scenario.console \subseteq Keys
    BY SkillConsoleAssumption DEF EditInv, EditShape
  <1>1. ASSUME NEW k \in Keys, DeliverSync(k) PROVE EditInv'
    BY <1>1, TransactKeeps DEF DeliverSync
  <1>2. ASSUME NEW h \in handlers, CommitRevision(h) PROVE EditInv'
    <2>1. /\ h.key \in Keys /\ Async(h.request)
          /\ h.key \in scenario.console => asked[h.key] # None
      BY DEF EditInv, EditShape, KnowledgeOK, HandlerOK, HandlerAsked
    <2> QED
      BY <1>2, <2>1, TransactKeeps DEF CommitRevision, Ends
  <1>3. ASSUME NEW k \in Keys, Deliver(k) PROVE EditInv'
    <2>1. /\ asked[k] # None /\ Async(asked[k].request)
          /\ UNCHANGED <<db, receipts, asked>>
      BY <1>3 DEF Deliver
    <2>2. CASE handlers' = handlers /\ reply' = [reply EXCEPT ![k] = Replay(k, asked[k].expected)]
                 /\ ReplayedFirst(k)
      <3>1. /\ DOMAIN reply' = Keys /\ reply'[k] = Replay(k, asked[k].expected)
            /\ \A j \in Keys \ {k} : reply'[j] = reply[j]
        BY <2>2 DEF EditInv, EditShape
      <3>2. reply'[k].status = "succeeded" => receipts[k] # None /\ reply'[k].value = receipts[k].value
        BY <2>2, <3>1 DEF Replay, Answer, ReplayedFirst
      <3>3. \A j \in scenario.console : ToldOK(db, asked[j], receipts[j], reply'[j])
        BY <1>0, <2>1, <3>1, <3>2 DEF EditInv, KnowledgeOK, ToldOK
      <3>4. KnowledgeOK(db)'
        BY <2>1, <2>2, <3>3 DEF EditInv, KnowledgeOK
      <3>5. EditShape'
        BY <2>1, <2>2, <3>1 DEF EditInv, EditShape, HandlerAsked, JobOK
      <3> QED
        BY <3>4, <3>5 DEF EditInv
    <2>3. CASE handlers' = handlers /\ reply' = [reply EXCEPT ![k] = Answer("rejected", None)]
      <3>1. /\ DOMAIN reply' = Keys /\ reply'[k].status # "succeeded"
            /\ \A j \in Keys \ {k} : reply'[j] = reply[j]
        BY <2>3 DEF EditInv, EditShape, Answer
      <3>3. \A j \in scenario.console : ToldOK(db, asked[j], receipts[j], reply'[j])
        BY <1>0, <2>1, <3>1 DEF EditInv, KnowledgeOK, ToldOK
      <3>4. KnowledgeOK(db)'
        BY <2>1, <2>3, <3>3 DEF EditInv, KnowledgeOK
      <3>5. EditShape'
        BY <2>1, <2>3, <3>1 DEF EditInv, EditShape, HandlerAsked, JobOK
      <3> QED
        BY <3>4, <3>5 DEF EditInv
    <2>4. CASE /\ ~Refused(asked[k].request) /\ reply' = reply
               /\ handlers' = handlers \cup {Begun(k, asked[k].request)}
      <3>1. PICK h : h = Begun(k, asked[k].request)
        OBVIOUS
      <3>2. /\ HandlerFields \subseteq DOMAIN h
            /\ h.key = k /\ h.request = asked[k].request /\ h.expected = asked[k].expected
            /\ h.request.op = "update" => h.bundle = Latest(db, h.request.skill)
        BY <3>1 DEF Begun, HandlerFields
      <3>3. AskedOK(db, asked[k])
        BY DEF EditInv, KnowledgeOK
      <3>4. HandlerOK(db, h) /\ HandlerAsked(h)
        BY <2>1, <3>2, <3>3 DEF HandlerOK, AskedOK, HandlerAsked
      <3>5. KnowledgeOK(db)'
        BY <2>1, <2>4, <3>1, <3>4 DEF EditInv, KnowledgeOK
      <3>6. EditShape'
        BY <2>1, <2>4, <3>1, <3>4 DEF EditInv, EditShape, HandlerAsked, JobOK
      <3> QED
        BY <3>5, <3>6 DEF EditInv
    <2> QED
      BY <1>3, <2>2, <2>3, <2>4 DEF Deliver
  <1>4. ASSUME NEW h \in handlers, PublishBundle(h) PROVE EditInv'
    <2>1. PICK g : g = [h EXCEPT !.pc = "published"]
      OBVIOUS
    <2>2. handlers' = (handlers \ {h}) \cup {g} /\ UNCHANGED <<db, receipts, asked, reply>>
      BY <1>4, <2>1 DEF PublishBundle, Becomes
    <2>3. HandlerOK(db, h) /\ HandlerAsked(h)
      BY DEF EditInv, EditShape, KnowledgeOK
    <2>4. /\ DOMAIN g = DOMAIN h /\ g.key = h.key /\ g.request = h.request
          /\ g.expected = h.expected /\ g.bundle = h.bundle
      BY <2>1
    <2>5. HandlerOK(db, g) /\ HandlerAsked(g)
      BY <2>3, <2>4 DEF HandlerOK, HandlerAsked
    <2>6. KnowledgeOK(db)'
      BY <2>2, <2>5 DEF EditInv, KnowledgeOK
    <2>7. EditShape'
      BY <2>2, <2>5 DEF EditInv, EditShape, HandlerAsked, JobOK
    <2> QED
      BY <2>6, <2>7 DEF EditInv
  <1>5. ASSUME NEW h \in handlers, ReadManagedBundle(h) PROVE EditInv'
    <2>1. HandlerOK(db, h) /\ HandlerAsked(h)
      BY DEF EditInv, EditShape, KnowledgeOK
    <2>2. UNCHANGED <<db, receipts, asked>>
      BY <1>5 DEF ReadManagedBundle
    <2>3. CASE h.bundle \in disk
      <3>1. PICK g : g = [h EXCEPT !.pc = "staging", !.bundle = EditedBundle(h)]
        OBVIOUS
      <3>2. handlers' = (handlers \ {h}) \cup {g} /\ reply' = reply
        BY <1>5, <2>3, <3>1 DEF ReadManagedBundle, Becomes
      <3>3. /\ DOMAIN g = DOMAIN h /\ g.key = h.key /\ g.request = h.request
            /\ g.expected = h.expected /\ g.bundle = EditedBundle(h)
        BY <2>1, <3>1 DEF HandlerOK, HandlerFields
      <3>4. g.bundle.extra = h.bundle.extra
        BY <3>3 DEF EditedBundle
      <3>5. HandlerOK(db, g) /\ HandlerAsked(g)
        BY <2>1, <3>3, <3>4 DEF HandlerOK, HandlerAsked
      <3>6. KnowledgeOK(db)'
        BY <2>2, <3>2, <3>5 DEF EditInv, KnowledgeOK
      <3>7. EditShape'
        BY <2>2, <3>2, <3>5 DEF EditInv, EditShape, HandlerAsked, JobOK
      <3> QED
        BY <3>6, <3>7 DEF EditInv
    <2>4. CASE h.bundle \notin disk
      <3>1. /\ handlers' = handlers \ {h}
            /\ reply' = [reply EXCEPT ![h.key] = Answer("rejected", None)]
        BY <1>5, <2>4 DEF ReadManagedBundle, Ends
      <3>2. /\ DOMAIN reply' = Keys /\ reply'[h.key].status # "succeeded"
            /\ \A j \in Keys \ {h.key} : reply'[j] = reply[j]
        BY <2>1, <3>1 DEF EditInv, EditShape, HandlerOK, Answer
      <3>3. \A j \in scenario.console : ToldOK(db, asked[j], receipts[j], reply'[j])
        BY <1>0, <2>1, <3>2 DEF EditInv, KnowledgeOK, ToldOK, HandlerAsked
      <3>4. KnowledgeOK(db)'
        BY <2>2, <3>1, <3>3 DEF EditInv, KnowledgeOK
      <3>5. EditShape'
        BY <2>2, <3>1, <3>2 DEF EditInv, EditShape, HandlerAsked, JobOK
      <3> QED
        BY <3>4, <3>5 DEF EditInv
    <2> QED
      BY <2>3, <2>4
  <1> QED
    BY <1>1, <1>2, <1>3, <1>4, <1>5 DEF Serve

\* A request of one of the other clients, or its retry with the revision read again.
LEMMA ClientKeeps ==
    ASSUME EditInv, Client, UNCHANGED <<tab, fetches, job, scenario>>
    PROVE  EditInv'
  <1>0. /\ scenario.console \subseteq Keys /\ scenario.clients \subseteq Keys
        /\ scenario.console \cap scenario.clients = {}
    BY SkillConsoleAssumption DEF EditInv, EditShape
  <1>1. ASSUME NEW k \in scenario.clients, AskedOK(db, asked'[k]),
               DOMAIN asked' = Keys, \A j \in Keys \ {k} : asked'[j] = asked[j],
               DOMAIN reply' = Keys, \A j \in Keys \ {k} : reply'[j] = reply[j],
               UNCHANGED <<db, receipts, handlers>>
        PROVE  EditInv'
    <2>1. \A j \in scenario.console : asked'[j] = asked[j] /\ reply'[j] = reply[j]
      BY <1>0, <1>1
    <2>2. \A j \in Keys : AskedOK(db, asked'[j])
      BY <1>1 DEF EditInv, KnowledgeOK
    <2>3. KnowledgeOK(db)'
      BY <1>1, <2>1, <2>2 DEF EditInv, KnowledgeOK
    <2>4. EditShape'
      BY <1>1, <2>1 DEF EditInv, EditShape, HandlerAsked, JobOK
    <2> QED
      BY <2>3, <2>4 DEF EditInv
  <1>2. ASSUME NEW r, CurrentRevision(db, r) # 0, r.op = "update"
        PROVE  Known(db, r.skill, CurrentRevision(db, r))
    <2>1. r.skill \in SkillIds(db) /\ CurrentRevision(db, r) = db.rows[r.skill].revision
      BY <1>2 DEF CurrentRevision
    <2> QED
      BY <2>1 DEF EditInv, EditShape, DbOK, SkillOK, Known
  <1>3. ASSUME NEW k \in FreshKeys(scenario.clients), NEW r \in ClientRequests,
               Ask(k, r, CurrentRevision(db, r))
        PROVE  EditInv'
    <2>1. k \in scenario.clients
      BY DEF FreshKeys
    <2>2. PICK a : a = [request |-> r, expected |-> CurrentRevision(db, r)]
      OBVIOUS
    <2>3. asked' = [asked EXCEPT ![k] = a] /\ UNCHANGED <<db, receipts, reply, handlers>>
      BY <1>3, <2>2 DEF Ask
    <2>4. r.op = "update" => r.skill \in SkillIds(db)
      BY DEF ClientRequests
    <2>5. r.op = "update" => CurrentRevision(db, r) # 0
      BY <2>4 DEF CurrentRevision, EditInv, EditShape, DbOK, SkillOK
    <2>6. AskedOK(db, a)
      BY <1>2, <2>2, <2>5 DEF AskedOK
    <2>7. /\ DOMAIN asked' = Keys /\ asked'[k] = a
          /\ \A j \in Keys \ {k} : asked'[j] = asked[j]
      BY <1>0, <2>1, <2>3 DEF EditInv, EditShape
    <2> QED
      BY <1>1, <2>1, <2>3, <2>6, <2>7 DEF EditInv, EditShape
  <1>4. ASSUME NEW k \in scenario.clients, Rebase(k) PROVE EditInv'
    <2>1. PICK a : a = [asked[k] EXCEPT !.expected = CurrentRevision(db, asked[k].request)]
      OBVIOUS
    <2>2. /\ asked' = [asked EXCEPT ![k] = a] /\ reply' = [reply EXCEPT ![k] = None]
          /\ UNCHANGED <<db, receipts, handlers>>
      BY <1>4, <2>1 DEF Rebase
    <2>3. {"request", "expected"} \subseteq DOMAIN asked[k] /\ CurrentRevision(db, asked[k].request) # 0
      BY <1>0, <1>4 DEF Rebase, EditInv, KnowledgeOK, AskedOK
    <2>4. /\ DOMAIN a = DOMAIN asked[k] /\ a.request = asked[k].request
          /\ a.expected = CurrentRevision(db, asked[k].request)
      BY <2>1, <2>3
    <2>5. AskedOK(db, a)
      BY <1>2, <2>3, <2>4 DEF AskedOK
    <2>6. /\ DOMAIN asked' = Keys /\ asked'[k] = a /\ DOMAIN reply' = Keys
          /\ \A j \in Keys \ {k} : asked'[j] = asked[j] /\ reply'[j] = reply[j]
      BY <1>0, <2>2 DEF EditInv, EditShape
    <2> QED
      BY <1>1, <2>2, <2>5, <2>6
  <1> QED
    BY <1>3, <1>4 DEF Client

\* What the client learns from a page of the catalog.
LEMMA LearnOK ==
    ASSUME NEW d, NEW t, TabOK(d, t), NEW c, PageOK(d, c)
    PROVE  TabOK(d, Learn(t, c)) /\ DOMAIN Learn(t, c) = DOMAIN t
           /\ Learn(t, c).editor = t.editor
  <1> DEFINE learnt == [id \in DOMAIN t.skillRev \cup DOMAIN c.rows |->
                           IF id \in DOMAIN c.rows THEN c.rows[id].revision ELSE t.skillRev[id]]
             u == Learn(t, c)
  <1>1. /\ DOMAIN u = DOMAIN t /\ u.skillRev = learnt /\ u.editor = t.editor
    BY DEF Learn, TabOK, TabFields
  <1>2. \A id \in DOMAIN learnt : Known(d, id, learnt[id])
    BY DEF TabOK, PageOK
  <1> QED
    BY <1>1, <1>2 DEF TabOK

\* t, u: the same revisions and the same editor, or no editor
SameKnowledge(t, u) ==
    DOMAIN u = DOMAIN t /\ u.skillRev = t.skillRev /\ u.editor \in {t.editor, None}

LEMMA SameKnowledgeOK ==
    ASSUME NEW d, NEW t, TabOK(d, t), NEW u, SameKnowledge(t, u)
    PROVE  TabOK(d, u)
  BY DEF TabOK, SameKnowledge

\* A step of the tab that sends nothing.
LEMMA TabKeeps ==
    ASSUME EditInv, UNCHANGED <<db, receipts, handlers, asked, reply, scenario>>,
           TabOK(db, tab'), \A f \in fetches' : FetchOK(db, f), JobOK'
    PROVE  EditInv'
  <1>1. KnowledgeOK(db)'
    BY DEF EditInv, KnowledgeOK
  <1>2. EditShape'
    BY DEF EditInv, EditShape, HandlerAsked
  <1> QED
    BY <1>1, <1>2 DEF EditInv

\* A new refresh has read nothing.
LEMMA NewRefresh ==
    ASSUME NEW d, \A f \in fetches : FetchOK(d, f), NEW w, NEW b
    PROVE  \A f \in WithRefresh(fetches, w, b) : FetchOK(d, f)
  <1>1. FetchOK(d, NewFetch(w, b))
    BY DEF FetchOK, NewFetch
  <1>2. ASSUME NEW f \in fetches PROVE FetchOK(d, [f EXCEPT !.current = FALSE])
    <2>1. PICK g : g = [f EXCEPT !.current = FALSE]
      OBVIOUS
    <2>2. DOMAIN g = DOMAIN f /\ g.catalog = f.catalog
      BY <2>1
    <2> QED
      BY <2>1, <2>2 DEF FetchOK
  <1> QED
    BY <1>1, <1>2 DEF WithRefresh

LEMMA EditTabRefresh ==
    ASSUME EditInv, NEW f \in fetches,
           ServeCatalog(f) \/ ServeSelection(f) \/ ApplyRefresh(f) \/ RefreshFails(f)
    PROVE  EditInv'
  <1>0. TabOK(db, tab) /\ FetchOK(db, f) /\ JobOK /\ \A x \in fetches : FetchOK(db, x)
    BY DEF EditInv, EditShape, KnowledgeOK
  <1>u. UNCHANGED <<db, receipts, handlers, asked, reply, scenario>>
    BY DEF ServeCatalog, ServeSelection, ApplyRefresh, RefreshFails, CenterIdle, Mine
  <1>1. CASE ServeCatalog(f)
    <2>1. PageOK(db, CatalogPage)
      BY DEF PageOK, CatalogPage, Known, EditInv, EditShape, DbOK, SkillOK, SkillIds
    <2>2. PICK g : g = [f EXCEPT !.catalog = CatalogPage]
      OBVIOUS
    <2>3. DOMAIN g = DOMAIN f /\ g.catalog = CatalogPage
      BY <1>0, <2>2 DEF FetchOK
    <2>4. FetchOK(db, g)
      BY <1>0, <2>1, <2>3 DEF FetchOK
    <2>5. fetches' = (fetches \ {f}) \cup {g} /\ UNCHANGED <<tab, job>>
      BY <1>1, <2>2 DEF ServeCatalog
    <2> QED
      BY <1>0, <1>u, <2>4, <2>5, TabKeeps DEF JobOK
  <1>2. CASE ServeSelection(f)
    <2>2. PICK g : g = [f EXCEPT !.selection = SelectionPage(f.ws)]
      OBVIOUS
    <2>3. DOMAIN g = DOMAIN f /\ g.catalog = f.catalog
      BY <2>2
    <2>4. FetchOK(db, g)
      BY <1>0, <2>3 DEF FetchOK
    <2>5. fetches' = (fetches \ {f}) \cup {g} /\ UNCHANGED <<tab, job>>
      BY <1>2, <2>2 DEF ServeSelection
    <2> QED
      BY <1>0, <1>u, <2>4, <2>5, TabKeeps DEF JobOK
  <1>3. CASE ApplyRefresh(f)
    <2>1. PICK l : l = Learn(tab, f.catalog)
      OBVIOUS
    <2>2. PICK t : t = [l EXCEPT !.bindRev[f.ws] = f.selection.revision]
      OBVIOUS
    <2>3. tab' \in {t, [t EXCEPT !.entries = DOMAIN f.catalog.rows,
                                 !.shown = f.selection.ids, !.shownFor = f.ws]}
      BY <1>3, <2>1, <2>2 DEF ApplyRefresh
    <2>4. TabOK(db, l)
      BY <1>0, <1>3, <2>1, LearnOK DEF FetchOK, ApplyRefresh
    <2>5. SameKnowledge(l, t)
      BY <2>2 DEF SameKnowledge
    <2>6. TabOK(db, t)
      BY <2>4, <2>5, SameKnowledgeOK
    <2>7. SameKnowledge(t, tab')
      <3>1. CASE tab' = t
        BY <3>1 DEF SameKnowledge
      <3>2. CASE tab' = [t EXCEPT !.entries = DOMAIN f.catalog.rows,
                                  !.shown = f.selection.ids, !.shownFor = f.ws]
        BY <3>2 DEF SameKnowledge
      <3> QED
        BY <2>3, <3>1, <3>2
    <2>8. TabOK(db, tab')
      BY <2>6, <2>7, SameKnowledgeOK
    <2>9. fetches' \subseteq fetches /\ job' \in {None, job}
      BY <1>3 DEF ApplyRefresh
    <2> QED
      BY <1>0, <1>u, <2>8, <2>9, TabKeeps DEF JobOK
  <1>4. CASE RefreshFails(f)
    <2>1. fetches' \subseteq fetches /\ job' \in {None, job} /\ tab' = tab
      BY <1>4 DEF RefreshFails
    <2> QED
      BY <1>0, <1>u, <2>1, TabKeeps DEF JobOK
  <1> QED
    BY <1>1, <1>2, <1>3, <1>4

\* The steps of a mutation that has been sent, and of the editor.
LEMMA EditTabMutation ==
    ASSUME EditInv,
           \/ OpenEditor \/ CloseEditor \/ MutationFails
           \/ ToggleSucceeds \/ ToggleCatalog \/ CatalogChanged
    PROVE  EditInv'
  <1>0. TabOK(db, tab) /\ JobOK /\ (\A x \in fetches : FetchOK(db, x)) /\ TabFields \subseteq DOMAIN tab
    BY DEF EditInv, EditShape, KnowledgeOK, TabOK
  <1>u. UNCHANGED <<db, receipts, handlers, asked, reply, scenario>>
    BY DEF OpenEditor, CloseEditor, MutationFails, ToggleSucceeds, ToggleCatalog, CatalogChanged,
           CenterIdle, Mine
  <1>p. \A id \in SkillIds(db) : Known(db, id, db.rows[id].revision) /\ Known(db, id, 1)
    BY DEF Known, EditInv, EditShape, DbOK, SkillOK
  <1>1. CASE OpenEditor
    <2>1. fetches' = fetches /\ job' = None
      BY <1>1 DEF OpenEditor
    <2>2. CASE job.skill \notin SkillIds(db)
      <3>1. tab' = tab
        BY <1>1, <2>2 DEF OpenEditor
      <3> QED
        BY <1>0, <1>u, <2>1, <3>1, TabKeeps DEF JobOK
    <2>3. CASE job.skill \in SkillIds(db)
      <3>1. PICK c : c = [revision |-> db.catalog, rows |-> Restrict(db.rows, {job.skill})]
        OBVIOUS
      <3>2. PICK t : t = Learn(tab, c)
        OBVIOUS
      <3>3. DOMAIN c.rows = {job.skill} /\ c.rows[job.skill] = db.rows[job.skill]
        BY <2>3, <3>1 DEF Restrict, SkillIds
      <3>4. PageOK(db, c)
        BY <1>p, <2>3, <3>3 DEF PageOK
      <3>5. TabOK(db, t) /\ DOMAIN t = DOMAIN tab
        BY <1>0, <3>2, <3>4, LearnOK
      <3>6. PICK ed : ed = IF IsCurrent(job) THEN job.skill ELSE t.editor
        OBVIOUS
      <3>7. tab' = [t EXCEPT !.editor = ed]
        BY <1>1, <2>3, <3>1, <3>2, <3>6 DEF OpenEditor
      <3>8. DOMAIN tab' = DOMAIN t /\ tab'.skillRev = t.skillRev /\ tab'.editor = ed
        BY <1>0, <3>5, <3>7 DEF TabFields
      <3>9. ed # None => Known(db, ed, 1)
        BY <1>p, <2>3, <3>5, <3>6 DEF TabOK
      <3>10. TabOK(db, tab')
        BY <3>5, <3>8, <3>9 DEF TabOK
      <3> QED
        BY <1>0, <1>u, <2>1, <3>10, TabKeeps DEF JobOK
    <2> QED
      BY <2>2, <2>3
  <1>2. CASE CloseEditor
    <2>1. SameKnowledge(tab, tab') /\ fetches' = fetches /\ job' = job
      BY <1>0, <1>2 DEF CloseEditor, SameKnowledge, TabFields
    <2>2. TabOK(db, tab')
      BY <1>0, <2>1, SameKnowledgeOK
    <2> QED
      BY <1>0, <1>u, <2>1, <2>2, TabKeeps DEF JobOK
  <1>3. CASE MutationFails
    <2>1. tab' = tab /\ fetches' = fetches /\ job' = None
      BY <1>3 DEF MutationFails
    <2> QED
      BY <1>0, <1>u, <2>1, TabKeeps DEF JobOK
  <1>4. CASE ToggleSucceeds
    <2>1. PICK v : v = reply[job.key].value
      OBVIOUS
    <2>2. PICK t : t = [tab EXCEPT !.bindRev[job.ws] = v.revision]
      OBVIOUS
    <2>3. tab' \in {t, [t EXCEPT !.shown = v.ids, !.shownFor = job.ws]}
      BY <1>4, <2>1, <2>2 DEF ToggleSucceeds
    <2>4. SameKnowledge(tab, t)
      BY <2>2 DEF SameKnowledge
    <2>5. SameKnowledge(t, tab')
      <3>1. CASE tab' = t
        BY <3>1 DEF SameKnowledge
      <3>2. CASE tab' = [t EXCEPT !.shown = v.ids, !.shownFor = job.ws]
        BY <3>2 DEF SameKnowledge
      <3> QED
        BY <2>3, <3>1, <3>2
    <2>6. TabOK(db, tab')
      BY <1>0, <2>4, <2>5, SameKnowledgeOK
    <2>7. /\ job # None /\ job.kind = "toggle" /\ fetches' = fetches
          /\ job' \in {None, [job EXCEPT !.step = "catalog"]}
      BY <1>4 DEF ToggleSucceeds, Answered
    <2>8. JobOK'
      <3>1. CASE job' = None
        BY <3>1 DEF JobOK
      <3>2. CASE job' = [job EXCEPT !.step = "catalog"]
        <4>1. DOMAIN job' = DOMAIN job /\ job'.step = "catalog"
          BY <1>0, <2>7, <3>2 DEF JobOK
        <4> QED
          BY <1>0, <2>7, <4>1 DEF JobOK
      <3> QED
        BY <2>7, <3>1, <3>2
    <2> QED
      BY <1>0, <1>u, <2>6, <2>7, <2>8, TabKeeps
  <1>5. CASE ToggleCatalog
    <2>1. PICK t : t = Learn(tab, CatalogPage)
      OBVIOUS
    <2>2. PageOK(db, CatalogPage)
      BY <1>p DEF PageOK, CatalogPage, SkillIds
    <2>3. TabOK(db, t)
      BY <1>0, <2>1, <2>2, LearnOK
    <2>4. tab' \in {t, [t EXCEPT !.entries = SkillIds(db)]} /\ fetches' = fetches /\ job' = None
      BY <1>5, <2>1 DEF ToggleCatalog
    <2>5. SameKnowledge(t, tab')
      <3>1. CASE tab' = t
        BY <3>1 DEF SameKnowledge
      <3>2. CASE tab' = [t EXCEPT !.entries = SkillIds(db)]
        BY <3>2 DEF SameKnowledge
      <3> QED
        BY <2>4, <3>1, <3>2
    <2>6. TabOK(db, tab')
      BY <2>3, <2>5, SameKnowledgeOK
    <2> QED
      BY <1>0, <1>u, <2>4, <2>6, TabKeeps DEF JobOK
  <1>6. CASE CatalogChanged
    <2>1. PICK v : v = reply[job.key].value
      OBVIOUS
    <2>2. PICK c : c = [revision |-> v.catalog,
                        rows |-> [id \in {v.skill} |-> [revision |-> v.revision]]]
      OBVIOUS
    <2>3. PICK t : t = IF job.kind = "remove" THEN tab ELSE Learn(tab, c)
      OBVIOUS
    <2>4. /\ tab' = [t EXCEPT !.editor = IF job.kind = "save" THEN None ELSE @]
          /\ job' = [job EXCEPT !.step = "refresh"]
          /\ fetches' = WithRefresh(fetches, tab.ws, TRUE)
      BY <1>6, <2>1, <2>2, <2>3 DEF CatalogChanged
    <2>5. /\ job # None /\ job.step = "sent" /\ job.kind # "toggle"
          /\ reply[job.key] # None /\ reply[job.key].status = "succeeded"
      BY <1>6 DEF CatalogChanged, Answered
    <2>6. ASSUME job.kind # "remove" PROVE TabOK(db, Learn(tab, c))
      <3>1. job.key \in scenario.console /\ Async(asked[job.key].request)
        BY <1>0, <2>5, <2>6 DEF JobOK
      <3>2. ToldOK(db, asked[job.key], receipts[job.key], reply[job.key])
        BY <3>1 DEF EditInv, KnowledgeOK
      <3>3. Known(db, v.skill, v.revision)
        BY <2>1, <2>5, <3>1, <3>2 DEF ToldOK, ValueOK
      <3>4. DOMAIN c.rows = {v.skill} /\ c.rows[v.skill].revision = v.revision
        BY <2>2
      <3>5. PageOK(db, c)
        BY <3>3, <3>4 DEF PageOK
      <3> QED
        BY <1>0, <3>5, LearnOK
    <2>7. TabOK(db, t)
      BY <1>0, <2>3, <2>6
    <2>8. SameKnowledge(t, tab')
      BY <2>4, <2>7 DEF SameKnowledge, TabOK, TabFields
    <2>9. TabOK(db, tab')
      BY <2>7, <2>8, SameKnowledgeOK
    <2>10. \A f \in fetches' : FetchOK(db, f)
      BY <1>0, <2>4, NewRefresh
    <2>11. JobOK'
      <3>1. DOMAIN job' = DOMAIN job /\ job'.step = "refresh"
        BY <1>0, <2>4, <2>5 DEF JobOK
      <3> QED
        BY <1>0, <2>5, <3>1 DEF JobOK
    <2> QED
      BY <1>u, <2>9, <2>10, <2>11, TabKeeps
  <1> QED
    BY <1>1, <1>2, <1>3, <1>4, <1>5, <1>6

\* A request of the tab: an edit expects a revision the tab has read.
LEMMA EditTabSend ==
    ASSUME EditInv, NEW k \in scenario.console, NEW kind, NEW r, NEW e, Send(k, kind, r, e),
           kind \in {"toggle", "remove"} \/ Async(r),
           r.op = "update" => Known(db, r.skill, e)
    PROVE  EditInv'
  <1>0. scenario.console \subseteq Keys
    BY SkillConsoleAssumption DEF EditInv, EditShape
  <1>1. PICK a : a = [request |-> r, expected |-> e]
    OBVIOUS
  <1>2. /\ asked[k] = None /\ asked' = [asked EXCEPT ![k] = a]
        /\ job' = [kind |-> kind, key |-> k, ws |-> tab.ws, current |-> TRUE, step |-> "sent"]
        /\ UNCHANGED <<tab, fetches, db, receipts, handlers, reply, scenario>>
    BY <1>1 DEF Send, CenterIdle, Mine
  <1>3. /\ DOMAIN asked' = Keys /\ asked'[k] = a /\ \A j \in Keys \ {k} : asked'[j] = asked[j]
    BY <1>0, <1>2 DEF EditInv, EditShape
  <1>4. AskedOK(db, a)
    BY <1>1 DEF AskedOK
  <1>5. ToldOK(db, asked[k], receipts[k], reply[k])
    BY DEF EditInv, KnowledgeOK
  <1>6. receipts[k] = None /\ reply[k] = None
    BY <1>2, <1>5 DEF ToldOK
  <1>8. \A j \in scenario.console : ToldOK(db, asked'[j], receipts[j], reply[j])
    BY <1>0, <1>3, <1>6 DEF EditInv, KnowledgeOK, ToldOK
  <1>9. KnowledgeOK(db)'
    BY <1>2, <1>3, <1>4, <1>8 DEF EditInv, KnowledgeOK
  <1>10. JobOK'
    BY <1>1, <1>2, <1>3 DEF JobOK
  <1>11. EditShape'
    BY <1>0, <1>2, <1>3, <1>10 DEF EditInv, EditShape, HandlerAsked
  <1> QED
    BY <1>9, <1>11 DEF EditInv

\* Every step of the tab keeps what is known.
LEMMA EditConsole ==
    ASSUME EditInv, Console
    PROVE  EditInv'
  <1>0. TabOK(db, tab) /\ JobOK /\ (\A x \in fetches : FetchOK(db, x)) /\ TabFields \subseteq DOMAIN tab
    BY DEF EditInv, EditShape, KnowledgeOK, TabOK
  <1>1. ASSUME NEW w, EnterWorkspace(w) PROVE EditInv'
    <2>1. UNCHANGED <<db, receipts, handlers, asked, reply, scenario>>
      BY <1>1 DEF EnterWorkspace, CenterIdle, Mine
    <2>2. SameKnowledge(tab, tab')
      BY <1>0, <1>1 DEF EnterWorkspace, SameKnowledge, TabFields
    <2>3. TabOK(db, tab')
      BY <1>0, <2>2, SameKnowledgeOK
    <2>4. PICK no : no = FALSE
      OBVIOUS
    <2>5. fetches' = WithRefresh(fetches, w, no)
      BY <1>1, <2>4 DEF EnterWorkspace
    <2>6. \A f \in fetches' : FetchOK(db, f)
      BY <1>0, <2>5, NewRefresh
    <2>7. JobOK'
      <3>1. CASE job = None
        BY <1>1, <3>1 DEF EnterWorkspace, JobOK
      <3>2. CASE job # None
        <4>1. job' = [job EXCEPT !.current = FALSE]
          BY <1>1, <3>2 DEF EnterWorkspace
        <4>2. DOMAIN job' = DOMAIN job /\ job'.step = job.step /\ job'.kind = job.kind /\ job'.key = job.key
          BY <4>1
        <4> QED
          BY <1>0, <2>1, <3>2, <4>2 DEF JobOK
      <3> QED
        BY <3>1, <3>2
    <2> QED
      BY <2>1, <2>3, <2>6, <2>7, TabKeeps
  <1>2. ASSUME NEW id, BeginEdit(id) PROVE EditInv'
    <2>1. UNCHANGED <<db, receipts, handlers, asked, reply, scenario, tab, fetches>>
      BY <1>2 DEF BeginEdit, CenterIdle, Mine
    <2>2. JobOK'
      BY <1>2 DEF BeginEdit, JobOK
    <2> QED
      BY <1>0, <2>1, <2>2, TabKeeps
  <1>3. ConsoleKeys \subseteq scenario.console
    BY DEF ConsoleKeys, FreshKeys
  <1>4. ASSUME NEW k \in ConsoleKeys, NEW id, Toggle(k, id) PROVE EditInv'
    <2>1. PICK r, e : Send(k, "toggle", r, e) /\ r.op = "replace"
      BY <1>4 DEF Toggle
    <2> QED
      BY <1>3, <2>1, EditTabSend
  <1>5. ASSUME NEW k \in ConsoleKeys, NEW id, RemoveSkill(k, id) PROVE EditInv'
    <2>1. PICK r, e : Send(k, "remove", r, e) /\ r.op = "delete"
      BY <1>5 DEF RemoveSkill
    <2> QED
      BY <1>3, <2>1, EditTabSend
  <1>6. ASSUME NEW k \in ConsoleKeys, NEW u, Upload(k, u) PROVE EditInv'
    <2>1. PICK r, e : Send(k, "upload", r, e) /\ r.op = "create"
      BY <1>6 DEF Upload
    <2> QED
      BY <1>3, <2>1, EditTabSend DEF Async
  <1>7. ASSUME NEW k \in ConsoleKeys, NEW edit, Save(k, edit) PROVE EditInv'
    <2>1. PICK r : r = [op |-> "update", skill |-> tab.editor, edit |-> edit]
      OBVIOUS
    <2>2. tab.editor # None /\ Send(k, "save", r, SkillRev(tab.editor))
      BY <1>7, <2>1 DEF Save
    <2>3. r.op = "update" /\ r.skill = tab.editor
      BY <2>1
    <2>4. Known(db, tab.editor, SkillRev(tab.editor))
      BY <1>0, <2>2 DEF SkillRev, TabOK
    <2> QED
      BY <1>3, <2>2, <2>3, <2>4, EditTabSend DEF Async
  <1> QED
    BY <1>1, <1>2, <1>4, <1>5, <1>6, <1>7, EditTabRefresh, EditTabMutation DEF Console

\* Every step keeps what is known.
LEMMA EditNext == EditInv /\ [Next]_vars => EditInv'
  <1> SUFFICES ASSUME EditInv, [Next]_vars PROVE EditInv'
    OBVIOUS
  <1>1. ASSUME UNCHANGED <<db, receipts, asked, reply, tab, fetches, job, scenario>>,
               handlers' \subseteq handlers
        PROVE  EditInv'
    <2>1. KnowledgeOK(db)'
      BY <1>1 DEF EditInv, KnowledgeOK
    <2>2. EditShape'
      BY <1>1 DEF EditInv, EditShape, HandlerAsked, JobOK
    <2> QED
      BY <2>1, <2>2 DEF EditInv
  <1>2. CASE RestartCore
    <2>1. UNCHANGED <<db, receipts, asked, reply, tab, fetches, job, scenario>>
      BY <1>2 DEF RestartCore, Restart, RestartAfterClaim, consoleVars
    <2>2. handlers' \subseteq handlers
      BY <1>2 DEF RestartCore, Restart, RestartAfterClaim, HandlersLost
    <2> QED
      BY <1>1, <2>1, <2>2
  <1>3. CASE UNCHANGED vars
    BY <1>1, <1>3 DEF vars, centerVars, consoleVars
  <1>4. CASE Serve /\ UNCHANGED <<opVars, consoleVars, scenario, restarts>>
    BY <1>4, ServeKeeps DEF consoleVars
  <1>5. CASE Client /\ UNCHANGED <<opVars, consoleVars, scenario, restarts>>
    BY <1>5, ClientKeeps DEF consoleVars
  <1>6. CASE \E k \in scenario.operations :
               /\ Operate(k)
               /\ UNCHANGED <<db, disk, receipts, asked, reply, handlers, consoleVars, scenario, restarts>>
    BY <1>1, <1>6 DEF consoleVars
  <1> QED
    BY <1>2, <1>3, <1>4, <1>5, <1>6, EditConsole DEF Next

\* Nothing is known of a Skill in the initial state.
LEMMA EditInit == Init => EditInv
  <1> SUFFICES ASSUME Init PROVE EditInv
    OBVIOUS
  <1>1. DbOK(db)
    <2>1. /\ DOMAIN db = {"rows", "revs", "next", "catalog", "binds", "bindRev"}
          /\ db.next = 2 /\ SkillIds(db) = {1} /\ DOMAIN db.revs = {1}
          /\ db.rows[1] = [name |-> Seed.name, revision |-> 1] /\ db.revs[1] = <<Seed>>
      BY DEF Init, CenterInit, SkillIds
    <2>2. <<Seed>> \in Seq({Seed})
      OBVIOUS
    <2>3. DOMAIN db.rows[1] = {"name", "revision"} /\ db.rows[1].revision = 1
      BY <2>1
    <2>4. \E S : db.revs[1] \in Seq(S)
      BY <2>1, <2>2
    <2>5. SkillOK(db, 1)
      BY <2>1, <2>3, <2>4 DEF SkillOK
    <2> QED
      BY <2>1, <2>5 DEF DbOK
  <1>2. /\ scenario \in Scenarios /\ handlers = {} /\ job = None
        /\ asked = [k \in Keys |-> None] /\ receipts = [k \in Keys |-> None]
        /\ reply = [k \in Keys |-> None]
    BY DEF Init, CenterInit
  <1>3. scenario.console \subseteq Keys
    BY <1>2, SkillConsoleAssumption
  <1>4. EditShape
    BY <1>1, <1>2 DEF EditShape, JobOK
  <1>5. TabOK(db, tab)
    <2>1. TabFields \subseteq DOMAIN tab /\ tab.editor = None /\ tab.skillRev = << >>
      BY DEF Init, TabFields
    <2>2. DOMAIN tab.skillRev = {}
      BY <2>1
    <2> QED
      BY <2>1, <2>2 DEF TabOK
  <1>6. \A f \in fetches : FetchOK(db, f)
    BY DEF Init, FetchOK, NewFetch
  <1>7. KnowledgeOK(db)
    BY <1>2, <1>3, <1>5, <1>6 DEF KnowledgeOK, AskedOK, ToldOK
  <1> QED
    BY <1>4, <1>7 DEF EditInv

\* The only step that both ends a handler and changes the tables is its commit.
LEMMA EditStep ==
    ASSUME EditInv, [Next]_vars, NEW h \in handlers, h \notin handlers',
           h.request.op = "update", h.request.skill \in SkillIds(db),
           db'.revs[h.request.skill] # db.revs[h.request.skill]
    PROVE  Latest(db', h.request.skill).extra = Latest(db, h.request.skill).extra
  <1>1. db' # db
    OBVIOUS
  <1>2. ASSUME NEW g \in handlers, CommitRevision(g)
        PROVE  Latest(db', h.request.skill).extra = Latest(db, h.request.skill).extra
    <2>1. g = h
      BY <1>2 DEF CommitRevision, Ends
    <2>2. HandlerOK(db, h)
      BY DEF EditInv, KnowledgeOK
    <2>3. /\ db.rows[h.request.skill].revision = h.expected
          /\ Latest(db', h.request.skill) = h.bundle
      BY <1>1, <1>2, <2>1, <2>2, TransactGrows DEF CommitRevision, EditInv, EditShape, HandlerOK
    <2> QED
      BY <2>2, <2>3 DEF HandlerOK
  <1>3. CASE Serve
    BY <1>1, <1>2, <1>3 DEF Serve, DeliverSync, Deliver, ReadManagedBundle, PublishBundle
  <1>4. CASE Client \/ RestartCore \/ UNCHANGED vars
    BY <1>1, <1>4 DEF Client, Ask, Rebase, RestartCore, Restart, RestartAfterClaim, vars, centerVars
  <1>5. CASE Console
    BY <1>1, <1>5 DEF Console, CenterIdle, EnterWorkspace, ServeCatalog, ServeSelection, ApplyRefresh,
       RefreshFails, Send, Toggle, Upload, RemoveSkill, Save, BeginEdit, OpenEditor, CloseEditor,
       MutationFails, ToggleSucceeds, ToggleCatalog, CatalogChanged
  <1> QED
    BY <1>1, <1>3, <1>4, <1>5 DEF Next

(***************************************************************************)
(* editSkill and createRevisionProfile: an edit that adds a revision keeps  *)
(* the supporting files of the revision it supersedes, although it read     *)
(* them several awaits earlier: whatever moved the Skill in between also    *)
(* moved the revision the edit expects.                                     *)
(***************************************************************************)
THEOREM EditsKeepSupportingFiles == Spec => EditKeepsSupportingFiles
  <1> DEFINE Kept == \A h \in handlers \ handlers' :
                       LET id == h.request.skill IN
                       ( /\ h.request.op = "update"
                         /\ id \in SkillIds(db) \cap SkillIds(db')
                         /\ db'.revs[id] # db.revs[id] )
                       => Latest(db', id).extra = Latest(db, id).extra
  <1>1. EditInv /\ [Next]_vars => [Kept]_<<db, handlers>>
    BY EditStep
  <1> QED
    BY <1>1, EditInit, EditNext, PTL DEF Spec, EditKeepsSupportingFiles

=============================================================================
