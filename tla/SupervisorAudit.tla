--------------------------- MODULE SupervisorAudit ---------------------------
(***************************************************************************)
(* The settlement review of a TaskRun: what the Supervisor makes of a      *)
(* candidate (core-service/composition/supervisor.ts), how the verdict of  *)
(* an independent model becomes an audit (supervisor-reviewer.ts), the     *)
(* completion algebra Core puts over it (supervisor-audit-algebra.ts), and *)
(* the operator's acceptance of residual uncertainty, which may complete   *)
(* the blocked TaskRun later (run-governance-application.ts).              *)
(*                                                                         *)
(* One TaskRun over several Attempts.  An Attempt has at most one tool     *)
(* operation, a TaskRun at most one required check, and a verdict cites    *)
(* the same evidence for every criterion it finds covered.  The review     *)
(* awaits the model; the TaskRun may be cancelled, receive a control and   *)
(* see an acceptance expire meanwhile.                                     *)
(***************************************************************************)
EXTENDS TaskPolicy, FiniteSets

CONSTANTS Criteria,     \* the acceptance criteria of the contract
          Contracts,    \* profile and policy of a contract; if the reviewer has a
                        \* fallback host; the bounds "tools", the operations an
                        \* Attempt may run, and "disturbed", if a control or a
                        \* cancellation may come
          Remarks,      \* the semantic failures a verdict may report
          MaxAttempts,  \* bound on the Attempts
          MaxAccepted   \* bound on the acceptances

ASSUME AuditAssumption ==
    /\ Criteria # {} /\ IsFiniteSet(Criteria)
    /\ MaxAttempts \in Nat \ {0}

VARIABLES
    run,        \* the row of the TaskRun: status, attempt, continuation, approval
    contract,   \* its immutable contract, and if the reviewer has a fallback host
    work,       \* plan, operations by Attempt, the required check, pending control
    candidate,  \* the candidate of the current Attempt
    review,     \* the call of the Supervisor that is under way
    gates,      \* the latest gate evaluations
    decision,   \* the latest Supervisor decision
    accepted,   \* the accepted uncertainties, append-only
    verdict     \* history: what judged the current candidate, the coverage it gave

reviewVars == <<run, contract, work, candidate, review, gates, decision, accepted, verdict>>

Statuses == {"covered", "unsupported", "contradicted", "blocked"}
Honest   == {"unsupported", "blocked"}
GateTypes == {"progress", "evidence", "contract", "completion", "continuation"}

NoCandidate == [status |-> "none", text |-> FALSE]
NoReview    == [stage |-> "none", model |-> 1, long |-> FALSE]
NoGates     == [attempt |-> 0]
NoDecision  == [attempt |-> 0, action |-> "none", status |-> "none", bound |-> FALSE]
NoRemark    == [kind |-> "none", key |-> <<"remark", 0>>, disposition |-> "auto_fixable",
                refs |-> "none", cut |-> FALSE]
Unjudged    == [by |-> "nobody", coverage |-> <<>>]

Attempt == run.attempt
Op      == work.ops[Attempt]

\* The policy of the contract, raised by what this Attempt did.
Policy == effectiveTaskExecutionPolicy(
              contract.policy, FALSE, Op \in {"change", "failed"})
External == effectiveTaskExecutionPolicy(
                contract.policy, FALSE, FALSE).mode = "external_action"

-----------------------------------------------------------------------------
(* Evidence and prerequisites.                                              *)

Failure(kind, key, disposition) ==
    [kind |-> kind, key |-> key, disposition |-> disposition]
Gate(failures) == [passed |-> failures = {}, failures |-> failures]
Criterion(c, disposition) == Failure("contract", <<"ac", c>>, disposition)

\* Mutant: the receipt of any Attempt of the TaskRun binds a check.
TrustedOfAnyAttempt ==
    /\ work.check # 0 /\ ~work.stale
    /\ work.ops[work.check] \in {"read", "change"}

\* trustedCheck and trustedEvidence: a passed check, not stale, bound to a
\* successful operation of the current Attempt.
TrustedCheck ==
    /\ work.check = Attempt /\ ~work.stale
    /\ Op \in {"read", "change"}

\* The references a verdict may cite: "receipt" is this Attempt's operation,
\* "old" one of an earlier Attempt.
ValidRefs == (IF Op \in {"read", "change"} THEN {"receipt"} ELSE {})
             \union (IF TrustedCheck THEN {"check"} ELSE {})

PlanFailures ==
    IF work.plan = "done" THEN {}
    ELSE IF work.plan = "open" THEN {Failure("plan_item", <<"item", 0>>, "auto_fixable")}
    ELSE IF Policy.mode \in {"read_only_analysis", "workspace_mutation", "external_action"}
    THEN {Failure("plan", <<"plan", 0>>, "auto_fixable")}
    ELSE {}

CheckFailures ==
    IF \/ work.check # 0 /\ ~TrustedCheck
       \/ work.check = 0 /\ Policy.evidence = "trusted_check"
    THEN {Failure("check", <<"check", 0>>, "auto_fixable")}
    ELSE {}

\* evaluateGate: the deterministic floor of strict work.
PrerequisitesPass == PlanFailures \union CheckFailures = {}

-----------------------------------------------------------------------------
(* Audits.                                                                  *)

\* The first match decides; a failure with an unknown cure blocks.
deriveSupervisorAction(failures) ==
    LET has(ds) == \E f \in failures : f.disposition \in ds IN
    IF failures = {} THEN "complete_taskrun"
    ELSE IF has({"needs_approval"}) THEN "pause_for_approval"
    ELSE IF has({"needs_user_input", "external_dependency", "non_recoverable"})
    THEN "block_taskrun"
    ELSE "start_continuation"

Audit(progress, evidence, contractFs, completion, continuation, coverage) ==
    [gates |-> [progress |-> Gate(progress), evidence |-> Gate(evidence),
                contract |-> Gate(contractFs), completion |-> Gate(completion),
                continuation |-> Gate(continuation)],
     coverage |-> coverage,
     action |-> deriveSupervisorAction(completion)]

\* Coverage as a gate keeps it: the status of a criterion, and if an
\* acceptance qualified it.
Receipts(statuses) ==
    [c \in DOMAIN statuses |-> [status |-> statuses[c], accepted |-> FALSE]]

\* The contract stays unevaluated: its gate has not passed and names no
\* failure.
reviewDeterministicPrerequisites ==
    LET a == Audit(PlanFailures, CheckFailures, {}, PlanFailures \union CheckFailures,
                   {}, <<>>)
    IN  [a EXCEPT !.gates.contract.passed = FALSE]

\* "matches": the candidate is the literal and the TaskRun has no artifact.
reviewExactCompletion(matches) ==
    LET passed == matches /\ \A a \in 1..Attempt : work.ops[a] = "none"
        fs == IF passed THEN {}
              ELSE {Failure("contract", <<"exact_output", 0>>, "auto_fixable")}
    IN  Audit({}, {}, fs, fs, {},
              Receipts([c \in Criteria |->
                           IF passed THEN "covered" ELSE "contradicted"]))

\* No judge could be reached: nothing is guessed from the evidence at hand.
conservativeSettledAudit ==
    LET f == {Failure("supervisor", <<"semantic_review_unavailable", 0>>,
                      "external_dependency")}
    IN  Audit({}, IF ValidRefs = {} THEN f ELSE {}, f, f, f,
              Receipts([c \in Criteria |-> "blocked"]))

-----------------------------------------------------------------------------
(* The verdict of the model.                                                *)

\* parseCoverage: exactly one receipt per criterion, and references that exist.
\* What is cited is quoted word for word, a check together with the operation it
\* is bound to; any other answer is invalid.
parseCoverage(refs) ==
    {cites \in SUBSET refs : "check" \in cites => "receipt" \in cites}

CoverageFailures(v) ==
    {Criterion(c, IF v.coverage[c] = "blocked"
                  THEN "external_dependency" ELSE "auto_fixable") :
        c \in {x \in Criteria : v.coverage[x] # "covered"}}

DeliveryFailures(v) ==
    IF v.delivery = "ok" THEN {}
    ELSE {Failure("completion", <<"delivery_incomplete", 0>>, "auto_fixable")}

\* A progress failure counts when it cites operations of this Attempt, or
\* none while this Attempt shows a failed one.
ProgressCounts(r) ==
    \/ r.refs = "current" /\ Op # "none"
    \/ r.refs = "none" /\ Op = "failed"

\* parseFailures: the model chooses the key, which may be that of a criterion.
RemarkFailures(v, kinds) ==
    {Failure(r.kind, r.key, r.disposition) :
        r \in {x \in {v.remark} : x.kind \in kinds
                                  /\ (x.kind = "progress" => ProgressCounts(x))}}

\* A complaint worded as if the candidate was cut short, where only Core's
\* projection of a long candidate was, counts in no gate; but that of a
\* criterion the verdict does not find covered does.
Unresolved(v, r) ==
    r.kind = "contract" /\ r.key[1] = "ac" /\ v.coverage[r.key[2]] # "covered"
removeProjectionOnlyFailures(v) ==
    [coverage |-> v.coverage, cites |-> v.cites,
     delivery |-> IF v.delivery = "cut" /\ review.long THEN "ok" ELSE v.delivery,
     remark   |-> IF v.remark.cut /\ review.long /\ ~Unresolved(v, v.remark)
                  THEN NoRemark ELSE v.remark]

parseSemanticVerdict(v) ==
    LET trusted  == Policy.evidence = "trusted_check"
        progress == RemarkFailures(v, {"progress"})
        evidence == RemarkFailures(v, {"evidence", "check"}) \union
                    (IF trusted /\ ~TrustedCheck
                     THEN {Failure("evidence", <<"trusted_required_check", 0>>,
                                   "auto_fixable")} ELSE {})
        criteria == RemarkFailures(v, {"contract"}) \union CoverageFailures(v) \union
                    (IF trusted /\ v.cites = {}
                     THEN {Criterion(c, "auto_fixable") :
                              c \in {x \in Criteria : v.coverage[x] = "covered"}}
                     ELSE {})
        all      == RemarkFailures(v, {"completion"}) \union DeliveryFailures(v)
                    \union progress \union evidence \union criteria
        blockers == {f \in all : f.disposition \notin {"auto_fixable", "runtime_transient"}}
    IN  Audit(progress, evidence, criteria, all, blockers, Receipts(v.coverage))

\* The text of the candidate alone is judged; nothing may be cited.
reviewSemanticLite(v) ==
    LET fs == CoverageFailures(v)
    IN  Audit({}, {}, fs, fs \union DeliveryFailures(v), {}, Receipts(v.coverage))

\* The outcome is judged; a criterion that is merely unsupported does not fail.
reviewRelaxed(v) ==
    LET fs == {f \in CoverageFailures(v) : v.coverage[f.key[2]] # "unsupported"}
    IN  Audit({}, {}, fs, fs \union DeliveryFailures(v), {}, Receipts(v.coverage))

\* Which of the three judges the candidate.
Judge ==
    IF contract.profile = "relaxed" THEN "relaxed"
    ELSE IF Policy.review = "semantic_lite" THEN "lite" ELSE "full"

\* The valid answers of that judge; only the full review asks for failures and
\* takes references.
Verdicts ==
    [coverage : [Criteria -> Statuses], delivery : {"ok", "incomplete", "cut"},
     cites : IF Judge = "full" THEN parseCoverage(ValidRefs) ELSE {{}},
     remark : IF Judge = "full" THEN Remarks ELSE {NoRemark}]

Reviewed(v) ==
    CASE Judge = "relaxed" -> reviewRelaxed(v)
      [] Judge = "lite"    -> reviewSemanticLite(v)
      [] OTHER             -> parseSemanticVerdict(removeProjectionOnlyFailures(v))

-----------------------------------------------------------------------------
(* Core's algebra over an audit.                                            *)

\* A new Attempt does not inherit the authority for an external action.
requireExternalContinuationApproval(a) ==
    LET f == Failure("approval", <<"external_action_attempt_authorization", 0>>,
                     "needs_approval")
        With(g) == [passed |-> FALSE, failures |-> g.failures \union {f}]
    IN  IF Policy.mode = "external_action" /\ a.action = "start_continuation"
        THEN [a EXCEPT !.gates.completion = With(@), !.gates.continuation = With(@),
                       !.action = "pause_for_approval"]
        ELSE a

\* Mutant: an acceptance also hides a contradiction.
QualifiesAnything(status) == status # "covered"

Qualifies(status) == status \in Honest

\* An acceptance qualifies an unsupported or blocked criterion of the contract
\* gate, and nothing else.
Qualified(a, active) ==
    {c \in DOMAIN a.coverage : c \in active /\ Qualifies(a.coverage[c].status)}

\* A mark an earlier evaluation left stays.
Marked(a, now) ==
    [c \in DOMAIN a.coverage |-> [a.coverage[c] EXCEPT !.accepted = @ \/ c \in now]]

\* Only a failure of a criterion qualified now is forgiven.
Forgiven(f, now) == f.kind = "contract" /\ f.key[1] = "ac" /\ f.key[2] \in now
Unforgiven(failures, now) == {f \in failures : ~Forgiven(f, now)}

\* The criteria that still stand in the way.
Open(coverage) ==
    {c \in DOMAIN coverage :
        /\ coverage[c].status # "covered" /\ ~coverage[c].accepted
        /\ ~(contract.profile = "relaxed" /\ coverage[c].status = "unsupported")}

ContractFailures(a, now) ==
    Unforgiven(a.gates.contract.failures, now) \union
    {Criterion(c, IF a.coverage[c].status = "blocked"
                  THEN "external_dependency" ELSE "auto_fixable") :
        c \in Open(Marked(a, now))}

\* A gate that failed without naming a failure is one.
CompletionFailures(a, now, criteria) ==
    LET known  == Unforgiven(a.gates.completion.failures, now) \union criteria
                  \union a.gates.progress.failures \union a.gates.evidence.failures
        silent == \E t \in GateTypes \ {"continuation"} :
                      ~a.gates[t].passed /\ a.gates[t].failures = {}
    IN  IF known = {} /\ silent
        THEN {Failure("supervisor", <<"inconsistent_gate_state", 0>>, "non_recoverable")}
        ELSE known

enforceCompletionAuditAlgebra(a, active) ==
    LET now      == Qualified(a, active)
        criteria == ContractFailures(a, now)
        all      == CompletionFailures(a, now, criteria)
        contractPassed == /\ criteria = {}
                          /\ a.coverage = <<>> => a.gates.contract.passed
    IN  [gates |-> [a.gates EXCEPT
            !.contract   = [passed |-> contractPassed, failures |-> criteria],
            !.completion = [passed |-> /\ a.gates.progress.passed
                                       /\ a.gates.evidence.passed
                                       /\ contractPassed /\ all = {},
                            failures |-> all]],
         coverage |-> Marked(a, now),
         action   |-> deriveSupervisorAction(all)]

\* listAcceptedUncertainties at a point in time.
Active(as) == {a.criterion : a \in {x \in as : x.live}}

-----------------------------------------------------------------------------
(* Settlement.                                                              *)

\* settleCandidate, unless the TaskRun left the Attempt during the review: then
\* the decision is superseded.  "bound" says that the decision carries the hash
\* of the candidate's text; a caller that passes none binds it to the empty text.
Decided(action, bound, cand) ==
    LET live == run.status = "running" IN
    /\ decision' = [attempt |-> Attempt, action |-> action, bound |-> bound \/ ~cand.text,
                    status |-> IF live THEN "executed" ELSE "superseded"]
    /\ candidate' = IF ~live THEN cand
                    ELSE [cand EXCEPT !.status = IF action = "complete_taskrun"
                                                 THEN "accepted" ELSE "rejected"]
    /\ run' = IF ~live THEN run
              ELSE [run EXCEPT
                        !.status = IF action = "complete_taskrun" THEN "completed" ELSE "blocked",
                        !.queued = action \in {"start_continuation", "wait_for_runtime"},
                        !.approval = action = "pause_for_approval"]
    /\ review' = NoReview
    /\ UNCHANGED <<contract, work, accepted>>

\* The audit under the acceptances that are active now, after the await; the
\* gates and the decision are recorded together.
Concluded(source, cand) ==
    \E a \in {enforceCompletionAuditAlgebra(
                 requireExternalContinuationApproval(source), Active(accepted))} :
        /\ gates' = [attempt |-> Attempt, gates |-> a.gates, coverage |-> a.coverage]
        /\ Decided(a.action, TRUE, cand)

Working  == run.status = "running" /\ review.stage = "none"
Proposed == [status |-> "proposed", text |-> TRUE]
Judged(by, coverage) == verdict' = [by |-> by, coverage |-> coverage]

\* reviewSettled without an await: a control not yet delivered, no gate, a
\* prerequisite that fails, a literal answer compared.
SettleWaiting ==
    /\ Working /\ work.control
    /\ Decided("wait_for_runtime", TRUE, Proposed)
    /\ UNCHANGED <<gates, verdict>>

SettleUngated ==
    /\ Working /\ ~work.control /\ contract.profile = "off"
    /\ Decided("complete_taskrun", TRUE, Proposed)
    /\ UNCHANGED <<gates, verdict>>

SettleUnprepared ==
    /\ Working /\ ~work.control
    /\ contract.profile = "strict" /\ ~PrerequisitesPass
    /\ Concluded(reviewDeterministicPrerequisites, Proposed)
    /\ UNCHANGED verdict

Literal == contract.profile = "strict" /\ Policy.review = "local" /\ Policy.literal

SettleLiteral(matches) ==
    /\ Working /\ ~work.control /\ Literal /\ PrerequisitesPass
    /\ LET a == reviewExactCompletion(matches) IN
       /\ Concluded(a, Proposed)
       /\ Judged("core", [c \in Criteria |-> a.coverage[c].status])

\* The await: the model is asked.  A long candidate is projected.
AskJudge(long) ==
    /\ Working /\ ~work.control /\ contract.profile # "off" /\ ~Literal
    /\ contract.profile = "strict" => PrerequisitesPass
    /\ candidate' = Proposed
    /\ review' = [stage |-> "judging", model |-> 1, long |-> long]
    /\ UNCHANGED <<run, contract, work, gates, decision, accepted, verdict>>

JudgeAnswers(v) ==
    /\ review.stage = "judging"
    /\ \E a \in {Reviewed(v)} : Concluded(a, candidate)
    /\ Judged("model", v.coverage)

\* recordReviewFailure: no credential, a refused request, or an answer that
\* fails the local validation.
JudgeFails ==
    /\ review.stage = "judging"
    /\ Decided("block_taskrun", FALSE, candidate)
    /\ UNCHANGED <<gates, verdict>>

\* A timeout, a connection or a server error: a separately hosted fallback is
\* asked once, and without one the audit is conservative.
JudgeUnreachable ==
    /\ review.stage = "judging"
    /\ IF review.model = 1 /\ contract.fallback
       THEN /\ review' = [review EXCEPT !.model = 2]
            /\ UNCHANGED <<run, contract, work, candidate, gates, decision,
                           accepted, verdict>>
       ELSE /\ Concluded(conservativeSettledAudit, candidate)
            /\ UNCHANGED verdict

\* The classes of classifyAttemptFailure, and what each leads to.
FailureClass == [integrity |-> "block_taskrun", approval |-> "pause_for_approval",
                 configuration |-> "block_taskrun", transient |-> "start_continuation"]

requireExternalFailureApproval(action) ==
    IF action = "start_continuation" /\ External THEN "pause_for_approval" ELSE action

\* reviewAttemptFailure.  Only a truncated candidate has a text.
AttemptFails(class, text) ==
    /\ Working
    /\ text => class = "integrity"
    /\ Decided(requireExternalFailureApproval(FailureClass[class]), FALSE,
               [status |-> "proposed", text |-> text])
    /\ UNCHANGED <<gates, verdict>>

AskFailureJudge ==
    /\ Working
    /\ candidate' = [status |-> "proposed", text |-> FALSE]
    /\ review' = [stage |-> "classifying", model |-> 1, long |-> FALSE]
    /\ UNCHANGED <<run, contract, work, gates, decision, accepted, verdict>>

\* The model names an action; without one the TaskRun is blocked.
FailureJudged(action) ==
    /\ review.stage = "classifying"
    /\ Decided(requireExternalFailureApproval(action), FALSE, candidate)
    /\ UNCHANGED <<gates, verdict>>

-----------------------------------------------------------------------------
(* Accepted uncertainty.                                                    *)

\* Mutant: the hash alone binds the candidate, an empty one too.
BoundByHash == decision.bound

\* acceptRunUncertainty and reAdjudicateBlockedCandidate: the blocking decision
\* is bound to a candidate that has a text.
IntegrityBound == decision.bound /\ candidate.text

\* The blocked TaskRun whose latest decision blocked this very Attempt.
Adjudicable(c) ==
    /\ run.status = "blocked" /\ contract.profile = "strict"
    /\ decision.attempt = Attempt /\ decision.action = "block_taskrun"
    /\ decision.status = "executed" /\ candidate.status = "rejected"
    /\ decision.bound
    /\ gates # NoGates /\ c \in DOMAIN gates.coverage
    /\ gates.coverage[c].status \in Honest

\* One transaction: the acceptance is appended and the stored gates are judged
\* again.  The transaction fails where the algebra would complete a candidate
\* the Attempt's row is not bound to.
AcceptUncertainty(c, expires) ==
    /\ Cardinality(accepted) < MaxAccepted
    /\ Adjudicable(c)
    /\ LET new == accepted \union {[criterion |-> c, expires |-> expires, live |-> TRUE]}
           a   == enforceCompletionAuditAlgebra(gates, Active(new))
           ok  == a.action = "complete_taskrun" /\ a.gates.completion.passed
       IN  /\ ok => IntegrityBound
           /\ accepted' = new
           /\ IF ok
              THEN /\ gates' = [attempt |-> Attempt, gates |-> a.gates,
                                coverage |-> a.coverage]
                   /\ decision' = [decision EXCEPT !.action = "complete_taskrun"]
                   /\ candidate' = [candidate EXCEPT !.status = "accepted"]
                   /\ run' = [run EXCEPT !.status = "completed"]
              ELSE UNCHANGED <<gates, decision, candidate, run>>
    /\ UNCHANGED <<contract, work, review, verdict>>

AcceptanceExpires(a) ==
    /\ a \in accepted /\ a.expires /\ a.live
    /\ accepted' = (accepted \ {a}) \union {[a EXCEPT !.live = FALSE]}
    /\ UNCHANGED <<run, contract, work, candidate, review, gates, decision, verdict>>

-----------------------------------------------------------------------------
(* The Attempts around the review.                                          *)

UpdatePlan(plan) ==
    /\ Working
    /\ work' = [work EXCEPT !.plan = plan]
    /\ UNCHANGED <<run, contract, candidate, review, gates, decision, accepted, verdict>>

\* A tool ran: what may have changed the workspace makes the check stale.
RunTool(kind) ==
    /\ Working /\ Op = "none" /\ kind \in contract.tools
    /\ work' = [work EXCEPT !.ops[Attempt] = kind,
                            !.stale = @ \/ (work.check # 0 /\ kind # "read")]
    /\ UNCHANGED <<run, contract, candidate, review, gates, decision, accepted, verdict>>

\* upsertCheck binds a passed check to a successful operation of this Attempt.
RegisterCheck ==
    /\ Working /\ Op \in {"read", "change"}
    /\ work' = [work EXCEPT !.check = Attempt, !.stale = FALSE]
    /\ UNCHANGED <<run, contract, candidate, review, gates, decision, accepted, verdict>>

\* A control arrives while the Attempt runs, also during its review.
ReceiveControl ==
    /\ contract.disturbed
    /\ run.status = "running" /\ ~work.control
    /\ work' = [work EXCEPT !.control = TRUE]
    /\ UNCHANGED <<run, contract, candidate, review, gates, decision, accepted, verdict>>

DeliverControl ==
    /\ Working /\ work.control
    /\ work' = [work EXCEPT !.control = FALSE]
    /\ UNCHANGED <<run, contract, candidate, review, gates, decision, accepted, verdict>>

\* The next Attempt keeps plan, check, gates and decisions of the TaskRun.
NextAttempt ==
    /\ Attempt < MaxAttempts
    /\ run' = [run EXCEPT !.status = "running", !.attempt = @ + 1,
                          !.queued = FALSE, !.approval = FALSE]
    /\ candidate' = NoCandidate /\ verdict' = Unjudged
    /\ work' = [work EXCEPT !.control = FALSE]
    /\ UNCHANGED <<contract, review, gates, decision, accepted>>

\* startQueuedContinuation: not for an external action, whose continuation is
\* cancelled; another may be cancelled for want of progress.
StartContinuation ==
    /\ run.status = "blocked" /\ run.queued /\ ~External
    /\ NextAttempt

ContinuationStalls ==
    /\ run.status = "blocked" /\ run.queued
    /\ run' = [run EXCEPT !.queued = FALSE]
    /\ UNCHANGED <<contract, work, candidate, review, gates, decision, accepted, verdict>>

\* A resume of an external action only asks for an approval.
ResumeRun ==
    /\ run.status = "blocked" /\ ~run.approval
    /\ \/ ~External /\ NextAttempt
       \/ /\ External
          /\ run' = [run EXCEPT !.approval = TRUE, !.queued = FALSE]
          /\ decision' = [attempt |-> Attempt, action |-> "pause_for_approval",
                          status |-> "executed", bound |-> ~candidate.text]
          /\ UNCHANGED <<contract, work, candidate, review, gates, accepted, verdict>>

Approve ==
    /\ run.status = "blocked" /\ run.approval
    /\ NextAttempt

Reject ==
    /\ run.status = "blocked" /\ run.approval
    /\ run' = [run EXCEPT !.approval = FALSE]
    /\ UNCHANGED <<contract, work, candidate, review, gates, decision, accepted, verdict>>

Cancel ==
    /\ contract.disturbed
    /\ run.status \in {"running", "blocked"}
    /\ run' = [run EXCEPT !.status = "cancelled", !.queued = FALSE, !.approval = FALSE]
    /\ UNCHANGED <<contract, work, candidate, review, gates, decision, accepted, verdict>>

-----------------------------------------------------------------------------
ReviewInit ==
    /\ contract \in Contracts
    /\ run = [status |-> "running", attempt |-> 1, queued |-> FALSE, approval |-> FALSE]
    /\ work = [plan |-> "none", ops |-> [a \in 1..MaxAttempts |-> "none"],
               check |-> 0, stale |-> FALSE, control |-> FALSE]
    /\ candidate = NoCandidate /\ review = NoReview
    /\ gates = NoGates /\ decision = NoDecision
    /\ accepted = {} /\ verdict = Unjudged

Works ==
    \/ \E p \in {"open", "done"} : UpdatePlan(p)
    \/ \E k \in {"read", "change", "failed"} : RunTool(k)
    \/ RegisterCheck \/ ReceiveControl \/ DeliverControl

Settles ==
    \/ SettleWaiting \/ SettleUngated \/ SettleUnprepared
    \/ \E b \in BOOLEAN : SettleLiteral(b) \/ AskJudge(b)
    \/ \E class \in DOMAIN FailureClass, text \in BOOLEAN : AttemptFails(class, text)
    \/ AskFailureJudge

JudgeReturns ==
    \/ JudgeFails \/ JudgeUnreachable
    \/ review.stage = "judging" /\ \E v \in Verdicts : JudgeAnswers(v)
    \/ \E a \in {"pause_for_approval", "block_taskrun", "start_continuation"} :
           FailureJudged(a)

Governs ==
    \/ \E c \in Criteria, expires \in BOOLEAN : AcceptUncertainty(c, expires)
    \/ \E a \in accepted : AcceptanceExpires(a)
    \/ StartContinuation \/ ContinuationStalls \/ ResumeRun
    \/ Approve \/ Reject \/ Cancel

ReviewNext == Works \/ Settles \/ JudgeReturns \/ Governs

ReviewSpec == ReviewInit /\ [][ReviewNext]_reviewVars

-----------------------------------------------------------------------------
(* Properties.                                                              *)

Completed == run.status = "completed"

\* A TaskRun under a strict gate completes, at its settlement or by a later
\* acceptance, only when the verdict on this very candidate found each
\* criterion covered, or unsupported or blocked with an operator's acceptance
\* on record: never a contradicted one (supervisor-audit-algebra.ts:36).
CompletionIsHonest ==
    Completed /\ contract.profile = "strict" =>
        \A c \in DOMAIN verdict.coverage :
            \/ verdict.coverage[c] = "covered"
            \/ /\ verdict.coverage[c] \in Honest
               /\ \E a \in accepted : a.criterion = c

\* Whatever fails, times out or is accepted, a TaskRun with a gate completes
\* only with a candidate that has a text and that a judge, or the comparison of
\* a literal answer, has seen in this Attempt: no outage of the judge, and no
\* gate evaluation of an earlier Attempt, completes it
\* (run-governance-application.ts:93, attempt-repository.ts:330).
CompletedCandidateWasJudged ==
    Completed /\ contract.profile # "off" =>
        /\ candidate = [status |-> "accepted", text |-> TRUE]
        /\ verdict.by \in {"core", "model"}

\* The semantic reviewer cannot lift the deterministic floor: strict work that
\* needs a trusted check completes only with one bound to an operation of the
\* Attempt that completes, and with its plan done (supervisor.ts:72).
FloorHolds ==
    Completed /\ contract.profile = "strict" /\ Policy.evidence = "trusted_check" =>
        /\ work.plan = "done" /\ ~work.stale
        /\ work.check = Attempt /\ Op \in {"read", "change"}

\* Expiry is evaluated when settlement or re-adjudication occurs
\* (docs/SUPERVISOR.md:128): an acceptance that completes a blocked TaskRun
\* leaves no criterion open whose own acceptance has expired.
AcceptancesAreActive ==
    [][ run.status = "blocked" /\ run'.status = "completed" =>
          \A c \in Criteria : gates.coverage[c].status # "covered"
                                  => c \in Active(accepted') ]_reviewVars
=============================================================================
