----------------------------- MODULE TaskPolicy -----------------------------
(***************************************************************************)
(* The execution policy of a TaskRun: what the Router may propose          *)
(* (admission/session-input-router.ts) and the floors Core puts under it   *)
(* (governance/domain/task-policy.ts).  A policy is a mode with a side     *)
(* effect risk, an evidence policy and a review policy.  The text of a     *)
(* request is reduced to what the regular expressions find in it.          *)
(***************************************************************************)
EXTENDS Naturals

Modes     == {"exact_delivery", "semantic_delivery", "read_only_analysis",
              "workspace_mutation", "external_action"}
Risks     == {"none", "read_only", "workspace", "external_high"}
Evidences == {"none", "semantic", "operation_receipt", "trusted_check"}
Reviews   == {"local", "semantic_lite", "full"}

Policies == [mode : Modes, risk : Risks, evidence : Evidences,
             review : Reviews, literal : BOOLEAN]

\* What a request says: an instruction, what it is framed as, and the kinds
\* of its current objectives.
Sources == [external : BOOLEAN, mutation : BOOLEAN, topic : BOOLEAN,
            delivery : BOOLEAN, combined : BOOLEAN, exact : BOOLEAN,
            change : BOOLEAN, answer : BOOLEAN, imperative : BOOLEAN,
            artifact : BOOLEAN]

riskRank == [none |-> 0, read_only |-> 1, workspace |-> 2, external_high |-> 3]
evidenceRank ==
    [none |-> 0, semantic |-> 1, operation_receipt |-> 2, trusted_check |-> 3]
reviewRank == [local |-> 0, semantic_lite |-> 1, full |-> 2]
modeRank == [exact_delivery |-> 0, semantic_delivery |-> 1,
             read_only_analysis |-> 2, workspace_mutation |-> 3,
             external_action |-> 4]

maxByRank(a, b, rank) == IF rank[a] >= rank[b] THEN a ELSE b

\* canonicalPolicyProfile: the risk, evidence and review of a mode.
Profile ==
    [exact_delivery     |-> <<"none", "none", "local">>,
     semantic_delivery  |-> <<"none", "semantic", "semantic_lite">>,
     read_only_analysis |-> <<"read_only", "operation_receipt", "full">>,
     workspace_mutation |-> <<"workspace", "trusted_check", "full">>,
     external_action    |-> <<"external_high", "trusted_check", "full">>]

Canonical(mode, literal) ==
    [mode |-> mode, risk |-> Profile[mode][1], evidence |-> Profile[mode][2],
     review |-> Profile[mode][3], literal |-> literal]

-----------------------------------------------------------------------------
(* The effective policy.                                                    *)

\* The mode a proposal implies, the strongest of its redundant fields.
NormalizedMode(p) ==
    IF p.mode = "external_action" \/ p.risk = "external_high"
    THEN "external_action"
    ELSE IF \/ p.mode = "workspace_mutation" \/ p.risk = "workspace"
            \/ p.evidence = "trusted_check"
    THEN "workspace_mutation"
    ELSE IF \/ p.mode = "read_only_analysis" \/ p.risk = "read_only"
            \/ p.evidence = "operation_receipt"
    THEN "read_only_analysis"
    ELSE IF \/ p.mode = "semantic_delivery" \/ p.evidence = "semantic"
            \/ p.review # "local" \/ ~p.literal
    THEN "semantic_delivery"
    ELSE "exact_delivery"

Normalized(p) ==
    LET c == Canonical(NormalizedMode(p), p.literal)
    IN  [c EXCEPT !.review = maxByRank(p.review, c.review, reviewRank)]

\* A Roadmap item, or an operation of the Attempt that may have mutated the
\* workspace, raises the policy.
Raised(p) ==
    [p EXCEPT
        !.mode = IF p.mode = "external_action" THEN @ ELSE "workspace_mutation",
        !.risk = maxByRank(@, "workspace", riskRank),
        !.evidence = maxByRank(@, "trusted_check", evidenceRank),
        !.review = maxByRank(@, "full", reviewRank)]

effectiveTaskExecutionPolicy(p, roadmapGoal, mutationObserved) ==
    LET q == IF roadmapGoal \/ mutationObserved
             THEN Raised(Normalized(p)) ELSE Normalized(p)
        r == IF q.mode \in {"external_action", "workspace_mutation"}
             THEN Canonical(q.mode, q.literal) ELSE q
    IN  IF r.review = "local" /\ r.mode # "exact_delivery"
        THEN [r EXCEPT !.review = "semantic_lite"] ELSE r

\* A contract without a policy.
conservativeTaskExecutionPolicy(src) ==
    IF src.change THEN Canonical("workspace_mutation", FALSE)
    ELSE IF src.answer THEN Canonical("semantic_delivery", FALSE)
    ELSE Canonical("read_only_analysis", FALSE)

-----------------------------------------------------------------------------
(* The Router.                                                              *)

hasSemanticRiskAmbiguity(src) ==
    /\ src.external \/ src.mutation
    /\ src.topic \/ src.delivery
    /\ ~src.combined

ruleExecutionPolicy(src) ==
    IF src.exact THEN Canonical("exact_delivery", TRUE)
    ELSE IF ~hasSemanticRiskAmbiguity(src) /\ src.external
    THEN Canonical("external_action", FALSE)
    ELSE IF ~hasSemanticRiskAmbiguity(src) /\ (src.mutation \/ src.change)
    THEN Canonical("workspace_mutation", FALSE)
    ELSE IF src.delivery \/ src.answer THEN Canonical("semantic_delivery", FALSE)
    ELSE Canonical("read_only_analysis", FALSE)

\* Without an answer of the model an imperative the rules cannot place is an
\* external action.
conservativeFallback(src) ==
    LET rule == ruleExecutionPolicy(src)
    IN  IF /\ src.imperative /\ ~src.artifact
           /\ rule.mode \notin {"external_action", "workspace_mutation"}
        THEN Canonical("external_action", FALSE) ELSE rule

\* parse: the proposal of the model, normalized, above the floor of the rules.
\* A literal answer needs the rules' consent.
ModelPolicy(src, proposed) ==
    LET rule == ruleExecutionPolicy(src)
        raw  == IF proposed.mode # "exact_delivery"
                THEN [proposed EXCEPT !.literal = FALSE]
                ELSE IF rule.mode = "exact_delivery"
                THEN [proposed EXCEPT !.literal = TRUE]
                ELSE [proposed EXCEPT !.mode = "semantic_delivery",
                                      !.literal = FALSE]
        p    == effectiveTaskExecutionPolicy(raw, FALSE, FALSE)
        sure == ~hasSemanticRiskAmbiguity(src)
    IN  IF rule.mode = "external_action" /\ sure THEN rule
        ELSE IF /\ rule.mode = "workspace_mutation" /\ sure
                /\ p.mode \notin {"workspace_mutation", "external_action"}
        THEN rule ELSE p

\* canUseDeterministicResult, as far as the policy decides it.
Deterministic(src) ==
    /\ ~hasSemanticRiskAmbiguity(src)
    /\ ~(src.imperative /\ ~src.delivery /\ ~src.exact)

\* The policies route may return for a request.  The model may omit its
\* proposal, or not answer.
RoutedPolicies(src) ==
    {ruleExecutionPolicy(src)} \union
    (IF Deterministic(src) THEN {}
     ELSE {conservativeFallback(src)} \union
          {ModelPolicy(src, p) : p \in Policies})

-----------------------------------------------------------------------------
(* Properties.                                                              *)

AtLeast(p, q) ==
    /\ modeRank[p.mode] >= modeRank[q.mode]
    /\ riskRank[p.risk] >= riskRank[q.risk]
    /\ evidenceRank[p.evidence] >= evidenceRank[q.evidence]
    /\ reviewRank[p.review] >= reviewRank[q.review]

\* Core's floors cannot be lowered (task-policy.ts:90): the effective policy is
\* at least as strict as every field of the proposal, a second evaluation (the
\* Router's at admission, the gates' later) changes nothing, and an observed
\* mutation or an attached Roadmap item never weakens it.
FloorsHold ==
    \A p \in Policies, goal \in BOOLEAN, seen \in BOOLEAN :
        LET e == effectiveTaskExecutionPolicy(p, goal, seen) IN
        /\ riskRank[e.risk] >= riskRank[p.risk]
        /\ evidenceRank[e.evidence] >= evidenceRank[p.evidence]
        /\ reviewRank[e.review] >= reviewRank[p.review]
        /\ modeRank[e.mode] >= modeRank[p.mode]
        /\ effectiveTaskExecutionPolicy(e, goal, seen) = e
        /\ AtLeast(e, effectiveTaskExecutionPolicy(p, FALSE, FALSE))

\* Whatever the model answers, and if it answers at all, a request whose words
\* plainly ask for an external action, or for a change of the workspace, is
\* not routed below that mode (session-input-router.ts:410).
ModelCannotLower ==
    \A src \in Sources : \A p \in RoutedPolicies(src) :
        ~hasSemanticRiskAmbiguity(src) /\ ~src.exact =>
            /\ src.external => p.mode = "external_action"
            /\ src.mutation => modeRank[p.mode] >= modeRank["workspace_mutation"]

=============================================================================
