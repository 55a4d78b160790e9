------------------------- MODULE MCSupervisorAudit -------------------------
(* Instances of SupervisorAudit for TLC. *)
EXTENDS SupervisorAudit

Contract(profile, mode, fallback, tools, disturbed) ==
    [profile |-> profile, fallback |-> fallback, tools |-> tools,
     disturbed |-> disturbed, policy |-> Canonical(mode, mode = "exact_delivery")]

MCContracts ==
    { Contract("off", "semantic_delivery", FALSE, {}, TRUE),
      Contract("relaxed", "read_only_analysis", FALSE, {"read"}, TRUE),
      Contract("strict", "exact_delivery", FALSE, {"failed"}, TRUE),
      Contract("strict", "semantic_delivery", TRUE, {}, TRUE),
      Contract("strict", "workspace_mutation", FALSE, {"change"}, FALSE),
      Contract("strict", "external_action", FALSE, {"read"}, FALSE) }

Remark(kind, key, disposition, refs, cut) ==
    [kind |-> kind, key |-> key, disposition |-> disposition, refs |-> refs, cut |-> cut]
Free == <<"remark", 0>>

MCRemarks ==
    { NoRemark,
      Remark("progress", Free, "non_recoverable", "old", FALSE),
      Remark("progress", Free, "auto_fixable", "current", TRUE),
      Remark("contract", <<"ac", 1>>, "auto_fixable", "none", TRUE),
      Remark("completion", Free, "needs_approval", "none", FALSE) }
=============================================================================
