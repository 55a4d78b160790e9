---------------------------- MODULE EffectLedger ----------------------------
(***************************************************************************)
(* What operation receipts promise, with nothing of how they are kept: an  *)
(* operation is claimed once, its effect lands at most once and only after *)
(* the claim, success is written only over a landed effect, a rejection    *)
(* only over none that can still land, and a settled entry never changes.  *)
(***************************************************************************)
EXTENDS Naturals

CONSTANT Operations

VARIABLES
    entry,      \* entry[o]: the operation's receipt
    landed      \* landed[o]: how often its effect has taken place

LedgerInit ==
    /\ entry = [o \in Operations |-> "absent"]
    /\ landed = [o \in Operations |-> 0]

Claim(o) ==
    /\ entry[o] = "absent"
    /\ entry' = [entry EXCEPT ![o] = "claimed"]
    /\ UNCHANGED landed

\* Claimed and refused in one step: nothing was started.
Refuse(o) ==
    /\ entry[o] = "absent"
    /\ \E outcome \in {"rejected", "failed"} :
          entry' = [entry EXCEPT ![o] = outcome]
    /\ UNCHANGED landed

\* A failed or unknown outcome does not say that nothing will happen.
Land(o) ==
    /\ entry[o] \in {"claimed", "failed", "unknown"}
    /\ landed[o] = 0
    /\ landed' = [landed EXCEPT ![o] = 1]
    /\ UNCHANGED entry

Succeed(o) ==
    /\ entry[o] = "claimed" /\ landed[o] = 1
    /\ entry' = [entry EXCEPT ![o] = "succeeded"]
    /\ UNCHANGED landed

Fail(o) ==
    /\ entry[o] = "claimed"
    /\ entry' = [entry EXCEPT ![o] = "failed"]
    /\ UNCHANGED landed

\* A restart: nobody can tell any more.
Forget ==
    /\ entry' = [o \in Operations |->
                    IF entry[o] = "claimed" THEN "unknown" ELSE entry[o]]
    /\ UNCHANGED landed

LedgerNext ==
    \/ Forget
    \/ \E o \in Operations :
          Claim(o) \/ Refuse(o) \/ Land(o) \/ Succeed(o) \/ Fail(o)

LedgerSpec == LedgerInit /\ [][LedgerNext]_<<entry, landed>>
=============================================================================
