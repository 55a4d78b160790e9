--------------------------- MODULE MCSessionInbox ---------------------------
(* Model checking of SessionInbox and of the policy its items carry.        *)
EXTENDS SessionInbox, TaskPolicy, TLC

CONSTANTS r1, r2, rel1, map1

\* Two submissions, one with a second objective; or a submission and an item
\* of a Roadmap.
MCScenarios == {{r1, r2, rel1}, {r1, map1}}

\* An external action, and a TaskRun that a tool makes one, has an Attempt after
\* its approved one; the related objective has its first one.
MCMaxAttempts == [i \in Items |-> CASE i = rel1 -> 1
                                    [] i = r2 -> 2
                                    [] OTHER -> 3]

\* The policy operators, evaluated for every policy and every kind of request.
ASSUME PolicyFloors == FloorsHold /\ ModelCannotLower

\* Concurrent requests are interchangeable.
Symmetry == Permutations(Callers)

=============================================================================
