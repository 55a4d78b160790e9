-------------------------- MODULE MCWorkspaceGoals --------------------------
(* Instances of WorkspaceGoals for TLC.                                    *)
EXTENDS WorkspaceGoals

CONSTANTS g1, g2, c1

Alike == Permutations({g1, g2})

OneDefinition == {{c1}}
Calm == [goals |-> 1, crashes |-> 0, shutdowns |-> 0, decisions |-> 0, restarts |-> 0,
         plain |-> 0, troubles |-> 0]
Disturbances ==
    {[Calm EXCEPT !.troubles = 2, !.restarts = 1],
     [Calm EXCEPT !.troubles = 2, !.crashes = 1], [Calm EXCEPT !.troubles = 1, !.crashes = 2],
     [Calm EXCEPT !.troubles = 1, !.restarts = 1, !.crashes = 1],
     [Calm EXCEPT !.troubles = 1, !.shutdowns = 1, !.crashes = 1],
     [Calm EXCEPT !.troubles = 1, !.decisions = 1],
     [Calm EXCEPT !.decisions = 2],
     [Calm EXCEPT !.goals = 2, !.decisions = 1],
     [Calm EXCEPT !.troubles = 1, !.plain = 1]}
TwoItems == {<<{c1}, {c1}>>}
=============================================================================
