---------------------------- MODULE ShellPolicy ----------------------------
(***************************************************************************)
(* How the bash tool classifies a command before it may run.               *)
(*                                                                         *)
(* A command is a sequence of stages, as the code splits it at separators; *)
(* a stage keeps what the classification looks at: the kind of program it  *)
(* names, how many shells it is wrapped in, and whether it redirects,      *)
(* substitutes, sets an environment or names something outside the         *)
(* workspace.                                                              *)
(***************************************************************************)
EXTENDS Naturals, Sequences

\* "assign": variable assignments only; "print": echo, printf, pwd; "list":
\* rg, ls and find on the workspace root; "inspect": the other observations
\* (cat, grep, git status ...); "verify": test and lint runners; "lifecycle":
\* a stop or restart of the hosting Core; "destructive": rm -rf and its kind.
Programs == {"assign", "print", "list", "inspect", "verify", "lifecycle",
             "destructive", "other"}

Stage(program) ==
    [program |-> program, wraps |-> 0, redirect |-> FALSE,
     substitution |-> FALSE, environment |-> FALSE, outside |-> FALSE]

Stages(command) == {command[i] : i \in DOMAIN command}
Worded(command) == {s \in Stages(command) : s.program # "assign"}

Opaque(s) == s.redirect \/ s.substitution \/ s.environment
IsFileObservation(s) == s.wraps = 0 /\ s.program \in {"print", "list", "inspect"}
IsWorkspaceCodeExecution(s) == s.wraps = 0 /\ s.program = "verify"

\* bashCommandEffect: the strongest stage decides.
BashCommandEffect(command) ==
    IF \E s \in Worded(command) :
          Opaque(s) \/ ~(IsFileObservation(s) \/ IsWorkspaceCodeExecution(s))
    THEN "mutation"
    ELSE IF \E s \in Worded(command) : IsWorkspaceCodeExecution(s)
         THEN "code_execution"
         ELSE "read_only"

BashInvalidatesChecks(command) == BashCommandEffect(command) # "read_only"

\* bashRequiresExplicitApproval: only what is provably an observation of the
\* workspace root, or prints, runs without one.
BashRequiresExplicitApproval(command) ==
    \E s \in Worded(command) :
        \/ Opaque(s) \/ ~IsFileObservation(s)
        \/ s.outside
        \/ s.program = "inspect"

\* The two guards look into nested shells, to a depth of three and of two.
BashCommandTargetsHostingCore(command) ==
    \E s \in Worded(command) : s.program = "lifecycle" /\ s.wraps <= 3
BashCommandIsDestructive(command) ==
    \E s \in Worded(command) : s.program = "destructive" /\ s.wraps <= 2
=============================================================================
