--------------------------- MODULE MCToolReceipts ---------------------------
(* Small instances of ToolReceipts.                                        *)
EXTENDS ToolReceipts, TLC

CONSTANTS c1, c2, c3

Request(tool, action, program) ==
    [tool |-> tool, action |-> action, command |-> <<Stage(program)>>]

ls == Request("ls", "root", "list")
write == Request("write", "file", "assign")
verify == Request("bash", "run", "verify")
wipe == Request("bash", "run", "destructive")
register == Request("task_run", "check", "assign")
ask == Request("task_run", "request_user_input", "assign")

MCScripts ==
    {<<verify, register, write, register>>, <<verify, verify, register, verify>>,
     <<ls, ls, write, write>>, <<write, ask, wipe, ls>>}

Symmetry == Permutations(Calls)
=============================================================================
