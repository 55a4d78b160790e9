--------------------------- MODULE MCControlInbox ---------------------------
EXTENDS ControlInbox, TLC

CONSTANTS s, f      \* a steer and a follow-up

MCControls == {s, f}
MCFollowUps == {f}
MCWindows == {0, 3}

\* Both controls meet in one Attempt; every way to recover a failed turn; a
\* second Attempt after any outcome of the first.
MCScenarios == {
    [maxRetries |-> 0, fallbacks |-> 0, attempts |-> 1, controls |-> {s, f}],
    [maxRetries |-> 1, fallbacks |-> 1, attempts |-> 1, controls |-> {s}],
    [maxRetries |-> 0, fallbacks |-> 0, attempts |-> 2, controls |-> {f}]}
=============================================================================
