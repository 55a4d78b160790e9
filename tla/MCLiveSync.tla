----------------------------- MODULE MCLiveSync -----------------------------
EXTENDS LiveSync, TLC

\* A TaskRun that is blocked and continued; one whose continuation cannot be
\* prepared; one that asks for input and ends; one that asks and goes on; one
\* that ends after a journal-only event; text with its checkpoints.
MCScripts == {
    <<"blocked", "started", "context">>,
    <<"blocked", "started", "unprepared">>,
    <<"waiting", "ended">>,
    <<"waiting", "resumed">>,
    <<"internal", "silent", "ended">>,
    <<"delta", "boundary">>}
=============================================================================
