------------------------- MODULE MCTaskRunLifecycle -------------------------
(***************************************************************************)
(* The instances of TaskRunLifecycle that TLC checks: one TaskRun, whose    *)
(* Attempts, continuations and crashes are bounded by the configurations    *)
(* TaskRunLifecycle_*.cfg.                                                  *)
(***************************************************************************)
EXTENDS TaskRunLifecycle
=============================================================================
