--------------------------- MODULE MCWriterFence ---------------------------
(***************************************************************************)
(* The instances of WriterFence that TLC checks: lives of Core processes    *)
(* that start after one or two crashes left their files behind.             *)
(***************************************************************************)
EXTENDS WriterFence
=============================================================================
