--------------------------- MODULE MCStackTracer ---------------------------
(***************************************************************************)
(* Instances of StackTracer for TLC.                                       *)
(***************************************************************************)
EXTENDS StackTracer

CONSTANT LastCpu  \* the CPUs 0 to LastCpu are online

MCOnline == 0..LastCpu
=============================================================================
