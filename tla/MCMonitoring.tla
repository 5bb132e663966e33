---------------------------- MODULE MCMonitoring ----------------------------
(***************************************************************************)
(* Small instances of Monitoring.                                          *)
(***************************************************************************)
EXTENDS Monitoring, TLC

\* samples are interchangeable
Symmetry == Permutations(Samples)
=============================================================================
