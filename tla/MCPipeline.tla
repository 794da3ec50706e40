---------------------------- MODULE MCPipeline ----------------------------
(* Instances of Pipeline for TLC.                                           *)
EXTENDS Pipeline, TLC

\* Tasks and mints are interchangeable where only safety is checked.
TaskMintSymmetry == Permutations(Tasks) \cup Permutations(Mints)
=============================================================================
