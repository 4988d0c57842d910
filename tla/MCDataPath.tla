---------------------------- MODULE MCDataPath -----------------------------
(* Instances of DataPath for TLC. *)
EXTENDS DataPath

\* The two records are interchangeable.
RecordSymmetry == Permutations(Records)
=============================================================================
