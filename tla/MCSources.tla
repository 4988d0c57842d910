----------------------------- MODULE MCSources ------------------------------
(* Instances of Sources for TLC. *)
EXTENDS Sources
=============================================================================
