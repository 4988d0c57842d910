------------------------------ MODULE MCResume ------------------------------
(* Resume on a small instance, interrupted at most MaxRestarts times.       *)
EXTENDS Resume
=============================================================================
