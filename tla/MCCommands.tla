---------------------------- MODULE MCCommands -----------------------------
(* Instances of Commands for TLC. *)
EXTENDS Commands

\* One process ID is the beginning of the other.
MCPids == {<<"1">>, <<"1", "2">>}
MCHostOps == {<<"job">>}
=============================================================================
