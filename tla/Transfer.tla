------------------------------ MODULE Transfer ------------------------------
(***************************************************************************)
(* What a migration promises to somebody who sees only its target and its  *)
(* result: records settle, never to be unsettled, and a call that reports  *)
(* success leaves none unsettled. A call that failed, or died, may be made *)
(* again.                                                                  *)
(***************************************************************************)
CONSTANT Records

VARIABLES
  settled,  \* records whose fate the target, or a failure report, holds
  outcome   \* the call in progress: "running", or how the last one ended

vars == <<settled, outcome>>

Init == settled = {} /\ outcome = "running"

Settle ==
  /\ outcome = "running"
  /\ \E some \in SUBSET Records : settled' = settled \union some
  /\ UNCHANGED outcome

End ==
  /\ outcome = "running"
  /\ outcome' \in {"ok", "error"}
  /\ outcome' = "ok" => settled = Records
  /\ UNCHANGED settled

CallAgain ==
  /\ outcome' = "running"
  /\ UNCHANGED settled

Next == Settle \/ End \/ CallAgain

Spec == Init /\ [][Next]_vars
=============================================================================
