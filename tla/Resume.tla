------------------------------- MODULE Resume -------------------------------
(***************************************************************************)
(* Migrate called again for the same operation, on the same store, after   *)
(* the call before it returned or the process that made it died at any     *)
(* point. The target, the dead-letter file and the bbolt store survive;    *)
(* goroutines, channels, the context and the metrics do not.               *)
(***************************************************************************)
EXTENDS Pipeline

CONSTANT MaxRestarts \* bound: how often the operation is started again

ASSUME RestartsAssumption == MaxRestarts \in Nat

VARIABLES
  restarts, \* how often it was
  listed    \* the call in progress found its checkpoints: ListPartitions answered

resumeVars == <<vars, restarts, listed>>

ResumeInit == Init /\ restarts = 0 /\ listed = TRUE

Run == Next /\ UNCHANGED <<restarts, listed>>

\* The checkpoints a new call starts from: the store's, or none at all, since Migrate
\* ignores the error of ListPartitions.
Listings == {cp} \union (IF StoreMayFail THEN {[p \in Partitions |-> Absent]} ELSE {})

\* Boot, over the durable state the calls before it left. (TLC does not take Boot' as
\* an assignment.)
Restart ==
  /\ restarts < MaxRestarts
  /\ restarts' = restarts + 1
  /\ UNCHANGED durable
  /\ \E known \in Listings :
       /\ listed' = (known = cp)
       /\ unread' = [p \in Partitions |-> Remaining(known[p])]
       /\ source' = [p \in Partitions |-> SourceStart(known[p])]
       /\ reader' = [p \in Partitions |-> ReaderStart(known[p])]
  /\ partCh' = [p \in Partitions |-> <<>>]
  /\ held' = [p \in Partitions |-> <<>>]
  /\ recordCh' = <<>> /\ recClosed' = FALSE
  /\ batchCh' = <<>> /\ batClosed' = FALSE
  /\ tf' = [t \in Transformers |-> "select"]
  /\ batch' = [t \in Transformers |-> <<>>]
  /\ wr' = [w \in Writers |-> "select"]
  /\ work' = [w \in Writers |-> <<>>]
  /\ count' = [w \in Writers |-> 0]
  /\ todo' = [w \in Writers |-> {}]
  /\ seen' = [w \in Writers |-> <<>>]
  /\ ctx' = "live" /\ failure' = "none"
  /\ failed' = {}

ResumeNext == Run \/ Restart

ResumeSpec == ResumeInit /\ [][ResumeNext]_resumeVars

-----------------------------------------------------------------------------
\* A checkpoint never passes a record that could still be lost: everything up to
\* LastCommitted has reached the target or the dead-letter file, which a process
\* that dies does not take with it (the next one does not read it again).
CheckpointCovers ==
  \A p \in Partitions : \A o \in 1..cp[p].last : <<p, o>> \in target \union dlq

\* LastCommitted goes back only in a call that lost sight of it, because the store did
\* not list it: else no restart reads again what an earlier checkpoint had passed.
CheckpointAdvances ==
  [][listed => \A p \in Partitions : cp'[p].last >= cp[p].last]_resumeVars

\* However often it was interrupted, an operation whose last call reports success
\* has moved the whole table (test/e2e/migration_e2e_test.go:31-33: it "correctly
\* resumes from the checkpoint and produces the full expected row count").
ResumeLosesNothing == Outcome = "ok" => Records = target \union dlq

\* Over all its calls the operation is a transfer whose settled records are those the
\* durable media hold: none of them is ever taken back, and no call reports success
\* before they are all there.
Durable == INSTANCE Transfer WITH settled <- target \union dlq, outcome <- Outcome
ImplementsDurableTransfer == Durable!Spec
=============================================================================
