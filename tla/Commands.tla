------------------------------ MODULE Commands ------------------------------
(***************************************************************************)
(* Processes of the program that run at the same time beside one           *)
(* checkpoint file and one audit log: who gets the file, whose checkpoints *)
(* a migration finds in it, what the audit log says afterwards. The work   *)
(* of a command is Pipeline's, Backup's and DataPath's subject; here a     *)
(* migration copies the rows of one partition in their order.              *)
(*                                                                         *)
(* No command calls SaveMeta, SaveStatus or GC. A "host" is a program that *)
(* does, as they are documented: it keeps the file open, names its         *)
(* operations itself, marks the finished ones, and collects old ones in    *)
(* another goroutine.                                                      *)
(***************************************************************************)
EXTENDS CheckpointStore, FiniteSets

CONSTANTS
  Pids,       \* process IDs, each a sequence of digits; the system uses them again
  NoProcess,  \* not one of them
  HostOps,    \* the operations of the hosts
  Targets,    \* databases to migrate the table to
  HostTarget, \* the one of the hosts
  LastRow,    \* rows of the table's only partition are 1..LastRow
  Retention,  \* GC's retentionAge
  MaxRuns,    \* bound: processes started
  MaxTime     \* bound: clock

\* What a process ID is written with.
Digits == {"0", "1", "2", "3", "4", "5", "6", "7", "8", "9"}

ASSUME CommandsAssumption ==
  /\ {LastRow, Retention, MaxRuns, MaxTime} \subseteq Nat
  /\ NoProcess \notin Pids /\ HostTarget \in Targets
  /\ Pids \subseteq Seq(Digits) /\ HostOps \subseteq Seq(STRING)

None == "none"
Stored == {"migrate", "status", "host"}      \* commands that open the file
Audited == {"migrate", "backup", "restore"}  \* commands that write the audit log

VARIABLES
  proc,    \* proc[p]: the process with ID p, with its entries of the audit log, or how it ended
  lock,    \* the process that has the checkpoint file open
  db,      \* the file
  rows,    \* rows[t]: what the migrations have written to t
  runs,    \* how many processes were started
  gc,      \* the collecting goroutine of the host
  now,     \* the clock
  asFloat  \* what is left of an offset that went through a float64

vars == <<proc, lock, db, rows, runs, gc, now, asFloat>>

Gone(how) == [pc |-> "exited", how |-> how]
Offsets == 0..LastRow + 1
AtRest == [pc |-> None]

\* Offsets above 2^53 may become a number above them, here above all of the table's. (Or
\* below: then rows are only read again.)
Rounding == {[n \in Offsets |-> n], [n \in Offsets |-> LastRow + 1]}

Init ==
  /\ proc = [p \in Pids |-> Gone(None)] /\ lock = NoProcess
  /\ db = NewStore /\ rows = [t \in Targets |-> {}]
  /\ runs = 0
  /\ gc = AtRest /\ now = 0
  /\ asFloat \in Rounding

-----------------------------------------------------------------------------
Alive(p) == proc[p].pc # "exited"
At(p, pc) == proc[p].pc = pc
Goes(p, pc) == proc' = [proc EXCEPT ![p].pc = pc]

\* The process is gone, and with it its lock and its goroutines.
Exits(p, how) ==
  /\ proc' = [proc EXCEPT ![p] = Gone(how)]
  /\ lock' = IF lock = p THEN NoProcess ELSE lock
  /\ gc' = IF lock = p THEN AtRest ELSE gc

\* An entry is one append to the log, unless the log could not be opened or does not take
\* it, which is logged elsewhere.
Logs(p, what, pc) ==
  \/ proc' = [proc EXCEPT ![p].pc = pc, ![p].entries = Append(@, what)]
  \/ proc' = [proc EXCEPT ![p].pc = pc, ![p].unlogged = TRUE]

-----------------------------------------------------------------------------
(* A command starts, and opens the checkpoint file if it uses one.         *)

Starts(p) ==
  /\ ~Alive(p) /\ runs < MaxRuns
  /\ runs' = runs + 1
  /\ \E cmd \in Stored \cup Audited :
       \E t \in (IF cmd = "migrate" THEN Targets ELSE IF cmd = "host" THEN {HostTarget} ELSE {None}),
          op \in (IF cmd = "host" THEN HostOps ELSE {<<"mig-">> \o p}) :
         proc' = [proc EXCEPT ![p] =
           [cmd |-> cmd, pc |-> IF cmd \in Stored THEN "opening" ELSE "ready", op |-> op, target |-> t,
            next |-> 0, outcome |-> None, misled |-> FALSE, entries |-> <<>>, unlogged |-> FALSE]]
  /\ UNCHANGED <<lock, db, rows, gc, now, asFloat>>

Opens_Unlocked(p) == At(p, "opening") /\ lock' = p /\ Goes(p, "ready") /\ UNCHANGED <<db, rows, runs, gc, now, asFloat>> \* mutant

Opens(p) ==
  /\ At(p, "opening") /\ lock = NoProcess
  /\ lock' = p
  /\ Goes(p, "ready")
  /\ UNCHANGED <<db, rows, runs, gc, now, asFloat>>

\* bbolt waits one second for the lock.
TimesOut(p) ==
  /\ At(p, "opening") /\ lock # NoProcess
  /\ Exits(p, "failed")
  /\ UNCHANGED <<db, rows, runs, now, asFloat>>

Shows(p) ==
  /\ At(p, "ready") /\ proc[p].cmd = "status"
  /\ Exits(p, "ok")
  /\ UNCHANGED <<db, rows, runs, now, asFloat>>

-----------------------------------------------------------------------------
(* migrate, backup and restore.                                            *)

\* The dead-letter file, the databases and the storage are opened.
Prepares(p) ==
  /\ At(p, "ready") /\ proc[p].cmd \in Audited
  /\ \/ Logs(p, "start", "begun") /\ UNCHANGED <<lock, gc>>
     \/ Exits(p, "failed")
  /\ UNCHANGED <<db, rows, runs, now, asFloat>>

\* The schema cannot be read or applied, or there is no such backup format: the command
\* returns after its first entry, without a second.
ReturnsEarly(p) ==
  /\ At(p, "begun") /\ proc[p].cmd \in {"migrate", "backup"}
  /\ Exits(p, "early")
  /\ UNCHANGED <<db, rows, runs, now, asFloat>>

BacksOrRestores(p) ==
  /\ At(p, "begun") /\ proc[p].cmd \in {"backup", "restore"}
  /\ \E outcome \in {"success", "failure"} :
       proc' = [proc EXCEPT ![p].pc = "ending", ![p].outcome = outcome]
  /\ UNCHANGED <<lock, db, rows, runs, gc, now, asFloat>>

-----------------------------------------------------------------------------
(* The migration, of a command or a host.                                  *)

\* Migrate looks for the checkpoints of its operation. It is misled if its own counts rows
\* of another target, or is wrong: its offset is no longer the one that was saved, or was
\* saved by a migration that was misled itself.
Begins(p) ==
  /\ At(p, "begun") /\ proc[p].cmd \in {"migrate", "host"}
  /\ LET found == ListPartitions(db, proc[p].op)
         own == GetPartition(db, proc[p].op, "p")
         misled == HasPartition(db, proc[p].op, "p") /\ (own.into # proc[p].target \/ own.wrong)
     IN \/ /\ \E cp \in found : cp.status = "Done"
           /\ proc' = [proc EXCEPT ![p].pc = "ending", ![p].outcome = "success", ![p].misled = misled]
        \/ /\ \A cp \in found : cp.status # "Done"
           /\ \E from \in (IF found = {} THEN {1} ELSE {cp.last : cp \in found}) :
                proc' = [proc EXCEPT ![p].pc = "copying", ![p].next = from, ![p].misled = misled]
  /\ UNCHANGED <<lock, db, rows, runs, gc, now, asFloat>>

Copies(p) ==
  /\ At(p, "copying") /\ proc[p].next <= LastRow
  /\ rows' = [rows EXCEPT ![proc[p].target] = @ \cup {proc[p].next}]
  /\ Goes(p, "saving")
  /\ UNCHANGED <<lock, db, runs, gc, now, asFloat>>

Progress(p) ==
  [id |-> "p", last |-> proc[p].next, into |-> proc[p].target, wrong |-> proc[p].misled,
   status |-> IF HasPartition(db, proc[p].op, "p") THEN GetPartition(db, proc[p].op, "p").status ELSE "InProgress"]

\* That a checkpoint is not saved is logged.
Saves(p) ==
  /\ At(p, "saving")
  /\ db' = SavePartition(db, proc[p].op, Progress(p)) \/ UNCHANGED db
  /\ proc' = [proc EXCEPT ![p].pc = "copying", ![p].next = @ + 1]
  /\ UNCHANGED <<lock, rows, runs, gc, now, asFloat>>

Finishes(p) ==
  /\ At(p, "copying")
  /\ \/ proc[p].next > LastRow /\ proc' = [proc EXCEPT ![p].pc = "ending", ![p].outcome = "success"]
     \/ proc' = [proc EXCEPT ![p].pc = "ending", ![p].outcome = "failure"]
  /\ UNCHANGED <<lock, db, rows, runs, gc, now, asFloat>>

-----------------------------------------------------------------------------
Ends_Success(p) == \* mutant: the outcome is not looked at
  /\ At(p, "ending") /\ proc[p].cmd \in Audited
  /\ Logs(p, "success", "leaving")
  /\ UNCHANGED <<lock, db, rows, runs, gc, now, asFloat>>

\* The second entry of a command, and its end. Execute calls os.Exit when it failed.
Ends(p) ==
  /\ At(p, "ending") /\ proc[p].cmd \in Audited
  /\ Logs(p, proc[p].outcome, "leaving")
  /\ UNCHANGED <<lock, db, rows, runs, gc, now, asFloat>>

Leaves(p) ==
  /\ At(p, "leaving")
  /\ Exits(p, IF proc[p].outcome = "success" THEN "ok" ELSE "failed")
  /\ UNCHANGED <<db, rows, runs, now, asFloat>>

Killed(p) ==
  /\ Alive(p)
  /\ Exits(p, "killed")
  /\ UNCHANGED <<db, rows, runs, now, asFloat>>

-----------------------------------------------------------------------------
(* A host.                                                                 *)

HostBegins(p) ==
  /\ At(p, "ready") /\ proc[p].cmd = "host"
  /\ db' = SaveMeta(db, proc[p].op, now)
  /\ Goes(p, "begun")
  /\ UNCHANGED <<lock, rows, runs, gc, now, asFloat>>

\* A failed partition is marked, too.
HostEnds(p) ==
  /\ At(p, "ending") /\ proc[p].cmd = "host"
  /\ LET op == proc[p].op
         marked == SaveStatus(db, op, "p", IF proc[p].outcome = "success" THEN "Done" ELSE "Failed", asFloat)
         changed == /\ HasPartition(db, op, "p")
                    /\ GetPartition(marked, op, "p").last # GetPartition(db, op, "p").last
     IN db' = IF changed THEN SavePartition(db, op, [GetPartition(marked, op, "p") EXCEPT !.wrong = TRUE])
              ELSE marked
  /\ Goes(p, "leaving")
  /\ UNCHANGED <<lock, rows, runs, gc, now, asFloat>>

\* GC reads the IDs and the clock once,
GCLists(p) ==
  /\ lock = p /\ proc[p].cmd = "host" /\ gc = AtRest
  /\ gc' = [pc |-> "next", ids |-> ListAllMetaIDs(db), cutoff |-> now - Retention]
  /\ UNCHANGED <<proc, lock, db, rows, runs, now, asFloat>>

GCReads_Young == \* mutant: After, not Before
  /\ gc.pc = "next"
  /\ \E id \in gc.ids :
       gc' = IF id \in DOMAIN db.meta /\ ~(db.meta[id] < gc.cutoff)
             THEN [pc |-> "stale", ids |-> gc.ids \ {id}, cutoff |-> gc.cutoff, id |-> id, read |-> db.meta[id]]
             ELSE [gc EXCEPT !.ids = @ \ {id}]
  /\ UNCHANGED <<proc, lock, db, rows, runs, now, asFloat>>

\* then each operation's start, skipping what has gone or is young,
GCReads ==
  /\ gc.pc = "next"
  /\ \E id \in gc.ids :
       gc' = IF id \in DOMAIN db.meta /\ db.meta[id] < gc.cutoff
             THEN [pc |-> "stale", ids |-> gc.ids \ {id}, cutoff |-> gc.cutoff, id |-> id, read |-> db.meta[id]]
             ELSE [gc EXCEPT !.ids = @ \ {id}]
  /\ UNCHANGED <<proc, lock, db, rows, runs, now, asFloat>>

\* and deletes the old ones, in another transaction.
GCDeletes ==
  /\ gc.pc = "stale"
  /\ db' = DeleteOperation(db, gc.id) \/ UNCHANGED db
  /\ gc' = [pc |-> "next", ids |-> gc.ids, cutoff |-> gc.cutoff]
  /\ UNCHANGED <<proc, lock, rows, runs, now, asFloat>>

GCEnds ==
  /\ gc.pc = "next" /\ gc.ids = {}
  /\ gc' = AtRest
  /\ UNCHANGED <<proc, lock, db, rows, runs, now, asFloat>>

Ticks ==
  /\ now < MaxTime
  /\ now' = now + 1
  /\ UNCHANGED <<proc, lock, db, rows, runs, gc, asFloat>>

-----------------------------------------------------------------------------
Step(p) ==
  \/ Opens(p) \/ TimesOut(p) \/ Shows(p)
  \/ Prepares(p) \/ ReturnsEarly(p) \/ BacksOrRestores(p)
  \/ Begins(p) \/ Copies(p) \/ Saves(p) \/ Finishes(p)
  \/ Ends(p) \/ Leaves(p)
  \/ HostBegins(p) \/ HostEnds(p)

Next ==
  \/ \E p \in Pids : Starts(p) \/ Step(p) \/ Killed(p) \/ GCLists(p)
  \/ GCReads \/ GCDeletes \/ GCEnds
  \/ Ticks

Spec == Init /\ [][Next]_vars

-----------------------------------------------------------------------------
\* The variables have their types, and at most one process is past opening the file.
TypeOK ==
  /\ lock \in Pids \cup {NoProcess}
  /\ \A p \in Pids :
       Alive(p) =>
         /\ proc[p].cmd \in Stored \cup Audited
         /\ proc[p].next \in Offsets
         /\ proc[p].cmd \in Stored => (lock = p <=> proc[p].pc # "opening")
  /\ rows \in [Targets -> SUBSET (1..LastRow)]
  /\ \A k \in DOMAIN db.partitions : db.partitions[k].last \in Offsets
  /\ gc.pc \in {None, "next", "stale"}

\* A migration that ends with success has all rows of the table in its target. It has not,
\* although it says so, when it found a checkpoint under its own name that was not about
\* this target (the process ID was used before) or had been rounded.
SuccessIsDelivered ==
  \A p \in Pids :
    At(p, "ending") /\ proc[p].target # None /\ proc[p].outcome = "success" =>
      rows[proc[p].target] = 1..LastRow \/ proc[p].misled

\* When a command ends, what the audit log says of it is what happened: but for entries
\* that could not be written, every outcome is there, except those of commands that
\* returned early or were killed.
TrailTells ==
  [][\A p \in Pids :
       Alive(p) /\ ~Alive(p)' /\ proc[p].cmd \in Audited =>
         LET entries == Range(proc[p].entries)
             how == proc'[p].how
         IN /\ how = "ok" => "success" \in entries \/ proc[p].unlogged
            /\ how = "failed" /\ "start" \in entries => "failure" \in entries \/ proc[p].unlogged
            /\ "success" \in entries => how \in {"ok", "killed"}
            /\ "failure" \in entries => how \in {"failed", "killed"}]_vars

\* GC deletes the checkpoints of an operation only if it started longer ago than the
\* retention, or was started again after GC read when it had started.
CollectsOnlyStale ==
  [][\A k \in DOMAIN db.partitions \ DOMAIN db'.partitions :
       \E op \in DOMAIN db.meta :
         /\ k = partitionKey(op, "p")
         /\ db.meta[op] < now - Retention \/ (op = gc.id /\ db.meta[op] # gc.read)]_vars
=============================================================================
