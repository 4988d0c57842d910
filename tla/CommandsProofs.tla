--------------------------- MODULE CommandsProofs ---------------------------
(***************************************************************************)
(* Proofs about Commands, for any processes, operations, targets, rows,    *)
(* retention and bounds: the audit log tells how commands ended, a         *)
(* migration that was not misled has delivered what it says, and GC only   *)
(* deletes what is old.                                                    *)
(***************************************************************************)
EXTENDS Commands, DataLemmas

\* The operations there are: a host's, and those of migrate commands.
MigOps == {<<"mig-">> \o p : p \in Pids}
Ops == HostOps \union MigOps

\* Hosts keep to names that no command has, and that have no separator. A store where
\* they do not is two operations' in one.
PlainNames ==
  /\ HostOps \intersect MigOps = {}
  /\ \A op \in HostOps : ":" \notin Range(op)

-----------------------------------------------------------------------------
(* Keys.                                                                   *)

\* What keys are made of.
Tokens == Digits \union {"mig-", ":", "p"} \union UNION {Range(op) : op \in HostOps}

\* The name of an operation is a sequence of tokens.
LEMMA NamesAreSequences == Ops \subseteq Seq(Tokens)
<1>1. ASSUME NEW op \in HostOps PROVE op \in Seq(Tokens)
  <2>1. op \in Seq(STRING)
    BY CommandsAssumption
  <2>2. op \in Seq(Range(op))
    <3>1. Len(op) \in Nat /\ op = [i \in 1..Len(op) |-> op[i]]
      BY <2>1
    <3>2. \A i \in 1..Len(op) : op[i] \in Range(op)
      BY <3>1 DEF Range
    <3> QED
      BY <3>1, <3>2, IsASeq
  <2>3. Range(op) \subseteq Tokens
    BY DEF Tokens
  <2> QED
    BY <2>2, <2>3, SeqMonotonic
<1>2. ASSUME NEW p \in Pids PROVE <<"mig-">> \o p \in Seq(Tokens)
  <2>1. p \in Seq(Digits) /\ Digits \subseteq Tokens
    BY CommandsAssumption DEF Tokens
  <2>2. p \in Seq(Tokens)
    BY <2>1, SeqMonotonic
  <2>3. "mig-" \in Tokens
    BY DEF Tokens
  <2> HIDE DEF Tokens
  <2> QED
    BY <2>2, <2>3
<1> QED
  BY <1>1, <1>2 DEF Ops, MigOps

\* A process ID brings no separator into the name of a migrate command's operation; if the
\* hosts' names have none either, no name has.
LEMMA NoSeparator ==
  ASSUME PlainNames
  PROVE  \A op \in Ops : ":" \notin Range(op)
<1>1. ASSUME NEW p \in Pids PROVE ":" \notin Range(<<"mig-">> \o p)
  <2> DEFINE S == Digits \union {"mig-"}
  <2>1. p \in Seq(Digits) /\ Digits \subseteq S
    BY CommandsAssumption
  <2>2. p \in Seq(S)
    BY <2>1, SeqMonotonic
  <2>3. "mig-" \in S /\ ":" \notin S
    BY DEF Digits
  <2> HIDE DEF S
  <2>4. <<"mig-">> \o p \in Seq(S)
    BY <2>2, <2>3
  <2>5. \A i \in DOMAIN (<<"mig-">> \o p) : (<<"mig-">> \o p)[i] \in S
    BY <2>4
  <2> QED
    BY <2>3, <2>5 DEF Range
<1> QED
  BY <1>1 DEF Ops, MigOps, PlainNames

\* What a name is with one token after it, or two.
LEMMA FollowedBy ==
  ASSUME NEW S, NEW a \in Seq(S), NEW c \in S, NEW d \in S
  PROVE  /\ a \o <<c>> \in Seq(S) /\ Len(a \o <<c>>) = Len(a) + 1
         /\ (a \o <<c>>)[Len(a) + 1] = c
         /\ \A i \in 1..Len(a) : (a \o <<c>>)[i] = a[i]
         /\ a \o <<c, d>> \in Seq(S) /\ Len(a \o <<c, d>>) = Len(a) + 2
         /\ (a \o <<c, d>>)[Len(a) + 1] = c /\ (a \o <<c, d>>)[Len(a) + 2] = d
         /\ \A i \in 1..Len(a) : (a \o <<c, d>>)[i] = a[i]
OBVIOUS

\* The prefix of an operation's keys ends in a separator, so that it is the beginning of no
\* key of another operation, even where one name is the beginning of the other.
LEMMA PrefixFree ==
  ASSUME NEW a \in Seq(Tokens), NEW b \in Seq(Tokens), ":" \notin Range(a), ":" \notin Range(b)
  PROVE  IsPrefix(partitionKeyPrefix(a), partitionKey(b, "p")) <=> a = b
<1> DEFINE s == a \o <<":">>
           t == b \o <<":", "p">>
<1>0. ":" \in Tokens /\ "p" \in Tokens
  BY DEF Tokens
<1>1. /\ s \in Seq(Tokens) /\ Len(s) = Len(a) + 1 /\ s[Len(a) + 1] = ":"
      /\ \A i \in 1..Len(a) : s[i] = a[i]
  BY <1>0, FollowedBy
<1>2. /\ t \in Seq(Tokens) /\ Len(t) = Len(b) + 2
      /\ t[Len(b) + 1] = ":" /\ t[Len(b) + 2] = "p"
      /\ \A i \in 1..Len(b) : t[i] = b[i]
  BY <1>0, FollowedBy
<1>3. (\A i \in 1..Len(a) : a[i] # ":") /\ (\A i \in 1..Len(b) : b[i] # ":")
  BY DEF Range
<1>4. IsPrefix(s, t) <=> Len(s) <= Len(t) /\ \A i \in 1..Len(s) : s[i] = t[i]
  <2> HIDE DEF s, t
  <2>1. ASSUME Len(s) <= Len(t)
        PROVE  /\ Len(SubSeq(s, 1, Len(s))) = Len(s) /\ Len(SubSeq(t, 1, Len(s))) = Len(s)
               /\ \A i \in 1..Len(s) : SubSeq(s, 1, Len(s))[i] = s[i] /\ SubSeq(t, 1, Len(s))[i] = t[i]
               /\ SubSeq(s, 1, Len(s)) \in Seq(Tokens) /\ SubSeq(t, 1, Len(s)) \in Seq(Tokens)
    BY <1>1, <1>2, <2>1
  <2>2. ASSUME Len(s) <= Len(t), \A i \in 1..Len(s) : s[i] = t[i]
        PROVE  SubSeq(s, 1, Len(s)) = SubSeq(t, 1, Len(s))
    BY <2>1, <2>2, SeqEqual
  <2> QED
    BY <2>1, <2>2 DEF IsPrefix
<1>5. ASSUME IsPrefix(s, t) PROVE a = b
  <2> HIDE DEF s, t
  <2>1. Len(a) \in Nat /\ Len(b) \in Nat /\ Len(a) + 1 <= Len(b) + 2
    BY <1>1, <1>2, <1>4, <1>5
  <2>2. t[Len(a) + 1] = ":" /\ \A i \in 1..Len(a) : a[i] = t[i]
    BY <1>1, <1>4, <1>5, <2>1
  <2>3. Len(a) + 1 # Len(b) + 2
    BY <1>2, <2>2
  <2>4. ~(Len(a) + 1 \in 1..Len(b))
    BY <1>2, <1>3, <2>2
  <2>5. Len(a) = Len(b)
    BY <2>1, <2>3, <2>4
  <2> QED
    BY <1>2, <2>2, <2>5, SeqEqual
<1>6. ASSUME a = b PROVE IsPrefix(s, t)
  <2> HIDE DEF s, t
  <2> QED
    BY <1>1, <1>2, <1>4, <1>6
<1> QED
  BY <1>5, <1>6 DEF partitionKeyPrefix, partitionKey

-----------------------------------------------------------------------------
(* Types, and where a command can be in its work.                          *)

Migrating == {"migrate", "host"}
Places == 1..LastRow + 1  \* where a copy can be in the table

Live ==
  [cmd : Stored \union Audited,
   pc : {"opening", "ready", "begun", "copying", "saving", "ending", "leaving"},
   op : Ops, target : Targets \union {None}, next : Offsets,
   outcome : {None, "success", "failure"}, misled : BOOLEAN,
   entries : Seq({"start", "success", "failure"}), unlogged : BOOLEAN]
Dead == [pc : {"exited"}, how : {None, "ok", "failed", "early", "killed"}]

\* A process does what its command does, in that order.
StageOK(x) ==
  /\ x.pc = "opening" => x.cmd \in Stored
  /\ x.pc \in {"begun", "copying", "saving", "ending", "leaving"} => x.cmd # "status"
  /\ x.pc \in {"copying", "saving"} => x.cmd \in Migrating
  /\ x.pc \in {"ending", "leaving"} => x.outcome \in {"success", "failure"}
  /\ x.pc = "copying" => x.next \in Places
  /\ x.pc = "saving" => x.next \in 1..LastRow
  /\ IF x.cmd \in Migrating THEN x.target \in Targets ELSE x.target = None
  /\ x.cmd = "host" => x.target = HostTarget /\ x.op \in HostOps
  /\ x.cmd = "migrate" => x.op \in MigOps

\* Its entries in the audit log are those it should have written by now, or it knows
\* that one is missing.
TrailOK(x) ==
  x.cmd \in Audited =>
    /\ x.pc \in {"opening", "ready"} => Range(x.entries) = {}
    /\ x.pc \in {"begun", "copying", "saving", "ending"} => Range(x.entries) \subseteq {"start"}
    /\ x.pc = "leaving" => /\ Range(x.entries) \subseteq {"start", x.outcome}
                           /\ x.outcome \in Range(x.entries) \/ x.unlogged

ProcessOK(x) == x \in Dead \/ (x \in Live /\ StageOK(x) /\ TrailOK(x))
ProcOK ==
  /\ DOMAIN proc = Pids /\ proc = [p \in Pids |-> proc[p]]
  /\ \A p \in Pids : ProcessOK(proc[p])

\* The checkpoint file is open in one process, which is past opening it.
Holds(x) == x.pc # "exited" /\ x.pc # "opening" /\ x.cmd \in Stored
LockOK ==
  /\ lock \in Pids \union {NoProcess}
  /\ \A p \in Pids : lock = p <=> Holds(proc[p])

Ckpts ==
  [id : {"p"}, last : Places, into : Targets, wrong : BOOLEAN, status : {"InProgress", "Done", "Failed"}]
Keys == {partitionKey(op, "p") : op \in Ops}

\* The file has starts of operations, and checkpoints under their keys.
FileOK(d) ==
  /\ d = [meta |-> d.meta, partitions |-> d.partitions]
  /\ DOMAIN d.meta \subseteq HostOps
  /\ \A op \in DOMAIN d.meta : d.meta[op] \in Nat
  /\ DOMAIN d.partitions \subseteq Keys
  /\ \A k \in DOMAIN d.partitions : d.partitions[k] \in Ckpts
StoreOK ==
  /\ FileOK(db)
  /\ rows \in [Targets -> SUBSET (1..LastRow)]
  /\ now \in Nat
  /\ asFloat \in Rounding

Collections ==
  {AtRest} \union [pc : {"next"}, ids : SUBSET HostOps, cutoff : Int]
    \union [pc : {"stale"}, ids : SUBSET HostOps, cutoff : Int, id : HostOps, read : Int]

TInv == ProcOK /\ LockOK /\ StoreOK /\ gc \in Collections

-----------------------------------------------------------------------------
(* The transactions.                                                       *)

LEMMA SavesOne ==
  ASSUME NEW d, FileOK(d), NEW op \in Ops, NEW cp \in Ckpts
  PROVE  /\ FileOK(SavePartition(d, op, cp))
         /\ SavePartition(d, op, cp).meta = d.meta
         /\ DOMAIN SavePartition(d, op, cp).partitions = DOMAIN d.partitions \union {partitionKey(op, "p")}
         /\ \A k \in DOMAIN SavePartition(d, op, cp).partitions :
              SavePartition(d, op, cp).partitions[k]
                = IF k = partitionKey(op, "p") THEN cp ELSE d.partitions[k]
<1>1. cp.id = "p"
  BY DEF Ckpts
<1>2. partitionKey(op, "p") \in Keys
  BY DEF Keys
<1> DEFINE new == Put(d.partitions, partitionKey(op, "p"), cp)
<1>3. /\ DOMAIN new = DOMAIN d.partitions \union {partitionKey(op, "p")}
      /\ \A k \in DOMAIN new : new[k] = IF k = partitionKey(op, "p") THEN cp ELSE d.partitions[k]
  BY DEF Put
<1> HIDE DEF new
<1>4. SavePartition(d, op, cp) = [meta |-> d.meta, partitions |-> new]
  BY <1>1 DEF SavePartition, FileOK, new
<1> QED
  BY <1>2, <1>3, <1>4 DEF FileOK

LEMMA SavesMeta ==
  ASSUME NEW d, FileOK(d), NEW op \in HostOps, NEW start \in Nat
  PROVE  /\ FileOK(SaveMeta(d, op, start))
         /\ SaveMeta(d, op, start).partitions = d.partitions
         /\ DOMAIN SaveMeta(d, op, start).meta = DOMAIN d.meta \union {op}
<1> DEFINE new == Put(d.meta, op, start)
<1>1. /\ DOMAIN new = DOMAIN d.meta \union {op}
      /\ \A k \in DOMAIN new : new[k] = IF k = op THEN start ELSE d.meta[k]
  BY DEF Put
<1> HIDE DEF new
<1>2. SaveMeta(d, op, start) = [meta |-> new, partitions |-> d.partitions]
  BY DEF SaveMeta, FileOK, new
<1> QED
  BY <1>1, <1>2 DEF FileOK

LEMMA DeletesOne ==
  ASSUME NEW d, FileOK(d), NEW op
  PROVE  /\ FileOK(DeleteOperation(d, op))
         /\ DOMAIN DeleteOperation(d, op).meta = DOMAIN d.meta \ {op}
         /\ DOMAIN DeleteOperation(d, op).partitions = DOMAIN d.partitions \ KeysUnder(d, op)
         /\ \A k \in DOMAIN d.partitions \ KeysUnder(d, op) :
              DeleteOperation(d, op).partitions[k] = d.partitions[k]
BY DEF DeleteOperation, FileOK, Restrict

\* Marking a status changes the one checkpoint's status and, perhaps, its offset: to one
\* above all rows.
Marked(d, op, status, rounding) ==
  [GetPartition(d, op, "p") EXCEPT !.status = status, !.last = rounding[@]]

LEMMA MarksOne ==
  ASSUME NEW d, FileOK(d), NEW op \in Ops, HasPartition(d, op, "p"), NEW rounding \in Rounding,
         NEW status \in {"InProgress", "Done", "Failed"}
  PROVE  /\ SaveStatus(d, op, "p", status, rounding) = SavePartition(d, op, Marked(d, op, status, rounding))
         /\ GetPartition(d, op, "p") \in Ckpts
         /\ Marked(d, op, status, rounding) \in Ckpts
         /\ Marked(d, op, status, rounding).into = GetPartition(d, op, "p").into
         /\ Marked(d, op, status, rounding).wrong = GetPartition(d, op, "p").wrong
         /\ Marked(d, op, status, rounding).status = status
<1> DEFINE cp == GetPartition(d, op, "p")
<1>1. cp \in Ckpts
  BY DEF FileOK, HasPartition, GetPartition
<1>2. cp.last \in Places
  BY <1>1 DEF Ckpts
<1>3. cp.last \in Offsets
  BY <1>2, CommandsAssumption DEF Places, Offsets
<1>4. rounding[cp.last] \in {cp.last, LastRow + 1}
  BY <1>3 DEF Rounding
<1>5. LastRow + 1 \in Places
  BY CommandsAssumption DEF Places
<1>6. SaveStatus(d, op, "p", status, rounding) = SavePartition(d, op, Marked(d, op, status, rounding))
  <2>1. SaveStatus(d, op, "p", status, rounding)
          = SavePartition(d, op, [cp EXCEPT !.status = status, !.last = rounding[@]])
    BY DEF SaveStatus
  <2> QED
    BY <2>1 DEF Marked
<1>7. Marked(d, op, status, rounding) \in Ckpts
  BY <1>1, <1>2, <1>4, <1>5 DEF Ckpts, Marked
<1> QED
  BY <1>1, <1>6, <1>7 DEF Ckpts, Marked

-----------------------------------------------------------------------------
(* One process takes a step.                                               *)

\* Only one process is changed, to a state that is in order, with the file in its hands as
\* before.
LEMMA OneMoves ==
  ASSUME ProcOK, LockOK, NEW p \in Pids, NEW x, ProcessOK(x), Holds(x) <=> Holds(proc[p]),
         proc' = [proc EXCEPT ![p] = x], lock' = lock
  PROVE  ProcOK' /\ LockOK'
<1>1. DOMAIN proc' = Pids /\ proc'[p] = x /\ \A q \in Pids \ {p} : proc'[q] = proc[q]
  BY DEF ProcOK
<1>2. proc' = [q \in Pids |-> proc'[q]]
  BY <1>1 DEF ProcOK
<1> QED
  BY <1>1, <1>2 DEF ProcOK, LockOK

\* A process that goes has its lock taken from it.
LEMMA ExitKeeps ==
  ASSUME TInv, NEW p \in Pids, NEW how \in {"ok", "failed", "early", "killed"}, Exits(p, how)
  PROVE  /\ ProcOK' /\ LockOK' /\ gc' \in Collections
         /\ proc'[p] = Gone(how) /\ \A q \in Pids \ {p} : proc'[q] = proc[q]
<1> USE DEF TInv
<1>1. /\ DOMAIN proc' = Pids /\ proc'[p] = Gone(how)
      /\ \A q \in Pids \ {p} : proc'[q] = proc[q]
      /\ proc' = [q \in Pids |-> proc'[q]]
  BY DEF ProcOK, Exits
<1>2. Gone(how) \in Dead /\ ~Holds(Gone(how))
  BY DEF Gone, Dead, Holds
<1>3. ProcOK'
  BY <1>1, <1>2 DEF ProcOK, ProcessOK
<1>4. lock' \in Pids \union {NoProcess} /\ lock' # p
  BY CommandsAssumption DEF Exits, LockOK
<1>5. \A q \in Pids \ {p} : lock' = q <=> lock = q
  BY CommandsAssumption DEF Exits, LockOK
<1>6. LockOK'
  BY <1>1, <1>2, <1>4, <1>5 DEF LockOK
<1>7. gc' \in Collections
  BY DEF Exits, Collections
<1> QED
  BY <1>1, <1>3, <1>6, <1>7

\* What a process at work is.
LEMMA AtWork ==
  ASSUME ProcOK, NEW p \in Pids, Alive(p)
  PROVE  proc[p] \in Live /\ StageOK(proc[p]) /\ TrailOK(proc[p])
BY DEF ProcOK, ProcessOK, Dead, Alive

LEMMA InitTypes == Init => TInv
<1> SUFFICES ASSUME Init PROVE TInv
  OBVIOUS
<1>1. ProcOK
  BY DEF Init, ProcOK, ProcessOK, Gone, Dead, None
<1>2. LockOK
  BY CommandsAssumption DEF Init, LockOK, Holds, Gone
<1>3. StoreOK
  BY DEF Init, StoreOK, FileOK, NewStore
<1>4. gc \in Collections
  BY DEF Init, Collections
<1> QED
  BY <1>1, <1>2, <1>3, <1>4 DEF TInv

LEMMA StartsTypes ==
  ASSUME TInv, NEW p \in Pids, Starts(p)
  PROVE  TInv'
<1> USE DEF TInv
<1>1. PICK cmd \in Stored \union Audited :
        \E t \in (IF cmd = "migrate" THEN Targets ELSE IF cmd = "host" THEN {HostTarget} ELSE {None}),
           op \in (IF cmd = "host" THEN HostOps ELSE {<<"mig-">> \o p}) :
          proc' = [proc EXCEPT ![p] =
            [cmd |-> cmd, pc |-> IF cmd \in Stored THEN "opening" ELSE "ready", op |-> op, target |-> t,
             next |-> 0, outcome |-> None, misled |-> FALSE, entries |-> <<>>, unlogged |-> FALSE]]
  BY DEF Starts
<1>2. PICK t \in (IF cmd = "migrate" THEN Targets ELSE IF cmd = "host" THEN {HostTarget} ELSE {None}),
           op \in (IF cmd = "host" THEN HostOps ELSE {<<"mig-">> \o p}) :
          proc' = [proc EXCEPT ![p] =
            [cmd |-> cmd, pc |-> IF cmd \in Stored THEN "opening" ELSE "ready", op |-> op, target |-> t,
             next |-> 0, outcome |-> None, misled |-> FALSE, entries |-> <<>>, unlogged |-> FALSE]]
  BY <1>1
<1> DEFINE x == [cmd |-> cmd, pc |-> IF cmd \in Stored THEN "opening" ELSE "ready", op |-> op, target |-> t,
                 next |-> 0, outcome |-> None, misled |-> FALSE, entries |-> <<>>, unlogged |-> FALSE]
<1>3. <<"mig-">> \o p \in MigOps
  BY DEF MigOps
<1>4. op \in Ops /\ (cmd = "host" => op \in HostOps) /\ (cmd = "migrate" => op \in MigOps)
  BY <1>2, <1>3 DEF Ops
<1>5. t \in Targets \union {None} /\ (cmd = "host" => t = HostTarget)
      /\ IF cmd \in Migrating THEN t \in Targets ELSE t = None
  BY <1>2, CommandsAssumption DEF Migrating
<1>6. 0 \in Offsets
  BY CommandsAssumption DEF Offsets
<1>7. x \in Live
  BY <1>1, <1>4, <1>5, <1>6 DEF Live, None
<1>8. StageOK(x)
  BY <1>1, <1>4, <1>5 DEF StageOK, Stored, Audited
<1>9. TrailOK(x)
  BY <1>1, RangeEmpty DEF TrailOK, Stored, Audited
<1>10. ~Holds(x) /\ ~Holds(proc[p])
  <2>1. x.cmd \in Stored => x.pc = "opening"
    OBVIOUS
  <2> QED
    BY <2>1 DEF Holds, Starts, Alive
<1>11. ProcOK' /\ LockOK'
  <2> HIDE DEF x
  <2>1. proc' = [proc EXCEPT ![p] = x]
    BY <1>2 DEF x
  <2> QED
    BY <2>1, <1>7, <1>8, <1>9, <1>10, OneMoves DEF ProcessOK, Starts
<1> QED
  BY <1>11 DEF Starts, StoreOK

LEMMA OpensTypes ==
  ASSUME TInv, NEW p \in Pids, Opens(p)
  PROVE  TInv'
<1> USE DEF TInv
<1> DEFINE x == [proc[p] EXCEPT !.pc = "ready"]
<1>1. proc[p] \in Live /\ StageOK(proc[p]) /\ TrailOK(proc[p]) /\ proc[p].pc = "opening"
  BY AtWork DEF Opens, At, Alive
<1>2. x \in Live /\ x.pc = "ready" /\ x.cmd = proc[p].cmd
  BY <1>1 DEF Live
<1>3. StageOK(x) /\ TrailOK(x)
  BY <1>1 DEF Live, StageOK, TrailOK
<1>4. proc' = [proc EXCEPT ![p] = x]
  BY DEF Opens, Goes, ProcOK
<1> HIDE DEF x
<1>5. /\ DOMAIN proc' = Pids /\ proc'[p] = x
      /\ \A q \in Pids \ {p} : proc'[q] = proc[q]
      /\ proc' = [q \in Pids |-> proc'[q]]
  BY <1>4 DEF ProcOK
<1>6. ProcOK'
  BY <1>2, <1>3, <1>5 DEF ProcOK, ProcessOK
<1>7. Holds(x)
  BY <1>1, <1>2 DEF Holds, StageOK
<1>8. \A q \in Pids : ~Holds(proc[q])
  BY CommandsAssumption DEF LockOK, Opens
<1>9. LockOK'
  BY <1>5, <1>7, <1>8 DEF LockOK, Opens
<1> QED
  BY <1>6, <1>9 DEF Opens, StoreOK

LEMMA ExitsTypes ==
  ASSUME TInv, NEW p \in Pids,
         TimesOut(p) \/ Shows(p) \/ ReturnsEarly(p) \/ Leaves(p) \/ Killed(p)
  PROVE  TInv'
<1>1. PICK how \in {"ok", "failed", "early", "killed"} : Exits(p, how)
  BY DEF TimesOut, Shows, ReturnsEarly, Leaves, Killed
<1>2. UNCHANGED <<db, rows, now, asFloat>>
  BY DEF TimesOut, Shows, ReturnsEarly, Leaves, Killed
<1> QED
  BY <1>1, <1>2, ExitKeeps DEF TInv, StoreOK

\* An entry is in the log, or is known to be missing from it.
LEMMA LogsOne ==
  ASSUME ProcOK, NEW p \in Pids, Alive(p), NEW what \in {"start", "success", "failure"},
         NEW pc \in {"begun", "leaving"}, Logs(p, what, pc)
  PROVE  \E x \in Live :
           /\ proc' = [proc EXCEPT ![p] = x]
           /\ x.pc = pc /\ x.cmd = proc[p].cmd /\ x.op = proc[p].op /\ x.target = proc[p].target
           /\ x.next = proc[p].next /\ x.outcome = proc[p].outcome /\ x.misled = proc[p].misled
           /\ \/ Range(x.entries) = Range(proc[p].entries) \union {what}
              \/ Range(x.entries) = Range(proc[p].entries) /\ x.unlogged
<1>1. proc[p] \in Live
  BY AtWork
<1>2. proc[p].entries \in Seq({"start", "success", "failure"})
  BY <1>1 DEF Live
<1>3. CASE proc' = [proc EXCEPT ![p].pc = pc, ![p].entries = Append(@, what)]
  <2> DEFINE x == [proc[p] EXCEPT !.pc = pc, !.entries = Append(@, what)]
  <2>1. proc' = [proc EXCEPT ![p] = x]
    BY <1>3 DEF ProcOK
  <2>2. Append(proc[p].entries, what) \in Seq({"start", "success", "failure"})
    BY <1>2
  <2>3. Range(Append(proc[p].entries, what)) = Range(proc[p].entries) \union {what}
    BY <1>2, Appending
  <2>4. x \in Live /\ x.pc = pc /\ x.entries = Append(proc[p].entries, what)
    BY <1>1, <2>2 DEF Live
  <2> QED
    BY <1>1, <2>1, <2>3, <2>4 DEF Live
<1>4. CASE proc' = [proc EXCEPT ![p].pc = pc, ![p].unlogged = TRUE]
  <2> DEFINE x == [proc[p] EXCEPT !.pc = pc, !.unlogged = TRUE]
  <2>1. proc' = [proc EXCEPT ![p] = x]
    BY <1>4 DEF ProcOK
  <2>2. x \in Live /\ x.pc = pc /\ x.unlogged /\ x.entries = proc[p].entries
    BY <1>1 DEF Live
  <2> QED
    BY <1>1, <2>1, <2>2 DEF Live
<1> QED
  BY <1>3, <1>4 DEF Logs

LEMMA PreparesTypes ==
  ASSUME TInv, NEW p \in Pids, Prepares(p)
  PROVE  TInv'
<1> USE DEF TInv
<1>1. /\ proc[p] \in Live /\ StageOK(proc[p]) /\ TrailOK(proc[p]) /\ Alive(p)
      /\ proc[p].pc = "ready" /\ proc[p].cmd \in Audited
  BY AtWork DEF Prepares, At, Alive
<1>2. CASE Logs(p, "start", "begun") /\ UNCHANGED <<lock, gc>>
  <2>1. PICK x \in Live :
           /\ proc' = [proc EXCEPT ![p] = x]
           /\ x.pc = "begun" /\ x.cmd = proc[p].cmd /\ x.op = proc[p].op /\ x.target = proc[p].target
           /\ \/ Range(x.entries) = Range(proc[p].entries) \union {"start"}
              \/ Range(x.entries) = Range(proc[p].entries) /\ x.unlogged
    BY <1>1, <1>2, LogsOne
  <2>2. Range(proc[p].entries) = {}
    BY <1>1 DEF TrailOK
  <2>3. StageOK(x)
    BY <1>1, <2>1 DEF StageOK, Audited
  <2>4. TrailOK(x)
    BY <2>1, <2>2 DEF TrailOK
  <2>5. Holds(x) <=> Holds(proc[p])
    BY <1>1, <2>1 DEF Holds
  <2>6. ProcOK' /\ LockOK'
    BY <1>2, <2>1, <2>3, <2>4, <2>5, OneMoves DEF ProcessOK
  <2> QED
    BY <1>2, <2>6 DEF Prepares, StoreOK
<1>3. CASE Exits(p, "failed")
  BY <1>3, ExitKeeps DEF Prepares, StoreOK
<1> QED
  BY <1>2, <1>3 DEF Prepares

LEMMA EndsTypes ==
  ASSUME TInv, NEW p \in Pids, Ends(p)
  PROVE  TInv'
<1> USE DEF TInv
<1>1. /\ proc[p] \in Live /\ StageOK(proc[p]) /\ TrailOK(proc[p]) /\ Alive(p)
      /\ proc[p].pc = "ending" /\ proc[p].cmd \in Audited
  BY AtWork DEF Ends, At, Alive
<1>2. proc[p].outcome \in {"success", "failure"}
  BY <1>1 DEF StageOK
<1>3. PICK x \in Live :
           /\ proc' = [proc EXCEPT ![p] = x]
           /\ x.pc = "leaving" /\ x.cmd = proc[p].cmd /\ x.op = proc[p].op /\ x.target = proc[p].target
           /\ x.outcome = proc[p].outcome
           /\ \/ Range(x.entries) = Range(proc[p].entries) \union {proc[p].outcome}
              \/ Range(x.entries) = Range(proc[p].entries) /\ x.unlogged
  BY <1>1, <1>2, LogsOne DEF Ends
<1>4. Range(proc[p].entries) \subseteq {"start"}
  BY <1>1 DEF TrailOK
<1>5. StageOK(x)
  BY <1>1, <1>2, <1>3 DEF StageOK, Audited
<1>6. TrailOK(x)
  BY <1>3, <1>4 DEF TrailOK
<1>7. Holds(x) <=> Holds(proc[p])
  BY <1>1, <1>3 DEF Holds
<1>8. ProcOK' /\ LockOK'
  BY <1>3, <1>5, <1>6, <1>7, OneMoves DEF ProcessOK, Ends
<1> QED
  BY <1>8 DEF Ends, StoreOK

LEMMA BacksTypes ==
  ASSUME TInv, NEW p \in Pids, BacksOrRestores(p)
  PROVE  TInv'
<1> USE DEF TInv
<1>1. /\ proc[p] \in Live /\ StageOK(proc[p]) /\ TrailOK(proc[p])
      /\ proc[p].pc = "begun" /\ proc[p].cmd \in {"backup", "restore"}
  BY AtWork DEF BacksOrRestores, At, Alive
<1>2. PICK outcome \in {"success", "failure"} :
        proc' = [proc EXCEPT ![p].pc = "ending", ![p].outcome = outcome]
  BY DEF BacksOrRestores
<1> DEFINE x == [proc[p] EXCEPT !.pc = "ending", !.outcome = outcome]
<1>3. /\ x \in Live /\ x.pc = "ending" /\ x.outcome = outcome /\ x.cmd = proc[p].cmd
      /\ x.op = proc[p].op /\ x.target = proc[p].target /\ x.entries = proc[p].entries
  BY <1>1, <1>2 DEF Live
<1>4. proc' = [proc EXCEPT ![p] = x]
  BY <1>2 DEF ProcOK
<1> HIDE DEF x
<1>5. StageOK(x)
  BY <1>1, <1>2, <1>3 DEF StageOK, Migrating
<1>6. TrailOK(x)
  BY <1>1, <1>3 DEF TrailOK
<1>7. Holds(x) <=> Holds(proc[p])
  BY <1>1, <1>3 DEF Holds
<1>8. ProcOK' /\ LockOK'
  BY <1>3, <1>4, <1>5, <1>6, <1>7, OneMoves DEF ProcessOK, BacksOrRestores
<1> QED
  BY <1>8 DEF BacksOrRestores, StoreOK

\* A copy at work takes a step of its own: to another stage, with another outcome, place
\* in the table, or knowledge of being misled.
LEMMA CopyMoves ==
  ASSUME TInv, NEW p \in Pids, proc[p].pc \in {"begun", "copying", "saving"}, proc[p].cmd \in Migrating,
         NEW x, NEW pc \in {"copying", "saving", "ending"}, NEW next \in Offsets,
         NEW outcome \in {None, "success", "failure"}, NEW misled \in BOOLEAN,
         x = [proc[p] EXCEPT !.pc = pc, !.next = next, !.outcome = outcome, !.misled = misled],
         pc = "copying" => next \in Places, pc = "saving" => next \in 1..LastRow,
         pc = "ending" => outcome # None,
         proc' = [proc EXCEPT ![p] = x], lock' = lock
  PROVE  ProcOK' /\ LockOK' /\ x \in Live
<1> USE DEF TInv
<1>1. proc[p] \in Live /\ StageOK(proc[p]) /\ TrailOK(proc[p])
  BY AtWork DEF Alive
<1>2. /\ x \in Live /\ x.pc = pc /\ x.next = next /\ x.outcome = outcome /\ x.cmd = proc[p].cmd
      /\ x.op = proc[p].op /\ x.target = proc[p].target /\ x.entries = proc[p].entries
  BY <1>1 DEF Live
<1>3. StageOK(x)
  <2>1. x.pc \in {"copying", "saving", "ending"} /\ x.cmd \in Migrating /\ x.cmd # "status"
    BY <1>2 DEF Migrating
  <2>2. (x.pc = "copying" => x.next \in Places) /\ (x.pc = "saving" => x.next \in 1..LastRow)
    BY <1>2
  <2>3. x.pc \in {"ending", "leaving"} => x.outcome \in {"success", "failure"}
    BY <1>2 DEF None
  <2>4. /\ IF x.cmd \in Migrating THEN x.target \in Targets ELSE x.target = None
        /\ x.cmd = "host" => x.target = HostTarget /\ x.op \in HostOps
        /\ x.cmd = "migrate" => x.op \in MigOps
    BY <1>1, <1>2 DEF StageOK
  <2> QED
    BY <2>1, <2>2, <2>3, <2>4 DEF StageOK
<1>4. TrailOK(x)
  BY <1>1, <1>2 DEF TrailOK
<1>5. Holds(x) <=> Holds(proc[p])
  BY <1>2 DEF Holds
<1> QED
  BY <1>2, <1>3, <1>4, <1>5, OneMoves DEF ProcessOK

\* What Migrate finds are checkpoints.
LEMMA FindsCkpts ==
  ASSUME NEW d, FileOK(d), NEW op
  PROVE  ListPartitions(d, op) \subseteq Ckpts
BY DEF FileOK, ListPartitions, KeysUnder

\* Whether it is misled, and where it begins.
Misled(p) ==
  HasPartition(db, proc[p].op, "p") /\ (GetPartition(db, proc[p].op, "p").into # proc[p].target
                                         \/ GetPartition(db, proc[p].op, "p").wrong)

LEMMA BeginsTypes ==
  ASSUME TInv, NEW p \in Pids, Begins(p)
  PROVE  TInv' /\ proc'[p].misled = Misled(p)
<1> USE DEF TInv
<1>1. /\ proc[p] \in Live /\ proc[p].pc = "begun" /\ proc[p].cmd \in Migrating
  BY AtWork DEF Begins, At, Alive, Migrating
<1>2. Misled(p) \in BOOLEAN
  BY DEF Misled
<1>3. LastRow \in Nat /\ Places \subseteq Offsets /\ 1 \in Places
  BY CommandsAssumption DEF Places, Offsets
<1>4. CASE proc' = [proc EXCEPT ![p].pc = "ending", ![p].outcome = "success", ![p].misled = Misled(p)]
  <2> DEFINE x == [proc[p] EXCEPT !.pc = "ending", !.next = proc[p].next, !.outcome = "success",
                                  !.misled = Misled(p)]
  <2>1. proc' = [proc EXCEPT ![p] = x] /\ proc[p].next \in Offsets /\ x.misled = Misled(p)
    BY <1>1, <1>4 DEF Live, ProcOK
  <2>2. ProcOK' /\ LockOK'
    <3>1. "success" # None
      BY DEF None
    <3> HIDE DEF x
    <3>2. x = [proc[p] EXCEPT !.pc = "ending", !.next = proc[p].next, !.outcome = "success",
                              !.misled = Misled(p)]
      BY DEF x
    <3> QED
      BY <1>1, <1>2, <2>1, <3>1, <3>2, CopyMoves DEF Begins
  <2>3. proc'[p] = x
    BY <2>1 DEF ProcOK
  <2> QED
    BY <2>1, <2>2, <2>3 DEF Begins, StoreOK
<1>5. ASSUME NEW from \in Places,
             proc' = [proc EXCEPT ![p].pc = "copying", ![p].next = from, ![p].misled = Misled(p)]
      PROVE  TInv' /\ proc'[p].misled = Misled(p)
  <2> DEFINE x == [proc[p] EXCEPT !.pc = "copying", !.next = from, !.outcome = proc[p].outcome,
                                  !.misled = Misled(p)]
  <2>1. /\ proc' = [proc EXCEPT ![p] = x] /\ x.misled = Misled(p)
        /\ proc[p].outcome \in {None, "success", "failure"}
    BY <1>1, <1>5 DEF Live, ProcOK
  <2>2. ProcOK' /\ LockOK'
    <3> HIDE DEF x
    <3>2. x = [proc[p] EXCEPT !.pc = "copying", !.next = from, !.outcome = proc[p].outcome,
                              !.misled = Misled(p)]
      BY DEF x
    <3> QED
      BY <1>1, <1>2, <1>3, <1>5, <2>1, <3>2, CopyMoves DEF Begins
  <2>3. proc'[p] = x
    BY <2>1 DEF ProcOK
  <2> QED
    BY <2>1, <2>2, <2>3 DEF Begins, StoreOK
<1>6. ListPartitions(db, proc[p].op) \subseteq Ckpts
  BY FindsCkpts DEF StoreOK
<1>7. \/ proc' = [proc EXCEPT ![p].pc = "ending", ![p].outcome = "success", ![p].misled = Misled(p)]
      \/ \E from \in (IF ListPartitions(db, proc[p].op) = {} THEN {1}
                      ELSE {cp.last : cp \in ListPartitions(db, proc[p].op)}) :
           proc' = [proc EXCEPT ![p].pc = "copying", ![p].next = from, ![p].misled = Misled(p)]
  BY DEF Begins, Misled
<1>8. (IF ListPartitions(db, proc[p].op) = {} THEN {1}
       ELSE {cp.last : cp \in ListPartitions(db, proc[p].op)}) \subseteq Places
  BY <1>3, <1>6 DEF Ckpts
<1> QED
  BY <1>4, <1>5, <1>7, <1>8

LEMMA CopiesTypes ==
  ASSUME TInv, NEW p \in Pids, Copies(p)
  PROVE  TInv' /\ proc[p].target \in Targets /\ proc[p].next \in 1..LastRow
<1> USE DEF TInv
<1>1. /\ proc[p] \in Live /\ StageOK(proc[p]) /\ proc[p].pc = "copying"
      /\ proc[p].next <= LastRow
  BY AtWork DEF Copies, At, Alive
<1>2. proc[p].cmd \in Migrating /\ proc[p].target \in Targets /\ proc[p].next \in Places
  BY <1>1 DEF StageOK
<1>3. proc[p].next \in 1..LastRow /\ proc[p].next \in Offsets
  BY <1>1, <1>2, CommandsAssumption DEF Places, Offsets
<1> DEFINE x == [proc[p] EXCEPT !.pc = "saving", !.next = proc[p].next, !.outcome = proc[p].outcome,
                                !.misled = proc[p].misled]
<1>4. /\ proc' = [proc EXCEPT ![p] = x]
      /\ proc[p].outcome \in {None, "success", "failure"} /\ proc[p].misled \in BOOLEAN
  BY <1>1 DEF Live, ProcOK, Copies, Goes
<1>5. ProcOK' /\ LockOK'
  <2> HIDE DEF x
  <2>1. x = [proc[p] EXCEPT !.pc = "saving", !.next = proc[p].next, !.outcome = proc[p].outcome,
                            !.misled = proc[p].misled]
    BY DEF x
  <2> QED
    BY <1>1, <1>2, <1>3, <1>4, <2>1, CopyMoves DEF Copies
<1>6. rows' \in [Targets -> SUBSET (1..LastRow)]
  <2>1. rows' = [rows EXCEPT ![proc[p].target] = @ \cup {proc[p].next}]
    BY DEF Copies
  <2> QED
    BY <1>2, <1>3, <2>1 DEF StoreOK
<1> QED
  BY <1>2, <1>3, <1>5, <1>6 DEF Copies, StoreOK

\* The checkpoint of a copy that has written a row.
LEMMA ProgressIsCkpt ==
  ASSUME TInv, NEW p \in Pids, At(p, "saving")
  PROVE  Progress(p) \in Ckpts /\ proc[p].op \in Ops /\ proc[p].next \in 1..LastRow
<1> USE DEF TInv
<1>1. proc[p] \in Live /\ StageOK(proc[p]) /\ proc[p].pc = "saving"
  BY AtWork DEF At, Alive
<1>2. /\ proc[p].cmd \in Migrating /\ proc[p].target \in Targets /\ proc[p].next \in 1..LastRow
      /\ proc[p].op \in Ops /\ proc[p].misled \in BOOLEAN
  BY <1>1 DEF StageOK, Live
<1>3. proc[p].next \in Places
  BY <1>2, CommandsAssumption DEF Places
<1>4. Progress(p).status \in {"InProgress", "Done", "Failed"}
  BY DEF Progress, HasPartition, GetPartition, StoreOK, FileOK, Ckpts
<1>5. /\ Progress(p) = [id |-> "p", last |-> proc[p].next, into |-> proc[p].target,
                        wrong |-> proc[p].misled, status |-> Progress(p).status]
  BY DEF Progress
<1> QED
  BY <1>2, <1>3, <1>4, <1>5 DEF Ckpts

LEMMA SavesTypes ==
  ASSUME TInv, NEW p \in Pids, Saves(p)
  PROVE  TInv'
<1> USE DEF TInv
<1>1. proc[p] \in Live /\ StageOK(proc[p]) /\ proc[p].pc = "saving"
  BY AtWork DEF Saves, At, Alive
<1>2. proc[p].cmd \in Migrating
  BY <1>1 DEF StageOK
<1>3. Progress(p) \in Ckpts /\ proc[p].op \in Ops /\ proc[p].next \in 1..LastRow
  BY ProgressIsCkpt DEF Saves
<1>4. proc[p].next + 1 \in Places /\ proc[p].next + 1 \in Offsets
  BY <1>3, CommandsAssumption DEF Places, Offsets
<1> DEFINE x == [proc[p] EXCEPT !.pc = "copying", !.next = proc[p].next + 1, !.outcome = proc[p].outcome,
                                !.misled = proc[p].misled]
<1>5. /\ proc' = [proc EXCEPT ![p] = x]
      /\ proc[p].outcome \in {None, "success", "failure"} /\ proc[p].misled \in BOOLEAN
  BY <1>1 DEF Live, ProcOK, Saves
<1>6. ProcOK' /\ LockOK'
  <2> HIDE DEF x
  <2>1. x = [proc[p] EXCEPT !.pc = "copying", !.next = proc[p].next + 1, !.outcome = proc[p].outcome,
                            !.misled = proc[p].misled]
    BY DEF x
  <2> QED
    BY <1>1, <1>2, <1>4, <1>5, <2>1, CopyMoves DEF Saves
<1>7. FileOK(db')
  <2>1. FileOK(db)
    BY DEF StoreOK
  <2> QED
    BY <1>3, <2>1, SavesOne DEF Saves
<1> QED
  BY <1>6, <1>7 DEF Saves, StoreOK

LEMMA FinishesTypes ==
  ASSUME TInv, NEW p \in Pids, Finishes(p)
  PROVE  TInv'
<1> USE DEF TInv
<1>1. proc[p] \in Live /\ StageOK(proc[p]) /\ proc[p].pc = "copying"
  BY AtWork DEF Finishes, At, Alive
<1>2. proc[p].cmd \in Migrating
  BY <1>1 DEF StageOK
<1>3. PICK outcome \in {"success", "failure"} :
        proc' = [proc EXCEPT ![p].pc = "ending", ![p].outcome = outcome]
  BY DEF Finishes
<1> DEFINE x == [proc[p] EXCEPT !.pc = "ending", !.next = proc[p].next, !.outcome = outcome,
                                !.misled = proc[p].misled]
<1>4. /\ proc' = [proc EXCEPT ![p] = x]
      /\ proc[p].next \in Offsets /\ proc[p].misled \in BOOLEAN /\ outcome # None
  BY <1>1, <1>3 DEF Live, ProcOK, None
<1>5. ProcOK' /\ LockOK'
  <2> HIDE DEF x
  <2>1. x = [proc[p] EXCEPT !.pc = "ending", !.next = proc[p].next, !.outcome = outcome,
                            !.misled = proc[p].misled]
    BY DEF x
  <2> QED
    BY <1>1, <1>2, <1>3, <1>4, <2>1, CopyMoves DEF Finishes
<1> QED
  BY <1>5 DEF Finishes, StoreOK

LEMMA HostStages ==
  ASSUME TInv, NEW p \in Pids, HostBegins(p) \/ HostEnds(p)
  PROVE  ProcOK' /\ LockOK' /\ proc[p].op \in HostOps
<1> USE DEF TInv
<1>1. /\ proc[p] \in Live /\ StageOK(proc[p]) /\ proc[p].pc \in {"ready", "ending"} /\ proc[p].cmd = "host"
  BY AtWork DEF HostBegins, HostEnds, At, Alive
<1>2. PICK pc \in {"begun", "leaving"} :
        /\ proc' = [proc EXCEPT ![p].pc = pc]
        /\ pc = "leaving" => proc[p].pc = "ending"
  BY DEF HostBegins, HostEnds, Goes, At
<1> DEFINE x == [proc[p] EXCEPT !.pc = pc]
<1>3. proc' = [proc EXCEPT ![p] = x]
  BY <1>2 DEF ProcOK
<1>4. /\ x \in Live /\ x.pc = pc /\ x.cmd = "host" /\ x.op = proc[p].op /\ x.target = proc[p].target
      /\ x.outcome = proc[p].outcome
  BY <1>1, <1>2 DEF Live
<1> HIDE DEF x
<1>5. StageOK(x)
  BY <1>1, <1>2, <1>4 DEF StageOK, Migrating
<1>6. TrailOK(x)
  BY <1>4 DEF TrailOK, Audited
<1>7. Holds(x) <=> Holds(proc[p])
  BY <1>1, <1>2, <1>4 DEF Holds
<1>8. lock' = lock
  BY DEF HostBegins, HostEnds
<1> QED
  BY <1>1, <1>3, <1>4, <1>5, <1>6, <1>7, <1>8, OneMoves DEF ProcessOK, StageOK

LEMMA HostBeginsTypes ==
  ASSUME TInv, NEW p \in Pids, HostBegins(p)
  PROVE  TInv'
<1>1. ProcOK' /\ LockOK' /\ proc[p].op \in HostOps
  BY HostStages
<1>2. FileOK(db')
  <2>1. FileOK(db) /\ now \in Nat
    BY DEF StoreOK, TInv
  <2> QED
    BY <1>1, <2>1, SavesMeta DEF HostBegins
<1> QED
  BY <1>1, <1>2 DEF HostBegins, StoreOK, TInv

\* What a host's marking leaves in the file: the checkpoint, if there is one, with its new
\* status, and wrong if its offset came back as another.
LEMMA HostMarks ==
  ASSUME TInv, NEW p \in Pids, HostEnds(p), HasPartition(db, proc[p].op, "p")
  PROVE  \E cp \in Ckpts :
           /\ db' = SavePartition(db, proc[p].op, cp)
           /\ cp.into = GetPartition(db, proc[p].op, "p").into
           /\ GetPartition(db, proc[p].op, "p").wrong => cp.wrong
           /\ ~cp.wrong => cp.last = GetPartition(db, proc[p].op, "p").last
           /\ cp.status = IF proc[p].outcome = "success" THEN "Done" ELSE "Failed"
<1> DEFINE op == proc[p].op
           old == GetPartition(db, op, "p")
           key == partitionKey(op, "p")
           status == IF proc[p].outcome = "success" THEN "Done" ELSE "Failed"
           marked == SaveStatus(db, op, "p", status, asFloat)
           cp == Marked(db, op, status, asFloat)
           wrong == [cp EXCEPT !.wrong = TRUE]
<1>1. op \in HostOps /\ op \in Ops
  BY HostStages DEF Ops
<1>2. FileOK(db) /\ asFloat \in Rounding /\ status \in {"InProgress", "Done", "Failed"}
  BY DEF TInv, StoreOK
<1>3. /\ marked = SavePartition(db, op, cp)
      /\ old \in Ckpts /\ cp \in Ckpts
      /\ cp.into = old.into /\ cp.wrong = old.wrong /\ cp.status = status
  <2> HIDE DEF status
  <2> QED
    BY <1>1, <1>2, MarksOne
<1>4. /\ wrong \in Ckpts /\ wrong.into = cp.into /\ wrong.wrong = TRUE /\ wrong.status = cp.status
      /\ wrong.id = "p" /\ cp.id = "p"
  BY <1>3 DEF Ckpts
<1>5. GetPartition(marked, op, "p") = cp
  <2> HIDE DEF cp, marked
  <2>1. marked.partitions = Put(db.partitions, key, cp)
    BY <1>2, <1>3, <1>4 DEF SavePartition, FileOK
  <2> QED
    BY <2>1 DEF Put, GetPartition
<1>6. HasPartition(db, op, "p")
  OBVIOUS
<1>7. db' = IF HasPartition(db, op, "p") /\ GetPartition(marked, op, "p").last # old.last
            THEN SavePartition(db, op, [GetPartition(marked, op, "p") EXCEPT !.wrong = TRUE]) ELSE marked
  BY Zenon DEF HostEnds
<1> HIDE DEF op, old, status, marked, cp
<1>8. CASE cp.last = old.last
  BY <1>3, <1>5, <1>7, <1>8 DEF op, old, status
<1>9. CASE cp.last # old.last
  <2>1. db' = SavePartition(db, op, wrong)
    BY <1>5, <1>6, <1>7, <1>9
  <2> HIDE DEF wrong
  <2> QED
    BY <1>3, <1>4, <2>1 DEF op, old, status
<1> QED
  BY <1>8, <1>9

LEMMA HostEndsTypes ==
  ASSUME TInv, NEW p \in Pids, HostEnds(p)
  PROVE  TInv'
<1>1. ProcOK' /\ LockOK' /\ proc[p].op \in HostOps
  BY HostStages
<1>2. FileOK(db) /\ proc[p].op \in Ops
  BY <1>1 DEF TInv, StoreOK, Ops
<1>3. FileOK(db')
  <2>1. CASE HasPartition(db, proc[p].op, "p")
    <3>1. PICK cp \in Ckpts : db' = SavePartition(db, proc[p].op, cp)
      BY <2>1, HostMarks
    <3> QED
      BY <1>2, <3>1, SavesOne
  <2>2. CASE ~HasPartition(db, proc[p].op, "p")
    <3>1. db' = db
      BY <2>2 DEF HostEnds, SaveStatus
    <3> QED
      BY <1>2, <3>1
  <2> QED
    BY <2>1, <2>2
<1> QED
  BY <1>1, <1>3 DEF HostEnds, StoreOK, TInv

LEMMA CollectionTypes ==
  ASSUME TInv, (\E p \in Pids : GCLists(p)) \/ GCReads \/ GCDeletes \/ GCEnds
  PROVE  TInv'
<1> USE DEF TInv
<1>1. FileOK(db) /\ now \in Nat /\ Retention \in Nat /\ gc \in Collections
  BY CommandsAssumption DEF StoreOK
<1>2. ASSUME NEW p \in Pids, GCLists(p) PROVE TInv'
  <2>1. now - Retention \in Int
    BY <1>1
  <2>2. gc' \in Collections
    BY <1>1, <1>2, <2>1 DEF GCLists, ListAllMetaIDs, FileOK, Collections
  <2> QED
    BY <1>2, <2>2 DEF GCLists, StoreOK, ProcOK, LockOK
<1>3. CASE GCReads
  <2>1. gc \in [pc : {"next"}, ids : SUBSET HostOps, cutoff : Int]
    BY <1>1, <1>3 DEF GCReads, Collections, AtRest, None
  <2>2. PICK id \in gc.ids :
          gc' = IF id \in DOMAIN db.meta /\ db.meta[id] < gc.cutoff
                THEN [pc |-> "stale", ids |-> gc.ids \ {id}, cutoff |-> gc.cutoff, id |-> id, read |-> db.meta[id]]
                ELSE [gc EXCEPT !.ids = @ \ {id}]
    BY <1>3 DEF GCReads
  <2>3. id \in DOMAIN db.meta => db.meta[id] \in Int
    BY <1>1 DEF FileOK
  <2>4. gc' \in Collections
    BY <2>1, <2>2, <2>3 DEF Collections
  <2> QED
    BY <1>3, <2>4 DEF GCReads, StoreOK, ProcOK, LockOK
<1>4. CASE GCDeletes
  <2>1. gc \in [pc : {"stale"}, ids : SUBSET HostOps, cutoff : Int, id : HostOps, read : Int]
    BY <1>1, <1>4 DEF GCDeletes, Collections, AtRest, None
  <2>2. gc' \in Collections
    BY <1>4, <2>1 DEF GCDeletes, Collections
  <2>3. FileOK(db')
    BY <1>1, <1>4, DeletesOne DEF GCDeletes
  <2> QED
    BY <1>4, <2>2, <2>3 DEF GCDeletes, StoreOK, ProcOK, LockOK
<1>5. CASE GCEnds
  BY <1>5 DEF GCEnds, StoreOK, ProcOK, LockOK, Collections
<1> QED
  BY <1>2, <1>3, <1>4, <1>5

LEMMA StepTypes == TInv /\ [Next]_vars => TInv'
<1> SUFFICES ASSUME TInv, [Next]_vars PROVE TInv'
  OBVIOUS
<1>1. ASSUME NEW p \in Pids, Starts(p) PROVE TInv'
  BY <1>1, StartsTypes
<1>2. ASSUME NEW p \in Pids, Step(p) \/ Killed(p) PROVE TInv'
  <2>1. CASE Opens(p)
    BY <2>1, OpensTypes
  <2>2. CASE TimesOut(p) \/ Shows(p) \/ ReturnsEarly(p) \/ Leaves(p) \/ Killed(p)
    BY <2>2, ExitsTypes
  <2>3. CASE Prepares(p)
    BY <2>3, PreparesTypes
  <2>4. CASE BacksOrRestores(p)
    BY <2>4, BacksTypes
  <2>5. CASE Begins(p)
    BY <2>5, BeginsTypes
  <2>6. CASE Copies(p)
    BY <2>6, CopiesTypes
  <2>7. CASE Saves(p)
    BY <2>7, SavesTypes
  <2>8. CASE Finishes(p)
    BY <2>8, FinishesTypes
  <2>9. CASE Ends(p)
    BY <2>9, EndsTypes
  <2>10. CASE HostBegins(p)
    BY <2>10, HostBeginsTypes
  <2>11. CASE HostEnds(p)
    BY <2>11, HostEndsTypes
  <2> QED
    BY <1>2, <2>1, <2>2, <2>3, <2>4, <2>5, <2>6, <2>7, <2>8, <2>9, <2>10, <2>11 DEF Step
<1>3. CASE (\E p \in Pids : GCLists(p)) \/ GCReads \/ GCDeletes \/ GCEnds
  BY <1>3, CollectionTypes
<1>4. CASE Ticks
  <2>1. now' \in Nat
    BY <1>4 DEF Ticks, TInv, StoreOK
  <2> QED
    BY <1>4, <2>1 DEF Ticks, TInv, StoreOK, ProcOK, LockOK
<1>5. CASE UNCHANGED vars
  BY <1>5 DEF vars, TInv, StoreOK, ProcOK, LockOK
<1> QED
  BY <1>1, <1>2, <1>3, <1>4, <1>5 DEF Next

\* A process is where its command can be and holds the checkpoint file if and only if it is
\* past opening it; what is in the file is of the types its readers expect.
THEOREM CommandsInvariance == Spec => []TInv
BY InitTypes, StepTypes, PTL DEF Spec

\* At most one process has the checkpoint file, and every other one that wants it is
\* still opening it.
THEOREM CommandsTypeCorrect == Spec => []TypeOK
<1>1. TInv => TypeOK
  <2> SUFFICES ASSUME TInv PROVE TypeOK
    OBVIOUS
  <2>1. ASSUME NEW p \in Pids, Alive(p)
        PROVE  /\ proc[p].cmd \in Stored \cup Audited
               /\ proc[p].next \in Offsets
               /\ proc[p].cmd \in Stored => (lock = p <=> proc[p].pc # "opening")
    <3>1. proc[p] \in Live
      BY <2>1, AtWork DEF TInv
    <3> QED
      BY <2>1, <3>1 DEF Live, TInv, LockOK, Holds, Alive
  <2>2. \A k \in DOMAIN db.partitions : db.partitions[k].last \in Offsets
    <3>1. Places \subseteq Offsets
      BY CommandsAssumption DEF Places, Offsets
    <3> QED
      BY <3>1 DEF TInv, StoreOK, FileOK, Ckpts
  <2>3. gc.pc \in {None, "next", "stale"}
    BY DEF TInv, Collections, AtRest
  <2> QED
    BY <2>1, <2>2, <2>3 DEF TypeOK, TInv, StoreOK, LockOK
<1> QED
  BY <1>1, CommandsInvariance, PTL

\* A step of one process is a step of no other.
LEMMA OthersStay ==
  ASSUME TInv, NEW p \in Pids, NEW q \in Pids \ {p}, Starts(q) \/ Step(q) \/ Killed(q)
  PROVE  proc'[p] = proc[p]
<1> USE DEF TInv, ProcOK
<1>1. CASE Starts(q)
  BY <1>1 DEF Starts
<1>2. CASE Opens(q) \/ BacksOrRestores(q) \/ Copies(q) \/ Saves(q) \/ Finishes(q) \/ HostBegins(q) \/ HostEnds(q)
  BY <1>2 DEF Opens, BacksOrRestores, Copies, Saves, Finishes, HostBegins, HostEnds, Goes
<1>3. CASE TimesOut(q) \/ Shows(q) \/ ReturnsEarly(q) \/ Leaves(q) \/ Killed(q)
  BY <1>3 DEF TimesOut, Shows, ReturnsEarly, Leaves, Killed, Exits
<1>4. CASE Prepares(q) \/ Ends(q)
  BY <1>4 DEF Prepares, Ends, Logs, Exits
<1>5. CASE Begins(q)
  BY <1>5 DEF Begins
<1> QED
  BY <1>1, <1>2, <1>3, <1>4, <1>5 DEF Step

\* The steps in which a process ends.
LEMMA WhoExits ==
  ASSUME TInv, Next, NEW p \in Pids, Alive(p), ~Alive(p)'
  PROVE  \/ TimesOut(p) \/ Shows(p) \/ ReturnsEarly(p) \/ Leaves(p) \/ Killed(p)
         \/ Prepares(p) /\ Exits(p, "failed")
<1> USE DEF TInv, ProcOK
<1>1. proc'[p] # proc[p]
  BY DEF Alive
<1>2. Starts(p) \/ Step(p) \/ Killed(p)
  <2>1. ASSUME NEW q \in Pids, GCLists(q) PROVE FALSE
    BY <1>1, <2>1 DEF GCLists
  <2>2. ~(GCReads \/ GCDeletes \/ GCEnds \/ Ticks)
    BY <1>1 DEF GCReads, GCDeletes, GCEnds, Ticks
  <2> QED
    BY <1>1, <2>1, <2>2, OthersStay DEF Next
<1>3. ~Starts(p)
  BY DEF Starts
<1>4. ~(Opens(p) \/ BacksOrRestores(p) \/ Copies(p) \/ Saves(p) \/ Finishes(p) \/ HostBegins(p) \/ HostEnds(p))
  <2>1. proc[p] \in Live
    BY AtWork
  <2> QED
    BY <2>1 DEF Opens, BacksOrRestores, Copies, Saves, Finishes, HostBegins, HostEnds, Goes, Alive, Live
<1>5. ~Begins(p)
  <2>1. proc[p] \in Live
    BY AtWork
  <2>2. Begins(p) =>
          \/ proc' = [proc EXCEPT ![p].pc = "ending", ![p].outcome = "success", ![p].misled = Misled(p)]
          \/ \E from : proc' = [proc EXCEPT ![p].pc = "copying", ![p].next = from, ![p].misled = Misled(p)]
    BY DEF Begins, Misled
  <2>3. ASSUME proc' = [proc EXCEPT ![p].pc = "ending", ![p].outcome = "success", ![p].misled = Misled(p)]
        PROVE  proc'[p].pc = "ending"
    BY <2>1, <2>3 DEF Live
  <2>4. ASSUME NEW from,
               proc' = [proc EXCEPT ![p].pc = "copying", ![p].next = from, ![p].misled = Misled(p)]
        PROVE  proc'[p].pc = "copying"
    BY <2>1, <2>4 DEF Live
  <2> QED
    BY <2>2, <2>3, <2>4 DEF Alive
<1>6. \A what, pc : pc # "exited" => ~Logs(p, what, pc)
  <2>1. proc[p] \in Live
    BY AtWork
  <2> QED
    BY <2>1 DEF Logs, Alive, Live
<1>7. ~Ends(p) /\ (Prepares(p) => Exits(p, "failed"))
  BY <1>6 DEF Ends, Prepares
<1> QED
  BY <1>2, <1>3, <1>4, <1>5, <1>7 DEF Step

\* When a command ends, the audit log has its outcome, unless the process knows that an
\* entry is missing, returned early or was killed; and what the log has is what happened.
THEOREM TrailIsTrue == Spec => TrailTells
<1>1. TInv /\ [Next]_vars =>
  [\A p \in Pids :
       Alive(p) /\ ~Alive(p)' /\ proc[p].cmd \in Audited =>
         LET entries == Range(proc[p].entries)
             how == proc'[p].how
         IN /\ how = "ok" => "success" \in entries \/ proc[p].unlogged
            /\ how = "failed" /\ "start" \in entries => "failure" \in entries \/ proc[p].unlogged
            /\ "success" \in entries => how \in {"ok", "killed"}
            /\ "failure" \in entries => how \in {"failed", "killed"}]_vars
  <2> SUFFICES ASSUME TInv, Next, NEW p \in Pids, Alive(p), ~Alive(p)', proc[p].cmd \in Audited
               PROVE  LET entries == Range(proc[p].entries)
                          how == proc'[p].how
                      IN /\ how = "ok" => "success" \in entries \/ proc[p].unlogged
                         /\ how = "failed" /\ "start" \in entries => "failure" \in entries \/ proc[p].unlogged
                         /\ "success" \in entries => how \in {"ok", "killed"}
                         /\ "failure" \in entries => how \in {"failed", "killed"}
    OBVIOUS
  <2>1. proc[p] \in Live /\ StageOK(proc[p]) /\ TrailOK(proc[p])
    BY AtWork DEF TInv
  <2>2. \/ TimesOut(p) \/ Shows(p) \/ ReturnsEarly(p) \/ Leaves(p) \/ Killed(p)
        \/ Prepares(p) /\ Exits(p, "failed")
    BY WhoExits
  <2>3. \A how : Exits(p, how) => proc'[p].how = how
    BY DEF Exits, Gone, TInv, ProcOK
  <2>4. CASE TimesOut(p)
    BY <2>1, <2>3, <2>4 DEF TimesOut, At, TrailOK
  <2>5. CASE Shows(p)
    BY <2>5 DEF Shows, Audited
  <2>6. CASE ReturnsEarly(p)
    BY <2>1, <2>3, <2>6 DEF ReturnsEarly, At, TrailOK
  <2>7. CASE Leaves(p)
    <3>1. /\ Range(proc[p].entries) \subseteq {"start", proc[p].outcome}
          /\ proc[p].outcome \in Range(proc[p].entries) \/ proc[p].unlogged
          /\ proc[p].outcome \in {"success", "failure"}
      BY <2>1, <2>7 DEF Leaves, At, TrailOK, StageOK
    <3>2. proc'[p].how = IF proc[p].outcome = "success" THEN "ok" ELSE "failed"
      BY <2>3, <2>7 DEF Leaves
    <3> QED
      BY <3>1, <3>2
  <2>8. CASE Killed(p)
    BY <2>3, <2>8 DEF Killed
  <2>9. CASE Prepares(p) /\ Exits(p, "failed")
    BY <2>1, <2>3, <2>9 DEF Prepares, At, TrailOK
  <2> QED
    BY <2>2, <2>4, <2>5, <2>6, <2>7, <2>8, <2>9
<1> QED
  BY <1>1, CommandsInvariance, PTL DEF TrailTells, Spec

-----------------------------------------------------------------------------
(* What is in the targets.                                                 *)

Before(n) == {r \in 1..LastRow : r < n}
UpTo(n) == {r \in 1..LastRow : r <= n}

\* A checkpoint that is not wrong counts rows that its target has. A host's is of its
\* own target.
CkptOK(rs, op, cp) ==
  /\ op \in HostOps => cp.into = HostTarget
  /\ ~cp.wrong => UpTo(cp.last) \subseteq rs[cp.into]
  /\ ~cp.wrong /\ cp.status = "Done" => rs[cp.into] = 1..LastRow

\* A copy that was not misled has left no row out.
CopyOK(rs, x) ==
  /\ x.pc = "copying" /\ ~x.misled => Before(x.next) \subseteq rs[x.target]
  /\ x.pc = "saving" /\ ~x.misled => UpTo(x.next) \subseteq rs[x.target]
  /\ x.pc \in {"ending", "leaving"} /\ x.cmd \in Migrating /\ x.outcome = "success" /\ ~x.misled
       => rs[x.target] = 1..LastRow

\* What a copy found under its own name, if it is still there: nothing that was done,
\* and something wrong if a host was misled by it.
FoundOK(d, x) ==
  HasPartition(d, x.op, "p") =>
    /\ x.pc \in {"copying", "saving"} => GetPartition(d, x.op, "p").status # "Done"
    /\ x.cmd = "host" /\ x.misled /\ x.pc \in {"copying", "saving", "ending"}
         => GetPartition(d, x.op, "p").wrong

CkptsOK(d, rs) ==
  \A op \in Ops : HasPartition(d, op, "p") => CkptOK(rs, op, GetPartition(d, op, "p"))

DInv ==
  /\ CkptsOK(db, rows)
  /\ \A p \in Pids : CopyOK(rows, proc[p]) /\ (Alive(p) => FoundOK(db, proc[p]))

\* The collector goes by a time that is past, and an operation it found old is still
\* there, though perhaps started again.
GInv ==
  /\ gc.pc # None => gc.cutoff <= now - Retention
  /\ gc.pc = "stale" => gc.id \in DOMAIN db.meta /\ gc.read < gc.cutoff

LEMMA Counting ==
  /\ Before(1) = {}
  /\ \A n \in Places : Before(n) \subseteq UpTo(n)
  /\ \A n \in 1..LastRow : Before(n + 1) = UpTo(n) /\ UpTo(n) = Before(n) \union {n}
  /\ \A n \in Places : n > LastRow => Before(n) = 1..LastRow
<1>1. LastRow \in Nat
  BY CommandsAssumption
<1>2. Before(1) = {}
  BY <1>1 DEF Before
<1>3. \A n \in Places : Before(n) \subseteq UpTo(n)
  BY <1>1 DEF Places, Before, UpTo
<1>4. \A n \in 1..LastRow : Before(n + 1) = UpTo(n) /\ UpTo(n) = Before(n) \union {n}
  BY <1>1 DEF Before, UpTo
<1>5. \A n \in Places : n > LastRow => Before(n) = 1..LastRow
  BY <1>1 DEF Places, Before
<1> QED
  BY <1>2, <1>3, <1>4, <1>5

\* The only thing a copy finds is the checkpoint under its own name.
LEMMA FindsOwn ==
  ASSUME PlainNames, NEW d, FileOK(d), NEW op \in Ops
  PROVE  ListPartitions(d, op) = IF HasPartition(d, op, "p") THEN {GetPartition(d, op, "p")} ELSE {}
<1>1. ASSUME NEW b \in Ops PROVE IsPrefix(partitionKeyPrefix(op), partitionKey(b, "p")) <=> op = b
  BY NamesAreSequences, NoSeparator, PrefixFree
<1>2. KeysUnder(d, op) = {partitionKey(op, "p")} \intersect DOMAIN d.partitions
  BY <1>1 DEF KeysUnder, FileOK, Keys
<1> QED
  BY <1>2 DEF ListPartitions, HasPartition, GetPartition

\* The keys of two operations are two.
LEMMA KeyIsOwn ==
  ASSUME PlainNames, NEW a \in Ops, NEW b \in Ops, partitionKey(a, "p") = partitionKey(b, "p")
  PROVE  a = b
<1>1. IsPrefix(partitionKeyPrefix(a), partitionKey(a, "p"))
      /\ (IsPrefix(partitionKeyPrefix(a), partitionKey(b, "p")) <=> a = b)
  BY NamesAreSequences, NoSeparator, PrefixFree
<1> QED
  BY <1>1

\* Saving a checkpoint changes what is found under one name.
LEMMA SavesUnder ==
  ASSUME PlainNames, NEW d, FileOK(d), NEW op \in Ops, NEW cp \in Ckpts, NEW b \in Ops
  PROVE  /\ HasPartition(SavePartition(d, op, cp), b, "p") <=> b = op \/ HasPartition(d, b, "p")
         /\ b = op => GetPartition(SavePartition(d, op, cp), b, "p") = cp
         /\ b # op /\ HasPartition(d, b, "p") =>
              GetPartition(SavePartition(d, op, cp), b, "p") = GetPartition(d, b, "p")
BY SavesOne, KeyIsOwn DEF HasPartition, GetPartition

\* More rows in the targets make no checkpoint and no copy wrong.
LEMMA RowsAdd ==
  ASSUME NEW old \in [Targets -> SUBSET (1..LastRow)], NEW new \in [Targets -> SUBSET (1..LastRow)],
         \A t \in Targets : old[t] \subseteq new[t]
  PROVE  /\ \A op, cp : cp \in Ckpts /\ CkptOK(old, op, cp) => CkptOK(new, op, cp)
         /\ \A x : ProcessOK(x) /\ CopyOK(old, x) => CopyOK(new, x)
<1>1. ASSUME NEW op, NEW cp \in Ckpts, CkptOK(old, op, cp) PROVE CkptOK(new, op, cp)
  <2>1. cp.into \in Targets
    BY DEF Ckpts
  <2> QED
    BY <1>1, <2>1 DEF CkptOK
<1>2. ASSUME NEW x, ProcessOK(x), CopyOK(old, x) PROVE CopyOK(new, x)
  <2>1. CASE x \in Dead
    BY <2>1 DEF Dead, CopyOK
  <2>2. CASE StageOK(x)
    <3>1. x.pc \in {"copying", "saving"} \/ x.cmd \in Migrating => x.target \in Targets
      BY <2>2 DEF StageOK
    <3> QED
      BY <1>2, <3>1 DEF CopyOK
  <2> QED
    BY <1>2, <2>1, <2>2 DEF ProcessOK
<1> QED
  BY <1>1, <1>2

\* While one process has the file, no other is at work on what it holds.
LEMMA OthersFind ==
  ASSUME TInv, NEW p \in Pids, Holds(proc[p]), NEW q \in Pids \ {p}, Alive(q), NEW d
  PROVE  FoundOK(d, proc[q])
<1>1. ~Holds(proc[q])
  BY CommandsAssumption DEF TInv, LockOK
<1>2. proc[q] \in Live /\ StageOK(proc[q])
  BY AtWork DEF TInv
<1>3. proc[q].pc \in {"copying", "saving"} => FALSE
  BY <1>1, <1>2 DEF Holds, StageOK, Migrating, Stored
<1>4. proc[q].cmd = "host" => proc[q].pc = "opening"
  BY <1>1, <1>2 DEF Holds, Stored, Alive
<1> QED
  BY <1>3, <1>4 DEF FoundOK

\* A step of one process that leaves the checkpoints as they are.
LEMMA StepsAside ==
  ASSUME TInv, DInv, NEW p \in Pids, \A q \in Pids \ {p} : proc'[q] = proc[q],
         UNCHANGED rows, db'.partitions = db.partitions,
         CopyOK(rows, proc'[p]), Alive(p)' => FoundOK(db, proc'[p])
  PROVE  DInv'
<1>1. \A op \in Ops : /\ HasPartition(db', op, "p") <=> HasPartition(db, op, "p")
                      /\ GetPartition(db', op, "p") = GetPartition(db, op, "p")
  BY DEF HasPartition, GetPartition
<1>2. CkptsOK(db', rows')
  BY <1>1 DEF DInv, CkptsOK
<1>3. \A x : FoundOK(db, x) => FoundOK(db', x)
  BY DEF FoundOK, HasPartition, GetPartition
<1>4. ASSUME NEW q \in Pids PROVE CopyOK(rows', proc'[q]) /\ (Alive(q)' => FoundOK(db', proc'[q]))
  BY <1>3 DEF DInv, Alive
<1> QED
  BY <1>2, <1>4 DEF DInv

LEMMA InitDelivers == Init => DInv
<1> SUFFICES ASSUME Init PROVE DInv
  OBVIOUS
<1>1. \A op \in Ops : ~HasPartition(db, op, "p")
  BY DEF Init, NewStore, HasPartition
<1>2. \A p \in Pids : proc[p].pc = "exited"
  BY DEF Init, Gone
<1> QED
  BY <1>1, <1>2 DEF DInv, CkptsOK, CopyOK, Alive

LEMMA BeginsDelivers ==
  ASSUME PlainNames, TInv, DInv, NEW p \in Pids, Begins(p)
  PROVE  DInv'
<1> DEFINE op == proc[p].op
           own == GetPartition(db, op, "p")
           x == proc'[p]
<1>1. /\ proc[p] \in Live /\ StageOK(proc[p]) /\ proc[p].pc = "begun"
      /\ op \in Ops /\ FileOK(db)
  BY AtWork DEF Begins, At, Alive, TInv, StoreOK, Live
<1>2. proc[p].target \in Targets /\ (proc[p].cmd = "host" => proc[p].target = HostTarget /\ op \in HostOps)
  BY <1>1 DEF StageOK, Begins, Migrating
<1>3. HasPartition(db, op, "p") => own \in Ckpts /\ CkptOK(rows, op, own)
  BY <1>1 DEF DInv, CkptsOK, HasPartition, GetPartition, FileOK
<1>4. ListPartitions(db, op) = IF HasPartition(db, op, "p") THEN {own} ELSE {}
  BY <1>1, FindsOwn
<1>5. HasPartition(db, op, "p") /\ ~Misled(p) => own.into = proc[p].target /\ ~own.wrong
  BY DEF Misled
<1>6. HasPartition(db, op, "p") /\ Misled(p) /\ proc[p].cmd = "host" => own.wrong
  BY <1>2, <1>3 DEF Misled, CkptOK
<1>7. \A q \in Pids \ {p} : proc'[q] = proc[q]
  BY OthersStay DEF Step
<1>8. CopyOK(rows, x) /\ FoundOK(db, x)
  <2>1. ASSUME NEW cp \in ListPartitions(db, op), cp.status = "Done",
               proc' = [proc EXCEPT ![p].pc = "ending", ![p].outcome = "success", ![p].misled = Misled(p)]
        PROVE  CopyOK(rows, x) /\ FoundOK(db, x)
    <3>1. /\ x.pc = "ending" /\ x.misled = Misled(p) /\ x.op = op /\ x.cmd = proc[p].cmd
          /\ x.target = proc[p].target
      BY <1>1, <2>1 DEF Live, TInv, ProcOK
    <3>2. HasPartition(db, op, "p") /\ own.status = "Done"
      BY <1>4, <2>1
    <3>3. ~Misled(p) => rows[proc[p].target] = 1..LastRow
      BY <1>3, <1>5, <3>2 DEF CkptOK
    <3>4. CopyOK(rows, x)
      BY <3>1, <3>3 DEF CopyOK
    <3>5. FoundOK(db, x)
      BY <1>6, <3>1 DEF FoundOK
    <3> QED
      BY <3>4, <3>5
  <2>2. ASSUME \A cp \in ListPartitions(db, op) : cp.status # "Done",
               NEW from \in (IF ListPartitions(db, op) = {} THEN {1}
                             ELSE {cp.last : cp \in ListPartitions(db, op)}),
               proc' = [proc EXCEPT ![p].pc = "copying", ![p].next = from, ![p].misled = Misled(p)]
        PROVE  CopyOK(rows, x) /\ FoundOK(db, x)
    <3>1. /\ x.pc = "copying" /\ x.misled = Misled(p) /\ x.op = op /\ x.cmd = proc[p].cmd
          /\ x.target = proc[p].target /\ x.next = from
      BY <1>1, <2>2 DEF Live, TInv, ProcOK
    <3>2. ~Misled(p) => Before(from) \subseteq rows[proc[p].target]
      <4>1. CASE HasPartition(db, op, "p")
        <5>1. from = own.last /\ own \in Ckpts
          BY <1>3, <1>4, <2>2, <4>1
        <5>2. own.last \in Places
          BY <5>1 DEF Ckpts
        <5> QED
          BY <1>3, <1>5, <4>1, <5>1, <5>2, Counting DEF CkptOK
      <4>2. CASE ~HasPartition(db, op, "p")
        BY <1>4, <2>2, <4>2, Counting
      <4> QED
        BY <4>1, <4>2
    <3>3. CopyOK(rows, x)
      BY <3>1, <3>2 DEF CopyOK
    <3>4. HasPartition(db, op, "p") => own.status # "Done"
      BY <1>4, <2>2
    <3>5. FoundOK(db, x)
      BY <1>6, <3>1, <3>4 DEF FoundOK
    <3> QED
      BY <3>3, <3>5
  <2>3. \/ /\ \E cp \in ListPartitions(db, op) : cp.status = "Done"
           /\ proc' = [proc EXCEPT ![p].pc = "ending", ![p].outcome = "success", ![p].misled = Misled(p)]
        \/ /\ \A cp \in ListPartitions(db, op) : cp.status # "Done"
           /\ \E from \in (IF ListPartitions(db, op) = {} THEN {1}
                           ELSE {cp.last : cp \in ListPartitions(db, op)}) :
                proc' = [proc EXCEPT ![p].pc = "copying", ![p].next = from, ![p].misled = Misled(p)]
    BY DEF Begins, Misled
  <2> QED
    BY <2>1, <2>2, <2>3
<1> QED
  BY <1>7, <1>8, StepsAside DEF Begins

LEMMA FinishesDelivers ==
  ASSUME TInv, DInv, NEW p \in Pids, Finishes(p)
  PROVE  DInv'
<1> DEFINE x == proc'[p]
<1>1. proc[p] \in Live /\ StageOK(proc[p]) /\ proc[p].pc = "copying" /\ Alive(p)
  BY AtWork DEF Finishes, At, Alive, TInv
<1>2. proc[p].target \in Targets /\ proc[p].next \in Places
  BY <1>1 DEF StageOK
<1>3. CopyOK(rows, proc[p]) /\ FoundOK(db, proc[p])
  BY <1>1 DEF DInv
<1>4. PICK outcome \in {"success", "failure"} :
        /\ proc' = [proc EXCEPT ![p].pc = "ending", ![p].outcome = outcome]
        /\ outcome = "success" => proc[p].next > LastRow
  BY DEF Finishes
<1>5. /\ x.pc = "ending" /\ x.misled = proc[p].misled /\ x.op = proc[p].op /\ x.cmd = proc[p].cmd
      /\ x.target = proc[p].target /\ x.outcome = outcome
  BY <1>1, <1>4 DEF Live, TInv, ProcOK
<1>6. outcome = "success" => Before(proc[p].next) = 1..LastRow
  BY <1>2, <1>4, Counting
<1>7. rows[proc[p].target] \subseteq 1..LastRow
  BY <1>2 DEF TInv, StoreOK
<1>8. CopyOK(rows, x)
  BY <1>1, <1>3, <1>5, <1>6, <1>7 DEF CopyOK
<1>9. FoundOK(db, x)
  BY <1>1, <1>3, <1>5 DEF FoundOK
<1>10. \A q \in Pids \ {p} : proc'[q] = proc[q]
  BY OthersStay DEF Step
<1> QED
  BY <1>8, <1>9, <1>10, StepsAside DEF Finishes

LEMMA CopiesDelivers ==
  ASSUME TInv, DInv, NEW p \in Pids, Copies(p)
  PROVE  DInv'
<1> DEFINE x == proc'[p]
           t == proc[p].target
<1>1. proc[p] \in Live /\ proc[p].pc = "copying" /\ Alive(p)
  BY AtWork DEF Copies, At, Alive, TInv
<1>2. TInv' /\ t \in Targets /\ proc[p].next \in 1..LastRow
  BY CopiesTypes
<1>3. CopyOK(rows, proc[p]) /\ FoundOK(db, proc[p])
  BY <1>1 DEF DInv
<1>4. /\ x.pc = "saving" /\ x.misled = proc[p].misled /\ x.op = proc[p].op /\ x.cmd = proc[p].cmd
      /\ x.target = t /\ x.next = proc[p].next
  BY <1>1 DEF Live, TInv, ProcOK, Copies, Goes
<1>5. /\ rows \in [Targets -> SUBSET (1..LastRow)] /\ rows' \in [Targets -> SUBSET (1..LastRow)]
      /\ \A s \in Targets : rows[s] \subseteq rows'[s]
      /\ rows'[t] = rows[t] \union {proc[p].next}
  BY <1>2 DEF TInv, StoreOK, Copies
<1>6. CopyOK(rows', x)
  <2>1. ~proc[p].misled => UpTo(proc[p].next) \subseteq rows'[t]
    BY <1>1, <1>2, <1>3, <1>5, Counting DEF CopyOK
  <2> QED
    BY <1>4, <2>1 DEF CopyOK
<1>7. FoundOK(db, x)
  BY <1>1, <1>3, <1>4 DEF FoundOK
<1>8. \A q \in Pids \ {p} : proc'[q] = proc[q]
  BY OthersStay DEF Step
<1>9. CkptsOK(db, rows')
  <2>1. \A op \in Ops : HasPartition(db, op, "p") => GetPartition(db, op, "p") \in Ckpts
    BY DEF TInv, StoreOK, FileOK, HasPartition, GetPartition
  <2> QED
    BY <1>5, <2>1, RowsAdd DEF DInv, CkptsOK
<1>10. \A q \in Pids : CopyOK(rows', proc[q])
  BY <1>5, RowsAdd DEF DInv, TInv, ProcOK
<1>11. db' = db
  BY DEF Copies
<1> QED
  BY <1>6, <1>7, <1>8, <1>9, <1>10, <1>11 DEF DInv, Alive

\* The process that has the file saves a checkpoint of its operation, one that is right if
\* the process was not misled.
LEMMA StepsSaving ==
  ASSUME PlainNames, TInv, DInv, NEW p \in Pids, \A q \in Pids \ {p} : proc'[q] = proc[q],
         Holds(proc[p]), UNCHANGED rows, proc[p].op \in Ops,
         NEW cp \in Ckpts, db' = SavePartition(db, proc[p].op, cp), CkptOK(rows, proc[p].op, cp),
         CopyOK(rows, proc'[p]), Alive(p)' => FoundOK(db', proc'[p])
  PROVE  DInv'
<1>1. CkptsOK(db', rows')
  <2>1. FileOK(db)
    BY DEF TInv, StoreOK
  <2>2. ASSUME NEW op \in Ops, HasPartition(db', op, "p")
        PROVE  CkptOK(rows, op, GetPartition(db', op, "p"))
    <3>1. CASE op = proc[p].op
      BY <2>1, <3>1, SavesUnder
    <3>2. CASE op # proc[p].op
      <4>1. HasPartition(db, op, "p") /\ GetPartition(db', op, "p") = GetPartition(db, op, "p")
        BY <2>1, <2>2, <3>2, SavesUnder
      <4> QED
        BY <4>1 DEF DInv, CkptsOK
    <3> QED
      BY <3>1, <3>2
  <2> QED
    BY <2>2 DEF CkptsOK
<1>2. ASSUME NEW q \in Pids \ {p}
      PROVE  CopyOK(rows', proc'[q]) /\ (Alive(q)' => FoundOK(db', proc'[q]))
  <2>1. Alive(q) => FoundOK(db', proc[q])
    BY OthersFind
  <2> QED
    BY <2>1 DEF DInv, Alive
<1> QED
  BY <1>1, <1>2 DEF DInv

LEMMA SavesDelivers ==
  ASSUME PlainNames, TInv, DInv, NEW p \in Pids, Saves(p)
  PROVE  DInv'
<1> DEFINE x == proc'[p]
           t == proc[p].target
           n == proc[p].next
           op == proc[p].op
           cp == Progress(p)
<1>1. proc[p] \in Live /\ StageOK(proc[p]) /\ proc[p].pc = "saving" /\ Alive(p)
  BY AtWork DEF Saves, At, Alive, TInv
<1>2. t \in Targets /\ proc[p].cmd \in Migrating /\ (proc[p].cmd = "host" => t = HostTarget)
  BY <1>1 DEF StageOK
<1>3. cp \in Ckpts /\ op \in Ops /\ n \in 1..LastRow
  BY ProgressIsCkpt DEF Saves
<1>4. cp.last = n /\ cp.into = t /\ cp.wrong = proc[p].misled /\ cp.status # "Done"
  <2>1. HasPartition(db, op, "p") => GetPartition(db, op, "p").status # "Done"
    BY <1>1 DEF DInv, FoundOK
  <2> QED
    BY <2>1 DEF Progress
<1>5. ~proc[p].misled => UpTo(n) \subseteq rows[t] /\ Before(n + 1) = UpTo(n)
  BY <1>1, <1>3, Counting DEF DInv, CopyOK
<1>6. /\ x.pc = "copying" /\ x.misled = proc[p].misled /\ x.op = op /\ x.cmd = proc[p].cmd
      /\ x.target = t /\ x.next = n + 1
  BY <1>1 DEF Live, TInv, ProcOK, Saves
<1>7. \A q \in Pids \ {p} : proc'[q] = proc[q]
  BY OthersStay DEF Step
<1>8. CopyOK(rows, x)
  BY <1>5, <1>6 DEF CopyOK
<1>9. CASE db' = SavePartition(db, op, cp)
  <2>1. op \in HostOps => t = HostTarget
    BY <1>1, <1>2 DEF StageOK, PlainNames, Migrating
  <2>2. CkptOK(rows, op, cp)
    BY <1>4, <1>5, <2>1 DEF CkptOK
  <2>3. FoundOK(db', x)
    <3>1. GetPartition(db', op, "p") = cp
      BY <1>3, <1>9, SavesUnder DEF TInv, StoreOK
    <3> QED
      BY <1>4, <1>6, <3>1 DEF FoundOK
  <2>4. Holds(proc[p])
    BY <1>1, <1>2 DEF Holds, Migrating, Stored
  <2>5. UNCHANGED rows
    BY DEF Saves
  <2> QED
    BY <1>3, <1>7, <1>8, <1>9, <2>2, <2>3, <2>4, <2>5, StepsSaving
<1>10. CASE db' = db
  <2>1. FoundOK(db, x)
    BY <1>1, <1>6 DEF DInv, FoundOK
  <2> QED
    BY <1>7, <1>8, <1>10, <2>1, StepsAside DEF Saves
<1> QED
  BY <1>9, <1>10 DEF Saves

LEMMA HostEndsDelivers ==
  ASSUME PlainNames, TInv, DInv, NEW p \in Pids, HostEnds(p)
  PROVE  DInv'
<1> DEFINE x == proc'[p]
           op == proc[p].op
           own == GetPartition(db, op, "p")
<1>1. /\ proc[p] \in Live /\ StageOK(proc[p]) /\ proc[p].pc = "ending" /\ Alive(p)
      /\ proc[p].cmd = "host"
  BY AtWork DEF HostEnds, At, Alive, TInv
<1>2. op \in HostOps /\ op \in Ops /\ proc[p].target = HostTarget
  BY <1>1 DEF StageOK, Ops
<1>3. /\ x.pc = "leaving" /\ x.misled = proc[p].misled /\ x.op = op /\ x.cmd = proc[p].cmd
      /\ x.target = proc[p].target /\ x.outcome = proc[p].outcome
  BY <1>1 DEF Live, TInv, ProcOK, HostEnds, Goes
<1>4. CopyOK(rows, proc[p]) /\ FoundOK(db, proc[p])
  BY <1>1 DEF DInv
<1>5. CopyOK(rows, x) /\ \A d : FoundOK(d, x)
  BY <1>1, <1>3, <1>4 DEF CopyOK, FoundOK
<1>6. \A q \in Pids \ {p} : proc'[q] = proc[q]
  BY OthersStay DEF Step
<1>7. CASE HasPartition(db, op, "p")
  <2>1. PICK cp \in Ckpts :
          /\ db' = SavePartition(db, op, cp)
          /\ cp.into = own.into
          /\ own.wrong => cp.wrong
          /\ ~cp.wrong => cp.last = own.last
          /\ cp.status = IF proc[p].outcome = "success" THEN "Done" ELSE "Failed"
    BY <1>7, HostMarks
  <2>2. CkptOK(rows, op, own)
    BY <1>2, <1>7 DEF DInv, CkptsOK
  <2>3. own.into = HostTarget
    BY <1>2, <2>2 DEF CkptOK
  <2>4. ~cp.wrong /\ cp.status = "Done" => rows[cp.into] = 1..LastRow
    <3>1. ~cp.wrong => ~proc[p].misled
      BY <1>1, <1>4, <1>7, <2>1 DEF FoundOK
    <3>2. cp.status = "Done" => proc[p].outcome = "success"
      BY <2>1
    <3> QED
      BY <1>1, <1>2, <1>4, <2>1, <2>3, <3>1, <3>2 DEF CopyOK, Migrating
  <2>5. CkptOK(rows, op, cp)
    BY <2>1, <2>2, <2>3, <2>4 DEF CkptOK
  <2>6. Holds(proc[p]) /\ UNCHANGED rows
    BY <1>1 DEF Holds, Stored, HostEnds
  <2> QED
    BY <1>2, <1>5, <1>6, <2>1, <2>5, <2>6, StepsSaving
<1>8. CASE ~HasPartition(db, op, "p")
  <2>1. db' = db
    BY <1>8 DEF HostEnds, SaveStatus
  <2> QED
    BY <1>5, <1>6, <2>1, StepsAside DEF HostEnds
<1> QED
  BY <1>7, <1>8

\* The other steps of a process: it is at no row, and is not told anything of rows.
LEMMA OtherStepsDeliver ==
  ASSUME TInv, DInv, NEW p \in Pids,
         \/ Starts(p) \/ Opens(p) \/ TimesOut(p) \/ Shows(p) \/ Prepares(p) \/ ReturnsEarly(p)
         \/ BacksOrRestores(p) \/ Ends(p) \/ Leaves(p) \/ HostBegins(p) \/ Killed(p)
  PROVE  DInv'
<1> DEFINE x == proc'[p]
<1>1. \A q \in Pids \ {p} : proc'[q] = proc[q]
  BY OthersStay DEF Step
<1>2. UNCHANGED rows /\ db'.partitions = db.partitions
  <2>1. CASE HostBegins(p)
    <3>1. FileOK(db) /\ now \in Nat /\ proc[p].op \in HostOps
      BY <2>1, HostStages DEF TInv, StoreOK
    <3> QED
      BY <2>1, <3>1, SavesMeta DEF HostBegins
  <2> QED
    BY <2>1 DEF Starts, Opens, TimesOut, Shows, Prepares, ReturnsEarly, BacksOrRestores, Ends, Leaves, Killed
<1>3. \A d : x.pc \in {"opening", "ready", "begun", "leaving"} => FoundOK(d, x)
  BY DEF FoundOK
<1>4. x.pc \in {"exited", "opening", "ready", "begun"} => CopyOK(rows, x)
  BY DEF CopyOK
<1>5. CASE Starts(p)
  <2>1. x.pc \in {"opening", "ready"}
    BY <1>5 DEF Starts, TInv, ProcOK
  <2> QED
    BY <1>1, <1>2, <1>3, <1>4, <2>1, StepsAside
<1>6. CASE Opens(p) \/ HostBegins(p)
  <2>1. proc[p] \in Live
    BY <1>6, AtWork DEF TInv, Opens, HostBegins, At, Alive
  <2>2. x.pc \in {"ready", "begun"}
    BY <1>6, <2>1 DEF Opens, HostBegins, Goes, TInv, ProcOK, Live
  <2> QED
    BY <1>1, <1>2, <1>3, <1>4, <2>2, StepsAside
<1>7. ASSUME NEW how, Exits(p, how) PROVE DInv'
  <2>1. x.pc = "exited" /\ ~Alive(p)'
    BY <1>7 DEF Exits, Gone, TInv, ProcOK, Alive
  <2> QED
    BY <1>1, <1>2, <1>4, <2>1, StepsAside
<1>8. CASE TimesOut(p) \/ Shows(p) \/ ReturnsEarly(p) \/ Leaves(p) \/ Killed(p)
  BY <1>7, <1>8 DEF TimesOut, Shows, ReturnsEarly, Leaves, Killed
<1>9. CASE Prepares(p)
  <2>1. CASE Logs(p, "start", "begun")
    <3>1. x.pc = "begun"
      <4>1. Alive(p)
        BY <1>9 DEF Prepares, At, Alive
      <4>2. \E y \in Live : proc' = [proc EXCEPT ![p] = y] /\ y.pc = "begun"
        BY <2>1, <4>1, LogsOne DEF TInv
      <4> QED
        BY <4>2 DEF TInv, ProcOK
    <3> QED
      BY <1>1, <1>2, <1>3, <1>4, <3>1, StepsAside
  <2> QED
    BY <1>7, <1>9, <2>1 DEF Prepares
<1>10. CASE BacksOrRestores(p)
  <2>1. proc[p] \in Live /\ proc[p].cmd \in {"backup", "restore"}
    BY <1>10, AtWork DEF TInv, BacksOrRestores, At, Alive
  <2>2. x.pc = "ending" /\ x.cmd = proc[p].cmd
    BY <1>10, <2>1 DEF BacksOrRestores, TInv, ProcOK, Live
  <2>3. CopyOK(rows, x) /\ FoundOK(db, x)
    BY <2>1, <2>2 DEF CopyOK, FoundOK, Migrating
  <2> QED
    BY <1>1, <1>2, <2>3, StepsAside
<1>11. CASE Ends(p)
  <2>1. /\ Alive(p) /\ proc[p].pc = "ending" /\ proc[p].outcome \in {"success", "failure"}
        /\ CopyOK(rows, proc[p])
    BY <1>11, AtWork DEF TInv, DInv, Ends, At, Alive, StageOK
  <2>2. \E y \in Live : /\ proc' = [proc EXCEPT ![p] = y] /\ y.pc = "leaving" /\ y.cmd = proc[p].cmd
                        /\ y.target = proc[p].target /\ y.outcome = proc[p].outcome /\ y.misled = proc[p].misled
    BY <1>11, <2>1, LogsOne DEF TInv, Ends
  <2>3. /\ x.pc = "leaving" /\ x.cmd = proc[p].cmd
        /\ x.target = proc[p].target /\ x.outcome = proc[p].outcome /\ x.misled = proc[p].misled
    BY <2>2 DEF TInv, ProcOK
  <2>4. CopyOK(rows, x)
    BY <2>1, <2>3 DEF CopyOK
  <2> QED
    BY <1>1, <1>2, <1>3, <2>3, <2>4, StepsAside
<1> QED
  BY <1>5, <1>6, <1>8, <1>9, <1>10, <1>11

LEMMA DeletionDelivers ==
  ASSUME TInv, DInv, GCDeletes
  PROVE  DInv'
<1>1. FileOK(db) /\ UNCHANGED <<proc, rows>>
  BY DEF TInv, StoreOK, GCDeletes
<1>2. \A op : HasPartition(db', op, "p") =>
        HasPartition(db, op, "p") /\ GetPartition(db', op, "p") = GetPartition(db, op, "p")
  BY <1>1, DeletesOne DEF GCDeletes, HasPartition, GetPartition
<1>3. CkptsOK(db', rows')
  BY <1>1, <1>2 DEF DInv, CkptsOK
<1>4. \A x : FoundOK(db, x) => FoundOK(db', x)
  BY <1>2 DEF FoundOK
<1> QED
  BY <1>1, <1>3, <1>4 DEF DInv, Alive

LEMMA StepDelivers ==
  ASSUME PlainNames
  PROVE  TInv /\ DInv /\ [Next]_vars => DInv'
<1> SUFFICES ASSUME TInv, DInv, [Next]_vars PROVE DInv'
  OBVIOUS
<1>1. ASSUME NEW p \in Pids, Starts(p) \/ Step(p) \/ Killed(p) PROVE DInv'
  BY <1>1, BeginsDelivers, CopiesDelivers, SavesDelivers, FinishesDelivers, HostEndsDelivers,
     OtherStepsDeliver DEF Step
<1>2. CASE GCDeletes
  BY <1>2, DeletionDelivers
<1>3. ASSUME UNCHANGED <<proc, db, rows>> PROVE DInv'
  BY <1>3 DEF DInv, Alive
<1> QED
  BY <1>1, <1>2, <1>3 DEF Next, GCLists, GCReads, GCEnds, Ticks, vars

\* In a store whose operations' names are apart, a checkpoint that is not wrong counts rows
\* that are in its target, and a migration that was not misled has left none out.
THEOREM DeliveryInvariance ==
  ASSUME PlainNames
  PROVE  Spec => []DInv
<1>1. Init => DInv
  BY InitDelivers
<1>2. TInv /\ DInv /\ [Next]_vars => DInv'
  BY StepDelivers
<1> QED
  BY <1>1, <1>2, CommandsInvariance, PTL DEF Spec

\* A migration that ends with success has the whole table in its target, unless it was
\* misled by a checkpoint of another target or a rounded one. It needs the operations'
\* names to be apart.
THEOREM SuccessDelivered ==
  ASSUME PlainNames
  PROVE  Spec => []SuccessIsDelivered
<1>1. TInv /\ DInv => SuccessIsDelivered
  <2> SUFFICES ASSUME TInv, DInv, NEW p \in Pids, At(p, "ending"), proc[p].target # None,
                      proc[p].outcome = "success", ~proc[p].misled
               PROVE  rows[proc[p].target] = 1..LastRow
    BY DEF SuccessIsDelivered, TInv, ProcOK, ProcessOK, Live, Dead, At
  <2>1. proc[p].cmd \in Migrating
    BY AtWork DEF TInv, At, Alive, StageOK
  <2> QED
    BY <2>1 DEF DInv, CopyOK, At
<1> QED
  BY <1>1, CommandsInvariance, DeliveryInvariance, PTL

-----------------------------------------------------------------------------
(* What GC deletes.                                                        *)

LEMMA InitCollects == Init => GInv
BY DEF Init, GInv, AtRest, None

LEMMA StepCollects == TInv /\ GInv /\ [Next]_vars => GInv'
<1> SUFFICES ASSUME TInv, GInv, [Next]_vars PROVE GInv'
  OBVIOUS
<1>1. /\ now \in Nat /\ Retention \in Nat /\ FileOK(db) /\ gc \in Collections
      /\ gc.pc # None => gc.cutoff \in Int
  BY CommandsAssumption DEF TInv, StoreOK, Collections, AtRest
<1>2. ASSUME gc' = gc \/ gc' = AtRest, now' = now, DOMAIN db.meta \subseteq DOMAIN db'.meta PROVE GInv'
  BY <1>2 DEF GInv, AtRest, None
<1>3. ASSUME NEW p \in Pids, Starts(p) \/ Step(p) \/ Killed(p) PROVE GInv'
  <2>1. now' = now /\ (gc' = gc \/ gc' = AtRest)
    BY <1>3 DEF Step, Starts, Opens, TimesOut, Shows, Prepares, ReturnsEarly, BacksOrRestores, Begins, Copies,
                Saves, Finishes, Ends, Leaves, HostBegins, HostEnds, Killed, Exits
  <2>2. CASE HostBegins(p)
    <3>1. proc[p].op \in HostOps
      BY <2>2, HostStages
    <3>2. DOMAIN db.meta \subseteq DOMAIN db'.meta
      BY <1>1, <2>2, <3>1, SavesMeta DEF HostBegins
    <3> QED
      BY <1>2, <2>1, <3>2
  <2>3. CASE HostEnds(p)
    <3>1. db'.meta = db.meta
      <4>1. CASE HasPartition(db, proc[p].op, "p")
        <5>1. PICK cp \in Ckpts : db' = SavePartition(db, proc[p].op, cp)
          BY <2>3, <4>1, HostMarks
        <5>2. proc[p].op \in Ops
          BY <2>3, HostStages DEF Ops
        <5> QED
          BY <1>1, <5>1, <5>2, SavesOne
      <4>2. CASE ~HasPartition(db, proc[p].op, "p")
        BY <2>3, <4>2 DEF HostEnds, SaveStatus
      <4> QED
        BY <4>1, <4>2
    <3> QED
      BY <1>2, <2>1, <3>1
  <2>4. CASE Saves(p)
    <3>1. Progress(p) \in Ckpts /\ proc[p].op \in Ops
      BY <2>4, ProgressIsCkpt DEF Saves
    <3>2. db'.meta = db.meta
      BY <1>1, <2>4, <3>1, SavesOne DEF Saves
    <3> QED
      BY <1>2, <2>1, <3>2
  <2>5. CASE db' = db
    BY <1>2, <2>1, <2>5
  <2> QED
    BY <1>3, <2>2, <2>3, <2>4, <2>5 DEF Step, Starts, Opens, TimesOut, Shows, Prepares, ReturnsEarly,
       BacksOrRestores, Begins, Copies, Finishes, Ends, Leaves, Killed
<1>4. ASSUME NEW p \in Pids, GCLists(p) PROVE GInv'
  <2>1. gc'.pc = "next" /\ gc'.cutoff = now - Retention /\ now' = now
    BY <1>4 DEF GCLists
  <2> QED
    BY <1>1, <2>1 DEF GInv
<1>5. CASE GCReads
  <2>1. gc \in [pc : {"next"}, ids : SUBSET HostOps, cutoff : Int]
    BY <1>1, <1>5 DEF GCReads, Collections, AtRest, None
  <2>2. PICK id \in gc.ids :
          gc' = IF id \in DOMAIN db.meta /\ db.meta[id] < gc.cutoff
                THEN [pc |-> "stale", ids |-> gc.ids \ {id}, cutoff |-> gc.cutoff, id |-> id, read |-> db.meta[id]]
                ELSE [gc EXCEPT !.ids = @ \ {id}]
    BY <1>5 DEF GCReads
  <2>3. gc.pc # None
    BY <2>1 DEF None
  <2>4. gc'.cutoff = gc.cutoff
        /\ (gc'.pc = "stale" => gc'.id \in DOMAIN db.meta /\ gc'.read < gc.cutoff)
    BY <2>1, <2>2
  <2> QED
    BY <1>5, <2>3, <2>4 DEF GInv, GCReads
<1>6. CASE GCDeletes
  <2>1. gc'.pc = "next" /\ gc'.cutoff = gc.cutoff /\ gc.pc # None /\ now' = now
    BY <1>6 DEF GCDeletes, None
  <2> QED
    BY <2>1 DEF GInv
<1>7. CASE GCEnds
  BY <1>7 DEF GCEnds, GInv, AtRest, None
<1>8. CASE Ticks
  <2>1. now' = now + 1 /\ gc' = gc /\ db' = db
    BY <1>8 DEF Ticks
  <2> QED
    BY <1>1, <2>1 DEF GInv
<1>9. CASE UNCHANGED vars
  BY <1>2, <1>9 DEF vars
<1> QED
  BY <1>3, <1>4, <1>5, <1>6, <1>7, <1>8, <1>9 DEF Next

\* No other step takes a checkpoint away.
LEMMA WhoDeletes ==
  ASSUME TInv, Next, NEW k \in DOMAIN db.partitions, k \notin DOMAIN db'.partitions
  PROVE  GCDeletes
<1>1. FileOK(db) /\ now \in Nat /\ db' # db
  BY DEF TInv, StoreOK
<1>2. ASSUME NEW p \in Pids, HostBegins(p) PROVE FALSE
  <2>1. proc[p].op \in HostOps
    BY <1>2, HostStages
  <2> QED
    BY <1>1, <1>2, <2>1, SavesMeta DEF HostBegins
<1>3. ASSUME NEW p \in Pids, HostEnds(p) PROVE FALSE
  <2>1. CASE HasPartition(db, proc[p].op, "p")
    <3>1. PICK cp \in Ckpts : db' = SavePartition(db, proc[p].op, cp)
      BY <1>3, <2>1, HostMarks
    <3>2. proc[p].op \in Ops
      BY <1>3, HostStages DEF Ops
    <3> QED
      BY <1>1, <3>1, <3>2, SavesOne
  <2>2. CASE ~HasPartition(db, proc[p].op, "p")
    BY <1>1, <1>3, <2>2 DEF HostEnds, SaveStatus
  <2> QED
    BY <2>1, <2>2
<1>4. ASSUME NEW p \in Pids, Saves(p) PROVE FALSE
  <2>1. Progress(p) \in Ckpts /\ proc[p].op \in Ops
    BY <1>4, ProgressIsCkpt DEF Saves
  <2> QED
    BY <1>1, <1>4, <2>1, SavesOne DEF Saves
<1> QED
  BY <1>1, <1>2, <1>3, <1>4 DEF Next, Step, Starts, Opens, TimesOut, Shows, Prepares, ReturnsEarly,
     BacksOrRestores, Begins, Copies, Finishes, Ends, Leaves, Killed, GCLists, GCReads, GCEnds, Ticks

\* When GC deletes an operation's checkpoints, the operation started longer ago than the
\* retention, or was started again since GC read when: never those of a younger one,
\* even one whose name begins like the old one's.
THEOREM OnlyStaleIsCollected ==
  ASSUME PlainNames
  PROVE  Spec => CollectsOnlyStale
<1>1. TInv /\ GInv /\ [Next]_vars =>
  [\A k \in DOMAIN db.partitions \ DOMAIN db'.partitions :
       \E op \in DOMAIN db.meta :
         /\ k = partitionKey(op, "p")
         /\ db.meta[op] < now - Retention \/ (op = gc.id /\ db.meta[op] # gc.read)]_vars
  <2> SUFFICES ASSUME TInv, GInv, Next, NEW k \in DOMAIN db.partitions, k \notin DOMAIN db'.partitions
               PROVE  \E op \in DOMAIN db.meta :
                        /\ k = partitionKey(op, "p")
                        /\ db.meta[op] < now - Retention \/ (op = gc.id /\ db.meta[op] # gc.read)
    OBVIOUS
  <2>1. FileOK(db) /\ now \in Nat /\ Retention \in Nat
    BY CommandsAssumption DEF TInv, StoreOK
  <2>2. GCDeletes
    BY WhoDeletes
  <2>3. /\ gc \in [pc : {"stale"}, ids : SUBSET HostOps, cutoff : Int, id : HostOps, read : Int]
        /\ gc.pc = "stale"
    BY <2>2 DEF GCDeletes, TInv, Collections, AtRest, None
  <2>4. gc.id \in DOMAIN db.meta /\ gc.read < gc.cutoff /\ gc.cutoff <= now - Retention
    BY <2>3 DEF GInv, None
  <2>5. k \in KeysUnder(db, gc.id)
    BY <2>1, <2>2, DeletesOne DEF GCDeletes
  <2>6. PICK op \in Ops : k = partitionKey(op, "p")
    BY <2>1 DEF FileOK, Keys
  <2>7. gc.id = op
    <3>1. gc.id \in Ops /\ IsPrefix(partitionKeyPrefix(gc.id), partitionKey(op, "p"))
      BY <2>3, <2>5, <2>6 DEF Ops, KeysUnder
    <3> QED
      BY <3>1, NamesAreSequences, NoSeparator, PrefixFree
  <2>8. db.meta[gc.id] = gc.read => db.meta[gc.id] < now - Retention
    BY <2>1, <2>3, <2>4
  <2> QED
    BY <2>4, <2>6, <2>7, <2>8
<1> QED
  BY <1>1, InitCollects, StepCollects, CommandsInvariance, PTL DEF CollectsOnlyStale, Spec
=============================================================================
