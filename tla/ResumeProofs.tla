---------------------------- MODULE ResumeProofs ----------------------------
(***************************************************************************)
(* Proofs about Resume: what holds of any number of calls, interrupted     *)
(* anywhere, of an operation whose source yields its rows in order and     *)
(* whose batches go through one transformer and one writer. Records are    *)
(* then in their partitions' order wherever they are, from the table to    *)
(* the writer's batch, and no checkpoint passes one that could be lost.    *)
(***************************************************************************)
EXTENDS Resume, PipelineProofs

-----------------------------------------------------------------------------
(* Turns. K holds records that are safe, A those that are ahead, F is a    *)
(* floor: an offset for each partition.                                    *)

\* The rows of r's partition before r.
Before(r) == {r[1]} \X (1..(r[2] - 1))

\* It is r's turn: the rows before it are ahead or safe, those of its partition that are
\* ahead come before it, and it is not below the floor.
Turn(K, A, F, r) ==
  /\ Before(r) \subseteq K \union A
  /\ \A x \in A : x[1] = r[1] => x[2] < r[2]
  /\ F[r[1]] <= r[2]

First(s, n) == {s[j] : j \in 1..n}

\* The records of s are in turn behind those of A; and those of a sequence of batches.
InTurn(K, A, F, s) == \A i \in 1..Len(s) : Turn(K, A \union First(s, i - 1), F, s[i])
Union(bs) == UNION {Range(b) : b \in bs}
AllInTurn(K, A, F, bs) == \A i \in 1..Len(bs) : InTurn(K, A \union Union(First(bs, i - 1)), F, bs[i])

\* K, A and F may become L, B and G: nothing is forgotten, and what gets ahead, or
\* becomes the floor, of a partition in P was ahead.
Shifts(P, K, A, F, L, B, G) ==
  /\ K \union A \subseteq L \union B
  /\ \A x \in B : x[1] \in P => x \in A
  /\ \A p \in P : G[p] = F[p] \/ (G[p] \in Nat /\ \E x \in A : x[1] = p /\ G[p] = x[2])

\* More records ahead, or safe, on both sides make no difference.
LEMMA ShiftsMore ==
  ASSUME NEW P, NEW K, NEW A, NEW F, NEW L, NEW B, NEW G, NEW X, Shifts(P, K, A, F, L, B, G)
  PROVE  Shifts(P, K, A \union X, F, L, B \union X, G) /\ Shifts(P, K \union X, A, F, L \union X, B, G)
BY DEF Shifts

\* After such a shift a record is still in turn,
LEMMA TurnShifts ==
  ASSUME NEW P, NEW K, NEW A, NEW F, NEW L, NEW B, NEW G, Shifts(P, K, A, F, L, B, G),
         NEW r, r[1] \in P, r[2] \in Nat, Turn(K, A, F, r)
  PROVE  Turn(L, B, G, r)
<1>1. Before(r) \subseteq L \union B
  BY DEF Shifts, Turn
<1>2. \A x \in B : x[1] = r[1] => x[2] < r[2]
  BY DEF Shifts, Turn
<1>3. G[r[1]] <= r[2]
  <2>1. CASE G[r[1]] = F[r[1]]
    BY <2>1 DEF Turn
  <2>2. ASSUME NEW x \in A, x[1] = r[1], G[r[1]] = x[2], G[r[1]] \in Nat PROVE G[r[1]] <= r[2]
    <3>1. x[2] < r[2]
      BY <2>2 DEF Turn
    <3> QED BY <2>2, <3>1
  <2> QED BY <2>1, <2>2 DEF Shifts
<1> QED BY <1>1, <1>2, <1>3 DEF Turn

\* and so are a sequence of them,
LEMMA InTurnShifts ==
  ASSUME NEW P, NEW K, NEW A, NEW F, NEW L, NEW B, NEW G, Shifts(P, K, A, F, L, B, G),
         NEW s \in Stream, \A r \in Range(s) : r[1] \in P, InTurn(K, A, F, s)
  PROVE  InTurn(L, B, G, s)
<1> SUFFICES ASSUME NEW i \in 1..Len(s) PROVE Turn(L, B \union First(s, i - 1), G, s[i])
  BY DEF InTurn
<1>1. Turn(K, A \union First(s, i - 1), F, s[i])
  BY DEF InTurn
<1>2. Shifts(P, K, A \union First(s, i - 1), F, L, B \union First(s, i - 1), G)
  BY ShiftsMore
<1>3. s[i] \in Records /\ s[i][1] \in P
  BY RangeMember, ElementOfSeq DEF Stream
<1>4. s[i][2] \in Nat
  BY <1>3 DEF Records, Offsets
<1> QED BY <1>1, <1>2, <1>3, <1>4, TurnShifts

\* and a sequence of batches.
LEMMA AllInTurnShifts ==
  ASSUME NEW K, NEW A, NEW F, NEW L, NEW B, NEW G, Shifts(Partitions, K, A, F, L, B, G),
         NEW bs \in Seq(Batches), AllInTurn(K, A, F, bs)
  PROVE  AllInTurn(L, B, G, bs)
<1> SUFFICES ASSUME NEW i \in 1..Len(bs)
             PROVE  InTurn(L, B \union Union(First(bs, i - 1)), G, bs[i])
  BY DEF AllInTurn
<1>1. InTurn(K, A \union Union(First(bs, i - 1)), F, bs[i])
  BY DEF AllInTurn
<1>2. Shifts(Partitions, K, A \union Union(First(bs, i - 1)), F, L, B \union Union(First(bs, i - 1)), G)
  BY ShiftsMore
<1>3. bs[i] \in Stream
  BY ElementOfSeq DEF Batches
<1>4. \A r \in Range(bs[i]) : r[1] \in Partitions
  BY <1>3, RangeMember DEF Stream, Records
<1> QED BY <1>1, <1>2, <1>3, <1>4, InTurnShifts

\* The first items of a sequence as it grows and shrinks.
LEMMA FirstOf ==
  ASSUME NEW S, NEW s \in Seq(S)
  PROVE  /\ First(s, 0) = {} /\ First(s, Len(s)) = Range(s)
         /\ \A e \in S : \A n \in 0..Len(s) : First(Append(s, e), n) = First(s, n)
         /\ s # <<>> => \A n \in 0..(Len(s) - 1) : First(s, n + 1) = {Head(s)} \union First(Tail(s), n)
<1>1. Len(s) \in Nat /\ DOMAIN s = 1..Len(s)
  BY LenProperties
<1>2. First(s, 0) = {} /\ First(s, Len(s)) = Range(s)
  BY <1>1 DEF First, Range
<1>3. ASSUME NEW e \in S, NEW n \in 0..Len(s) PROVE First(Append(s, e), n) = First(s, n)
  <2>1. \A j \in 1..n : Append(s, e)[j] = s[j]
    BY <1>1, AppendProperties
  <2> QED BY <2>1 DEF First
<1>4. ASSUME s # <<>>, NEW n \in 0..(Len(s) - 1)
      PROVE  First(s, n + 1) = {Head(s)} \union First(Tail(s), n)
  <2>1. /\ Head(s) = s[1] /\ \A j \in 1..(Len(s) - 1) : Tail(s)[j] = s[j + 1]
        /\ Len(s) \in Nat \ {0}
    BY <1>4, HeadTailProperties, EmptySeq
  <2>2. ASSUME NEW x \in First(s, n + 1) PROVE x \in {Head(s)} \union First(Tail(s), n)
    <3>1. PICK j \in 1..(n + 1) : x = s[j]
      BY DEF First
    <3>2. CASE j = 1
      BY <2>1, <3>1, <3>2
    <3>3. CASE j # 1
      <4>1. j - 1 \in 1..n /\ x = Tail(s)[j - 1]
        BY <2>1, <3>1, <3>3
      <4> QED BY <4>1 DEF First
    <3> QED BY <3>2, <3>3
  <2>3. ASSUME NEW x \in First(Tail(s), n) PROVE x \in First(s, n + 1)
    <3>1. PICK j \in 1..n : x = Tail(s)[j]
      BY DEF First
    <3>2. j + 1 \in 1..(n + 1) /\ x = s[j + 1]
      BY <2>1, <3>1
    <3> QED BY <3>2 DEF First
  <2>4. Head(s) \in First(s, n + 1)
    <3>1. 1 \in 1..(n + 1)
      OBVIOUS
    <3> QED BY <2>1, <3>1 DEF First
  <2> QED BY <2>2, <2>3, <2>4
<1> QED BY <1>2, <1>3, <1>4

\* An empty channel or batch is in turn.
LEMMA EmptyInTurn ==
  ASSUME NEW K, NEW A, NEW F PROVE InTurn(K, A, F, <<>>) /\ AllInTurn(K, A, F, <<>>)
BY DEF InTurn, AllInTurn

\* A record may be sent if it is its turn behind the records of the channel.
LEMMA InTurnAppend ==
  ASSUME NEW K, NEW A, NEW F, NEW s \in Stream, NEW e \in Records,
         InTurn(K, A, F, s), Turn(K, A \union Range(s), F, e)
  PROVE  InTurn(K, A, F, Append(s, e))
<1>1. /\ Len(s) \in Nat /\ Len(Append(s, e)) = Len(s) + 1
      /\ \A i \in 1..Len(s) : Append(s, e)[i] = s[i]
      /\ Append(s, e)[Len(s) + 1] = e
  BY LenProperties, AppendProperties DEF Stream
<1>2. First(s, Len(s)) = Range(s) /\ \A n \in 0..Len(s) : First(Append(s, e), n) = First(s, n)
  BY FirstOf DEF Stream
<1>3. ASSUME NEW i \in 1..Len(s)
      PROVE  Turn(K, A \union First(Append(s, e), i - 1), F, Append(s, e)[i])
  <2>1. i - 1 \in 0..Len(s)
    BY <1>1
  <2> QED BY <1>1, <1>2, <2>1 DEF InTurn
<1>4. Turn(K, A \union First(Append(s, e), (Len(s) + 1) - 1), F, Append(s, e)[Len(s) + 1])
  <2>1. (Len(s) + 1) - 1 = Len(s) /\ Len(s) \in 0..Len(s)
    BY <1>1
  <2> QED BY <1>1, <1>2, <2>1
<1>5. \A i \in 1..Len(Append(s, e)) : i \in 1..Len(s) \/ i = Len(s) + 1
  BY <1>1
<1> QED BY <1>3, <1>4, <1>5 DEF InTurn

\* The record received is in turn, and the others are behind it.
LEMMA InTurnReceive ==
  ASSUME NEW K, NEW A, NEW F, NEW s \in Stream, s # <<>>, InTurn(K, A, F, s)
  PROVE  Turn(K, A, F, Head(s)) /\ InTurn(K, A \union {Head(s)}, F, Tail(s))
<1>1. /\ Len(s) \in Nat \ {0} /\ Head(s) = s[1] /\ Len(Tail(s)) = Len(s) - 1
      /\ \A i \in 1..(Len(s) - 1) : Tail(s)[i] = s[i + 1]
  BY HeadTailProperties, EmptySeq DEF Stream
<1>2. First(s, 0) = {} /\ \A n \in 0..(Len(s) - 1) : First(s, n + 1) = {Head(s)} \union First(Tail(s), n)
  BY FirstOf DEF Stream
<1>3. Turn(K, A, F, Head(s))
  <2>1. 1 \in 1..Len(s) /\ 1 - 1 = 0
    BY <1>1
  <2>2. A \union First(s, 1 - 1) = A
    BY <1>2, <2>1
  <2> QED BY <1>1, <2>1, <2>2 DEF InTurn
<1>4. ASSUME NEW i \in 1..Len(Tail(s))
      PROVE  Turn(K, (A \union {Head(s)}) \union First(Tail(s), i - 1), F, Tail(s)[i])
  <2>1. i + 1 \in 1..Len(s) /\ i - 1 \in 0..(Len(s) - 1) /\ (i - 1) + 1 = (i + 1) - 1
    BY <1>1
  <2>2. First(s, (i + 1) - 1) = {Head(s)} \union First(Tail(s), i - 1)
    BY <1>2, <2>1
  <2>3. Turn(K, A \union First(s, (i + 1) - 1), F, s[i + 1])
    BY <2>1 DEF InTurn
  <2>4. A \union ({Head(s)} \union First(Tail(s), i - 1)) = (A \union {Head(s)}) \union First(Tail(s), i - 1)
    OBVIOUS
  <2>5. Tail(s)[i] = s[i + 1]
    BY <1>1
  <2> QED BY <2>2, <2>3, <2>4, <2>5
<1> QED BY <1>3, <1>4 DEF InTurn
\* One record is in turn if it is its turn.
LEMMA OneInTurn ==
  ASSUME NEW K, NEW A, NEW F, NEW e
  PROVE  InTurn(K, A, F, <<e>>) <=> Turn(K, A, F, e)
<1>1. Len(<<e>>) = 1 /\ <<e>>[1] = e
  OBVIOUS
<1>2. First(<<e>>, 1 - 1) = {}
  BY DEF First
<1>3. A \union First(<<e>>, 1 - 1) = A
  BY <1>2
<1>4. \A i \in 1..Len(<<e>>) : i = 1
  BY <1>1
<1>5. 1 \in 1..Len(<<e>>)
  BY <1>1
<1> QED BY <1>1, <1>3, <1>4, <1>5, Zenon DEF InTurn

\* What a reader has in hand is one record.
LEMMA OneItem ==
  ASSUME NEW S, NEW s \in Seq(S), Len(s) = 1
  PROVE  s = <<s[1]>> /\ s[1] \in S /\ Range(s) = {s[1]}
<1>1. s[1] \in S
  BY ElementOfSeq
<1>2. s = <<s[1]>>
  BY SeqEqual
<1> QED BY <1>1, <1>2, Singleton

\* What a sequence of batches holds, as it grows and shrinks.
LEMMA UnionOf ==
  /\ Union({}) = {}
  /\ \A b, C : Union({b} \union C) = Range(b) \union Union(C)
BY DEF Union

\* A batch may be sent if its records are in turn behind those of the channel.
LEMMA AllInTurnAppend ==
  ASSUME NEW K, NEW A, NEW F, NEW bs \in Seq(Batches), NEW b \in Batches,
         AllInTurn(K, A, F, bs), InTurn(K, A \union Union(Range(bs)), F, b)
  PROVE  AllInTurn(K, A, F, Append(bs, b))
<1>1. /\ Len(bs) \in Nat /\ Len(Append(bs, b)) = Len(bs) + 1
      /\ \A i \in 1..Len(bs) : Append(bs, b)[i] = bs[i]
      /\ Append(bs, b)[Len(bs) + 1] = b
  BY LenProperties, AppendProperties
<1>2. First(bs, Len(bs)) = Range(bs) /\ \A n \in 0..Len(bs) : First(Append(bs, b), n) = First(bs, n)
  BY FirstOf
<1>3. ASSUME NEW i \in 1..Len(bs)
      PROVE  InTurn(K, A \union Union(First(Append(bs, b), i - 1)), F, Append(bs, b)[i])
  <2>1. i - 1 \in 0..Len(bs)
    BY <1>1
  <2> QED BY <1>1, <1>2, <2>1 DEF AllInTurn
<1>4. InTurn(K, A \union Union(First(Append(bs, b), (Len(bs) + 1) - 1)), F, Append(bs, b)[Len(bs) + 1])
  <2>1. (Len(bs) + 1) - 1 = Len(bs) /\ Len(bs) \in 0..Len(bs)
    BY <1>1
  <2> QED BY <1>1, <1>2, <2>1
<1>5. \A i \in 1..Len(Append(bs, b)) : i \in 1..Len(bs) \/ i = Len(bs) + 1
  BY <1>1
<1> QED BY <1>3, <1>4, <1>5 DEF AllInTurn

\* The batch received is in turn, and the others are behind it.
LEMMA AllInTurnReceive ==
  ASSUME NEW K, NEW A, NEW F, NEW bs \in Seq(Batches), bs # <<>>, AllInTurn(K, A, F, bs)
  PROVE  InTurn(K, A, F, Head(bs)) /\ AllInTurn(K, A \union Range(Head(bs)), F, Tail(bs))
<1>1. /\ Len(bs) \in Nat \ {0} /\ Head(bs) = bs[1] /\ Len(Tail(bs)) = Len(bs) - 1
      /\ \A i \in 1..(Len(bs) - 1) : Tail(bs)[i] = bs[i + 1]
  BY HeadTailProperties, EmptySeq
<1>2. First(bs, 0) = {} /\ \A n \in 0..(Len(bs) - 1) : First(bs, n + 1) = {Head(bs)} \union First(Tail(bs), n)
  BY FirstOf
<1>3. InTurn(K, A, F, Head(bs))
  <2>1. 1 \in 1..Len(bs) /\ 1 - 1 = 0
    BY <1>1
  <2>2. A \union Union(First(bs, 1 - 1)) = A
    BY <1>2, <2>1, UnionOf
  <2> QED BY <1>1, <2>1, <2>2 DEF AllInTurn
<1>4. ASSUME NEW i \in 1..Len(Tail(bs))
      PROVE  InTurn(K, (A \union Range(Head(bs))) \union Union(First(Tail(bs), i - 1)), F, Tail(bs)[i])
  <2>1. i + 1 \in 1..Len(bs) /\ i - 1 \in 0..(Len(bs) - 1) /\ (i - 1) + 1 = (i + 1) - 1
    BY <1>1
  <2>2. First(bs, (i + 1) - 1) = {Head(bs)} \union First(Tail(bs), i - 1)
    BY <1>2, <2>1
  <2>3. InTurn(K, A \union Union(First(bs, (i + 1) - 1)), F, bs[i + 1])
    BY <2>1 DEF AllInTurn
  <2>4. A \union Union({Head(bs)} \union First(Tail(bs), i - 1))
          = (A \union Range(Head(bs))) \union Union(First(Tail(bs), i - 1))
    <3>1. Union({Head(bs)} \union First(Tail(bs), i - 1)) = Range(Head(bs)) \union Union(First(Tail(bs), i - 1))
      BY UnionOf, Zenon
    <3> QED BY <3>1
  <2>5. Tail(bs)[i] = bs[i + 1]
    BY <1>1
  <2> QED BY <2>2, <2>3, <2>4, <2>5
<1> QED BY <1>3, <1>4 DEF AllInTurn

\* What a record in turn says of itself and of those ahead of it.
LEMMA InTurnMeans ==
  ASSUME NEW K, NEW A, NEW F, NEW s \in Stream, InTurn(K, A, F, s), NEW r \in Range(s)
  PROVE  /\ Before(r) \subseteq K \union A \union Range(s)
         /\ \A x \in A : x[1] = r[1] => x[2] < r[2]
         /\ F[r[1]] <= r[2]
<1>1. PICK i \in 1..Len(s) : r = s[i]
  BY RangeMember DEF Stream
<1>2. Turn(K, A \union First(s, i - 1), F, r)
  BY <1>1 DEF InTurn
<1>3. First(s, i - 1) \subseteq Range(s)
  <2>1. ASSUME NEW j \in 1..(i - 1) PROVE s[j] \in Range(s)
    <3>1. j \in 1..Len(s)
      BY LenProperties DEF Stream
    <3> QED BY <3>1, RangeMember DEF Stream
  <2> QED BY <2>1 DEF First
<1> QED BY <1>2, <1>3 DEF Turn

-----------------------------------------------------------------------------
(* The inductive invariant.                                                *)

\* What the theorems suppose: the source yields its rows in order, the dead-letter file
\* takes what it is given, and there are one transformer and one writer.
Sequential ==
  /\ OrderedSource /\ ~DLQMayFail
  /\ \E t : Transformers = {t}
  /\ \E w : Writers = {w}

\* Records that a process that dies does not take with it.
Kept == target \union dlq

\* LastCommitted, if the call has asked for the rows from there on.
NoFloor == [p \in Partitions |-> 0]
Floor == IF listed THEN [p \in Partitions |-> cp[p].last] ELSE NoFloor

\* The records ahead of those in a transformer's batch, in recordCh, in runReader's
\* hand, in partCh and in the table.
AheadOfFilling == AtWriters \union Union(Range(batchCh))
AheadOfRecords == AheadOfFilling \union UNION {Range(batch[t]) : t \in Transformers}
AheadOfHeld == AheadOfRecords \union Range(recordCh)
AheadOfPart(p) == AheadOfHeld \union Range(held[p])
AheadOfTable(p) == AheadOfPart(p) \union Range(partCh[p])

\* w has, or will have, rows of p in the target that no checkpoint covers yet.
Owes(w, p) == wr[w] \in {"save", "put"} => p \in todo[w]

\* The writer's batch is in turn, and what it has still to save is not below the floor.
WorkInTurn ==
  \A w \in Writers : /\ InTurn(Kept, {}, NoFloor, work[w])
                     /\ \A r \in Range(work[w]) : Owes(w, r[1]) => Floor[r[1]] <= r[2]

BatchesInTurn == AllInTurn(Kept, AtWriters, Floor, batchCh)

\* Until the transformer returns, and perhaps drops its batch, what is behind it is in turn;
Flowing == \A t \in Transformers : tf[t] # "done"
RecordsInTurn ==
  Flowing => /\ \A t \in Transformers : InTurn(Kept, AheadOfFilling, Floor, batch[t])
             /\ InTurn(Kept, AheadOfRecords, Floor, recordCh)

\* and until a reader gives up, what is behind it.
ReaderInTurn(p) ==
  Flowing /\ reader[p] \in {"range", "send"} =>
    /\ InTurn(Kept, AheadOfHeld, Floor, held[p])
    /\ InTurn(Kept, AheadOfPart(p), Floor, partCh[p])
    /\ \A o \in unread[p] : Turn(Kept \union ({p} \X unread[p]), AheadOfTable(p), Floor, <<p, o>>)
ReadersInTurn == \A p \in Partitions : ReaderInTurn(p)

\* A reader and its source have rows of their partition only.
OwnRows == \A p \in Partitions : Range(partCh[p]) \union Range(held[p]) \subseteq {p} \X Offsets

\* The dead-letter file has what was counted as failed; and no record is lost, but on the
\* way to an error: what has no place in the pipeline is safe.
FailedKept == failed \subseteq dlq
NoneLost == ~Giving => \A r \in Records : Placed(r) \/ r \in dlq

TurnsOK == OwnRows /\ WorkInTurn /\ BatchesInTurn /\ RecordsInTurn /\ ReadersInTurn
ResumeInv == Orderly /\ FailedKept /\ NoneLost /\ TurnsOK /\ CheckpointCovers
\* Ahead of what a transformer fills is the writer's batch; ahead of recordCh its own.
LEMMA OneOfEach ==
  ASSUME Sequential
  PROVE  /\ \A t \in Transformers : Transformers = {t} /\ AheadOfRecords = AheadOfFilling \union Range(batch[t])
         /\ \A w \in Writers : Writers = {w} /\ AtWriters = Range(work[w])
BY DEF Sequential, AheadOfRecords, AtWriters

\* The same, after a step.
LEMMA OneOfEachNext ==
  ASSUME Sequential
  PROVE  /\ \A t \in Transformers : AheadOfRecords' = AheadOfFilling' \union Range(batch'[t])
         /\ \A w \in Writers : AtWriters' = Range(work'[w])
BY DEF Sequential, AheadOfRecords, AtWriters

\* The records wherever they are, and the floor.
LEMMA FloorType == TypeOK => Floor \in [Partitions -> Nat] /\ NoFloor \in [Partitions -> Nat]
BY DEF TypeOK, OutcomeOK, Checkpoints, Floor, NoFloor

\* A step that moves no record, and by which neither the transformer nor a reader nor a
\* writer comes to hold any, leaves the turns as they were.
LEMMA QuietTurns ==
  ASSUME TurnsOK, UNCHANGED <<Kept, Floor, work, batchCh, batch, recordCh, held, partCh, unread>>,
         Flowing' => Flowing,
         \A p \in Partitions : reader'[p] \in {"range", "send"} => reader[p] \in {"range", "send"},
         \A w \in Writers, p \in Partitions : Owes(w, p)' => Owes(w, p),
         TypeOK
  PROVE  TurnsOK'
<1> USE DEF TurnsOK
<1>1. UNCHANGED <<AtWriters, AheadOfFilling, AheadOfRecords, AheadOfHeld>>
  BY DEF AtWriters, AheadOfFilling, AheadOfRecords, AheadOfHeld
<1>2. WorkInTurn'
  <2>1. ASSUME NEW w \in Writers, NEW r \in Range(work[w]), Owes(w, r[1])' PROVE Floor[r[1]] <= r[2]
    <3>1. r[1] \in Partitions
      BY RangeMember DEF TypeOK, WritersOK, Stream, Records
    <3> QED BY <2>1, <3>1 DEF WorkInTurn
  <2> QED BY <2>1 DEF WorkInTurn
<1>3. BatchesInTurn'
  BY <1>1 DEF BatchesInTurn
<1>4. RecordsInTurn'
  BY <1>1 DEF RecordsInTurn
<1>5. ReadersInTurn'
  <2>1. \A p \in Partitions : UNCHANGED <<AheadOfPart(p), AheadOfTable(p)>>
    BY <1>1 DEF AheadOfPart, AheadOfTable
  <2> QED BY <1>1, <2>1 DEF ReadersInTurn, ReaderInTurn
<1>6. OwnRows'
  BY DEF OwnRows
<1> QED BY <1>2, <1>3, <1>4, <1>5, <1>6

\* Turns behind recordCh do not change with what is ahead, as long as that is the same.
LEMMA ReadersStay ==
  ASSUME ReadersInTurn, UNCHANGED <<Kept, Floor, AheadOfHeld, held, partCh, unread, reader>>, Flowing' => Flowing
  PROVE  ReadersInTurn'
<1>1. \A p \in Partitions : UNCHANGED <<AheadOfPart(p), AheadOfTable(p)>>
  BY DEF AheadOfPart, AheadOfTable
<1> QED BY <1>1 DEF ReadersInTurn, ReaderInTurn

\* Nor do they if the other partitions' reader took a step, or what is ahead shifted.
LEMMA ReaderShifts ==
  ASSUME TypeOK, OwnRows, NEW p \in Partitions, ReaderInTurn(p),
         Shifts({p}, Kept, AheadOfHeld, Floor, Kept', AheadOfHeld', Floor'),
         held'[p] = held[p], partCh'[p] = partCh[p], unread'[p] = unread[p], reader'[p] = reader[p],
         Flowing' => Flowing
  PROVE  ReaderInTurn(p)'
<1> SUFFICES ASSUME Flowing, reader[p] \in {"range", "send"}
             PROVE  /\ InTurn(Kept', AheadOfHeld', Floor', held[p])
                    /\ InTurn(Kept', AheadOfPart(p)', Floor', partCh[p])
                    /\ \A o \in unread[p] :
                         Turn(Kept' \union ({p} \X unread[p]), AheadOfTable(p)', Floor', <<p, o>>)
  BY DEF ReaderInTurn
<1>1. /\ AheadOfPart(p)' = AheadOfHeld' \union Range(held[p])
      /\ AheadOfTable(p)' = AheadOfPart(p)' \union Range(partCh[p])
      /\ AheadOfPart(p) = AheadOfHeld \union Range(held[p])
      /\ AheadOfTable(p) = AheadOfPart(p) \union Range(partCh[p])
  BY DEF AheadOfPart, AheadOfTable
<1>2. Shifts({p}, Kept, AheadOfPart(p), Floor, Kept', AheadOfPart(p)', Floor')
  <2>1. Shifts({p}, Kept, AheadOfHeld \union Range(held[p]), Floor,
               Kept', AheadOfHeld' \union Range(held[p]), Floor')
    BY ShiftsMore, Zenon
  <2> QED BY <1>1, <2>1, Zenon
<1>3. Shifts({p}, Kept, AheadOfTable(p), Floor, Kept', AheadOfTable(p)', Floor')
  <2>1. Shifts({p}, Kept, AheadOfPart(p) \union Range(partCh[p]), Floor,
               Kept', AheadOfPart(p)' \union Range(partCh[p]), Floor')
    BY <1>2, ShiftsMore, Zenon
  <2> QED BY <1>1, <2>1, Zenon
<1>4. Shifts({p}, Kept \union ({p} \X unread[p]), AheadOfTable(p), Floor,
             Kept' \union ({p} \X unread[p]), AheadOfTable(p)', Floor')
  BY <1>3, ShiftsMore
<1>5. held[p] \in Stream /\ partCh[p] \in Stream
  BY DEF TypeOK, ReadersOK
<1>6. (\A r \in Range(held[p]) : r[1] \in {p}) /\ (\A r \in Range(partCh[p]) : r[1] \in {p})
  BY DEF OwnRows
<1>7. InTurn(Kept', AheadOfHeld', Floor', held[p])
  BY <1>5, <1>6, InTurnShifts DEF ReaderInTurn
<1>8. InTurn(Kept', AheadOfPart(p)', Floor', partCh[p])
  BY <1>2, <1>5, <1>6, InTurnShifts DEF ReaderInTurn
<1>9. ASSUME NEW o \in unread[p]
      PROVE  Turn(Kept' \union ({p} \X unread[p]), AheadOfTable(p)', Floor', <<p, o>>)
  <2>1. o \in Nat
    BY DEF TypeOK, ReadersOK, Offsets
  <2>2. Turn(Kept \union ({p} \X unread[p]), AheadOfTable(p), Floor, <<p, o>>)
    BY DEF ReaderInTurn
  <2>3. <<p, o>>[1] \in {p} /\ <<p, o>>[2] \in Nat
    BY <2>1
  <2> QED BY <1>4, <2>2, <2>3, TurnShifts
<1> QED BY <1>7, <1>8, <1>9
-----------------------------------------------------------------------------
(* The steps, one goroutine at a time.                                     *)

\* What a step of a reader or its source leaves alone.
LEMMA ReaderSideFrame ==
  ASSUME UNCHANGED <<wrVars, tfVars, batchCh, durable, listed>>
  PROVE  /\ UNCHANGED <<Kept, Floor, AtWriters, AheadOfFilling, AheadOfRecords, Flowing>>
         /\ WorkInTurn => WorkInTurn'
         /\ BatchesInTurn => BatchesInTurn'
         /\ RecordsInTurn /\ UNCHANGED recordCh => RecordsInTurn'
<1>1. UNCHANGED <<Kept, Floor>>
  BY DEF durable, Kept, Floor
<1>2. UNCHANGED <<AtWriters, AheadOfFilling, AheadOfRecords>>
  BY DEF wrVars, tfVars, AtWriters, AheadOfFilling, AheadOfRecords
<1>3. UNCHANGED Flowing
  BY DEF tfVars, Flowing
<1>4. WorkInTurn => WorkInTurn'
  BY <1>1 DEF wrVars, WorkInTurn, Owes
<1>5. BatchesInTurn => BatchesInTurn'
  BY <1>1, <1>2 DEF BatchesInTurn
<1>6. RecordsInTurn /\ UNCHANGED recordCh => RecordsInTurn'
  BY <1>1, <1>2, <1>3 DEF tfVars, RecordsInTurn
<1> QED BY <1>1, <1>2, <1>3, <1>4, <1>5, <1>6

\* Readers other than p are where they were, and so are the records ahead of theirs.
LEMMA OtherReaders ==
  ASSUME TypeOK, OwnRows, ReadersInTurn, NEW p \in Partitions,
         UNCHANGED <<Kept, Floor, Flowing>>,
         AheadOfHeld \subseteq AheadOfHeld',
         \A x \in AheadOfHeld' : x \in AheadOfHeld \/ x[1] = p,
         \A q \in Partitions \ {p} : /\ held'[q] = held[q] /\ partCh'[q] = partCh[q]
                                     /\ unread'[q] = unread[q] /\ reader'[q] = reader[q]
  PROVE  \A q \in Partitions \ {p} : ReaderInTurn(q)'
<1> SUFFICES ASSUME NEW q \in Partitions \ {p} PROVE ReaderInTurn(q)'
  OBVIOUS
<1>1. Shifts({q}, Kept, AheadOfHeld, Floor, Kept', AheadOfHeld', Floor')
  BY DEF Shifts
<1>2. ReaderInTurn(q)
  BY DEF ReadersInTurn
<1>3. Flowing' => Flowing
  OBVIOUS
<1> QED BY <1>1, <1>2, <1>3, ReaderShifts

\* The source sends the first row it has left: all before it are ahead.
LEMMA SourceSendsInTurn ==
  ASSUME Sequential, TypeOK, TurnsOK, NEW p \in Partitions, SourceSends(p), listed' = listed
  PROVE  TurnsOK'
<1> USE DEF TurnsOK
<1>1. PICK o \in Yields(p) : /\ unread' = [unread EXCEPT ![p] = @ \ {o}]
                             /\ partCh' = [partCh EXCEPT ![p] = Append(@, <<p, o>>)]
  BY DEF SourceSends
<1>2. UNCHANGED <<wrVars, tfVars, chanVars, durable, held, reader>>
  BY DEF SourceSends
<1>3. o \in unread[p] /\ \A x \in unread[p] : o <= x
  BY DEF Yields, Sequential
<1>4. unread[p] \subseteq Offsets /\ partCh[p] \in Stream /\ held[p] \in Stream
  BY DEF TypeOK, ReadersOK
<1>5. <<p, o>> \in Records /\ o \in Nat
  BY <1>3, <1>4 DEF Records, Offsets
<1>6. partCh'[p] = Append(partCh[p], <<p, o>>) /\ unread'[p] = unread[p] \ {o}
  BY <1>1 DEF TypeOK, ReadersOK
<1>7. Range(partCh'[p]) = Range(partCh[p]) \union {<<p, o>>}
  BY <1>4, <1>5, <1>6, Appending DEF Stream
<1>8. UNCHANGED <<Kept, Floor, AheadOfRecords, Flowing>> /\ WorkInTurn' /\ BatchesInTurn' /\ RecordsInTurn'
  BY <1>2, ReaderSideFrame DEF chanVars
<1>9. UNCHANGED AheadOfHeld
  BY <1>2, <1>8 DEF chanVars, AheadOfHeld
<1>10. \A q \in Partitions \ {p} : partCh'[q] = partCh[q] /\ unread'[q] = unread[q]
  BY <1>1 DEF TypeOK, ReadersOK
<1>11. \A q \in Partitions \ {p} : ReaderInTurn(q)'
  BY <1>2, <1>8, <1>9, <1>10, OtherReaders
<1>12. ReaderInTurn(p)'
  <2> SUFFICES ASSUME Flowing, reader[p] \in {"range", "send"}
               PROVE  /\ InTurn(Kept, AheadOfHeld, Floor, held[p])
                      /\ InTurn(Kept, AheadOfPart(p), Floor, partCh'[p])
                      /\ \A x \in unread'[p] : Turn(Kept \union ({p} \X unread'[p]),
                                                    AheadOfPart(p) \union Range(partCh'[p]), Floor, <<p, x>>)
    <3>1. AheadOfPart(p)' = AheadOfPart(p) /\ AheadOfTable(p)' = AheadOfPart(p) \union Range(partCh'[p])
      BY <1>2, <1>9 DEF AheadOfPart, AheadOfTable
    <3> QED BY <1>2, <1>8, <1>9, <3>1 DEF ReaderInTurn
  <2>1. /\ InTurn(Kept, AheadOfHeld, Floor, held[p])
        /\ InTurn(Kept, AheadOfPart(p), Floor, partCh[p])
        /\ \A x \in unread[p] : Turn(Kept \union ({p} \X unread[p]), AheadOfTable(p), Floor, <<p, x>>)
    BY DEF ReadersInTurn, ReaderInTurn
  <2>2. Turn(Kept, AheadOfPart(p) \union Range(partCh[p]), Floor, <<p, o>>)
    <3>1. Turn(Kept \union ({p} \X unread[p]), AheadOfTable(p), Floor, <<p, o>>)
      BY <1>3, <2>1
    <3>2. ASSUME NEW x \in Before(<<p, o>>) PROVE x \notin {p} \X unread[p]
      <4>1. x[2] \in 1..(o - 1)
        BY DEF Before
      <4>2. x[2] \notin unread[p]
        BY <1>3, <1>5, <4>1
      <4> QED BY <4>2
    <3> QED BY <3>1, <3>2 DEF Turn, AheadOfTable
  <2>3. InTurn(Kept, AheadOfPart(p), Floor, partCh'[p])
    BY <1>4, <1>5, <1>6, <2>1, <2>2, InTurnAppend
  <2>4. ASSUME NEW x \in unread'[p]
        PROVE  Turn(Kept \union ({p} \X unread'[p]), AheadOfPart(p) \union Range(partCh'[p]), Floor, <<p, x>>)
    <3>1. x \in unread[p] /\ x # o /\ x \in Nat /\ o < x
      BY <1>3, <1>4, <1>5, <1>6 DEF Offsets
    <3>2. Turn(Kept \union ({p} \X unread[p]), AheadOfTable(p), Floor, <<p, x>>)
      BY <2>1, <3>1
    <3>3. {p} \X unread[p] \subseteq ({p} \X unread'[p]) \union {<<p, o>>}
      BY <1>6
    <3>4. Before(<<p, x>>) \subseteq (Kept \union ({p} \X unread'[p])) \union (AheadOfPart(p) \union Range(partCh'[p]))
      BY <1>7, <3>2, <3>3 DEF Turn, AheadOfTable
    <3>5. \A y \in AheadOfPart(p) \union Range(partCh'[p]) : y[1] = p => y[2] < x
      BY <1>7, <3>1, <3>2 DEF Turn, AheadOfTable
    <3>6. Floor[p] <= x
      BY <3>2 DEF Turn
    <3> QED BY <3>4, <3>5, <3>6 DEF Turn
  <2> QED BY <2>1, <2>3, <2>4
<1>13. OwnRows'
  <2>1. Range(partCh'[p]) \subseteq {p} \X Offsets
    BY <1>3, <1>4, <1>7 DEF OwnRows
  <2> QED BY <1>2, <1>10, <2>1 DEF OwnRows
<1> QED BY <1>8, <1>11, <1>12, <1>13 DEF ReadersInTurn

\* runReader takes the first record of its channel in hand.
LEMMA ReaderTakesInTurn ==
  ASSUME TypeOK, TurnsOK, NEW p \in Partitions, ReaderTakes(p), listed' = listed
  PROVE  TurnsOK'
<1> USE DEF TurnsOK
<1>1. /\ reader[p] = "range" /\ partCh[p] # <<>>
      /\ held' = [held EXCEPT ![p] = <<Head(partCh[p])>>]
      /\ partCh' = [partCh EXCEPT ![p] = Tail(@)]
      /\ reader' = [reader EXCEPT ![p] = "send"]
      /\ UNCHANGED <<unread, chanVars, tfVars, wrVars, durable>>
  BY DEF ReaderTakes
<1>2. /\ held'[p] = <<Head(partCh[p])>> /\ partCh'[p] = Tail(partCh[p])
      /\ \A q \in Partitions \ {p} : held'[q] = held[q] /\ partCh'[q] = partCh[q] /\ reader'[q] = reader[q]
  BY <1>1 DEF TypeOK, ReadersOK
<1>3. partCh[p] \in Seq(Records) /\ held[p] = <<>>
  BY <1>1, EmptySeq DEF TypeOK, ReadersOK, Stream
<1>4. /\ Head(partCh[p]) \in Records
      /\ Range(partCh[p]) = {Head(partCh[p])} \union Range(partCh'[p])
      /\ Range(held'[p]) = {Head(partCh[p])} /\ Range(held[p]) = {}
  BY <1>1, <1>2, <1>3, Receiving, Singleton, RangeEmpty
<1>5. UNCHANGED <<Kept, Floor, AheadOfRecords, Flowing>> /\ WorkInTurn' /\ BatchesInTurn' /\ RecordsInTurn'
  BY <1>1, ReaderSideFrame DEF chanVars
<1>6. UNCHANGED AheadOfHeld
  BY <1>1, <1>5 DEF chanVars, AheadOfHeld
<1>7. \A q \in Partitions \ {p} : ReaderInTurn(q)'
  BY <1>1, <1>2, <1>5, <1>6, OtherReaders
<1>8. ReaderInTurn(p)'
  <2>1. /\ AheadOfPart(p) = AheadOfHeld
        /\ AheadOfPart(p)' = AheadOfHeld \union {Head(partCh[p])}
        /\ AheadOfTable(p)' = AheadOfTable(p)
    BY <1>4, <1>6 DEF AheadOfPart, AheadOfTable
  <2> SUFFICES ASSUME Flowing
               PROVE  /\ InTurn(Kept, AheadOfHeld, Floor, <<Head(partCh[p])>>)
                      /\ InTurn(Kept, AheadOfHeld \union {Head(partCh[p])}, Floor, Tail(partCh[p]))
                      /\ \A o \in unread[p] : Turn(Kept \union ({p} \X unread[p]), AheadOfTable(p), Floor, <<p, o>>)
    BY <1>1, <1>2, <1>5, <1>6, <2>1 DEF ReaderInTurn
  <2>2. /\ InTurn(Kept, AheadOfHeld, Floor, partCh[p])
        /\ \A o \in unread[p] : Turn(Kept \union ({p} \X unread[p]), AheadOfTable(p), Floor, <<p, o>>)
    BY <1>1, <2>1 DEF ReadersInTurn, ReaderInTurn
  <2>3. /\ Turn(Kept, AheadOfHeld, Floor, Head(partCh[p]))
        /\ InTurn(Kept, AheadOfHeld \union {Head(partCh[p])}, Floor, Tail(partCh[p]))
    BY <1>1, <1>3, <2>2, InTurnReceive DEF Stream
  <2>4. InTurn(Kept, AheadOfHeld, Floor, <<Head(partCh[p])>>)
    BY <2>3, OneInTurn
  <2> QED BY <2>2, <2>3, <2>4
<1>9. OwnRows'
  BY <1>2, <1>4 DEF OwnRows
<1> QED BY <1>5, <1>7, <1>8, <1>9 DEF ReadersInTurn

\* runReader sends the record in its hand.
LEMMA ReaderSendsInTurn ==
  ASSUME TypeOK, TurnsOK, NEW p \in Partitions, ReaderSends(p), listed' = listed
  PROVE  TurnsOK'
<1> USE DEF TurnsOK
<1>1. /\ reader[p] = "send"
      /\ recordCh' = recordCh \o held[p]
      /\ held' = [held EXCEPT ![p] = <<>>]
      /\ reader' = [reader EXCEPT ![p] = "range"]
      /\ UNCHANGED <<unread, partCh, batchCh, tfVars, wrVars, durable>>
  BY DEF ReaderSends
<1>2. /\ held'[p] = <<>>
      /\ \A q \in Partitions \ {p} : held'[q] = held[q] /\ reader'[q] = reader[q]
  BY <1>1 DEF TypeOK, ReadersOK
<1>3. held[p] \in Seq(Records) /\ Len(held[p]) = 1 /\ recordCh \in Seq(Records)
  BY <1>1 DEF TypeOK, ReadersOK, ChannelsOK, Stream
<1> DEFINE h == held[p][1]
<1>4. held[p] = <<h>> /\ h \in Records /\ Range(held[p]) = {h}
  BY <1>3, OneItem
<1>5. recordCh' = Append(recordCh, h)
  BY <1>1, <1>3, <1>4, AppendIsConcat
<1>6. Range(recordCh') = Range(recordCh) \union {h}
  BY <1>3, <1>4, <1>5, Appending
<1>7. h[1] = p
  BY <1>4 DEF OwnRows
<1> HIDE DEF h
<1>8. UNCHANGED <<Kept, Floor, AheadOfRecords, Flowing>> /\ WorkInTurn' /\ BatchesInTurn'
  BY <1>1, ReaderSideFrame
<1>9. AheadOfHeld' = AheadOfHeld \union {h}
  BY <1>6, <1>8 DEF AheadOfHeld
<1>10. \A q \in Partitions \ {p} : ReaderInTurn(q)'
  BY <1>1, <1>2, <1>7, <1>8, <1>9, OtherReaders
<1>11. RecordsInTurn'
  <2> SUFFICES ASSUME Flowing
               PROVE  /\ \A t \in Transformers : InTurn(Kept, AheadOfFilling, Floor, batch[t])
                      /\ InTurn(Kept, AheadOfRecords, Floor, recordCh')
    <3>1. UNCHANGED <<AheadOfFilling, batch>>
      BY <1>1, ReaderSideFrame DEF tfVars
    <3> QED BY <1>8, <3>1 DEF RecordsInTurn
  <2>1. InTurn(Kept, AheadOfRecords \union Range(recordCh), Floor, <<h>>)
    BY <1>1, <1>4 DEF ReadersInTurn, ReaderInTurn, AheadOfHeld
  <2>2. Turn(Kept, AheadOfRecords \union Range(recordCh), Floor, h)
    BY <2>1, OneInTurn
  <2> QED BY <1>3, <1>4, <1>5, <2>2, InTurnAppend DEF RecordsInTurn, Stream
<1>12. ReaderInTurn(p)'
  <2>1. AheadOfPart(p)' = AheadOfPart(p) /\ AheadOfTable(p)' = AheadOfTable(p)
    <3>1. AheadOfPart(p)' = AheadOfPart(p)
      BY <1>2, <1>4, <1>9, RangeEmpty DEF AheadOfPart
    <3> QED BY <1>1, <3>1 DEF AheadOfTable
  <2>2. InTurn(Kept', AheadOfHeld', Floor', held'[p])
    BY <1>2, EmptyInTurn
  <2> QED BY <1>1, <1>8, <2>1, <2>2 DEF ReadersInTurn, ReaderInTurn
<1>13. OwnRows'
  BY <1>1, <1>2, RangeEmpty DEF OwnRows
<1> QED BY <1>8, <1>10, <1>11, <1>12, <1>13 DEF ReadersInTurn

\* A reader that gives up drops what it has, and sends nothing any more.
LEMMA ReaderGivesUpInTurn ==
  ASSUME TypeOK, TurnsOK, NEW p \in Partitions, ReaderCancelled(p) \/ ReaderDrains(p), listed' = listed
  PROVE  TurnsOK'
<1> USE DEF TurnsOK
<1>1. UNCHANGED <<unread, chanVars, tfVars, wrVars, durable>>
  BY DEF ReaderCancelled, ReaderDrains
<1>2. /\ reader'[p] \in {"drain", "ctx"}
      /\ \A q \in Partitions \ {p} : held'[q] = held[q] /\ partCh'[q] = partCh[q] /\ reader'[q] = reader[q]
  BY DEF ReaderCancelled, ReaderDrains, TypeOK, ReadersOK
<1>3. Range(held'[p]) \subseteq Range(held[p]) /\ Range(partCh'[p]) \subseteq Range(partCh[p])
  <2>1. CASE held'[p] = <<>> /\ partCh'[p] = partCh[p]
    BY <2>1, RangeEmpty
  <2>2. CASE held' = held /\ partCh[p] # <<>> /\ partCh'[p] = Tail(partCh[p])
    <3>1. partCh[p] \in Seq(Records)
      BY DEF TypeOK, ReadersOK, Stream
    <3> QED BY <2>2, <3>1, Receiving
  <2>3. CASE held' = held /\ partCh' = partCh
    BY <2>3
  <2> QED BY <2>1, <2>2, <2>3 DEF ReaderCancelled, ReaderDrains, TypeOK, ReadersOK
<1>4. UNCHANGED <<Kept, Floor, AheadOfRecords, Flowing>> /\ WorkInTurn' /\ BatchesInTurn' /\ RecordsInTurn'
  BY <1>1, ReaderSideFrame DEF chanVars
<1>5. UNCHANGED AheadOfHeld
  BY <1>1, <1>4 DEF chanVars, AheadOfHeld
<1>6. \A q \in Partitions \ {p} : ReaderInTurn(q)'
  BY <1>1, <1>2, <1>4, <1>5, OtherReaders
<1>7. ReaderInTurn(p)'
  BY <1>2 DEF ReaderInTurn
<1>8. OwnRows'
  BY <1>2, <1>3 DEF OwnRows
<1> QED BY <1>4, <1>6, <1>7, <1>8 DEF ReadersInTurn

\* What a step of the transformer leaves alone.
LEMMA TransformerFrame ==
  ASSUME UNCHANGED <<wrVars, readVars, durable, listed>>
  PROVE  /\ UNCHANGED <<Kept, Floor, AtWriters>>
         /\ WorkInTurn => WorkInTurn'
         /\ OwnRows => OwnRows'
<1>1. UNCHANGED <<Kept, Floor, AtWriters>>
  BY DEF durable, wrVars, Kept, Floor, AtWriters
<1>2. WorkInTurn => WorkInTurn'
  BY <1>1 DEF wrVars, WorkInTurn, Owes
<1>3. OwnRows => OwnRows'
  BY DEF readVars, OwnRows
<1> QED BY <1>1, <1>2, <1>3

\* The transformer receives a record: it goes from the head of recordCh to the end of the batch.
LEMMA TransformerTakesInTurn ==
  ASSUME Sequential, TypeOK, TurnsOK, NEW t \in Transformers, TransformerTakes(t), listed' = listed
  PROVE  TurnsOK'
<1> USE DEF TurnsOK
<1> DEFINE h == Head(recordCh)
<1>1. /\ tf[t] = "select" /\ recordCh # <<>>
      /\ batch' = [batch EXCEPT ![t] = Append(batch[t], h)]
      /\ recordCh' = Tail(recordCh)
      /\ UNCHANGED <<batchCh, readVars, wrVars, durable>>
  BY DEF TransformerTakes
<1>2. recordCh \in Seq(Records) /\ batch[t] \in Seq(Records)
  BY DEF TypeOK, ChannelsOK, TransformersOK, Stream
<1>3. h \in Records /\ Range(recordCh) = {h} \union Range(recordCh')
  BY <1>1, <1>2, Receiving
<1> HIDE DEF h
<1>4. batch'[t] = Append(batch[t], h) /\ Range(batch'[t]) = Range(batch[t]) \union {h}
  <2>1. batch'[t] = Append(batch[t], h)
    BY <1>1 DEF TypeOK, TransformersOK
  <2> QED BY <1>2, <1>3, <2>1, Appending
<1>5. /\ Transformers = {t} /\ AheadOfRecords = AheadOfFilling \union Range(batch[t])
      /\ AheadOfRecords' = AheadOfFilling' \union Range(batch'[t])
  BY OneOfEach, OneOfEachNext
<1>6. UNCHANGED <<Kept, Floor, AtWriters>> /\ WorkInTurn' /\ OwnRows'
  BY <1>1, TransformerFrame
<1>7. UNCHANGED AheadOfFilling
  BY <1>1, <1>6 DEF AheadOfFilling
<1>8. AheadOfRecords' = AheadOfRecords \union {h}
  BY <1>4, <1>5, <1>7
<1>9. UNCHANGED AheadOfHeld
  BY <1>3, <1>8 DEF AheadOfHeld
<1>10. Flowing
  BY <1>1, <1>5 DEF Flowing
<1>11. InTurn(Kept, AheadOfFilling, Floor, batch[t]) /\ InTurn(Kept, AheadOfRecords, Floor, recordCh)
  BY <1>10 DEF RecordsInTurn
<1>12. Turn(Kept, AheadOfRecords, Floor, h) /\ InTurn(Kept, AheadOfRecords \union {h}, Floor, recordCh')
  BY <1>1, <1>2, <1>11, InTurnReceive DEF Stream, h
<1>13. InTurn(Kept, AheadOfFilling, Floor, batch'[t])
  BY <1>2, <1>3, <1>4, <1>5, <1>11, <1>12, InTurnAppend DEF Stream
<1>14. BatchesInTurn'
  BY <1>1, <1>6 DEF BatchesInTurn
<1>15. RecordsInTurn'
  BY <1>5, <1>6, <1>7, <1>8, <1>12, <1>13 DEF RecordsInTurn
<1>16. ReadersInTurn'
  BY <1>1, <1>6, <1>9, <1>10, ReadersStay DEF readVars
<1> QED BY <1>6, <1>14, <1>15, <1>16

\* flush sends the batch behind those of batchCh.
LEMMA TransformerFlushesInTurn ==
  ASSUME Sequential, TypeOK, TurnsOK, NEW t \in Transformers, TransformerFlushes(t), listed' = listed
  PROVE  TurnsOK'
<1> USE DEF TurnsOK
<1>1. /\ tf[t] \in {"flush", "lastFlush"}
      /\ batchCh' = Append(batchCh, batch[t])
      /\ batch' = [batch EXCEPT ![t] = <<>>]
      /\ UNCHANGED <<recordCh, readVars, wrVars, durable>>
  BY DEF TransformerFlushes
<1>2. batch[t] \in Batches /\ batchCh \in Seq(Batches) /\ batch'[t] = <<>>
  BY <1>1 DEF TypeOK, ChannelsOK, TransformersOK, Batches
<1>3. Range(batchCh') = Range(batchCh) \union {batch[t]}
  BY <1>1, <1>2, Appending
<1>4. /\ Transformers = {t} /\ AheadOfRecords = AheadOfFilling \union Range(batch[t])
      /\ AheadOfRecords' = AheadOfFilling' \union Range(batch'[t])
  BY OneOfEach, OneOfEachNext
<1>5. UNCHANGED <<Kept, Floor, AtWriters>> /\ WorkInTurn' /\ OwnRows'
  BY <1>1, TransformerFrame
<1>6. AheadOfFilling' = AheadOfFilling \union Range(batch[t])
  <2>1. Union(Range(batchCh')) = Union(Range(batchCh)) \union Range(batch[t])
    BY <1>3 DEF Union
  <2> QED BY <1>5, <2>1 DEF AheadOfFilling
<1>7. UNCHANGED AheadOfRecords
  BY <1>2, <1>4, <1>6, RangeEmpty
<1>8. UNCHANGED AheadOfHeld
  BY <1>1, <1>7 DEF AheadOfHeld
<1>9. Flowing
  BY <1>1, <1>4 DEF Flowing
<1>10. InTurn(Kept, AheadOfFilling, Floor, batch[t]) /\ InTurn(Kept, AheadOfRecords, Floor, recordCh)
  BY <1>9 DEF RecordsInTurn
<1>11. BatchesInTurn'
  <2>1. AllInTurn(Kept, AtWriters, Floor, Append(batchCh, batch[t]))
    BY <1>2, <1>10, AllInTurnAppend DEF BatchesInTurn, AheadOfFilling
  <2> QED BY <1>1, <1>5, <2>1 DEF BatchesInTurn
<1>12. RecordsInTurn'
  BY <1>1, <1>2, <1>4, <1>5, <1>7, <1>10, EmptyInTurn DEF RecordsInTurn
<1>13. ReadersInTurn'
  BY <1>1, <1>5, <1>8, <1>9, ReadersStay DEF readVars
<1> QED BY <1>5, <1>11, <1>12, <1>13

\* A transformer that is cancelled drops its batch, and sends nothing any more.
LEMMA TransformerCancelledInTurn ==
  ASSUME TypeOK, TurnsOK, NEW t \in Transformers, TransformerCancelled(t), listed' = listed
  PROVE  TurnsOK'
<1> USE DEF TurnsOK
<1>1. UNCHANGED <<chanVars, readVars, wrVars, durable>> /\ tf'[t] = "done"
  BY DEF TransformerCancelled, TypeOK, TransformersOK
<1>2. UNCHANGED <<Kept, Floor, AtWriters>> /\ WorkInTurn' /\ OwnRows'
  BY <1>1, TransformerFrame
<1>3. ~Flowing'
  BY <1>1 DEF Flowing
<1>4. BatchesInTurn'
  BY <1>1, <1>2 DEF BatchesInTurn, chanVars
<1> QED BY <1>2, <1>3, <1>4 DEF RecordsInTurn, ReadersInTurn, ReaderInTurn

\* What a step of the writer leaves alone.
LEMMA WriterFrame ==
  ASSUME NEW w \in Writers, WriterStep(w), listed' = listed
  PROVE  UNCHANGED <<readVars, tfVars, recordCh, Flowing, listed>>
BY DEF WriterStep, WriterTakes, WriterFinishes, WriterCancelled, WriterWrites, WriterFails,
       WriterRetries, WriterGets, WriterPuts, chanVars, tfVars, Flowing

\* What is behind the writer's batch is in turn as long as the batch only gets safe, or
\* the floor rises to one of its rows.
LEMMA WriterShifts ==
  ASSUME TypeOK, TurnsOK, UNCHANGED <<readVars, tfVars, recordCh, batchCh, Flowing>>,
         Shifts(Partitions, Kept, AtWriters, Floor, Kept', AtWriters', Floor')
  PROVE  BatchesInTurn' /\ RecordsInTurn' /\ ReadersInTurn' /\ OwnRows'
<1> USE DEF TurnsOK
<1>1. /\ AheadOfFilling = AtWriters \union Union(Range(batchCh))
      /\ AheadOfFilling' = AtWriters' \union Union(Range(batchCh))
      /\ AheadOfRecords = AheadOfFilling \union UNION {Range(batch[t]) : t \in Transformers}
      /\ AheadOfRecords' = AheadOfFilling' \union UNION {Range(batch[t]) : t \in Transformers}
      /\ AheadOfHeld = AheadOfRecords \union Range(recordCh)
      /\ AheadOfHeld' = AheadOfRecords' \union Range(recordCh)
  BY DEF AheadOfFilling, AheadOfRecords, AheadOfHeld, tfVars
<1>2. Shifts(Partitions, Kept, AheadOfFilling, Floor, Kept', AheadOfFilling', Floor')
  <2>1. Shifts(Partitions, Kept, AtWriters \union Union(Range(batchCh)), Floor,
               Kept', AtWriters' \union Union(Range(batchCh)), Floor')
    BY ShiftsMore, Zenon
  <2> QED BY <1>1, <2>1, Zenon
<1>3. Shifts(Partitions, Kept, AheadOfRecords, Floor, Kept', AheadOfRecords', Floor')
  <2>1. Shifts(Partitions, Kept, AheadOfFilling \union UNION {Range(batch[t]) : t \in Transformers}, Floor,
               Kept', AheadOfFilling' \union UNION {Range(batch[t]) : t \in Transformers}, Floor')
    BY <1>2, ShiftsMore, Zenon
  <2> QED BY <1>1, <2>1, Zenon
<1>4. Shifts(Partitions, Kept, AheadOfHeld, Floor, Kept', AheadOfHeld', Floor')
  <2>1. Shifts(Partitions, Kept, AheadOfRecords \union Range(recordCh), Floor,
               Kept', AheadOfRecords' \union Range(recordCh), Floor')
    BY <1>3, ShiftsMore, Zenon
  <2> QED BY <1>1, <2>1, Zenon
<1>5. BatchesInTurn'
  <2>1. AllInTurn(Kept', AtWriters', Floor', batchCh)
    BY AllInTurnShifts DEF BatchesInTurn, TypeOK, ChannelsOK
  <2> QED BY <2>1 DEF BatchesInTurn
<1>6. RecordsInTurn'
  <2>1. \A s \in Stream : \A r \in Range(s) : r[1] \in Partitions
    BY RangeMember DEF Stream, Records
  <2> SUFFICES ASSUME Flowing
               PROVE  /\ \A t \in Transformers : InTurn(Kept', AheadOfFilling', Floor', batch[t])
                      /\ InTurn(Kept', AheadOfRecords', Floor', recordCh)
    BY DEF RecordsInTurn, tfVars
  <2>2. ASSUME NEW t \in Transformers PROVE InTurn(Kept', AheadOfFilling', Floor', batch[t])
    <3>1. batch[t] \in Stream
      BY DEF TypeOK, TransformersOK
    <3> QED BY <1>2, <2>1, <3>1, InTurnShifts DEF RecordsInTurn
  <2>3. InTurn(Kept', AheadOfRecords', Floor', recordCh)
    <3>1. recordCh \in Stream
      BY DEF TypeOK, ChannelsOK
    <3> QED BY <1>3, <2>1, <3>1, InTurnShifts DEF RecordsInTurn
  <2> QED BY <2>2, <2>3
<1>7. ASSUME NEW p \in Partitions PROVE ReaderInTurn(p)'
  <2>1. Shifts({p}, Kept, AheadOfHeld, Floor, Kept', AheadOfHeld', Floor')
    BY <1>4 DEF Shifts
  <2>2. ReaderInTurn(p) /\ Flowing' => Flowing
    BY DEF ReadersInTurn
  <2> QED BY <2>1, <2>2, ReaderShifts DEF readVars, ReadersInTurn
<1>8. OwnRows'
  BY DEF OwnRows, readVars
<1> QED BY <1>5, <1>6, <1>7, <1>8 DEF ReadersInTurn

\* A sequence in turn above some floor is in turn above none.
LEMMA InTurnAnyFloor ==
  ASSUME NEW K, NEW A, NEW F, NEW s \in Stream, InTurn(K, A, F, s)
  PROVE  InTurn(K, A, NoFloor, s)
<1> SUFFICES ASSUME NEW i \in 1..Len(s) PROVE Turn(K, A \union First(s, i - 1), NoFloor, s[i])
  BY DEF InTurn
<1>1. Turn(K, A \union First(s, i - 1), F, s[i])
  BY DEF InTurn
<1>2. s[i] \in Records
  BY ElementOfSeq DEF Stream
<1>3. NoFloor[s[i][1]] <= s[i][2]
  BY <1>2 DEF NoFloor, Records, Offsets
<1> QED BY <1>1, <1>3 DEF Turn

\* The writer receives the batch at the head of batchCh.
LEMMA WriterTakesInTurn ==
  ASSUME Sequential, TypeOK, TurnsOK, NEW w \in Writers, WriterTakes(w), listed' = listed
  PROVE  TurnsOK'
<1> USE DEF TurnsOK
<1> DEFINE b == Head(batchCh)
<1>1. /\ batchCh # <<>> /\ batchCh' = Tail(batchCh)
      /\ work' = [work EXCEPT ![w] = b]
      /\ wr[w] = "select"
      /\ UNCHANGED <<recordCh, readVars, tfVars, durable>>
  BY DEF WriterTakes
<1>2. batchCh \in Seq(Batches)
  BY DEF TypeOK, ChannelsOK
<1>3. b \in Batches /\ Range(batchCh) = {b} \union Range(batchCh')
  BY <1>1, <1>2, Receiving
<1> HIDE DEF b
<1>4. work'[w] = b /\ work[w] = <<>>
  BY <1>1 DEF TypeOK, WritersOK
<1>5. Writers = {w} /\ AtWriters = {} /\ AtWriters' = Range(b)
  BY <1>4, OneOfEach, OneOfEachNext, RangeEmpty
<1>6. UNCHANGED <<Kept, Floor, Flowing>>
  BY <1>1 DEF durable, tfVars, Kept, Floor, Flowing
<1>7. UNCHANGED AheadOfFilling
  <2>1. Union(Range(batchCh)) = Range(b) \union Union(Range(batchCh'))
    BY <1>3, UnionOf, Zenon
  <2> QED BY <1>5, <2>1 DEF AheadOfFilling
<1>8. UNCHANGED AheadOfRecords
  BY <1>1, <1>7 DEF AheadOfRecords, tfVars
<1>9. UNCHANGED AheadOfHeld
  BY <1>1, <1>8 DEF AheadOfHeld
<1>10. InTurn(Kept, {}, Floor, b) /\ AllInTurn(Kept, {} \union Range(b), Floor, batchCh')
  <2>1. AllInTurn(Kept, {}, Floor, batchCh)
    BY <1>5 DEF BatchesInTurn
  <2> QED BY <1>1, <1>2, <2>1, AllInTurnReceive DEF b
<1>11. WorkInTurn'
  <2>1. b \in Stream
    BY <1>3 DEF Batches
  <2>2. InTurn(Kept, {}, NoFloor, b)
    BY <1>10, <2>1, InTurnAnyFloor
  <2>3. \A r \in Range(b) : Floor[r[1]] <= r[2]
    BY <1>10, <2>1, InTurnMeans
  <2> QED BY <1>4, <1>5, <1>6, <2>2, <2>3 DEF WorkInTurn
<1>12. BatchesInTurn'
  <2>1. {} \union Range(b) = AtWriters'
    BY <1>5
  <2> QED BY <1>6, <1>10, <2>1 DEF BatchesInTurn
<1>13. RecordsInTurn'
  BY <1>1, <1>6, <1>7, <1>8 DEF RecordsInTurn, tfVars
<1>14. ReadersInTurn'
  BY <1>1, <1>6, <1>9, ReadersStay DEF readVars
<1>15. OwnRows'
  BY <1>1 DEF OwnRows, readVars
<1> QED BY <1>11, <1>12, <1>13, <1>14, <1>15

\* WriteBatch puts the batch, or part of it, in the target.
LEMMA WriterWritesInTurn ==
  ASSUME Sequential, TypeOK, TurnsOK, NEW w \in Writers, WriterWrites(w) \/ WriterFails(w), listed' = listed
  PROVE  TurnsOK'
<1> USE DEF TurnsOK
<1>1. UNCHANGED <<readVars, tfVars, recordCh, batchCh, Flowing, dlq, cp>>
  BY DEF WriterWrites, WriterFails, chanVars, tfVars, Flowing
<1>2. wr[w] = "write" /\ (wr'[w] \in {"save", "put"} => todo'[w] = PartitionsOf(work[w]))
  BY DEF WriterWrites, WriterFails, TypeOK, WritersOK
<1>3. Writers = {w} /\ AtWriters = Range(work[w]) /\ AtWriters' = Range(work'[w])
  BY OneOfEach, OneOfEachNext
<1>4. /\ Kept \subseteq Kept'
      /\ work'[w] = work[w] \/ (work'[w] = <<>> /\ Range(work[w]) \subseteq Kept')
  BY <1>1 DEF WriterWrites, WriterFails, TypeOK, WritersOK, Kept
<1>5. UNCHANGED Floor
  BY <1>1 DEF Floor
<1>6. Range(work'[w]) \subseteq Range(work[w]) /\ Range(work[w]) \subseteq Kept' \union Range(work'[w])
  BY <1>4, RangeEmpty
<1>7. Shifts(Partitions, Kept, AtWriters, Floor, Kept', AtWriters', Floor')
  BY <1>3, <1>4, <1>5, <1>6 DEF Shifts
<1>8. WorkInTurn'
  <2>1. work[w] \in Stream
    BY DEF TypeOK, WritersOK
  <2>2. InTurn(Kept', {}, NoFloor, work[w])
    <3>1. Shifts(Partitions, Kept, {}, NoFloor, Kept', {}, NoFloor)
      BY <1>4 DEF Shifts
    <3>2. \A r \in Range(work[w]) : r[1] \in Partitions
      BY <2>1, RangeMember DEF Stream, Records
    <3> QED BY <2>1, <3>1, <3>2, InTurnShifts DEF WorkInTurn
  <2>3. InTurn(Kept', {}, NoFloor, work'[w])
    BY <1>4, <2>2, EmptyInTurn
  <2>4. \A r \in Range(work'[w]) : Floor[r[1]] <= r[2]
    <3>1. \A r : Owes(w, r)
      BY <1>2 DEF Owes
    <3> QED BY <1>6, <3>1 DEF WorkInTurn
  <2> QED BY <1>3, <1>5, <2>3, <2>4 DEF WorkInTurn
<1> QED BY <1>1, <1>7, <1>8, WriterShifts

\* handleWriteFailure settles the first record of the failed batch.
LEMMA WriterRetriesInTurn ==
  ASSUME Sequential, TypeOK, TurnsOK, NEW w \in Writers, WriterRetries(w), listed' = listed
  PROVE  TurnsOK'
<1> USE DEF TurnsOK
<1> DEFINE h == Head(work[w])
<1>1. UNCHANGED <<readVars, tfVars, recordCh, batchCh, Flowing, cp>>
  BY DEF WriterRetries, chanVars, tfVars, Flowing
<1>2. wr[w] = "retry" /\ wr'[w] \in {"select", "retry"} /\ work'[w] = Tail(work[w])
  BY DEF WriterRetries, TypeOK, WritersOK
<1>3. Writers = {w} /\ AtWriters = Range(work[w]) /\ AtWriters' = Range(work'[w])
  BY OneOfEach, OneOfEachNext
<1>4. Kept \subseteq Kept' /\ h \in Kept'
  BY DEF WriterRetries, Kept, Sequential
<1>5. work[w] \in Seq(Records) /\ work[w] # <<>>
  BY <1>2 DEF TypeOK, WritersOK, Stream
<1>6. Range(work[w]) = {h} \union Range(work'[w]) /\ work'[w] \in Seq(Records)
  <2>1. Tail(work[w]) \in Seq(Records)
    BY <1>5, HeadTailProperties
  <2> QED BY <1>2, <1>5, <2>1, Receiving
<1>7. UNCHANGED Floor
  BY <1>1 DEF Floor
<1>8. Shifts(Partitions, Kept, AtWriters, Floor, Kept', AtWriters', Floor')
  <2> HIDE DEF h
  <2> QED BY <1>3, <1>4, <1>6, <1>7 DEF Shifts
<1>9. WorkInTurn'
  <2>1. InTurn(Kept, {} \union {h}, NoFloor, work'[w])
    BY <1>2, <1>5, InTurnReceive DEF WorkInTurn, Stream
  <2>2. Shifts(Partitions, Kept, {} \union {h}, NoFloor, Kept', {}, NoFloor)
    <3> HIDE DEF h
    <3> QED BY <1>4 DEF Shifts
  <2>3. \A r \in Range(work'[w]) : r[1] \in Partitions
    BY <1>6, RangeMember DEF Records
  <2>4. InTurn(Kept', {}, NoFloor, work'[w])
    <3> HIDE DEF h
    <3> QED BY <1>6, <2>1, <2>2, <2>3, InTurnShifts DEF Stream
  <2>5. \A r \in Range(work'[w]) : Floor[r[1]] <= r[2]
    <3>1. \A r : Owes(w, r)
      BY <1>2 DEF Owes
    <3> QED BY <1>6, <3>1 DEF WorkInTurn
  <2> QED BY <1>3, <1>7, <2>4, <2>5 DEF WorkInTurn
<1> QED BY <1>1, <1>8, <1>9, WriterShifts

\* What saveCheckpoints stores as LastCommitted is the offset of a row of the batch.
LEMMA LastOffsetOf ==
  ASSUME NEW b \in Stream, NEW p \in PartitionsOf(b)
  PROVE  \E r \in Range(b) : r[1] = p /\ r[2] = LastOffset(b, p)
<1> DEFINE I == {i \in DOMAIN b : b[i][1] = p}
<1>1. DOMAIN b = 1..Len(b) /\ Len(b) \in Nat
  BY LenProperties DEF Stream
<1>2. I # {} /\ I \in SUBSET (1..Len(b))
  BY <1>1 DEF PartitionsOf
<1>3. \E i \in I : \A j \in I : j <= i
  BY <1>1, <1>2, GreatestPosition
<1> DEFINE last == CHOOSE i \in DOMAIN b : /\ b[i][1] = p
                                           /\ \A j \in DOMAIN b : b[j][1] = p => j <= i
<1>4. last \in DOMAIN b /\ b[last][1] = p
  BY <1>3
<1>5. LastOffset(b, p) = b[last][2]
  BY DEF LastOffset
<1> HIDE DEF last
<1>6. b[last] \in Range(b)
  BY <1>4 DEF Range
<1> QED BY <1>4, <1>5, <1>6

\* That row is in turn, and not below the floor; all rows up to it are safe.
LEMMA PutIsCovered ==
  ASSUME Sequential, TypeOK, SavedOK, TurnsOK, NEW w \in Writers, wr[w] = "put"
  PROVE  LET p == seen[w][1]
             o == LastOffset(work[w], p)
         IN  /\ p \in Partitions /\ p \in todo[w]
             /\ o \in Nat /\ <<p, o>> \in Range(work[w])
             /\ Floor[p] <= o
             /\ \A x \in 1..o : <<p, x>> \in Kept
<1> DEFINE p == seen[w][1]
           o == LastOffset(work[w], p)
<1>1. work[w] \in Stream /\ p \in todo[w] /\ todo[w] \subseteq PartitionsOf(work[w]) /\ todo[w] \subseteq Partitions
  BY DEF TypeOK, WritersOK
<1>2. PICK r \in Range(work[w]) : r[1] = p /\ r[2] = o
  BY <1>1, LastOffsetOf
<1>3. r \in Records
  BY <1>1, <1>2, RangeMember DEF Stream
<1>4. o \in Nat /\ r = <<p, o>>
  BY <1>2, <1>3 DEF Records, Offsets
<1>5. Range(work[w]) \subseteq Kept
  BY DEF SavedOK, Kept
<1>6. Before(r) \subseteq Kept /\ Floor[p] <= o
  <2>1. InTurn(Kept, {}, NoFloor, work[w]) /\ (Owes(w, r[1]) => Floor[r[1]] <= r[2])
    BY <1>2 DEF TurnsOK, WorkInTurn
  <2>2. Before(r) \subseteq Kept \union {} \union Range(work[w])
    BY <1>1, <1>2, <2>1, InTurnMeans
  <2>3. Owes(w, p)
    BY <1>1 DEF Owes
  <2> QED BY <1>2, <1>5, <2>1, <2>2, <2>3
<1>7. ASSUME NEW x \in 1..o PROVE <<p, x>> \in Kept
  <2>1. CASE x = o
    BY <1>2, <1>4, <1>5, <2>1
  <2>2. CASE x # o
    <3>1. x \in 1..(o - 1)
      BY <1>4, <2>2
    <3>2. <<p, x>> \in Before(r)
      BY <1>2, <3>1 DEF Before
    <3> QED BY <1>6, <3>2
  <2> QED BY <2>1, <2>2
<1> HIDE DEF o, p
<1>8. p \in Partitions /\ p \in todo[w] /\ <<p, o>> \in Range(work[w])
  BY <1>1, <1>2, <1>4
<1> QED BY <1>4, <1>6, <1>7, <1>8 DEF o, p

\* What SavePartition does to the checkpoints and the floor.
LEMMA PutSaves ==
  ASSUME TypeOK, NEW w \in Writers, WriterPuts(w), listed' = listed
  PROVE  LET p == seen[w][1]
             o == LastOffset(work[w], p)
         IN  /\ wr[w] = "put"
             /\ \A q \in Partitions : cp'[q].last = cp[q].last \/ (q = p /\ cp'[q].last = o)
             /\ \A q \in Partitions : Floor'[q] = Floor[q] \/ (q = p /\ Floor'[q] = o)
             /\ todo'[w] = todo[w] \ {p}
             /\ wr'[w] \in {"select", "save"}
             /\ work'[w] = work[w] \/ work'[w] = <<>>
             /\ UNCHANGED <<readVars, tfVars, chanVars, target, dlq, failed>>
<1> DEFINE p == seen[w][1]
           o == LastOffset(work[w], p)
<1>1. /\ wr[w] = "put" /\ todo'[w] = todo[w] \ {p}
      /\ wr'[w] \in {"select", "save"} /\ (work'[w] = work[w] \/ work'[w] = <<>>)
      /\ UNCHANGED <<readVars, tfVars, chanVars, target, dlq, failed>>
  BY DEF WriterPuts, TypeOK, WritersOK
<1>2. p \in Partitions
  BY <1>1 DEF TypeOK, WritersOK
<1>3. \A q \in Partitions : cp'[q].last = cp[q].last \/ (q = p /\ cp'[q].last = o)
  <2>1. CASE UNCHANGED cp
    BY <2>1
  <2>2. CASE cp' = [cp EXCEPT ![p] = [status |-> seen[w][2].status, last |-> o,
                                      rows |-> seen[w][2].rows + CountOf(work[w], p)]]
    <3>1. cp'[p].last = o /\ \A q \in Partitions \ {p} : cp'[q] = cp[q]
      BY <1>2, <2>2 DEF TypeOK, OutcomeOK
    <3> QED BY <3>1
  <2> QED BY <2>1, <2>2 DEF WriterPuts
<1>4. \A q \in Partitions : Floor'[q] = Floor[q] \/ (q = p /\ Floor'[q] = o)
  BY <1>3 DEF Floor
<1> HIDE DEF o, p
<1> QED BY <1>1, <1>3, <1>4 DEF o, p

\* SavePartition raises the floor to a row of the batch; the batch is safe, and may go.
LEMMA WriterPutsInTurn ==
  ASSUME Sequential, TypeOK, SavedOK, TurnsOK, NEW w \in Writers, WriterPuts(w), listed' = listed
  PROVE  TurnsOK'
<1> DEFINE p == seen[w][1]
           o == LastOffset(work[w], p)
<1>1. /\ wr[w] = "put"
      /\ \A q \in Partitions : Floor'[q] = Floor[q] \/ (q = p /\ Floor'[q] = o)
      /\ todo'[w] = todo[w] \ {p} /\ wr'[w] \in {"select", "save"}
      /\ work'[w] = work[w] \/ work'[w] = <<>>
      /\ UNCHANGED <<readVars, tfVars, chanVars, target, dlq>>
  BY PutSaves
<1>2. o \in Nat /\ <<p, o>> \in Range(work[w])
  BY <1>1, PutIsCovered
<1> HIDE DEF o, p
<1>3. Writers = {w} /\ AtWriters = Range(work[w]) /\ AtWriters' = Range(work'[w])
  BY OneOfEach, OneOfEachNext
<1>4. UNCHANGED <<Kept, recordCh, batchCh, Flowing>>
  BY <1>1 DEF Kept, chanVars, tfVars, Flowing
<1>5. Range(work[w]) \subseteq Kept /\ Range(work'[w]) \subseteq Range(work[w])
  BY <1>1, RangeEmpty DEF SavedOK, Kept
<1>6. Shifts(Partitions, Kept, AtWriters, Floor, Kept', AtWriters', Floor')
  <2>1. \A q \in Partitions : Floor'[q] = Floor[q]
                              \/ (Floor'[q] \in Nat /\ \E x \in AtWriters : x[1] = q /\ Floor'[q] = x[2])
    <3>1. <<p, o>> \in AtWriters /\ <<p, o>>[1] = p /\ <<p, o>>[2] = o
      BY <1>2, <1>3
    <3> QED BY <1>1, <1>2, <3>1
  <2> QED BY <1>3, <1>4, <1>5, <2>1 DEF Shifts
<1>7. WorkInTurn'
  <2>1. InTurn(Kept, {}, NoFloor, work'[w])
    BY <1>1, EmptyInTurn DEF TurnsOK, WorkInTurn
  <2>2. ASSUME NEW r \in Range(work'[w]), Owes(w, r[1])' PROVE Floor'[r[1]] <= r[2]
    <3>1. work'[w] = work[w] /\ r \in Range(work[w])
      BY <1>1, <2>2, RangeEmpty
    <3>2. r[1] \in Partitions
      BY <3>1, RangeMember DEF TypeOK, WritersOK, Stream, Records
    <3>3. wr'[w] = "save"
      <4>1. work[w] # <<>> /\ wr'[w] = "select" => work'[w] = <<>>
        BY <1>1, <3>1 DEF WriterPuts, TypeOK, WritersOK
      <4> QED BY <1>1, <2>2, <4>1, <3>1, RangeEmpty
    <3>4. r[1] \in todo[w] /\ r[1] # p
      BY <1>1, <2>2, <3>3 DEF Owes
    <3>5. Owes(w, r[1])
      BY <3>4 DEF Owes
    <3>6. Floor[r[1]] <= r[2]
      BY <3>1, <3>5 DEF TurnsOK, WorkInTurn
    <3> QED BY <1>1, <3>2, <3>4, <3>6
  <2> QED BY <1>3, <1>4, <2>1, <2>2 DEF WorkInTurn
<1> QED BY <1>1, <1>4, <1>6, <1>7, WriterShifts DEF TurnsOK

\* Every step of a call keeps the turns.
LEMMA TurnsStep ==
  ASSUME Sequential, Orderly, TurnsOK, [Next]_vars, listed' = listed
  PROVE  TurnsOK'
<1> USE DEF Orderly
<1>1. CASE CallerCancels \/ CloseRecordCh \/ CloseBatchCh \/ UNCHANGED vars
  <2>1. UNCHANGED <<readVars, tfVars, wrVars, recordCh, batchCh, durable>>
    BY <1>1 DEF CallerCancels, CloseRecordCh, CloseBatchCh, vars, chanVars
  <2> QED BY <2>1, QuietTurns DEF readVars, tfVars, wrVars, durable, Kept, Floor, Flowing, Owes
<1>2. ASSUME NEW p \in Partitions, SourceStep(p) PROVE TurnsOK'
  <2>1. CASE SourceReturns(p)
    BY <2>1, QuietTurns DEF SourceReturns, chanVars, tfVars, wrVars, durable, Kept, Floor, Flowing, Owes
  <2> QED BY <1>2, <2>1, SourceSendsInTurn DEF SourceStep
<1>3. ASSUME NEW p \in Partitions, ReaderStep(p) PROVE TurnsOK'
  <2>1. CASE ReaderFinishes(p) \/ ReaderReports(p)
    <3>1. UNCHANGED <<unread, partCh, held, chanVars, tfVars, wrVars, durable>>
      BY <2>1 DEF ReaderFinishes, ReaderReports
    <3>2. reader'[p] \notin {"range", "send"} /\ \A q \in Partitions \ {p} : reader'[q] = reader[q]
      BY <2>1 DEF ReaderFinishes, ReaderReports, ReaderResult, PartClosed, TypeOK, ReadersOK
    <3> QED BY <3>1, <3>2, QuietTurns DEF chanVars, tfVars, wrVars, durable, Kept, Floor, Flowing, Owes
  <2> QED BY <1>3, <2>1, ReaderTakesInTurn, ReaderSendsInTurn, ReaderGivesUpInTurn DEF ReaderStep
<1>4. ASSUME NEW t \in Transformers, TransformerStep(t) PROVE TurnsOK'
  <2>1. CASE TickerFires(t) \/ TransformerFinishes(t)
    <3>1. UNCHANGED <<batch, chanVars, readVars, wrVars, durable>> /\ tf[t] = "select"
          /\ \A s \in Transformers \ {t} : tf'[s] = tf[s]
      BY <2>1 DEF TickerFires, TransformerFinishes, TypeOK, TransformersOK
    <3>2. Flowing' => Flowing
      BY <3>1 DEF Flowing
    <3> QED BY <3>1, <3>2, QuietTurns DEF chanVars, readVars, wrVars, durable, Kept, Floor, Owes
  <2> QED BY <1>4, <2>1, TransformerTakesInTurn, TransformerFlushesInTurn, TransformerCancelledInTurn
          DEF TransformerStep
<1>5. ASSUME NEW w \in Writers, WriterStep(w) PROVE TurnsOK'
  <2>1. CASE WriterFinishes(w) \/ WriterCancelled(w) \/ WriterGets(w)
    <3>1. UNCHANGED <<work, todo, chanVars, readVars, tfVars, durable>>
      BY <2>1 DEF WriterFinishes, WriterCancelled, WriterGets
    <3>2. \A x \in Writers \ {w} : wr'[x] = wr[x]
      BY <2>1 DEF WriterFinishes, WriterCancelled, WriterGets, TypeOK, WritersOK
    <3>3. wr[w] \in {"save", "put"} => wr'[w] = "put"
      BY <2>1 DEF WriterFinishes, WriterCancelled, WriterGets, TypeOK, WritersOK
    <3>4. \A x \in Writers, p \in Partitions : Owes(x, p)' => Owes(x, p)
      BY <3>1, <3>2, <3>3 DEF Owes
    <3> QED BY <3>1, <3>4, QuietTurns DEF chanVars, readVars, tfVars, durable, Kept, Floor, Flowing
  <2> QED BY <1>5, <2>1, WriterTakesInTurn, WriterWritesInTurn, WriterRetriesInTurn, WriterPutsInTurn
          DEF WriterStep
<1> QED BY <1>1, <1>2, <1>3, <1>4, <1>5 DEF Next

\* Nothing is taken back from the target or the dead-letter file.
LEMMA KeptGrows ==
  ASSUME [Next]_vars
  PROVE  target \subseteq target' /\ dlq \subseteq dlq'
BY DEF Next, CallerCancels, CloseRecordCh, CloseBatchCh, SourceStep, SourceSends,
       SourceReturns, ReaderStep, ReaderTakes, ReaderSends,
       ReaderCancelled, ReaderDrains, ReaderFinishes, ReaderReports,
       TransformerStep, TransformerTakes, TickerFires, TransformerFinishes,
       TransformerFlushes, TransformerCancelled, WriterStep, WriterTakes, WriterFinishes,
       WriterCancelled, WriterWrites, WriterFails, WriterRetries, WriterGets, WriterPuts,
       durable, vars

\* Only SavePartition changes a checkpoint.
LEMMA CheckpointsStay ==
  ASSUME [Next]_vars, \A w \in Writers : ~WriterPuts(w)
  PROVE  cp' = cp
BY DEF Next, CallerCancels, CloseRecordCh, CloseBatchCh, SourceStep, SourceSends,
       SourceReturns, ReaderStep, ReaderTakes, ReaderSends,
       ReaderCancelled, ReaderDrains, ReaderFinishes, ReaderReports,
       TransformerStep, TransformerTakes, TickerFires, TransformerFinishes,
       TransformerFlushes, TransformerCancelled, WriterStep, WriterTakes, WriterFinishes,
       WriterCancelled, WriterWrites, WriterFails, WriterRetries, WriterGets, durable, vars

\* Every step of a call keeps the checkpoints covered: SavePartition is the only one that
\* changes one, and the rows up to the one it stores are safe.
LEMMA CoversStep ==
  ASSUME Sequential, Orderly, TurnsOK, CheckpointCovers, [Next]_vars, listed' = listed
  PROVE  CheckpointCovers'
<1>1. Kept \subseteq Kept'
  BY KeptGrows DEF Kept
<1>2. CASE \A w \in Writers : ~WriterPuts(w)
  BY <1>1, <1>2, CheckpointsStay DEF CheckpointCovers, Kept
<1>3. ASSUME NEW w \in Writers, WriterPuts(w) PROVE CheckpointCovers'
  <2> DEFINE p == seen[w][1]
             o == LastOffset(work[w], p)
  <2>1. wr[w] = "put" /\ \A q \in Partitions : cp'[q].last = cp[q].last \/ (q = p /\ cp'[q].last = o)
    BY <1>3, PutSaves DEF Orderly
  <2>2. \A x \in 1..o : <<p, x>> \in Kept
    BY <2>1, PutIsCovered DEF Orderly
  <2> HIDE DEF o, p
  <2>3. ASSUME NEW q \in Partitions, NEW x \in 1..cp'[q].last PROVE <<q, x>> \in Kept
    <3>1. CASE cp'[q].last = cp[q].last
      BY <3>1 DEF CheckpointCovers, Kept
    <3>2. CASE q = p /\ cp'[q].last = o
      BY <2>2, <3>2
    <3> QED BY <2>1, <3>1, <3>2
  <2> QED BY <1>1, <2>3 DEF CheckpointCovers, Kept
<1> QED BY <1>2, <1>3

\* What was counted as failed is in the dead-letter file, as long as that takes it.
LEMMA FailedKeptStep ==
  ASSUME Sequential, FailedKept, [Next]_vars
  PROVE  FailedKept'
<1>1. CASE failed' = failed
  BY <1>1, KeptGrows DEF FailedKept
<1>2. ASSUME NEW w \in Writers, WriterRetries(w) PROVE FailedKept'
  BY <1>2 DEF WriterRetries, FailedKept, Sequential
<1>3. failed' = failed \/ \E w \in Writers : WriterRetries(w)
  BY DEF Next, CallerCancels, CloseRecordCh, CloseBatchCh, SourceStep, SourceSends,
         SourceReturns, ReaderStep, ReaderTakes, ReaderSends,
         ReaderCancelled, ReaderDrains, ReaderFinishes, ReaderReports,
         TransformerStep, TransformerTakes, TickerFires, TransformerFinishes,
         TransformerFlushes, TransformerCancelled, WriterStep, WriterTakes, WriterFinishes,
         WriterCancelled, WriterWrites, WriterFails, WriterGets, WriterPuts, vars
<1> QED BY <1>1, <1>2, <1>3

\* No record is lost by a step of a call, but on the way to an error.
LEMMA NoneLostStep ==
  ASSUME Orderly, NoneLost, [Next]_vars
  PROVE  NoneLost'
<1>1. ASSUME ~Giving', NEW r \in Records PROVE Placed(r)' \/ r \in dlq'
  <2>1. Placed(r) \/ r \in dlq
    BY <1>1, GivingStays DEF NoneLost, Orderly
  <2>2. CASE Placed(r)
    BY <1>1, <2>2, PlacedStep DEF Orderly
  <2>3. CASE r \in dlq
    BY <2>3, KeptGrows
  <2> QED BY <2>1, <2>2, <2>3
<1> QED BY <1>1 DEF NoneLost

-----------------------------------------------------------------------------
(* A call starts, the first one or the next.                               *)

\* What survives a crash has its type.
DurableOK == target \subseteq Records /\ dlq \subseteq Records /\ cp \in [Partitions -> Checkpoints]

\* A call that starts from checkpoints of the right type is in order.
LEMMA BootOrderly ==
  ASSUME NEW CONSTANT known \in [Partitions -> Checkpoints], Boot(known), DurableOK
  PROVE  Orderly /\ failed = {} /\ ~Giving
<1> USE DEF Boot
<1>1. \A p \in Partitions : known[p].status # "Done"
  BY DEF Checkpoints
<1>2. source = [p \in Partitions |-> "reading"] /\ reader = [p \in Partitions |-> "range"]
  BY <1>1 DEF SourceStart, ReaderStart
<1>3. unread \in [Partitions -> SUBSET Offsets]
  BY <1>1 DEF Remaining
<1>4. <<>> \in Stream /\ <<>> \in Seq(Batches) /\ Len(<<>>) = 0 /\ PartitionsOf(<<>>) = {}
  BY DEF Stream, PartitionsOf
<1>5. BatchSize \in Nat \ {0} /\ RecordCap \in Nat /\ BatchCap \in Nat /\ 0 \in 0..(FlushEvery - 1)
  BY CapsType, SizesAssumption
<1>6. ReadersOK
  BY <1>2, <1>3, <1>4, <1>5 DEF ReadersOK
<1>7. ChannelsOK
  <2>1. recordCh = <<>> /\ batchCh = <<>> /\ recClosed = FALSE /\ batClosed = FALSE
    OBVIOUS
  <2>2. Len(recordCh) <= RecordCap /\ Len(batchCh) <= BatchCap
    BY <1>4, <1>5, <2>1
  <2> QED BY <1>4, <2>1, <2>2 DEF ChannelsOK
<1>8. TransformersOK
  BY <1>4, <1>5 DEF TransformersOK
<1>9. WritersOK
  BY <1>4, <1>5 DEF WritersOK
<1>10. GroupOK /\ OutcomeOK
  BY DEF GroupOK, OutcomeOK, DurableOK
<1>11. TypeOK
  BY <1>6, <1>7, <1>8, <1>9, <1>10 DEF TypeOK
<1>12. CauseOK
  BY <1>2 DEF CauseOK
<1>13. ClosedOK
  BY <1>2 DEF ClosedOK, Returned
<1>14. DrainedOK
  BY <1>2 DEF DrainedOK
<1>15. SavedOK
  BY DEF SavedOK
<1>16. failed = {} /\ ~Giving
  BY <1>2 DEF Giving
<1> QED BY <1>11, <1>12, <1>13, <1>14, <1>15, <1>16 DEF Orderly

\* The same, of the state after a restart.
LEMMA BootOrderlyNext ==
  ASSUME NEW CONSTANT known
  PROVE  (known \in [Partitions -> Checkpoints] /\ Boot(known) /\ DurableOK => Orderly)'
<1>1. known \in [Partitions -> Checkpoints] /\ Boot(known) /\ DurableOK => Orderly
  BY BootOrderly
<1> QED BY <1>1, PTL

\* The checkpoints a call starts from are the store's, or none; the floor is theirs.
Starts(known) ==
  /\ Boot(known) /\ DurableOK /\ CheckpointCovers
  /\ \A p \in Partitions : Floor[p] = known[p].last /\ known[p].last \in {0, cp[p].last}

\* It reads again every row that is not safe,
LEMMA BootReads ==
  ASSUME NEW CONSTANT known \in [Partitions -> Checkpoints], Starts(known),
         NEW p \in Partitions, NEW o \in Offsets
  PROVE  /\ <<p, o>> \in Kept \/ o \in unread[p]
         /\ o \in unread[p] => Floor[p] <= o
<1>1. known[p] \in Checkpoints /\ known[p].status # "Done" /\ known[p].last \in Nat
  BY DEF Checkpoints
<1>2. unread[p] = {x \in Offsets : x >= known[p].last}
  BY <1>1 DEF Starts, Boot, Remaining
<1>3. o \in Nat \ {0}
  BY DEF Offsets
<1>4. CASE o >= known[p].last
  BY <1>1, <1>2, <1>3, <1>4 DEF Starts
<1>5. CASE ~(o >= known[p].last)
  <2>1. known[p].last = cp[p].last /\ o \in 1..cp[p].last
    BY <1>1, <1>3, <1>5 DEF Starts
  <2> QED BY <1>2, <1>5, <2>1 DEF Starts, CheckpointCovers, Kept
<1> QED BY <1>4, <1>5

\* so all its rows are in turn, and none is lost.
LEMMA BootInv ==
  ASSUME NEW CONSTANT known
  PROVE  known \in [Partitions -> Checkpoints] /\ Starts(known) => ResumeInv
<1> SUFFICES ASSUME known \in [Partitions -> Checkpoints], Starts(known) PROVE ResumeInv
  OBVIOUS
<1>1. Orderly /\ failed = {} /\ ~Giving /\ CheckpointCovers
  BY BootOrderly DEF Starts
<1>2. FailedKept
  BY <1>1 DEF FailedKept
<1>3. NoneLost
  <2>1. ASSUME NEW r \in Records PROVE Placed(r) \/ r \in dlq
    <3>1. r[1] \in Partitions /\ r[2] \in Offsets /\ r = <<r[1], r[2]>>
      BY DEF Records
    <3>2. r \in Kept \/ r[2] \in unread[r[1]]
      BY <3>1, BootReads
    <3> QED BY <3>2 DEF Kept, Placed
  <2> QED BY <2>1 DEF NoneLost
<1>4. /\ work = [w \in Writers |-> <<>>] /\ batchCh = <<>> /\ recordCh = <<>>
      /\ batch = [t \in Transformers |-> <<>>]
      /\ held = [p \in Partitions |-> <<>>] /\ partCh = [p \in Partitions |-> <<>>]
  BY DEF Starts, Boot
<1>5. OwnRows
  BY <1>4, RangeEmpty DEF OwnRows
<1>6. WorkInTurn /\ BatchesInTurn /\ RecordsInTurn
  BY <1>4, RangeEmpty, EmptyInTurn DEF WorkInTurn, BatchesInTurn, RecordsInTurn
<1>7. ASSUME NEW p \in Partitions PROVE ReaderInTurn(p)
  <2>1. AheadOfTable(p) = {}
    <3>1. AtWriters = {} /\ Union(Range(batchCh)) = {}
      BY <1>4, RangeEmpty, UnionOf DEF AtWriters
    <3> QED BY <1>4, <3>1, RangeEmpty DEF AheadOfTable, AheadOfPart, AheadOfHeld, AheadOfRecords, AheadOfFilling
  <2>2. ASSUME NEW o \in unread[p]
        PROVE  Turn(Kept \union ({p} \X unread[p]), {}, Floor, <<p, o>>)
    <3>1. o \in Offsets /\ o \in 1..NumRows
      BY <1>1 DEF Orderly, TypeOK, ReadersOK, Offsets
    <3>2. ASSUME NEW x \in Before(<<p, o>>) PROVE x \in Kept \union ({p} \X unread[p])
      <4>1. x = <<p, x[2]>> /\ x[2] \in 1..(o - 1)
        BY DEF Before
      <4>2. x[2] \in Offsets
        BY <3>1, <4>1, SizesAssumption DEF Offsets
      <4>3. x \in Kept \/ x[2] \in unread[p]
        BY <4>1, <4>2, BootReads
      <4> QED BY <4>1, <4>3
    <3>3. Floor[p] <= o
      BY <3>1, BootReads
    <3> QED BY <3>2, <3>3 DEF Turn
  <2> QED BY <1>4, <2>1, <2>2, EmptyInTurn DEF ReaderInTurn
<1> QED BY <1>1, <1>2, <1>3, <1>5, <1>6, <1>7 DEF ResumeInv, TurnsOK, ReadersInTurn

\* The same, of the state after a restart.
LEMMA BootInvNext ==
  ASSUME NEW CONSTANT known
  PROVE  (known \in [Partitions -> Checkpoints] /\ Starts(known) => ResumeInv)'
BY BootInv, PTL

\* The first call finds no checkpoint.
LEMMA ResumeInvInit == ResumeInit => ResumeInv
<1> SUFFICES ASSUME ResumeInit PROVE ResumeInv
  OBVIOUS
<1> DEFINE none == [p \in Partitions |-> Absent]
<1>1. none \in [Partitions -> Checkpoints] /\ \A p \in Partitions : none[p].last = 0
  BY DEF Absent, Checkpoints
<1>2. cp = none /\ target = {} /\ dlq = {} /\ listed = TRUE /\ Boot(cp)
  BY DEF ResumeInit, Init
<1>3. Boot(none)
  BY <1>2
<1> HIDE DEF none
<1>4. CheckpointCovers
  BY <1>1, <1>2 DEF CheckpointCovers
<1>5. \A p \in Partitions : Floor[p] = none[p].last /\ none[p].last \in {0, cp[p].last}
  BY <1>1, <1>2 DEF Floor
<1>6. Starts(none)
  BY <1>1, <1>2, <1>3, <1>4, <1>5 DEF Starts, DurableOK
<1> QED BY <1>1, <1>6, BootInv

\* A call started again finds the store's checkpoints, or none.
LEMMA RestartBoots ==
  ASSUME OutcomeOK, Restart
  PROVE  /\ UNCHANGED durable /\ failed' = {}
         /\ \E known \in [Partitions -> Checkpoints] :
              /\ Boot(known)'
              /\ \A p \in Partitions : Floor'[p] = known[p].last /\ known[p].last \in {0, cp[p].last}
<1>1. PICK known \in Listings :
        /\ listed' = (known = cp)
        /\ unread' = [p \in Partitions |-> Remaining(known[p])]
        /\ source' = [p \in Partitions |-> SourceStart(known[p])]
        /\ reader' = [p \in Partitions |-> ReaderStart(known[p])]
  BY DEF Restart
<1>2. UNCHANGED durable /\ cp' = cp
  BY DEF Restart, durable
<1>3. known = cp \/ known = [p \in Partitions |-> Absent]
  BY DEF Listings
<1>4. known \in [Partitions -> Checkpoints]
  BY <1>3 DEF OutcomeOK, Absent, Checkpoints
<1>5. Boot(known)'
  BY <1>1 DEF Boot, Restart
<1>6. ASSUME NEW p \in Partitions PROVE Floor'[p] = known[p].last /\ known[p].last \in {0, cp[p].last}
  <2>1. CASE known = cp
    BY <1>1, <1>2, <2>1 DEF Floor
  <2>2. CASE known # cp
    <3>1. listed' = FALSE /\ known[p] = Absent
      BY <1>1, <1>3, <2>2
    <3>2. Floor' = NoFloor
      BY <3>1 DEF Floor
    <3> QED BY <3>1, <3>2 DEF NoFloor, Absent
  <2> QED BY <2>1, <2>2
<1> QED BY <1>2, <1>4, <1>5, <1>6 DEF Restart

\* So a restart keeps the invariant.
LEMMA RestartInv ==
  ASSUME ResumeInv, Restart
  PROVE  ResumeInv'
<1>1. OutcomeOK
  BY DEF ResumeInv, Orderly, TypeOK
<1>2. PICK known \in [Partitions -> Checkpoints] :
        /\ Boot(known)'
        /\ \A p \in Partitions : Floor'[p] = known[p].last /\ known[p].last \in {0, cp[p].last}
  BY <1>1, RestartBoots
<1>3. UNCHANGED <<target, dlq, cp>>
  BY DEF Restart, durable
<1>4. DurableOK' /\ CheckpointCovers'
  BY <1>1, <1>3 DEF OutcomeOK, DurableOK, ResumeInv, CheckpointCovers
<1>5. Starts(known)'
  BY <1>2, <1>3, <1>4 DEF Starts
<1> QED BY <1>5, BootInvNext

-----------------------------------------------------------------------------
(* The theorems.                                                           *)

\* A step is one of the call in progress, or starts the next.
LEMMA ResumeStep ==
  ASSUME [ResumeNext]_resumeVars
  PROVE  ([Next]_vars /\ listed' = listed) \/ Restart
BY DEF ResumeNext, Run, resumeVars, vars, readVars, chanVars, tfVars, wrVars, groupVars, durable

\* Every call is orderly, whatever the operation's state when it was started, and however
\* many transformers and writers it has: it sends on no closed channel, and reports the
\* error that stopped it.
THEOREM EveryCallIsOrderly == ResumeSpec => [](TypeOK /\ ClosedAfterLastSend /\ RootCauseReported)
<1>1. ResumeInit => Orderly
  BY InvInit DEF ResumeInit, IInv
<1>2. Orderly /\ [ResumeNext]_resumeVars => Orderly'
  <2> SUFFICES ASSUME Orderly, [ResumeNext]_resumeVars PROVE Orderly'
    OBVIOUS
  <2>1. CASE [Next]_vars
    BY <2>1, OrderlyStep
  <2>2. CASE Restart
    <3>1. OutcomeOK
      BY DEF Orderly, TypeOK
    <3>2. PICK known \in [Partitions -> Checkpoints] : Boot(known)'
      BY <2>2, <3>1, RestartBoots
    <3>3. DurableOK'
      BY <2>2, <3>1 DEF Restart, durable, OutcomeOK, DurableOK
    <3> QED BY <3>2, <3>3, BootOrderlyNext
  <2> QED BY <2>1, <2>2, ResumeStep
<1>3. Orderly => TypeOK /\ ClosedAfterLastSend /\ RootCauseReported
  BY OrderlyCloses, OrderlyReports DEF Orderly
<1> QED BY <1>1, <1>2, <1>3, PTL DEF ResumeSpec

\* The invariant is inductive.
LEMMA ResumeInvStep ==
  ASSUME Sequential, ResumeInv, [ResumeNext]_resumeVars
  PROVE  ResumeInv'
<1>1. CASE [Next]_vars /\ listed' = listed
  BY <1>1, OrderlyStep, TurnsStep, CoversStep, FailedKeptStep, NoneLostStep DEF ResumeInv
<1> QED BY <1>1, RestartInv, ResumeStep

\* So it holds throughout.
THEOREM ResumeInvariance ==
  ASSUME Sequential
  PROVE  ResumeSpec => []ResumeInv
<1>1. ResumeInv /\ [ResumeNext]_resumeVars => ResumeInv'
  BY ResumeInvStep
<1> QED BY <1>1, ResumeInvInit, PTL DEF ResumeSpec

\* With one transformer and one writer, no checkpoint passes a record that is neither in
\* the target nor in the dead-letter file, however the calls are interrupted.
THEOREM CheckpointsCover ==
  ASSUME Sequential
  PROVE  ResumeSpec => []CheckpointCovers
<1>1. ResumeInv => CheckpointCovers
  BY DEF ResumeInv
<1> QED BY <1>1, ResumeInvariance, PTL

\* A call that ends with "ok" has left no record behind.
LEMMA CompleteAfterResume ==
  ASSUME Sequential
  PROVE  ResumeInv => ResumeLosesNothing
<1> SUFFICES ASSUME ResumeInv, Outcome = "ok" PROVE Records = target \union dlq
  BY DEF ResumeLosesNothing
<1>1. Transformers # {}
  BY DEF Sequential
<1>2. ~Giving /\ \A r \in Records : Placed(r) => r \in target \union failed
  BY <1>1, EmptyAtSuccess DEF ResumeInv
<1>3. ASSUME NEW r \in Records PROVE r \in target \union dlq
  BY <1>2 DEF ResumeInv, NoneLost, FailedKept
<1>4. target \union dlq \subseteq Records
  BY DEF ResumeInv, Orderly, TypeOK, OutcomeOK
<1> QED BY <1>3, <1>4

\* The operation's last call reports success only when the calls together moved the
\* whole table.
THEOREM ResumesComplete ==
  ASSUME Sequential
  PROVE  ResumeSpec => []ResumeLosesNothing
<1>1. ResumeInv => ResumeLosesNothing
  BY CompleteAfterResume
<1> QED BY <1>1, ResumeInvariance, PTL

\* LastCommitted goes back only in a call that did not find it.
THEOREM CheckpointsAdvance ==
  ASSUME Sequential
  PROVE  ResumeSpec => CheckpointAdvances
<1>1. ResumeInv /\ [ResumeNext]_resumeVars
        => [listed => \A p \in Partitions : cp'[p].last >= cp[p].last]_resumeVars
  <2> SUFFICES ASSUME ResumeInv, [ResumeNext]_resumeVars, listed, NEW p \in Partitions
               PROVE  cp'[p].last >= cp[p].last
    OBVIOUS
  <2>1. \A q \in Partitions : cp[q].last \in Nat
    BY DEF ResumeInv, Orderly, TypeOK, OutcomeOK, Checkpoints
  <2>2. CASE cp' = cp
    BY <2>1, <2>2
  <2>3. ASSUME NEW w \in Writers, WriterPuts(w), listed' = listed PROVE cp'[p].last >= cp[p].last
    <3> DEFINE o == LastOffset(work[w], seen[w][1])
    <3>1. wr[w] = "put" /\ \A q \in Partitions : cp'[q].last = cp[q].last \/ (q = seen[w][1] /\ cp'[q].last = o)
      BY <2>3, PutSaves DEF ResumeInv, Orderly
    <3>2. o \in Nat /\ Floor[seen[w][1]] <= o
      BY <3>1, PutIsCovered DEF ResumeInv, Orderly
    <3>3. Floor[p] = cp[p].last
      BY DEF Floor
    <3> HIDE DEF o
    <3> QED BY <2>1, <3>1, <3>2, <3>3
  <2>4. CASE Restart
    BY <2>2, <2>4 DEF Restart, durable
  <2> QED BY <2>2, <2>3, <2>4, ResumeStep, CheckpointsStay
<1> QED BY <1>1, ResumeInvariance, PTL DEF ResumeSpec, CheckpointAdvances

-----------------------------------------------------------------------------
(* Resume implements Transfer.                                             *)

\* Only a writer that has not returned settles records for good.
LEMMA KeptStep ==
  ASSUME TypeOK, [Next]_vars, Kept' # Kept
  PROVE  ~Ended'
<1> USE DEF Kept
<1>1. ASSUME NEW w \in Writers, WriterWrites(w) \/ WriterFails(w) \/ WriterRetries(w) PROVE wr'[w] # "done"
  BY <1>1 DEF WriterWrites, WriterFails, WriterRetries, TypeOK, WritersOK
<1>2. ASSUME NEW w \in Writers, WriterTakes(w) \/ WriterFinishes(w) \/ WriterCancelled(w)
                                \/ WriterGets(w) \/ WriterPuts(w)
      PROVE  UNCHANGED <<target, dlq>>
  BY <1>2 DEF WriterTakes, WriterFinishes, WriterCancelled, WriterGets, WriterPuts, durable
<1>3. ASSUME NEW p \in Partitions, SourceStep(p) \/ ReaderStep(p) PROVE UNCHANGED <<target, dlq>>
  BY <1>3 DEF SourceStep, ReaderStep, SourceSends, SourceReturns, ReaderTakes, ReaderSends,
              ReaderCancelled, ReaderDrains, ReaderFinishes, ReaderReports, durable
<1>4. ASSUME NEW t \in Transformers, TransformerStep(t) PROVE UNCHANGED <<target, dlq>>
  BY <1>4 DEF TransformerStep, TransformerTakes, TickerFires, TransformerFinishes,
              TransformerFlushes, TransformerCancelled, durable
<1>5. CASE CallerCancels \/ CloseRecordCh \/ CloseBatchCh \/ UNCHANGED vars
  BY <1>5 DEF CallerCancels, CloseRecordCh, CloseBatchCh, vars, durable
<1> QED BY <1>1, <1>2, <1>3, <1>4, <1>5 DEF Next, WriterStep, Ended

\* A restart leaves what is settled alone, and the call is running again.
LEMMA RestartRuns ==
  ASSUME OutcomeOK, Restart
  PROVE  Outcome' = "running" /\ Kept' = Kept
<1>1. PICK known \in [Partitions -> Checkpoints] : Boot(known)'
  BY RestartBoots
<1>2. PICK p \in Partitions : TRUE
  BY WorkersAssumption
<1>3. known[p].status # "Done"
  BY DEF Checkpoints
<1>4. reader'[p] = "range"
  BY <1>1, <1>3 DEF Boot, ReaderStart
<1> QED BY <1>4 DEF Outcome, Ended, Restart, durable, Kept

\* Over all its calls the operation is a transfer: what the target and the dead-letter
\* file hold stays, and no call reports success before they hold every record.
THEOREM ResumeImplements ==
  ASSUME Sequential
  PROVE  ResumeSpec => ImplementsDurableTransfer
<1>1. ResumeInit => Durable!Init
  <2> SUFFICES ASSUME ResumeInit PROVE Durable!Init
    OBVIOUS
  <2>1. target \union dlq = {}
    BY DEF ResumeInit, Init
  <2>2. PICK p \in Partitions : TRUE
    BY WorkersAssumption
  <2>3. reader[p] = "range"
    BY DEF ResumeInit, Init, Boot, ReaderStart, Absent
  <2> QED BY <2>1, <2>3 DEF Durable!Init, Outcome, Ended
<1>2. ResumeInv => ResumeLosesNothing
  BY CompleteAfterResume
<1>3. ResumeInv' => ResumeLosesNothing'
  BY <1>2, PTL
<1>4. ResumeInv /\ ResumeInv' /\ [ResumeNext]_resumeVars => [Durable!Next]_Durable!vars
  <2> SUFFICES ASSUME ResumeInv, ResumeInv', [ResumeNext]_resumeVars PROVE [Durable!Next]_Durable!vars
    OBVIOUS
  <2>1. TypeOK /\ OutcomeOK
    BY DEF ResumeInv, Orderly, TypeOK
  <2>2. CASE [Next]_vars /\ Ended
    <3>1. UNCHANGED Kept /\ Outcome' = Outcome
      BY <2>1, <2>2, EndedStays DEF Outcome, Kept
    <3> QED BY <3>1 DEF Durable!vars, Kept
  <2>3. CASE [Next]_vars /\ ~Ended /\ ~Ended'
    <3>1. Kept \subseteq Kept' /\ Kept' \subseteq Records
      BY <2>3, KeptGrows DEF ResumeInv, Orderly, TypeOK, OutcomeOK, Kept
    <3>2. Outcome = "running" /\ Outcome' = "running"
      BY <2>3 DEF Outcome
    <3>3. Kept' = Kept \union (Kept' \ Kept) /\ (Kept' \ Kept) \in SUBSET Records
      BY <3>1
    <3>4. Durable!Settle
      BY <3>2, <3>3 DEF Durable!Settle, Kept
    <3> QED BY <3>4 DEF Durable!Next
  <2>4. CASE [Next]_vars /\ ~Ended /\ Ended'
    <3>1. Kept' = Kept
      BY <2>1, <2>4, KeptStep
    <3>2. Outcome = "running" /\ Outcome' \in {"ok", "error"}
      BY <2>4 DEF Outcome
    <3>3. Outcome' = "ok" => Kept' = Records
      BY <1>3 DEF ResumeLosesNothing, Kept
    <3>4. Durable!End
      BY <3>1, <3>2, <3>3 DEF Durable!End, Kept
    <3> QED BY <3>4 DEF Durable!Next
  <2>5. CASE Restart
    <3>1. Outcome' = "running" /\ Kept' = Kept
      BY <2>1, <2>5, RestartRuns
    <3> QED BY <3>1 DEF Durable!CallAgain, Durable!Next, Kept
  <2> QED BY <2>2, <2>3, <2>4, <2>5, ResumeStep
<1> QED BY <1>1, <1>4, ResumeInvariance, PTL DEF ResumeSpec, ImplementsDurableTransfer, Durable!Spec
=============================================================================
