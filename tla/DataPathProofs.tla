--------------------------- MODULE DataPathProofs ---------------------------
(***************************************************************************)
(* Proofs about DataPath, for any records, batch size and bounds: what a   *)
(* target makes of a batch of any length, by induction along the batch,    *)
(* and the invariants that rest on it.                                     *)
(***************************************************************************)
EXTENDS DataPath, DataLemmas

-----------------------------------------------------------------------------
(* Running is a recursive function: that there is one, by induction.       *)

\* Entry n of a run h, from the entry before it.
After(h, step, start, s, n) == IF n = 0 THEN start ELSE step[h[n - 1]][s[n]]

\* A set that holds 0, and with a number its successor up to last, holds them all.
LEMMA BoundedInduction ==
  ASSUME NEW last \in Nat, NEW P, 0 \in P, \A n \in 1..last : n - 1 \in P => n \in P
  PROVE  \A n \in 0..last : n \in P
<1> DEFINE T == {n \in Nat : n \in 0..last => n \in P}
<1>1. 0 \in T
  OBVIOUS
<1>2. ASSUME NEW n \in Nat, n \in T PROVE n + 1 \in T
  <2> SUFFICES ASSUME n + 1 \in 0..last PROVE n + 1 \in P
    OBVIOUS
  <2>1. n + 1 \in 1..last /\ (n + 1) - 1 = n /\ n \in P
    BY <1>2
  <2> QED BY <2>1
<1> HIDE DEF T
<1>3. \A n \in Nat : n \in T
  BY <1>1, <1>2, SetInduction
<1> QED BY <1>3 DEF T

\* There is a run of every length.
LEMMA RunsExist ==
  ASSUME NEW step, NEW start, NEW s
  PROVE  \A n \in Nat : \E h : h = [i \in 0..n |-> After(h, step, start, s, i)]
<1> DEFINE Has(n) == \E h : h = [i \in 0..n |-> After(h, step, start, s, i)]
           T == {n \in Nat : Has(n)}
<1>1. 0 \in T
  <2> DEFINE h == [i \in 0..0 |-> start]
  <2>1. h = [i \in 0..0 |-> After(h, step, start, s, i)]
    BY DEF After
  <2> HIDE DEF h
  <2>2. Has(0)
    BY <2>1
  <2> QED BY <2>2
<1>2. ASSUME NEW n \in Nat, n \in T PROVE n + 1 \in T
  <2>1. PICK g : g = [i \in 0..n |-> After(g, step, start, s, i)]
    BY <1>2
  <2> DEFINE h == [i \in 0..(n + 1) |-> IF i = n + 1 THEN After(g, step, start, s, n + 1) ELSE g[i]]
  <2>2. ASSUME NEW i \in 0..(n + 1) PROVE h[i] = After(h, step, start, s, i)
    <3>1. i # 0 => h[i - 1] = g[i - 1]
      OBVIOUS
    <3>2. After(h, step, start, s, i) = After(g, step, start, s, i)
      BY <3>1 DEF After
    <3>3. i # n + 1 => g[i] = After(g, step, start, s, i)
      BY <2>1
    <3> QED BY <3>2, <3>3
  <2>3. h = [i \in 0..(n + 1) |-> After(h, step, start, s, i)]
    BY <2>2
  <2> HIDE DEF h
  <2>4. Has(n + 1)
    BY <2>3
  <2> QED BY <2>4
<1> HIDE DEF T
<1>3. \A n \in Nat : n \in T
  BY <1>1, <1>2, SetInduction
<1> QED BY <1>3 DEF T

\* Running is what its definition says.
LEMMA RunningIs ==
  ASSUME NEW step, NEW start, NEW s, Len(s) \in Nat
  PROVE  /\ Running(step, start, s)[0] = start
         /\ \A n \in 1..Len(s) : Running(step, start, s)[n] = step[Running(step, start, s)[n - 1]][s[n]]
<1> DEFINE h == Running(step, start, s)
<1>1. PICK g : g = [i \in 0..Len(s) |-> After(g, step, start, s, i)]
  BY RunsExist
<1>2. g = [i \in 0..Len(s) |-> IF i = 0 THEN start ELSE step[g[i - 1]][s[i]]]
  BY <1>1 DEF After
<1>3. h = [i \in 0..Len(s) |-> IF i = 0 THEN start ELSE step[h[i - 1]][s[i]]]
  BY <1>2, Zenon DEF Running
<1> HIDE DEF h
<1>4. h[0] = start /\ \A n \in 1..Len(s) : h[n] = step[h[n - 1]][s[n]]
  BY <1>3
<1> QED BY <1>4 DEF h

-----------------------------------------------------------------------------
(* What the targets make of a batch.                                       *)

\* The jobs whose records share rows, as AckedStays excepts them.
Shares ==
  \/ job.target = "cassandra" /\ job.key = "redacted"
  \/ job.target = "mongo" /\ job.source = "iceberg"
  \/ job.target = "mongo" /\ job.source = "postgres" /\ job.key = "shared"

\* The jobs that OnceUnlessAppended is about.
Keyed == job.target # "iceberg" /\ (job.target = "postgres" => job.key # "none")

RowsApart == \A q, r \in Entries : SameRow(q, r) => q = r

\* Between two states of the target: what was there still is; the first n of s are there;
\* nothing is there twice.
Keeps(before, after) == \A q \in Entries : before[q] > 0 => after[q] > 0
Has(held, s, n) == \A i \in 1..n : held[s[i]] > 0
Single(held) == \A q \in Entries : held[q] <= 1

\* A job has one of the four targets.
LEMMA JobTarget == ASSUME job \in Jobs PROVE job.target \in Engines
BY DEF Jobs, AllJobs

\* Where records do not share rows, each entry has one of its own.
LEMMA Apart == ASSUME ~Shares, Upserts PROVE RowsApart
<1> SUFFICES ASSUME NEW q \in Entries, NEW e \in Entries, SameRow(q, e) PROVE q = e
  BY DEF RowsApart
<1>1. q = <<q[1], q[2]>> /\ e = <<e[1], e[2]>>
  BY DEF Entries
<1>2. q[1] = e[1] /\ q[2] = e[2]
  BY DEF Shares, Upserts, SameRow, IdOf, KeyOf, Entries
<1> QED BY <1>1, <1>2

\* One more row.
LEMMA AddsIs ==
  ASSUME NEW held \in Holdings, NEW r \in Entries
  PROVE  /\ Adds(held, r) \in Holdings /\ Keeps(held, Adds(held, r)) /\ Adds(held, r)[r] > 0
         /\ Single(held) /\ held[r] = 0 => Single(Adds(held, r))
<1>1. \A q \in Entries : held[q] \in 0..2
  BY DEF Holdings
<1>2. Adds(held, r) = [q \in Entries |-> IF q = r THEN IF held[r] = 0 THEN 1 ELSE 2 ELSE held[q]]
  BY DEF Adds, Holdings
<1> QED BY <1>1, <1>2 DEF Holdings, Keeps, Single

\* A row replaced, where each entry has its own or not.
LEMMA ReplacesIs ==
  ASSUME NEW held \in Holdings, NEW r \in Entries
  PROVE  /\ Replaces(held, r) \in Holdings /\ Replaces(held, r)[r] > 0
         /\ RowsApart => Keeps(held, Replaces(held, r))
         /\ Single(held) => Single(Replaces(held, r))
<1>1. \A q \in Entries : held[q] \in 0..2
  BY DEF Holdings
<1> QED BY <1>1 DEF Holdings, Keeps, Single, Replaces, RowsApart

\* The positions of a sequence of entries.
LEMMA BatchIs == 
  ASSUME NEW s \in Seq(Entries)
  PROVE  Len(s) \in Nat /\ DOMAIN s = 1..Len(s) /\ \A n \in 1..Len(s) : s[n] \in Entries
BY LenProperties, ElementOfSeq

\* Adding a batch goes row by row, keeps what was there and adds them all.
LEMMA AddingIs ==
  ASSUME NEW held \in Holdings, NEW s \in Seq(Entries)
  PROVE  /\ Adding(held, s)[0] = held
         /\ \A n \in 1..Len(s) : Adding(held, s)[n] = Adds(Adding(held, s)[n - 1], s[n])
         /\ \A n \in 0..Len(s) : /\ Adding(held, s)[n] \in Holdings
                                 /\ Keeps(held, Adding(held, s)[n]) /\ Has(Adding(held, s)[n], s, n)
<1> DEFINE step == [h \in Holdings |-> [e \in Entries |-> Adds(h, e)]]
           run == Adding(held, s)
<1>1. run[0] = held /\ \A n \in 1..Len(s) : run[n] = step[run[n - 1]][s[n]]
  <2> HIDE DEF step
  <2>1. Adding(held, s) = Running(step, held, s)
    BY DEF Adding, step
  <2> QED BY <2>1, RunningIs, BatchIs
<1> HIDE DEF run
<1>2. ASSUME NEW n \in 1..Len(s), run[n - 1] \in Holdings PROVE run[n] = Adds(run[n - 1], s[n])
  BY <1>1, <1>2, BatchIs
<1> HIDE DEF step
<1> DEFINE P == {n \in 0..Len(s) : run[n] \in Holdings /\ Keeps(held, run[n]) /\ Has(run[n], s, n)}
<1>3. 0 \in P
  BY <1>1, BatchIs DEF Keeps, Has
<1>4. ASSUME NEW n \in 1..Len(s), n - 1 \in P PROVE n \in P
  <2>1. run[n - 1] \in Holdings /\ run[n] = Adds(run[n - 1], s[n]) /\ s[n] \in Entries
    BY <1>2, <1>4, BatchIs
  <2>2. run[n] \in Holdings /\ Keeps(run[n - 1], run[n]) /\ run[n][s[n]] > 0
    BY <2>1, AddsIs
  <2>3. Keeps(held, run[n])
    BY <1>4, <2>2 DEF Keeps
  <2>4. Has(run[n], s, n)
    <3>1. ASSUME NEW i \in 1..n PROVE run[n][s[i]] > 0
      <4>1. CASE i = n
        BY <2>2, <4>1
      <4>2. CASE i # n
        <5>1. i \in 1..(n - 1) /\ s[i] \in Entries
          BY <4>2, BatchIs
        <5> QED BY <1>4, <2>2, <5>1 DEF Keeps, Has
      <4> QED BY <4>1, <4>2
    <3> QED BY <3>1 DEF Has
  <2> QED BY <2>2, <2>3, <2>4, BatchIs
<1> HIDE DEF P
<1>5. \A n \in 0..Len(s) : n \in P
  BY <1>3, <1>4, BoundedInduction, BatchIs
<1>6. \A n \in 0..Len(s) : run[n] \in Holdings /\ Keeps(held, run[n]) /\ Has(run[n], s, n)
  BY <1>5 DEF P
<1>7. \A n \in 1..Len(s) : run[n] = Adds(run[n - 1], s[n])
  BY <1>2, <1>6, BatchIs
<1> QED BY <1>1, <1>6, <1>7 DEF run

\* Replacing a batch by key goes row by row too; where each has a row of its own it
\* keeps what was there and puts them all in.
LEMMA ReplacingIs ==
  ASSUME NEW held \in Holdings, NEW s \in Seq(Entries)
  PROVE  \A n \in 0..Len(s) :
           /\ Replacing(held, s)[n] \in Holdings
           /\ RowsApart => Keeps(held, Replacing(held, s)[n]) /\ Has(Replacing(held, s)[n], s, n)
           /\ Single(held) => Single(Replacing(held, s)[n])
<1> DEFINE step == [h \in Holdings |-> [e \in Entries |-> Replaces(h, e)]]
           run == Replacing(held, s)
<1>1. run[0] = held /\ \A n \in 1..Len(s) : run[n] = step[run[n - 1]][s[n]]
  <2> HIDE DEF step
  <2>1. Replacing(held, s) = Running(step, held, s)
    BY DEF Replacing, step
  <2> QED BY <2>1, RunningIs, BatchIs
<1> HIDE DEF run
<1>2. ASSUME NEW n \in 1..Len(s), run[n - 1] \in Holdings PROVE run[n] = Replaces(run[n - 1], s[n])
  BY <1>1, <1>2, BatchIs
<1> HIDE DEF step
<1> DEFINE Good(n) == /\ run[n] \in Holdings
                      /\ RowsApart => Keeps(held, run[n]) /\ Has(run[n], s, n)
                      /\ Single(held) => Single(run[n])
           P == {n \in 0..Len(s) : Good(n)}
<1>3. 0 \in P
  BY <1>1, BatchIs DEF Keeps, Has
<1>4. ASSUME NEW n \in 1..Len(s), n - 1 \in P PROVE n \in P
  <2>1. run[n - 1] \in Holdings /\ run[n] = Replaces(run[n - 1], s[n]) /\ s[n] \in Entries
    BY <1>2, <1>4, BatchIs
  <2>2. /\ run[n] \in Holdings /\ run[n][s[n]] > 0
        /\ RowsApart => Keeps(run[n - 1], run[n])
        /\ Single(run[n - 1]) => Single(run[n])
    BY <2>1, ReplacesIs
  <2>3. ASSUME RowsApart PROVE Keeps(held, run[n]) /\ Has(run[n], s, n)
    <3>1. ASSUME NEW i \in 1..n PROVE run[n][s[i]] > 0
      <4>1. CASE i = n
        BY <2>2, <4>1
      <4>2. CASE i # n
        <5>1. i \in 1..(n - 1) /\ s[i] \in Entries
          BY <4>2, BatchIs
        <5> QED BY <1>4, <2>2, <2>3, <5>1 DEF Keeps, Has
      <4> QED BY <4>1, <4>2
    <3>2. Keeps(held, run[n])
      BY <1>4, <2>2, <2>3 DEF Keeps
    <3> QED BY <3>1, <3>2 DEF Has
  <2>4. n \in 0..Len(s)
    BY BatchIs
  <2> QED BY <1>4, <2>2, <2>3, <2>4
<1> HIDE DEF P
<1>5. \A n \in 0..Len(s) : n \in P
  BY <1>3, <1>4, BoundedInduction, BatchIs
<1> QED BY <1>5 DEF P, run

\* So does a bulk write, which skips the entries whose key another has; with none of
\* those it has put in all.
LEMMA UpsertingIs ==
  ASSUME NEW held \in Holdings, NEW s \in Seq(Entries)
  PROVE  \A n \in 0..Len(s) :
           /\ Upserting(held, s)[n] \in Holdings
           /\ RowsApart => Keeps(held, Upserting(held, s)[n])
           /\ RowsApart /\ (\A i \in 1..Len(s) : ~MongoClashes(Upserting(held, s)[i - 1], s[i]))
                => Has(Upserting(held, s)[n], s, n)
           /\ Single(held) => Single(Upserting(held, s)[n])
<1> DEFINE step == [h \in Holdings |-> [e \in Entries |-> IF MongoClashes(h, e) THEN h ELSE Replaces(h, e)]]
           run == Upserting(held, s)
<1>1. run[0] = held /\ \A n \in 1..Len(s) : run[n] = step[run[n - 1]][s[n]]
  <2> HIDE DEF step
  <2>1. Upserting(held, s) = Running(step, held, s)
    BY DEF Upserting, step
  <2> QED BY <2>1, RunningIs, BatchIs
<1> HIDE DEF run
<1>2. ASSUME NEW n \in 1..Len(s), run[n - 1] \in Holdings
      PROVE  run[n] = IF MongoClashes(run[n - 1], s[n]) THEN run[n - 1] ELSE Replaces(run[n - 1], s[n])
  BY <1>1, <1>2, BatchIs
<1> HIDE DEF step
<1> DEFINE Free == \A i \in 1..Len(s) : ~MongoClashes(run[i - 1], s[i])
           Good(n) == /\ run[n] \in Holdings
                      /\ RowsApart => Keeps(held, run[n])
                      /\ RowsApart /\ Free => Has(run[n], s, n)
                      /\ Single(held) => Single(run[n])
           P == {n \in 0..Len(s) : Good(n)}
<1>3. 0 \in P
  BY <1>1, BatchIs DEF Keeps, Has
<1>4. ASSUME NEW n \in 1..Len(s), n - 1 \in P PROVE n \in P
  <2>1. /\ run[n - 1] \in Holdings /\ s[n] \in Entries
        /\ run[n] = IF MongoClashes(run[n - 1], s[n]) THEN run[n - 1] ELSE Replaces(run[n - 1], s[n])
    BY <1>2, <1>4, BatchIs
  <2>2. /\ run[n] \in Holdings
        /\ Free => run[n][s[n]] > 0
        /\ RowsApart => Keeps(run[n - 1], run[n])
        /\ Single(run[n - 1]) => Single(run[n])
    BY <2>1, ReplacesIs DEF Keeps
  <2> HIDE DEF Free
  <2>3. ASSUME RowsApart, Free PROVE Has(run[n], s, n)
    <3>1. ASSUME NEW i \in 1..n PROVE run[n][s[i]] > 0
      <4>1. CASE i = n
        BY <2>2, <2>3, <4>1
      <4>2. CASE i # n
        <5>1. i \in 1..(n - 1) /\ s[i] \in Entries
          BY <4>2, BatchIs
        <5> QED BY <1>4, <2>2, <2>3, <5>1 DEF Keeps, Has
      <4> QED BY <4>1, <4>2
    <3> QED BY <3>1 DEF Has
  <2>4. ASSUME RowsApart PROVE Keeps(held, run[n])
    BY <1>4, <2>2, <2>4 DEF Keeps
  <2>5. n \in 0..Len(s)
    BY BatchIs
  <2> QED BY <1>4, <2>2, <2>3, <2>4, <2>5
<1> HIDE DEF P
<1>5. \A n \in 0..Len(s) : n \in P
  BY <1>3, <1>4, BoundedInduction, BatchIs
<1> QED BY <1>5 DEF P, run

\* COPY into a table with a key: without a clash no row is there twice.
LEMMA CopyingIs ==
  ASSUME NEW held \in Holdings, NEW s \in Seq(Entries), Single(held), job.key # "none",
         \A i \in 1..Len(s) : ~PostgresClashes(Adding(held, s)[i - 1], s[i])
  PROVE  Single(Adding(held, s)[Len(s)])
<1> DEFINE run == Adding(held, s)
           P == {n \in 0..Len(s) : Single(run[n])}
<1>1. 0 \in P
  BY AddingIs, BatchIs
<1>2. ASSUME NEW n \in 1..Len(s), n - 1 \in P PROVE n \in P
  <2> HIDE DEF run
  <2>1. n - 1 \in 0..Len(s) /\ n \in 0..Len(s) /\ s[n] \in Entries
    BY BatchIs
  <2>2. run[n - 1] \in Holdings /\ run[n] = Adds(run[n - 1], s[n])
    BY <2>1, AddingIs DEF run
  <2>3. run[n - 1][s[n]] = 0
    BY <2>1, <2>2 DEF PostgresClashes, Holdings, run
  <2> QED BY <1>2, <2>1, <2>2, <2>3, AddsIs
<1> HIDE DEF P
<1>3. \A n \in 0..Len(s) : n \in P
  BY <1>1, <1>2, BoundedInduction, BatchIs
<1> QED BY <1>3, BatchIs DEF P

\* What every target makes of a batch.
LEMMA TakenIs ==
  ASSUME job \in Jobs, NEW held \in Holdings, NEW s \in Seq(Entries)
  PROVE  /\ Taken(held, s) \in Holdings
         /\ ~Shares => Keeps(held, Taken(held, s))
         /\ ~Shares /\ ~AnyClash(held, s) => Has(Taken(held, s), s, Len(s))
         /\ Keyed /\ Single(held) => Single(Taken(held, s))
<1>0. Len(s) \in 0..Len(s) /\ DOMAIN s = 1..Len(s) /\ Keeps(held, held)
  BY BatchIs DEF Keeps
<1>1. CASE job.target = "postgres"
  <2>1. Taken(held, s) = IF AnyClash(held, s) THEN held ELSE Adding(held, s)[Len(s)]
    BY <1>1 DEF Taken, PostgresCopies
  <2>2. Keyed /\ Single(held) /\ ~AnyClash(held, s) => Single(Adding(held, s)[Len(s)])
    BY <1>0, <1>1, CopyingIs DEF AnyClash, Keyed
  <2> QED BY <1>0, <2>1, <2>2, AddingIs
<1>2. CASE job.target = "mongo"
  <2>1. Taken(held, s) = Upserting(held, s)[Len(s)] /\ Upserts
    BY <1>2 DEF Taken, MongoUpserts, Upserts
  <2>2. ~AnyClash(held, s) => \A i \in 1..Len(s) : ~MongoClashes(Upserting(held, s)[i - 1], s[i])
    BY <1>0, <1>2 DEF AnyClash
  <2> QED BY <1>0, <2>1, <2>2, UpsertingIs, Apart
<1>3. CASE job.target = "cassandra"
  <2>1. Taken(held, s) = Replacing(held, s)[Len(s)] /\ Upserts
    BY <1>3 DEF Taken, CassandraInserts, Upserts
  <2> QED BY <1>0, <2>1, ReplacingIs, Apart
<1>4. CASE job.target = "iceberg"
  <2>1. Taken(held, s) = Adding(held, s)[Len(s)] /\ ~Keyed
    BY <1>4 DEF Taken, IcebergCommits, Keyed
  <2> QED BY <1>0, <2>1, AddingIs
<1> QED BY <1>1, <1>2, <1>3, <1>4, JobTarget DEF Engines

\* A part of a batch is a batch of the same entries.
LEMMA PartsAre ==
  ASSUME NEW s \in Seq(Entries), NEW part \in Parts(s)
  PROVE  part \in Seq(Entries)
<1>1. PICK f \in SeqOf(DOMAIN s, Len(s)) : part = [i \in DOMAIN f |-> s[f[i]]]
  BY DEF Parts
<1>2. PICK m \in 0..Len(s) : f \in [1..m -> DOMAIN s]
  BY <1>1 DEF SeqOf
<1>3. m \in Nat /\ part = [i \in 1..m |-> s[f[i]]] /\ \A i \in 1..m : s[f[i]] \in Entries
  BY <1>1, <1>2, BatchIs
<1> QED BY <1>3, IsASeq

\* What a failed WriteBatch leaves.
LEMMA LeftoversAre ==
  ASSUME job \in Jobs, NEW held \in Holdings, NEW s \in Seq(Entries), NEW after \in Leftovers(held, s)
  PROVE  /\ after \in Holdings
         /\ ~Shares => Keeps(held, after)
         /\ Keyed /\ Single(held) => Single(after)
<1>1. Keeps(held, held)
  BY DEF Keeps
<1>2. CASE after = held
  BY <1>1, <1>2
<1>3. CASE \E part \in Parts(s) : after = Taken(held, part)
  BY <1>3, PartsAre, TakenIs
<1>4. CASE after = Taken(held, s)
  BY <1>4, TakenIs
<1> QED BY <1>2, <1>3, <1>4 DEF Leftovers

-----------------------------------------------------------------------------
(* The steps that write.                                                   *)

\* What a step does to the rows, to what is acknowledged and to the causes: rows stay,
\* unless records share them or there is a cause; no cause is forgotten.
Kept ==
  /\ rows' \in Holdings /\ acked' \subseteq Entries
  /\ ~Shares => Keeps(rows, rows') /\ \A r \in acked' \ acked : rows'[r] > 0
  /\ Keyed /\ Single(rows) => Single(rows')
  /\ causes' = {} => causes = {} /\ Keeps(rows, rows')

\* Something was overwritten, or everything is kept.
LEMMA OverwrittenOrKept ==
  ASSUME NEW before \in Holdings, NEW after \in Holdings, Overwritten(before, after) = {}
  PROVE  Keeps(before, after)
<1>1. ~\E r \in Entries : before[r] > 0 /\ after[r] = 0
  BY Zenon DEF Overwritten
<1> QED BY <1>1 DEF Holdings, Keeps

\* The entries of a batch are those at its positions.
LEMMA RangeIs ==
  ASSUME NEW s \in Seq(Entries)
  PROVE  Range(s) = {s[i] : i \in 1..Len(s)} /\ Range(s) \subseteq Entries
BY BatchIs DEF Range

\* A WriteBatch that succeeds keeps the rows, and without a cause it has put all in.
LEMMA Succeeds ==
  ASSUME job \in Jobs, rows \in Holdings, acked \subseteq Entries,
         NEW s \in Seq(Entries), NEW others, WriteSucceeds(s, others)
  PROVE  /\ Kept
         /\ causes' = {} => others = {} /\ \A r \in Range(s) : rows'[r] > 0
<1>1. /\ rows' = Taken(rows, s) /\ ~AnyClash(rows, s) /\ acked' = acked \cup Range(s)
      /\ causes' = causes \cup others \cup Overwritten(rows, rows') \cup OverwrittenInBatch(s, rows')
  BY DEF WriteSucceeds, Accepts
<1>2. /\ rows' \in Holdings
      /\ ~Shares => Keeps(rows, rows') /\ Has(rows', s, Len(s))
      /\ Keyed /\ Single(rows) => Single(rows')
  BY <1>1, TakenIs
<1>3. ASSUME causes' = {} PROVE /\ causes = {} /\ others = {} /\ Keeps(rows, rows')
                                /\ \A r \in Range(s) : rows'[r] > 0
  <2>1. /\ causes = {} /\ others = {} /\ Overwritten(rows, rows') = {} /\ OverwrittenInBatch(s, rows') = {}
    BY <1>1, <1>3
  <2>2. ~\E i \in DOMAIN s : rows'[s[i]] = 0
    BY <2>1, Zenon DEF OverwrittenInBatch
  <2>3. \A r \in Range(s) : rows'[r] > 0
    BY <1>2, <2>2, RangeIs, BatchIs DEF Holdings
  <2> QED BY <1>2, <2>1, <2>3, OverwrittenOrKept
<1>4. ~Shares => \A r \in acked' \ acked : rows'[r] > 0
  BY <1>1, <1>2, RangeIs DEF Has
<1> QED BY <1>1, <1>2, <1>3, <1>4, RangeIs DEF Kept

\* One that fails keeps them as well, if what it overwrote is among the causes.
LEMMA FailsToWrite ==
  ASSUME job \in Jobs, rows \in Holdings, acked \subseteq Entries,
         NEW s \in Seq(Entries), WriteFails(s),
         causes' = {} => causes = {} /\ Overwritten(rows, rows') = {}
  PROVE  Kept
<1>1. rows' \in Leftovers(rows, s) /\ acked' = acked
  BY DEF WriteFails
<1>2. /\ rows' \in Holdings
      /\ ~Shares => Keeps(rows, rows')
      /\ Keyed /\ Single(rows) => Single(rows')
  BY <1>1, LeftoversAre
<1> QED BY <1>1, <1>2, OverwrittenOrKept DEF Kept

\* A step that does not write keeps them if it forgets no cause.
LEMMA WritesNothing ==
  ASSUME rows \in Holdings, acked \subseteq Entries,
         rows' = rows, acked' = acked, causes' = {} => causes = {}
  PROVE  Kept
BY DEF Kept, Keeps

\* What a record becomes is a row the table may have: mapped in every job, restored where
\* the target takes it.
LEMMA MappedIs == \A r \in Records : Mapped(r) \in Entries
BY DEF Mapped, Entries

LEMMA RestoredIs == job.target # "mongo" => \A r \in Records : Restored(r) \in Entries
BY DEF Restored, Entries

\* A batch of records becomes one of entries.
LEMMA AllMappedIs ==
  ASSUME NEW s \in Seq(Records)
  PROVE  AllMapped(s) \in Seq(Entries) /\ \A r \in Range(s) : Mapped(r) \in Range(AllMapped(s))
<1>1. Len(s) \in Nat /\ DOMAIN s = 1..Len(s) /\ \A n \in 1..Len(s) : s[n] \in Records
  BY LenProperties, ElementOfSeq
<1>2. AllMapped(s) = [i \in 1..Len(s) |-> Mapped(s[i])]
  BY <1>1 DEF AllMapped
<1>3. AllMapped(s) \in Seq(Entries)
  BY <1>1, <1>2, MappedIs, IsASeq
<1>4. ASSUME NEW r \in Range(s) PROVE Mapped(r) \in Range(AllMapped(s))
  <2>1. PICK i \in 1..Len(s) : s[i] = r
    BY <1>4, RangeMember
  <2>2. AllMapped(s)[i] = Mapped(r) /\ i \in DOMAIN AllMapped(s)
    BY <1>2, <2>1
  <2> QED BY <2>2, Zenon DEF Range
<1> QED BY <1>3, <1>4

LEMMA AllRestoredIs ==
  ASSUME NEW s \in Seq(Records), job.target # "mongo"
  PROVE  AllRestored(s) \in Seq(Entries) /\ \A r \in Range(s) : Restored(r) \in Range(AllRestored(s))
<1>1. Len(s) \in Nat /\ DOMAIN s = 1..Len(s) /\ \A n \in 1..Len(s) : s[n] \in Records
  BY LenProperties, ElementOfSeq
<1>2. AllRestored(s) = [i \in 1..Len(s) |-> Restored(s[i])]
  BY <1>1 DEF AllRestored
<1>3. AllRestored(s) \in Seq(Entries)
  BY <1>1, <1>2, RestoredIs, IsASeq
<1>4. ASSUME NEW r \in Range(s) PROVE Restored(r) \in Range(AllRestored(s))
  <2>1. PICK i \in 1..Len(s) : s[i] = r
    BY <1>4, RangeMember
  <2>2. AllRestored(s)[i] = Restored(r) /\ i \in DOMAIN AllRestored(s)
    BY <1>2, <2>1
  <2> QED BY <2>2, Zenon DEF Range
<1> QED BY <1>3, <1>4

\* The lines of our table that a replay writes are all those of its batch.
LEMMA OursAre ==
  ASSUME NEW s \in Seq(Lines)
  PROVE  /\ Ours(s) \in Seq(Entries)
         /\ \A i \in 1..Len(s) : s[i] \in Records => Mapped(s[i]) \in Range(Ours(s))
<1> DEFINE step == [t \in Seq(Entries) |-> [x \in Lines |-> IF x \in Records THEN Append(t, Mapped(x)) ELSE t]]
           run == Running(step, <<>>, s)
           P == {n \in 0..Len(s) : /\ run[n] \in Seq(Entries)
                                   /\ \A i \in 1..n : s[i] \in Records => Mapped(s[i]) \in Range(run[n])}
<1>1. Len(s) \in Nat /\ \A n \in 1..Len(s) : s[n] \in Lines
  BY LenProperties, ElementOfSeq
<1>2. run[0] = <<>> /\ \A n \in 1..Len(s) : run[n] = step[run[n - 1]][s[n]]
  <2> HIDE DEF step
  <2> QED BY <1>1, RunningIs
<1> HIDE DEF run
<1>3. ASSUME NEW n \in 1..Len(s), run[n - 1] \in Seq(Entries)
      PROVE  run[n] = IF s[n] \in Records THEN Append(run[n - 1], Mapped(s[n])) ELSE run[n - 1]
  BY <1>1, <1>2, <1>3
<1> HIDE DEF step
<1>4. 0 \in P
  <2>1. run[0] \in Seq(Entries) /\ 0 \in 0..Len(s)
    BY <1>1, <1>2, EmptySeq
  <2> QED BY <2>1
<1>5. ASSUME NEW n \in 1..Len(s), n - 1 \in P PROVE n \in P
  <2>1. /\ run[n - 1] \in Seq(Entries)
        /\ run[n] = IF s[n] \in Records THEN Append(run[n - 1], Mapped(s[n])) ELSE run[n - 1]
    BY <1>3, <1>5
  <2>2. s[n] \in Records => /\ Append(run[n - 1], Mapped(s[n])) \in Seq(Entries)
                            /\ Range(Append(run[n - 1], Mapped(s[n]))) = Range(run[n - 1]) \union {Mapped(s[n])}
    BY <2>1, MappedIs, Appending, AppendProperties
  <2>3. run[n] \in Seq(Entries)
    BY <2>1, <2>2
  <2>4. ASSUME NEW i \in 1..n, s[i] \in Records PROVE Mapped(s[i]) \in Range(run[n])
    <3>1. i # n => i \in 1..(n - 1)
      BY <1>1
    <3>2. i # n => Mapped(s[i]) \in Range(run[n - 1])
      BY <1>5, <2>4, <3>1
    <3> QED BY <2>1, <2>2, <2>4, <3>2
  <2>5. n \in 0..Len(s)
    BY <1>1
  <2> QED BY <2>3, <2>4, <2>5
<1> HIDE DEF P
<1>6. \A n \in 0..Len(s) : n \in P
  BY <1>1, <1>4, <1>5, BoundedInduction
<1>7. Ours(s) = run[Len(s)]
  BY DEF Ours, run, step
<1> QED BY <1>1, <1>6, <1>7 DEF P

-----------------------------------------------------------------------------
(* The invariant.                                                          *)

\* Only a migration or a restore has records to write, and only a migration some alone.
Idle ==
  /\ cmd \notin {"migrate", "restore"} => todo = {}
  /\ cmd # "migrate" => alone = {}

\* While a command runs without a cause, each record a migration has begun with is still
\* to be written, written, or in the dead-letter file, each line a replay has read is in
\* its batch or written, and each record of the backup is still to be restored or written.
Delivering ==
  causes = {} =>
    /\ cmd = "migrate" => \A r \in Records : r \in todo \cup alone \cup Range(dlq) \/ rows[Mapped(r)] > 0
    /\ cmd = "replay" =>
         \A i \in 1..line : dlq[i] \in Records => dlq[i] \in Range(batch) \/ rows[Mapped(dlq[i])] > 0
    /\ cmd = "restore" => \A r \in Records : r \in todo \/ rows[Restored(r)] > 0

DInv ==
  /\ TypeOK
  /\ Idle
  /\ AckedStays
  /\ OnceUnlessAppended
  /\ Delivering
  /\ SuccessDelivers

\* A batch of a migration or a restore is one of its records.
LEMMA BatchesAre ==
  ASSUME todo \subseteq Records, NEW size \in Nat, NEW s \in Batches(size)
  PROVE  s \in Seq(Records) /\ Range(s) \subseteq todo
<1>1. PICK n \in 1..size : s \in [1..n -> todo]
  BY DEF Batches
<1>2. s \in Seq(todo)
  BY <1>1, IsASeq
<1>3. s \in Seq(Records)
  BY <1>2, SeqMonotonic
<1> QED BY <1>2, <1>3, RangeMember

\* A record by itself becomes a batch.
LEMMA AloneIs ==
  ASSUME NEW r \in Records
  PROVE  <<Mapped(r)>> \in Seq(Entries) /\ Range(<<Mapped(r)>>) = {Mapped(r)}
BY Singleton, MappedIs

\* The batches of a restore, which are written to the targets that take them.
LEMMA RestoringIs ==
  ASSUME todo \subseteq Records, cmd = "restore", Prepared, NEW s \in Batches(RestoreSize)
  PROVE  /\ s \in Seq(Records) /\ Range(s) \subseteq todo
         /\ AllRestored(s) \in Seq(Entries) /\ \A r \in Range(s) : Restored(r) \in Range(AllRestored(s))
<1>1. RestoreSize \in Nat /\ job.target # "mongo"
  BY DataPathAssumption DEF Prepared
<1> QED BY <1>1, BatchesAre, AllRestoredIs

\* What a replay that writes its batch names as cause if lines of it go astray.
Elsewhere == {c \in {"misdirected"} : \E i \in DOMAIN batch : TableOf(batch[i]) # bound'}

\* Every step keeps the rows, but for the causes named.
LEMMA KeptStep == ASSUME TypeOK, [Next]_vars PROVE Kept /\ job' = job
<1>0. job \in Jobs /\ rows \in Holdings /\ acked \subseteq Entries /\ todo \subseteq Records /\ alone \subseteq Records
  BY DEF TypeOK
<1>1. ASSUME NEW s, NEW others, s \in Seq(Entries), WriteSucceeds(s, others) PROVE Kept
  BY <1>0, <1>1, Succeeds
<1>2. CASE MigrateStarts \/ MigrateEnds \/ ReplayStarts \/ ReplayReads \/ ReplayFails \/ ReplayEnds
           \/ Backs \/ RestoreStarts \/ RestoreEnds \/ Crash \/ UNCHANGED vars
  <2>1. rows' = rows /\ acked' = acked /\ causes' = causes /\ job' = job
    BY <1>2 DEF MigrateStarts, Starts, MigrateEnds, ReplayStarts, ReplayReads, ReplayFails, ReplayEnds, Backs,
                RestoreStarts, RestoreEnds, Crash, vars, cmdVars
  <2> QED BY <1>0, <2>1, WritesNothing
<1>3. CASE WritesBatch
  <2>1. PICK s \in Batches(BatchSize) :
          \/ WriteSucceeds(AllMapped(s), {})
          \/ WriteFails(AllMapped(s)) /\ causes' = causes \cup Overwritten(rows, rows')
    BY <1>3 DEF WritesBatch
  <2>2. AllMapped(s) \in Seq(Entries)
    BY <1>0, BatchesAre, AllMappedIs, DataPathAssumption
  <2>3. CASE WriteSucceeds(AllMapped(s), {})
    BY <1>1, <1>3, <2>2, <2>3 DEF WritesBatch
  <2>4. CASE WriteFails(AllMapped(s)) /\ causes' = causes \cup Overwritten(rows, rows')
    <3>1. causes' = {} => causes = {} /\ Overwritten(rows, rows') = {}
      BY <2>4
    <3> QED BY <1>0, <1>3, <2>2, <2>4, <3>1, FailsToWrite DEF WritesBatch
  <2> QED BY <2>1, <2>3, <2>4
<1>4. CASE WritesAlone
  <2>1. PICK r \in alone : WriteSucceeds(<<Mapped(r)>>, {})
    BY <1>4 DEF WritesAlone
  <2> QED BY <1>0, <1>1, <1>4, <2>1, AloneIs DEF WritesAlone
<1>5. CASE DeadLetters
  <2>1. PICK r \in alone : /\ WriteFails(<<Mapped(r)>>)
                           /\ \/ causes' = causes \cup Overwritten(rows, rows')
                              \/ causes' = causes \cup {"unsaved"} \cup Overwritten(rows, rows')
    BY <1>5 DEF DeadLetters
  <2>2. causes' = {} => causes = {} /\ Overwritten(rows, rows') = {}
    BY <2>1
  <2> QED BY <1>0, <1>5, <2>1, <2>2, AloneIs, FailsToWrite DEF DeadLetters
<1>6. CASE ReplayWrites
  <2>1. Ours(batch) \in Seq(Entries)
    <3>1. batch \in Seq(Lines)
      BY SeqMonotonic DEF TypeOK
    <3> QED BY <3>1, OursAre
  <2> DEFINE elsewhere == Elsewhere
  <2>3. \/ causes' = causes \cup elsewhere /\ UNCHANGED <<rows, acked>>
        \/ WriteSucceeds(Ours(batch), elsewhere)
        \/ WriteFails(Ours(batch)) /\ causes' = causes \cup {"logged"} \cup elsewhere \cup Overwritten(rows, rows')
    BY <1>6 DEF ReplayWrites, Elsewhere
  <2> HIDE DEF elsewhere
  <2>4. CASE causes' = causes \cup elsewhere /\ UNCHANGED <<rows, acked>>
    BY <1>0, <1>6, <2>4, WritesNothing DEF ReplayWrites
  <2>5. CASE WriteSucceeds(Ours(batch), elsewhere)
    BY <1>1, <1>6, <2>1, <2>5 DEF ReplayWrites
  <2>6. CASE /\ WriteFails(Ours(batch))
             /\ causes' = causes \cup {"logged"} \cup elsewhere \cup Overwritten(rows, rows')
    <3>1. causes' = {} => causes = {} /\ Overwritten(rows, rows') = {}
      BY <2>6
    <3> QED BY <1>0, <1>6, <2>1, <2>6, <3>1, FailsToWrite DEF ReplayWrites
  <2> QED BY <2>3, <2>4, <2>5, <2>6
<1>7. CASE RestoreWrites
  <2>1. PICK s \in Batches(RestoreSize) : WriteSucceeds(AllRestored(s), {})
    BY <1>7 DEF RestoreWrites
  <2>2. cmd = "restore" /\ Prepared /\ job' = job
    BY <1>7, <2>1 DEF RestoreWrites, WriteSucceeds, Accepts
  <2> QED BY <1>0, <1>1, <2>1, <2>2, RestoringIs
<1>8. CASE RestoreFails
  <2>1. causes' = {} => causes = {} /\ Overwritten(rows, rows') = {}
    BY <1>8 DEF RestoreFails
  <2>2. CASE UNCHANGED <<rows, acked>>
    BY <1>0, <1>8, <2>1, <2>2, WritesNothing DEF RestoreFails
  <2>3. CASE \E s \in Batches(RestoreSize) : WriteFails(AllRestored(s))
    <3>1. PICK s \in Batches(RestoreSize) : WriteFails(AllRestored(s))
      BY <2>3
    <3>2. CASE Prepared
      BY <1>0, <1>8, <2>1, <3>1, <3>2, RestoringIs, FailsToWrite DEF RestoreFails
    <3>3. CASE ~Prepared
      <4>1. rows' = rows /\ acked' = acked
        BY <3>1, <3>3 DEF WriteFails, Leftovers
      <4> QED BY <1>0, <1>8, <2>1, <4>1, WritesNothing DEF RestoreFails
    <3> QED BY <3>2, <3>3
  <2> QED BY <1>8, <2>2, <2>3 DEF RestoreFails
<1> QED BY <1>2, <1>3, <1>4, <1>5, <1>6, <1>7, <1>8 DEF Next

\* The state a command starts in, and the file: the parts of TypeOK besides the rows.
CommandOK ==
  /\ cmd \in {"none", "migrate", "replay", "restore"}
  /\ stored \subseteq {"parquet", "ndjson"} /\ result \in {"none", "ok", "failed", "crashed"}
  /\ todo \subseteq Records /\ alone \subseteq Records \ todo
FileOK ==
  /\ line \in 0..Len(dlq) /\ Len(dlq) <= MaxLines /\ dlq \in Seq(Lines)
  /\ bound \in {"none", "ours", "other"}
  /\ batch \in Seq(Lines \ {"torn"}) /\ Len(batch) <= BatchSize

\* One more line in the file.
LEMMA LineAdded ==
  ASSUME NEW f \in Seq(Lines), NEW x \in Lines
  PROVE  /\ Append(f, x) \in Seq(Lines) /\ Len(Append(f, x)) = Len(f) + 1 /\ Len(f) \in Nat
         /\ Range(Append(f, x)) = Range(f) \union {x}
         /\ \A i \in 1..Len(f) : Append(f, x)[i] = f[i]
BY AppendProperties, Appending, LenProperties

\* Commands have their types after a step.
LEMMA CommandTypes == ASSUME TypeOK, Idle, [Next]_vars PROVE CommandOK' /\ Idle'
<1> USE DEF CommandOK, Idle
<1>0. CommandOK
  BY DEF TypeOK
<1>1. CASE MigrateStarts
  BY <1>0, <1>1 DEF MigrateStarts, Starts
<1>2. CASE WritesBatch
  <2>1. PICK s \in Batches(BatchSize) : todo' = todo \ Range(s) /\ (alone' = alone \/ alone' = Range(s))
    BY <1>2 DEF WritesBatch
  <2>2. Range(s) \subseteq todo
    BY <1>0, BatchesAre, DataPathAssumption
  <2> QED BY <1>0, <1>2, <2>1, <2>2 DEF WritesBatch
<1>3. CASE WritesAlone
  BY <1>0, <1>3 DEF WritesAlone
<1>4. CASE DeadLetters
  BY <1>0, <1>4 DEF DeadLetters
<1>5. CASE MigrateEnds
  BY <1>0, <1>5 DEF MigrateEnds
<1>6. CASE ReplayStarts \/ ReplayReads \/ ReplayFails
  BY <1>0, <1>6 DEF ReplayStarts, ReplayReads, ReplayFails
<1>7. CASE ReplayWrites \/ ReplayEnds
  BY <1>0, <1>7 DEF ReplayWrites, ReplayEnds
<1>8. CASE Backs
  BY <1>0, <1>8 DEF Backs, cmdVars
<1>9. CASE Crash
  BY <1>0, <1>9 DEF Crash
<1>10. CASE UNCHANGED vars
  BY <1>0, <1>10 DEF vars, cmdVars
<1>11. CASE RestoreStarts
  BY <1>0, <1>11 DEF RestoreStarts, Starts
<1>12. CASE RestoreWrites
  <2>1. \E s : todo' = todo \ Range(s)
    BY <1>12 DEF RestoreWrites
  <2> QED BY <1>0, <1>12, <2>1 DEF RestoreWrites
<1>13. CASE RestoreFails \/ RestoreEnds
  BY <1>0, <1>13 DEF RestoreFails, RestoreEnds
<1> QED BY <1>1, <1>2, <1>3, <1>4, <1>5, <1>6, <1>7, <1>8, <1>9, <1>10, <1>11, <1>12, <1>13 DEF Next

\* So do the dead-letter file and its replay.
LEMMA FileTypes == ASSUME TypeOK, [Next]_vars PROVE FileOK'
<1>0. /\ FileOK /\ alone \subseteq Records /\ Len(dlq) \in Nat /\ BatchSize \in Nat \ {0} /\ MaxLines \in Nat
      /\ \A i \in 1..Len(dlq) : dlq[i] \in Lines
  BY LenProperties, ElementOfSeq, DataPathAssumption DEF TypeOK, FileOK
<1>1. CASE \/ MigrateStarts \/ WritesBatch \/ WritesAlone \/ MigrateEnds \/ Backs \/ RestoreStarts
            \/ RestoreWrites \/ RestoreFails \/ RestoreEnds \/ UNCHANGED vars
  <2>1. UNCHANGED <<line, batch, bound, dlq>>
    BY <1>1 DEF MigrateStarts, Starts, WritesBatch, WritesAlone, MigrateEnds, Backs, RestoreStarts,
                RestoreWrites, RestoreFails, RestoreEnds, vars, cmdVars
  <2> QED BY <1>0, <2>1 DEF FileOK
<1>2. CASE DeadLetters
  <2>1. PICK r \in alone : dlq' = dlq \/ (dlq' = Append(dlq, r) /\ Len(dlq) < MaxLines)
    BY <1>2 DEF DeadLetters
  <2>2. r \in Lines
    BY <1>0 DEF Lines
  <2>3. UNCHANGED <<line, batch, bound>>
    BY <1>2 DEF DeadLetters
  <2> QED BY <1>0, <2>1, <2>2, <2>3, LineAdded DEF FileOK
<1>3. CASE ReplayStarts \/ ReplayFails
  <2>1. UNCHANGED dlq /\ line' = 0 /\ batch' = <<>> /\ bound' = "none"
    BY <1>3 DEF ReplayStarts, ReplayFails
  <2> QED BY <1>0, <2>1, EmptySeq DEF FileOK
<1>4. CASE ReplayReads
  <2>1. /\ UNCHANGED <<dlq, bound>> /\ line' = line + 1 /\ line < Len(dlq) /\ Len(batch) < BatchSize
        /\ batch' = Append(batch, dlq[line + 1]) /\ dlq[line + 1] # "torn"
    BY <1>4 DEF ReplayReads
  <2>2. line + 1 \in 1..Len(dlq) /\ line + 1 \in 0..Len(dlq) /\ dlq[line + 1] \in Lines \ {"torn"}
    BY <1>0, <2>1 DEF FileOK
  <2>3. /\ Append(batch, dlq[line + 1]) \in Seq(Lines \ {"torn"})
        /\ Len(Append(batch, dlq[line + 1])) = Len(batch) + 1 /\ Len(batch) \in Nat
    BY <2>2, AppendProperties, LenProperties DEF TypeOK
  <2>4. line' \in 0..Len(dlq') /\ Len(batch') <= BatchSize
    BY <1>0, <2>1, <2>2, <2>3
  <2> QED BY <1>0, <2>1, <2>3, <2>4 DEF FileOK
<1>5. CASE ReplayWrites
  <2>1. UNCHANGED <<line, dlq>> /\ batch' = <<>> /\ bound' = WritesTo(batch)
    BY <1>5 DEF ReplayWrites
  <2>2. bound' \in {"none", "ours", "other"}
    BY <1>0, <2>1 DEF FileOK, WritesTo, TableOf
  <2> QED BY <1>0, <2>1, <2>2, EmptySeq DEF FileOK
<1>6. CASE ReplayEnds
  <2>1. UNCHANGED <<dlq, batch>> /\ line' = 0 /\ bound' = "none"
    BY <1>6 DEF ReplayEnds
  <2> QED BY <1>0, <2>1 DEF FileOK
<1>7. CASE Crash
  <2>1. /\ line' = 0 /\ batch' = <<>> /\ bound' = "none"
        /\ dlq' = dlq \/ (dlq' = Append(dlq, "torn") /\ Len(dlq) < MaxLines)
    BY <1>7 DEF Crash
  <2>2. "torn" \in Lines
    BY DEF Lines
  <2> QED BY <1>0, <2>1, <2>2, LineAdded, EmptySeq DEF FileOK
<1> QED BY <1>1, <1>2, <1>3, <1>4, <1>5, <1>6, <1>7 DEF Next

\* The job stays, and with it the rows its table may have.
LEMMA SameTable == ASSUME job' = job PROVE Entries' = Entries /\ Holdings' = Holdings /\ Jobs' = Jobs
<1>1. Entries' = Entries
  BY DEF Entries
<1>2. Holdings' = Holdings
  BY <1>1 DEF Holdings
<1>3. Jobs' = Jobs
  BY DEF Jobs, AllJobs, MaskMatters, Sample, Sort
<1> QED BY <1>1, <1>2, <1>3

\* Every variable has its type after a step.
LEMMA TypeStep == ASSUME TypeOK, Idle, [Next]_vars PROVE TypeOK' /\ Idle'
<1>1. CommandOK' /\ Idle' /\ FileOK' /\ Kept /\ job' = job /\ job \in Jobs
  BY CommandTypes, FileTypes, KeptStep DEF TypeOK
<1>2. rows' \in Holdings' /\ acked' \subseteq Entries' /\ job' \in Jobs'
  BY <1>1, SameTable DEF Kept
<1> QED BY <1>1, <1>2 DEF TypeOK, CommandOK, FileOK

\* What WriteBatch acknowledged stays, and nothing is doubled.
LEMMA RowsStep == ASSUME TypeOK, AckedStays, OnceUnlessAppended, [Next]_vars PROVE AckedStays' /\ OnceUnlessAppended'
<1>1. Kept /\ job' = job /\ acked \subseteq Entries /\ acked' \subseteq Entries /\ Entries' = Entries
  BY KeptStep, SameTable DEF TypeOK, Kept
<1>2. AckedStays'
  <2>1. ~Shares => \A e \in acked' : rows'[e] > 0
    BY <1>1 DEF Kept, Keeps, AckedStays, Shares
  <2> QED BY <1>1, <2>1 DEF AckedStays, Shares
<1>3. OnceUnlessAppended'
  BY <1>1 DEF Kept, Single, Keyed, OnceUnlessAppended
<1> QED BY <1>2, <1>3

\* While a migration goes on without a cause no record is out of sight.
LEMMA MigrateDelivers ==
  ASSUME TypeOK, Delivering, [Next]_vars, causes' = {}, cmd' = "migrate"
  PROVE  \A r \in Records : r \in todo' \cup alone' \cup Range(dlq') \/ rows'[Mapped(r)] > 0
<1>0. Kept /\ causes = {} /\ Keeps(rows, rows') /\ dlq \in Seq(Lines)
  BY KeptStep DEF Kept, TypeOK
<1>1. /\ job \in Jobs /\ rows \in Holdings /\ acked \subseteq Entries
      /\ todo \subseteq Records /\ alone \subseteq Records /\ \A r \in Records : Mapped(r) \in Entries
  BY MappedIs DEF TypeOK
<1>2. CASE MigrateStarts
  BY <1>2 DEF MigrateStarts, Starts
<1> DEFINE Seen == \A r \in Records : r \in todo \cup alone \cup Range(dlq) \/ rows[Mapped(r)] > 0
<1>3. cmd = "migrate" => Seen
  BY <1>0 DEF Delivering
<1> HIDE DEF Seen
<1>4. CASE WritesBatch
  <2>1. PICK s \in Batches(BatchSize) :
          /\ todo' = todo \ Range(s)
          /\ \/ WriteSucceeds(AllMapped(s), {}) /\ alone' = alone
             \/ alone' = Range(s)
    BY <1>4 DEF WritesBatch
  <2>2. s \in Seq(Records) /\ alone = {} /\ dlq' = dlq /\ Seen
    BY <1>1, <1>3, <1>4, BatchesAre, DataPathAssumption DEF WritesBatch
  <2>3. CASE WriteSucceeds(AllMapped(s), {}) /\ alone' = alone
    <3>1. \A r \in Range(s) : rows'[Mapped(r)] > 0
      BY <1>1, <2>2, <2>3, AllMappedIs, Succeeds
    <3> QED BY <1>0, <1>1, <2>1, <2>2, <2>3, <3>1 DEF Seen, Keeps
  <2>4. CASE alone' = Range(s)
    BY <1>0, <1>1, <2>1, <2>2, <2>4 DEF Seen, Keeps
  <2> QED BY <2>1, <2>3, <2>4
<1>5. CASE WritesAlone
  <2>1. PICK r \in alone : alone' = alone \ {r} /\ WriteSucceeds(<<Mapped(r)>>, {})
    BY <1>5 DEF WritesAlone
  <2>2. dlq' = dlq /\ todo' = todo /\ Seen
    BY <1>3, <1>5 DEF WritesAlone
  <2>3. rows'[Mapped(r)] > 0
    BY <1>1, <2>1, AloneIs, Succeeds
  <2> QED BY <1>0, <1>1, <2>1, <2>2, <2>3 DEF Seen, Keeps
<1>6. CASE DeadLetters
  <2>1. PICK r \in alone :
          /\ alone' = alone \ {r}
          /\ dlq' = Append(dlq, r) \/ "unsaved" \in causes'
    BY <1>6 DEF DeadLetters
  <2>2. todo' = todo /\ Seen /\ r \in Lines
    BY <1>1, <1>3, <1>6 DEF DeadLetters, Lines
  <2>3. Range(dlq') = Range(dlq) \union {r}
    BY <1>0, <2>1, <2>2, LineAdded
  <2> QED BY <1>0, <1>1, <2>1, <2>2, <2>3 DEF Seen, Keeps
<1>7. CASE UNCHANGED vars \/ Backs
  <2>1. UNCHANGED <<todo, alone, dlq, cmd, rows>>
    BY <1>7 DEF vars, cmdVars, Backs
  <2> QED BY <1>3, <2>1 DEF Seen
<1>8. CASE MigrateEnds \/ ReplayStarts \/ ReplayReads \/ ReplayFails \/ ReplayWrites \/ ReplayEnds \/ Crash
  BY <1>8 DEF MigrateEnds, ReplayStarts, ReplayReads, ReplayFails, ReplayWrites, ReplayEnds, Crash
<1>9. CASE RestoreStarts \/ RestoreWrites \/ RestoreFails \/ RestoreEnds
  BY <1>9 DEF RestoreStarts, Starts, RestoreWrites, RestoreFails, RestoreEnds
<1> QED BY <1>2, <1>4, <1>5, <1>6, <1>7, <1>8, <1>9 DEF Next

\* Nor is a line that a replay has read.
LEMMA ReplayDelivers ==
  ASSUME TypeOK, Delivering, [Next]_vars, causes' = {}, cmd' = "replay"
  PROVE  \A i \in 1..line' : dlq'[i] \in Records => dlq'[i] \in Range(batch') \/ rows'[Mapped(dlq'[i])] > 0
<1>0. Kept /\ causes = {} /\ Keeps(rows, rows') /\ dlq \in Seq(Lines)
  BY KeptStep DEF Kept, TypeOK
<1>1. /\ job \in Jobs /\ rows \in Holdings /\ acked \subseteq Entries /\ \A r \in Records : Mapped(r) \in Entries
      /\ batch \in Seq(Lines \ {"torn"}) /\ batch \in Seq(Lines)
      /\ line \in 0..Len(dlq) /\ Len(dlq) \in Nat /\ \A i \in 1..Len(dlq) : dlq[i] \in Lines
  BY <1>0, MappedIs, SeqMonotonic, LenProperties, ElementOfSeq DEF TypeOK
<1>2. CASE ReplayStarts
  BY <1>2 DEF ReplayStarts
<1> DEFINE Seen == \A i \in 1..line : dlq[i] \in Records => dlq[i] \in Range(batch) \/ rows[Mapped(dlq[i])] > 0
<1>3. cmd = "replay" => Seen
  BY <1>0 DEF Delivering
<1> HIDE DEF Seen
<1>4. CASE ReplayReads
  <2>1. /\ UNCHANGED <<dlq, rows>> /\ line' = line + 1 /\ line < Len(dlq) /\ Seen
        /\ batch' = Append(batch, dlq[line + 1])
    BY <1>3, <1>4 DEF ReplayReads
  <2>2. line + 1 \in 1..Len(dlq) /\ dlq[line + 1] \in Lines
    BY <1>1, <2>1
  <2>3. Range(batch') = Range(batch) \union {dlq[line + 1]}
    BY <1>1, <2>1, <2>2, Appending
  <2>4. \A i \in 1..(line + 1) : i \in 1..line \/ i = line + 1
    BY <1>1
  <2> QED BY <2>1, <2>3, <2>4 DEF Seen
<1>5. CASE ReplayWrites
  <2>1. /\ UNCHANGED <<dlq, line>> /\ Seen /\ batch # <<>> /\ bound' = WritesTo(batch)
        /\ IF bound' = "other" THEN causes' = causes \cup Elsewhere
           ELSE \/ WriteSucceeds(Ours(batch), Elsewhere)
                \/ "logged" \in causes'
    BY <1>3, <1>5 DEF ReplayWrites, Elsewhere
  <2>2. \A i \in 1..Len(batch) : batch[i] \in Records => TableOf(batch[i]) = "ours"
    BY DataPathAssumption DEF TableOf
  <2>3. ASSUME NEW i \in 1..line, dlq[i] \in Records PROVE rows'[Mapped(dlq[i])] > 0
    <3>1. CASE dlq[i] \in Range(batch)
      <4>1. PICK j \in 1..Len(batch) : batch[j] = dlq[i] /\ j \in DOMAIN batch
        BY <1>1, <3>1, RangeMember, LenProperties
      <4>2. CASE bound' = "other"
        <5>1. TableOf(batch[j]) # bound'
          BY <2>2, <2>3, <4>1, <4>2
        <5>2. "misdirected" \in Elsewhere
          BY <4>1, <5>1, Zenon DEF Elsewhere
        <5> QED BY <2>1, <4>2, <5>2
      <4>3. CASE bound' # "other"
        <5>1. WriteSucceeds(Ours(batch), Elsewhere)
          BY <2>1, <4>3
        <5>2. Ours(batch) \in Seq(Entries) /\ Mapped(batch[j]) \in Range(Ours(batch))
          BY <1>1, <2>3, <4>1, OursAre
        <5> QED BY <1>1, <4>1, <5>1, <5>2, Succeeds
      <4> QED BY <4>2, <4>3
    <3>2. CASE rows[Mapped(dlq[i])] > 0
      BY <1>0, <1>1, <2>3, <3>2 DEF Keeps
    <3> QED BY <2>1, <2>3, <3>1, <3>2 DEF Seen
  <2> QED BY <2>1, <2>3
<1>6. CASE UNCHANGED vars \/ Backs
  <2>1. UNCHANGED <<line, batch, dlq, cmd, rows>>
    BY <1>6 DEF vars, cmdVars, Backs
  <2> QED BY <1>3, <2>1 DEF Seen
<1>7. CASE MigrateStarts \/ WritesBatch \/ WritesAlone \/ DeadLetters \/ MigrateEnds \/ ReplayFails \/ ReplayEnds \/ Crash
  BY <1>7 DEF MigrateStarts, Starts, WritesBatch, WritesAlone, DeadLetters, MigrateEnds, ReplayFails,
              ReplayEnds, Crash
<1>8. CASE RestoreStarts \/ RestoreWrites \/ RestoreFails \/ RestoreEnds
  BY <1>8 DEF RestoreStarts, Starts, RestoreWrites, RestoreFails, RestoreEnds
<1> QED BY <1>2, <1>4, <1>5, <1>6, <1>7, <1>8 DEF Next

\* Nor is a record of the backup while it is restored.
LEMMA RestoreDelivers ==
  ASSUME TypeOK, Delivering, [Next]_vars, causes' = {}, cmd' = "restore"
  PROVE  \A r \in Records : r \in todo' \/ rows'[Restored(r)] > 0
<1>0. Kept /\ causes = {} /\ Keeps(rows, rows')
  BY KeptStep DEF Kept
<1>1. job \in Jobs /\ rows \in Holdings /\ acked \subseteq Entries /\ todo \subseteq Records
  BY DEF TypeOK
<1>2. CASE RestoreStarts
  BY <1>2 DEF RestoreStarts, Starts
<1> DEFINE Seen == \A r \in Records : r \in todo \/ rows[Restored(r)] > 0
<1>3. cmd = "restore" => Seen
  BY <1>0 DEF Delivering
<1> HIDE DEF Seen
<1>4. CASE RestoreWrites
  <2>1. PICK s \in Batches(RestoreSize) : todo' = todo \ Range(s) /\ WriteSucceeds(AllRestored(s), {})
    BY <1>4 DEF RestoreWrites
  <2>2. cmd = "restore" /\ Prepared /\ Seen
    BY <1>3, <1>4, <2>1 DEF RestoreWrites, WriteSucceeds, Accepts
  <2>3. job.target # "mongo"
    BY <2>2 DEF Prepared
  <2>4. \A r \in Range(s) : rows'[Restored(r)] > 0
    BY <1>1, <2>1, <2>2, RestoringIs, Succeeds
  <2> QED BY <1>0, <2>1, <2>2, <2>3, <2>4, RestoredIs DEF Seen, Keeps
<1>5. CASE UNCHANGED vars
  BY <1>3, <1>5 DEF vars, cmdVars, Seen
<1>6. CASE \/ MigrateStarts \/ WritesBatch \/ WritesAlone \/ DeadLetters \/ MigrateEnds
  BY <1>6 DEF MigrateStarts, Starts, WritesBatch, WritesAlone, DeadLetters, MigrateEnds
<1>7. CASE \/ ReplayStarts \/ ReplayReads \/ ReplayFails \/ ReplayWrites \/ ReplayEnds
           \/ Backs \/ RestoreFails \/ RestoreEnds \/ Crash
  BY <1>7 DEF ReplayStarts, ReplayReads, ReplayFails, ReplayWrites, ReplayEnds, Backs, cmdVars,
              RestoreFails, RestoreEnds, Crash
<1> QED BY <1>2, <1>4, <1>5, <1>6, <1>7 DEF Next


\* A command that has just reported success has delivered, and what it delivered stays
\* until the next begins.
LEMMA SuccessStep == ASSUME TypeOK, Delivering, SuccessDelivers, [Next]_vars PROVE SuccessDelivers'
<1> DEFINE Done == /\ ended' = "migrate" => \A r \in Records : rows'[Mapped(r)] > 0 \/ r \in Range(dlq')
                   /\ ended' = "replay" => \A r \in Range(dlq') \cap Records : rows'[Mapped(r)] > 0
                   /\ ended' = "restore" => \A r \in Records : rows'[Restored(r)] > 0
<1>0. job' = job /\ (causes' = {} => causes = {}) /\ dlq \in Seq(Lines)
  BY KeptStep DEF Kept, TypeOK
<1>01. \A r : Mapped(r)' = Mapped(r) /\ Restored(r)' = Restored(r)
  BY <1>0 DEF Mapped, Restored
<1> SUFFICES ASSUME result' = "ok", cmd' = "none", causes' = {} PROVE Done
  BY <1>01 DEF SuccessDelivers
<1>1. CASE MigrateEnds
  <2>1. /\ ended' = "migrate" /\ cmd = "migrate" /\ todo = {} /\ alone = {} /\ rows' = rows /\ dlq' = dlq
    BY <1>1 DEF MigrateEnds
  <2>2. \A r \in Records : rows'[Mapped(r)] > 0 \/ r \in Range(dlq')
    BY <1>0, <2>1 DEF Delivering
  <2> QED BY <2>1, <2>2
<1>2. CASE ReplayEnds
  <2>1. /\ ended' = "replay" /\ cmd = "replay" /\ line = Len(dlq) /\ batch = <<>> /\ rows' = rows /\ dlq' = dlq
    BY <1>2 DEF ReplayEnds
  <2>2. \A i \in 1..Len(dlq) : dlq[i] \in Records => rows[Mapped(dlq[i])] > 0
    BY <1>0, <2>1, RangeEmpty DEF Delivering
  <2>3. \A r \in Range(dlq') \cap Records : rows'[Mapped(r)] > 0
    BY <1>0, <2>1, <2>2, RangeMember
  <2> QED BY <2>1, <2>3
<1>3. CASE RestoreEnds
  <2>1. ended' = "restore" /\ cmd = "restore" /\ todo = {} /\ rows' = rows
    BY <1>3 DEF RestoreEnds
  <2>2. \A r \in Records : rows'[Restored(r)] > 0
    BY <1>0, <2>1 DEF Delivering
  <2> QED BY <2>1, <2>2
<1>4. CASE Backs
  <2>1. ended' = "backup"
    BY <1>4 DEF Backs
  <2> QED BY <2>1
<1>5. CASE UNCHANGED vars
  <2>1. UNCHANGED <<result, cmd, causes, ended, rows, dlq>>
    BY <1>5 DEF vars, cmdVars
  <2> QED BY <2>1 DEF SuccessDelivers
<1>6. CASE MigrateStarts \/ RestoreStarts \/ ReplayFails \/ RestoreFails \/ Crash
  BY <1>6 DEF MigrateStarts, RestoreStarts, Starts, ReplayFails, RestoreFails, Crash
<1>7. CASE WritesBatch \/ WritesAlone \/ DeadLetters \/ ReplayStarts \/ ReplayReads \/ ReplayWrites \/ RestoreWrites
  BY <1>7 DEF WritesBatch, WritesAlone, DeadLetters, ReplayStarts, ReplayReads, ReplayWrites, RestoreWrites
<1> QED BY <1>1, <1>2, <1>3, <1>4, <1>5, <1>6, <1>7 DEF Next

\* The state in which the first command starts.
LEMMA DInvInit == Init => DInv
<1> SUFFICES ASSUME Init PROVE DInv
  OBVIOUS
<1>1. dlq \in Seq(Lines) /\ Len(dlq) \in {0, 1} /\ batch \in Seq(Lines \ {"torn"}) /\ Len(batch) = 0
  <2>1. /\ <<>> \in Seq(Lines) /\ <<>> \in Seq(Lines \ {"torn"}) /\ Len(<<>>) = 0
        /\ <<"other">> \in Seq(Lines) /\ Len(<<"other">>) = 1
    <3>1. Len(<<>>) = 0 /\ "other" \in Lines
      BY EmptySeq DEF Lines
    <3> HIDE DEF Lines
    <3> QED BY <3>1, EmptySeq, LenProperties, Singleton
  <2>2. dlq \in {<<>>, <<"other">>} /\ batch = <<>>
    BY DEF Init
  <2> QED BY <2>1, <2>2
<1>2. Len(dlq) <= MaxLines
  <2>1. MaxLines \in Nat \ {0}
    BY DataPathAssumption
  <2> QED BY <1>1, <2>1
<1>3. rows \in Holdings /\ \A e \in Entries : rows[e] = 0
  BY DEF Init, Holdings
<1>4. TypeOK
  <2>1. BatchSize \in Nat
    BY DataPathAssumption
  <2>2. line \in 0..Len(dlq) /\ Len(batch) <= BatchSize
    BY <1>1, <2>1 DEF Init
  <2>3. /\ job \in Jobs /\ cmd = "none" /\ stored = {} /\ result = "none"
        /\ todo = {} /\ alone = {} /\ bound = "none" /\ acked = {}
    BY DEF Init
  <2> QED BY <1>1, <1>2, <1>3, <2>2, <2>3 DEF TypeOK
<1>5. Idle /\ AckedStays /\ OnceUnlessAppended
  BY <1>3 DEF Init, Idle, AckedStays, OnceUnlessAppended
<1>6. Delivering
  BY DEF Init, Delivering
<1>7. SuccessDelivers
  BY DEF Init, SuccessDelivers
<1> QED BY <1>4, <1>5, <1>6, <1>7 DEF DInv

\* Every step keeps the invariant.
LEMMA DInvStep == DInv /\ [Next]_vars => DInv'
<1> SUFFICES ASSUME DInv, [Next]_vars PROVE DInv'
  OBVIOUS
<1>1. TypeOK' /\ Idle' /\ AckedStays' /\ OnceUnlessAppended' /\ SuccessDelivers'
  BY TypeStep, RowsStep, SuccessStep DEF DInv
<1>2. Delivering'
  <2>1. job' = job /\ TypeOK /\ Delivering
    BY KeptStep DEF DInv
  <2>2. \A r : Mapped(r)' = Mapped(r) /\ Restored(r)' = Restored(r)
    BY <2>1 DEF Mapped, Restored
  <2> QED BY <2>1, <2>2, MigrateDelivers, ReplayDelivers, RestoreDelivers DEF Delivering
<1> QED BY <1>1, <1>2 DEF DInv

-----------------------------------------------------------------------------
\* The invariant holds, for any records, batch size and number of commands.
THEOREM DataPathInvariance == Spec => []DInv
<1> QED BY DInvInit, DInvStep, PTL DEF Spec

\* Every variable keeps its type: rows are counted up to two, a replay's batch is of lines
\* that were read, a record that is written by itself is no longer to be read.
THEOREM DataPathTypeCorrect == Spec => []TypeOK
<1>1. DInv => TypeOK
  BY DEF DInv
<1> QED BY <1>1, DataPathInvariance, PTL

\* A row that a WriteBatch acknowledged is there ever after, whatever the other batches,
\* replays, failures and crashes make of the table, unless the job's records share rows.
THEOREM AckedRowsStay == Spec => []AckedStays
<1>1. DInv => AckedStays
  BY DEF DInv
<1> QED BY <1>1, DataPathInvariance, PTL

\* Where keys are kept no record is in the target twice, however often a failed batch, a
\* replay or a migration that was started again has sent it.
THEOREM NothingIsDoubled == Spec => []OnceUnlessAppended
<1>1. DInv => OnceUnlessAppended
  BY DEF DInv
<1> QED BY <1>1, DataPathInvariance, PTL

\* A command that reports success has delivered all it took, unless one of the causes that
\* are at most logged has come up.
THEOREM SuccessHasDelivered == Spec => []SuccessDelivers
<1>1. DInv => SuccessDelivers
  BY DEF DInv
<1> QED BY <1>1, DataPathInvariance, PTL
=============================================================================
