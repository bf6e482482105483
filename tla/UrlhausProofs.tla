----------------------------- MODULE UrlhausProofs -----------------------------
(***************************************************************************)
(* Safety of UrlhausSync for every set of ids and urls, every CSV and      *)
(* every chunk size.                                                       *)
(*                                                                         *)
(* The inductive invariant IInv adds to the properties who holds the write *)
(* lock (LockHeld), what the uncommitted table is (PendingGrows), which    *)
(* rows a run without failures still has to bring (Brought), and what a    *)
(* running lookup has seen (SeenNow).                                      *)
(*                                                                         *)
(* For the refinement of FeedTable a second invariant, OrderInv, says in   *)
(* which order rows come into the chunk and into the uncommitted table.    *)
(***************************************************************************)
EXTENDS UrlhausSync, FiniteSetTheorems, TLAPS

Unique(rows) == \A i, j \in DOMAIN rows : rows[i] = rows[j] => i = j

\* The synchronisation whose transaction is open is the one that holds the lock.
LockHeld == \A s \in Syncs : pc[s] = "rows" <=> writer = s

\* A chunk is there while it is flushed, and nothing is left of it afterwards.
Stages ==
  \A s \in Syncs :
    /\ pc[s] \in {"off", "fetch", "done", "raised"} => chunk[s] = <<>>
    /\ pc[s] \in {"insert", "rows"} => chunk[s] # <<>>
    /\ pc[s] \in {"off", "fetch"} => pos[s] = 0

\* The uncommitted table is the committed one with the rows applied so far.
PendingGrows ==
  /\ DOMAIN table \subseteq DOMAIN pending
  /\ \A s \in Syncs : writer = s =>
       /\ applied <= Len(chunk[s])
       /\ \A k \in 1..applied : chunk[s][k].id \in DOMAIN pending

\* A run without failures has each row it took in the table or in the chunk.
Brought ==
  \A s \in Syncs : pc[s] # "raised" /\ stats[s].failed = 0 =>
    \A k \in 1..pos[s] :
      \/ feed[s][k].id \in DOMAIN table
      \/ \E j \in 1..Len(chunk[s]) : chunk[s][j].id = feed[s][k].id

\* A lookup that several SELECTs answer between the commits of a synchronisation
\* gives an answer that was right at some moment while it ran (urlhaus.py:81-105).
LookupIsAtomic ==
  /\ answer = "threat" => TRUE \in seen
  /\ answer = "clean" => FALSE \in seen

\* A running lookup has seen whether its URL is listed.
SeenNow == step # 0 => Listed \in seen

IInv ==
  /\ TypeOK /\ LockHeld /\ Stages /\ PendingGrows /\ Brought /\ SeenNow
  /\ UrlsAreUnique /\ Unique(pending) /\ RowsAreAccounted /\ LookupIsAtomic
-------------------------------------------------------------------------------
\* Applying a row whose url is free keeps the urls of a table unique.
LEMMA UpsertKeepsUnique ==
  ASSUME NEW t \in Tables, NEW row \in ValidRows, Unique(t), ~Taken(t, row)
  PROVE  /\ Upsert(t, row) \in Tables
         /\ Unique(Upsert(t, row))
         /\ DOMAIN Upsert(t, row) = DOMAIN t \cup {row.id}
<1>1. PICK ids \in SUBSET Ids : t \in [ids -> Urls]
  BY DEF Tables
<1>2. Upsert(t, row) \in [ids \cup {row.id} -> Urls]
  BY <1>1 DEF Upsert, ValidRows
<1>3. Upsert(t, row) \in Tables
  BY <1>2 DEF Tables, ValidRows
<1>4. Unique(Upsert(t, row))
  BY <1>1 DEF Unique, Upsert, Taken, ValidRows
<1> QED
  BY <1>3, <1>4 DEF Upsert

\* The rows counted as updated are rows of the chunk.
LEMMA UpdatedBound ==
  ASSUME NEW n \in Nat, NEW rows, NEW ids
  PROVE  LET updated == Cardinality({k \in 1..n : rows[k].id \in ids})
         IN updated \in Nat /\ updated <= n
<1> DEFINE hit == {k \in 1..n : rows[k].id \in ids}
<1>1. IsFiniteSet(1..n) /\ Cardinality(1..n) = n
  BY FS_Interval
<1>2. IsFiniteSet(hit) /\ Cardinality(hit) <= n
  BY <1>1, FS_Subset
<1> QED
  BY <1>2, FS_CardinalityType

\* The types of what a synchronisation keeps.
LEMMA SyncTypes ==
  ASSUME TypeOK
  PROVE  /\ feed \in [Syncs -> Seq(Rows)]
         /\ pos \in [Syncs -> Nat]
         /\ chunk \in [Syncs -> Seq(ValidRows)]
         /\ stats \in [Syncs -> Counters]
         /\ applied \in Nat
         /\ \A s \in Syncs : \A k \in 1..Len(chunk[s]) : chunk[s][k] \in ValidRows
<1>1. chunk \in [Syncs -> Seq(ValidRows)]
  BY DEF TypeOK
<1>2. ASSUME NEW s \in Syncs PROVE \A k \in 1..Len(chunk[s]) : chunk[s][k] \in ValidRows
  <2>1. chunk[s] \in Seq(ValidRows)
    BY <1>1
  <2> QED
    BY <2>1
<1> QED
  BY <1>2 DEF TypeOK

\* The numbers it keeps, and how they are bounded.
LEMMA SyncNumbers ==
  ASSUME TypeOK, NEW s \in Syncs
  PROVE  /\ pos[s] \in Nat /\ Len(feed[s]) \in Nat /\ pos[s] <= Len(feed[s])
         /\ Len(chunk[s]) \in Nat /\ Len(chunk[s]) <= ChunkSize
         /\ stats[s].inserted \in Nat /\ stats[s].updated \in Nat
         /\ stats[s].total \in Nat /\ stats[s].failed \in Nat
<1>1. pos[s] \in Nat /\ pos[s] <= Len(feed[s]) /\ Len(chunk[s]) <= ChunkSize
  BY DEF TypeOK
<1>2. Len(feed[s]) \in Nat /\ Len(chunk[s]) \in Nat
  <2>1. feed[s] \in Seq(Rows) /\ chunk[s] \in Seq(ValidRows)
    BY DEF TypeOK
  <2> QED
    BY <2>1
<1>3. stats[s] \in Counters
  BY DEF TypeOK
<1> QED
  BY <1>1, <1>2, <1>3 DEF Counters

\* What counting changes, and that it keeps the counters numbers.
LEMMA CountKeepsType ==
  ASSUME TypeOK, NEW s \in Syncs, NEW ins \in Nat, NEW upd \in Nat, NEW tot \in Nat,
         NEW fail \in Nat, Count(s, ins, upd, tot, fail)
  PROVE  /\ stats' \in [Syncs -> Counters]
         /\ \A q \in Syncs \ {s} : stats'[q] = stats[q]
         /\ stats'[s].inserted = stats[s].inserted + ins
         /\ stats'[s].updated = stats[s].updated + upd
         /\ stats'[s].total = stats[s].total + tot
         /\ stats'[s].failed = stats[s].failed + fail
<1> DEFINE new == [inserted |-> stats[s].inserted + ins, updated |-> stats[s].updated + upd,
                   total |-> stats[s].total + tot, failed |-> stats[s].failed + fail]
<1>1. stats' = [stats EXCEPT ![s] = new]
  BY DEF Count
<1>2. /\ stats \in [Syncs -> Counters]
      /\ new \in Counters
  <2>1. stats \in [Syncs -> Counters]
    BY SyncTypes
  <2>2. /\ stats[s].inserted \in Nat /\ stats[s].updated \in Nat
        /\ stats[s].total \in Nat /\ stats[s].failed \in Nat
    BY SyncNumbers
  <2> QED
    BY <2>1, <2>2 DEF Counters
<1>3. stats'[s] = new
  BY <1>1, <1>2
<1> QED
  BY <1>1, <1>2, <1>3

\* What joins a counter has left the CSV or the chunk: the rows stay accounted for.
LEMMA CountKeepsRows ==
  ASSUME TypeOK, RowsAreAccounted, NEW s \in Syncs, NEW ins \in Nat, NEW upd \in Nat,
         NEW tot \in Nat, NEW fail \in Nat, Count(s, ins, upd, tot, fail),
         pc[s] # "raised", pc'[s] # "raised", pos'[s] = pos[s] + tot,
         Len(chunk'[s]) \in Nat, Len(chunk'[s]) + ins + upd + fail = Len(chunk[s]) + tot,
         \A q \in Syncs \ {s} : pc'[q] = pc[q] /\ pos'[q] = pos[q] /\ chunk'[q] = chunk[q]
  PROVE  RowsAreAccounted'
<1> DEFINE i == stats[s].inserted
           u == stats[s].updated
           t == stats[s].total
           f == stats[s].failed
           n == Len(chunk[s])
           i2 == stats'[s].inserted
           u2 == stats'[s].updated
           t2 == stats'[s].total
           f2 == stats'[s].failed
           n2 == Len(chunk'[s])
<1>1. i \in Nat /\ u \in Nat /\ t \in Nat /\ f \in Nat /\ n \in Nat /\ n2 \in Nat
  BY SyncNumbers
<1>2. t = pos[s] /\ t = i + u + f + n
  BY DEF RowsAreAccounted
<1>3. i2 = i + ins /\ u2 = u + upd /\ t2 = t + tot /\ f2 = f + fail
  <2>1. TypeOK /\ Count(s, ins, upd, tot, fail)
    OBVIOUS
  <2> HIDE DEF i, u, t, f, n, i2, u2, t2, f2, n2
  <2>2. /\ stats'[s].inserted = stats[s].inserted + ins
        /\ stats'[s].updated = stats[s].updated + upd
        /\ stats'[s].total = stats[s].total + tot
        /\ stats'[s].failed = stats[s].failed + fail
    BY <2>1, CountKeepsType
  <2> QED
    BY <2>2 DEF i, u, t, f, i2, u2, t2, f2
<1>4. n2 + ins + upd + fail = n + tot
  OBVIOUS
<1>5. t2 = pos'[s] /\ t2 = i2 + u2 + f2 + n2
  <2> HIDE DEF i, u, t, f, n, i2, u2, t2, f2, n2
  <2>1. t2 = pos'[s]
    BY <1>2, <1>3
  <2>2. t2 = i2 + u2 + f2 + n2
    BY <1>1, <1>2, <1>3, <1>4, SMT
  <2> QED
    BY <2>1, <2>2
<1>6. \A q \in Syncs \ {s} : /\ stats'[q] = stats[q] /\ pc'[q] = pc[q]
                            /\ pos'[q] = pos[q] /\ chunk'[q] = chunk[q]
  BY CountKeepsType
<1>7. ASSUME NEW q \in Syncs \ {s}
      PROVE  LET counted == stats'[q].inserted + stats'[q].updated + stats'[q].failed
             IN IF pc'[q] = "raised"
                THEN /\ stats'[q].total \in {pos'[q], pos'[q] - 1}
                     /\ stats'[q].total - counted \in 0..ChunkSize
                ELSE /\ stats'[q].total = pos'[q]
                     /\ stats'[q].total = counted + Len(chunk'[q])
  BY <1>6 DEF RowsAreAccounted
<1> QED
  BY <1>5, <1>7 DEF RowsAreAccounted

\* A url listed under an exact spelling is listed under its match_key.
LEMMA ExactIsListed ==
  ASSUME TypeOK, NEW k \in 1..Len(Variants),
         \E id \in DOMAIN table : table[id] = Variants[k]
  PROVE  Listed
BY VariantsAssumption DEF Listed
-------------------------------------------------------------------------------
\* The initial states have the invariant.
LEMMA InitIInv == Init => IInv
<1> SUFFICES ASSUME Init PROVE IInv
  OBVIOUS
<1> USE DEF Init
<1>1. table \in Tables /\ Unique(table)
  <2>1. table \in [{} -> Urls]
    OBVIOUS
  <2> QED
    BY <2>1 DEF Tables, Unique
<1>2. TypeOK
  <2>1. NoStats \in Counters
    BY DEF NoStats, Counters
  <2> QED
    BY <1>1, <2>1, RowsAssumption, VariantsAssumption DEF TypeOK, Syncs
<1>3. LockHeld /\ Stages /\ PendingGrows /\ Brought /\ SeenNow
  BY DEF LockHeld, Stages, PendingGrows, Brought, SeenNow, Syncs
<1>4. UrlsAreUnique /\ Unique(pending) /\ RowsAreAccounted /\ LookupIsAtomic
  BY <1>1 DEF NoStats, UrlsAreUnique, Unique, RowsAreAccounted, LookupIsAtomic, Syncs
<1> QED
  BY <1>2, <1>3, <1>4 DEF IInv

\* What has to be shown of a step that leaves the table, the uncommitted table
\* and the lookup alone.
LEMMA SameDatabase ==
  ASSUME IInv, UNCHANGED <<table, pending, reader>>
  PROVE  SeenNow' /\ UrlsAreUnique' /\ Unique(pending)' /\ LookupIsAtomic'
BY DEF IInv, SeenNow, UrlsAreUnique, Unique, LookupIsAtomic, Listed, reader

\* Nor does a step that also leaves the chunks alone touch what PendingGrows says.
LEMMA SameChunks ==
  ASSUME IInv, UNCHANGED <<database, chunk>>
  PROVE  PendingGrows'
BY DEF IInv, PendingGrows, database

\* The scheduler starts its job.
LEMMA ScheduleKeeps ==
  ASSUME IInv, Schedule
  PROVE  IInv'
<1> USE DEF IInv, Schedule, database, reader
<1>1. TypeOK'
  <2>1. feed' \in [Syncs -> Seq(Rows)]
    <3>1. <<>> \in Seq(Rows)
      OBVIOUS
    <3> QED
      BY <3>1 DEF TypeOK
  <2>2. stats' \in [Syncs -> Counters]
    <3>1. NoStats \in Counters
      BY DEF NoStats, Counters
    <3> QED
      BY <3>1 DEF TypeOK
  <2>3. pos' \in [Syncs -> Nat] /\ \A s \in Syncs : pos'[s] <= Len(feed'[s])
    BY DEF TypeOK, Syncs
  <2>4. pc' \in [Syncs -> {"off", "fetch", "pull", "insert", "rows", "done", "raised"}]
    BY DEF TypeOK
  <2>5. runs' \in 0..MaxRuns
    BY RowsAssumption DEF TypeOK
  <2> QED
    BY <2>1, <2>2, <2>3, <2>4, <2>5 DEF TypeOK
<1>2. LockHeld'
  BY DEF TypeOK, LockHeld
<1>3. Stages'
  BY DEF TypeOK, Stages
<1>4. PendingGrows'
  BY SameChunks
<1>5. Brought'
  BY DEF TypeOK, Stages, Brought
<1>6. RowsAreAccounted'
  BY DEF TypeOK, Stages, RowsAreAccounted, NoStats
<1> QED
  BY <1>1, <1>2, <1>3, <1>4, <1>5, <1>6, SameDatabase

\* The CSV has been downloaded.
LEMMA FetchKeeps ==
  ASSUME IInv, NEW s \in Syncs, Fetch(s)
  PROVE  IInv'
<1> USE DEF IInv, Fetch, database, reader
<1>1. TypeOK'
  <2>1. PICK csv \in Seq(Rows) : feed' = [feed EXCEPT ![s] = csv]
    BY RowsAssumption
  <2>2. feed' \in [Syncs -> Seq(Rows)]
    BY <2>1 DEF TypeOK
  <2>3. \A q \in Syncs : pos[q] <= Len(feed'[q])
    BY <2>1 DEF TypeOK, Stages
  <2> QED
    BY <2>2, <2>3 DEF TypeOK
<1>2. LockHeld'
  BY DEF TypeOK, LockHeld
<1>3. Stages'
  BY DEF TypeOK, Stages
<1>4. PendingGrows'
  BY SameChunks
<1>5. Brought'
  <2>1. pos[s] = 0 /\ \A q \in Syncs \ {s} : feed'[q] = feed[q]
    BY DEF TypeOK, Stages
  <2> QED
    BY <2>1 DEF Brought
<1>6. RowsAreAccounted'
  BY DEF RowsAreAccounted
<1> QED
  BY <1>1, <1>2, <1>3, <1>4, <1>5, <1>6, SameDatabase

\* The download fails.
LEMMA FetchFailsKeeps ==
  ASSUME IInv, NEW s \in Syncs, FetchFails(s)
  PROVE  IInv'
<1> USE DEF IInv, FetchFails, database, reader
<1>1. TypeOK'
  BY DEF TypeOK
<1>2. LockHeld'
  BY DEF TypeOK, LockHeld
<1>3. Stages'
  BY DEF TypeOK, Stages
<1>4. PendingGrows'
  BY SameChunks
<1>5. Brought'
  BY DEF Brought
<1>6. RowsAreAccounted'
  BY DEF RowsAreAccounted
<1> QED
  BY <1>1, <1>2, <1>3, <1>4, <1>5, <1>6, SameDatabase

\* A row is taken from the CSV.
LEMMA PullKeeps ==
  ASSUME IInv, NEW s \in Syncs, Pull(s)
  PROVE  IInv'
<1> DEFINE row == feed[s][pos[s] + 1]
<1>1. /\ UNCHANGED <<table, writer, pending, applied, pc, feed, existing, step, answer,
                     seen, runs, boots>>
      /\ pc[s] = "pull" /\ Len(chunk[s]) < ChunkSize /\ pos[s] < Len(feed[s])
      /\ row.url \notin {BadUrl, BadLine}
  BY DEF Pull, database, reader
<1>2. row \in Rows
  BY <1>1, SyncTypes DEF IInv
<1>3. /\ pos' \in [Syncs -> Nat]
      /\ pos'[s] = pos[s] + 1
      /\ \A q \in Syncs \ {s} : pos'[q] = pos[q]
  BY SyncTypes DEF IInv, Pull
\* Either the row is refused and counted, or it joins the chunk.
<1>4. /\ stats' \in [Syncs -> Counters]
      /\ \A q \in Syncs \ {s} : stats'[q] = stats[q] /\ chunk'[q] = chunk[q]
      /\ stats'[s].total = stats[s].total + 1
      /\ stats'[s].inserted = stats[s].inserted
      /\ stats'[s].updated = stats[s].updated
      /\ \/ Count(s, 0, 0, 1, 1) /\ chunk' = chunk
         \/ /\ Count(s, 0, 0, 1, 0)
            /\ stats'[s].failed = stats[s].failed
            /\ row \in ValidRows
            /\ chunk' = [chunk EXCEPT ![s] = Append(chunk[s], row)]
  <2>1. CASE row.url = NoUrl
    <3>1. chunk' = chunk /\ Count(s, 0, 0, 1, 1)
      BY <2>1 DEF Pull
    <3> QED
      BY <3>1, CountKeepsType, SyncNumbers DEF IInv
  <2>2. CASE row.url # NoUrl
    <3>1. chunk' = [chunk EXCEPT ![s] = Append(chunk[s], row)] /\ Count(s, 0, 0, 1, 0)
      BY <2>2 DEF Pull
    <3>2. row \in ValidRows
      BY <1>1, <1>2, <2>2 DEF Rows, ValidRows, Refused
    <3>3. \A q \in Syncs \ {s} : chunk'[q] = chunk[q]
      BY <3>1, SyncTypes DEF IInv
    <3> HIDE DEF row
    <3> QED
      BY <3>1, <3>2, <3>3, CountKeepsType, SyncNumbers DEF IInv
  <2> QED
    BY <2>1, <2>2
<1> HIDE DEF row
<1>5. CASE Count(s, 0, 0, 1, 1) /\ chunk' = chunk
  <2>1. TypeOK'
    <3>1. \A q \in Syncs : pos'[q] <= Len(feed[q])
      BY <1>1, <1>3, SyncNumbers DEF IInv
    <3> QED
      BY <1>1, <1>3, <1>4, <1>5, <3>1 DEF IInv, TypeOK
  <2>2. LockHeld' /\ PendingGrows'
    BY <1>1, <1>5 DEF IInv, LockHeld, PendingGrows
  <2>3. Stages'
    BY <1>1, <1>3, <1>5 DEF IInv, Stages
  <2>4. Brought'
    <3>1. stats'[s].failed # 0
      <4>1. Count(s, 0, 0, 1, 1) /\ TypeOK
        BY <1>5 DEF IInv
      <4>2. stats'[s].failed = stats[s].failed + 1
        BY <4>1, CountKeepsType
      <4>3. stats[s].failed \in Nat
        BY <4>1, SyncNumbers
      <4> QED
        BY <4>2, <4>3
    <3>2. \A q \in Syncs \ {s} : stats'[q] = stats[q] /\ pos'[q] = pos[q] /\ chunk'[q] = chunk[q]
      BY <1>3, <1>4
    <3> QED
      BY <1>1, <3>1, <3>2 DEF IInv, Brought
  <2>5. RowsAreAccounted'
    <3>1. Len(chunk'[s]) \in Nat /\ Len(chunk'[s]) + 0 + 0 + 1 = Len(chunk[s]) + 1
      BY <1>5, SyncNumbers DEF IInv
    <3> QED
      BY <1>1, <1>3, <1>4, <1>5, <3>1, CountKeepsRows DEF IInv
  <2> QED
    BY <1>1, <2>1, <2>2, <2>3, <2>4, <2>5, SameDatabase DEF IInv, reader
<1>6. CASE /\ Count(s, 0, 0, 1, 0)
           /\ row \in ValidRows
           /\ chunk' = [chunk EXCEPT ![s] = Append(chunk[s], row)]
           /\ stats'[s].failed = stats[s].failed
  <2> DEFINE n == Len(chunk[s])
  <2>1. /\ n \in Nat
        /\ chunk[s] \in Seq(ValidRows)
        /\ chunk'[s] = Append(chunk[s], row)
        /\ chunk' \in [Syncs -> Seq(ValidRows)]
    BY <1>6, SyncTypes DEF IInv
  <2>2. /\ Len(chunk'[s]) = n + 1
        /\ chunk'[s][n + 1] = row
        /\ \A j \in 1..n : chunk'[s][j] = chunk[s][j]
    BY <2>1
  <2> HIDE DEF n
  <2>3. TypeOK'
    <3>1. \A q \in Syncs : pos'[q] <= Len(feed[q])
      BY <1>1, <1>3, SyncNumbers DEF IInv
    <3>2. \A q \in Syncs : Len(chunk'[q]) <= ChunkSize
      BY <1>1, <1>4, <2>1, <2>2, RowsAssumption, SyncNumbers DEF IInv, n
    <3> QED
      BY <1>1, <1>3, <1>4, <2>1, <3>1, <3>2 DEF IInv, TypeOK
  <2>4. LockHeld' /\ Stages'
    BY <1>1, <1>3, <1>4 DEF IInv, LockHeld, Stages
  <2>5. PendingGrows'
    BY <1>1, <1>4 DEF IInv, LockHeld, PendingGrows
  <2>6. RowsAreAccounted'
    <3>1. Len(chunk'[s]) \in Nat /\ Len(chunk'[s]) + 0 + 0 + 0 = Len(chunk[s]) + 1
      BY <2>1, <2>2 DEF n
    <3> QED
      BY <1>1, <1>3, <1>4, <1>6, <3>1, CountKeepsRows DEF IInv
  <2>7. Brought'
    <3> SUFFICES ASSUME NEW q \in Syncs, pc[q] # "raised", stats'[q].failed = 0,
                        NEW k \in 1..pos'[q]
                 PROVE  \/ feed[q][k].id \in DOMAIN table
                        \/ \E j \in 1..Len(chunk'[q]) : chunk'[q][j].id = feed[q][k].id
      BY <1>1 DEF Brought
    <3>1. CASE q # s
      <4>1. pos'[q] = pos[q] /\ stats'[q] = stats[q] /\ chunk'[q] = chunk[q]
        BY <1>3, <1>4, <3>1
      <4> QED
        BY <1>1, <4>1 DEF IInv, Brought
    <3>2. CASE q = s /\ k = pos[s] + 1
      <4>1. n + 1 \in 1..Len(chunk'[s]) /\ chunk'[s][n + 1].id = feed[s][k].id
        BY <2>1, <2>2, <3>2 DEF row
      <4> QED
        BY <3>2, <4>1
    <3>3. CASE q = s /\ k \in 1..pos[s]
      <4>1. stats[s].failed = 0
        BY <1>6, <3>3
      <4>2. \/ feed[s][k].id \in DOMAIN table
            \/ \E j \in 1..n : chunk[s][j].id = feed[s][k].id
        BY <1>1, <3>3, <4>1 DEF IInv, Brought, n
      <4>3. \A j \in 1..n : j \in 1..Len(chunk'[s]) /\ chunk'[s][j].id = chunk[s][j].id
        BY <2>1, <2>2
      <4> QED
        BY <3>3, <4>2, <4>3
    <3> QED
      BY <1>3, <3>1, <3>2, <3>3, SyncNumbers DEF IInv
  <2> QED
    BY <1>1, <2>3, <2>4, <2>5, <2>6, <2>7, SameDatabase DEF IInv, reader
<1> QED
  BY <1>4, <1>5, <1>6

\* What an exception that ends a synchronisation leaves of it.
Raised(s) ==
  /\ pc[s] = "pull"
  /\ pc' = [pc EXCEPT ![s] = "raised"]
  /\ chunk' = [chunk EXCEPT ![s] = <<>>]
  /\ stats' \in [Syncs -> Counters] /\ \A q \in Syncs \ {s} : stats'[q] = stats[q]
  /\ stats'[s].inserted = stats[s].inserted /\ stats'[s].updated = stats[s].updated
  /\ pos' \in [Syncs -> Nat] /\ \A q \in Syncs \ {s} : pos'[q] = pos[q]
  /\ \/ /\ pos'[s] = pos[s] + 1 /\ pos[s] < Len(feed[s]) /\ Len(chunk[s]) < ChunkSize
        /\ feed[s][pos[s] + 1].url \in Refused
        /\ stats'[s].failed = stats[s].failed
        /\ stats'[s].total \in {stats[s].total, stats[s].total + 1}
     \/ pos'[s] = pos[s] /\ stats' = stats
  /\ UNCHANGED <<database, feed, existing, reader, runs, boots>>

\* The parser and the SELECT raise in the same way.
LEMMA BothRaise ==
  ASSUME IInv, NEW s \in Syncs, PullRaises(s) \/ SelectRaises(s)
  PROVE  Raised(s)
<1>1. CASE PullRaises(s)
  <2> DEFINE tot == IF feed[s][pos[s] + 1].url = BadUrl THEN 1 ELSE 0
  <2>1. /\ Count(s, 0, 0, tot, 0) /\ tot \in {0, 1}
        /\ pos' = [pos EXCEPT ![s] = @ + 1]
    BY <1>1 DEF PullRaises
  <2> HIDE DEF tot
  <2>2. tot \in Nat
    BY <2>1
  <2>3. /\ stats' \in [Syncs -> Counters] /\ \A q \in Syncs \ {s} : stats'[q] = stats[q]
        /\ stats'[s].inserted = stats[s].inserted + 0
        /\ stats'[s].updated = stats[s].updated + 0
        /\ stats'[s].total = stats[s].total + tot
        /\ stats'[s].failed = stats[s].failed + 0
    BY <2>1, <2>2, CountKeepsType DEF IInv
  <2>4. /\ stats'[s].inserted = stats[s].inserted /\ stats'[s].updated = stats[s].updated
        /\ stats'[s].failed = stats[s].failed
        /\ stats'[s].total \in {stats[s].total, stats[s].total + 1}
    BY <2>1, <2>3, SyncNumbers DEF IInv
  <2>5. /\ pos' \in [Syncs -> Nat] /\ pos'[s] = pos[s] + 1
        /\ \A q \in Syncs \ {s} : pos'[q] = pos[q]
    BY <2>1, SyncTypes DEF IInv
  <2> QED
    BY <1>1, <2>3, <2>4, <2>5 DEF Raised, PullRaises, Refused
<1>2. CASE SelectRaises(s)
  <2>1. UNCHANGED <<stats, pos>> /\ stats \in [Syncs -> Counters] /\ pos \in [Syncs -> Nat]
    BY <1>2, SyncTypes DEF IInv, SelectRaises
  <2> QED
    BY <1>2, <2>1 DEF Raised, SelectRaises, ChunkReady
<1> QED
  BY <1>1, <1>2

\* Arithmetic: no more than a chunk of rows is lost.
LEMMA LostBound ==
  ASSUME NEW t \in Nat, NEW c \in Nat, NEW n \in Nat, NEW size \in Nat, t = c + n, NEW t2 \in Nat,
         \/ t2 = t /\ n <= size
         \/ t2 \in {t, t + 1} /\ n < size
  PROVE  t2 - c \in 0..size
OBVIOUS

\* An exception ends the synchronisation.
LEMMA RaisedKeeps ==
  ASSUME IInv, NEW s \in Syncs, PullRaises(s) \/ SelectRaises(s)
  PROVE  IInv'
<1>1. Raised(s)
  BY BothRaise
<1>2. /\ UNCHANGED <<table, writer, pending, applied, feed, existing, step, answer, seen, runs,
                     boots>>
      /\ \A q \in Syncs \ {s} : /\ pc'[q] = pc[q] /\ pos'[q] = pos[q] /\ chunk'[q] = chunk[q]
                                /\ stats'[q] = stats[q]
      /\ pc[s] = "pull" /\ pc'[s] = "raised" /\ chunk'[s] = <<>>
      /\ writer # s
  BY <1>1, SyncTypes DEF IInv, TypeOK, LockHeld, Raised, database, reader
<1>3. TypeOK'
  <2>1. \A q \in Syncs : Len(chunk'[q]) <= ChunkSize
    BY <1>2, SyncNumbers, RowsAssumption DEF IInv
  <2>2. \A q \in Syncs : pos'[q] <= Len(feed[q])
    BY <1>1, <1>2, SyncNumbers DEF IInv, Raised
  <2>3. chunk' \in [Syncs -> Seq(ValidRows)]
    BY <1>1, SyncTypes DEF IInv, Raised
  <2>4. pc' \in [Syncs -> {"off", "fetch", "pull", "insert", "rows", "done", "raised"}]
    BY <1>1 DEF IInv, TypeOK, Raised
  <2>5. stats' \in [Syncs -> Counters] /\ pos' \in [Syncs -> Nat]
    BY <1>1 DEF Raised
  <2> QED
    BY <1>2, <2>1, <2>2, <2>3, <2>4, <2>5 DEF IInv, TypeOK
<1>4. LockHeld' /\ Stages' /\ PendingGrows' /\ Brought'
  BY <1>2 DEF IInv, LockHeld, Stages, PendingGrows, Brought
<1>5. RowsAreAccounted'
  <2> DEFINE t == stats[s].total
             n == Len(chunk[s])
             c == stats[s].inserted + stats[s].updated + stats[s].failed
             t2 == stats'[s].total
             c2 == stats'[s].inserted + stats'[s].updated + stats'[s].failed
  <2>1. t = pos[s] /\ t = c + n
    BY <1>2 DEF IInv, RowsAreAccounted
  <2>2. /\ t \in Nat /\ c \in Nat /\ n \in Nat /\ pos[s] \in Nat /\ n <= ChunkSize
        /\ ChunkSize \in Nat
    BY SyncNumbers, RowsAssumption DEF IInv
  <2>3. /\ c2 = c
        /\ \/ pos'[s] = pos[s] /\ t2 = t
           \/ pos'[s] = pos[s] + 1 /\ t2 \in {t, t + 1} /\ n < ChunkSize
    BY <1>1 DEF Raised
  <2> HIDE DEF t, n, c, t2, c2
  <2>4. t2 \in Nat /\ t2 - c2 \in 0..ChunkSize
    BY <2>1, <2>2, <2>3, LostBound
  <2>5. t2 \in {pos'[s], pos'[s] - 1}
    BY <2>1, <2>2, <2>3
  <2>6. /\ stats'[s].total \in {pos'[s], pos'[s] - 1}
        /\ stats'[s].total - (stats'[s].inserted + stats'[s].updated + stats'[s].failed)
              \in 0..ChunkSize
    BY <2>4, <2>5 DEF t2, c2
  <2>7. ASSUME NEW q \in Syncs \ {s}
        PROVE  LET counted == stats'[q].inserted + stats'[q].updated + stats'[q].failed
               IN IF pc'[q] = "raised"
                  THEN /\ stats'[q].total \in {pos'[q], pos'[q] - 1}
                       /\ stats'[q].total - counted \in 0..ChunkSize
                  ELSE /\ stats'[q].total = pos'[q]
                       /\ stats'[q].total = counted + Len(chunk'[q])
    BY <1>2 DEF IInv, RowsAreAccounted
  <2> QED
    BY <1>2, <2>6, <2>7 DEF RowsAreAccounted
<1> QED
  BY <1>2, <1>3, <1>4, <1>5, SameDatabase DEF IInv, reader

\* The SELECT before the upsert.
LEMMA SelectExistingKeeps ==
  ASSUME IInv, NEW s \in Syncs, SelectExisting(s)
  PROVE  IInv'
<1> USE DEF IInv, SelectExisting, ChunkReady, database, reader
<1>1. TypeOK'
  <2>1. DOMAIN table \cap {chunk[s][k].id : k \in 1..Len(chunk[s])} \in SUBSET Ids
    BY DEF TypeOK, Tables
  <2> QED
    BY <2>1 DEF TypeOK
<1>2. LockHeld'
  BY DEF TypeOK, LockHeld
<1>3. Stages'
  <2>1. chunk[s] # <<>> /\ pc[s] = "pull"
    BY RowsAssumption
  <2>2. pc' = [pc EXCEPT ![s] = "insert"] /\ pc \in [Syncs -> {"off", "fetch", "pull", "insert", "rows", "done", "raised"}]
    BY DEF TypeOK
  <2> QED
    BY <2>1, <2>2 DEF Stages
<1>4. PendingGrows'
  BY SameChunks
<1>5. Brought'
  BY DEF Brought
<1>6. RowsAreAccounted'
  BY DEF RowsAreAccounted
<1> QED
  BY <1>1, <1>2, <1>3, <1>4, <1>5, <1>6, SameDatabase

\* The INSERT takes the write lock.
LEMMA InsertKeeps ==
  ASSUME IInv, NEW s \in Syncs, Insert(s)
  PROVE  IInv'
<1> USE DEF IInv, Insert, reader
<1>1. TypeOK'
  BY DEF TypeOK
<1>2. LockHeld' /\ Stages' /\ PendingGrows'
  <2>1. chunk[s] # <<>>
    BY DEF Stages
  <2>2. Stages'
    BY <2>1 DEF TypeOK, Stages
  <2>3. LockHeld'
    BY DEF TypeOK, LockHeld, Syncs
  <2>4. PendingGrows'
    BY SyncNumbers DEF PendingGrows, Syncs
  <2> QED
    BY <2>2, <2>3, <2>4
<1>3. Brought' /\ RowsAreAccounted'
  BY DEF Brought, RowsAreAccounted
<1>4. SeenNow' /\ UrlsAreUnique' /\ Unique(pending)' /\ LookupIsAtomic'
  BY DEF SeenNow, UrlsAreUnique, Unique, LookupIsAtomic, Listed
<1> QED
  BY <1>1, <1>2, <1>3, <1>4

\* One row of the INSERT.
LEMMA ApplyRowKeeps ==
  ASSUME IInv, NEW s \in Syncs, ApplyRow(s)
  PROVE  IInv'
<1> USE DEF IInv, process, reader
<1> DEFINE row == chunk[s][applied + 1]
<1>1. /\ pc[s] = "rows" /\ writer = s /\ applied < Len(chunk[s])
      /\ row \in ValidRows
      /\ ~Taken(pending, row)
      /\ pending' = Upsert(pending, row) /\ applied' = applied + 1
      /\ UNCHANGED <<table, writer, process, reader, runs, boots>>
  <2>1. pc[s] = "rows" /\ applied < Len(chunk[s]) /\ applied + 1 \in 1..Len(chunk[s])
    BY SyncTypes DEF ApplyRow
  <2>2. row \in ValidRows
    BY <2>1, SyncTypes
  <2>3. writer = s
    BY <2>1 DEF LockHeld
  <2> QED
    BY <2>1, <2>2, <2>3 DEF ApplyRow
<1> HIDE DEF row
<1>2. /\ pending' \in Tables /\ Unique(pending')
      /\ DOMAIN pending' = DOMAIN pending \cup {row.id}
  BY <1>1, UpsertKeepsUnique DEF TypeOK
<1>3. TypeOK'
  BY <1>1, <1>2 DEF TypeOK
<1>4. LockHeld' /\ Stages' /\ Brought' /\ RowsAreAccounted'
  BY <1>1 DEF LockHeld, Stages, Brought, RowsAreAccounted
<1>5. PendingGrows'
  <2>1. /\ DOMAIN table \subseteq DOMAIN pending
        /\ \A k \in 1..applied : chunk[s][k].id \in DOMAIN pending
    BY <1>1 DEF PendingGrows
  <2>2. applied \in Nat /\ Len(chunk[s]) \in Nat
    BY SyncTypes, SyncNumbers
  <2>3. \A k \in 1..applied' : chunk[s][k].id \in DOMAIN pending'
    BY <1>1, <1>2, <2>1, <2>2 DEF row
  <2> QED
    BY <1>1, <1>2, <2>1, <2>2, <2>3 DEF PendingGrows
<1>6. SeenNow' /\ UrlsAreUnique' /\ LookupIsAtomic'
  BY <1>1 DEF SeenNow, UrlsAreUnique, LookupIsAtomic, Listed
<1> QED
  BY <1>2, <1>3, <1>4, <1>5, <1>6

\* A chunk is committed: the table becomes the uncommitted one.
LEMMA CommitKeeps ==
  ASSUME IInv, NEW s \in Syncs, Commit(s)
  PROVE  IInv'
<1> DEFINE updated == Cardinality({k \in 1..Len(chunk[s]) : chunk[s][k].id \in existing[s]})
<1>1. /\ pc[s] = "rows" /\ applied = Len(chunk[s])
      /\ table' = pending /\ pending' = pending /\ writer' = "none" /\ applied' = 0
      /\ existing' = [existing EXCEPT ![s] = {}]
      /\ Count(s, Len(chunk[s]) - updated, updated, 0, 0)
      /\ chunk' = [chunk EXCEPT ![s] = <<>>]
      /\ pc' = [pc EXCEPT ![s] = "pull"]
      /\ seen' = seen \cup {Listed'}
      /\ UNCHANGED <<feed, pos, step, answer, runs, boots>>
  BY DEF Commit
<1>2. updated \in Nat /\ Len(chunk[s]) - updated \in Nat
  <2>1. Len(chunk[s]) \in Nat
    BY SyncNumbers DEF IInv
  <2>2. updated \in Nat /\ updated <= Len(chunk[s])
    BY <2>1, UpdatedBound
  <2> QED
    BY <2>1, <2>2
<1> HIDE DEF updated
<1>3. /\ stats' \in [Syncs -> Counters]
      /\ \A q \in Syncs \ {s} : stats'[q] = stats[q]
      /\ stats'[s].inserted = stats[s].inserted + (Len(chunk[s]) - updated)
      /\ stats'[s].updated = stats[s].updated + updated
      /\ stats'[s].total = stats[s].total + 0
      /\ stats'[s].failed = stats[s].failed + 0
  BY <1>1, <1>2, CountKeepsType DEF IInv
<1>4. /\ chunk' \in [Syncs -> Seq(ValidRows)]
      /\ chunk'[s] = <<>>
      /\ \A q \in Syncs \ {s} : chunk'[q] = chunk[q]
  BY <1>1, SyncTypes DEF IInv
<1>5. writer = s
  BY <1>1 DEF IInv, LockHeld
<1>6. TypeOK'
  <2>1. \A q \in Syncs : Len(chunk'[q]) <= ChunkSize
    BY <1>4, SyncNumbers, RowsAssumption DEF IInv
  <2>2. seen' \in SUBSET BOOLEAN
    BY <1>1 DEF IInv, TypeOK, Listed
  <2>3. existing' \in [Syncs -> SUBSET Ids]
    BY <1>1 DEF IInv, TypeOK
  <2> QED
    BY <1>1, <1>3, <1>4, <2>1, <2>2, <2>3 DEF IInv, TypeOK
<1>7. LockHeld'
  BY <1>1, <1>5 DEF IInv, TypeOK, LockHeld, Syncs
<1>8. Stages'
  BY <1>1, <1>4 DEF IInv, TypeOK, Stages
<1>9. PendingGrows'
  BY <1>1 DEF PendingGrows, Syncs
<1>10. Brought'
  <2>1. /\ DOMAIN table \subseteq DOMAIN table'
        /\ \A k \in 1..Len(chunk[s]) : chunk[s][k].id \in DOMAIN table'
    BY <1>1, <1>5 DEF IInv, PendingGrows
  <2>2. stats'[s].failed = stats[s].failed
    BY <1>3, SyncNumbers DEF IInv
  <2>5. ASSUME NEW q \in Syncs, pc'[q] # "raised" PROVE pc[q] # "raised"
    BY <1>1, <2>5 DEF IInv, TypeOK
  <2> SUFFICES ASSUME NEW q \in Syncs, pc[q] # "raised", stats'[q].failed = 0,
                      NEW k \in 1..pos[q]
               PROVE  \/ feed[q][k].id \in DOMAIN table'
                      \/ \E j \in 1..Len(chunk'[q]) : chunk'[q][j].id = feed[q][k].id
    BY <1>1, <2>5 DEF Brought
  <2>3. stats[q].failed = 0
    BY <1>3, <2>2
  <2>4. \/ feed[q][k].id \in DOMAIN table
        \/ \E j \in 1..Len(chunk[q]) : chunk[q][j].id = feed[q][k].id
    BY <2>3 DEF IInv, Brought
  <2> QED
    BY <1>4, <2>1, <2>4
<1>11. SeenNow' /\ LookupIsAtomic'
  BY <1>1 DEF IInv, SeenNow, LookupIsAtomic
<1>12. UrlsAreUnique' /\ Unique(pending)'
  BY <1>1 DEF IInv, UrlsAreUnique, Unique
<1>13. RowsAreAccounted'
  <2>1. Len(chunk'[s]) \in Nat /\ pos'[s] = pos[s] + 0
    BY <1>1, <1>4, SyncNumbers DEF IInv
  <2>2. Len(chunk'[s]) + (Len(chunk[s]) - updated) + updated + 0 = Len(chunk[s]) + 0
    BY <1>2, <1>4, SyncNumbers DEF IInv
  <2>3. /\ pc[s] # "raised" /\ pc'[s] # "raised"
        /\ \A q \in Syncs \ {s} : pc'[q] = pc[q]
    BY <1>1 DEF IInv, TypeOK
  <2> QED
    BY <1>1, <1>2, <1>4, <2>1, <2>2, <2>3, CountKeepsRows DEF IInv
<1> QED
  BY <1>6, <1>7, <1>8, <1>9, <1>10, <1>11, <1>12, <1>13 DEF IInv

\* A chunk fails: its rows are counted and its transaction is rolled back.
LEMMA ChunkFailsKeeps ==
  ASSUME IInv, NEW s \in Syncs, ChunkFails(s)
  PROVE  IInv'
<1>1. /\ pc[s] \in {"pull", "insert", "rows"} /\ Rollback(s)
      /\ Count(s, 0, 0, 0, Len(chunk[s]))
      /\ chunk[s] # <<>>
      /\ chunk' = [chunk EXCEPT ![s] = <<>>]
      /\ pc' = [pc EXCEPT ![s] = "pull"]
      /\ UNCHANGED <<table, feed, pos, step, answer, seen, runs, boots>>
  <2>1. chunk[s] # <<>>
    BY RowsAssumption DEF IInv, ChunkFails, ChunkReady, Stages
  <2>2. pc[s] \in {"pull", "insert", "rows"}
    BY DEF ChunkFails, ChunkReady
  <2> QED
    BY <2>1, <2>2 DEF ChunkFails, reader
<1>2. /\ stats' \in [Syncs -> Counters]
      /\ \A q \in Syncs \ {s} : stats'[q] = stats[q]
      /\ stats'[s].inserted = stats[s].inserted + 0
      /\ stats'[s].updated = stats[s].updated + 0
      /\ stats'[s].total = stats[s].total + 0
      /\ stats'[s].failed = stats[s].failed + Len(chunk[s])
  <2>1. TypeOK /\ Len(chunk[s]) \in Nat
    BY SyncNumbers DEF IInv
  <2>2. Count(s, 0, 0, 0, Len(chunk[s]))
    BY <1>1
  <2> QED
    BY <2>1, <2>2, CountKeepsType
<1>3. /\ chunk' \in [Syncs -> Seq(ValidRows)]
      /\ chunk'[s] = <<>>
      /\ \A q \in Syncs \ {s} : chunk'[q] = chunk[q]
  BY <1>1, SyncTypes DEF IInv
<1>4. /\ existing' \in [Syncs -> SUBSET Ids]
      /\ writer' \in Syncs \cup {"none"} /\ applied' \in Nat /\ pending' \in Tables
  BY <1>1 DEF IInv, TypeOK, Rollback
<1>5. TypeOK'
  <2>1. \A q \in Syncs : Len(chunk'[q]) <= ChunkSize
    BY <1>3, SyncNumbers, RowsAssumption DEF IInv
  <2> QED
    BY <1>1, <1>2, <1>3, <1>4, <2>1 DEF IInv, TypeOK
<1>6. LockHeld'
  BY <1>1 DEF IInv, TypeOK, LockHeld, Syncs, Rollback
<1>7. Stages'
  BY <1>1, <1>3 DEF IInv, TypeOK, Stages
<1>8. PendingGrows'
  <2>1. CASE writer = s
    BY <1>1, <2>1 DEF Rollback, PendingGrows, Syncs
  <2>2. CASE writer # s
    BY <1>1, <1>3, <2>2 DEF IInv, Rollback, PendingGrows
  <2> QED
    BY <2>1, <2>2
<1>9. Brought'
  <2>1. stats'[s].failed # 0
    <3>1. Len(chunk[s]) # 0
      BY <1>1, SyncTypes DEF IInv
    <3> QED
      BY <1>2, <3>1, SyncNumbers DEF IInv
  <2> QED
    BY <1>1, <1>2, <1>3, <2>1 DEF IInv, Brought
<1>10. SeenNow' /\ UrlsAreUnique' /\ LookupIsAtomic'
  BY <1>1 DEF IInv, SeenNow, UrlsAreUnique, LookupIsAtomic, Listed
<1>11. Unique(pending)'
  BY <1>1 DEF IInv, UrlsAreUnique, Unique, Rollback
<1>12. RowsAreAccounted'
  <2>1. Len(chunk'[s]) \in Nat /\ pos'[s] = pos[s] + 0
    BY <1>1, <1>3, SyncNumbers DEF IInv
  <2>2. Len(chunk[s]) \in Nat /\ Len(chunk'[s]) + 0 + 0 + Len(chunk[s]) = Len(chunk[s]) + 0
    BY <1>3, SyncNumbers DEF IInv
  <2>3. /\ pc[s] # "raised" /\ pc'[s] # "raised"
        /\ \A q \in Syncs \ {s} : pc'[q] = pc[q]
    BY <1>1 DEF IInv, TypeOK
  <2> QED
    BY <1>1, <1>3, <2>1, <2>2, <2>3, CountKeepsRows DEF IInv
<1> QED
  BY <1>5, <1>6, <1>7, <1>8, <1>9, <1>10, <1>11, <1>12 DEF IInv

\* The CSV is used up.
LEMMA CompleteKeeps ==
  ASSUME IInv, NEW s \in Syncs, Complete(s)
  PROVE  IInv'
<1> USE DEF IInv, Complete, database, reader
<1>1. TypeOK'
  BY DEF TypeOK
<1>2. LockHeld'
  BY DEF TypeOK, LockHeld
<1>3. Stages'
  BY DEF TypeOK, Stages
<1>4. PendingGrows'
  BY SameChunks
<1>5. Brought'
  BY DEF Brought
<1>6. RowsAreAccounted'
  BY DEF RowsAreAccounted
<1> QED
  BY <1>1, <1>2, <1>3, <1>4, <1>5, <1>6, SameDatabase
-------------------------------------------------------------------------------
\* One step of the lookup.
LEMMA LookupKeeps ==
  ASSUME IInv, LookupStarts \/ LookupExact \/ LookupKey \/ LookupFails
  PROVE  IInv'
<1> USE DEF IInv, database, process
<1>1. UNCHANGED <<database, process, runs, boots>> /\ Listed' = Listed
  BY DEF LookupStarts, LookupExact, LookupKey, LookupFails, Listed
<1>2. /\ step' \in 0..(Len(Variants) + 1) /\ answer' \in {"none", "threat", "clean", "db_error"}
      /\ seen' \in SUBSET BOOLEAN
  <2>1. /\ step \in 0..(Len(Variants) + 1) /\ Len(Variants) \in Nat
        /\ answer \in {"none", "threat", "clean", "db_error"} /\ seen \in SUBSET BOOLEAN
    BY VariantsAssumption DEF TypeOK
  <2>2. CASE LookupStarts
    <3>1. {Listed} \in SUBSET BOOLEAN
      BY DEF Listed
    <3> QED
      BY <2>1, <2>2, <3>1 DEF LookupStarts
  <2>3. CASE LookupExact
    BY <2>1, <2>3 DEF LookupExact
  <2>4. CASE LookupKey
    BY <2>1, <2>4 DEF LookupKey
  <2>5. CASE LookupFails
    BY <2>1, <2>5 DEF LookupFails
  <2> QED
    BY <2>2, <2>3, <2>4, <2>5
<1>3. TypeOK'
  BY <1>1, <1>2 DEF TypeOK
<1>4. /\ LockHeld' /\ Stages' /\ PendingGrows' /\ Brought' /\ UrlsAreUnique'
      /\ Unique(pending)' /\ RowsAreAccounted'
  BY <1>1 DEF LockHeld, Stages, PendingGrows, Brought, UrlsAreUnique, Unique, RowsAreAccounted
<1>5. SeenNow'
  BY <1>1, VariantsAssumption
  DEF TypeOK, SeenNow, LookupStarts, LookupExact, LookupKey, LookupFails
<1>6. LookupIsAtomic'
  <2>1. CASE LookupStarts \/ LookupFails
    BY <2>1 DEF LookupIsAtomic, LookupStarts, LookupFails
  <2>2. CASE LookupExact
    <3>1. CASE \E id \in DOMAIN table : table[id] = Variants[step]
      <4>1. step \in 1..Len(Variants) /\ answer' = "threat" /\ seen' = seen
        BY <2>2, <3>1 DEF LookupExact
      <4>2. Listed = TRUE
        <5>1. Listed
          BY <3>1, <4>1, ExactIsListed
        <5> QED
          BY <5>1 DEF Listed
      <4>3. Listed \in seen
        BY <4>1 DEF SeenNow
      <4> QED
        BY <4>1, <4>2, <4>3 DEF LookupIsAtomic
    <3>2. CASE ~\E id \in DOMAIN table : table[id] = Variants[step]
      BY <2>2, <3>2 DEF LookupIsAtomic, LookupExact
    <3> QED
      BY <3>1, <3>2
  <2>3. CASE LookupKey
    <3>1. step # 0 /\ seen' = seen /\ answer' = IF Listed THEN "threat" ELSE "clean"
      BY <2>3, VariantsAssumption DEF LookupKey
    <3>2. Listed \in seen
      BY <3>1 DEF SeenNow
    <3>3. CASE Listed = TRUE
      BY <3>1, <3>2, <3>3 DEF LookupIsAtomic
    <3>4. CASE Listed = FALSE
      BY <3>1, <3>2, <3>4 DEF LookupIsAtomic
    <3> QED
      BY <3>3, <3>4 DEF Listed
  <2> QED
    BY <2>1, <2>2, <2>3
<1> QED
  BY <1>3, <1>4, <1>5, <1>6

\* The process is started again.
LEMMA RestartKeeps ==
  ASSUME IInv, Restart
  PROVE  IInv'
<1> USE DEF IInv, Restart
<1>1. TypeOK'
  <2>1. NoStats \in Counters
    BY DEF NoStats, Counters
  <2>2. boots' \in 0..MaxBoots
    BY RowsAssumption DEF TypeOK
  <2> QED
    BY <2>1, <2>2, RowsAssumption, VariantsAssumption DEF TypeOK, Syncs
<1>2. LockHeld' /\ Stages' /\ PendingGrows' /\ Brought'
  BY DEF LockHeld, Stages, PendingGrows, Brought, Syncs
<1>3. SeenNow' /\ UrlsAreUnique' /\ Unique(pending)' /\ LookupIsAtomic'
  BY DEF SeenNow, UrlsAreUnique, Unique, LookupIsAtomic
<1>4. RowsAreAccounted'
  BY DEF RowsAreAccounted, NoStats
<1> QED
  BY <1>1, <1>2, <1>3, <1>4

\* Nothing happens.
LEMMA StutterKeeps ==
  ASSUME IInv, UNCHANGED vars
  PROVE  IInv'
<1> USE DEF IInv, vars, database, process, reader
<1>1. TypeOK' /\ LockHeld' /\ Stages' /\ Brought' /\ RowsAreAccounted'
  BY DEF TypeOK, LockHeld, Stages, Brought, RowsAreAccounted
<1> QED
  BY <1>1, SameDatabase, SameChunks

\* One step, whichever it is, keeps the invariant.
LEMMA NextKeepsIInv == IInv /\ [Next]_vars => IInv'
BY ScheduleKeeps, FetchKeeps, FetchFailsKeeps, PullKeeps, RaisedKeeps, SelectExistingKeeps, InsertKeeps,
   ApplyRowKeeps, CommitKeeps, ChunkFailsKeeps, CompleteKeeps, LookupKeeps, RestartKeeps,
   StutterKeeps
DEF Next, Progress

\* The inductive invariant holds in every reachable state.
THEOREM Invariance == Spec => []IInv
BY InitIInv, NextKeepsIInv, PTL DEF Spec

\* Type correctness; in particular no chunk is longer than ChunkSize.
THEOREM TypeCorrect == Spec => []TypeOK
<1>1. IInv => TypeOK
  BY DEF IInv
<1> QED
  BY <1>1, Invariance, PTL

\* No interleaving of synchronisations, failing chunks and restarts commits one
\* url under two ids.
THEOREM NoUrlTwice == Spec => []UrlsAreUnique
<1>1. IInv => UrlsAreUnique
  BY DEF IInv
<1> QED
  BY <1>1, Invariance, PTL

\* The statistics account for every row.
THEOREM StatsAreComplete == Spec => []RowsAreAccounted
<1>1. IInv => RowsAreAccounted
  BY DEF IInv
<1> QED
  BY <1>1, Invariance, PTL

\* A synchronisation without failures has brought every id.
THEOREM SyncBringsAll == Spec => []CountedIsCommitted
<1>1. IInv => CountedIsCommitted
  BY DEF IInv, CountedIsCommitted, Stages, Brought
<1> QED
  BY <1>1, Invariance, PTL

\* A lookup of several statements is as good as one of a single statement.
THEOREM LookupIsRight == Spec => []LookupIsAtomic
<1>1. IInv => LookupIsAtomic
  BY DEF IInv
<1> QED
  BY <1>1, Invariance, PTL
-------------------------------------------------------------------------------
\* The refinement of FeedTable.  What it adds to IInv: the chunk under way is the
\* acceptable rows after the settled ones, in their order, and the open
\* transaction has merged the rows it has applied.
InOrder(rows, n, batch) ==
  /\ Len(batch) <= Table!Rank(rows, n)
  /\ \A j \in 1..Len(batch) : \E k \in 1..n :
       /\ rows[k] = batch[j]
       /\ Table!Rank(rows, k) = Table!Rank(rows, n) - Len(batch) + j

ChunkInOrder == \A s \in Syncs : InOrder(feed[s], pos[s], chunk[s])

PendingIsMerged ==
  \A s \in Syncs : writer = s => Table!Merges(table, pending, chunk[s], 1..applied)

OrderInv == ChunkInOrder /\ PendingIsMerged

\* The instance counts as everybody does.
LEMMA RankCounts ==
  ASSUME NEW rows, NEW k
  PROVE  Table!Rank(rows, k) = Cardinality(Table!Acceptable(rows, k))
BY DEF Table!Rank, Table!Cardinality, Cardinality

\* How many rows are acceptable, from one row to the next.
LEMMA RankSteps ==
  ASSUME NEW rows, NEW n \in Nat
  PROVE  /\ Table!Rank(rows, 0) = 0
         /\ Table!Rank(rows, n) \in Nat
         /\ Table!Rank(rows, n) <= n
         /\ rows[n + 1].url \notin Refused => Table!Rank(rows, n + 1) = Table!Rank(rows, n) + 1
         /\ rows[n + 1].url \in Refused => Table!Rank(rows, n + 1) = Table!Rank(rows, n)
<1> DEFINE here == Table!Acceptable(rows, n)
           next == Table!Acceptable(rows, n + 1)
<1>1. IsFiniteSet(1..n) /\ Cardinality(1..n) = n
  BY FS_Interval
<1>2. here \subseteq 1..n
  BY DEF Table!Acceptable
<1>3. IsFiniteSet(here) /\ Cardinality(here) <= n
  BY <1>1, <1>2, FS_Subset
<1>4. Cardinality(here) \in Nat
  BY <1>3, FS_CardinalityType
<1>5. Table!Acceptable(rows, 0) = {}
  BY DEF Table!Acceptable
<1>6. Table!Rank(rows, 0) = 0
  BY <1>5, FS_EmptySet, RankCounts
<1>7. n + 1 \notin here
  BY <1>2
<1>8. ASSUME rows[n + 1].url \notin Refused
      PROVE  Cardinality(next) = Cardinality(here) + 1
  <2>1. next = here \cup {n + 1}
    BY <1>8 DEF Table!Acceptable
  <2> QED
    BY <1>3, <1>7, <2>1, FS_AddElement
<1>9. ASSUME rows[n + 1].url \in Refused
      PROVE  Cardinality(next) = Cardinality(here)
  <2>1. next = here
    BY <1>9 DEF Table!Acceptable
  <2> QED
    BY <2>1
<1> QED
  BY <1>3, <1>4, <1>6, <1>8, <1>9, RankCounts

\* Later acceptable rows have higher ranks.
LEMMA RankOrder ==
  ASSUME NEW rows, NEW k \in Nat, NEW m \in Nat, k < m
  PROVE  /\ Table!Rank(rows, k) <= Table!Rank(rows, m)
         /\ rows[m].url \notin Refused => Table!Rank(rows, k) < Table!Rank(rows, m)
<1> DEFINE n == m - 1
<1>1. n \in Nat /\ m = n + 1 /\ k <= n
  OBVIOUS
<1>2. Table!Rank(rows, k) <= Table!Rank(rows, n)
  <2>1. Table!Acceptable(rows, k) \subseteq Table!Acceptable(rows, n)
    BY <1>1 DEF Table!Acceptable
  <2>2. IsFiniteSet(Table!Acceptable(rows, n))
    <3>1. IsFiniteSet(1..n) /\ Table!Acceptable(rows, n) \subseteq 1..n
      BY <1>1, FS_Interval DEF Table!Acceptable
    <3> QED
      BY <3>1, FS_Subset
  <2> QED
    BY <2>1, <2>2, FS_Subset, RankCounts
<1>3. /\ Table!Rank(rows, k) \in Nat /\ Table!Rank(rows, n) \in Nat
      /\ rows[m].url \notin Refused => Table!Rank(rows, m) = Table!Rank(rows, n) + 1
      /\ rows[m].url \in Refused => Table!Rank(rows, m) = Table!Rank(rows, n)
  BY <1>1, RankSteps
<1> QED
  BY <1>2, <1>3

\* One more row of an upsert.
LEMMA MergeOne ==
  ASSUME NEW old \in Tables, NEW new \in Tables, NEW rows, NEW n \in Nat,
         Table!Merges(old, new, rows, 1..n)
  PROVE  Table!Merges(old, Upsert(new, rows[n + 1]), rows, 1..(n + 1))
<1> DEFINE row == rows[n + 1]
           after == Upsert(new, row)
           ids == {rows[k].id : k \in 1..n}
           all == {rows[k].id : k \in 1..(n + 1)}
<1>1. /\ DOMAIN new = DOMAIN old \cup ids
      /\ \A id \in DOMAIN old \ ids : new[id] = old[id]
      /\ \A id \in ids : \E k \in 1..n :
           /\ rows[k].id = id /\ new[id] = rows[k].url
           /\ \A m \in 1..n : rows[m].id = id => m <= k
  BY DEF Table!Merges
<1>2. /\ 1..(n + 1) = 1..n \cup {n + 1}
      /\ all = ids \cup {row.id}
  OBVIOUS
<1>3. /\ DOMAIN after = DOMAIN new \cup {row.id}
      /\ after[row.id] = row.url
      /\ \A id \in DOMAIN new \ {row.id} : after[id] = new[id]
  BY DEF Upsert
<1> HIDE DEF after, ids, all
<1>4. DOMAIN after = DOMAIN old \cup all
  BY <1>1, <1>2, <1>3
<1>5. \A id \in DOMAIN old \ all : after[id] = old[id]
  BY <1>1, <1>2, <1>3
<1>6. ASSUME NEW id \in all
      PROVE  \E k \in 1..(n + 1) :
               /\ rows[k].id = id /\ after[id] = rows[k].url
               /\ \A m \in 1..(n + 1) : rows[m].id = id => m <= k
  <2>1. CASE id = row.id
    BY <1>3, <2>1
  <2>2. CASE id # row.id
    <3>1. id \in ids /\ after[id] = new[id]
      BY <1>1, <1>2, <1>3, <2>2
    <3>2. PICK k \in 1..n : /\ rows[k].id = id /\ new[id] = rows[k].url
                            /\ \A m \in 1..n : rows[m].id = id => m <= k
      BY <1>1, <3>1
    <3> QED
      BY <1>2, <2>2, <3>1, <3>2
  <2> QED
    BY <2>1, <2>2
<1> QED
  BY <1>4, <1>5, <1>6 DEF Table!Merges, after, all

\* The rows at places of a CSV are the first n of rows, in their order: the rank
\* of each is its number after the first done.
SameRows(rows, n, csv, places, done) ==
  /\ \A k \in places : csv[k].url \notin Refused
  /\ \A k \in places : \E j \in 1..n :
       csv[k] = rows[j] /\ Table!Rank(csv, k) = done + j
  /\ \A j \in 1..n : \E k \in places :
       csv[k] = rows[j] /\ Table!Rank(csv, k) = done + j

\* The same rows in the same order at other places merge to the same.
LEMMA MergeElsewhere ==
  ASSUME NEW old, NEW new, NEW rows, NEW n \in Nat, Table!Merges(old, new, rows, 1..n),
         NEW csv, NEW places \in SUBSET Nat, NEW done \in Nat,
         SameRows(rows, n, csv, places, done)
  PROVE  Table!Merges(old, new, csv, places)
<1> USE DEF SameRows
<1> DEFINE ids == {rows[j].id : j \in 1..n}
           there == {csv[k].id : k \in places}
<1>1. ids = there
  <2>1. ASSUME NEW j \in 1..n PROVE rows[j].id \in there
    BY <2>1
  <2>2. ASSUME NEW k \in places PROVE csv[k].id \in ids
    BY <2>2
  <2> HIDE DEF ids, there
  <2>3. ids \subseteq there
    BY <2>1 DEF ids
  <2>4. there \subseteq ids
    BY <2>2 DEF there
  <2> QED
    BY <2>3, <2>4
<1>2. /\ DOMAIN new = DOMAIN old \cup ids
      /\ \A id \in DOMAIN old \ ids : new[id] = old[id]
      /\ \A id \in ids : \E j \in 1..n :
           /\ rows[j].id = id /\ new[id] = rows[j].url
           /\ \A i \in 1..n : rows[i].id = id => i <= j
  BY DEF Table!Merges
<1>3. ASSUME NEW id \in there
      PROVE  \E k \in places :
               /\ csv[k].id = id /\ new[id] = csv[k].url
               /\ \A m \in places : csv[m].id = id => m <= k
  <2>1. PICK j \in 1..n : /\ rows[j].id = id /\ new[id] = rows[j].url
                          /\ \A i \in 1..n : rows[i].id = id => i <= j
    BY <1>1, <1>2, <1>3
  <2>2. PICK k \in places : csv[k] = rows[j] /\ Table!Rank(csv, k) = done + j
    OBVIOUS
  <2>3. ASSUME NEW m \in places, csv[m].id = id PROVE m <= k
    <3>1. PICK i \in 1..n : csv[m] = rows[i] /\ Table!Rank(csv, m) = done + i
      OBVIOUS
    <3>2. i <= j
      BY <2>1, <2>3, <3>1
    <3>3. Table!Rank(csv, m) <= Table!Rank(csv, k)
      BY <2>2, <3>1, <3>2
    <3>4. k < m => Table!Rank(csv, k) < Table!Rank(csv, m)
      BY RankOrder
    <3>5. Table!Rank(csv, k) \in Nat /\ Table!Rank(csv, m) \in Nat
      BY RankSteps
    <3> QED
      BY <3>3, <3>4, <3>5
  <2> QED
    BY <2>1, <2>2, <2>3
<1> HIDE DEF ids, there
<1> QED
  BY <1>1, <1>2, <1>3 DEF Table!Merges, there


\* Between two batches there is nothing to be in order.
LEMMA EmptyInOrder ==
  ASSUME NEW rows, NEW n \in Nat
  PROVE  InOrder(rows, n, <<>>)
<1>1. Table!Rank(rows, n) \in Nat
  BY RankSteps
<1> QED
  BY <1>1 DEF InOrder

\* The next row of the CSV is refused or joins the batch.
LEMMA NextInOrder ==
  ASSUME NEW rows, NEW n \in Nat, NEW batch \in Seq(ValidRows), InOrder(rows, n, batch)
  PROVE  /\ rows[n + 1].url \in Refused => InOrder(rows, n + 1, batch)
         /\ rows[n + 1] \in ValidRows => InOrder(rows, n + 1, Append(batch, rows[n + 1]))
<1>1. Len(batch) \in Nat /\ Table!Rank(rows, n) \in Nat
  BY RankSteps
<1>2. ASSUME rows[n + 1].url \in Refused PROVE InOrder(rows, n + 1, batch)
  <2>1. Table!Rank(rows, n + 1) = Table!Rank(rows, n)
    BY <1>2, RankSteps
  <2> QED
    BY <2>1 DEF InOrder
<1>3. ASSUME rows[n + 1] \in ValidRows
      PROVE  InOrder(rows, n + 1, Append(batch, rows[n + 1]))
  <2> DEFINE longer == Append(batch, rows[n + 1])
  <2>1. rows[n + 1].url \notin Refused
    BY <1>3, RowsAssumption DEF ValidRows
  <2>2. Table!Rank(rows, n + 1) = Table!Rank(rows, n) + 1
    BY <2>1, RankSteps
  <2>3. /\ Len(longer) = Len(batch) + 1
        /\ longer[Len(batch) + 1] = rows[n + 1]
        /\ \A j \in 1..Len(batch) : longer[j] = batch[j]
    BY <1>3
  <2> HIDE DEF longer
  <2>4. Table!Rank(rows, n + 1) - Len(longer) = Table!Rank(rows, n) - Len(batch)
    BY <1>1, <2>2, <2>3
  <2>5. Len(longer) <= Table!Rank(rows, n + 1)
    BY <1>1, <2>2, <2>3 DEF InOrder
  <2>6. ASSUME NEW j \in 1..Len(longer)
        PROVE  \E k \in 1..(n + 1) :
                 /\ rows[k] = longer[j]
                 /\ Table!Rank(rows, k) = Table!Rank(rows, n + 1) - Len(longer) + j
    <3>1. CASE j \in 1..Len(batch)
      <4>1. PICK k \in 1..n : /\ rows[k] = batch[j]
                              /\ Table!Rank(rows, k) = Table!Rank(rows, n) - Len(batch) + j
        BY <3>1 DEF InOrder
      <4> QED
        BY <2>3, <2>4, <3>1, <4>1
    <3>2. CASE j = Len(batch) + 1
      <4>1. Table!Rank(rows, n + 1) = Table!Rank(rows, n + 1) - Len(longer) + j
        BY <1>1, <2>2, <2>3, <3>2
      <4>2. rows[n + 1] = longer[j]
        BY <2>3, <3>2
      <4> QED
        BY <4>1, <4>2
    <3> QED
      BY <1>1, <2>3, <3>1, <3>2
  <2> QED
    BY <2>5, <2>6 DEF InOrder, longer
<1> QED
  BY <1>2, <1>3

\* Every step keeps the chunks in order.
LEMMA OrderKeeps == IInv /\ OrderInv /\ [Next]_vars => ChunkInOrder'
<1> SUFFICES ASSUME IInv, OrderInv, [Next]_vars, NEW q \in Syncs
             PROVE  InOrder(feed'[q], pos'[q], chunk'[q])
  BY DEF ChunkInOrder
<1>1. /\ InOrder(feed[q], pos[q], chunk[q])
      /\ pos[q] \in Nat
      /\ chunk[q] \in Seq(ValidRows)
  BY SyncTypes, SyncNumbers DEF IInv, OrderInv, ChunkInOrder
<1>2. CASE UNCHANGED <<feed, pos, chunk>>
  BY <1>1, <1>2
<1>3. CASE Schedule
  <2>1. pos'[q] \in Nat /\ (q = "scheduled" => chunk'[q] = <<>>)
    BY <1>1, <1>3, SyncTypes DEF IInv, Stages, Schedule, Syncs
  <2>2. CASE q = "scheduled"
    BY <2>1, <2>2, EmptyInOrder
  <2>3. CASE q # "scheduled"
    <3>1. feed'[q] = feed[q] /\ pos'[q] = pos[q] /\ chunk'[q] = chunk[q]
      BY <1>3, <2>3, SyncTypes DEF IInv, Schedule
    <3> QED
      BY <1>1, <3>1
  <2> QED
    BY <2>2, <2>3
<1>4. ASSUME NEW s \in Syncs, Fetch(s) PROVE InOrder(feed'[q], pos'[q], chunk'[q])
  <2>1. CASE q = s
    <3>1. chunk'[q] = <<>> /\ pos'[q] = pos[q]
      BY <1>4, <2>1 DEF IInv, Stages, Fetch
    <3> QED
      BY <1>1, <3>1, EmptyInOrder
  <2>2. CASE q # s
    <3>1. feed'[q] = feed[q] /\ pos'[q] = pos[q] /\ chunk'[q] = chunk[q]
      BY <1>4, <2>2, SyncTypes DEF IInv, Fetch
    <3> QED
      BY <1>1, <3>1
  <2> QED
    BY <2>1, <2>2
<1>5. ASSUME NEW s \in Syncs, Pull(s) PROVE InOrder(feed'[q], pos'[q], chunk'[q])
  <2>1. CASE q = s
    <3> DEFINE row == feed[q][pos[q] + 1]
    <3>1. /\ feed'[q] = feed[q] /\ pos'[q] = pos[q] + 1
          /\ \/ row.url \in Refused /\ chunk'[q] = chunk[q]
             \/ row.url \notin Refused /\ chunk'[q] = Append(chunk[q], row)
      BY <1>5, <2>1, SyncTypes DEF IInv, Pull, Refused
    <3>2. row \in Rows
      BY <1>5, <2>1, SyncTypes, SyncNumbers DEF IInv, Pull
    <3>3. row.url \notin Refused => row \in ValidRows
      BY <3>2 DEF Rows, ValidRows
    <3> QED
      BY <1>1, <3>1, <3>3, NextInOrder
  <2>2. CASE q # s
    <3>1. feed'[q] = feed[q] /\ pos'[q] = pos[q] /\ chunk'[q] = chunk[q]
      BY <1>5, <2>2, SyncTypes DEF IInv, Pull
    <3> QED
      BY <1>1, <3>1
  <2> QED
    BY <2>1, <2>2
<1>6. ASSUME NEW s \in Syncs, Commit(s) \/ ChunkFails(s)
      PROVE  InOrder(feed'[q], pos'[q], chunk'[q])
  <2>1. /\ feed' = feed /\ pos' = pos
        /\ chunk' = [chunk EXCEPT ![s] = <<>>]
    BY <1>6 DEF Commit, ChunkFails
  <2> QED
    BY <1>1, <2>1, EmptyInOrder, SyncTypes DEF IInv
<1>7. CASE Restart
  BY <1>7, EmptyInOrder DEF Restart
<1>8. CASE LookupStarts \/ LookupExact \/ LookupKey \/ LookupFails \/ UNCHANGED vars
  BY <1>2, <1>8 DEF LookupStarts, LookupExact, LookupKey, LookupFails, process, vars
<1>9. ASSUME NEW s \in Syncs, FetchFails(s) \/ SelectExisting(s) \/ Insert(s)
                                \/ ApplyRow(s) \/ Complete(s)
      PROVE  InOrder(feed'[q], pos'[q], chunk'[q])
  BY <1>2, <1>9 DEF FetchFails, SelectExisting, Insert, ApplyRow, Complete, process
<1>10. ASSUME NEW s \in Syncs, PullRaises(s) \/ SelectRaises(s)
       PROVE  InOrder(feed'[q], pos'[q], chunk'[q])
  <2>1. Raised(s)
    BY <1>10, BothRaise
  <2>2. CASE q = s
    <3>1. chunk'[q] = <<>> /\ pos'[q] \in Nat
      BY <2>1, <2>2, SyncTypes DEF IInv, Raised
    <3> QED
      BY <3>1, EmptyInOrder
  <2>3. CASE q # s
    <3>1. feed'[q] = feed[q] /\ pos'[q] = pos[q] /\ chunk'[q] = chunk[q]
      BY <2>1, <2>3, SyncTypes DEF IInv, Raised
    <3> QED
      BY <1>1, <3>1
  <2> QED
    BY <2>2, <2>3
<1> QED
  BY <1>3, <1>4, <1>5, <1>6, <1>7, <1>8, <1>9, <1>10 DEF Next, Progress

\* Every step keeps the open transaction merged.
LEMMA MergedKeeps == IInv /\ OrderInv /\ [Next]_vars => PendingIsMerged'
<1> SUFFICES ASSUME IInv, OrderInv, [Next]_vars, NEW q \in Syncs, writer' = q
             PROVE  Table!Merges(table', pending', chunk'[q], 1..applied')
  BY DEF PendingIsMerged
<1>1. writer = q => Table!Merges(table, pending, chunk[q], 1..applied)
  BY DEF OrderInv, PendingIsMerged
<1>2. CASE UNCHANGED <<database, chunk>>
  BY <1>1, <1>2 DEF database
<1>3. ASSUME NEW s \in Syncs, Pull(s)
      PROVE  Table!Merges(table', pending', chunk'[q], 1..applied')
  <2>1. UNCHANGED database /\ q # s
    BY <1>3 DEF IInv, LockHeld, Pull, database
  <2>2. chunk'[q] = chunk[q]
    BY <1>3, <2>1, SyncTypes DEF IInv, Pull
  <2> QED
    BY <1>1, <2>1, <2>2 DEF database
<1>4. ASSUME NEW s \in Syncs, Insert(s)
      PROVE  Table!Merges(table', pending', chunk'[q], 1..applied')
  <2>1. table' = table /\ pending' = table /\ applied' = 0 /\ chunk' = chunk
    BY <1>4 DEF Insert
  <2>2. 1..0 = {}
    OBVIOUS
  <2>3. Table!Merges(table, table, chunk[q], {})
    BY DEF Table!Merges
  <2> QED
    BY <2>1, <2>2, <2>3
<1>5. ASSUME NEW s \in Syncs, ApplyRow(s)
      PROVE  Table!Merges(table', pending', chunk'[q], 1..applied')
  <2>1. /\ table' = table /\ chunk' = chunk /\ writer = q /\ q = s
        /\ pending' = Upsert(pending, chunk[q][applied + 1])
        /\ applied' = applied + 1
    BY <1>5 DEF IInv, LockHeld, ApplyRow, process
  <2>2. applied \in Nat /\ table \in Tables /\ pending \in Tables
    BY DEF IInv, TypeOK
  <2> QED
    BY <1>1, <2>1, <2>2, MergeOne
<1>6. ASSUME NEW s \in Syncs, ChunkFails(s)
      PROVE  Table!Merges(table', pending', chunk'[q], 1..applied')
  <2>1. writer = q /\ q # s /\ UNCHANGED <<table, pending, applied>>
    BY <1>6 DEF ChunkFails, Rollback, Syncs
  <2>2. chunk'[q] = chunk[q]
    BY <1>6, <2>1, SyncTypes DEF IInv, ChunkFails
  <2> QED
    BY <1>1, <2>1, <2>2
<1>7. ASSUME NEW s \in Syncs, Commit(s)
      PROVE  FALSE
  BY <1>7 DEF Commit, Syncs
<1>8. CASE Restart
  BY <1>8 DEF Restart, Syncs
<1>9. CASE Schedule \/ LookupStarts \/ LookupExact \/ LookupKey \/ LookupFails \/ UNCHANGED vars
  BY <1>2, <1>9 DEF Schedule, LookupStarts, LookupExact, LookupKey, LookupFails, process, vars
<1>10. ASSUME NEW s \in Syncs, Fetch(s) \/ FetchFails(s) \/ SelectExisting(s) \/ Complete(s)
       PROVE  Table!Merges(table', pending', chunk'[q], 1..applied')
  BY <1>2, <1>10 DEF Fetch, FetchFails, SelectExisting, Complete
<1>11. ASSUME NEW s \in Syncs, PullRaises(s) \/ SelectRaises(s)
       PROVE  Table!Merges(table', pending', chunk'[q], 1..applied')
  <2>1. Raised(s)
    BY <1>11, BothRaise
  <2>2. UNCHANGED database /\ q # s
    BY <2>1 DEF IInv, LockHeld, Raised, database
  <2>3. chunk'[q] = chunk[q]
    BY <2>1, <2>2, SyncTypes DEF IInv, Raised
  <2> QED
    BY <1>1, <2>2, <2>3 DEF database
<1> QED
  BY <1>3, <1>4, <1>5, <1>6, <1>7, <1>8, <1>9, <1>10, <1>11 DEF Next, Progress

\* And both hold at the start.
LEMMA OrderStarts == Init => OrderInv
<1> SUFFICES ASSUME Init, NEW q \in Syncs
             PROVE  InOrder(feed[q], pos[q], chunk[q]) /\ writer # q
  BY DEF OrderInv, ChunkInOrder, PendingIsMerged
<1> QED
  BY EmptyInOrder DEF Init, Syncs

\* So they hold of every reachable state.
LEMMA OrderInvariance == Spec => [](IInv /\ OrderInv)
<1>1. IInv /\ OrderInv /\ [Next]_vars => IInv' /\ OrderInv'
  BY NextKeepsIInv, OrderKeeps, MergedKeeps DEF OrderInv
<1> QED
  BY <1>1, InitIInv, OrderStarts, PTL DEF Spec


\* What FeedTable sees of a synchronisation.
Settling == [s \in Syncs |-> Settled(s)]
Counting == [s \in Syncs |-> Published(s)]
Asking == IF step # 0 THEN "asked" ELSE answer

\* The settled rows, by the ranks of FeedTable.
LEMMA SettledIs ==
  ASSUME NEW s
  PROVE  /\ Settled(s) = Table!Rank(feed[s], pos[s]) - Len(chunk[s])
         /\ Settled(s)' = Table!Rank(feed'[s], pos'[s]) - Len(chunk'[s])
BY RankCounts DEF Settled, Table!Acceptable

\* The batch after the settled rows is the chunk.
LEMMA ChunkIsBatch ==
  ASSUME IInv, OrderInv, NEW s \in Syncs, writer = s, applied = Len(chunk[s])
  PROVE  Table!Merges(table, pending, feed[s],
                      Table!Batch(feed[s], Settled(s), Settled(s) + Len(chunk[s])))
<1> DEFINE n == Len(chunk[s])
           done == Settled(s)
           places == Table!Batch(feed[s], done, done + n)
<1>1. /\ n \in Nat /\ pos[s] \in Nat /\ Len(feed[s]) \in Nat /\ pos[s] <= Len(feed[s])
      /\ Table!Rank(feed[s], pos[s]) \in Nat
  BY SyncNumbers, RankSteps DEF IInv
<1>2. /\ n <= Table!Rank(feed[s], pos[s])
      /\ done = Table!Rank(feed[s], pos[s]) - n
      /\ \A j \in 1..n : \E k \in 1..pos[s] :
           feed[s][k] = chunk[s][j] /\ Table!Rank(feed[s], k) = done + j
  BY SettledIs DEF OrderInv, ChunkInOrder, InOrder
<1>3. \A j \in 1..n : chunk[s][j].url \notin Refused
  BY SyncTypes, RowsAssumption DEF IInv, ValidRows
<1>4. /\ \A k \in places : /\ k \in 1..Len(feed[s]) /\ feed[s][k].url \notin Refused
                           /\ done < Table!Rank(feed[s], k)
                           /\ Table!Rank(feed[s], k) <= done + n
      /\ \A k \in 1..Len(feed[s]) :
           /\ feed[s][k].url \notin Refused
           /\ done < Table!Rank(feed[s], k) /\ Table!Rank(feed[s], k) <= done + n
           => k \in places
  BY DEF Table!Batch, Table!Acceptable
<1>5. Table!Merges(table, pending, chunk[s], 1..n)
  BY DEF OrderInv, PendingIsMerged
<1> HIDE DEF n, done, places
<1>6. done \in Nat
  BY <1>1, <1>2
<1>7. ASSUME NEW j \in 1..n
      PROVE  \E k \in places : feed[s][k] = chunk[s][j] /\ Table!Rank(feed[s], k) = done + j
  <2>1. PICK k \in 1..pos[s] : feed[s][k] = chunk[s][j] /\ Table!Rank(feed[s], k) = done + j
    BY <1>2
  <2>2. /\ k \in 1..Len(feed[s]) /\ feed[s][k].url \notin Refused
        /\ done < done + j /\ done + j <= done + n
    BY <1>1, <1>3, <1>6, <2>1
  <2>3. k \in places
    BY <1>4, <2>1, <2>2
  <2> QED
    BY <2>1, <2>3
<1>8. ASSUME NEW k \in places
      PROVE  \E j \in 1..n : feed[s][k] = chunk[s][j] /\ Table!Rank(feed[s], k) = done + j
  <2> DEFINE rank == Table!Rank(feed[s], k)
  <2>1. k \in 1..Len(feed[s]) /\ k \in Nat /\ rank \in Nat
    BY <1>1, <1>4, RankSteps
  <2>2. done < rank /\ rank <= done + n
    BY <1>4
  <2> HIDE DEF rank
  <2>3. PICK j \in 1..n : rank = done + j
    <3>1. rank - done \in 1..n /\ rank = done + (rank - done)
      BY <1>1, <1>6, <2>1, <2>2 DEF n
    <3> QED
      BY <3>1
  <2>4. PICK m \in places : feed[s][m] = chunk[s][j] /\ Table!Rank(feed[s], m) = done + j
    BY <1>7
  <2>5. m \in Nat /\ feed[s][m].url \notin Refused /\ feed[s][k].url \notin Refused
    BY <1>1, <1>4
  <2>6. ~(Table!Rank(feed[s], m) < rank) /\ ~(rank < Table!Rank(feed[s], m))
    BY <1>6, <2>1, <2>3, <2>4
  <2>7. ~(k < m) /\ ~(m < k)
    BY <2>1, <2>5, <2>6, RankOrder DEF rank
  <2>8. k = m
    BY <2>1, <2>5, <2>7
  <2> QED
    BY <2>3, <2>4, <2>8 DEF rank
<1>9. places \in SUBSET Nat /\ \A k \in places : feed[s][k].url \notin Refused
  BY <1>1, <1>4
<1>10. Table!Merges(table, pending, feed[s], places)
  <2>1. n \in Nat
    BY <1>1 DEF n
  <2>2. SameRows(chunk[s], n, feed[s], places, done)
    BY <1>7, <1>8, <1>9 DEF SameRows
  <2> QED
    BY <1>5, <1>6, <1>9, <2>1, <2>2, MergeElsewhere
<1> QED
  BY <1>10 DEF places, done, n


\* What a synchronisation settles and counts when it settles d rows and counts e.
LEMMA SettlesSome ==
  ASSUME NEW s \in Syncs, NEW d, NEW e, Settled(s)' = d, Published(s)' = e,
         \A q \in Syncs \ {s} : /\ feed'[q] = feed[q] /\ pos'[q] = pos[q]
                                /\ chunk'[q] = chunk[q] /\ stats'[q] = stats[q]
  PROVE  /\ Settling' = [Settling EXCEPT ![s] = d]
         /\ Counting' = [Counting EXCEPT ![s] = e]
<1>1. \A q \in Syncs \ {s} : Settled(q)' = Settled(q)
  BY SettledIs
<1>2. \A q \in Syncs \ {s} : Published(q)' = Published(q)
  BY DEF Published
<1> QED
  BY <1>1, <1>2 DEF Settling, Counting

\* Steps in which FeedTable sees nothing of the synchronisations.
LEMMA NothingSettled ==
  ASSUME UNCHANGED <<feed, pos, chunk, stats>>
  PROVE  Settling' = Settling /\ Counting' = Counting
<1>1. \A q \in Syncs : Settled(q)' = Settled(q) /\ Published(q)' = Published(q)
  BY SettledIs DEF Published
<1> QED
  BY <1>1 DEF Settling, Counting

\* Taking a row settles nothing: it is refused, or it waits in the chunk.
LEMMA PullSettlesNothing ==
  ASSUME IInv, NEW s \in Syncs, Pull(s)
  PROVE  Settling' = Settling /\ Counting' = Counting
<1> DEFINE row == feed[s][pos[s] + 1]
           n == pos[s]
           rank == Table!Rank(feed[s], n)
<1>1. /\ n \in Nat /\ rank \in Nat /\ Len(chunk[s]) \in Nat /\ chunk[s] \in Seq(ValidRows)
      /\ stats[s].inserted \in Nat /\ stats[s].updated \in Nat
  BY SyncTypes, SyncNumbers, RankSteps DEF IInv
<1>2. row \in Rows
  BY SyncTypes, SyncNumbers DEF IInv, Pull
<1>3. /\ feed' = feed /\ pos'[s] = n + 1
      /\ \A q \in Syncs \ {s} : /\ pos'[q] = pos[q] /\ chunk'[q] = chunk[q]
                                /\ stats'[q] = stats[q]
  <2>1. \A q \in Syncs \ {s} : stats'[q] = stats[q]
    BY SyncTypes, CountKeepsType DEF IInv, Pull
  <2>2. /\ feed' = feed /\ pos' = [pos EXCEPT ![s] = @ + 1]
        /\ chunk' = chunk \/ chunk' = [chunk EXCEPT ![s] = Append(@, row)]
    BY DEF Pull
  <2> QED
    BY <2>1, <2>2, SyncTypes DEF IInv
<1>4. Published(s)' = Published(s)
  <2>1. Count(s, 0, 0, 1, 1) \/ Count(s, 0, 0, 1, 0)
    BY DEF Pull
  <2>2. /\ stats'[s].inserted = stats[s].inserted + 0
        /\ stats'[s].updated = stats[s].updated + 0
    BY <2>1, CountKeepsType DEF IInv
  <2> QED
    BY <1>1, <2>2 DEF Published
<1>5. Settled(s)' = Settled(s)
  <2>1. CASE row.url = NoUrl
    <3>1. chunk'[s] = chunk[s] /\ Table!Rank(feed[s], n + 1) = rank
      BY <1>1, <2>1, RankSteps DEF Pull, Refused
    <3> QED
      BY <1>3, <3>1, SettledIs
  <2>2. CASE row.url # NoUrl
    <3>1. chunk'[s] = Append(chunk[s], row) /\ Table!Rank(feed[s], n + 1) = rank + 1
      BY <1>1, <2>2, RankSteps, SyncTypes DEF IInv, Pull, Refused
    <3>2. Len(chunk'[s]) = Len(chunk[s]) + 1
      <4>1. row \in ValidRows
        BY <1>2, <2>2 DEF Rows, ValidRows, Refused, Pull
      <4> QED
        BY <1>1, <3>1, <4>1
    <3>3. Settled(s) = rank - Len(chunk[s]) /\ Settled(s)' = (rank + 1) - (Len(chunk[s]) + 1)
      BY <1>3, <3>1, <3>2, SettledIs
    <3> HIDE DEF rank
    <3> QED
      BY <1>1, <3>3
  <2> QED
    BY <2>1, <2>2
<1>6. /\ Settling' = [Settling EXCEPT ![s] = Settled(s)]
      /\ Counting' = [Counting EXCEPT ![s] = Published(s)]
  BY <1>3, <1>4, <1>5, SettlesSome
<1> QED
  BY <1>6 DEF Settling, Counting

\* An empty chunk holds no row.
LEMMA NothingHeld == Len(<<>>) = 0 /\ 0 - Len(<<>>) = 0
<1>1. Len(<<>>) = 0
  OBVIOUS
<1>2. ASSUME NEW n, n = 0 PROVE 0 - n = 0
  BY <1>2
<1> QED
  BY <1>1, <1>2, Zenon

\* A synchronisation begins, or has its CSV: nothing of it is settled yet.
LEMMA StartRefines ==
  ASSUME IInv, Schedule \/ \E s \in Syncs : Fetch(s)
  PROVE  \E s \in Syncs : Table!Start(s)
<1>1. CASE Schedule
  <2> DEFINE s == "scheduled"
  <2>1. /\ s \in Syncs /\ pos'[s] = 0 /\ chunk' = chunk /\ chunk[s] = <<>>
        /\ feed' = [feed EXCEPT ![s] = <<>>] /\ stats'[s] = NoStats
        /\ UNCHANGED <<table, step, answer, seen>>
        /\ \A q \in Syncs \ {s} : feed'[q] = feed[q] /\ pos'[q] = pos[q] /\ stats'[q] = stats[q]
    BY <1>1, SyncTypes DEF IInv, Stages, Schedule, Syncs, database, reader
  <2> HIDE DEF s
  <2>2. Settled(s)' = 0 /\ Published(s)' = 0
    <3>1. Settled(s)' = 0
      BY <2>1, SettledIs, RankSteps, NothingHeld
    <3>2. Published(s)' = 0 + 0
      BY <2>1 DEF Published, NoStats
    <3> QED
      BY <3>1, <3>2
  <2>3. Settling' = [Settling EXCEPT ![s] = 0] /\ Counting' = [Counting EXCEPT ![s] = 0]
    BY <2>1, <2>2, SettlesSome
  <2>4. Table!Start(s)
    BY <2>1, <2>3 DEF Table!Start, Settling, Counting
  <2> QED
    BY <2>1, <2>4
<1>2. ASSUME NEW s \in Syncs, Fetch(s) PROVE Table!Start(s)
  <2>1. PICK rows \in Feeds : feed' = [feed EXCEPT ![s] = rows]
    BY <1>2 DEF Fetch
  <2>2. /\ pos[s] = 0 /\ chunk[s] = <<>>
        /\ UNCHANGED <<table, pos, chunk, stats, step, answer, seen>>
        /\ \A q \in Syncs \ {s} : feed'[q] = feed[q]
    BY <1>2, <2>1, SyncTypes DEF IInv, Stages, Fetch, database, reader
  <2>3. Settled(s)' = 0
    BY <2>2, SettledIs, RankSteps, NothingHeld
  <2>4. Published(s)' = 0
    <3>1. /\ stats[s].inserted \in Nat /\ stats[s].updated \in Nat /\ stats[s].failed \in Nat
          /\ 0 = stats[s].inserted + stats[s].updated + stats[s].failed + 0
      BY <1>2, <2>2, SyncNumbers DEF IInv, RowsAreAccounted, Fetch
    <3>2. stats[s].inserted + stats[s].updated = 0
      BY <3>1
    <3> QED
      BY <2>2, <3>2 DEF Published
  <2>5. Settling' = [Settling EXCEPT ![s] = 0] /\ Counting' = [Counting EXCEPT ![s] = 0]
    BY <2>2, <2>3, <2>4, SettlesSome
  <2> QED
    BY <2>1, <2>2, <2>5 DEF Table!Start, Settling, Counting
<1> QED
  BY <1>1, <1>2

\* A commit publishes the chunk.
LEMMA CommitRefines ==
  ASSUME IInv, IInv', OrderInv, NEW s \in Syncs, Commit(s)
  PROVE  Table!Publish(s)
<1> DEFINE n == Len(chunk[s])
           updated == Cardinality({k \in 1..Len(chunk[s]) : chunk[s][k].id \in existing[s]})
<1>1. /\ pc[s] = "rows" /\ applied = n /\ table' = pending
      /\ Count(s, n - updated, updated, 0, 0)
      /\ chunk' = [chunk EXCEPT ![s] = <<>>]
      /\ seen' = seen \cup {Listed'}
      /\ UNCHANGED <<feed, pos, step, answer>>
  BY DEF Commit
<1>2. /\ n \in Nat /\ updated \in Nat /\ n - updated \in Nat
      /\ pos[s] \in Nat /\ Len(feed[s]) \in Nat /\ pos[s] <= Len(feed[s])
      /\ Table!Rank(feed[s], pos[s]) \in Nat
      /\ Table!Rank(feed[s], pos[s]) <= pos[s]
      /\ stats[s].inserted \in Nat /\ stats[s].updated \in Nat
  <2>1. /\ n \in Nat
        /\ pos[s] \in Nat /\ Len(feed[s]) \in Nat /\ pos[s] <= Len(feed[s])
        /\ Table!Rank(feed[s], pos[s]) \in Nat
        /\ Table!Rank(feed[s], pos[s]) <= pos[s]
        /\ stats[s].inserted \in Nat /\ stats[s].updated \in Nat
    BY SyncNumbers, RankSteps DEF IInv
  <2>2. updated \in Nat /\ updated <= n
    BY <2>1, UpdatedBound
  <2> HIDE DEF n, updated
  <2>3. n - updated \in Nat
    BY <2>1, <2>2
  <2> QED
    BY <2>1, <2>2, <2>3
<1>3. n \in 1..Len(feed[s])
  <2>1. n # 0
    BY <1>1, SyncTypes DEF IInv, Stages
  <2>2. n <= Table!Rank(feed[s], pos[s])
    BY DEF OrderInv, ChunkInOrder, InOrder
  <2> HIDE DEF n
  <2> QED
    BY <1>2, <2>1, <2>2
<1>4. Table!Merges(table, table', feed[s], Table!Batch(feed[s], Settled(s), Settled(s) + n))
  BY <1>1, ChunkIsBatch DEF IInv, LockHeld
<1>5. /\ \A q \in Syncs \ {s} : stats'[q] = stats[q]
      /\ stats'[s].inserted = stats[s].inserted + (n - updated)
      /\ stats'[s].updated = stats[s].updated + updated
  <2> HIDE DEF n, updated
  <2> QED
    BY <1>1, <1>2, CountKeepsType DEF IInv
<1>6. Published(s)' = Published(s) + n
  <2> HIDE DEF n, updated
  <2> QED
    BY <1>2, <1>5 DEF Published
<1>7. Settled(s)' = Settled(s) + n
  <2>1. chunk'[s] = <<>> /\ feed' = feed /\ pos' = pos
    BY <1>1, SyncTypes DEF IInv
  <2>2. Settled(s)' = Table!Rank(feed[s], pos[s]) - 0
    BY <2>1, SettledIs
  <2>3. Settled(s) = Table!Rank(feed[s], pos[s]) - n
    BY SettledIs
  <2> HIDE DEF n
  <2> QED
    BY <1>2, <2>2, <2>3
<1>8. /\ Settling' = [Settling EXCEPT ![s] = Settled(s) + n]
      /\ Counting' = [Counting EXCEPT ![s] = Published(s) + n]
  <2>1. \A q \in Syncs \ {s} : chunk'[q] = chunk[q]
    BY <1>1, SyncTypes DEF IInv
  <2> QED
    BY <1>1, <1>5, <1>6, <1>7, <2>1, SettlesSome
<1>9. Table!Unique(table')
  BY DEF IInv, UrlsAreUnique, Table!Unique
<1>10. seen' = seen \cup {Table!Listed'}
  BY <1>1 DEF Listed, Table!Listed
<1>11. Settling[s] = Settled(s) /\ Counting[s] = Published(s)
  BY DEF Settling, Counting
<1> HIDE DEF n, updated
<1> QED
  BY <1>1, <1>3, <1>4, <1>8, <1>9, <1>10, <1>11 DEF Table!Publish, Settling, Counting

\* A chunk that fails is given up.
LEMMA FailureRefines ==
  ASSUME IInv, OrderInv, NEW s \in Syncs, ChunkFails(s)
  PROVE  Table!GiveUp(s)
<1> DEFINE n == Len(chunk[s])
<1>1. /\ Count(s, 0, 0, 0, n)
      /\ chunk[s] # <<>>
      /\ chunk' = [chunk EXCEPT ![s] = <<>>]
      /\ UNCHANGED <<table, feed, pos, step, answer, seen>>
  <2>1. chunk[s] # <<>>
    BY RowsAssumption DEF IInv, ChunkFails, ChunkReady, Stages
  <2> QED
    BY <2>1 DEF ChunkFails, reader
<1>2. /\ n \in Nat
      /\ pos[s] \in Nat /\ Len(feed[s]) \in Nat /\ pos[s] <= Len(feed[s])
      /\ Table!Rank(feed[s], pos[s]) \in Nat
      /\ Table!Rank(feed[s], pos[s]) <= pos[s]
      /\ stats[s].inserted \in Nat /\ stats[s].updated \in Nat
  BY SyncNumbers, RankSteps DEF IInv
<1>3. n \in 1..Len(feed[s])
  <2>1. n # 0
    BY <1>1, SyncTypes DEF IInv
  <2>2. n <= Table!Rank(feed[s], pos[s])
    BY DEF OrderInv, ChunkInOrder, InOrder
  <2> HIDE DEF n
  <2> QED
    BY <1>2, <2>1, <2>2
<1>4. /\ \A q \in Syncs \ {s} : stats'[q] = stats[q]
      /\ stats'[s].inserted = stats[s].inserted + 0
      /\ stats'[s].updated = stats[s].updated + 0
  BY <1>1, <1>2, CountKeepsType DEF IInv
<1>5. Published(s)' = Published(s)
  BY <1>2, <1>4 DEF Published
<1>6. Settled(s)' = Settled(s) + n
  <2>1. chunk'[s] = <<>> /\ feed' = feed /\ pos' = pos
    BY <1>1, SyncTypes DEF IInv
  <2>2. Settled(s)' = Table!Rank(feed[s], pos[s]) - 0
    BY <2>1, SettledIs
  <2>3. Settled(s) = Table!Rank(feed[s], pos[s]) - n
    BY SettledIs
  <2> HIDE DEF n
  <2> QED
    BY <1>2, <2>2, <2>3
<1>7. /\ Settling' = [Settling EXCEPT ![s] = Settled(s) + n]
      /\ Counting' = [Counting EXCEPT ![s] = Published(s)]
  <2>1. \A q \in Syncs \ {s} : chunk'[q] = chunk[q]
    BY <1>1, SyncTypes DEF IInv
  <2> QED
    BY <1>1, <1>4, <1>5, <1>6, <2>1, SettlesSome
<1>8. Settling[s] = Settled(s) /\ Counting' = Counting
  BY <1>7 DEF Settling, Counting
<1> HIDE DEF n
<1> QED
  BY <1>1, <1>3, <1>7, <1>8 DEF Table!GiveUp, Settling, Counting

\* An exception gives the chunk up, if there is one.
LEMMA ExceptionRefines ==
  ASSUME IInv, OrderInv, NEW s \in Syncs, PullRaises(s) \/ SelectRaises(s)
  PROVE  Table!GiveUp(s) \/ UNCHANGED Table!vars
<1> DEFINE n == Len(chunk[s])
           rank == Table!Rank(feed[s], pos[s])
<1>1. Raised(s)
  BY BothRaise
<1>2. /\ UNCHANGED <<table, feed, step, answer, seen>>
      /\ \A q \in Syncs \ {s} : /\ pos'[q] = pos[q] /\ chunk'[q] = chunk[q]
                                /\ stats'[q] = stats[q]
      /\ chunk'[s] = <<>>
      /\ stats'[s].inserted = stats[s].inserted /\ stats'[s].updated = stats[s].updated
  BY <1>1, SyncTypes DEF IInv, Raised, database, reader
<1>3. /\ n \in Nat
      /\ pos[s] \in Nat /\ Len(feed[s]) \in Nat /\ pos[s] <= Len(feed[s])
      /\ rank \in Nat /\ rank <= pos[s] /\ n <= rank
  BY SyncNumbers, RankSteps DEF IInv, OrderInv, ChunkInOrder, InOrder
<1>4. Table!Rank(feed'[s], pos'[s]) = rank
  <2>1. CASE pos'[s] = pos[s]
    BY <1>2, <2>1
  <2>2. CASE pos'[s] = pos[s] + 1 /\ feed[s][pos[s] + 1].url \in Refused
    BY <1>2, <1>3, <2>2, RankSteps
  <2> QED
    BY <1>1, <2>1, <2>2 DEF Raised
<1>5. Settled(s)' = Settled(s) + n
  <2>1. Settled(s)' = rank - 0
    BY <1>2, <1>4, SettledIs, NothingHeld
  <2>2. Settled(s) = rank - n
    BY SettledIs
  <2> HIDE DEF n, rank
  <2> QED
    BY <1>3, <2>1, <2>2
<1>6. Published(s)' = Published(s)
  BY <1>2 DEF Published
<1>7. /\ Settling' = [Settling EXCEPT ![s] = Settled(s) + n]
      /\ Counting' = [Counting EXCEPT ![s] = Published(s)]
  BY <1>2, <1>5, <1>6, SettlesSome
<1>8. Settling[s] = Settled(s) /\ Counting' = Counting
  BY <1>7 DEF Settling, Counting
<1>9. Settled(s) + 0 = Settled(s)
  <2>1. Settled(s) = rank - n
    BY SettledIs
  <2> HIDE DEF n, rank
  <2> QED
    BY <1>3, <2>1
<1> HIDE DEF n
<1>10. CASE n = 0
  <2>1. Settling' = Settling
    BY <1>7, <1>9, <1>10 DEF Settling
  <2> QED
    BY <1>2, <1>8, <2>1 DEF Table!vars, Settling, Counting
<1>11. CASE n # 0
  <2>1. n \in 1..Len(feed[s])
    <3> HIDE DEF rank
    <3> QED
      BY <1>3, <1>11
  <2> QED
    BY <1>2, <1>7, <1>8, <2>1 DEF Table!GiveUp, Settling, Counting
<1> QED
  BY <1>10, <1>11

\* The lookup asks once and is answered once.
LEMMA LookupRefines ==
  ASSUME IInv, IInv', LookupStarts \/ LookupExact \/ LookupKey \/ LookupFails
  PROVE  Table!Ask \/ Table!Reply \/ UNCHANGED Table!vars
<1>1. /\ UNCHANGED <<table, feed, pos, chunk, stats>>
      /\ answer \in {"none", "threat", "clean", "db_error"}
      /\ step \in Nat /\ Len(Variants) \in Nat
  BY VariantsAssumption
  DEF IInv, TypeOK, LookupStarts, LookupExact, LookupKey, LookupFails, database, process
<1>2. UNCHANGED <<Settling, Counting>>
  BY <1>1, NothingSettled
<1>3. CASE LookupStarts
  <2>1. step = 0 /\ step' = 1 /\ seen' = {Listed}
    BY <1>3 DEF LookupStarts
  <2>2. Asking # "asked" /\ Asking' = "asked"
    BY <1>1, <2>1 DEF Asking
  <2> QED
    BY <1>1, <1>2, <2>1, <2>2 DEF Table!Ask, Table!Listed, Listed, Settling, Counting, Asking
<1>4. CASE step # 0 /\ step' = 0 /\ seen' = seen /\ answer' \in {"threat", "clean", "db_error"}
  <2>1. Asking = "asked" /\ Asking' = answer'
    BY <1>4 DEF Asking
  <2>2. /\ answer' = "threat" => TRUE \in seen
        /\ answer' = "clean" => FALSE \in seen
    BY <1>4 DEF IInv, LookupIsAtomic
  <2>3. Table!Reply
    BY <1>1, <1>2, <1>4, <2>1, <2>2 DEF Table!Reply, Settling, Counting, Asking
  <2> QED
    BY <2>3
<1>5. CASE LookupExact /\ step' = step + 1
  <2>1. step # 0 /\ step' # 0 /\ seen' = seen
    BY <1>1, <1>5 DEF LookupExact
  <2>2. Asking' = Asking
    BY <2>1 DEF Asking
  <2>3. UNCHANGED Table!vars
    BY <1>1, <1>2, <2>1, <2>2 DEF Table!vars, Settling, Counting, Asking
  <2> QED
    BY <2>3
<1>6. LookupExact => \/ step' = step + 1
                     \/ step # 0 /\ step' = 0 /\ seen' = seen /\ answer' = "threat"
  BY DEF LookupExact
<1>7. LookupKey => step # 0 /\ step' = 0 /\ seen' = seen /\ answer' \in {"threat", "clean"}
  BY <1>1 DEF LookupKey
<1>8. LookupFails => step # 0 /\ step' = 0 /\ seen' = seen /\ answer' = "db_error"
  BY DEF LookupFails
<1> QED
  BY <1>3, <1>4, <1>5, <1>6, <1>7, <1>8

\* A restart leaves the table.
LEMMA RestartRefines ==
  ASSUME Restart
  PROVE  Table!Restart
<1>1. \A q \in Syncs : Settled(q)' = 0 /\ Published(q)' = 0
  <2> TAKE q \in Syncs
  <2>1. pos'[q] = 0 /\ chunk'[q] = <<>> /\ stats'[q] = NoStats
    BY DEF Restart
  <2>2. Settled(q)' = 0
    BY <2>1, SettledIs, RankSteps, NothingHeld
  <2>3. Published(q)' = 0 + 0
    BY <2>1 DEF Published, NoStats
  <2> QED
    BY <2>2, <2>3
<1>2. Settling' = [q \in Syncs |-> 0] /\ Counting' = [q \in Syncs |-> 0]
  BY <1>1 DEF Settling, Counting
<1>3. Asking' = "none"
  BY DEF Restart, Asking
<1> QED
  BY <1>2, <1>3 DEF Table!Restart, Restart, Settling, Counting, Asking

\* Each step is one of FeedTable's, or FeedTable does not see it.
LEMMA StepRefines ==
  IInv /\ IInv' /\ OrderInv /\ [Next]_vars => [Table!Next]_(Table!vars)
<1> SUFFICES ASSUME IInv, IInv', OrderInv, [Next]_vars
             PROVE  Table!Next \/ UNCHANGED Table!vars
  OBVIOUS
<1>1. ASSUME UNCHANGED <<table, step, answer, seen, feed>>,
             Settling' = Settling, Counting' = Counting
      PROVE  UNCHANGED Table!vars
  BY <1>1 DEF Table!vars, Settling, Counting
<1>2. ASSUME NEW s \in Syncs,
             FetchFails(s) \/ SelectExisting(s) \/ Insert(s) \/ ApplyRow(s) \/ Complete(s)
      PROVE  UNCHANGED Table!vars
  <2>1. UNCHANGED <<table, step, answer, seen, feed, pos, chunk, stats>>
    BY <1>2
    DEF FetchFails, SelectExisting, Insert, ApplyRow, Complete, database, process, reader
  <2> QED
    BY <1>1, <2>1, NothingSettled
<1>3. ASSUME NEW s \in Syncs, Pull(s) PROVE UNCHANGED Table!vars
  <2>1. UNCHANGED <<table, step, answer, seen, feed>>
    BY <1>3 DEF Pull, database, reader
  <2> QED
    BY <1>1, <1>3, <2>1, PullSettlesNothing
<1>4. CASE UNCHANGED vars
  <2>1. UNCHANGED <<table, step, answer, seen, feed, pos, chunk, stats>>
    BY <1>4 DEF vars, database, process, reader
  <2> QED
    BY <1>1, <2>1, NothingSettled
<1>5. CASE Schedule \/ \E s \in Syncs : Fetch(s)
  BY <1>5, StartRefines DEF Table!Next
<1>6. ASSUME NEW s \in Syncs, Commit(s) PROVE Table!Next
  BY <1>6, CommitRefines DEF Table!Next
<1>7. ASSUME NEW s \in Syncs, ChunkFails(s) PROVE Table!Next
  BY <1>7, FailureRefines DEF Table!Next
<1>8. CASE LookupStarts \/ LookupExact \/ LookupKey \/ LookupFails
  BY <1>8, LookupRefines DEF Table!Next
<1>9. CASE Restart
  BY <1>9, RestartRefines DEF Table!Next
<1>10. ASSUME NEW s \in Syncs, PullRaises(s) \/ SelectRaises(s)
       PROVE  Table!Next \/ UNCHANGED Table!vars
  BY <1>10, ExceptionRefines DEF Table!Next
<1> QED
  BY <1>2, <1>3, <1>4, <1>5, <1>6, <1>7, <1>8, <1>9, <1>10 DEF Next, Progress

\* The initial states are FeedTable's.
LEMMA StartsRight == Init => Table!Init
<1> SUFFICES ASSUME Init PROVE Table!Init
  OBVIOUS
<1>1. \A q \in Syncs : Settled(q) = 0 /\ Published(q) = 0
  <2> TAKE q \in Syncs
  <2>1. Settled(q) = 0
    BY SettledIs, RankSteps, NothingHeld DEF Init
  <2>2. Published(q) = 0 + 0
    BY DEF Init, Published, NoStats
  <2> QED
    BY <2>1, <2>2
<1> QED
  BY <1>1 DEF Init, Table!Init

\* For any ids, urls, CSVs and chunk sizes, two overlapping synchronisations with
\* their failures and restarts publish whole batches in the order of their CSVs
\* and count exactly those, and a lookup beside them is answered with what was
\* true while it ran (urlhaus_sync.py:181-240, urlhaus.py:71-107).
THEOREM SyncImplementsFeedTable == Spec => ImplementsFeedTable
<1>1. Spec => [](IInv /\ OrderInv)
  BY OrderInvariance
<1>2. Init => Table!Init
  BY StartsRight
<1>3. IInv /\ IInv' /\ OrderInv /\ [Next]_vars => [Table!Next]_(Table!vars)
  BY StepRefines
<1> QED
  BY <1>1, <1>2, <1>3, PTL DEF Spec, ImplementsFeedTable, Table!Spec
-----------------------------------------------------------------------------
(* No synchronisation is for ever.                                         *)

\* The statements a synchronisation has left when so many rows of its CSV are
\* still to be taken and so many are in the chunk: at the worst each row is a
\* chunk of its own, which is selected, inserted, applied and committed.
StepsLeft(stage, rows, held, done) ==
  CASE stage = "pull" -> 5 * rows + 4 * held + 1
    [] stage = "insert" -> 5 * rows + 4 * held
    [] stage = "rows" -> 5 * rows + 4 * held - 1 - done
    [] OTHER -> 0

Left(s) == StepsLeft(pc[s], Len(feed[s]) - pos[s], Len(chunk[s]), IF writer = s THEN applied ELSE 0)

course(s) == <<pc[s], feed[s], pos[s], chunk[s], IF writer = s THEN applied ELSE 0>>

Working(s) == pc[s] \in {"pull", "insert", "rows"}

\* Arithmetic: a sum exceeds its last part; taking a row shortens the rest; the
\* statements fall by each kind of step.
LEMMA Parts ==
  ASSUME NEW all \in Nat, NEW n \in Nat, n <= all, NEW i \in Nat, NEW u \in Nat, NEW f \in Nat,
         NEW held \in Nat, n = i + u + f + held
  PROVE  all - n \in Nat /\ held <= n
OBVIOUS

LEMMA Shorter ==
  ASSUME NEW all \in Nat, NEW n \in Nat, n < all
  PROVE  all - (n + 1) = (all - n) - 1 /\ (all - n) - 1 \in Nat
OBVIOUS

LEMMA Costs ==
  ASSUME NEW rows \in Nat, NEW held \in Nat, NEW done \in Nat, done <= held
  PROVE  /\ StepsLeft("pull", rows - 1, held, done) < StepsLeft("pull", rows, held, done)
         /\ StepsLeft("pull", rows - 1, held + 1, done) < StepsLeft("pull", rows, held, done)
         /\ StepsLeft("insert", rows, held, done) < StepsLeft("pull", rows, held, done)
         /\ StepsLeft("rows", rows, held, 0) < StepsLeft("insert", rows, held, done)
         /\ held >= 1 => \A stage \in {"pull", "insert", "rows"} :
              StepsLeft("pull", rows, 0, 0) < StepsLeft(stage, rows, held, done)
<1>1. \A stage \in {"pull", "insert", "rows"} : held >= 1 =>
        StepsLeft("pull", rows, 0, 0) < StepsLeft(stage, rows, held, done)
  BY DEF StepsLeft
<1> QED
  BY <1>1 DEF StepsLeft

\* What the numbers of a synchronisation are.
LEMMA LeftNumbers ==
  ASSUME IInv, NEW s \in Syncs
  PROVE  /\ Len(feed[s]) \in Nat /\ pos[s] \in Nat /\ Len(chunk[s]) \in Nat /\ applied \in Nat
         /\ pos[s] <= Len(feed[s]) /\ Len(chunk[s]) <= pos[s]
         /\ Len(feed[s]) - pos[s] \in Nat
         /\ pc[s] \in {"insert", "rows"} => Len(chunk[s]) # 0
         /\ pc[s] = "rows" <=> writer = s
         /\ writer = s => applied <= Len(chunk[s])
<1>1. /\ Len(feed[s]) \in Nat /\ pos[s] \in Nat /\ Len(chunk[s]) \in Nat /\ pos[s] <= Len(feed[s])
      /\ stats[s].inserted \in Nat /\ stats[s].updated \in Nat /\ stats[s].failed \in Nat
  BY SyncNumbers DEF IInv
<1>2. ASSUME pc[s] # "raised" PROVE Len(feed[s]) - pos[s] \in Nat /\ Len(chunk[s]) <= pos[s]
  <2>1. pos[s] = stats[s].inserted + stats[s].updated + stats[s].failed + Len(chunk[s])
    BY <1>2 DEF IInv, RowsAreAccounted
  <2> QED
    BY <1>1, <2>1, Parts
<1>3. ASSUME pc[s] = "raised" PROVE Len(feed[s]) - pos[s] \in Nat /\ Len(chunk[s]) <= pos[s]
  <2>1. Len(chunk[s]) = 0
    BY <1>3, NothingHeld DEF IInv, Stages
  <2> QED
    BY <1>1, <2>1
<1>4. Len(feed[s]) - pos[s] \in Nat /\ Len(chunk[s]) <= pos[s]
  BY <1>1, <1>2, <1>3
<1>5. pc[s] \in {"insert", "rows"} => Len(chunk[s]) # 0
  BY SyncTypes DEF IInv, Stages
<1> QED
  BY <1>1, <1>4, <1>5 DEF IInv, TypeOK, LockHeld, PendingGrows

\* How many statements there are at most.
LEMMA LeftBound ==
  ASSUME IInv, NEW s \in Syncs, Working(s)
  PROVE  Left(s) \in 1..(5 * Len(feed[s]) + 1)
<1> DEFINE rows == Len(feed[s]) - pos[s]
           held == Len(chunk[s])
           all == Len(feed[s])
           done == IF writer = s THEN applied ELSE 0
<1>1. /\ all \in Nat /\ rows \in Nat /\ held \in Nat /\ done \in Nat
      /\ rows + held <= all /\ done <= held
      /\ pc[s] \in {"insert", "rows"} => held >= 1
  <2> DEFINE n == pos[s]
  <2>1. /\ all \in Nat /\ n \in Nat /\ held \in Nat /\ rows \in Nat
        /\ n <= all /\ held <= n /\ rows = all - n
        /\ done \in Nat /\ done <= held
        /\ pc[s] \in {"insert", "rows"} => held # 0
    BY LeftNumbers
  <2> HIDE DEF rows, held, all, done, n
  <2> QED
    BY <2>1
<1>2. Left(s) = StepsLeft(pc[s], rows, held, done)
  BY DEF Left
<1> HIDE DEF rows, held, all, done
<1>3. StepsLeft(pc[s], rows, held, done) \in 1..(5 * all + 1)
  <2>1. CASE pc[s] = "pull"
    BY <1>1, <2>1 DEF StepsLeft
  <2>2. CASE pc[s] = "insert"
    BY <1>1, <2>2 DEF StepsLeft
  <2>3. CASE pc[s] = "rows"
    BY <1>1, <2>3 DEF StepsLeft
  <2> QED
    BY <2>1, <2>2, <2>3 DEF Working
<1> QED
  BY <1>2, <1>3 DEF all

\* Each statement of a synchronisation is one of those it had left.
LEMMA StatementCounts ==
  ASSUME IInv, NEW s \in Syncs, Working(s), Progress(s)
  PROVE  Left(s)' < Left(s)
<1> DEFINE rows == Len(feed[s]) - pos[s]
           held == Len(chunk[s])
           done == IF writer = s THEN applied ELSE 0
<1>1. /\ Len(feed[s]) \in Nat /\ pos[s] \in Nat /\ rows \in Nat /\ held \in Nat /\ done \in Nat
      /\ done <= held
      /\ pc[s] \in {"insert", "rows"} => held >= 1
  BY LeftNumbers
<1>2. Left(s) = StepsLeft(pc[s], rows, held, done)
  BY DEF Left
<1>3. CASE Pull(s)
  <2>1. /\ pc[s] = "pull" /\ pc'[s] = "pull" /\ feed' = feed /\ pos[s] < Len(feed[s])
        /\ pos'[s] = pos[s] + 1
        /\ \/ chunk' = chunk
           \/ chunk'[s] = Append(chunk[s], feed[s][pos[s] + 1])
    BY <1>3, SyncTypes DEF IInv, Pull
  <2>2. Len(chunk'[s]) = held \/ Len(chunk'[s]) = held + 1
    BY <2>1, SyncTypes DEF IInv
  <2>3. Len(feed'[s]) - pos'[s] = rows - 1
    <3>1. Len(feed[s]) - (pos[s] + 1) = (Len(feed[s]) - pos[s]) - 1
      BY <1>1, <2>1, Shorter
    <3> QED
      BY <2>1, <3>1
  <2>4. Left(s)' = StepsLeft("pull", rows - 1, Len(chunk'[s]), done)
    BY <2>1, <2>3 DEF Left, StepsLeft
  <2> HIDE DEF rows, held, done
  <2> QED
    BY <1>1, <1>2, <2>1, <2>2, <2>4, Costs
<1>4. CASE SelectExisting(s) \/ Insert(s)
  <2>1. /\ UNCHANGED <<feed, pos, chunk>>
        /\ \/ pc[s] = "pull" /\ pc'[s] = "insert"
           \/ pc[s] = "insert" /\ pc'[s] = "rows" /\ writer' = s /\ applied' = 0
    BY <1>4 DEF IInv, TypeOK, SelectExisting, ChunkReady, Insert
  <2>2. Left(s)' = StepsLeft(pc'[s], rows, held, IF writer' = s THEN applied' ELSE 0)
    BY <2>1 DEF Left
  <2> HIDE DEF rows, held, done
  <2>3. CASE pc[s] = "pull" /\ pc'[s] = "insert"
    <3>1. Left(s)' = StepsLeft("insert", rows, held, done)
      BY <2>2, <2>3 DEF StepsLeft
    <3> QED
      BY <1>1, <1>2, <2>3, <3>1, Costs
  <2>4. CASE pc[s] = "insert" /\ pc'[s] = "rows" /\ writer' = s /\ applied' = 0
    BY <1>1, <1>2, <2>2, <2>4, Costs
  <2> QED
    BY <2>1, <2>3, <2>4
<1>5. CASE ApplyRow(s)
  <2>1. /\ UNCHANGED <<feed, pos, chunk, pc, writer>> /\ pc[s] = "rows" /\ applied' = applied + 1
    BY <1>5 DEF ApplyRow, process
  <2>2. writer = s /\ applied \in Nat
    BY <2>1, LeftNumbers
  <2>3. /\ Left(s) = 5 * rows + 4 * held - 1 - applied
        /\ Left(s)' = 5 * rows + 4 * held - 1 - (applied + 1)
    BY <1>2, <2>1, <2>2 DEF Left, StepsLeft
  <2> HIDE DEF rows, held
  <2> QED
    BY <1>1, <2>2, <2>3
<1>6. CASE Commit(s) \/ ChunkFails(s)
  <2>1. /\ UNCHANGED <<feed, pos>> /\ chunk'[s] = <<>> /\ pc'[s] = "pull"
        /\ pc[s] \in {"insert", "rows"} \/ ChunkReady(s)
    BY <1>6, SyncTypes DEF IInv, TypeOK, Commit, ChunkFails
  <2>2. held >= 1
    <3>1. CASE ChunkReady(s)
      <4>1. chunk[s] # <<>> \/ held = ChunkSize
        BY <3>1 DEF ChunkReady
      <4>2. held # 0
        BY <4>1, SyncTypes, RowsAssumption DEF IInv
      <4> HIDE DEF held
      <4> QED
        BY <1>1, <4>2
    <3> QED
      BY <1>1, <2>1, <3>1
  <2>3. Left(s)' = StepsLeft("pull", rows, 0, 0)
    BY <2>1, NothingHeld DEF Left, StepsLeft
  <2> HIDE DEF rows, held, done
  <2> QED
    BY <1>1, <1>2, <2>2, <2>3, Costs DEF Working
<1>7. CASE Complete(s)
  <2>1. pc[s] = "pull" /\ pc'[s] = "done"
    BY <1>7 DEF IInv, TypeOK, Complete
  <2>2. Left(s) = 5 * rows + 4 * held + 1 /\ Left(s)' = 0
    BY <1>2, <2>1 DEF Left, StepsLeft
  <2> HIDE DEF rows, held
  <2> QED
    BY <1>1, <2>2
<1>8. ~Fetch(s) /\ ~FetchFails(s)
  BY DEF Working, Fetch, FetchFails
<1>9. CASE PullRaises(s) \/ SelectRaises(s)
  <2>1. pc'[s] = "raised"
    BY <1>9, BothRaise DEF IInv, TypeOK, Raised
  <2>2. Left(s)' = 0
    BY <2>1 DEF Left, StepsLeft
  <2> QED
    BY <2>2, LeftBound
<1> QED
  BY <1>3, <1>4, <1>5, <1>6, <1>7, <1>8, <1>9 DEF Progress

\* What the other synchronisation does, its holding of the write lock included,
\* takes nothing and adds nothing; nor does a lookup.
LEMMA OthersCountNothing ==
  ASSUME IInv, NEW s \in Syncs, Working(s), Next, UNCHANGED boots, ~Progress(s)
  PROVE  UNCHANGED course(s)
<1>1. ASSUME NEW q \in Syncs \ {s}, Progress(q)
      PROVE  UNCHANGED course(s)
  <2>1. pc'[s] = pc[s] /\ feed'[s] = feed[s] /\ pos'[s] = pos[s] /\ chunk'[s] = chunk[s]
    BY <1>1, SyncTypes
    DEF IInv, TypeOK, Progress, Fetch, FetchFails, Pull, PullRaises, SelectExisting, SelectRaises, Insert, ApplyRow, Commit,
        ChunkFails, Complete, process
  <2>2. (IF writer' = s THEN applied' ELSE 0) = IF writer = s THEN applied ELSE 0
    <3>1. CASE writer = s
      <4>1. pc[q] # "rows"
        BY <1>1, <3>1 DEF IInv, LockHeld
      <4>2. UNCHANGED <<writer, applied>>
        BY <1>1, <3>1, <4>1
        DEF Progress, Fetch, FetchFails, Pull, PullRaises, SelectExisting, SelectRaises, Insert, ApplyRow, Commit, ChunkFails,
            Rollback, Complete, database, Syncs
      <4> QED
        BY <4>2
    <3>2. CASE writer # s
      <4>1. writer' # s
        BY <1>1, <3>2
        DEF Progress, Fetch, FetchFails, Pull, PullRaises, SelectExisting, SelectRaises, Insert, ApplyRow, Commit, ChunkFails,
            Rollback, Complete, database, Syncs
      <4> QED
        BY <3>2, <4>1
    <3> QED
      BY <3>1, <3>2
  <2> QED
    BY <2>1, <2>2 DEF course
<1>2. CASE LookupStarts \/ LookupExact \/ LookupKey \/ LookupFails
  BY <1>2 DEF course, LookupStarts, LookupExact, LookupKey, LookupFails, database, process
<1>3. CASE Schedule
  <2>1. s # "scheduled"
    BY <1>3 DEF Working, Schedule
  <2> QED
    BY <1>3, <2>1, SyncTypes DEF IInv, TypeOK, Schedule, course, database
<1>4. ~Restart
  BY DEF Restart, IInv, TypeOK
<1> QED
  BY <1>1, <1>2, <1>3, <1>4 DEF Next

\* Once it has its CSV, a synchronisation executes at most five statements for
\* each of its rows and one more, whatever chunks fail, however long it waits
\* for the other one's lock and whoever asks for a URL, until the process is
\* restarted: no chunk is tried again.
THEOREM NoSyncIsEndless ==
  ASSUME NEW s \in Syncs
  PROVE  Spec => [][Working(s) /\ UNCHANGED boots
                      => Left(s)' < Left(s) /\ Left(s) \in 1..(5 * Len(feed[s]) + 1)]_(course(s))
<1>1. ASSUME IInv, [Next]_vars, ~UNCHANGED course(s), Working(s), UNCHANGED boots
      PROVE  Left(s)' < Left(s) /\ Left(s) \in 1..(5 * Len(feed[s]) + 1)
  <2>1. ~UNCHANGED vars
    BY <1>1 DEF course, vars, database, process
  <2>2. Progress(s)
    BY <1>1, <2>1, OthersCountNothing
  <2> QED
    BY <1>1, <2>2, StatementCounts, LeftBound
<1>2. IInv /\ [Next]_vars
        => [Working(s) /\ UNCHANGED boots
              => Left(s)' < Left(s) /\ Left(s) \in 1..(5 * Len(feed[s]) + 1)]_(course(s))
  BY <1>1
<1> QED
  BY <1>2, Invariance, PTL DEF Spec
===============================================================================
