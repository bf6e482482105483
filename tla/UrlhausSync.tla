----------------------------- MODULE UrlhausSync -----------------------------
(***************************************************************************)
(* The local copy of URLhaus: sync_urlhaus of threat_db/urlhaus_sync.py,   *)
(* which downloads a CSV and upserts it chunk by chunk, and check_urlhaus  *)
(* of threat_db/urlhaus.py, which looks one URL up with several SELECTs    *)
(* while synchronisations run.  main.py starts one synchronisation at      *)
(* boot and scheduler.py repeats another; max_instances = 1 keeps the      *)
(* second from overlapping itself but says nothing of the first.           *)
(*                                                                         *)
(* SQLite in WAL mode: one transaction writes at a time, readers see what  *)
(* is committed, and a transaction begins with its first write.            *)
(***************************************************************************)
EXTENDS Integers, Sequences, FiniteSets

CONSTANTS
  Ids, Urls, \* what rows are made of
  NoUrl,     \* stands for a row that _build_values or the field count refuses
  BadUrl,    \* a row with a url on which urlparse raises, as it does on "http://[x"
  BadLine,   \* a line on which the csv module raises
  HugeIds,   \* the ids that do not fit in SQLite's 64 bits
  Key,       \* the match_key of each URL
  Feeds,     \* the CSVs the server may answer with: sequences of rows
  Variants,  \* the spellings _url_variants gives of the URL looked up
  ChunkSize,
  MaxRuns,   \* bound: starts of the scheduled job
  MaxBoots   \* bound: restarts of the process

Syncs == {"startup", "scheduled"}

\* Rows that never come into the table.
Refused == {NoUrl, BadUrl, BadLine}

Rows == [id : Ids, url : Urls \cup Refused]

\* The rows _build_values accepts.
ValidRows == [id : Ids, url : Urls]

ASSUME RowsAssumption ==
  /\ Urls \cap Refused = {}
  /\ HugeIds \subseteq Ids
  /\ Feeds \subseteq Seq(Rows)
  /\ ChunkSize \in Nat \ {0}
  /\ MaxRuns \in Nat /\ MaxBoots \in Nat
\* Scheme and trailing slash are no part of a match_key.
ASSUME VariantsAssumption ==
  /\ Variants \in Seq(Urls) /\ Variants # <<>>
  /\ Key \in [Urls -> Urls]
  /\ \A k \in 1..Len(Variants) : Key[Variants[k]] = Key[Variants[1]]

VARIABLES
  table,    \* the committed rows: the url of each id
  writer,   \* the synchronisation whose transaction writes, or "none"
  pending,  \* what the table becomes when it commits
  applied,  \* the rows of the chunk that are in it
  pc,       \* where each synchronisation is
  feed,     \* the CSV it downloaded
  pos,      \* the rows it has taken from it
  chunk,    \* the valid rows not yet flushed
  existing, \* the ids of the chunk the SELECT found
  stats,    \* what it counts
  step,     \* the SELECT the lookup does next, 0 when none runs
  answer,   \* its result
  seen,     \* whether the URL was listed, at each moment of the lookup
  runs, boots

process == <<pc, feed, pos, chunk, existing, stats>>
database == <<table, writer, pending, applied>>
reader == <<step, answer, seen>>
vars == <<database, process, reader, runs, boots>>
-----------------------------------------------------------------------------
Counters == [inserted : Nat, updated : Nat, total : Nat, failed : Nat]

NoStats == [inserted |-> 0, updated |-> 0, total |-> 0, failed |-> 0]

Count(s, inserted, updated, total, failed) ==
  stats' = [stats EXCEPT ![s] =
              [inserted |-> @.inserted + inserted, updated |-> @.updated + updated,
               total |-> @.total + total, failed |-> @.failed + failed]]

\* Mutant of Upsert: ON CONFLICT(id) DO NOTHING.
UpsertOnlyNew(rows, row) ==
  [id \in DOMAIN rows \cup {row.id} |-> IF id \in DOMAIN rows THEN rows[id] ELSE row.url]

\* ON CONFLICT(id) DO UPDATE: a row of that id is replaced in every column.
Upsert(rows, row) ==
  [id \in DOMAIN rows \cup {row.id} |-> IF id = row.id THEN row.url ELSE rows[id]]

\* Mutant of Taken: the url column has no unique index.
NeverTaken(rows, row) == FALSE

\* The url column is unique: a row whose url another id has is refused, and with
\* it the whole statement.
Taken(rows, row) == \E id \in DOMAIN rows \ {row.id} : rows[id] = row.url

Listed == \E id \in DOMAIN table : Key[table[id]] = Key[Variants[1]]

Init ==
  /\ table = [id \in {} |-> NoUrl] /\ writer = "none" /\ pending = table /\ applied = 0
  /\ pc = [s \in Syncs |-> IF s = "startup" THEN "fetch" ELSE "off"]
  /\ feed = [s \in Syncs |-> <<>>]
  /\ pos = [s \in Syncs |-> 0]
  /\ chunk = [s \in Syncs |-> <<>>]
  /\ existing = [s \in Syncs |-> {}]
  /\ stats = [s \in Syncs |-> NoStats]
  /\ step = 0 /\ answer = "none" /\ seen = {}
  /\ runs = 0 /\ boots = 0
-----------------------------------------------------------------------------
\* The scheduler starts its job unless the last one still runs; an exception of
\* the last one is logged.
Schedule ==
  LET s == "scheduled"
  IN /\ pc[s] \in {"off", "done", "raised"}
     /\ runs < MaxRuns
     /\ runs' = runs + 1
     /\ pc' = [pc EXCEPT ![s] = "fetch"]
     /\ feed' = [feed EXCEPT ![s] = <<>>]
     /\ pos' = [pos EXCEPT ![s] = 0]
     /\ stats' = [stats EXCEPT ![s] = NoStats]
     /\ UNCHANGED <<database, chunk, existing, reader, boots>>

Fetch(s) ==
  /\ pc[s] = "fetch"
  /\ \E csv \in Feeds : feed' = [feed EXCEPT ![s] = csv]
  /\ pc' = [pc EXCEPT ![s] = "pull"]
  /\ UNCHANGED <<database, pos, chunk, existing, stats, reader, runs, boots>>

\* No connection, or a status other than 200.
FetchFails(s) ==
  /\ pc[s] = "fetch"
  /\ pc' = [pc EXCEPT ![s] = "done"]
  /\ UNCHANGED <<database, feed, pos, chunk, existing, stats, reader, runs, boots>>

ChunkReady(s) ==
  /\ pc[s] = "pull"
  /\ Len(chunk[s]) = ChunkSize \/ (pos[s] = Len(feed[s]) /\ chunk[s] # <<>>)

\* The generators take rows from the CSV until a chunk is full.
Pull(s) ==
  LET row == feed[s][pos[s] + 1]
  IN /\ pc[s] = "pull"
     /\ pos[s] < Len(feed[s])
     /\ Len(chunk[s]) < ChunkSize
     /\ row.url \notin {BadUrl, BadLine}
     /\ pos' = [pos EXCEPT ![s] = @ + 1]
     /\ IF row.url = NoUrl
        THEN Count(s, 0, 0, 1, 1) /\ UNCHANGED chunk
        ELSE /\ Count(s, 0, 0, 1, 0)
             /\ chunk' = [chunk EXCEPT ![s] = Append(@, row)]
     /\ UNCHANGED <<database, pc, feed, existing, reader, runs, boots>>

\* An exception of the parser ends the synchronisation: _build_values catches none
\* of urlparse, and sync_urlhaus only those of SQLAlchemy.  The row is in total if
\* the csv module could read it, the chunk is dropped, and the statistics are
\* never returned.
PullRaises(s) ==
  LET row == feed[s][pos[s] + 1]
  IN /\ pc[s] = "pull"
     /\ pos[s] < Len(feed[s])
     /\ Len(chunk[s]) < ChunkSize
     /\ row.url \in {BadUrl, BadLine}
     /\ pos' = [pos EXCEPT ![s] = @ + 1]
     /\ Count(s, 0, 0, IF row.url = BadUrl THEN 1 ELSE 0, 0)
     /\ chunk' = [chunk EXCEPT ![s] = <<>>]
     /\ pc' = [pc EXCEPT ![s] = "raised"]
     /\ UNCHANGED <<database, feed, existing, reader, runs, boots>>

TooLarge(s) == \E k \in 1..Len(chunk[s]) : chunk[s][k].id \in HugeIds

\* The SELECT of _flush_chunk; it takes no lock.
SelectExisting(s) ==
  /\ ChunkReady(s)
  /\ ~TooLarge(s)
  /\ existing' = [existing EXCEPT ![s] =
                    DOMAIN table \cap {chunk[s][k].id : k \in 1..Len(chunk[s])}]
  /\ pc' = [pc EXCEPT ![s] = "insert"]
  /\ UNCHANGED <<database, feed, pos, chunk, stats, reader, runs, boots>>

\* int has no limit and _build_values checks none: the SELECT cannot bind such an
\* id, and OverflowError is no SQLAlchemyError.
SelectRaises(s) ==
  /\ ChunkReady(s)
  /\ TooLarge(s)
  /\ chunk' = [chunk EXCEPT ![s] = <<>>]
  /\ pc' = [pc EXCEPT ![s] = "raised"]
  /\ UNCHANGED <<database, feed, pos, existing, stats, reader, runs, boots>>

\* Mutant of Insert: it does not wait for the write lock.
InsertUnlocked(s) ==
  /\ pc[s] = "insert"
  /\ writer' = s /\ pending' = table /\ applied' = 0
  /\ pc' = [pc EXCEPT ![s] = "rows"]
  /\ UNCHANGED <<table, feed, pos, chunk, existing, stats, reader, runs, boots>>

\* The multi-row INSERT begins the transaction.
Insert(s) ==
  /\ pc[s] = "insert"
  /\ writer = "none"
  /\ writer' = s /\ pending' = table /\ applied' = 0
  /\ pc' = [pc EXCEPT ![s] = "rows"]
  /\ UNCHANGED <<table, feed, pos, chunk, existing, stats, reader, runs, boots>>

\* It applies its rows one after the other; nobody sees them yet.
ApplyRow(s) ==
  LET row == chunk[s][applied + 1]
  IN /\ pc[s] = "rows"
     /\ applied < Len(chunk[s])
     /\ ~Taken(pending, row)
     /\ pending' = Upsert(pending, row)
     /\ applied' = applied + 1
     /\ UNCHANGED <<table, writer, process, reader, runs, boots>>

\* session.begin() commits, and only then are the rows counted.
Commit(s) ==
  LET updated == Cardinality({k \in 1..Len(chunk[s]) : chunk[s][k].id \in existing[s]})
  IN /\ pc[s] = "rows"
     /\ applied = Len(chunk[s])
     /\ table' = pending
     /\ writer' = "none" /\ applied' = 0
     /\ existing' = [existing EXCEPT ![s] = {}]
     /\ Count(s, Len(chunk[s]) - updated, updated, 0, 0)
     /\ chunk' = [chunk EXCEPT ![s] = <<>>]
     /\ pc' = [pc EXCEPT ![s] = "pull"]
     /\ seen' = seen \cup {Listed'}
     /\ UNCHANGED <<pending, feed, pos, step, answer, runs, boots>>

\* The transaction is rolled back, if it had begun.
Rollback(s) ==
  /\ existing' = [existing EXCEPT ![s] = {}]
  /\ IF writer = s THEN writer' = "none" /\ pending' = table /\ applied' = 0
     ELSE UNCHANGED <<writer, pending, applied>>

\* Mutants of ChunkFails: the rows are not counted; the chunk is tried again.
ChunkFailsUncounted(s) ==
  /\ ChunkReady(s) \/ pc[s] \in {"insert", "rows"}
  /\ Rollback(s)
  /\ chunk' = [chunk EXCEPT ![s] = <<>>]
  /\ pc' = [pc EXCEPT ![s] = "pull"]
  /\ UNCHANGED <<table, feed, pos, stats, reader, runs, boots>>

ChunkRetried(s) ==
  /\ ChunkReady(s) \/ pc[s] \in {"insert", "rows"}
  /\ Rollback(s)
  /\ pc' = [pc EXCEPT ![s] = "pull"]
  /\ UNCHANGED <<table, feed, pos, chunk, stats, reader, runs, boots>>

\* Any statement can fail: the url is taken, the database is locked for longer
\* than the busy timeout, the disk is full.  The transaction is rolled back and
\* the next chunk goes on.
ChunkFails(s) ==
  /\ ChunkReady(s) \/ pc[s] \in {"insert", "rows"}
  /\ Rollback(s)
  /\ Count(s, 0, 0, 0, Len(chunk[s]))
  /\ chunk' = [chunk EXCEPT ![s] = <<>>]
  /\ pc' = [pc EXCEPT ![s] = "pull"]
  /\ UNCHANGED <<table, feed, pos, reader, runs, boots>>

Complete(s) ==
  /\ pc[s] = "pull"
  /\ pos[s] = Len(feed[s]) /\ chunk[s] = <<>>
  /\ pc' = [pc EXCEPT ![s] = "done"]
  /\ UNCHANGED <<database, feed, pos, chunk, existing, stats, reader, runs, boots>>
-----------------------------------------------------------------------------
LookupStarts ==
  /\ step = 0
  /\ step' = 1 /\ answer' = "none" /\ seen' = {Listed}
  /\ UNCHANGED <<database, process, runs, boots>>

\* One SELECT for each spelling of the URL, each on its own snapshot.
LookupExact ==
  /\ step \in 1..Len(Variants)
  /\ IF \E id \in DOMAIN table : table[id] = Variants[step]
     THEN step' = 0 /\ answer' = "threat"
     ELSE step' = step + 1 /\ UNCHANGED answer
  /\ UNCHANGED <<database, process, seen, runs, boots>>

\* Mutant of LookupKey: only exact matches count.
LookupExactOnly ==
  /\ step = Len(Variants) + 1
  /\ step' = 0
  /\ answer' = "clean"
  /\ UNCHANGED <<database, process, seen, runs, boots>>

\* The SELECT by match_key.
LookupKey ==
  /\ step = Len(Variants) + 1
  /\ step' = 0
  /\ answer' = IF Listed THEN "threat" ELSE "clean"
  /\ UNCHANGED <<database, process, seen, runs, boots>>

\* SQLAlchemyError in any of them: "db_error".
LookupFails ==
  /\ step # 0
  /\ step' = 0 /\ answer' = "db_error"
  /\ UNCHANGED <<database, process, seen, runs, boots>>

\* The process ends, by a shutdown or a crash, and is started again: what was
\* committed is all that is left.
Restart ==
  /\ boots < MaxBoots
  /\ boots' = boots + 1
  /\ writer' = "none" /\ pending' = table /\ applied' = 0
  /\ pc' = [s \in Syncs |-> IF s = "startup" THEN "fetch" ELSE "off"]
  /\ feed' = [s \in Syncs |-> <<>>]
  /\ pos' = [s \in Syncs |-> 0]
  /\ chunk' = [s \in Syncs |-> <<>>]
  /\ existing' = [s \in Syncs |-> {}]
  /\ stats' = [s \in Syncs |-> NoStats]
  /\ step' = 0 /\ answer' = "none" /\ seen' = {}
  /\ UNCHANGED <<table, runs>>

Progress(s) ==
  \/ Fetch(s) \/ FetchFails(s) \/ Pull(s) \/ PullRaises(s)
  \/ SelectExisting(s) \/ SelectRaises(s)
  \/ Insert(s) \/ ApplyRow(s)
  \/ Commit(s) \/ ChunkFails(s) \/ Complete(s)

Next ==
  \/ Schedule \/ (\E s \in Syncs : Progress(s))
  \/ LookupStarts \/ LookupExact \/ LookupKey \/ LookupFails
  \/ Restart

\* The event loop and the database thread serve every synchronisation.
Spec == Init /\ [][Next]_vars /\ \A s \in Syncs : WF_vars(Progress(s))
-----------------------------------------------------------------------------
Tables == UNION {[ids -> Urls] : ids \in SUBSET Ids}

\* The type invariant.
TypeOK ==
  /\ table \in Tables /\ pending \in Tables
  /\ writer \in Syncs \cup {"none"} /\ applied \in Nat
  /\ pc \in [Syncs -> {"off", "fetch", "pull", "insert", "rows", "done", "raised"}]
  /\ feed \in [Syncs -> Seq(Rows)]
  /\ pos \in [Syncs -> Nat]
  /\ chunk \in [Syncs -> Seq(ValidRows)]
  /\ existing \in [Syncs -> SUBSET Ids]
  /\ stats \in [Syncs -> Counters]
  /\ \A s \in Syncs : pos[s] <= Len(feed[s]) /\ Len(chunk[s]) <= ChunkSize
  /\ step \in 0..(Len(Variants) + 1)
  /\ answer \in {"none", "threat", "clean", "db_error"}
  /\ seen \in SUBSET BOOLEAN
  /\ runs \in 0..MaxRuns /\ boots \in 0..MaxBoots

\* Whatever two synchronisations write and whichever chunks fail, no two rows of
\* the committed table have one url, so the scalar_one_or_none of the lookup
\* (urlhaus.py:88) finds at most one.
UrlsAreUnique ==
  \A i, j \in DOMAIN table : table[i] = table[j] => i = j

\* Every row taken from the CSV is in exactly one place: committed and counted
\* as inserted or updated, counted as failed, or in the chunk under way.  When an
\* exception has ended the synchronisation, no more than a chunk of rows is in no
\* counter, the one that raised included.
RowsAreAccounted ==
  \A s \in Syncs :
    LET counted == stats[s].inserted + stats[s].updated + stats[s].failed
    IN IF pc[s] = "raised"
       THEN /\ stats[s].total \in {pos[s], pos[s] - 1}
            /\ stats[s].total - counted \in 0..ChunkSize
       ELSE /\ stats[s].total = pos[s]
            /\ stats[s].total = counted + Len(chunk[s])

\* What the docstring of sync_urlhaus (urlhaus_sync.py:184-185) promises: a
\* synchronisation that returns and counts no failure has brought every id of the CSV into
\* the table, and nothing takes one out again.
CountedIsCommitted ==
  \A s \in Syncs :
    pc[s] = "done" /\ stats[s].failed = 0 =>
      \A k \in 1..pos[s] : feed[s][k].id \in DOMAIN table

\* How many acceptable rows of its CSV a synchronisation has published or given
\* up, and how many it has counted as published.
Settled(s) == Cardinality({k \in 1..pos[s] : feed[s][k].url \notin Refused}) - Len(chunk[s])
Published(s) == stats[s].inserted + stats[s].updated

\* Overlapping synchronisations, failing chunks and restarts are, for those who
\* read the table and the statistics, a sequence of whole batches, each published
\* in one step and counted or neither (the docstring at urlhaus_sync.py:184-185);
\* and the several SELECTs of a lookup are one question, answered with what was
\* true while it ran (urlhaus.py:81-105).
Table == INSTANCE FeedTable
  WITH Writers <- Syncs,
       Wanted <- Key[Variants[1]],
       csv <- feed,
       settled <- [s \in Syncs |-> Settled(s)],
       counted <- [s \in Syncs |-> Published(s)],
       lookup <- IF step # 0 THEN "asked" ELSE answer

ImplementsFeedTable == Table!Spec

\* Every synchronisation ends, also when the other one holds the write lock and
\* whatever chunks fail, unless the process is restarted.
SyncEnds == \A s \in Syncs : pc[s] = "fetch" ~> pc[s] \in {"done", "raised", "off"}
=============================================================================
