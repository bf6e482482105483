------------------------------- MODULE FeedTable -------------------------------
(***************************************************************************)
(* What the local copy of URLhaus promises, however many synchronisations  *)
(* write it and whatever fails.  A synchronisation settles the rows of its *)
(* CSV batch by batch and in their order: a batch is published as a whole  *)
(* and counted, or leaves no trace and is not.  The table forgets no id    *)
(* and lists no url twice.  A lookup, however many statements it takes,    *)
(* answers what was true while it ran.                                     *)
(***************************************************************************)
EXTENDS Integers, Sequences, FiniteSets

CONSTANTS
  Writers, \* who synchronises
  Feeds,   \* the CSVs the server may send: sequences of rows
  Refused, \* the urls of rows that never come into the table
  Key,     \* the match_key of each url
  Wanted   \* the match_key looked up

VARIABLES
  table,   \* the url of each id
  csv,     \* the CSV each writer works on
  settled, \* how many of its acceptable rows are published or given up
  counted, \* how many it claims to have published
  lookup,  \* "none", "asked", or the last answer
  seen     \* whether Wanted was listed, at each moment since it was asked for

vars == <<table, csv, settled, counted, lookup, seen>>

Listed == \E id \in DOMAIN table : Key[table[id]] = Wanted

Unique(rows) == \A i, j \in DOMAIN rows : rows[i] = rows[j] => i = j

\* The first n acceptable rows of a CSV, and the batch of those after the first
\* done and up to the first all, by their places.
Acceptable(rows, n) == {k \in 1..n : rows[k].url \notin Refused}
Rank(rows, k) == Cardinality(Acceptable(rows, k))
Batch(rows, done, all) ==
  {k \in Acceptable(rows, Len(rows)) : done < Rank(rows, k) /\ Rank(rows, k) <= all}

\* new is old with the rows at these places; the last row of an id counts.
Merges(old, new, rows, places) ==
  LET ids == {rows[k].id : k \in places}
  IN /\ DOMAIN new = DOMAIN old \cup ids
     /\ \A id \in DOMAIN old \ ids : new[id] = old[id]
     /\ \A id \in ids : \E k \in places :
          /\ rows[k].id = id /\ new[id] = rows[k].url
          /\ \A m \in places : rows[m].id = id => m <= k

Init ==
  /\ table = [id \in {} |-> Refused]
  /\ csv = [w \in Writers |-> <<>>]
  /\ settled = [w \in Writers |-> 0] /\ counted = [w \in Writers |-> 0]
  /\ lookup = "none" /\ seen = {}

Start(w) ==
  /\ \E rows \in Feeds \cup {<<>>} : csv' = [csv EXCEPT ![w] = rows]
  /\ settled' = [settled EXCEPT ![w] = 0]
  /\ counted' = [counted EXCEPT ![w] = 0]
  /\ UNCHANGED <<table, lookup, seen>>

Publish(w) ==
  \E n \in 1..Len(csv[w]) :
    /\ Merges(table, table', csv[w], Batch(csv[w], settled[w], settled[w] + n))
    /\ Unique(table')
    /\ settled' = [settled EXCEPT ![w] = @ + n]
    /\ counted' = [counted EXCEPT ![w] = @ + n]
    /\ seen' = seen \cup {Listed'}
    /\ UNCHANGED <<csv, lookup>>

GiveUp(w) ==
  \E n \in 1..Len(csv[w]) :
    /\ settled' = [settled EXCEPT ![w] = @ + n]
    /\ UNCHANGED <<table, csv, counted, lookup, seen>>

Ask ==
  /\ lookup # "asked"
  /\ lookup' = "asked" /\ seen' = {Listed}
  /\ UNCHANGED <<table, csv, settled, counted>>

Reply ==
  /\ lookup = "asked"
  /\ \/ lookup' = "threat" /\ TRUE \in seen
     \/ lookup' = "clean" /\ FALSE \in seen
     \/ lookup' = "db_error"
  /\ UNCHANGED <<table, csv, settled, counted, seen>>

\* The process is started again; only the table survives.
Restart ==
  /\ csv' = [w \in Writers |-> <<>>]
  /\ settled' = [w \in Writers |-> 0] /\ counted' = [w \in Writers |-> 0]
  /\ lookup' = "none" /\ seen' = {}
  /\ UNCHANGED table

Next ==
  \/ \E w \in Writers : Start(w) \/ Publish(w) \/ GiveUp(w)
  \/ Ask \/ Reply \/ Restart

Spec == Init /\ [][Next]_vars
=============================================================================
