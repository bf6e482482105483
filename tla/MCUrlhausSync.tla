---------------------------- MODULE MCUrlhausSync ----------------------------
(* Instance of UrlhausSync for TLC: three ids, two spellings of one URL and    *)
(* another URL, and CSVs in which rows are refused, repeated, renamed, take    *)
(* the url of another id, or raise an exception with or without an open chunk. *)
EXTENDS UrlhausSync

CONSTANTS a, aSlash, b

Row(i, u) == [id |-> i, url |-> u]

MCKey == [u \in Urls |-> IF u = aSlash THEN a ELSE u]

MCVariants == <<a, aSlash>>

MCFeeds ==
  {<<Row(1, a), Row(2, b), Row(3, NoUrl)>>,
   <<Row(1, aSlash), Row(1, b), Row(2, a)>>,
   <<Row(1, aSlash), Row(3, NoUrl), Row(2, b)>>,
   <<Row(2, a), Row(3, BadUrl), Row(1, b)>>,
   <<Row(1, b), Row(3, a), Row(2, BadLine)>>,
   <<Row(2, aSlash), Row(4, b)>>}
=============================================================================
