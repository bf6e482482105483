------------------------------ MODULE MCPipeline ------------------------------
(* Instance of Pipeline for TLC with the settings' defaults.  The scores lie  *)
(* at the edges of the verdict bands, alone and in sum with the redirect      *)
(* bonus; the contents are an analysed page, an unavailable one and one that  *)
(* was not fetched for a reason that adds no score.                           *)
EXTENDS Pipeline

MCHeuristicScores == {0, 16, 61, 80}

MCContentResults ==
  {[score |-> 0, unavailable |-> FALSE], [score |-> 45, unavailable |-> FALSE],
   [score |-> 15, unavailable |-> TRUE], [score |-> 0, unavailable |-> TRUE]}
=============================================================================
