----------------------------- MODULE NoDbAnalysis -----------------------------
(***************************************************************************)
(* The pipeline without databases together with the domain heuristic that  *)
(* runs as its second stage: the heuristic computes its signals without    *)
(* waiting, then waits for RDAP under its own timeout and under the        *)
(* deadline of the stage.  Left to itself, DbIndependentPipeline takes the *)
(* heuristic's score from a set; this composition implements it.           *)
(***************************************************************************)
EXTENDS DbIndependentPipeline, DomainHeuristic

ASSUME AnyScoreAssumption == HeuristicScores = 0..HeuristicCap

allVars == <<vars, checkVars>>
-----------------------------------------------------------------------------
NoDbInit == Init /\ CheckInit

\* The stages before and after the heuristic.
OtherStage ==
  /\ Normalize \/ ContentReturns \/ ContentFails \/ Cancelled
  /\ UNCHANGED checkVars

DomainStageBegins ==
  /\ UnchainReturns \/ UnchainFails
  /\ check' = "patterns"
  /\ UNCHANGED <<url, signals, brand, isTypo, table>>

\* The checks on the URL itself take no time.
CheckAdvances ==
  /\ main = "domain"
  /\ CheckStep
  /\ UNCHANGED vars

\* An address is scored without asking RDAP.
AddressScored ==
  /\ check = "address"
  /\ HeuristicAnswers(HeuristicScore(signals))
  /\ clock' = clock
  /\ check' = "returned"
  /\ UNCHANGED <<url, signals, brand, isTypo, table>>

\* Mutant of RdapEnds: the score for a new domain comes on top of the cap.
RdapAddsToCapped ==
  /\ check = "rdap"
  /\ \E found \in SUBSET {"NEW_DOMAIN"} :
       /\ signals' = signals \cup found
       /\ HeuristicAnswers(HeuristicScore(signals) + Worth(found, "NEW_DOMAIN"))
  /\ check' = "returned"
  /\ UNCHANGED <<url, brand, isTypo, table>>

\* RDAP knows a new domain, an older one or nothing, or has run into its timeout.
RdapEnds ==
  /\ check = "rdap"
  /\ \E found \in SUBSET {"NEW_DOMAIN"} :
       /\ signals' = signals \cup found
       /\ HeuristicAnswers(HeuristicScore(signals'))
  /\ check' = "returned"
  /\ UNCHANGED <<url, brand, isTypo, table>>

\* The deadline of the stage comes first: the signals are lost.
StageEndsFirst ==
  /\ check = "rdap"
  /\ HeuristicTimesOut
  /\ check' = "timedOut"
  /\ UNCHANGED <<url, signals, brand, isTypo, table>>

\* An exception: the URL's host cannot be read, or lookup_rdap raises.
CheckRaises ==
  /\ check \in {"patterns", "rdap"}
  /\ HeuristicRaises
  /\ check' = "raised"
  /\ UNCHANGED <<url, signals, brand, isTypo, table>>

NoDbNext ==
  \/ OtherStage \/ DomainStageBegins \/ CheckAdvances
  \/ AddressScored \/ RdapEnds \/ StageEndsFirst \/ CheckRaises

NoDbSpec == NoDbInit /\ [][NoDbNext]_allVars
-----------------------------------------------------------------------------
\* A slow RDAP server does not cost the signals found before it was asked
\* (check.py:81-91): after the domain stage they are all in the score, unless
\* the total budget had cut the stage or the heuristic raised.
FoundSignalsScore ==
  main \in {"content", "returned"} /\ check # "off" =>
    \/ heuristic >= HeuristicScore(signals)
    \/ check = "timedOut" /\ began + DomainSeconds > TotalSeconds
    \/ check = "raised"

\* The composition is one of the analyses DbIndependentPipeline describes.
ImplementsPipeline == Spec
=============================================================================
