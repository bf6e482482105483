------------------------------- MODULE Scoring -------------------------------
(***************************************************************************)
(* The scores and verdicts of the two pipelines: _preceding_score,         *)
(* _total_score, _decide_verdict and the redirect bonus of                 *)
(* app/services/pipeline.py and db_independent_pipeline.py, over the       *)
(* weights and thresholds of app/core/config.py.                           *)
(***************************************************************************)
EXTENDS Naturals

CONSTANTS
  GsbWeight, UrlhausWeight,          \* score_weight_gsb, score_weight_urlhaus
  CrossOriginBonus,                  \* score_weight_redirect_cross_origin
  HeuristicCap,                      \* domain_heuristic_score_cap
  ContentCap,                        \* content_analysis_score_cap
  FetchFailedScore,                  \* score_weight_content_fetch_failed
  CautionThreshold, DangerThreshold, \* score_caution_threshold, score_danger_threshold
  TotalCap                           \* score_total_cap

\* The settings are plain integers; the defaults are natural numbers with the
\* caution band below the danger band and both below the cap.
ASSUME WeightsAssumption ==
  /\ GsbWeight \in Nat /\ UrlhausWeight \in Nat /\ CrossOriginBonus \in Nat
  /\ HeuristicCap \in Nat /\ ContentCap \in Nat
  /\ FetchFailedScore \in 0..ContentCap
ASSUME ThresholdsAssumption ==
  /\ CautionThreshold \in Nat /\ DangerThreshold \in Nat /\ TotalCap \in Nat
  /\ CautionThreshold <= DangerThreshold
  /\ DangerThreshold <= TotalCap
-----------------------------------------------------------------------------
Least(a, b) == IF a <= b THEN a ELSE b

Verdicts == {"SAFE", "CAUTION", "DANGER"}

\* The result of the threat database: which of its two sources matched.
ThreatResults == [gsb : BOOLEAN, urlhaus : BOOLEAN]

NoThreat == [gsb |-> FALSE, urlhaus |-> FALSE]

IsMalicious(threat) == threat.gsb \/ threat.urlhaus

\* _augment_heuristic_with_redirect_signals
AugmentHeuristic(score, crossOrigin) ==
  IF crossOrigin THEN Least(score + CrossOriginBonus, HeuristicCap) ELSE score

PrecedingScore(threat, heuristic) ==
  heuristic + (IF threat.gsb THEN GsbWeight ELSE 0)
            + (IF threat.urlhaus THEN UrlhausWeight ELSE 0)

TotalScore(threat, heuristic, content) ==
  IF IsMalicious(threat) THEN TotalCap
  ELSE Least(PrecedingScore(threat, heuristic) + content, TotalCap)

\* Mutant of DecideVerdict: the bands start one point later.
DecideVerdictOffByOne(score, threat) ==
  IF IsMalicious(threat) \/ score > DangerThreshold THEN "DANGER"
  ELSE IF score > CautionThreshold THEN "CAUTION" ELSE "SAFE"

DecideVerdict(score, threat) ==
  IF IsMalicious(threat) \/ score >= DangerThreshold THEN "DANGER"
  ELSE IF score >= CautionThreshold THEN "CAUTION" ELSE "SAFE"

\* Whether an unreachable page gets a verdict all the same.
RiskyUnseen(score, threat) == IsMalicious(threat) \/ score >= CautionThreshold
-----------------------------------------------------------------------------
\* What an analysis comes to: PipelineSuccess with a verdict, PipelineFailure
\* for a refused URL or an unavailable page, or no result at all because the
\* task was cancelled.  "reached" is false where a check of
\* page_unavailability.py found the page unavailable.
NoVerdict == "none"

Outcome(kind, threat, score, reached, verdict) ==
  [kind |-> kind, threat |-> threat, score |-> score, reached |-> reached,
   verdict |-> verdict]

Pending  == Outcome("pending",  NoThreat, 0, FALSE, NoVerdict)
Rejected == Outcome("rejected", NoThreat, 0, FALSE, NoVerdict)
Aborted  == Outcome("aborted",  NoThreat, 0, FALSE, NoVerdict)

Published(threat, score, reached) ==
  Outcome("verdict", threat, score, reached, DecideVerdict(score, threat))

Unavailable(score) == Outcome("unavailable", NoThreat, score, FALSE, NoVerdict)

Outcomes ==
  [kind : {"pending", "rejected", "aborted", "verdict", "unavailable"},
   threat : ThreatResults, score : 0..TotalCap, reached : BOOLEAN,
   verdict : Verdicts \cup {NoVerdict}]
=============================================================================
