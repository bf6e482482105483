--------------------------- MODULE CallbackReasons ---------------------------
(***************************************************************************)
(* What _callback_reasons of analysis_callback.py tells Spring about the   *)
(* content stage: from the stage's result alone, with a table of weights   *)
(* of its own, the reasons for a score that was added up elsewhere.        *)
(***************************************************************************)
EXTENDS ContentScoring

\* Mutant of SignalWeight: a scored signal is missing from the table.
SignalWeightForgets(code) ==
  IF code \in (Evidence \cup Impressions) \ {"EXTERNAL_META_REFRESH"} THEN Weight[code]
  ELSE IF code = "FETCH_FAILED" THEN FetchFailedScore
  ELSE 0

\* _signal_weight, for the codes of this stage; a code it does not know weighs nothing.
SignalWeight(code) ==
  IF code \in Evidence \cup Impressions THEN Weight[code]
  ELSE IF code = "FETCH_FAILED" THEN FetchFailedScore
  ELSE 0

\* Of a verdict, whether its weight was added or not.
VerdictReasons(verdict) ==
  IF verdict = "phishing" THEN {[code |-> "AI_PHISHING", weight |-> PhishingWeight]}
  ELSE IF verdict = "suspicious" THEN {[code |-> "AI_SUSPICIOUS", weight |-> SuspiciousWeight]}
  ELSE {}

\* _add_reason drops what weighs nothing; no code of this stage is exempt.
Added(reasons) == {reason \in reasons : reason.weight > 0}

\* _callback_reasons, stage 4
ContentReasons(result) ==
  Added({[code |-> s, weight |-> SignalWeight(s)] : s \in result.signals}
          \cup VerdictReasons(result.ai))
-----------------------------------------------------------------------------
Verdict(reason) == reason.code \in {"AI_PHISHING", "AI_SUSPICIOUS"}

\* Whether the reasons account for the score: every signal that was paid for is
\* among them with what was paid, and what the score has beyond the rules' is the
\* weight of a verdict, or of the failed fetch.
Explained(result) ==
  LET reasons == ContentReasons(result)
  IN  /\ \A s \in Counted(result.signals) :
           Weight[s] > 0 => [code |-> s, weight |-> Weight[s]] \in reasons
      /\ result.fetched =>
           \/ result.score = ScoreOf(result.signals)
           \/ \E reason \in reasons :
                /\ Verdict(reason)
                /\ result.score =
                     Cap(EvidencePoints(Counted(result.signals))
                           + ImpressionPoints(Counted(result.signals)) + reason.weight)
      /\ ~result.fetched =>
           \/ result.score = 0
           \/ [code |-> "FETCH_FAILED", weight |-> result.score] \in reasons
=============================================================================
