--------------------------- MODULE AnalysisContract ---------------------------
(***************************************************************************)
(* What an analysis promises the caller, whichever pipeline runs it: one   *)
(* outcome, decided once and never changed.  A verdict carries the score   *)
(* it follows from; a page that could not be reached gets a verdict only   *)
(* when what is known without it is at least suspicious, and is reported   *)
(* unavailable only when it is not.                                        *)
(***************************************************************************)
EXTENDS Scoring

VARIABLE outcome

\* What each band of the verdict means (README of the repository, config.py).
Sound(o) ==
  /\ o \in Outcomes
  /\ o.verdict = "DANGER" <=> o.kind = "verdict" /\ o.score >= DangerThreshold
  /\ o.verdict = "CAUTION" <=> /\ o.kind = "verdict"
                               /\ o.score \in CautionThreshold..(DangerThreshold - 1)
  /\ o.verdict = "SAFE" <=> o.kind = "verdict" /\ o.score < CautionThreshold
  /\ IsMalicious(o.threat) => o.verdict = "DANGER" /\ o.score = TotalCap
  /\ o.kind = "verdict" /\ ~o.reached => o.verdict # "SAFE"
  /\ o.kind = "unavailable" => o.score < CautionThreshold

Init == outcome = Pending

Publish == /\ outcome = Pending
           /\ outcome'.kind = "verdict"
           /\ Sound(outcome')

ReportUnavailable == /\ outcome = Pending
                     /\ outcome'.kind = "unavailable"
                     /\ Sound(outcome')

\* The URL was refused before anything was requested.
Reject == outcome = Pending /\ outcome' = Rejected

\* The task was cancelled: no outcome reaches the caller.
Abort == outcome = Pending /\ outcome' = Aborted

Next == Publish \/ ReportUnavailable \/ Reject \/ Abort

Spec == Init /\ [][Next]_outcome
=============================================================================
