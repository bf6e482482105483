------------------------ MODULE DbIndependentPipeline ------------------------
(***************************************************************************)
(* The pipeline without threat databases, run_db_independent_pipeline of   *)
(* app/services/db_independent_pipeline.py: a second implementation of the *)
(* analysis contract, with its own copies of the scoring rules.  Its       *)
(* stages run one after the other, so here time is modelled as well: the   *)
(* total budget and the stage budgets of PipelineDeadline, and the timeout *)
(* check_domain_heuristic puts around RDAP inside the domain stage.        *)
(*                                                                         *)
(* A stage that is told to stop at its deadline may still take up to       *)
(* Cleanup to unwind (closing its connections), and wait_for waits for it. *)
(* Work between the stages takes no time.                                  *)
(***************************************************************************)
EXTENDS Scoring, Integers

CONSTANTS
  HeuristicScores,  \* scores check_domain_heuristic returns
  ContentResults,   \* what analyze_content returns
  TotalSeconds,     \* pipeline_total_timeout_seconds
  UnchainSeconds, DomainSeconds, ContentSeconds,  \* the stage budgets
  MinBudget,        \* 0.001 s: a stage whose time is up still enters wait_for
  RdapSeconds,      \* rdap_timeout_seconds
  Margin,           \* 0.25 s, by which RDAP ends before the domain stage
  Cleanup           \* the longest a cancelled stage takes to unwind

ASSUME InputsAssumption ==
  /\ HeuristicScores \subseteq 0..HeuristicCap
  /\ ContentResults \subseteq [score : 0..ContentCap, unavailable : BOOLEAN]
ASSUME TimesAssumption ==
  /\ TotalSeconds \in Nat /\ UnchainSeconds \in Nat /\ DomainSeconds \in Nat
  /\ ContentSeconds \in Nat /\ MinBudget \in Nat /\ RdapSeconds \in Nat
  /\ Margin \in Nat /\ Cleanup \in Nat
  /\ Margin <= DomainSeconds
  /\ Cleanup < Margin

VARIABLES
  outcome,    \* the result handed to the caller
  main,       \* the stage the pipeline is in
  page,       \* what unchaining found out
  heuristic,  \* the heuristic score, with the redirect bonus
  clock,      \* time since the start
  began,      \* when the domain stage began
  signalsLost \* the domain stage ran into its deadline and scores nothing

vars == <<outcome, main, page, heuristic, clock, began, signalsLost>>
-----------------------------------------------------------------------------
Pages == [crossOrigin : BOOLEAN, unavailable : BOOLEAN]

\* timed_out_unchain_result, for the deadline and for an exception.
TimedOutPage == [crossOrigin |-> FALSE, unavailable |-> FALSE]

Greatest(a, b) == IF a >= b THEN a ELSE b

Remaining == Greatest(0, TotalSeconds - clock)

\* Mutant of Budget: the total budget is not looked at.
StageBudget(seconds) == Greatest(MinBudget, seconds)

Budget(seconds) == Greatest(MinBudget, Least(seconds, Remaining))

\* Mutant of RdapTimer: RDAP may take as long as its own setting says.
RdapTimerAlone == RdapSeconds

\* min(rdap_timeout_seconds, pipeline_domain_timeout_seconds - 0.25)
RdapTimer == Least(RdapSeconds, DomainSeconds - Margin)

\* The rest of the heuristic is computed without waiting.
LongestHeuristic == RdapTimer + Cleanup

\* The module's own _total_score and _decide_verdict.
TotalScoreNoDb(h, content) == Least(h + content, TotalCap)

DecideVerdictOffByOneNoDb(score) ==
  IF score >= DangerThreshold THEN "DANGER"
  ELSE IF score > CautionThreshold THEN "CAUTION" ELSE "SAFE"

DecideVerdictNoDb(score) ==
  IF score >= DangerThreshold THEN "DANGER"
  ELSE IF score >= CautionThreshold THEN "CAUTION" ELSE "SAFE"

\* _augment_heuristic_with_redirect_signals, this module's copy.
Augmented(score) ==
  IF page.crossOrigin THEN Least(score + CrossOriginBonus, HeuristicCap) ELSE score

Init ==
  /\ outcome = Pending
  /\ main = "normalize"
  /\ page = TimedOutPage
  /\ heuristic = 0
  /\ clock = 0
  /\ began = 0
  /\ signalsLost = FALSE
-----------------------------------------------------------------------------
Normalize ==
  /\ main = "normalize"
  /\ \/ main' = "unchain" /\ UNCHANGED outcome
     \/ main' = "returned" /\ outcome' = Rejected
  /\ UNCHANGED <<page, heuristic, clock, began, signalsLost>>

\* Time passes while a stage runs.
Takes(from, to) == \E t \in from..to : clock' = clock + t

UnchainReturns ==
  /\ main = "unchain"
  /\ page' \in Pages
  /\ main' = "domain"
  /\ Takes(0, Budget(UnchainSeconds) + Cleanup)
  /\ began' = clock'
  /\ UNCHANGED <<outcome, heuristic, signalsLost>>

\* PipelineStageTimeoutError and Exception.
UnchainFails ==
  /\ main = "unchain"
  /\ page' = TimedOutPage
  /\ main' = "domain"
  /\ Takes(0, Budget(UnchainSeconds) + Cleanup)
  /\ began' = clock'
  /\ UNCHANGED <<outcome, heuristic, signalsLost>>

\* Score, verdict, and the failure of an unavailable page that stays below the
\* caution band.
Conclude(h, content, unavailable) ==
  LET score == TotalScoreNoDb(h, content)
  IN /\ main' = "returned"
     /\ outcome' =
          IF unavailable /\ score < CautionThreshold THEN Unavailable(score)
          ELSE Outcome("verdict", NoThreat, score, ~unavailable, DecideVerdictNoDb(score))

\* With the heuristic known the pipeline is done with an unavailable page.
AfterHeuristic(h) ==
  /\ heuristic' = h
  /\ IF page.unavailable THEN Conclude(h, 0, TRUE)
     ELSE main' = "content" /\ UNCHANGED outcome

HeuristicAnswers(score) ==
  /\ main = "domain"
  /\ AfterHeuristic(Augmented(score))
  /\ Takes(0, Least(Budget(DomainSeconds) + Cleanup, LongestHeuristic))
  /\ UNCHANGED <<page, began, signalsLost>>

HeuristicReturns == \E s \in HeuristicScores : HeuristicAnswers(s)

\* The deadline of the stage finds the heuristic still waiting for RDAP.
HeuristicTimesOut ==
  /\ main = "domain"
  /\ Budget(DomainSeconds) <= LongestHeuristic
  /\ AfterHeuristic(Augmented(0))
  /\ signalsLost' = TRUE
  /\ Takes(Budget(DomainSeconds), Budget(DomainSeconds) + Cleanup)
  /\ UNCHANGED <<page, began>>

HeuristicRaises ==
  /\ main = "domain"
  /\ AfterHeuristic(Augmented(0))
  /\ Takes(0, Least(Budget(DomainSeconds) + Cleanup, LongestHeuristic))
  /\ UNCHANGED <<page, began, signalsLost>>

ContentReturns ==
  /\ main = "content"
  /\ \E c \in ContentResults : Conclude(heuristic, c.score, c.unavailable)
  /\ Takes(0, Budget(ContentSeconds) + Cleanup)
  /\ UNCHANGED <<page, heuristic, began, signalsLost>>

\* timed_out_content_result, for the deadline and for an exception.
ContentFails ==
  /\ main = "content"
  /\ Conclude(heuristic, FetchFailedScore, FALSE)
  /\ Takes(0, Budget(ContentSeconds) + Cleanup)
  /\ UNCHANGED <<page, heuristic, began, signalsLost>>

\* CancelledError in a stage: the request is cancelled, or the RDAP future the
\* heuristic shares was (RdapLookup).
Cancelled ==
  /\ main \in {"unchain", "domain", "content"}
  /\ main' = "cancelled"
  /\ outcome' = Aborted
  /\ UNCHANGED <<page, heuristic, clock, began, signalsLost>>
-----------------------------------------------------------------------------
Next ==
  \/ Normalize \/ UnchainReturns \/ UnchainFails
  \/ HeuristicReturns \/ HeuristicTimesOut \/ HeuristicRaises
  \/ ContentReturns \/ ContentFails \/ Cancelled

Spec == Init /\ [][Next]_vars
-----------------------------------------------------------------------------
\* The type invariant.
TypeOK ==
  /\ outcome \in Outcomes
  /\ main \in {"normalize", "unchain", "domain", "content", "returned", "cancelled"}
  /\ page \in Pages
  /\ heuristic \in 0..HeuristicCap
  /\ clock \in Nat
  /\ began \in Nat
  /\ signalsLost \in BOOLEAN

\* The same contract as the full pipeline's: one sound outcome, decided once,
\* although every rule is implemented a second time in this module.
Contract == INSTANCE AnalysisContract WITH outcome <- outcome
ImplementsContract == Contract!Spec

\* What the SLA of config.py:228-229 amounts to: the total budget is exceeded by
\* at most a minimal budget and an unwinding for each of the three stages.
WithinBudget == clock <= TotalSeconds + 3 * (MinBudget + Cleanup)

\* A slow RDAP server does not cost the signals found before it was asked
\* (check.py:81-91), unless the total budget had cut the domain stage itself.
SlowRdapKeepsSignals == signalsLost => began + DomainSeconds > TotalSeconds
=============================================================================
