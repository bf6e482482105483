-------------------------- MODULE DbIndependentProofs --------------------------
(***************************************************************************)
(* Safety of DbIndependentPipeline for every setting of the weights, the   *)
(* thresholds, the budgets and the timeouts: it implements the contract of *)
(* the full pipeline, keeps its total budget, and does not lose signals to *)
(* a slow RDAP server.                                                     *)
(*                                                                         *)
(* The inductive invariant IInv bounds the clock at the entry of each      *)
(* stage (StageBounds) and keeps the outcome open until the end (Open).    *)
(***************************************************************************)
EXTENDS DbIndependentPipeline, TLAPS

\* What a stage may take beyond the total budget.
Overrun == MinBudget + Cleanup

\* How late a stage can begin, one overrun for each stage before it.
StageBounds ==
  /\ main \in {"normalize", "unchain"} => clock = 0
  /\ main = "domain" => clock = began /\ clock <= TotalSeconds + Overrun
  /\ main = "content" => clock <= TotalSeconds + 2 * Overrun
  /\ clock <= TotalSeconds + 3 * Overrun

\* What is not yet decided, and not yet lost, in each stage.
Open ==
  /\ main \in {"normalize", "unchain", "domain", "content"} => outcome = Pending
  /\ main \in {"normalize", "unchain", "domain"} => ~signalsLost

IInv == TypeOK /\ StageBounds /\ Open /\ SlowRdapKeepsSignals
-------------------------------------------------------------------------------
\* The scoring rules of the two pipelines are the same rules: without a threat
\* the copies of db_independent_pipeline.py:64-76 give what pipeline.py gives.
THEOREM CopiesAgree ==
  ASSUME NEW h \in Nat, NEW c \in Nat, NEW s \in Nat
  PROVE  /\ TotalScoreNoDb(h, c) = TotalScore(NoThreat, h, c)
         /\ DecideVerdictNoDb(s) = DecideVerdict(s, NoThreat)
BY DEF TotalScoreNoDb, TotalScore, PrecedingScore, DecideVerdictNoDb, DecideVerdict,
       IsMalicious, NoThreat

\* The overrun is a time.
LEMMA OverrunType == Overrun \in Nat
BY TimesAssumption DEF Overrun

\* A stage that starts by its bound and is stopped by its budget ends by the next.
LEMMA BudgetBound ==
  ASSUME TypeOK, NEW seconds \in Nat, NEW slack \in Nat, clock <= TotalSeconds + slack
  PROVE  /\ Budget(seconds) \in Nat
         /\ clock + Budget(seconds) + Cleanup <= TotalSeconds + slack + Overrun
BY TimesAssumption DEF TypeOK, Budget, Remaining, Greatest, Least, Overrun

\* Time only passes, and not beyond what the stage takes.
LEMMA TakesBound ==
  ASSUME TypeOK, NEW from \in Nat, NEW to \in Nat, Takes(from, to)
  PROVE  clock' \in Nat /\ clock' <= clock + to
BY DEF TypeOK, Takes

\* The stage is cut before RDAP's own timeout only when the total budget cuts it.
LEMMA RdapEndsFirst ==
  ASSUME TypeOK, Budget(DomainSeconds) <= LongestHeuristic
  PROVE  clock + DomainSeconds > TotalSeconds
BY TimesAssumption
DEF TypeOK, Budget, Remaining, Greatest, Least, LongestHeuristic, RdapTimer

\* The module's own redirect bonus keeps the cap.
LEMMA AugmentedRange ==
  ASSUME TypeOK, NEW s \in 0..HeuristicCap
  PROVE  Augmented(s) \in 0..HeuristicCap
BY WeightsAssumption DEF Augmented, Least, TypeOK, Pages

\* A verdict of this module is sound: it is in the band of its score, and a page
\* nobody reached is not called safe.
LEMMA VerdictSound ==
  ASSUME NEW s \in 0..TotalCap, NEW r \in BOOLEAN, ~r => s >= CautionThreshold
  PROVE  LET o == Outcome("verdict", NoThreat, s, r, DecideVerdictNoDb(s))
         IN o \in Outcomes /\ Contract!Sound(o)
<1> DEFINE o == Outcome("verdict", NoThreat, s, r, DecideVerdictNoDb(s))
<1>1. DecideVerdictNoDb(s) \in Verdicts
  BY DEF DecideVerdictNoDb, Verdicts
<1>2. o \in Outcomes
  BY <1>1 DEF Outcome, Outcomes, ThreatResults, Verdicts, NoThreat
<1>3. Contract!Sound(o)
  BY <1>2, ThresholdsAssumption
  DEF Contract!Sound, Contract!Outcomes, Contract!ThreatResults, Contract!Verdicts,
      Contract!NoVerdict, Contract!IsMalicious, Outcomes, ThreatResults, Verdicts,
      NoVerdict, NoThreat, Outcome, DecideVerdictNoDb
<1> QED
  BY <1>2, <1>3

\* An unavailable page with a score below the caution band gets no verdict.
LEMMA UnavailableSound ==
  ASSUME NEW s \in 0..TotalCap, s < CautionThreshold
  PROVE  Unavailable(s) \in Outcomes /\ Contract!Sound(Unavailable(s))
<1>1. Unavailable(s) \in Outcomes
  BY DEF Unavailable, Outcome, Outcomes, ThreatResults, NoThreat, NoVerdict
<1>2. Contract!Sound(Unavailable(s))
  BY <1>1, ThresholdsAssumption
  DEF Contract!Sound, Contract!Outcomes, Contract!ThreatResults, Contract!Verdicts,
      Contract!NoVerdict, Contract!IsMalicious, Outcomes, ThreatResults, Verdicts,
      NoVerdict, NoThreat, Unavailable, Outcome
<1> QED
  BY <1>1, <1>2

\* What the tail of the pipeline hands out is sound.
LEMMA ConcludeIsSound ==
  ASSUME NEW h \in 0..HeuristicCap, NEW c \in 0..ContentCap, NEW u \in BOOLEAN,
         Conclude(h, c, u)
  PROVE  /\ main' = "returned"
         /\ outcome' \in Outcomes
         /\ outcome'.kind \in {"verdict", "unavailable"}
         /\ Contract!Sound(outcome')
<1> DEFINE s == TotalScoreNoDb(h, c)
<1>1. s \in 0..TotalCap
  BY WeightsAssumption, ThresholdsAssumption DEF TotalScoreNoDb, Least
<1>2. /\ main' = "returned"
      /\ outcome' = IF u /\ s < CautionThreshold THEN Unavailable(s)
                    ELSE Outcome("verdict", NoThreat, s, ~u, DecideVerdictNoDb(s))
  BY Zenon DEF Conclude
<1> HIDE DEF s
<1>3. CASE u /\ s < CautionThreshold
  <2>1. outcome' = Unavailable(s)
    BY <1>2, <1>3
  <2>2. outcome'.kind = "unavailable"
    BY <2>1 DEF Unavailable, Outcome
  <2> QED
    BY <1>1, <1>2, <1>3, <2>1, <2>2, UnavailableSound
<1>4. CASE ~(u /\ s < CautionThreshold)
  <2>1. outcome' = Outcome("verdict", NoThreat, s, ~u, DecideVerdictNoDb(s))
    BY <1>2, <1>4
  <2>2. outcome'.kind = "verdict"
    BY <2>1 DEF Outcome
  <2>3. u => s >= CautionThreshold
    BY <1>1, <1>4, ThresholdsAssumption
  <2> QED
    BY <1>1, <1>2, <2>1, <2>2, <2>3, VerdictSound
<1> QED
  BY <1>3, <1>4

\* The three outcomes that are not published have their type.
LEMMA FailuresTyped ==
  Pending \in Outcomes /\ Rejected \in Outcomes /\ Aborted \in Outcomes
BY ThresholdsAssumption DEF Pending, Rejected, Aborted, Outcome, Outcomes, ThreatResults,
                            NoThreat, NoVerdict
-------------------------------------------------------------------------------
\* The initial states have the invariant.
LEMMA InitIInv == Init => IInv
<1> SUFFICES ASSUME Init PROVE IInv
  OBVIOUS
<1> USE DEF Init
<1>1. TypeOK
  <2>1. page \in Pages
    BY DEF Pages, TimedOutPage
  <2>2. heuristic \in 0..HeuristicCap
    BY WeightsAssumption
  <2>3. outcome \in Outcomes
    BY FailuresTyped
  <2> QED
    BY <2>1, <2>2, <2>3 DEF TypeOK
<1>2. StageBounds
  BY OverrunType, TimesAssumption DEF StageBounds
<1>3. Open /\ SlowRdapKeepsSignals
  BY DEF Open, SlowRdapKeepsSignals
<1> QED
  BY <1>1, <1>2, <1>3 DEF IInv

\* Unchaining ends, with a result or at its deadline.
LEMMA UnchainEndsKeeps ==
  ASSUME IInv, UnchainReturns \/ UnchainFails
  PROVE  IInv'
<1> USE DEF IInv
<1>1. /\ main = "unchain" /\ main' = "domain" /\ began' = clock'
      /\ page' \in Pages
      /\ Takes(0, Budget(UnchainSeconds) + Cleanup)
      /\ UNCHANGED <<outcome, heuristic, signalsLost>>
  <2>1. TimedOutPage \in Pages
    BY DEF TimedOutPage, Pages
  <2> QED
    BY <2>1 DEF UnchainReturns, UnchainFails
<1>2. clock' \in Nat /\ clock' <= TotalSeconds + Overrun
  <2>1. clock = 0
    BY <1>1 DEF StageBounds
  <2>2. Budget(UnchainSeconds) \in Nat
        /\ clock + Budget(UnchainSeconds) + Cleanup <= TotalSeconds + 0 + Overrun
    BY <2>1, BudgetBound, TimesAssumption
  <2> QED
    BY <1>1, <2>1, <2>2, TakesBound, TimesAssumption DEF Overrun
<1>3. ~signalsLost
  BY <1>1 DEF Open
<1> QED
  <2>1. TypeOK'
    BY <1>1, <1>2 DEF TypeOK
  <2>2. StageBounds'
    BY <1>1, <1>2, OverrunType, TimesAssumption DEF StageBounds
  <2>3. Open' /\ SlowRdapKeepsSignals'
    BY <1>1, <1>3 DEF Open, SlowRdapKeepsSignals
  <2> QED
    BY <2>1, <2>2, <2>3

\* The heuristic ends, and with it the pipeline or the domain stage.
LEMMA HeuristicEndsKeeps ==
  ASSUME IInv, HeuristicReturns \/ HeuristicTimesOut \/ HeuristicRaises
  PROVE  IInv'
<1> USE DEF IInv
<1>1. /\ main = "domain"
      /\ UNCHANGED <<page, began>>
      /\ signalsLost' \in BOOLEAN
  BY DEF HeuristicReturns, HeuristicAnswers, HeuristicTimesOut, HeuristicRaises, TypeOK
<1>2. PICK h \in 0..HeuristicCap : AfterHeuristic(h)
  <2>1. 0 \in 0..HeuristicCap
    BY WeightsAssumption
  <2> QED
    BY <2>1, AugmentedRange, InputsAssumption
    DEF HeuristicReturns, HeuristicAnswers, HeuristicTimesOut, HeuristicRaises
<1>3. clock' \in Nat /\ clock' <= TotalSeconds + 2 * Overrun
  <2>1. /\ Budget(DomainSeconds) \in Nat
        /\ clock + Budget(DomainSeconds) + Cleanup <= TotalSeconds + 2 * Overrun
    <3>1. clock <= TotalSeconds + Overrun /\ Overrun \in Nat
      BY <1>1, OverrunType DEF StageBounds
    <3>2. /\ Budget(DomainSeconds) \in Nat
          /\ clock + Budget(DomainSeconds) + Cleanup <= TotalSeconds + Overrun + Overrun
      BY <3>1, BudgetBound, TimesAssumption
    <3> QED
      BY <3>2, OverrunType, TimesAssumption
  <2>2. LongestHeuristic \in Nat
    BY TimesAssumption DEF LongestHeuristic, RdapTimer, Least
  <2>3. PICK from \in Nat, to \in Nat :
          Takes(from, to) /\ to <= Budget(DomainSeconds) + Cleanup
    BY <2>1, <2>2, TimesAssumption
    DEF HeuristicReturns, HeuristicAnswers, HeuristicTimesOut, HeuristicRaises, Least
  <2>4. clock' \in Nat /\ clock' <= clock + to
    BY <2>3, TakesBound
  <2> QED
    BY <2>1, <2>3, <2>4, TimesAssumption DEF TypeOK, Overrun
<1>4. SlowRdapKeepsSignals'
  <2>1. CASE HeuristicTimesOut
    BY <1>1, <2>1, RdapEndsFirst DEF HeuristicTimesOut, StageBounds, SlowRdapKeepsSignals
  <2>2. CASE HeuristicReturns \/ HeuristicRaises
    BY <1>1, <2>2 DEF HeuristicReturns, HeuristicAnswers, HeuristicRaises, SlowRdapKeepsSignals
  <2> QED
    BY <2>1, <2>2
<1>5. CASE page.unavailable
  <2>1. Conclude(h, 0, TRUE) /\ heuristic' = h
    BY <1>2, <1>5 DEF AfterHeuristic
  <2>2. main' = "returned" /\ outcome' \in Outcomes
    <3>1. 0 \in 0..ContentCap
      BY WeightsAssumption
    <3> QED
      BY <2>1, <3>1, ConcludeIsSound
  <2>3. TypeOK'
    BY <1>1, <1>3, <2>1, <2>2 DEF TypeOK
  <2>4. StageBounds'
    BY <1>3, <2>2, OverrunType, TimesAssumption DEF StageBounds
  <2>5. Open'
    BY <2>2 DEF Open
  <2> QED
    BY <2>3, <2>4, <2>5, <1>4
<1>6. CASE ~page.unavailable
  <2>1. heuristic' = h /\ main' = "content" /\ outcome' = outcome
    BY <1>2, <1>6 DEF AfterHeuristic
  <2> QED
    BY <1>1, <1>3, <1>4, <2>1, OverrunType, TimesAssumption DEF TypeOK, StageBounds, Open
<1> QED
  BY <1>5, <1>6

\* The content stage ends, and with it the pipeline.
LEMMA ContentEndsKeeps ==
  ASSUME IInv, ContentReturns \/ ContentFails
  PROVE  IInv'
<1> USE DEF IInv
<1>1. /\ main = "content"
      /\ Takes(0, Budget(ContentSeconds) + Cleanup)
      /\ UNCHANGED <<page, heuristic, began, signalsLost>>
  BY DEF ContentReturns, ContentFails
<1>2. main' = "returned" /\ outcome' \in Outcomes
  <2>1. PICK c \in 0..ContentCap, u \in BOOLEAN : Conclude(heuristic, c, u)
    BY InputsAssumption, WeightsAssumption DEF ContentReturns, ContentFails
  <2> QED
    BY <2>1, ConcludeIsSound DEF TypeOK
<1>3. clock' \in Nat /\ clock' <= TotalSeconds + 3 * Overrun
  <2>1. /\ Budget(ContentSeconds) \in Nat
        /\ clock + Budget(ContentSeconds) + Cleanup <= TotalSeconds + 3 * Overrun
    <3>1. clock <= TotalSeconds + 2 * Overrun /\ 2 * Overrun \in Nat
      BY <1>1, OverrunType DEF StageBounds
    <3>2. /\ Budget(ContentSeconds) \in Nat
          /\ clock + Budget(ContentSeconds) + Cleanup <= TotalSeconds + 2 * Overrun + Overrun
      BY <3>1, BudgetBound, TimesAssumption
    <3> QED
      BY <3>2, OverrunType, TimesAssumption
  <2> QED
    BY <1>1, <2>1, TakesBound, TimesAssumption DEF TypeOK, Overrun
<1> QED
  BY <1>1, <1>2, <1>3 DEF TypeOK, StageBounds, Open, SlowRdapKeepsSignals

\* One step, whichever it is, keeps the invariant.
LEMMA NextKeepsIInv == IInv /\ [Next]_vars => IInv'
<1> SUFFICES ASSUME IInv, [Next]_vars PROVE IInv'
  OBVIOUS
<1> USE DEF IInv
<1>1. CASE Normalize
  BY <1>1, FailuresTyped, TimesAssumption
  DEF Normalize, TypeOK, StageBounds, Open, SlowRdapKeepsSignals, Overrun
<1>2. CASE UnchainReturns \/ UnchainFails
  BY <1>2, UnchainEndsKeeps
<1>3. CASE HeuristicReturns \/ HeuristicTimesOut \/ HeuristicRaises
  BY <1>3, HeuristicEndsKeeps
<1>4. CASE ContentReturns \/ ContentFails
  BY <1>4, ContentEndsKeeps
<1>5. CASE Cancelled
  BY <1>5, FailuresTyped
  DEF Cancelled, TypeOK, StageBounds, Open, SlowRdapKeepsSignals
<1>6. CASE UNCHANGED vars
  BY <1>6 DEF vars, TypeOK, StageBounds, Open, SlowRdapKeepsSignals
<1> QED
  BY <1>1, <1>2, <1>3, <1>4, <1>5, <1>6 DEF Next

\* The inductive invariant holds in every reachable state.
THEOREM Invariance == Spec => []IInv
BY InitIInv, NextKeepsIInv, PTL DEF Spec

\* Type correctness; in particular both scores stay within their caps.
THEOREM TypeCorrect == Spec => []TypeOK
<1>1. IInv => TypeOK
  BY DEF IInv
<1> QED
  BY <1>1, Invariance, PTL

\* However long each stage tries to take, the analysis ends within the total
\* budget and one overrun for each stage.
THEOREM BudgetIsKept == Spec => []WithinBudget
<1>1. IInv => WithinBudget
  BY DEF IInv, StageBounds, WithinBudget, Overrun
<1> QED
  BY <1>1, Invariance, PTL

\* The timeout around RDAP ends before the domain stage, so only a stage the
\* total budget cuts can lose its signals.
THEOREM SlowRdapIsHarmless == Spec => []SlowRdapKeepsSignals
<1>1. IInv => SlowRdapKeepsSignals
  BY DEF IInv
<1> QED
  BY <1>1, Invariance, PTL
-------------------------------------------------------------------------------
\* Every step is a step of the contract or changes nothing in it.
LEMMA StepImplements == IInv /\ [Next]_vars => [Contract!Next]_outcome
<1> SUFFICES ASSUME IInv, [Next]_vars, outcome' # outcome PROVE Contract!Next
  OBVIOUS
<1>1. Contract!Pending = Pending /\ Contract!Rejected = Rejected /\ Contract!Aborted = Aborted
  BY DEF Contract!Pending, Contract!Rejected, Contract!Aborted, Contract!Outcome,
         Contract!NoThreat, Contract!NoVerdict, Pending, Rejected, Aborted, Outcome,
         NoThreat, NoVerdict
<1>2. ASSUME outcome = Pending, NEW h \in 0..HeuristicCap, NEW c \in 0..ContentCap,
             NEW u \in BOOLEAN, Conclude(h, c, u)
      PROVE  Contract!Next
  BY <1>1, <1>2, ConcludeIsSound
  DEF Contract!Next, Contract!Publish, Contract!ReportUnavailable
<1>3. CASE Normalize
  BY <1>1, <1>3 DEF IInv, Open, Normalize, Contract!Next, Contract!Reject
<1>4. CASE Cancelled
  BY <1>1, <1>4 DEF IInv, Open, Cancelled, Contract!Next, Contract!Abort
<1>5. CASE HeuristicReturns \/ HeuristicTimesOut \/ HeuristicRaises
  <2>1. outcome = Pending
    BY <1>5 DEF IInv, Open, HeuristicReturns, HeuristicAnswers, HeuristicTimesOut, HeuristicRaises
  <2>2. 0 \in 0..HeuristicCap /\ 0 \in 0..ContentCap
    BY WeightsAssumption
  <2>3. PICK h \in 0..HeuristicCap : AfterHeuristic(h)
    BY <1>5, <2>2, AugmentedRange, InputsAssumption
    DEF IInv, HeuristicReturns, HeuristicAnswers, HeuristicTimesOut, HeuristicRaises
  <2>4. Conclude(h, 0, TRUE)
    BY <2>3 DEF AfterHeuristic
  <2> QED
    BY <1>2, <2>1, <2>2, <2>4
<1>6. CASE ContentReturns \/ ContentFails
  <2>1. outcome = Pending /\ heuristic \in 0..HeuristicCap
    BY <1>6 DEF IInv, Open, TypeOK, ContentReturns, ContentFails
  <2>2. PICK c \in 0..ContentCap, u \in BOOLEAN : Conclude(heuristic, c, u)
    BY <1>6, InputsAssumption, WeightsAssumption DEF ContentReturns, ContentFails
  <2> QED
    BY <1>2, <2>1, <2>2
<1> QED
  BY <1>3, <1>4, <1>5, <1>6 DEF Next, vars, UnchainReturns, UnchainFails

\* The second implementation keeps the contract too, for every setting: one
\* sound outcome, decided once, whatever times out, raises or is cancelled.
THEOREM DbIndependentImplementsContract == Spec => ImplementsContract
<1>1. Init => Contract!Init
  BY DEF Init, Contract!Init, Contract!Pending, Contract!Outcome, Contract!NoThreat,
         Contract!NoVerdict, Pending, Outcome, NoThreat, NoVerdict
<1>2. ImplementsContract <=> Contract!Spec
  BY DEF ImplementsContract
<1> QED
  BY <1>1, <1>2, StepImplements, Invariance, PTL DEF Spec, Contract!Spec
===============================================================================
