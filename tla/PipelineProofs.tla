---------------------------- MODULE PipelineProofs ----------------------------
(***************************************************************************)
(* Safety of Pipeline for every setting of weights and thresholds, every   *)
(* set of heuristic scores and every set of content results; and the proof *)
(* that Pipeline implements AnalysisContract.                              *)
(*                                                                         *)
(* The inductive invariant IInv says in which order the tasks can end      *)
(* (LookupsSettled, RepStages), what has been asked (LookupsAsked), which  *)
(* of them is behind each exit of rep (RepExits), and what main knows when *)
(* it goes on without it (MainKnows).                                      *)
(***************************************************************************)
EXTENDS Pipeline, TLAPS

\* How bad a verdict is.
Rank(verdict) == IF verdict = "SAFE" THEN 0 ELSE IF verdict = "CAUTION" THEN 1 ELSE 2

\* _augment_heuristic_with_redirect_signals keeps the cap of the heuristic.
LEMMA AugmentRange ==
  ASSUME NEW s \in 0..HeuristicCap, NEW b \in BOOLEAN
  PROVE  AugmentHeuristic(s, b) \in 0..HeuristicCap /\ AugmentHeuristic(s, b) >= s
BY WeightsAssumption DEF AugmentHeuristic, Least

\* The score reported is always within the cap.
LEMMA TotalScoreRange ==
  ASSUME NEW t \in ThreatResults, NEW h \in Nat, NEW c \in Nat
  PROVE  TotalScore(t, h, c) \in 0..TotalCap
<1>1. PrecedingScore(t, h) \in Nat
  BY WeightsAssumption DEF PrecedingScore
<1> QED
  BY <1>1, ThresholdsAssumption DEF TotalScore, Least

\* A match of either database gives the highest score and DANGER.
LEMMA MatchIsDanger ==
  ASSUME NEW t \in ThreatResults, NEW h \in Nat, NEW c \in Nat, IsMalicious(t)
  PROVE  /\ TotalScore(t, h, c) = TotalCap
         /\ DecideVerdict(TotalScore(t, h, c), t) = "DANGER"
BY DEF TotalScore, DecideVerdict

\* More evidence never improves the verdict of pipeline.py:226-248: a higher
\* heuristic or content score, or a match in a further database, leaves the
\* score as high and the verdict as bad as it was, or makes them worse.
THEOREM MoreEvidenceNeverHelps ==
  ASSUME NEW t1 \in ThreatResults, NEW t2 \in ThreatResults,
         NEW h1 \in Nat, NEW h2 \in Nat, NEW c1 \in Nat, NEW c2 \in Nat,
         t1.gsb => t2.gsb, t1.urlhaus => t2.urlhaus, h1 <= h2, c1 <= c2
  PROVE  /\ TotalScore(t1, h1, c1) <= TotalScore(t2, h2, c2)
         /\ Rank(DecideVerdict(TotalScore(t1, h1, c1), t1))
              <= Rank(DecideVerdict(TotalScore(t2, h2, c2), t2))
<1> DEFINE s1 == TotalScore(t1, h1, c1)
           s2 == TotalScore(t2, h2, c2)
<1>1. s1 \in 0..TotalCap /\ s2 \in 0..TotalCap
  BY TotalScoreRange
<1>2. IsMalicious(t1) => IsMalicious(t2)
  BY DEF IsMalicious
<1>3. s1 <= s2
  <2>1. CASE IsMalicious(t2)
    BY <1>1, <2>1, ThresholdsAssumption DEF TotalScore
  <2>2. CASE ~IsMalicious(t2)
    <3>1. PrecedingScore(t1, h1) = h1 /\ PrecedingScore(t2, h2) = h2
      BY <1>2, <2>2 DEF PrecedingScore, IsMalicious
    <3> QED
      BY <1>2, <2>2, <3>1, ThresholdsAssumption DEF TotalScore, Least
  <2> QED
    BY <2>1, <2>2
<1>4. Rank(DecideVerdict(s1, t1)) <= Rank(DecideVerdict(s2, t2))
  <2> HIDE DEF s1, s2
  <2> QED
    BY <1>1, <1>2, <1>3, ThresholdsAssumption DEF Rank, DecideVerdict
<1> QED
  BY <1>3, <1>4
-------------------------------------------------------------------------------
\* The tasks exist from the start of the reputation stage on.
TasksStarted ==
  /\ main \in {"normalize", "unchain"} =>
       rep = "off" /\ stop = "no" /\ ~repCancel /\ ~thrCancel /\ ~heurCancel
  /\ rep = "off" => thr = "off" /\ heur = "off"
  /\ rep # "off" => thr # "off" /\ heur # "off"
  /\ main = "reputation" => rep # "off"

\* gather ends after its lookups.
LookupsSettled ==
  thr \in {"done", "cancelled"} => \A l \in Lookups : lookups[l] # "running"

\* Every lookup of a candidate has been asked, and only those of a threat task
\* that was told to stop are cancelled, which is then not the result of the task.
LookupsAsked ==
  /\ rep # "off" => \A l \in Candidates(page) : lookups[l] # "off"
  /\ \A l \in Lookups : lookups[l] = "cancelled" => thrCancel
  /\ thr = "done" => ~thrCancel

\* What rep has seen where it waits.
RepStages ==
  /\ rep = "heur" => thr = "done" /\ ~IsMalicious(Threat)
  /\ rep = "reap" => thr = "done" /\ IsMalicious(Threat)
  /\ rep = "threat" => heur = "done"

\* What is true of the tasks at each exit of rep.
RepExits ==
  /\ rep = "returned" =>
       /\ thr = "done"
       /\ heur # "running"
       /\ IsMalicious(Threat) \/ heur = "done"
  /\ rep = "raised" => heur = "raised"

\* What main makes of rep, and why it may go on.
MainKnows ==
  /\ ~Ended => outcome = Pending
  /\ main = "content" => RepEnded /\ ~IsMalicious(UsedThreat) /\ ~page.unavailable
  /\ main \in {"content", "returned"} /\ rep # "off" =>
       /\ RepEnded
       /\ stop # "outer"
       /\ stop = "no" => rep \in {"returned", "raised"}
  /\ main = "returned" /\ rep = "off" => outcome = Rejected
  /\ main = "returned" /\ rep # "off" =>
       outcome \in Sequential(page, UsedThreat, UsedHeuristic)

IInv ==
  /\ TypeOK /\ TasksStarted /\ LookupsSettled /\ LookupsAsked /\ RepStages /\ RepExits
  /\ RaceFree /\ NoTaskForgotten /\ MainKnows
-------------------------------------------------------------------------------
\* What is published is sound: the verdict is in the band of the score, a match
\* has the highest score, and an unseen page is published only if risky.
LEMMA PublishedSound ==
  ASSUME NEW t \in ThreatResults, NEW s \in 0..TotalCap, NEW r \in BOOLEAN,
         IsMalicious(t) => s = TotalCap,
         ~r => RiskyUnseen(s, t)
  PROVE  /\ Contract!Sound(Published(t, s, r))
         /\ Published(t, s, r) \in Outcomes
<1>1. DecideVerdict(s, t) \in Verdicts
  BY DEF DecideVerdict, Verdicts
<1>2. Published(t, s, r) \in Outcomes
  BY <1>1 DEF Published, Outcome, Outcomes
<1>3. Contract!Sound(Published(t, s, r))
  BY ThresholdsAssumption
  DEF Contract!Sound, Contract!Outcomes, Contract!ThreatResults, Contract!Verdicts,
      Contract!IsMalicious, ThreatResults, IsMalicious, RiskyUnseen, Published, Outcome,
      DecideVerdict
<1> QED
  BY <1>2, <1>3

\* An unavailable page with a score below the caution band gets no verdict.
LEMMA UnavailableSound ==
  ASSUME NEW s \in 0..TotalCap, s < CautionThreshold
  PROVE  /\ Contract!Sound(Unavailable(s))
         /\ Unavailable(s) \in Outcomes
<1>1. Unavailable(s) \in Outcomes
  BY DEF Unavailable, Outcome, Outcomes, ThreatResults, NoThreat
<1>2. Contract!Sound(Unavailable(s))
  BY DEF Contract!Sound, Contract!Outcomes, Contract!ThreatResults, Contract!NoVerdict,
         Contract!IsMalicious, NoVerdict, Unavailable, Outcome, NoThreat
<1> QED
  BY <1>1, <1>2

\* What the tail of the pipeline hands out, whatever the stages found.
LEMMA ConcludeIsSound ==
  ASSUME TypeOK,
         NEW t \in ThreatResults, NEW h \in 0..HeuristicCap,
         NEW c \in [score : 0..ContentCap, unavailable : BOOLEAN],
         Conclude(t, h, c)
  PROVE  /\ main' = "returned"
         /\ outcome' \in Outcomes
         /\ outcome'.kind \in {"verdict", "unavailable"}
         /\ Contract!Sound(outcome')
         /\ IsMalicious(t) => IsMalicious(outcome'.threat)
<1> DEFINE s == TotalScore(t, AugmentHeuristic(h, page.crossOrigin), c.score)
           u == page.unavailable \/ c.unavailable
<1>1. page.crossOrigin \in BOOLEAN
  BY DEF TypeOK, Pages
<1>2. s \in 0..TotalCap
  <2>1. c.score \in Nat
    OBVIOUS
  <2> QED
    BY <1>1, AugmentRange, TotalScoreRange
<1>3. IsMalicious(t) => s = TotalCap
  BY DEF TotalScore
<1>4. main' = "returned" /\ outcome' = IF u /\ ~RiskyUnseen(s, t)
                                       THEN Unavailable(s) ELSE Published(t, s, ~u)
  BY DEF Conclude, Conclusion
<1> HIDE DEF s, u
<1>5. CASE u /\ ~RiskyUnseen(s, t)
  <2>1. s < CautionThreshold /\ ~IsMalicious(t)
    BY <1>2, <1>5, ThresholdsAssumption DEF RiskyUnseen
  <2>2. outcome' = Unavailable(s)
    BY <1>4, <1>5
  <2>3. outcome'.kind = "unavailable"
    BY <2>2 DEF Unavailable, Outcome
  <2> QED
    BY <1>2, <1>4, <2>1, <2>2, <2>3, UnavailableSound
<1>6. CASE ~(u /\ ~RiskyUnseen(s, t))
  <2>1. outcome' = Published(t, s, ~u)
    BY <1>4, <1>6
  <2>2. Contract!Sound(Published(t, s, ~u)) /\ Published(t, s, ~u) \in Outcomes
    BY <1>2, <1>3, <1>6, PublishedSound
  <2>3. outcome'.kind = "verdict" /\ outcome'.threat = t
    BY <2>1 DEF Published, Outcome
  <2> QED
    BY <1>4, <2>1, <2>2, <2>3
<1> QED
  BY <1>5, <1>6

-------------------------------------------------------------------------------
\* The initial states have the invariant.
LEMMA InitIInv == Init => IInv
<1> SUFFICES ASSUME Init PROVE IInv
  OBVIOUS
<1>1. Pending \in Outcomes
  BY ThresholdsAssumption DEF Pending, Outcome, Outcomes, ThreatResults, NoThreat
<1>2. page \in Pages
  BY DEF Init, TimedOutPage, Pages
<1>3. repCancel \in BOOLEAN /\ thrCancel \in BOOLEAN /\ heurCancel \in BOOLEAN
  BY DEF Init
<1>4. lookups \in [Lookups -> {"off", "running", "clean", "hit", "failed", "cancelled"}]
  BY DEF Init
<1>5. heurScore \in 0..HeuristicCap /\ result \in [heuristic : 0..HeuristicCap, short : BOOLEAN]
  BY WeightsAssumption DEF Init, HeuristicKept
<1>6. TypeOK
  BY <1>1, <1>2, <1>5 DEF Init, TypeOK
<1> QED
  BY <1>6
  DEF Init, IInv, TasksStarted, LookupsSettled, LookupsAsked, RepStages, RepExits, RaceFree,
      NoTaskForgotten, MainKnows

-------------------------------------------------------------------------------
\* The merged lookups are a threat result.
LEMMA ThreatIsResult == Threat \in ThreatResults
<1>1. Matched("gsb") \in BOOLEAN /\ Matched("urlhaus") \in BOOLEAN
  BY DEF Matched
<1> QED
  BY <1>1 DEF Threat, ThreatResults

\* A refused and a cancelled analysis are outcomes too.
LEMMA FailuresTyped ==
  /\ Rejected \in Outcomes
  /\ Aborted \in Outcomes
BY ThresholdsAssumption DEF Rejected, Aborted, Outcome, Outcomes, ThreatResults, NoThreat

\* What rep can return beside the threat.
LEMMA ResultsTyped ==
  ASSUME TypeOK
  PROVE  {Placeholder, HeuristicKept} \subseteq [heuristic : 0..HeuristicCap, short : BOOLEAN]
BY WeightsAssumption DEF TypeOK, Placeholder, HeuristicKept

\* The threat is a function of the lookups.
LEMMA ThreatSame == lookups' = lookups => Threat' = Threat
BY DEF Threat, Matched

\* What main makes of rep is settled when rep has ended.
LEMMA UsedSame ==
  ASSUME rep' = rep, result' = result, rep = "returned" => lookups' = lookups
  PROVE  UsedThreat' = UsedThreat /\ UsedHeuristic' = UsedHeuristic
BY ThreatSame DEF UsedThreat, UsedHeuristic

\* The URL is normalised or refused.
LEMMA NormalizeKeeps ==
  ASSUME IInv, Normalize
  PROVE  IInv'
<1> USE DEF IInv, Normalize, reputation
<1>1. lookups' = lookups /\ Threat' = Threat
  BY ThreatSame
<1>2. TypeOK'
  BY FailuresTyped DEF TypeOK
<1>3. TasksStarted'
  BY DEF TasksStarted
<1>4. LookupsSettled'
  BY DEF LookupsSettled
<1>asked. LookupsAsked'
  BY DEF LookupsAsked, Candidates
<1>5. RepStages'
  BY <1>1 DEF RepStages
<1>6. RepExits'
  BY <1>1 DEF RepExits
<1>7. RaceFree'
  BY DEF TasksStarted, RaceFree
<1>8. NoTaskForgotten'
  BY DEF TasksStarted, NoTaskForgotten
<1>9. MainKnows'
  BY DEF TasksStarted, MainKnows, Ended
<1> QED BY <1>2, <1>3, <1>4, <1>asked, <1>5, <1>6, <1>7, <1>8, <1>9

\* The tasks are started.
LEMMA StartReputationKeeps ==
  ASSUME IInv, NEW p \in Pages, main = "unchain", StartReputation(p)
  PROVE  IInv'
<1> USE DEF IInv, StartReputation
<1>1. TypeOK'
  BY DEF TypeOK
<1>2. TasksStarted'
  BY DEF TasksStarted
<1>3. LookupsSettled'
  BY DEF LookupsSettled
<1>asked. LookupsAsked'
  BY DEF LookupsAsked, Candidates
<1>4. RepStages'
  BY DEF RepStages
<1>5. RepExits'
  BY DEF RepExits
<1>6. RaceFree'
  BY DEF RaceFree
<1>7. NoTaskForgotten'
  BY DEF NoTaskForgotten, RepEnded
<1>8. MainKnows'
  BY DEF MainKnows, Ended
<1> QED BY <1>1, <1>2, <1>3, <1>asked, <1>4, <1>5, <1>6, <1>7, <1>8

\* A lookup ends while its gather runs, before anyone reads it.
LEMMA LookupReturnsKeeps ==
  ASSUME IInv, NEW l \in Lookups, LookupReturns(l)
  PROVE  IInv'
<1> USE DEF IInv, LookupReturns
<1>1. TypeOK'
  BY DEF TypeOK
<1>2. TasksStarted'
  BY DEF TasksStarted
<1>3. LookupsSettled'
  BY DEF LookupsSettled
<1>asked. LookupsAsked'
  BY DEF LookupsAsked, Candidates
<1>4. RepStages'
  BY DEF LookupsSettled, RepStages
<1>5. RepExits'
  BY DEF LookupsSettled, RepExits
<1>6. RaceFree'
  BY DEF LookupsSettled, RepExits, RaceFree
<1>7. NoTaskForgotten'
  BY DEF NoTaskForgotten, RepEnded
<1>8. MainKnows'
  <2>1. rep # "returned"
    BY DEF LookupsSettled, RepExits
  <2>2. UsedThreat' = UsedThreat /\ UsedHeuristic' = UsedHeuristic
    BY <2>1, UsedSame
  <2> QED
    BY <2>2 DEF MainKnows, RepEnded, Ended
<1> QED BY <1>1, <1>2, <1>3, <1>asked, <1>4, <1>5, <1>6, <1>7, <1>8

\* The gather ends.
LEMMA ThreatReturnsKeeps ==
  ASSUME IInv, ThreatReturns
  PROVE  IInv'
<1> USE DEF IInv, ThreatReturns
<1>1. lookups' = lookups /\ Threat' = Threat
  BY ThreatSame
<1>2. TypeOK'
  BY DEF TypeOK
<1>3. TasksStarted'
  BY DEF TasksStarted
<1>4. LookupsSettled'
  BY DEF LookupsSettled
<1>asked. LookupsAsked'
  BY DEF LookupsAsked, Candidates
<1>5. RepStages'
  BY DEF RepStages
<1>6. RepExits'
  BY DEF RepExits
<1>7. RaceFree'
  BY DEF RepExits, RaceFree
<1>8. NoTaskForgotten'
  BY DEF NoTaskForgotten, RepEnded
<1>9. MainKnows'
  <2>1. UsedThreat' = UsedThreat /\ UsedHeuristic' = UsedHeuristic
    BY UsedSame
  <2> QED
    BY <2>1 DEF MainKnows, RepEnded, Ended
<1> QED BY <1>2, <1>3, <1>4, <1>asked, <1>5, <1>6, <1>7, <1>8, <1>9

\* The heuristic ends.
LEMMA HeuristicReturnsKeeps ==
  ASSUME IInv, HeuristicReturns
  PROVE  IInv'
<1> USE DEF IInv, HeuristicReturns
<1>1. lookups' = lookups /\ Threat' = Threat
  BY ThreatSame
<1>2. TypeOK'
  BY InputsAssumption DEF TypeOK
<1>3. TasksStarted'
  BY DEF TasksStarted
<1>4. LookupsSettled'
  BY DEF LookupsSettled
<1>asked. LookupsAsked'
  BY DEF LookupsAsked, Candidates
<1>5. RepStages'
  BY <1>1 DEF RepStages
<1>6. RepExits'
  BY DEF RepExits
<1>7. RaceFree'
  BY DEF RepExits, RaceFree
<1>8. NoTaskForgotten'
  BY DEF NoTaskForgotten, RepEnded
<1>9. MainKnows'
  <2>1. UsedThreat' = UsedThreat /\ UsedHeuristic' = UsedHeuristic
    BY UsedSame
  <2> QED
    BY <2>1 DEF MainKnows, RepEnded, Ended
<1> QED BY <1>2, <1>3, <1>4, <1>asked, <1>5, <1>6, <1>7, <1>8, <1>9

\* rep reads the task that ended first.
LEMMA RepFirstCompletedKeeps ==
  ASSUME IInv, RepFirstCompleted
  PROVE  IInv'
<1> USE DEF IInv, RepFirstCompleted, ReapHeuristic, HeuristicResult, RepAwaits, RepReturns,
       RepFails
<1>1. lookups' = lookups /\ Threat' = Threat
  BY ThreatSame
<1>2. TypeOK'
  <2>1. thrCancel' \in BOOLEAN /\ heurCancel' \in BOOLEAN
    BY DEF TypeOK
  <2>2. result' \in {result, Placeholder, HeuristicKept}
    OBVIOUS
  <2>3. {result, Placeholder, HeuristicKept}
          \subseteq [heuristic : 0..HeuristicCap, short : BOOLEAN]
    BY ResultsTyped DEF TypeOK
  <2>4. /\ rep' \in {"heur", "threat", "reap", "returned", "raised", "cancelled"}
        /\ UNCHANGED <<outcome, main, stop, page, repCancel, thr, heur, lookups, heurScore>>
    OBVIOUS
  <2> QED
    BY <2>3 DEF TypeOK
<1>3. TasksStarted'
  BY DEF TasksStarted
<1>4. LookupsSettled'
  BY DEF LookupsSettled
<1>asked. LookupsAsked'
  <2>1. rep # "off" /\ UNCHANGED <<page, lookups, thr>>
    OBVIOUS
  <2>2. thrCancel => thrCancel'
    OBVIOUS
  <2>3. thr = "done" => ~thrCancel'
    BY DEF LookupsAsked
  <2> HIDE DEF RepFirstCompleted, RepResumes
  <2> QED
    BY <2>1, <2>2, <2>3 DEF LookupsAsked, Candidates
<1>5. RepStages'
  BY <1>1 DEF RepStages
<1>6. RepExits'
  BY <1>1 DEF RepExits
<1>7. RaceFree'
  BY <1>1 DEF RaceFree, HeuristicKept
<1>8. NoTaskForgotten'
  BY DEF NoTaskForgotten, RepEnded
<1>9. MainKnows'
  BY DEF MainKnows, RepEnded, Ended
<1> QED BY <1>2, <1>3, <1>4, <1>asked, <1>5, <1>6, <1>7, <1>8, <1>9

\* rep resumes from the second task, or is cancelled.
LEMMA RepResumesKeeps ==
  ASSUME IInv, RepResumes
  PROVE  IInv'
<1> USE DEF IInv, RepResumes, ThreatAfterHeuristic, ReapHeuristic, HeuristicResult,
       RepReturns, RepFails
<1>1. lookups' = lookups /\ Threat' = Threat
  BY ThreatSame
<1>2. TypeOK'
  <2>1. thrCancel' \in BOOLEAN /\ heurCancel' \in BOOLEAN
    BY DEF TypeOK
  <2>2. result' \in {result, Placeholder, HeuristicKept}
    OBVIOUS
  <2>3. {result, Placeholder, HeuristicKept}
          \subseteq [heuristic : 0..HeuristicCap, short : BOOLEAN]
    BY ResultsTyped DEF TypeOK
  <2>4. /\ rep' \in {"heur", "threat", "reap", "returned", "raised", "cancelled"}
        /\ UNCHANGED <<outcome, main, stop, page, repCancel, thr, heur, lookups, heurScore>>
    OBVIOUS
  <2> QED
    BY <2>1, <2>3 DEF TypeOK
<1>3. TasksStarted'
  BY DEF TasksStarted
<1>4. LookupsSettled'
  BY DEF LookupsSettled
<1>asked. LookupsAsked'
  <2>1. rep # "off" /\ UNCHANGED <<page, lookups, thr>>
    OBVIOUS
  <2>2. thrCancel => thrCancel'
    OBVIOUS
  <2>3. thr = "done" => ~thrCancel'
    BY DEF LookupsAsked
  <2> HIDE DEF RepFirstCompleted, RepResumes
  <2> QED
    BY <2>1, <2>2, <2>3 DEF LookupsAsked, Candidates
<1>5. RepStages'
  BY DEF RepStages
<1>6. RepExits'
  BY <1>1 DEF TypeOK, TasksStarted, RepStages, RepExits
<1>7. RaceFree'
  BY <1>1 DEF RepStages, RaceFree, HeuristicKept
<1>8. NoTaskForgotten'
  BY DEF RepStages, NoTaskForgotten
<1>9. MainKnows'
  BY DEF MainKnows, RepEnded, Ended
<1> QED BY <1>2, <1>3, <1>4, <1>asked, <1>5, <1>6, <1>7, <1>8, <1>9

\* The reputation deadline expires.
LEMMA ReputationDeadlineKeeps ==
  ASSUME IInv, ReputationDeadline
  PROVE  IInv'
<1> USE DEF IInv, ReputationDeadline, CancelRep
<1>1. lookups' = lookups /\ Threat' = Threat
  BY ThreatSame
<1>2. TypeOK'
  BY DEF TypeOK
<1>3. TasksStarted'
  BY DEF TasksStarted
<1>4. LookupsSettled'
  BY DEF LookupsSettled
<1>asked. LookupsAsked'
  BY DEF LookupsAsked, Candidates
<1>5. RepStages'
  BY <1>1 DEF RepStages
<1>6. RepExits'
  BY <1>1 DEF RepExits
<1>7. RaceFree'
  BY <1>1 DEF RaceFree, HeuristicKept
<1>8. NoTaskForgotten'
  BY DEF NoTaskForgotten, RepEnded
<1>9. MainKnows'
  BY DEF MainKnows, Ended
<1> QED BY <1>2, <1>3, <1>4, <1>asked, <1>5, <1>6, <1>7, <1>8, <1>9

\* The analysis is cancelled.
LEMMA OuterCancelKeeps ==
  ASSUME IInv, OuterCancel
  PROVE  IInv'
<1> USE DEF IInv, OuterCancel, CancelRep, AbortMain, reputation
<1>1. lookups' = lookups /\ Threat' = Threat
  BY ThreatSame
<1>2. TypeOK'
  <2>1. CASE /\ CancelRep /\ stop' = "outer"
             /\ UNCHANGED <<outcome, main, page, rep, thr, heur, lookups, heurScore, result>>
    BY <2>1 DEF TypeOK
  <2>2. CASE AbortMain /\ UNCHANGED <<stop, page, reputation>>
    BY <2>2, FailuresTyped DEF TypeOK
  <2> QED
    BY <2>1, <2>2
<1>3. TasksStarted'
  BY DEF TasksStarted
<1>4. LookupsSettled'
  BY DEF LookupsSettled
<1>asked. LookupsAsked'
  <2>1. UNCHANGED <<page, lookups, thr, rep>>
    OBVIOUS
  <2>2. thrCancel => thrCancel'
    OBVIOUS
  <2>3. thr = "done" => ~thrCancel'
    BY DEF LookupsAsked
  <2> HIDE DEF OuterCancel, CancelRep, AbortMain
  <2> QED
    BY <2>1, <2>2, <2>3 DEF LookupsAsked, Candidates
<1>5. RepStages'
  BY <1>1 DEF RepStages
<1>6. RepExits'
  BY <1>1 DEF RepExits
<1>7. RaceFree'
  BY <1>1 DEF RaceFree, HeuristicKept
<1>8. NoTaskForgotten'
  BY DEF NoTaskForgotten, RepEnded
<1>9. MainKnows'
  BY DEF MainKnows, Ended
<1> QED BY <1>2, <1>3, <1>4, <1>asked, <1>5, <1>6, <1>7, <1>8, <1>9

\* What main works with has its type, whether rep returned or not.
LEMMA UsedTyped ==
  ASSUME TypeOK
  PROVE  UsedThreat \in ThreatResults /\ UsedHeuristic \in 0..HeuristicCap
<1>1. NoThreat \in ThreatResults
  BY DEF NoThreat, ThreatResults
<1> QED
  BY <1>1, ThreatIsResult, WeightsAssumption DEF UsedThreat, UsedHeuristic, TypeOK

\* Any exit through the common tail.
LEMMA ConcludeKeeps ==
  ASSUME IInv, RepEnded, stop # "outer", stop = "no" => rep \in {"returned", "raised"},
         NEW c \in [score : 0..ContentCap, unavailable : BOOLEAN],
         Conclusion(page, UsedThreat, UsedHeuristic, c)
           \in Sequential(page, UsedThreat, UsedHeuristic),
         Conclude(UsedThreat, UsedHeuristic, c),
         UNCHANGED <<stop, page, reputation>>
  PROVE  IInv'
<1> USE DEF IInv, reputation
<1>1. lookups' = lookups /\ Threat' = Threat
  BY ThreatSame
<1>2. /\ main' = "returned"
      /\ outcome' \in Outcomes
      /\ outcome' \in Sequential(page, UsedThreat, UsedHeuristic)
  BY UsedTyped, ConcludeIsSound DEF Conclude
<1>3. TypeOK'
  BY <1>2 DEF TypeOK
<1>4. TasksStarted'
  BY <1>2 DEF TasksStarted
<1>5. LookupsSettled'
  BY DEF LookupsSettled
<1>asked. LookupsAsked'
  BY DEF LookupsAsked, Candidates
<1>6. RepStages' /\ RepExits' /\ RaceFree' /\ NoTaskForgotten'
  BY <1>1 DEF RepStages, RepExits, RaceFree, NoTaskForgotten, HeuristicKept
<1>7. MainKnows'
  <2>1. UsedThreat' = UsedThreat /\ UsedHeuristic' = UsedHeuristic
    BY <1>1 DEF UsedThreat, UsedHeuristic
  <2>2. (outcome \in Sequential(page, UsedThreat, UsedHeuristic))'
    BY <1>2, <2>1
  <2> QED
    BY <1>2, <2>1, <2>2 DEF MainKnows, RepEnded, Ended
<1> QED
  BY <1>3, <1>4, <1>5, <1>asked, <1>6, <1>7

\* main goes on with what the reputation stage brought, or ends here.
LEMMA ReputationReturnsKeeps ==
  ASSUME IInv, ReputationReturns
  PROVE  IInv'
<1> DEFINE c == NotFetched
<1>1. c \in [score : 0..ContentCap, unavailable : BOOLEAN]
  BY WeightsAssumption DEF NotFetched
<1>2. CASE /\ ~(stop = "outer" \/ (rep = "cancelled" /\ stop = "no"))
           /\ page.unavailable \/ (rep = "returned" /\ result.short) \/ IsMalicious(UsedThreat)
  <2>1. rep = "returned" /\ result.short => IsMalicious(UsedThreat)
    BY DEF IInv, RaceFree, HeuristicKept, UsedThreat
  <2>2. IsMalicious(UsedThreat) => UsedHeuristic = 0
    BY DEF IInv, RaceFree, Placeholder, UsedThreat, UsedHeuristic, NoThreat, IsMalicious
  <2>3. Conclusion(page, UsedThreat, UsedHeuristic, NotFetched)
          \in Sequential(page, UsedThreat, UsedHeuristic)
    BY <1>2, <2>1, <2>2 DEF Sequential
  <2>4. /\ Conclude(UsedThreat, UsedHeuristic, NotFetched)
        /\ UNCHANGED <<stop, page, reputation>>
    BY <1>2 DEF ReputationReturns
  <2> QED
    BY <1>1, <1>2, <2>3, <2>4, ConcludeKeeps DEF ReputationReturns, RepEnded
<1>3. CASE AbortMain \/ (main' = "content" /\ outcome' = outcome
                          /\ ~IsMalicious(UsedThreat) /\ ~page.unavailable
                          /\ ~(stop = "outer" \/ (rep = "cancelled" /\ stop = "no")))
  <2> USE DEF IInv, ReputationReturns, AbortMain, reputation
  <2>1. lookups' = lookups /\ Threat' = Threat
    BY ThreatSame
  <2>2. TypeOK'
    BY <1>3, FailuresTyped DEF TypeOK
  <2>3. TasksStarted'
    BY <1>3 DEF TasksStarted
  <2>4. LookupsSettled' /\ LookupsAsked'
    BY DEF LookupsSettled, LookupsAsked, Candidates
  <2>5. RepStages' /\ RepExits' /\ RaceFree' /\ NoTaskForgotten'
    BY <2>1 DEF RepStages, RepExits, RaceFree, NoTaskForgotten, HeuristicKept
  <2>6. MainKnows'
    <3>1. UsedThreat' = UsedThreat /\ UsedHeuristic' = UsedHeuristic
      BY UsedSame
    <3> QED
      BY <1>3, <3>1 DEF MainKnows, RepEnded, Ended
  <2> QED
    BY <2>2, <2>3, <2>4, <2>5, <2>6
<1> QED
  BY <1>2, <1>3 DEF ReputationReturns

\* Content analysis ends, with a result or at its deadline.
LEMMA ContentEndsKeeps ==
  ASSUME IInv, ContentReturns \/ ContentFails
  PROVE  IInv'
<1>1. /\ RepEnded /\ stop # "outer"
      /\ stop = "no" => rep \in {"returned", "raised"}
  BY DEF IInv, MainKnows, ContentReturns, ContentFails, RepEnded
<1>2. PICK c \in ContentResults \cup {TimedOutContent} :
        /\ c \in [score : 0..ContentCap, unavailable : BOOLEAN]
        /\ Conclude(UsedThreat, UsedHeuristic, c)
  <2>1. CASE ContentReturns
    BY <2>1, InputsAssumption DEF ContentReturns
  <2>2. CASE ContentFails
    <3>1. TimedOutContent \in [score : 0..ContentCap, unavailable : BOOLEAN]
      BY WeightsAssumption DEF TimedOutContent
    <3> QED
      BY <2>2, <3>1 DEF ContentFails
  <2> QED
    BY <2>1, <2>2
<1>3. Conclusion(page, UsedThreat, UsedHeuristic, c)
        \in Sequential(page, UsedThreat, UsedHeuristic)
  BY DEF IInv, MainKnows, ContentReturns, ContentFails, Sequential
<1> QED
  BY <1>1, <1>2, <1>3, ConcludeKeeps DEF ContentReturns, ContentFails

\* Nothing happens.
LEMMA StutterKeeps ==
  ASSUME IInv, UNCHANGED vars
  PROVE  IInv'
<1> USE DEF IInv, vars, reputation
<1>1. Threat' = Threat
  BY ThreatSame
<1>2. TypeOK' /\ TasksStarted' /\ LookupsSettled' /\ LookupsAsked'
  BY DEF TypeOK, TasksStarted, LookupsSettled, LookupsAsked, Candidates
<1>3. RepStages' /\ RepExits' /\ RaceFree' /\ NoTaskForgotten' /\ MainKnows'
  <2>1. UsedThreat' = UsedThreat /\ UsedHeuristic' = UsedHeuristic
    BY UsedSame
  <2> QED
    BY <1>1, <2>1
    DEF RepStages, RepExits, RaceFree, NoTaskForgotten, MainKnows, RepEnded, Ended,
        HeuristicKept
<1> QED BY <1>2, <1>3

-------------------------------------------------------------------------------
\* One step of the pipeline, whichever it is, keeps the invariant.
LEMMA NextKeepsIInv == IInv /\ [Next]_vars => IInv'
<1> SUFFICES ASSUME IInv, [Next]_vars PROVE IInv'
  OBVIOUS
<1>1. CASE Normalize
  BY <1>1, NormalizeKeeps
<1>2. CASE UnchainReturns \/ UnchainFails
  <2>1. TimedOutPage \in Pages
    BY DEF TimedOutPage, Pages
  <2> QED
    BY <1>2, <2>1, StartReputationKeeps DEF UnchainReturns, UnchainFails
<1>3. CASE \E l \in Lookups : LookupReturns(l)
  BY <1>3, LookupReturnsKeeps
<1>4. CASE ThreatReturns
  BY <1>4, ThreatReturnsKeeps
<1>5. CASE HeuristicReturns
  BY <1>5, HeuristicReturnsKeeps
<1>6. CASE RepFirstCompleted
  BY <1>6, RepFirstCompletedKeeps
<1>7. CASE RepResumes
  BY <1>7, RepResumesKeeps
<1>8. CASE ReputationDeadline
  BY <1>8, ReputationDeadlineKeeps
<1>9. CASE OuterCancel
  BY <1>9, OuterCancelKeeps
<1>10. CASE ReputationReturns
  BY <1>10, ReputationReturnsKeeps
<1>11. CASE ContentReturns \/ ContentFails
  BY <1>11, ContentEndsKeeps
<1>12. CASE UNCHANGED vars
  BY <1>12, StutterKeeps
<1> QED
  BY <1>1, <1>2, <1>3, <1>4, <1>5, <1>6, <1>7, <1>8, <1>9, <1>10, <1>11, <1>12 DEF Next

\* The inductive invariant holds in every reachable state.
THEOREM Invariance == Spec => []IInv
BY InitIInv, NextKeepsIInv, PTL DEF Spec

\* Type correctness; in particular every score stays within its cap.
THEOREM TypeCorrect == Spec => []TypeOK
<1>1. IInv => TypeOK
  BY DEF IInv
<1> QED
  BY <1>1, Invariance, PTL

\* Which of the two tasks of _run_stage_2_and_3 ends first makes no difference
\* to what it returns.
THEOREM RaceIsFree == Spec => []RaceFree
<1>1. IInv => RaceFree
  BY DEF IInv
<1> QED
  BY <1>1, Invariance, PTL

\* A report made after rep returned is that of the stages in sequence.
LEMMA ReturnedIsSequential ==
  ASSUME IInv, main = "returned", rep = "returned"
  PROVE  /\ thr = "done"
         /\ IsMalicious(Threat) \/ heur = "done"
         /\ outcome \in Sequential(page, Threat, heurScore)
<1>1. thr = "done" /\ (IsMalicious(Threat) \/ heur = "done")
  BY DEF IInv, RepExits
<1>2. UsedThreat = Threat
  BY DEF UsedThreat
<1>3. ~IsMalicious(Threat) => UsedHeuristic = heurScore
  BY DEF IInv, RaceFree, UsedHeuristic, HeuristicKept
<1>4. outcome \in Sequential(page, Threat, UsedHeuristic)
  BY <1>2 DEF IInv, MainKnows
<1>5. outcome \in Sequential(page, Threat, heurScore)
  BY <1>3, <1>4 DEF Sequential
<1> QED
  BY <1>1, <1>5

\* The tasks of stages 2 and 3, their deadline, their cancellations and the
\* order in which they end do not show in any report, for all weights,
\* thresholds, scores and contents: it is the report of the stages in sequence.
THEOREM ReportIsSequential == Spec => []AsIfSequential
<1>1. IInv => AsIfSequential
  <2> SUFFICES ASSUME IInv, main = "returned", outcome # Rejected,
                      ~(/\ thr = "done"
                        /\ IsMalicious(Threat) \/ heur = "done"
                        /\ outcome \in Sequential(page, Threat, heurScore))
               PROVE  /\ stop = "deadline" \/ heur = "raised"
                      /\ outcome \in Sequential(page, NoThreat, 0)
    BY DEF AsIfSequential
  <2>1. rep # "returned"
    BY ReturnedIsSequential
  <2>2. UsedThreat = NoThreat /\ UsedHeuristic = 0
    BY <2>1 DEF UsedThreat, UsedHeuristic
  <2>3. rep # "off" /\ outcome \in Sequential(page, NoThreat, 0)
    BY <2>2 DEF IInv, MainKnows
  <2>4. stop = "deadline" \/ rep = "raised"
    BY <2>1, <2>3 DEF IInv, MainKnows, TypeOK
  <2> QED
    BY <2>3, <2>4 DEF IInv, RepExits
<1> QED
  BY <1>1, Invariance, PTL

\* A match the threat task completed with is in the report, unless an exception
\* of the heuristic or the deadline has thrown the reputation stage away.
THEOREM MatchIsReported ==
  Spec => [](/\ main = "returned" /\ thr = "done" /\ IsMalicious(Threat)
             /\ heur # "raised" /\ stop # "deadline"
             => IsMalicious(outcome.threat))
<1>1. ASSUME IInv, main = "returned", thr = "done", IsMalicious(Threat),
             heur # "raised", stop # "deadline"
      PROVE  IsMalicious(outcome.threat)
  <2>1. rep = "returned"
    BY <1>1 DEF IInv, TypeOK, TasksStarted, MainKnows, RepExits
  <2>2. outcome = Conclusion(page, Threat, 0, NotFetched)
    BY <1>1, <2>1, ReturnedIsSequential DEF Sequential
  <2>3. outcome.threat = Threat
    BY <1>1, <2>2 DEF Conclusion, RiskyUnseen, Published, Outcome
  <2> QED
    BY <1>1, <2>3
<1> QED
  BY <1>1, Invariance, PTL

\* However _run_stage_2_and_3 ends, it leaves no task that runs unasked.
THEOREM TasksAreReleased == Spec => []NoTaskForgotten
<1>1. IInv => NoTaskForgotten
  BY DEF IInv
<1> QED
  BY <1>1, Invariance, PTL

\* No fetch overtakes a lookup: _run_stage_2_and_3 waits for both tasks whichever
\* ends first, for any scores, and run_pipeline goes on without them only after the
\* deadline or an exception of the heuristic.
THEOREM NoMatchIsTooLate == Spec => []NoLateMatch
<1>1. ASSUME IInv, main = "content", stop # "deadline", heur # "raised"
      PROVE  heur = "done" /\ \A l \in Candidates(page) : lookups[l] \in {"clean", "failed"}
  <2>1. rep = "returned" /\ ~IsMalicious(Threat)
    BY <1>1 DEF IInv, TypeOK, TasksStarted, MainKnows, RepEnded, RepExits, UsedThreat
  <2>2. thr = "done" /\ heur = "done"
    BY <2>1, <1>1 DEF IInv, RepExits
  <2>3. \A l \in Lookups : lookups[l] # "hit"
    <3>1. ASSUME NEW l \in Lookups, lookups[l] = "hit" PROVE IsMalicious(Threat)
      <4>1. l[1] \in {"gsb", "urlhaus"}
        BY DEF Lookups
      <4>2. Matched(l[1])
        BY <3>1 DEF Matched
      <4> QED
        BY <4>1, <4>2 DEF IsMalicious, Threat
    <3> QED
      BY <2>1, <3>1
  <2>4. LookupsSettled /\ LookupsAsked /\ TypeOK
    BY <1>1 DEF IInv
  <2>5. \A l \in Lookups : lookups[l] # "running" /\ lookups[l] # "cancelled"
    BY <2>2, <2>4 DEF LookupsSettled, LookupsAsked
  <2>6. \A l \in Candidates(page) : lookups[l] # "off"
    BY <2>1, <2>4 DEF LookupsAsked
  <2>7. \A l \in Lookups :
          lookups[l] \in {"off", "running", "clean", "hit", "failed", "cancelled"}
    BY <2>4 DEF TypeOK
  <2>8. Candidates(page) \subseteq Lookups
    BY DEF Candidates
  <2>9. \A l \in Candidates(page) : lookups[l] \in {"clean", "failed"}
    BY <2>3, <2>5, <2>6, <2>7, <2>8
  <2> QED
    BY <2>2, <2>9
<1>2. IInv => NoLateMatch
  BY <1>1 DEF NoLateMatch
<1> QED
  BY <1>2, Invariance, PTL

-------------------------------------------------------------------------------
\* Every step of the pipeline is a step of the contract or changes nothing in it.
LEMMA StepImplements == IInv /\ [Next]_vars => [Contract!Next]_outcome
<1> SUFFICES ASSUME IInv, [Next]_vars, outcome' # outcome PROVE Contract!Next
  OBVIOUS
<1>1. Contract!Pending = Pending /\ Contract!Rejected = Rejected /\ Contract!Aborted = Aborted
  BY DEF Contract!Pending, Contract!Rejected, Contract!Aborted, Contract!Outcome,
         Contract!NoThreat, Contract!NoVerdict, Pending, Rejected, Aborted, Outcome,
         NoThreat, NoVerdict
<1>2. ~Ended => outcome = Pending
  BY DEF IInv, MainKnows
<1>3. ASSUME ~Ended, NEW c \in [score : 0..ContentCap, unavailable : BOOLEAN],
             Conclude(UsedThreat, UsedHeuristic, c)
      PROVE  Contract!Next
  BY <1>1, <1>2, <1>3, UsedTyped, ConcludeIsSound
  DEF IInv, Contract!Next, Contract!Publish, Contract!ReportUnavailable
<1>4. CASE Normalize
  BY <1>1, <1>2, <1>4 DEF Normalize, Contract!Next, Contract!Reject, Ended
<1>5. CASE AbortMain /\ ~Ended
  BY <1>1, <1>2, <1>5 DEF AbortMain, Contract!Next, Contract!Abort
<1>6. CASE OuterCancel
  BY <1>5, <1>6 DEF OuterCancel, Ended
<1>7. CASE ReputationReturns
  <2>1. NotFetched \in [score : 0..ContentCap, unavailable : BOOLEAN]
    BY WeightsAssumption DEF NotFetched
  <2> QED
    BY <1>3, <1>5, <1>7, <2>1 DEF ReputationReturns, Ended
<1>8. CASE ContentReturns
  BY <1>3, <1>8, InputsAssumption DEF ContentReturns, Ended
<1>9. CASE ContentFails
  <2>1. TimedOutContent \in [score : 0..ContentCap, unavailable : BOOLEAN]
    BY WeightsAssumption DEF TimedOutContent
  <2> QED
    BY <1>3, <1>9, <2>1 DEF ContentFails, Ended
<1> QED
  BY <1>4, <1>6, <1>7, <1>8, <1>9
  DEF Next, vars, UnchainReturns, UnchainFails, StartReputation, LookupReturns,
      ThreatReturns, HeuristicReturns, RepFirstCompleted, RepResumes, ReputationDeadline

\* The pipeline keeps the contract for every setting of weights and thresholds:
\* one sound outcome, decided once, whatever the races and cancellations.
THEOREM PipelineImplementsContract == Spec => ImplementsContract
<1>1. Init => Contract!Init
  BY DEF Init, Contract!Init, Contract!Pending, Contract!Outcome, Contract!NoThreat,
         Contract!NoVerdict, Pending, Outcome, NoThreat, NoVerdict
<1>2. ImplementsContract <=> Contract!Spec
  BY DEF ImplementsContract
<1> QED
  BY <1>1, <1>2, StepImplements, Invariance, PTL DEF Spec, Contract!Spec
-------------------------------------------------------------------------------
(* No analysis goes on for ever.                                             *)

\* 1 where a task is in a state, to be counted.
One(task, state) == IF task = state THEN 1 ELSE 0

\* What is left for main to do by itself; the tasks it starts are paid by the
\* step that starts them.
MainLeft ==
  IF main = "normalize" THEN 13 ELSE IF main = "unchain" THEN 12
  ELSE IF main = "reputation" THEN 2 ELSE IF main = "content" THEN 1 ELSE 0

\* rep waits once for the first task, then for at most one more.
RepLeft == IF rep = "first" THEN 2 ELSE IF rep \in {"heur", "threat", "reap"} THEN 1 ELSE 0

LookupsLeft == One(lookups[<<"gsb", "final">>], "running")
                 + One(lookups[<<"gsb", "original">>], "running")
                 + One(lookups[<<"urlhaus", "final">>], "running")
                 + One(lookups[<<"urlhaus", "original">>], "running")

Left == MainLeft + RepLeft + LookupsLeft
          + One(thr, "running") + One(heur, "running") + One(stop, "no")

\* A lookup that ends is one less.
LEMMA LookupCounts ==
  ASSUME TypeOK, NEW l \in Lookups, LookupReturns(l)
  PROVE  LookupsLeft \in Nat /\ LookupsLeft' = LookupsLeft - 1
<1>1. l \in {<<"gsb", "final">>, <<"gsb", "original">>, <<"urlhaus", "final">>,
             <<"urlhaus", "original">>}
  BY DEF Lookups
<1>2. /\ lookups[l] = "running" /\ lookups'[l] # "running"
      /\ \A k \in Lookups : k # l => lookups'[k] = lookups[k]
  BY DEF TypeOK, LookupReturns
<1> QED
  BY <1>1, <1>2 DEF LookupsLeft, One, Lookups

\* The tasks started are at most those the start pays for.
LEMMA StartCounts ==
  ASSUME TypeOK, TasksStarted, NEW p \in Pages, main = "unchain", StartReputation(p)
  PROVE  Left' < Left
<1>1. LookupsLeft \in Nat /\ LookupsLeft' \in 0..4
  BY DEF LookupsLeft, One
<1>2. MainLeft = 12 /\ MainLeft' = 2 /\ RepLeft = 0 /\ RepLeft' = 2
  BY DEF StartReputation, TasksStarted, MainLeft, RepLeft
<1>3. /\ One(thr, "running") = 0 /\ One(heur, "running") = 0
      /\ One(thr, "running")' = 1 /\ One(heur, "running")' = 1
      /\ One(stop, "no") \in Nat /\ One(stop, "no")' = One(stop, "no")
  BY DEF StartReputation, TasksStarted, One
<1> QED
  BY <1>1, <1>2, <1>3 DEF Left

\* Every step of an analysis takes one of those that were left.
LEMMA EveryStepCounts == IInv /\ Next => Left' < Left
<1> SUFFICES ASSUME IInv, Next PROVE Left' < Left
  OBVIOUS
<1>1. /\ MainLeft \in Nat /\ RepLeft \in Nat /\ LookupsLeft \in Nat
      /\ One(thr, "running") \in Nat /\ One(heur, "running") \in Nat
      /\ One(stop, "no") \in Nat
  BY DEF MainLeft, RepLeft, LookupsLeft, One
<1>2. UNCHANGED lookups => LookupsLeft' = LookupsLeft
  BY DEF LookupsLeft
<1>3. CASE Normalize
  BY <1>1, <1>2, <1>3 DEF Normalize, reputation, Left, MainLeft, RepLeft
<1>4. CASE UnchainReturns \/ UnchainFails
  <2>1. TimedOutPage \in Pages
    BY DEF TimedOutPage, Pages
  <2> QED
    BY <1>4, <2>1, StartCounts DEF UnchainReturns, UnchainFails, IInv
<1>5. ASSUME NEW l \in Lookups, LookupReturns(l) PROVE Left' < Left
  <2>1. LookupsLeft' = LookupsLeft - 1
    BY <1>5, LookupCounts DEF IInv
  <2> QED
    BY <1>1, <1>5, <2>1 DEF LookupReturns, Left, MainLeft, RepLeft
<1>6. CASE ThreatReturns
  BY <1>1, <1>2, <1>6 DEF ThreatReturns, Left, MainLeft, RepLeft, One
<1>7. CASE HeuristicReturns
  BY <1>1, <1>2, <1>7 DEF HeuristicReturns, Left, MainLeft, RepLeft, One
<1>8. CASE RepFirstCompleted
  <2>1. RepLeft = 2 /\ RepLeft' \in {0, 1}
    BY <1>8 DEF RepFirstCompleted, ReapHeuristic, HeuristicResult, RepAwaits, RepReturns,
                RepFails, RepLeft
  <2> QED
    BY <1>1, <1>2, <1>8, <2>1 DEF RepFirstCompleted, Left, MainLeft
<1>9. CASE RepResumes
  <2>1. RepLeft \in {1, 2} /\ RepLeft' = 0
    BY <1>9 DEF RepResumes, ThreatAfterHeuristic, ReapHeuristic, HeuristicResult, RepReturns,
                RepFails, RepLeft
  <2> QED
    BY <1>1, <1>2, <1>9, <2>1 DEF RepResumes, Left, MainLeft
<1>10. ASSUME stop = "no", stop' # "no",
              UNCHANGED <<outcome, main, page, rep, thr, heur, lookups, heurScore, result>>
       PROVE  Left' < Left
  BY <1>1, <1>2, <1>10 DEF Left, MainLeft, RepLeft, One
<1>11. ASSUME ~Ended, main # "normalize", main # "unchain", main' # main,
              main' \in {"content", "returned", "cancelled"},
              main' = "content" => main = "reputation",
              UNCHANGED <<stop, page, reputation>>
       PROVE  Left' < Left
  BY <1>1, <1>2, <1>11 DEF IInv, TypeOK, Ended, reputation, Left, MainLeft, RepLeft
<1>12. CASE OuterCancel /\ main = "unchain"
  BY <1>1, <1>2, <1>12 DEF OuterCancel, AbortMain, reputation, Left, MainLeft, RepLeft
<1>13. CASE ReputationDeadline \/ (OuterCancel /\ main # "unchain")
  BY <1>10, <1>11, <1>13 DEF ReputationDeadline, OuterCancel, AbortMain, Ended
<1>14. CASE ReputationReturns \/ ContentReturns \/ ContentFails
  BY <1>11, <1>14 DEF ReputationReturns, ContentReturns, ContentFails, Conclude, AbortMain, Ended
<1> QED
  BY <1>3, <1>4, <1>5, <1>6, <1>7, <1>8, <1>9, <1>12, <1>13, <1>14 DEF Next

\* An analysis, with the tasks it has started, takes at most 14 steps between
\* two awaits, whatever ends first and however it is cancelled: nothing in
\* run_pipeline polls, retries or waits for the same task twice.
THEOREM NoAnalysisIsEndless ==
  /\ Spec => [](Left \in 0..14)
  /\ Spec => [][Left' < Left]_vars
<1>1. Init => Left \in 0..14
  BY DEF Init, Left, MainLeft, RepLeft, LookupsLeft, One, Lookups
<1>2. IInv /\ [Next]_vars => [Left' < Left]_vars
  BY EveryStepCounts
<1>3. UNCHANGED vars => Left' = Left
  BY DEF vars, reputation, Left, MainLeft, RepLeft, LookupsLeft
<1>4. Left \in 0..14 /\ IInv /\ [Next]_vars => (Left \in 0..14)'
  <2> SUFFICES ASSUME Left \in 0..14, IInv, [Next]_vars PROVE Left' \in 0..14
    OBVIOUS
  <2>1. Left' \in Nat
    BY DEF Left, MainLeft, RepLeft, LookupsLeft, One
  <2>2. Left' <= Left
    <3>1. CASE Next
      BY <2>1, <3>1, EveryStepCounts
    <3>2. CASE UNCHANGED vars
      BY <1>3, <3>2
    <3> QED
      BY <3>1, <3>2
  <2> QED
    BY <2>1, <2>2
<1> QED
  BY <1>1, <1>2, <1>4, Invariance, PTL DEF Spec
===============================================================================
