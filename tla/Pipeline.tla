------------------------------- MODULE Pipeline -------------------------------
(***************************************************************************)
(* One analysis: run_pipeline and _run_stage_2_and_3 of                    *)
(* app/services/pipeline.py, check_threat_db of threat_db/check.py and the *)
(* stage deadlines of pipeline_deadline.py.                                *)
(*                                                                         *)
(* Tasks: the analysis itself ("main"), the reputation coroutine "rep"     *)
(* that wait_for runs in a task of its own (Python 3.11, the version of    *)
(* the Dockerfile and of CI), the threat task "thr" with the lookups it    *)
(* gathers, and the heuristic task "heur".  An action is one run of the    *)
(* event loop between two awaits; awaiting a finished task does not        *)
(* suspend.  A cancellation is requested first and seen by the task when   *)
(* it next runs; it goes to the task awaited, if that one still runs.      *)
(***************************************************************************)
EXTENDS Scoring

CONSTANTS
  HeuristicScores,  \* scores check_domain_heuristic returns
  ContentResults    \* what analyze_content returns: score, and whether
                    \* content_page_unavailable holds of it

ASSUME InputsAssumption ==
  /\ HeuristicScores \subseteq 0..HeuristicCap
  /\ ContentResults \subseteq [score : 0..ContentCap, unavailable : BOOLEAN]

VARIABLES
  outcome,    \* the result handed to the caller
  main,       \* where run_pipeline is
  stop,       \* why wait_for is ending rep early: "no", "deadline", "outer"
  page,       \* what unchaining found out
  rep,        \* where _run_stage_2_and_3 is
  repCancel,  \* CancelledError is to be thrown into rep
  thr, thrCancel, heur, heurCancel,
  lookups,    \* GSB and URLhaus lookup of the final and of the original URL
  heurScore,  \* the score heur returned
  result      \* what rep returns beside the threat: heuristic score, short_circuited

reputation == <<rep, repCancel, thr, thrCancel, heur, heurCancel, lookups, heurScore,
                result>>
vars == <<outcome, main, stop, page, reputation>>
-----------------------------------------------------------------------------
\* What the rest of the pipeline reads of an UnchainResult: whether final_url
\* differs from the URL asked for, whether a hop crossed origins, and whether
\* unchain_page_unavailable holds of it.  All eight come about: a chain can leave
\* the site and come back to the URL asked for, to end there as a loop or, if its
\* https variant was asked in its place, with any answer.
Pages == [moved : BOOLEAN, crossOrigin : BOOLEAN, unavailable : BOOLEAN]

\* timed_out_unchain_result: the URL itself, no hops, an error that is not
\* among those of an unavailable page.
TimedOutPage == [moved |-> FALSE, crossOrigin |-> FALSE, unavailable |-> FALSE]

Lookups == {"gsb", "urlhaus"} \X {"final", "original"}

\* _candidate_urls: the original URL is looked up too if it differs.
Candidates(p) == {l \in Lookups : l[2] = "final" \/ p.moved}

Matched(source) == \E l \in Lookups : l[1] = source /\ lookups[l] = "hit"

\* _merge_gsb and _merge_urlhaus: one match among the candidates decides; a
\* failed lookup counts as no match.
Threat == [gsb |-> Matched("gsb"), urlhaus |-> Matched("urlhaus")]

RepEnded == rep \in {"returned", "raised", "cancelled"}

\* _skipped_heuristic stands in for the heuristic of a known malicious URL.
Placeholder == [heuristic |-> 0, short |-> TRUE]
HeuristicKept == [heuristic |-> heurScore, short |-> FALSE]

Init ==
  /\ outcome = Pending
  /\ main = "normalize"
  /\ stop = "no"
  /\ page = TimedOutPage
  /\ rep = "off" /\ repCancel = FALSE
  /\ thr = "off" /\ thrCancel = FALSE
  /\ heur = "off" /\ heurCancel = FALSE
  /\ lookups = [l \in Lookups |-> "off"]
  /\ heurScore = 0
  /\ result = HeuristicKept
-----------------------------------------------------------------------------
\* Stage 1, without awaits: the URL is normalised or refused.
Normalize ==
  /\ main = "normalize"
  /\ \/ main' = "unchain" /\ UNCHANGED outcome
     \/ main' = "returned" /\ outcome' = Rejected
  /\ UNCHANGED <<stop, page, reputation>>

\* Both branches after unchaining run stages 2 and 3 under the reputation
\* deadline; rep creates the two tasks and waits for the first to complete.
StartReputation(p) ==
  /\ page' = p
  /\ main' = "reputation"
  /\ rep' = "first"
  /\ thr' = "running"
  /\ heur' = "running"
  /\ lookups' = [l \in Lookups |-> IF l \in Candidates(p) THEN "running" ELSE "off"]
  /\ UNCHANGED <<outcome, stop, repCancel, thrCancel, heurCancel, heurScore, result>>

UnchainReturns == main = "unchain" /\ \E p \in Pages : StartReputation(p)

\* PipelineStageTimeoutError and Exception have the same placeholder.
UnchainFails == main = "unchain" /\ StartReputation(TimedOutPage)
-----------------------------------------------------------------------------
\* One lookup of the gather ends: no match, a match, or a failure of any kind
\* (return_exceptions=True); cancelled if its task was.
LookupReturns(l) ==
  /\ lookups[l] = "running"
  /\ \E r \in IF thrCancel THEN {"cancelled"} ELSE {"clean", "hit", "failed"} :
       lookups' = [lookups EXCEPT ![l] = r]
  /\ UNCHANGED <<outcome, main, stop, page, rep, repCancel, thr, thrCancel, heur,
                 heurCancel, heurScore, result>>

\* gather waits for every lookup, the slow ones too.
ThreatReturns ==
  /\ thr = "running"
  /\ \A l \in Lookups : lookups[l] # "running"
  /\ thr' = IF thrCancel THEN "cancelled" ELSE "done"
  /\ UNCHANGED <<outcome, main, stop, page, rep, repCancel, thrCancel, heur, heurCancel,
                 lookups, heurScore, result>>

\* check_domain_heuristic returns, raises, or is cancelled: by rep, or by the
\* future of the RDAP request it shares with other analyses (RdapLookup).  A
\* wait_for whose lookup has just finished returns it in spite of a cancel.
HeuristicReturns ==
  /\ heur = "running"
  /\ \/ \E s \in HeuristicScores : heur' = "done" /\ heurScore' = s
     \/ heur' = "raised" /\ ~heurCancel /\ UNCHANGED heurScore
     \/ heur' = "cancelled" /\ UNCHANGED heurScore
  /\ UNCHANGED <<outcome, main, stop, page, rep, repCancel, thr, thrCancel, heurCancel,
                 lookups, result>>
-----------------------------------------------------------------------------
\* Mutant of RepFails: the heuristic is left alone.
RepFailsQuietly(how) ==
  /\ rep' = how
  /\ thrCancel' = (thrCancel \/ thr = "running")
  /\ UNCHANGED <<heurCancel, result>>

\* except BaseException: cancel what still runs, without awaiting it, re-raise.
RepFails(how) ==
  /\ rep' = how
  /\ thrCancel' = (thrCancel \/ thr = "running")
  /\ heurCancel' = (heurCancel \/ heur = "running")
  /\ UNCHANGED result

RepReturns(r) == rep' = "returned" /\ result' = r /\ UNCHANGED <<thrCancel, heurCancel>>
RepAwaits(task) == rep' = task /\ UNCHANGED <<thrCancel, heurCancel, result>>

\* heur.result(), or await heur_task on a task that has ended.
HeuristicResult(next) ==
  \/ heur = "done" /\ next
  \/ heur = "raised" /\ RepFails("raised")
  \/ heur = "cancelled" /\ RepFails("cancelled")

\* heur_task.cancel(); with suppress(CancelledError): await heur_task
ReapHeuristic ==
  \/ heur = "running" /\ rep' = "reap" /\ heurCancel' = TRUE /\ UNCHANGED <<thrCancel, result>>
  \/ heur = "raised" /\ RepFails("raised")
  \/ heur \in {"done", "cancelled"} /\ RepReturns(Placeholder)

\* Mutant of RepFirstCompleted: whichever task ends first decides alone.
FirstCompletedDecides ==
  /\ rep = "first"
  /\ ~repCancel
  /\ \/ thr = "done" /\ IsMalicious(Threat) /\ ReapHeuristic
     \/ /\ thr = "done" /\ ~IsMalicious(Threat)
        /\ IF heur = "running" THEN RepAwaits("heur")
           ELSE HeuristicResult(RepReturns(HeuristicKept))
     \/ thr = "running" /\ heur # "running" /\ HeuristicResult(RepReturns(HeuristicKept))
  /\ UNCHANGED <<outcome, main, stop, page, repCancel, thr, heur, lookups, heurScore>>

\* rep resumes from asyncio.wait; the threat task is looked at first.
RepFirstCompleted ==
  /\ rep = "first"
  /\ ~repCancel
  /\ \/ thr = "done" /\ IsMalicious(Threat) /\ ReapHeuristic
     \/ /\ thr = "done" /\ ~IsMalicious(Threat)
        /\ IF heur = "running" THEN RepAwaits("heur")
           ELSE HeuristicResult(RepReturns(HeuristicKept))
     \/ thr = "running" /\ heur # "running" /\ HeuristicResult(RepAwaits("threat"))
  /\ UNCHANGED <<outcome, main, stop, page, repCancel, thr, heur, lookups, heurScore>>

\* Mutant of ThreatAfterHeuristic: a late match keeps the finished heuristic.
LateThreatKeepsHeuristic ==
  IF repCancel \/ thr = "cancelled" THEN RepFails("cancelled")
  ELSE RepReturns([heuristic |-> heurScore, short |-> IsMalicious(Threat)])

\* The heuristic finished first and the threat task has now ended too.
ThreatAfterHeuristic ==
  IF repCancel \/ thr = "cancelled" THEN RepFails("cancelled")
  ELSE RepReturns(IF IsMalicious(Threat) THEN Placeholder ELSE HeuristicKept)

\* rep resumes from await heur_task, await threat_task or the reaping; the
\* latter alone suppresses a CancelledError.
RepResumes ==
  /\ \/ /\ rep = "heur" /\ heur # "running"
        /\ IF repCancel THEN RepFails("cancelled")
           ELSE HeuristicResult(RepReturns(HeuristicKept))
     \/ rep = "threat" /\ thr # "running" /\ ThreatAfterHeuristic
     \/ /\ rep = "reap" /\ heur # "running"
        /\ IF repCancel THEN RepReturns(Placeholder) ELSE ReapHeuristic
     \/ /\ rep = "first" /\ repCancel
        /\ RepFails("cancelled")
  /\ UNCHANGED <<outcome, main, stop, page, repCancel, thr, heur, lookups, heurScore>>

\* Mutant of CancelRep: the awaited task is shielded from the cancellation.
CancelRepShielded ==
  /\ repCancel' = TRUE
  /\ UNCHANGED <<thrCancel, heurCancel>>

\* Task.cancel() on rep: forwarded to the task it awaits while that one runs.
CancelRep ==
  LET toHeur == rep \in {"heur", "reap"} /\ heur = "running"
      toThr  == rep = "threat" /\ thr = "running"
  IN /\ heurCancel' = (heurCancel \/ toHeur)
     /\ thrCancel' = (thrCancel \/ toThr)
     /\ repCancel' = ~(toHeur \/ toThr)
-----------------------------------------------------------------------------
\* The timer of deadline.run: wait_for cancels rep and waits until it ended.
ReputationDeadline ==
  /\ main = "reputation" /\ ~RepEnded /\ stop = "no"
  /\ stop' = "deadline"
  /\ CancelRep
  /\ UNCHANGED <<outcome, main, page, rep, thr, heur, lookups, heurScore, result>>

AbortMain == main' = "cancelled" /\ outcome' = Aborted

\* The analysis is cancelled from outside (shutdown).  wait_for forwards it to
\* rep and waits, unless it is already waiting for a rep it has cancelled; once
\* rep has ended, wait_for returns its result and the cancellation is lost.
OuterCancel ==
  \/ /\ main = "reputation" /\ ~RepEnded /\ stop = "no"
     /\ stop' = "outer"
     /\ CancelRep
     /\ UNCHANGED <<outcome, main, page, rep, thr, heur, lookups, heurScore, result>>
  \/ /\ \/ main \in {"unchain", "content"}
        \/ main = "reputation" /\ ~RepEnded /\ stop = "deadline"
     /\ AbortMain
     /\ UNCHANGED <<stop, page, reputation>>

\* The tail shared by all exits with results: total score, verdict, or the
\* failure of an unavailable page that nothing else incriminates.
Conclusion(p, threat, heuristic, content) ==
  LET unavailable == p.unavailable \/ content.unavailable
      score == TotalScore(threat, AugmentHeuristic(heuristic, p.crossOrigin), content.score)
  IN IF unavailable /\ ~RiskyUnseen(score, threat)
     THEN Unavailable(score)
     ELSE Published(threat, score, ~unavailable)

Conclude(threat, heuristic, content) ==
  main' = "returned" /\ outcome' = Conclusion(page, threat, heuristic, content)

\* What main makes of rep: its results, or the placeholders without a match
\* and with score 0 after the deadline or an exception.
UsedThreat == IF rep = "returned" THEN Threat ELSE NoThreat
UsedHeuristic == IF rep = "returned" THEN result.heuristic ELSE 0

\* _page_unavailable_content and skipped_already_danger: nothing is fetched.
NotFetched == [score |-> 0, unavailable |-> FALSE]

\* Mutant of ReputationReturns: an unavailable page is decided without the
\* databases.
UnavailableWithoutThreat ==
  /\ main = "reputation" /\ RepEnded
  /\ IF stop = "outer" \/ (rep = "cancelled" /\ stop = "no")
     THEN AbortMain
     ELSE IF page.unavailable
          THEN Conclude(NoThreat, UsedHeuristic, NotFetched)
          ELSE main' = "content" /\ UNCHANGED outcome
  /\ UNCHANGED <<stop, page, reputation>>

ReputationReturns ==
  /\ main = "reputation" /\ RepEnded
  /\ IF stop = "outer" \/ (rep = "cancelled" /\ stop = "no")
     THEN AbortMain
     ELSE IF page.unavailable \/ (rep = "returned" /\ result.short) \/ IsMalicious(UsedThreat)
          THEN Conclude(UsedThreat, UsedHeuristic, NotFetched)
          ELSE main' = "content" /\ UNCHANGED outcome
  /\ UNCHANGED <<stop, page, reputation>>

\* timed_out_content_result, for the deadline and for an exception.
TimedOutContent == [score |-> FetchFailedScore, unavailable |-> FALSE]

ContentReturns ==
  /\ main = "content"
  /\ \E c \in ContentResults : Conclude(UsedThreat, UsedHeuristic, c)
  /\ UNCHANGED <<stop, page, reputation>>

ContentFails ==
  /\ main = "content"
  /\ Conclude(UsedThreat, UsedHeuristic, TimedOutContent)
  /\ UNCHANGED <<stop, page, reputation>>
-----------------------------------------------------------------------------
Next ==
  \/ Normalize \/ UnchainReturns \/ UnchainFails
  \/ \E l \in Lookups : LookupReturns(l)
  \/ ThreatReturns \/ HeuristicReturns
  \/ RepFirstCompleted \/ RepResumes
  \/ ReputationDeadline \/ OuterCancel
  \/ ReputationReturns \/ ContentReturns \/ ContentFails

\* The loop runs what is ready, the deadlines of the stages expire (UnchainFails,
\* ReputationDeadline, ContentFails) and a cancelled task ends.  No lookup and
\* no heuristic has to answer by itself.
CancelledTaskEnds ==
  \/ thrCancel /\ \E l \in Lookups : LookupReturns(l)
  \/ heurCancel /\ HeuristicReturns

Fairness ==
  /\ WF_vars(Normalize) /\ WF_vars(UnchainFails) /\ WF_vars(ContentFails)
  /\ WF_vars(ReputationDeadline) /\ WF_vars(ReputationReturns)
  /\ WF_vars(RepFirstCompleted) /\ WF_vars(RepResumes)
  /\ WF_vars(ThreatReturns) /\ WF_vars(CancelledTaskEnds)

Spec == Init /\ [][Next]_vars
FairSpec == Spec /\ Fairness
-----------------------------------------------------------------------------
\* The type invariant.
TypeOK ==
  /\ outcome \in Outcomes
  /\ main \in {"normalize", "unchain", "reputation", "content", "returned", "cancelled"}
  /\ stop \in {"no", "deadline", "outer"}
  /\ page \in Pages
  /\ rep \in {"off", "first", "heur", "threat", "reap", "returned", "raised", "cancelled"}
  /\ thr \in {"off", "running", "done", "cancelled"}
  /\ heur \in {"off", "running", "done", "raised", "cancelled"}
  /\ repCancel \in BOOLEAN /\ thrCancel \in BOOLEAN /\ heurCancel \in BOOLEAN
  /\ lookups \in [Lookups -> {"off", "running", "clean", "hit", "failed", "cancelled"}]
  /\ heurScore \in 0..HeuristicCap
  /\ result \in [heuristic : 0..HeuristicCap, short : BOOLEAN]

Ended == main \in {"returned", "cancelled"}

\* The abstract specification: one sound outcome, decided once.
Contract == INSTANCE AnalysisContract WITH outcome <- outcome
ImplementsContract == Contract!Spec

\* The outcomes of an analysis that runs its stages one after the other, given
\* what the databases and the heuristic came to: a match makes the heuristic
\* count for nothing and spares the fetch, as an unavailable page does.
Sequential(p, threat, score) ==
  IF IsMalicious(threat) THEN {Conclusion(p, threat, 0, NotFetched)}
  ELSE IF p.unavailable THEN {Conclusion(p, threat, score, NotFetched)}
  ELSE {Conclusion(p, threat, score, c) : c \in ContentResults \cup {TimedOutContent}}

\* Running stages 2 and 3 side by side, with one task reaped when the other has
\* decided, under a deadline, cannot be told from the outcome: it is that of
\* the stages in sequence, with the finished lookups and score; or, only after
\* the deadline or an exception of the heuristic, with neither (pipeline.py:334-397).
AsIfSequential ==
  main = "returned" /\ outcome # Rejected =>
    \/ /\ thr = "done"
       /\ IsMalicious(Threat) \/ heur = "done"
       /\ outcome \in Sequential(page, Threat, heurScore)
    \/ /\ stop = "deadline" \/ heur = "raised"
       /\ outcome \in Sequential(page, NoThreat, 0)

\* Whichever of the two tasks finishes first, and whatever the heuristic came
\* to, rep returns the placeholder exactly when there is a match, so the score
\* and the skipped content analysis do not depend on the race (pipeline.py:369-372).
RaceFree ==
  rep = "returned" => result = IF IsMalicious(Threat) THEN Placeholder ELSE HeuristicKept

\* When rep has ended no task of its own runs on unnoticed: each has ended or
\* has been told to (pipeline.py:392-397).
NoTaskForgotten ==
  RepEnded => /\ thr = "running" => thrCancel
              /\ heur = "running" => heurCancel

\* No match comes too late: when the page is fetched, every lookup that was asked
\* has ended without one and the heuristic is done, although the two tasks end in
\* any order.  Only the deadline or an exception of the heuristic, which throw the
\* whole stage away, let a fetch go ahead of a database (pipeline.py:363-391 and
\* 533-599).
NoLateMatch ==
  main = "content" =>
    \/ heur = "done" /\ \A l \in Candidates(page) : lookups[l] \in {"clean", "failed"}
    \/ stop = "deadline" \/ heur = "raised"

\* Every analysis ends, whatever the network does: the deadlines expire and the
\* cancellations they request unwind both tasks.
AnalysisEnds == <>Ended

\* check.py:68: a source that fails leaves the decision to the other one.  The
\* gather under the reputation deadline breaks it: URLhaus has answered with a
\* match, GSB is slow, and the match is dropped with the deadline.
LocalMatchDecides ==
  main = "returned" /\ heur # "raised" /\ Matched("urlhaus")
    => outcome.verdict = "DANGER"

\* check.py:68: when both databases fail to answer, the layer above treats the
\* URL conservatively.  It does not look at sources_checked, and SAFE is possible.
UncheckedIsNotSafe ==
  main = "returned" /\ (\A l \in Lookups : lookups[l] \in {"off", "failed"})
    => outcome.verdict # "SAFE"
=============================================================================
