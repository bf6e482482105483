------------------------------- MODULE Delivery -------------------------------
(***************************************************************************)
(* From the accepted request to the callback: POST /analyze answers 202    *)
(* and leaves the analysis to a background task (_run_pipeline_task of     *)
(* api/v1/endpoints/analyze.py), which runs the pipeline and posts the     *)
(* outcome to Spring with up to _MAX_ATTEMPTS attempts                     *)
(* (post_analysis_callback of services/analysis_callback.py).  Jobs live   *)
(* in memory only.                                                         *)
(*                                                                         *)
(* Spring and the network are the environment: a post can be lost, be      *)
(* processed after the attempt that sent it has timed out, or be processed *)
(* while its answer is lost.                                               *)
(***************************************************************************)
EXTENDS Naturals, FiniteSets

CONSTANTS
  Jobs,         \* accepted analyses
  Results,      \* what run_pipeline returns: PipelineSuccess or PipelineFailure
  NoResult,
  MaxAttempts,  \* _MAX_ATTEMPTS
  MaxCrashes    \* bound on the crashes of the service

ASSUME DeliveryAssumption ==
  /\ MaxAttempts \in Nat \ {0}
  /\ MaxCrashes \in Nat
  /\ NoResult \notin Results

VARIABLES
  job,      \* the background task of each job
  result,   \* what its pipeline returned
  attempt,  \* the number of the current attempt
  answer,   \* Spring's answer to it, on its way: "none", "accepted", "refused"
  posts,    \* posts on their way to Spring
  received, \* posts Spring has accepted
  crashes

vars == <<job, result, attempt, answer, posts, received, crashes>>
-----------------------------------------------------------------------------
Posts == [job : Jobs, attempt : 1..MaxAttempts, result : Results]

Active == {j \in Jobs : job[j] \in {"running", "posting", "backoff"}}

Init ==
  /\ job = [j \in Jobs |-> "new"]
  /\ result = [j \in Jobs |-> NoResult]
  /\ attempt = [j \in Jobs |-> 0]
  /\ answer = [j \in Jobs |-> "none"]
  /\ posts = {}
  /\ received = {}
  /\ crashes = 0
-----------------------------------------------------------------------------
\* 202 Accepted; the background task starts after the response.
Accept(j) ==
  /\ job[j] = "new"
  /\ job' = [job EXCEPT ![j] = "running"]
  /\ UNCHANGED <<result, attempt, answer, posts, received, crashes>>

\* One turn of the attempt loop: the payload was built once, before the loop.
Post(j, n, r) ==
  /\ job' = [job EXCEPT ![j] = "posting"]
  /\ attempt' = [attempt EXCEPT ![j] = n]
  /\ posts' = posts \cup {[job |-> j, attempt |-> n, result |-> r]}
  /\ answer' = [answer EXCEPT ![j] = "none"]

\* run_pipeline returned a result; session closed, first attempt.
PipelineReturns(j) ==
  /\ job[j] = "running"
  /\ \E r \in Results : /\ result' = [result EXCEPT ![j] = r]
                        /\ Post(j, 1, r)
  /\ UNCHANGED <<received, crashes>>

\* The task dies of an exception nothing catches: run_pipeline re-raises
\* CancelledError, and any step of the task can be cancelled at shutdown.
TaskDies(j) ==
  /\ j \in Active
  /\ job' = [job EXCEPT ![j] = "lost"]
  /\ UNCHANGED <<result, attempt, answer, posts, received, crashes>>

\* Sleep before the next attempt, or give the payload to the log.
AttemptFails(j) ==
  job' = [job EXCEPT ![j] = IF attempt[j] < MaxAttempts THEN "backoff" ELSE "dead_letter"]

\* Mutant of AnswerArrives: any response counts as delivered.
AnyAnswerDelivers(j) ==
  /\ job[j] = "posting" /\ answer[j] # "none"
  /\ job' = [job EXCEPT ![j] = "delivered"]
  /\ UNCHANGED <<result, attempt, answer, posts, received, crashes>>

AnswerArrives(j) ==
  /\ job[j] = "posting"
  /\ \/ answer[j] = "accepted" /\ job' = [job EXCEPT ![j] = "delivered"]
     \/ answer[j] = "refused" /\ AttemptFails(j)
  /\ UNCHANGED <<result, attempt, answer, posts, received, crashes>>

\* httpx.HTTPError: no connection, no answer within 10 s, connection lost.
AttemptErrors(j) ==
  /\ job[j] = "posting"
  /\ AttemptFails(j)
  /\ UNCHANGED <<result, attempt, answer, posts, received, crashes>>

\* Mutant of Retry: the attempt counter is not advanced.
RetryForever(j) ==
  /\ job[j] = "backoff"
  /\ Post(j, attempt[j], result[j])
  /\ UNCHANGED <<result, received, crashes>>

\* Mutant of Retry: the loop has no return after a 2xx answer.
KeepPosting(j) ==
  /\ job[j] \in {"backoff", "delivered"} /\ attempt[j] < MaxAttempts
  /\ Post(j, attempt[j] + 1, result[j])
  /\ UNCHANGED <<result, received, crashes>>

\* Mutant of Retry: the analysis is run again for the new attempt.
RetryAnew(j) ==
  /\ job[j] = "backoff"
  /\ \E r \in Results : Post(j, attempt[j] + 1, r)
  /\ UNCHANGED <<result, received, crashes>>

Retry(j) ==
  /\ job[j] = "backoff"
  /\ Post(j, attempt[j] + 1, result[j])
  /\ UNCHANGED <<result, received, crashes>>
-----------------------------------------------------------------------------
\* Spring answers; only the client of the current attempt still listens.
Answer(p, a) ==
  answer' = IF job[p.job] = "posting" /\ attempt[p.job] = p.attempt
            THEN [answer EXCEPT ![p.job] = a] ELSE answer

SpringAccepts(p) ==
  /\ p \in posts
  /\ posts' = posts \ {p}
  /\ received' = received \cup {p}
  /\ Answer(p, "accepted")
  /\ UNCHANGED <<job, result, attempt, crashes>>

\* A status outside 200..299.
SpringRefuses(p) ==
  /\ p \in posts
  /\ posts' = posts \ {p}
  /\ Answer(p, "refused")
  /\ UNCHANGED <<job, result, attempt, received, crashes>>

PostIsLost(p) ==
  /\ p \in posts
  /\ posts' = posts \ {p}
  /\ UNCHANGED <<job, result, attempt, answer, received, crashes>>

\* The process dies: background tasks are gone and nothing restarts them.
Crash ==
  /\ crashes < MaxCrashes
  /\ crashes' = crashes + 1
  /\ job' = [j \in Jobs |-> IF j \in Active THEN "lost" ELSE job[j]]
  /\ UNCHANGED <<result, attempt, answer, posts, received>>
-----------------------------------------------------------------------------
Next ==
  \/ \E j \in Jobs :
       \/ Accept(j) \/ PipelineReturns(j) \/ TaskDies(j)
       \/ AnswerArrives(j) \/ AttemptErrors(j) \/ Retry(j)
  \/ \E p \in posts : SpringAccepts(p) \/ SpringRefuses(p) \/ PostIsLost(p)
  \/ Crash

\* Every analysis ends (AnalysisEnds of Pipeline), every attempt times out at
\* the latest, and the sleep between two attempts is over at some time.
Fairness ==
  \A j \in Jobs : /\ WF_vars(PipelineReturns(j))
                  /\ WF_vars(AttemptErrors(j))
                  /\ WF_vars(Retry(j))

Spec == Init /\ [][Next]_vars
FairSpec == Spec /\ Fairness
-----------------------------------------------------------------------------
\* The type invariant.
TypeOK ==
  /\ job \in [Jobs -> {"new", "running", "posting", "backoff", "delivered",
                       "dead_letter", "lost"}]
  /\ result \in [Jobs -> Results \cup {NoResult}]
  /\ attempt \in [Jobs -> 0..MaxAttempts]
  /\ answer \in [Jobs -> {"none", "accepted", "refused"}]
  /\ posts \subseteq Posts
  /\ received \subseteq Posts
  /\ crashes \in 0..MaxCrashes

\* "delivered" is never said in vain: Spring has accepted the post of the very
\* attempt the service counts as delivered (analysis_callback.py:385-391).
DeliveredWasReceived ==
  \A j \in Jobs : job[j] = "delivered"
    => [job |-> j, attempt |-> attempt[j], result |-> result[j]] \in received

\* However answers are lost, posts come late and attempts repeat, what Spring and
\* the service believe of a job is that of the contract: one result, known before
\* it counts as delivered, and one end (analysis_callback.py:377-409).
Contract == INSTANCE CallbackContract
  WITH fate <- [j \in Jobs |-> IF j \in Active THEN "active" ELSE job[j]],
       known <- [j \in Jobs |-> {p.result : p \in {q \in received : q.job = j}}]
ImplementsCallbackContract == Contract!Spec

\* No attempt follows a success: once the acceptance was read, no new post of
\* the job is sent.
SilentAfterDelivery ==
  [][\A j \in Jobs : job[j] \in {"delivered", "dead_letter", "lost"}
       => {p \in posts' : p.job = j} \subseteq {p \in posts : p.job = j}]_vars

\* Every accepted analysis is settled: delivered, dead-lettered, or lost with
\* its task.
JobSettles ==
  \A j \in Jobs : (job[j] = "running") ~> (job[j] \in {"delivered", "dead_letter", "lost"})
=============================================================================
