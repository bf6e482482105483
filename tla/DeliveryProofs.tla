---------------------------- MODULE DeliveryProofs ----------------------------
(***************************************************************************)
(* Safety of Delivery for any number of jobs, attempts and crashes.  The   *)
(* inductive invariant adds to the properties that no post runs ahead of   *)
(* its job (PostsAreOwn): every post carries the result its job stored and *)
(* the number of an attempt the job has made; and that an acceptance on    *)
(* its way was preceded by the post it answers (AnswersAreTrue).           *)
(***************************************************************************)
EXTENDS Service, TLAPS

Sent == received \cup posts

PostsAreOwn ==
  \A p \in Sent : /\ p.result = result[p.job]
                  /\ p.attempt <= attempt[p.job]
                  /\ job[p.job] \notin {"new", "running"}

AnswersAreTrue ==
  \A j \in Jobs : answer[j] = "accepted" /\ job[j] = "posting"
    => [job |-> j, attempt |-> attempt[j], result |-> result[j]] \in received

\* A job that posts has a result, and its attempts are counted from 1; a job
\* that sleeps has an attempt left.
Attempting ==
  \A j \in Jobs : /\ job[j] \in {"posting", "backoff"} => result[j] \in Results
                  /\ job[j] = "backoff" => attempt[j] < MaxAttempts

IInv ==
  /\ TypeOK /\ PostsAreOwn /\ AnswersAreTrue /\ Attempting /\ DeliveredWasReceived
-----------------------------------------------------------------------------
\* The initial states have the invariant.
LEMMA InitIInv == Init => IInv
BY DeliveryAssumption
DEF Init, IInv, TypeOK, Sent, PostsAreOwn, AnswersAreTrue, Attempting, DeliveredWasReceived

\* A request is accepted.
LEMMA AcceptKeeps ==
  ASSUME IInv, NEW j \in Jobs, Accept(j)
  PROVE  IInv'
<1> USE DEF IInv, Accept
<1>1. TypeOK'
  BY DEF TypeOK
<1>2. PostsAreOwn'
  BY DEF PostsAreOwn, Sent
<1>3. AnswersAreTrue'
  BY DEF AnswersAreTrue
<1>4. Attempting'
  BY DEF Attempting
<1>5. DeliveredWasReceived'
  BY DEF DeliveredWasReceived
<1> QED BY <1>1, <1>2, <1>3, <1>4, <1>5

\* The first attempt; no post of the job exists yet.
LEMMA PipelineReturnsKeeps ==
  ASSUME IInv, NEW j \in Jobs, PipelineReturns(j)
  PROVE  IInv'
<1> USE DEF IInv, PipelineReturns, Post
<1>1. TypeOK'
  BY DeliveryAssumption DEF TypeOK, Posts
<1>2. PostsAreOwn'
  BY DEF TypeOK, PostsAreOwn, Sent
<1>3. AnswersAreTrue'
  BY DEF TypeOK, AnswersAreTrue
<1>4. Attempting'
  BY DEF TypeOK, Attempting
<1>5. DeliveredWasReceived'
  BY DEF DeliveredWasReceived
<1> QED BY <1>1, <1>2, <1>3, <1>4, <1>5

\* The task of a job dies.
LEMMA TaskDiesKeeps ==
  ASSUME IInv, NEW j \in Jobs, TaskDies(j)
  PROVE  IInv'
<1> USE DEF IInv, TaskDies
<1>1. TypeOK'
  BY DEF TypeOK
<1>2. PostsAreOwn'
  BY DEF PostsAreOwn, Sent
<1>3. AnswersAreTrue'
  BY DEF AnswersAreTrue
<1>4. Attempting'
  BY DEF Attempting
<1>5. DeliveredWasReceived'
  BY DEF DeliveredWasReceived
<1> QED BY <1>1, <1>2, <1>3, <1>4, <1>5

\* The client reads the answer to its attempt.
LEMMA AnswerArrivesKeeps ==
  ASSUME IInv, NEW j \in Jobs, AnswerArrives(j)
  PROVE  IInv'
<1> USE DEF IInv, AnswerArrives, AttemptFails
<1>1. TypeOK'
  BY DEF TypeOK
<1>2. PostsAreOwn'
  BY DEF TypeOK, PostsAreOwn, Sent, Posts
<1>3. AnswersAreTrue'
  BY DEF TypeOK, AnswersAreTrue
<1>4. Attempting'
  BY DEF TypeOK, Attempting
<1>5. DeliveredWasReceived'
  BY DEF TypeOK, DeliveredWasReceived, AnswersAreTrue
<1> QED BY <1>1, <1>2, <1>3, <1>4, <1>5

\* An attempt gets no answer.
LEMMA AttemptErrorsKeeps ==
  ASSUME IInv, NEW j \in Jobs, AttemptErrors(j)
  PROVE  IInv'
<1> USE DEF IInv, AttemptErrors, AttemptFails
<1>1. TypeOK'
  BY DEF TypeOK
<1>2. PostsAreOwn'
  BY DEF PostsAreOwn, Sent
<1>3. AnswersAreTrue'
  BY DEF AnswersAreTrue
<1>4. Attempting'
  BY DEF Attempting
<1>5. DeliveredWasReceived'
  BY DEF DeliveredWasReceived
<1> QED BY <1>1, <1>2, <1>3, <1>4, <1>5

\* The next attempt repeats the payload.
LEMMA RetryKeeps ==
  ASSUME IInv, NEW j \in Jobs, Retry(j)
  PROVE  IInv'
<1> USE DEF IInv, Retry, Post
<1>1. TypeOK'
  BY DeliveryAssumption DEF TypeOK, Posts, Attempting
<1>2. PostsAreOwn'
  BY DEF TypeOK, PostsAreOwn, Sent, Posts
<1>3. AnswersAreTrue'
  BY DEF TypeOK, AnswersAreTrue
<1>4. Attempting'
  BY DEF TypeOK, Attempting
<1>5. DeliveredWasReceived'
  BY DEF DeliveredWasReceived
<1> QED BY <1>1, <1>2, <1>3, <1>4, <1>5

\* Spring accepts a post; if it is the current one, its client hears of it.
LEMMA SpringAcceptsKeeps ==
  ASSUME IInv, NEW p \in posts, SpringAccepts(p)
  PROVE  IInv'
<1> USE DEF IInv, SpringAccepts, Answer
<1>1. TypeOK'
  BY DEF TypeOK
<1>2. PostsAreOwn'
  BY DEF PostsAreOwn, Sent
<1>3. AnswersAreTrue'
  BY DEF TypeOK, AnswersAreTrue, PostsAreOwn, Sent, Posts
<1>4. Attempting'
  BY DEF Attempting
<1>5. DeliveredWasReceived'
  BY DEF DeliveredWasReceived
<1> QED BY <1>1, <1>2, <1>3, <1>4, <1>5

\* Spring refuses a post.
LEMMA SpringRefusesKeeps ==
  ASSUME IInv, NEW p \in posts, SpringRefuses(p)
  PROVE  IInv'
<1> USE DEF IInv, SpringRefuses, Answer
<1>1. TypeOK'
  BY DEF TypeOK
<1>2. PostsAreOwn'
  BY DEF PostsAreOwn, Sent
<1>3. AnswersAreTrue'
  BY DEF AnswersAreTrue
<1>4. Attempting'
  BY DEF Attempting
<1>5. DeliveredWasReceived'
  BY DEF DeliveredWasReceived
<1> QED BY <1>1, <1>2, <1>3, <1>4, <1>5

\* A post is lost.
LEMMA PostIsLostKeeps ==
  ASSUME IInv, NEW p \in posts, PostIsLost(p)
  PROVE  IInv'
<1> USE DEF IInv, PostIsLost
<1>1. TypeOK'
  BY DEF TypeOK
<1>2. PostsAreOwn'
  BY DEF PostsAreOwn, Sent
<1>3. AnswersAreTrue'
  BY DEF AnswersAreTrue
<1>4. Attempting'
  BY DEF Attempting
<1>5. DeliveredWasReceived'
  BY DEF DeliveredWasReceived
<1> QED BY <1>1, <1>2, <1>3, <1>4, <1>5

\* The service dies.
LEMMA CrashKeeps ==
  ASSUME IInv, Crash
  PROVE  IInv'
<1> USE DEF IInv, Crash
<1>1. TypeOK'
  BY DeliveryAssumption DEF TypeOK
<1>2. PostsAreOwn'
  BY DEF TypeOK, PostsAreOwn, Sent, Posts
<1>3. AnswersAreTrue'
  BY DEF AnswersAreTrue
<1>4. Attempting'
  BY DEF Attempting
<1>5. DeliveredWasReceived'
  BY DEF DeliveredWasReceived
<1> QED BY <1>1, <1>2, <1>3, <1>4, <1>5

\* Nothing happens.
LEMMA StutterKeeps ==
  ASSUME IInv, UNCHANGED vars
  PROVE  IInv'
<1> USE DEF IInv, vars
<1>1. TypeOK'
  BY DEF TypeOK
<1>2. PostsAreOwn'
  BY DEF PostsAreOwn, Sent
<1>3. AnswersAreTrue'
  BY DEF AnswersAreTrue
<1>4. Attempting'
  BY DEF Attempting
<1>5. DeliveredWasReceived'
  BY DEF DeliveredWasReceived
<1> QED BY <1>1, <1>2, <1>3, <1>4, <1>5

-----------------------------------------------------------------------------
\* One step, whichever it is, keeps the invariant.
LEMMA NextKeepsIInv == IInv /\ [Next]_vars => IInv'
<1> SUFFICES ASSUME IInv, [Next]_vars PROVE IInv'
  OBVIOUS
<1>1. ASSUME NEW j \in Jobs,
             Accept(j) \/ PipelineReturns(j) \/ TaskDies(j) PROVE IInv'
  BY <1>1, AcceptKeeps, PipelineReturnsKeeps, TaskDiesKeeps
<1>2. ASSUME NEW j \in Jobs,
             AnswerArrives(j) \/ AttemptErrors(j) \/ Retry(j) PROVE IInv'
  BY <1>2, AnswerArrivesKeeps, AttemptErrorsKeeps, RetryKeeps
<1>3. ASSUME NEW p \in posts,
             SpringAccepts(p) \/ SpringRefuses(p) \/ PostIsLost(p) PROVE IInv'
  BY <1>3, SpringAcceptsKeeps, SpringRefusesKeeps, PostIsLostKeeps
<1>4. CASE Crash
  BY <1>4, CrashKeeps
<1>5. CASE UNCHANGED vars
  BY <1>5, StutterKeeps
<1> QED
  BY <1>1, <1>2, <1>3, <1>4, <1>5 DEF Next

\* The inductive invariant holds in every reachable state.
THEOREM Invariance == Spec => []IInv
BY InitIInv, NextKeepsIInv, PTL DEF Spec

\* Type correctness; in particular no job makes more than MaxAttempts attempts.
THEOREM TypeCorrect == Spec => []TypeOK
<1>1. IInv => TypeOK
  BY DEF IInv
<1> QED
  BY <1>1, Invariance, PTL

\* The service counts an analysis as delivered only if Spring accepted it.
THEOREM DeliveredIsReceived == Spec => []DeliveredWasReceived
<1>1. IInv => DeliveredWasReceived
  BY DEF IInv
<1> QED
  BY <1>1, Invariance, PTL

\* However answers are lost and posts come late, Spring never sees two results
\* of one job: the retries repeat the first payload.
NoConflictingCallbacks ==
  \A p, q \in received \cup posts : p.job = q.job => p.result = q.result

\* Duplicates and late posts never contradict each other: whatever Spring sees
\* of one job carries one result.
THEOREM CallbacksAgree == Spec => []NoConflictingCallbacks
<1>1. IInv => NoConflictingCallbacks
  BY DEF IInv, PostsAreOwn, Sent, NoConflictingCallbacks
<1> QED
  BY <1>1, Invariance, PTL

\* Nothing is posted of a job that is delivered, dead-lettered or lost.
THEOREM NoPostAfterTheEnd == Spec => SilentAfterDelivery
<1> DEFINE Quiet == \A j \in Jobs : job[j] \in {"delivered", "dead_letter", "lost"}
                      => {p \in posts' : p.job = j} \subseteq {p \in posts : p.job = j}
<1>1. IInv /\ [Next]_vars => [Quiet]_vars
  <2> SUFFICES ASSUME IInv, Next, NEW j \in Jobs,
                      job[j] \in {"delivered", "dead_letter", "lost"},
                      NEW p \in posts', p.job = j
               PROVE  p \in posts
    OBVIOUS
  <2>1. ASSUME NEW i \in Jobs, PipelineReturns(i) \/ Retry(i) PROVE p \in posts
    BY <2>1 DEF PipelineReturns, Retry, Post
  <2> QED
    BY <2>1
    DEF Next, Accept, TaskDies, AnswerArrives, AttemptErrors, SpringAccepts,
        SpringRefuses, PostIsLost, Crash
<1>2. SilentAfterDelivery <=> [][Quiet]_vars
  BY DEF SilentAfterDelivery
<1> QED
  BY <1>1, <1>2, Invariance, PTL DEF Spec
-----------------------------------------------------------------------------
(* No job is tried for ever.                                               *)

\* The steps the task of a job has left: to run the pipeline, then to post and
\* to sleep once for each attempt.
Left(j) ==
  IF job[j] = "new" THEN 2 * MaxAttempts + 2
  ELSE IF job[j] = "running" THEN 2 * MaxAttempts + 1
  ELSE IF job[j] = "posting" THEN 2 * (MaxAttempts - attempt[j]) + 2
  ELSE IF job[j] = "backoff" THEN 2 * (MaxAttempts - attempt[j]) + 1
  ELSE 0

\* What the attempts of a job come to never exceeds what it had left.
LEMMA TaskStepCounts ==
  ASSUME IInv, NEW j \in Jobs,
         \/ Accept(j) \/ PipelineReturns(j) \/ TaskDies(j)
         \/ AnswerArrives(j) \/ AttemptErrors(j) \/ Retry(j)
  PROVE  Left(j)' < Left(j)
<1>1. attempt[j] \in 0..MaxAttempts /\ MaxAttempts \in Nat /\ MaxAttempts >= 1
  BY DeliveryAssumption DEF IInv, TypeOK
<1>2. CASE Accept(j) \/ PipelineReturns(j)
  BY <1>1, <1>2 DEF IInv, TypeOK, Accept, PipelineReturns, Post, Left
<1>3. CASE TaskDies(j)
  BY <1>1, <1>3 DEF IInv, TypeOK, TaskDies, Active, Left
<1>4. ASSUME job[j] = "posting", UNCHANGED attempt,
             job'[j] \in {"delivered", "dead_letter", "backoff"}
      PROVE  Left(j)' < Left(j)
  BY <1>1, <1>4 DEF Left
<1>5. CASE AnswerArrives(j) \/ AttemptErrors(j)
  BY <1>4, <1>5 DEF IInv, TypeOK, AnswerArrives, AttemptErrors, AttemptFails
<1>6. CASE Retry(j)
  <2>1. /\ job[j] = "backoff" /\ job'[j] = "posting"
        /\ attempt'[j] = attempt[j] + 1 /\ attempt[j] < MaxAttempts
    BY <1>6 DEF IInv, TypeOK, Attempting, Retry, Post
  <2> QED
    BY <1>1, <2>1 DEF Left
<1> QED
  BY <1>2, <1>3, <1>5, <1>6

\* Another job's task and Spring leave it as it is; a crash ends it.
LEMMA OthersDoNotCount ==
  ASSUME IInv, NEW j \in Jobs, [Next]_vars,
         ~(\/ Accept(j) \/ PipelineReturns(j) \/ TaskDies(j)
           \/ AnswerArrives(j) \/ AttemptErrors(j) \/ Retry(j))
  PROVE  \/ UNCHANGED <<job[j], attempt[j]>>
         \/ Left(j)' < Left(j)
<1>1. ASSUME NEW i \in Jobs, i # j,
             \/ Accept(i) \/ PipelineReturns(i) \/ TaskDies(i)
             \/ AnswerArrives(i) \/ AttemptErrors(i) \/ Retry(i)
      PROVE  UNCHANGED <<job[j], attempt[j]>>
  BY <1>1 DEF IInv, TypeOK, Accept, PipelineReturns, TaskDies, AnswerArrives, AttemptErrors,
              AttemptFails, Retry, Post
<1>2. CASE \/ \E p \in posts : SpringAccepts(p) \/ SpringRefuses(p) \/ PostIsLost(p)
           \/ UNCHANGED vars
  BY <1>2 DEF SpringAccepts, SpringRefuses, PostIsLost, vars
<1>3. CASE Crash /\ j \in Active
  <2>1. attempt[j] \in 0..MaxAttempts /\ MaxAttempts \in Nat /\ MaxAttempts >= 1
    BY DeliveryAssumption DEF IInv, TypeOK
  <2>2. job'[j] = "lost" /\ job[j] \in {"running", "posting", "backoff"}
    BY <1>3 DEF Crash, Active
  <2> QED
    BY <2>1, <2>2 DEF Left
<1>4. CASE Crash /\ j \notin Active
  BY <1>4 DEF Crash
<1> QED
  BY <1>1, <1>2, <1>3, <1>4 DEF Next

\* However often Spring refuses, answers too late or is not there, the task of a
\* job makes at most MaxAttempts attempts and then ends: whatever changes in the
\* task, or its attempt, takes one of at most 2 * MaxAttempts + 2 steps.
THEOREM NoJobIsEndless ==
  ASSUME NEW j \in Jobs
  PROVE  Spec => [][Left(j)' < Left(j) /\ Left(j) \in 1..(2 * MaxAttempts + 2)]_<<job[j], attempt[j]>>
<1>1. ASSUME IInv, [Next]_vars, ~UNCHANGED <<job[j], attempt[j]>>
      PROVE  Left(j)' < Left(j) /\ Left(j) \in 1..(2 * MaxAttempts + 2)
  <2>1. Left(j)' < Left(j)
    BY <1>1, TaskStepCounts, OthersDoNotCount
  <2>2. attempt[j] \in 0..MaxAttempts /\ MaxAttempts \in Nat
    BY <1>1, DeliveryAssumption DEF IInv, TypeOK
  <2>3. Left(j) \in 0..(2 * MaxAttempts + 2)
    BY <2>2 DEF Left
  <2>4. IInv'
    BY <1>1, NextKeepsIInv
  <2>5. attempt'[j] \in 0..MaxAttempts
    BY <2>4 DEF IInv, TypeOK
  <2>6. Left(j)' \in Nat
    BY <2>2, <2>5 DEF Left
  <2> QED
    BY <2>1, <2>3, <2>6
<1>2. IInv /\ [Next]_vars
        => [Left(j)' < Left(j) /\ Left(j) \in 1..(2 * MaxAttempts + 2)]_<<job[j], attempt[j]>>
  BY <1>1
<1> QED
  BY <1>2, Invariance, PTL DEF Spec
-----------------------------------------------------------------------------
(* The contract of the callbacks.                                          *)

Fate == [j \in Jobs |-> IF j \in Active THEN "active" ELSE job[j]]
Known == [j \in Jobs |-> {p.result : p \in {q \in received : q.job = j}}]

\* The fate of the jobs is a function of what their tasks do.
LEMMA FateFollowsJob ==
  ASSUME NEW j \in Jobs, NEW s, job' = [job EXCEPT ![j] = s], TypeOK,
         NEW f, f = IF s \in {"running", "posting", "backoff"} THEN "active" ELSE s
  PROVE  Fate' = [Fate EXCEPT ![j] = f]
BY DEF TypeOK, Fate, Active

\* What Spring knows of a job it learnt from posts with the job's own result.
LEMMA KnownIsOwn ==
  ASSUME IInv, NEW j \in Jobs
  PROVE  Known[j] \in {{}, {result[j]}}
BY DEF IInv, PostsAreOwn, Sent, Known

\* An attempt begins or ends without an answer that counts: a stutter, or the
\* payload is given to the log.
LEMMA AttemptImplements ==
  ASSUME IInv, NEW j \in Jobs, AttemptFails(j), job[j] = "posting", UNCHANGED received
  PROVE  [Contract!Next]_(Contract!vars)
<1>1. UNCHANGED Known
  BY DEF Known
<1>2. Fate[j] = "active"
  BY DEF Fate, Active
<1>3. CASE attempt[j] < MaxAttempts
  <2>1. Fate' = [Fate EXCEPT ![j] = "active"]
    BY <1>3, FateFollowsJob DEF IInv, AttemptFails
  <2>2. Fate' = Fate
    BY <1>2, <2>1 DEF Fate
  <2> QED
    BY <1>1, <2>2 DEF Fate, Known, Contract!vars
<1>4. CASE ~(attempt[j] < MaxAttempts)
  <2>1. Fate' = [Fate EXCEPT ![j] = "dead_letter"]
    BY <1>4, FateFollowsJob DEF IInv, AttemptFails
  <2>2. Contract!GiveUp(j)
    BY <1>1, <1>2, <2>1 DEF Fate, Known, Contract!GiveUp
  <2> QED
    BY <2>2 DEF Contract!Next
<1> QED
  BY <1>3, <1>4

\* A job goes on.
LEMMA JobImplements ==
  ASSUME IInv, NEW j \in Jobs,
         \/ Accept(j) \/ PipelineReturns(j) \/ TaskDies(j)
         \/ AnswerArrives(j) \/ AttemptErrors(j) \/ Retry(j)
  PROVE  [Contract!Next]_(Contract!vars)
<1>1. UNCHANGED received /\ UNCHANGED Known
  BY DEF Accept, PipelineReturns, TaskDies, AnswerArrives, AttemptErrors, Retry, Known
<1>2. CASE Accept(j)
  <2>1. Fate' = [Fate EXCEPT ![j] = "active"] /\ Fate[j] = "new"
    BY <1>2, FateFollowsJob DEF IInv, Accept, Fate, Active
  <2>2. Contract!Begin(j)
    BY <1>1, <2>1 DEF Fate, Known, Contract!Begin
  <2> QED
    BY <2>2 DEF Contract!Next
<1>3. CASE PipelineReturns(j) \/ Retry(j)
  <2>1. Fate' = [Fate EXCEPT ![j] = "active"] /\ Fate[j] = "active"
    BY <1>3, FateFollowsJob DEF IInv, PipelineReturns, Retry, Post, Fate, Active
  <2>2. Fate' = Fate
    BY <2>1 DEF Fate
  <2> QED
    BY <1>1, <2>2 DEF Fate, Known, Contract!vars
<1>4. CASE TaskDies(j)
  <2>1. Fate' = [i \in Jobs |-> IF i \in {j} THEN "lost" ELSE Fate[i]] /\ Fate[j] = "active"
    BY <1>4 DEF IInv, TypeOK, TaskDies, Fate, Active
  <2>2. Contract!Lose({j})
    BY <1>1, <2>1 DEF Fate, Known, Contract!Lose
  <2> QED
    BY <2>2 DEF Contract!Next
<1>5. CASE AnswerArrives(j) /\ answer[j] = "accepted"
  <2>1. Fate' = [Fate EXCEPT ![j] = "delivered"] /\ Fate[j] = "active"
    BY <1>5, FateFollowsJob DEF IInv, AnswerArrives, Fate, Active
  <2>2. [job |-> j, attempt |-> attempt[j], result |-> result[j]] \in received
    BY <1>5 DEF IInv, AnswersAreTrue, AnswerArrives
  <2>3. Known[j] # {}
    BY <2>2 DEF Known
  <2>4. Contract!Deliver(j)
    BY <1>1, <2>1, <2>3 DEF Fate, Known, Contract!Deliver
  <2> QED
    BY <2>4 DEF Contract!Next
<1>6. CASE AnswerArrives(j) /\ answer[j] # "accepted"
  BY <1>1, <1>6, AttemptImplements DEF AnswerArrives
<1>7. CASE AttemptErrors(j)
  BY <1>1, <1>7, AttemptImplements DEF AttemptErrors
<1> QED
  BY <1>2, <1>3, <1>4, <1>5, <1>6, <1>7

\* Spring accepts a post: it learns the result, or it had it already.
LEMMA SpringAcceptsImplements ==
  ASSUME IInv, NEW p \in posts, SpringAccepts(p)
  PROVE  [Contract!Next]_(Contract!vars)
<1>1. p.job \in Jobs /\ p.result \in Results /\ p.result = result[p.job] /\ job[p.job] # "new"
  BY DEF IInv, TypeOK, Posts, PostsAreOwn, Sent
<1>2. UNCHANGED Fate
  BY DEF SpringAccepts, Fate, Active
<1>3. Known' = [Known EXCEPT ![p.job] = Known[p.job] \cup {p.result}]
  <2>1. received' = received \cup {p}
    BY DEF SpringAccepts
  <2>2. \A j \in Jobs : Known'[j] = IF j = p.job THEN Known[j] \cup {p.result} ELSE Known[j]
    BY <2>1 DEF Known
  <2> QED
    BY <2>2 DEF Known
<1>4. CASE Known[p.job] = {}
  <2>1. Known' = [Known EXCEPT ![p.job] = {p.result}]
    BY <1>3, <1>4
  <2>2. Fate[p.job] # "new"
    BY <1>1 DEF Fate
  <2>3. Contract!Learn(p.job)
    BY <1>1, <1>2, <1>4, <2>1, <2>2 DEF Fate, Known, Contract!Learn
  <2> QED
    BY <1>1, <2>3 DEF Contract!Next
<1>5. CASE Known[p.job] # {}
  <2>1. Known[p.job] = {p.result}
    BY <1>1, <1>5, KnownIsOwn
  <2>2. Known' = Known
    BY <1>3, <2>1 DEF Known
  <2> QED
    BY <1>2, <2>2 DEF Fate, Known, Contract!vars
<1> QED
  BY <1>4, <1>5

\* The service dies: what was under way is lost in one step.
LEMMA CrashImplements ==
  ASSUME IInv, Crash
  PROVE  [Contract!Next]_(Contract!vars)
<1>1. UNCHANGED Known
  BY DEF Crash, Known
<1>2. Fate' = [j \in Jobs |-> IF j \in Active THEN "lost" ELSE Fate[j]]
  BY DEF Crash, Fate, Active
<1>3. PICK jobs \in SUBSET Jobs : jobs = Active
  BY DEF Active
<1>4. Contract!Lose(jobs)
  BY <1>1, <1>2, <1>3 DEF Fate, Known, Active, Contract!Lose
<1> QED
  BY <1>4 DEF Contract!Next

\* Every step is a step of the contract or changes nothing in it.
LEMMA StepImplements == IInv /\ [Next]_vars => [Contract!Next]_(Contract!vars)
<1> SUFFICES ASSUME IInv, [Next]_vars PROVE [Contract!Next]_(Contract!vars)
  OBVIOUS
<1>1. ASSUME NEW j \in Jobs, Accept(j) \/ PipelineReturns(j) \/ TaskDies(j)
                             \/ AnswerArrives(j) \/ AttemptErrors(j) \/ Retry(j)
      PROVE  [Contract!Next]_(Contract!vars)
  BY <1>1, JobImplements
<1>2. ASSUME NEW p \in posts, SpringAccepts(p) PROVE [Contract!Next]_(Contract!vars)
  BY <1>2, SpringAcceptsImplements
<1>3. CASE \/ \E p \in posts : SpringRefuses(p) \/ PostIsLost(p)
           \/ UNCHANGED vars
  BY <1>3 DEF SpringRefuses, PostIsLost, vars, Active, Contract!vars
<1>4. CASE Crash
  BY <1>4, CrashImplements
<1> QED
  BY <1>1, <1>2, <1>3, <1>4 DEF Next

\* The attempts of post_analysis_callback implement the contract for any number
\* of jobs, attempts and crashes: Spring learns at most one result of a job, and
\* the service settles it once, as delivered only if Spring has learnt it.
THEOREM DeliveryImplementsContract == Spec => ImplementsCallbackContract
<1>1. Init => Contract!Init
  BY DEF Init, Active, Contract!Init
<1>2. ImplementsCallbackContract <=> Contract!Spec
  BY DEF ImplementsCallbackContract
<1> QED
  BY <1>1, <1>2, StepImplements, Invariance, PTL DEF Spec, Contract!Spec
-----------------------------------------------------------------------------
(* The process around the jobs.                                            *)

\* No job is left once a shutdown has come to the clients, and what has not been
\* closed by then will be.
NothingIsUsed ==
  /\ phase \notin {"up", "draining"} => Active = {}
  /\ phase = "closing" => open \subseteq toClose
  /\ phase \in {"closed", "down"} => open = {}

JobsAreThose == job = [j \in Jobs |-> job[j]]

SInv == LifecycleOK /\ NothingIsUsed /\ JobsAreThose

LEMMA ServiceStarts == ServiceInit => SInv
BY DEF ServiceInit, Init, SInv, LifecycleOK, NothingIsUsed, JobsAreThose, Phases, Active

\* A job that is not active becomes so only by being accepted.
LEMMA OnlyAcceptanceActivates ==
  ASSUME Active = {}, Serves PROVE phase = "up"
<1>1. \A j \in Jobs : job[j] \notin {"running", "posting", "backoff"}
  BY DEF Active
<1> QED
  BY <1>1 DEF Serves, PipelineReturns, TaskDies, Active, Retry, AnswerArrives, AttemptErrors

LEMMA ServesKeepsJobs == ASSUME JobsAreThose, Serves PROVE JobsAreThose'
<1>1. PICK j \in Jobs : \E s : job' = [job EXCEPT ![j] = s]
  <2>1. PICK j \in Jobs :
          Accept(j) \/ PipelineReturns(j) \/ TaskDies(j) \/ Retry(j) \/ AnswerArrives(j)
            \/ AttemptErrors(j)
    BY DEF Serves
  <2> QED
    BY <2>1 DEF Accept, PipelineReturns, TaskDies, Retry, AnswerArrives, AttemptErrors, Post,
                AttemptFails
<1> QED
  BY <1>1 DEF JobsAreThose

LEMMA ServiceKeeps == ASSUME SInv, [ServiceNext]_serviceVars PROVE SInv'
<1> USE DEF SInv, LifecycleOK
<1>1. CASE Boot
  BY <1>1 DEF Boot, NothingIsUsed, JobsAreThose, vars, Active, Phases
<1>2. CASE Serves
  <2>1. UNCHANGED lifecycle
    BY <1>2 DEF Serves
  <2>2. phase \notin {"up", "draining"} => FALSE
    BY <1>2, OnlyAcceptanceActivates DEF NothingIsUsed
  <2> QED
    BY <1>2, <2>1, <2>2, ServesKeepsJobs DEF lifecycle, NothingIsUsed
<1>3. CASE SpringServes
  <2>1. UNCHANGED <<job, lifecycle>>
    BY <1>3 DEF SpringServes, SpringAccepts, SpringRefuses, PostIsLost
  <2> QED
    BY <2>1 DEF lifecycle, NothingIsUsed, JobsAreThose, Active
<1>4. CASE OpenClient
  <2>1. PICK j \in Jobs : job[j] = "running"
    BY <1>4 DEF OpenClient
  <2>2. Active # {}
    BY <2>1 DEF Active
  <2>3. open' \subseteq Clients /\ UNCHANGED <<job, phase, startup, toClose>>
    BY <1>4 DEF OpenClient, vars
  <2>4. phase \in {"up", "draining"}
    BY <2>2 DEF NothingIsUsed
  <2> QED
    BY <2>3, <2>4 DEF NothingIsUsed, JobsAreThose
<1>5. CASE StartupEnds
  BY <1>5 DEF StartupEnds, NothingIsUsed, JobsAreThose, vars, Active
<1>6. CASE StopAsked
  BY <1>6 DEF StopAsked, NothingIsUsed, JobsAreThose, vars, Active, Phases
<1>7. CASE ServerDrains
  BY <1>7 DEF ServerDrains, EntersFinally, NothingIsUsed, JobsAreThose, vars, Active, Phases
<1>8. CASE SyncWaitEnds
  BY <1>8 DEF SyncWaitEnds, NothingIsUsed, JobsAreThose, vars, Active, Phases
<1>9. CASE CloseClient
  BY <1>9 DEF CloseClient, NothingIsUsed, JobsAreThose, vars, Active
<1>10. CASE CloseRest
  BY <1>10 DEF CloseRest, NothingIsUsed, JobsAreThose, vars, Active, Phases
<1>11. CASE Exit
  BY <1>11 DEF Exit, NothingIsUsed, JobsAreThose, Active, Phases
<1>12. CASE ProcessDies
  BY <1>12 DEF ProcessDies, Crash, NothingIsUsed, JobsAreThose, Active, Phases
<1>13. CASE UNCHANGED serviceVars
  BY <1>13 DEF serviceVars, vars, lifecycle, NothingIsUsed, JobsAreThose, Active
<1> QED
  BY <1>1, <1>2, <1>3, <1>4, <1>5, <1>6, <1>7, <1>8, <1>9, <1>10, <1>11, <1>12, <1>13
     DEF ServiceNext

\* While the clients of main.py:90-92 are being closed no job runs, and none is open when
\* the process has ended.
THEOREM ClientsOutliveJobs == ServiceSpec => []NothingIsUsed
<1>1. SInv => NothingIsUsed
  BY DEF SInv
<1> QED
  BY <1>1, ServiceStarts, ServiceKeeps, PTL DEF ServiceSpec

\* A shutdown that was asked for loses no job, whatever is under way.
THEOREM ShutdownLosesNothing == ServiceSpec => NoJobIsLost
<1>1. SInv /\ [ServiceNext]_serviceVars => [Exit => UNCHANGED job]_serviceVars
  <2> SUFFICES ASSUME SInv, Exit PROVE UNCHANGED job
    OBVIOUS
  <2>1. Active = {} /\ job' = [j \in Jobs |-> IF j \in Active THEN "lost" ELSE job[j]]
    BY DEF SInv, NothingIsUsed, Exit
  <2> QED
    BY <2>1 DEF SInv, JobsAreThose
<1> QED
  BY <1>1, ServiceStarts, ServiceKeeps, PTL DEF ServiceSpec, NoJobIsLost

\* Booting, draining and closing are stutters of Delivery, and a shutdown takes no step of
\* its own on a job: what holds of Delivery holds of the service.
THEOREM ServiceImplementsDelivery == ServiceSpec => Spec
<1>1. ServiceInit => Init
  BY DEF ServiceInit
<1>2. SInv /\ [ServiceNext]_serviceVars => [Next]_vars
  <2> SUFFICES ASSUME SInv, [ServiceNext]_serviceVars PROVE [Next]_vars
    OBVIOUS
  <2>1. CASE Serves
    BY <2>1 DEF Serves, Next
  <2>2. CASE SpringServes
    BY <2>2 DEF SpringServes, Next
  <2>3. CASE ProcessDies
    BY <2>3 DEF ProcessDies, Next
  <2>4. CASE Exit
    <3>1. Active = {} /\ job' = [j \in Jobs |-> IF j \in Active THEN "lost" ELSE job[j]]
      BY <2>4 DEF SInv, NothingIsUsed, Exit
    <3>2. job' = job
      BY <3>1 DEF SInv, JobsAreThose
    <3> QED
      BY <2>4, <3>2 DEF Exit, vars
  <2> QED
    BY <2>1, <2>2, <2>3, <2>4
       DEF ServiceNext, Boot, OpenClient, StartupEnds, StopAsked, ServerDrains, EntersFinally,
           SyncWaitEnds, CloseClient, CloseRest, serviceVars
<1> QED
  BY <1>1, <1>2, ServiceStarts, ServiceKeeps, PTL DEF ServiceSpec, Spec

\* So does the service with its lifespan, whatever is under way when it is asked
\* to stop or dies.
THEOREM ServiceImplementsContract == ServiceSpec => ImplementsCallbackContract
BY ServiceImplementsDelivery, DeliveryImplementsContract, PTL
=============================================================================
