----------------------------- MODULE RdapProofs -----------------------------
(***************************************************************************)
(* Safety of RdapLookup for any number of analyses and domains.  The       *)
(* properties are proved from one inductive invariant, IInv: beside the    *)
(* properties it says in which states of a caller its variables still have *)
(* their initial values (Untouched, Unanswered), how a waiter and its      *)
(* owner are related (Joined), and what each state of a shared future      *)
(* tells about its owner (PendingIsFetching, FutureIsAnswer, SharedCancel).*)
(***************************************************************************)
EXTENDS RdapLookup, TLAPS

\* Before its call a caller has no owner but itself, no future, no cancellation.
Untouched ==
  \A c \in Callers : stage[c] = "idle"
    => owner[c] = c /\ future[c] = "none" /\ cancel[c] = "no"

\* The answer is written when the call ends.
Unanswered == \A c \in Callers : stage[c] # "done" => answer[c] = "none"

\* Who fetches owns its future, which exists; who waits awaits another caller's.
OwnFuture ==
  \A c \in Callers : /\ stage[c] = "fetching" => owner[c] = c /\ future[c] # "none"
                     /\ stage[c] = "waiting" => owner[c] # c

\* A joined future belongs to a caller that fetched the same domain.
Joined ==
  \A c \in Callers : owner[c] # c
    => /\ stage[owner[c]] \in {"fetching", "done"}
       /\ domain[owner[c]] = domain[c]
       /\ owner[owner[c]] = owner[c]
       /\ future[owner[c]] # "none"

PendingIsFetching == \A c \in Callers : future[c] = "pending" => stage[c] = "fetching"

FutureIsAnswer == \A c \in Callers : future[c] \in Answers => answer[c] = future[c]

\* A cancelled future was cancelled by its owner or by one of its waiters.
SharedCancel ==
  \A o \in Callers : future[o] = "cancelled"
    => \E x \in Callers : cancel[x] # "no" /\ owner[x] = o /\ domain[x] = domain[o]

\* Sharing is transparent: a waiter that got an answer got the very answer of
\* the owner whose request it shared.
AnswersAgree ==
  \A c \in Callers :
    owner[c] # c /\ answer[c] \in Answers => answer[owner[c]] = answer[c]

\* The relations between a caller's variables, without the properties proper.
Bookkeeping ==
  /\ Untouched /\ Unanswered /\ OwnFuture /\ Joined
  /\ PendingIsFetching /\ FutureIsAnswer /\ SharedCancel

IInv ==
  /\ TypeOK /\ SingleFlight /\ Bookkeeping
  /\ AnswersAgree /\ LeakHasCulprit /\ CacheIsFetched
-----------------------------------------------------------------------------
\* The initial states have the invariant.
LEMMA InitIInv == Init => IInv
BY CallersAssumption, CooldownAssumption
DEF Init, IInv, Bookkeeping, TypeOK, SingleFlight, Untouched, Unanswered, OwnFuture, Joined,
    PendingIsFetching, FutureIsAnswer, SharedCancel, AnswersAgree, LeakHasCulprit,
    CacheIsFetched

\* Retry-After, whatever the header says, gives a cooldown within the clamp.
LEMMA RetryAfterInRange == \A h \in RetryAfters : RetryAfterSeconds(h) \in 0..MaxCooldown
BY CooldownAssumption DEF RetryAfterSeconds, Clamp

\* An exit without a request.
LEMMA AnswerAtOnceKeeps ==
  ASSUME IInv, NEW c \in Callers, AnswerAtOnce(c)
  PROVE  IInv'
<1> USE DEF IInv, Bookkeeping, AnswerAtOnce, Finish
<1>1. TypeOK'
  BY DEF TypeOK, Endings, Answers, FetchResults
<1>2. SingleFlight'
  BY DEF TypeOK, SingleFlight
<1>3. Untouched'
  BY DEF TypeOK, Untouched
<1>4. Unanswered'
  BY DEF TypeOK, Unanswered
<1>5. OwnFuture'
  BY DEF TypeOK, OwnFuture
<1>6. Joined'
  BY DEF TypeOK, Joined
<1>7. PendingIsFetching'
  BY DEF TypeOK, PendingIsFetching
<1>8. FutureIsAnswer'
  BY DEF TypeOK, FutureIsAnswer, Unanswered, FetchResults, Answers
<1>9. SharedCancel'
  BY DEF SharedCancel
<1>10. AnswersAgree'
  BY DEF TypeOK, AnswersAgree, Joined, Untouched
<1>11. LeakHasCulprit'
  BY DEF TypeOK, LeakHasCulprit
<1>12. CacheIsFetched'
  BY DEF TypeOK, CacheIsFetched, Unanswered
<1> QED BY <1>1, <1>2, <1>3, <1>4, <1>5, <1>6, <1>7, <1>8, <1>9, <1>10, <1>11, <1>12

\* Joining: the entry found in _inflight is a caller that fetches.
LEMMA JoinInflightKeeps ==
  ASSUME IInv, NEW c \in Callers, JoinInflight(c)
  PROVE  IInv'
<1> USE DEF IInv, Bookkeeping, JoinInflight, Suspend, Suspended
<1>1. TypeOK'
  BY DEF TypeOK
<1>2. SingleFlight'
  BY DEF SingleFlight
<1>3. Untouched'
  BY DEF TypeOK, Untouched
<1>4. Unanswered'
  BY DEF Unanswered
<1>5. OwnFuture'
  BY DEF TypeOK, OwnFuture, SingleFlight
<1>6. Joined'
  BY DEF TypeOK, Joined, OwnFuture, SingleFlight
<1>7. PendingIsFetching'
  BY DEF PendingIsFetching
<1>8. FutureIsAnswer'
  BY DEF FutureIsAnswer
<1>9. SharedCancel'
  BY DEF SharedCancel, Untouched
<1>10. AnswersAgree'
  BY DEF AnswersAgree, Unanswered, FetchResults, Answers
<1>11. LeakHasCulprit'
  BY DEF LeakHasCulprit, Joined, Untouched
<1>12. CacheIsFetched'
  BY DEF CacheIsFetched
<1> QED BY <1>1, <1>2, <1>3, <1>4, <1>5, <1>6, <1>7, <1>8, <1>9, <1>10, <1>11, <1>12

\* Registering a future, or refusing the name in the same step.
LEMMA BecomeOwnerKeeps ==
  ASSUME IInv, NEW c \in Callers, BecomeOwner(c)
  PROVE  IInv'
<1> USE DEF IInv, Bookkeeping, BecomeOwner, Suspend, Suspended, Finish
<1>1. TypeOK'
  BY DEF TypeOK, Endings, Answers
<1>2. SingleFlight'
  BY CallersAssumption DEF TypeOK, SingleFlight
<1>3. Untouched'
  BY DEF TypeOK, Untouched
<1>4. Unanswered'
  BY DEF TypeOK, Unanswered
<1>5. OwnFuture'
  BY DEF TypeOK, OwnFuture, Untouched
<1>6. Joined'
  BY DEF TypeOK, Joined
<1>7. PendingIsFetching'
  BY DEF TypeOK, PendingIsFetching
<1>8. FutureIsAnswer'
  BY DEF TypeOK, FutureIsAnswer, FetchResults, Answers
<1>9. SharedCancel'
  BY DEF TypeOK, SharedCancel
<1>10. AnswersAgree'
  BY DEF TypeOK, AnswersAgree, Joined, Untouched
<1>11. LeakHasCulprit'
  BY DEF TypeOK, LeakHasCulprit
<1>12. CacheIsFetched'
  BY DEF TypeOK, CacheIsFetched
<1> QED BY <1>1, <1>2, <1>3, <1>4, <1>5, <1>6, <1>7, <1>8, <1>9, <1>10, <1>11, <1>12

\* The owner shares its answer and leaves _inflight.
LEMMA FetchAnsweredKeeps ==
  ASSUME IInv, NEW c \in Callers, FetchAnswered(c)
  PROVE  IInv'
<1> USE DEF IInv, Bookkeeping, FetchAnswered, Finish, Resolve, Unregister
<1>1. TypeOK'
  BY RetryAfterInRange DEF TypeOK, Endings, Answers
<1>2. SingleFlight'
  BY CallersAssumption DEF TypeOK, SingleFlight
<1>3. Untouched'
  BY DEF Untouched
<1>4. Unanswered'
  BY DEF TypeOK, Unanswered
<1>5. OwnFuture'
  BY DEF TypeOK, OwnFuture
<1>6. Joined'
  BY DEF TypeOK, Joined, FetchResults
<1>7. PendingIsFetching'
  BY DEF TypeOK, PendingIsFetching, FetchResults
<1>8. FutureIsAnswer'
  BY DEF TypeOK, FutureIsAnswer, Unanswered, FetchResults, Answers
<1>9. SharedCancel'
  BY DEF SharedCancel, FetchResults
<1>10. AnswersAgree'
  BY DEF AnswersAgree, OwnFuture, Unanswered, FetchResults, Answers
<1>11. LeakHasCulprit'
  BY DEF LeakHasCulprit, FetchResults
<1>12. CacheIsFetched'
  BY DEF TypeOK, CacheIsFetched, Unanswered, OwnFuture
<1> QED BY <1>1, <1>2, <1>3, <1>4, <1>5, <1>6, <1>7, <1>8, <1>9, <1>10, <1>11, <1>12

\* A waiter takes over the outcome of the shared future.
LEMMA WaiterResumesKeeps ==
  ASSUME IInv, NEW c \in Callers, WaiterResumes(c)
  PROVE  IInv'
<1> USE DEF IInv, Bookkeeping, WaiterResumes, Finish
<1>1. TypeOK'
  BY DEF TypeOK, Endings
<1>2. SingleFlight'
  BY DEF SingleFlight
<1>3. Untouched'
  BY DEF Untouched
<1>4. Unanswered'
  BY DEF TypeOK, Unanswered
<1>5. OwnFuture'
  BY DEF TypeOK, OwnFuture
<1>6. Joined'
  BY DEF TypeOK, Joined
<1>7. PendingIsFetching'
  BY DEF PendingIsFetching
<1>8. FutureIsAnswer'
  BY DEF FutureIsAnswer, Unanswered, FetchResults, Answers
<1>9. SharedCancel'
  BY DEF SharedCancel
<1>10. AnswersAgree'
  BY DEF TypeOK, AnswersAgree, Joined, FutureIsAnswer
<1>11. LeakHasCulprit'
  BY DEF TypeOK, LeakHasCulprit, SharedCancel, Joined
<1>12. CacheIsFetched'
  BY DEF CacheIsFetched, Unanswered
<1> QED BY <1>1, <1>2, <1>3, <1>4, <1>5, <1>6, <1>7, <1>8, <1>9, <1>10, <1>11, <1>12

\* A cancellation is requested, and for a waiter hits the shared future.
LEMMA RequestCancelKeeps ==
  ASSUME IInv, NEW c \in Callers, NEW why \in {"timer", "outer"}, RequestCancel(c, why)
  PROVE  IInv'
<1> USE DEF IInv, Bookkeeping, RequestCancel, Resolve, Suspended
<1>1. TypeOK'
  BY DEF TypeOK
<1>2. SingleFlight'
  BY DEF SingleFlight
<1>3. Untouched'
  BY DEF TypeOK, Untouched
<1>4. Unanswered'
  BY DEF Unanswered
<1>5. OwnFuture'
  BY DEF TypeOK, OwnFuture
<1>6. Joined'
  BY DEF TypeOK, Joined
<1>7. PendingIsFetching'
  BY DEF TypeOK, PendingIsFetching
<1>8. FutureIsAnswer'
  BY DEF TypeOK, FutureIsAnswer, FetchResults, Answers
<1>9. SharedCancel'
  BY DEF TypeOK, SharedCancel, Joined
<1>10. AnswersAgree'
  BY DEF AnswersAgree
<1>11. LeakHasCulprit'
  BY DEF LeakHasCulprit
<1>12. CacheIsFetched'
  BY DEF CacheIsFetched
<1> QED BY <1>1, <1>2, <1>3, <1>4, <1>5, <1>6, <1>7, <1>8, <1>9, <1>10, <1>11, <1>12

\* A cancelled caller ends; an owner cancels and unregisters its future.
LEMMA CancelDeliveredKeeps ==
  ASSUME IInv, NEW c \in Callers, CancelDelivered(c)
  PROVE  IInv'
<1> USE DEF IInv, Bookkeeping, CancelDelivered, Finish, Resolve, Unregister, Suspended
<1>1. TypeOK'
  BY DEF TypeOK, Endings
<1>2. SingleFlight'
  BY CallersAssumption DEF TypeOK, SingleFlight
<1>3. Untouched'
  BY DEF TypeOK, Untouched
<1>4. Unanswered'
  BY DEF TypeOK, Unanswered
<1>5. OwnFuture'
  BY DEF TypeOK, OwnFuture
<1>6. Joined'
  BY DEF TypeOK, Joined
<1>7. PendingIsFetching'
  BY DEF TypeOK, PendingIsFetching
<1>8. FutureIsAnswer'
  BY DEF TypeOK, FutureIsAnswer, Unanswered, FetchResults, Answers
<1>9. SharedCancel'
  BY DEF TypeOK, SharedCancel, OwnFuture
<1>10. AnswersAgree'
  BY DEF AnswersAgree, Unanswered, FetchResults, Answers
<1>11. LeakHasCulprit'
  BY DEF LeakHasCulprit
<1>12. CacheIsFetched'
  BY DEF CacheIsFetched, Unanswered
<1> QED BY <1>1, <1>2, <1>3, <1>4, <1>5, <1>6, <1>7, <1>8, <1>9, <1>10, <1>11, <1>12

\* Time passes.
LEMMA CooldownTickKeeps ==
  ASSUME IInv, CooldownTick
  PROVE  IInv'
<1> USE DEF IInv, Bookkeeping, CooldownTick
<1>1. TypeOK'
  BY CooldownAssumption DEF TypeOK
<1>2. SingleFlight'
  BY DEF SingleFlight
<1>3. Untouched'
  BY DEF Untouched
<1>4. Unanswered'
  BY DEF Unanswered
<1>5. OwnFuture'
  BY DEF OwnFuture
<1>6. Joined'
  BY DEF Joined
<1>7. PendingIsFetching'
  BY DEF PendingIsFetching
<1>8. FutureIsAnswer'
  BY DEF FutureIsAnswer
<1>9. SharedCancel'
  BY DEF SharedCancel
<1>10. AnswersAgree'
  BY DEF AnswersAgree
<1>11. LeakHasCulprit'
  BY DEF LeakHasCulprit
<1>12. CacheIsFetched'
  BY DEF CacheIsFetched
<1> QED BY <1>1, <1>2, <1>3, <1>4, <1>5, <1>6, <1>7, <1>8, <1>9, <1>10, <1>11, <1>12

\* The cache forgets.
LEMMA CacheDropsKeeps ==
  ASSUME IInv, NEW d \in Domains, CacheDrops(d)
  PROVE  IInv'
<1> USE DEF IInv, Bookkeeping, CacheDrops
<1>1. TypeOK'
  BY DEF TypeOK
<1>2. SingleFlight'
  BY DEF SingleFlight
<1>3. Untouched'
  BY DEF Untouched
<1>4. Unanswered'
  BY DEF Unanswered
<1>5. OwnFuture'
  BY DEF OwnFuture
<1>6. Joined'
  BY DEF Joined
<1>7. PendingIsFetching'
  BY DEF PendingIsFetching
<1>8. FutureIsAnswer'
  BY DEF FutureIsAnswer
<1>9. SharedCancel'
  BY DEF SharedCancel
<1>10. AnswersAgree'
  BY DEF AnswersAgree
<1>11. LeakHasCulprit'
  BY DEF LeakHasCulprit
<1>12. CacheIsFetched'
  BY DEF CacheIsFetched
<1> QED BY <1>1, <1>2, <1>3, <1>4, <1>5, <1>6, <1>7, <1>8, <1>9, <1>10, <1>11, <1>12

\* Nothing happens.
LEMMA StutterKeeps ==
  ASSUME IInv, UNCHANGED vars
  PROVE  IInv'
<1> USE DEF IInv, Bookkeeping, vars
<1>1. TypeOK'
  BY DEF TypeOK
<1>2. SingleFlight'
  BY DEF SingleFlight
<1>3. Untouched'
  BY DEF Untouched
<1>4. Unanswered'
  BY DEF Unanswered
<1>5. OwnFuture'
  BY DEF OwnFuture
<1>6. Joined'
  BY DEF Joined
<1>7. PendingIsFetching'
  BY DEF PendingIsFetching
<1>8. FutureIsAnswer'
  BY DEF FutureIsAnswer
<1>9. SharedCancel'
  BY DEF SharedCancel
<1>10. AnswersAgree'
  BY DEF AnswersAgree
<1>11. LeakHasCulprit'
  BY DEF LeakHasCulprit
<1>12. CacheIsFetched'
  BY DEF CacheIsFetched
<1> QED BY <1>1, <1>2, <1>3, <1>4, <1>5, <1>6, <1>7, <1>8, <1>9, <1>10, <1>11, <1>12

-----------------------------------------------------------------------------
\* One step of the program, whichever it is, keeps the invariant.
LEMMA NextKeepsIInv == IInv /\ [Next]_vars => IInv'
<1> SUFFICES ASSUME IInv, [Next]_vars PROVE IInv'
  OBVIOUS
<1>1. ASSUME NEW c \in Callers, Call(c) PROVE IInv'
  BY <1>1, AnswerAtOnceKeeps, JoinInflightKeeps, BecomeOwnerKeeps DEF Call
<1>2. ASSUME NEW c \in Callers, FetchAnswered(c) PROVE IInv'
  BY <1>2, FetchAnsweredKeeps
<1>3. ASSUME NEW c \in Callers, WaiterResumes(c) PROVE IInv'
  BY <1>3, WaiterResumesKeeps
<1>4. ASSUME NEW c \in Callers, TimerFires(c) \/ CancelledFromOutside(c) PROVE IInv'
  BY <1>4, RequestCancelKeeps DEF TimerFires, CancelledFromOutside
<1>5. ASSUME NEW c \in Callers, CancelDelivered(c) PROVE IInv'
  BY <1>5, CancelDeliveredKeeps
<1>6. CASE CooldownTick
  BY <1>6, CooldownTickKeeps
<1>7. ASSUME NEW d \in Domains, CacheDrops(d) PROVE IInv'
  BY <1>7, CacheDropsKeeps
<1>8. CASE UNCHANGED vars
  BY <1>8, StutterKeeps
<1> QED
  BY <1>1, <1>2, <1>3, <1>4, <1>5, <1>6, <1>7, <1>8 DEF Next

\* The inductive invariant holds in every reachable state.
THEOREM Invariance == Spec => []IInv
BY InitIInv, NextKeepsIInv, PTL DEF Spec

\* Type correctness of lookup_rdap's shared state: in particular the cooldown
\* stays within the clamp whatever Retry-After the server sends.
THEOREM TypeCorrect == Spec => []TypeOK
<1>1. IInv => TypeOK
  BY DEF IInv
<1> QED
  BY <1>1, Invariance, PTL

\* _inflight names exactly the callers that fetch, one for each domain.
THEOREM OneRequestPerDomain == Spec => []SingleFlight
<1>1. IInv => SingleFlight
  BY DEF IInv
<1> QED
  BY <1>1, Invariance, PTL

\* No waiter of lookup_rdap ever depends on an owner that has ended: a future
\* that is still pending belongs to a caller that still fetches.
THEOREM NoWakeupIsLost == Spec => []NoLostWakeup
<1>1. IInv => NoLostWakeup
  BY DEF IInv, Bookkeeping, NoLostWakeup, PendingIsFetching, Joined, TypeOK
<1> QED
  BY <1>1, Invariance, PTL

\* Whoever shared a request and got an answer got its owner's answer.
THEOREM SharedAnswersAgree == Spec => []AnswersAgree
<1>1. IInv => AnswersAgree
  BY DEF IInv
<1> QED
  BY <1>1, Invariance, PTL

\* CancelledError reaches an analysis that nobody cancelled only through a
\* shared future, from a cancelled analysis of the same domain.
THEOREM LeaksHaveCulprits == Spec => []LeakHasCulprit
<1>1. IInv => LeakHasCulprit
  BY DEF IInv
<1> QED
  BY <1>1, Invariance, PTL

\* Nothing is in the cache that no request brought.
THEOREM CacheSound == Spec => []CacheIsFetched
<1>1. IInv => CacheIsFetched
  BY DEF IInv
<1> QED
  BY <1>1, Invariance, PTL

-----------------------------------------------------------------------------
Disturbed == {c \in Callers : cancel[c] # "no"}

\* A caller that has not called yet is fresh: it leads and follows nobody.
LEMMA IdleIsFresh ==
  ASSUME IInv, NEW c \in Callers, stage[c] = "idle"
  PROVE  Sharing!Fresh(c)
BY DEF IInv, Bookkeeping, SingleFlight, Untouched, Unanswered, Sharing!Fresh, Sharing!Leads

\* A suspended caller leads a request or follows one, and has no answer yet.
LEMMA SuspendedIsBusy ==
  ASSUME IInv, NEW c \in Suspended
  PROVE  answer[c] = "none" /\ ~Sharing!Fresh(c)
BY DEF IInv, Bookkeeping, TypeOK, SingleFlight, Unanswered, OwnFuture, Suspended,
       Sharing!Fresh, Sharing!Leads

\* Each call is a step of the sharing: served at once, joining, or leading.
LEMMA CallImplements ==
  ASSUME IInv, NEW c \in Callers, Call(c)
  PROVE  Sharing!Next
<1>1. stage[c] = "idle" /\ Sharing!Fresh(c)
  BY IdleIsFresh DEF Call, AnswerAtOnce, JoinInflight, BecomeOwner
<1>2. domain[c] \in Domains /\ cancel' = cancel /\ Disturbed' = Disturbed
  BY DEF IInv, TypeOK, Call, AnswerAtOnce, JoinInflight, BecomeOwner, Disturbed
<1>3. CASE AnswerAtOnce(c)
  BY <1>1, <1>2, <1>3
  DEF AnswerAtOnce, Finish, Answers, FetchResults, Disturbed, Sharing!Next, Sharing!Serve,
      Sharing!Ends
<1>4. CASE JoinInflight(c)
  <2>1. Sharing!Follow(c, domain[c])
    BY <1>1, <1>2, <1>4 DEF JoinInflight, Disturbed, Sharing!Follow
  <2> QED
    BY <1>2, <2>1 DEF Sharing!Next
<1>5. CASE BecomeOwner(c) /\ domain[c] \in Unencodable
  <2>1. Sharing!Serve(c)
    BY <1>1, <1>2, <1>5 DEF BecomeOwner, Finish, Answers, Disturbed, Sharing!Serve, Sharing!Ends
  <2> QED
    BY <2>1 DEF Sharing!Next
<1>6. CASE BecomeOwner(c) /\ domain[c] \notin Unencodable
  <2>1. Sharing!Lead(c, domain[c])
    BY <1>1, <1>2, <1>6 DEF BecomeOwner, Disturbed, Sharing!Lead
  <2> QED
    BY <1>2, <2>1 DEF Sharing!Next
<1> QED
  BY <1>3, <1>4, <1>5, <1>6 DEF Call

\* The owner's exits, answered or cancelled, close its request.
LEMMA OwnerEndImplements ==
  ASSUME IInv, NEW c \in Callers, stage[c] = "fetching",
         FetchAnswered(c) \/ CancelDelivered(c)
  PROVE  Sharing!Next
<1>1. domain[c] \in Domains /\ inflight[domain[c]] = c
  BY DEF IInv, TypeOK, SingleFlight
<1>2. UNCHANGED <<owner, cancel>> /\ Unregister(c) /\ Disturbed' = Disturbed
  BY DEF FetchAnswered, CancelDelivered, Disturbed
<1>3. \E e \in IF c \in Disturbed THEN {"timeout", "cancelled"} ELSE Answers :
        answer' = [answer EXCEPT ![c] = e]
  BY DEF FetchAnswered, CancelDelivered, Finish, Answers, Disturbed
<1>4. Sharing!Close(c, domain[c])
  BY <1>1, <1>2, <1>3 DEF Unregister, Disturbed, Sharing!Close, Sharing!Ends
<1> QED
  BY <1>1, <1>4 DEF Sharing!Next

\* A waiter's exits: with the shared answer, or leaving for a cancellation,
\* its own or that of somebody who cancelled the shared future.
LEMMA WaiterEndImplements ==
  ASSUME IInv, NEW c \in Callers, stage[c] = "waiting",
         WaiterResumes(c) \/ CancelDelivered(c)
  PROVE  Sharing!Next
<1>1. owner[c] \in Callers /\ owner[c] # c /\ answer[c] = "none"
  BY DEF IInv, Bookkeeping, TypeOK, OwnFuture, Unanswered
<1>2. UNCHANGED <<owner, cancel, inflight>> /\ Disturbed' = Disturbed
  BY DEF WaiterResumes, CancelDelivered, Disturbed
<1>3. CASE CancelDelivered(c)
  <2>1. Sharing!Leave(c)
    BY <1>1, <1>2, <1>3
    DEF CancelDelivered, Finish, Disturbed, Sharing!Leave, Sharing!Ends
  <2> QED
    BY <2>1 DEF Sharing!Next
<1>4. CASE WaiterResumes(c) /\ future[owner[c]] \in Answers
  <2>1. answer[owner[c]] = future[owner[c]]
    BY <1>1, <1>4 DEF IInv, Bookkeeping, FutureIsAnswer
  <2>2. Sharing!Receive(c)
    BY <1>1, <1>2, <1>4, <2>1
    DEF WaiterResumes, Finish, Disturbed, Sharing!Receive, Sharing!Ends
  <2> QED
    BY <2>2 DEF Sharing!Next
<1>5. CASE WaiterResumes(c) /\ future[owner[c]] = "cancelled"
  <2>1. \E x \in Disturbed : owner[x] = owner[c]
    BY <1>1, <1>5 DEF IInv, Bookkeeping, SharedCancel, Disturbed
  <2>2. Sharing!Leave(c)
    BY <1>1, <1>2, <1>5, <2>1
    DEF WaiterResumes, Finish, Disturbed, Sharing!Leave, Sharing!Ends
  <2> QED
    BY <2>2 DEF Sharing!Next
<1>6. WaiterResumes(c) => future[owner[c]] \in Answers \cup {"cancelled"}
  BY <1>1 DEF IInv, Bookkeeping, TypeOK, Joined, WaiterResumes
<1> QED
  BY <1>3, <1>4, <1>5, <1>6

\* Whatever asks a caller to stop disturbs it.
LEMMA RequestCancelImplements ==
  ASSUME IInv, NEW c \in Callers, TimerFires(c) \/ CancelledFromOutside(c)
  PROVE  Sharing!Next
<1>1. PICK why \in {"timer", "outer"} : RequestCancel(c, why)
  BY DEF TimerFires, CancelledFromOutside
<1>2. c \in Suspended /\ UNCHANGED <<inflight, owner, answer>>
  BY <1>1 DEF RequestCancel
<1>3. Disturbed' = Disturbed \cup {c}
  BY <1>1 DEF IInv, TypeOK, RequestCancel, Disturbed
<1>4. Sharing!Disturb(c)
  BY <1>2, <1>3, SuspendedIsBusy DEF Disturbed, Sharing!Disturb
<1> QED
  BY <1>4 DEF Sharing!Next

\* Every step of the lookups is a step of the sharing or changes nothing in it.
LEMMA StepImplements == IInv /\ [Next]_vars => [Sharing!Next]_(Sharing!vars)
<1> SUFFICES ASSUME IInv, [Next]_vars PROVE [Sharing!Next]_(Sharing!vars)
  OBVIOUS
<1>1. ASSUME NEW c \in Callers, Call(c) PROVE Sharing!Next
  BY <1>1, CallImplements
<1>2. ASSUME NEW c \in Callers, FetchAnswered(c) PROVE Sharing!Next
  BY <1>2, OwnerEndImplements DEF FetchAnswered
<1>3. ASSUME NEW c \in Callers, WaiterResumes(c) PROVE Sharing!Next
  BY <1>3, WaiterEndImplements DEF WaiterResumes
<1>4. ASSUME NEW c \in Callers, TimerFires(c) \/ CancelledFromOutside(c) PROVE Sharing!Next
  BY <1>4, RequestCancelImplements
<1>5. ASSUME NEW c \in Callers, CancelDelivered(c) PROVE Sharing!Next
  BY <1>5, OwnerEndImplements, WaiterEndImplements DEF CancelDelivered, Suspended
<1>6. CASE CooldownTick \/ (\E d \in Domains : CacheDrops(d)) \/ UNCHANGED vars
  BY <1>6 DEF CooldownTick, CacheDrops, vars, Sharing!vars
<1> QED
  BY <1>1, <1>2, <1>3, <1>4, <1>5, <1>6 DEF Next

\* The futures of lookup_rdap implement the sharing, for any number of analyses
\* and domains: one request for a domain, its answer shared or not given, every
\* lookup ended once, and a failure only where someone was disturbed.
THEOREM LookupImplementsSharing == Spec => ImplementsSharing
<1>1. Init => Sharing!Init
  BY DEF Init, Sharing!Init
<1>2. ImplementsSharing <=> Sharing!Spec
  BY DEF ImplementsSharing
<1> QED
  BY <1>1, <1>2, StepImplements, Invariance, PTL DEF Spec, Sharing!Spec
=============================================================================
