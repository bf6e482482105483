----------------------------- MODULE RdapLookup -----------------------------
(***************************************************************************)
(* The RDAP lookup of the domain heuristic: lookup_rdap and _fetch_rdap in *)
(* app/services/domain_heuristic/rdap.py, called under asyncio.wait_for by *)
(* check_domain_heuristic (domain_heuristic/check.py).                     *)
(*                                                                         *)
(* Concurrent analyses of one registrable domain share one HTTP request:   *)
(* the first caller (the owner) registers a future in _inflight and        *)
(* fetches, the others await that future.  A caller is one analysis; it    *)
(* looks one URL up once.  An action is one run of the event loop between  *)
(* two awaits, so task switches happen only where the code can suspend.    *)
(*                                                                         *)
(* A cancellation has two steps, as in asyncio: Task.cancel() records the  *)
(* request (and cancels the future the task awaits, which here may be the  *)
(* shared one), and the task sees CancelledError when it next runs.        *)
(***************************************************************************)
EXTENDS Integers

CONSTANTS
  Callers,          \* analyses, each one task
  Domains,          \* registrable domains
  Unencodable,      \* those that the idna codec refuses
  NoCaller,         \* the absence of an in-flight entry
  RetryAfters,      \* Retry-After values of 429 answers, NoHeader when absent
  NoHeader,
  DefaultCooldown,  \* _DEFAULT_RATE_LIMIT_COOLDOWN_SECONDS
  MaxCooldown       \* _MAX_RATE_LIMIT_COOLDOWN_SECONDS

ASSUME CallersAssumption == NoCaller \notin Callers
ASSUME DomainsAssumption == Unencodable \subseteq Domains
ASSUME CooldownAssumption ==
  /\ MaxCooldown \in Nat
  /\ DefaultCooldown \in 0..MaxCooldown
  /\ RetryAfters \subseteq (Int \cup {NoHeader})
  /\ NoHeader \notin Int

VARIABLES
  stage,     \* where each caller is
  domain,    \* the domain it asked for (meaningful once it fetches or waits)
  owner,     \* the caller whose future it awaits
  answer,    \* what the lookup came to, "none" while it runs
  cancel,    \* the pending cancellation of its task: "no", "timer", "outer"
  future,    \* the future each owner created
  inflight,  \* _inflight
  cache,     \* the keys of _cache
  cooldown,  \* _rate_limit_until, as the time that is left of it
  ahead      \* the callers that had suspended when a caller did: their timers run first

vars == <<stage, domain, owner, answer, cancel, future, inflight, cache,
          cooldown, ahead>>
-----------------------------------------------------------------------------
\* What _fetch_rdap returns after its request was sent; "failed" stands for
\* the codes timeout, http_error, unexpected and parse_error.
FetchResults == {"info", "not_found", "rate_limited", "failed"}

Answers == FetchResults \cup {"no_domain", "invalid_domain"}

\* How a call ends: an answer, its own timer, or CancelledError.
Endings == Answers \cup {"timeout", "cancelled"}

Suspended == {c \in Callers : stage[c] \in {"fetching", "waiting"}}

\* Mutant of Clamp: a long Retry-After is taken at its word.
ClampBelowOnly(seconds) == IF seconds < 0 THEN 0 ELSE seconds

Clamp(seconds) ==
  IF seconds < 0 THEN 0
  ELSE IF seconds > MaxCooldown THEN MaxCooldown ELSE seconds

RetryAfterSeconds(header) ==
  IF header = NoHeader THEN DefaultCooldown ELSE Clamp(header)

Init ==
  /\ stage = [c \in Callers |-> "idle"]
  /\ domain \in [Callers -> Domains]
  /\ owner = [c \in Callers |-> c]
  /\ answer = [c \in Callers |-> "none"]
  /\ cancel = [c \in Callers |-> "no"]
  /\ future = [c \in Callers |-> "none"]
  /\ inflight = [d \in Domains |-> NoCaller]
  /\ cache = {}
  /\ cooldown = 0
  /\ ahead = [c \in Callers |-> {}]
-----------------------------------------------------------------------------
Finish(c, e) ==
  /\ stage' = [stage EXCEPT ![c] = "done"]
  /\ answer' = [answer EXCEPT ![c] = e]

\* wait_for starts a 3 s timer when the call first suspends.
Suspend(c, s) ==
  /\ stage' = [stage EXCEPT ![c] = s]
  /\ ahead' = [ahead EXCEPT ![c] = Suspended]

\* The exits of lookup_rdap that need no request: no registrable domain, the
\* cooldown, a cached answer.
AnswerAtOnce(c) ==
  /\ stage[c] = "idle"
  /\ \/ Finish(c, "no_domain")
     \/ cooldown > 0 /\ Finish(c, "rate_limited")
     \/ cooldown = 0 /\ domain[c] \in cache /\ Finish(c, "info")
  /\ UNCHANGED <<domain, owner, cancel, future, inflight, cache, cooldown, ahead>>

\* A lookup of the same domain is in flight: return await existing.
JoinInflight(c) ==
  /\ stage[c] = "idle"
  /\ cooldown = 0
  /\ domain[c] \notin cache
  /\ inflight[domain[c]] # NoCaller
  /\ Suspend(c, "waiting")
  /\ owner' = [owner EXCEPT ![c] = inflight[domain[c]]]
  /\ UNCHANGED <<domain, answer, cancel, future, inflight, cache, cooldown>>

\* Mutant of BecomeOwner: the in-flight entry is not looked at.
FetchAlways(c) ==
  /\ stage[c] = "idle"
  /\ cooldown = 0
  /\ domain[c] \notin cache \cup Unencodable
  /\ Suspend(c, "fetching")
  /\ future' = [future EXCEPT ![c] = "pending"]
  /\ inflight' = [inflight EXCEPT ![domain[c]] = c]
  /\ UNCHANGED <<domain, owner, answer, cancel, cache, cooldown>>

\* No lookup in flight: the caller registers a future and sends the request.
\* A name the idna codec refuses returns before the first await, so the entry
\* is set and removed again in one step.
BecomeOwner(c) ==
  /\ stage[c] = "idle"
  /\ cooldown = 0
  /\ domain[c] \notin cache
  /\ inflight[domain[c]] = NoCaller
  /\ IF domain[c] \in Unencodable
     THEN /\ Finish(c, "invalid_domain")
          /\ future' = [future EXCEPT ![c] = "invalid_domain"]
          /\ UNCHANGED <<inflight, ahead>>
     ELSE /\ Suspend(c, "fetching")
          /\ future' = [future EXCEPT ![c] = "pending"]
          /\ inflight' = [inflight EXCEPT ![domain[c]] = c]
          /\ UNCHANGED answer
  /\ UNCHANGED <<domain, owner, cancel, cache, cooldown>>

\* if not fut.done(): fut.set_result(...) or fut.set_exception(...)
Resolve(c, v) ==
  future' = [future EXCEPT ![c] = IF @ = "pending" THEN v ELSE @]

\* finally: _inflight.pop(domain, None)
Unregister(c) == inflight' = [inflight EXCEPT ![domain[c]] = NoCaller]

\* Mutants of FetchAnswered: errors are cached like answers; an error is raised
\* through the future instead of returned; the waiters get "no information".
FetchCachesErrors(c) ==
  /\ stage[c] = "fetching"
  /\ cancel[c] = "no"
  /\ \E r \in FetchResults :
       /\ Finish(c, r)
       /\ Resolve(c, r)
       /\ cache' = cache \cup {domain[c]}
       /\ UNCHANGED cooldown
  /\ Unregister(c)
  /\ UNCHANGED <<domain, owner, cancel, ahead>>

FetchRaisesErrors(c) ==
  /\ stage[c] = "fetching"
  /\ cancel[c] = "no"
  /\ \E r \in FetchResults :
       /\ Finish(c, r)
       /\ Resolve(c, IF r = "failed" THEN "cancelled" ELSE r)
  /\ Unregister(c)
  /\ UNCHANGED <<domain, owner, cancel, cache, cooldown, ahead>>

FetchSharesNothing(c) ==
  /\ stage[c] = "fetching"
  /\ cancel[c] = "no"
  /\ \E r \in FetchResults : Finish(c, r)
  /\ Resolve(c, "failed")
  /\ Unregister(c)
  /\ UNCHANGED <<domain, owner, cancel, cache, cooldown, ahead>>

\* The owner's request is answered: _fetch_rdap stores a parsed answer in the
\* cache and a 429 starts the cooldown, then the future gets the result.
FetchAnswered(c) ==
  /\ stage[c] = "fetching"
  /\ cancel[c] = "no"
  /\ \E r \in FetchResults :
       /\ Finish(c, r)
       /\ Resolve(c, r)
       /\ cache' = IF r = "info" THEN cache \cup {domain[c]} ELSE cache
       /\ IF r = "rate_limited"
          THEN \E h \in RetryAfters : cooldown' = RetryAfterSeconds(h)
          ELSE UNCHANGED cooldown
  /\ Unregister(c)
  /\ UNCHANGED <<domain, owner, cancel, ahead>>

\* A waiter resumes with the shared future's outcome.
WaiterResumes(c) ==
  /\ stage[c] = "waiting"
  /\ cancel[c] = "no"
  /\ future[owner[c]] # "pending"
  /\ Finish(c, future[owner[c]])
  /\ UNCHANGED <<domain, owner, cancel, future, inflight, cache, cooldown, ahead>>
-----------------------------------------------------------------------------
\* Task.cancel(): a waiter's cancellation goes to the future it awaits, and
\* "return await existing" shields the shared future from nothing.
RequestCancel(c, why) ==
  /\ c \in Suspended
  /\ cancel[c] = "no"
  /\ cancel' = [cancel EXCEPT ![c] = why]
  /\ IF stage[c] = "waiting" THEN Resolve(owner[c], "cancelled") ELSE UNCHANGED future
  /\ UNCHANGED <<stage, domain, owner, answer, inflight, cache, cooldown, ahead>>

\* Mutant of TimerFires: only a waiter has a timer, the owner trusts the server.
TimerForWaitersOnly(c) == stage[c] = "waiting" /\ RequestCancel(c, "timer")

\* The wait_for timer.  All timers have the same length, so the loop runs
\* them in the order in which the callers suspended.
TimerFires(c) ==
  /\ \A x \in Suspended \cap ahead[c] : cancel[x] # "no"
  /\ RequestCancel(c, "timer")

\* Cancelled from outside: the heuristic of an analysis that short-circuits,
\* the reputation deadline, shutdown.
CancelledFromOutside(c) == RequestCancel(c, "outer")

\* Mutant of CancelDelivered: except Exception instead of except BaseException.
CancelNotShared(c) ==
  /\ c \in Suspended
  /\ cancel[c] # "no"
  /\ Finish(c, IF cancel[c] = "timer" THEN "timeout" ELSE "cancelled")
  /\ IF stage[c] = "fetching" THEN Unregister(c) ELSE UNCHANGED inflight
  /\ UNCHANGED <<domain, owner, cancel, future, cache, cooldown, ahead>>

\* The cancelled task runs: wait_for turns its own timer into TimeoutError
\* ("timeout"); an owner first passes through except BaseException and finally.
CancelDelivered(c) ==
  /\ c \in Suspended
  /\ cancel[c] # "no"
  /\ Finish(c, IF cancel[c] = "timer" THEN "timeout" ELSE "cancelled")
  /\ IF stage[c] = "fetching"
     THEN Resolve(c, "cancelled") /\ Unregister(c)
     ELSE UNCHANGED <<future, inflight>>
  /\ UNCHANGED <<domain, owner, cancel, cache, cooldown, ahead>>

\* Time passes for the cooldown.
CooldownTick ==
  /\ cooldown > 0
  /\ cooldown' = cooldown - 1
  /\ UNCHANGED <<stage, domain, owner, answer, cancel, future, inflight, cache, ahead>>

\* TTLCache drops an entry that expired or that it had no room for.
CacheDrops(d) ==
  /\ d \in cache
  /\ cache' = cache \ {d}
  /\ UNCHANGED <<stage, domain, owner, answer, cancel, future, inflight, cooldown, ahead>>

Call(c) == AnswerAtOnce(c) \/ JoinInflight(c) \/ BecomeOwner(c)

Next ==
  \/ \E c \in Callers :
       \/ Call(c) \/ FetchAnswered(c) \/ WaiterResumes(c)
       \/ TimerFires(c) \/ CancelledFromOutside(c) \/ CancelDelivered(c)
  \/ CooldownTick
  \/ \E d \in Domains : CacheDrops(d)

\* The event loop runs every task that is ready and every timer that is due;
\* nothing obliges the RDAP server to answer.
Fairness ==
  \A c \in Callers : /\ WF_vars(WaiterResumes(c))
                     /\ WF_vars(CancelDelivered(c))
                     /\ WF_vars(TimerFires(c))

Spec == Init /\ [][Next]_vars

FairSpec == Spec /\ Fairness
-----------------------------------------------------------------------------
\* The type invariant.
TypeOK ==
  /\ stage \in [Callers -> {"idle", "fetching", "waiting", "done"}]
  /\ domain \in [Callers -> Domains]
  /\ owner \in [Callers -> Callers]
  /\ answer \in [Callers -> Endings \cup {"none"}]
  /\ cancel \in [Callers -> {"no", "timer", "outer"}]
  /\ future \in [Callers -> Answers \cup {"none", "pending", "cancelled"}]
  /\ inflight \in [Domains -> Callers \cup {NoCaller}]
  /\ cache \subseteq Domains
  /\ cooldown \in 0..MaxCooldown
  /\ ahead \in [Callers -> SUBSET Callers]

\* One request per domain: two callers never fetch the same domain at once,
\* and _inflight names exactly the callers that fetch (rdap.py:216-237).
SingleFlight ==
  \A c \in Callers, d \in Domains :
    (stage[c] = "fetching" /\ domain[c] = d) <=> inflight[d] = c

\* No lost wake-up: a caller that waits has a future to wait for, and while
\* that future is pending its owner still runs, so no waiter depends on an
\* owner that has ended (set_result / set_exception on every exit).
NoLostWakeup ==
  \A c \in Callers :
    stage[c] = "waiting" /\ future[owner[c]] = "pending"
      => /\ stage[owner[c]] = "fetching"
         /\ domain[owner[c]] = domain[c]

\* The lookups implement the abstract sharing of requests: one request for a
\* domain, an answer shared or not given, no caller answered twice, and nobody
\* left without an answer undisturbed by itself or those it shares with.
Sharing == INSTANCE RequestSharing
  WITH Keys <- Domains, NoAnswer <- "none", Failures <- {"timeout", "cancelled"},
       request <- inflight, leader <- owner, got <- answer,
       disturbed <- {c \in Callers : cancel[c] # "no"}
ImplementsSharing == Sharing!Spec

\* A caller that was not cancelled itself ends with CancelledError only if
\* some caller of the same shared future was cancelled: the owner or another
\* waiter.  (The code promises less than isolation, see CancelIsolated.)
LeakHasCulprit ==
  \A c \in Callers :
    answer[c] = "cancelled" /\ cancel[c] = "no"
      => \E x \in Callers \ {c} :
           /\ cancel[x] # "no"
           /\ owner[x] = owner[c]
           /\ domain[x] = domain[c]

\* The cache holds only what a request brought: for a cached domain some
\* owner fetched it and got registration data; errors are never cached.
CacheIsFetched ==
  \A d \in cache :
    \E c \in Callers : owner[c] = c /\ domain[c] = d /\ answer[c] = "info"

\* Every lookup that suspends comes to an end although the server may never
\* answer (check.py:88: the wait_for around lookup_rdap).
LookupEnds == \A c \in Callers : (c \in Suspended) ~> (stage[c] = "done")

\* What rdap.py:196 and check.py:81 promise: an RDAP failure does not stop
\* the pipeline, so only a caller that was itself cancelled from outside sees
\* CancelledError.  The code breaks it: the future is shared unshielded.
CancelIsolated ==
  \A c \in Callers : answer[c] = "cancelled" => cancel[c] = "outer"
=============================================================================
