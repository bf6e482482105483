# LinClean in TLA+

LinClean's FastAPI backend tells whether a URL is dangerous. A request is
normalised, its redirects are followed, threat databases and heuristics are
asked side by side, the page is fetched and analysed, and a score becomes a
verdict that is posted back to the Spring server. This directory holds TLA+
specifications of that service, configurations that model-check them with TLC,
and proofs for TLAPS. Paths below are relative to `src/app/` unless they start
with `src/`.

1. [Components](#1-components)
2. [Modules and how they follow the code](#2-modules-and-how-they-follow-the-code)
3. [Runs](#3-runs)
4. [Fairness](#4-fairness)
5. [Proofs](#5-proofs)
6. [Where the code and its documentation disagree](#6-where-the-code-and-its-documentation-disagree)
7. [Not modelled](#7-not-modelled)
8. [Plan](#8-plan)

## 1. Components

| Component | State | Operations | Talks to |
|---|---|---|---|
| Delivery: `api/v1/endpoints/analyze.py`, `services/analysis_callback.py` | background tasks in memory; attempt counter | accept (202), run, post, retry, dead-letter | pipeline (call), Spring (HTTP) |
| Full pipeline: `services/pipeline.py`, `pipeline_deadline.py`, `threat_db/check.py` | stage, the tasks of stages 2 and 3, deadlines | the stages, their deadlines, the short-circuit, the cancellation of tasks | all the services below |
| DB-independent pipeline: `services/db_independent_pipeline.py` | the time left | the same stages without databases, one after the other | unchaining, heuristic, content |
| Unchaining: `services/unchainer/unchain.py` | current URL, visited URLs, hops, error, signals | https probe, host check, HEAD, GET, chain timeout | DNS cache, the web |
| RDAP: `services/domain_heuristic/rdap.py` | `_inflight`, `_cache`, `_rate_limit_until`, shared by all analyses | coalesced lookup, cache, cooldown | rdap.org (HTTP) |
| Heuristic: `services/domain_heuristic/*` | none of its own; a table while it compares labels | patterns, DGA, typosquatting, then RDAP under `wait_for`, capped score | RDAP |
| URLhaus: `services/threat_db/urlhaus*.py`, `match_keys.py` | the SQLite table, open transactions, statistics | synchronise a CSV, look a URL up | `core/scheduler.py`, `main.py` (start both synchronisations) |
| Safe Browsing: `services/threat_db/gsb.py` | none | one request | Google (HTTP) |
| Content: `services/content_analyzer/*` | two semaphores, the executor's threads, browsers | fetch, extract, render, merge, AI, score | the web, OpenAI |
| DNS cache: `core/dns_cache.py` | answers with an expiry | resolve | resolver |
| Lifespan: `main.py`, `core/scheduler.py` | clients, provider, scheduler, the start-up synchronisation | start, drain, stop | all of the above |

Everything runs in one process on one asyncio event loop. Components interact
by awaited calls, by tasks and futures, by shared dictionaries (RDAP), by
semaphores (content) and by the database (URLhaus).

What is hard, and what makes each component correct:

- **RDAP.** Concurrent analyses of one domain share a request through a future,
  and every one of them can time out or be cancelled while others depend on it.
  Correct: one request per domain, nobody waits for a request that has ended,
  all get the same answer, nobody is cancelled for another's sake (it is: see
  section 6), only registration data is cached, the cooldown is bounded.
- **Full pipeline.** Two tasks finish in either order, a deadline or a failure
  may cut in between any two awaits, and tasks are cancelled without being
  awaited. Correct: the result does not depend on the order, a match in a
  database is not lost unless an exception or the deadline takes it, no task
  runs on, no page is fetched before every lookup has ended without a match, the
  verdict follows from the scores it is reported with, the analysis ends.
- **DB-independent pipeline.** Its scoring rules are copies, and its deadlines
  must leave time for the stages that follow. Correct: the same contract and the
  total budget.
- **Heuristic.** A loop that leaves early, labels skipped by their length, an
  edit distance in one row, an exception that takes several signals with it, a
  score that waits for RDAP. Correct: TYPO_DOMAIN for exactly the imitations,
  and no signal lost to a slow RDAP server.
- **Delivery.** Lost, late and duplicated posts; retries; tasks that die.
  Correct: what counts as delivered was received, one job never sends two
  different results, nothing is sent after the end, every job settles.
- **Lifespan.** A shutdown while analyses, callbacks and synchronisations are
  under way. Correct: it gets to its end, takes no client from an analysis,
  leaves none open and loses no job.
- **URLhaus.** Two synchronisations overlap, chunks fail as a whole, a row of the
  CSV raises, the process restarts, lookups read between commits. Correct: no url
  under two ids, statistics that account for every row a run has got through, a
  run that returns without failures has brought every row, a lookup's answer was
  true at some moment.
- **Unchaining.** Circular and endless redirects, failures at every hop, targets
  that cannot be parsed, HEAD that does not do. Correct: the hops are one chain, the final URL is explained,
  signals and unavailability belong to what is reported, the chain ends.
- **Content.** Two pools of slots and the connections of a shared client that
  must survive every exit, a browser that may see another page than the parser
  did, failures of dependencies that must not cost evidence, cancellations that
  handlers made for failures may absorb (they do: see section 6), a callback that
  explains the score from a table of its own. Correct: exactly that, nothing is
  started for what was asked to stop, and every analysis ends.

## 2. Modules and how they follow the code

Action granularity in all the asyncio modules: an action is one run of the event
loop between two awaits. Awaiting a task that has ended does not suspend. A
cancellation is first requested and then seen when the task next runs. Python
3.11 is assumed (Dockerfile, CI), where `wait_for` runs its coroutine in a task,
and returns the result instead of raising if that task is done when a
cancellation is delivered. `CancelTooLate` of `ContentAnalysis` is this case;
in the other modules it is the behaviour of an analysis that was not cancelled.

| Module | Code | Remarks |
|---|---|---|
| `RdapLookup` | `lookup_rdap`, `_fetch_rdap`, the `wait_for` in `domain_heuristic/check.py` | per caller `stage` and a pending `cancel`; `inflight`, `cache`, `cooldown` are the module globals; `future` is the state of each owner's future |
| `RequestSharing` | what sharing one request per domain promises | abstract: a leader per key, its followers, who was disturbed |
| `Scoring` | `_total_score`, `_decide_verdict`, `_apply_redirect_bonus`, thresholds of `config.py` | pure operators and the set of outcomes |
| `AnalysisContract` | `schemas/pipeline.py`, the documented thresholds | abstract: an outcome is pending, then decided once, and sound |
| `Pipeline` | `run_pipeline`, `_run_stage_2_and_3`, `check_threat_db`, the deadlines | `main` is the analysis, `rep` the reputation coroutine in its `wait_for` task, `thr` and `heur` the tasks it starts, `lookups` what `gather` waits for |
| `DbIndependentPipeline` | `run_db_independent_pipeline`, `PipelineDeadline` | `clock` is the time since the start; each stage picks its duration |
| `HeuristicScoring` | `patterns.py`, `dga.py`, the conditions of `typosquatting.py`, the score of `check.py` | pure: a URL is its label, suffix, traits, redirect values and the brands it names |
| `DomainHeuristic` | `check_domain_heuristic` up to RDAP, `check_typosquatting`, `_levenshtein` | `brand` is the loop over brands.txt, `dp`, `prev`, `row`, `col` the one-row table |
| `NoDbAnalysis` | the two modules above it as one analysis, RDAP's timeout and the stage's deadline | what `DbIndependentPipeline` takes from a set is computed here |
| `Delivery` | `_run_pipeline_task`, `post_analysis_callback` | `posts` in flight, `received` by Spring; a post and its answer are lost, late or processed independently |
| `CallbackContract` | what Spring and the service may believe of a job | abstract: the job's fate and the results Spring knows |
| `Service` | `lifespan` of `main.py`, the clients of the modules, the external uvicorn | extends `Delivery`; `phase` is where the process is, `toClose` the clients still to be closed |
| `UrlhausSync` | `sync_urlhaus`, `_flush_chunk`, `check_urlhaus` | `pc`, `pos`, `chunk`, `stats` per synchronisation; `table` is committed, `pending` the open transaction, `writer` SQLite's write lock |
| `FeedTable` | what the local copy of URLhaus promises | abstract: whole batches in the order of a CSV, lookups in one question |
| `Unchain` | `unchain_url` with its helpers, `unchain_page_unavailable` | `pc` is the await; every server answers anything each time |
| `ContentScoring` | what `extract.py` finds, `signals.py`, `_merge_features`, `_fetch_failed_result`, `_ai_score_weight` | pure: a page is its title, forms, fields, links, alts, refreshes and words, and features are sets of marks |
| `CallbackReasons` | the content part of `_callback_reasons` and `_signal_weight` | pure; `Explained` relates reasons and score |
| `SlotPool` | what an `asyncio.Semaphore` promises | abstract |
| `ContentAnalysis` | `analyze_content`, `fetch_page`, `extract_features_async`, `render_page` | `thread` is the executor's thread of an analysis, which outlives a cancellation; `static` is a history of the first features |
| `MC*` | | values of the constants for TLC |
| `*Proofs` | | theorems |

`Pipeline` and `DbIndependentPipeline` both extend `Scoring` and instantiate
`AnalysisContract`; the property `ImplementsContract` of each is the contract's
specification under the mapping of the outcome. The contract's one interesting
demand is that a reported verdict is the one its own numbers call for. It is
written from the documented thresholds, so that it also compares the two copies
of the scoring rules with each other.

`NoDbAnalysis` composes the second pipeline with the heuristic: the same actions
as in `DbIndependentPipeline` (`HeuristicAnswers`, `HeuristicTimesOut`,
`HeuristicRaises`) are driven by the signals that `DomainHeuristic` has found,
and `ImplementsPipeline` says that the composition is one of the analyses
`DbIndependentPipeline` describes. `ContentAnalysis` implements `SlotPool` twice,
once per semaphore, with the holders read off its stages. `Service` drives the
actions of `Delivery` and adds the process around them; it implements `Delivery`.

Three more modules are abstract, and each says what users of a component may
rely on without its mechanism:

- `RequestSharing`, implemented by `RdapLookup` (`ImplementsSharing`): a key has
  at most one request and one leader; a follower ends with the leader's answer,
  or without one if it, the leader or another follower was disturbed. The leader
  of a caller is read off the future it waits on.
- `CallbackContract`, implemented by `Delivery` and so by `Service`
  (`ImplementsCallbackContract`): Spring learns at most one result of a job,
  possibly after the service has given it up; the service settles a job once, as
  delivered only if Spring knows. Attempts, posts and answers do not occur in it.
- `FeedTable`, implemented by `UrlhausSync` (`ImplementsFeedTable`): a
  synchronisation publishes the acceptable rows of its CSV in whole batches and
  in their order, the last row of an id winning, and counts exactly those, or
  gives a batch up and counts none; no url is listed twice; a lookup is one
  question with an answer that was true while it ran. Write lock, open
  transaction, existing ids and single SELECTs do not occur in it. What a
  synchronisation has settled is the number of acceptable rows it has taken less
  those in its chunk (`Settled`).

`Pipeline` takes the results of unchaining, heuristic and content from sets
(`Pages`, `HeuristicScores`, `ContentResults`). `Unchain`, `DomainHeuristic` and
`ContentAnalysis` show what produces them. `Pages` has all eight combinations of
moved, cross-origin and unavailable: a chain that leaves the site and comes back
to the URL asked for ends there as a loop, so that one URL is looked up while the
redirect bonus is paid.

Data is abstracted to what the properties tell apart. Scores are numbers because
the verdict is about them; URLs are model values with the few relations the code
asks (https, host, domain, spelling), except for the heuristic, where a label is
a sequence of letters because the edit distance is about them; a callback is its
job, attempt and result. The content analysis sees a page as the things the
signals look for. A row of the CSV is an id and a url, with `NoUrl` for what
`_build_values` refuses, `BadUrl` for a url on which `urlparse` raises (such as
`http://[x`), `BadLine` for a line on which the csv module does, and `HugeIds` for
the ids SQLite cannot store, on which the SELECT raises an OverflowError. No
handler of `sync_urlhaus` knows these three: the synchronisation ends as "raised",
with its open chunk lost (`PullRaises`, `SelectRaises`).

### Mutants

Definitions whose comment begins with *Mutant of* are plausible bugs of the
definition they name (a guard dropped, a reset missed, an index off by one). No
specification uses them. Each property of each passing run is violated when its
mutant takes the place of the original, which shows that the run can tell the
difference. `PROJECT.json` lists the pairs.

## 3. Runs

`tlc -config X.cfg M` with the names below. `CHECK_DEADLOCK FALSE` everywhere:
analyses, jobs, chains and synchronisations end, and then nothing is left to do.

| Run | Module, cfg | Shows |
|---|---|---|
| rdap | `MCRdapLookup` | three analyses, requests shared, every order of answers, timers and cancellations; it implements `RequestSharing` |
| pipeline | `MCPipeline` | one analysis with all its tasks, lookups, failures and deadlines; its report is that of the stages in sequence; the refinement; it ends |
| db_independent | `MCNoDbAnalysis` | 17 URLs through patterns, DGA, the loop over the brands and the distance, inside one analysis with every duration of every stage; both refinements; the budget |
| delivery | `Service` | two jobs, an unreliable network, a crash, a shutdown at any moment beside a synchronisation; it implements `CallbackContract` |
| urlhaus_sync | `MCUrlhausSync` | two synchronisations, rows that raise, a restart, a lookup beside them; they implement `FeedTable` |
| unchain | `MCUnchain` | one chain, every answer of every server |
| content | `MCContentAnalysis` | two analyses of six pages compete for one slot of each pool, with a different page in the browser; their scores and the reasons for them; the pools |
| rdap_cancel | `MCRdapLookup`, `RdapCancel.cfg` | violation, section 6 |
| local_match | `MCPipeline`, `LocalMatch.cfg` | violation, section 6 |
| unchecked_safe | `MCPipeline`, `Unchecked.cfg` | violation, section 6 |
| cancel_absorbed | `MCContentAnalysis`, `CancelIsHonoured.cfg` | violation, section 6 |
| parsers_are_bounded | `MCContentAnalysis`, `ParsersAreBounded.cfg` | violation, section 6 |

Bounds, and why they are enough to meet the interesting cases:

- *rdap*: 3 callers, so that an owner has two waiters or a domain sees an owner,
  a waiter and a late-comer; 2 domains, one of which the idna codec refuses;
  Retry-After of -1, 1, 3 and none against a maximum cooldown of 2. The clock
  only matters to the cooldown, which counts down.
- *pipeline*: the default weights, caps and thresholds. Heuristic scores 0, 16,
  61 and 80, four content results: with and without the redirect bonus and a
  database match they put the sum below, at and above both thresholds. Both
  candidates of a redirect are looked up in both databases.
- *db_independent*: total 6, unchaining 4, domain 4, content 5, RDAP 4, margin 2,
  an overrun of 1. By default the stage budgets sum to 16 of the 20 seconds; all
  of them are settings, and here they exceed the total, so that a stage can be
  cut short by its own budget or by the total. The weights are the defaults; the
  URLs are chosen, since a state space of all strings would show no more: labels
  of 1 to 8 letters, brands of 3 and 5, so that lengths differ by less than, by
  exactly and by more than 2 and lie below and at `_MIN_FUZZY_LEN`; distances 0,
  1, 2 and more; two brands one letter apart, so that the exact match comes
  before and after a near one; the brand's suffix, a suspicious one, another one
  and none; hosting platforms and their users; an address; redirect values that
  are unreadable before and after others. Together they have every signal.
- *delivery*: 2 jobs, 2 results, 2 attempts instead of the code's 3, 1 crash, 1
  client. Two attempts suffice for a late post to meet a later one and for a
  retry to be the last: every attempt between the first and the last is the same
  action, and the proofs hold for any number. So they do for any number of
  clients, which are opened and closed independently of each other. The process
  may be stopped and started again as often as it likes.
- *urlhaus_sync*: 3 ids that fit and one that does not, and 3 urls, two of which
  are spellings of one; three CSVs of three rows with a refused row, a repeated id
  and a repeated url, and three that raise: at a url beside an open chunk, at a
  line, and at an id; chunks of 2, so that a CSV has a full and a partial chunk;
  one start of the scheduled job, one restart.
- *unchain*: five URLs: http, its https twin, another page of the site, another
  site, one without a host. 3 hops instead of the code's 5: a chain can visit
  three URLs and return, or run out of hops; nothing depends on the number.
- *content*: 2 analyses for 1 slot of each pool (the code has 8 and 2) and 2
  threads. Two contenders suffice since slots are counted, not named. Weights,
  caps and thresholds are the defaults; at most 3 links are looked at instead of
  1000, and one page has 4. Six pages, each of which may be followed by any other
  in the browser. Each analysis is cancelled at most once; a second cancellation
  of one that absorbed the first would meet it at the stages the first can. The
  pages: nothing, a shell, a login under another brand's name, a form
  that posts one-time codes elsewhere, a card form with lures, a download. They
  lie on both sides of what makes a page worth rendering.

## 4. Fairness

Fairness is weak everywhere, and only on steps the event loop or a timeout of
the code brings about. Nothing is assumed of the network.

- `RdapLookup`: a task that is ready runs (`WaiterResumes`, `CancelDelivered`),
  and the timer of `wait_for` fires (`TimerFires`). That the server answers is
  not assumed: `LookupEnds` rests on the timer.
- `Pipeline`: ready tasks run, the reputation deadline fires, unchaining and
  content analysis end (they are under deadlines of their own), a cancelled task
  ends. That a database answers is not assumed.
- `Delivery` and `Service`: an attempt ends (httpx timeout), a back-off ends, the
  pipeline returns (`AnalysisEnds`). That Spring answers is not assumed. Once
  asked to stop, uvicorn lets the lifespan go on when no job is left, the wait
  for the synchronisation ends (2 s), and each closing step is taken. Nothing is
  assumed of a synchronisation, and nobody need stop the service. That uvicorn
  waits as long as it takes is the external part: `entrypoint.sh` passes no
  `--timeout-graceful-shutdown`. The mutant `DrainGivesUp` shows what such a
  limit would cost.
- `UrlhausSync`: a synchronisation that can go on does. The write lock is
  released by whoever holds it, because a transaction only writes and commits.
- `Unchain`: each await ends (httpx and the resolver time out). The chain timeout
  needs no fairness: `UnchainEnds` holds without it.
- `ContentAnalysis`: each await ends (httpx, Playwright and the provider have
  timeouts, the parser terminates), and semaphores serve their waiters.
- `DbIndependentPipeline` and `NoDbAnalysis` have none: their properties are
  safety properties.

## 5. Proofs

`tlapm M.tla` for each of the modules below. They hold for every value of the
constants that satisfies the assumptions in the modules: any number of callers,
jobs, clients, ids, urls, spellings, labels, brands and hops, all weights,
thresholds and budgets. Each
proves the three facts of an inductive invariant `IInv` (it holds initially, each
action preserves it, it implies the properties) and combines them with PTL.

- **`RdapProofs`**: `SingleFlight`, `NoLostWakeup`, `LeakHasCulprit`,
  `CacheIsFetched`, `ImplementsSharing` and `AnswersAgree` (a waiter that got an
  answer got its owner's; the run sees it through `ImplementsSharing`). None is
  inductive: what a waiter gets depends on its owner's future, so `IInv` adds
  who may be in `_inflight` (`PendingIsFetching`), that a resolved future holds
  its owner's answer (`FutureIsAnswer`), that waiters joined a future of their
  own domain (`Joined`, `OwnFuture`) and how a future came to be cancelled
  (`SharedCancel`). The refinement has one lemma per kind of step: a call leads,
  follows or is answered from the cache; the end of an owner is its leader's,
  and the end of a waiter needs `FutureIsAnswer` and `SharedCancel` to be one
  that `RequestSharing` allows.
- **`PipelineProofs`**: `AsIfSequential`, `RaceFree`, `NoTaskForgotten`,
  `NoLateMatch` and `ImplementsContract`. `IInv` relates the stage
  of `rep` to that of the tasks (`TasksStarted`, `RepStages`), says how `rep`
  can have ended (`RepExits`), that the lookups of a page are those that were
  asked (`LookupsAsked`) and are settled when the threat task is done
  (`LookupsSettled`), and what `main` knows of the threat (`MainKnows`).
  `NoLateMatch` needs them together: the fetch begins when `rep` has returned
  without a match, `rep` returns only when both tasks have, and the threat task
  only when every candidate has its answer.
  `AsIfSequential` says that two tasks, their cancellations and the deadline
  cannot be told from the report: it is one of `Sequential`, the stages one
  after the other, with all the evidence, or, after a deadline or an exception
  only, with none of stages 2 and 3. `MatchIsReported` is its corollary for a
  match. The refinement: every step either leaves the outcome alone or decides
  it once with a sound verdict. `NoAnalysisIsEndless`: `Left`, the steps the
  analysis and its tasks still have, is at most 14 and falls with every step.
  `MoreEvidenceNeverHelps`, on the operators of `Scoring`: a higher heuristic or
  content score, or one more match, never gives a milder verdict.
- **`DbIndependentProofs`**: `WithinBudget`, `SlowRdapKeepsSignals`,
  `ImplementsContract`, and `CopiesAgree`: without a threat both copies of the
  scoring rules give the same. `IInv` bounds the clock stage by stage
  (`StageBounds`): a stage begun with time left ends within the total and an
  overrun, one begun without adds one more.
- **`NoDbProofs`**: `TypoIsExact`, `FoundSignalsScore`, `ImplementsPipeline`
  and, through the last one, the budget and the contract for the composition.
  The heart of it is that `_levenshtein` computes the distance. `Edits` is a
  constant that satisfies the recurrence of the edit distance
  (`EditsAssumption`), and the invariant `TableIsRight` says which row and
  column of it every cell of the one-row table holds. `LengthCutIsSound`: labels
  whose lengths differ by more than two are more than two edits apart. The
  installed provers cannot use an induction theorem, so it is proved by least
  counterexample: among the places of the table where one letter more or less
  changes the distance by more than one there would be a first one
  (`LeastNumber`, from the library's `NatLessThanWellFounded`), and the
  recurrence gives one before it. `LoopIsRight` says what `isTypo` means for the
  brands passed so far. More about the distance, by the same argument: along a
  diagonal of the table it grows by at most one, not at all where the letters
  agree, and stays zero only there (`AlongDiagonal`), labels of one length that
  differ in two places are at most two edits apart (`TwoPlaces`), and only equal
  labels are none apart (`ZeroIsEqual`). From these follow what users are
  promised: `TwoSlipsAreCaught` (a brand's label of sufficient length with two
  letters mistyped or swapped, under its suffix or a suspicious one, is always
  flagged unless the domain is another brand or of a hosting platform) and
  `ShortLabelsNeedEquality` (a short one only if it is the brand's).
- **`DeliveryProofs`**: `DeliveredWasReceived`, `SilentAfterDelivery`,
  `ImplementsCallbackContract` for `Delivery` and for `Service`, and
  `NoConflictingCallbacks` (all posts and receipts of a job carry one result).
  `IInv`: posts carry their job's result (`PostsAreOwn`), an answer under way is
  true (`AnswersAreTrue`), and a posting job is within its attempts
  (`Attempting`). `NoJobIsEndless`: whatever changes in a job takes one of at
  most 2 * MaxAttempts + 2 steps. `ServiceImplementsDelivery` carries them over
  to `Service`. `ClientsOutliveJobs` (from the first closing on no job is
  active, and what is open then will be closed) and `ShutdownLosesNothing` are
  the safety part of `ShutdownIsClean`.
- **`UrlhausProofs`**: `UrlsAreUnique`, `RowsAreAccounted`,
  `CountedIsCommitted`, `ImplementsFeedTable` and `LookupIsAtomic` (the lookup's
  part of it). `IInv`: only the holder of the write lock has uncommitted rows
  (`LockHeld`), they extend the committed ones (`PendingGrows`), what a
  synchronisation counted is in the table or in its open transaction
  (`Brought`), and what the lookup has seen so far (`SeenNow`). The table only
  grows in ids but a url may move, hence the history variable `seen`. The
  refinement needs a second invariant, `OrderInv`, on top of `IInv`: the chunk
  is what the parser accepted last, in the order of the CSV (`ChunkInOrder`),
  and the open transaction is the table with the first `applied` rows of the
  chunk merged in, the last row of an id winning (`PendingIsMerged`). A
  synchronisation that raised has accounted for all rows it took but at most one
  chunk (`LostBound`), and its exception is the abstract synchronisation giving a
  batch up (`ExceptionRefines`). Ranks (how
  many of the first k rows are acceptable) give both the same numbering:
  `RankSteps` and `RankOrder` count one row, `ChunkIsBatch` turns a committed
  chunk into the batch after the settled rows. `NoSyncIsEndless`: once it has
  its CSV, a synchronisation executes at most five statements for each of its
  rows and one more before it ends or the process is restarted; the worst CSV
  has a chunk per row. What the other synchronisation does with the write lock
  costs it none.
- **`UnchainProofs`**: `HopsAreAChain`, `FinalIsExplained`,
  `SignalsComeFromHops`, `UnavailableIsFinal`. `IInv` says what holds while the
  chain goes on: every hop is a redirect and the last one leads to the current
  URL (`Ongoing`), `visited` is what the hops and the request under way have
  asked (`Visits`, `Fresh`), and each redirect signal belongs to a hop
  (`SignalsTold`). Without `Visits` a loop could not be known to return to a URL
  of the chain. `NoChainIsEndless`: a chain has at most 4 * MaxHops + 2 steps,
  and each takes one of them, with no timeout needed.
- **`ContentProofs`**: `SlotsAreHeld`, `ResponsesAreClosed`, `ScoreIsExplained`,
  `RenderingHidesNothing`, `CancelledStartsNothing`, `ImplementsPools`. `IInv`
  adds that only a finished analysis has a result (`Unfinished`), that a cancelled
  one can only close its response or its browser, ask the provider or end, and
  that a page waits for a thread only while its analysis does (`Stopping`), that
  the current scoring pays for the signals it has (`ScoringPays`) and that the
  evidence of the static page is among them (`EvidenceIsKept`). Below it are lemmas on the
  pure operators: merging only adds evidence (`EvidenceGrows`), more evidence
  gives no fewer points (`EvidencePointsGrow`), and the reasons of a judged page
  add up to its score (`JudgedIsExplained`). The pools are counted with the
  library's theorems on cardinality, for any finite number of analyses; the
  refinement maps each step to one entrance, one exit or a stutter.
  `NoPageIsEndless`: an analysis has at most 19 steps, its thread's and a
  cancellation among them, and every step is one of them; the second extraction
  does not lead to a second rendering.

Model-checked only: all liveness properties (`LookupEnds`, `AnalysisEnds`,
`JobSettles`, the end of a shutdown in `ShutdownIsClean`, `SyncEnds`,
`UnchainEnds`, `AnalysesEnd`), since the prover does not treat fairness, and the
violations.

Half of five of them is proved: `NoAnalysisIsEndless`, `NoJobIsEndless`,
`NoSyncIsEndless`, `NoChainIsEndless` and `NoPageIsEndless` bound the number of
steps, so that an analysis, a job, a synchronisation or a chain can only fail to
end by standing still. That it does not stand still is what TLC checks under
fairness.

## 6. Where the code and its documentation disagree

Each of these is a run whose one property states what the documentation says and
which TLC refutes with a trace.

- **`CancelIsolated`** (rdap_cancel). A comment says an RDAP failure is isolated
  from the analysis. `lookup_rdap` awaits the shared future unshielded. In the
  trace the timer of the caller that owns the request fires, a second caller
  finds the request in flight and waits, and when the owner is cancelled it
  stores its `CancelledError` in the future: the owner reports a timeout, the
  second caller ends with a `CancelledError` that neither `check_domain_heuristic`
  nor `run_pipeline` catches. A waiter that is cancelled does the same to the
  other waiters; the owner then keeps its answer (`rdap.py:226-228`).
  `LeakHasCulprit`, which holds, says that this is the only way.
- **`LocalMatchDecides`** (local_match). `threat_db/check.py:68` says that if one
  database fails the other one decides. A slow Safe Browsing lookup runs into
  the reputation deadline, which discards the URLhaus match with it.
- **`UncheckedIsNotSafe`** (unchecked_safe). `threat_db/check.py:68-69` says the
  layer above is conservative when no database could be asked. It does not look.
- **`CancelIsHonoured`** (cancel_absorbed). `analyze.py:4-5` says `CancelledError` is
  always raised again. In the trace a cancellation arrives while the body is
  read, `resp.aclose()` in the finally clause raises, and the handlers of
  `fetch_page` make a result of that exception in place of the `CancelledError`.
  The models have two more ways: `browser.close()` under the `except Exception` of
  `render_page`, and `wait_for` around the post to the provider.
  `CancelledStartsNothing`, which holds, bounds the harm: such an analysis may
  still ask the provider, but neither parses nor renders any more.
- **`ParsersAreBounded`** (parsers_are_bounded). `core/config.py:186-187` says the
  semaphore bounds the pages parsed at once. A cancelled analysis gives its slot
  back while its thread still parses.

Noted while modelling, modelled as the code has it, without a run of their own:

- `core/config.py:220` says that from the danger threshold on content analysis is
  skipped. Only a database match skips it (`pipeline.py:574-599`).
- The docstring of `fetch_page` (`fetch.py:211`) says that it never raises. A host
  the idna codec refuses makes it raise outside its try (`FetchRaises`).
- The docstring of `_build_values` (`urlhaus_sync.py:109`) says that a row it cannot
  use is None. A url `urlparse` refuses raises out of `sync_urlhaus`: the row is in
  `total` and in no other counter, the chunk read so far is neither committed
  nor counted, and the rest of the CSV is not read. No statistics are returned.
- The reasons of a callback may list weights that were not paid: `FETCH_FAILED` of
  a page that is no HTML and costs nothing, lures on a page that
  asks for nothing, a suspicion of the AI that was withheld. `ScoreIsExplained` is the other
  direction: what was paid is listed.
- `urlhaus_sync.py:12-14` promises exact counts of inserted and updated rows. Two
  synchronisations may both count a row as inserted, and so may one that meets
  an id twice in a chunk; `RowsAreAccounted` therefore speaks of the sum.
- A redirect target that `urljoin` or `urlparse` refuses, or httpx when it is asked
  for next, raises out of `unchain_url` (`UrlIsRefused`); the pipelines put their
  placeholder in its place (`UnchainFails`).
- `page_unavailability.py:60` looks for the prefix `http_error_`, `unchain.py`
  writes `http_error: `. `Unavailable` in `Unchain` follows the code.
- A redirect value that `urlparse` refuses makes `check_patterns` raise
  (`patterns.py:278`), and every signal of the patterns is lost with it.
- A shutdown does not wait for a synchronisation the scheduler started, only for
  that of the start-up, and for that at most 2 s (`main.py:81-89`).
- A slow fetch and a slow AI provider together exceed the content deadline, and
  the score the rules had already given is replaced by that of a failed fetch.

## 7. Not modelled

- Reading a string: the parsing of URLs and HTML, normalisation, the word lists,
  entropy, match keys. The models choose among URLs and pages that have the
  features the code looks for; what it makes of the features is modelled.
- Wording and layout of the callback, and its reasons for the stages before the
  content analysis.
- The DNS cache: every check of a host may end either way in `Unchain` and
  `ContentAnalysis`, which covers cached, stale and fresh answers alike. An entry
  is one assignment without an await, and no property of its clients depends on
  where an answer comes from.
- The wording of Safe Browsing's errors: a lookup matches, does not, or fails.
- The database session that two lookups of one analysis share
  (`threat_db/check.py:73`): a lookup the library refuses is one of those that
  fail.
- Request plumbing, middleware, health, schemas, logging, offline evaluation:
  no control of their own.

`PROJECT.json` lists every component with its status, every definition with the
lines it models, and every hazard with the properties that cover it. Three
hazards have none: a request repeated with the same analysisId (nothing in the
code identifies jobs by it), the shared session above, and the score that a slow
provider costs (section 6).

## 8. Plan

Done, the most important behaviour first: `RdapLookup`, `Scoring` with
`AnalysisContract`, `Pipeline`, `Delivery`, `DbIndependentPipeline`,
`UrlhausSync`, `Unchain`, `ContentAnalysis` with its pools, scoring and reasons,
`DomainHeuristic` with its composition `NoDbAnalysis`, `Service`. What would add
most from here:

1. A composition of `RdapLookup` with the heuristic task of several `Pipeline`s:
   the leaked cancellation ends an analysis nobody cancelled, and the callback of
   its job is never sent.
2. `DomainHeuristic` and `ContentAnalysis` in place of the sets of scores in
   `Pipeline`, as in `NoDbAnalysis`.
3. A timed content stage: fetch, render and provider timeouts against the content
   deadline.
4. The reasons of the remaining stages in `CallbackReasons`.

Theorems to come with them: that no analysis but one sharing a domain with a
cancelled one can be aborted, and that the composed pipeline still implements
the contract.
