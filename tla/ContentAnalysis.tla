--------------------------- MODULE ContentAnalysis ---------------------------
(***************************************************************************)
(* analyze_content of content_analyzer/analyze.py, run by several analyses *)
(* at once: fetch_page, extract_features_async on a thread behind a        *)
(* semaphore, a browser behind another one when the page deserves a closer *)
(* look, the AI provider, and the score.  An analysis can be cancelled at  *)
(* any await, by the content deadline, by its owner or by a shutdown.      *)
(***************************************************************************)
EXTENDS CallbackReasons

CONSTANTS
  Analyses,
  ExtractSlots, RenderSlots, \* content_extract_concurrency, content_render_concurrency
  Workers,                   \* threads of the event loop's executor
  Pages                      \* the pages servers send and browsers render

ASSUME PoolsAssumption ==
  /\ IsFiniteSet(Analyses)
  /\ ExtractSlots \in Nat \ {0} /\ RenderSlots \in Nat \ {0} /\ Workers \in Nat \ {0}

\* What the parser can find.
Found == {Extract(page) : page \in Pages}

ASSUME PagesAssumption == Found \subseteq Features

VARIABLES
  pc,          \* the await each analysis is at
  cancelled,   \* whether it has been asked to stop
  fetch,       \* "ok" or the error its response comes to
  response,    \* whether its response is open
  thread,      \* the thread that parses its page, if any
  pass,        \* 1 for the static page, 2 for the rendered one
  static,      \* the features of the static page, a history
  scoring,     \* the score and the signals of the features scored last
  rendered,    \* how its browser ended
  browser,     \* whether it is open
  extractFree, renderFree,
  result

own == <<pc, cancelled, fetch, response, thread, pass, static, scoring, rendered, browser,
         result>>
vars == <<own, extractFree, renderFree>>
-----------------------------------------------------------------------------
NoResult == [fetched |-> FALSE, error |-> "none", score |-> -1, signals |-> {}, ai |-> "none"]

Signals == Evidence \cup Impressions \cup {"SPA_SHELL", "RENDERED_DOM_ANALYZED", "FETCH_FAILED"}

Scorings == [score : 0..ContentCap, signals : SUBSET Signals]

Results ==
  [fetched : BOOLEAN, error : {"none"} \cup FetchErrors, score : 0..ContentCap,
   signals : SUBSET Signals, ai : Inferences]

NoFeatures == [marks |-> {}, title |-> "untitled", fields |-> {}, alts |-> {},
               links |-> "none", shell |-> FALSE]

Stages == {"resolve", "request", "body", "closeBody", "awaitExtract", "extract", "target",
           "awaitRender", "render", "closing", "ai", "done", "raised", "cancelled"}
Ended == {"done", "raised", "cancelled"}

Init ==
  /\ pc = [a \in Analyses |-> "resolve"]
  /\ cancelled = [a \in Analyses |-> FALSE]
  /\ fetch = [a \in Analyses |-> "ok"]
  /\ response = [a \in Analyses |-> FALSE]
  /\ thread = [a \in Analyses |-> "none"]
  /\ pass = [a \in Analyses |-> 1]
  /\ static = [a \in Analyses |-> NoFeatures]
  /\ scoring = [a \in Analyses |-> [score |-> 0, signals |-> {}]]
  /\ rendered = [a \in Analyses |-> "no"]
  /\ browser = [a \in Analyses |-> FALSE]
  /\ extractFree = ExtractSlots /\ renderFree = RenderSlots
  /\ result = [a \in Analyses |-> NoResult]

Moves(a, to) == pc' = [pc EXCEPT ![a] = to]

Returns(a, r) == Moves(a, "done") /\ result' = [result EXCEPT ![a] = r]

\* _fetch_failed_result
Unreached(error) ==
  [fetched |-> FALSE, error |-> error, score |-> FetchFailed(error),
   signals |-> {"FETCH_FAILED"}, ai |-> "none"]

\* What fetch_page and everything before the semaphores leave alone.
analysed == <<thread, pass, static, scoring, rendered, browser, extractFree, renderFree>>
-----------------------------------------------------------------------------
\* The check of the host lets the request go: its addresses are public, or they
\* could not be found, which is left to the connection.
HostPasses(a) ==
  /\ pc[a] = "resolve"
  /\ Moves(a, "request")
  /\ UNCHANGED <<cancelled, fetch, response, result, analysed>>

HostIsBlocked(a) ==
  /\ pc[a] = "resolve"
  /\ Returns(a, Unreached("blocked_host"))
  /\ UNCHANGED <<cancelled, fetch, response, analysed>>

\* A name the idna codec refuses is a UnicodeError, which except OSError lets
\* through; so is an empty pool of user agents outside the try.
FetchRaises(a) ==
  /\ pc[a] = "resolve"
  /\ Moves(a, "raised")
  /\ UNCHANGED <<cancelled, fetch, response, result, analysed>>

RequestFails(a) ==
  /\ pc[a] = "request"
  /\ \E error \in RequestErrors : Returns(a, Unreached(error))
  /\ UNCHANGED <<cancelled, fetch, response, analysed>>

ResponseArrives(a) ==
  /\ pc[a] = "request"
  /\ response' = [response EXCEPT ![a] = TRUE]
  /\ Moves(a, "body")
  /\ UNCHANGED <<cancelled, fetch, result, analysed>>

\* Its status, its headers or its size refuse it, reading it fails, or it is a page.
BodyIsRead(a) ==
  /\ pc[a] = "body"
  /\ \E outcome \in {"ok"} \cup ResponseErrors \cup RequestErrors :
       fetch' = [fetch EXCEPT ![a] = outcome]
  /\ Moves(a, "closeBody")
  /\ UNCHANGED <<cancelled, response, result, analysed>>

AfterFetch(a) ==
  IF cancelled[a] THEN Moves(a, "cancelled") /\ UNCHANGED result
  ELSE IF fetch[a] = "ok" THEN Moves(a, "awaitExtract") /\ UNCHANGED result
  ELSE Returns(a, Unreached(fetch[a]))

\* The finally clause raises: its exception takes the place of the page, of the error
\* and of a CancelledError alike, and the handlers of fetch_page make it a result.
CloseFails(a) == \E error \in RequestErrors : Returns(a, Unreached(error))

\* Mutant of ResponseCloses: a response that is not a page is not closed.
ResponseClosesPages(a) ==
  /\ pc[a] = "closeBody"
  /\ response' = [response EXCEPT ![a] = fetch[a] # "ok"]
  /\ AfterFetch(a) \/ CloseFails(a)
  /\ UNCHANGED <<cancelled, fetch, analysed>>

\* finally: await resp.aclose(), which marks the response closed before it can fail.
ResponseCloses(a) ==
  /\ pc[a] = "closeBody"
  /\ response' = [response EXCEPT ![a] = FALSE]
  /\ AfterFetch(a) \/ CloseFails(a)
  /\ UNCHANGED <<cancelled, fetch, analysed>>
-----------------------------------------------------------------------------
fetched == <<fetch, response>>

\* Mutant of EntersExtract: every call makes a semaphore of its own.
EntersAtOnce(a) ==
  /\ pc[a] = "awaitExtract"
  /\ extractFree' = extractFree - 1
  /\ Moves(a, "extract")
  /\ thread' = [thread EXCEPT ![a] = "queued"]
  /\ UNCHANGED <<cancelled, fetched, pass, static, scoring, rendered, browser, result,
                 renderFree>>

\* The semaphore lets the analysis in, and to_thread hands the page to a thread.
EntersExtract(a) ==
  /\ pc[a] = "awaitExtract"
  /\ extractFree > 0
  /\ extractFree' = extractFree - 1
  /\ Moves(a, "extract")
  /\ thread' = [thread EXCEPT ![a] = "queued"]
  /\ UNCHANGED <<cancelled, fetched, pass, static, scoring, rendered, browser, result,
                 renderFree>>

\* The executor has a thread for it.
ThreadStarts(a) ==
  /\ thread[a] = "queued"
  /\ Cardinality({b \in Analyses : thread[b] = "running"}) < Workers
  /\ thread' = [thread EXCEPT ![a] = "running"]
  /\ UNCHANGED <<pc, cancelled, fetched, pass, static, scoring, rendered, browser, result,
                 extractFree, renderFree>>

\* The features of the static page are scored, and decide whether it is rendered.
StaticScored(a, found) ==
  LET new == Scoring(found)
  IN  /\ static' = [static EXCEPT ![a] = found]
      /\ scoring' = [scoring EXCEPT ![a] = new]
      /\ Moves(a, IF NeedsPrecision(found, new.score) THEN "target" ELSE "ai")

\* Those of the rendered page are merged with them and scored again.
MergedScored(a, found) ==
  LET new == Scoring(Merge(static[a], found))
  IN  /\ scoring' = [scoring EXCEPT ![a] =
                       [new EXCEPT !.signals = @ \cup {"RENDERED_DOM_ANALYZED"}]]
      /\ Moves(a, "ai")
      /\ UNCHANGED static

\* The thread returns the features.
Extracted(a) ==
  /\ pc[a] = "extract" /\ thread[a] = "running"
  /\ thread' = [thread EXCEPT ![a] = "none"]
  /\ extractFree' = extractFree + 1
  /\ \E found \in Found : \/ pass[a] = 1 /\ StaticScored(a, found)
                          \/ pass[a] = 2 /\ MergedScored(a, found)
  /\ UNCHANGED <<cancelled, fetched, pass, rendered, browser, result, renderFree>>

\* The parser, or urljoin on a malformed link, raises: the exception leaves
\* analyze_content.
ExtractRaises(a) ==
  /\ pc[a] = "extract" /\ thread[a] = "running"
  /\ thread' = [thread EXCEPT ![a] = "none"]
  /\ extractFree' = extractFree + 1
  /\ Moves(a, "raised")
  /\ UNCHANGED <<cancelled, fetched, pass, static, scoring, rendered, browser, result,
                 renderFree>>

\* The thread of a cancelled analysis ends; nobody waits for it.
OrphanEnds(a) ==
  /\ pc[a] # "extract" /\ thread[a] = "running"
  /\ thread' = [thread EXCEPT ![a] = "none"]
  /\ UNCHANGED <<pc, cancelled, fetched, pass, static, scoring, rendered, browser, result,
                 extractFree, renderFree>>
-----------------------------------------------------------------------------
\* What the steps between the semaphores leave alone.
extraction == <<thread, pass, static, scoring, extractFree>>

\* No rendering: a blocked host, or Playwright is missing; the check of the host
\* can raise as in fetch_page.
RenderRefused(a) ==
  /\ pc[a] = "target"
  /\ \E to \in {"ai", "raised"} : Moves(a, to)
  /\ UNCHANGED <<cancelled, fetched, extraction, rendered, browser, result, renderFree>>

TargetPasses(a) ==
  /\ pc[a] = "target"
  /\ Moves(a, "awaitRender")
  /\ UNCHANGED <<cancelled, fetched, extraction, rendered, browser, result, renderFree>>

EntersRender(a) ==
  /\ pc[a] = "awaitRender"
  /\ renderFree > 0
  /\ renderFree' = renderFree - 1
  /\ Moves(a, "render")
  /\ UNCHANGED <<cancelled, fetched, extraction, rendered, browser, result>>

BrowserOpens(a) ==
  /\ pc[a] = "render" /\ ~browser[a]
  /\ browser' = [browser EXCEPT ![a] = TRUE]
  /\ UNCHANGED <<pc, cancelled, fetched, extraction, rendered, result, renderFree>>

\* The page is rendered, or something goes wrong; the browser is closed first.
RenderEnds(a) ==
  /\ pc[a] = "render"
  /\ \E how \in {"failed"} \cup (IF browser[a] THEN {"ok"} ELSE {}) :
       rendered' = [rendered EXCEPT ![a] = how]
  /\ Moves(a, "closing")
  /\ UNCHANGED <<cancelled, fetched, extraction, browser, result, renderFree>>

\* Mutant of AfterRender: the finally clause returns the page, and with it drops the
\* CancelledError.
AfterRenderInFinally(a) ==
  IF rendered[a] = "ok"
    THEN Moves(a, "awaitExtract") /\ pass' = [pass EXCEPT ![a] = 2]
    ELSE Moves(a, "ai") /\ UNCHANGED pass

AfterRender(a) ==
  IF cancelled[a] THEN Moves(a, "cancelled") /\ UNCHANGED pass
  ELSE IF rendered[a] = "ok"
    THEN Moves(a, "awaitExtract") /\ pass' = [pass EXCEPT ![a] = 2]
    ELSE Moves(a, "ai") /\ UNCHANGED pass

\* Closing the browser, or Playwright after it, raises: except Exception makes that a
\* failed rendering, also in place of a CancelledError, and the static page is judged.
CloseRaises(a) == Moves(a, "ai") /\ UNCHANGED pass

\* Mutant of BrowserCloses: the slot is given back by a rendering that worked,
\* not by one that failed.
BrowserClosesSlotKept(a) ==
  /\ pc[a] = "closing"
  /\ browser' = [browser EXCEPT ![a] = FALSE]
  /\ renderFree' = IF rendered[a] = "ok" THEN renderFree + 1 ELSE renderFree
  /\ AfterRender(a) \/ CloseRaises(a)
  /\ UNCHANGED <<cancelled, fetched, thread, static, scoring, rendered, result, extractFree>>

\* The finally clause and the end of async with: the slot is given back when the
\* browser is gone.
BrowserCloses(a) ==
  /\ pc[a] = "closing"
  /\ browser' = [browser EXCEPT ![a] = FALSE]
  /\ renderFree' = renderFree + 1
  /\ AfterRender(a) \/ CloseRaises(a)
  /\ UNCHANGED <<cancelled, fetched, thread, static, scoring, rendered, result, extractFree>>
-----------------------------------------------------------------------------
\* The result of a page that was analysed.
Judged(a, verdict, weight) ==
  [fetched |-> TRUE, error |-> "none", score |-> Cap(scoring[a].score + weight),
   signals |-> scoring[a].signals, ai |-> verdict]

\* Mutant of AiAnswers: a provider that has no answer costs the score of the rules.
AiFailureIsFetchFailure(a) ==
  /\ pc[a] = "ai"
  /\ \E verdict \in Inferences, context \in Contexts :
       LET judged == Judged(a, verdict, AiWeight(scoring[a].signals, verdict, context))
       IN  Returns(a, IF verdict = "none" THEN [judged EXCEPT !.score = FetchFailedScore]
                      ELSE judged)
  /\ UNCHANGED <<cancelled, fetched, analysed>>

\* The provider answers, or fails; its weight is added and the sum is capped.
AiAnswers(a) ==
  /\ pc[a] = "ai"
  /\ \E verdict \in Inferences, context \in Contexts :
       Returns(a, Judged(a, verdict, AiWeight(scoring[a].signals, verdict, context)))
  /\ UNCHANGED <<cancelled, fetched, analysed>>
-----------------------------------------------------------------------------
\* A thread that has not started is dropped with the future that waits for it.
DropQueued(a) ==
  thread' = [thread EXCEPT ![a] = IF @ = "queued" THEN "none" ELSE @]

\* Where a cancellation takes an analysis: a response or a browser is closed first.
Unwinds(stage) ==
  CASE stage \in {"body", "closeBody"} -> "closeBody"
    [] stage \in {"render", "closing"} -> "closing"
    [] OTHER -> "cancelled"

\* Mutant of Cancel: the slot is given back but the browser is left open.
CancelLeavesBrowser(a) ==
  /\ pc[a] \notin Ended /\ ~cancelled[a]
  /\ cancelled' = [cancelled EXCEPT ![a] = TRUE]
  /\ Moves(a, IF Unwinds(pc[a]) = "closing" THEN "cancelled" ELSE Unwinds(pc[a]))
  /\ extractFree' = IF pc[a] = "extract" THEN extractFree + 1 ELSE extractFree
  /\ renderFree' = IF pc[a] \in {"render", "closing"} THEN renderFree + 1 ELSE renderFree
  /\ DropQueued(a)
  /\ UNCHANGED <<fetched, pass, static, scoring, rendered, browser, result>>

\* CancelledError is raised at the await the analysis is at; no handler keeps it.
Cancel(a) ==
  /\ pc[a] \notin Ended /\ ~cancelled[a]
  /\ cancelled' = [cancelled EXCEPT ![a] = TRUE]
  /\ Moves(a, Unwinds(pc[a]))
  /\ extractFree' = IF pc[a] = "extract" THEN extractFree + 1 ELSE extractFree
  /\ DropQueued(a)
  /\ UNCHANGED <<fetched, pass, static, scoring, rendered, browser, result, renderFree>>

\* wait_for around the post to the provider: if the post is done when the cancellation
\* is delivered, Python 3.11 returns what it came to, and infer goes on with it.
CancelTooLate(a) ==
  /\ pc[a] = "ai" /\ ~cancelled[a]
  /\ cancelled' = [cancelled EXCEPT ![a] = TRUE]
  /\ UNCHANGED <<pc, fetched, result, analysed>>

Progress(a) ==
  \/ HostPasses(a) \/ HostIsBlocked(a) \/ FetchRaises(a)
  \/ RequestFails(a) \/ ResponseArrives(a) \/ BodyIsRead(a) \/ ResponseCloses(a)
  \/ EntersExtract(a) \/ ThreadStarts(a) \/ Extracted(a) \/ ExtractRaises(a) \/ OrphanEnds(a)
  \/ RenderRefused(a) \/ TargetPasses(a) \/ EntersRender(a) \/ BrowserOpens(a) \/ RenderEnds(a)
  \/ BrowserCloses(a) \/ AiAnswers(a)

Next == \E a \in Analyses : Progress(a) \/ Cancel(a) \/ CancelTooLate(a)

\* Every await ends: httpx, Playwright and the provider have timeouts of their
\* own, the parser terminates and asyncio's semaphores serve in order.
Spec == Init /\ [][Next]_vars /\ \A a \in Analyses : WF_vars(Progress(a))
-----------------------------------------------------------------------------
\* The type invariant.
TypeOK ==
  /\ pc \in [Analyses -> Stages]
  /\ cancelled \in [Analyses -> BOOLEAN]
  /\ fetch \in [Analyses -> {"ok"} \cup FetchErrors]
  /\ response \in [Analyses -> BOOLEAN]
  /\ thread \in [Analyses -> {"none", "queued", "running"}]
  /\ pass \in [Analyses -> {1, 2}]
  /\ static \in [Analyses -> Features]
  /\ scoring \in [Analyses -> Scorings]
  /\ rendered \in [Analyses -> {"no", "ok", "failed"}]
  /\ browser \in [Analyses -> BOOLEAN]
  /\ extractFree \in 0..ExtractSlots /\ renderFree \in 0..RenderSlots
  /\ result \in [Analyses -> Results \cup {NoResult}]

\* Both pools add up on every way out of an analysis, and a browser is open only
\* for one that holds a render slot.
SlotsAreHeld ==
  /\ extractFree + Cardinality({a \in Analyses : pc[a] = "extract"}) = ExtractSlots
  /\ renderFree + Cardinality({a \in Analyses : pc[a] \in {"render", "closing"}})
       = RenderSlots
  /\ \A a \in Analyses : browser[a] => pc[a] \in {"render", "closing"}

\* fetch.py:289: a streamed response keeps a connection of the shared client, so
\* that none may stay open beyond the fetch, whichever of the nine ways it ends.
ResponsesAreClosed == \A a \in Analyses : response[a] => pc[a] \in {"body", "closeBody"}

\* analysis_callback.py:85 and analyze.py:4: the reasons Spring is given account for
\* the score, which their table of weights had no part in, whatever became of the
\* fetch, the rendering and the provider; what fails there takes nothing from the
\* score of the rules.
ScoreIsExplained == \A a \in Analyses : pc[a] = "done" => Explained(result[a])

\* _merge_features: the forms, fields, downloads, lures and refreshes of the static
\* page are reported and paid for although the browser may show another page.
\* Titles, alts and link ratios are not among them: the rendered page may replace
\* those, and with them the score they gave.
RenderingHidesNothing ==
  \A a \in Analyses :
    pc[a] = "done" /\ result[a].fetched =>
      LET shown == SignalsOf(static[a])
      IN  /\ shown \cap Evidence \subseteq result[a].signals
          /\ result[a].score >= Cap(EvidencePoints(Counted(shown)))

\* fetch.py:291-305, render.py:108-117 and ai_openai.py:248: handlers that end a
\* failure as a result can do the same to a cancellation.  Where that happens the
\* analysis may still ask the provider, but it parses nothing, takes no slot and opens
\* no browser any more.
CancelledStartsNothing ==
  \A a \in Analyses : cancelled[a] =>
    pc[a] \in {"closeBody", "closing", "ai"} \cup Ended /\ thread[a] # "queued"

\* analyze.py:4-5: what fails outside is absorbed as a degraded result, but
\* CancelledError is always raised again, so that what was asked to stop has no result.
CancelIsHonoured == \A a \in Analyses : cancelled[a] => result[a] = NoResult

ExtractPool == INSTANCE SlotPool WITH
  Clients <- Analyses, Slots <- ExtractSlots, holders <- {a \in Analyses : pc[a] = "extract"}
RenderPool == INSTANCE SlotPool WITH
  Clients <- Analyses, Slots <- RenderSlots,
  holders <- {a \in Analyses : pc[a] \in {"render", "closing"}}

\* extract.py:437-460 and render.py:33-40: both semaphores are one semaphore for all
\* analyses, entered and left one at a time.
ImplementsPools == ExtractPool!Spec /\ RenderPool!Spec

\* Every analysis ends and every thread with it, although they queue for slots
\* and threads and any of them may be cancelled or fail.
AnalysesEnd == \A a \in Analyses : <>(pc[a] \in Ended /\ thread[a] = "none")

\* config.py:186-187 and extract.py:453-456: the semaphore puts a ceiling on the
\* pages parsed at once.
ParsersAreBounded ==
  Cardinality({a \in Analyses : thread[a] = "running"}) <= ExtractSlots
=============================================================================
