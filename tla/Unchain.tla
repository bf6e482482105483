------------------------------- MODULE Unchain -------------------------------
(***************************************************************************)
(* unchain_url of unchainer/unchain.py: follows a chain of redirects hop   *)
(* by hop, HEAD first and GET where HEAD does not do, each host checked    *)
(* before it is asked, and ends with a final URL, the hops, an error and   *)
(* signals.  unchain_page_unavailable of page_unavailability.py reads the  *)
(* result.  Servers and the DNS may answer anything at any time; a URL the *)
(* libraries refuse leaves unchain_url as an exception.                    *)
(***************************************************************************)
EXTENDS Integers, Sequences, FiniteSets

CONSTANTS
  Urls,
  NoUrl,     \* stands for the target of a hop that has none
  Https,     \* those whose scheme is https
  Hostless,  \* those without a host
  Domain,    \* the registered domain of each URL
  Twin,      \* the https variant of each http URL with a host
  MaxHops

ASSUME UrlsAssumption ==
  /\ NoUrl \notin Urls
  /\ Https \subseteq Urls /\ Hostless \subseteq Urls
  /\ Twin \in [Urls \ (Https \cup Hostless) -> Https]
  /\ MaxHops \in Nat \ {0}

VARIABLES
  input,
  pc,       \* the await it is at; "done" when the result is returned, "raised"
            \* after an exception
  current,
  visited,
  rounds,   \* iterations of the loop begun
  method,   \* of the request under way
  hops, error, signals, timedOut

vars == <<input, pc, current, visited, rounds, method, hops, error, signals, timedOut>>
-----------------------------------------------------------------------------
\* How a request that gets no response ends, by the error of the GET.
Failures == {"timeout", "dns_failure", "connection_refused", "http_error"}

\* Responses: "refused" is 400, 403 or 405, the statuses a HEAD is not believed
\* for; "missing" any other 4xx; "page" what is neither an error nor a redirect.
Statuses == {"page", "refused", "missing", "server_error", "redirect"}

Hops == [url : Urls, status : Statuses, to : Urls \cup {NoUrl}]

Hop(status, to) == [url |-> current, status |-> status, to |-> to]

Init ==
  /\ input \in Urls
  /\ pc \in {"begin", "loop"} \* "begin" when the scheme was added to the input
  /\ current = input
  /\ visited = {} /\ rounds = 0 /\ method = "HEAD"
  /\ hops = <<>> /\ error = "none" /\ signals = {} /\ timedOut = FALSE
-----------------------------------------------------------------------------
\* _https_responds: the host of the https variant is checked, a HEAD is sent.
Probe ==
  /\ pc = "begin"
  /\ pc' = "loop"
  /\ \/ UNCHANGED <<current, signals>>
     \/ /\ current \in DOMAIN Twin
        /\ current' = Twin[current]
        /\ signals' = signals \cup {"schemeless_https_upgrade"}
  /\ UNCHANGED <<input, visited, rounds, method, hops, error, timedOut>>

Enter ==
  /\ visited' = visited \cup {current}
  /\ rounds' = rounds + 1
  /\ pc' = "check"
  /\ UNCHANGED signals

Leave(signal) ==
  /\ signals' = signals \cup {signal}
  /\ pc' = "done"
  /\ UNCHANGED <<visited, rounds>>

\* Mutants of Loop: the end of the range is not reported; URLs already visited
\* are entered again.
LoopQuietly ==
  /\ pc = "loop"
  /\ IF rounds = MaxHops THEN pc' = "done" /\ UNCHANGED <<visited, rounds, signals>>
     ELSE IF current \in visited THEN Leave("redirect_loop")
     ELSE Enter
  /\ UNCHANGED <<input, current, method, hops, error, timedOut>>

LoopRevisits ==
  /\ pc = "loop"
  /\ IF rounds = MaxHops THEN Leave("max_hops_reached") ELSE Enter
  /\ UNCHANGED <<input, current, method, hops, error, timedOut>>

\* The head of the for loop, and its else branch.
Loop ==
  /\ pc = "loop"
  /\ IF rounds = MaxHops THEN Leave("max_hops_reached")
     ELSE IF current \in visited THEN Leave("redirect_loop")
     ELSE Enter
  /\ UNCHANGED <<input, current, method, hops, error, timedOut>>

\* _check_host_safety, on an answer of the DNS or of its cache.
HostIsSafe ==
  /\ pc = "check"
  /\ current \notin Hostless
  /\ pc' = "request" /\ method' = "HEAD"
  /\ UNCHANGED <<input, current, visited, rounds, hops, error, signals, timedOut>>

HostIsNot ==
  /\ pc = "check"
  /\ \E reason \in IF current \in Hostless THEN {"invalid_host"}
                   ELSE {"dns_failure", "ssrf_blocked"} :
       /\ error' = reason
       /\ signals' = signals \cup ({reason} \cap {"ssrf_blocked"})
  /\ pc' = "done"
  /\ UNCHANGED <<input, current, visited, rounds, method, hops, timedOut>>
-----------------------------------------------------------------------------
\* Mutant of TryGet: a GET that did not do is followed by a HEAD again.
TryTheOther ==
  /\ method' = IF method = "HEAD" THEN "GET" ELSE "HEAD"
  /\ UNCHANGED <<input, pc, current, visited, rounds, hops, error, signals, timedOut>>

\* HEAD did not do: the same URL is asked with GET.
TryGet ==
  /\ method = "HEAD" /\ method' = "GET"
  /\ UNCHANGED <<input, pc, current, visited, rounds, hops, error, signals, timedOut>>

\* The hop is the last one.
Last(status, to, reason) ==
  /\ hops' = Append(hops, Hop(status, to))
  /\ error' = reason
  /\ pc' = "done"
  /\ UNCHANGED <<input, current, visited, rounds, method, timedOut>>

\* No response.
RequestFails ==
  /\ pc = "request"
  /\ \/ TryGet
     \/ /\ method = "GET"
        /\ \E reason \in Failures : error' = reason /\ timedOut' = (reason = "timeout")
        /\ pc' = "done"
        /\ UNCHANGED <<input, current, visited, rounds, method, hops, signals>>

\* Mutant of Refused: the HEAD that was refused is recorded.
RefusedIsHop ==
  /\ pc = "request"
  /\ \/ /\ method = "HEAD" /\ method' = "GET"
        /\ hops' = Append(hops, Hop("refused", NoUrl))
        /\ UNCHANGED <<input, pc, current, visited, rounds, error, signals, timedOut>>
     \/ method = "GET" /\ Last("refused", NoUrl, "none") /\ UNCHANGED signals

\* 400, 403, 405.
Refused ==
  /\ pc = "request"
  /\ \/ TryGet
     \/ method = "GET" /\ Last("refused", NoUrl, "none") /\ UNCHANGED signals

\* Any other response that ends the chain; a 5xx is an error.
Answered ==
  /\ pc = "request"
  /\ \/ Last("page", NoUrl, "none")
     \/ Last("missing", NoUrl, "none")
     \/ Last("server_error", NoUrl, "server_error")
  /\ UNCHANGED signals

\* A redirect without a Location.
NoLocation ==
  /\ pc = "request"
  /\ \/ TryGet
     \/ /\ method = "GET"
        /\ Last("redirect", NoUrl, "missing_location_header")
        /\ UNCHANGED signals

\* A redirect to a scheme other than http and https.
UnsafeScheme ==
  /\ pc = "request"
  /\ Last("redirect", NoUrl, "unsafe_redirect_scheme")
  /\ signals' = signals \cup {"unsafe_scheme"}

\* What a redirect from one URL to another says.
RedirectSignals(from, to) ==
  (IF from \in Https /\ to \notin Https THEN {"scheme_downgrade"} ELSE {})
    \cup (IF Domain[from] # Domain[to] THEN {"cross_origin"} ELSE {})

Redirected(from, to) ==
  /\ signals' = signals \cup RedirectSignals(from, to)
  /\ hops' = Append(hops, Hop("redirect", to))
  /\ current' = to
  /\ pc' = "loop"
  /\ UNCHANGED <<input, visited, rounds, method, error, timedOut>>

\* Mutant of Redirect: the target is compared with the input.
RedirectFromInput ==
  /\ pc = "request"
  /\ \E to \in Urls : Redirected(input, to)

Redirect ==
  /\ pc = "request"
  /\ \E to \in Urls : Redirected(current, to)

\* urljoin or urlparse refuses a Location (ValueError), build_request a URL
\* (httpx.InvalidURL is no HTTPError) or the idna codec a host name (UnicodeError
\* is no OSError): nothing in unchain_url catches it.
UrlIsRefused ==
  /\ pc \in {"begin", "check", "request"}
  /\ pc' = "raised"
  /\ UNCHANGED <<input, current, visited, rounds, method, hops, error, signals, timedOut>>

\* The chain's own timeout cancels it at an await; what it has found is lost.
ChainTimeout ==
  /\ pc \in {"begin", "check", "request"}
  /\ pc' = "done"
  /\ current' = input /\ hops' = <<>> /\ signals' = {}
  /\ error' = "chain_timeout" /\ timedOut' = TRUE
  /\ UNCHANGED <<input, visited, rounds, method>>

Step ==
  \/ Probe \/ Loop \/ HostIsSafe \/ HostIsNot
  \/ RequestFails \/ Refused \/ Answered \/ NoLocation \/ UnsafeScheme \/ Redirect
  \/ UrlIsRefused

Next == Step \/ ChainTimeout

\* httpx and the resolver give up on their own, so that each await ends also
\* without the chain's timeout.
Spec == Init /\ [][Next]_vars /\ WF_vars(Step)
-----------------------------------------------------------------------------
Signals == {"schemeless_https_upgrade", "redirect_loop", "max_hops_reached", "ssrf_blocked",
            "unsafe_scheme", "scheme_downgrade", "cross_origin"}

Errors == Failures \cup {"none", "invalid_host", "ssrf_blocked", "server_error",
                         "missing_location_header", "unsafe_redirect_scheme", "chain_timeout"}

\* The type invariant; no chain has more than MaxHops hops.
TypeOK ==
  /\ input \in Urls /\ current \in Urls /\ visited \subseteq Urls
  /\ pc \in {"begin", "loop", "check", "request", "done", "raised"}
  /\ rounds \in 0..MaxHops /\ method \in {"HEAD", "GET"}
  /\ hops \in Seq(Hops) /\ Len(hops) <= MaxHops
  /\ error \in Errors /\ signals \subseteq Signals /\ timedOut \in BOOLEAN

\* unchain_page_unavailable: "http_error: ..." is not the "http_error_" it
\* looks for.
Unavailable ==
  \/ \E k \in 1..Len(hops) : hops[k].status \in {"refused", "missing", "server_error"}
  \/ error \in {"dns_failure", "timeout", "invalid_host", "connection_refused", "server_error"}

LastHop == hops[Len(hops)]

\* The hops are a chain from the input, or its https variant, in which no URL
\* comes twice and every hop but the last redirects to the next.
HopsAreAChain ==
  /\ \A j, k \in 1..Len(hops) : hops[j].url = hops[k].url => j = k
  /\ \A k \in 1..Len(hops) - 1 : hops[k].status = "redirect" /\ hops[k].to = hops[k + 1].url
  /\ hops # <<>> =>
       hops[1].url = IF "schemeless_https_upgrade" \in signals THEN Twin[input] ELSE input

\* A result without error says what its final URL is: the URL that answered, or
\* a redirect target nobody asked, marked as a loop or as the end of the range
\* (unchain.py:186-226).  The stages after it look up and fetch that URL.
FinalIsExplained ==
  pc = "done" /\ error = "none" =>
    /\ hops # <<>>
    /\ \/ LastHop.url = current /\ LastHop.status # "redirect"
       \/ /\ LastHop.to = current
          /\ \/ "redirect_loop" \in signals /\ \E k \in 1..Len(hops) : hops[k].url = current
             \/ "max_hops_reached" \in signals /\ Len(hops) = MaxHops

\* The signals the pipeline scores are those of the hops it reports, also after a
\* failed hop or a timeout (pipeline.py:165-168 adds points for cross_origin).
SignalsComeFromHops ==
  pc = "done" =>
    /\ signals \cap {"scheme_downgrade", "cross_origin"} =
         UNION {RedirectSignals(hops[k].url, hops[k].to) :
                  k \in {k \in 1..Len(hops) : hops[k].to # NoUrl}}
    /\ "unsafe_scheme" \in signals <=> error = "unsafe_redirect_scheme"
    /\ "ssrf_blocked" \in signals <=> error = "ssrf_blocked"

\* page_unavailability.py:51: a page is called unavailable only when that is
\* proved of the final URL: it was the last one asked, and it either answered
\* with an error status or gave no answer.
UnavailableIsFinal ==
  pc = "done" /\ Unavailable =>
    \/ /\ hops # <<>> /\ LastHop.url = current
       /\ LastHop.status \in {"refused", "missing", "server_error"}
       /\ \A k \in 1..Len(hops) - 1 : hops[k].status = "redirect"
    \/ \A k \in 1..Len(hops) : hops[k].url # current

\* A chain ends although servers redirect in circles and every HEAD fails.
UnchainEnds == <>(pc \in {"done", "raised"})
=============================================================================
