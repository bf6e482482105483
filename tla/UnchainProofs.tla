----------------------------- MODULE UnchainProofs -----------------------------
(***************************************************************************)
(* For any set of URLs, any redirects between them and any MaxHops, what   *)
(* unchain_url returns hangs together: the hops are one chain, and the     *)
(* final URL, the signals and the unavailability of the page are those of  *)
(* that chain.                                                             *)
(***************************************************************************)
EXTENDS Unchain, SequenceTheorems, TLAPS

Asking == pc \in {"check", "request"}

Over == pc \in {"done", "raised"}

Asked(u) == \E k \in 1..Len(hops) : hops[k].url = u

Start == IF "schemeless_https_upgrade" \in signals THEN Twin[input] ELSE input

\* The parts of the inductive invariant.  The hops are linked from the start on.
Linked ==
  /\ \A j, k \in 1..Len(hops) : hops[j].url = hops[k].url => j = k
  /\ \A k \in 1..Len(hops) - 1 : hops[k].status = "redirect" /\ hops[k].to = hops[k + 1].url
  /\ Len(hops) > 0 => hops[1].url = Start

\* Before the end every hop is a redirect, the last one to the current URL, and
\* nothing has been found that ends the chain.
Ongoing ==
  ~Over =>
    /\ error = "none"
    /\ \A s \in {"redirect_loop", "max_hops_reached", "unsafe_scheme", "ssrf_blocked"} :
         s \notin signals
    /\ \A k \in 1..Len(hops) : hops[k].status = "redirect"
    /\ Len(hops) > 0 => hops[Len(hops)].to = current
    /\ Len(hops) = 0 => current = Start
    /\ rounds = Len(hops) + (IF Asking THEN 1 ELSE 0)

\* visited holds the URLs of the hops, and the one that is asked now.
Visits == ~Over => \A u \in Urls : u \in visited <=> Asked(u) \/ (Asking /\ u = current)

Fresh == Asking => ~Asked(current)

Beginning == pc = "begin" => /\ Len(hops) = 0 /\ current = input
                             /\ "schemeless_https_upgrade" \notin signals

\* Each signal about redirects belongs to a hop.
Told(s) == \E k \in 1..Len(hops) : /\ hops[k].to # NoUrl
                                   /\ s \in RedirectSignals(hops[k].url, hops[k].to)
SignalsTold == \A s \in {"scheme_downgrade", "cross_origin"} : s \in signals <=> Told(s)

Stopped ==
  pc = "done" => /\ "unsafe_scheme" \in signals <=> error = "unsafe_redirect_scheme"
                 /\ "ssrf_blocked" \in signals <=> error = "ssrf_blocked"

\* What FinalIsExplained and UnavailableIsFinal say, with Len for the empty sequence.
Explained ==
  pc = "done" /\ error = "none" =>
    /\ Len(hops) > 0
    /\ \/ LastHop.url = current /\ LastHop.status # "redirect"
       \/ /\ LastHop.to = current
          /\ \/ "redirect_loop" \in signals /\ Asked(current)
             \/ "max_hops_reached" \in signals /\ Len(hops) = MaxHops

Proved ==
  pc = "done" /\ Unavailable =>
    \/ /\ Len(hops) > 0 /\ LastHop.url = current
       /\ LastHop.status \in {"refused", "missing", "server_error"}
       /\ \A k \in 1..Len(hops) - 1 : hops[k].status = "redirect"
    \/ ~Asked(current)

IInv == TypeOK /\ Linked /\ Ongoing /\ Visits /\ Fresh /\ Beginning /\ SignalsTold
          /\ Stopped /\ Explained /\ Proved
-----------------------------------------------------------------------------
\* A hop added at the end leaves the others alone.
LEMMA OneMoreHop ==
  ASSUME hops \in Seq(Hops), NEW h \in Hops, hops' = Append(hops, h)
  PROVE  /\ hops' \in Seq(Hops)
         /\ Len(hops') = Len(hops) + 1 /\ Len(hops) \in Nat
         /\ \A k \in 1..Len(hops) : hops'[k] = hops[k] /\ hops[k] \in Hops
         /\ hops'[Len(hops')] = h
  BY AppendProperties, LenProperties, ElementOfSeq

\* RedirectSignals knows two signals.
LEMMA TwoSignals ==
  ASSUME NEW u, NEW v, NEW s \in RedirectSignals(u, v)
  PROVE  s \in {"scheme_downgrade", "cross_origin"}
  BY DEF RedirectSignals

LEMMA Starts == ASSUME Init PROVE IInv
<1>1. Len(hops) = 0 /\ hops \in Seq(Hops)
  BY EmptySeq DEF Init
<1>2. TypeOK
  <2>1. hops \in Seq(Hops) /\ Len(hops) <= MaxHops
    BY <1>1, UrlsAssumption
  <2>2. rounds \in 0..MaxHops /\ error \in Errors /\ signals \subseteq Signals
    BY UrlsAssumption DEF Init, Errors
  <2> QED
    BY <2>1, <2>2 DEF Init, TypeOK
<1>3. Linked /\ Ongoing /\ Visits /\ Fresh /\ Beginning
  BY <1>1 DEF Init, Linked, Over, Ongoing, Visits, Fresh, Beginning, Asking, Asked, Start
<1>4. SignalsTold
  BY <1>1 DEF Init, SignalsTold, Told
<1> QED
  BY <1>2, <1>3, <1>4 DEF IInv, Init, Stopped, Explained, Proved

\* What recording the answer of the current URL does to the hops.
LEMMA HopRecorded ==
  ASSUME IInv, pc = "request", input' = input,
         NEW status \in Statuses, NEW to \in Urls \cup {NoUrl},
         hops' = Append(hops, Hop(status, to)),
         "schemeless_https_upgrade" \in signals' <=> "schemeless_https_upgrade" \in signals
  PROVE  /\ hops' \in Seq(Hops) /\ Len(hops) \in Nat
         /\ Len(hops') = Len(hops) + 1 /\ Len(hops') <= MaxHops
         /\ \A k \in 1..Len(hops) : hops'[k] = hops[k] /\ hops[k].status = "redirect"
         /\ hops'[Len(hops')] = Hop(status, to)
         /\ Linked'
         /\ \A u : Asked(u)' <=> Asked(u) \/ u = current
         /\ \A s : Told(s)' <=>
               Told(s) \/ (to # NoUrl /\ s \in RedirectSignals(current, to))
<1> DEFINE h == Hop(status, to)
<1>1. h \in Hops /\ h.url = current /\ h.status = status /\ h.to = to
  BY DEF Hop, Hops, IInv, TypeOK
<1>2. /\ hops' \in Seq(Hops)
      /\ Len(hops') = Len(hops) + 1 /\ Len(hops) \in Nat
      /\ \A k \in 1..Len(hops) : hops'[k] = hops[k] /\ hops[k] \in Hops
      /\ hops'[Len(hops')] = h
  <2> HIDE DEF h
  <2> hops \in Seq(Hops) /\ h \in Hops
    BY <1>1 DEF IInv, TypeOK
  <2> hops' = Append(hops, h)
    BY DEF h
  <2> QED
    BY OneMoreHop
<1> HIDE DEF h
<1>3. /\ \A k \in 1..Len(hops) : hops[k].status = "redirect" /\ hops[k].url # current
      /\ Len(hops) > 0 => hops[Len(hops)].to = current
      /\ Len(hops) = 0 => current = Start
      /\ rounds = Len(hops) + 1 /\ rounds <= MaxHops
  BY UrlsAssumption DEF IInv, TypeOK, Over, Ongoing, Fresh, Asking, Asked
<1>4. Start' = Start
  BY DEF Start
<1>5. Linked'
  <2>1. ASSUME NEW j \in 1..Len(hops'), NEW k \in 1..Len(hops'), hops'[j].url = hops'[k].url
        PROVE  j = k
    BY <2>1, <1>1, <1>2, <1>3 DEF IInv, Linked
  <2>2. ASSUME NEW k \in 1..Len(hops') - 1
        PROVE  hops'[k].status = "redirect" /\ hops'[k].to = hops'[k + 1].url
    <3>1. CASE k = Len(hops)
      BY <3>1, <2>2, <1>1, <1>2, <1>3
    <3>2. CASE k \in 1..Len(hops) - 1
      BY <3>2, <1>2 DEF IInv, Linked
    <3> QED
      BY <3>1, <3>2, <1>2
  <2>3. hops'[1].url = Start
    <3>1. CASE Len(hops) = 0
      BY <3>1, <1>1, <1>2, <1>3
    <3>2. CASE Len(hops) > 0
      BY <3>2, <1>2 DEF IInv, Linked
    <3> QED
      BY <3>1, <3>2, <1>2
  <2> QED
    BY <2>1, <2>2, <2>3, <1>4 DEF Linked
<1>6. ASSUME NEW u PROVE Asked(u)' <=> Asked(u) \/ u = current
  <2>1. Asked(u)' <=> \E k \in 1..Len(hops) + 1 : hops'[k].url = u
    BY <1>2 DEF Asked
  <2> QED
    BY <2>1, <1>1, <1>2 DEF Asked
<1>7. ASSUME NEW s
      PROVE  Told(s)' <=> Told(s) \/ (to # NoUrl /\ s \in RedirectSignals(current, to))
  <2>1. Told(s)' <=> \E k \in 1..Len(hops) + 1 :
                       hops'[k].to # NoUrl /\ s \in RedirectSignals(hops'[k].url, hops'[k].to)
    BY <1>2 DEF Told
  <2> QED
    BY <2>1, <1>1, <1>2 DEF Told
<1>8. Len(hops') <= MaxHops
  BY <1>2, <1>3, UrlsAssumption
<1>9. hops'[Len(hops')] = Hop(status, to)
  BY <1>2 DEF h
<1>10. \A k \in 1..Len(hops) : hops'[k] = hops[k] /\ hops[k].status = "redirect"
  BY <1>2, <1>3
<1>11. \A u : Asked(u)' <=> Asked(u) \/ u = current
  BY <1>6
<1>12. \A s : Told(s)' <=> Told(s) \/ (to # NoUrl /\ s \in RedirectSignals(current, to))
  BY <1>7
<1> QED
  BY <1>2, <1>5, <1>8, <1>9, <1>10, <1>11, <1>12

\* The parts that speak of hops stay as they are when hops and the mark of the
\* https variant do.
LEMMA HopsKept ==
  ASSUME IInv, hops' = hops, input' = input,
         "schemeless_https_upgrade" \in signals' <=> "schemeless_https_upgrade" \in signals
  PROVE  /\ Linked' /\ Start' = Start
         /\ \A u : Asked(u)' <=> Asked(u)
         /\ \A s : Told(s)' <=> Told(s)
  BY DEF IInv, Linked, Start, Asked, Told

\* The last hop, recorded with the error it means.
LEMMA LastKeeps ==
  ASSUME IInv, pc = "request",
         NEW status \in Statuses, NEW reason \in Errors, Last(status, NoUrl, reason),
         signals' = signals \/ signals' = signals \cup {"unsafe_scheme"},
         "unsafe_scheme" \in signals' <=> reason = "unsafe_redirect_scheme",
         reason \in {"none", "server_error", "missing_location_header",
                     "unsafe_redirect_scheme"},
         reason = "none" => status # "redirect",
         reason = "server_error" => status = "server_error"
  PROVE  IInv'
<1>1. /\ hops' = Append(hops, Hop(status, NoUrl))
      /\ error' = reason /\ pc' = "done"
      /\ UNCHANGED <<input, current, visited, rounds, method, timedOut>>
  BY DEF Last
<1>2. /\ hops' \in Seq(Hops) /\ Len(hops) \in Nat
      /\ Len(hops') = Len(hops) + 1 /\ Len(hops') <= MaxHops
      /\ \A k \in 1..Len(hops) : hops'[k] = hops[k] /\ hops[k].status = "redirect"
      /\ hops'[Len(hops')] = Hop(status, NoUrl)
      /\ Linked'
      /\ \A s : Told(s)' <=> Told(s)
  <2>1. "schemeless_https_upgrade" \in signals' <=> "schemeless_https_upgrade" \in signals
    OBVIOUS
  <2>2. NoUrl \in Urls \cup {NoUrl}
    OBVIOUS
  <2> QED
    BY <1>1, <2>1, <2>2, HopRecorded
<1>3. LastHop'.url = current /\ LastHop'.status = status
  BY <1>2 DEF LastHop, Hop
<1>4. TypeOK'
  BY <1>1, <1>2 DEF IInv, TypeOK, Signals
<1>5. Ongoing' /\ Visits' /\ Fresh' /\ Beginning'
  BY <1>1 DEF Over, Ongoing, Visits, Fresh, Beginning, Asking
<1>6. SignalsTold'
  BY <1>2 DEF IInv, SignalsTold
<1>7. Stopped'
  BY <1>1 DEF IInv, Over, Ongoing, Stopped
<1>8. Explained'
  BY <1>1, <1>2, <1>3 DEF Explained
<1>9. Proved'
  <2> SUFFICES ASSUME Unavailable'
               PROVE  status \in {"refused", "missing", "server_error"}
    BY <1>1, <1>2, <1>3 DEF Proved
  <2>1. CASE \E k \in 1..Len(hops') : hops'[k].status \in {"refused", "missing", "server_error"}
    BY <2>1, <1>2, <1>3 DEF LastHop
  <2>2. CASE reason \in {"dns_failure", "timeout", "invalid_host", "connection_refused",
                         "server_error"}
    BY <2>2, <1>1
  <2> QED
    BY <2>1, <2>2, <1>1 DEF Unavailable
<1> QED
  BY <1>2, <1>4, <1>5, <1>6, <1>7, <1>8, <1>9 DEF IInv
-----------------------------------------------------------------------------
\* One lemma for each kind of step.
LEMMA ProbeKeeps == ASSUME IInv, Probe PROVE IInv'
<1>1. /\ pc = "begin" /\ pc' = "loop"
      /\ UNCHANGED <<input, visited, rounds, method, hops, error, timedOut>>
  BY DEF Probe
<1>2. Len(hops) = 0 /\ current = input /\ "schemeless_https_upgrade" \notin signals
  BY <1>1 DEF IInv, Beginning
<1>3. CASE UNCHANGED <<current, signals>>
  BY <1>1, <1>2, <1>3 DEF IInv, TypeOK, Linked, Over, Ongoing, Visits, Fresh, Beginning, SignalsTold,
     Stopped, Explained, Proved, Told, Asked, Asking, Start
<1>4. CASE /\ current \in DOMAIN Twin /\ current' = Twin[current]
           /\ signals' = signals \cup {"schemeless_https_upgrade"}
  <2>1. current' \in Urls
    BY <1>4, UrlsAssumption
  <2>2. TypeOK'
    BY <1>1, <1>4, <2>1 DEF IInv, TypeOK, Signals
  <2>3. Linked' /\ Ongoing'
    BY <1>1, <1>2, <1>4 DEF IInv, Linked, Over, Ongoing, Asking, Start
  <2>4. Visits' /\ Fresh' /\ Beginning'
    BY <1>1, <1>2 DEF IInv, Over, Visits, Fresh, Beginning, Asking, Asked
  <2>5. SignalsTold' /\ Stopped' /\ Explained' /\ Proved'
    BY <1>1, <1>4 DEF IInv, SignalsTold, Stopped, Explained, Proved, Told
  <2> QED
    BY <2>2, <2>3, <2>4, <2>5 DEF IInv
<1> QED
  BY <1>3, <1>4 DEF Probe

LEMMA LoopKeeps == ASSUME IInv, Loop PROVE IInv'
<1>1. pc = "loop" /\ UNCHANGED <<input, current, method, hops, error, timedOut>>
  BY DEF Loop
<1>2. /\ error = "none" /\ rounds = Len(hops) /\ Len(hops) \in Nat
      /\ \A u \in Urls : u \in visited <=> Asked(u)
      /\ \A s \in {"unsafe_scheme", "ssrf_blocked"} : s \notin signals
      /\ \A k \in 1..Len(hops) : hops[k].status = "redirect"
      /\ Len(hops) > 0 => hops[Len(hops)].to = current
      /\ Len(hops) = 0 => current = Start
      /\ current \in Urls
  BY <1>1, UrlsAssumption DEF IInv, TypeOK, Over, Ongoing, Visits, Asking
<1>3. ASSUME NEW signal \in {"redirect_loop", "max_hops_reached"}, Leave(signal),
             /\ Len(hops) > 0
             /\ \/ signal = "redirect_loop" /\ Asked(current)
                \/ signal = "max_hops_reached" /\ Len(hops) = MaxHops
      PROVE  IInv'
  <2>1. pc' = "done" /\ signals' = signals \cup {signal} /\ UNCHANGED <<visited, rounds>>
    BY <1>3 DEF Leave
  <2>2. Linked' /\ (\A u : Asked(u)' <=> Asked(u)) /\ (\A s : Told(s)' <=> Told(s))
    BY <1>1, <2>1, <1>3, HopsKept
  <2>3. TypeOK'
    BY <1>1, <1>3, <2>1 DEF IInv, TypeOK, Signals
  <2>4. Ongoing' /\ Visits' /\ Fresh' /\ Beginning'
    BY <2>1 DEF Over, Ongoing, Visits, Fresh, Beginning, Asking
  <2>5. SignalsTold' /\ Stopped'
    BY <1>1, <1>2, <1>3, <2>1, <2>2 DEF IInv, SignalsTold, Stopped
  <2>6. Asked(current)' <=> Asked(current)
    BY <1>1 DEF Asked
  <2>7. Explained'
    BY <1>1, <1>2, <1>3, <2>1, <2>6 DEF Explained, LastHop
  <2>8. ~Unavailable'
    BY <1>1, <1>2 DEF Unavailable
  <2> QED
    BY <2>2, <2>3, <2>4, <2>5, <2>7, <2>8 DEF IInv, Proved
<1>4. ASSUME rounds # MaxHops, current \notin visited, Enter
      PROVE  IInv'
  <2>1. /\ pc' = "check" /\ visited' = visited \cup {current} /\ rounds' = rounds + 1
        /\ UNCHANGED signals
    BY <1>4 DEF Enter
  <2>2. Linked' /\ Start' = Start /\ (\A u : Asked(u)' <=> Asked(u))
          /\ (\A s : Told(s)' <=> Told(s))
    BY <1>1, <2>1, HopsKept
  <2>3. TypeOK'
    BY <1>1, <1>4, <2>1, UrlsAssumption DEF IInv, TypeOK
  <2>4. Ongoing'
    BY <1>1, <1>2, <2>1, <2>2 DEF IInv, Over, Ongoing, Asking
  <2>5. Visits'
    BY <1>1, <1>2, <2>1 DEF Over, Visits, Asking, Asked
  <2>6. Fresh'
    BY <1>1, <1>2, <1>4, <2>1 DEF Fresh, Asking, Asked
  <2>7. Beginning' /\ Stopped' /\ Explained' /\ Proved'
    BY <2>1 DEF Beginning, Stopped, Explained, Proved
  <2>8. SignalsTold'
    BY <2>1, <2>2 DEF IInv, SignalsTold
  <2> QED
    BY <2>2, <2>3, <2>4, <2>5, <2>6, <2>7, <2>8 DEF IInv
<1>5. CASE rounds = MaxHops
  BY <1>2, <1>3, <1>5, UrlsAssumption DEF Loop
<1>6. CASE rounds # MaxHops /\ current \in visited
  <2>1. Asked(current)
    BY <1>2, <1>6
  <2>2. Len(hops) > 0
    BY <1>2, <2>1 DEF Asked
  <2> QED
    BY <1>3, <1>6, <2>1, <2>2 DEF Loop
<1>7. CASE rounds # MaxHops /\ current \notin visited
  BY <1>4, <1>7 DEF Loop
<1> QED
  BY <1>5, <1>6, <1>7

\* A request that ends the chain without a response, and a host that is refused.
LEMMA EndKeeps ==
  ASSUME IInv, Asking, pc' = "done", NEW reason \in Errors, error' = reason,
         UNCHANGED <<input, current, visited, rounds, hops>>,
         method' \in {"HEAD", "GET"}, timedOut' \in BOOLEAN,
         signals' = signals \cup ({reason} \cap {"ssrf_blocked"}),
         reason \notin {"none", "unsafe_redirect_scheme"}
  PROVE  IInv'
<1>1. Linked' /\ (\A u : Asked(u)' <=> Asked(u)) /\ (\A s : Told(s)' <=> Told(s))
  BY HopsKept
<1>2. TypeOK'
  BY DEF IInv, TypeOK, Signals
<1>3. Ongoing' /\ Visits' /\ Fresh' /\ Beginning' /\ Explained'
  BY DEF Over, Ongoing, Visits, Fresh, Beginning, Explained, Asking
<1>4. SignalsTold'
  BY <1>1 DEF IInv, SignalsTold
<1>5. Stopped'
  BY DEF IInv, Over, Ongoing, Asking, Stopped
<1>6. ~Asked(current)'
  BY DEF IInv, Fresh, Asked
<1> QED
  BY <1>1, <1>2, <1>3, <1>4, <1>5, <1>6 DEF IInv, Proved

\* The same URL goes on being asked.
LEMMA AskingKeeps ==
  ASSUME IInv, Asking, pc' = "request", method' \in {"HEAD", "GET"},
         UNCHANGED <<input, current, visited, rounds, hops, error, signals, timedOut>>
  PROVE  IInv'
<1>1. Linked' /\ Start' = Start /\ (\A u : Asked(u)' <=> Asked(u))
        /\ (\A s : Told(s)' <=> Told(s))
  BY HopsKept
<1>2. TypeOK'
  BY DEF IInv, TypeOK
<1>3. Ongoing'
  BY <1>1 DEF IInv, Over, Ongoing, Asking
<1>4. Visits' /\ Fresh'
  BY DEF IInv, Over, Visits, Fresh, Asking, Asked
<1>5. SignalsTold'
  BY <1>1 DEF IInv, SignalsTold
<1>6. Beginning' /\ Stopped' /\ Explained' /\ Proved'
  BY DEF Beginning, Stopped, Explained, Proved
<1> QED
  BY <1>1, <1>2, <1>3, <1>4, <1>5, <1>6 DEF IInv

LEMMA RedirectKeeps == ASSUME IInv, Redirect PROVE IInv'
<1>1. PICK to \in Urls : pc = "request" /\ Redirected(current, to)
  BY DEF Redirect
<1>2. /\ signals' = signals \cup RedirectSignals(current, to)
      /\ hops' = Append(hops, Hop("redirect", to))
      /\ current' = to /\ pc' = "loop"
      /\ UNCHANGED <<input, visited, rounds, method, error, timedOut>>
  BY <1>1 DEF Redirected
<1>3. /\ "schemeless_https_upgrade" \in signals' <=> "schemeless_https_upgrade" \in signals
      /\ \A s \in {"redirect_loop", "max_hops_reached", "unsafe_scheme", "ssrf_blocked"} :
           s \in signals' <=> s \in signals
      /\ signals' \subseteq signals \cup {"scheme_downgrade", "cross_origin"}
  BY <1>2, TwoSignals
<1>4. /\ hops' \in Seq(Hops) /\ Len(hops) \in Nat
      /\ Len(hops') = Len(hops) + 1 /\ Len(hops') <= MaxHops
      /\ \A k \in 1..Len(hops) : hops'[k] = hops[k] /\ hops[k].status = "redirect"
      /\ hops'[Len(hops')] = Hop("redirect", to)
      /\ Linked'
      /\ \A u : Asked(u)' <=> Asked(u) \/ u = current
      /\ \A s : Told(s)' <=> Told(s) \/ (to # NoUrl /\ s \in RedirectSignals(current, to))
  <2>1. "redirect" \in Statuses /\ to \in Urls \cup {NoUrl}
    BY DEF Statuses
  <2> QED
    BY <1>1, <1>2, <1>3, <2>1, HopRecorded
<1>5. Asking /\ ~Asking'
  BY <1>1, <1>2 DEF Asking
<1>6. TypeOK'
  BY <1>2, <1>3, <1>4 DEF IInv, TypeOK, Signals
<1>7. Ongoing'
  <2>1. \A k \in 1..Len(hops') : hops'[k].status = "redirect"
    BY <1>4 DEF Hop
  <2>2. hops'[Len(hops')].to = current'
    BY <1>2, <1>4 DEF Hop
  <2>3. rounds = Len(hops) + 1
    BY <1>1, <1>5 DEF IInv, Over, Ongoing
  <2> QED
    BY <1>1, <1>2, <1>3, <1>4, <1>5, <2>1, <2>2, <2>3 DEF IInv, Over, Ongoing
<1>8. Visits'
  BY <1>1, <1>2, <1>4, <1>5 DEF IInv, Over, Visits
<1>9. Fresh' /\ Beginning' /\ Stopped' /\ Explained' /\ Proved'
  BY <1>2, <1>5 DEF Fresh, Beginning, Stopped, Explained, Proved
<1>10. SignalsTold'
  BY <1>2, <1>4, UrlsAssumption DEF IInv, SignalsTold
<1> QED
  BY <1>4, <1>6, <1>7, <1>8, <1>9, <1>10 DEF IInv

LEMMA ChainTimeoutKeeps == ASSUME IInv, ChainTimeout PROVE IInv'
<1>1. /\ pc' = "done" /\ current' = input /\ hops' = <<>> /\ signals' = {}
      /\ error' = "chain_timeout" /\ timedOut' = TRUE
      /\ UNCHANGED <<input, visited, rounds, method>>
  BY DEF ChainTimeout
<1>2. hops' \in Seq(Hops) /\ Len(hops') = 0
  BY <1>1, EmptySeq
<1>3. TypeOK'
  BY <1>1, <1>2, UrlsAssumption DEF IInv, TypeOK, Errors
<1>4. Linked' /\ SignalsTold'
  BY <1>1, <1>2 DEF Linked, SignalsTold, Told
<1>5. Ongoing' /\ Visits' /\ Fresh' /\ Beginning' /\ Stopped' /\ Explained'
  BY <1>1 DEF Over, Ongoing, Visits, Fresh, Beginning, Stopped, Explained, Asking
<1>6. ~Asked(current)'
  BY <1>2 DEF Asked
<1> QED
  BY <1>3, <1>4, <1>5, <1>6 DEF IInv, Proved

LEMMA NothingKeeps == ASSUME IInv, UNCHANGED vars PROVE IInv'
  BY DEF IInv, vars, TypeOK, Linked, Over, Ongoing, Visits, Fresh, Beginning, SignalsTold, Stopped,
     Explained, Proved, Told, Asked, Asking, Start, LastHop, Unavailable

\* A URL that is refused ends the chain without a result.
LEMMA UrlIsRefusedKeeps == ASSUME IInv, UrlIsRefused PROVE IInv'
<1>1. Linked' /\ (\A u : Asked(u)' <=> Asked(u)) /\ (\A s : Told(s)' <=> Told(s))
  BY HopsKept DEF UrlIsRefused
<1>2. TypeOK' /\ SignalsTold'
  BY <1>1 DEF UrlIsRefused, IInv, TypeOK, SignalsTold
<1>3. Ongoing' /\ Visits' /\ Fresh' /\ Beginning' /\ Stopped' /\ Explained' /\ Proved'
  BY DEF UrlIsRefused, Ongoing, Visits, Fresh, Beginning, Stopped, Explained, Proved, Over,
         Asking
<1> QED
  BY <1>1, <1>2, <1>3 DEF IInv

\* A request that is repeated with GET.
LEMMA TryGetKeeps == ASSUME IInv, pc = "request", TryGet PROVE IInv'
<1>1. Asking
  BY DEF Asking
<1> QED
  BY <1>1, AskingKeeps DEF TryGet

LEMMA StepKeeps == ASSUME IInv, [Next]_vars PROVE IInv'
<1>1. CASE HostIsSafe
  <2>1. Asking
    BY <1>1 DEF HostIsSafe, Asking
  <2> QED
    BY <1>1, <2>1, AskingKeeps DEF HostIsSafe
<1>2. CASE HostIsNot
  <2>1. PICK reason \in {"invalid_host", "dns_failure", "ssrf_blocked"} :
          error' = reason /\ signals' = signals \cup ({reason} \cap {"ssrf_blocked"})
    BY <1>2 DEF HostIsNot
  <2>2. Asking /\ reason \in Errors
    BY <1>2 DEF HostIsNot, Asking, Errors, Failures
  <2>3. method' \in {"HEAD", "GET"} /\ timedOut' \in BOOLEAN
    BY <1>2 DEF HostIsNot, IInv, TypeOK
  <2> QED
    BY <1>2, <2>1, <2>2, <2>3, EndKeeps DEF HostIsNot
<1>3. CASE RequestFails
  <2>1. CASE TryGet
    BY <1>3, <2>1, TryGetKeeps DEF RequestFails
  <2>2. CASE ~TryGet
    <3>1. PICK reason \in Failures : error' = reason /\ timedOut' = (reason = "timeout")
      BY <1>3, <2>2 DEF RequestFails
    <3>2. /\ pc = "request" /\ pc' = "done"
          /\ UNCHANGED <<input, current, visited, rounds, method, hops, signals>>
      BY <1>3, <2>2 DEF RequestFails
    <3>3. /\ Asking /\ reason \in Errors /\ reason \notin {"none", "unsafe_redirect_scheme"}
          /\ signals' = signals \cup ({reason} \cap {"ssrf_blocked"})
      BY <3>2 DEF Asking, Errors, Failures
    <3>4. method' \in {"HEAD", "GET"} /\ timedOut' \in BOOLEAN
      BY <3>1, <3>2 DEF IInv, TypeOK
    <3> QED
      BY <3>1, <3>2, <3>3, <3>4, EndKeeps
  <2> QED
    BY <2>1, <2>2
<1>4. ASSUME pc = "request",
             NEW status \in Statuses, NEW reason \in Errors, Last(status, NoUrl, reason),
             \/ reason # "unsafe_redirect_scheme" /\ UNCHANGED signals
             \/ reason = "unsafe_redirect_scheme" /\ signals' = signals \cup {"unsafe_scheme"},
             <<status, reason>> \in
               {<<"refused", "none">>, <<"page", "none">>, <<"missing", "none">>,
                <<"server_error", "server_error">>, <<"redirect", "missing_location_header">>,
                <<"redirect", "unsafe_redirect_scheme">>}
      PROVE  IInv'
  <2>1. "unsafe_scheme" \notin signals
    BY <1>4 DEF IInv, Over, Ongoing
  <2>2. "unsafe_scheme" \in signals' <=> reason = "unsafe_redirect_scheme"
    BY <1>4, <2>1
  <2>3. signals' = signals \/ signals' = signals \cup {"unsafe_scheme"}
    BY <1>4
  <2>4. /\ reason \in {"none", "server_error", "missing_location_header",
                        "unsafe_redirect_scheme"}
        /\ reason = "none" => status # "redirect"
        /\ reason = "server_error" => status = "server_error"
    BY <1>4
  <2> QED
    BY <1>4, <2>2, <2>3, <2>4, LastKeeps
<1>5. {"refused", "page", "missing", "server_error", "redirect"} = Statuses
  BY DEF Statuses
<1>6. {"none", "server_error", "missing_location_header", "unsafe_redirect_scheme"}
        \subseteq Errors
  BY DEF Errors
<1>7. CASE Refused
  BY <1>4, <1>5, <1>6, <1>7, TryGetKeeps DEF Refused
<1>8. CASE Answered
  BY <1>4, <1>5, <1>6, <1>8 DEF Answered
<1>9. CASE NoLocation
  BY <1>4, <1>5, <1>6, <1>9, TryGetKeeps DEF NoLocation
<1>10. CASE UnsafeScheme
  BY <1>4, <1>5, <1>6, <1>10 DEF UnsafeScheme
<1> QED
  BY <1>1, <1>2, <1>3, <1>7, <1>8, <1>9, <1>10, ProbeKeeps, LoopKeeps, RedirectKeeps,
     UrlIsRefusedKeeps, ChainTimeoutKeeps, NothingKeeps DEF Next, Step
-----------------------------------------------------------------------------
\* The inductive invariant holds of every chain.
THEOREM Invariance == Spec => []IInv
  BY Starts, StepKeeps, PTL DEF Spec

\* Hops with Len in place of the empty sequence.
LEMMA EmptyHops == ASSUME IInv PROVE hops = <<>> <=> Len(hops) = 0
  BY EmptySeq DEF IInv, TypeOK

\* Type correctness: no chain has more than MaxHops hops (the hop loop of
\* unchain_url), whatever the servers answer.
THEOREM TypeCorrect == Spec => []TypeOK
<1>1. IInv => TypeOK
  BY DEF IInv
<1> QED
  BY <1>1, Invariance, PTL

\* The hops unchain_url reports form one chain from the input, without repetition.
THEOREM OneChain == Spec => []HopsAreAChain
<1>1. IInv => HopsAreAChain
  BY EmptyHops DEF IInv, Linked, HopsAreAChain, Start
<1> QED
  BY <1>1, Invariance, PTL

\* The final URL of a result without error answered, or is marked as a loop or as
\* the end of the range (the two breaks and the else of the hop loop).
THEOREM FinalUrlIsExplained == Spec => []FinalIsExplained
<1>1. IInv => FinalIsExplained
  BY EmptyHops DEF IInv, Explained, Asked, FinalIsExplained
<1> QED
  BY <1>1, Invariance, PTL

\* The signals _apply_redirect_bonus and the report read belong to reported hops.
THEOREM SignalsAreThoseOfHops == Spec => []SignalsComeFromHops
<1>1. ASSUME IInv, pc = "done" PROVE SignalsComeFromHops
  <2> DEFINE Two == {"scheme_downgrade", "cross_origin"}
             AllSignals == UNION {RedirectSignals(hops[k].url, hops[k].to) :
                                    k \in {k \in 1..Len(hops) : hops[k].to # NoUrl}}
  <2>1. \A s : s \in AllSignals <=> Told(s)
    BY DEF Told
  <2>2. \A s : Told(s) => s \in Two
    BY TwoSignals DEF Told
  <2>3. \A s \in Two : s \in signals <=> Told(s)
    BY <1>1 DEF IInv, SignalsTold
  <2>4. signals \cap Two = AllSignals
    <3> HIDE DEF AllSignals, Two
    <3> QED
      BY <2>1, <2>2, <2>3
  <2> QED
    BY <1>1, <2>4 DEF IInv, Stopped, SignalsComeFromHops
<1>2. IInv => SignalsComeFromHops
  BY <1>1 DEF SignalsComeFromHops
<1> QED
  BY <1>2, Invariance, PTL

\* unchain_page_unavailable calls a page unavailable only on the evidence of the
\* URL the chain ended with.
THEOREM UnavailableIsProved == Spec => []UnavailableIsFinal
<1>1. IInv => UnavailableIsFinal
  BY EmptyHops DEF IInv, Proved, Asked, UnavailableIsFinal
<1> QED
  BY <1>1, Invariance, PTL
-----------------------------------------------------------------------------
(* No chain goes on for ever.                                              *)

\* What is left to do before the next turn of the loop, or the end.
LeftInRound ==
  IF Over THEN 0
  ELSE IF pc = "loop" THEN 1
  ELSE IF pc = "check" THEN 4
  ELSE IF pc = "request" /\ method = "HEAD" THEN 3
  ELSE 2

\* The steps a chain can still take: four in each turn that is left, the check
\* of the host, HEAD, GET and the head of the loop, and those of this one.
Left == 4 * (MaxHops - rounds) + LeftInRound

LEMMA RoundsInRange ==
  ASSUME TypeOK
  PROVE  rounds \in Nat /\ MaxHops \in Nat /\ rounds <= MaxHops /\ LeftInRound \in 0..4
BY UrlsAssumption DEF TypeOK, Over, LeftInRound

\* A step within a turn leaves the turns alone.
LEMMA WithinRound ==
  ASSUME TypeOK, rounds' = rounds, LeftInRound' \in Nat, LeftInRound' < LeftInRound
  PROVE  Left' < Left
<1>1. MaxHops - rounds \in Int /\ LeftInRound \in Int
  BY RoundsInRange
<1>2. PICK turns \in Int : turns = 4 * (MaxHops - rounds)
  BY <1>1
<1>3. PICK before \in Int, after \in Int : before = LeftInRound /\ after = LeftInRound'
  BY <1>1
<1>4. Left = turns + before /\ Left' = turns + after
  BY <1>2, <1>3 DEF Left
<1>5. after < before
  BY <1>3
<1> QED
  BY <1>4, <1>5

\* A turn of the loop is paid by the turn it takes.
LEMMA NextRound ==
  ASSUME TypeOK, pc = "loop", rounds # MaxHops, rounds' = rounds + 1, pc' = "check"
  PROVE  Left' < Left
<1>1. LeftInRound = 1 /\ LeftInRound' = 4
  BY DEF Over, LeftInRound
<1>2. 4 * (MaxHops - (rounds + 1)) + 4 < 4 * (MaxHops - rounds) + 1
  BY RoundsInRange
<1> QED
  BY <1>1, <1>2 DEF Left

\* Every step takes one of those that were left.
LEMMA EveryStepCounts == TypeOK /\ Next => Left' < Left
<1> SUFFICES ASSUME TypeOK, Next PROVE Left' < Left
  OBVIOUS
<1>1. CASE Probe
  BY <1>1, WithinRound DEF Probe, Over, LeftInRound
<1>2. CASE Loop /\ pc' = "done"
  BY <1>2, WithinRound DEF Loop, Leave, Enter, Over, LeftInRound
<1>3. CASE Loop /\ pc' # "done"
  BY <1>3, NextRound DEF Loop, Leave, Enter
<1>4. CASE HostIsSafe \/ HostIsNot
  BY <1>4, WithinRound DEF HostIsSafe, HostIsNot, Over, LeftInRound
<1>5. ASSUME pc = "request", TryGet PROVE Left' < Left
  BY <1>5, WithinRound DEF TryGet, Over, LeftInRound
<1>6. ASSUME pc = "request", pc' \in {"loop", "done", "raised"}, rounds' = rounds PROVE Left' < Left
  BY <1>6, WithinRound DEF TypeOK, Over, LeftInRound
<1>7. CASE RequestFails \/ Refused \/ Answered \/ NoLocation \/ UnsafeScheme
  <2>1. ASSUME NEW status, NEW to, NEW reason, Last(status, to, reason)
        PROVE  pc' = "done" /\ rounds' = rounds
    BY <2>1 DEF Last
  <2>2. pc = "request" /\ (TryGet \/ (pc' = "done" /\ rounds' = rounds))
    BY <1>7, <2>1 DEF RequestFails, Refused, Answered, NoLocation, UnsafeScheme
  <2> QED
    BY <1>5, <1>6, <2>2
<1>8. CASE Redirect
  BY <1>6, <1>8 DEF Redirect, Redirected
<1>9. CASE ChainTimeout
  BY <1>9, WithinRound DEF ChainTimeout, Over, LeftInRound
<1>10. CASE UrlIsRefused
  BY <1>10, WithinRound DEF UrlIsRefused, Over, LeftInRound
<1> QED
  BY <1>1, <1>2, <1>3, <1>4, <1>7, <1>8, <1>9, <1>10 DEF Next, Step

\* However the servers redirect and whichever requests fail, unchain_url has at
\* most 4 * MaxHops + 2 steps to take and takes one of them each time: no circle
\* of redirects, no HEAD that fails again and again, keeps it going, even if its
\* own timeout never came.
THEOREM NoChainIsEndless ==
  /\ Spec => [](Left \in 0..(4 * MaxHops + 2))
  /\ Spec => [][Left' < Left]_vars
<1>1. IInv => Left \in 0..(4 * MaxHops + 2)
  <2> SUFFICES ASSUME IInv PROVE Left \in 0..(4 * MaxHops + 2)
    OBVIOUS
  <2>1. TypeOK /\ rounds \in Nat /\ MaxHops \in Nat /\ rounds <= MaxHops
    BY RoundsInRange DEF IInv
  <2>2. LeftInRound \in 0..2 \/ (LeftInRound \in 3..4 /\ rounds >= 1)
    BY <2>1, UrlsAssumption DEF IInv, TypeOK, Over, Ongoing, Asking, LeftInRound
  <2> QED
    BY <2>1, <2>2 DEF Left
<1>2. IInv /\ [Next]_vars => [Left' < Left]_vars
  BY EveryStepCounts DEF IInv
<1> QED
  BY <1>1, <1>2, Invariance, PTL DEF Spec
=============================================================================
