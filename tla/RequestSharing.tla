---------------------------- MODULE RequestSharing ----------------------------
(***************************************************************************)
(* What sharing a request promises, whatever futures and caches carry it:  *)
(* for a key there is at most one request, led by one caller; who asks for *)
(* the key meanwhile follows it and ends with the leader's very answer, or *)
(* without one.  Every caller ends once.  A leader goes without an answer  *)
(* only if it was disturbed itself (timed out or cancelled); a follower    *)
(* also if another follower or the leader was.                             *)
(***************************************************************************)
CONSTANTS Callers, Keys, NoCaller,
          Answers,    \* what a request can bring
          Failures,   \* how a caller ends without an answer
          NoAnswer    \* what a caller has until it ends

VARIABLES
  request,    \* the leader of each key's request
  leader,     \* whose request a caller follows, itself if nobody's
  got,        \* what each caller ended with
  disturbed   \* the callers that timed out or were cancelled

vars == <<request, leader, got, disturbed>>

Leads(c) == \E k \in Keys : request[k] = c
Fresh(c) == got[c] = NoAnswer /\ leader[c] = c /\ ~Leads(c)

Init ==
  /\ request = [k \in Keys |-> NoCaller]
  /\ leader = [c \in Callers |-> c]
  /\ got = [c \in Callers |-> NoAnswer]
  /\ disturbed = {}

Ends(c, e) == got' = [got EXCEPT ![c] = e]

\* Answered without a request: from a cache, or refused.
Serve(c) ==
  /\ Fresh(c)
  /\ \E a \in Answers : Ends(c, a)
  /\ UNCHANGED <<request, leader, disturbed>>

Lead(c, k) ==
  /\ Fresh(c)
  /\ request[k] = NoCaller
  /\ request' = [request EXCEPT ![k] = c]
  /\ UNCHANGED <<leader, got, disturbed>>

Follow(c, k) ==
  /\ Fresh(c)
  /\ request[k] # NoCaller
  /\ leader' = [leader EXCEPT ![c] = request[k]]
  /\ UNCHANGED <<request, got, disturbed>>

Disturb(c) ==
  /\ got[c] = NoAnswer
  /\ ~Fresh(c)
  /\ disturbed' = disturbed \cup {c}
  /\ UNCHANGED <<request, leader, got>>

\* The leader ends, and with it the request.
Close(c, k) ==
  /\ request[k] = c
  /\ request' = [request EXCEPT ![k] = NoCaller]
  /\ \E e \in IF c \in disturbed THEN Failures ELSE Answers : Ends(c, e)
  /\ UNCHANGED <<leader, disturbed>>

Receive(c) ==
  /\ leader[c] # c
  /\ got[c] = NoAnswer
  /\ got[leader[c]] \in Answers
  /\ Ends(c, got[leader[c]])
  /\ UNCHANGED <<request, leader, disturbed>>

Leave(c) ==
  /\ leader[c] # c
  /\ got[c] = NoAnswer
  /\ \E x \in disturbed : leader[x] = leader[c]
  /\ \E e \in Failures : Ends(c, e)
  /\ UNCHANGED <<request, leader, disturbed>>

Next ==
  \E c \in Callers :
    \/ Serve(c) \/ Disturb(c) \/ Receive(c) \/ Leave(c)
    \/ \E k \in Keys : Lead(c, k) \/ Follow(c, k) \/ Close(c, k)

Spec == Init /\ [][Next]_vars
=============================================================================
