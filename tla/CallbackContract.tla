--------------------------- MODULE CallbackContract ---------------------------
(***************************************************************************)
(* What Spring and the service may believe of an accepted analysis,        *)
(* whatever the network does to the attempts: Spring learns at most one    *)
(* result of it, possibly after the service has given the job up; the      *)
(* service calls it delivered only when Spring has learnt it, and settles  *)
(* it once.                                                                *)
(***************************************************************************)
CONSTANTS Jobs, Results

VARIABLES
  fate,   \* "new", "active", or how the service settled the job
  known   \* the results Spring has accepted of it

vars == <<fate, known>>

Init ==
  /\ fate = [j \in Jobs |-> "new"]
  /\ known = [j \in Jobs |-> {}]

Begin(j) ==
  /\ fate[j] = "new"
  /\ fate' = [fate EXCEPT ![j] = "active"]
  /\ UNCHANGED known

\* The first post to arrive decides, even a late one.
Learn(j) ==
  /\ fate[j] # "new"
  /\ known[j] = {}
  /\ \E r \in Results : known' = [known EXCEPT ![j] = {r}]
  /\ UNCHANGED fate

Deliver(j) ==
  /\ fate[j] = "active"
  /\ known[j] # {}
  /\ fate' = [fate EXCEPT ![j] = "delivered"]
  /\ UNCHANGED known

\* No answer told the service that Spring knows.
GiveUp(j) ==
  /\ fate[j] = "active"
  /\ fate' = [fate EXCEPT ![j] = "dead_letter"]
  /\ UNCHANGED known

Lose(jobs) ==
  /\ \A j \in jobs : fate[j] = "active"
  /\ fate' = [j \in Jobs |-> IF j \in jobs THEN "lost" ELSE fate[j]]
  /\ UNCHANGED known

Next ==
  \/ \E j \in Jobs : Begin(j) \/ Learn(j) \/ Deliver(j) \/ GiveUp(j)
  \/ \E jobs \in SUBSET Jobs : Lose(jobs)

Spec == Init /\ [][Next]_vars
=============================================================================
