------------------------------- MODULE SlotPool -------------------------------
(***************************************************************************)
(* What an asyncio.Semaphore promises: no more holders than slots, taken   *)
(* and given back one at a time.                                           *)
(***************************************************************************)
EXTENDS Naturals, FiniteSets

CONSTANTS Clients, Slots

VARIABLE holders

Init == holders = {}

Enter(c) ==
  /\ c \notin holders
  /\ Cardinality(holders) < Slots
  /\ holders' = holders \cup {c}

Leave(c) ==
  /\ c \in holders
  /\ holders' = holders \ {c}

Next == \E c \in Clients : Enter(c) \/ Leave(c)

Spec == Init /\ [][Next]_holders
=============================================================================
