----------------------------- MODULE SlotQueue -----------------------------
(***************************************************************************)
(* What the two semaphores of ppvda promise to those who call acquire      *)
(* (Semaphore in jobs/pipeline.ts, BoundedSemaphore in utils/semaphore.ts): *)
(* as many hold a slot as there are slots at most, whoever finds one free  *)
(* takes it, the others wait in a queue of limited length, and a slot that *)
(* comes back goes to the one who waits longest.                           *)
(***************************************************************************)
EXTENDS Integers, Sequences, FiniteSets

CONSTANTS Client, Capacity, Places
VARIABLES holders, waiters

Init == holders = {} /\ waiters = <<>>

New(c) == c \notin holders /\ \A i \in 1..Len(waiters) : waiters[i] # c

\* A slot is free, and nobody waits for it.
Take(c) ==
  /\ New(c) /\ Cardinality(holders) < Capacity /\ waiters = <<>>
  /\ holders' = holders \cup {c} /\ UNCHANGED waiters

Wait(c) ==
  /\ New(c) /\ Cardinality(holders) = Capacity /\ Len(waiters) < Places
  /\ waiters' = Append(waiters, c) /\ UNCHANGED holders

Return(c) ==
  /\ c \in holders
  /\ IF waiters = <<>>
     THEN holders' = holders \ {c} /\ UNCHANGED waiters
     ELSE holders' = (holders \ {c}) \cup {Head(waiters)} /\ waiters' = Tail(waiters)

\* A waiter leaves; those behind it move up.
GiveUp(c) ==
  /\ \E i \in 1..Len(waiters) :
       /\ waiters[i] = c
       /\ waiters' = [k \in 1..(Len(waiters) - 1) |-> IF k < i THEN waiters[k] ELSE waiters[k + 1]]
  /\ UNCHANGED holders

\* The process dies, and the semaphore with it.
Lose == holders' = {} /\ waiters' = <<>>

Next == (\E c \in Client : Take(c) \/ Wait(c) \/ Return(c) \/ GiveUp(c)) \/ Lose

Spec == Init /\ [][Next]_<<holders, waiters>>
=============================================================================
