----------------------------- MODULE ExitQueue -----------------------------
(***************************************************************************)
(* What a first-in first-out redemption queue promises, with nothing of    *)
(* shares, prices or lending in it. A claim has an amount that is fixed    *)
(* when it is made. Money is put into a pot for the claims in their order, *)
(* and a claim leaves once: paid in full out of the pot, or withdrawn with *)
(* whatever was held for it. The pot never holds more or less than what    *)
(* the open claims are promised from it.                                   *)
(***************************************************************************)
EXTENDS Integers, FiniteSetsExt

CONSTANTS
  Owners,   (* who makes claims          *)
  Sums      (* the amounts of the claims *)

VARIABLES
  claims,   (* by number, from 1: owner, amount, held, closed *)
  pot       (* money held for the open claims                 *)

exitVars == <<claims, pot>>

\* `after` is `before` with more money held, never for a claim behind an unfilled one.
FifoFill(before, after) ==
  /\ DOMAIN after = DOMAIN before
  /\ \A i \in DOMAIN before :
       /\ after[i] = [before[i] EXCEPT !.held = after[i].held]
       /\ after[i].held \in before[i].held..before[i].amount
       /\ after[i].held # before[i].held =>
            /\ ~before[i].closed
            /\ \A j \in 1..(i - 1) : before[j].closed \/ after[j].held = before[j].amount

Put(before, after) == SumFunction([i \in DOMAIN before |-> after[i].held - before[i].held])

ExitInit == claims = <<>> /\ pot = 0

\* A new claim joins at the back; money may reach the queue in the same step.
Join ==
  LET n == Cardinality(DOMAIN claims) + 1 IN
  /\ DOMAIN claims' = 1..n
  /\ \E o \in Owners, a \in Sums :
       LET fresh  == [owner |-> o, amount |-> a, held |-> 0, closed |-> FALSE]
           joined == [i \in 1..n |-> IF i = n THEN fresh ELSE claims[i]]
       IN  /\ FifoFill(joined, claims')
           /\ pot' = pot + Put(joined, claims')

Fill ==
  /\ FifoFill(claims, claims')
  /\ pot' = pot + Put(claims, claims')

\* The claim closes and what is held for it leaves the pot, once.
Close ==
  \E i \in DOMAIN claims :
    /\ ~claims[i].closed
    /\ claims' = [claims EXCEPT ![i].closed = TRUE]
    /\ pot' = pot - claims[i].held

ExitNext == Join \/ Fill \/ Close

ExitSpec == ExitInit /\ [][ExitNext]_exitVars
=============================================================================
