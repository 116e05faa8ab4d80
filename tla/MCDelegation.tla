---------------------------- MODULE MCDelegation ----------------------------
(***************************************************************************)
(* Delegation with one owner and one agent. The owner signs two envelopes  *)
(* with the same nonce, one of them for repayments too, and somebody        *)
(* presents a third nobody signed. A whole is 4 basis points.              *)
(***************************************************************************)
EXTENDS Delegation, TLC

CONSTANTS o1, agent, guardian, governance, executor

MCActors == Owners \cup {agent, guardian, governance, executor}

MCRolesOf ==
  [who \in MCActors |->
     IF who = guardian THEN {"GUARDIAN"}
     ELSE IF who = governance THEN {"GOVERNANCE"}
     ELSE IF who = executor THEN {"EXECUTOR"} ELSE {}]

Narrow ==
  [owner |-> o1, agent |-> agent, nonce |-> 1, validFrom |-> 1, expiresAt |-> 2,
   maxDebtUsd |-> 2, maxTradeNotionalUsd |-> 1, maxEffectiveLeverageBps |-> 8,
   maxSlippageBps |-> 1, actions |-> {"BORROW", "TRADE"}, freshness |-> 1,
   assets |-> {"A"}, venues |-> {"V"}]

Wide == [Narrow EXCEPT !.maxDebtUsd = 1, !.actions = @ \cup {"REPAY"}]

MCSigned == {Narrow, Wide}

MCEnvelopes == MCSigned \cup {[Narrow EXCEPT !.maxDebtUsd = 9]}

PlanSymmetry == Permutations(Plans)
=============================================================================
