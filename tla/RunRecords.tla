----------------------------- MODULE RunRecords -----------------------------
(***************************************************************************)
(* What the Sentinel keeps of an instance's runs (packages/schemas): the   *)
(* state machine of one run (sentinel-run), and the spending ledger        *)
(* (sentinel-budget) with at most one entry per run, reserved before a run *)
(* spends and then confirmed or released.                                  *)
(*                                                                         *)
(* Only the total cap is kept of the budget policy; the per-run cap bounds *)
(* Amounts.                                                                *)
(***************************************************************************)
EXTENDS Integers, FiniteSets, Functions

(* The run. "ABSENT" stands for a run no record exists of. *)

Blocked ==
  {"BLOCKED_BY_POLICY", "BLOCKED_BY_MANDATE", "BLOCKED_BY_BUDGET", "BLOCKED_BY_RISK_EPOCH",
   "BLOCKED_BY_VENUE", "BLOCKED_BY_LIQUIDITY", "BLOCKED_BY_MARKET_SESSION"}

RunTerminalStates ==
  Blocked \cup {"COMPLETE", "PLAN_REJECTED", "NO_ACTION_REQUIRED", "AUTHORIZATION_REJECTED",
                "RESERVATION_REJECTED"}

\* States a supervisor picks up again after a crash.
RunResumableStates ==
  {"SNAPSHOT_PINNING", "PLANNING", "AUTHORIZATION_CHECKING", "AUTHORIZED", "RESERVING",
   "CAPITAL_RESERVED", "SUBMITTING", "SUBMITTED", "CONFIRMATION_UNKNOWN", "PARTIALLY_FILLED",
   "FILLED", "EXECUTION_UNKNOWN", "RECONCILING", "RECONCILED"}

RunStates ==
  RunTerminalStates \cup RunResumableStates
    \cup {"TRIGGER_OBSERVED", "TRIGGER_VALIDATED", "SNAPSHOT_PINNED", "PLAN_READY",
          "WAITING_USER_CONFIRMATION"}

RunTransitions(from) ==
  CASE from = "ABSENT" -> {"TRIGGER_OBSERVED"}
    [] from = "TRIGGER_OBSERVED" -> {"TRIGGER_VALIDATED", "BLOCKED_BY_POLICY"}
    [] from = "TRIGGER_VALIDATED" -> {"SNAPSHOT_PINNING"}
    [] from = "SNAPSHOT_PINNING" -> {"SNAPSHOT_PINNED", "BLOCKED_BY_POLICY"}
    [] from = "SNAPSHOT_PINNED" -> {"PLANNING"}
    [] from = "PLANNING" -> {"PLAN_READY", "PLAN_REJECTED", "NO_ACTION_REQUIRED"}
    [] from = "PLAN_READY" -> {"AUTHORIZATION_CHECKING", "WAITING_USER_CONFIRMATION",
                               "BLOCKED_BY_BUDGET", "BLOCKED_BY_MARKET_SESSION", "BLOCKED_BY_POLICY"}
    [] from = "WAITING_USER_CONFIRMATION" -> {"AUTHORIZATION_CHECKING", "BLOCKED_BY_POLICY"}
    [] from = "AUTHORIZATION_CHECKING" -> {"AUTHORIZED", "AUTHORIZATION_REJECTED",
                                           "BLOCKED_BY_MANDATE", "BLOCKED_BY_RISK_EPOCH"}
    [] from = "AUTHORIZED" -> {"RESERVING", "SUBMITTING"}
    [] from = "RESERVING" -> {"CAPITAL_RESERVED", "RESERVATION_REJECTED", "BLOCKED_BY_LIQUIDITY"}
    [] from = "CAPITAL_RESERVED" -> {"SUBMITTING"}
    [] from = "SUBMITTING" -> {"SUBMITTED", "BLOCKED_BY_VENUE"}
    [] from = "SUBMITTED" -> {"CONFIRMATION_UNKNOWN", "PARTIALLY_FILLED", "FILLED",
                              "EXECUTION_UNKNOWN", "RECONCILING"}
    [] from = "PARTIALLY_FILLED" -> {"FILLED", "RECONCILING"}
    [] from \in {"CONFIRMATION_UNKNOWN", "FILLED", "EXECUTION_UNKNOWN"} -> {"RECONCILING"}
    [] from = "RECONCILING" -> {"RECONCILED", "EXECUTION_UNKNOWN"}
    [] from = "RECONCILED" -> {"COMPLETE"}
    [] OTHER -> {}

-----------------------------------------------------------------------------
(* The budget. *)

CONSTANTS
  Runs,     \* run identifiers
  Amounts,  \* what a plan may spend
  MaxTotal  \* budgetPolicy.maxTotalUsd18

ASSUME BudgetConstants == Amounts \subseteq Nat \ {0} /\ MaxTotal \in Nat /\ IsFiniteSet(Runs)

NoEntry == [state |-> "NONE", amount |-> 0]
Entry == [state : {"RESERVED", "CONFIRMED", "RELEASED"}, amount : Amounts] \cup {NoEntry}
Ledger == [Runs -> Entry]
EmptyLedger == [r \in Runs |-> NoEntry]

\* Variant: only what was confirmed counts against the budget.
committedConfirmed(ledger) == {r \in Runs : ledger[r].state = "CONFIRMED"}

\* What still counts: pending entries as well as confirmed ones.
committed(ledger) == {r \in Runs : ledger[r].state \in {"RESERVED", "CONFIRMED"}}

spent(ledger) == FoldFunctionOnSet(+, 0, [r \in Runs |-> ledger[r].amount], committed(ledger))

withinBudget(ledger, amount) == spent(ledger) + amount <= MaxTotal

\* A second reserve of the same run changes nothing.
reserveBudget(ledger, r, amount) ==
  IF ledger[r] # NoEntry THEN ledger
  ELSE [ledger EXCEPT ![r] = [state |-> "RESERVED", amount |-> amount]]

\* Confirming or releasing throws unless the entry may move there.
canConfirm(ledger, r) == ledger[r].state \in {"RESERVED", "CONFIRMED"}
canRelease(ledger, r) == ledger[r].state \in {"RESERVED", "RELEASED"}
confirmBudget(ledger, r) == [ledger EXCEPT ![r].state = "CONFIRMED"]
releaseBudget(ledger, r) == [ledger EXCEPT ![r].state = "RELEASED"]

=============================================================================
