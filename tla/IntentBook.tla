----------------------------- MODULE IntentBook -----------------------------
(***************************************************************************)
(* contracts/src/core/IntentBook.sol composed with MandateRegistry, with   *)
(* ClearingHouse's reservations and with DelegationGateway: everything an  *)
(* agent may do on somebody's account. ClearingHouse is reduced to what    *)
(* these contracts touch: the recognized value of an account's collateral, *)
(* an input; its debt; and the capital reserved for executions in flight.  *)
(* Only this book holds the role that reserves and releases.               *)
(***************************************************************************)
EXTENDS MandateRegistry

CONSTANTS
  Plans,           (* what tells apart the intents of one mandate: nonce and *)
                   (* plan hash                                              *)
  Values,          (* recognized values an account's collateral may have     *)
  InitialLtv,      (* in basis points                                        *)
  Amounts,         (* dollars a call may name                                *)
  Slippages,       (* slippage an agent may state                            *)
  Assets, Venues,
  MaxDebt          (* bound: an account's debt                               *)

VARIABLES
  intents,         (* by id: the Intent record                               *)
  recognized,      (* by account: totalRecognizedUsd18                       *)
  debt,            (* by account: debtUsd18                                  *)
  reservedUsd18    (* by account: ClearingHouse's AccountState.reservedUsd18 *)

clearing == <<recognized, debt, reservedUsd18>>
vars == <<now, registry, intents, clearing>>

\* intentIdFor: the account is the mandate's owner.
IntentIds == MandateIds \X Plans

mandateOfIntent(i) == i[1]

accountOf(i) == mandateOfIntent(i)[1]

IntentStatus ==
  {"NONE", "CREATED", "VALIDATED", "RESERVED", "SUBMITTED", "PARTIALLY_FILLED", "FILLED",
   "CANCELLED", "EXECUTION_UNKNOWN", "RECONCILIATION_REQUIRED", "RECONCILED"}

NoIntent == [status |-> "NONE", authorized |-> 0, reserved |-> 0, filled |-> 0, released |-> 0]

\* The agent of an intent is the one its mandate named when it was created.
agentOf(i) == mandateOf[mandateOfIntent(i)].agent

Moves(i, from, to) ==
  /\ intents[i].status \in from
  /\ intents' = [intents EXCEPT ![i].status = to]

-----------------------------------------------------------------------------
(* ClearingHouse, as far as it is reached.                                  *)

borrowLimit(a) == MulDiv(recognized[a], InitialLtv, BPS)

\* Variant: what is already promised to other executions is left out.
availableIgnoringReserved(a) == Monus(borrowLimit(a), debt[a])

\* availableBorrowUsd18, which is 0 unless the account's status is NORMAL.
available(a) == Monus(borrowLimit(a), debt[a] + reservedUsd18[a])

Reserve(a, amount) ==
  /\ debt[a] <= borrowLimit(a)
  /\ amount <= available(a)
  /\ reservedUsd18' = [reservedUsd18 EXCEPT ![a] = @ + amount]

ReleaseReservation(a, amount) ==
  reservedUsd18' = [reservedUsd18 EXCEPT ![a] = @ - Least(amount, @)]

Init ==
  /\ RegistryInit
  /\ intents = [i \in IntentIds |-> NoIntent]
  /\ recognized \in [Owners -> Values]
  /\ debt = [a \in Owners |-> 0]
  /\ reservedUsd18 = [a \in Owners |-> 0]

-----------------------------------------------------------------------------
(* Created -> Validated -> Reserved, by the agent.                          *)

CreateIntent(i, who) ==
  /\ isLive(mandateOfIntent(i))
  /\ who = agentOf(i)
  /\ Moves(i, {"NONE"}, "CREATED")
  /\ UNCHANGED <<now, registry, clearing>>

\* The agent fills in the request, its risk figures included, except for the intent's own
\* mandate and agent.
ValidateIntent(i, req) ==
  /\ intents[i].status = "CREATED"
  /\ req.id = mandateOfIntent(i)
  /\ req.agent = agentOf(i)
  /\ Authorize(req)
  /\ intents' = [intents EXCEPT ![i].status = "VALIDATED", ![i].authorized = req.amount]
  /\ UNCHANGED <<now, clearing>>

\* The mandate is checked again: it may have been revoked since.
StillAllowed(i) == isLive(mandateOfIntent(i))

ReserveIntent(i, who) ==
  /\ intents[i].status = "VALIDATED"
  /\ who = agentOf(i)
  /\ StillAllowed(i)
  /\ intents' = [intents EXCEPT ![i].status = "RESERVED", ![i].reserved = intents[i].authorized]
  /\ Reserve(accountOf(i), intents[i].authorized)
  /\ UNCHANGED <<now, registry, recognized, debt>>

(* Reserved -> Submitted -> Filled, by the executor that watches the venue. *)

SubmitIntent(i) ==
  /\ Moves(i, {"RESERVED"}, "SUBMITTED")
  /\ UNCHANGED <<now, registry, clearing>>

FillFits(it, amount) == it.filled + amount <= it.reserved

\* A fill may also turn up while an unknown result is being reconciled.
RecordFill(i, amount) ==
  LET it == intents[i] IN
  /\ it.status \in {"SUBMITTED", "PARTIALLY_FILLED", "RECONCILIATION_REQUIRED"}
  /\ FillFits(it, amount)
  /\ intents' = [intents EXCEPT
       ![i].filled = @ + amount,
       ![i].status = IF it.filled + amount = it.reserved THEN "FILLED" ELSE "PARTIALLY_FILLED"]
  /\ UNCHANGED <<now, registry, clearing>>

\* Nothing is released: not knowing is not the same as not having happened.
MarkExecutionUnknown(i) ==
  /\ Moves(i, {"SUBMITTED"}, "EXECUTION_UNKNOWN")
  /\ UNCHANGED <<now, registry, clearing>>

RequireReconciliation(i) ==
  /\ Moves(i, {"EXECUTION_UNKNOWN"}, "RECONCILIATION_REQUIRED")
  /\ UNCHANGED <<now, registry, clearing>>

CancelIntent(i, who) ==
  /\ Moves(i, {"PARTIALLY_FILLED", "RECONCILIATION_REQUIRED"}, "CANCELLED")
  /\ who = agentOf(i) \/ hasRole(who, "EXECUTOR") \/ hasRole(who, "GUARDIAN")
  /\ UNCHANGED <<now, registry, clearing>>

\* Variant: the whole reservation is handed back.
WholeReservation(it) == it.reserved

Remainder(it) == it.reserved - it.filled

\* The one function that hands capital back, and only what was not filled.
Reconcile(i) ==
  LET back == Remainder(intents[i]) IN
  /\ intents[i].status \in {"FILLED", "CANCELLED"}
  /\ intents' = [intents EXCEPT ![i].status = "RECONCILED", ![i].released = back]
  /\ ReleaseReservation(accountOf(i), back)
  /\ UNCHANGED <<now, registry, recognized, debt>>
=============================================================================
