----------------------------- MODULE Delegation -----------------------------
(***************************************************************************)
(* The delegated surface as one system: owners, agents, guardian,          *)
(* governance and executor acting in any order on MandateRegistry,         *)
(* IntentBook and DelegationGateway, while the account's collateral moves  *)
(* in value and its owner borrows.                                         *)
(***************************************************************************)
EXTENDS IntentBook

\* DelegationGateway.execute for REPAY, its one action that can succeed: ADD_COLLATERAL is
\* refused by CollateralVault, which takes tokens only from the account itself, and every other
\* action by the gateway's switch. The request is read from live state, and the Passport time
\* is the block's.
Execute(who, a, id, asset, amount) ==
  /\ who # a
  /\ Authorize([id |-> id, agent |-> who, action |-> "REPAY", asset |-> asset, venue |-> "NONE",
                amount |-> amount, projectedDebt |-> debt[a], gross |-> recognized[a],
                equity |-> Monus(recognized[a], debt[a]), passportAt |-> now, slippage |-> 0])
  /\ debt[a] # 0
  /\ debt' = [debt EXCEPT ![a] = @ - Least(amount, @)]
  /\ UNCHANGED <<now, intents, recognized, reservedUsd18>>

\* The owner's own draw on ClearingHouse.
Borrow(a, amount) ==
  /\ debt[a] + amount <= MaxDebt
  /\ debt[a] <= borrowLimit(a)
  /\ amount <= available(a)
  /\ debt' = [debt EXCEPT ![a] = @ + amount]
  /\ UNCHANGED <<now, registry, intents, recognized, reservedUsd18>>

\* Prices, haircuts and gates move the account's value; they are inputs here.
Revalue(a, v) ==
  /\ recognized' = [recognized EXCEPT ![a] = v]
  /\ UNCHANGED <<now, registry, intents, debt, reservedUsd18>>

Tick ==
  /\ now < MaxTime
  /\ now' = now + 1
  /\ UNCHANGED <<registry, intents, clearing>>

\* What an agent may put in a request for an intent of mandate `id`. It states the account's
\* risk figures itself, so it states the ones that pass.
Requests(id) ==
  {[id |-> id, agent |-> agent, action |-> action, asset |-> asset, venue |-> venue,
    amount |-> amount, projectedDebt |-> 0, gross |-> 0, equity |-> 0, passportAt |-> now,
    slippage |-> slippage] :
     agent \in Actors, action \in MandateActions, asset \in Assets, venue \in Venues \cup {"NONE"},
     amount \in Amounts, slippage \in Slippages}

Next ==
  \/ \E m \in Envelopes : RegisterMandate(m) /\ UNCHANGED <<now, intents, clearing>>
  \/ \E id \in MandateIds, who \in Actors : RevokeMandate(id, who) /\ UNCHANGED <<now, intents, clearing>>
  \/ \E id \in MandateIds, who \in Actors : PauseMandate(id, who) /\ UNCHANGED <<now, intents, clearing>>
  \/ \E id \in MandateIds, who \in Actors : ResumeMandate(id, who) /\ UNCHANGED <<now, intents, clearing>>
  \/ \E i \in IntentIds, who \in Actors : CreateIntent(i, who)
  \/ \E i \in IntentIds : \E req \in Requests(mandateOfIntent(i)) : ValidateIntent(i, req)
  \/ \E i \in IntentIds, who \in Actors : ReserveIntent(i, who)
  \/ \E i \in IntentIds : SubmitIntent(i)
  \/ \E i \in IntentIds, n \in Amounts : RecordFill(i, n)
  \/ \E i \in IntentIds : MarkExecutionUnknown(i)
  \/ \E i \in IntentIds : RequireReconciliation(i)
  \/ \E i \in IntentIds, who \in Actors : CancelIntent(i, who)
  \/ \E i \in IntentIds : Reconcile(i)
  \/ \E who \in Actors, a \in Owners, id \in MandateIds, asset \in Assets, n \in Amounts :
       Execute(who, a, id, asset, n)
  \/ \E a \in Owners, n \in Amounts : Borrow(a, n)
  \/ \E a \in Owners, v \in Values : Revalue(a, v)
  \/ Tick

Spec == Init /\ [][Next]_vars

\* Identifiers are 32-byte words, so there are finitely many; amounts are unsigned; an envelope
\* is decoded to a record of its fields.
ASSUME DelegationConstants ==
  /\ BPS \in Nat \ {0} /\ InitialLtv \in Nat /\ MaxDebt \in Nat /\ MaxTime \in Nat \ {0}
  /\ IsFiniteSet(Owners) /\ IsFiniteSet(Nonces) /\ IsFiniteSet(Plans)
  /\ Values \subseteq Nat /\ Amounts \subseteq Nat
  /\ \A m \in Signed : /\ m.owner \in Owners /\ m.nonce \in Nonces
                       /\ m.maxDebtUsd \in Nat /\ m.maxTradeNotionalUsd \in Nat

-----------------------------------------------------------------------------
(* Correctness.                                                             *)

TypeOK ==
  /\ RegistryTypeOK
  /\ intents \in [IntentIds -> [status : IntentStatus, authorized : Nat, reserved : Nat,
                                filled : Nat, released : Nat]]
  /\ recognized \in [Owners -> Values]
  /\ debt \in [Owners -> Nat]
  /\ reservedUsd18 \in [Owners -> Nat]

SumOver(S, f(_)) == SumFunction([x \in S |-> f(x)])

IntentsOf(a) == {i \in IntentIds : accountOf(i) = a}

IntentsUnder(id) == {i \in IntentIds : mandateOfIntent(i) = id}

\* outstandingReservation: capital still committed to an intent.
outstanding(i) == intents[i].reserved - intents[i].released

\* I-19, I-23 and I-24 at once: what ClearingHouse holds back for an account is, to the dollar,
\* what its intents have reserved and not been proved to have left unused, so that no order of
\* fills, lost answers, cancellations and reconciliations frees capital that may be spent.
ReservedIsOutstanding ==
  /\ \A a \in Owners : reservedUsd18[a] = SumOver(IntentsOf(a), outstanding)
  /\ \A i \in IntentIds : /\ intents[i].filled <= outstanding(i)
                          /\ intents[i].status = "RECONCILED" => outstanding(i) = intents[i].filled

\* What the registry has charged to a mandate's two budgets.
charged(id) == state[id].debtDrawn + state[id].notionalTraded

authorizedUnder(id) == SumOver(IntentsUnder(id), LAMBDA i : intents[i].authorized)

\* The caps an owner signed bound everything an agent ever commits under the mandate, through
\* every split into intents, pause, resumption and attempt to register it again. It is so when
\* the mandate names budgeted actions only.
SignedCapsHold ==
  \A id \in DOMAIN mandateOf :
    mandateOf[id].actions \subseteq {"BORROW"} \cup VenueActions =>
      /\ authorizedUnder(id) = charged(id)
      /\ charged(id) <= mandateOf[id].maxDebtUsd + mandateOf[id].maxTradeNotionalUsd

\* A draw or a reservation never takes an account past its borrow limit with what is reserved
\* for it already: only a fall in value does.
NeverPromisedTwice ==
  [][\A a \in Owners :
       (debt'[a] > debt[a] \/ reservedUsd18'[a] > reservedUsd18[a]) =>
         debt'[a] + reservedUsd18'[a] <= MulDiv(recognized[a], InitialLtv, BPS)]_vars
=============================================================================
