----------------------------- MODULE RiskInputs -----------------------------
(***************************************************************************)
(* The registries every valuation reads: contracts/src/core/AssetRegistry, *)
(* PassportRegistry and RiskPolicyRegistry, and EmergencyController, the   *)
(* guardian's way into them. A reference account that holds a fixed        *)
(* quantity of every asset at a fixed price, valued by RiskMath, shows     *)
(* what each call does to borrowers; a quote is an epoch and the policies  *)
(* a borrower was shown under it. Evidence is external: a Passport commits *)
(* when the evidence registry supports it.                                 *)
(***************************************************************************)
EXTENDS RiskPolicyRegistry

CONSTANTS
  Assets,
  Headers,         (* what a new Passport may declare: expiry (0: none),     *)
                   (* redeemable and floor                                   *)
  Quantity, Price, (* of the reference account's every position              *)
  Controller,      (* EmergencyController's own address                      *)
  MaxVersion       (* bound: Passport versions of an asset                   *)

\* "The controller holds GUARDIAN and never GOVERNANCE" (EmergencyController.sol).
ASSUME InputConstants ==
  /\ IsFiniteSet(Assets)
  /\ Quantity \in Nat /\ Price \in Nat
  /\ Headers \subseteq [expiresAt : Nat, redeemable : BOOLEAN, floor : Nat]
  /\ ~hasRole(Controller, "GOVERNANCE")

VARIABLES
  assets,          (* by asset: status and policy                            *)
  passports,       (* by asset: the headers committed, version by version    *)
  borrowingFrozen, (* EmergencyController                                    *)
  quote            (* the epoch and policies of a quote, as shown            *)

registries == <<assets, passports>>
vars == <<now, policyState, registries, borrowingFrozen, quote>>

\* Types.AssetStatus and Types.PassportStatus in their order.
AssetStatuses == <<"UNREGISTERED", "ACTIVE", "PAUSED", "SUSPENDED", "RETIRED">>

PassportStatuses == <<"NONE", "ACTIVE", "STALE", "CONFLICTED", "SUSPENDED", "REVOKED">>

Ordinal(statuses, s) == CHOOSE i \in DOMAIN statuses : statuses[i] = s

NoPolicy == "NONE"

registered(a) == assets[a].status # "UNREGISTERED"

currentVersion(a) == Len(passports[a])

\* effectiveStatus at time t of an asset with the given Passport versions.
effectiveStatus(t, versions) ==
  LET p == Last(versions) IN
  IF versions = <<>> THEN "NONE"
  ELSE IF p.status = "ACTIVE" /\ p.expiresAt # 0 /\ t > p.expiresAt THEN "STALE"
  ELSE p.status

-----------------------------------------------------------------------------
(* The reference account, as a function of everything a valuation reads: the *)
(* time t, the assets' records, their Passports and the policies.            *)

\* Every input exists; otherwise the evaluation reverts.
HasInputs(records, versions, priced) ==
  \A a \in Assets : /\ records[a].status # "UNREGISTERED"
                    /\ versions[a] # <<>>
                    /\ records[a].policy \in DOMAIN priced

CanBeValued == HasInputs(assets, passports, policies)

\* _assetInput.
assetInput(t, record, versions, policy) ==
  [quantity    |-> Quantity,
   unit        |-> 1,
   price       |-> Price,
   priceAge    |-> 0,
   passport    |-> [age        |-> Monus(t, Last(versions).createdAt),
                    status     |-> effectiveStatus(t, versions),
                    redeemable |-> Last(versions).redeemable,
                    floor      |-> Last(versions).floor],
   assetStatus |-> record.status,
   params      |-> policy.params,
   curve       |-> policy.curve]

portfolio(t, records, versions, priced) ==
  LET held == SetToSeq(Assets) IN
  [i \in DOMAIN held |->
     assetInput(t, records[held[i]], versions[held[i]], priced[records[held[i]].policy])]

NoDebt == [scaledPrincipal |-> 0, borrowIndex |-> WAD, reservedUsd18 |-> 0, statusOverride |-> NORMAL]

\* What the reference account may borrow.
Capacity(t, records, versions, priced) ==
  IF HasInputs(records, versions, priced)
  THEN evaluate(portfolio(t, records, versions, priced), NoDebt, {}).available ELSE 0

\* What a step does to it.
CapacityRises ==
  Capacity(now', assets', passports', policies') > Capacity(now, assets, passports, policies)

Init ==
  /\ PolicyInit
  /\ assets = [a \in Assets |-> [status |-> "UNREGISTERED", policy |-> NoPolicy]]
  /\ passports = [a \in Assets |-> <<>>]
  /\ borrowingFrozen = FALSE
  /\ quote = [epoch |-> 0, policies |-> policies]

-----------------------------------------------------------------------------
(* AssetRegistry.                                                           *)

\* Registered is not admitted: paused.
RegisterAsset(who, a) ==
  /\ hasRole(who, "ADMISSION")
  /\ ~registered(a)
  /\ assets' = [assets EXCEPT ![a].status = "PAUSED"]
  /\ UNCHANGED <<now, policyState, passports, borrowingFrozen, quote>>

\* Variant: a guardian may also set the status back.
MayMoveAnywhere(who, from, to) == isOfficial(who)

MaySetStatus(who, from, to) ==
  \/ hasRole(who, "GOVERNANCE")
  \/ hasRole(who, "GUARDIAN") /\ Ordinal(AssetStatuses, to) > Ordinal(AssetStatuses, from)

setStatus(who, a, s) ==
  /\ registered(a)
  /\ MaySetStatus(who, assets[a].status, s)
  /\ assets' = [assets EXCEPT ![a].status = s]

SetStatus(who, a, s) ==
  /\ setStatus(who, a, s)
  /\ UNCHANGED <<now, policyState, passports, borrowingFrozen, quote>>

BindRiskPolicy(who, a, id) ==
  /\ hasRole(who, "GOVERNANCE")
  /\ registered(a)
  /\ assets' = [assets EXCEPT ![a].policy = id]
  /\ UNCHANGED <<now, policyState, passports, borrowingFrozen, quote>>

(* PassportRegistry. *)

CommitPassport(who, a, h) ==
  /\ hasRole(who, "ADMISSION")
  /\ currentVersion(a) < MaxVersion
  /\ passports' = [passports EXCEPT ![a] = Append(@,
       [status |-> "ACTIVE", createdAt |-> now, expiresAt |-> h.expiresAt,
        redeemable |-> h.redeemable, floor |-> h.floor])]
  /\ UNCHANGED <<now, policyState, assets, borrowingFrozen, quote>>

\* Any committed version, and only downward: there is no way back to ACTIVE.
RestrictPassport(who, a, v, s) ==
  /\ hasRole(who, "ADMISSION") \/ hasRole(who, "GUARDIAN")
  /\ v \in DOMAIN passports[a]
  /\ Ordinal(PassportStatuses, s) > Ordinal(PassportStatuses, passports[a][v].status)
  /\ passports' = [passports EXCEPT ![a][v].status = s]
  /\ UNCHANGED <<now, policyState, assets, borrowingFrozen, quote>>

-----------------------------------------------------------------------------
(* EmergencyController, which holds GUARDIAN. Its adapter and market flags   *)
(* have no reader in the repository.                                        *)

FreezeNewBorrowing(who) ==
  /\ isOfficial(who)
  /\ ~borrowingFrozen
  /\ borrowingFrozen' = TRUE
  /\ BumpEpoch(Controller)
  /\ UNCHANGED <<now, registries, quote>>

LiftBorrowingFreeze(who) ==
  /\ hasRole(who, "GOVERNANCE")
  /\ borrowingFrozen
  /\ borrowingFrozen' = FALSE
  /\ BumpEpoch(Controller)
  /\ UNCHANGED <<now, registries, quote>>

DisableAsset(who, a) ==
  /\ isOfficial(who)
  /\ setStatus(Controller, a, "SUSPENDED")
  /\ UNCHANGED <<now, policyState, passports, borrowingFrozen, quote>>

SetAssetReduceOnly(who, a) ==
  /\ isOfficial(who)
  /\ setStatus(Controller, a, "PAUSED")
  /\ UNCHANGED <<now, policyState, passports, borrowingFrozen, quote>>

-----------------------------------------------------------------------------
\* A borrower is shown today's figures and the epoch they stand under.
Quote ==
  /\ quote' = [epoch |-> riskEpoch, policies |-> policies]
  /\ UNCHANGED <<now, policyState, registries, borrowingFrozen>>

Tick ==
  /\ now < MaxTime
  /\ now' = now + 1
  /\ UNCHANGED <<policyState, registries, borrowingFrozen, quote>>

PolicyNext ==
  /\ riskEpoch < MaxEpoch
  /\ \/ \E who \in Actors, id \in PolicyIds, p \in Proposals, c \in Curves : CreatePolicy(who, id, p, c)
     \/ \E who \in Actors, id \in PolicyIds, p \in Proposals : UpdatePolicy(who, id, p)
     \/ \E id \in PolicyIds : ExecuteQueuedChange(id)
     \/ \E who \in Actors, id \in PolicyIds : CancelQueuedChange(who, id)
     \/ \E who \in Actors, id \in PolicyIds, c \in Curves : SetExitCurve(who, id, c)
     \/ \E who \in Actors : BumpEpoch(who)
  /\ UNCHANGED <<now, registries, borrowingFrozen, quote>>

\* What somebody can do with the guardian's role and no other.
GuardianNext ==
  \E who \in {g \in Actors : RolesOf[g] = {"GUARDIAN"}} :
    \/ \E a \in Assets, s \in Range(AssetStatuses) : SetStatus(who, a, s)
    \/ \E a \in Assets, v \in 1..MaxVersion, s \in Range(PassportStatuses) : RestrictPassport(who, a, v, s)
    \/ riskEpoch < MaxEpoch /\ FreezeNewBorrowing(who)
    \/ \E a \in Assets : DisableAsset(who, a) \/ SetAssetReduceOnly(who, a)

Next ==
  \/ PolicyNext
  \/ \E who \in Actors, a \in Assets : RegisterAsset(who, a)
  \/ \E who \in Actors, a \in Assets, s \in Range(AssetStatuses) : SetStatus(who, a, s)
  \/ \E who \in Actors, a \in Assets, id \in PolicyIds \cup {NoPolicy} : BindRiskPolicy(who, a, id)
  \/ \E who \in Actors, a \in Assets, h \in Headers : CommitPassport(who, a, h)
  \/ \E who \in Actors, a \in Assets, v \in 1..MaxVersion, s \in Range(PassportStatuses) :
       RestrictPassport(who, a, v, s)
  \/ riskEpoch < MaxEpoch /\ \E who \in Actors : FreezeNewBorrowing(who) \/ LiftBorrowingFreeze(who)
  \/ \E who \in Actors, a \in Assets : DisableAsset(who, a) \/ SetAssetReduceOnly(who, a)
  \/ Quote
  \/ Tick

Spec == Init /\ [][Next]_vars

-----------------------------------------------------------------------------
(* Correctness.                                                             *)

TypeOK ==
  /\ PolicyTypeOK
  /\ assets \in [Assets -> [status : Range(AssetStatuses), policy : PolicyIds \cup {NoPolicy}]]
  /\ \A a \in Assets : \A v \in DOMAIN passports[a] :
       /\ passports[a][v].status \in Range(PassportStatuses)
       /\ passports[a][v].createdAt <= now
  /\ borrowingFrozen \in BOOLEAN
  /\ quote.epoch \in 0..riskEpoch

\* I-12, on the side of the registry: while the epoch a quote was stamped with stands, so does
\* every parameter and curve it was priced under, through queued changes that land whenever
\* anybody lands them, cancellations and freezes.
QuotesBindPolicy == quote.epoch = riskEpoch => quote.policies = policies

\* I-26: the only change of parameters that lets anybody borrow more is one that waited out the
\* timelock in the queue, for every route through updates, cancellations and re-queued changes.
LooserOnlyOnNotice ==
  [][(UNCHANGED <<now, registries>> /\ CanBeValued /\ CapacityRises
       /\ \A id \in DOMAIN policies : policies'[id].curve = policies[id].curve) =>
       \E id \in DOMAIN pending : /\ pending[id].eta <= now
                                  /\ policies'[id].params = pending[id].params]_vars

\* Steps past the last status a valuation is gated by: an asset retired, a Passport revoked.
PastTheGates(a) ==
  \/ assets[a].status # "RETIRED" /\ assets'[a].status = "RETIRED"
  \/ \E v \in DOMAIN passports[a] : passports[a][v].status # "REVOKED" /\ passports'[a][v].status = "REVOKED"

\* I-25, as far as it goes: no call of a guardian lets an account borrow more, in whatever order
\* the restrictions come, unless it retires an asset or revokes a Passport.
GuardianRaisesNothing ==
  [][(CapacityRises /\ GuardianNext) => \E a \in Assets : PastTheGates(a)]_vars
=============================================================================
