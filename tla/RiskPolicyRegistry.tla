------------------------- MODULE RiskPolicyRegistry -------------------------
(***************************************************************************)
(* contracts/src/core/RiskPolicyRegistry.sol: the risk parameters and exit *)
(* curves the protocol lends against, the timelock on loosening them, and  *)
(* the epoch that quotes are stamped with.                                 *)
(***************************************************************************)
EXTENDS Authority, RiskMath

CONSTANTS
  PolicyIds,
  Proposals,       (* risk parameters governance may propose                 *)
  Curves,          (* exit curves it may set                                 *)
  TIMELOCK,
  MaxTime,         (* bound: the clock                                       *)
  MaxEpoch         (* bound: the epoch                                       *)

\* Every policy declares the same haircuts: they are fields of Types.RiskParams.
ASSUME PolicyConstants ==
  /\ TIMELOCK \in Nat
  /\ MaxTime \in Nat \ {0}
  /\ \A p \in Proposals :
       /\ {p.initialLtv, p.maintenanceLtv, p.liquidationLtv, p.maxConcentration} \subseteq Nat
       /\ {p.maxOracleAge, p.maxPassportAge} \subseteq Nat
       /\ p.haircuts \in Seq(Nat)
       /\ \A q \in Proposals : Len(p.haircuts) = Len(q.haircuts)
  /\ Curves \subseteq Seq([threshold : Nat, recovery : Nat])

VARIABLES
  now,             (* block.timestamp                                        *)
  policies,        (* by id of the policies that exist: params and curve     *)
  pending,         (* by id of the changes queued: params and eta            *)
  riskEpoch

policyState == <<policies, pending, riskEpoch>>

policyExists(id) == id \in DOMAIN policies

\* A mapping with `value` written at `key`, and one with `key` deleted.
With(mapping, key, value) ==
  [k \in DOMAIN mapping \cup {key} |-> IF k = key THEN value ELSE mapping[k]]

Without(mapping, key) == [k \in DOMAIN mapping \ {key} |-> mapping[k]]

validParams(p) ==
  /\ p.initialLtv <= p.maintenanceLtv /\ p.maintenanceLtv <= p.liquidationLtv
  /\ p.liquidationLtv < BPS
  /\ p.maxConcentration <= BPS
  /\ \A i \in DOMAIN p.haircuts : p.haircuts[i] < BPS

validCurve(curve) ==
  /\ curve # <<>>
  /\ \A i \in DOMAIN curve : curve[i].recovery <= BPS
  /\ \A i \in 2..Len(curve) : /\ curve[i].threshold > curve[i - 1].threshold
                              /\ curve[i].recovery <= curve[i - 1].recovery

\* More credit for the same collateral; on its own, a variant of the next that forgets freshness.
increasesLeverage(old, new) ==
  \/ new.initialLtv > old.initialLtv
  \/ new.maintenanceLtv > old.maintenanceLtv
  \/ new.liquidationLtv > old.liquidationLtv
  \/ new.maxConcentration > old.maxConcentration
  \/ \E i \in DOMAIN new.haircuts : new.haircuts[i] < old.haircuts[i]

\* Anything that would let an account borrow more than it can today.
increasesRisk(old, new) ==
  \/ increasesLeverage(old, new)
  \/ new.maxOracleAge > old.maxOracleAge
  \/ new.maxPassportAge > old.maxPassportAge

\* Variant: the epoch stands still.
KeepEpoch == riskEpoch' = riskEpoch

\* _advanceEpoch, whatever the cause.
AdvanceEpoch == riskEpoch' = riskEpoch + 1

-----------------------------------------------------------------------------
PolicyInit ==
  /\ now = 1
  /\ policies = [id \in {} |-> {}]
  /\ pending = [id \in {} |-> {}]
  /\ riskEpoch = 1

CreatePolicy(who, id, p, curve) ==
  /\ hasRole(who, "GOVERNANCE")
  /\ ~policyExists(id)
  /\ validParams(p)
  /\ validCurve(curve)
  /\ policies' = With(policies, id, [params |-> p, curve |-> curve])
  /\ AdvanceEpoch
  /\ UNCHANGED pending

\* A looser change is queued, over whatever was queued; any other takes effect, and leaves in
\* the queue what is there.
UpdatePolicy(who, id, p) ==
  /\ hasRole(who, "GOVERNANCE")
  /\ policyExists(id)
  /\ validParams(p)
  /\ \/ /\ increasesRisk(policies[id].params, p)
        /\ pending' = With(pending, id, [params |-> p, eta |-> now + TIMELOCK])
        /\ UNCHANGED <<policies, riskEpoch>>
     \/ /\ ~increasesRisk(policies[id].params, p)
        /\ policies' = [policies EXCEPT ![id].params = p]
        /\ AdvanceEpoch
        /\ UNCHANGED pending

\* By anybody, once its time has come.
ExecuteQueuedChange(id) ==
  /\ id \in DOMAIN pending
  /\ now >= pending[id].eta
  /\ policies' = [policies EXCEPT ![id].params = pending[id].params]
  /\ pending' = Without(pending, id)
  /\ AdvanceEpoch

CancelQueuedChange(who, id) ==
  /\ isOfficial(who)
  /\ pending' = Without(pending, id)
  /\ UNCHANGED <<policies, riskEpoch>>

SetExitCurve(who, id, curve) ==
  /\ hasRole(who, "GOVERNANCE")
  /\ policyExists(id)
  /\ validCurve(curve)
  /\ policies' = [policies EXCEPT ![id].curve = curve]
  /\ AdvanceEpoch
  /\ UNCHANGED pending

\* canBumpEpoch is the role EPOCH_BUMPER here, granted at deployment like the others.
BumpEpoch(who) ==
  /\ hasRole(who, "EPOCH_BUMPER") \/ hasRole(who, "ADMISSION") \/ isOfficial(who)
  /\ AdvanceEpoch
  /\ UNCHANGED <<policies, pending>>

\* A borrower who draws to the limit is not yet in breach, and no limit lends the whole value.
SoundLtvs(p) ==
  p.initialLtv <= p.maintenanceLtv /\ p.maintenanceLtv <= p.liquidationLtv /\ p.liquidationLtv < BPS

PolicyTypeOK ==
  /\ now \in 1..MaxTime
  /\ DOMAIN policies \subseteq PolicyIds
  /\ \A id \in DOMAIN policies : /\ policies[id].params \in Proposals /\ SoundLtvs(policies[id].params)
                                 /\ policies[id].curve \in Curves
  /\ DOMAIN pending \subseteq DOMAIN policies
  /\ \A id \in DOMAIN pending : /\ pending[id].params \in Proposals /\ SoundLtvs(pending[id].params)
                                /\ pending[id].eta \in Nat
  /\ riskEpoch \in Nat
=============================================================================
