--------------------------- MODULE RegistryProofs ---------------------------
(***************************************************************************)
(* The inputs of a credit decision, for every asset, policy, proposal and  *)
(* scale: a tightening never lends more, however many positions, haircuts  *)
(* and limits it touches; a quote's epoch vouches for its policies; the    *)
(* guardian's calls only take credit away.  And the service that feeds the *)
(* registries, for every number of jobs, workers, documents and runs: a    *)
(* conclusion is handed on again only after a reclaim; a floor has paths   *)
(* of two groups behind it; a record, a worker's copy and a proof never    *)
(* say more than the chain.                                                *)
(***************************************************************************)
EXTENDS RiskInputs, Passports, EvidenceJobs, Induction

-----------------------------------------------------------------------------
(* The pipeline, position by position.                                      *)

\* The kernel's total is the sum of a sequence.
LEMMA TotalIs == ASSUME NEW seq PROVE Total(seq) = Added(seq)
BY DEF Total, Added

\* What an account may draw, written out.
LEMMA AvailableIs ==
  ASSUME NEW xs, NEW acct, NEW sequencer
  PROVE  LET capped == cappedValues(xs)
             borrow == Total([i \in DOMAIN xs |-> MulDiv(capped[i], xs[i].params.initialLtv, BPS)])
             maintenance == Total([i \in DOMAIN xs |-> MulDiv(capped[i], xs[i].params.maintenanceLtv, BPS)])
             liquidation == Total([i \in DOMAIN xs |-> MulDiv(capped[i], xs[i].params.liquidationLtv, BPS)])
             debt == debtAt(acct.scaledPrincipal, acct.borrowIndex)
             base == baseStatus(debt, [borrow |-> borrow, maintenance |-> maintenance, liquidation |-> liquidation])
             gates == UNION {assetGates(xs[i]) : i \in DOMAIN xs} \cup sequencer
             floor == IF gates = {} THEN NORMAL ELSE NO_NEW_RISK
         IN  evaluate(xs, acct, sequencer).available =
               IF Greatest(Greatest(base, floor), acct.statusOverride) = NORMAL
               THEN Monus(borrow, debt + acct.reservedUsd18) ELSE 0
BY DEF evaluate

\* Two portfolios, position for position, of which the first is worth no more and lends on no more
\* of it.
Below(n, xs, ys) ==
  /\ DOMAIN xs = 1..n /\ DOMAIN ys = 1..n
  /\ \A i \in 1..n :
       /\ recognized(xs[i]) \in Nat /\ recognized(ys[i]) \in Nat
       /\ recognized(xs[i]) <= recognized(ys[i])
       /\ xs[i].params.maxConcentration \in Nat /\ ys[i].params.maxConcentration \in Nat
       /\ xs[i].params.maxConcentration <= ys[i].params.maxConcentration
       /\ xs[i].params.initialLtv \in Nat /\ ys[i].params.initialLtv \in Nat
       /\ xs[i].params.initialLtv <= ys[i].params.initialLtv

\* The cap on concentration is against a total that a lower value of one position lowers for all.
LEMMA CappedOrder ==
  ASSUME NEW n \in Nat, NEW xs, NEW ys, Below(n, xs, ys), NEW i \in 1..n
  PROVE  /\ cappedValues(xs)[i] \in Nat /\ cappedValues(ys)[i] \in Nat
         /\ cappedValues(xs)[i] <= cappedValues(ys)[i]
<1> DEFINE v == [j \in DOMAIN xs |-> recognized(xs[j])]
           w == [j \in DOMAIN ys |-> recognized(ys[j])]
<1>1. DOMAIN xs = 1..n /\ DOMAIN ys = 1..n
  BY DEF Below
<1>2. v \in [1..n -> Nat] /\ w \in [1..n -> Nat] /\ \A j \in 1..n : v[j] <= w[j]
  BY <1>1 DEF Below
<1>3. /\ cappedValues(xs)[i] = Least(v[i], MulDiv(Total(v), xs[i].params.maxConcentration, BPS))
      /\ cappedValues(ys)[i] = Least(w[i], MulDiv(Total(w), ys[i].params.maxConcentration, BPS))
  BY <1>1 DEF cappedValues
<1> HIDE DEF v, w
<1>4. Total(v) \in Nat /\ Total(w) \in Nat /\ Total(v) <= Total(w)
  BY <1>2, TotalIs, TotalOrder
<1>5. PICK c \in Nat, e \in Nat : /\ c = xs[i].params.maxConcentration
                                  /\ e = ys[i].params.maxConcentration /\ c <= e
  BY DEF Below
<1>6. PICK p \in Nat, q \in Nat : p = MulDiv(Total(v), c, BPS) /\ q = MulDiv(Total(w), e, BPS) /\ p <= q
  <2>1. PICK t \in Nat, u \in Nat : t = Total(v) /\ u = Total(w) /\ t <= u
    BY <1>4
  <2>2. MulDiv(t, c, BPS) \in Nat /\ MulDiv(u, e, BPS) \in Nat /\ MulDiv(t, c, BPS) <= MulDiv(u, e, BPS)
    BY <1>5, <2>1, MulDivOrder, Scales
  <2>. QED
    BY <2>1, <2>2
<1>7. v[i] \in Nat /\ w[i] \in Nat /\ v[i] <= w[i]
  BY <1>2
<1>8. /\ Least(v[i], p) \in Nat /\ Least(w[i], q) \in Nat
      /\ Least(v[i], p) <= Least(w[i], q)
  BY <1>6, <1>7 DEF Least
<1>. QED
  BY <1>3, <1>5, <1>6, <1>8

\* So the borrowing limit follows.
LEMMA LimitOrder ==
  ASSUME NEW n \in Nat, NEW xs, NEW ys, Below(n, xs, ys)
  PROVE  LET a == [i \in DOMAIN xs |-> MulDiv(cappedValues(xs)[i], xs[i].params.initialLtv, BPS)]
             b == [i \in DOMAIN ys |-> MulDiv(cappedValues(ys)[i], ys[i].params.initialLtv, BPS)]
         IN  Total(a) \in Nat /\ Total(b) \in Nat /\ Total(a) <= Total(b)
<1> DEFINE a == [i \in DOMAIN xs |-> MulDiv(cappedValues(xs)[i], xs[i].params.initialLtv, BPS)]
           b == [i \in DOMAIN ys |-> MulDiv(cappedValues(ys)[i], ys[i].params.initialLtv, BPS)]
<1>1. DOMAIN xs = 1..n /\ DOMAIN ys = 1..n
  BY DEF Below
<1>2. ASSUME NEW i \in 1..n
      PROVE  a[i] \in Nat /\ b[i] \in Nat /\ a[i] <= b[i]
  <2>1. PICK c \in Nat, e \in Nat : c = cappedValues(xs)[i] /\ e = cappedValues(ys)[i] /\ c <= e
    BY CappedOrder
  <2>2. PICK l \in Nat, m \in Nat : l = xs[i].params.initialLtv /\ m = ys[i].params.initialLtv /\ l <= m
    BY DEF Below
  <2>3. MulDiv(c, l, BPS) \in Nat /\ MulDiv(e, m, BPS) \in Nat /\ MulDiv(c, l, BPS) <= MulDiv(e, m, BPS)
    BY <2>1, <2>2, MulDivOrder, Scales
  <2>. QED
    BY <1>1, <2>1, <2>2, <2>3
<1>3. a \in [1..n -> Nat] /\ b \in [1..n -> Nat]
  BY <1>1, <1>2
<1> HIDE DEF a, b
<1>4. Total(a) \in Nat /\ Total(b) \in Nat /\ Total(a) <= Total(b)
  BY <1>2, <1>3, TotalIs, TotalOrder
<1>. QED
  BY <1>4 DEF a, b

\* And what may be drawn, unless the lower portfolio sheds a restriction.
LEMMA AvailableOrder ==
  ASSUME NEW n \in Nat, NEW xs, NEW ys, Below(n, xs, ys),
         NEW acct, acct.scaledPrincipal \in Nat, acct.borrowIndex \in Nat, acct.reservedUsd18 \in Nat,
         acct.statusOverride \in Nat, NEW sequencer,
         \A i \in 1..n : assetGates(xs[i]) = {} => assetGates(ys[i]) = {}
  PROVE  /\ evaluate(xs, acct, sequencer).available \in Nat
         /\ evaluate(ys, acct, sequencer).available \in Nat
         /\ evaluate(xs, acct, sequencer).available <= evaluate(ys, acct, sequencer).available
<1> DEFINE borrow(zs) == Total([i \in DOMAIN zs |-> MulDiv(cappedValues(zs)[i], zs[i].params.initialLtv, BPS)])
           gates(zs) == UNION {assetGates(zs[i]) : i \in DOMAIN zs} \cup sequencer
           debt == debtAt(acct.scaledPrincipal, acct.borrowIndex)
           used == debt + acct.reservedUsd18
           Normal(zs) == debt <= borrow(zs) /\ gates(zs) = {} /\ acct.statusOverride = 0
<1>1. DOMAIN xs = 1..n /\ DOMAIN ys = 1..n
  BY DEF Below
<1>2. borrow(xs) \in Nat /\ borrow(ys) \in Nat /\ borrow(xs) <= borrow(ys)
  BY LimitOrder
<1>3. debt \in Nat
  <2>1. PICK p \in Nat : p = acct.scaledPrincipal
    OBVIOUS
  <2>2. PICK q \in Nat : q = acct.borrowIndex
    OBVIOUS
  <2>3. p <= p /\ q <= q /\ WAD \in Nat \ {0}
    BY Scales
  <2>4. MulDiv(p, q, WAD) \in Nat
    BY <2>3, MulDivOrder
  <2>. QED
    BY <2>1, <2>2, <2>4 DEF debtAt, MulDivUp
<1>4. ASSUME NEW zs, borrow(zs) \in Nat
      PROVE  evaluate(zs, acct, sequencer).available =
               IF Normal(zs) THEN Monus(borrow(zs), used) ELSE 0
  <2> DEFINE maintenance == Total([i \in DOMAIN zs |-> MulDiv(cappedValues(zs)[i], zs[i].params.maintenanceLtv, BPS)])
             liquidation == Total([i \in DOMAIN zs |-> MulDiv(cappedValues(zs)[i], zs[i].params.liquidationLtv, BPS)])
             base == baseStatus(debt, [borrow |-> borrow(zs), maintenance |-> maintenance, liquidation |-> liquidation])
             floor == IF gates(zs) = {} THEN NORMAL ELSE NO_NEW_RISK
             status == Greatest(Greatest(base, floor), acct.statusOverride)
  <2>1. evaluate(zs, acct, sequencer).available =
          IF status = NORMAL THEN Monus(borrow(zs), used) ELSE 0
    BY AvailableIs
  <2>2. base \in 0..3 /\ (base = 0 <=> debt <= borrow(zs))
    BY DEF baseStatus, NORMAL, NO_NEW_RISK, REDUCE_ONLY, MARGIN_CALL
  <2>3. floor \in 0..1 /\ (floor = 0 <=> gates(zs) = {})
    BY DEF NORMAL, NO_NEW_RISK
  <2> HIDE DEF base, floor, borrow, gates, debt
  <2>4. PICK o \in Nat : o = acct.statusOverride
    OBVIOUS
  <2>5. Greatest(Greatest(base, floor), o) = 0 <=> base = 0 /\ floor = 0 /\ o = 0
    BY <2>2, <2>3, <2>4 DEF Greatest
  <2>6. status = NORMAL <=> Normal(zs)
    BY <2>2, <2>3, <2>4, <2>5 DEF NORMAL
  <2>. QED
    BY <2>1, <2>6
<1>5. gates(xs) = {} => gates(ys) = {}
  BY <1>1
<1> HIDE DEF borrow, gates, debt
<1>6. Normal(xs) => Normal(ys)
  BY <1>2, <1>3, <1>5
<1>7. used \in Nat
  BY <1>3
<1>8. /\ Monus(borrow(xs), used) \in Nat /\ Monus(borrow(ys), used) \in Nat
      /\ Monus(borrow(xs), used) <= Monus(borrow(ys), used)
  BY <1>2, <1>7 DEF Monus
<1> HIDE DEF used, Normal
<1>. QED
  BY <1>2, <1>4, <1>6, <1>8

-----------------------------------------------------------------------------
(* The registries: what every reachable state keeps.                        *)

PassportRecords ==
  [status : Range(PassportStatuses), createdAt : Nat, expiresAt : Nat, redeemable : BOOLEAN, floor : Nat]

ValidParams == {p \in Proposals : validParams(p)}

SoundPolicies == [params : ValidParams, curve : {c \in Curves : validCurve(c)}]

\* The policies and what was quoted of them.
PolicySide ==
  /\ now \in 1..MaxTime
  /\ riskEpoch \in Nat
  /\ policies \in [DOMAIN policies -> SoundPolicies]
  /\ DOMAIN policies \subseteq PolicyIds
  /\ DOMAIN pending \subseteq DOMAIN policies
  /\ \A id \in DOMAIN pending : pending[id].params \in ValidParams /\ pending[id].eta \in Nat
  /\ quote.epoch \in 0..riskEpoch
  /\ QuotesBindPolicy

\* The assets, their Passports and the freeze.
RegistrySide ==
  /\ now \in Nat
  /\ assets \in [Assets -> [status : Range(AssetStatuses), policy : PolicyIds \cup {NoPolicy}]]
  /\ passports \in [Assets -> Seq(PassportRecords)]
  /\ \A a \in Assets : \A v \in DOMAIN passports[a] : passports[a][v].createdAt <= now
  /\ borrowingFrozen \in BOOLEAN

Coherent == PolicySide /\ RegistrySide

\* The registries start in order.
LEMMA CoherentInit == Init => Coherent
<1> SUFFICES ASSUME Init
             PROVE  Coherent
  OBVIOUS
<1> USE DEF Init, PolicyInit
<1>1. PolicySide
  <2>1. 1 \in 1..MaxTime
    BY PolicyConstants
  <2>2. policies \in [DOMAIN policies -> SoundPolicies]
    OBVIOUS
  <2>3. quote.epoch = 0 /\ riskEpoch = 1
    OBVIOUS
  <2>4. DOMAIN pending = {} /\ DOMAIN policies = {}
    OBVIOUS
  <2>. QED
    BY <2>1, <2>2, <2>3, <2>4 DEF PolicySide, QuotesBindPolicy
<1>2. RegistrySide
  <2>1. "UNREGISTERED" \in Range(AssetStatuses)
    <3>1. 1 \in DOMAIN AssetStatuses /\ AssetStatuses[1] = "UNREGISTERED"
      BY DEF AssetStatuses
    <3>. QED
      BY <3>1 DEF Range
  <2>2. /\ <<>> \in Seq(PassportRecords) /\ DOMAIN <<>> = {}
        /\ NoPolicy \in PolicyIds \cup {NoPolicy} /\ 1 \in Nat
    OBVIOUS
  <2>3. [status |-> "UNREGISTERED", policy |-> NoPolicy]
          \in [status : Range(AssetStatuses), policy : PolicyIds \cup {NoPolicy}]
    BY <2>1
  <2>4. passports \in [Assets -> Seq(PassportRecords)] /\ \A a \in Assets : passports[a] = <<>>
    BY <2>2
  <2>. QED
    BY <2>2, <2>3, <2>4 DEF RegistrySide
<1>. QED
  BY <1>1, <1>2 DEF Coherent

\* Whoever moves the epoch on frees the quotes; whoever does not leaves the policies alone.
LEMMA EpochMoves ==
  ASSUME PolicySide, AdvanceEpoch, UNCHANGED <<now, quote>>,
         policies' \in [DOMAIN policies' -> SoundPolicies], DOMAIN policies' \subseteq PolicyIds,
         DOMAIN pending' \subseteq DOMAIN policies',
         \A id \in DOMAIN pending' : pending'[id].params \in ValidParams /\ pending'[id].eta \in Nat
  PROVE  PolicySide'
<1>1. riskEpoch' \in Nat /\ quote'.epoch \in 0..riskEpoch' /\ quote'.epoch # riskEpoch'
  BY DEF PolicySide, AdvanceEpoch
<1>. QED
  BY <1>1 DEF PolicySide, QuotesBindPolicy

\* A call that publishes nothing keeps the policy side, while what is pending is valid.
LEMMA EpochStays ==
  ASSUME PolicySide, UNCHANGED <<now, quote, policies, riskEpoch>>,
         DOMAIN pending' \subseteq DOMAIN policies',
         \A id \in DOMAIN pending' : pending'[id].params \in ValidParams /\ pending'[id].eta \in Nat
  PROVE  PolicySide'
BY DEF PolicySide, QuotesBindPolicy

\* Every policy call keeps the policy side.
LEMMA PolicyStep == PolicySide /\ PolicyNext => PolicySide'
<1> SUFFICES ASSUME PolicySide, PolicyNext
             PROVE  PolicySide'
  OBVIOUS
<1>0. UNCHANGED <<now, quote>>
  BY DEF PolicyNext
<1>1. ASSUME NEW who \in Actors, NEW id \in PolicyIds, NEW p \in Proposals, NEW c \in Curves,
             CreatePolicy(who, id, p, c)
      PROVE  PolicySide'
  <2>1. [params |-> p, curve |-> c] \in SoundPolicies
    BY <1>1 DEF CreatePolicy, SoundPolicies, ValidParams
  <2>2. policies' \in [DOMAIN policies' -> SoundPolicies] /\ DOMAIN policies' = DOMAIN policies \cup {id}
    BY <1>1, <2>1 DEF CreatePolicy, With, PolicySide
  <2>3. pending' = pending /\ AdvanceEpoch
    BY <1>1 DEF CreatePolicy
  <2>. QED
    BY <1>0, <2>2, <2>3, EpochMoves DEF PolicySide
<1>2. ASSUME NEW who \in Actors, NEW id \in PolicyIds, NEW p \in Proposals, UpdatePolicy(who, id, p)
      PROVE  PolicySide'
  <2>0. p \in ValidParams /\ id \in DOMAIN policies
    BY <1>2 DEF UpdatePolicy, ValidParams, policyExists
  <2>1. CASE /\ pending' = With(pending, id, [params |-> p, eta |-> now + TIMELOCK])
             /\ UNCHANGED <<policies, riskEpoch>>
    <3>1. now + TIMELOCK \in Nat
      BY PolicyConstants DEF PolicySide
    <3>2. DOMAIN pending' = DOMAIN pending \cup {id}
      BY <2>1 DEF With
    <3>3. \A k \in DOMAIN pending' : pending'[k].params \in ValidParams /\ pending'[k].eta \in Nat
      BY <2>0, <2>1, <3>1 DEF With, PolicySide
    <3>4. DOMAIN pending' \subseteq DOMAIN policies'
      BY <2>0, <2>1, <3>2 DEF PolicySide
    <3>. QED
      BY <1>0, <2>1, <3>3, <3>4, EpochStays
  <2>2. CASE policies' = [policies EXCEPT ![id].params = p] /\ AdvanceEpoch /\ UNCHANGED pending
    <3>1. policies' \in [DOMAIN policies -> SoundPolicies]
      BY <2>0, <2>2 DEF PolicySide, SoundPolicies
    <3>. QED
      BY <1>0, <2>2, <3>1, EpochMoves DEF PolicySide
  <2>. QED
    BY <1>2, <2>1, <2>2 DEF UpdatePolicy
<1>3. ASSUME NEW id \in PolicyIds, ExecuteQueuedChange(id)
      PROVE  PolicySide'
  <2>1. id \in DOMAIN policies /\ pending[id].params \in ValidParams
    BY <1>3 DEF ExecuteQueuedChange, PolicySide
  <2>2. policies' \in [DOMAIN policies -> SoundPolicies]
    BY <1>3, <2>1 DEF ExecuteQueuedChange, PolicySide, SoundPolicies
  <2>3. DOMAIN pending' = DOMAIN pending \ {id} /\ \A k \in DOMAIN pending' : pending'[k] = pending[k]
    BY <1>3 DEF ExecuteQueuedChange, Without
  <2>4. AdvanceEpoch
    BY <1>3 DEF ExecuteQueuedChange
  <2>. QED
    BY <1>0, <2>2, <2>3, <2>4, EpochMoves DEF PolicySide
<1>4. ASSUME NEW who \in Actors, NEW id \in PolicyIds, CancelQueuedChange(who, id)
      PROVE  PolicySide'
  <2>1. DOMAIN pending' = DOMAIN pending \ {id} /\ \A k \in DOMAIN pending' : pending'[k] = pending[k]
    BY <1>4 DEF CancelQueuedChange, Without
  <2>2. UNCHANGED <<policies, riskEpoch>>
    BY <1>4 DEF CancelQueuedChange
  <2>. QED
    BY <1>0, <2>1, <2>2, EpochStays DEF PolicySide
<1>5. ASSUME NEW who \in Actors, NEW id \in PolicyIds, NEW c \in Curves, SetExitCurve(who, id, c)
      PROVE  PolicySide'
  <2>1. policies' \in [DOMAIN policies -> SoundPolicies]
    BY <1>5 DEF SetExitCurve, PolicySide, SoundPolicies
  <2>2. pending' = pending /\ AdvanceEpoch
    BY <1>5 DEF SetExitCurve
  <2>. QED
    BY <1>0, <2>1, <2>2, EpochMoves DEF PolicySide
<1>6. ASSUME NEW who \in Actors, BumpEpoch(who)
      PROVE  PolicySide'
  BY <1>0, <1>6, EpochMoves DEF BumpEpoch, PolicySide
<1>. QED
  BY <1>1, <1>2, <1>3, <1>4, <1>5, <1>6 DEF PolicyNext

\* An asset's status changes, or one of its Passports' does.
LEMMA StatusStep ==
  ASSUME RegistrySide, NEW who, NEW a \in Assets, NEW s \in Range(AssetStatuses), setStatus(who, a, s),
         UNCHANGED <<now, passports, borrowingFrozen>>
  PROVE  RegistrySide'
BY DEF RegistrySide, setStatus

\* Every step keeps the registries.
LEMMA RegistryStep == Coherent /\ Next => RegistrySide'
<1> SUFFICES ASSUME Coherent, Next
             PROVE  RegistrySide'
  OBVIOUS
<1>0. RegistrySide /\ now \in Nat
  BY DEF Coherent, RegistrySide
<1>1. \A i \in 1..5 : AssetStatuses[i] \in Range(AssetStatuses)
  <2>1. DOMAIN AssetStatuses = 1..5
    BY DEF AssetStatuses
  <2>. QED
    BY <2>1 DEF Range
<1>2. /\ "UNREGISTERED" \in Range(AssetStatuses) /\ "PAUSED" \in Range(AssetStatuses)
      /\ "SUSPENDED" \in Range(AssetStatuses)
  <2>1. AssetStatuses[1] = "UNREGISTERED" /\ AssetStatuses[3] = "PAUSED" /\ AssetStatuses[4] = "SUSPENDED"
    BY DEF AssetStatuses
  <2>. QED
    BY <1>1, <2>1
<1>3. CASE UNCHANGED <<now, registries, borrowingFrozen>>
  BY <1>0, <1>3 DEF RegistrySide, registries
<1>4. ASSUME NEW who \in Actors, NEW a \in Assets, RegisterAsset(who, a)
      PROVE  RegistrySide'
  BY <1>0, <1>2, <1>4 DEF RegistrySide, RegisterAsset
<1>5. ASSUME NEW who \in Actors, NEW a \in Assets, NEW s \in Range(AssetStatuses), SetStatus(who, a, s)
      PROVE  RegistrySide'
  BY <1>0, <1>5, StatusStep DEF SetStatus
<1>6. ASSUME NEW who \in Actors, NEW a \in Assets, DisableAsset(who, a) \/ SetAssetReduceOnly(who, a)
      PROVE  RegistrySide'
  <2>1. CASE DisableAsset(who, a)
    BY <1>0, <1>2, <2>1, StatusStep DEF DisableAsset
  <2>2. CASE SetAssetReduceOnly(who, a)
    BY <1>0, <1>2, <2>2, StatusStep DEF SetAssetReduceOnly
  <2>. QED
    BY <1>6, <2>1, <2>2
<1>7. ASSUME NEW who \in Actors, NEW a \in Assets, NEW id \in PolicyIds \cup {NoPolicy},
             BindRiskPolicy(who, a, id)
      PROVE  RegistrySide'
  BY <1>0, <1>7 DEF RegistrySide, BindRiskPolicy
<1>8. ASSUME NEW who \in Actors, NEW a \in Assets, NEW h \in Headers, CommitPassport(who, a, h)
      PROVE  RegistrySide'
  <2> DEFINE r == [status |-> "ACTIVE", createdAt |-> now, expiresAt |-> h.expiresAt,
                   redeemable |-> h.redeemable, floor |-> h.floor]
  <2>1. "ACTIVE" \in Range(PassportStatuses)
    <3>1. 2 \in DOMAIN PassportStatuses /\ PassportStatuses[2] = "ACTIVE"
      BY DEF PassportStatuses
    <3>. QED
      BY <3>1 DEF Range
  <2>2. h.expiresAt \in Nat /\ h.redeemable \in BOOLEAN /\ h.floor \in Nat
    BY InputConstants
  <2>3. r \in PassportRecords /\ r.createdAt = now
    BY <1>0, <2>1, <2>2 DEF PassportRecords
  <2> HIDE DEF r
  <2>4. passports' = [passports EXCEPT ![a] = Append(passports[a], r)] /\ UNCHANGED <<now, assets, borrowingFrozen>>
    BY <1>8 DEF CommitPassport, r
  <2>5. passports[a] \in Seq(PassportRecords)
    BY <1>0 DEF RegistrySide
  <2>6. /\ Append(passports[a], r) \in Seq(PassportRecords)
        /\ \A v \in DOMAIN Append(passports[a], r) :
             Append(passports[a], r)[v] = IF v = Len(passports[a]) + 1 THEN r ELSE passports[a][v]
        /\ DOMAIN Append(passports[a], r) = 1..(Len(passports[a]) + 1)
    BY <2>3, <2>5
  <2>7. \A v \in DOMAIN Append(passports[a], r) : Append(passports[a], r)[v].createdAt <= now
    BY <1>0, <2>3, <2>5, <2>6 DEF RegistrySide
  <2>. QED
    BY <1>0, <2>4, <2>6, <2>7 DEF RegistrySide
<1>9. ASSUME NEW who \in Actors, NEW a \in Assets, NEW v \in 1..MaxVersion,
             NEW s \in Range(PassportStatuses), RestrictPassport(who, a, v, s)
      PROVE  RegistrySide'
  <2>1. v \in DOMAIN passports[a] /\ passports[a] \in Seq(PassportRecords)
    BY <1>0, <1>9 DEF RegistrySide, RestrictPassport
  <2> DEFINE changed == [passports[a] EXCEPT ![v].status = s]
  <2>2. /\ passports' = [passports EXCEPT ![a] = changed]
        /\ UNCHANGED <<now, assets, borrowingFrozen>>
    BY <1>9 DEF RestrictPassport
  <2>3. /\ changed \in Seq(PassportRecords) /\ DOMAIN changed = DOMAIN passports[a]
        /\ \A w \in DOMAIN changed : changed[w].createdAt = passports[a][w].createdAt
    <3> DEFINE n == Len(passports[a])
    <3>1. n \in Nat /\ DOMAIN passports[a] = 1..n /\ \A w \in 1..n : passports[a][w] \in PassportRecords
      BY <2>1
    <3>2. [passports[a][v] EXCEPT !.status = s] \in PassportRecords
      BY <2>1, <3>1 DEF PassportRecords
    <3>3. [passports[a][v] EXCEPT !.status = s].createdAt = passports[a][v].createdAt
      BY <2>1, <3>1 DEF PassportRecords
    <3>4. /\ DOMAIN changed = 1..n /\ changed = [w \in 1..n |-> changed[w]]
          /\ \A w \in 1..n : changed[w] = IF w = v THEN [passports[a][v] EXCEPT !.status = s]
                                         ELSE passports[a][w]
      BY <2>1, <3>1
    <3> HIDE DEF changed, n
    <3>5. \A w \in 1..n : changed[w] \in PassportRecords
      BY <3>1, <3>2, <3>4
    <3>6. changed \in [1..n -> PassportRecords]
      BY <3>4, <3>5
    <3>7. changed \in Seq(PassportRecords)
      BY <3>1, <3>6
    <3>. QED
      BY <3>1, <3>3, <3>4, <3>7
  <2> HIDE DEF changed
  <2>. QED
    BY <1>0, <2>2, <2>3 DEF RegistrySide
<1>10. ASSUME NEW who \in Actors, FreezeNewBorrowing(who) \/ LiftBorrowingFreeze(who)
       PROVE  RegistrySide'
  BY <1>0, <1>10 DEF FreezeNewBorrowing, LiftBorrowingFreeze, RegistrySide, registries
<1>11. CASE Tick
  <2>1. now' = now + 1 /\ UNCHANGED <<registries, borrowingFrozen>>
    BY <1>11 DEF Tick
  <2>2. \A a \in Assets : \A v \in DOMAIN passports[a] : passports[a][v].createdAt \in Nat
    <3>1. ASSUME NEW a \in Assets, NEW v \in DOMAIN passports[a]
          PROVE  passports[a][v].createdAt \in Nat
      <4>1. passports[a] \in Seq(PassportRecords)
        BY <1>0 DEF RegistrySide
      <4>2. passports[a][v] \in PassportRecords
        BY <4>1
      <4>. QED
        BY <4>2 DEF PassportRecords
    <3>. QED
      BY <3>1
  <2>. QED
    BY <1>0, <2>1, <2>2 DEF RegistrySide, registries
<1>. QED
  BY <1>3, <1>4, <1>5, <1>6, <1>7, <1>8, <1>9, <1>10, <1>11 DEF Next, PolicyNext, Quote

\* Every step keeps the invariant.
LEMMA CoherentNext == Coherent /\ [Next]_vars => Coherent'
<1> SUFFICES ASSUME Coherent, [Next]_vars
             PROVE  Coherent'
  OBVIOUS
<1>1. CASE UNCHANGED vars
  BY <1>1 DEF Coherent, PolicySide, RegistrySide, QuotesBindPolicy, vars, policyState, registries
<1>2. CASE Next
  <2>1. RegistrySide'
    BY <1>2, RegistryStep
  <2> SUFFICES PolicySide'
    BY <2>1 DEF Coherent
  <2>2. PolicySide
    BY DEF Coherent
  <2>3. CASE PolicyNext
    BY <2>2, <2>3, PolicyStep
  <2>4. CASE UNCHANGED <<now, policyState, quote>>
    BY <2>2, <2>4 DEF PolicySide, QuotesBindPolicy, policyState
  <2>5. ASSUME NEW who \in Actors, FreezeNewBorrowing(who) \/ LiftBorrowingFreeze(who)
        PROVE  PolicySide'
    <3>1. UNCHANGED <<now, quote, policies, pending>> /\ AdvanceEpoch
      BY <2>5 DEF FreezeNewBorrowing, LiftBorrowingFreeze, BumpEpoch
    <3>. QED
      BY <2>2, <3>1, EpochMoves DEF PolicySide
  <2>6. CASE Quote
    BY <2>2, <2>6 DEF Quote, PolicySide, QuotesBindPolicy, policyState
  <2>7. CASE Tick
    <3>1. now' = now + 1 /\ now < MaxTime /\ UNCHANGED <<policyState, quote>>
      BY <2>7 DEF Tick
    <3>2. now' \in 1..MaxTime
      BY <2>2, <3>1, PolicyConstants DEF PolicySide
    <3>. QED
      BY <2>2, <3>1, <3>2 DEF PolicySide, QuotesBindPolicy, policyState
  <2>. QED
    BY <1>2, <2>3, <2>4, <2>5, <2>6, <2>7
       DEF Next, RegisterAsset, SetStatus, BindRiskPolicy, CommitPassport, RestrictPassport,
           DisableAsset, SetAssetReduceOnly
<1>. QED
  BY <1>1, <1>2

\* So it holds always.
LEMMA InvAlways == Spec => []Coherent
<1>1. Init => Coherent
  BY CoherentInit
<1>2. Coherent /\ [Next]_vars => Coherent'
  BY CoherentNext
<1>. QED
  BY <1>1, <1>2, PTL DEF Spec

\* Every registry is well typed in every reachable state: no policy in force or in the queue has
\* limits out of order, whatever governance proposes.
THEOREM RegistriesTypes == Spec => []TypeOK
<1>1. Coherent => TypeOK
  <2> SUFFICES ASSUME Coherent
               PROVE  TypeOK
    OBVIOUS
  <2> USE DEF Coherent, PolicySide, RegistrySide
  <2>1. \A p \in ValidParams : p \in Proposals /\ SoundLtvs(p)
    BY DEF ValidParams, validParams, SoundLtvs
  <2>2. ASSUME NEW id \in DOMAIN policies
        PROVE  policies[id].params \in ValidParams /\ policies[id].curve \in Curves
    <3>1. policies[id] \in SoundPolicies
      OBVIOUS
    <3>. QED
      BY <3>1 DEF SoundPolicies
  <2>3. PolicyTypeOK
    BY <2>1, <2>2 DEF PolicyTypeOK
  <2>4. ASSUME NEW a \in Assets, NEW v \in DOMAIN passports[a]
        PROVE  passports[a][v].status \in Range(PassportStatuses)
    <3>1. passports[a] \in Seq(PassportRecords)
      OBVIOUS
    <3>2. passports[a][v] \in PassportRecords
      BY <3>1
    <3>. QED
      BY <3>2 DEF PassportRecords
  <2>. QED
    BY <2>3, <2>4 DEF TypeOK
<1>. QED
  BY <1>1, InvAlways, PTL

\* While the epoch a borrower was quoted stands, so does every parameter and curve behind the quote
\* (I-12), for any number of policies, proposals and actors.
THEOREM QuotesHold == Spec => []QuotesBindPolicy
<1>1. Coherent => QuotesBindPolicy
  BY DEF Coherent, PolicySide
<1>. QED
  BY <1>1, InvAlways, PTL

-----------------------------------------------------------------------------
(* The reference account under two sets of inputs.                          *)

\* The account holds every asset once.
LEMMA HeldIs ==
  /\ Cardinality(Assets) \in Nat
  /\ SetToSeq(Assets) \in [1..Cardinality(Assets) -> Assets]
<1>1. Cardinality(Assets) \in Nat /\ ExistsBijection(1..Cardinality(Assets), Assets)
  BY FS_CardinalityType, InputConstants
<1>2. \E f \in [1..Cardinality(Assets) -> Assets] : IsInjective(f)
  BY <1>1 DEF ExistsBijection, Bijection, Injection, IsInjective
<1>. QED
  BY <1>1, <1>2 DEF SetToSeq

\* A market value, and a tier of a curve, are naturals.
LEMMA TierIs ==
  ASSUME NEW c \in Curves, validCurve(c), NEW value
  PROVE  selectRecoveryBps(c, value) \in Nat
<1> DEFINE fits == {i \in DOMAIN c : value <= c[i].threshold}
<1>1. c \in Seq([threshold : Nat, recovery : Nat]) /\ c # <<>>
  BY PolicyConstants DEF validCurve
<1>2. DOMAIN c = 1..Len(c) /\ Len(c) \in Nat \ {0}
  BY <1>1
<1>3. fits # {} => Min(fits) \in fits
  <2>1. fits \in SUBSET Nat
    BY <1>2
  <2> HIDE DEF fits
  <2>. QED
    BY <2>1, LeastIs
<1>4. (IF fits = {} THEN Len(c) ELSE Min(fits)) \in DOMAIN c
  BY <1>2, <1>3
<1> HIDE DEF fits
<1>5. ASSUME NEW i \in DOMAIN c
      PROVE  c[i].recovery \in Nat
  <2> DEFINE Tier == [threshold : Nat, recovery : Nat]
  <2>1. c \in Seq(Tier)
    BY <1>1
  <2>2. \A e \in Tier : e.recovery \in Nat
    OBVIOUS
  <2> HIDE DEF Tier
  <2>3. c[i] \in Tier
    BY <2>1
  <2>. QED
    BY <2>2, <2>3
<1>. QED
  BY <1>4, <1>5 DEF selectRecoveryBps, fits

\* One position under two parameter sets, of which the first takes no more risk.
LEMMA RecognizedOrder ==
  ASSUME NEW a, NEW b, NEW f \in Nat, NEW m \in Nat,
         a.params \in ValidParams, b.params \in ValidParams,
         ~increasesRisk(b.params, a.params),
         a.curve \in Curves, validCurve(a.curve), b.curve = a.curve,
         marketValue(a) = m, marketValue(b) = m,
         a.passport.floor = f, b.passport.floor = f,
         a.passport.redeemable = b.passport.redeemable
  PROVE  /\ recognized(a) \in Nat /\ recognized(b) \in Nat
         /\ recognized(a) <= recognized(b)
<1>1. PICK n \in Nat : /\ a.params.haircuts \in [1..n -> 0..BPS]
                       /\ b.params.haircuts \in [1..n -> 0..BPS]
  <2>1. ASSUME NEW p \in ValidParams
        PROVE  p.haircuts \in [1..Len(p.haircuts) -> 0..BPS] /\ Len(p.haircuts) \in Nat
    <3>1. p.haircuts \in Seq(Nat) /\ \A i \in DOMAIN p.haircuts : p.haircuts[i] < BPS
      BY PolicyConstants DEF ValidParams, validParams
    <3>2. /\ Len(p.haircuts) \in Nat /\ DOMAIN p.haircuts = 1..Len(p.haircuts)
          /\ p.haircuts \in [1..Len(p.haircuts) -> Nat]
      BY <3>1
    <3>. QED
      BY <3>1, <3>2, Scales
  <2>2. Len(a.params.haircuts) = Len(b.params.haircuts)
    BY PolicyConstants DEF ValidParams
  <2>. QED
    BY <2>1, <2>2
<1>2. \A i \in 1..n : b.params.haircuts[i] <= a.params.haircuts[i]
  BY <1>1, SMTT(60) DEF increasesRisk, increasesLeverage
<1>3. /\ haircutMark(a) \in Nat /\ haircutMark(b) \in Nat
      /\ haircutMark(a) <= haircutMark(b)
  <2>1. haircutMark(a) = After(BPS, m, a.params.haircuts) /\ haircutMark(b) = After(BPS, m, b.params.haircuts)
    BY DEF haircutMark, After
  <2>2. PICK c \in [1..n -> 0..BPS], d \in [1..n -> 0..BPS] : c = a.params.haircuts /\ d = b.params.haircuts
    BY <1>1
  <2>3. \A i \in 1..n : d[i] <= c[i]
    BY <1>2, <2>2
  <2>4. After(BPS, m, c) \in Nat /\ After(BPS, m, d) \in Nat /\ After(BPS, m, c) <= After(BPS, m, d)
    BY <1>1, <2>3, Scales, CutsOrder
  <2>. QED
    BY <2>1, <2>2, <2>4
<1>4. PICK s \in Nat : stressedExit(a) = s /\ stressedExit(b) = s
  <2>1. PICK r \in Nat : r = selectRecoveryBps(a.curve, m)
    BY TierIs
  <2>2. m <= m /\ r <= r /\ BPS \in Nat \ {0}
    BY Scales
  <2>3. MulDiv(m, r, BPS) \in Nat
    BY <2>2, MulDivOrder
  <2>. QED
    BY <2>1, <2>3 DEF stressedExit
<1>5. PICK e \in Nat : redemptionFloor(a) = e /\ redemptionFloor(b) = e
  <2>1. m <= m /\ f <= f /\ BPS \in Nat \ {0}
    BY Scales
  <2>2. MulDiv(m, f, BPS) \in Nat
    BY <2>1, MulDivOrder
  <2>. QED
    BY <2>2 DEF redemptionFloor
<1> DEFINE R == IF a.passport.redeemable THEN {e} ELSE {}
           A == {haircutMark(a), s} \cup R
           B == {haircutMark(b), s} \cup R
<1>6. recognized(a) = Min(A) /\ recognized(b) = Min(B)
  BY <1>4, <1>5 DEF recognized
<1>7. A \in SUBSET Nat /\ A # {} /\ B \in SUBSET Nat /\ B # {}
  BY <1>3
<1>8. \A y \in B : \E x \in A : x <= y
  BY <1>3
<1> HIDE DEF A, B
<1>9. /\ Min(A) \in A /\ \A y \in A : Min(A) <= y
      /\ Min(B) \in B /\ \A y \in B : Min(B) <= y
  BY <1>7, LeastIs
<1>10. PICK x \in A : x <= Min(B)
  BY <1>8, <1>9
<1>11. x \in Nat /\ Min(A) \in Nat /\ Min(B) \in Nat /\ Min(A) <= x
  BY <1>7, <1>9
<1>. QED
  BY <1>6, <1>10, <1>11

\* The reference account's positions.
Limits(p) == {p.maxConcentration, p.initialLtv, p.maxOracleAge, p.maxPassportAge}

\* The limits of valid parameters are numbers.
LEMMA ParamsAre ==
  ASSUME NEW p \in ValidParams
  PROVE  Limits(p) \subseteq Nat
BY PolicyConstants DEF ValidParams, Limits

\* Two sets of inputs for the same Passports, of which the second's policies take no less risk and
\* whose restrictions the first shares.
LEMMA CapacityOrder ==
  ASSUME NEW t \in Nat, NEW r1, NEW vs1, NEW p1, NEW r2, NEW vs2, NEW p2,
         HasInputs(r1, vs1, p1), HasInputs(r2, vs2, p2),
         \A a \in Assets :
           /\ p1[r1[a].policy] \in SoundPolicies /\ p2[r2[a].policy] \in SoundPolicies
           /\ ~increasesRisk(p2[r2[a].policy].params, p1[r1[a].policy].params)
           /\ p1[r1[a].policy].curve = p2[r2[a].policy].curve
           /\ Last(vs1[a]).floor \in Nat
           /\ Last(vs1[a]).floor = Last(vs2[a]).floor
           /\ Last(vs1[a]).redeemable = Last(vs2[a]).redeemable,
         \A a \in Assets :
           assetGates(assetInput(t, r1[a], vs1[a], p1[r1[a].policy])) = {} =>
             assetGates(assetInput(t, r2[a], vs2[a], p2[r2[a].policy])) = {}
  PROVE  /\ Capacity(t, r1, vs1, p1) \in Nat /\ Capacity(t, r2, vs2, p2) \in Nat
         /\ Capacity(t, r1, vs1, p1) <= Capacity(t, r2, vs2, p2)
<1> DEFINE n == Cardinality(Assets)
           xs == portfolio(t, r1, vs1, p1)
           ys == portfolio(t, r2, vs2, p2)
           a(i) == SetToSeq(Assets)[i]
           x(i) == assetInput(t, r1[a(i)], vs1[a(i)], p1[r1[a(i)].policy])
           y(i) == assetInput(t, r2[a(i)], vs2[a(i)], p2[r2[a(i)].policy])
<1>1. /\ n \in Nat /\ DOMAIN xs = 1..n /\ DOMAIN ys = 1..n
      /\ \A i \in 1..n : a(i) \in Assets /\ xs[i] = x(i) /\ ys[i] = y(i)
  BY HeldIs DEF portfolio
<1>2. ASSUME NEW i \in 1..n
      PROVE  /\ recognized(x(i)) \in Nat /\ recognized(y(i)) \in Nat
             /\ recognized(x(i)) <= recognized(y(i))
             /\ x(i).params.maxConcentration \in Nat /\ y(i).params.maxConcentration \in Nat
             /\ x(i).params.maxConcentration <= y(i).params.maxConcentration
             /\ x(i).params.initialLtv \in Nat /\ y(i).params.initialLtv \in Nat
             /\ x(i).params.initialLtv <= y(i).params.initialLtv
             /\ assetGates(x(i)) = {} => assetGates(y(i)) = {}
  <2>1. PICK b \in Assets : b = a(i)
    BY <1>1
  <2>2. PICK k, l : k = assetInput(t, r1[b], vs1[b], p1[r1[b].policy]) /\ l = assetInput(t, r2[b], vs2[b], p2[r2[b].policy])
    OBVIOUS
  <2>3. k.params = p1[r1[b].policy].params /\ l.params = p2[r2[b].policy].params
    BY <2>2 DEF assetInput
  <2>4. k.params \in ValidParams /\ l.params \in ValidParams /\ ~increasesRisk(l.params, k.params)
    BY <2>3 DEF SoundPolicies
  <2>5. k.curve \in Curves /\ validCurve(k.curve) /\ l.curve = k.curve
    <3>1. k.curve = p1[r1[b].policy].curve /\ l.curve = p2[r2[b].policy].curve
      BY <2>2 DEF assetInput
    <3>. QED
      BY <3>1 DEF SoundPolicies
  <2>6. PICK m \in Nat : marketValue(k) = m /\ marketValue(l) = m
    <3>1. marketValue(k) = MulDiv(Quantity, Price, 1) /\ marketValue(l) = MulDiv(Quantity, Price, 1)
      BY <2>2 DEF marketValue, assetInput
    <3>2. Quantity <= Quantity /\ Price <= Price /\ Quantity \in Nat /\ Price \in Nat /\ 1 \in Nat \ {0}
      BY InputConstants
    <3>3. MulDiv(Quantity, Price, 1) \in Nat
      BY <3>2, MulDivOrder
    <3>. QED
      BY <3>1, <3>3
  <2>7. PICK f \in Nat : k.passport.floor = f /\ l.passport.floor = f
    BY <2>2 DEF assetInput
  <2>8. k.passport.redeemable = l.passport.redeemable
    BY <2>2 DEF assetInput
  <2>9. recognized(k) \in Nat /\ recognized(l) \in Nat /\ recognized(k) <= recognized(l)
    BY <2>4, <2>5, <2>6, <2>7, <2>8, RecognizedOrder
  <2>10. /\ k.params.maxConcentration \in Nat /\ l.params.maxConcentration \in Nat
         /\ k.params.maxConcentration <= l.params.maxConcentration
         /\ k.params.initialLtv \in Nat /\ l.params.initialLtv \in Nat
         /\ k.params.initialLtv <= l.params.initialLtv
    BY <2>4, ParamsAre DEF Limits, increasesRisk, increasesLeverage
  <2>11. assetGates(k) = {} => assetGates(l) = {}
    BY <2>2
  <2>12. x(i) = k /\ y(i) = l
    BY <2>1, <2>2
  <2>. QED
    BY <2>9, <2>10, <2>11, <2>12
<1> HIDE DEF n, xs, ys, x, y, a
<1>3. Below(n, xs, ys)
  BY <1>1, <1>2 DEF Below
<1>4. \A i \in 1..n : assetGates(xs[i]) = {} => assetGates(ys[i]) = {}
  BY <1>1, <1>2
<1>5. PICK acct : /\ acct = NoDebt
                  /\ acct.scaledPrincipal \in Nat /\ acct.borrowIndex \in Nat
                  /\ acct.reservedUsd18 \in Nat /\ acct.statusOverride \in Nat
  <2>1. /\ NoDebt.scaledPrincipal = 0 /\ NoDebt.borrowIndex = WAD
        /\ NoDebt.reservedUsd18 = 0 /\ NoDebt.statusOverride = 0
    BY DEF NoDebt, NORMAL
  <2>2. 0 \in Nat /\ WAD \in Nat
    BY Scales
  <2>. QED
    BY <2>1, <2>2
<1>6. /\ evaluate(xs, acct, {}).available \in Nat /\ evaluate(ys, acct, {}).available \in Nat
      /\ evaluate(xs, acct, {}).available <= evaluate(ys, acct, {}).available
  <2>1. n \in Nat
    BY <1>1
  <2>. QED
    BY ONLY ZenonT(60), <2>1, <1>3, <1>4, <1>5, AvailableOrder
<1>7. /\ Capacity(t, r1, vs1, p1) = evaluate(xs, acct, {}).available
      /\ Capacity(t, r2, vs2, p2) = evaluate(ys, acct, {}).available
  BY <1>5 DEF Capacity, xs, ys
<1>. QED
  BY <1>6, <1>7

-----------------------------------------------------------------------------
(* Steps that change policies.                                              *)

\* Parameters are no riskier than themselves.
LEMMA NoRiskInStanding == \A p \in ValidParams : ~increasesRisk(p, p)
<1> SUFFICES ASSUME NEW p \in ValidParams
             PROVE  ~increasesRisk(p, p)
  OBVIOUS
<1>1. /\ p.initialLtv \in Nat /\ p.maintenanceLtv \in Nat /\ p.liquidationLtv \in Nat
      /\ p.maxConcentration \in Nat /\ p.maxOracleAge \in Nat /\ p.maxPassportAge \in Nat
  BY PolicyConstants DEF ValidParams
<1>2. p.haircuts \in Seq(Nat)
  BY PolicyConstants DEF ValidParams
<1>3. \A i \in DOMAIN p.haircuts : p.haircuts[i] \in Nat
  BY <1>2
<1>. QED
  BY <1>1, <1>3 DEF increasesRisk, increasesLeverage

\* Where an asset can be valued, its last Passport is a record.
LEMMA LastIs ==
  ASSUME RegistrySide, NEW a \in Assets, passports[a] # <<>>
  PROVE  Last(passports[a]) \in PassportRecords /\ Len(passports[a]) \in DOMAIN passports[a]
<1>1. passports[a] \in Seq(PassportRecords)
  BY DEF RegistrySide
<1>2. Len(passports[a]) \in Nat \ {0} /\ DOMAIN passports[a] = 1..Len(passports[a])
  BY <1>1
<1>. QED
  BY <1>1, <1>2 DEF Last

\* The restrictions of an asset are those of laxer ages, and more.
LEMMA GatesOfAges ==
  ASSUME RegistrySide, NEW a \in Assets, passports[a] # <<>>, NEW asset, NEW p, NEW q,
         p.params \in ValidParams, q.params \in ValidParams, ~increasesRisk(q.params, p.params)
  PROVE  assetGates(assetInput(now, asset, passports[a], p)) = {} =>
           assetGates(assetInput(now, asset, passports[a], q)) = {}
<1>1. PICK k, l : /\ k = assetInput(now, asset, passports[a], p)
                  /\ l = assetInput(now, asset, passports[a], q)
  OBVIOUS
<1>2. /\ k.quantity = l.quantity /\ k.price = l.price /\ k.passport = l.passport
      /\ k.assetStatus = l.assetStatus /\ k.priceAge = 0 /\ l.priceAge = 0
      /\ k.params = p.params /\ l.params = q.params
      /\ l.passport.age = Monus(now, Last(passports[a]).createdAt)
  BY <1>1 DEF assetInput
<1>3. PICK age \in Nat : age = l.passport.age
  <2>1. now \in Nat /\ Last(passports[a]).createdAt \in Nat
    BY LastIs DEF RegistrySide, PassportRecords
  <2>. QED
    BY <1>2, <2>1 DEF Monus
<1>4. /\ p.params.maxOracleAge \in Nat /\ q.params.maxOracleAge \in Nat
      /\ p.params.maxPassportAge \in Nat /\ q.params.maxPassportAge \in Nat
      /\ p.params.maxOracleAge <= q.params.maxOracleAge
      /\ p.params.maxPassportAge <= q.params.maxPassportAge
  BY ParamsAre DEF Limits, increasesRisk
<1>5. /\ age > q.params.maxPassportAge => age > p.params.maxPassportAge
      /\ ~(0 > q.params.maxOracleAge)
  BY <1>4
<1>6. assetGates(l) \subseteq assetGates(k)
  BY <1>2, <1>3, <1>5 DEF assetGates
<1>. QED
  BY <1>1, <1>6

\* Policies that do not loosen lend no more on the same inputs.
LEMMA TighterLendsNoMore ==
  ASSUME Coherent, UNCHANGED <<now, registries>>, CanBeValued,
         \A id \in DOMAIN policies :
           /\ id \in DOMAIN policies' /\ policies'[id] \in SoundPolicies
           /\ ~increasesRisk(policies[id].params, policies'[id].params)
           /\ policies'[id].curve = policies[id].curve
  PROVE  ~CapacityRises
<1>1. PICK t \in Nat : t = now
  BY DEF Coherent, RegistrySide
<1>2. PICK new, old : new = policies' /\ old = policies
  OBVIOUS
<1>3. PICK r, vs : r = assets /\ vs = passports
  OBVIOUS
<1>4. HasInputs(r, vs, old) /\ HasInputs(r, vs, new)
  BY <1>2, <1>3 DEF CanBeValued, HasInputs
<1>5. ASSUME NEW a \in Assets
      PROVE  /\ new[r[a].policy] \in SoundPolicies /\ old[r[a].policy] \in SoundPolicies
             /\ ~increasesRisk(old[r[a].policy].params, new[r[a].policy].params)
             /\ new[r[a].policy].curve = old[r[a].policy].curve
             /\ Last(vs[a]).floor \in Nat
             /\ assetGates(assetInput(t, r[a], vs[a], new[r[a].policy])) = {} =>
                  assetGates(assetInput(t, r[a], vs[a], old[r[a].policy])) = {}
  <2>1. r[a].policy \in DOMAIN old /\ vs[a] # <<>>
    BY <1>4 DEF HasInputs
  <2>2. /\ new[r[a].policy] \in SoundPolicies /\ old[r[a].policy] \in SoundPolicies
        /\ ~increasesRisk(old[r[a].policy].params, new[r[a].policy].params)
        /\ new[r[a].policy].curve = old[r[a].policy].curve
    BY <1>2, <2>1 DEF Coherent, PolicySide
  <2>3. Last(vs[a]).floor \in Nat
    BY <1>3, <2>1, LastIs DEF Coherent, PassportRecords
  <2>4. new[r[a].policy].params \in ValidParams /\ old[r[a].policy].params \in ValidParams
    BY <2>2 DEF SoundPolicies
  <2>5. assetGates(assetInput(t, r[a], vs[a], new[r[a].policy])) = {} =>
          assetGates(assetInput(t, r[a], vs[a], old[r[a].policy])) = {}
    BY <1>1, <1>3, <2>1, <2>2, <2>4, GatesOfAges DEF Coherent
  <2>. QED
    BY <2>2, <2>3, <2>5
<1>6. /\ Capacity(t, r, vs, new) \in Nat /\ Capacity(t, r, vs, old) \in Nat
      /\ Capacity(t, r, vs, new) <= Capacity(t, r, vs, old)
  BY <1>4, <1>5, CapacityOrder
<1>7. ~(Capacity(t, r, vs, new) > Capacity(t, r, vs, old))
  BY <1>6
<1>8. t = now' /\ r = assets' /\ vs = passports'
  BY <1>1, <1>3 DEF registries
<1>. QED
  BY <1>1, <1>2, <1>3, <1>7, <1>8 DEF CapacityRises

\* What the action property says of one step.
Noticed ==
  (UNCHANGED <<now, registries>> /\ CanBeValued /\ CapacityRises
    /\ \A id \in DOMAIN policies : policies'[id].curve = policies[id].curve) =>
    \E id \in DOMAIN pending : /\ pending[id].eta <= now
                               /\ policies'[id].params = pending[id].params

\* A step that raises capacity under the same inputs had its notice.
LEMMA StepIsNoticed == Coherent /\ [Next]_vars => Noticed
<1> SUFFICES ASSUME Coherent, [Next]_vars, UNCHANGED <<now, registries>>, CanBeValued, CapacityRises,
                    \A id \in DOMAIN policies : policies'[id].curve = policies[id].curve
             PROVE  \E id \in DOMAIN pending : /\ pending[id].eta <= now
                                               /\ policies'[id].params = pending[id].params
  BY DEF Noticed
<1>0. /\ \A id \in DOMAIN policies : policies[id] \in SoundPolicies /\ policies[id].params \in ValidParams
      /\ \A id \in DOMAIN policies : ~increasesRisk(policies[id].params, policies[id].params)
  BY NoRiskInStanding DEF Coherent, PolicySide, SoundPolicies
<1>1. CASE UNCHANGED policies
  BY <1>0, <1>1, TighterLendsNoMore
<1>2. ASSUME NEW who \in Actors, NEW id \in PolicyIds, NEW p \in Proposals, NEW c \in Curves,
             CreatePolicy(who, id, p, c)
      PROVE  FALSE
  <2>1. \A k \in DOMAIN policies : k \in DOMAIN policies' /\ policies'[k] = policies[k]
    BY <1>2 DEF CreatePolicy, With, policyExists
  <2>. QED
    BY <1>0, <2>1, TighterLendsNoMore
<1>3. ASSUME NEW who \in Actors, NEW id \in PolicyIds, NEW p \in Proposals, UpdatePolicy(who, id, p),
             ~UNCHANGED policies
      PROVE  FALSE
  <2>1. /\ policies' = [policies EXCEPT ![id].params = p] /\ p \in ValidParams
        /\ ~increasesRisk(policies[id].params, p) /\ id \in DOMAIN policies
    BY <1>3 DEF UpdatePolicy, ValidParams, policyExists
  <2>2. /\ \A k \in DOMAIN policies : k # id => policies'[k] = policies[k]
        /\ policies'[id] = [policies[id] EXCEPT !.params = p]
        /\ DOMAIN policies' = DOMAIN policies
    BY <2>1
  <2>3. policies'[id].params = p /\ policies'[id] \in SoundPolicies
    BY <1>0, <2>1, <2>2 DEF SoundPolicies
  <2>4. \A k \in DOMAIN policies :
          /\ k \in DOMAIN policies' /\ policies'[k] \in SoundPolicies
          /\ ~increasesRisk(policies[k].params, policies'[k].params)
    BY <1>0, <2>1, <2>2, <2>3
  <2>. QED
    BY <2>4, TighterLendsNoMore
<1>4. ASSUME NEW id \in PolicyIds, ExecuteQueuedChange(id)
      PROVE  \E k \in DOMAIN pending : /\ pending[k].eta <= now
                                       /\ policies'[k].params = pending[k].params
  <2>1. id \in DOMAIN pending /\ now >= pending[id].eta /\ id \in DOMAIN policies
    BY <1>4 DEF ExecuteQueuedChange, Coherent, PolicySide
  <2>2. now \in Nat /\ pending[id].eta \in Nat
    BY <2>1 DEF Coherent, PolicySide, RegistrySide
  <2>3. policies'[id].params = pending[id].params
    BY <1>0, <1>4, <2>1 DEF ExecuteQueuedChange, SoundPolicies
  <2>. QED
    BY <2>1, <2>2, <2>3
<1>5. ASSUME NEW who \in Actors, NEW id \in PolicyIds, NEW c \in Curves, SetExitCurve(who, id, c)
      PROVE  FALSE
  <2>1. /\ policies' = [policies EXCEPT ![id].curve = c] /\ validCurve(c) /\ id \in DOMAIN policies
    BY <1>5 DEF SetExitCurve, policyExists
  <2>2. /\ \A k \in DOMAIN policies : k # id => policies'[k] = policies[k]
        /\ policies'[id] = [policies[id] EXCEPT !.curve = c]
        /\ DOMAIN policies' = DOMAIN policies
    BY <2>1
  <2>3. policies'[id].params = policies[id].params /\ policies'[id] \in SoundPolicies
    BY <1>0, <2>1, <2>2 DEF SoundPolicies
  <2>. QED
    BY <1>0, <2>2, <2>3, TighterLendsNoMore
<1>6. CASE PolicyNext
  <2>1. ASSUME NEW who \in Actors, NEW id \in PolicyIds, NEW p \in Proposals, UpdatePolicy(who, id, p)
        PROVE  UNCHANGED policies
    BY <1>3, <2>1
  <2>2. ASSUME NEW who \in Actors, NEW id \in PolicyIds, CancelQueuedChange(who, id)
        PROVE  UNCHANGED policies
    BY <2>2 DEF CancelQueuedChange
  <2>3. ASSUME NEW who \in Actors, BumpEpoch(who)
        PROVE  UNCHANGED policies
    BY <2>3 DEF BumpEpoch
  <2>. QED
    BY <1>1, <1>2, <1>4, <1>5, <1>6, <2>1, <2>2, <2>3 DEF PolicyNext
<1>7. CASE ~PolicyNext
  <2>1. UNCHANGED policies
    BY <1>7 DEF Next, vars, policyState, RegisterAsset, SetStatus, BindRiskPolicy, CommitPassport,
                RestrictPassport, FreezeNewBorrowing, LiftBorrowingFreeze, BumpEpoch, DisableAsset,
                SetAssetReduceOnly, Quote, Tick
  <2>. QED
    BY <1>1, <2>1
<1>. QED
  BY <1>6, <1>7

\* No change of parameters lets anybody borrow more but one that waited out its timelock in the queue
\* (I-26): for every number of assets, haircuts and proposals, and all of their values.
THEOREM LoosensOnNotice == Spec => LooserOnlyOnNotice
<1>1. Coherent /\ [Next]_vars => [Noticed]_vars
  BY StepIsNoticed
<1>. QED
  BY <1>1, InvAlways, PTL DEF Spec, LooserOnlyOnNotice, Noticed

-----------------------------------------------------------------------------
(* Steps of a guardian.                                                     *)

\* The statuses stand where their names say.
LEMMA AssetOrdinals ==
  /\ Ordinal(AssetStatuses, "PAUSED") = 3 /\ Ordinal(AssetStatuses, "SUSPENDED") = 4
  /\ \A s \in Range(AssetStatuses) : Ordinal(AssetStatuses, s) > 4 => s = "RETIRED"
<1>1. /\ DOMAIN AssetStatuses = 1..5
      /\ AssetStatuses[1] = "UNREGISTERED" /\ AssetStatuses[2] = "ACTIVE" /\ AssetStatuses[3] = "PAUSED"
      /\ AssetStatuses[4] = "SUSPENDED" /\ AssetStatuses[5] = "RETIRED"
  BY DEF AssetStatuses
<1>2. ASSUME NEW s \in Range(AssetStatuses)
      PROVE  Ordinal(AssetStatuses, s) \in 1..5 /\ AssetStatuses[Ordinal(AssetStatuses, s)] = s
  BY <1>1 DEF Ordinal, Range
<1>3. \A i \in 1..5 : AssetStatuses[i] \in Range(AssetStatuses)
  BY <1>1 DEF Range
<1>4. "PAUSED" \in Range(AssetStatuses) /\ "SUSPENDED" \in Range(AssetStatuses)
  BY <1>1, <1>3
<1>5. ASSUME NEW k \in 1..5
      PROVE  /\ AssetStatuses[k] = "PAUSED" => k = 3
             /\ AssetStatuses[k] = "SUSPENDED" => k = 4
             /\ k > 4 => k = 5
  <2>1. k = 1 \/ k = 2 \/ k = 3 \/ k = 4 \/ k = 5
    OBVIOUS
  <2>. QED
    BY <1>1, <2>1
<1>. QED
  BY <1>1, <1>2, <1>4, <1>5

\* A conflicted or suspended passport can only be restricted to a suspended or revoked one.
LEMMA PassportOrdinals ==
  \A s, p \in Range(PassportStatuses) :
    (p \in {"CONFLICTED", "SUSPENDED"} /\ Ordinal(PassportStatuses, s) > Ordinal(PassportStatuses, p)) =>
      s \in {"SUSPENDED", "REVOKED"}
<1>1. /\ DOMAIN PassportStatuses = 1..6
      /\ PassportStatuses[1] = "NONE" /\ PassportStatuses[2] = "ACTIVE" /\ PassportStatuses[3] = "STALE"
      /\ PassportStatuses[4] = "CONFLICTED" /\ PassportStatuses[5] = "SUSPENDED"
      /\ PassportStatuses[6] = "REVOKED"
  BY DEF PassportStatuses
<1>2. ASSUME NEW s \in Range(PassportStatuses)
      PROVE  Ordinal(PassportStatuses, s) \in 1..6 /\ PassportStatuses[Ordinal(PassportStatuses, s)] = s
  BY <1>1 DEF Ordinal, Range
<1>3. ASSUME NEW k \in 1..6
      PROVE  /\ PassportStatuses[k] \in {"CONFLICTED", "SUSPENDED"} => k >= 4
             /\ k > 4 => PassportStatuses[k] \in {"SUSPENDED", "REVOKED"}
  <2>1. k = 1 \/ k = 2 \/ k = 3 \/ k = 4 \/ k = 5 \/ k = 6
    OBVIOUS
  <2>. QED
    BY <1>1, <2>1
<1>4. SUFFICES ASSUME NEW s \in Range(PassportStatuses), NEW p \in Range(PassportStatuses),
                      p \in {"CONFLICTED", "SUSPENDED"},
                      Ordinal(PassportStatuses, s) > Ordinal(PassportStatuses, p)
               PROVE  s \in {"SUSPENDED", "REVOKED"}
  OBVIOUS
<1>5. PICK i \in 1..6, j \in 1..6 : /\ i = Ordinal(PassportStatuses, s) /\ j = Ordinal(PassportStatuses, p)
                                    /\ PassportStatuses[i] = s /\ PassportStatuses[j] = p
  BY <1>2
<1>6. j >= 4 /\ i > j
  BY <1>3, <1>4, <1>5
<1>7. i > 4
  BY <1>6
<1>. QED
  BY <1>3, <1>5, <1>7

\* The restrictions of an asset that is suspended no less, with a Passport gated no less.
Gated(s) == s \in {"CONFLICTED", "SUSPENDED"}

\* An asset that is no less suspended, with a passport no less gated, lifts no gate.
LEMMA GatesOfStatuses ==
  ASSUME NEW t, NEW r, NEW vs, NEW r2, NEW vs2, NEW p,
         Last(vs).createdAt = Last(vs2).createdAt,
         r2.status = "SUSPENDED" => r.status = "SUSPENDED",
         Gated(effectiveStatus(t, vs2)) => Gated(effectiveStatus(t, vs))
  PROVE  assetGates(assetInput(t, r, vs, p)) = {} => assetGates(assetInput(t, r2, vs2, p)) = {}
<1>1. PICK k, l : k = assetInput(t, r, vs, p) /\ l = assetInput(t, r2, vs2, p)
  OBVIOUS
<1>2. /\ k.quantity = l.quantity /\ k.price = l.price /\ k.priceAge = l.priceAge /\ k.params = l.params
      /\ k.passport.age = l.passport.age
      /\ k.passport.status = effectiveStatus(t, vs) /\ l.passport.status = effectiveStatus(t, vs2)
      /\ k.assetStatus = r.status /\ l.assetStatus = r2.status
  BY <1>1 DEF assetInput
<1>3. SUFFICES ASSUME assetGates(k) = {}, NEW g \in assetGates(l)
               PROVE  FALSE
  BY <1>1
<1>4. CASE g = "CLAIM_CONFLICT" \/ g = "ASSET_SUSPENDED"
  <2>1. l.quantity # 0 /\ (Gated(l.passport.status) \/ l.assetStatus = "SUSPENDED")
    BY <1>4 DEF assetGates, Gated
  <2>2. k.quantity # 0 /\ (Gated(k.passport.status) \/ k.assetStatus = "SUSPENDED")
    BY <1>2, <2>1
  <2>3. "CLAIM_CONFLICT" \in assetGates(k) \/ "ASSET_SUSPENDED" \in assetGates(k)
    BY <2>2 DEF assetGates, Gated
  <2>. QED
    BY <1>3, <2>3
<1>5. CASE g = "ORACLE_STALE" \/ g = "ORACLE_INVALID" \/ g = "PASSPORT_STALE"
  <2>1. g \in assetGates(k)
    BY <1>2, <1>5 DEF assetGates
  <2>. QED
    BY <1>3, <2>1
<1>. QED
  BY <1>4, <1>5 DEF assetGates

\* Assets that lift no gate and keep their policies and floors lend no more.
LEMMA RestrictedLendsNoMore ==
  ASSUME Coherent, UNCHANGED <<now, policies>>,
         HasInputs(assets', passports', policies) => CanBeValued,
         \A a \in Assets :
           /\ assets'[a].policy = assets[a].policy
           /\ assets[a].status = "SUSPENDED" => assets'[a].status = "SUSPENDED"
           /\ passports[a] # <<>> =>
                /\ Last(passports'[a]).floor = Last(passports[a]).floor
                /\ Last(passports'[a]).redeemable = Last(passports[a]).redeemable
                /\ Last(passports'[a]).createdAt = Last(passports[a]).createdAt
                /\ Gated(effectiveStatus(now, passports[a])) => Gated(effectiveStatus(now, passports'[a]))
  PROVE  ~CapacityRises
<1>1. PICK t \in Nat : t = now
  BY DEF Coherent, RegistrySide
<1>2. PICK r, vs, r2, vs2, p : r = assets' /\ vs = passports' /\ r2 = assets /\ vs2 = passports /\ p = policies
  OBVIOUS
<1>3. CASE HasInputs(r, vs, p)
  <2>1. HasInputs(r2, vs2, p)
    BY <1>2, <1>3 DEF CanBeValued
  <2>2. ASSUME NEW a \in Assets
        PROVE  /\ p[r[a].policy] \in SoundPolicies /\ p[r2[a].policy] \in SoundPolicies
               /\ ~increasesRisk(p[r2[a].policy].params, p[r[a].policy].params)
               /\ p[r[a].policy].curve = p[r2[a].policy].curve
               /\ Last(vs[a]).floor \in Nat
               /\ Last(vs[a]).floor = Last(vs2[a]).floor
               /\ Last(vs[a]).redeemable = Last(vs2[a]).redeemable
               /\ assetGates(assetInput(t, r[a], vs[a], p[r[a].policy])) = {} =>
                    assetGates(assetInput(t, r2[a], vs2[a], p[r2[a].policy])) = {}
    <3>1. r2[a].policy \in DOMAIN p /\ vs2[a] # <<>> /\ r[a].policy = r2[a].policy
      BY <1>2, <2>1 DEF HasInputs
    <3>2. p[r2[a].policy] \in SoundPolicies
      BY <1>2, <3>1 DEF Coherent, PolicySide
    <3>3. ~increasesRisk(p[r2[a].policy].params, p[r2[a].policy].params)
      BY <3>2, NoRiskInStanding DEF SoundPolicies
    <3>4. Last(vs2[a]).floor \in Nat
      BY <1>2, <3>1, LastIs DEF Coherent, PassportRecords
    <3>5. /\ Last(vs[a]).floor = Last(vs2[a]).floor
          /\ Last(vs[a]).redeemable = Last(vs2[a]).redeemable
          /\ Last(vs[a]).createdAt = Last(vs2[a]).createdAt
          /\ r2[a].status = "SUSPENDED" => r[a].status = "SUSPENDED"
          /\ Gated(effectiveStatus(t, vs2[a])) => Gated(effectiveStatus(t, vs[a]))
      BY <1>1, <1>2, <3>1
    <3>6. assetGates(assetInput(t, r[a], vs[a], p[r[a].policy])) = {} =>
            assetGates(assetInput(t, r2[a], vs2[a], p[r[a].policy])) = {}
      BY <3>5, GatesOfStatuses
    <3>. QED
      BY <3>1, <3>2, <3>3, <3>4, <3>5, <3>6
  <2>3. /\ Capacity(t, r, vs, p) \in Nat /\ Capacity(t, r2, vs2, p) \in Nat
        /\ Capacity(t, r, vs, p) <= Capacity(t, r2, vs2, p)
    BY <1>3, <2>1, <2>2, CapacityOrder
  <2>4. ~(Capacity(t, r, vs, p) > Capacity(t, r2, vs2, p))
    BY <2>3
  <2>. QED
    BY <1>1, <1>2, <2>4 DEF CapacityRises
<1>4. CASE ~HasInputs(r, vs, p)
  <2>1. Capacity(t, r, vs, p) = 0
    BY <1>4 DEF Capacity
  <2>2. CASE HasInputs(r2, vs2, p)
    <3>1. ASSUME NEW a \in Assets
          PROVE  /\ p[r2[a].policy] \in SoundPolicies
                 /\ ~increasesRisk(p[r2[a].policy].params, p[r2[a].policy].params)
                 /\ Last(vs2[a]).floor \in Nat
      <4>1. r2[a].policy \in DOMAIN p /\ vs2[a] # <<>>
        BY <2>2 DEF HasInputs
      <4>2. p[r2[a].policy] \in SoundPolicies
        BY <1>2, <4>1 DEF Coherent, PolicySide
      <4>3. ~increasesRisk(p[r2[a].policy].params, p[r2[a].policy].params)
        BY <4>2, NoRiskInStanding DEF SoundPolicies
      <4>4. Last(vs2[a]).floor \in Nat
        BY <1>2, <4>1, LastIs DEF Coherent, PassportRecords
      <4>. QED
        BY <4>2, <4>3, <4>4
    <3>2. Capacity(t, r2, vs2, p) \in Nat
      BY <2>2, <3>1, CapacityOrder, ZenonT(60)
    <3>3. ~(Capacity(t, r, vs, p) > Capacity(t, r2, vs2, p))
      BY <2>1, <3>2
    <3>. QED
      BY <1>1, <1>2, <3>3 DEF CapacityRises
  <2>3. CASE ~HasInputs(r2, vs2, p)
    <3>1. Capacity(t, r2, vs2, p) = 0
      BY <2>3 DEF Capacity
    <3>2. ~(Capacity(t, r, vs, p) > Capacity(t, r2, vs2, p))
      BY <2>1, <3>1
    <3>. QED
      BY <1>1, <1>2, <3>2 DEF CapacityRises
  <2>. QED
    BY <2>2, <2>3
<1>. QED
  BY <1>3, <1>4

\* An asset's status set to one that is suspended no less.
LEMMA StatusRaisesNothing ==
  ASSUME Coherent, NEW who, NEW a \in Assets, NEW s, setStatus(who, a, s),
         assets[a].status = "SUSPENDED" => s = "SUSPENDED",
         UNCHANGED <<now, policyState, passports>>
  PROVE  ~CapacityRises
<1>1. /\ registered(a)
      /\ \A b \in Assets : /\ assets'[b].policy = assets[b].policy
                           /\ b # a => assets'[b] = assets[b]
      /\ assets'[a].status = s
  BY DEF setStatus, Coherent, RegistrySide
<1>2. HasInputs(assets', passports', policies) => CanBeValued
  BY <1>1 DEF HasInputs, CanBeValued, registered
<1>3. UNCHANGED <<now, policies>>
  BY DEF policyState
<1>4. \A b \in Assets : assets[b].status = "SUSPENDED" => assets'[b].status = "SUSPENDED"
  BY <1>1
<1>. QED
  BY <1>1, <1>2, <1>3, <1>4, RestrictedLendsNoMore

\* Restricting a passport raises no capacity.
LEMMA RestrictionRaisesNothing ==
  ASSUME Coherent, NEW who, NEW a \in Assets, NEW v, NEW s \in Range(PassportStatuses),
         RestrictPassport(who, a, v, s), ~PastTheGates(a)
  PROVE  ~CapacityRises
<1>1. /\ passports[a] \in Seq(PassportRecords) /\ v \in DOMAIN passports[a]
      /\ Ordinal(PassportStatuses, s) > Ordinal(PassportStatuses, passports[a][v].status)
      /\ UNCHANGED <<now, policyState, assets>>
  BY DEF Coherent, RegistrySide, RestrictPassport
<1>2. PICK n \in Nat : n = Len(passports[a]) /\ DOMAIN passports[a] = 1..n
  BY <1>1
<1>3. \A w \in 1..n : passports[a][w] \in PassportRecords
  BY <1>1, <1>2
<1>4. /\ \A b \in Assets : b # a => passports'[b] = passports[b]
      /\ passports'[a] = [passports[a] EXCEPT ![v].status = s]
  BY DEF RestrictPassport, Coherent, RegistrySide
<1>5. Len(passports'[a]) = n /\ DOMAIN passports'[a] = 1..n
  <2>1. DOMAIN passports'[a] = 1..n
    BY <1>2, <1>4
  <2>. QED
    BY <1>2, <2>1
<1>6. /\ \A w \in 1..n : w # v => passports'[a][w] = passports[a][w]
      /\ passports'[a][v] = [passports[a][v] EXCEPT !.status = s]
  BY <1>1, <1>2, <1>4
<1>7. /\ passports'[a][v].status = s
      /\ passports'[a][v].floor = passports[a][v].floor
      /\ passports'[a][v].redeemable = passports[a][v].redeemable
      /\ passports'[a][v].createdAt = passports[a][v].createdAt
  BY <1>1, <1>2, <1>3, <1>6 DEF PassportRecords
<1>8. Gated(passports[a][v].status) => s = "SUSPENDED"
  <2>1. passports[a][v].status \in Range(PassportStatuses)
    BY <1>1, <1>2, <1>3 DEF PassportRecords
  <2>2. Gated(passports[a][v].status) => s \in {"SUSPENDED", "REVOKED"}
    BY <1>1, <2>1, PassportOrdinals DEF Gated
  <2>3. passports[a][v].status # "REVOKED" => s # "REVOKED"
    BY <1>1, <1>7 DEF PastTheGates
  <2>. QED
    BY <2>2, <2>3 DEF Gated
<1>9. n # 0 /\ n \in 1..n /\ passports[a] # <<>> /\ passports'[a] # <<>>
  BY <1>1, <1>2, <1>5
<1>10. Last(passports[a]) = passports[a][n] /\ Last(passports'[a]) = passports'[a][n]
  BY <1>2, <1>5 DEF Last
<1>11. /\ Last(passports'[a]).floor = Last(passports[a]).floor
       /\ Last(passports'[a]).redeemable = Last(passports[a]).redeemable
       /\ Last(passports'[a]).createdAt = Last(passports[a]).createdAt
       /\ Gated(effectiveStatus(now, passports[a])) => Gated(effectiveStatus(now, passports'[a]))
  <2>1. CASE n # v
    BY <1>6, <1>9, <1>10, <2>1 DEF effectiveStatus
  <2>2. CASE n = v
    <3>1. Gated(effectiveStatus(now, passports[a])) => Gated(passports[a][v].status)
      BY <1>9, <1>10, <2>2 DEF effectiveStatus, Gated
    <3>2. s = "SUSPENDED" => Gated(effectiveStatus(now, passports'[a]))
      BY <1>7, <1>9, <1>10, <2>2 DEF effectiveStatus, Gated
    <3>. QED
      BY <1>7, <1>8, <1>10, <2>2, <3>1, <3>2
  <2>. QED
    BY <2>1, <2>2
<1>12. HasInputs(assets', passports', policies) => CanBeValued
  BY <1>1, <1>4, <1>9 DEF HasInputs, CanBeValued
<1>13. UNCHANGED <<now, policies>>
  BY <1>1 DEF policyState
<1>14. ASSUME NEW b \in Assets
       PROVE  /\ assets'[b].policy = assets[b].policy
              /\ assets[b].status = "SUSPENDED" => assets'[b].status = "SUSPENDED"
              /\ passports[b] # <<>> =>
                   /\ Last(passports'[b]).floor = Last(passports[b]).floor
                   /\ Last(passports'[b]).redeemable = Last(passports[b]).redeemable
                   /\ Last(passports'[b]).createdAt = Last(passports[b]).createdAt
                   /\ Gated(effectiveStatus(now, passports[b])) => Gated(effectiveStatus(now, passports'[b]))
  <2>1. CASE b = a
    BY <1>1, <1>11, <2>1
  <2>2. CASE b # a
    BY <1>1, <1>4, <2>2
  <2>. QED
    BY <2>1, <2>2
<1>. QED
  BY <1>12, <1>13, <1>14, RestrictedLendsNoMore

\* What the action property says of one step.
GuardianSafe == (CapacityRises /\ GuardianNext) => \E a \in Assets : PastTheGates(a)

\* No step of a guardian raises capacity.
LEMMA StepIsGuardianSafe == Coherent => GuardianSafe
<1> SUFFICES ASSUME Coherent, CapacityRises, \A a \in Assets : ~PastTheGates(a),
                    NEW who \in Actors, RolesOf[who] = {"GUARDIAN"},
                    \/ \E a \in Assets, s \in Range(AssetStatuses) : SetStatus(who, a, s)
                    \/ \E a \in Assets, v \in 1..MaxVersion, s \in Range(PassportStatuses) :
                         RestrictPassport(who, a, v, s)
                    \/ FreezeNewBorrowing(who)
                    \/ \E a \in Assets : DisableAsset(who, a) \/ SetAssetReduceOnly(who, a)
             PROVE  FALSE
  BY DEF GuardianSafe, GuardianNext
<1>1. ASSUME NEW a \in Assets, NEW s \in Range(AssetStatuses), SetStatus(who, a, s)
      PROVE  FALSE
  <2>1. setStatus(who, a, s) /\ UNCHANGED <<now, policyState, passports>>
    BY <1>1 DEF SetStatus
  <2>2. Ordinal(AssetStatuses, s) > Ordinal(AssetStatuses, assets[a].status) /\ assets'[a].status = s
    BY <2>1 DEF setStatus, MaySetStatus, hasRole, Coherent, RegistrySide
  <2>3. assets[a].status # "SUSPENDED"
    BY <2>2, AssetOrdinals DEF PastTheGates
  <2>. QED
    BY <2>1, <2>3, StatusRaisesNothing
<1>2. ASSUME NEW a \in Assets, NEW v \in 1..MaxVersion, NEW s \in Range(PassportStatuses),
             RestrictPassport(who, a, v, s)
      PROVE  FALSE
  BY <1>2, RestrictionRaisesNothing
<1>3. CASE FreezeNewBorrowing(who)
  <2>1. UNCHANGED <<now, policies, pending, assets, passports>>
    BY <1>3 DEF FreezeNewBorrowing, BumpEpoch, registries
  <2>2. HasInputs(assets', passports', policies) => CanBeValued
    BY <2>1 DEF CanBeValued
  <2>. QED
    BY <2>1, <2>2, RestrictedLendsNoMore
<1>4. ASSUME NEW a \in Assets, DisableAsset(who, a)
      PROVE  FALSE
  BY <1>4, StatusRaisesNothing DEF DisableAsset
<1>5. ASSUME NEW a \in Assets, SetAssetReduceOnly(who, a)
      PROVE  FALSE
  <2>1. setStatus(Controller, a, "PAUSED") /\ UNCHANGED <<now, policyState, passports>>
    BY <1>5 DEF SetAssetReduceOnly
  <2>2. Ordinal(AssetStatuses, "PAUSED") > Ordinal(AssetStatuses, assets[a].status)
    BY <2>1, InputConstants DEF setStatus, MaySetStatus
  <2>3. assets[a].status # "SUSPENDED"
    BY <2>2, AssetOrdinals
  <2>. QED
    BY <2>1, <2>3, StatusRaisesNothing
<1>. QED
  BY <1>1, <1>2, <1>3, <1>4, <1>5

\* No call of a guardian, direct or through the emergency controller, lets an account borrow more,
\* unless it retires an asset or revokes a Passport (I-25): for any assets, versions and policies.
THEOREM GuardianOnlyTakesAway == Spec => GuardianRaisesNothing
<1>1. Coherent /\ [Next]_vars => [GuardianSafe]_vars
  BY StepIsGuardianSafe
<1>. QED
  BY <1>1, InvAlways, PTL DEF Spec, GuardianRaisesNothing, GuardianSafe

-----------------------------------------------------------------------------
(* Evidence jobs: the ways a conclusion may still be handed on.             *)

\* Workers that have a job in hand and have not handed its outcome on.
Running(j) == {w \in Workers : Runs(w, j)}
Waiting(j) == IF queue[j].state = "PENDING" THEN 1 ELSE 0

\* A job that was never submitted has no worker and no outcome.
Untouched(j) ==
  queue[j].state = "ABSENT" => handed[j].times = 0 /\ \A w \in Workers : inFlight[w].job # j

\* Outcomes handed on, runs that may still hand one on, and a claim to come
\* outnumber the reclaims by one at most.
Counted(j) ==
  handed[j].times + Cardinality(Running(j)) + Waiting(j) <= 1 + reclaims[j]

QueueShape ==
  /\ DOMAIN queue = Jobs
  /\ \A j \in Jobs :
       queue[j] = [state |-> queue[j].state, attempts |-> queue[j].attempts,
                   dueIn |-> queue[j].dueIn, leaseFor |-> queue[j].leaseFor]

JobTypes ==
  /\ QueueShape
  /\ inFlight \in [Workers -> [job : Jobs \cup {NoJob}, age : Int, handing : BOOLEAN]]
  /\ DOMAIN handed = Jobs /\ \A j \in Jobs : handed[j].times \in Nat
  /\ reclaims \in [Jobs -> Nat]

JobsOK == JobTypes /\ \A j \in Jobs : Untouched(j) /\ Counted(j)

\* Runs are finitely many.
LEMMA RunningIsFinite ==
  ASSUME NEW j
  PROVE  IsFiniteSet(Running(j)) /\ Cardinality(Running(j)) \in Nat
<1>1. IsFiniteSet(Workers)
  BY JobConstants
<1>2. Running(j) \in SUBSET Workers
  BY DEF Running
<1>3. IsFiniteSet(Running(j))
  BY <1>1, <1>2, FS_Subset
<1>. QED
  BY <1>3, FS_CardinalityType

\* A worker that is not in the set counts one more, a smaller set no more.
LEMMA OneMoreRuns ==
  ASSUME NEW S, NEW T, NEW w, IsFiniteSet(S)
  PROVE  /\ T \subseteq S \cup {w} => IsFiniteSet(T) /\ Cardinality(T) <= Cardinality(S) + 1
         /\ T \subseteq S => IsFiniteSet(T) /\ Cardinality(T) <= Cardinality(S)
         /\ w \in S /\ T \subseteq S \ {w} => IsFiniteSet(T) /\ Cardinality(T) <= Cardinality(S) - 1
         /\ Cardinality(S) \in Nat /\ (IsFiniteSet(T) => Cardinality(T) \in Nat)
<1>1. Cardinality(S) \in Nat /\ (IsFiniteSet(T) => Cardinality(T) \in Nat)
  BY FS_CardinalityType
<1>2. ASSUME T \subseteq S \cup {w}
      PROVE  IsFiniteSet(T) /\ Cardinality(T) <= Cardinality(S) + 1
  <2>1. IsFiniteSet(S \cup {w})
    BY FS_AddElement
  <2>2. Cardinality(S \cup {w}) = Cardinality(S) \/ Cardinality(S \cup {w}) = Cardinality(S) + 1
    BY FS_AddElement
  <2>3. IsFiniteSet(T) /\ Cardinality(T) <= Cardinality(S \cup {w})
    BY <1>2, <2>1, FS_Subset
  <2>. QED
    BY <1>1, <2>2, <2>3
<1>3. ASSUME T \subseteq S
      PROVE  IsFiniteSet(T) /\ Cardinality(T) <= Cardinality(S)
  BY <1>3, FS_Subset
<1>4. ASSUME w \in S, T \subseteq S \ {w}
      PROVE  IsFiniteSet(T) /\ Cardinality(T) <= Cardinality(S) - 1
  <2>1. IsFiniteSet(S \ {w}) /\ Cardinality(S \ {w}) = Cardinality(S) - 1
    BY <1>4, FS_RemoveElement
  <2>. QED
    BY <1>4, <2>1, FS_Subset
<1>. QED
  BY <1>1, <1>2, <1>3, <1>4

\* A step counts right if each job's does.
LEMMA JobCounts ==
  ASSUME JobsOK, JobTypes', NEW k \in Jobs, NEW w,
         \/ /\ Running(k)' \subseteq Running(k) /\ Waiting(k)' <= Waiting(k)
            /\ handed'[k].times = handed[k].times /\ reclaims'[k] = reclaims[k]
         \/ /\ Running(k)' \subseteq Running(k) \cup {w} /\ handed'[k].times = handed[k].times
            /\ \/ Waiting(k) = 1 /\ Waiting(k)' = 0 /\ reclaims'[k] = reclaims[k]
               \/ Waiting(k)' <= Waiting(k) /\ reclaims'[k] = reclaims[k] + 1
         \/ /\ w \in Running(k) /\ Running(k)' \subseteq Running(k) \ {w} /\ reclaims'[k] = reclaims[k]
            /\ \/ handed'[k].times = handed[k].times
               \/ handed'[k].times = handed[k].times + 1 /\ Waiting(k)' <= Waiting(k)
  PROVE  Counted(k)'
<1>1. PICK m : m = Waiting(k)'
  OBVIOUS
<1>2. m \in 0..1 /\ Waiting(k) \in 0..1
  BY <1>1 DEF Waiting
<1>3. PICK R : R = Running(k)'
  OBVIOUS
<1>4. IsFiniteSet(Running(k))
  BY RunningIsFinite
<1>5. PICK n \in Nat : n = Cardinality(Running(k))
  BY RunningIsFinite
<1>6. /\ R \subseteq Running(k) \cup {w} => IsFiniteSet(R) /\ Cardinality(R) <= n + 1
      /\ R \subseteq Running(k) => IsFiniteSet(R) /\ Cardinality(R) <= n
      /\ w \in Running(k) /\ R \subseteq Running(k) \ {w} => IsFiniteSet(R) /\ Cardinality(R) <= n - 1
      /\ IsFiniteSet(R) => Cardinality(R) \in Nat
  BY <1>4, <1>5, OneMoreRuns
<1>7. PICK c : c = Cardinality(R)
  OBVIOUS
<1>8. /\ handed[k].times \in Nat /\ reclaims[k] \in Nat
      /\ handed[k].times + n + Waiting(k) <= 1 + reclaims[k]
  BY <1>5 DEF JobsOK, JobTypes, Counted
<1>9. handed'[k].times + c + m <= 1 + reclaims'[k]
  BY <1>1, <1>2, <1>3, <1>6, <1>7, <1>8
<1>. QED
  BY <1>1, <1>3, <1>7, <1>9 DEF Counted

\* What a worker does with its own call leaves the others' calls alone.
LEMMA RunningElse ==
  ASSUME JobsOK, NEW w \in Workers, NEW r, inFlight' = [inFlight EXCEPT ![w] = r], NEW k \in Jobs
  PROVE  /\ Running(k)' \subseteq Running(k) \cup {w}
         /\ r.job # k \/ r.handing => Running(k)' \subseteq Running(k) \ {w}
         /\ \A v \in Workers \ {w} : inFlight'[v] = inFlight[v]
         /\ inFlight'[w] = r
<1>1. inFlight'[w] = r /\ \A v \in Workers \ {w} : inFlight'[v] = inFlight[v]
  BY DEF JobsOK, JobTypes
<1>. QED
  BY <1>1 DEF Running, Runs

\* At the start no job is waiting, running or concluded.
LEMMA JobsStart == JobsInit => JobsOK
<1> SUFFICES ASSUME JobsInit
             PROVE  JobsOK
  OBVIOUS
<1>1. JobTypes
  BY DEF JobsInit, JobTypes, QueueShape, Idle, Absent, Nothing
<1>2. ASSUME NEW j \in Jobs
      PROVE  Untouched(j) /\ Counted(j)
  <2>1. \A w \in Workers : inFlight[w].job = NoJob
    BY DEF JobsInit, Idle
  <2>2. j # NoJob
    BY JobConstants DEF NoJob
  <2>3. handed[j].times = 0 /\ reclaims[j] = 0 /\ queue[j].state = "ABSENT"
    BY DEF JobsInit, Absent
  <2>4. Running(j) = {}
    BY <2>1, <2>2 DEF Running, Runs
  <2>5. Cardinality(Running(j)) = 0
    BY <2>4, FS_EmptySet
  <2>6. Waiting(j) = 0
    BY <2>3 DEF Waiting
  <2>. QED
    BY <2>1, <2>2, <2>3, <2>5, <2>6 DEF Untouched, Counted
<1>. QED
  BY <1>1, <1>2 DEF JobsOK

\* A worker has a job that was submitted.
LEMMA RunsAreSubmitted ==
  ASSUME JobsOK, NEW w \in Workers, inFlight[w].job # NoJob
  PROVE  inFlight[w].job \in Jobs /\ queue[inFlight[w].job].state # "ABSENT"
BY DEF JobsOK, JobTypes, Untouched

\* What each of the queue's operations does to a job's state.
LEMMA QueueSteps ==
  ASSUME QueueShape, NEW j \in Jobs
  PROVE  /\ enqueue(j) => /\ QueueShape' /\ \A k \in Jobs \ {j} : queue'[k] = queue[k]
                          /\ \/ queue'[j] = queue[j]
                             \/ queue[j] = Absent /\ queue'[j].state = "PENDING"
         /\ claim(j) => /\ QueueShape' /\ \A k \in Jobs \ {j} : queue'[k] = queue[k]
                        /\ queue'[j].state = "LEASED"
         /\ succeed(j) => /\ QueueShape' /\ \A k \in Jobs \ {j} : queue'[k] = queue[k]
                          /\ queue'[j].state = "SUCCEEDED"
<1> DEFINE Only(r) == queue' = [queue EXCEPT ![j] = r]
<1>1. ASSUME NEW r, Only(r), r = [state |-> r.state, attempts |-> r.attempts, dueIn |-> r.dueIn, leaseFor |-> r.leaseFor]
      PROVE  QueueShape' /\ queue'[j] = r /\ \A k \in Jobs \ {j} : queue'[k] = queue[k]
  BY <1>1 DEF QueueShape
<1>2. ASSUME enqueue(j)
      PROVE  /\ QueueShape' /\ \A k \in Jobs \ {j} : queue'[k] = queue[k]
             /\ \/ queue'[j] = queue[j]
                \/ queue[j] = Absent /\ queue'[j].state = "PENDING"
  <2>1. CASE queue[j] # Absent
    <3>1. queue' = queue
      BY <1>2, <2>1 DEF enqueue
    <3>. QED
      BY <3>1 DEF QueueShape
  <2>2. CASE queue[j] = Absent
    <3>1. PICK r : r = [state |-> "PENDING", attempts |-> 0, dueIn |-> 0, leaseFor |-> 0]
      OBVIOUS
    <3>2. queue' = [queue EXCEPT ![j] = [queue[j] EXCEPT !.state = "PENDING"]]
      BY <1>2, <2>2 DEF enqueue
    <3>3. [queue[j] EXCEPT !.state = "PENDING"] = r
      BY <2>2, <3>1 DEF Absent
    <3>4. Only(r)
      BY <3>2, <3>3
    <3>5. QueueShape' /\ queue'[j] = r /\ \A k \in Jobs \ {j} : queue'[k] = queue[k]
      BY <1>1, <3>1, <3>4
    <3>. QED
      BY <2>2, <3>1, <3>5
  <2>. QED
    BY <2>1, <2>2
<1>3. ASSUME claim(j)
      PROVE  /\ QueueShape' /\ \A k \in Jobs \ {j} : queue'[k] = queue[k]
             /\ queue'[j].state = "LEASED"
  <2>1. /\ DOMAIN queue' = Jobs /\ \A k \in Jobs \ {j} : queue'[k] = queue[k]
        /\ queue'[j] = [queue[j] EXCEPT !.state = "LEASED", !.leaseFor = LeaseSeconds]
    BY <1>3 DEF claim, QueueShape
  <2>2. queue'[j] = [state |-> "LEASED", attempts |-> queue[j].attempts, dueIn |-> queue[j].dueIn,
                     leaseFor |-> LeaseSeconds]
    BY <2>1 DEF QueueShape
  <2>. QED
    BY <2>1, <2>2 DEF QueueShape
<1>4. ASSUME succeed(j)
      PROVE  /\ QueueShape' /\ \A k \in Jobs \ {j} : queue'[k] = queue[k]
             /\ queue'[j].state = "SUCCEEDED"
  <2>1. /\ DOMAIN queue' = Jobs /\ \A k \in Jobs \ {j} : queue'[k] = queue[k]
        /\ queue'[j] = [queue[j] EXCEPT !.state = "SUCCEEDED", !.leaseFor = 0]
    BY <1>4 DEF succeed, QueueShape
  <2>2. queue'[j] = [state |-> "SUCCEEDED", attempts |-> queue[j].attempts, dueIn |-> queue[j].dueIn,
                     leaseFor |-> 0]
    BY <2>1 DEF QueueShape
  <2>. QED
    BY <2>1, <2>2 DEF QueueShape
<1>. QED
  BY <1>2, <1>3, <1>4

\* A failure settles its own job, or puts it back, and no other.
LEMMA FailingLeaves ==
  ASSUME QueueShape, NEW j \in Jobs, NEW terminal, NEW age, fail(j, terminal, age)
  PROVE  /\ QueueShape' /\ \A k \in Jobs \ {j} : queue'[k] = queue[k]
         /\ queue'[j].state \in {"REJECTED", "RECONCILIATION_REQUIRED", "PENDING"}
<1>1. PICK state \in {"REJECTED", "RECONCILIATION_REQUIRED", "PENDING"} :
        \E attempts, late :
          queue' = [queue EXCEPT ![j] =
            [state |-> state, attempts |-> attempts, leaseFor |-> 0, dueIn |-> late]]
  BY DEF fail
<1>2. PICK attempts, late :
        queue' = [queue EXCEPT ![j] =
          [state |-> state, attempts |-> attempts, leaseFor |-> 0, dueIn |-> late]]
  BY <1>1
<1>3. /\ DOMAIN queue' = Jobs /\ \A k \in Jobs \ {j} : queue'[k] = queue[k]
      /\ queue'[j] = [state |-> state, attempts |-> attempts, leaseFor |-> 0, dueIn |-> late]
  BY <1>2 DEF QueueShape
<1>. QED
  BY <1>1, <1>3 DEF QueueShape

\* Time moves leases and delays, never a state.
LEMMA ElapsingLeaves ==
  ASSUME QueueShape, elapse
  PROVE  QueueShape' /\ \A k \in Jobs : queue'[k].state = queue[k].state
<1>1. DOMAIN queue' = Jobs
  BY DEF elapse
<1>2. ASSUME NEW k \in Jobs
      PROVE  /\ queue'[k].state = queue[k].state
             /\ queue'[k] = [state |-> queue'[k].state, attempts |-> queue'[k].attempts,
                             dueIn |-> queue'[k].dueIn, leaseFor |-> queue'[k].leaseFor]
  <2>1. queue[k] = [state |-> queue[k].state, attempts |-> queue[k].attempts,
                    dueIn |-> queue[k].dueIn, leaseFor |-> queue[k].leaseFor]
    BY DEF QueueShape
  <2>2. \/ queue'[k] = queue[k]
        \/ queue'[k] = [queue[k] EXCEPT !.dueIn = Clip(@ - 1), !.leaseFor = Later(@ - 1, 0)]
    BY DEF elapse
  <2>3. \/ queue'[k] = queue[k]
        \/ queue'[k] = [state |-> queue[k].state, attempts |-> queue[k].attempts,
                        dueIn |-> Clip(queue[k].dueIn - 1), leaseFor |-> Later(queue[k].leaseFor - 1, 0)]
    BY <2>1, <2>2
  <2>. QED
    BY <2>1, <2>3
<1>. QED
  BY <1>1, <1>2 DEF QueueShape

\* A job enqueued again changes nothing; a new one is its one claim to come.
LEMMA EnqueueCounts ==
  ASSUME JobsOK, NEW j \in Jobs, Enqueue(j)
  PROVE  JobsOK'
<1>1. inFlight' = inFlight /\ handed' = handed /\ reclaims' = reclaims
  BY DEF Enqueue
<1>2. /\ QueueShape' /\ \A k \in Jobs \ {j} : queue'[k] = queue[k]
      /\ queue'[j] = queue[j] \/ (queue[j] = Absent /\ queue'[j].state = "PENDING")
  BY QueueSteps DEF Enqueue, JobsOK, JobTypes
<1>3. JobTypes'
  BY <1>1, <1>2 DEF JobsOK, JobTypes
<1>4. ASSUME NEW k \in Jobs
      PROVE  Running(k)' = Running(k)
  BY <1>1 DEF Running, Runs
<1>5. ASSUME NEW k \in Jobs, queue'[k] = queue[k]
      PROVE  Untouched(k)' /\ Counted(k)'
  BY <1>1, <1>4, <1>5 DEF JobsOK, Untouched, Counted, Waiting
<1>6. ASSUME queue[j] = Absent, queue'[j].state = "PENDING"
      PROVE  Untouched(j)' /\ Counted(j)'
  <2>1. handed[j].times = 0 /\ \A w \in Workers : inFlight[w].job # j
    BY <1>6 DEF JobsOK, Untouched, Absent
  <2>2. Running(j) = {}
    BY <2>1 DEF Running, Runs
  <2>3. Cardinality(Running(j)') = 0 /\ handed'[j].times = 0 /\ reclaims'[j] \in Nat
    BY <1>1, <1>4, <2>1, <2>2, FS_EmptySet DEF JobsOK, JobTypes
  <2>4. Waiting(j)' = 1
    BY <1>6 DEF Waiting
  <2>5. Counted(j)'
    BY <2>3, <2>4 DEF Counted
  <2>. QED
    BY <1>6, <2>5 DEF Untouched
<1>. QED
  BY <1>2, <1>3, <1>5, <1>6 DEF JobsOK

\* A claim turns a waiting job into a run, or a run whose lease ended into a reclaim.
LEMMA ClaimCounts ==
  ASSUME JobsOK, NEW w \in Workers, NEW j \in Jobs, Claim(w, j)
  PROVE  JobsOK'
<1>1. PICK r : r = [Idle EXCEPT !.job = j]
  OBVIOUS
<1>2. r = [job |-> j, age |-> 0, handing |-> FALSE]
  BY <1>1 DEF Idle
<1>3. handed' = handed /\ inFlight' = [inFlight EXCEPT ![w] = r]
  BY <1>1 DEF Claim
<1>4. QueueShape' /\ queue'[j].state = "LEASED" /\ \A k \in Jobs \ {j} : queue'[k] = queue[k]
  BY QueueSteps DEF Claim, JobsOK, JobTypes
<1>5. /\ reclaims' \in [Jobs -> Nat] /\ \A k \in Jobs \ {j} : reclaims'[k] = reclaims[k]
      /\ LeaseExpired(queue[j]) => reclaims'[j] = reclaims[j] + 1
      /\ ~LeaseExpired(queue[j]) => reclaims'[j] = reclaims[j]
  BY DEF Claim, JobsOK, JobTypes
<1>6. JobTypes'
  BY <1>2, <1>3, <1>4, <1>5 DEF JobsOK, JobTypes
<1>7. ASSUME NEW k \in Jobs
      PROVE  /\ Running(k)' \subseteq Running(k) \cup {w}
             /\ k # j => Running(k)' \subseteq Running(k) \ {w}
             /\ \A v \in Workers \ {w} : inFlight'[v] = inFlight[v]
             /\ inFlight'[w] = r
  <2>1. inFlight' = [inFlight EXCEPT ![w] = r]
    BY <1>3
  <2>2. /\ Running(k)' \subseteq Running(k) \cup {w}
        /\ r.job # k \/ r.handing => Running(k)' \subseteq Running(k) \ {w}
        /\ \A v \in Workers \ {w} : inFlight'[v] = inFlight[v]
        /\ inFlight'[w] = r
    BY <2>1, RunningElse
  <2>3. r.job = j
    BY <1>2
  <2>. QED
    BY <2>2, <2>3
<1>8. ASSUME NEW k \in Jobs \ {j}
      PROVE  Untouched(k)' /\ Counted(k)'
  <2>1. Running(k)' \subseteq Running(k)
    BY <1>7
  <2>2. Waiting(k)' = Waiting(k) /\ Waiting(k) \in Nat
    BY <1>4 DEF Waiting
  <2>3. Counted(k)'
    BY <1>3, <1>5, <1>6, <2>1, <2>2, JobCounts
  <2>4. Untouched(k)'
    BY <1>2, <1>3, <1>4, <1>7 DEF Untouched, JobsOK
  <2>. QED
    BY <2>3, <2>4
<1>9. Untouched(j)'
  BY <1>4 DEF Untouched
<1>10. Counted(j)'
  <2>1. Waiting(j)' = 0
    BY <1>4 DEF Waiting
  <2>2. CASE LeaseExpired(queue[j])
    <3>1. Waiting(j) \in Nat
      BY DEF Waiting
    <3>2. Waiting(j)' <= Waiting(j)
      BY <2>1, <3>1
    <3>. QED
      BY <1>3, <1>5, <1>6, <1>7, <2>2, <3>2, JobCounts
  <2>3. CASE ~LeaseExpired(queue[j])
    <3>1. queue[j].state = "PENDING"
      BY <2>3 DEF Claim, claim, Claimable, Due
    <3>2. Waiting(j) = 1
      BY <3>1 DEF Waiting
    <3>. QED
      BY <1>3, <1>5, <1>6, <1>7, <2>1, <2>3, <3>2, JobCounts
  <2>. QED
    BY <2>2, <2>3
<1>. QED
  BY <1>6, <1>8, <1>9, <1>10 DEF JobsOK

\* A call that ends with no outcome handed on, whatever it reported.
LEMMA EndingCounts ==
  ASSUME JobsOK, NEW w \in Workers, NEW j \in Jobs,
         inFlight[w].job = j, inFlight' = [inFlight EXCEPT ![w] = Idle],
         handed' = handed, reclaims' = reclaims,
         QueueShape', \A k \in Jobs \ {j} : queue'[k] = queue[k], queue'[j].state # "ABSENT",
         Runs(w, j) \/ queue'[j].state # "PENDING"
  PROVE  JobsOK'
<1>1. inFlight[w] \in [job : Jobs \cup {NoJob}, age : Int, handing : BOOLEAN]
  BY DEF JobsOK, JobTypes
<1>2. JobTypes'
  BY DEF JobsOK, JobTypes, Idle
<1>3. \A k \in Jobs : Idle.job # k
  BY JobConstants DEF Idle, NoJob
<1>4. ASSUME NEW k \in Jobs
      PROVE  /\ Running(k)' \subseteq Running(k) \ {w}
             /\ \A v \in Workers \ {w} : inFlight'[v] = inFlight[v]
             /\ inFlight'[w] = Idle
  BY <1>3, RunningElse
<1>5. ASSUME NEW k \in Jobs
      PROVE  Waiting(k) \in 0..1 /\ Waiting(k)' \in 0..1
  BY DEF Waiting
<1>6. ASSUME NEW k \in Jobs \ {j}
      PROVE  Untouched(k)' /\ Counted(k)'
  <2>1. Running(k)' \subseteq Running(k)
    BY <1>4
  <2>2. Waiting(k)' = Waiting(k)
    BY DEF Waiting
  <2>3. Waiting(k)' <= Waiting(k)
    BY <1>5, <2>2
  <2>4. Counted(k)'
    BY <1>2, <2>1, <2>3, JobCounts
  <2>5. Untouched(k)'
    BY <1>3, <1>4 DEF Untouched, JobsOK
  <2>. QED
    BY <2>4, <2>5
<1>7. Untouched(j)'
  BY DEF Untouched
<1>8. CASE Runs(w, j)
  <2>1. w \in Running(j)
    BY <1>8 DEF Running
  <2>2. Running(j)' \subseteq Running(j) \ {w}
    BY <1>4
  <2>3. Counted(j)'
    BY <1>2, <2>1, <2>2, JobCounts
  <2>. QED
    BY <1>2, <1>6, <1>7, <2>3 DEF JobsOK
<1>9. CASE ~Runs(w, j)
  <2>1. Running(j)' \subseteq Running(j)
    BY <1>4
  <2>2. Waiting(j)' <= Waiting(j)
    BY <1>5, <1>9 DEF Waiting
  <2>3. Counted(j)'
    BY <1>2, <2>1, <2>2, JobCounts
  <2>. QED
    BY <1>2, <1>6, <1>7, <2>3 DEF JobsOK
<1>. QED
  BY <1>8, <1>9

\* A run that hands on is a run no longer.
LEMMA HandingCounts ==
  ASSUME JobsOK, NEW w \in Workers, NEW j \in Jobs, HandOn(w, j)
  PROVE  JobsOK'
<1>1. queue' = queue /\ reclaims' = reclaims /\ Runs(w, j)
  BY DEF HandOn
<1>2. inFlight[w] \in [job : Jobs \cup {NoJob}, age : Int, handing : BOOLEAN] /\ inFlight[w].job = j
  BY <1>1 DEF Runs, JobsOK, JobTypes
<1>3. PICK r : r = [inFlight[w] EXCEPT !.handing = TRUE]
  OBVIOUS
<1>4. r \in [job : Jobs \cup {NoJob}, age : Int, handing : BOOLEAN] /\ r.job = j /\ r.handing
  BY <1>2, <1>3
<1>5. inFlight' = [inFlight EXCEPT ![w] = r]
  <2>1. inFlight' = [inFlight EXCEPT ![w].handing = TRUE] /\ DOMAIN inFlight = Workers
    BY DEF HandOn, JobsOK, JobTypes
  <2>2. inFlight'[w] = r /\ \A v \in Workers \ {w} : inFlight'[v] = inFlight[v]
    <3>1. inFlight'[w] = [inFlight[w] EXCEPT !.handing = TRUE]
      BY <2>1
    <3>. QED
      BY <1>3, <2>1, <3>1
  <2>3. inFlight' = [v \in Workers |-> IF v = w THEN r ELSE inFlight[v]]
    BY <2>1, <2>2
  <2>. QED
    BY <2>1, <2>3
<1>6. /\ DOMAIN handed' = Jobs /\ handed'[j].times = handed[j].times + 1
      /\ \A k \in Jobs \ {j} : handed'[k] = handed[k]
  BY DEF HandOn, JobsOK, JobTypes
<1>7. \A k \in Jobs : handed'[k].times \in Nat
  <2>1. handed[j].times + 1 \in Nat
    BY DEF JobsOK, JobTypes
  <2>. QED
    BY <1>6, <2>1 DEF JobsOK, JobTypes
<1>8. JobTypes'
  BY <1>1, <1>4, <1>5, <1>6, <1>7 DEF JobsOK, JobTypes, QueueShape
<1>9. ASSUME NEW k \in Jobs
      PROVE  /\ Running(k)' \subseteq Running(k) \ {w}
             /\ \A v \in Workers \ {w} : inFlight'[v] = inFlight[v]
             /\ inFlight'[w] = r
  BY <1>4, <1>5, RunningElse
<1>10. ASSUME NEW k \in Jobs
       PROVE  Waiting(k)' = Waiting(k) /\ Waiting(k) \in Nat
  BY <1>1 DEF Waiting
<1>11. ASSUME NEW k \in Jobs \ {j}
       PROVE  Untouched(k)' /\ Counted(k)'
  <2>1. Running(k)' \subseteq Running(k)
    BY <1>9
  <2>2. Waiting(k)' <= Waiting(k)
    BY <1>10
  <2>3. Counted(k)'
    BY <1>1, <1>6, <1>8, <2>1, <2>2, JobCounts
  <2>4. Untouched(k)'
    BY <1>1, <1>4, <1>6, <1>9 DEF Untouched, JobsOK
  <2>. QED
    BY <2>3, <2>4
<1>12. Counted(j)'
  <2>1. w \in Running(j)
    BY <1>1 DEF Running
  <2>2. Waiting(j)' <= Waiting(j)
    BY <1>10
  <2>. QED
    BY <1>1, <1>6, <1>8, <1>9, <2>1, <2>2, JobCounts
<1>13. Untouched(j)'
  <2>1. queue[j].state # "ABSENT"
    BY <1>2 DEF JobsOK, Untouched
  <2>. QED
    BY <1>1, <2>1 DEF Untouched
<1>. QED
  BY <1>8, <1>11, <1>12, <1>13 DEF JobsOK

\* A call that ends without a report.
LEMMA IdlingCounts ==
  ASSUME JobsOK, NEW w \in Workers, inFlight' = [inFlight EXCEPT ![w] = Idle],
         QueueShape', \A k \in Jobs : queue'[k] = queue[k], handed' = handed, reclaims' = reclaims
  PROVE  JobsOK'
<1>2. JobTypes'
  BY DEF JobsOK, JobTypes, QueueShape, Idle
<1>3. \A k \in Jobs : Idle.job # k
  BY JobConstants DEF Idle, NoJob
<1>4. ASSUME NEW k \in Jobs
      PROVE  Untouched(k)' /\ Counted(k)'
  <2>1. /\ Running(k)' \subseteq Running(k) \ {w}
        /\ \A v \in Workers \ {w} : inFlight'[v] = inFlight[v]
        /\ inFlight'[w] = Idle
    BY <1>3, RunningElse
  <2>2. Waiting(k)' <= Waiting(k)
    BY DEF Waiting
  <2>3. Running(k)' \subseteq Running(k)
    BY <2>1
  <2>4. Counted(k)'
    BY <1>2, <2>2, <2>3, JobCounts
  <2>5. Untouched(k)'
    BY <1>3, <2>1 DEF Untouched, JobsOK
  <2>. QED
    BY <2>4, <2>5
<1>. QED
  BY <1>2, <1>4 DEF JobsOK

\* Time ends runs whose worker waited too long, and starts none.
LEMMA TickingCounts ==
  ASSUME JobsOK, JobsTick
  PROVE  JobsOK'
<1>1. handed' = handed /\ reclaims' = reclaims
  BY DEF JobsTick
<1>2. QueueShape' /\ \A k \in Jobs : queue'[k].state = queue[k].state
  BY ElapsingLeaves DEF JobsTick, JobsOK, JobTypes
<1>3. /\ inFlight' \in [Workers -> [job : Jobs \cup {NoJob}, age : Int, handing : BOOLEAN]]
      /\ \A w \in Workers : inFlight'[w].job = inFlight[w].job /\ inFlight'[w].handing = inFlight[w].handing
  BY DEF JobsTick, JobsOK, JobTypes
<1>4. JobTypes'
  BY <1>1, <1>2, <1>3 DEF JobsOK, JobTypes
<1>5. ASSUME NEW k \in Jobs
      PROVE  Untouched(k)' /\ Counted(k)'
  <2>1. Running(k)' \subseteq Running(k)
    BY <1>3 DEF Running, Runs
  <2>2. Waiting(k)' <= Waiting(k)
    BY <1>2 DEF Waiting
  <2>3. Counted(k)'
    BY <1>1, <1>4, <2>1, <2>2, JobCounts
  <2>4. Untouched(k)'
    BY <1>1, <1>2, <1>3 DEF Untouched, JobsOK
  <2>. QED
    BY <2>3, <2>4
<1>. QED
  BY <1>4, <1>5 DEF JobsOK

\* Every step of a worker counts right.
LEMMA JobsStep == JobsOK /\ [JobsNext]_jobVars => JobsOK'
<1> SUFFICES ASSUME JobsOK, [JobsNext]_jobVars
             PROVE  JobsOK'
  OBVIOUS
<1>1. ASSUME NEW w \in Workers, NEW j \in Jobs, Stumble(w, j) \/ Reject(w, j)
      PROVE  JobsOK'
  <2>1. /\ QueueShape' /\ \A k \in Jobs \ {j} : queue'[k] = queue[k]
        /\ queue'[j].state \in {"REJECTED", "RECONCILIATION_REQUIRED", "PENDING"}
    <3>1. CASE Stumble(w, j)
      BY <3>1, FailingLeaves DEF Stumble, JobsOK, JobTypes
    <3>2. CASE Reject(w, j)
      BY <3>2, FailingLeaves DEF Reject, JobsOK, JobTypes
    <3>. QED
      BY <1>1, <3>1, <3>2
  <2>2. /\ inFlight[w].job = j /\ Runs(w, j) /\ inFlight' = [inFlight EXCEPT ![w] = Idle]
        /\ handed' = handed /\ reclaims' = reclaims
    BY <1>1 DEF Stumble, Reject, Runs
  <2>. QED
    BY <2>1, <2>2, EndingCounts
<1>2. ASSUME NEW w \in Workers, Report(w)
      PROVE  JobsOK'
  <2>1. /\ inFlight[w].handing /\ inFlight' = [inFlight EXCEPT ![w] = Idle]
        /\ handed' = handed /\ reclaims' = reclaims /\ succeed(inFlight[w].job)
    BY <1>2 DEF Report
  <2>2. CASE inFlight[w].job \in Jobs
    <3>1. PICK j \in Jobs : j = inFlight[w].job
      BY <2>2
    <3>2. /\ QueueShape' /\ queue'[j].state = "SUCCEEDED"
          /\ \A k \in Jobs \ {j} : queue'[k] = queue[k]
      BY <2>1, <3>1, QueueSteps DEF JobsOK, JobTypes
    <3>3. queue'[j].state # "ABSENT" /\ queue'[j].state # "PENDING"
      BY <3>2
    <3>4. inFlight[w].job = j /\ inFlight' = [inFlight EXCEPT ![w] = Idle] /\ handed' = handed /\ reclaims' = reclaims
      BY <2>1, <3>1
    <3>. QED
      BY <3>2, <3>3, <3>4, EndingCounts
  <2>3. CASE inFlight[w].job \notin Jobs
    <3>1. QueueShape' /\ \A k \in Jobs : queue'[k] = queue[k]
      BY <2>1, <2>3 DEF succeed, JobsOK, JobTypes, QueueShape
    <3>. QED
      BY <2>1, <3>1, IdlingCounts
  <2>. QED
    BY <2>2, <2>3
<1>3. CASE UNCHANGED jobVars
  BY <1>3 DEF jobVars, JobsOK, JobTypes, QueueShape, Untouched, Counted, Running, Runs, Waiting
<1>4. ASSUME NEW w \in Workers, Die(w)
      PROVE  JobsOK'
  <2>1. QueueShape' /\ \A k \in Jobs : queue'[k] = queue[k]
    BY <1>4 DEF Die, JobsOK, JobTypes, QueueShape
  <2>. QED
    BY <1>4, <2>1, IdlingCounts DEF Die
<1>5. CASE JobsNext
  BY <1>1, <1>2, <1>4, <1>5, EnqueueCounts, ClaimCounts, HandingCounts, TickingCounts
     DEF JobsNext, Proceed
<1>. QED
  BY <1>3, <1>5

\* A conclusion is handed on again only after a lease expired, for any jobs, workers, answers,
\* deaths and bounds on attempts (jobs.ts runPipelineJobOnce, queue.ts enqueue and claim).
THEOREM RepeatsDoNeedAReclaim == JobsSpec => []RepeatsNeedAReclaim
<1>1. JobsOK => RepeatsNeedAReclaim
  <2> SUFFICES ASSUME JobsOK, NEW j \in Jobs
               PROVE  handed[j].times <= 1 + reclaims[j]
    BY DEF RepeatsNeedAReclaim
  <2>1. Cardinality(Running(j)) \in Nat /\ Waiting(j) \in Nat
    BY RunningIsFinite DEF Waiting
  <2>. QED
    BY <2>1 DEF JobsOK, JobTypes, Counted
<1>. QED
  BY <1>1, JobsStart, JobsStep, PTL DEF JobsSpec

-----------------------------------------------------------------------------
(* Evidence: what the paths must have said for a floor to reach a header.   *)

\* The least of some naturals is one of them.
LEMMA FirstIsOneOf ==
  ASSUME NEW S \in SUBSET Nat, S # {}
  PROVE  Min(S) \in S
<1>1. \E n \in S : \A m \in S : n <= m
  BY LeastNatural
<1>. QED
  BY <1>1 DEF Min

\* The parser has no pattern for a floor.
LEMMA ParserReadsNoFloor ==
  ASSUME NEW text
  PROVE  parse(text)[Floor] = UNKNOWN
<1>1. Floor \in Fields /\ Floor # Window
  BY DEF Fields, RiskBearing, Floor, Window
<1>2. ParserRules[Floor] = <<>>
  BY <1>1 DEF ParserRules, Floor, Supported, Transfer, Backing, Mechanism
<1>3. firstMatch(text.phrases, <<>>) = UNKNOWN
  BY DEF firstMatch
<1>. QED
  BY <1>1, <1>2, <1>3 DEF parse

\* A model that gives a floor gave it with a quote that is not foreign, and what else it was heard
\* to say of it with a true quote is the same.
LEMMA ReadersStandBehind ==
  ASSUME NEW d \in Documents, NEW x \in Extractors, NEW chunks \in Hearable(x, AnswersOf(d, x)),
         NEW floor, floor # UNKNOWN,
         extract(x, Texts[d], AnswersOf(d, x), chunks)[Floor] = floor
  PROVE  StandsBehind(x, About(Floor, Heard(AnswersOf(d, x), chunks)), floor)
<1>1. RouteOf[x] \in {"PARSER", "CHAINGPT", "ZEROG"} /\ Floor \in Fields
  BY CorroborationConstants DEF Fields, RiskBearing
<1>2. RouteOf[x] # "PARSER"
  BY ParserReadsNoFloor DEF extract
<1>3. PICK answers : answers = Answers[d][x]
  OBVIOUS
<1>4. PICK claims : claims = About(Floor, Heard(answers, chunks))
  OBVIOUS
<1>5. AnswersOf(d, x) = answers /\ answers \in Seq(Seq(Claims))
  BY <1>2, <1>3, AnswerConstants DEF AnswersOf
<1>6. CASE RouteOf[x] = "CHAINGPT"
  <2>1. PICK heard : heard = Heard(answers, chunks)
    OBVIOUS
  <2>2. PICK stated : stated = Stated(Floor, materialise(heard))
    OBVIOUS
  <2>3. floor = IF \E v \in stated : stated = {v} THEN CHOOSE v \in stated : TRUE ELSE UNKNOWN
    BY <1>1, <1>5, <1>6, <2>1, <2>2 DEF extract, mergeChunkClaims
  <2>4. stated = {floor}
    BY <2>3
  <2>5. \E c \in claims : c.value = floor /\ c.fits /\ c.quote \notin {"foreign", "none"}
    <3>1. PICK c \in About(Floor, materialise(heard)) : c.value = floor
      BY <2>2, <2>4 DEF Stated
    <3>2. c \in heard /\ c.field = Floor /\ c.fits /\ c.quote \in {"verbatim", "reflowed", "short"}
      BY <3>1 DEF About, materialise, quoteAppearsInDocument
    <3>. QED
      BY <1>4, <2>1, <3>1, <3>2 DEF About
  <2>6. ASSUME NEW c \in claims, c.fits, c.quote \in {"verbatim", "reflowed"}
        PROVE  c.value \in {floor, UNKNOWN}
    <3>1. c \in heard /\ c.field = Floor
      BY <1>4, <2>1 DEF About
    <3>2. c \in About(Floor, materialise(heard))
      BY <1>1, <2>6, <3>1 DEF About, materialise, quoteAppearsInDocument
    <3>. QED
      BY <2>2, <2>4, <3>2 DEF Stated
  <2>. QED
    BY <1>4, <1>5, <2>5, <2>6 DEF StandsBehind
<1>7. CASE RouteOf[x] = "ZEROG"
  <2>1. Len(answers) = 1 /\ answers[1] \in Seq(Claims) /\ 1 \in DOMAIN answers
    <3>1. Len(answers) = 1
      BY <1>3, <1>7, AnswerConstants
    <3>2. PICK S : S = Seq(Claims)
      OBVIOUS
    <3>3. answers \in Seq(S)
      BY <1>5, <3>2
    <3>4. DOMAIN answers = 1..1
      BY <3>1, <3>3
    <3>5. 1 \in 1..Len(answers)
      BY <3>1
    <3>6. answers[1] \in S
      BY <3>3, <3>5, ElementOfSeq
    <3>. QED
      BY <3>1, <3>2, <3>4, <3>6
  <2>2. chunks = DOMAIN answers
    BY <1>5, <1>7 DEF Hearable
  <2>3. PICK about : about = {i \in materialiseZeroG(answers[1]) : answers[1][i].field = Floor}
    OBVIOUS
  <2>4. floor = IF about = {} THEN UNKNOWN ELSE answers[1][Min(about)].value
    BY <1>1, <1>5, <1>7, <2>1, <2>3 DEF extract, firstClaims
  <2>5. about \in SUBSET Nat /\ about # {}
    BY <2>1, <2>3, <2>4 DEF materialiseZeroG
  <2>6. PICK i \in about : floor = answers[1][i].value
    BY <2>4, <2>5, FirstIsOneOf
  <2>7. /\ i \in DOMAIN answers[1] /\ answers[1][i].field = Floor
        /\ answers[1][i].fits /\ answers[1][i].quote \in {"verbatim", "empty"}
    BY <2>3, <2>6 DEF materialiseZeroG
  <2>8. answers[1][i] \in Heard(answers, chunks)
    BY <2>1, <2>2, <2>7 DEF Heard, Range
  <2>9. answers[1][i] \in claims
    BY <1>4, <2>7, <2>8 DEF About
  <2>. QED
    BY <1>4, <1>5, <1>7, <2>6, <2>7, <2>9 DEF StandsBehind
<1>. QED
  BY <1>1, <1>2, <1>6, <1>7

\* A floor that is carried was given by paths of two groups, and all who gave one gave this one.
LEMMA CarriedFloorIsAgreed ==
  ASSUME NEW sets, DOMAIN sets \subseteq Extractors,
         NEW floor, floor = resolveRedemption(sets), floor > 0
  PROVE  \E x, y \in DOMAIN sets :
           GroupOf[x] # GroupOf[y] /\ sets[x][Floor] = floor /\ sets[y][Floor] = floor /\ floor # UNKNOWN
<1>1. PICK C : C = Contributors(sets, Floor)
  OBVIOUS
<1>2. PICK V : V = Values(sets, Floor)
  OBVIOUS
<1>3. C \subseteq DOMAIN sets /\ V = {sets[x][Floor] : x \in C} /\ \A x \in C : sets[x][Floor] # UNKNOWN
  BY <1>1, <1>2 DEF Contributors, Values
<1>4. FieldOutcome(sets, Floor) = "AGREED" /\ floor = firstValue(sets, Floor)
  <2>1. ~(0 > 0)
    OBVIOUS
  <2>. QED
    BY <2>1 DEF resolveRedemption
<1>5. C # {} /\ ~(Cardinality(V) > 1) /\ ~(Cardinality(V) = 1 /\ Cardinality(Groups(C)) = 1)
  BY <1>1, <1>2, <1>4 DEF FieldOutcome
<1>6. IsFiniteSet(V) /\ Cardinality(V) \in Nat
  <2>1. IsFiniteSet(C)
    BY <1>3, CorroborationConstants, FS_Subset
  <2>2. PICK f : f = [x \in C |-> sets[x][Floor]]
    OBVIOUS
  <2>3. f \in Surjection(C, V)
    BY <1>3, <2>2 DEF Surjection
  <2>. QED
    BY <2>1, <2>3, FS_Surjection, FS_CardinalityType
<1>7. Cardinality(V) = 1
  BY <1>3, <1>5, <1>6, FS_EmptySet
<1>8. PICK v : V = {v}
  BY <1>6, <1>7, FS_Singleton
<1>9. floor = v
  BY <1>1, <1>2, <1>4, <1>5, <1>8 DEF firstValue
<1>10. PICK x \in C : TRUE
  BY <1>5
<1>11. PICK y \in C : GroupOf[y] # GroupOf[x]
  <2>1. Groups(C) # {GroupOf[x]}
    BY <1>5, <1>7, FS_Singleton
  <2>. QED
    BY <1>10, <2>1 DEF Groups
<1>12. \A z \in C : sets[z][Floor] = floor
  BY <1>3, <1>8, <1>9
<1>. QED
  BY <1>3, <1>10, <1>11, <1>12

\* What a job may conclude is backed by paths of two groups if it carries a floor.
LEMMA ConclusionsAreBacked ==
  ASSUME NEW j \in Jobs, NEW c \in Conclusions[j], CarriesFloor(c.outcome)
  PROVE  \E x, y \in DOMAIN c.backing :
           /\ GroupOf[x] # GroupOf[y]
           /\ StandsBehind(x, c.backing[x], c.outcome.floor)
           /\ StandsBehind(y, c.backing[y], c.outcome.floor)
<1>1. PICK d : d = DocumentOf[j]
  OBVIOUS
<1>2. d \in Documents
  BY <1>1, JobConstants
<1>3. PICK heard \in Surviving(d) :
        c = LET outcome == runPipeline(d, VersionOf[j], heard) IN
            [outcome |-> outcome, backing |-> IF CarriesFloor(outcome) THEN FloorClaims(d, heard) ELSE <<>>]
  BY <1>1 DEF Conclusions
<1>4. c.outcome = runPipeline(d, VersionOf[j], heard)
  BY <1>3
<1>5. c.backing = FloorClaims(d, heard)
  BY <1>3, <1>4
<1>6. PICK sets : sets = runExtractors(d, heard)
  OBVIOUS
<1>7. DOMAIN sets = DOMAIN heard /\ DOMAIN heard = DOMAIN c.backing
  BY <1>5, <1>6 DEF runExtractors, FloorClaims
<1>8. /\ DOMAIN heard \subseteq Extractors
      /\ \A x \in DOMAIN heard : heard[x] \in Hearable(x, AnswersOf(d, x))
  BY DEF Surviving
<1>9. c.outcome.floor = resolveRedemption(sets) /\ c.outcome.floor > 0
  <2>1. c.outcome.kind = "READY_TO_COMMIT" /\ c.outcome.floor > 0
    BY DEF CarriesFloor
  <2>. QED
    BY <1>4, <1>6, <2>1 DEF runPipeline
<1>10. PICK floor : floor = c.outcome.floor
  OBVIOUS
<1>11. PICK x, y \in DOMAIN sets :
         GroupOf[x] # GroupOf[y] /\ sets[x][Floor] = floor /\ sets[y][Floor] = floor /\ floor # UNKNOWN
  BY <1>7, <1>8, <1>9, <1>10, CarriedFloorIsAgreed
<1>12. ASSUME NEW z \in DOMAIN sets, sets[z][Floor] = floor
       PROVE  StandsBehind(z, c.backing[z], floor)
  <2>1. extract(z, Texts[d], AnswersOf(d, z), heard[z])[Floor] = floor
    BY <1>6, <1>7, <1>12 DEF runExtractors
  <2>2. z \in Extractors /\ heard[z] \in Hearable(z, AnswersOf(d, z))
    BY <1>7, <1>8
  <2>3. StandsBehind(z, About(Floor, Heard(AnswersOf(d, z), heard[z])), floor)
    BY <1>2, <1>11, <2>1, <2>2, ReadersStandBehind
  <2>. QED
    BY <1>5, <1>7, <2>3 DEF FloorClaims
<1>. QED
  BY <1>7, <1>10, <1>11, <1>12

\* What was handed on last is a conclusion of the job's document.
HandedOK ==
  /\ DOMAIN handed = Jobs
  /\ \A j \in Jobs :
       \/ handed[j].outcome = Nothing
       \/ \E c \in Conclusions[j] : handed[j].outcome = c.outcome /\ handed[j].backing = c.backing

\* Only HandOn touches what was handed on, and it hands on a conclusion.
LEMMA HandedStep == HandedOK /\ [JobsNext]_jobVars => HandedOK'
<1> SUFFICES ASSUME HandedOK, [JobsNext]_jobVars
             PROVE  HandedOK'
  OBVIOUS
<1>1. ASSUME handed' = handed
      PROVE  HandedOK'
  BY <1>1 DEF HandedOK
<1>2. ASSUME NEW w \in Workers, NEW j \in Jobs, HandOn(w, j)
      PROVE  HandedOK'
  <2>1. PICK c \in Conclusions[j] :
          handed' = [handed EXCEPT ![j] = [times |-> @.times + 1, outcome |-> c.outcome, backing |-> c.backing]]
    BY <1>2 DEF HandOn
  <2>2. handed'[j].outcome = c.outcome /\ handed'[j].backing = c.backing
    BY <2>1 DEF HandedOK
  <2>3. DOMAIN handed' = Jobs /\ \A k \in Jobs \ {j} : handed'[k] = handed[k]
    BY <2>1 DEF HandedOK
  <2>. QED
    BY <2>2, <2>3 DEF HandedOK
<1>3. CASE UNCHANGED jobVars
  BY <1>1, <1>3 DEF jobVars
<1>4. CASE JobsNext
  BY <1>1, <1>2, <1>4 DEF JobsNext, Proceed, Enqueue, Claim, Stumble, Reject, Report, Die, JobsTick
<1>. QED
  BY <1>3, <1>4

\* A floor on a Passport has paths of two groups behind it, for any documents, answers, lost chunks
\* and extractors, however they are grouped (corroborate.ts, candidate.ts resolveRedemption).
THEOREM FloorDoesNeedTwoPaths == JobsSpec => []FloorNeedsTwoPaths
<1>1. JobsInit => HandedOK
  BY DEF JobsInit, HandedOK
<1>2. HandedOK => FloorNeedsTwoPaths
  <2> SUFFICES ASSUME HandedOK, NEW j \in Jobs, CarriesFloor(handed[j].outcome)
               PROVE  \E x, y \in DOMAIN handed[j].backing :
                        /\ GroupOf[x] # GroupOf[y]
                        /\ StandsBehind(x, handed[j].backing[x], handed[j].outcome.floor)
                        /\ StandsBehind(y, handed[j].backing[y], handed[j].outcome.floor)
    BY DEF FloorNeedsTwoPaths
  <2>1. handed[j].outcome # Nothing
    BY DEF CarriesFloor, Nothing
  <2>2. PICK c \in Conclusions[j] : handed[j].outcome = c.outcome /\ handed[j].backing = c.backing
    BY <2>1 DEF HandedOK
  <2>. QED
    BY <2>2, ConclusionsAreBacked
<1>. QED
  BY <1>1, <1>2, HandedStep, PTL DEF JobsSpec

-----------------------------------------------------------------------------
(* Passports: finite sets laid out and measured.                            *)

\* A finite set laid out as a sequence: each of its elements has a place.
LEMMA LaidOut ==
  ASSUME NEW S, IsFiniteSet(S)
  PROVE  /\ SetToSeq(S) \in Seq(S)
         /\ \A x \in S : \E n \in 1..Len(SetToSeq(S)) : SetToSeq(S)[n] = x
<1>1. PICK n \in Nat : n = Cardinality(S)
  BY FS_CardinalityType
<1>2. \E f \in [1..n -> S] : IsInjective(f)
  <2>1. Bijection(1..n, S) # {}
    BY <1>1, FS_CardinalityType DEF ExistsBijection
  <2>. QED
    BY <2>1 DEF Bijection, Injection
<1>3. PICK s : s = SetToSeq(S)
  OBVIOUS
<1>4. s \in [1..n -> S] /\ IsInjective(s)
  BY <1>1, <1>2, <1>3 DEF SetToSeq
<1>5. s \in Injection(1..n, S)
  BY <1>4 DEF Injection
<1>6. IsFiniteSet(1..n) /\ Cardinality(1..n) = n
  BY FS_Interval
<1>7. s \in Surjection(1..n, S)
  BY <1>1, <1>5, <1>6, FS_Injection
<1>8. s \in Seq(S) /\ Len(s) = n
  BY <1>4
<1>. QED
  BY <1>3, <1>7, <1>8 DEF Surjection

\* The greatest of finitely many integers, one of them no less than zero.
LEMMA GreatestFromZero ==
  ASSUME NEW S \in SUBSET Int, IsFiniteSet(S), 0 \in S
  PROVE  Max(S) \in Nat /\ \A y \in S : y <= Max(S)
<1> DEFINE T == S \cap Nat
<1>1. IsFiniteSet(T) /\ T # {} /\ T \in SUBSET Nat
  BY FS_Subset
<1>2. PICK m \in T : \A y \in T : y <= m
  BY <1>1, GreatestOf
<1>3. m \in Nat /\ m \in S
  BY <1>1
<1>4. \A y \in S : m >= y
  BY <1>2, <1>3
<1>5. PICK g : g = Max(S)
  OBVIOUS
<1>6. g \in S /\ \A y \in S : g >= y
  BY <1>3, <1>4, <1>5 DEF Max
<1>7. g >= 0 /\ g \in Int
  BY <1>6
<1>. QED
  BY <1>5, <1>6, <1>7

-----------------------------------------------------------------------------
(* The chain: what landed stays, and why each of it could land.             *)

Transactions ==
  [kind : {"evidence", "passport", "epoch"}, evidence : SUBSET Evidence, version : Nat, block : Int]

LandedIn(T, kind) == {i \in DOMAIN T : T[i].block > 0 /\ T[i].kind = kind}
KnownIn(T) == {e \in Evidence : \E i \in LandedIn(T, "evidence") : e \in T[i].evidence}
VersionIn(T) == Cardinality(LandedIn(T, "passport"))

OneDocument(tx) == tx.kind = "evidence" => \E e \in Evidence : tx.evidence = {e}

\* Every document a Passport cites landed before it.
StoodBehind(T, i) ==
  \A e \in T[i].evidence :
    \E k \in LandedIn(T, "evidence") : T[k].evidence = {e} /\ T[k].block < T[i].block

\* The Passports that landed are versions 1, 2, ... to the current one.
InOrder(T) ==
  /\ T \in Seq(Transactions) /\ \A i \in DOMAIN T : OneDocument(T[i])
  /\ \A i \in LandedIn(T, "passport") : T[i].version \in 1..VersionIn(T) /\ StoodBehind(T, i)
  /\ \A v \in 1..VersionIn(T) : \E i \in LandedIn(T, "passport") : T[i].version = v

\* What a step may do to the chain.
GrowsTo(T, U) ==
  /\ DOMAIN T \subseteq DOMAIN U
  /\ \A i \in DOMAIN T :
       /\ U[i].kind = T[i].kind /\ U[i].evidence = T[i].evidence /\ U[i].version = T[i].version
       /\ T[i].block > 0 => U[i].block = T[i].block

\* A chain holds finitely many transactions, and counts them in naturals.
LEMMA LandedIsFinite ==
  ASSUME NEW T \in Seq(Transactions), NEW kind
  PROVE  /\ DOMAIN T = 1..Len(T) /\ Len(T) \in Nat
         /\ IsFiniteSet(LandedIn(T, kind)) /\ Cardinality(LandedIn(T, kind)) \in Nat
<1>1. DOMAIN T = 1..Len(T) /\ Len(T) \in Nat
  OBVIOUS
<1>2. IsFiniteSet(1..Len(T)) /\ LandedIn(T, kind) \in SUBSET (1..Len(T))
  BY <1>1, FS_Interval DEF LandedIn
<1>. QED
  BY <1>1, <1>2, FS_Subset, FS_CardinalityType

\* A transaction and its parts.
LEMMA EntryIs ==
  ASSUME NEW T \in Seq(Transactions), NEW i \in DOMAIN T
  PROVE  /\ T[i] \in Transactions
         /\ T[i].block \in Int /\ T[i].version \in Nat /\ T[i].evidence \in SUBSET Evidence
         /\ T[i] = [kind |-> T[i].kind, evidence |-> T[i].evidence,
                    version |-> T[i].version, block |-> T[i].block]
<1>1. T[i] \in Transactions
  OBVIOUS
<1>. QED
  BY <1>1 DEF Transactions

\* What landed stays landed, as it was.
LEMMA WhatLandedStays ==
  ASSUME NEW T \in Seq(Transactions), NEW U \in Seq(Transactions), GrowsTo(T, U)
  PROVE  /\ \A kind : LandedIn(T, kind) \subseteq LandedIn(U, kind)
         /\ \A kind : \A i \in LandedIn(T, kind) : U[i] = T[i]
         /\ KnownIn(T) \subseteq KnownIn(U)
         /\ VersionIn(T) \in Nat /\ VersionIn(U) \in Nat /\ VersionIn(T) <= VersionIn(U)
<1>1. ASSUME NEW kind, NEW i \in LandedIn(T, kind)
      PROVE  i \in LandedIn(U, kind) /\ U[i] = T[i]
  <2>1. i \in DOMAIN T /\ i \in DOMAIN U /\ T[i].block > 0 /\ T[i].kind = kind
    BY <1>1 DEF LandedIn, GrowsTo
  <2>2. /\ U[i].kind = T[i].kind /\ U[i].evidence = T[i].evidence
        /\ U[i].version = T[i].version /\ U[i].block = T[i].block
    BY <2>1 DEF GrowsTo
  <2>3. U[i] = T[i]
    BY <2>1, <2>2, EntryIs
  <2>. QED
    BY <2>1, <2>2, <2>3 DEF LandedIn
<1>2. KnownIn(T) \subseteq KnownIn(U)
  BY <1>1 DEF KnownIn
<1>3. IsFiniteSet(LandedIn(U, "passport")) /\ LandedIn(T, "passport") \in SUBSET LandedIn(U, "passport")
  BY <1>1, LandedIsFinite
<1>4. VersionIn(T) <= VersionIn(U)
  BY <1>3, FS_Subset DEF VersionIn
<1>. QED
  BY <1>1, <1>2, <1>4, LandedIsFinite DEF VersionIn

\* The same chain is no growth at all.
LEMMA GrowsToItself == ASSUME NEW T PROVE GrowsTo(T, T)
BY DEF GrowsTo

\* Sending adds transactions that have not landed.
LEMMA SendingGrows ==
  ASSUME NEW T, InOrder(T), NEW b \in Seq(Transactions),
         \A n \in 1..Len(b) : b[n].block = Pending /\ OneDocument(b[n])
  PROVE  /\ InOrder(T \o b) /\ GrowsTo(T, T \o b)
         /\ \A n \in 1..Len(b) : Len(T) + n \in DOMAIN (T \o b) /\ (T \o b)[Len(T) + n] = b[n]
<1>1. PICK U : U = T \o b
  OBVIOUS
<1>2. T \in Seq(Transactions)
  BY DEF InOrder
<1>3. /\ U \in Seq(Transactions) /\ Len(U) = Len(T) + Len(b) /\ DOMAIN U = 1..(Len(T) + Len(b))
      /\ \A i \in 1..Len(T) : U[i] = T[i]
      /\ \A i \in (Len(T) + 1)..(Len(T) + Len(b)) : U[i] = b[i - Len(T)]
      /\ Len(T) \in Nat /\ Len(b) \in Nat /\ DOMAIN T = 1..Len(T)
  BY <1>1, <1>2
<1>4. \A n \in 1..Len(b) : Len(T) + n \in DOMAIN U /\ U[Len(T) + n] = b[n]
  <2>1. ASSUME NEW n \in 1..Len(b)
        PROVE  /\ Len(T) + n \in (Len(T) + 1)..(Len(T) + Len(b)) /\ Len(T) + n \in DOMAIN U
               /\ (Len(T) + n) - Len(T) = n
    BY <1>3
  <2>. QED
    BY <1>3, <2>1
<1>5. ASSUME NEW i \in DOMAIN U
      PROVE  i \in DOMAIN T \/ \E n \in 1..Len(b) : U[i] = b[n]
  <2>1. CASE i <= Len(T)
    BY <1>3, <2>1
  <2>2. CASE i > Len(T)
    <3>1. i - Len(T) \in 1..Len(b) /\ i \in (Len(T) + 1)..(Len(T) + Len(b))
      BY <1>3, <2>2
    <3>. QED
      BY <1>3, <3>1
  <2>. QED
    BY <1>3, <2>1, <2>2
<1>6. ASSUME NEW kind
      PROVE  LandedIn(U, kind) = LandedIn(T, kind)
  <2>1. ASSUME NEW i \in DOMAIN U, U[i].block > 0
        PROVE  i \in DOMAIN T
    BY <1>5, <2>1 DEF Pending
  <2>2. DOMAIN T \subseteq DOMAIN U /\ \A i \in DOMAIN T : U[i] = T[i]
    BY <1>3
  <2>. QED
    BY <2>1, <2>2 DEF LandedIn
<1>7. VersionIn(U) = VersionIn(T)
  BY <1>6 DEF VersionIn
<1>8. \A i \in DOMAIN U : OneDocument(U[i])
  BY <1>3, <1>5 DEF InOrder
<1>9. \A kind : \A i \in LandedIn(T, kind) : U[i] = T[i]
  BY <1>3 DEF LandedIn
<1>10. \A i \in LandedIn(U, "passport") : U[i].version \in 1..VersionIn(U) /\ StoodBehind(U, i)
  <2>. SUFFICES ASSUME NEW i \in LandedIn(U, "passport")
                PROVE  U[i].version \in 1..VersionIn(U) /\ StoodBehind(U, i)
    OBVIOUS
  <2>1. i \in LandedIn(T, "passport") /\ U[i] = T[i]
    BY <1>6, <1>9
  <2>2. T[i].version \in 1..VersionIn(T) /\ StoodBehind(T, i)
    BY <2>1 DEF InOrder
  <2>3. ASSUME NEW e \in U[i].evidence
        PROVE  \E k \in LandedIn(U, "evidence") : U[k].evidence = {e} /\ U[k].block < U[i].block
    <3>1. PICK k \in LandedIn(T, "evidence") : T[k].evidence = {e} /\ T[k].block < T[i].block
      BY <2>1, <2>2 DEF StoodBehind
    <3>2. k \in LandedIn(U, "evidence") /\ U[k] = T[k]
      BY <1>6, <1>9
    <3>. QED
      BY <2>1, <3>1, <3>2
  <2>. QED
    BY <1>7, <2>1, <2>2, <2>3 DEF StoodBehind
<1>11. \A v \in 1..VersionIn(U) : \E i \in LandedIn(U, "passport") : U[i].version = v
  BY <1>6, <1>7, <1>9 DEF InOrder
<1>12. InOrder(U)
  BY <1>3, <1>8, <1>10, <1>11 DEF InOrder
<1>13. GrowsTo(T, U)
  BY <1>3 DEF GrowsTo
<1>. QED
  BY <1>1, <1>4, <1>12, <1>13

\* The chain read through the names of the modules.
LEMMA ChainIs ==
  /\ \A kind : LandedOf(kind) = LandedIn(txs, kind) /\ LandedOf(kind)' = LandedIn(txs', kind)
  /\ currentPassportVersion = VersionIn(txs) /\ currentPassportVersion' = VersionIn(txs')
  /\ \A e \in Evidence : Committed(e) <=> e \in KnownIn(txs)
  /\ \A e \in Evidence : Committed(e)' <=> e \in KnownIn(txs')
<1>1. ASSUME NEW kind
      PROVE  LandedOf(kind) = LandedIn(txs, kind) /\ LandedOf(kind)' = LandedIn(txs', kind)
  BY DEF LandedOf, LandedIn, Landed, Txs
<1>2. currentPassportVersion = VersionIn(txs) /\ currentPassportVersion' = VersionIn(txs')
  BY <1>1 DEF currentPassportVersion, VersionIn
<1>3. \A e \in Evidence : Committed(e) <=> e \in KnownIn(txs)
  <2>. SUFFICES ASSUME NEW e \in Evidence PROVE Committed(e) <=> e \in KnownIn(txs)
    OBVIOUS
  <2>1. LandedOf("evidence") = LandedIn(txs, "evidence")
    BY <1>1
  <2>. QED
    BY <2>1 DEF Committed, KnownIn
<1>4. \A e \in Evidence : Committed(e)' <=> e \in KnownIn(txs')
  <2>. SUFFICES ASSUME NEW e \in Evidence PROVE Committed(e)' <=> e \in KnownIn(txs')
    OBVIOUS
  <2>1. LandedOf("evidence")' = LandedIn(txs', "evidence")
    BY <1>1
  <2>. QED
    BY <2>1 DEF Committed, KnownIn
<1>. QED
  BY <1>1, <1>2, <1>3, <1>4

\* Nothing landed above the height.
LEMMA HeightIs ==
  ASSUME txs \in Seq(Transactions)
  PROVE  height \in Nat /\ \A i \in Txs : txs[i].block <= height
<1> DEFINE S == {0} \cup {txs[i].block : i \in Txs}
<1>1. Txs = 1..Len(txs) /\ Len(txs) \in Nat
  BY DEF Txs
<1>2. IsFiniteSet({txs[i].block : i \in Txs})
  <2>1. IsFiniteSet(Txs)
    BY <1>1, FS_Interval
  <2>2. PICK B : B = {txs[i].block : i \in Txs}
    OBVIOUS
  <2>3. [i \in Txs |-> txs[i].block] \in Surjection(Txs, B)
    BY <2>2 DEF Surjection
  <2>. QED
    BY <2>1, <2>2, <2>3, FS_Surjection
<1>3. IsFiniteSet(S)
  <2>1. S = {txs[i].block : i \in Txs} \cup {0}
    OBVIOUS
  <2>. QED
    BY <1>2, <2>1, FS_AddElement
<1>4. \A i \in Txs : txs[i].block \in Int
  BY EntryIs DEF Txs
<1>5. S \in SUBSET Int /\ 0 \in S
  BY <1>4
<1>6. Max(S) \in Nat /\ \A y \in S : y <= Max(S)
  BY <1>3, <1>5, GreatestFromZero
<1>. QED
  BY <1>6 DEF height

\* Mining lands a transaction above all that landed, or reverts it.
LEMMA MiningGrows ==
  ASSUME InOrder(txs), NEW i \in Txs, Mine(i)
  PROVE  InOrder(txs') /\ GrowsTo(txs, txs')
<1>1. PICK T : T = txs
  OBVIOUS
<1>2. PICK U : U = txs'
  OBVIOUS
<1>3. PICK h : h = height
  OBVIOUS
<1>4. T \in Seq(Transactions) /\ DOMAIN T = 1..Len(T) /\ i \in DOMAIN T /\ Len(T) \in Nat
  BY <1>1, LandedIsFinite DEF InOrder, Txs
<1>5. h \in Nat /\ \A k \in DOMAIN T : T[k].block <= h
  BY <1>1, <1>3, HeightIs DEF InOrder, Txs
<1>6. T[i].block = Pending /\ U = [T EXCEPT ![i].block = IF Succeeds(T[i]) THEN h + 1 ELSE Reverted]
  BY <1>1, <1>2, <1>3 DEF Mine
<1>7. /\ U \in Seq(Transactions) /\ DOMAIN U = DOMAIN T
      /\ \A k \in DOMAIN T : k # i => U[k] = T[k]
      /\ U[i] = [T[i] EXCEPT !.block = IF Succeeds(T[i]) THEN h + 1 ELSE Reverted]
  <2>1. (IF Succeeds(T[i]) THEN h + 1 ELSE Reverted) \in Int
    BY <1>5 DEF Reverted
  <2>2. T[i] \in Transactions
    BY <1>4, EntryIs
  <2>3. PICK tx : tx = [T[i] EXCEPT !.block = IF Succeeds(T[i]) THEN h + 1 ELSE Reverted]
    OBVIOUS
  <2>4. tx \in Transactions
    BY <2>1, <2>2, <2>3 DEF Transactions
  <2>5. U = [T EXCEPT ![i] = tx]
    BY <1>6, <2>3
  <2>. QED
    BY <1>4, <2>3, <2>4, <2>5
<1>8. /\ U[i].kind = T[i].kind /\ U[i].evidence = T[i].evidence /\ U[i].version = T[i].version
      /\ U[i].block = IF Succeeds(T[i]) THEN h + 1 ELSE Reverted
  <2>1. T[i] \in Transactions
    BY <1>4, EntryIs
  <2>. QED
    BY <1>7, <2>1 DEF Transactions
<1>9. GrowsTo(T, U)
  BY <1>6, <1>7, <1>8 DEF GrowsTo, Pending
<1>10. \A k \in DOMAIN U : OneDocument(U[k])
  <2>. SUFFICES ASSUME NEW k \in DOMAIN U PROVE OneDocument(U[k])
    OBVIOUS
  <2>1. k \in DOMAIN T /\ OneDocument(T[k])
    BY <1>1, <1>7 DEF InOrder
  <2>. QED
    BY <1>7, <1>8, <2>1 DEF OneDocument
<1>11. /\ \A kind : \A k \in LandedIn(T, kind) : k \in LandedIn(U, kind) /\ U[k] = T[k]
       /\ VersionIn(T) \in Nat
  BY <1>4, <1>7, <1>9, WhatLandedStays
<1>12. ASSUME NEW k, k # i, NEW kind
       PROVE  k \in LandedIn(U, kind) <=> k \in LandedIn(T, kind)
  BY <1>7, <1>12 DEF LandedIn
<1>13. \A kind : i \notin LandedIn(T, kind)
  BY <1>6 DEF LandedIn, Pending
<1>14. ASSUME NEW k \in LandedIn(T, "passport")
       PROVE  StoodBehind(U, k)
  <2>1. StoodBehind(T, k) /\ U[k] = T[k]
    BY <1>1, <1>11 DEF InOrder
  <2>2. ASSUME NEW e \in U[k].evidence
        PROVE  \E l \in LandedIn(U, "evidence") : U[l].evidence = {e} /\ U[l].block < U[k].block
    <3>1. PICK l \in LandedIn(T, "evidence") : T[l].evidence = {e} /\ T[l].block < T[k].block
      BY <2>1, <2>2 DEF StoodBehind
    <3>2. l \in LandedIn(U, "evidence") /\ U[l] = T[l]
      BY <1>11
    <3>. QED
      BY <2>1, <3>1, <3>2
  <2>. QED
    BY <2>2 DEF StoodBehind
<1>15. CASE i \in LandedIn(U, "passport")
  <2>1. T[i].kind = "passport" /\ U[i].block = h + 1 /\ Succeeds(T[i])
    BY <1>5, <1>8, <1>15 DEF LandedIn, Reverted
  <2>2. T[i].version = VersionIn(T) + 1 /\ \A e \in T[i].evidence : isUsableFor(e)
    BY <1>1, <2>1, ChainIs DEF Succeeds
  <2>3. LandedIn(U, "passport") = LandedIn(T, "passport") \cup {i}
    BY <1>12, <1>15, <1>11
  <2>4. VersionIn(U) = VersionIn(T) + 1
    BY <1>4, <1>13, <2>3, LandedIsFinite, FS_AddElement DEF VersionIn
  <2>5. ASSUME NEW e \in U[i].evidence
        PROVE  \E k \in LandedIn(U, "evidence") : U[k].evidence = {e} /\ U[k].block < U[i].block
    <3>1. Committed(e)
      BY <1>8, <2>2, <2>5 DEF isUsableFor
    <3>2. PICK k \in LandedIn(T, "evidence") : e \in T[k].evidence
      BY <1>1, <3>1, ChainIs DEF Committed
    <3>3. k \in DOMAIN T /\ T[k].kind = "evidence" /\ T[k].block <= h /\ T[k].block \in Int
      <4>1. k \in DOMAIN T /\ T[k].kind = "evidence"
        BY <3>2 DEF LandedIn
      <4>. QED
        BY <1>4, <1>5, <4>1, EntryIs
    <3>4. T[k].evidence = {e}
      BY <1>1, <3>2, <3>3 DEF InOrder, OneDocument
    <3>5. k \in LandedIn(U, "evidence") /\ U[k] = T[k]
      BY <1>11, <3>2
    <3>. QED
      BY <1>5, <2>1, <3>3, <3>4, <3>5
  <2>6. \A k \in LandedIn(U, "passport") : U[k].version \in 1..VersionIn(U) /\ StoodBehind(U, k)
    <3>1. ASSUME NEW k \in LandedIn(T, "passport")
          PROVE  U[k].version \in 1..VersionIn(U)
      <4>1. U[k] = T[k] /\ T[k].version \in 1..VersionIn(T)
        BY <1>1, <1>11 DEF InOrder
      <4>. QED
        BY <1>11, <2>4, <4>1
    <3>2. U[i].version \in 1..VersionIn(U) /\ StoodBehind(U, i)
      BY <1>8, <1>11, <2>2, <2>4, <2>5 DEF StoodBehind
    <3>. QED
      BY <1>14, <2>3, <3>1, <3>2
  <2>7. ASSUME NEW v \in 1..VersionIn(U)
        PROVE  \E k \in LandedIn(U, "passport") : U[k].version = v
    <3>1. CASE v = VersionIn(T) + 1
      BY <1>8, <1>15, <2>2, <3>1
    <3>2. CASE v \in 1..VersionIn(T)
      <4>1. PICK k \in LandedIn(T, "passport") : T[k].version = v
        BY <1>1, <3>2 DEF InOrder
      <4>. QED
        BY <1>11, <4>1
    <3>. QED
      BY <1>11, <2>4, <3>1, <3>2
  <2>. QED
    BY <1>1, <1>2, <1>7, <1>9, <1>10, <2>6, <2>7 DEF InOrder
<1>16. CASE i \notin LandedIn(U, "passport")
  <2>1. LandedIn(U, "passport") = LandedIn(T, "passport")
    BY <1>12, <1>13, <1>16
  <2>2. VersionIn(U) = VersionIn(T)
    BY <2>1 DEF VersionIn
  <2>3. \A k \in LandedIn(U, "passport") : U[k].version \in 1..VersionIn(U) /\ StoodBehind(U, k)
    BY <1>1, <1>11, <1>14, <2>1, <2>2 DEF InOrder
  <2>4. \A v \in 1..VersionIn(U) : \E k \in LandedIn(U, "passport") : U[k].version = v
    BY <1>1, <1>11, <2>1, <2>2 DEF InOrder
  <2>. QED
    BY <1>1, <1>2, <1>7, <1>9, <1>10, <2>3, <2>4 DEF InOrder
<1>. QED
  BY <1>15, <1>16

-----------------------------------------------------------------------------
(* Workflows: what a record, a worker's copy and what it waits for may say. *)

Stages == WorkflowStates \cup {"ABSENT"}
Copies == [state : Stages, attempts : Int, candidate : Nat, passportVersion : Nat]

\* A copy says no more than the chain T holds.
Backed(copy, wf, T) ==
  /\ copy \in Copies
  /\ copy.state \in AfterEvidence \/ copy.passportVersion # 0 => Cites[wf] \subseteq KnownIn(T)
  /\ copy.state \in AfterPassport => copy.passportVersion <= VersionIn(T)

\* The transactions a submission waits for are the ones its copy speaks of.
DocumentsSent(sent, wf, T) ==
  \A e \in Cites[wf] : \E i \in sent : T[i].kind = "evidence" /\ T[i].evidence = {e}
VersionSent(sent, v, T) ==
  \E i \in sent : T[i].kind = "passport" /\ T[i].version = v

SentFor(m, T) ==
  CASE m.copy.state \in {"EVIDENCE_COMMIT_PENDING", "EVIDENCE_COMMIT_SUBMITTED"} ->
         DocumentsSent(m.sent, m.wf, T)
    [] m.copy.state = "PASSPORT_COMMIT_PENDING" -> VersionSent(m.sent, m.copy.candidate, T)
    [] m.copy.state = "PASSPORT_COMMIT_SUBMITTED" -> VersionSent(m.sent, m.copy.passportVersion, T)
    [] OTHER -> FALSE

Verdicts ==
  {"EVIDENCE_COMMIT_CONFIRMED", "PASSPORT_COMMIT_CONFIRMED", "EVIDENCE_COMMIT_PENDING",
   "PASSPORT_COMMIT_PENDING", "RECONCILIATION_REQUIRED"}

\* A conclusion the chain was asked for, or that repeats what it backed.
Concluded(m, T) ==
  /\ m.to \in Verdicts
  /\ m.to \in AfterEvidence => Cites[m.wf] \subseteq KnownIn(T)
  /\ m.to \in AfterPassport => m.copy.passportVersion <= VersionIn(T)

Busy ==
  [at : {"holding", "sent", "waiting", "asking evidence", "asking version", "answered"},
   wf : Workflows, copy : Copies, stale : BOOLEAN, sent : SUBSET Nat, to : Stages]

Held(m, T) ==
  \/ m = Free
  \/ /\ m \in Busy /\ Backed(m.copy, m.wf, T) /\ m.sent \in SUBSET DOMAIN T
     /\ m.at = "sent" => m.copy.state \in {"EVIDENCE_COMMIT_PENDING", "PASSPORT_COMMIT_PENDING"}
     /\ m.at = "waiting" => m.copy.state \in Submitted
     /\ m.at \in {"sent", "waiting"} => SentFor(m, T)
     /\ m.at = "answered" => Concluded(m, T)

WorkersOK(T) ==
  /\ DOMAIN record = Workflows /\ \A wf \in Workflows : Backed(record[wf], wf, T)
  /\ DOMAIN worker = WorkflowWorkers /\ \A w \in WorkflowWorkers : Held(worker[w], T)

\* As the chain grows, everything it backed stays backed.
LEMMA BackedStays ==
  ASSUME NEW T \in Seq(Transactions), NEW U \in Seq(Transactions), GrowsTo(T, U),
         NEW copy, NEW wf, Backed(copy, wf, T)
  PROVE  Backed(copy, wf, U)
<1>1. /\ KnownIn(T) \subseteq KnownIn(U)
      /\ VersionIn(T) \in Nat /\ VersionIn(U) \in Nat /\ VersionIn(T) <= VersionIn(U)
  BY WhatLandedStays
<1>2. copy.passportVersion \in Nat
  BY DEF Backed, Copies
<1>. QED
  BY <1>1, <1>2 DEF Backed

\* So does what a worker holds.
LEMMA HeldStays ==
  ASSUME NEW T \in Seq(Transactions), NEW U \in Seq(Transactions), GrowsTo(T, U),
         NEW m, Held(m, T)
  PROVE  Held(m, U)
<1>1. CASE m = Free
  BY <1>1 DEF Held
<1>2. CASE m # Free
  <2>1. m \in Busy /\ Backed(m.copy, m.wf, T) /\ m.sent \in SUBSET DOMAIN T
    BY <1>2 DEF Held
  <2>2. Backed(m.copy, m.wf, U) /\ m.sent \in SUBSET DOMAIN U
    BY <2>1, BackedStays DEF GrowsTo
  <2>3. \A i \in m.sent : U[i].kind = T[i].kind /\ U[i].evidence = T[i].evidence /\ U[i].version = T[i].version
    BY <2>1 DEF GrowsTo
  <2>4. SentFor(m, T) => SentFor(m, U)
    <3>1. DocumentsSent(m.sent, m.wf, T) => DocumentsSent(m.sent, m.wf, U)
      BY <2>3 DEF DocumentsSent
    <3>2. \A v : VersionSent(m.sent, v, T) => VersionSent(m.sent, v, U)
      BY <2>3 DEF VersionSent
    <3>. QED
      BY <3>1, <3>2 DEF SentFor
  <2>5. Concluded(m, T) => Concluded(m, U)
    <3>1. /\ KnownIn(T) \subseteq KnownIn(U)
          /\ VersionIn(T) \in Nat /\ VersionIn(U) \in Nat /\ VersionIn(T) <= VersionIn(U)
      BY WhatLandedStays
    <3>2. m.copy.passportVersion \in Nat
      BY <2>1 DEF Backed, Copies
    <3>. QED
      BY <3>1, <3>2 DEF Concluded
  <2>. QED
    BY <1>2, <2>1, <2>2, <2>4, <2>5 DEF Held
<1>. QED
  BY <1>1, <1>2

\* Of the edges a worker drives along, those into the states behind the evidence or the Passport
\* start there.
LEMMA DrivenEdges ==
  ASSUME NEW from \in Driven, NEW to \in Transitions(from)
  PROVE  /\ to \in WorkflowStates \ Submitted
         /\ to \in AfterEvidence => from \in AfterEvidence
         /\ to \in AfterPassport => from \in AfterPassport
<1>1. from \in Preparation \cup Setbacks \cup {"EVIDENCE_COMMIT_CONFIRMED", "PASSPORT_COMMIT_CONFIRMED",
                "RISK_REEVALUATING", "RISK_EPOCH_ACTIVATED", "ACCOUNT_REEVALUATING"}
  BY DEF Driven, WorkflowStates, TerminalStates, Resumable, Submitted, EvidenceCommit, PassportCommit,
         Aftermath
<1>2. CASE from \in Preparation
  <2>1. to \in (Preparation \ {"CREATED"}) \cup Setbacks \cup {"CLAIM_CONFLICT", "POLICY_REJECTED", "EVIDENCE_COMMIT_PENDING"}
    BY <1>2 DEF Preparation, Setbacks, Transitions
  <2>. QED
    BY <2>1 DEF Preparation, Setbacks, WorkflowStates, TerminalStates, Submitted, EvidenceCommit, PassportCommit,
         Aftermath, AfterEvidence, AfterPassport
<1>3. CASE from \in Setbacks
  <2>1. to \in Preparation \cup {"RECONCILIATION_REQUIRED"}
    BY <1>3 DEF Preparation, Setbacks, Transitions, TerminalStates
  <2>. QED
    BY <2>1 DEF Preparation, Setbacks, WorkflowStates, TerminalStates, Submitted, EvidenceCommit, PassportCommit,
         Aftermath, AfterEvidence, AfterPassport
<1>4. CASE from \in {"EVIDENCE_COMMIT_CONFIRMED", "PASSPORT_COMMIT_CONFIRMED",
                "RISK_REEVALUATING", "RISK_EPOCH_ACTIVATED", "ACCOUNT_REEVALUATING"}
  BY <1>4 DEF Transitions, Preparation, Setbacks, WorkflowStates, TerminalStates, Submitted, EvidenceCommit, PassportCommit,
         Aftermath, AfterEvidence, AfterPassport
<1>. QED
  BY <1>1, <1>2, <1>3, <1>4

\* What a worker holds after it opened a workflow or wrote to it.
LEMMA HoldingIsHeld ==
  ASSUME NEW T, NEW wf \in Workflows, NEW copy, Backed(copy, wf, T),
         NEW at \in {"holding", "asking evidence"}
  PROVE  Held(Holds(copy, wf, at), T)
<1>1. PICK m : m = Holds(copy, wf, at)
  OBVIOUS
<1>2. /\ m = [at |-> at, wf |-> wf, copy |-> copy, stale |-> FALSE, sent |-> {}, to |-> copy.state]
      /\ copy \in Copies
  BY <1>1 DEF Holds, Backed
<1>3. m \in Busy /\ m.at = at /\ m.copy = copy /\ m.wf = wf /\ m.sent = {}
  BY <1>2 DEF Busy, Copies
<1>. QED
  BY <1>1, <1>3 DEF Held

\* An edge keeps a copy backed if the chain backs the state it leads to.
LEMMA AdvanceIsBacked ==
  ASSUME NEW T, NEW wf, NEW copy, Backed(copy, wf, T), NEW to \in WorkflowStates \ Submitted,
         to \in AfterEvidence => Cites[wf] \subseteq KnownIn(T),
         to \in AfterPassport => copy.passportVersion <= VersionIn(T)
  PROVE  Backed(advance(copy, to), wf, T) /\ advance(copy, to) = [copy EXCEPT !.state = to]
<1>1. copy \in Copies
  BY DEF Backed
<1>2. advance(copy, to) = [copy EXCEPT !.state = to]
  BY <1>1 DEF advance, Submitted, Copies
<1>3. [copy EXCEPT !.state = to] \in Copies
  BY <1>1 DEF Copies, Stages
<1>4. [copy EXCEPT !.state = to].state = to /\ [copy EXCEPT !.state = to].passportVersion = copy.passportVersion
  BY <1>1 DEF Copies
<1>. QED
  BY <1>2, <1>3, <1>4 DEF Backed

\* Losing the race to write makes a copy stale and changes nothing else.
LEMMA StaleIsHeld ==
  ASSUME NEW T, NEW m, m # Free, Held(m, T)
  PROVE  Held([m EXCEPT !.stale = TRUE], T)
<1>1. m \in Busy
  BY DEF Held
<1>2. PICK n : n = [m EXCEPT !.stale = TRUE]
  OBVIOUS
<1>3. /\ n \in Busy /\ n.at = m.at /\ n.wf = m.wf /\ n.copy = m.copy /\ n.sent = m.sent /\ n.to = m.to
  BY <1>1, <1>2 DEF Busy
<1>4. (SentFor(m, T) => SentFor(n, T)) /\ (Concluded(m, T) => Concluded(n, T))
  BY <1>3 DEF SentFor, Concluded
<1>. QED
  BY <1>2, <1>3, <1>4 DEF Held

\* A save writes a backed copy, or nothing at all.
LEMMA SaveKeeps ==
  ASSUME NEW T, WorkersOK(T), NEW w \in WorkflowWorkers, worker[w] # Free,
         NEW next, NEW then, save(w, next, then),
         Backed(next, worker[w].wf, T), Held(then, T)
  PROVE  WorkersOK(T)'
<1>1. /\ DOMAIN record = Workflows /\ \A wf \in Workflows : Backed(record[wf], wf, T)
      /\ DOMAIN worker = WorkflowWorkers /\ \A v \in WorkflowWorkers : Held(worker[v], T)
  BY DEF WorkersOK
<1>2. worker[w].wf \in Workflows
  BY <1>1 DEF Held, Busy
<1>3. CASE worker[w].stale
  <2>1. worker' = [worker EXCEPT ![w] = Free] /\ record' = record
    BY <1>3 DEF save
  <2>2. Held(Free, T)
    BY DEF Held
  <2>. QED
    BY <1>1, <2>1, <2>2 DEF WorkersOK
<1>4. CASE ~worker[w].stale
  <2>1. record' = [record EXCEPT ![worker[w].wf] = next]
    BY <1>4 DEF save
  <2>2. PICK same \in SameSecond :
          worker' = [v \in WorkflowWorkers |->
                  IF v = w THEN then
                  ELSE IF worker[v] # Free /\ worker[v].wf = worker[w].wf /\ ~same
                       THEN [worker[v] EXCEPT !.stale = TRUE]
                       ELSE worker[v]]
    BY <1>4 DEF save
  <2>3. \A v \in WorkflowWorkers : Held(worker'[v], T)
    <3>1. ASSUME NEW v \in WorkflowWorkers
          PROVE  Held(worker'[v], T)
      <4>1. \/ worker'[v] = then \/ worker'[v] = worker[v]
            \/ worker[v] # Free /\ worker'[v] = [worker[v] EXCEPT !.stale = TRUE]
        BY <2>2
      <4>. QED
        BY <1>1, <4>1, StaleIsHeld
    <3>. QED
      BY <3>1
  <2>4. \A wf \in Workflows : Backed(record'[wf], wf, T)
    BY <1>1, <1>2, <2>1
  <2>5. DOMAIN record' = Workflows /\ DOMAIN worker' = WorkflowWorkers
    BY <1>1, <2>1, <2>2
  <2>. QED
    BY <2>3, <2>4, <2>5 DEF WorkersOK
<1>. QED
  BY <1>3, <1>4

\* So does an edge that is taken through the store.
LEMMA StepKeeps ==
  ASSUME NEW T, WorkersOK(T), NEW w \in WorkflowWorkers, worker[w] # Free,
         NEW to \in WorkflowStates \ Submitted, NEW at \in {"holding", "asking evidence"}, step(w, to, at),
         to \in AfterEvidence => Cites[worker[w].wf] \subseteq KnownIn(T),
         to \in AfterPassport => worker[w].copy.passportVersion <= VersionIn(T)
  PROVE  WorkersOK(T)'
<1>1. PICK next : next = advance(worker[w].copy, to)
  OBVIOUS
<1>2. worker[w].wf \in Workflows /\ Backed(worker[w].copy, worker[w].wf, T)
  BY DEF WorkersOK, Held, Busy
<1>3. Backed(next, worker[w].wf, T)
  BY <1>1, <1>2, AdvanceIsBacked
<1>4. PICK then : then = IF isTerminal(to) THEN Free ELSE Holds(next, worker[w].wf, at)
  OBVIOUS
<1>5. Held(then, T)
  BY <1>2, <1>3, <1>4, HoldingIsHeld DEF Held
<1>6. save(w, next, then)
  BY <1>1, <1>4 DEF step
<1>. QED
  BY <1>3, <1>5, <1>6, SaveKeeps

\* A worker that goes on with what it holds.
LEMMA WorkerGoesOn ==
  ASSUME NEW T, WorkersOK(T), NEW w \in WorkflowWorkers, NEW m, Held(m, T),
         worker' = [worker EXCEPT ![w] = m], record' = record
  PROVE  WorkersOK(T)'
BY DEF WorkersOK

\* The calls of a submission are transactions that have not landed, and they cover what the copy
\* speaks of.
LEMMA CallsAre ==
  ASSUME NEW wf \in Workflows, NEW copy \in Copies, NEW calls, calls = callsOf(copy, wf),
         copy.state \in {"EVIDENCE_COMMIT_PENDING", "PASSPORT_COMMIT_PENDING"}
  PROVE  /\ calls \in Seq(Transactions)
         /\ \A n \in 1..Len(calls) : calls[n].block = Pending /\ OneDocument(calls[n])
         /\ copy.state = "EVIDENCE_COMMIT_PENDING" =>
              \A e \in Cites[wf] : \E n \in 1..Len(calls) : calls[n] = EvidenceTx(e)
         /\ copy.state = "PASSPORT_COMMIT_PENDING" =>
              1 \in 1..Len(calls) /\ calls[1] = PassportTx(Cites[wf], copy.candidate)
<1>1. Cites[wf] \in SUBSET Evidence /\ IsFiniteSet(Cites[wf])
  <2>1. Cites[wf] \in SUBSET Evidence
    BY WorkflowConstants
  <2>. QED
    BY <2>1, ChainConstants, FS_Subset
<1>2. CASE copy.state = "EVIDENCE_COMMIT_PENDING"
  <2>1. PICK S : S = {EvidenceTx(e) : e \in Cites[wf]}
    OBVIOUS
  <2>2. [e \in Cites[wf] |-> EvidenceTx(e)] \in Surjection(Cites[wf], S)
    BY <2>1 DEF Surjection
  <2>3. IsFiniteSet(S)
    BY <1>1, <2>2, FS_Surjection
  <2>4. calls = SetToSeq(S)
    BY <1>2, <2>1 DEF callsOf
  <2>5. calls \in Seq(S) /\ \A x \in S : \E n \in 1..Len(calls) : calls[n] = x
    BY <2>3, <2>4, LaidOut
  <2>6. \A x \in S : x \in Transactions /\ x.block = Pending /\ OneDocument(x)
    BY <1>1, <2>1 DEF EvidenceTx, Transactions, Pending, OneDocument
  <2>7. \A n \in 1..Len(calls) : calls[n] \in S
    BY <2>5
  <2>8. calls \in Seq(Transactions)
    BY <2>5, <2>6
  <2>. QED
    BY <1>2, <2>1, <2>5, <2>6, <2>7, <2>8
<1>3. CASE copy.state = "PASSPORT_COMMIT_PENDING"
  <2>1. PICK tx : tx = PassportTx(Cites[wf], copy.candidate)
    OBVIOUS
  <2>2. calls = <<tx>>
    BY <1>3, <2>1 DEF callsOf
  <2>3. tx \in Transactions /\ tx.block = Pending /\ OneDocument(tx)
    BY <1>1, <2>1 DEF PassportTx, Transactions, Pending, OneDocument, Copies
  <2>4. calls \in Seq(Transactions) /\ Len(calls) = 1 /\ calls[1] = tx
    BY <2>2, <2>3
  <2>. QED
    BY <1>3, <2>1, <2>3, <2>4
<1>. QED
  BY <1>2, <1>3

\* Sending a submission keeps the chain in order, and the worker knows what it sent.
LEMMA SubmitKeeps ==
  ASSUME InOrder(txs), WorkersOK(txs), NEW w \in WorkflowWorkers, Submit(w)
  PROVE  InOrder(txs') /\ GrowsTo(txs, txs') /\ WorkersOK(txs)'
<1>1. PICK m : m = worker[w]
  OBVIOUS
<1>2. PICK T : T = txs
  OBVIOUS
<1>3. PICK calls : calls = callsOf(m.copy, m.wf)
  OBVIOUS
<1>4. PICK U : U = T \o calls
  OBVIOUS
<1>5. PICK sent : sent = (Len(T) + 1)..(Len(T) + Len(calls))
  OBVIOUS
<1>6. /\ m.at = "holding" /\ m.copy.state \in {"EVIDENCE_COMMIT_PENDING", "PASSPORT_COMMIT_PENDING"}
      /\ txs' = U /\ record' = record
      /\ worker' = [worker EXCEPT ![w] = [m EXCEPT !.at = "sent", !.sent = sent]]
  BY <1>1, <1>2, <1>3, <1>4, <1>5 DEF Submit, send
<1>7. m \in Busy /\ Backed(m.copy, m.wf, T)
  BY <1>1, <1>2, <1>6 DEF WorkersOK, Held, Free
<1>8. m.wf \in Workflows /\ m.copy \in Copies /\ m.copy.candidate \in Nat
  BY <1>7 DEF Busy, Copies
<1>9. /\ calls \in Seq(Transactions)
      /\ \A n \in 1..Len(calls) : calls[n].block = Pending /\ OneDocument(calls[n])
      /\ m.copy.state = "EVIDENCE_COMMIT_PENDING" =>
           \A e \in Cites[m.wf] : \E n \in 1..Len(calls) : calls[n] = EvidenceTx(e)
      /\ m.copy.state = "PASSPORT_COMMIT_PENDING" =>
           1 \in 1..Len(calls) /\ calls[1] = PassportTx(Cites[m.wf], m.copy.candidate)
  BY <1>3, <1>6, <1>8, CallsAre
<1>10. /\ InOrder(U) /\ GrowsTo(T, U)
       /\ \A n \in 1..Len(calls) : Len(T) + n \in DOMAIN U /\ U[Len(T) + n] = calls[n]
  BY <1>2, <1>4, <1>9, SendingGrows
<1>11. T \in Seq(Transactions) /\ U \in Seq(Transactions) /\ Len(T) \in Nat /\ Len(calls) \in Nat
  BY <1>2, <1>9, <1>10 DEF InOrder
<1>12. \A n \in 1..Len(calls) : Len(T) + n \in sent
  BY <1>5, <1>11
<1>13. sent \in SUBSET DOMAIN U /\ sent \in SUBSET Nat
  <2>1. DOMAIN U = 1..Len(U) /\ Len(U) = Len(T) + Len(calls)
    BY <1>4, <1>9, <1>11
  <2>. QED
    BY <1>5, <1>11, <2>1
<1>14. PICK n : n = [m EXCEPT !.at = "sent", !.sent = sent]
  OBVIOUS
<1>15. n \in Busy /\ n.at = "sent" /\ n.sent = sent /\ n.copy = m.copy /\ n.wf = m.wf
  BY <1>7, <1>13, <1>14 DEF Busy
<1>16. SentFor(n, U)
  <2>1. CASE m.copy.state = "EVIDENCE_COMMIT_PENDING"
    <3>1. ASSUME NEW e \in Cites[m.wf]
          PROVE  \E i \in sent : U[i].kind = "evidence" /\ U[i].evidence = {e}
      <4>1. PICK k \in 1..Len(calls) : calls[k] = EvidenceTx(e)
        BY <1>9, <2>1, <3>1
      <4>2. Len(T) + k \in sent /\ U[Len(T) + k] = EvidenceTx(e)
        BY <1>10, <1>12, <4>1
      <4>3. EvidenceTx(e).kind = "evidence" /\ EvidenceTx(e).evidence = {e}
        BY DEF EvidenceTx
      <4>. QED
        BY <4>2, <4>3
    <3>. QED
      BY <1>15, <2>1, <3>1 DEF SentFor, DocumentsSent
  <2>2. CASE m.copy.state = "PASSPORT_COMMIT_PENDING"
    <3>1. Len(T) + 1 \in sent /\ U[Len(T) + 1] = PassportTx(Cites[m.wf], m.copy.candidate)
      BY <1>9, <1>10, <1>12, <2>2
    <3>2. VersionSent(sent, m.copy.candidate, U)
      BY <3>1 DEF VersionSent, PassportTx
    <3>. QED
      BY <1>15, <2>2, <3>2 DEF SentFor
  <2>. QED
    BY <1>6, <2>1, <2>2
<1>17. Held(n, U)
  <2>1. Backed(n.copy, n.wf, U)
    BY <1>7, <1>10, <1>11, <1>15, BackedStays
  <2>. QED
    BY <1>6, <1>13, <1>15, <1>16, <2>1 DEF Held
<1>18. WorkersOK(U)'
  <2>1. /\ DOMAIN record = Workflows /\ \A wf \in Workflows : Backed(record[wf], wf, T)
        /\ DOMAIN worker = WorkflowWorkers /\ \A v \in WorkflowWorkers : Held(worker[v], T)
    BY <1>2 DEF WorkersOK
  <2>2. \A wf \in Workflows : Backed(record[wf], wf, U)
    BY <1>10, <1>11, <2>1, BackedStays
  <2>3. \A v \in WorkflowWorkers : Held(worker[v], U)
    BY <1>10, <1>11, <2>1, HeldStays
  <2>4. worker' = [worker EXCEPT ![w] = n]
    BY <1>6, <1>14
  <2>. QED
    BY <1>6, <1>17, <2>1, <2>2, <2>3, <2>4 DEF WorkersOK
<1>. QED
  BY <1>2, <1>6, <1>10, <1>18 DEF WorkersOK

\* Opening hands out what is stored, or starts a record.
LEMMA OpenKeeps ==
  ASSUME NEW T, WorkersOK(T), NEW w \in WorkflowWorkers, NEW wf \in Workflows, openWorkflow(w, wf)
  PROVE  WorkersOK(T)'
<1>1. PICK existing : existing = IF record[wf] = NoRecord THEN Fresh ELSE record[wf]
  OBVIOUS
<1>2. Backed(existing, wf, T)
  <2>1. Backed(Fresh, wf, T)
    <3>1. Fresh = [state |-> "CREATED", attempts |-> 0, candidate |-> 0, passportVersion |-> 0]
      BY DEF Fresh, NoRecord
    <3>2. Fresh \in Copies
      BY <3>1 DEF Copies, Stages, WorkflowStates, Preparation
    <3>. QED
      BY <3>1, <3>2 DEF Backed, AfterEvidence, AfterPassport, Aftermath
  <2>. QED
    BY <1>1, <2>1 DEF WorkersOK
<1>3. /\ record' = [record EXCEPT ![wf] = existing]
      /\ worker' = [worker EXCEPT ![w] = Holds(existing, wf, "holding")]
  BY <1>1 DEF openWorkflow
<1>4. Held(Holds(existing, wf, "holding"), T)
  BY <1>2, HoldingIsHeld
<1>. QED
  BY <1>2, <1>3, <1>4 DEF WorkersOK

\* Driving leaves the states behind evidence and Passport only from within.
LEMMA DriveKeeps ==
  ASSUME InOrder(txs), WorkersOK(txs), NEW w \in WorkflowWorkers, Drive(w)
  PROVE  WorkersOK(txs)'
<1>1. PICK m : m = worker[w]
  OBVIOUS
<1>2. PICK T : T = txs
  OBVIOUS
<1>3. PICK v : v = currentPassportVersion
  OBVIOUS
<1>4. PICK to \in Transitions(m.copy.state) :
        LET next == [advance(m.copy, to) EXCEPT
                       !.candidate = IF to = "PASSPORT_CANDIDATE_READY" THEN v + 1 ELSE @]
        IN  save(w, next, IF isTerminal(to) THEN Free ELSE Holds(next, m.wf, "holding"))
  BY <1>1, <1>3 DEF Drive
<1>5. m.at = "holding" /\ m.copy.state \in Driven /\ UNCHANGED chain
  BY <1>1 DEF Drive
<1>6. m # Free /\ m \in Busy /\ Backed(m.copy, m.wf, T) /\ m.wf \in Workflows /\ m.copy \in Copies
  <2>1. m # Free /\ Held(m, T)
    BY <1>1, <1>2, <1>5 DEF WorkersOK, Free
  <2>2. m \in Busy /\ Backed(m.copy, m.wf, T)
    BY <2>1 DEF Held
  <2>. QED
    BY <2>1, <2>2 DEF Busy
<1>7. v \in Nat
  <2>1. txs \in Seq(Transactions) /\ v = Cardinality(LandedIn(txs, "passport"))
    BY <1>3, ChainIs DEF InOrder, VersionIn
  <2>. QED
    BY <2>1, LandedIsFinite
<1>8. /\ to \in WorkflowStates \ Submitted
      /\ to \in AfterEvidence => m.copy.state \in AfterEvidence
      /\ to \in AfterPassport => m.copy.state \in AfterPassport
  BY <1>5, DrivenEdges
<1>9. Backed(advance(m.copy, to), m.wf, T)
  BY <1>6, <1>8, AdvanceIsBacked DEF Backed
<1>10. PICK a : a = advance(m.copy, to)
  OBVIOUS
<1>11. PICK next : next = [a EXCEPT !.candidate = IF to = "PASSPORT_CANDIDATE_READY" THEN v + 1 ELSE @]
  OBVIOUS
<1>12. Backed(next, m.wf, T)
  <2>1. a \in Copies /\ Backed(a, m.wf, T)
    BY <1>9, <1>10 DEF Backed
  <2>2. /\ next \in Copies /\ next.state = a.state /\ next.passportVersion = a.passportVersion
    BY <1>7, <1>11, <2>1 DEF Copies
  <2>. QED
    BY <2>1, <2>2 DEF Backed
<1>13. PICK then : then = IF isTerminal(to) THEN Free ELSE Holds(next, m.wf, "holding")
  OBVIOUS
<1>14. Held(then, T)
  BY <1>6, <1>12, <1>13, HoldingIsHeld DEF Held
<1>15. save(w, next, then)
  BY <1>4, <1>10, <1>11, <1>13
<1>16. WorkersOK(T)'
  BY <1>1, <1>2, <1>6, <1>12, <1>14, <1>15, SaveKeeps
<1>. QED
  BY <1>2, <1>5, <1>16 DEF WorkersOK, chain

\* A transaction that could not be sent.
LEMMA FailKeeps ==
  ASSUME WorkersOK(txs), NEW w \in WorkflowWorkers, FailToSend(w)
  PROVE  WorkersOK(txs)'
<1>1. PICK T : T = txs
  OBVIOUS
<1>2. worker[w] # Free /\ step(w, "COMMIT_FAILED", "holding") /\ UNCHANGED chain
  BY DEF FailToSend, Free
<1>3. /\ "COMMIT_FAILED" \in WorkflowStates \ Submitted
      /\ "COMMIT_FAILED" \notin AfterEvidence /\ "COMMIT_FAILED" \notin AfterPassport
  BY DEF WorkflowStates, Submitted, AfterEvidence, AfterPassport, Aftermath
<1>4. WorkersOK(T)'
  BY <1>1, <1>2, <1>3, StepKeeps
<1>. QED
  BY <1>1, <1>2, <1>4 DEF WorkersOK, chain

\* The submission is written down with what was sent.
LEMMA RecordKeeps ==
  ASSUME WorkersOK(txs), NEW w \in WorkflowWorkers, RecordSubmission(w)
  PROVE  WorkersOK(txs)'
<1>1. PICK m : m = worker[w]
  OBVIOUS
<1>2. PICK T : T = txs
  OBVIOUS
<1>3. PICK to : to = IF m.copy.state = "EVIDENCE_COMMIT_PENDING"
                     THEN "EVIDENCE_COMMIT_SUBMITTED" ELSE "PASSPORT_COMMIT_SUBMITTED"
  OBVIOUS
<1>4. PICK next : next = advance(m.copy, to)
  OBVIOUS
<1>5. PICK then : then = [Holds(next, m.wf, "waiting") EXCEPT !.sent = m.sent]
  OBVIOUS
<1>6. m.at = "sent" /\ save(w, next, then) /\ UNCHANGED chain
  BY <1>1, <1>3, <1>4, <1>5 DEF RecordSubmission
<1>7. /\ m # Free /\ m \in Busy /\ Backed(m.copy, m.wf, T) /\ m.sent \in SUBSET DOMAIN T
      /\ m.copy.state \in {"EVIDENCE_COMMIT_PENDING", "PASSPORT_COMMIT_PENDING"} /\ SentFor(m, T)
  BY <1>1, <1>2, <1>6 DEF WorkersOK, Held, Free
<1>8. m.wf \in Workflows /\ m.copy \in Copies /\ m.sent \in SUBSET Nat
  BY <1>7 DEF Busy
<1>9. /\ next \in Copies /\ next.state = to
      /\ next.passportVersion = IF to = "PASSPORT_COMMIT_SUBMITTED" THEN m.copy.candidate ELSE m.copy.passportVersion
  <2>1. to \in Stages /\ to \in Submitted
    BY <1>3 DEF Stages, WorkflowStates, EvidenceCommit, PassportCommit, Submitted
  <2>. QED
    <3>1. next = [m.copy EXCEPT
                    !.state = to, !.attempts = @ + 1,
                    !.passportVersion = IF to = "PASSPORT_COMMIT_SUBMITTED" THEN m.copy.candidate ELSE @]
      BY <1>4, <2>1 DEF advance
    <3>2. PICK c : c = m.copy
      OBVIOUS
    <3>3. PICK n, v : n = c.attempts + 1 /\ v = IF to = "PASSPORT_COMMIT_SUBMITTED" THEN c.candidate ELSE c.passportVersion
      OBVIOUS
    <3>4. c \in Copies /\ c.attempts \in Int /\ c.candidate \in Nat /\ c.passportVersion \in Nat
      BY <1>8, <3>2 DEF Copies
    <3>5. n \in Int /\ v \in Nat
      BY <3>3, <3>4
    <3>6. next = [c EXCEPT !.state = to, !.attempts = n, !.passportVersion = v]
      BY <3>1, <3>2, <3>3, <3>4 DEF Copies
    <3>. QED
      BY <2>1, <3>2, <3>3, <3>4, <3>5, <3>6 DEF Copies
<1>10. Backed(next, m.wf, T)
  <2>1. CASE m.copy.state = "EVIDENCE_COMMIT_PENDING"
    BY <1>3, <1>7, <1>9, <2>1 DEF Backed, AfterEvidence, AfterPassport, Aftermath
  <2>2. CASE m.copy.state = "PASSPORT_COMMIT_PENDING"
    BY <1>3, <1>7, <1>9, <2>2 DEF Backed, AfterEvidence, AfterPassport, Aftermath
  <2>. QED
    BY <1>7, <2>1, <2>2
<1>11. /\ then \in Busy /\ then.at = "waiting" /\ then.copy = next /\ then.wf = m.wf /\ then.sent = m.sent
  <2>1. then = [at |-> "waiting", wf |-> m.wf, copy |-> next, stale |-> FALSE, sent |-> m.sent, to |-> next.state]
    BY <1>5 DEF Holds
  <2>2. next.state \in Stages
    BY <1>9 DEF Copies
  <2>. QED
    BY <1>8, <1>9, <2>1, <2>2 DEF Busy
<1>12. SentFor(then, T)
  BY <1>3, <1>7, <1>9, <1>11 DEF SentFor
<1>13. Held(then, T)
  <2>1. to \in Submitted
    BY <1>3 DEF Submitted
  <2>. QED
    BY <1>7, <1>9, <1>10, <1>11, <1>12, <2>1 DEF Held
<1>14. WorkersOK(T)'
  BY <1>1, <1>2, <1>6, <1>7, <1>10, <1>13, SaveKeeps
<1>. QED
  BY <1>2, <1>6, <1>14 DEF WorkersOK, chain

\* A worker that is at something holds a workflow.
LEMMA HolderIs ==
  ASSUME NEW T, WorkersOK(T), NEW w \in WorkflowWorkers, worker[w].at # "free"
  PROVE  worker[w] # Free /\ Held(worker[w], T)
BY DEF WorkersOK, Free

\* Documents whose transactions landed are known; a version that landed is no later than the current.
LEMMA SentHasLanded ==
  ASSUME NEW T, InOrder(T), NEW sent \in SUBSET DOMAIN T, \A i \in sent : T[i].block > 0
  PROVE  /\ \A wf \in Workflows : DocumentsSent(sent, wf, T) => Cites[wf] \subseteq KnownIn(T)
         /\ \A v \in Nat : VersionSent(sent, v, T) => v <= VersionIn(T)
<1>1. ASSUME NEW wf \in Workflows, DocumentsSent(sent, wf, T), NEW e \in Cites[wf]
      PROVE  e \in KnownIn(T)
  <2>1. PICK i \in sent : T[i].kind = "evidence" /\ T[i].evidence = {e}
    BY <1>1 DEF DocumentsSent
  <2>2. i \in LandedIn(T, "evidence") /\ e \in T[i].evidence
    BY <2>1 DEF LandedIn
  <2>3. e \in Evidence
    BY WorkflowConstants
  <2>. QED
    BY <2>2, <2>3 DEF KnownIn
<1>2. ASSUME NEW v \in Nat, VersionSent(sent, v, T)
      PROVE  v <= VersionIn(T)
  <2>1. PICK i \in sent : T[i].kind = "passport" /\ T[i].version = v
    BY <1>2 DEF VersionSent
  <2>2. i \in LandedIn(T, "passport")
    BY <2>1 DEF LandedIn
  <2>3. v \in 1..VersionIn(T)
    BY <2>1, <2>2 DEF InOrder
  <2>. QED
    BY <2>3
<1>. QED
  BY <1>1, <1>2

\* A receipt confirms what landed; anything else is a failure or unknown.
LEMMA AwaitKeeps ==
  ASSUME InOrder(txs), WorkersOK(txs), NEW w \in WorkflowWorkers, Await(w)
  PROVE  WorkersOK(txs)'
<1>1. PICK m : m = worker[w]
  OBVIOUS
<1>2. PICK T : T = txs
  OBVIOUS
<1>3. m.at = "waiting" /\ UNCHANGED chain
  BY <1>1 DEF Await
<1>4. m # Free /\ Held(m, T)
  BY <1>1, <1>2, <1>3, HolderIs
<1>5. /\ m \in Busy /\ Backed(m.copy, m.wf, T) /\ m.sent \in SUBSET DOMAIN T
      /\ m.copy.state \in Submitted /\ SentFor(m, T)
  BY <1>3, <1>4 DEF Held
<1>6. m.wf \in Workflows /\ m.copy \in Copies /\ m.copy.passportVersion \in Nat
  BY <1>5 DEF Busy, Copies
<1>7. /\ \A to \in {"COMMIT_FAILED", "CONFIRMATION_UNKNOWN", "EVIDENCE_COMMIT_CONFIRMED", "PASSPORT_COMMIT_CONFIRMED"} :
           to \in WorkflowStates \ Submitted
      /\ "COMMIT_FAILED" \notin AfterEvidence /\ "COMMIT_FAILED" \notin AfterPassport
      /\ "CONFIRMATION_UNKNOWN" \notin AfterEvidence /\ "CONFIRMATION_UNKNOWN" \notin AfterPassport
      /\ "EVIDENCE_COMMIT_CONFIRMED" \notin AfterPassport
      /\ "PASSPORT_COMMIT_CONFIRMED" \notin AfterEvidence
  BY DEF WorkflowStates, EvidenceCommit, PassportCommit, Submitted, AfterEvidence, AfterPassport, Aftermath
<1>8. CASE /\ \A i \in m.sent : Landed(i)
           /\ step(w, IF m.copy.state = "EVIDENCE_COMMIT_SUBMITTED"
                      THEN "EVIDENCE_COMMIT_CONFIRMED" ELSE "PASSPORT_COMMIT_CONFIRMED", "holding")
  <2>1. \A i \in m.sent : T[i].block > 0
    BY <1>2, <1>8 DEF Landed
  <2>2. /\ DocumentsSent(m.sent, m.wf, T) => Cites[m.wf] \subseteq KnownIn(T)
        /\ VersionSent(m.sent, m.copy.passportVersion, T) => m.copy.passportVersion <= VersionIn(T)
    BY <1>2, <1>5, <1>6, <2>1, SentHasLanded
  <2>3. CASE m.copy.state = "EVIDENCE_COMMIT_SUBMITTED"
    <3>1. Cites[m.wf] \subseteq KnownIn(T)
      BY <1>5, <2>2, <2>3 DEF SentFor
    <3>2. step(w, "EVIDENCE_COMMIT_CONFIRMED", "holding")
      BY <1>8, <2>3
    <3>3. WorkersOK(T)'
      BY <1>1, <1>2, <1>4, <1>7, <3>1, <3>2, StepKeeps
    <3>. QED
      BY <1>2, <1>3, <3>3 DEF WorkersOK, chain
  <2>4. CASE m.copy.state = "PASSPORT_COMMIT_SUBMITTED"
    <3>1. m.copy.passportVersion <= VersionIn(T)
      BY <1>5, <2>2, <2>4 DEF SentFor
    <3>2. step(w, "PASSPORT_COMMIT_CONFIRMED", "holding")
      BY <1>8, <2>4
    <3>3. WorkersOK(T)'
      BY <1>1, <1>2, <1>4, <1>7, <3>1, <3>2, StepKeeps
    <3>. QED
      BY <1>2, <1>3, <3>3 DEF WorkersOK, chain
  <2>. QED
    BY <1>5, <2>3, <2>4 DEF Submitted
<1>9. CASE step(w, "COMMIT_FAILED", "holding")
  <2>1. WorkersOK(T)'
    BY <1>1, <1>2, <1>4, <1>7, <1>9, StepKeeps
  <2>. QED
    BY <1>2, <1>3, <2>1 DEF WorkersOK, chain
<1>10. CASE step(w, "CONFIRMATION_UNKNOWN", "holding")
  <2>1. WorkersOK(T)'
    BY <1>1, <1>2, <1>4, <1>7, <1>10, StepKeeps
  <2>. QED
    BY <1>2, <1>3, <2>1 DEF WorkersOK, chain
<1>. QED
  BY <1>1, <1>8, <1>9, <1>10 DEF Await

\* Redoing a submission goes back to the Passport only if there was one.
LEMMA RedoIsBacked ==
  ASSUME NEW T, NEW wf, NEW copy, Backed(copy, wf, T), NEW to, to = Redo(copy)
  PROVE  /\ to \in Verdicts
         /\ to \in AfterEvidence => Cites[wf] \subseteq KnownIn(T)
         /\ to \in AfterPassport => copy.passportVersion <= VersionIn(T)
<1>1. \/ to = "RECONCILIATION_REQUIRED" \/ to = "EVIDENCE_COMMIT_PENDING"
      \/ to = "PASSPORT_COMMIT_PENDING" /\ copy.passportVersion # 0
  BY DEF Redo
<1>. QED
  BY <1>1 DEF Verdicts, Backed, AfterEvidence, AfterPassport, Aftermath

\* A worker that came to a conclusion.
LEMMA AnswerIsHeld ==
  ASSUME NEW T, NEW m, m # Free, Held(m, T), NEW to \in Verdicts,
         to \in AfterEvidence => Cites[m.wf] \subseteq KnownIn(T),
         to \in AfterPassport => m.copy.passportVersion <= VersionIn(T)
  PROVE  Held([m EXCEPT !.at = "answered", !.to = to], T)
<1>1. m \in Busy /\ Backed(m.copy, m.wf, T) /\ m.sent \in SUBSET DOMAIN T
  BY DEF Held
<1>2. PICK n : n = [m EXCEPT !.at = "answered", !.to = to]
  OBVIOUS
<1>3. to \in Stages
  BY DEF Verdicts, Stages, WorkflowStates, EvidenceCommit, PassportCommit, TerminalStates
<1>4. /\ n \in Busy /\ n.at = "answered" /\ n.to = to
      /\ n.wf = m.wf /\ n.copy = m.copy /\ n.sent = m.sent
  BY <1>1, <1>2, <1>3 DEF Busy
<1>5. Concluded(n, T)
  BY <1>4 DEF Concluded
<1>. QED
  BY <1>1, <1>2, <1>4, <1>5 DEF Held

\* A worker that asks on.
LEMMA AskerIsHeld ==
  ASSUME NEW T, NEW m, m # Free, Held(m, T), NEW at \in {"asking evidence", "asking version"}
  PROVE  Held([m EXCEPT !.at = at], T)
<1>1. m \in Busy /\ Backed(m.copy, m.wf, T) /\ m.sent \in SUBSET DOMAIN T
  BY DEF Held
<1>2. PICK n : n = [m EXCEPT !.at = at]
  OBVIOUS
<1>3. /\ n \in Busy /\ n.at = at /\ n.wf = m.wf /\ n.copy = m.copy /\ n.sent = m.sent
  BY <1>1, <1>2 DEF Busy
<1>. QED
  BY <1>1, <1>2, <1>3 DEF Held

\* Reconciling marks a submission unknown before it asks.
LEMMA ReconcileKeeps ==
  ASSUME WorkersOK(txs), NEW w \in WorkflowWorkers, Reconcile(w)
  PROVE  WorkersOK(txs)'
<1>1. PICK m : m = worker[w]
  OBVIOUS
<1>2. PICK T : T = txs
  OBVIOUS
<1>3. m.at = "holding" /\ UNCHANGED chain
  BY <1>1 DEF Reconcile
<1>4. m # Free /\ Held(m, T)
  BY <1>1, <1>2, <1>3, HolderIs
<1>5. CASE step(w, "CONFIRMATION_UNKNOWN", "asking evidence")
  <2>1. /\ "CONFIRMATION_UNKNOWN" \in WorkflowStates \ Submitted
        /\ "CONFIRMATION_UNKNOWN" \notin AfterEvidence /\ "CONFIRMATION_UNKNOWN" \notin AfterPassport
    BY DEF WorkflowStates, Submitted, AfterEvidence, AfterPassport, Aftermath
  <2>2. WorkersOK(T)'
    BY <1>1, <1>2, <1>4, <1>5, <2>1, StepKeeps
  <2>. QED
    BY <1>2, <1>3, <2>2 DEF WorkersOK, chain
<1>6. CASE worker' = [worker EXCEPT ![w].at = "asking evidence"] /\ record' = record
  <2>1. PICK n : n = [m EXCEPT !.at = "asking evidence"]
    OBVIOUS
  <2>2. Held(n, T)
    BY <1>4, <2>1, AskerIsHeld
  <2>3. worker' = [worker EXCEPT ![w] = n]
    BY <1>1, <1>6, <2>1
  <2>4. WorkersOK(T)'
    BY <1>2, <1>6, <2>2, <2>3, WorkerGoesOn
  <2>. QED
    BY <1>2, <1>3, <2>4 DEF WorkersOK, chain
<1>7. CASE Answer(w, Redo(m.copy)) /\ record' = record
  <2>1. PICK to : to = Redo(m.copy)
    OBVIOUS
  <2>2. Backed(m.copy, m.wf, T)
    BY <1>4 DEF Held
  <2>3. PICK n : n = [m EXCEPT !.at = "answered", !.to = to]
    OBVIOUS
  <2>4. Held(n, T)
    BY <1>4, <2>1, <2>2, <2>3, RedoIsBacked, AnswerIsHeld
  <2>5. worker' = [worker EXCEPT ![w] = n]
    BY <1>1, <1>7, <2>1, <2>3 DEF Answer
  <2>6. WorkersOK(T)'
    BY <1>2, <1>7, <2>4, <2>5, WorkerGoesOn
  <2>. QED
    BY <1>2, <1>3, <2>6 DEF WorkersOK, chain
<1>. QED
  BY <1>1, <1>5, <1>6, <1>7 DEF Reconcile

\* Evidence the chain calls usable is known to it.
LEMMA AskEvidenceKeeps ==
  ASSUME WorkersOK(txs), NEW w \in WorkflowWorkers, AskEvidence(w)
  PROVE  WorkersOK(txs)'
<1>1. PICK m : m = worker[w]
  OBVIOUS
<1>2. PICK T : T = txs
  OBVIOUS
<1>3. m.at = "asking evidence" /\ UNCHANGED <<record, chain>>
  BY <1>1 DEF AskEvidence
<1>4. m # Free /\ Held(m, T)
  BY <1>1, <1>2, <1>3, HolderIs
<1>5. m.wf \in Workflows
  BY <1>4 DEF Held, Busy
<1>6. CASE evidenceIsCommitted(m.wf)
  <2>1. Cites[m.wf] \subseteq KnownIn(T)
    <3>1. Cites[m.wf] \in SUBSET Evidence
      BY <1>5, WorkflowConstants
    <3>. QED
      BY <1>2, <1>6, <3>1, ChainIs DEF evidenceIsCommitted, isUsableFor
  <2>2. "EVIDENCE_COMMIT_CONFIRMED" \in Verdicts /\ "EVIDENCE_COMMIT_CONFIRMED" \notin AfterPassport
    BY DEF Verdicts, AfterPassport, Aftermath
  <2>3. PICK n : n = [m EXCEPT !.at = "answered", !.to = "EVIDENCE_COMMIT_CONFIRMED"]
    OBVIOUS
  <2>4. Held(n, T)
    BY <1>4, <2>1, <2>2, <2>3, AnswerIsHeld
  <2>5. worker' = [worker EXCEPT ![w] = n]
    BY <1>1, <1>6, <2>3 DEF AskEvidence, Answer
  <2>6. WorkersOK(T)'
    BY <1>2, <1>3, <2>4, <2>5, WorkerGoesOn
  <2>. QED
    BY <1>2, <1>3, <2>6 DEF WorkersOK, chain
<1>7. CASE ~evidenceIsCommitted(m.wf)
  <2>1. PICK n : n = [m EXCEPT !.at = "asking version"]
    OBVIOUS
  <2>2. Held(n, T)
    BY <1>4, <2>1, AskerIsHeld
  <2>3. worker' = [worker EXCEPT ![w] = n]
    BY <1>1, <1>7, <2>1 DEF AskEvidence
  <2>4. WorkersOK(T)'
    BY <1>2, <1>3, <2>2, <2>3, WorkerGoesOn
  <2>. QED
    BY <1>2, <1>3, <2>4 DEF WorkersOK, chain
<1>. QED
  BY <1>6, <1>7

\* A version counts as committed only when the chain is that far.
LEMMA AskVersionKeeps ==
  ASSUME WorkersOK(txs), NEW w \in WorkflowWorkers, AskVersion(w)
  PROVE  WorkersOK(txs)'
<1>1. PICK m : m = worker[w]
  OBVIOUS
<1>2. PICK T : T = txs
  OBVIOUS
<1>3. m.at = "asking version" /\ UNCHANGED <<record, chain>>
  BY <1>1 DEF AskVersion
<1>4. m # Free /\ Held(m, T)
  BY <1>1, <1>2, <1>3, HolderIs
<1>5. Backed(m.copy, m.wf, T)
  BY <1>4 DEF Held
<1>6. PICK to : to = IF versionIsOnChain(m.copy.passportVersion)
                     THEN "PASSPORT_COMMIT_CONFIRMED" ELSE Redo(m.copy)
  OBVIOUS
<1>7. /\ to \in Verdicts
      /\ to \in AfterEvidence => Cites[m.wf] \subseteq KnownIn(T)
      /\ to \in AfterPassport => m.copy.passportVersion <= VersionIn(T)
  <2>1. CASE versionIsOnChain(m.copy.passportVersion)
    <3>1. currentPassportVersion >= m.copy.passportVersion
      BY <2>1 DEF versionIsOnChain
    <3>2. VersionIn(T) >= m.copy.passportVersion
      BY <1>2, <3>1, ChainIs
    <3>. QED
      BY <1>6, <2>1, <3>2 DEF Verdicts, AfterEvidence
  <2>2. CASE ~versionIsOnChain(m.copy.passportVersion)
    BY <1>5, <1>6, <2>2, RedoIsBacked
  <2>. QED
    BY <2>1, <2>2
<1>8. PICK n : n = [m EXCEPT !.at = "answered", !.to = to]
  OBVIOUS
<1>9. Held(n, T)
  BY <1>4, <1>7, <1>8, AnswerIsHeld
<1>10. worker' = [worker EXCEPT ![w] = n]
  BY <1>1, <1>6, <1>8 DEF AskVersion, Answer
<1>11. WorkersOK(T)'
  BY <1>2, <1>3, <1>9, <1>10, WorkerGoesOn
<1>. QED
  BY <1>2, <1>3, <1>11 DEF WorkersOK, chain

\* The conclusion becomes the record.
LEMMA ResolveKeeps ==
  ASSUME WorkersOK(txs), NEW w \in WorkflowWorkers, Resolve(w)
  PROVE  WorkersOK(txs)'
<1>1. PICK m : m = worker[w]
  OBVIOUS
<1>2. PICK T : T = txs
  OBVIOUS
<1>3. m.at = "answered" /\ step(w, m.to, "holding") /\ UNCHANGED chain
  BY <1>1 DEF Resolve
<1>4. m # Free /\ Held(m, T)
  BY <1>1, <1>2, <1>3, HolderIs
<1>5. Concluded(m, T)
  BY <1>3, <1>4 DEF Held
<1>6. m.to \in WorkflowStates \ Submitted
  BY <1>5 DEF Concluded, Verdicts, WorkflowStates, EvidenceCommit, PassportCommit, TerminalStates, Submitted
<1>7. WorkersOK(T)'
  BY <1>1, <1>2, <1>3, <1>4, <1>5, <1>6, StepKeeps DEF Concluded
<1>. QED
  BY <1>2, <1>3, <1>7 DEF WorkersOK, chain

\* Whatever the workers do.
LEMMA WorkflowsKeep ==
  ASSUME InOrder(txs), WorkersOK(txs), WorkflowNext
  PROVE  InOrder(txs') /\ GrowsTo(txs, txs') /\ WorkersOK(txs)'
<1>1. PICK w \in WorkflowWorkers :
        \/ \E wf \in Workflows : openWorkflow(w, wf)
        \/ Drive(w) \/ Submit(w) \/ FailToSend(w) \/ RecordSubmission(w) \/ Await(w)
        \/ Reconcile(w) \/ AskEvidence(w) \/ AskVersion(w) \/ Resolve(w) \/ Crash(w)
  BY DEF WorkflowNext
<1>2. CASE Submit(w)
  BY <1>2, SubmitKeeps
<1>3. ASSUME UNCHANGED chain, WorkersOK(txs)'
      PROVE  InOrder(txs') /\ GrowsTo(txs, txs') /\ WorkersOK(txs)'
  BY <1>3, GrowsToItself DEF chain
<1>4. ASSUME NEW wf \in Workflows, openWorkflow(w, wf)
      PROVE  WorkersOK(txs)' /\ UNCHANGED chain
  <2>1. PICK T : T = txs
    OBVIOUS
  <2>2. WorkersOK(T)'
    BY <1>4, <2>1, OpenKeeps
  <2>. QED
    BY <1>4, <2>1, <2>2 DEF WorkersOK, openWorkflow, chain
<1>5. CASE Drive(w)
  BY <1>3, <1>5, DriveKeeps DEF Drive
<1>6. CASE FailToSend(w)
  BY <1>3, <1>6, FailKeeps DEF FailToSend
<1>7. CASE RecordSubmission(w)
  BY <1>3, <1>7, RecordKeeps DEF RecordSubmission
<1>8. CASE Await(w)
  BY <1>3, <1>8, AwaitKeeps DEF Await
<1>9. CASE Reconcile(w)
  BY <1>3, <1>9, ReconcileKeeps DEF Reconcile
<1>10. CASE AskEvidence(w)
  BY <1>3, <1>10, AskEvidenceKeeps DEF AskEvidence
<1>11. CASE AskVersion(w)
  BY <1>3, <1>11, AskVersionKeeps DEF AskVersion
<1>12. CASE Resolve(w)
  BY <1>3, <1>12, ResolveKeeps DEF Resolve
<1>13. CASE Crash(w)
  <2>1. worker' = [worker EXCEPT ![w] = Free] /\ UNCHANGED <<record, chain>>
    BY <1>13 DEF Crash
  <2>2. PICK T : T = txs
    OBVIOUS
  <2>3. WorkersOK(T)'
    BY <2>1, <2>2, WorkerGoesOn DEF Held
  <2>4. WorkersOK(txs)' /\ UNCHANGED chain
    BY <2>1, <2>2, <2>3 DEF WorkersOK, chain
  <2>. QED
    BY <1>3, <2>4
<1>. QED
  BY <1>1, <1>2, <1>3, <1>4, <1>5, <1>6, <1>7, <1>8, <1>9, <1>10, <1>11, <1>12, <1>13

-----------------------------------------------------------------------------
(* Scripts: what a run is at, and what the records it wrote may say.        *)

ScriptRuns ==
  [at : {"sending", "waiting", "verifying"}, fixture : Fixtures, nextVersion : Nat \ {0},
   done : 0..3, tx : Nat]

RunOK ==
  \/ script = NotRunning
  \/ script \in ScriptRuns /\ (script.at # "verifying" => script.done \in 0..2)

\* The version a record names rests on its fixture's document, landed before it.
Recorded(p, T) ==
  \E i \in LandedIn(T, "passport"), k \in LandedIn(T, "evidence") :
    /\ T[i].version = p.version /\ T[i].evidence = {EvidenceOf[p.fixture]}
    /\ T[k].evidence = T[i].evidence /\ T[k].block < T[i].block

ScriptsOK(T) == RunOK /\ \A p \in proofs : p.by = "commit" => Recorded(p, T)

\* What was recorded of a chain stays true as it grows.
LEMMA RecordedStays ==
  ASSUME NEW T \in Seq(Transactions), NEW U \in Seq(Transactions), GrowsTo(T, U), ScriptsOK(T)
  PROVE  ScriptsOK(U)
<1>1. ASSUME NEW p \in proofs, p.by = "commit"
      PROVE  Recorded(p, U)
  <2>1. PICK i \in LandedIn(T, "passport"), k \in LandedIn(T, "evidence") :
          /\ T[i].version = p.version /\ T[i].evidence = {EvidenceOf[p.fixture]}
          /\ T[k].evidence = T[i].evidence /\ T[k].block < T[i].block
    BY <1>1 DEF ScriptsOK, Recorded
  <2>2. /\ i \in LandedIn(U, "passport") /\ U[i] = T[i]
        /\ k \in LandedIn(U, "evidence") /\ U[k] = T[k]
    BY WhatLandedStays
  <2>. QED
    BY <2>1, <2>2 DEF Recorded
<1>. QED
  BY <1>1 DEF ScriptsOK

\* The calls of the commit script are transactions that have not landed.
LEMMA ScriptCallIs ==
  ASSUME NEW f \in Fixtures, NEW v \in Nat, NEW n \in 1..3
  PROVE  Calls(f, v)[n] \in Transactions /\ Calls(f, v)[n].block = Pending /\ OneDocument(Calls(f, v)[n])
<1>1. EvidenceOf[f] \in Evidence
  BY ScriptConstants
<1>2. \A tx \in {EvidenceTx(EvidenceOf[f]), PassportTx({EvidenceOf[f]}, v), EpochTx} :
        tx \in Transactions /\ tx.block = Pending /\ OneDocument(tx)
  BY <1>1 DEF EvidenceTx, PassportTx, EpochTx, Transactions, Pending, OneDocument
<1>3. n = 1 \/ n = 2 \/ n = 3
  OBVIOUS
<1>. QED
  BY <1>2, <1>3 DEF Calls

\* A read-back that succeeds finds the current Passport, and the document behind it.
LEMMA ReadBackIsRecorded ==
  ASSUME InOrder(txs), NEW f \in Fixtures, NEW v \in Nat \ {0}, readBack(f, v), NEW p,
         p = [by |-> "commit", fixture |-> f, version |-> currentPassportVersion]
  PROVE  Recorded(p, txs)
<1>1. PICK T : T = txs
  OBVIOUS
<1>2. currentPassportVersion = v /\ VersionIn(T) = v
  BY <1>1, ChainIs DEF readBack
<1>3. PICK j \in LandedIn(T, "passport") : T[j].version = v
  BY <1>1, <1>2 DEF InOrder
<1>4. PICK i : i = Current
  OBVIOUS
<1>5. i = CHOOSE l \in LandedIn(T, "passport") : T[l].version = v
  BY <1>1, <1>2, <1>4, ChainIs DEF Current
<1>6. i \in LandedIn(T, "passport") /\ T[i].version = v
  BY <1>3, <1>5
<1>7. T[i].evidence = {EvidenceOf[f]}
  BY <1>1, <1>4 DEF readBack
<1>8. StoodBehind(T, i)
  BY <1>1, <1>6 DEF InOrder
<1>9. PICK k \in LandedIn(T, "evidence") : T[k].evidence = {EvidenceOf[f]} /\ T[k].block < T[i].block
  BY <1>7, <1>8 DEF StoodBehind
<1>. QED
  BY <1>1, <1>2, <1>6, <1>7, <1>9 DEF Recorded

\* Whatever the scripts do.
LEMMA ScriptsKeep ==
  ASSUME InOrder(txs), ScriptsOK(txs), ScriptsNext
  PROVE  InOrder(txs') /\ GrowsTo(txs, txs') /\ ScriptsOK(txs)'
<1>1. ASSUME UNCHANGED chain, ScriptsOK(txs)'
      PROVE  InOrder(txs') /\ GrowsTo(txs, txs') /\ ScriptsOK(txs)'
  BY <1>1, GrowsToItself DEF chain
<1>2. ASSUME NEW f \in Fixtures, StartCommit(f)
      PROVE  ScriptsOK(txs)' /\ UNCHANGED chain
  <2>1. PICK v : v = currentPassportVersion + 1
    OBVIOUS
  <2>2. script' = [at |-> "sending", fixture |-> f, nextVersion |-> v, done |-> 0, tx |-> 0]
    BY <1>2, <2>1 DEF StartCommit
  <2>3. v \in Nat \ {0}
    <3>1. txs \in Seq(Transactions) /\ v = Cardinality(LandedIn(txs, "passport")) + 1
      BY <2>1, ChainIs DEF InOrder, VersionIn
    <3>2. Cardinality(LandedIn(txs, "passport")) \in Nat
      BY <3>1, LandedIsFinite
    <3>. QED
      BY <3>1, <3>2
  <2>4. RunOK'
    BY <2>2, <2>3 DEF RunOK, ScriptRuns
  <2>5. proofs' = proofs /\ txs' = txs /\ UNCHANGED chain
    BY <1>2 DEF StartCommit, chain
  <2>. QED
    BY <2>4, <2>5 DEF ScriptsOK
<1>3. ASSUME SendCall
      PROVE  InOrder(txs') /\ GrowsTo(txs, txs') /\ ScriptsOK(txs)'
  <2>1. script \in ScriptRuns /\ script.at = "sending" /\ script.done \in 0..2
    BY <1>3 DEF SendCall, ScriptsOK, RunOK, NotRunning
  <2>2. script.fixture \in Fixtures /\ script.nextVersion \in Nat /\ script.done + 1 \in 1..3
    BY <2>1 DEF ScriptRuns
  <2>3. PICK tx : tx = Calls(script.fixture, script.nextVersion)[script.done + 1]
    OBVIOUS
  <2>4. tx \in Transactions /\ tx.block = Pending /\ OneDocument(tx)
    BY <2>2, <2>3, ScriptCallIs
  <2>5. PICK b : b = <<tx>>
    OBVIOUS
  <2>6. b \in Seq(Transactions) /\ \A n \in 1..Len(b) : b[n].block = Pending /\ OneDocument(b[n])
    BY <2>4, <2>5
  <2>7. txs' = txs \o b
    BY <1>3, <2>3, <2>5 DEF SendCall, send
  <2>8. InOrder(txs') /\ GrowsTo(txs, txs')
    BY <2>6, <2>7, SendingGrows
  <2>9. RunOK'
    <3>1. Len(txs) + 1 \in Nat
      BY LandedIsFinite DEF InOrder
    <3>2. script' = [script EXCEPT !.at = "waiting", !.tx = Len(txs) + 1]
      BY <1>3 DEF SendCall
    <3>3. script' \in ScriptRuns /\ script'.done = script.done
      BY <2>1, <3>1, <3>2 DEF ScriptRuns
    <3>. QED
      BY <2>1, <3>3 DEF RunOK
  <2>10. ScriptsOK(txs')
    BY <2>8, RecordedStays DEF InOrder
  <2>11. proofs' = proofs
    BY <1>3 DEF SendCall
  <2>. QED
    BY <2>8, <2>9, <2>10, <2>11 DEF ScriptsOK
<1>4. ASSUME Receipt
      PROVE  ScriptsOK(txs)' /\ UNCHANGED chain
  <2>1. script \in ScriptRuns /\ script.at = "waiting" /\ script.done \in 0..2
    BY <1>4 DEF Receipt, ScriptsOK, RunOK, NotRunning
  <2>2. PICK at, done : at = (IF script.done = 2 THEN "verifying" ELSE "sending") /\ done = script.done + 1
    OBVIOUS
  <2>3. script' = [script EXCEPT !.done = done, !.at = at]
    BY <1>4, <2>2 DEF Receipt
  <2>4. /\ at \in {"sending", "verifying"} /\ done \in 0..3
        /\ at # "verifying" => done \in 0..2
    BY <2>1, <2>2
  <2>5. script' \in ScriptRuns /\ script'.at = at /\ script'.done = done
    BY <2>1, <2>3, <2>4 DEF ScriptRuns
  <2>6. proofs' = proofs /\ txs' = txs /\ UNCHANGED chain
    BY <1>4 DEF Receipt, chain
  <2>. QED
    BY <2>4, <2>5, <2>6 DEF ScriptsOK, RunOK
<1>5. ASSUME StopCommit
      PROVE  ScriptsOK(txs)' /\ UNCHANGED chain
  <2>1. script' = NotRunning /\ proofs' = proofs /\ txs' = txs /\ UNCHANGED chain
    BY <1>5 DEF StopCommit, chain
  <2>. QED
    BY <2>1 DEF ScriptsOK, RunOK
<1>6. ASSUME Verify
      PROVE  ScriptsOK(txs)' /\ UNCHANGED chain
  <2>1. script \in ScriptRuns /\ script' = NotRunning /\ txs' = txs /\ UNCHANGED chain
    BY <1>6 DEF Verify, ScriptsOK, RunOK, NotRunning, chain
  <2>2. script.fixture \in Fixtures /\ script.nextVersion \in Nat \ {0}
    BY <2>1 DEF ScriptRuns
  <2>3. PICK new : new = [by |-> "commit", fixture |-> script.fixture, version |-> currentPassportVersion]
    OBVIOUS
  <2>4. proofs' = IF readBack(script.fixture, script.nextVersion) THEN proofs \cup {new} ELSE proofs
    BY <1>6, <2>3 DEF Verify
  <2>5. \A p \in proofs' : p.by = "commit" => Recorded(p, txs)
    <3>1. CASE readBack(script.fixture, script.nextVersion)
      <4>1. Recorded(new, txs)
        BY <2>2, <2>3, <3>1, ReadBackIsRecorded
      <4>. QED
        BY <2>4, <3>1, <4>1 DEF ScriptsOK
    <3>2. CASE ~readBack(script.fixture, script.nextVersion)
      BY <2>4, <3>2 DEF ScriptsOK
    <3>. QED
      BY <3>1, <3>2
  <2>. QED
    BY <2>1, <2>5 DEF ScriptsOK, RunOK
<1>7. ASSUME NEW f \in Fixtures, ReconcilePassport(f)
      PROVE  ScriptsOK(txs)' /\ UNCHANGED chain
  <2>1. PICK new : new = [by |-> "reconcile", fixture |-> f, version |-> currentPassportVersion]
    OBVIOUS
  <2>2. proofs' = proofs \cup {new} /\ script' = script /\ txs' = txs /\ UNCHANGED chain
    BY <1>7, <2>1 DEF ReconcilePassport, chain
  <2>3. new.by # "commit"
    BY <2>1
  <2>. QED
    BY <2>2, <2>3 DEF ScriptsOK, RunOK
<1>. QED
  BY <1>1, <1>2, <1>3, <1>4, <1>5, <1>6, <1>7 DEF ScriptsNext

-----------------------------------------------------------------------------
(* Workflows, scripts and the guardian together.                            *)

PassportsOK == InOrder(txs) /\ WorkersOK(txs) /\ ScriptsOK(txs)

\* At the start there is nothing to back.
LEMMA PassportsStartOK == ASSUME PassportsInit PROVE PassportsOK
<1>1. InOrder(txs)
  <2>1. txs = <<>>
    BY DEF PassportsInit
  <2>2. LandedIn(txs, "passport") = {} /\ txs \in Seq(Transactions) /\ DOMAIN txs = {}
    BY <2>1 DEF LandedIn
  <2>3. VersionIn(txs) = 0
    BY <2>2, FS_EmptySet DEF VersionIn
  <2>. QED
    BY <2>2, <2>3 DEF InOrder
<1>2. WorkersOK(txs)
  <2>1. NoRecord \in Copies
    BY DEF NoRecord, Copies, Stages
  <2>2. \A wf : Backed(NoRecord, wf, txs)
    BY <2>1 DEF Backed, NoRecord, AfterEvidence, AfterPassport, Aftermath
  <2>3. /\ record = [wf \in Workflows |-> NoRecord]
        /\ worker = [w \in WorkflowWorkers |-> Free]
    BY DEF PassportsInit, WorkflowInit
  <2>. QED
    BY <2>2, <2>3 DEF WorkersOK, Held
<1>3. ScriptsOK(txs)
  BY DEF PassportsInit, ScriptsInit, ScriptsOK, RunOK
<1>. QED
  BY <1>1, <1>2, <1>3 DEF PassportsOK

\* No step says more than the chain holds.
LEMMA PassportsStayOK == ASSUME PassportsOK, [PassportsNext]_passportVars PROVE PassportsOK'
<1>1. ASSUME InOrder(txs'), GrowsTo(txs, txs')
      PROVE  /\ UNCHANGED workflowVars => WorkersOK(txs)'
             /\ UNCHANGED scriptVars => ScriptsOK(txs)'
  <2>1. txs \in Seq(Transactions) /\ txs' \in Seq(Transactions)
    BY <1>1 DEF PassportsOK, InOrder
  <2>2. WorkersOK(txs')
    BY <1>1, <2>1, BackedStays, HeldStays DEF PassportsOK, WorkersOK
  <2>3. ScriptsOK(txs')
    BY <1>1, <2>1, RecordedStays DEF PassportsOK
  <2>. QED
    BY <2>2, <2>3 DEF WorkersOK, ScriptsOK, RunOK, workflowVars, scriptVars
<1>2. CASE ChainNext /\ UNCHANGED <<workflowVars, scriptVars>>
  <2>1. InOrder(txs') /\ GrowsTo(txs, txs')
    <3>1. ASSUME NEW i \in Txs, Mine(i)
          PROVE  InOrder(txs') /\ GrowsTo(txs, txs')
      BY <3>1, MiningGrows DEF PassportsOK
    <3>2. ASSUME NEW e \in Evidence, Invalidate(e)
          PROVE  InOrder(txs') /\ GrowsTo(txs, txs')
      BY <3>2, GrowsToItself DEF Invalidate, PassportsOK
    <3>. QED
      BY <1>2, <3>1, <3>2 DEF ChainNext
  <2>. QED
    BY <1>1, <1>2, <2>1 DEF PassportsOK
<1>3. CASE WorkflowNext /\ UNCHANGED scriptVars
  BY <1>1, <1>3, WorkflowsKeep DEF PassportsOK
<1>4. CASE ScriptsNext /\ UNCHANGED workflowVars
  BY <1>1, <1>4, ScriptsKeep DEF PassportsOK
<1>5. CASE UNCHANGED passportVars
  <2>1. InOrder(txs') /\ GrowsTo(txs, txs') /\ UNCHANGED workflowVars /\ UNCHANGED scriptVars
    BY <1>5, GrowsToItself DEF passportVars, chain, PassportsOK
  <2>. QED
    BY <1>1, <2>1 DEF PassportsOK
<1>. QED
  BY <1>2, <1>3, <1>4, <1>5 DEF PassportsNext

\* The invariant the two theorems rest on.
LEMMA PassportsAreOK == PassportsSpec => []PassportsOK
<1>1. PassportsInit => PassportsOK
  BY PassportsStartOK
<1>2. PassportsOK /\ [PassportsNext]_passportVars => PassportsOK'
  BY PassportsStayOK
<1>. QED
  BY <1>1, <1>2, PTL DEF PassportsSpec

\* RecordsFollowChain (workflow.ts: "The chain is the authority, never local state"): no record is
\* past the evidence or the Passport before the chain is, for any number of workers and workflows,
\* whether or not their writes share a second.
THEOREM RecordsDoFollowTheChain == PassportsSpec => []RecordsFollowChain
<1>1. PassportsOK => RecordsFollowChain
  <2>. SUFFICES ASSUME PassportsOK, NEW wf \in Workflows
                PROVE  /\ record[wf].state \in AfterEvidence => \A e \in Cites[wf] : Committed(e)
                       /\ record[wf].state \in AfterPassport =>
                            currentPassportVersion >= record[wf].passportVersion
    BY DEF RecordsFollowChain
  <2>1. Backed(record[wf], wf, txs)
    BY DEF PassportsOK, WorkersOK
  <2>2. Cites[wf] \in SUBSET Evidence
    BY WorkflowConstants
  <2>3. record[wf].state \in AfterEvidence => \A e \in Cites[wf] : Committed(e)
    BY <2>1, <2>2, ChainIs DEF Backed
  <2>4. record[wf].state \in AfterPassport => currentPassportVersion >= record[wf].passportVersion
    BY <2>1, ChainIs DEF Backed
  <2>. QED
    BY <2>3, <2>4
<1>. QED
  BY <1>1, PassportsAreOK, PTL

\* ProofsAreOnChain (commit-passport.mjs: "The record is written only when the read-back verified"):
\* a record the commit script wrote names a Passport that landed after the one document it rests on,
\* whatever workflows, other runs and the guardian did meanwhile.
THEOREM ProofsDoStandOnChain == PassportsSpec => []ProofsAreOnChain
<1>1. PassportsOK => ProofsAreOnChain
  <2>. SUFFICES ASSUME PassportsOK, NEW p \in proofs, p.by = "commit"
                PROVE  \E i \in PassportAt(p.version), k \in LandedOf("evidence") :
                         /\ txs[i].evidence = {EvidenceOf[p.fixture]} /\ txs[k].evidence = txs[i].evidence
                         /\ txs[k].block < txs[i].block
    BY DEF ProofsAreOnChain
  <2>1. Recorded(p, txs)
    BY DEF PassportsOK, ScriptsOK
  <2>2. /\ LandedOf("evidence") = LandedIn(txs, "evidence")
        /\ PassportAt(p.version) = {i \in LandedIn(txs, "passport") : txs[i].version = p.version}
    BY ChainIs DEF PassportAt
  <2>. QED
    BY <2>1, <2>2 DEF Recorded
<1>. QED
  BY <1>1, PassportsAreOK, PTL

-----------------------------------------------------------------------------
(* One Passport per workflow, where the stamps of saves tell them apart.    *)

\* Saves do not share a second, or there is one worker to save.
StampsTellApart == SameSecond = {FALSE} \/ \A v, w \in WorkflowWorkers : v = w

\* Under one schema and admission policy its documents are a workflow's identity
\* (workflow.ts workflowIdFor), and no script commits the one a workflow cites.
CitesAreApart ==
  /\ \A wf, other \in Workflows : Cites[wf] = Cites[other] => wf = other
  /\ \A wf \in Workflows, f \in Fixtures : Cites[wf] # {EvidenceOf[f]}

\* Once its candidate is admitted a workflow never chooses another.
Admitted ==
  EvidenceCommit \cup PassportCommit \cup Aftermath
    \cup {"COMMIT_FAILED", "CONFIRMATION_UNKNOWN", "RECONCILIATION_REQUIRED"}

Chosen(wf, version) == record[wf].state \in Admitted /\ record[wf].candidate = version

\* Every Passport sent for a workflow is the candidate of its record.
SentAsChosen(T) ==
  \A wf \in Workflows, i \in DOMAIN T :
    T[i].kind = "passport" /\ T[i].evidence = Cites[wf] => Chosen(wf, T[i].version)

\* A copy that is still good is the record, and one that is not chose nothing else.
CopyAgrees(m) ==
  m # Free =>
    /\ record[m.wf].state # "ABSENT" /\ m.copy.state # "ABSENT"
    /\ m.stale \/ record[m.wf] = m.copy
    /\ m.copy.state \in Admitted => Chosen(m.wf, m.copy.candidate)

OnceOK(T) ==
  /\ SentAsChosen(T) /\ \A w \in WorkflowWorkers : CopyAgrees(worker[w])
  /\ \A wf \in Workflows : record[wf].state = "ABSENT" => record[wf] = NoRecord

\* What a worker that is at something holds.
LEMMA HolderHas ==
  ASSUME NEW T, WorkersOK(T), NEW w \in WorkflowWorkers, worker[w] # Free
  PROVE  worker[w] \in Busy /\ worker[w].wf \in Workflows /\ worker[w].copy \in Copies
<1>1. worker[w] \in Busy
  BY DEF WorkersOK, Held
<1>. QED
  BY <1>1 DEF Busy

\* A save writes what was chosen, whoever else holds a copy.
LEMMA SaveIsOnce ==
  ASSUME StampsTellApart, NEW T, WorkersOK(T), OnceOK(T),
         NEW w \in WorkflowWorkers, worker[w] # Free, NEW next, NEW then, save(w, next, then),
         then = Free \/ (then.wf = worker[w].wf /\ then.copy = next),
         next.state # "ABSENT",
         worker[w].copy.state \in Admitted =>
           next.state \in Admitted /\ next.candidate = worker[w].copy.candidate
  PROVE  OnceOK(T)'
<1>1. PICK m : m = worker[w]
  OBVIOUS
<1>2. m \in Busy /\ m.wf \in Workflows /\ m # Free
  BY <1>1, HolderHas
<1>3. DOMAIN record = Workflows /\ DOMAIN worker = WorkflowWorkers
  BY DEF WorkersOK
<1>4. CASE m.stale
  <2>1. record' = record /\ worker' = [worker EXCEPT ![w] = Free]
    BY <1>1, <1>4 DEF save
  <2>2. \A v \in WorkflowWorkers : worker'[v] = Free \/ worker'[v] = worker[v]
    BY <1>3, <2>1
  <2>. QED
    BY <2>1, <2>2 DEF OnceOK, SentAsChosen, CopyAgrees, Chosen
<1>5. CASE ~m.stale
  <2>1. record' = [record EXCEPT ![m.wf] = next]
    BY <1>1, <1>5 DEF save
  <2>2. PICK same \in SameSecond :
          worker' = [v \in WorkflowWorkers |->
                  IF v = w THEN then
                  ELSE IF worker[v] # Free /\ worker[v].wf = m.wf /\ ~same
                       THEN [worker[v] EXCEPT !.stale = TRUE]
                       ELSE worker[v]]
    BY <1>1, <1>5 DEF save
  <2>3. record[m.wf] = m.copy
    BY <1>1, <1>2, <1>5 DEF OnceOK, CopyAgrees
  <2>4. record'[m.wf] = next /\ \A wf \in Workflows : wf # m.wf => record'[wf] = record[wf]
    BY <1>2, <1>3, <2>1
  <2>5. \A wf \in Workflows : \A version : Chosen(wf, version) => Chosen(wf, version)'
    <3>. SUFFICES ASSUME NEW wf \in Workflows, NEW version, Chosen(wf, version)
                  PROVE  Chosen(wf, version)'
      OBVIOUS
    <3>1. CASE wf = m.wf
      BY <1>1, <2>3, <2>4, <3>1 DEF Chosen
    <3>2. CASE wf # m.wf
      BY <2>4, <3>2 DEF Chosen
    <3>. QED
      BY <3>1, <3>2
  <2>6. SentAsChosen(T)'
    BY <2>5 DEF OnceOK, SentAsChosen
  <2>7. CopyAgrees(worker[w])'
    <3>1. worker'[w] = then
      BY <2>2
    <3>2. CASE then = Free
      BY <3>1, <3>2 DEF CopyAgrees
    <3>3. CASE then.wf = m.wf /\ then.copy = next
      <4>1. next.state \in Admitted => Chosen(m.wf, next.candidate)'
        BY <2>4 DEF Chosen
      <4>. QED
        BY <2>4, <3>1, <3>3, <4>1 DEF CopyAgrees
    <3>. QED
      BY <1>1, <3>2, <3>3
  <2>8. ASSUME NEW v \in WorkflowWorkers, v # w
        PROVE  CopyAgrees(worker[v])'
    <3>1. same = FALSE
      BY <2>2, <2>8 DEF StampsTellApart
    <3>2. PICK n : n = worker[v]
      OBVIOUS
    <3>3. CASE n = Free
      BY <2>2, <2>8, <3>2, <3>3 DEF CopyAgrees
    <3>4. CASE n # Free /\ n.wf = m.wf
      <4>1. n \in Busy
        BY <3>2, <3>4, HolderHas
      <4>2. PICK o : o = [n EXCEPT !.stale = TRUE]
        OBVIOUS
      <4>3. o.stale /\ o.wf = n.wf /\ o.copy = n.copy
        BY <4>1, <4>2 DEF Busy
      <4>4. worker'[v] = o
        BY <2>2, <2>8, <3>1, <3>2, <3>4, <4>2
      <4>5. CopyAgrees(n)
        BY <3>2 DEF OnceOK
      <4>6. n.copy.state # "ABSENT" /\ (n.copy.state \in Admitted => Chosen(m.wf, n.copy.candidate)')
        BY <1>2, <2>5, <3>4, <4>5 DEF CopyAgrees
      <4>. QED
        BY <2>4, <3>4, <4>3, <4>4, <4>6 DEF CopyAgrees
    <3>5. CASE n # Free /\ n.wf # m.wf
      <4>1. n.wf \in Workflows
        BY <3>2, <3>5, HolderHas
      <4>2. worker'[v] = n /\ record'[n.wf] = record[n.wf]
        BY <2>2, <2>4, <2>8, <3>2, <3>5, <4>1
      <4>3. CopyAgrees(n)
        BY <3>2 DEF OnceOK
      <4>. QED
        BY <4>2, <4>3 DEF CopyAgrees, Chosen
    <3>. QED
      BY <3>3, <3>4, <3>5
  <2>9. \A wf \in Workflows : record'[wf].state = "ABSENT" => record'[wf] = NoRecord
    BY <2>4 DEF OnceOK
  <2>. QED
    BY <2>6, <2>7, <2>8, <2>9 DEF OnceOK
<1>. QED
  BY <1>4, <1>5

\* So does an edge to a state behind the admission, which leaves the candidate alone.
LEMMA StepIsOnce ==
  ASSUME StampsTellApart, NEW T, WorkersOK(T), OnceOK(T),
         NEW w \in WorkflowWorkers, worker[w] # Free, NEW to \in Admitted, NEW at, step(w, to, at)
  PROVE  OnceOK(T)'
<1>1. PICK copy, wf : copy = worker[w].copy /\ wf = worker[w].wf
  OBVIOUS
<1>2. PICK next : next = advance(copy, to)
  OBVIOUS
<1>3. copy \in Copies
  BY <1>1, HolderHas
<1>4. next.state = to /\ next.candidate = copy.candidate
  BY <1>2, <1>3 DEF advance, Copies
<1>5. PICK then : then = IF isTerminal(to) THEN Free ELSE Holds(next, wf, at)
  OBVIOUS
<1>6. then = Free \/ (then.wf = wf /\ then.copy = next)
  BY <1>5 DEF Holds
<1>7. save(w, next, then)
  BY <1>1, <1>2, <1>5 DEF step
<1>8. to # "ABSENT"
  BY DEF Admitted, EvidenceCommit, PassportCommit, Aftermath
<1>. QED
  BY <1>1, <1>4, <1>6, <1>7, <1>8, SaveIsOnce

\* A worker that goes on with the copy it holds, or drops it.
LEMMA GoingOnIsOnce ==
  ASSUME NEW T, WorkersOK(T), OnceOK(T), NEW w \in WorkflowWorkers, NEW n,
         worker' = [worker EXCEPT ![w] = n], record' = record,
         n = Free \/ /\ worker[w] # Free /\ n.wf = worker[w].wf
                     /\ n.copy = worker[w].copy /\ n.stale = worker[w].stale
  PROVE  OnceOK(T)'
<1>1. worker'[w] = n /\ \A v \in WorkflowWorkers : v # w => worker'[v] = worker[v]
  BY DEF WorkersOK
<1>2. \A v \in WorkflowWorkers : CopyAgrees(worker[v])
  BY DEF OnceOK
<1>3. CopyAgrees(n)
  BY <1>2 DEF CopyAgrees
<1>4. \A v \in WorkflowWorkers : CopyAgrees(worker'[v])
  BY <1>1, <1>2, <1>3
<1>. QED
  BY <1>4 DEF OnceOK, SentAsChosen, CopyAgrees, Chosen

\* A transaction more or less is nothing new if the record speaks for it.
LEMMA SentStays ==
  ASSUME NEW T, NEW U, OnceOK(T),
         \A i \in DOMAIN U :
           \/ /\ i \in DOMAIN T /\ U[i].kind = T[i].kind /\ U[i].evidence = T[i].evidence
              /\ U[i].version = T[i].version
           \/ \A wf \in Workflows :
                U[i].kind = "passport" /\ U[i].evidence = Cites[wf] => Chosen(wf, U[i].version)
  PROVE  OnceOK(U)
BY DEF OnceOK, SentAsChosen

\* What follows a batch.
LEMMA SentAfter ==
  ASSUME NEW T \in Seq(Transactions), NEW b \in Seq(Transactions), OnceOK(T),
         \A n \in 1..Len(b), wf \in Workflows :
           b[n].kind = "passport" /\ b[n].evidence = Cites[wf] => Chosen(wf, b[n].version)
  PROVE  OnceOK(T \o b)
<1>1. PICK U : U = T \o b
  OBVIOUS
<1>2. /\ DOMAIN U = 1..(Len(T) + Len(b)) /\ DOMAIN T = 1..Len(T) /\ Len(T) \in Nat /\ Len(b) \in Nat
      /\ \A i \in 1..Len(T) : U[i] = T[i]
      /\ \A i \in (Len(T) + 1)..(Len(T) + Len(b)) : U[i] = b[i - Len(T)]
  BY <1>1
<1>3. ASSUME NEW i \in DOMAIN U
      PROVE  \/ i \in DOMAIN T /\ U[i] = T[i]
             \/ \E n \in 1..Len(b) : U[i] = b[n]
  <2>1. CASE i <= Len(T)
    BY <1>2, <2>1
  <2>2. CASE i > Len(T)
    <3>1. i - Len(T) \in 1..Len(b) /\ i \in (Len(T) + 1)..(Len(T) + Len(b))
      BY <1>2, <2>2
    <3>. QED
      BY <1>2, <3>1
  <2>. QED
    BY <1>2, <2>1, <2>2
<1>4. OnceOK(U)
  BY <1>3, SentStays
<1>. QED
  BY <1>1, <1>4

\* Driving chooses a candidate only before the admission.
LEMMA DrivenKeepCandidates ==
  ASSUME NEW from \in Driven \cap Admitted, NEW to \in Transitions(from)
  PROVE  to \in Admitted /\ to # "PASSPORT_CANDIDATE_READY"
<1>1. from \in {"EVIDENCE_COMMIT_CONFIRMED", "PASSPORT_COMMIT_CONFIRMED",
                "RISK_REEVALUATING", "RISK_EPOCH_ACTIVATED", "ACCOUNT_REEVALUATING"}
  BY DEF Driven, Admitted, TerminalStates, Resumable, Submitted, EvidenceCommit, PassportCommit, Aftermath
<1>2. to \in {"PASSPORT_COMMIT_PENDING", "RISK_REEVALUATING", "RISK_EPOCH_ACTIVATED",
              "RECONCILIATION_REQUIRED", "ACCOUNT_REEVALUATING", "COMPLETE"}
  BY <1>1 DEF Transitions, Preparation, Setbacks, TerminalStates
<1>. QED
  BY <1>2 DEF Admitted, EvidenceCommit, PassportCommit, Aftermath

\* Opening hands out the record.
LEMMA OpenIsOnce ==
  ASSUME NEW T, WorkersOK(T), OnceOK(T), NEW w \in WorkflowWorkers, NEW wf \in Workflows,
         openWorkflow(w, wf)
  PROVE  OnceOK(T)'
<1>1. PICK existing : existing = IF record[wf] = NoRecord THEN Fresh ELSE record[wf]
  OBVIOUS
<1>2. PICK n : n = Holds(existing, wf, "holding")
  OBVIOUS
<1>3. record' = [record EXCEPT ![wf] = existing] /\ worker' = [worker EXCEPT ![w] = n]
  BY <1>1, <1>2 DEF openWorkflow
<1>4. DOMAIN record = Workflows /\ DOMAIN worker = WorkflowWorkers
  BY DEF WorkersOK
<1>5. n.wf = wf /\ n.copy = existing
  BY <1>2 DEF Holds
<1>6. record'[wf] = existing /\ \A other \in Workflows : other # wf => record'[other] = record[other]
  BY <1>3, <1>4
<1>7. worker'[w] = n /\ \A v \in WorkflowWorkers : v # w => worker'[v] = worker[v]
  BY <1>3, <1>4
<1>8. CASE record[wf] # NoRecord
  <2>1. \A other \in Workflows : record'[other] = record[other]
    BY <1>1, <1>6, <1>8
  <2>2. \A other \in Workflows : \A version : Chosen(other, version) => Chosen(other, version)'
    BY <2>1 DEF Chosen
  <2>3. CopyAgrees(n)'
    <3>1. record'[wf] = existing
      BY <1>6
    <3>2. existing.state # "ABSENT"
      BY <1>1, <1>8 DEF OnceOK
    <3>. QED
      BY <1>5, <3>1, <3>2 DEF CopyAgrees, Chosen
  <2>4. ASSUME NEW v \in WorkflowWorkers, v # w
        PROVE  CopyAgrees(worker[v])'
    <3>1. CopyAgrees(worker[v]) /\ worker'[v] = worker[v]
      BY <1>7, <2>4 DEF OnceOK
    <3>2. worker[v] # Free => worker[v].wf \in Workflows
      BY HolderHas
    <3>. QED
      BY <2>1, <2>2, <3>1, <3>2 DEF CopyAgrees
  <2>5. \A v \in WorkflowWorkers : CopyAgrees(worker[v])'
    BY <1>7, <2>3, <2>4
  <2>6. SentAsChosen(T)'
    BY <2>2 DEF OnceOK, SentAsChosen
  <2>7. \A other \in Workflows : record'[other].state = "ABSENT" => record'[other] = NoRecord
    BY <2>1 DEF OnceOK
  <2>. QED
    BY <2>5, <2>6, <2>7 DEF OnceOK
<1>9. CASE record[wf] = NoRecord
  <2>1. existing = [state |-> "CREATED", attempts |-> 0, candidate |-> 0, passportVersion |-> 0]
    BY <1>1, <1>9 DEF Fresh, NoRecord
  <2>2. record[wf].state = "ABSENT"
    BY <1>9 DEF NoRecord
  <2>3. {"ABSENT", "CREATED"} \cap Admitted = {}
    BY DEF Admitted, EvidenceCommit, PassportCommit, Aftermath
  <2>4. ASSUME NEW other \in Workflows, NEW version, Chosen(other, version)
        PROVE  other # wf /\ Chosen(other, version)'
    BY <1>6, <2>2, <2>3, <2>4 DEF Chosen
  <2>5. SentAsChosen(T)'
    BY <2>4 DEF OnceOK, SentAsChosen
  <2>6. CopyAgrees(n)'
    BY <1>5, <1>6, <2>1, <2>3 DEF CopyAgrees
  <2>7. ASSUME NEW v \in WorkflowWorkers, v # w
        PROVE  CopyAgrees(worker[v])'
    <3>1. CopyAgrees(worker[v]) /\ worker'[v] = worker[v]
      BY <1>7, <2>7 DEF OnceOK
    <3>2. CASE worker[v] = Free
      BY <3>1, <3>2 DEF CopyAgrees
    <3>3. CASE worker[v] # Free
      <4>1. worker[v].wf \in Workflows /\ worker[v].wf # wf
        BY <2>2, <3>1, <3>3, HolderHas DEF CopyAgrees
      <4>. QED
        BY <1>6, <2>4, <3>1, <4>1 DEF CopyAgrees
    <3>. QED
      BY <3>2, <3>3
  <2>8. \A v \in WorkflowWorkers : CopyAgrees(worker[v])'
    BY <1>7, <2>6, <2>7
  <2>9. \A other \in Workflows : record'[other].state = "ABSENT" => record'[other] = NoRecord
    BY <1>6, <2>1 DEF OnceOK
  <2>. QED
    BY <2>5, <2>8, <2>9 DEF OnceOK
<1>. QED
  BY <1>8, <1>9

\* Driving keeps what is chosen.
LEMMA DriveIsOnce ==
  ASSUME StampsTellApart, WorkersOK(txs), OnceOK(txs), NEW w \in WorkflowWorkers, Drive(w)
  PROVE  OnceOK(txs)'
<1>1. PICK T : T = txs
  OBVIOUS
<1>2. PICK copy, wf : copy = worker[w].copy /\ wf = worker[w].wf
  OBVIOUS
<1>3. worker[w] # Free /\ copy.state \in Driven /\ UNCHANGED chain
  BY <1>2 DEF Drive, Free
<1>4. copy \in Copies
  BY <1>2, <1>3, HolderHas
<1>5. PICK v : v = currentPassportVersion
  OBVIOUS
<1>6. PICK to \in Transitions(copy.state) :
        LET next == [advance(copy, to) EXCEPT
                       !.candidate = IF to = "PASSPORT_CANDIDATE_READY" THEN v + 1 ELSE @]
        IN  save(w, next, IF isTerminal(to) THEN Free ELSE Holds(next, wf, "holding"))
  BY <1>2, <1>5 DEF Drive
<1>7. PICK next : next = [advance(copy, to) EXCEPT
                            !.candidate = IF to = "PASSPORT_CANDIDATE_READY" THEN v + 1 ELSE @]
  OBVIOUS
<1>8. PICK then : then = IF isTerminal(to) THEN Free ELSE Holds(next, wf, "holding")
  OBVIOUS
<1>9. save(w, next, then)
  BY <1>6, <1>7, <1>8
<1>10. then = Free \/ (then.wf = wf /\ then.copy = next)
  BY <1>8 DEF Holds
<1>11. next.state = to /\ (to # "PASSPORT_CANDIDATE_READY" => next.candidate = copy.candidate)
  BY <1>4, <1>7 DEF advance, Copies
<1>12. to # "ABSENT"
  <2>1. to \in WorkflowStates
    BY <1>3, DrivenEdges
  <2>. QED
    BY <2>1 DEF WorkflowStates, Preparation, Setbacks, EvidenceCommit, PassportCommit, Aftermath, TerminalStates
<1>13. copy.state \in Admitted => to \in Admitted /\ to # "PASSPORT_CANDIDATE_READY"
  BY <1>3, DrivenKeepCandidates
<1>14. OnceOK(T)'
  BY <1>1, <1>2, <1>3, <1>9, <1>10, <1>11, <1>12, <1>13, SaveIsOnce
<1>. QED
  BY <1>1, <1>3, <1>14 DEF OnceOK, chain

\* Sending a Passport sends the candidate.
LEMMA SubmitIsOnce ==
  ASSUME CitesAreApart, InOrder(txs), WorkersOK(txs), OnceOK(txs), NEW w \in WorkflowWorkers, Submit(w)
  PROVE  OnceOK(txs)'
<1>1. PICK m : m = worker[w]
  OBVIOUS
<1>2. PICK T : T = txs
  OBVIOUS
<1>3. PICK calls : calls = callsOf(m.copy, m.wf)
  OBVIOUS
<1>4. PICK sent : sent = (Len(txs) + 1)..(Len(txs) + Len(calls))
  OBVIOUS
<1>5. /\ m # Free /\ m.copy.state \in {"EVIDENCE_COMMIT_PENDING", "PASSPORT_COMMIT_PENDING"}
      /\ txs' = T \o calls /\ record' = record
      /\ worker' = [worker EXCEPT ![w] = [m EXCEPT !.at = "sent", !.sent = sent]]
  <2>1. m.at = "holding" /\ m.copy.state \in {"EVIDENCE_COMMIT_PENDING", "PASSPORT_COMMIT_PENDING"}
    BY <1>1 DEF Submit
  <2>2. m # Free
    BY <2>1 DEF Free
  <2>3. /\ txs' = T \o calls /\ record' = record
        /\ worker' = [worker EXCEPT ![w] = [m EXCEPT !.at = "sent", !.sent = sent]]
    BY <1>1, <1>2, <1>3, <1>4 DEF Submit, send
  <2>. QED
    BY <2>1, <2>2, <2>3
<1>6. m \in Busy /\ m.wf \in Workflows /\ m.copy \in Copies
  BY <1>1, <1>5, HolderHas
<1>7. /\ T \in Seq(Transactions) /\ calls \in Seq(Transactions)
  BY <1>2, <1>3, <1>5, <1>6, CallsAre DEF InOrder
<1>8. ASSUME NEW n \in 1..Len(calls), NEW wf \in Workflows,
             calls[n].kind = "passport", calls[n].evidence = Cites[wf]
      PROVE  Chosen(wf, calls[n].version)
  <2>1. CASE m.copy.state = "EVIDENCE_COMMIT_PENDING"
    <3>1. PICK S : S = {EvidenceTx(e) : e \in Cites[m.wf]}
      OBVIOUS
    <3>2. calls[n] \in S
      <4>1. calls = SetToSeq(S)
        BY <1>3, <2>1, <3>1 DEF callsOf
      <4>2. IsFiniteSet(Cites[m.wf])
        BY <1>6, ChainConstants, WorkflowConstants, FS_Subset
      <4>3. [e \in Cites[m.wf] |-> EvidenceTx(e)] \in Surjection(Cites[m.wf], S)
        BY <3>1 DEF Surjection
      <4>4. IsFiniteSet(S)
        BY <4>2, <4>3, FS_Surjection
      <4>. QED
        BY <4>1, <4>4, LaidOut
    <3>3. \A tx \in S : tx.kind = "evidence"
      BY <3>1 DEF EvidenceTx
    <3>. QED
      BY <1>8, <3>2, <3>3
  <2>2. CASE m.copy.state = "PASSPORT_COMMIT_PENDING"
    <3>1. calls = <<PassportTx(Cites[m.wf], m.copy.candidate)>>
      BY <1>3, <2>2 DEF callsOf
    <3>2. calls[n] = PassportTx(Cites[m.wf], m.copy.candidate)
      BY <3>1
    <3>3. calls[n].evidence = Cites[m.wf] /\ calls[n].version = m.copy.candidate
      BY <3>2 DEF PassportTx
    <3>4. wf = m.wf
      BY <1>6, <1>8, <3>3 DEF CitesAreApart
    <3>5. m.copy.state \in Admitted
      BY <2>2 DEF Admitted, PassportCommit
    <3>6. Chosen(m.wf, m.copy.candidate)
      BY <1>1, <1>5, <3>5 DEF OnceOK, CopyAgrees
    <3>. QED
      BY <3>3, <3>4, <3>6
  <2>. QED
    BY <1>5, <2>1, <2>2
<1>9. PICK U : U = T \o calls
  OBVIOUS
<1>10. OnceOK(U)
  BY <1>2, <1>7, <1>8, <1>9, SentAfter
<1>11. PICK n : n = [m EXCEPT !.at = "sent", !.sent = sent]
  OBVIOUS
<1>12. n.wf = m.wf /\ n.copy = m.copy /\ n.stale = m.stale
  BY <1>6, <1>11 DEF Busy
<1>13. OnceOK(U)'
  <2>1. worker'[w] = n /\ \A v \in WorkflowWorkers : v # w => worker'[v] = worker[v]
    BY <1>5, <1>11 DEF WorkersOK
  <2>2. CopyAgrees(n)
    BY <1>1, <1>5, <1>12 DEF OnceOK, CopyAgrees
  <2>3. \A v \in WorkflowWorkers : CopyAgrees(worker'[v])
    BY <1>10, <2>1, <2>2 DEF OnceOK
  <2>. QED
    BY <1>5, <1>10, <2>3 DEF OnceOK, SentAsChosen, CopyAgrees, Chosen
<1>. QED
  BY <1>5, <1>9, <1>13 DEF OnceOK

\* Whatever the workers do.
LEMMA WorkflowsAreOnce ==
  ASSUME StampsTellApart, CitesAreApart, InOrder(txs), WorkersOK(txs), OnceOK(txs), WorkflowNext
  PROVE  OnceOK(txs)'
<1>1. PICK w \in WorkflowWorkers :
        \/ \E wf \in Workflows : openWorkflow(w, wf)
        \/ Drive(w) \/ Submit(w) \/ FailToSend(w) \/ RecordSubmission(w) \/ Await(w)
        \/ Reconcile(w) \/ AskEvidence(w) \/ AskVersion(w) \/ Resolve(w) \/ Crash(w)
  BY DEF WorkflowNext
<1>2. PICK T : T = txs
  OBVIOUS
<1>3. PICK m : m = worker[w]
  OBVIOUS
<1>4. ASSUME UNCHANGED chain, OnceOK(T)'
      PROVE  OnceOK(txs)'
  BY <1>2, <1>4 DEF OnceOK, chain
<1>5. ASSUME m # Free, NEW to \in Admitted, NEW at, step(w, to, at)
      PROVE  OnceOK(T)'
  BY <1>2, <1>3, <1>5, StepIsOnce
<1>6. ASSUME m # Free, NEW n, n.wf = m.wf, n.copy = m.copy, n.stale = m.stale,
             worker' = [worker EXCEPT ![w] = n], record' = record
      PROVE  OnceOK(T)'
  BY <1>2, <1>3, <1>6, GoingOnIsOnce
<1>7. m # Free => m \in Busy /\ Held(m, T)
  BY <1>2, <1>3, HolderHas DEF WorkersOK
<1>8. {"COMMIT_FAILED", "CONFIRMATION_UNKNOWN", "EVIDENCE_COMMIT_CONFIRMED", "PASSPORT_COMMIT_CONFIRMED"}
        \cup Submitted \cup Verdicts \subseteq Admitted
  BY DEF Admitted, Submitted, Verdicts, EvidenceCommit, PassportCommit
<1>9. ASSUME NEW wf \in Workflows, openWorkflow(w, wf)
      PROVE  OnceOK(txs)'
  BY <1>2, <1>4, <1>9, OpenIsOnce DEF openWorkflow
<1>10. CASE FailToSend(w)
  BY <1>3, <1>4, <1>5, <1>8, <1>10 DEF FailToSend, Free
<1>11. CASE RecordSubmission(w)
  <2>1. PICK to : to = IF m.copy.state = "EVIDENCE_COMMIT_PENDING"
                       THEN "EVIDENCE_COMMIT_SUBMITTED" ELSE "PASSPORT_COMMIT_SUBMITTED"
    OBVIOUS
  <2>2. PICK next : next = advance(m.copy, to)
    OBVIOUS
  <2>3. PICK then : then = [Holds(next, m.wf, "waiting") EXCEPT !.sent = m.sent]
    OBVIOUS
  <2>4. m # Free /\ save(w, next, then) /\ UNCHANGED chain
    BY <1>3, <1>11, <2>1, <2>2, <2>3 DEF RecordSubmission, Free
  <2>5. m.copy \in Copies /\ to \in Admitted /\ to # "ABSENT"
    BY <1>7, <1>8, <2>1, <2>4 DEF Submitted, Busy
  <2>6. next.state = to /\ next.candidate = m.copy.candidate
    BY <2>2, <2>5 DEF advance, Copies
  <2>7. then.wf = m.wf /\ then.copy = next
    BY <2>3 DEF Holds
  <2>8. OnceOK(T)'
    BY <1>2, <1>3, <2>4, <2>5, <2>6, <2>7, SaveIsOnce
  <2>. QED
    BY <1>4, <2>4, <2>8
<1>12. CASE Await(w)
  BY <1>3, <1>4, <1>5, <1>8, <1>12 DEF Await, Free
<1>13. CASE Reconcile(w)
  <2>1. m # Free /\ UNCHANGED chain
    <3>1. m.at = "holding" /\ UNCHANGED chain
      BY <1>3, <1>13 DEF Reconcile
    <3>. QED
      BY <3>1 DEF Free
  <2>2. CASE step(w, "CONFIRMATION_UNKNOWN", "asking evidence")
    BY <1>4, <1>5, <1>8, <2>1, <2>2
  <2>3. CASE worker' = [worker EXCEPT ![w].at = "asking evidence"] /\ record' = record
    <3>1. PICK n : n = [m EXCEPT !.at = "asking evidence"]
      OBVIOUS
    <3>2. n.wf = m.wf /\ n.copy = m.copy /\ n.stale = m.stale
      BY <1>7, <2>1, <3>1 DEF Busy
    <3>. QED
      BY <1>3, <1>4, <1>6, <2>1, <2>3, <3>1, <3>2
  <2>4. CASE Answer(w, Redo(m.copy)) /\ record' = record
    <3>1. PICK n : n = [m EXCEPT !.at = "answered", !.to = Redo(m.copy)]
      OBVIOUS
    <3>2. n.wf = m.wf /\ n.copy = m.copy /\ n.stale = m.stale
      BY <1>7, <2>1, <3>1 DEF Busy
    <3>3. worker' = [worker EXCEPT ![w] = n]
      BY <1>3, <2>4, <3>1 DEF Answer
    <3>. QED
      BY <1>4, <1>6, <2>1, <2>4, <3>2, <3>3
  <2>. QED
    BY <1>3, <1>13, <2>2, <2>3, <2>4 DEF Reconcile
<1>14. CASE AskEvidence(w)
  <2>1. m # Free /\ record' = record /\ UNCHANGED chain
    <3>1. m.at = "asking evidence" /\ record' = record /\ UNCHANGED chain
      BY <1>3, <1>14 DEF AskEvidence
    <3>2. m.at # "free"
      BY <3>1
    <3>3. m # Free
      BY <3>2 DEF Free
    <3>. QED
      BY <3>1, <3>3
  <2>2. PICK n : n = IF evidenceIsCommitted(m.wf)
                     THEN [m EXCEPT !.at = "answered", !.to = "EVIDENCE_COMMIT_CONFIRMED"]
                     ELSE [m EXCEPT !.at = "asking version"]
    OBVIOUS
  <2>3. n.wf = m.wf /\ n.copy = m.copy /\ n.stale = m.stale
    BY <1>7, <2>1, <2>2 DEF Busy
  <2>4. worker' = [worker EXCEPT ![w] = n]
    BY <1>3, <1>14, <2>2 DEF AskEvidence, Answer
  <2>. QED
    BY <1>4, <1>6, <2>1, <2>3, <2>4
<1>15. CASE AskVersion(w)
  <2>1. m # Free /\ record' = record /\ UNCHANGED chain
    <3>1. m.at = "asking version" /\ record' = record /\ UNCHANGED chain
      BY <1>3, <1>15 DEF AskVersion
    <3>2. m.at # "free"
      BY <3>1
    <3>3. m # Free
      BY <3>2 DEF Free
    <3>. QED
      BY <3>1, <3>3
  <2>2. PICK to : to = IF versionIsOnChain(m.copy.passportVersion)
                       THEN "PASSPORT_COMMIT_CONFIRMED" ELSE Redo(m.copy)
    OBVIOUS
  <2>3. PICK n : n = [m EXCEPT !.at = "answered", !.to = to]
    OBVIOUS
  <2>4. n.wf = m.wf /\ n.copy = m.copy /\ n.stale = m.stale
    BY <1>7, <2>1, <2>3 DEF Busy
  <2>5. worker' = [worker EXCEPT ![w] = n]
    BY <1>3, <1>15, <2>2, <2>3 DEF AskVersion, Answer
  <2>. QED
    BY <1>4, <1>6, <2>1, <2>4, <2>5
<1>16. CASE Resolve(w)
  <2>1. m # Free /\ m.at = "answered" /\ step(w, m.to, "holding") /\ UNCHANGED chain
    BY <1>3, <1>16 DEF Resolve, Free
  <2>2. m.to \in Admitted
    BY <1>7, <1>8, <2>1 DEF Held, Concluded
  <2>. QED
    BY <1>4, <1>5, <2>1, <2>2
<1>17. CASE Crash(w)
  <2>1. worker' = [worker EXCEPT ![w] = Free] /\ record' = record /\ UNCHANGED chain
    BY <1>17 DEF Crash
  <2>2. OnceOK(T)'
    BY <1>2, <2>1, GoingOnIsOnce
  <2>. QED
    BY <1>4, <2>1, <2>2
<1>. QED
  BY <1>1, <1>9, <1>10, <1>11, <1>12, <1>13, <1>14, <1>15, <1>16, <1>17, DriveIsOnce, SubmitIsOnce

\* The scripts send no Passport of a workflow.
LEMMA ScriptsAreOnce ==
  ASSUME CitesAreApart, InOrder(txs), ScriptsOK(txs), OnceOK(txs), ScriptsNext, UNCHANGED workflowVars
  PROVE  OnceOK(txs)'
<1>1. ASSUME OnceOK(txs')
      PROVE  OnceOK(txs)'
  BY <1>1 DEF OnceOK, SentAsChosen, CopyAgrees, Chosen, workflowVars
<1>2. CASE txs' = txs
  BY <1>1, <1>2
<1>3. CASE SendCall
  <2>1. script \in ScriptRuns /\ script.done \in 0..2
    BY <1>3 DEF SendCall, ScriptsOK, RunOK, NotRunning
  <2>2. script.fixture \in Fixtures /\ script.nextVersion \in Nat /\ script.done + 1 \in 1..3
    BY <2>1 DEF ScriptRuns
  <2>3. PICK tx : tx = Calls(script.fixture, script.nextVersion)[script.done + 1]
    OBVIOUS
  <2>4. tx \in Transactions
    BY <2>2, <2>3, ScriptCallIs
  <2>5. tx \in {EvidenceTx(EvidenceOf[script.fixture]),
                PassportTx({EvidenceOf[script.fixture]}, script.nextVersion), EpochTx}
    <3>1. script.done + 1 = 1 \/ script.done + 1 = 2 \/ script.done + 1 = 3
      BY <2>2
    <3>. QED
      BY <2>3, <3>1 DEF Calls
  <2>6. tx.kind = "passport" => tx.evidence = {EvidenceOf[script.fixture]}
    BY <2>5 DEF EvidenceTx, PassportTx, EpochTx
  <2>7. \A wf \in Workflows : ~(tx.kind = "passport" /\ tx.evidence = Cites[wf])
    BY <2>2, <2>6 DEF CitesAreApart
  <2>8. PICK b : b = <<tx>>
    OBVIOUS
  <2>9. b \in Seq(Transactions) /\ \A n \in 1..Len(b) : b[n] = tx
    BY <2>4, <2>8
  <2>10. txs \in Seq(Transactions) /\ txs' = txs \o b
    BY <1>3, <2>3, <2>8 DEF SendCall, send, InOrder
  <2>11. OnceOK(txs \o b)
    BY <2>7, <2>9, <2>10, SentAfter
  <2>. QED
    BY <1>1, <2>10, <2>11
<1>. QED
  BY <1>2, <1>3 DEF ScriptsNext, StartCommit, ReconcilePassport, Receipt, StopCommit, Verify, chain

\* Nor does the chain.
LEMMA MiningIsOnce ==
  ASSUME InOrder(txs), OnceOK(txs), ChainNext, UNCHANGED workflowVars
  PROVE  OnceOK(txs)'
<1>1. GrowsTo(txs, txs') /\ DOMAIN txs' = DOMAIN txs
  <2>1. ASSUME NEW i \in Txs, Mine(i)
        PROVE  GrowsTo(txs, txs') /\ DOMAIN txs' = DOMAIN txs
    BY <2>1, MiningGrows DEF Mine
  <2>2. ASSUME NEW e \in Evidence, Invalidate(e)
        PROVE  GrowsTo(txs, txs') /\ DOMAIN txs' = DOMAIN txs
    BY <2>2, GrowsToItself DEF Invalidate
  <2>. QED
    BY <2>1, <2>2 DEF ChainNext
<1>2. OnceOK(txs')
  BY <1>1, SentStays DEF GrowsTo
<1>. QED
  BY <1>2 DEF OnceOK, SentAsChosen, CopyAgrees, Chosen, workflowVars

\* Of Passports that landed no two have one version.
LEMMA VersionsAreApart ==
  ASSUME NEW T, InOrder(T), NEW i \in LandedIn(T, "passport"), NEW k \in LandedIn(T, "passport"),
         T[i].version = T[k].version
  PROVE  i = k
<1>1. PICK L : L = LandedIn(T, "passport")
  OBVIOUS
<1>2. PICK n : n = VersionIn(T)
  OBVIOUS
<1>3. IsFiniteSet(L) /\ n \in Nat /\ Cardinality(L) = n
  <2>1. T \in Seq(Transactions)
    BY DEF InOrder
  <2>. QED
    BY <1>1, <1>2, <2>1, LandedIsFinite DEF VersionIn
<1>4. PICK f : f = [l \in L |-> T[l].version]
  OBVIOUS
<1>5. f \in Surjection(L, 1..n)
  <2>1. \A l \in L : T[l].version \in 1..n
    BY <1>1, <1>2 DEF InOrder
  <2>2. \A v \in 1..n : \E l \in L : T[l].version = v
    BY <1>1, <1>2 DEF InOrder
  <2>. QED
    BY <1>4, <2>1, <2>2 DEF Surjection
<1>6. Cardinality(1..n) = n
  BY <1>3, FS_Interval
<1>7. f \in Injection(L, 1..n)
  BY <1>3, <1>5, <1>6, FS_Surjection
<1>. QED
  BY <1>1, <1>4, <1>7 DEF Injection, IsInjective

\* OnePassportPerWorkflow (workflow-store.ts reconcile, step): for any number of workers, crashes,
\* lost receipts and resubmissions, a workflow's Passport lands once, provided that the stamps of
\* two workers' saves differ.
THEOREM OnePassportLands ==
  ASSUME StampsTellApart, CitesAreApart
  PROVE  PassportsSpec => []OnePassportPerWorkflow
<1>1. PassportsInit => OnceOK(txs)
  BY DEF PassportsInit, WorkflowInit, OnceOK, SentAsChosen, CopyAgrees
<1>2. PassportsOK /\ OnceOK(txs) /\ [PassportsNext]_passportVars => OnceOK(txs)'
  <2>. SUFFICES ASSUME PassportsOK, OnceOK(txs), [PassportsNext]_passportVars
                PROVE  OnceOK(txs)'
    OBVIOUS
  <2>1. CASE ChainNext /\ UNCHANGED <<workflowVars, scriptVars>>
    BY <2>1, MiningIsOnce DEF PassportsOK
  <2>2. CASE WorkflowNext
    BY <2>2, WorkflowsAreOnce DEF PassportsOK
  <2>3. CASE ScriptsNext /\ UNCHANGED workflowVars
    BY <2>3, ScriptsAreOnce DEF PassportsOK
  <2>4. CASE UNCHANGED passportVars
    BY <2>4 DEF OnceOK, SentAsChosen, CopyAgrees, Chosen, passportVars, workflowVars, chain
  <2>. QED
    BY <2>1, <2>2, <2>3, <2>4 DEF PassportsNext
<1>3. PassportsOK /\ OnceOK(txs) => OnePassportPerWorkflow
  <2>. SUFFICES ASSUME PassportsOK, OnceOK(txs), NEW wf \in Workflows
                PROVE  Cardinality(PassportsOf(wf)) <= 1
    BY DEF OnePassportPerWorkflow
  <2>1. PICK P : P = PassportsOf(wf)
    OBVIOUS
  <2>2. P = {i \in LandedIn(txs, "passport") : txs[i].evidence = Cites[wf]}
    BY <2>1, ChainIs DEF PassportsOf
  <2>3. ASSUME NEW i \in P, NEW k \in P
        PROVE  i = k
    <3>1. txs[i].version = txs[k].version
      BY <2>2 DEF OnceOK, SentAsChosen, Chosen, LandedIn
    <3>. QED
      BY <2>2, <3>1, VersionsAreApart DEF PassportsOK
  <2>4. CASE P = {}
    BY <2>1, <2>4, FS_EmptySet
  <2>5. CASE P # {}
    <3>1. PICK i \in P : TRUE
      BY <2>5
    <3>2. P = {i}
      BY <2>3, <3>1
    <3>. QED
      BY <2>1, <3>2, FS_Singleton
  <2>. QED
    BY <2>4, <2>5
<1>. QED
  BY <1>1, <1>2, <1>3, PassportsAreOK, PTL DEF PassportsSpec
=============================================================================
