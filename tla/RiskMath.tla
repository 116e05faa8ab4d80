------------------------------ MODULE RiskMath ------------------------------
(***************************************************************************)
(* contracts/src/libraries/RiskMath.sol: the pure valuation and capacity   *)
(* pipeline and the interest formulas, over naturals. The scales (BPS, WAD *)
(* and the year) are parameters, so that small instances round as often as *)
(* the real ones. Ages stand for the saturating differences of timestamps  *)
(* that _age computes.                                                     *)
(***************************************************************************)
EXTENDS FixedPoint, Integers, SequencesExt

CONSTANTS
  BPS,             (* Types.BPS: the whole, in basis points           *)
  WAD,             (* Types.WAD: the whole, for the borrow index      *)
  SecondsPerYear   (* Types.SECONDS_PER_YEAR                          *)

ASSUME Scales ==
  /\ BPS \in Nat \ {0}
  /\ WAD \in Nat \ {0}
  /\ SecondsPerYear \in Nat \ {0}

(* Types.AccountStatus: the ordinals are a total order of restrictiveness.  *)
NORMAL == 0
NO_NEW_RISK == 1
REDUCE_ONLY == 2
MARGIN_CALL == 3
LIQUIDATING == 4
SETTLED == 5
BAD_DEBT == 6

AccountStatus == NORMAL..BAD_DEBT

-----------------------------------------------------------------------------
(* Valuation of one position: a record with quantity, unit, price, priceAge, *)
(* passport (age, status, redemption), assetStatus, params and curve.        *)

\* The first tier at or above the position, past the last one the last one.
selectRecoveryBps(curve, marketValue) ==
  LET fits == {i \in DOMAIN curve : marketValue <= curve[i].threshold}
  IN  curve[IF fits = {} THEN Len(curve) ELSE Min(fits)].recovery

marketValue(a) == MulDiv(a.quantity, a.price, a.unit)

\* The haircuts apply one after the other, each rounding down.
haircutMark(a) ==
  FoldLeft(LAMBDA v, cut : MulDiv(v, BPS - cut, BPS), marketValue(a), a.params.haircuts)

stressedExit(a) ==
  MulDiv(marketValue(a), selectRecoveryBps(a.curve, marketValue(a)), BPS)

redemptionFloor(a) == MulDiv(marketValue(a), a.passport.floor, BPS)

\* The redemption floor takes part only where redemption exists.
recognized(a) ==
  Min({haircutMark(a), stressedExit(a)}
        \cup (IF a.passport.redeemable THEN {redemptionFloor(a)} ELSE {}))

\* The restrictions an asset's inputs imply; holding nothing of it implies none.
assetGates(a) ==
  {g \in {"ORACLE_STALE", "ORACLE_INVALID", "PASSPORT_STALE", "CLAIM_CONFLICT", "ASSET_SUSPENDED"} :
     /\ a.quantity # 0
     /\ \/ g = "ORACLE_STALE" /\ a.priceAge > a.params.maxOracleAge
        \/ g = "ORACLE_INVALID" /\ a.price = 0
        \/ g = "PASSPORT_STALE" /\ a.passport.age > a.params.maxPassportAge
        \/ g = "CLAIM_CONFLICT" /\ a.passport.status = "CONFLICTED"
        \/ g = "ASSET_SUSPENDED" /\ "SUSPENDED" \in {a.passport.status, a.assetStatus}}

-----------------------------------------------------------------------------
(* The portfolio: `inputs` is the sequence of held positions, `acct` has     *)
(* scaledPrincipal, borrowIndex, reservedUsd18 and statusOverride.           *)

Total(seq) == FoldLeft(LAMBDA x, y : x + y, 0, seq)

debtAt(scaled, index) == MulDivUp(scaled, index, WAD)

\* Each position capped against the uncapped total, in one pass.
cappedValues(inputs) ==
  LET values == [i \in DOMAIN inputs |-> recognized(inputs[i])]
      raw    == Total(values)
  IN  [i \in DOMAIN inputs |->
         Least(values[i], MulDiv(raw, inputs[i].params.maxConcentration, BPS))]

baseStatus(debt, limits) ==
  IF debt <= limits.borrow THEN NORMAL
  ELSE IF debt <= limits.maintenance THEN NO_NEW_RISK
  ELSE IF debt <= limits.liquidation THEN REDUCE_ONLY
  ELSE MARGIN_CALL

\* The portfolio-wide gates at time t, with the age of the restart saturating.
sequencerGatesAt(seq, t) ==
  {g \in {"SEQUENCER_DOWN", "SEQUENCER_GRACE"} :
     IF seq.up THEN g = "SEQUENCER_GRACE" /\ Monus(t, seq.lastRestartAt) < seq.gracePeriod
     ELSE g = "SEQUENCER_DOWN"}

\* The whole pipeline. `sequencerGates` are the portfolio-wide gates.
evaluate(inputs, acct, sequencerGates) ==
  LET capped == cappedValues(inputs)
      limit(ltv(_)) ==
        Total([i \in DOMAIN inputs |-> MulDiv(capped[i], ltv(inputs[i].params), BPS)])
      limits == [borrow      |-> limit(LAMBDA p : p.initialLtv),
                 maintenance |-> limit(LAMBDA p : p.maintenanceLtv),
                 liquidation |-> limit(LAMBDA p : p.liquidationLtv)]
      debt   == debtAt(acct.scaledPrincipal, acct.borrowIndex)
      gates  == UNION {assetGates(inputs[i]) : i \in DOMAIN inputs} \cup sequencerGates
      floor  == IF gates = {} THEN NORMAL ELSE NO_NEW_RISK
      status == Greatest(Greatest(baseStatus(debt, limits), floor), acct.statusOverride)
  IN  [limits    |-> limits,
       debt      |-> debt,
       gates     |-> gates,
       status    |-> status,
       available |-> IF status = NORMAL
                     THEN Monus(limits.borrow, debt + acct.reservedUsd18) ELSE 0]

-----------------------------------------------------------------------------
(* Interest.                                                                 *)

\* The two-slope utilisation curve, an annual rate in basis points.
borrowRateBps(cash, borrows, rate) ==
  IF borrows = 0 THEN rate.base
  ELSE LET u == MulDiv(borrows, BPS, cash + borrows) IN
       IF u <= rate.kink THEN rate.base + MulDiv(u, rate.slope1, rate.kink)
       ELSE rate.base + rate.slope1 + MulDiv(u - rate.kink, rate.slope2, BPS - rate.kink)

\* Linear within one accrual step and rounded down.
accrueIndex(index, rateBps, dt) == index + MulDiv(index, rateBps * dt, BPS * SecondsPerYear)
-----------------------------------------------------------------------------
(* packages/domain/src/risk.ts: the pipeline again, for the browser. It     *)
(* subtracts timestamps as signed numbers; a position has priceUpdatedAt    *)
(* and passport.committedAt where the kernel's has ages, and the sequencer  *)
(* is a record of up, lastRestartAt and gracePeriod.                        *)

previewRecoveryBps(curve, value) ==
  LET reached == SelectSeq(curve, LAMBDA tier : value <= tier.threshold)
  IN  (IF reached = <<>> THEN Last(curve) ELSE Head(reached)).recovery

previewValueAsset(a) ==
  LET market == MulDiv(a.quantity, a.price, a.unit)
      part(bps) == MulDiv(market, bps, BPS)
      mark == FoldLeft(LAMBDA m, h : MulDiv(m, BPS - h, BPS), market, a.params.haircuts)
      candidates == <<mark, part(previewRecoveryBps(a.curve, market))>>
                      \o (IF a.passport.redeemable THEN <<part(a.passport.floor)>> ELSE <<>>)
  IN  FoldLeft(Least, mark, candidates)

previewAssetGates(a, t) ==
  IF a.quantity = 0 THEN {}
  ELSE (IF t - a.priceUpdatedAt > a.params.maxOracleAge THEN {"ORACLE_STALE"} ELSE {})
    \cup (IF a.price <= 0 THEN {"ORACLE_INVALID"} ELSE {})
    \cup (IF t - a.passport.committedAt > a.params.maxPassportAge THEN {"PASSPORT_STALE"} ELSE {})
    \cup (IF a.passport.status = "CONFLICTED" THEN {"CLAIM_CONFLICT"} ELSE {})
    \cup (IF a.passport.status = "SUSPENDED" \/ a.assetStatus = "SUSPENDED" THEN {"ASSET_SUSPENDED"} ELSE {})

previewSequencerGates(seq, t) ==
  IF ~seq.up THEN {"SEQUENCER_DOWN"}
  ELSE IF t - seq.lastRestartAt < seq.gracePeriod THEN {"SEQUENCER_GRACE"} ELSE {}

\* (a * b - 1) / d + 1
previewMulDivUp(a, b, d) == IF a = 0 \/ b = 0 THEN 0 ELSE (a * b - 1) \div d + 1

previewEvaluate(assets, acct, seq, t) ==
  LET values == [i \in DOMAIN assets |-> previewValueAsset(assets[i])]
      raw    == Total(values)
      capped == [i \in DOMAIN assets |->
                   Least(values[i], MulDiv(raw, assets[i].params.maxConcentration, BPS))]
      limits == FoldLeft(
        LAMBDA sum, i : [borrow      |-> sum.borrow + MulDiv(capped[i], assets[i].params.initialLtv, BPS),
                         maintenance |-> sum.maintenance + MulDiv(capped[i], assets[i].params.maintenanceLtv, BPS),
                         liquidation |-> sum.liquidation + MulDiv(capped[i], assets[i].params.liquidationLtv, BPS)],
        [borrow |-> 0, maintenance |-> 0, liquidation |-> 0], [i \in DOMAIN assets |-> i])
      debt   == previewMulDivUp(acct.scaledPrincipal, acct.borrowIndex, WAD)
      gates  == previewSequencerGates(seq, t)
                  \cup UNION {previewAssetGates(assets[i], t) : i \in DOMAIN assets}
      base   == CASE debt = 0 \/ debt <= limits.borrow -> NORMAL
                  [] debt > limits.borrow /\ debt <= limits.maintenance -> NO_NEW_RISK
                  [] debt > limits.maintenance /\ debt <= limits.liquidation -> REDUCE_ONLY
                  [] OTHER -> MARGIN_CALL
      status == FoldLeft(Greatest, NORMAL,
                         <<base, IF gates # {} THEN NO_NEW_RISK ELSE NORMAL, acct.statusOverride>>)
      used   == debt + acct.reservedUsd18
  IN  [limits    |-> limits,
       debt      |-> debt,
       gates     |-> gates,
       status    |-> status,
       available |-> IF status = NORMAL /\ limits.borrow > used THEN limits.borrow - used ELSE 0]
=============================================================================
