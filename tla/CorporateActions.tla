-------------------------- MODULE CorporateActions --------------------------
(***************************************************************************)
(* Corporate-action snapshots: how an observation of the chain replaces    *)
(* the current one (packages/corp-actions/src/ingestion.ts), the factor it *)
(* gives (quantity.ts) and the quantity handed to the risk pipeline        *)
(* (risk-bridge.ts).                                                       *)
(*                                                                         *)
(* A snapshot is [block, tx, event, factor, pending, feed]; an observation *)
(* is one whose feed is LIVE, with the head it was read under.  At the end *)
(* the share pool that takes custody of a rebasing token.                  *)
(***************************************************************************)
EXTENDS Integers, FixedPoint, FiniteSets, Functions

CONSTANTS
  One,             \* WAD: the neutral factor
  SafeDepth,       \* safeDepthBlocks of the domain
  AccountingMode,  \* of the instrument: EXTERNALLY_SCALED or REBASING_BALANCE
  PriceConvention, \* FACTOR_IN_PRICE or FACTOR_IN_QUANTITY
  Holders          \* of pool shares

ASSUME CorporateConstants ==
  /\ One \in Nat \ {0} /\ SafeDepth \in Nat /\ IsFiniteSet(Holders)
  /\ AccountingMode \in {"EXTERNALLY_SCALED", "REBASING_BALANCE"}
  /\ PriceConvention \in {"FACTOR_IN_PRICE", "FACTOR_IN_QUANTITY"}

NoEvent == <<0, 0>>
None == 0
NoSnapshot == [block |-> 0, tx |-> 0, event |-> NoEvent, factor |-> One, pending |-> None,
               feed |-> "NONE"]

Deep(observedAt, head) == head - observedAt >= SafeDepth

\* Variant: an observation is believed at any depth.
stagedAsRead(observed, head) == observed

staged(observed, head) ==
  IF Deep(observed.block, head) THEN observed ELSE [observed EXCEPT !.feed = "STALE"]

\* The snapshot after an observation: a duplicate delivery leaves it alone, a newer
\* block is adopted, and an earlier or equal one that tells otherwise is taken for
\* the outcome of a reorganisation.
reconcileSnapshot(current, observed, head) ==
  LET duplicate == /\ observed.event # NoEvent /\ observed.event = current.event
                   /\ observed.block <= current.block
      differs == observed.event # current.event \/ observed.factor # current.factor
  IN  IF current = NoSnapshot \/ (~duplicate /\ (observed.block > current.block \/ differs))
      THEN staged(observed, head)
      ELSE current

\* effectiveFactor: a change that is announced, activated or not, counts if it lowers
\* the factor, and restricts either way.
restrictNewRisk(snap) == snap.feed # "LIVE" \/ snap.pending # None

effectiveFactor(snap) ==
  IF snap.pending = None THEN snap.factor ELSE Least(snap.factor, snap.pending)

effectiveQuantity(stored, snap) ==
  MulDiv(stored, effectiveFactor(snap),
         IF AccountingMode = "EXTERNALLY_SCALED" THEN One ELSE snap.factor)

\* toRiskQuantity: the factor is applied once, on the side the price does not carry it.
quantityForPipeline(stored, snap) ==
  IF PriceConvention = "FACTOR_IN_PRICE" THEN stored ELSE effectiveQuantity(stored, snap)

\* positionView and aggregatePortfolio (services/indexer/src/facility.ts): a position
\* is counted only if it was read deep enough under a head that is known.
Unreachable == -1
finality(observedAt, head) ==
  CASE head = Unreachable        -> "unknown"
    [] Deep(observedAt, head)    -> "safe"
    [] OTHER                     -> "stale"
counted(view) == finality(view.block, view.head) = "safe"

-----------------------------------------------------------------------------
(* Share-based custody of a rebasing token (packages/corp-actions/src/     *)
(* pool.ts).  Shares redeem against the token balance less the surplus     *)
(* that backs none of them.  A pool is [shares, balance, surplus];         *)
(* totalShares, which every action of the code moves with the shares, is   *)
(* their sum.                                                              *)

emptyPool == [shares |-> [h \in Holders |-> 0], balance |-> 0, surplus |-> 0]

totalShares(p) == SumFunctionOnSet(p.shares, Holders)
backedBalance(p) == p.balance - p.surplus
effectiveOf(p, h) ==
  IF totalShares(p) = 0 THEN 0 ELSE MulDiv(p.shares[h], backedBalance(p), totalShares(p))

\* Variant: a token deposited is a share, whatever a share is worth by now.
mintedOneForOne(p, value) == value

\* With nothing behind the shares the deposit is measured against itself.
minted(p, value) ==
  IF totalShares(p) = 0 THEN value
  ELSE MulDiv(value, totalShares(p), IF backedBalance(p) = 0 THEN value ELSE backedBalance(p))

deposited(p, h, value) ==
  [p EXCEPT !.shares[h] = @ + minted(p, value), !.balance = @ + value]

\* WITHDRAW and LIQUIDATION_SEIZE
rawOut(p, count) == MulDiv(count, backedBalance(p), totalShares(p))
redeemed(p, h, count) ==
  [p EXCEPT !.shares[h] = @ - count, !.balance = @ - rawOut(p, count)]

\* REBASE with provenance: the surplus moves with the rest.
rebased(p, balance) ==
  [p EXCEPT !.balance = balance,
            !.surplus = IF p.balance = 0 THEN @ ELSE MulDiv(@, balance, p.balance)]

\* REBASE without provenance: the increase belongs to nobody.
donated(p, balance) ==
  [p EXCEPT !.balance = balance, !.surplus = @ + (balance - p.balance)]

charged(p, fee) == [p EXCEPT !.balance = @ - fee]
=============================================================================
