-------------------------- MODULE PortfolioCredit ---------------------------
(***************************************************************************)
(* Revolving credit against a portfolio (contracts/src/base:               *)
(* PortfolioRevolvingCredit.sol, RebasingCollateralVault.sol), and what    *)
(* admitted collateral counts for together (packages/portfolio-            *)
(* risk/src/evaluate.ts, the same as PortfolioRiskEngine.sol): every       *)
(* position is scaled to the tightest of the caps on the groups it shares  *)
(* and of its market session, and the worst stress scenario bounds the     *)
(* sum.                                                                    *)
(*                                                                         *)
(* One borrower pledges shares of rebasing tokens, valued again from       *)
(* prices, factors, sessions and feeds at every call.                      *)
(* ScaledCollateralVault.sol is the case of a token whose factor never     *)
(* moves. The market and the tokens are external. A borrower quotes at the *)
(* block of the draw, so the comparison of snapshot digests always passes. *)
(***************************************************************************)
EXTENDS FixedPoint, FiniteSetsExt, Functions, TLC

(* The evaluation.  A portfolio is a function from instruments, already merged by id, to  *)
(* [single, session, groups, depth]; "" is a group that is not known.                     *)

CONSTANTS
  Dimensions,      \* UNDERLYING, ISSUER, CUSTODY, SECTOR, LIQUIDITY
  CapBps,          \* dimension -> [NAMED, UNKNOWN]
  SessionFactorBps,
  Scenarios,       \* stress scenarios: [haircutBps, groups, sessions]
  Wad, Bps

\* What evaluatePortfolio checks of a policy before it uses it.
ASSUME PolicyIsSound ==
  /\ Wad \in Nat \ {0} /\ Bps \in Nat \ {0}
  /\ \A d \in Dimensions : /\ CapBps[d].UNKNOWN \in Nat /\ CapBps[d].NAMED \in 0..Bps
                           /\ CapBps[d].UNKNOWN <= CapBps[d].NAMED

Lowest(values) == CHOOSE least \in values : \A v \in values : least <= v
TotalOver(ps, instruments) ==
  SumFunctionOnSet([i \in instruments |-> ps[i].single], instruments)
base(ps) == TotalOver(ps, DOMAIN ps)

\* LIQUIDITY binds only positions that declare a route of positive depth.
Exempt(p, d) == d = "LIQUIDITY" /\ (p.groups[d] = "" \/ p.depth = 0)
kind(p, d) == IF p.groups[d] = "" THEN "UNKNOWN" ELSE "NAMED"

\* Variant: a position is measured against the cap alone.
groupMatesAlone(ps, i, d) == {i}

groupMates(ps, i, d) ==
  {j \in DOMAIN ps : ~Exempt(ps[j], d) /\ ps[j].groups[d] = ps[i].groups[d]}

allowed(ps, i, d) ==
  LET cap == MulDiv(base(ps), CapBps[d][kind(ps[i], d)], Bps)
  IN  IF d = "LIQUIDITY"
      THEN Least(cap, Lowest({ps[j].depth : j \in groupMates(ps, i, d)}))
      ELSE cap

\* dimensionScales
dimScale(ps, i, d) ==
  LET total == TotalOver(ps, groupMates(ps, i, d))
  IN  IF Exempt(ps[i], d) \/ total = 0 THEN Wad
      ELSE Least(Wad, MulDiv(allowed(ps, i, d), Wad, total))

sessionScaleWad(session) == MulDiv(Least(Bps, SessionFactorBps[session]), Wad, Bps)

positionScale(ps, i) ==
  Lowest({sessionScaleWad(ps[i].session)} \cup {dimScale(ps, i, d) : d \in Dimensions})

working(ps, i) == MulDiv(ps[i].single, positionScale(ps, i), Wad)

Hit(p, s) == p.session \in s.sessions \/ \E d \in Dimensions : p.groups[d] \in s.groups \ {""}
stressed(ps, s) ==
  MapThenSumSet(LAMBDA i : IF Hit(ps[i], s)
                           THEN MulDiv(working(ps, i), Bps - s.haircutBps, Bps)
                           ELSE working(ps, i), DOMAIN ps)

recognized(ps) ==
  Lowest({MapThenSumSet(LAMBDA i : working(ps, i), DOMAIN ps)}
           \cup {stressed(ps, s) : s \in Scenarios})

-----------------------------------------------------------------------------
(* The facility. *)

CONSTANTS
  Listings,           \* instrument -> [recognitionBps, groups, depth], as admitted
  Quotes,             \* what the market may say: [price, factor, session, feed]
  FactorOne,          \* the factor at which a share is a unit
  FacilityLimit, MaxLtvBps, LiquidationLtvBps, SafetyBufferBps, OriginationFeeBps,
  MaxInstruments,
  MaxHeld,            \* bound: shares of one token in the vault
  MaxFunds            \* bound: the facility's settlement cash

ASSUME CreditTerms ==
  /\ FactorOne \in Nat \ {0} /\ SafetyBufferBps <= Bps /\ MaxLtvBps <= LiquidationLtvBps
  /\ \A q \in Quotes : q.factor \in Nat \ {0}
  /\ \E q \in Quotes : q.feed = "LIVE"

VARIABLES
  facilityStatus,     \* DRAFT, ACTIVE or SETTLED; nothing sets the other states
  outstandingDebt,
  funds,              \* settlement tokens in the facility
  admitted,           \* instruments
  claimShares,        \* instrument -> the borrower's shares
  heldShares,         \* instrument -> the vault's shares of the token
  market              \* instrument -> quote

creditVars ==
  <<facilityStatus, outstandingDebt, funds, admitted, claimShares, heldShares, market>>
custody == <<claimShares, heldShares>>

Listed == DOMAIN Listings

-----------------------------------------------------------------------------
(* Custody.  The token rounds a transfer up to whole shares.               *)

displayed(i, shares) == MulDiv(shares, market[i].factor, FactorOne)
sharesFor(i, units) == MulDivUp(units, FactorOne, market[i].factor)

\* _adjustedForShares
valuation(i, shares) ==
  IF shares = 0 \/ heldShares[i] = 0 THEN 0
  ELSE MulDiv(shares, displayed(i, heldShares[i]), heldShares[i])

\* _withdraw, which reverts when more shares leave than were claimed.
leaving(i, claim) == sharesFor(i, valuation(i, claim))
CanLeave(i, claim) == claim \in 1..claimShares[i] /\ leaving(i, claim) <= claim
release(claims) ==
  /\ \A i \in DOMAIN claims : CanLeave(i, claims[i])
  /\ claimShares' = [i \in Listed |-> IF i \in DOMAIN claims THEN claimShares[i] - claims[i]
                                      ELSE claimShares[i]]
  /\ heldShares' = [i \in Listed |-> IF i \in DOMAIN claims
                                     THEN heldShares[i] - leaving(i, claims[i])
                                     ELSE heldShares[i]]

-----------------------------------------------------------------------------
(* What the portfolio counts for. *)

\* _buildPosition
position(i, shares) ==
  [single |-> MulDiv(valuation(i, shares) * market[i].price, Listings[i].recognitionBps, Bps),
   session |-> market[i].session, groups |-> Listings[i].groups, depth |-> Listings[i].depth]

\* _recomputeWithDelta
portfolioOf(shares) ==
  FoldSet(LAMBDA i, pos : pos @@ (i :> position(i, shares[i])), <<>>, admitted)
recognizedWith(shares) == recognized(portfolioOf(shares))
allLive == \A i \in admitted : market[i].feed = "LIVE"

\* Variant: a withdrawal is judged by the portfolio as it still is.
afterWithdrawalUnchanged(i, claim) == claimShares

afterWithdrawal(i, claim) == [claimShares EXCEPT ![i] = Monus(@, claim)]

\* _maxDebt
maxDebt(value) == Least(MulDiv(value, MaxLtvBps, Bps), FacilityLimit)

isUnsafe ==
  allLive /\ outstandingDebt > MulDiv(recognizedWith(claimShares), LiquidationLtvBps, Bps)

-----------------------------------------------------------------------------
(* The facility's calls. *)

admitCollateral(i) ==
  /\ i \notin admitted /\ Cardinality(admitted) < MaxInstruments
  /\ admitted' = admitted \cup {i}
  /\ UNCHANGED <<facilityStatus, outstandingDebt, funds, custody, market>>

\* The lender's money, or what a liquidation's route sends back.
fund(amount) ==
  /\ funds + amount <= MaxFunds
  /\ funds' = funds + amount
  /\ UNCHANGED <<facilityStatus, outstandingDebt, admitted, custody, market>>

\* In any status; the adapter refuses a token whose state it cannot establish.
commitCollateral(i, requested) ==
  /\ i \in admitted /\ market[i].feed # "UNKNOWN"
  /\ heldShares[i] + sharesFor(i, requested) <= MaxHeld
  /\ claimShares' = [claimShares EXCEPT ![i] = @ + sharesFor(i, requested)]
  /\ heldShares' = [heldShares EXCEPT ![i] = @ + sharesFor(i, requested)]
  /\ UNCHANGED <<facilityStatus, outstandingDebt, funds, admitted, market>>

activate ==
  /\ facilityStatus = "DRAFT" /\ facilityStatus' = "ACTIVE"
  /\ UNCHANGED <<outstandingDebt, funds, admitted, custody, market>>

draw(amount) ==
  LET owed == outstandingDebt + amount + MulDivUp(amount, OriginationFeeBps, Bps) IN
  /\ facilityStatus = "ACTIVE" /\ amount <= funds /\ allLive
  /\ owed <= maxDebt(recognizedWith(claimShares))
  /\ outstandingDebt' = owed /\ funds' = funds - amount
  /\ UNCHANGED <<facilityStatus, admitted, custody, market>>

\* In any status; what exceeds the debt is refunded.
repay(amount) ==
  LET applied == Least(amount, outstandingDebt) IN
  /\ funds + applied <= MaxFunds
  /\ outstandingDebt' = outstandingDebt - applied /\ funds' = funds + applied
  /\ UNCHANGED <<facilityStatus, admitted, custody, market>>

withdrawCollateral(i, claim) ==
  /\ facilityStatus = "ACTIVE" /\ i \in admitted /\ allLive
  /\ outstandingDebt <=
       MulDiv(maxDebt(recognizedWith(afterWithdrawal(i, claim))), SafetyBufferBps, Bps)
  /\ release(i :> claim)
  /\ UNCHANGED <<facilityStatus, outstandingDebt, funds, admitted, market>>

\* In any status, and again after a later deposit.
settle ==
  LET pledged == {i \in admitted : claimShares[i] > 0} IN
  /\ outstandingDebt = 0
  /\ facilityStatus' = "SETTLED"
  /\ release([i \in pledged |-> claimShares[i]])
  /\ UNCHANGED <<outstandingDebt, funds, admitted, market>>

\* The debt falls by the oracle's price of what leaves, whatever the route pays.
liquidate(i, claim) ==
  /\ i \in admitted /\ isUnsafe
  /\ outstandingDebt' = Monus(outstandingDebt, valuation(i, claim) * market[i].price)
  /\ release(i :> claim)
  /\ UNCHANGED <<facilityStatus, funds, admitted, market>>

-----------------------------------------------------------------------------
(* Outside. *)

Moves(i) ==
  /\ \E q \in Quotes : market' = [market EXCEPT ![i] = q]
  /\ UNCHANGED <<facilityStatus, outstandingDebt, funds, admitted, custody>>

\* Shares sent to the vault are nobody's.
Gift(i) ==
  /\ heldShares[i] < MaxHeld
  /\ heldShares' = [heldShares EXCEPT ![i] = @ + 1]
  /\ UNCHANGED <<facilityStatus, outstandingDebt, funds, admitted, claimShares, market>>

CreditInit ==
  /\ facilityStatus = "DRAFT" /\ outstandingDebt = 0 /\ funds = 0 /\ admitted = {}
  /\ claimShares = [i \in Listed |-> 0] /\ heldShares = [i \in Listed |-> 0]
  /\ market = [i \in Listed |-> CHOOSE q \in Quotes : q.feed = "LIVE"]

CreditNext ==
  \/ activate \/ settle
  \/ \E amount \in 1..MaxFunds : fund(amount) \/ draw(amount) \/ repay(amount)
  \/ \E i \in Listed :
       \/ admitCollateral(i) \/ Moves(i) \/ Gift(i)
       \/ \E requested \in 1..MaxHeld : commitCollateral(i, requested)
       \/ \E claim \in 1..claimShares[i] : withdrawCollateral(i, claim) \/ liquidate(i, claim)

-----------------------------------------------------------------------------
\* Every claim on the vault is there, and may leave it whole or in parts: the token
\* takes no more shares for a claim's units than the claim has, whatever the factor,
\* so that _withdraw never refuses (RebasingCollateralVault, UnexpectedShareIncrease).
ClaimsCanLeave ==
  \A i \in Listed : /\ claimShares[i] <= heldShares[i]
                    /\ \A claim \in 1..claimShares[i] : leaving(i, claim) <= claim

\* What the borrower takes out, money or collateral, leaves the debt within the limit
\* that the next call computes from the shares and balances then in the vault, however
\* the token rounds and the caps overlap (withdrawCollateral, draw;
\* base-portfolio-facility-model.md section 9: "strictly safe, not merely <= maxDebt").
\* Only a liquidation may leave less.  And every claim may still leave.
TookOut ==
  \/ outstandingDebt' > outstandingDebt
  \/ (\E i \in Listed : claimShares'[i] < claimShares[i]) /\ ~isUnsafe
TakingOutLeavesRoom ==
  [][/\ TookOut => LET left == portfolioOf(claimShares)'
                    IN  outstandingDebt' <= maxDebt(recognized(left))
     /\ ClaimsCanLeave']_creditVars

=============================================================================
