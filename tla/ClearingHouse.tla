--------------------------- MODULE ClearingHouse ---------------------------
(***************************************************************************)
(* contracts/src/core/ClearingHouse.sol: the one entry point for financial *)
(* obligations, composed with the contracts it drives: CollateralVault,    *)
(* FinancingEngine and LiquidityVault. One external call is one step that  *)
(* makes every call the Solidity makes; a revert is a step not enabled.    *)
(* Prices, registry records and the sequencer are inputs that move on      *)
(* their own. Nothing in the repository calls recordBadDebt, reserveCash   *)
(* or serviceWithdrawalQueue, and the exit queue has its own module, so    *)
(* the pool appears here with those fields at rest.                        *)
(* The risk epoch lives in RiskInputs: a draw names the epoch it was       *)
(* quoted under or none at all, so its check takes no step away here.      *)
(***************************************************************************)
EXTENDS RiskMath, FiniteSetsExt

CONSTANTS
  Accounts, Assets, Lenders,
  Settlement,      (* settlementAssetId, a feed beside those of the assets   *)
  Policy,          (* by asset: unit, params, curve of its risk policy       *)
  Standings,       (* by asset: the registry records it may have, each with  *)
                   (* capable, assetStatus and passport                      *)
  SequencerStates, (* sets of portfolio-wide gates                           *)
  Prices,          (* by feed: the prices it may publish                     *)
  TokenUnit,       (* 10 ** decimals of the settlement token                 *)
  RateCurves,
  KeeperBps, ProtocolBps,   (* FeeController.splitLiquidationProceeds        *)
  Amounts,         (* dollars, tokens and units a call may name              *)
  Overrides,       (* the statuses a guardian may ask for                    *)
  MaxPriceAges,    (* settlement freshness governance may set                *)
  MaxAge,          (* bound: by feed, an age past every limit on it          *)
  MaxElapsed,      (* bound: time between two accruals                       *)
  MaxIndex,        (* bound: the borrow index                                *)
  MaxHolding,      (* bound: units of an asset held by an account            *)
  MaxSurplus,      (* bound: units sent to custody without a deposit         *)
  MaxCash,         (* bound: what lenders bring                              *)
  MaxGain          (* bound: what repayments and proceeds add to that        *)

Feeds == Assets \cup {Settlement}

ASSUME MarketConstants ==
  /\ IsFiniteSet(Accounts)
  /\ Assets \subseteq Nat /\ Settlement \notin Assets
  /\ TokenUnit \in Nat \ {0}
  /\ KeeperBps \in Nat /\ ProtocolBps \in Nat /\ KeeperBps + ProtocolBps <= BPS
  /\ Amounts \subseteq Nat \ {0}
  /\ Overrides \subseteq AccountStatus
  /\ MaxPriceAges \subseteq 1..(MaxAge[Settlement] - 1)
  /\ \A a \in Assets : Policy[a].params.maxOracleAge < MaxAge[a]
  /\ \A f \in Feeds : Prices[f] \subseteq Nat /\ MaxAge[f] \in Nat
  /\ \A r \in RateCurves : /\ {r.base, r.slope1, r.slope2} \subseteq Nat
                           /\ r.kink \in 1..(BPS - 1) /\ r.reserveFactor \in 0..BPS

\* What the registries admit an asset with: validParams and validCurve of its policy, a token
\* with decimals, and a redemption floor that is unsigned.
ASSUME PolicyConstants ==
  \A a \in Assets :
    /\ Policy[a].unit \in Nat \ {0}
    /\ Policy[a].params.haircuts \in Seq(0..BPS)
    /\ {Policy[a].params.maxConcentration, Policy[a].params.initialLtv,
        Policy[a].params.maintenanceLtv} \subseteq Nat
    /\ Policy[a].params.initialLtv <= Policy[a].params.maintenanceLtv
    /\ Policy[a].curve \in Seq([threshold : Nat, recovery : Nat]) /\ Policy[a].curve # <<>>
    /\ \A s \in Standings[a] : s.passport.floor \in Nat

VARIABLES
  held,                 (* by account: asset ids in ascending order          *)
  reservedUsd18,        (* by account: promised to in-flight executions      *)
  statusOverride,       (* by account: the guardian's floor                  *)
  settlementFreshness,  (* maximum price age for new risk, 0: unconfigured   *)
  quotes,               (* oracle: price and age by feed                     *)
  standing,             (* AssetRegistry and PassportRegistry, by asset      *)
  sequencer,            (* the gates the sequencer raises                    *)
  balanceOf, totalDeposited, tokenBalance,                 (* CollateralVault *)
  borrowIndex, elapsed, totalScaledPrincipal, scaledPrincipalOf, rate,
                                                           (* FinancingEngine *)
  cash, totalPrincipal, accruedReceivables, reserves, shares, totalSupply
                                                           (* LiquidityVault *)

Custody == INSTANCE CollateralVault
Debt == INSTANCE FinancingEngine
Pool == INSTANCE LiquidityVault WITH
  ReserveFactors <- {}, MaxQueueSteps <- 1, MaxLoss <- 0, MaxRequests <- 0,
  reservedCash <- 0, badDebt <- 0, requests <- <<>>, nextRequestId <- 1, queueHead <- 1,
  queuedLiabilities <- 0, queuedFunded <- 0

custody == <<balanceOf, totalDeposited, tokenBalance>>
debtBook == <<totalScaledPrincipal, scaledPrincipalOf>>
financing == <<borrowIndex, elapsed, debtBook, rate>>
pool == <<cash, totalPrincipal, accruedReceivables, reserves, shares, totalSupply>>
accounts == <<held, reservedUsd18, statusOverride>>
inputs == <<quotes, standing, sequencer>>
vars == <<accounts, settlementFreshness, inputs, custody, financing, pool>>

-----------------------------------------------------------------------------
(* Units: dollars are converted at the settlement price, and only here.     *)

price == quotes[Settlement].price

SettlementPriced == price # 0

usd18ToTokens(usd) == MulDiv(usd, TokenUnit, price)
usd18ToTokensUp(usd) == MulDivUp(usd, TokenUnit, price)
tokensToUsd18(tokens) == MulDiv(tokens, price, TokenUnit)

\* New risk needs a configured bound and a price within it.
PricedForNewRisk ==
  /\ SettlementPriced
  /\ settlementFreshness # 0
  /\ quotes[Settlement].age <= settlementFreshness

freeCash == Pool!availableCash

debtOf(b) == Debt!debtOf(b, freeCash)

interestUsd18 == Debt!interestDelta(freeCash)

\* _accrueAndRecognise: interest is recognised on the vault in tokens, which takes a price.
CanRecognise == interestUsd18 # 0 => SettlementPriced

Receivables ==
  accruedReceivables + (IF interestUsd18 = 0 THEN 0 ELSE usd18ToTokens(interestUsd18))

-----------------------------------------------------------------------------
(* Risk assembly: every input is read live.                                 *)

assetInput(asset, quantity) ==
  [quantity    |-> quantity,
   unit        |-> Policy[asset].unit,
   price       |-> quotes[asset].price,
   priceAge    |-> quotes[asset].age,
   passport    |-> standing[asset].passport,
   assetStatus |-> standing[asset].assetStatus,
   params      |-> Policy[asset].params,
   curve       |-> Policy[asset].curve]

\* The health of an account with the listed assets in the given quantities and that debt.
HealthOf(list, quantity, scaled, index, reserved, override) ==
  evaluate([i \in DOMAIN list |-> assetInput(list[i], quantity[list[i]])],
           [scaledPrincipal |-> scaled,
            borrowIndex     |-> index,
            reservedUsd18   |-> reserved,
            statusOverride  |-> override],
           sequencer)

Holdings(b) == [a \in Assets |-> balanceOf[a][b]]

\* The account's health if it held the quantities `q` of its listed assets.
HealthWith(b, q) ==
  HealthOf(held[b], q, scaledPrincipalOf[b], Debt!currentIndex(freeCash), reservedUsd18[b],
           statusOverride[b])

accountHealth(b) == HealthWith(b, Holdings(b))

\* RiskMath reverts on a list out of order.
InOrder(b) == \A i, j \in DOMAIN held[b] : i < j => held[b][i] < held[b][j]

\* Variant: the account is checked as it stands before the withdrawal.
withdrawalWasSafe(b, asset, amount) ==
  /\ asset \in ToSet(held[b])
  /\ amount <= balanceOf[asset][b]
  /\ accountHealth(b).debt <= accountHealth(b).limits.maintenance

\* The account as it would stand without `amount` of the asset stays within maintenance.
withdrawalIsSafe(b, asset, amount) ==
  /\ asset \in ToSet(held[b])
  /\ amount <= balanceOf[asset][b]
  /\ LET health == HealthWith(b, [Holdings(b) EXCEPT ![asset] = @ - amount])
     IN  health.debt <= health.limits.maintenance

\* The list stays ascending: the newcomer passes the greater ids from the end.
InsertHeld(list, asset) ==
  IF asset \in ToSet(list) THEN list
  ELSE InsertAt(list, Max({0} \cup {i \in DOMAIN list : list[i] <= asset}) + 1, asset)

\* The list without the asset once nothing of it is left after `amount` leaves.
HeldAfter(b, asset, amount) ==
  IF balanceOf[asset][b] = amount THEN RemoveFirst(held[b], asset) ELSE held[b]

-----------------------------------------------------------------------------
Init ==
  /\ held = [b \in Accounts |-> <<>>]
  /\ reservedUsd18 = [b \in Accounts |-> 0]
  /\ statusOverride = [b \in Accounts |-> NORMAL]
  /\ settlementFreshness = 0
  /\ quotes \in [Feeds -> [price : UNION Range(Prices), age : {0}]]
  /\ \A f \in Feeds : quotes[f].price \in Prices[f]
  /\ standing \in [Assets -> UNION Range(Standings)]
  /\ \A a \in Assets : standing[a] \in Standings[a]
  /\ sequencer = {}
  /\ Custody!CustodyInit
  /\ Debt!FinancingInit
  /\ cash = 0 /\ totalPrincipal = 0 /\ accruedReceivables = 0 /\ reserves = 0
  /\ shares = [l \in Lenders |-> 0] /\ totalSupply = 0

(* Collateral. *)

AddCollateral(b, asset, amount, received) ==
  /\ standing[asset].capable
  /\ balanceOf[asset][b] + received <= MaxHolding
  /\ Custody!Deposit(asset, b, amount, received)
  /\ held' = [held EXCEPT ![b] = InsertHeld(@, asset)]
  /\ UNCHANGED <<reservedUsd18, statusOverride, settlementFreshness, inputs, financing, pool>>

WithdrawCollateral(b, asset, amount) ==
  /\ reservedUsd18[b] = 0
  /\ CanRecognise
  /\ InOrder(b)
  /\ withdrawalIsSafe(b, asset, amount)
  /\ Custody!Release(asset, b, amount)
  /\ held' = [held EXCEPT ![b] = HeldAfter(b, asset, amount)]
  /\ Debt!Accrue(freeCash)
  /\ Pool!Accrued(Receivables)
  /\ UNCHANGED <<reservedUsd18, statusOverride, settlementFreshness, inputs, debtBook, rate>>

(* Borrowing and repaying. *)

\* Bound: a debtor may pay in dust for ever, or more than the books expect; the exploration
\* stops there, though never for a repayment in full.
InBounds == cash + totalPrincipal + accruedReceivables <= MaxCash + MaxGain

PaysOut(tokensOut) == tokensOut > 0

Borrow(b, amount) ==
  LET health == accountHealth(b)
      tokensOut == usd18ToTokens(amount)
  IN
  /\ InBounds
  /\ PricedForNewRisk
  /\ InOrder(b)
  /\ health.status = NORMAL
  /\ amount <= health.available
  /\ PaysOut(tokensOut)
  /\ Debt!OnBorrow(b, amount, freeCash)
  /\ Pool!LendOver(Receivables, tokensOut)
  /\ UNCHANGED <<accounts, settlementFreshness, inputs, custody>>

\* Variant: what a repayment costs rounds in the payer's favour.
RepaymentCostDown(usd) == usd18ToTokens(usd)

RepaymentCost(usd) == usd18ToTokensUp(usd)

\* Variant: repaying needs the price that a draw needs.
PricedForRepay == PricedForNewRisk

\* Repaying needs a price, of any age.
PricedToRepay == SettlementPriced

\* By the account itself, or by a delegate through actOnBehalf with repayAll = FALSE.
Repay(b, amount, repayAll) ==
  LET target == IF repayAll THEN debtOf(b) ELSE Least(amount, debtOf(b)) IN
  /\ repayAll \/ InBounds
  /\ debtOf(b) # 0
  /\ PricedToRepay
  /\ Debt!OnRepay(b, target, repayAll, freeCash)
  /\ Pool!OnRepaidOver(Receivables, RepaymentCost(target), rate.reserveFactor)
  /\ UNCHANGED <<accounts, settlementFreshness, inputs, custody>>

(* Liquidation: the collateral leaves, the route pays `proceeds`, keeper and     *)
(* protocol take their cut and the rest retires debt as far as there is any.     *)

ToDebt(proceeds) ==
  proceeds - MulDiv(proceeds, KeeperBps, BPS) - MulDiv(proceeds, ProtocolBps, BPS)

ExecuteLiquidation(b, asset, amount, proceeds) ==
  LET health == accountHealth(b)
      applyUsd18 == Least(tokensToUsd18(ToDebt(proceeds)), health.debt)
      applyTokens == Least(usd18ToTokens(applyUsd18), ToDebt(proceeds))
  IN
  /\ InBounds
  /\ SettlementPriced
  /\ Custody!Release(asset, b, amount)
  /\ InOrder(b)
  /\ health.status >= MARGIN_CALL
  /\ health.debt # 0
  /\ Debt!OnRepay(b, applyUsd18, FALSE, freeCash)
  /\ Pool!OnRepaidOver(Receivables, applyTokens, rate.reserveFactor)
  /\ held' = [held EXCEPT ![b] = HeldAfter(b, asset, amount)]
  /\ UNCHANGED <<reservedUsd18, statusOverride, settlementFreshness, inputs>>

(* Reservations of the CLEARING role. *)

Reserve(b, amount) ==
  LET health == accountHealth(b) IN
  /\ InOrder(b)
  /\ health.status = NORMAL
  /\ amount <= health.available
  /\ reservedUsd18' = [reservedUsd18 EXCEPT ![b] = @ + amount]
  /\ UNCHANGED <<held, statusOverride, settlementFreshness, inputs, custody, financing, pool>>

Released(reserved, amount) == Monus(reserved, amount)

ReleaseReservation(b, amount) ==
  /\ reservedUsd18' = [reservedUsd18 EXCEPT ![b] = Released(@, amount)]
  /\ UNCHANGED <<held, statusOverride, settlementFreshness, inputs, custody, financing, pool>>

(* Guardian and governance. *)

SetAccountRiskState(b, status) ==
  /\ status > statusOverride[b]
  /\ statusOverride' = [statusOverride EXCEPT ![b] = status]
  /\ UNCHANGED <<held, reservedUsd18, settlementFreshness, inputs, custody, financing, pool>>

ClearAccountRiskState(b) ==
  /\ statusOverride' = [statusOverride EXCEPT ![b] = NORMAL]
  /\ UNCHANGED <<held, reservedUsd18, settlementFreshness, inputs, custody, financing, pool>>

SetSettlementMaxPriceAge(maxAge) ==
  /\ settlementFreshness' = maxAge
  /\ UNCHANGED <<accounts, inputs, custody, financing, pool>>

ClearSettlementFreshness ==
  /\ settlementFreshness' = 0
  /\ UNCHANGED <<accounts, inputs, custody, financing, pool>>

(* Calls that reach the other contracts directly. *)

\* FinancingEngine.accrue is public: the interest it reports goes to whoever called.
Poke ==
  /\ Debt!Accrue(freeCash)
  /\ UNCHANGED <<accounts, settlementFreshness, inputs, custody, debtBook, rate, pool>>

SetRateParams(r) ==
  /\ Debt!SetRateParams(r, freeCash)
  /\ UNCHANGED <<accounts, settlementFreshness, inputs, custody, pool>>

Supply(l, amount) ==
  /\ Pool!Supply(l, amount)
  /\ UNCHANGED <<accounts, settlementFreshness, inputs, custody, financing>>

Withdraw(l, s) ==
  /\ Pool!Withdraw(l, s)
  /\ UNCHANGED <<accounts, settlementFreshness, inputs, custody, financing>>

DonateCollateral(asset) ==
  /\ Custody!surplus(asset) < MaxSurplus
  /\ Custody!Donate(asset)
  /\ UNCHANGED <<accounts, settlementFreshness, inputs, financing, pool>>

(* Inputs. *)

Tick ==
  /\ elapsed < MaxElapsed
  /\ Debt!IndexAfter(elapsed + 1, freeCash) <= MaxIndex
  /\ elapsed' = elapsed + 1
  /\ quotes' = [f \in Feeds |-> [quotes[f] EXCEPT !.age = Least(@ + 1, MaxAge[f])]]
  /\ UNCHANGED <<accounts, settlementFreshness, standing, sequencer, custody, borrowIndex,
                 debtBook, rate, pool>>

Publish(feed, p) ==
  /\ quotes' = [quotes EXCEPT ![feed] = [price |-> p, age |-> 0]]
  /\ UNCHANGED <<accounts, settlementFreshness, standing, sequencer, custody, financing, pool>>

SetStanding(asset, s) ==
  /\ standing' = [standing EXCEPT ![asset] = s]
  /\ UNCHANGED <<accounts, settlementFreshness, quotes, sequencer, custody, financing, pool>>

SetSequencer(gates) ==
  /\ sequencer' = gates
  /\ UNCHANGED <<accounts, settlementFreshness, quotes, standing, custody, financing, pool>>

Next ==
  \/ \E b \in Accounts, a \in Assets, n \in Amounts : \E r \in 1..n : AddCollateral(b, a, n, r)
  \/ \E b \in Accounts, a \in Assets, n \in Amounts : WithdrawCollateral(b, a, n)
  \/ \E b \in Accounts, n \in Amounts : Borrow(b, n)
  \/ \E b \in Accounts, n \in Amounts, all \in BOOLEAN : Repay(b, n, all)
  \/ \E b \in Accounts, a \in Assets, n \in Amounts, p \in {0} \cup Amounts :
       ExecuteLiquidation(b, a, n, p)
  \/ \E b \in Accounts, n \in Amounts : Reserve(b, n)
  \/ \E b \in Accounts, n \in Amounts : ReleaseReservation(b, n)
  \/ \E b \in Accounts, s \in Overrides : SetAccountRiskState(b, s)
  \/ \E b \in Accounts : ClearAccountRiskState(b)
  \/ \E m \in MaxPriceAges : SetSettlementMaxPriceAge(m)
  \/ ClearSettlementFreshness
  \/ Poke
  \/ \E r \in RateCurves : SetRateParams(r)
  \/ \E l \in Lenders, n \in Amounts : Supply(l, n)
  \/ \E l \in Lenders, n \in Amounts : Withdraw(l, n)
  \/ \E a \in Assets : DonateCollateral(a)
  \/ Tick
  \/ \E f \in Feeds : \E p \in Prices[f] : Publish(f, p)
  \/ \E a \in Assets : \E s \in Standings[a] : SetStanding(a, s)
  \/ \E g \in SequencerStates : SetSequencer(g)

Spec == Init /\ [][Next]_vars

-----------------------------------------------------------------------------
(* Correctness.                                                             *)

TypeOK ==
  /\ held \in [Accounts -> Seq(Assets)]
  /\ reservedUsd18 \in [Accounts -> Nat]
  /\ statusOverride \in [Accounts -> AccountStatus]
  /\ settlementFreshness \in {0} \cup MaxPriceAges
  /\ quotes \in [Feeds -> [price : Nat, age : Nat]]
  /\ \A f \in Feeds : quotes[f].age <= MaxAge[f]
  /\ standing \in [Assets -> UNION Range(Standings)]
  /\ sequencer \in SequencerStates
  /\ Custody!CustodyTypeOK
  /\ Debt!FinancingTypeOK
  /\ {cash, totalPrincipal, accruedReceivables, reserves, totalSupply} \subseteq Nat
  /\ shares \in [Lenders -> Nat]

\* I-01 through every path that moves collateral: what custody holds of an asset covers the
\* sum of what it owes the accounts, with tokens that take a fee and units sent for nobody.
CustodySolvent == Custody!CustodySolvent

\* I-05: the market's borrows are the sum of what its accounts owe, within one unit of
\* rounding for each, whatever was borrowed, repaid and liquidated at whatever index.
DebtsAddUp ==
  LET tracked == Debt!totalBorrowsAt(Debt!currentIndex(freeCash))
      owed    == SumFunction([b \in Accounts |-> debtOf(b)])
  IN  /\ totalScaledPrincipal = SumFunction(scaledPrincipalOf)
      /\ owed \in tracked..(tracked + Cardinality(Accounts))

\* The exit is never locked: with any settlement price, however stale, and whatever the gates
\* and the guardian say, an account in debt can clear it, and no checked subtraction stops it.
RepayAlwaysOpen ==
  \A b \in Accounts : debtOf(b) # 0 /\ SettlementPriced => ENABLED Repay(b, 1, TRUE)

\* What the lenders' books claim from borrowers, less what borrowers owe.
Unbacked == (totalPrincipal + accruedReceivables) * price - Debt!totalBorrowsStored * TokenUnit

\* The two ledgers, one in tokens and one in dollars, move together: while the price stands,
\* no call makes the pool's claims outgrow the debt behind them. Recovered proceeds are
\* converted down, which can cost a liquidation part of one token.
BooksFollowDebt ==
  [][price' = price =>
       Unbacked' <= 0 \/ Unbacked' <= Unbacked + (IF custody' = custody THEN 0 ELSE price)]_vars

\* By how much a debt passes the maintenance limit of the collateral, at today's inputs.
Excess(list, quantity, scaled, index) ==
  LET health == HealthOf(list, quantity, scaled, index, 0, NORMAL)
  IN  health.debt - health.limits.maintenance

\* A lender leaves while time has not been charged for: what stays is lent out the further, and
\* the whole of that time is charged at the rate this gives (FinancingEngine.currentIndex).
RaisesPendingRate == elapsed > 0 /\ totalSupply' < totalSupply

\* I-10, and more: while the inputs and the clock stand, a step of anybody, lenders, governance
\* and whoever pokes the engine included, takes no debtor who brings nothing in past its
\* maintenance limit, a draw excepted by the unit its debt rounds up. Two things can: a lender
\* who leaves before the time elapsed is charged, and liquidating an account that a guardian
\* has marked for it.
OnlyInputsEndanger ==
  [][(UNCHANGED inputs /\ elapsed' <= elapsed /\ ~RaisesPendingRate) =>
       \A b \in Accounts :
         (/\ scaledPrincipalOf'[b] # 0
          /\ statusOverride[b] < MARGIN_CALL
          /\ \A a \in Assets : balanceOf'[a][b] <= balanceOf[a][b]
          /\ Excess(held[b], Holdings(b), scaledPrincipalOf[b], Debt!currentIndex(freeCash)) <= 0)
         => Excess(held'[b], [a \in Assets |-> balanceOf'[a][b]], scaledPrincipalOf'[b],
                   Debt!currentIndex(freeCash)')
              <= IF scaledPrincipalOf'[b] > scaledPrincipalOf[b]
                 THEN MulDivUp(1, borrowIndex', WAD) ELSE 0]_vars
=============================================================================
