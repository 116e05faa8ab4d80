------------------------ MODULE ClearingHouseProofs ------------------------
(***************************************************************************)
(* The market's books, for every set of accounts and assets and every      *)
(* price, rate and scale: custody covers what it owes, the market's debt   *)
(* is the sum of its accounts' debts within one unit of rounding each, no  *)
(* call makes what the pool claims outgrow the debt behind it, and none    *)
(* puts a healthy account in danger while prices and records stand.        *)
(***************************************************************************)
EXTENDS ClearingHouse, Induction

-----------------------------------------------------------------------------
(* Custody.                                                                 *)

CustodyHolds == Custody!CustodyTypeOK /\ CustodySolvent

\* The instance's sum is the one the lemmas on sums speak of.
LEMMA CustodySum ==
  ASSUME NEW f
  PROVE  Custody!SumFunction(f) = SumFunctionOnSet(f, DOMAIN f)
BY Zenon DEF SumFunctionOnSet, FoldFunctionOnSet, MapThenFoldSet,
  Custody!SumFunction, Custody!SumFunctionOnSet, Custody!FoldFunctionOnSet, Custody!MapThenFoldSet

\* I-01 with the sum written over the accounts.
LEMMA CustodyMeans ==
  Custody!CustodyTypeOK =>
    (CustodySolvent <=>
       \A a \in Assets : /\ totalDeposited[a] = SumFunctionOnSet(balanceOf[a], Accounts)
                         /\ tokenBalance[a] >= totalDeposited[a])
<1> SUFFICES ASSUME Custody!CustodyTypeOK
             PROVE  CustodySolvent <=>
                      \A a \in Assets : /\ totalDeposited[a] = SumFunctionOnSet(balanceOf[a], Accounts)
                                        /\ tokenBalance[a] >= totalDeposited[a]
  OBVIOUS
<1>1. \A a \in Assets : DOMAIN balanceOf[a] = Accounts
  BY DEF Custody!CustodyTypeOK
<1>2. \A a \in Assets : Custody!SumFunction(balanceOf[a]) = SumFunctionOnSet(balanceOf[a], Accounts)
  BY <1>1, CustodySum
<1>. QED
  BY <1>2 DEF CustodySolvent, Custody!CustodySolvent

\* A call moves no custody, or by n units credited to or taken from one account.
Moved(a, b, n, m) ==
  /\ balanceOf' = [balanceOf EXCEPT ![a][b] = @ + n]
  /\ totalDeposited' = [totalDeposited EXCEPT ![a] = @ + n]
  /\ tokenBalance' = [tokenBalance EXCEPT ![a] = @ + m]
  /\ balanceOf[a][b] + n >= 0 /\ totalDeposited[a] + n >= 0

\* Every call moves the three custody records together, or one stray unit in.
LEMMA CustodyMoves ==
  ASSUME CustodyHolds, [Next]_vars
  PROVE  \/ UNCHANGED custody
         \/ \E a \in Assets, b \in Accounts, n \in Int : Moved(a, b, n, n)
         \/ \E a \in Assets : /\ UNCHANGED <<balanceOf, totalDeposited>>
                              /\ tokenBalance' = [tokenBalance EXCEPT ![a] = @ + 1]
<1>0. \A n \in Amounts : n \in Nat
  BY MarketConstants
<1>1. ASSUME NEW b \in Accounts, NEW a \in Assets, NEW n \in Amounts, NEW r \in 1..n,
             AddCollateral(b, a, n, r)
      PROVE  Moved(a, b, r, r) /\ r \in Int
  <2>1. r \in Nat /\ balanceOf[a][b] \in Nat /\ totalDeposited[a] \in Nat
    BY <1>0 DEF CustodyHolds, Custody!CustodyTypeOK
  <2>. QED
    BY <1>1, <2>1 DEF AddCollateral, Custody!Deposit, Custody!Credited, Moved
<1>2. ASSUME NEW b \in Accounts, NEW a \in Assets, NEW n \in Amounts, Custody!Release(a, b, n)
      PROVE  Moved(a, b, -n, -n) /\ -n \in Int
  <2>1. n \in Nat
    BY <1>0
  <2>2. /\ balanceOf[a][b] \in Nat /\ totalDeposited[a] \in Nat /\ tokenBalance[a] \in Nat
        /\ balanceOf[a] \in [Accounts -> Nat]
    BY DEF CustodyHolds, Custody!CustodyTypeOK
  <2>3. /\ balanceOf[a][b] - n = balanceOf[a][b] + (-n)
        /\ totalDeposited[a] - n = totalDeposited[a] + (-n)
        /\ tokenBalance[a] - n = tokenBalance[a] + (-n)
    BY <2>1, <2>2
  <2>4. balanceOf[a][b] >= n /\ totalDeposited[a] >= n
    BY <1>2 DEF Custody!Release
  <2>5. balanceOf[a][b] + (-n) >= 0 /\ totalDeposited[a] + (-n) >= 0
    BY <2>1, <2>2, <2>4
  <2>6. /\ balanceOf' = [balanceOf EXCEPT ![a][b] = balanceOf[a][b] - n]
        /\ totalDeposited' = [totalDeposited EXCEPT ![a] = totalDeposited[a] - n]
        /\ tokenBalance' = [tokenBalance EXCEPT ![a] = tokenBalance[a] - n]
    BY <1>2 DEF Custody!Release
  <2>7. /\ balanceOf' = [balanceOf EXCEPT ![a][b] = balanceOf[a][b] + (-n)]
        /\ totalDeposited' = [totalDeposited EXCEPT ![a] = totalDeposited[a] + (-n)]
        /\ tokenBalance' = [tokenBalance EXCEPT ![a] = tokenBalance[a] + (-n)]
    BY <2>3, <2>6
  <2>. QED
    BY <2>1, <2>5, <2>7 DEF Moved
<1>3. ASSUME NEW b \in Accounts, NEW a \in Assets, NEW n \in Amounts,
             \/ WithdrawCollateral(b, a, n)
             \/ \E p \in {0} \cup Amounts : ExecuteLiquidation(b, a, n, p)
      PROVE  Custody!Release(a, b, n)
  BY <1>3 DEF WithdrawCollateral, ExecuteLiquidation
<1>4. ASSUME NEW a \in Assets, DonateCollateral(a)
      PROVE  /\ UNCHANGED <<balanceOf, totalDeposited>>
             /\ tokenBalance' = [tokenBalance EXCEPT ![a] = @ + 1]
  BY <1>4 DEF DonateCollateral, Custody!Donate
<1>5. ASSUME \/ \E b \in Accounts, n \in Amounts : Borrow(b, n)
             \/ \E b \in Accounts, n \in Amounts, all \in BOOLEAN : Repay(b, n, all)
             \/ \E b \in Accounts, n \in Amounts : Reserve(b, n)
             \/ \E b \in Accounts, n \in Amounts : ReleaseReservation(b, n)
      PROVE  UNCHANGED custody
  BY <1>5 DEF Borrow, Repay, Reserve, ReleaseReservation
<1>6. ASSUME \/ \E b \in Accounts, s \in Overrides : SetAccountRiskState(b, s)
             \/ \E b \in Accounts : ClearAccountRiskState(b)
             \/ \E m \in MaxPriceAges : SetSettlementMaxPriceAge(m)
             \/ ClearSettlementFreshness
             \/ Poke
             \/ \E r \in RateCurves : SetRateParams(r)
             \/ \E l \in Lenders, n \in Amounts : Supply(l, n)
             \/ \E l \in Lenders, n \in Amounts : Withdraw(l, n)
      PROVE  UNCHANGED custody
  BY <1>6 DEF SetAccountRiskState, ClearAccountRiskState, SetSettlementMaxPriceAge,
    ClearSettlementFreshness, Poke, SetRateParams, Supply, Withdraw
<1>7. ASSUME \/ Tick
             \/ \E f \in Feeds : \E p \in Prices[f] : Publish(f, p)
             \/ \E a \in Assets : \E s \in Standings[a] : SetStanding(a, s)
             \/ \E g \in SequencerStates : SetSequencer(g)
             \/ UNCHANGED vars
      PROVE  UNCHANGED custody
  BY <1>7 DEF Tick, Publish, SetStanding, SetSequencer, vars
<1> HIDE DEF custody
<1>10. CASE \E b \in Accounts, a \in Assets, n \in Amounts : \E r \in 1..n :
              AddCollateral(b, a, n, r)
  BY <1>1, <1>10
<1>11. CASE \/ \E b \in Accounts, a \in Assets, n \in Amounts : WithdrawCollateral(b, a, n)
            \/ \E b \in Accounts, a \in Assets, n \in Amounts, p \in {0} \cup Amounts :
                  ExecuteLiquidation(b, a, n, p)
  BY <1>2, <1>3, <1>11
<1>12. CASE \E a \in Assets : DonateCollateral(a)
  BY <1>4, <1>12
<1>. QED
  BY Zenon, <1>5, <1>6, <1>7, <1>10, <1>11, <1>12 DEF Next

\* No call breaks custody: the sum follows the one account that changed.
LEMMA CustodyStep == CustodyHolds /\ [Next]_vars => CustodyHolds'
<1> SUFFICES ASSUME CustodyHolds, [Next]_vars
             PROVE  CustodyHolds'
  OBVIOUS
<1>1. /\ balanceOf \in [Assets -> [Accounts -> Nat]]
      /\ totalDeposited \in [Assets -> Nat] /\ tokenBalance \in [Assets -> Nat]
      /\ \A a \in Assets : /\ totalDeposited[a] = SumFunctionOnSet(balanceOf[a], Accounts)
                           /\ tokenBalance[a] >= totalDeposited[a]
  BY CustodyMeans DEF CustodyHolds, Custody!CustodyTypeOK
<1>2. SUFFICES /\ balanceOf' \in [Assets -> [Accounts -> Nat]]
               /\ totalDeposited' \in [Assets -> Nat] /\ tokenBalance' \in [Assets -> Nat]
               /\ \A a \in Assets : /\ totalDeposited'[a] = SumFunctionOnSet(balanceOf'[a], Accounts)
                                    /\ tokenBalance'[a] >= totalDeposited'[a]
  <2>1. (Custody!CustodyTypeOK =>
          (CustodySolvent <=>
             \A a \in Assets : /\ totalDeposited[a] = SumFunctionOnSet(balanceOf[a], Accounts)
                               /\ tokenBalance[a] >= totalDeposited[a]))'
    BY CustodyMeans, PTL
  <2>. QED
    BY <2>1 DEF CustodyHolds, Custody!CustodyTypeOK
<1>3. CASE UNCHANGED custody
  BY <1>1, <1>3 DEF custody
<1>4. ASSUME NEW a \in Assets, NEW b \in Accounts, NEW n \in Int, Moved(a, b, n, n)
      PROVE  /\ balanceOf' \in [Assets -> [Accounts -> Nat]]
             /\ totalDeposited' \in [Assets -> Nat] /\ tokenBalance' \in [Assets -> Nat]
             /\ \A x \in Assets : /\ totalDeposited'[x] = SumFunctionOnSet(balanceOf'[x], Accounts)
                                  /\ tokenBalance'[x] >= totalDeposited'[x]
  <2> DEFINE f == balanceOf[a]
             g == [f EXCEPT ![b] = f[b] + n]
  <2>1. f \in [Accounts -> Nat] /\ f[b] + n \in Nat /\ g \in [Accounts -> Nat]
    BY <1>1, <1>4 DEF Moved
  <2>2. balanceOf' = [balanceOf EXCEPT ![a] = g]
    BY <1>1, <1>4 DEF Moved
  <2>3. /\ balanceOf' \in [Assets -> [Accounts -> Nat]] /\ balanceOf'[a] = g
        /\ \A x \in Assets : x # a => balanceOf'[x] = balanceOf[x]
    <3> HIDE DEF g
    <3>. QED
      BY <1>1, <2>1, <2>2
  <2>4. /\ totalDeposited[a] + n \in Nat /\ tokenBalance[a] + n \in Nat
        /\ tokenBalance[a] + n >= totalDeposited[a] + n
    BY <1>1, <1>4 DEF Moved
  <2>5. /\ totalDeposited' \in [Assets -> Nat] /\ tokenBalance' \in [Assets -> Nat]
        /\ totalDeposited'[a] = totalDeposited[a] + n /\ tokenBalance'[a] = tokenBalance[a] + n
        /\ \A x \in Assets : x # a => /\ totalDeposited'[x] = totalDeposited[x]
                                      /\ tokenBalance'[x] = tokenBalance[x]
    BY <1>1, <1>4, <2>4 DEF Moved
  <2>6. SumFunctionOnSet(g, Accounts) = SumFunctionOnSet(f, Accounts) + n
    <3>1. ChangesAt(Accounts, f, g, b)
      BY <2>1, MarketConstants DEF ChangesAt
    <3>2. g[b] = f[b] + n /\ f[b] \in Int /\ n \in Int
      BY <2>1
    <3> HIDE DEF f, g
    <3>3. /\ SumFunctionOnSet(f, Accounts) \in Int
          /\ SumFunctionOnSet(g, Accounts) = SumFunctionOnSet(f, Accounts) + (g[b] - f[b])
      BY <3>1, TermChanges
    <3>. QED
      BY <3>2, <3>3
  <2> HIDE DEF f, g
  <2>7. ASSUME NEW x \in Assets
        PROVE  /\ totalDeposited'[x] = SumFunctionOnSet(balanceOf'[x], Accounts)
               /\ tokenBalance'[x] >= totalDeposited'[x]
    <3>1. CASE x = a
      BY <1>1, <2>3, <2>4, <2>5, <2>6, <3>1 DEF f
    <3>2. CASE x # a
      BY <1>1, <2>3, <2>5, <3>2
    <3>. QED
      BY <3>1, <3>2
  <2>. QED
    BY <2>3, <2>5, <2>7
<1>5. ASSUME NEW a \in Assets, UNCHANGED <<balanceOf, totalDeposited>>,
             tokenBalance' = [tokenBalance EXCEPT ![a] = @ + 1]
      PROVE  /\ balanceOf' \in [Assets -> [Accounts -> Nat]]
             /\ totalDeposited' \in [Assets -> Nat] /\ tokenBalance' \in [Assets -> Nat]
             /\ \A x \in Assets : /\ totalDeposited'[x] = SumFunctionOnSet(balanceOf'[x], Accounts)
                                  /\ tokenBalance'[x] >= totalDeposited'[x]
  <2>1. tokenBalance' \in [Assets -> Nat]
    BY <1>1, <1>5
  <2>2. \A x \in Assets : tokenBalance'[x] >= tokenBalance[x]
    BY <1>1, <1>5
  <2>. QED
    BY <1>1, <1>5, <2>1, <2>2
<1>. QED
  BY <1>3, <1>4, <1>5, CustodyMoves

\* An empty vault owes nothing.
LEMMA CustodyInits == Init => CustodyHolds
<1> SUFFICES ASSUME Init
             PROVE  CustodyHolds
  OBVIOUS
<1>1. /\ balanceOf = [a \in Assets |-> [b \in Accounts |-> 0]]
      /\ totalDeposited = [a \in Assets |-> 0] /\ tokenBalance = [a \in Assets |-> 0]
  BY DEF Init, Custody!CustodyInit
<1>2. Custody!CustodyTypeOK
  BY <1>1 DEF Custody!CustodyTypeOK
<1>3. ASSUME NEW a \in Assets
      PROVE  SumFunctionOnSet(balanceOf[a], Accounts) = 0
  <2>1. \A b \in Accounts : balanceOf[a][b] = 0
    BY <1>1
  <2>2. IsFiniteSet(Accounts)
    BY MarketConstants
  <2>. QED
    BY <2>1, <2>2, SumOfZeros
<1>4. \A a \in Assets : totalDeposited[a] = 0 /\ tokenBalance[a] = 0
  BY <1>1
<1>. QED
  BY <1>2, <1>3, <1>4, CustodyMeans DEF CustodyHolds

\* I-01, in every instance: through deposits with or without a transfer fee, withdrawals,
\* liquidations and stray transfers, the tokens of an asset cover the sum of what custody owes
\* the accounts (CollateralVault.sol deposit and release).
THEOREM CustodyIsSolvent == Spec => []CustodySolvent
<1>1. CustodyHolds => CustodySolvent
  BY DEF CustodyHolds
<1>. QED
  BY <1>1, CustodyInits, CustodyStep, PTL DEF Spec

-----------------------------------------------------------------------------
(* Debt and the pool's books: what each call does to them.                  *)

\* What borrowers owe the market at the stored index, and at the index of this instant.
Tracked == MulDivUp(totalScaledPrincipal, borrowIndex, WAD)

Index == Debt!currentIndex(freeCash)

TrackedNow == MulDivUp(totalScaledPrincipal, Index, WAD)

Numbers ==
  /\ quotes \in [Feeds -> [price : Nat, age : Nat]]
  /\ borrowIndex \in Nat \ {0}
  /\ elapsed \in Nat
  /\ totalScaledPrincipal \in Nat
  /\ scaledPrincipalOf \in [Accounts -> Nat]
  /\ rate \in RateCurves
  /\ cash \in Nat /\ totalPrincipal \in Nat /\ accruedReceivables \in Nat
  /\ reserves \in Nat /\ totalSupply \in Nat

\* An instance of a module has its own copies of the operators that module extends.
LEMMA DebtNames ==
  ASSUME NEW a, NEW b, NEW c
  PROVE  /\ Debt!MulDiv(a, b, c) = MulDiv(a, b, c)
         /\ Debt!MulDivUp(a, b, c) = MulDivUp(a, b, c)
         /\ Debt!Least(a, b) = Least(a, b)
         /\ Debt!debtAt(a, b) = debtAt(a, b)
         /\ Debt!borrowRateBps(a, b, c) = borrowRateBps(a, b, c)
         /\ Debt!accrueIndex(a, b, c) = accrueIndex(a, b, c)
<1>1. /\ Debt!MulDiv(a, b, c) = MulDiv(a, b, c)
      /\ Debt!MulDivUp(a, b, c) = MulDivUp(a, b, c)
      /\ Debt!Least(a, b) = Least(a, b)
  BY Zenon DEF Debt!MulDiv, MulDiv, Debt!MulDivUp, MulDivUp, Debt!Least, Least
<1>2. Debt!debtAt(a, b) = debtAt(a, b)
  BY Zenon DEF Debt!MulDiv, MulDiv, Debt!MulDivUp, MulDivUp, Debt!debtAt, debtAt
<1>3. Debt!borrowRateBps(a, b, c) = borrowRateBps(a, b, c)
  BY Zenon DEF Debt!MulDiv, MulDiv, Debt!borrowRateBps, borrowRateBps
<1>4. Debt!accrueIndex(a, b, c) = accrueIndex(a, b, c)
  BY Zenon DEF Debt!MulDiv, MulDiv, Debt!accrueIndex, accrueIndex
<1>. QED
  BY <1>1, <1>2, <1>3, <1>4

\* The same for the pool's copies.
LEMMA PoolNames ==
  ASSUME NEW a, NEW b, NEW c
  PROVE  /\ Pool!MulDiv(a, b, c) = MulDiv(a, b, c)
         /\ Pool!Least(a, b) = Least(a, b)
         /\ Pool!Monus(a, b) = Monus(a, b)
BY Zenon DEF Pool!MulDiv, MulDiv, Pool!Least, Least, Pool!Monus, Monus

\* The market's borrows and the pool's unbacked claims in the names above.
LEMMA TrackedIs ==
  /\ Debt!totalBorrowsStored = Tracked
  /\ Debt!totalBorrowsAt(Index) = TrackedNow
  /\ Unbacked = (totalPrincipal + accruedReceivables) * price - Tracked * TokenUnit
BY DebtNames DEF Debt!totalBorrowsStored, Debt!totalBorrowsAt, Tracked, TrackedNow, Unbacked

\* The settlement price is a number.
LEMMA PriceType == Numbers => price \in Nat
BY DEF Numbers, price, Feeds

\* Free cash is the cash that is not put by in reserve.
LEMMA FreeCashIs == freeCash = Monus(cash, 0 + reserves + 0)
BY PoolNames DEF freeCash, Pool!availableCash, Pool!FreeCash, Pool!SpokenFor

\* Free cash is a number and no more than the cash.
LEMMA FreeCashType == Numbers => freeCash \in Nat /\ freeCash <= cash
BY FreeCashIs DEF Monus, Numbers

\* A rate of the two-slope curve is a number: the slopes divide by the kink and by what is
\* above it.
LEMMA RateType ==
  ASSUME NEW c \in Nat, NEW t \in Nat, NEW r \in RateCurves
  PROVE  borrowRateBps(c, t, r) \in Nat
<1>1. /\ r.base \in Nat /\ r.slope1 \in Nat /\ r.slope2 \in Nat
      /\ r.kink \in Nat \ {0} /\ BPS \in Nat \ {0} /\ r.kink < BPS
  BY MarketConstants, Scales
<1>2. CASE t = 0
  BY <1>1, <1>2 DEF borrowRateBps
<1>3. CASE t # 0
  <2>1. c + t \in Nat \ {0}
    BY <1>3
  <2>2. PICK u \in Nat : u = MulDiv(t, BPS, c + t)
    BY <1>1, <2>1, DownBounds
  <2>3. MulDiv(u, r.slope1, r.kink) \in Nat
    BY <1>1, DownBounds
  <2>4. u > r.kink => MulDiv(u - r.kink, r.slope2, BPS - r.kink) \in Nat
    <3>1. BPS - r.kink \in Nat \ {0}
      BY <1>1
    <3>2. u > r.kink => u - r.kink \in Nat
      BY <1>1
    <3>. QED
      BY <1>1, <3>1, <3>2, DownBounds
  <2>. QED
    BY <1>1, <1>3, <2>2, <2>3, <2>4 DEF borrowRateBps
<1>. QED
  BY <1>2, <1>3

\* The borrow index of this instant is not below the stored one.
LEMMA IndexGrows == Numbers => Index \in Nat \ {0} /\ Index >= borrowIndex
<1> SUFFICES ASSUME Numbers
             PROVE  Index \in Nat \ {0} /\ Index >= borrowIndex
  OBVIOUS
<1>1. Tracked \in Nat
  BY Scales, UpBounds DEF Tracked, Numbers
<1>2. PICK bps \in Nat : bps = borrowRateBps(freeCash, Tracked, rate)
  BY <1>1, FreeCashType, RateType DEF Numbers
<1>3. Index = accrueIndex(borrowIndex, bps, elapsed)
  BY <1>2, DebtNames, TrackedIs
     DEF Index, Debt!currentIndex, Debt!IndexAfter, Debt!currentRateBps
<1>4. bps * elapsed \in Nat /\ BPS * SecondsPerYear \in Nat \ {0}
  BY Scales DEF Numbers
<1>5. MulDiv(borrowIndex, bps * elapsed, BPS * SecondsPerYear) \in Nat
  <2>. DEFINE x == bps * elapsed
              y == BPS * SecondsPerYear
  <2>1. x \in Nat /\ y \in Nat \ {0}
    BY <1>4
  <2>2. borrowIndex \in Nat
    BY DEF Numbers
  <2> HIDE DEF x, y
  <2>3. MulDiv(borrowIndex, x, y) \in Nat
    BY <2>1, <2>2, DownBounds
  <2>. QED
    BY <2>3 DEF x, y
<1>. QED
  BY <1>3, <1>5 DEF accrueIndex, Numbers

\* Interest is never negative.
LEMMA TrackedGrows ==
  Numbers => Tracked \in Nat /\ TrackedNow \in Nat /\ Tracked <= TrackedNow
<1> SUFFICES ASSUME Numbers
             PROVE  Tracked \in Nat /\ TrackedNow \in Nat /\ Tracked <= TrackedNow
  OBVIOUS
<1>1. PICK t \in Nat : t = totalScaledPrincipal
  BY DEF Numbers
<1>2. PICK i \in Nat : i = borrowIndex
  BY DEF Numbers
<1>3. PICK j \in Nat : j = Index /\ i <= j
  BY <1>2, IndexGrows
<1>4. MulDivUp(t, i, WAD) \in Nat /\ MulDivUp(t, j, WAD) \in Nat
  BY Scales, UpBounds
<1>5. MulDivUp(t, i, WAD) <= MulDivUp(t, j, WAD)
  BY <1>3, Scales, UpOrder
<1>. QED
  BY <1>1, <1>2, <1>3, <1>4, <1>5 DEF Tracked, TrackedNow

\* What is recognised on the pool's books, in tokens, is worth no more than the interest that
\* accrued, in dollars.
LEMMA Recognition ==
  ASSUME Numbers, CanRecognise
  PROVE  \E k \in Nat : /\ Receivables = accruedReceivables + k
                        /\ k * price <= (TrackedNow - Tracked) * TokenUnit
<1>1. PICK i \in Nat : i = TrackedNow - Tracked
  BY TrackedGrows
<1>2. interestUsd18 = i
  BY <1>1, TrackedIs DEF interestUsd18, Debt!interestDelta, Index
<1>3. PICK p \in Nat : p = price
  BY PriceType
<1>4. PICK u \in Nat : u = TokenUnit
  BY MarketConstants
<1>5. CASE i = 0
  <2>1. Receivables = accruedReceivables + 0
    BY <1>2, <1>5 DEF Receivables, Numbers
  <2>2. 0 * p <= i * u
    BY <1>5
  <2>. QED
    BY <1>1, <1>3, <1>4, <2>1, <2>2
<1>6. CASE i # 0
  <2>1. p # 0
    BY <1>2, <1>3, <1>6 DEF CanRecognise, SettlementPriced
  <2>2. PICK k \in Nat : k = MulDiv(i, u, p)
    BY <2>1, DownBounds
  <2>3. p * k <= i * u
    BY <2>1, <2>2, DownBounds
  <2>4. Receivables = accruedReceivables + k
    BY <1>2, <1>3, <1>4, <1>6, <2>2 DEF Receivables, usd18ToTokens
  <2>5. k * p <= i * u
    BY <2>3
  <2>. QED
    BY <1>1, <1>3, <1>4, <2>4, <2>5
<1>. QED
  BY <1>5, <1>6

\* The step keeps the books: the pool's claims do not outgrow the debt behind them by more
\* than `slack`.
Follows(slack) == price' = price => Unbacked' <= 0 \/ Unbacked' <= Unbacked + slack

\* Claims that grow by no more than the debt does, dollar for dollar.
LEMMA ClaimsFollow ==
  ASSUME NEW c \in Nat, NEW k \in Int, NEW p \in Nat, NEW m \in Int, NEW n \in Int,
         NEW u \in Nat, NEW s \in Int, k * p <= (n - m) * u + s
  PROVE  (c + k) * p - n * u <= (c * p - m * u) + s
<1>1. (c + k) * p = c * p + k * p /\ (n - m) * u = n * u - m * u
  OBVIOUS
<1>2. c * p \in Int /\ k * p \in Int /\ n * u \in Int /\ m * u \in Int
  OBVIOUS
<1>. QED
  BY <1>1, <1>2

TrackedNext == MulDivUp(totalScaledPrincipal', borrowIndex', WAD)

\* The same two figures after the step.
LEMMA TrackedNextIs ==
  /\ Tracked' = TrackedNext
  /\ Unbacked' = (totalPrincipal' + accruedReceivables') * price' - TrackedNext * TokenUnit
<1>1. (Unbacked = (totalPrincipal + accruedReceivables) * price - Tracked * TokenUnit)'
  BY TrackedIs, PTL
<1>2. Tracked' = TrackedNext
  BY Zenon DEF Tracked, TrackedNext
<1>. QED
  BY <1>1, <1>2

\* The form in which the calls are shown to keep the books.
LEMMA BooksKept ==
  ASSUME Numbers, Numbers', NEW s \in Nat, NEW k \in Int,
         totalPrincipal' + accruedReceivables' = totalPrincipal + accruedReceivables + k,
         price' = price => k * price <= (TrackedNext - Tracked) * TokenUnit + s
  PROVE  Follows(s)
<1> SUFFICES ASSUME price' = price
             PROVE  Unbacked' <= Unbacked + s
  BY DEF Follows
<1>1. PICK c \in Nat : c = totalPrincipal + accruedReceivables
  BY DEF Numbers
<1>2. PICK p \in Nat : p = price
  BY PriceType
<1>3. PICK u \in Nat : u = TokenUnit
  BY MarketConstants
<1>4. PICK m \in Nat : m = Tracked
  BY TrackedGrows
<1>5. PICK n \in Nat : n = TrackedNext
  BY Scales, UpBounds DEF Numbers, TrackedNext
<1>6. k * p <= (n - m) * u + s
  BY <1>2, <1>3, <1>4, <1>5
<1>7. (c + k) * p - n * u <= (c * p - m * u) + s
  BY <1>6, ClaimsFollow
<1>8. Unbacked = c * p - m * u /\ Unbacked' = (c + k) * p - n * u
  BY <1>1, <1>2, <1>3, <1>4, <1>5, TrackedIs, TrackedNextIs
<1>. QED
  BY <1>7, <1>8

\* A repayment retires receivables, then principal, and stops at nothing owed.
LEMMA Repaid ==
  ASSUME Numbers, NEW r \in Nat, NEW t \in Nat, NEW f \in Nat, Pool!OnRepaidOver(r, t, f)
  PROVE  /\ cash' \in Nat /\ totalPrincipal' \in Nat /\ accruedReceivables' \in Nat
         /\ reserves' \in Nat /\ totalSupply' = totalSupply
         /\ totalPrincipal' + accruedReceivables' = Monus(totalPrincipal + r, t)
<1>1. PICK n \in Nat : n = Least(r, t)
  BY DEF Least
<1>2. n <= r /\ n <= t /\ (n = r \/ n = t)
  BY <1>1 DEF Least
<1>3. PICK x \in Nat : x = MulDiv(n, f, BPS)
  BY Scales, DownBounds
<1>4. Pool!Least(r, t) = n /\ Pool!MulDiv(n, f, BPS) = x
  BY <1>1, <1>3, PoolNames
<1>5. Pool!Monus(totalPrincipal, t - n) = Monus(totalPrincipal, t - n)
  BY PoolNames
<1>6. /\ cash' = cash + t
      /\ accruedReceivables' = r - n
      /\ reserves' = reserves + x
      /\ totalPrincipal' = Monus(totalPrincipal, t - n)
      /\ totalSupply' = totalSupply
  BY <1>4, <1>5 DEF Pool!OnRepaidOver, Pool!equity
<1>. QED
  BY <1>2, <1>6 DEF Monus, Numbers

\* The principal of one account and the market's total move together.
Shifted(b, d) ==
  /\ scaledPrincipalOf[b] + d \in Nat /\ totalScaledPrincipal + d \in Nat
  /\ scaledPrincipalOf' = [scaledPrincipalOf EXCEPT ![b] = scaledPrincipalOf[b] + d]
  /\ totalScaledPrincipal' = totalScaledPrincipal + d

\* The principal a repayment clears is worth no more, rounded up, than what was paid.
LEMMA ClearedIsPaid ==
  ASSUME NEW s \in Nat, NEW t \in Nat, NEW i \in Nat \ {0}, NEW a \in Nat, NEW all \in BOOLEAN,
         all => a >= debtAt(s, i), NEW x, x = Debt!ClearedBy(s, a, all, i), t - x >= 0
  PROVE  /\ x \in 0..s
         /\ MulDivUp(t, i, WAD) <= MulDivUp(t - x, i, WAD) + a
<1>0. WAD \in Nat \ {0}
  BY Scales
<1>1. PICK y \in Nat : y = MulDivUp(s, i, WAD)
  BY <1>0, UpBounds
<1>2. PICK z \in Nat : z = MulDiv(a, WAD, i)
  BY <1>0, DownBounds
<1>3. i * z <= a * WAD
  BY <1>0, <1>2, DownBounds
<1>4. x = IF all \/ a >= y THEN s ELSE Least(s, z)
  BY <1>1, <1>2, DebtNames DEF Debt!ClearedBy, debtAt
<1>5. x \in Nat /\ x <= s /\ ((a >= y /\ x = s) \/ x <= z)
  BY <1>1, <1>4 DEF Least, debtAt
<1>6. PICK r \in Nat : r = t - x
  BY <1>5
<1>7. t = r + x
  BY <1>5, <1>6
<1>8. PICK p \in Nat : p = MulDivUp(t, i, WAD)
  BY <1>0, UpBounds
<1>9. PICK q \in Nat : q = MulDivUp(r, i, WAD)
  BY <1>0, UpBounds
<1>10. p <= q + a
  <2>1. CASE a >= y /\ x = s
    <3>1. MulDivUp(r + s, i, WAD) <= MulDivUp(r, i, WAD) + MulDivUp(s, i, WAD)
      BY <1>0, UpOfSum
    <3>. QED
      BY <1>1, <1>7, <1>8, <1>9, <2>1, <3>1
  <2>2. CASE x <= z
    <3>1. PICK w \in Nat : w = WAD
      BY <1>0
    <3>2. w * p < t * i + w /\ r * i <= w * q
      BY <1>0, <1>8, <1>9, <3>1, UpBounds
    <3>3. PICK k \in Nat : z = x + k
      BY <1>5, <2>2, z - x \in Nat, z = x + (z - x)
    <3>4. i * x <= a * w
      <4>1. i * (x + k) = i * x + i * k /\ i * x \in Nat /\ i * k \in Nat
        BY <1>5
      <4>. QED
        BY <1>3, <3>1, <3>3, <4>1
    <3>5. /\ (r + x) * i = r * i + i * x /\ w * (q + a) = w * q + a * w
          /\ r * i \in Nat /\ i * x \in Nat /\ w * q \in Nat /\ a * w \in Nat /\ w * p \in Nat
      BY <1>5
    <3>6. w * p < w * (q + a) + w
      BY <1>7, <3>2, <3>4, <3>5
    <3>7. q + a \in Int /\ w # 0
      BY <1>0, <3>1
    <3>. QED
      BY <3>6, <3>7, Cancel
  <2>. QED
    BY <1>5, <2>1, <2>2
<1>. QED
  BY <1>5, <1>6, <1>8, <1>9, <1>10

\* onRepay, told to clear everything or not: the debt falls by no more than what is paid.
LEMMA Clears ==
  ASSUME Numbers, NEW b \in Accounts, NEW a \in Nat, NEW all \in BOOLEAN,
         all => a >= debtOf(b), Debt!OnRepay(b, a, all, freeCash)
  PROVE  /\ borrowIndex' = Index /\ elapsed' = 0 /\ rate' = rate
         /\ \E d \in Int : Shifted(b, d)
         /\ TrackedNow <= TrackedNext + a
<1>1. PICK x : x = Debt!ClearedBy(scaledPrincipalOf[b], a, all, Index)
  OBVIOUS
<1>2. /\ borrowIndex' = Index /\ elapsed' = 0 /\ rate' = rate
      /\ scaledPrincipalOf[b] - x >= 0 /\ totalScaledPrincipal - x >= 0
      /\ scaledPrincipalOf' = [scaledPrincipalOf EXCEPT ![b] = scaledPrincipalOf[b] - x]
      /\ totalScaledPrincipal' = totalScaledPrincipal - x
  BY <1>1 DEF Debt!OnRepay, Debt!Accrue, Debt!Owe, Index
<1>3. PICK s \in Nat : s = scaledPrincipalOf[b]
  BY DEF Numbers
<1>4. PICK t \in Nat : t = totalScaledPrincipal
  BY DEF Numbers
<1>5. PICK i \in Nat \ {0} : i = Index
  BY IndexGrows
<1>6. debtOf(b) = debtAt(s, i)
  BY <1>3, <1>5, DebtNames DEF debtOf, Debt!debtOf, Index
<1>7. /\ x \in 0..s
      /\ MulDivUp(t, i, WAD) <= MulDivUp(t - x, i, WAD) + a
  <2>1. all => a >= debtAt(s, i)
    BY <1>6
  <2>2. x = Debt!ClearedBy(s, a, all, i) /\ t - x >= 0
    BY <1>1, <1>2, <1>3, <1>4, <1>5
  <2>. QED
    BY <2>1, <2>2, ClearedIsPaid
<1>8. TrackedNow <= TrackedNext + a
  BY <1>2, <1>4, <1>5, <1>7 DEF TrackedNow, TrackedNext
<1>9. Shifted(b, -x) /\ -x \in Int
  <2>1. PICK d \in Int : d = -x
    BY <1>7
  <2>2. s - x = s + d /\ t - x = t + d /\ s + d \in Nat /\ t + d \in Nat
    BY <1>2, <1>3, <1>4, <1>7, <2>1
  <2>3. /\ scaledPrincipalOf' = [scaledPrincipalOf EXCEPT ![b] = scaledPrincipalOf[b] + d]
        /\ totalScaledPrincipal' = totalScaledPrincipal + d
    BY <1>2, <1>3, <1>4, <2>2
  <2>4. Shifted(b, d)
    BY <1>3, <1>4, <2>2, <2>3 DEF Shifted
  <2>. QED
    BY <2>1, <2>4
<1>. QED
  BY <1>2, <1>8, <1>9

\* onBorrow: the debt grows by no less than what is lent.
LEMMA Draws ==
  ASSUME Numbers, NEW b \in Accounts, NEW a \in Nat, Debt!OnBorrow(b, a, freeCash)
  PROVE  /\ borrowIndex' = Index /\ elapsed' = 0 /\ rate' = rate
         /\ \E d \in Int : Shifted(b, d)
         /\ TrackedNow + a <= TrackedNext
<1>1. PICK x : x = MulDivUp(a, WAD, Index)
  OBVIOUS
<1>2. x = Debt!ScaledForBorrow(a, Index)
  BY <1>1, DebtNames DEF Debt!ScaledForBorrow
<1>3. /\ borrowIndex' = Index /\ elapsed' = 0 /\ rate' = rate
      /\ scaledPrincipalOf' = [scaledPrincipalOf EXCEPT ![b] = scaledPrincipalOf[b] + x]
      /\ totalScaledPrincipal' = totalScaledPrincipal + x
  BY <1>2 DEF Debt!OnBorrow, Debt!Accrue, Debt!Owe, Index
<1>4. PICK t \in Nat : t = totalScaledPrincipal
  BY DEF Numbers
<1>5. PICK i \in Nat \ {0} : i = Index
  BY IndexGrows
<1>6. PICK w \in Nat \ {0} : w = WAD
  BY Scales
<1>7. x \in Nat /\ a * w <= i * x
  BY <1>1, <1>5, <1>6, UpBounds
<1>8. Shifted(b, x) /\ x \in Int
  BY <1>3, <1>4, <1>7 DEF Shifted, Numbers
<1>9. PICK p \in Nat : p = MulDivUp(t, i, w)
  BY UpBounds
<1>10. t + x \in Nat
  BY <1>7
<1>11. PICK q \in Nat : q = MulDivUp(t + x, i, w)
  BY <1>10, UpBounds
<1>12. w * p < t * i + w /\ (t + x) * i <= w * q
  BY <1>9, <1>10, <1>11, UpBounds
<1>13. p + a <= q
  <2>1. /\ (t + x) * i = t * i + i * x /\ w * (p + a) = w * p + a * w
        /\ t * i \in Nat /\ i * x \in Nat /\ w * q \in Nat /\ a * w \in Nat /\ w * p \in Nat
    BY <1>7
  <2>2. w * (p + a) < w * q + w
    BY <1>7, <1>12, <2>1
  <2>3. p + a \in Int
    OBVIOUS
  <2>. QED
    BY <2>2, <2>3, Cancel
<1>14. TrackedNow = p /\ TrackedNext = q
  BY <1>3, <1>4, <1>5, <1>6, <1>9, <1>11 DEF TrackedNow, TrackedNext
<1>. QED
  BY <1>3, <1>8, <1>13, <1>14

\* The debt book stands, or one account's principal moves with the total.
BookStep == UNCHANGED debtBook \/ \E b \in Accounts, d \in Int : Shifted(b, d)

Kept(slack) == Numbers' /\ BookStep /\ Follows(slack)

\* Calls that accrue and touch nobody's principal.
LEMMA AccrualKeeps ==
  ASSUME Numbers, Debt!Accrue(freeCash), UNCHANGED debtBook, rate' \in RateCurves,
         UNCHANGED <<quotes, cash, totalPrincipal, reserves, totalSupply>>,
         \/ accruedReceivables' = accruedReceivables
         \/ CanRecognise /\ accruedReceivables' = Receivables
  PROVE  Kept(0)
<1>1. borrowIndex' = Index /\ elapsed' = 0
  BY DEF Debt!Accrue, Index
<1>2. PICK k \in Nat : /\ accruedReceivables' = accruedReceivables + k
                       /\ k * price <= (TrackedNow - Tracked) * TokenUnit
  <2>1. CASE accruedReceivables' = accruedReceivables
    <3>1. PICK i \in Nat : i = TrackedNow - Tracked
      BY TrackedGrows
    <3>2. PICK u \in Nat : u = TokenUnit
      BY MarketConstants
    <3>3. PICK p \in Nat : p = price
      BY PriceType
    <3>4. i * u \in Nat /\ 0 * p = 0
      OBVIOUS
    <3>5. 0 * price <= (TrackedNow - Tracked) * TokenUnit
      BY <3>1, <3>2, <3>3, <3>4
    <3>6. accruedReceivables' = accruedReceivables + 0
      BY <2>1 DEF Numbers
    <3>. QED
      BY <3>5, <3>6
  <2>2. CASE CanRecognise /\ accruedReceivables' = Receivables
    BY <2>2, Recognition
  <2>. QED
    BY <2>1, <2>2
<1>3. Numbers'
  BY <1>1, <1>2, IndexGrows DEF Numbers, debtBook
<1>4. TrackedNext = TrackedNow
  BY <1>1 DEF TrackedNext, TrackedNow, debtBook
<1>5. totalPrincipal' + accruedReceivables' = totalPrincipal + accruedReceivables + k
  BY <1>2 DEF Numbers
<1>6. Follows(0)
  <2>1. k \in Int /\ 0 \in Nat
    OBVIOUS
  <2>2. k * price <= (TrackedNext - Tracked) * TokenUnit + 0
    <3>1. (TrackedNext - Tracked) * TokenUnit + 0 = (TrackedNow - Tracked) * TokenUnit
      BY <1>4, TrackedGrows, MarketConstants
    <3>. QED
      BY <1>2, <3>1
  <2>. QED
    BY <1>3, <1>5, <2>1, <2>2, BooksKept
<1>. QED
  BY <1>3, <1>6 DEF Kept, BookStep

\* What the pool lends out, in tokens, is worth no more than what the debt grows by.
LEMMA BorrowKeeps ==
  ASSUME Numbers, NEW b \in Accounts, NEW a \in Amounts, Borrow(b, a)
  PROVE  Kept(0)
<1>1. a \in Nat
  BY MarketConstants
<1>2. /\ Debt!OnBorrow(b, a, freeCash)
      /\ Pool!LendOver(Receivables, usd18ToTokens(a))
      /\ quotes' = quotes /\ price # 0
  BY DEF Borrow, inputs, PricedForNewRisk, SettlementPriced
<1>3. /\ borrowIndex' = Index /\ elapsed' = 0 /\ rate' = rate
      /\ TrackedNow + a <= TrackedNext
  BY <1>1, <1>2, Draws
<1>4. PICK d \in Int : Shifted(b, d)
  BY <1>1, <1>2, Draws
<1>5. PICK k \in Nat : /\ Receivables = accruedReceivables + k
                       /\ k * price <= (TrackedNow - Tracked) * TokenUnit
  BY <1>2, Recognition DEF CanRecognise, SettlementPriced
<1>6. PICK p \in Nat \ {0} : p = price
  BY <1>2, PriceType
<1>7. PICK u \in Nat : u = TokenUnit
  BY MarketConstants
<1>8. PICK t \in Nat : t = MulDiv(a, u, p)
  BY <1>1, DownBounds
<1>9. p * t <= a * u
  BY <1>1, <1>8, DownBounds
<1>10. /\ t <= freeCash
       /\ totalPrincipal' = totalPrincipal + t
       /\ accruedReceivables' = accruedReceivables + k
       /\ cash' = cash - t
       /\ reserves' = reserves /\ totalSupply' = totalSupply
  BY <1>2, <1>5, <1>6, <1>7, <1>8 DEF Pool!LendOver, usd18ToTokens, freeCash, Pool!equity
<1>11. Numbers'
  BY <1>2, <1>3, <1>4, <1>10, IndexGrows, FreeCashType DEF Numbers, Shifted
<1>12. totalPrincipal' + accruedReceivables' = totalPrincipal + accruedReceivables + (k + t)
  BY <1>10 DEF Numbers
<1>13. (k + t) * price <= (TrackedNext - Tracked) * TokenUnit + 0
  <2>1. PICK i \in Nat : i = TrackedNow - Tracked
    BY TrackedGrows
  <2>2. PICK j \in Nat : TrackedNext = TrackedNow + a + j
    <3>1. TrackedNext \in Nat
      BY <1>11, Scales, UpBounds DEF Numbers, TrackedNext
    <3>2. TrackedNext - (TrackedNow + a) \in Nat
      BY <1>1, <1>3, <3>1, TrackedGrows
    <3>. QED
      BY <1>1, <3>1, <3>2, TrackedGrows
  <2>3. TrackedNext - Tracked = i + a + j
    BY <1>1, <2>1, <2>2, TrackedGrows
  <2>4. k * p <= i * u
    BY <1>5, <1>6, <1>7, <2>1
  <2>5. /\ (k + t) * p = k * p + p * t /\ (i + a + j) * u = i * u + a * u + j * u
        /\ k * p \in Nat /\ p * t \in Nat /\ i * u \in Nat /\ a * u \in Nat /\ j * u \in Nat
    BY <1>1
  <2>6. (k + t) * p <= (i + a + j) * u + 0
    BY <1>9, <2>4, <2>5
  <2>. QED
    BY <1>6, <1>7, <2>3, <2>6
<1>14. Follows(0)
  <2>1. k + t \in Int /\ 0 \in Nat
    OBVIOUS
  <2>. QED
    BY <1>11, <1>12, <1>13, <2>1, BooksKept
<1>. QED
  BY <1>4, <1>11, <1>14 DEF Kept, BookStep

\* Retiring `a` dollars of debt for t tokens that fall short of it by no more than `s`.
LEMMA RetiringKeeps ==
  ASSUME Numbers, NEW b \in Accounts, NEW a \in Nat, NEW all \in BOOLEAN, NEW t \in Nat,
         NEW s \in Nat, all => a >= debtOf(b), price # 0, UNCHANGED quotes,
         Debt!OnRepay(b, a, all, freeCash),
         Pool!OnRepaidOver(Receivables, t, rate.reserveFactor),
         a * TokenUnit <= t * price + s
  PROVE  Kept(s)
<1>1. /\ borrowIndex' = Index /\ elapsed' = 0 /\ rate' = rate
      /\ TrackedNow <= TrackedNext + a
  BY Clears
<1>2. PICK d \in Int : Shifted(b, d)
  BY Clears
<1>3. PICK k \in Nat : /\ Receivables = accruedReceivables + k
                       /\ k * price <= (TrackedNow - Tracked) * TokenUnit
  BY Recognition DEF CanRecognise, SettlementPriced
<1>4. PICK p \in Nat : p = price
  BY PriceType
<1>5. PICK u \in Nat : u = TokenUnit
  BY MarketConstants
<1>6. PICK c \in Nat : c = totalPrincipal + accruedReceivables
  BY DEF Numbers
<1>7. /\ cash' \in Nat /\ totalPrincipal' \in Nat /\ accruedReceivables' \in Nat
      /\ reserves' \in Nat /\ totalSupply' = totalSupply
      /\ totalPrincipal' + accruedReceivables' = Monus(c + k, t)
  <2>1. PICK r \in Nat : r = Receivables
    BY <1>3 DEF Numbers
  <2>2. PICK f \in Nat : f = rate.reserveFactor
    BY MarketConstants, Scales DEF Numbers
  <2>3. Pool!OnRepaidOver(r, t, f)
    BY <2>1, <2>2
  <2>4. totalPrincipal + r = c + k
    BY <1>3, <1>6, <2>1 DEF Numbers
  <2>. QED
    BY <2>3, <2>4, Repaid
<1>8. Numbers'
  BY <1>1, <1>2, <1>7, IndexGrows DEF Numbers, Shifted
<1>9. PICK n \in Nat : n = TrackedNext
  BY <1>8, Scales, UpBounds DEF Numbers, TrackedNext
<1>10. CASE c + k <= t
  <2>0. Monus(c + k, t) = 0
    <3>1. ~(c + k > t)
      BY <1>10
    <3>. QED
      BY <3>1 DEF Monus
  <2>1. totalPrincipal' + accruedReceivables' = 0
    BY <1>7, <2>0
  <2>2. price' = price
    BY DEF price
  <2>3. Unbacked' = 0 * p - n * u
    BY <1>4, <1>5, <1>9, <2>1, <2>2, TrackedNextIs
  <2>4. 0 * p = 0 /\ n * u \in Nat
    OBVIOUS
  <2>5. Unbacked' <= 0
    BY <2>3, <2>4
  <2>. QED
    BY <1>2, <1>8, <2>5 DEF Kept, BookStep, Follows
<1>11. CASE ~(c + k <= t)
  <2>1. totalPrincipal' + accruedReceivables' = totalPrincipal + accruedReceivables + (k - t)
    BY <1>6, <1>7, <1>11 DEF Monus
  <2>2. (k - t) * price <= (TrackedNext - Tracked) * TokenUnit + s
    <3>1. PICK i \in Nat : i = TrackedNow - Tracked
      BY TrackedGrows
    <3>2. PICK j \in Nat : n + a = TrackedNow + j
      <4>1. (n + a) - TrackedNow \in Nat
        BY <1>1, <1>9, TrackedGrows
      <4>. QED
        BY <4>1, TrackedGrows
    <3>3. TrackedNext - Tracked = (i + j) - a
      BY <1>9, <3>1, <3>2, TrackedGrows
    <3>4. k * p <= i * u /\ a * u <= t * p + s
      BY <1>3, <1>4, <1>5, <3>1
    <3>5. /\ (k - t) * p = k * p - t * p /\ ((i + j) - a) * u = i * u + j * u - a * u
          /\ k * p \in Nat /\ t * p \in Nat /\ i * u \in Nat /\ a * u \in Nat /\ j * u \in Nat
      OBVIOUS
    <3>6. (k - t) * p <= ((i + j) - a) * u + s
      BY <3>4, <3>5
    <3>. QED
      BY <1>4, <1>5, <3>3, <3>6
  <2>3. k - t \in Int
    OBVIOUS
  <2>4. Follows(s)
    BY <1>8, <2>1, <2>2, <2>3, BooksKept
  <2>. QED
    BY <1>2, <1>8, <2>4 DEF Kept, BookStep
<1>. QED
  BY <1>10, <1>11

\* An account's debt is its principal at the index, rounded up.
LEMMA DebtType ==
  ASSUME Numbers, NEW b \in Accounts
  PROVE  debtOf(b) \in Nat /\ debtOf(b) = MulDivUp(scaledPrincipalOf[b], Index, WAD)
<1>1. PICK s \in Nat : s = scaledPrincipalOf[b]
  BY DEF Numbers
<1>2. PICK i \in Nat : i = Index
  BY IndexGrows
<1>3. MulDivUp(s, i, WAD) \in Nat
  BY Scales, UpBounds
<1>4. debtOf(b) = MulDivUp(s, i, WAD)
  BY <1>1, <1>2, DebtNames DEF debtOf, Debt!debtOf, debtAt, Index
<1>. QED
  BY <1>1, <1>2, <1>3, <1>4

\* A repayment costs its dollars rounded up.
LEMMA RepayKeeps ==
  ASSUME Numbers, NEW b \in Accounts, NEW n \in Amounts, NEW all \in BOOLEAN, Repay(b, n, all)
  PROVE  Kept(0)
<1>1. n \in Nat
  BY MarketConstants
<1>2. debtOf(b) \in Nat
  BY DebtType
<1>3. PICK a \in Nat : a = IF all THEN debtOf(b) ELSE Least(n, debtOf(b))
  BY <1>1, <1>2 DEF Least
<1>4. PICK p \in Nat \ {0} : p = price
  BY PriceType DEF Repay, PricedToRepay, SettlementPriced
<1>5. PICK u \in Nat : u = TokenUnit
  BY MarketConstants
<1>6. PICK t \in Nat : t = MulDivUp(a, u, p)
  BY UpBounds
<1>7. a * u <= p * t
  BY <1>6, UpBounds
<1>8. a * TokenUnit <= t * price + 0
  BY <1>4, <1>5, <1>7
<1>9. all => a >= debtOf(b)
  BY <1>2, <1>3
<1>10. /\ Debt!OnRepay(b, a, all, freeCash)
       /\ Pool!OnRepaidOver(Receivables, t, rate.reserveFactor)
       /\ UNCHANGED quotes
  BY <1>3, <1>4, <1>5, <1>6 DEF Repay, RepaymentCost, usd18ToTokensUp, inputs
<1>11. price # 0 /\ 0 \in Nat
  BY <1>4
<1>. QED
  BY <1>8, <1>9, <1>10, <1>11, RetiringKeeps

\* The kernel and the engine read the same debt.
LEMMA HealthDebt == \A b \in Accounts : accountHealth(b).debt = debtOf(b)
BY DebtNames DEF accountHealth, HealthWith, HealthOf, evaluate, debtOf, Debt!debtOf

\* The keeper's and the protocol's cuts leave something, or nothing, of the proceeds.
LEMMA ToDebtType == \A n \in Nat : ToDebt(n) \in Nat
<1> TAKE n \in Nat
<1>1. PICK w \in Nat \ {0} : w = BPS
  BY Scales
<1>2. PICK i \in Nat : i = KeeperBps
  BY MarketConstants
<1>3. PICK j \in Nat : j = ProtocolBps
  BY MarketConstants
<1>4. PICK k \in Nat : w = i + j + k
  <2>1. w - (i + j) \in Nat
    BY <1>1, <1>2, <1>3, MarketConstants
  <2>. QED
    BY <2>1
<1>5. PICK x \in Nat : x = MulDiv(n, i, w)
  BY DownBounds
<1>6. PICK y \in Nat : y = MulDiv(n, j, w)
  BY DownBounds
<1>7. w * x <= n * i /\ w * y <= n * j
  BY <1>5, <1>6, DownBounds
<1>8. /\ w * (x + y) = w * x + w * y /\ w * n = (i + j + k) * n
      /\ (i + j + k) * n = n * i + n * j + n * k
      /\ w * x \in Nat /\ w * y \in Nat /\ n * i \in Nat /\ n * j \in Nat /\ n * k \in Nat
  BY <1>4
<1>9. w * (x + y) < w * n + w
  BY <1>7, <1>8
<1>10. x + y <= n
  <2>1. x + y \in Int
    OBVIOUS
  <2>. QED
    BY <1>9, <2>1, Cancel
<1>. QED
  BY <1>1, <1>2, <1>3, <1>5, <1>6, <1>10 DEF ToDebt

\* A liquidation's tokens are its dollars rounded down: they fall short by less than one token.
LEMMA LiquidationKeeps ==
  ASSUME Numbers, NEW b \in Accounts, NEW x \in Assets, NEW n \in Amounts,
         NEW proceeds \in {0} \cup Amounts, ExecuteLiquidation(b, x, n, proceeds)
  PROVE  Kept(price)
<1>1. PICK m \in Nat : m = ToDebt(proceeds)
  BY ToDebtType, MarketConstants
<1>2. PICK s \in Nat : s = debtOf(b)
  BY DebtType
<1>3. PICK p \in Nat \ {0} : p = price
  BY PriceType DEF ExecuteLiquidation, SettlementPriced
<1>4. PICK u \in Nat \ {0} : u = TokenUnit
  BY MarketConstants
<1>5. PICK g \in Nat : g = MulDiv(m, p, u)
  BY DownBounds
<1>6. PICK a \in Nat : a = Least(g, s)
  BY DEF Least
<1>7. PICK h \in Nat : h = MulDiv(a, u, p)
  BY DownBounds
<1>8. PICK t \in Nat : t = Least(h, m)
  BY DEF Least
<1>9. u * g <= m * p /\ a * u < p * h + p
  BY <1>5, <1>7, DownBounds
<1>10. a <= g /\ (t = h \/ t = m)
  BY <1>6, <1>8 DEF Least
<1>11. a * u <= t * p + p
  <2>1. PICK k \in Nat : g = a + k
    BY <1>10, g - a \in Nat, g = a + (g - a)
  <2>2. /\ u * (a + k) = a * u + u * k /\ a * u \in Nat /\ u * k \in Nat
        /\ p * h = h * p /\ h * p \in Nat /\ m * p \in Nat
    OBVIOUS
  <2>3. CASE t = h
    BY <1>9, <2>2, <2>3
  <2>4. CASE t = m
    BY <1>9, <2>1, <2>2, <2>4
  <2>. QED
    BY <1>10, <2>3, <2>4
<1>12. /\ Debt!OnRepay(b, a, FALSE, freeCash)
       /\ Pool!OnRepaidOver(Receivables, t, rate.reserveFactor)
       /\ UNCHANGED quotes
  <2>1. a = Least(tokensToUsd18(ToDebt(proceeds)), accountHealth(b).debt)
    BY <1>1, <1>2, <1>3, <1>4, <1>5, <1>6, HealthDebt DEF tokensToUsd18
  <2>2. t = Least(usd18ToTokens(a), ToDebt(proceeds))
    BY <1>1, <1>3, <1>4, <1>7, <1>8 DEF usd18ToTokens
  <2>. QED
    BY <2>1, <2>2 DEF ExecuteLiquidation, inputs
<1>13. a * TokenUnit <= t * price + price /\ price \in Nat /\ price # 0
  BY <1>3, <1>4, <1>11
<1>14. FALSE \in BOOLEAN /\ (FALSE => a >= debtOf(b))
  OBVIOUS
<1>. QED
  BY <1>12, <1>13, <1>14, RetiringKeeps

\* Calls that leave the debt and the claims alone.
LEMMA RestKeeps ==
  ASSUME Numbers, Numbers', UNCHANGED <<borrowIndex, debtBook, totalPrincipal, accruedReceivables>>
  PROVE  Kept(0)
<1>1. PICK m \in Nat : m = Tracked
  BY TrackedGrows
<1>2. TrackedNext = m
  BY <1>1 DEF TrackedNext, Tracked, debtBook
<1>3. PICK p \in Nat : p = price
  BY PriceType
<1>4. PICK u \in Nat : u = TokenUnit
  BY MarketConstants
<1>5. 0 * p <= (m - m) * u + 0
  <2>1. (m - m) * u = 0 /\ 0 * p = 0
    OBVIOUS
  <2>. QED
    BY <2>1
<1>6. 0 * price <= (TrackedNext - Tracked) * TokenUnit + 0
  BY <1>1, <1>2, <1>3, <1>4, <1>5
<1>7. totalPrincipal' + accruedReceivables' = totalPrincipal + accruedReceivables + 0
  BY DEF Numbers
<1>8. Follows(0)
  <2>1. 0 \in Nat /\ 0 \in Int
    OBVIOUS
  <2>. QED
    BY <1>6, <1>7, <2>1, BooksKept
<1>. QED
  BY <1>8 DEF Kept, BookStep

\* Lenders move cash and shares only.
LEMMA LendersKeep ==
  ASSUME Numbers, NEW l \in Lenders, NEW n \in Amounts, Supply(l, n) \/ Withdraw(l, n)
  PROVE  Kept(0)
<1>1. n \in Nat
  BY MarketConstants
<1>2. PICK v \in Nat : v = Pool!totalAssets
  <2>1. Pool!totalAssets = Monus(cash + totalPrincipal + accruedReceivables, 0 + reserves + 0)
    BY PoolNames DEF Pool!totalAssets, Pool!NetAssets
  <2>. QED
    BY <2>1 DEF Monus, Numbers
<1>3. PICK z \in Nat : z = totalSupply
  BY DEF Numbers
<1>4. UNCHANGED <<quotes, borrowIndex, elapsed, debtBook, rate, totalPrincipal,
                  accruedReceivables, reserves>>
  BY DEF Supply, Withdraw, Pool!Supply, Pool!Withdraw, Pool!books, inputs, financing, debtBook
<1>5. cash' \in Nat /\ totalSupply' \in Nat
  <2>1. CASE Supply(l, n)
    <3>1. Pool!convertToShares(n) \in Nat
      <4>1. CASE z = 0 \/ v = 0
        BY <1>1, <1>2, <1>3, <4>1 DEF Pool!convertToShares, Pool!SharesFor
      <4>2. CASE ~(z = 0 \/ v = 0)
        <5>1. MulDiv(n, z, v) \in Nat
          BY <1>1, <4>2, DownBounds
        <5>. QED
          BY <1>2, <1>3, <4>2, <5>1, PoolNames DEF Pool!convertToShares, Pool!SharesFor
      <4>. QED
        BY <4>1, <4>2
    <3>2. cash' = cash + n /\ totalSupply' = totalSupply + Pool!convertToShares(n)
      BY <2>1 DEF Supply, Pool!Supply, Pool!Mint
    <3>. QED
      BY <1>1, <3>1, <3>2 DEF Numbers
  <2>2. CASE Withdraw(l, n)
    <3>1. PICK a \in Nat : a = Pool!convertToAssets(n)
      <4>1. CASE z = 0
        BY <1>1, <1>3, <4>1 DEF Pool!convertToAssets
      <4>2. CASE z # 0
        <5>1. MulDiv(n, v, z) \in Nat
          BY <1>1, <4>2, DownBounds
        <5>. QED
          BY <1>2, <1>3, <4>2, <5>1, PoolNames DEF Pool!convertToAssets
      <4>. QED
        BY <4>1, <4>2
    <3>2. /\ a <= freeCash /\ totalSupply >= n
          /\ cash' = cash - a /\ totalSupply' = totalSupply - n
      BY <2>2, <3>1 DEF Withdraw, Pool!Withdraw, Pool!Burn, freeCash
    <3>. QED
      BY <1>1, <3>2, FreeCashType DEF Numbers
  <2>. QED
    BY <2>1, <2>2
<1>6. Numbers'
  BY <1>4, <1>5 DEF Numbers, debtBook
<1>. QED
  BY <1>4, <1>6, RestKeeps

\* Time and the feeds move the quotes.
LEMMA InputsKeep ==
  ASSUME Numbers, Tick \/ \E f \in Feeds : \E p \in Prices[f] : Publish(f, p)
  PROVE  Kept(0)
<1>1. UNCHANGED <<borrowIndex, debtBook, rate, pool>> /\ elapsed' \in Nat
  BY DEF Tick, Publish, financing, debtBook, Numbers
<1>2. quotes' \in [Feeds -> [price : Nat, age : Nat]]
  <2>1. CASE Tick
    <3>1. quotes' = [f \in Feeds |-> [quotes[f] EXCEPT !.age = Least(@ + 1, MaxAge[f])]]
      BY <2>1 DEF Tick
    <3>2. ASSUME NEW f \in Feeds
          PROVE  [quotes[f] EXCEPT !.age = Least(@ + 1, MaxAge[f])] \in [price : Nat, age : Nat]
      <4>1. quotes[f] \in [price : Nat, age : Nat] /\ MaxAge[f] \in Nat
        BY MarketConstants DEF Numbers
      <4>2. Least(quotes[f].age + 1, MaxAge[f]) \in Nat
        BY <4>1 DEF Least
      <4>. QED
        BY <4>1, <4>2
    <3>. QED
      BY <3>1, <3>2
  <2>2. CASE \E f \in Feeds : \E p \in Prices[f] : Publish(f, p)
    <3>1. PICK f \in Feeds : \E p \in Prices[f] : Publish(f, p)
      BY <2>2
    <3>2. PICK p \in Prices[f] : Publish(f, p)
      BY <3>1
    <3>3. [price |-> p, age |-> 0] \in [price : Nat, age : Nat]
      BY <3>2, MarketConstants
    <3>. QED
      BY <3>2, <3>3 DEF Publish, Numbers
  <2>. QED
    BY <2>1, <2>2
<1>3. Numbers'
  BY <1>1, <1>2 DEF Numbers, pool, debtBook
<1>. QED
  BY <1>1, <1>3, RestKeeps DEF pool

\* Collateral that leaves changes custody.
LEMMA ReleaseMoves ==
  ASSUME Custody!CustodyTypeOK, NEW a \in Assets, NEW b \in Accounts, NEW n \in Amounts,
         Custody!Release(a, b, n)
  PROVE  custody' # custody
<1>1. n \in Nat \ {0}
  BY MarketConstants
<1>2. PICK x \in Nat : x = balanceOf[a][b]
  BY DEF Custody!CustodyTypeOK
<1>3. balanceOf' = [balanceOf EXCEPT ![a][b] = balanceOf[a][b] - n]
  BY DEF Custody!Release
<1>4. balanceOf'[a][b] = x - n
  BY <1>2, <1>3 DEF Custody!CustodyTypeOK
<1>5. x - n # x
  BY <1>1
<1>. QED
  BY <1>2, <1>4, <1>5 DEF custody

\* Every call keeps the books; only one that moves custody may cost a token.
LEMMA MarketStep ==
  ASSUME Numbers, Custody!CustodyTypeOK, [Next]_vars
  PROVE  Kept(0) \/ (custody' # custody /\ Kept(price))
<1>1. CASE \E b \in Accounts, a \in Assets, n \in Amounts : WithdrawCollateral(b, a, n)
  <2>1. PICK b \in Accounts, a \in Assets, n \in Amounts : WithdrawCollateral(b, a, n)
    BY <1>1
  <2>2. /\ Debt!Accrue(freeCash) /\ UNCHANGED debtBook /\ rate' = rate
        /\ CanRecognise /\ accruedReceivables' = Receivables
        /\ UNCHANGED <<quotes, cash, totalPrincipal, reserves, totalSupply>>
    BY <2>1 DEF WithdrawCollateral, Pool!Accrued, Pool!equity, inputs
  <2>3. rate' \in RateCurves
    BY <2>2 DEF Numbers
  <2>. QED
    BY <2>2, <2>3, AccrualKeeps
<1>2. CASE Poke \/ \E r \in RateCurves : SetRateParams(r)
  <2>1. /\ Debt!Accrue(freeCash) /\ UNCHANGED debtBook /\ rate' \in RateCurves
        /\ UNCHANGED <<quotes, pool>>
    BY <1>2 DEF Poke, SetRateParams, Debt!SetRateParams, debtBook, Debt!debtBook, inputs, Numbers
  <2>2. /\ UNCHANGED <<quotes, cash, totalPrincipal, reserves, totalSupply>>
        /\ accruedReceivables' = accruedReceivables
    BY <2>1 DEF pool
  <2>. QED
    BY <2>1, <2>2, AccrualKeeps
<1>3. CASE \E b \in Accounts, n \in Amounts : Borrow(b, n)
  BY <1>3, BorrowKeeps
<1>4. CASE \E b \in Accounts, n \in Amounts, all \in BOOLEAN : Repay(b, n, all)
  BY <1>4, RepayKeeps
<1>5. CASE \E b \in Accounts, a \in Assets, n \in Amounts, p \in {0} \cup Amounts :
             ExecuteLiquidation(b, a, n, p)
  <2>1. PICK b \in Accounts, a \in Assets, n \in Amounts, p \in {0} \cup Amounts :
               ExecuteLiquidation(b, a, n, p)
    BY <1>5
  <2>2. Custody!Release(a, b, n)
    BY <2>1 DEF ExecuteLiquidation
  <2>. QED
    BY <2>1, <2>2, ReleaseMoves, LiquidationKeeps
<1>6. CASE \E l \in Lenders, n \in Amounts : Supply(l, n) \/ Withdraw(l, n)
  BY <1>6, LendersKeep
<1>7. CASE Tick \/ \E f \in Feeds : \E p \in Prices[f] : Publish(f, p)
  BY <1>7, InputsKeep
<1>8. CASE \/ \E b \in Accounts, a \in Assets, n \in Amounts : \E r \in 1..n :
                AddCollateral(b, a, n, r)
           \/ \E b \in Accounts, n \in Amounts : Reserve(b, n) \/ ReleaseReservation(b, n)
           \/ \E b \in Accounts, s \in Overrides : SetAccountRiskState(b, s)
           \/ \E b \in Accounts : ClearAccountRiskState(b)
           \/ \E m \in MaxPriceAges : SetSettlementMaxPriceAge(m)
           \/ ClearSettlementFreshness
           \/ \E a \in Assets : DonateCollateral(a)
           \/ \E a \in Assets : \E s \in Standings[a] : SetStanding(a, s)
           \/ \E g \in SequencerStates : SetSequencer(g)
           \/ UNCHANGED vars
  <2>1. UNCHANGED <<quotes, financing, pool>>
    BY <1>8 DEF AddCollateral, Reserve, ReleaseReservation, SetAccountRiskState,
      ClearAccountRiskState, SetSettlementMaxPriceAge, ClearSettlementFreshness,
      DonateCollateral, SetStanding, SetSequencer, inputs, vars
  <2>2. UNCHANGED <<borrowIndex, elapsed, debtBook, rate, pool>>
    BY <2>1 DEF financing
  <2>3. Numbers'
    BY <2>1, <2>2 DEF Numbers, pool, debtBook
  <2>4. UNCHANGED <<borrowIndex, debtBook, totalPrincipal, accruedReceivables>>
    BY <2>2 DEF pool
  <2>. QED
    BY <2>3, <2>4, RestKeeps
<1>. QED
  BY Zenon, <1>1, <1>2, <1>3, <1>4, <1>5, <1>6, <1>7, <1>8 DEF Next

-----------------------------------------------------------------------------
(* The accounts' debts and the market's.                                    *)

TotalIsSum == totalScaledPrincipal = SumFunctionOnSet(scaledPrincipalOf, Accounts)

Ledgers == CustodyHolds /\ Numbers /\ TotalIsSum

\* The total of the scaled principal stays the sum over the accounts.
LEMMA BookStepAdds ==
  ASSUME Numbers, Numbers', TotalIsSum, BookStep
  PROVE  TotalIsSum'
<1>1. CASE UNCHANGED debtBook
  BY <1>1 DEF TotalIsSum, debtBook
<1>2. ASSUME NEW b \in Accounts, NEW d \in Int, Shifted(b, d)
      PROVE  TotalIsSum'
  <2>1. PICK f : f = scaledPrincipalOf
    OBVIOUS
  <2>2. PICK g : g = scaledPrincipalOf'
    OBVIOUS
  <2>3. /\ f \in [Accounts -> Nat] /\ g \in [Accounts -> Nat]
        /\ g[b] = f[b] + d /\ \A x \in Accounts : x # b => g[x] = f[x]
    BY <1>2, <2>1, <2>2 DEF Numbers, Shifted
  <2>4. ChangesAt(Accounts, f, g, b)
    BY <2>3, MarketConstants DEF ChangesAt
  <2>5. /\ SumFunctionOnSet(f, Accounts) \in Int
        /\ SumFunctionOnSet(g, Accounts) = SumFunctionOnSet(f, Accounts) + (g[b] - f[b])
    BY <2>4, TermChanges
  <2>6. SumFunctionOnSet(g, Accounts) = SumFunctionOnSet(f, Accounts) + d
    BY <2>3, <2>5
  <2>7. totalScaledPrincipal = SumFunctionOnSet(f, Accounts)
    BY <2>1 DEF TotalIsSum
  <2>8. totalScaledPrincipal' = totalScaledPrincipal + d
    BY <1>2 DEF Shifted
  <2>. QED
    BY <2>2, <2>6, <2>7, <2>8 DEF TotalIsSum
<1>. QED
  BY <1>1, <1>2 DEF BookStep

\* The market starts with empty ledgers.
LEMMA LedgersInit == Init => Ledgers
<1> SUFFICES ASSUME Init
             PROVE  Ledgers
  OBVIOUS
<1>1. CustodyHolds
  BY CustodyInits
<1>2. /\ borrowIndex = WAD /\ elapsed = 0 /\ totalScaledPrincipal = 0
      /\ scaledPrincipalOf = [b \in Accounts |-> 0] /\ rate \in RateCurves
      /\ cash = 0 /\ totalPrincipal = 0 /\ accruedReceivables = 0 /\ reserves = 0
      /\ totalSupply = 0
  BY DEF Init, Debt!FinancingInit
<1>3. quotes \in [Feeds -> [price : Nat, age : Nat]]
  <2>1. /\ quotes \in [Feeds -> [price : UNION Range(Prices), age : {0}]]
        /\ \A f \in Feeds : quotes[f].price \in Prices[f]
    BY DEF Init
  <2>2. ASSUME NEW f \in Feeds
        PROVE  quotes[f] \in [price : Nat, age : Nat]
    <3>1. quotes[f] \in [price : UNION Range(Prices), age : {0}]
      BY <2>1
    <3>2. quotes[f].price \in Nat
      BY <2>1, MarketConstants
    <3>. QED
      BY <3>1, <3>2
  <2>. QED
    BY <2>1, <2>2
<1>4. Numbers
  BY <1>2, <1>3, Scales DEF Numbers
<1>5. TotalIsSum
  <2>1. IsFiniteSet(Accounts) /\ \A b \in Accounts : scaledPrincipalOf[b] = 0
    BY <1>2, MarketConstants
  <2>. QED
    BY <1>2, <2>1, SumOfZeros DEF TotalIsSum
<1>. QED
  BY <1>1, <1>4, <1>5 DEF Ledgers

\* Every call keeps the three of them.
LEMMA LedgersNext == Ledgers /\ [Next]_vars => Ledgers'
<1> SUFFICES ASSUME Ledgers, [Next]_vars
             PROVE  Ledgers'
  OBVIOUS
<1>1. CustodyHolds'
  BY CustodyStep DEF Ledgers
<1>2. Numbers' /\ BookStep
  BY MarketStep DEF Ledgers, CustodyHolds, Kept
<1>. QED
  BY <1>1, <1>2, BookStepAdds DEF Ledgers

\* So they hold always.
LEMMA LedgersAlways == Spec => []Ledgers
BY LedgersInit, LedgersNext, PTL DEF Spec

BooksBody ==
  price' = price =>
    Unbacked' <= 0 \/ Unbacked' <= Unbacked + (IF custody' = custody THEN 0 ELSE price)

\* The two ledgers move together in every instance: while the settlement price stands, no call
\* lets the pool's claims outgrow the debt of the borrowers, but for the part of a token that
\* converting recovered proceeds down may cost (ClearingHouse.sol borrow, repay,
\* executeLiquidation, _accrueAndRecognise).
THEOREM BooksDoFollowDebt == Spec => BooksFollowDebt
<1>1. Ledgers /\ [Next]_vars => [BooksBody]_vars
  <2> SUFFICES ASSUME Ledgers, [Next]_vars, price' = price
               PROVE  Unbacked' <= 0
                        \/ Unbacked' <= Unbacked + (IF custody' = custody THEN 0 ELSE price)
    BY DEF BooksBody
  <2>1. Numbers /\ Numbers' /\ Custody!CustodyTypeOK
    BY LedgersNext DEF Ledgers, CustodyHolds
  <2>2. PICK p \in Nat : p = price
    BY <2>1, PriceType
  <2>3. Unbacked \in Int /\ Unbacked' \in Int
    <3>1. Unbacked \in Int
      BY <2>1, <2>2, TrackedIs, TrackedGrows, MarketConstants DEF Numbers
    <3>2. TrackedNext \in Nat
      BY <2>1, Scales, UpBounds DEF Numbers, TrackedNext
    <3>3. Unbacked' \in Int
      BY <2>1, <2>2, <3>2, TrackedNextIs, MarketConstants DEF Numbers
    <3>. QED
      BY <3>1, <3>3
  <2>4. CASE Kept(0)
    <3>1. Unbacked' <= 0 \/ Unbacked' <= Unbacked + 0
      BY <2>4 DEF Kept, Follows
    <3>. QED
      BY <2>2, <2>3, <3>1
  <2>5. CASE custody' # custody /\ Kept(price)
    <3>1. Unbacked' <= 0 \/ Unbacked' <= Unbacked + price
      BY <2>5 DEF Kept, Follows
    <3>. QED
      BY <2>5, <3>1
  <2>. QED
    BY <2>1, <2>4, <2>5, MarketStep
<1>. QED
  BY <1>1, LedgersAlways, PTL DEF Spec, BooksFollowDebt, BooksBody

\* Rounding every part up costs no less than rounding their sum up, and at most a unit for each.
LEMMA UpOfSums ==
  ASSUME NEW S, IsFiniteSet(S), NEW f \in [S -> Nat], NEW i \in Nat, NEW d \in Nat \ {0},
         NEW g, g = [x \in S |-> MulDivUp(f[x], i, d)]
  PROVE  /\ SumFunctionOnSet(f, S) \in Nat /\ SumFunctionOnSet(g, S) \in Nat
         /\ MulDivUp(SumFunctionOnSet(f, S), i, d) <= SumFunctionOnSet(g, S)
         /\ SumFunctionOnSet(g, S) <= MulDivUp(SumFunctionOnSet(f, S), i, d) + Cardinality(S)
<1> DEFINE Whole(T) == MulDivUp(SumFunctionOnSet(f, T), i, d)
           Parts(T) == SumFunctionOnSet(g, T)
           X == {T \in SUBSET S : Whole(T) <= Parts(T) /\ Parts(T) <= Whole(T) + Cardinality(T)}
<1>1. \A x \in S : g[x] \in Nat /\ f[x] \in Nat /\ g[x] = MulDivUp(f[x], i, d)
  BY UpBounds
<1>2. ASSUME NEW T \in SUBSET S
      PROVE  /\ IsFiniteSet(T) /\ Cardinality(T) \in Nat
             /\ SumFunctionOnSet(f, T) \in Nat /\ Parts(T) \in Nat
             /\ \A x \in T : /\ SumFunctionOnSet(f, T) = f[x] + SumFunctionOnSet(f, T \ {x})
                             /\ Parts(T) = g[x] + Parts(T \ {x})
                             /\ Cardinality(T) = Cardinality(T \ {x}) + 1
                             /\ T \ {x} \in SUBSET T /\ T \ {x} # T
  <2>1. IsFiniteSet(T) /\ Cardinality(T) \in Nat
    BY FS_Subset, FS_CardinalityType
  <2>2. \A x \in T : f[x] \in Nat /\ g[x] \in Nat /\ f[x] \in Int /\ g[x] \in Int
    BY <1>1
  <2>3. SumFunctionOnSet(f, T) \in Nat /\ SumFunctionOnSet(g, T) \in Nat
    BY <2>1, <2>2, SumOfNaturals
  <2>4. ASSUME NEW x \in T
        PROVE  /\ SumFunctionOnSet(f, T) = f[x] + SumFunctionOnSet(f, T \ {x})
               /\ SumFunctionOnSet(g, T) = g[x] + SumFunctionOnSet(g, T \ {x})
    BY <2>1, <2>2, SumRemove
  <2>5. ASSUME NEW x \in T
        PROVE  Cardinality(T) = Cardinality(T \ {x}) + 1
    BY <2>1, FS_RemoveElement, FS_CardinalityType, FS_Subset
  <2>. QED
    BY <2>1, <2>3, <2>4, <2>5
<1>3. ASSUME NEW T \in SUBSET S, \A U \in SUBSET T : U # T => U \in X
      PROVE  T \in X
  <2>1. CASE T = {}
    <3>1. SumFunctionOnSet(f, T) = 0 /\ Parts(T) = 0 /\ Cardinality(T) = 0
      BY <2>1, SumFirst, FS_EmptySet, <1>2, <1>1
    <3>2. Whole(T) = 0
      BY <3>1 DEF MulDivUp, MulDiv
    <3>. QED
      BY <3>1, <3>2
  <2>2. CASE T # {}
    <3>1. PICK x \in T : TRUE
      BY <2>2
    <3>2. PICK s \in Nat : s = SumFunctionOnSet(f, T \ {x})
      BY <1>2
    <3>3. PICK c \in Nat : c = Cardinality(T \ {x})
      BY <1>2
    <3>4. PICK q \in Nat : q = Parts(T \ {x})
      BY <1>2
    <3>5. PICK y \in Nat : y = f[x]
      BY <1>1
    <3>6. PICK p \in Nat : p = MulDivUp(y, i, d)
      BY UpBounds
    <3>7. PICK w \in Nat : w = MulDivUp(s, i, d)
      BY UpBounds
    <3>8. y + s \in Nat
      OBVIOUS
    <3>9. PICK v \in Nat : v = MulDivUp(y + s, i, d)
      BY <3>8, UpBounds
    <3>10. v <= p + w /\ p + w <= v + 1
      BY <3>6, <3>7, <3>9, UpOfSum
    <3>11. T \ {x} \in X
      BY <1>2, <1>3
    <3>12. w <= q /\ q <= w + c
      BY <3>2, <3>3, <3>4, <3>7, <3>11
    <3>13. Whole(T) = v /\ Parts(T) = p + q /\ Cardinality(T) = c + 1
      BY <1>1, <1>2, <3>2, <3>3, <3>4, <3>5, <3>6, <3>9
    <3>. QED
      BY <3>10, <3>12, <3>13
  <2>. QED
    BY <2>1, <2>2
<1>4. SUBSET S \subseteq X
  <2> HIDE DEF X
  <2>. QED
    BY <1>3, SubsetInduction
<1>5. S \in X
  BY <1>4
<1>. QED
  BY <1>2, <1>5

\* I-05, in every instance: after any calls at any index, the market's borrows are the sum of
\* its accounts' debts within one unit of rounding for each (FinancingEngine.sol onBorrow,
\* onRepay, debtOf, totalBorrows).
THEOREM DebtsDoAddUp == Spec => []DebtsAddUp
<1>1. Ledgers => DebtsAddUp
  <2> SUFFICES ASSUME Ledgers
               PROVE  DebtsAddUp
    OBVIOUS
  <2>1. Numbers /\ TotalIsSum /\ IsFiniteSet(Accounts) /\ Cardinality(Accounts) \in Nat
    BY MarketConstants, FS_CardinalityType DEF Ledgers
  <2>2. PICK i \in Nat : i = Index
    BY <2>1, IndexGrows
  <2>3. PICK f \in [Accounts -> Nat] : f = scaledPrincipalOf
    BY <2>1 DEF Numbers
  <2>4. PICK g : g = [b \in Accounts |-> MulDivUp(f[b], i, WAD)]
    OBVIOUS
  <2>5. WAD \in Nat \ {0}
    BY Scales
  <2>6. /\ SumFunctionOnSet(f, Accounts) \in Nat /\ SumFunctionOnSet(g, Accounts) \in Nat
        /\ MulDivUp(SumFunctionOnSet(f, Accounts), i, WAD) <= SumFunctionOnSet(g, Accounts)
        /\ SumFunctionOnSet(g, Accounts)
             <= MulDivUp(SumFunctionOnSet(f, Accounts), i, WAD) + Cardinality(Accounts)
    BY <2>1, <2>4, <2>5, UpOfSums
  <2>7. [b \in Accounts |-> debtOf(b)] = g
    BY <2>1, <2>2, <2>3, <2>4, DebtType
  <2>8. DOMAIN g = Accounts /\ DOMAIN scaledPrincipalOf = Accounts
    BY <2>1, <2>4 DEF Numbers
  <2>9. /\ SumFunction([b \in Accounts |-> debtOf(b)]) = SumFunctionOnSet(g, Accounts)
        /\ SumFunction(scaledPrincipalOf) = SumFunctionOnSet(f, Accounts)
    BY <2>3, <2>7, <2>8, Zenon DEF SumFunction
  <2>10. totalScaledPrincipal = SumFunctionOnSet(f, Accounts)
    BY <2>1, <2>3 DEF TotalIsSum
  <2>11. Debt!totalBorrowsAt(Debt!currentIndex(freeCash))
           = MulDivUp(SumFunctionOnSet(f, Accounts), i, WAD)
    BY <2>2, <2>10, TrackedIs DEF TrackedNow, Index
  <2>12. MulDivUp(SumFunctionOnSet(f, Accounts), i, WAD) \in Nat
    BY <2>5, <2>6, UpBounds
  <2>. QED
    BY <2>1, <2>6, <2>9, <2>10, <2>11, <2>12 DEF DebtsAddUp
<1>. QED
  BY <1>1, LedgersAlways, PTL

-----------------------------------------------------------------------------
(* The accounts, and what their collateral carries.                         *)

Placed ==
  /\ held \in [Accounts -> Seq(Assets)]
  /\ reservedUsd18 \in [Accounts -> Nat]
  /\ statusOverride \in [Accounts -> AccountStatus]
  /\ DOMAIN standing = Assets
  /\ \A a \in Assets : standing[a] \in Standings[a]

Positions(list, q) == [i \in DOMAIN list |-> assetInput(list[i], q[list[i]])]

Maintenance(list, q) ==
  Total([i \in DOMAIN list |->
           MulDiv(cappedValues(Positions(list, q))[i], Policy[list[i]].params.maintenanceLtv, BPS)])

BorrowLimit(list, q) ==
  Total([i \in DOMAIN list |->
           MulDiv(cappedValues(Positions(list, q))[i], Policy[list[i]].params.initialLtv, BPS)])

\* What the kernel says of a debt and of the limits.
LEMMA HealthIs ==
  ASSUME NEW list, NEW q, NEW scaled, NEW index, NEW reserved, NEW override
  PROVE  /\ HealthOf(list, q, scaled, index, reserved, override).debt = MulDivUp(scaled, index, WAD)
         /\ HealthOf(list, q, scaled, index, reserved, override).limits.borrow = BorrowLimit(list, q)
         /\ HealthOf(list, q, scaled, index, reserved, override).limits.maintenance = Maintenance(list, q)
<1>1. PICK xs : xs = Positions(list, q)
  OBVIOUS
<1>2. PICK acct : acct = [scaledPrincipal |-> scaled, borrowIndex |-> index,
                          reservedUsd18 |-> reserved, statusOverride |-> override]
  OBVIOUS
<1>3. HealthOf(list, q, scaled, index, reserved, override) = evaluate(xs, acct, sequencer)
  BY <1>1, <1>2 DEF HealthOf, Positions
<1>4. /\ evaluate(xs, acct, sequencer).debt = MulDivUp(acct.scaledPrincipal, acct.borrowIndex, WAD)
      /\ evaluate(xs, acct, sequencer).limits.borrow
           = Total([i \in DOMAIN xs |-> MulDiv(cappedValues(xs)[i], xs[i].params.initialLtv, BPS)])
      /\ evaluate(xs, acct, sequencer).limits.maintenance
           = Total([i \in DOMAIN xs |-> MulDiv(cappedValues(xs)[i], xs[i].params.maintenanceLtv, BPS)])
  BY DEF evaluate, debtAt
<1>5. DOMAIN xs = DOMAIN list /\ \A i \in DOMAIN list : xs[i].params = Policy[list[i]].params
  BY <1>1 DEF Positions, assetInput
<1>6. /\ [i \in DOMAIN xs |-> MulDiv(cappedValues(xs)[i], xs[i].params.initialLtv, BPS)]
           = [i \in DOMAIN list |-> MulDiv(cappedValues(xs)[i], Policy[list[i]].params.initialLtv, BPS)]
      /\ [i \in DOMAIN xs |-> MulDiv(cappedValues(xs)[i], xs[i].params.maintenanceLtv, BPS)]
           = [i \in DOMAIN list |-> MulDiv(cappedValues(xs)[i], Policy[list[i]].params.maintenanceLtv, BPS)]
  BY <1>5
<1>7. acct.scaledPrincipal = scaled /\ acct.borrowIndex = index
  BY <1>2
<1>. QED
  BY <1>1, <1>3, <1>4, <1>6, <1>7 DEF Maintenance, BorrowLimit

\* A position is worth a number, and nothing when there is nothing of it.
LEMMA PositionWorth ==
  ASSUME Numbers, Placed, NEW a \in Assets, NEW n \in Nat
  PROVE  /\ recognized(assetInput(a, n)) \in Nat
         /\ n = 0 => recognized(assetInput(a, n)) = 0
<1>1. PICK x : x = assetInput(a, n)
  OBVIOUS
<1>2. /\ x.quantity = n /\ x.unit \in Nat \ {0} /\ x.price \in Nat
      /\ x.params.haircuts \in Seq(0..BPS)
      /\ x.curve \in Seq([threshold : Nat, recovery : Nat]) /\ x.curve # <<>>
      /\ x.passport.floor \in Nat
  BY <1>1, PolicyConstants DEF assetInput, Numbers, Placed, Feeds
<1>3. BPS \in Nat \ {0}
  BY Scales
<1>4. PICK m \in Nat : m = marketValue(x) /\ (n = 0 => m = 0)
  <2>1. MulDiv(n, x.price, x.unit) \in Nat
    BY <1>2, DownBounds
  <2>2. n = 0 => MulDiv(n, x.price, x.unit) = 0
    BY <1>2, SMTT(60) DEF MulDiv
  <2>. QED
    BY <1>2, <2>1, <2>2 DEF marketValue
<1>5. haircutMark(x) \in Nat /\ (n = 0 => haircutMark(x) = 0)
  <2>1. PICK k \in Nat : k = Len(x.params.haircuts)
    BY <1>2
  <2>2. PICK cuts \in [1..k -> 0..BPS] : cuts = x.params.haircuts
    <3>1. PICK h, C : h = x.params.haircuts /\ C = 0..BPS
      OBVIOUS
    <3>2. h \in Seq(C)
      BY <1>2, <3>1
    <3>3. h \in [1..Len(h) -> C]
      BY <3>2
    <3>. QED
      BY <2>1, <3>1, <3>3
  <2>3. haircutMark(x) = After(BPS, m, cuts)
    <3>1. haircutMark(x) = After(BPS, marketValue(x), x.params.haircuts)
      BY DEF haircutMark, After
    <3>. QED
      BY <1>4, <2>2, <3>1
  <2>4. \A i \in 1..k : cuts[i] <= cuts[i]
    BY <1>3, <2>1
  <2>5. After(BPS, m, cuts) \in Nat
    BY <1>3, <2>1, <2>4, CutsOrder
  <2>6. After(BPS, 0, cuts) = 0
    BY <1>3, <2>1, CutsOfNothing
  <2>. QED
    BY <1>4, <2>3, <2>5, <2>6
<1>6. selectRecoveryBps(x.curve, m) \in Nat
  <2> DEFINE c == x.curve
             fits == {i \in DOMAIN c : m <= c[i].threshold}
             at == IF fits = {} THEN Len(c) ELSE Min(fits)
  <2>1. DOMAIN c = 1..Len(c) /\ Len(c) \in Nat \ {0}
    BY <1>2
  <2>2. fits # {} => Min(fits) \in fits
    <3>1. fits \in SUBSET Nat
      BY <2>1
    <3> HIDE DEF fits
    <3>. QED
      BY <3>1, LeastIs
  <2>3. at \in DOMAIN c
    BY <2>1, <2>2
  <2>4. c[at] \in [threshold : Nat, recovery : Nat]
    <3> DEFINE Tier == [threshold : Nat, recovery : Nat]
    <3>1. c \in Seq(Tier)
      BY <1>2
    <3> HIDE DEF Tier, c, at
    <3>2. c[at] \in Tier
      BY <2>1, <2>3, <3>1
    <3>. QED
      BY <3>2 DEF Tier
  <2>5. selectRecoveryBps(c, m) = c[at].recovery
    BY DEF selectRecoveryBps
  <2> HIDE DEF at, fits
  <2>. QED
    BY <2>4, <2>5
<1>7. stressedExit(x) \in Nat /\ (n = 0 => stressedExit(x) = 0)
  <2>1. PICK r \in Nat : r = selectRecoveryBps(x.curve, m)
    BY <1>6
  <2>2. stressedExit(x) = MulDiv(m, r, BPS)
    BY <1>4, <2>1 DEF stressedExit
  <2>3. MulDiv(m, r, BPS) \in Nat /\ MulDiv(0, r, BPS) = 0
    <3>1. 0 * r = 0 /\ 0 \div BPS = 0
      BY <1>3, <2>1
    <3>. QED
      BY <1>3, <2>1, <3>1, DownBounds DEF MulDiv
  <2>. QED
    BY <1>4, <2>2, <2>3
<1>8. redemptionFloor(x) \in Nat /\ (n = 0 => redemptionFloor(x) = 0)
  <2>1. PICK r \in Nat : r = x.passport.floor
    BY <1>2
  <2>2. redemptionFloor(x) = MulDiv(m, r, BPS)
    BY <1>4, <2>1 DEF redemptionFloor
  <2>3. MulDiv(m, r, BPS) \in Nat /\ MulDiv(0, r, BPS) = 0
    <3>1. 0 * r = 0 /\ 0 \div BPS = 0
      BY <1>3, <2>1
    <3>. QED
      BY <1>3, <2>1, <3>1, DownBounds DEF MulDiv
  <2>. QED
    BY <1>4, <2>2, <2>3
<1>9. PICK T : T = {haircutMark(x), stressedExit(x)}
                     \cup (IF x.passport.redeemable THEN {redemptionFloor(x)} ELSE {})
  OBVIOUS
<1>10. T \in SUBSET Nat /\ T # {} /\ (n = 0 => T \in SUBSET {0})
  BY <1>5, <1>7, <1>8, <1>9
<1>11. Min(T) \in T
  BY <1>10, LeastIs
<1>12. recognized(x) = Min(T)
  BY <1>9 DEF recognized
<1>. QED
  BY <1>1, <1>10, <1>11, <1>12

\* The kernel's total is the sum of a sequence.
LEMMA TotalIs == ASSUME NEW seq PROVE Total(seq) = Added(seq)
BY DEF Total, Added

\* The parts of the limits of a list of n positions: worths, worths capped, and what is lent on
\* them at the rates `ltv`.
Worths(n, list, q) == [i \in 1..n |-> recognized(assetInput(list[i], q[list[i]]))]

Caps(n, list, q) ==
  [i \in 1..n |-> Least(Worths(n, list, q)[i],
                        MulDiv(Added(Worths(n, list, q)), Policy[list[i]].params.maxConcentration, BPS))]

Lent(n, list, q, ltv) == [i \in 1..n |-> MulDiv(Caps(n, list, q)[i], ltv[list[i]], BPS)]

InitialLtv == [a \in Assets |-> Policy[a].params.initialLtv]

MaintenanceLtv == [a \in Assets |-> Policy[a].params.maintenanceLtv]

\* The limits are the sums of those parts, which are numbers.
LEMMA LimitsAre ==
  ASSUME Numbers, Placed, NEW n \in Nat, NEW list \in [1..n -> Assets],
         NEW q \in [Assets -> Nat]
  PROVE  /\ Worths(n, list, q) \in [1..n -> Nat]
         /\ Added(Worths(n, list, q)) \in Nat
         /\ Caps(n, list, q) \in [1..n -> Nat]
         /\ \A ltv \in [Assets -> Nat] : Lent(n, list, q, ltv) \in [1..n -> Nat]
         /\ BorrowLimit(list, q) = Added(Lent(n, list, q, InitialLtv))
         /\ Maintenance(list, q) = Added(Lent(n, list, q, MaintenanceLtv))
<1>1. DOMAIN list = 1..n /\ \A i \in 1..n : list[i] \in Assets /\ q[list[i]] \in Nat
  OBVIOUS
<1>2. BPS \in Nat \ {0}
  BY Scales
<1>3. Worths(n, list, q) \in [1..n -> Nat]
  BY <1>1, PositionWorth DEF Worths
<1>4. PICK w \in [1..n -> Nat] : w = Worths(n, list, q)
  BY <1>3
<1>5. PICK raw \in Nat : raw = Added(w)
  <2>1. \A i \in 1..n : w[i] <= w[i]
    OBVIOUS
  <2>. QED
    BY <2>1, TotalOrder
<1>6. \A i \in 1..n : Caps(n, list, q)[i] = Least(w[i], MulDiv(raw, Policy[list[i]].params.maxConcentration, BPS))
  BY <1>4, <1>5 DEF Caps
<1>7. Caps(n, list, q) \in [1..n -> Nat]
  <2>1. ASSUME NEW i \in 1..n
        PROVE  Least(w[i], MulDiv(raw, Policy[list[i]].params.maxConcentration, BPS)) \in Nat
    <3>1. PICK c \in Nat : c = Policy[list[i]].params.maxConcentration
      BY <1>1, PolicyConstants
    <3>2. MulDiv(raw, c, BPS) \in Nat /\ w[i] \in Nat
      BY <1>2, DownBounds
    <3>. QED
      BY <3>1, <3>2 DEF Least
  <2>. QED
    BY <1>4, <1>5, <2>1 DEF Caps
<1>8. ASSUME NEW ltv \in [Assets -> Nat]
      PROVE  Lent(n, list, q, ltv) \in [1..n -> Nat]
  <2>1. ASSUME NEW i \in 1..n
        PROVE  MulDiv(Caps(n, list, q)[i], ltv[list[i]], BPS) \in Nat
    <3>1. PICK c \in Nat : c = Caps(n, list, q)[i]
      BY <1>7
    <3>2. PICK l \in Nat : l = ltv[list[i]]
      BY <1>1
    <3>. QED
      BY <1>2, <3>1, <3>2, DownBounds
  <2>. QED
    BY <2>1 DEF Lent
<1>9. \A i \in 1..n : cappedValues(Positions(list, q))[i] = Caps(n, list, q)[i]
  <2>1. PICK xs : xs = Positions(list, q)
    OBVIOUS
  <2>2. /\ DOMAIN xs = 1..n
        /\ \A i \in 1..n : xs[i] = assetInput(list[i], q[list[i]])
    BY <1>1, <2>1 DEF Positions
  <2>3. \A i \in 1..n : xs[i].params = Policy[list[i]].params
    BY <2>2 DEF assetInput
  <2>4. [i \in DOMAIN xs |-> recognized(xs[i])] = w
    BY <1>4, <2>2 DEF Worths
  <2>5. PICK f : f = [i \in DOMAIN xs |-> recognized(xs[i])]
    OBVIOUS
  <2>6. cappedValues(xs) = [i \in DOMAIN xs |-> Least(f[i], MulDiv(Total(f), xs[i].params.maxConcentration, BPS))]
    BY <2>5, Zenon DEF cappedValues
  <2>7. f = w /\ Total(f) = raw
    BY <1>5, <2>4, <2>5, TotalIs
  <2>8. \A i \in 1..n : cappedValues(xs)[i] = Least(w[i], MulDiv(raw, xs[i].params.maxConcentration, BPS))
    BY <2>2, <2>6, <2>7
  <2>. QED
    BY <1>6, <2>1, <2>3, <2>8
<1>10. BorrowLimit(list, q) = Added(Lent(n, list, q, InitialLtv))
  <2>1. [i \in DOMAIN list |-> MulDiv(cappedValues(Positions(list, q))[i], Policy[list[i]].params.initialLtv, BPS)]
          = Lent(n, list, q, InitialLtv)
    BY <1>1, <1>9 DEF Lent, InitialLtv
  <2>. QED
    BY <2>1, TotalIs DEF BorrowLimit
<1>11. Maintenance(list, q) = Added(Lent(n, list, q, MaintenanceLtv))
  <2>1. [i \in DOMAIN list |-> MulDiv(cappedValues(Positions(list, q))[i], Policy[list[i]].params.maintenanceLtv, BPS)]
          = Lent(n, list, q, MaintenanceLtv)
    BY <1>1, <1>9 DEF Lent, MaintenanceLtv
  <2>. QED
    BY <2>1, TotalIs DEF Maintenance
<1>. QED
  BY <1>3, <1>4, <1>5, <1>7, <1>8, <1>10, <1>11

\* What may be drawn is within what may be kept.
LEMMA BorrowWithinMaintenance ==
  ASSUME Numbers, Placed, NEW list \in Seq(Assets), NEW q \in [Assets -> Nat]
  PROVE  /\ BorrowLimit(list, q) \in Nat /\ Maintenance(list, q) \in Nat
         /\ BorrowLimit(list, q) <= Maintenance(list, q)
<1>1. PICK n \in Nat : list \in [1..n -> Assets]
  OBVIOUS
<1>2. BPS \in Nat \ {0}
  BY Scales
<1>3. /\ InitialLtv \in [Assets -> Nat] /\ MaintenanceLtv \in [Assets -> Nat]
      /\ \A a \in Assets : InitialLtv[a] <= MaintenanceLtv[a]
  BY PolicyConstants DEF InitialLtv, MaintenanceLtv
<1>4. PICK l \in [1..n -> Nat], m \in [1..n -> Nat] :
        /\ l = Lent(n, list, q, InitialLtv) /\ m = Lent(n, list, q, MaintenanceLtv)
        /\ BorrowLimit(list, q) = Added(l) /\ Maintenance(list, q) = Added(m)
  BY <1>1, <1>3, LimitsAre
<1>5. PICK e \in [1..n -> Nat] : e = Caps(n, list, q)
  BY <1>1, LimitsAre
<1>6. ASSUME NEW i \in 1..n
      PROVE  l[i] <= m[i]
  <2>1. PICK c \in Nat : c = Caps(n, list, q)[i] /\ c <= c
    BY <1>5
  <2>2. PICK x \in Nat, y \in Nat : x = InitialLtv[list[i]] /\ y = MaintenanceLtv[list[i]] /\ x <= y
    BY <1>1, <1>3
  <2>3. MulDiv(c, x, BPS) <= MulDiv(c, y, BPS)
    BY <1>2, <2>1, <2>2, MulDivOrder
  <2>. QED
    BY <1>4, <2>1, <2>2, <2>3 DEF Lent
<1>7. Added(l) \in Nat /\ Added(m) \in Nat /\ Added(l) <= Added(m)
  BY <1>1, <1>4, <1>6, TotalOrder
<1>. QED
  BY <1>4, <1>7

\* A listed asset of which nothing is held carries nothing: striking it off moves no limit.
LEMMA StrikingOff ==
  ASSUME Numbers, Placed, NEW list \in Seq(Assets), NEW q \in [Assets -> Nat],
         NEW a \in ToSet(list), q[a] = 0
  PROVE  Maintenance(RemoveFirst(list, a), q) = Maintenance(list, q)
<1>1. PICK r \in Seq(Assets) : r = RemoveFirst(list, a)
  BY RemovalIs
<1>2. PICK k \in 1..Len(list) : list[k] = a /\ Len(r) = Len(list) - 1 /\ Dropped(Len(list) - 1, list, k, r)
  BY <1>1, RemovalIs
<1>3. PICK p \in Nat : p = Len(r) /\ Len(list) = p + 1
  BY <1>1, <1>2
<1>4. r \in [1..p -> Assets] /\ list \in [1..(p + 1) -> Assets] /\ k \in 1..(p + 1) /\ p + 1 \in Nat
  BY <1>1, <1>2, <1>3
<1>5. /\ \A i \in 1..p : i < k => r[i] = list[i]
      /\ \A i \in 1..p : i >= k => r[i] = list[i + 1]
  BY <1>2, <1>3 DEF Dropped
<1>6. PICK v \in [1..(p + 1) -> Nat], w \in [1..p -> Nat] :
        v = Worths(p + 1, list, q) /\ w = Worths(p, r, q)
  BY <1>4, LimitsAre
<1>7. v[k] = 0
  <2>1. v[k] = recognized(assetInput(a, q[a]))
    BY <1>2, <1>4, <1>6 DEF Worths
  <2>2. a \in Assets
    BY <1>2, <1>4
  <2>. QED
    BY <2>1, <2>2, PositionWorth
<1>8. \A i \in 1..p : i \in 1..(p + 1) /\ i + 1 \in 1..(p + 1)
  BY <1>3
<1>9. Dropped(p, v, k, w)
  BY <1>5, <1>6, <1>8 DEF Dropped, Worths
<1>10. PICK raw \in Nat : raw = Added(v) /\ raw = Added(w)
  <2>1. Added(w) = Added(v)
    BY <1>3, <1>4, <1>7, <1>9, SumWithoutZero, ZenonT(60)
  <2>2. Added(Worths(p + 1, list, q)) \in Nat
    BY <1>4, LimitsAre
  <2>. QED
    BY <1>6, <2>1, <2>2
<1>11. PICK c \in [1..(p + 1) -> Nat], d \in [1..p -> Nat] :
         c = Caps(p + 1, list, q) /\ d = Caps(p, r, q)
  BY <1>4, LimitsAre
<1>12. c[k] = 0 /\ Dropped(p, c, k, d)
  <2>1. /\ \A i \in 1..(p + 1) : c[i] = Least(v[i], MulDiv(raw, Policy[list[i]].params.maxConcentration, BPS))
        /\ \A i \in 1..p : d[i] = Least(w[i], MulDiv(raw, Policy[r[i]].params.maxConcentration, BPS))
    <3>1. /\ \A i \in 1..(p + 1) :
               Caps(p + 1, list, q)[i] = Least(v[i], MulDiv(Added(v), Policy[list[i]].params.maxConcentration, BPS))
          /\ \A i \in 1..p :
               Caps(p, r, q)[i] = Least(w[i], MulDiv(Added(w), Policy[r[i]].params.maxConcentration, BPS))
      BY <1>6, Zenon DEF Caps
    <3>. QED
      BY <1>10, <1>11, <3>1
  <2>2. Dropped(p, c, k, d)
    <3>1. \A i \in 1..p : i < k => r[i] = list[i] /\ w[i] = v[i]
      BY <1>5, <1>9 DEF Dropped
    <3>2. \A i \in 1..p : i >= k => r[i] = list[i + 1] /\ w[i] = v[i + 1]
      BY <1>5, <1>9 DEF Dropped
    <3>3. ASSUME NEW i \in 1..p, i < k
          PROVE  d[i] = c[i]
      BY <1>8, <2>1, <3>1, <3>3
    <3>4. ASSUME NEW i \in 1..p, i >= k
          PROVE  d[i] = c[i + 1]
      BY <1>8, <2>1, <3>2, <3>4, ZenonT(60)
    <3>. QED
      BY <3>3, <3>4 DEF Dropped
  <2>3. c[k] = 0
    <3>1. c[k] = Least(0, MulDiv(raw, Policy[list[k]].params.maxConcentration, BPS))
      BY <1>4, <1>7, <2>1
    <3>2. c[k] \in Nat
      BY <1>4
    <3>3. PICK x \in Nat : x = Policy[list[k]].params.maxConcentration
      BY <1>4, PolicyConstants
    <3>4. MulDiv(raw, x, BPS) \in Nat
      BY Scales, DownBounds
    <3>. QED
      BY <3>1, <3>3, <3>4 DEF Least
  <2>. QED
    BY <2>2, <2>3
<1>13. MaintenanceLtv \in [Assets -> Nat]
  BY PolicyConstants DEF MaintenanceLtv
<1>14. PICK l \in [1..(p + 1) -> Nat], m \in [1..p -> Nat] :
         /\ l = Lent(p + 1, list, q, MaintenanceLtv) /\ m = Lent(p, r, q, MaintenanceLtv)
         /\ Maintenance(list, q) = Added(l) /\ Maintenance(r, q) = Added(m)
  BY <1>4, <1>13, LimitsAre, ZenonT(60)
<1>15. l[k] = 0 /\ Dropped(p, l, k, m)
  <2>1. /\ \A i \in 1..(p + 1) : l[i] = MulDiv(c[i], MaintenanceLtv[list[i]], BPS)
        /\ \A i \in 1..p : m[i] = MulDiv(d[i], MaintenanceLtv[r[i]], BPS)
    BY <1>11, <1>14 DEF Lent
  <2>2. Dropped(p, l, k, m)
    BY <1>5, <1>8, <1>12, <2>1 DEF Dropped
  <2>3. PICK x \in Nat : x = MaintenanceLtv[list[k]]
    BY <1>4, <1>13
  <2>4. 0 * x = 0 /\ 0 \div BPS = 0
    BY Scales
  <2>. QED
    BY <1>4, <1>12, <2>1, <2>2, <2>3, <2>4 DEF MulDiv
<1>16. Added(m) = Added(l)
  BY <1>3, <1>4, <1>15, SumWithoutZero, ZenonT(60)
<1>. QED
  BY <1>1, <1>14, <1>16

\* A list stays one of assets when an asset joins it.
LEMMA InsertedIs ==
  ASSUME NEW list \in Seq(Assets), NEW a \in Assets
  PROVE  InsertHeld(list, a) \in Seq(Assets)
<1>1. CASE a \in ToSet(list)
  BY <1>1 DEF InsertHeld
<1>2. CASE a \notin ToSet(list)
  <2>1. PICK n \in Nat : n = Len(list) /\ DOMAIN list = 1..n
    OBVIOUS
  <2> DEFINE T == {0} \cup {i \in DOMAIN list : list[i] <= a}
             Up == {n - i : i \in T}
  <2>2. Up \in SUBSET Nat /\ Up # {} /\ T \in SUBSET (0..n)
    <3>1. T \in SUBSET (0..n) /\ T # {}
      BY <2>1
    <3>2. \A i \in 0..n : n - i \in Nat
      BY <2>1
    <3>. QED
      BY <3>1, <3>2
  <2>3. PICK u \in Up : \A v \in Up : u <= v
    <3> HIDE DEF Up
    <3>. QED
      BY <2>2, LeastNatural
  <2>4. PICK t \in T : u = n - t
    BY <2>3
  <2>5. ASSUME NEW i \in T
        PROVE  t >= i
    <3>1. n - t <= n - i
      BY <2>3, <2>4
    <3>2. i \in 0..n /\ t \in 0..n
      BY <2>2
    <3>. QED
      BY <2>1, <3>1, <3>2
  <2>6. Max(T) \in T
    <3>1. \E x \in T : \A y \in T : x >= y
      BY <2>5
    <3> HIDE DEF T
    <3>. QED
      BY <3>1 DEF Max
  <2>7. PICK k \in 1..(n + 1) : k = Max(T) + 1
    <3>1. PICK m \in 0..n : m = Max(T)
      <4> HIDE DEF T
      <4>. QED
        BY <2>2, <2>6
    <3>2. m + 1 \in 1..(n + 1)
      BY <2>1
    <3>. QED
      BY <3>1, <3>2
  <2>8. InsertHeld(list, a) = SubSeq(list, 1, k - 1) \o <<a>> \o SubSeq(list, k, n)
    BY <1>2, <2>1, <2>7 DEF InsertHeld, InsertAt
  <2> HIDE DEF T, Up
  <2>9. SubSeq(list, 1, k - 1) \in Seq(Assets)
    <3>1. 1 \in Int /\ k - 1 \in Int /\ \A i \in 1..(k - 1) : list[i] \in Assets
      BY <2>1, <2>7
    <3>. QED
      BY <3>1, SubSeqProperties
  <2>10. SubSeq(list, k, n) \in Seq(Assets)
    <3>1. k \in Int /\ n \in Int /\ \A i \in k..n : list[i] \in Assets
      BY <2>1, <2>7
    <3>. QED
      BY <3>1, SubSeqProperties
  <2>11. <<a>> \in Seq(Assets)
    OBVIOUS
  <2>12. SubSeq(list, 1, k - 1) \o <<a>> \in Seq(Assets)
    BY <2>9, <2>11, ConcatProperties
  <2>. QED
    BY <2>8, <2>10, <2>12, ConcatProperties
<1>. QED
  BY <1>1, <1>2

\* The accounts and the registry records stay what they are through every call.
LEMMA PlacedNext == Placed /\ [Next]_vars => Placed'
<1> SUFFICES ASSUME Placed, [Next]_vars
             PROVE  Placed'
  OBVIOUS
<1>0. \A n \in Amounts : n \in Nat
  BY MarketConstants
<1>1. ASSUME NEW b \in Accounts, NEW a \in Assets, NEW n \in Amounts, NEW r \in 1..n,
             AddCollateral(b, a, n, r)
      PROVE  Placed'
  <2>1. InsertHeld(held[b], a) \in Seq(Assets)
    BY InsertedIs DEF Placed
  <2>. QED
    BY <1>1, <2>1 DEF AddCollateral, inputs, Placed
<1>2. ASSUME NEW b \in Accounts, NEW a \in Assets, NEW n,
             held' = [held EXCEPT ![b] = HeldAfter(b, a, n)],
             UNCHANGED <<reservedUsd18, statusOverride, inputs>>
      PROVE  Placed'
  <2>1. HeldAfter(b, a, n) \in Seq(Assets)
    BY RemovalIs DEF HeldAfter, Placed
  <2>. QED
    BY <1>2, <2>1 DEF inputs, Placed
<1>3. CASE \/ \E b \in Accounts, a \in Assets, n \in Amounts : WithdrawCollateral(b, a, n)
           \/ \E b \in Accounts, a \in Assets, n \in Amounts, p \in {0} \cup Amounts :
                ExecuteLiquidation(b, a, n, p)
  BY <1>2, <1>3 DEF WithdrawCollateral, ExecuteLiquidation
<1>4. CASE \E b \in Accounts, n \in Amounts : Reserve(b, n) \/ ReleaseReservation(b, n)
  <2>1. PICK b \in Accounts, n \in Amounts : Reserve(b, n) \/ ReleaseReservation(b, n)
    BY <1>4
  <2>2. reservedUsd18[b] + n \in Nat /\ Released(reservedUsd18[b], n) \in Nat
    BY <1>0 DEF Placed, Released, Monus
  <2>3. /\ reservedUsd18' \in [Accounts -> Nat]
        /\ UNCHANGED <<held, statusOverride, inputs>>
    BY <2>1, <2>2 DEF Reserve, ReleaseReservation, Placed
  <2>. QED
    BY <2>3 DEF Placed, inputs
<1>5. CASE \/ \E b \in Accounts, s \in Overrides : SetAccountRiskState(b, s)
           \/ \E b \in Accounts : ClearAccountRiskState(b)
  <2>1. NORMAL \in AccountStatus /\ Overrides \subseteq AccountStatus
    BY MarketConstants DEF AccountStatus, NORMAL, BAD_DEBT
  <2>2. /\ statusOverride' \in [Accounts -> AccountStatus]
        /\ UNCHANGED <<held, reservedUsd18, inputs>>
    BY <1>5, <2>1 DEF SetAccountRiskState, ClearAccountRiskState, Placed
  <2>. QED
    BY <2>2 DEF Placed, inputs
<1>6. CASE \E a \in Assets : \E s \in Standings[a] : SetStanding(a, s)
  <2>1. PICK a \in Assets : \E s \in Standings[a] : SetStanding(a, s)
    BY <1>6
  <2>2. PICK s \in Standings[a] : SetStanding(a, s)
    BY <2>1
  <2>3. standing' = [standing EXCEPT ![a] = s] /\ UNCHANGED accounts
    BY <2>2 DEF SetStanding
  <2>4. \A x \in Assets : standing'[x] \in Standings[x] /\ (x # a => standing'[x] = standing[x])
    BY <2>3 DEF Placed
  <2>5. DOMAIN standing' = Assets
    BY <2>3 DEF Placed
  <2>. QED
    BY <2>3, <2>4, <2>5 DEF Placed, accounts
<1>7. CASE \/ \E b \in Accounts, n \in Amounts : Borrow(b, n)
           \/ \E b \in Accounts, n \in Amounts, all \in BOOLEAN : Repay(b, n, all)
           \/ \E m \in MaxPriceAges : SetSettlementMaxPriceAge(m)
           \/ ClearSettlementFreshness
           \/ Poke
           \/ \E r \in RateCurves : SetRateParams(r)
           \/ \E l \in Lenders, n \in Amounts : Supply(l, n)
           \/ \E l \in Lenders, n \in Amounts : Withdraw(l, n)
           \/ \E a \in Assets : DonateCollateral(a)
           \/ Tick
           \/ \E f \in Feeds : \E p \in Prices[f] : Publish(f, p)
           \/ \E g \in SequencerStates : SetSequencer(g)
           \/ UNCHANGED vars
  <2>1. UNCHANGED <<accounts, standing>>
    BY <1>7 DEF Borrow, Repay, SetSettlementMaxPriceAge, ClearSettlementFreshness, Poke,
      SetRateParams, Supply, Withdraw, DonateCollateral, Tick, Publish, SetSequencer, inputs, vars
  <2>. QED
    BY <2>1 DEF Placed, accounts
<1>. QED
  BY Zenon, <1>1, <1>3, <1>4, <1>5, <1>6, <1>7 DEF Next

\* Every account opens with nothing pledged.
LEMMA PlacedInit == Init => Placed
<1> SUFFICES ASSUME Init
             PROVE  Placed
  OBVIOUS
<1>1. <<>> \in Seq(Assets) /\ NORMAL \in AccountStatus
  BY DEF AccountStatus, NORMAL, BAD_DEBT
<1>2. DOMAIN standing = Assets /\ \A a \in Assets : standing[a] \in Standings[a]
  BY DEF Init
<1>. QED
  BY <1>1, <1>2 DEF Init, Placed

\* An index just accrued stands until time passes.
LEMMA IndexAtRest == Numbers /\ elapsed = 0 => Index = borrowIndex
<1> SUFFICES ASSUME Numbers, elapsed = 0
             PROVE  Index = borrowIndex
  OBVIOUS
<1>1. Tracked \in Nat
  BY Scales, UpBounds DEF Tracked, Numbers
<1>2. PICK bps \in Nat : bps = borrowRateBps(freeCash, Tracked, rate)
  BY <1>1, FreeCashType, RateType DEF Numbers
<1>3. Index = accrueIndex(borrowIndex, bps, 0)
  BY <1>2, DebtNames, TrackedIs
     DEF Index, Debt!currentIndex, Debt!IndexAfter, Debt!currentRateBps
<1>4. PICK y \in Nat \ {0} : y = BPS * SecondsPerYear
  BY Scales
<1>5. PICK i \in Nat : i = borrowIndex
  BY DEF Numbers
<1>6. MulDiv(i, bps * 0, y) = 0
  <2>1. bps * 0 = 0 /\ i * 0 = 0 /\ 0 \div y = 0
    OBVIOUS
  <2>. QED
    BY <2>1 DEF MulDiv
<1>. QED
  BY <1>3, <1>4, <1>5, <1>6 DEF accrueIndex

\* A call that accrues, or touches neither the engine nor the pool, leaves the index to read.
LEMMA IndexStands ==
  ASSUME Numbers, Numbers',
         \/ borrowIndex' = Index /\ elapsed' = 0
         \/ UNCHANGED <<financing, pool>>
  PROVE  Index' = Index
<1>1. CASE borrowIndex' = Index /\ elapsed' = 0
  <2>1. (Numbers /\ elapsed = 0 => Index = borrowIndex)'
    BY IndexAtRest, PTL
  <2>. QED
    BY <1>1, <2>1
<1>2. CASE UNCHANGED <<financing, pool>>
  <2>1. UNCHANGED <<borrowIndex, elapsed, totalScaledPrincipal, rate, cash, reserves>>
    BY <1>2 DEF financing, debtBook, pool
  <2>2. freeCash' = freeCash
    BY <2>1 DEF freeCash, Pool!availableCash, Pool!FreeCash, Pool!SpokenFor, Pool!Monus
  <2>3. Debt!currentRateBps(freeCash)' = Debt!currentRateBps(freeCash)
    BY <2>1, <2>2, Zenon DEF Debt!currentRateBps, Debt!borrowRateBps, Debt!totalBorrowsStored,
      Debt!totalBorrowsAt, Debt!MulDiv, Debt!MulDivUp
  <2>. QED
    BY <2>1, <2>3, Zenon DEF Index, Debt!currentIndex, Debt!IndexAfter, Debt!accrueIndex, Debt!MulDiv
<1>. QED
  BY <1>1, <1>2

\* Utilisation falls as cash comes in.
LEMMA UtilisationFalls ==
  ASSUME NEW c \in Nat, NEW d \in Nat, c <= d, NEW t \in Nat \ {0}, NEW n \in Nat
  PROVE  MulDiv(t, n, d + t) <= MulDiv(t, n, c + t)
<1>1. PICK u \in Nat : u = MulDiv(t, n, d + t)
  BY d + t \in Nat \ {0}, DownBounds
<1>2. PICK v \in Nat : v = MulDiv(t, n, c + t)
  BY c + t \in Nat \ {0}, DownBounds
<1>3. (d + t) * u <= t * n
  BY <1>1, d + t \in Nat \ {0}, DownBounds
<1>4. t * n < (c + t) * v + (c + t)
  BY <1>2, c + t \in Nat \ {0}, DownBounds
<1>5. (c + t) * u <= (d + t) * u /\ (c + t) * u \in Nat /\ (d + t) * u \in Nat
  BY c + t <= d + t, c + t \in Nat, d + t \in Nat, TimesOrder
<1>6. PICK k \in Nat \ {0} : k = c + t
  OBVIOUS
<1>7. k * u < k * v + k
  BY <1>3, <1>4, <1>5, <1>6, t * n \in Nat, k * v \in Nat
<1>. QED
  BY <1>1, <1>2, <1>6, <1>7, Cancel

\* Up to the kink no more than the first slope is charged.
LEMMA BelowKink ==
  ASSUME NEW u \in Nat, NEW s \in Nat, NEW k \in Nat \ {0}, u <= k
  PROVE  MulDiv(u, s, k) <= s
<1>1. PICK p \in Nat : p = MulDiv(u, s, k)
  BY DownBounds
<1>2. k * p <= u * s
  BY <1>1, DownBounds
<1>3. u * s <= k * s /\ u * s \in Nat /\ k * s \in Nat
  BY TimesOrder
<1>4. k * p < k * s + k
  BY <1>2, <1>3, k * p \in Nat
<1>. QED
  BY <1>1, <1>4, Cancel

\* The more cash lies free, the lower the rate: along each slope, and across the kink.
LEMMA RateFalls ==
  ASSUME NEW c \in Nat, NEW d \in Nat, c <= d, NEW t \in Nat, NEW r \in RateCurves
  PROVE  borrowRateBps(d, t, r) <= borrowRateBps(c, t, r)
<1>1. /\ r.base \in Nat /\ r.slope1 \in Nat /\ r.slope2 \in Nat
      /\ r.kink \in Nat \ {0} /\ BPS \in Nat \ {0} /\ r.kink < BPS
  BY MarketConstants, Scales
<1>2. PICK base \in Nat, s1 \in Nat, s2 \in Nat, kink \in Nat \ {0} :
        r.base = base /\ r.slope1 = s1 /\ r.slope2 = s2 /\ r.kink = kink
  BY <1>1
<1>3. PICK above \in Nat \ {0} : above = BPS - kink
  BY <1>1, <1>2
<1>4. CASE t = 0
  BY <1>1, <1>4 DEF borrowRateBps
<1>5. CASE t # 0
  <2>1. PICK v \in Nat : v = MulDiv(t, BPS, c + t)
    BY <1>1, <1>5, c + t \in Nat \ {0}, DownBounds
  <2>2. PICK u \in Nat : u = MulDiv(t, BPS, d + t)
    BY <1>1, <1>5, d + t \in Nat \ {0}, DownBounds
  <2>3. u <= v
    BY <1>1, <1>5, <2>1, <2>2, UtilisationFalls
  <2>4. PICK p \in Nat, q \in Nat : p = MulDiv(u, s1, kink) /\ q = MulDiv(v, s1, kink)
    BY DownBounds
  <2>5. p <= q
    BY <2>3, <2>4, MulDivOrder
  <2>6. u <= kink => p <= s1
    BY <2>4, BelowKink
  <2>7. u > kink =>
          /\ MulDiv(u - kink, s2, above) \in Nat /\ MulDiv(v - kink, s2, above) \in Nat
          /\ MulDiv(u - kink, s2, above) <= MulDiv(v - kink, s2, above)
    <3>1. SUFFICES ASSUME u > kink
                   PROVE  /\ MulDiv(u - kink, s2, above) \in Nat
                          /\ MulDiv(v - kink, s2, above) \in Nat
                          /\ MulDiv(u - kink, s2, above) <= MulDiv(v - kink, s2, above)
      OBVIOUS
    <3>2. PICK x \in Nat, y \in Nat : x = u - kink /\ y = v - kink /\ x <= y
      BY <2>3, <3>1, u - kink \in Nat, v - kink \in Nat
    <3>. QED
      BY <3>2, MulDivOrder
  <2>8. v > kink => MulDiv(v - kink, s2, above) \in Nat
    BY v > kink => v - kink \in Nat, DownBounds
  <2>9. borrowRateBps(c, t, r) = IF v <= kink THEN base + q
                                 ELSE base + s1 + MulDiv(v - kink, s2, above)
    BY <1>2, <1>3, <1>5, <2>1, <2>4 DEF borrowRateBps
  <2>10. borrowRateBps(d, t, r) = IF u <= kink THEN base + p
                                  ELSE base + s1 + MulDiv(u - kink, s2, above)
    BY <1>2, <1>3, <1>5, <2>2, <2>4 DEF borrowRateBps
  <2>. QED
    BY <2>3, <2>5, <2>6, <2>7, <2>8, <2>9, <2>10
<1>. QED
  BY <1>4, <1>5

\* Cash a lender brings lowers what the index of this instant would be.
LEMMA IndexFalls ==
  ASSUME Numbers, Numbers', freeCash <= freeCash',
         UNCHANGED <<borrowIndex, elapsed, totalScaledPrincipal, rate>>
  PROVE  Index' <= Index
<1>1. PICK t \in Nat : t = Tracked /\ t = Tracked'
  BY TrackedGrows DEF Tracked
<1>2. PICK c \in Nat : c = freeCash
  BY FreeCashType
<1>3. PICK d \in Nat : d = freeCash'
  <2>1. (Numbers => freeCash \in Nat /\ freeCash <= cash)'
    BY FreeCashType, PTL
  <2>. QED
    BY <2>1
<1>4. rate \in RateCurves
  BY DEF Numbers
<1>5. PICK x \in Nat, y \in Nat :
        x = borrowRateBps(d, t, rate) /\ y = borrowRateBps(c, t, rate)
  BY <1>4, RateType
<1>6. x <= y
  <2>1. c <= d
    BY <1>2, <1>3
  <2>. QED
    BY <1>4, <1>5, <2>1, RateFalls
<1>7. PICK i \in Nat, e \in Nat : i = borrowIndex /\ e = elapsed
  BY DEF Numbers
<1>8. PICK year \in Nat \ {0} : year = BPS * SecondsPerYear
  BY Scales
<1>9. Index = i + MulDiv(i, y * e, year)
  <2>1. Index = Debt!accrueIndex(borrowIndex, Debt!borrowRateBps(c, t, rate), elapsed)
    BY <1>1, <1>2, TrackedIs, Zenon
       DEF Index, Debt!currentIndex, Debt!IndexAfter, Debt!currentRateBps
  <2>. QED
    BY <1>5, <1>7, <1>8, <2>1, DebtNames DEF accrueIndex
<1>10. Index' = i + MulDiv(i, x * e, year)
  <2>1. (Debt!totalBorrowsStored = Tracked)'
    BY TrackedIs, PTL
  <2>2. Index' = Debt!accrueIndex(borrowIndex', Debt!borrowRateBps(d, t, rate'), elapsed')
    BY <1>1, <1>3, <2>1, Zenon
       DEF Index, Debt!currentIndex, Debt!IndexAfter, Debt!currentRateBps
  <2>. QED
    BY <1>5, <1>7, <1>8, <2>2, DebtNames DEF accrueIndex
<1>11. x * e \in Nat /\ y * e \in Nat /\ x * e <= y * e
  BY <1>6, TimesOrder
<1>12. PICK g \in Nat, h \in Nat : g = x * e /\ h = y * e /\ g <= h
  BY <1>11
<1>13. MulDiv(i, g, year) \in Nat /\ MulDiv(i, h, year) \in Nat
       /\ MulDiv(i, g, year) <= MulDiv(i, h, year)
  BY <1>12, MulDivOrder
<1>. QED
  BY <1>9, <1>10, <1>12, <1>13

-----------------------------------------------------------------------------
(* I-10: nobody is taken past the maintenance limit by a call.              *)

HoldingsNext(b) == [a \in Assets |-> balanceOf'[a][b]]

Owed(b) == MulDivUp(scaledPrincipalOf[b], Index, WAD)

OwedNext(b) == MulDivUp(scaledPrincipalOf'[b], Index', WAD)

Covered(b) == Owed(b) <= Maintenance(held[b], Holdings(b))

Rounding(b) ==
  IF scaledPrincipalOf'[b] > scaledPrincipalOf[b] THEN MulDivUp(1, borrowIndex', WAD) ELSE 0

CoveredNext(b) == OwedNext(b) <= Maintenance(held'[b], HoldingsNext(b)) + Rounding(b)

\* What is owed and what the collateral carries are numbers.
LEMMA CoverTypes ==
  ASSUME Ledgers, Placed, NEW b \in Accounts
  PROVE  /\ Owed(b) \in Nat /\ Holdings(b) \in [Assets -> Nat] /\ held[b] \in Seq(Assets)
         /\ BorrowLimit(held[b], Holdings(b)) \in Nat /\ Maintenance(held[b], Holdings(b)) \in Nat
         /\ BorrowLimit(held[b], Holdings(b)) <= Maintenance(held[b], Holdings(b))
<1>1. Numbers /\ Custody!CustodyTypeOK
  BY DEF Ledgers, CustodyHolds
<1>2. Holdings(b) \in [Assets -> Nat]
  BY <1>1 DEF Holdings, Custody!CustodyTypeOK
<1>3. held[b] \in Seq(Assets)
  BY DEF Placed
<1>4. PICK i \in Nat : i = Index
  BY <1>1, IndexGrows
<1>5. PICK s \in Nat : s = scaledPrincipalOf[b]
  BY <1>1 DEF Numbers
<1>6. Owed(b) \in Nat
  BY <1>4, <1>5, Scales, UpBounds DEF Owed
<1>. QED
  BY <1>1, <1>2, <1>3, <1>6, BorrowWithinMaintenance

\* An account whose collateral stays put and whose principal does not grow stays covered while
\* the index does not.
LEMMA Unburdened ==
  ASSUME Ledgers, Numbers', Placed, NEW b \in Accounts, Covered(b), Index' <= Index,
         held'[b] = held[b], \A a \in Assets : balanceOf'[a][b] = balanceOf[a][b],
         scaledPrincipalOf'[b] <= scaledPrincipalOf[b]
  PROVE  CoveredNext(b)
<1>1. HoldingsNext(b) = Holdings(b)
  BY DEF HoldingsNext, Holdings
<1>2. Numbers
  BY DEF Ledgers
<1>3. PICK s \in Nat : s = scaledPrincipalOf[b]
  BY <1>2 DEF Numbers
<1>4. PICK t \in Nat : t = scaledPrincipalOf'[b] /\ t <= s
  BY <1>3 DEF Numbers
<1>5. PICK i \in Nat : i = Index
  BY <1>2, IndexGrows
<1>6. PICK j \in Nat : j = Index' /\ j <= i
  <2>1. (Numbers => Index \in Nat \ {0} /\ Index >= borrowIndex)'
    BY IndexGrows, PTL
  <2>. QED
    BY <1>5, <2>1
<1>7. PICK y \in Nat : y = MulDivUp(s, i, WAD)
  BY Scales, UpBounds
<1>8. PICK x \in Nat : x = MulDivUp(t, j, WAD)
  BY Scales, UpBounds
<1>9. x <= y
  BY <1>4, <1>6, <1>7, <1>8, Scales, UpOrder
<1>10. PICK m \in Nat : m = Maintenance(held[b], Holdings(b))
  BY CoverTypes
<1>11. y <= m
  BY <1>3, <1>5, <1>7, <1>10 DEF Covered, Owed
<1>12. OwedNext(b) = x /\ Maintenance(held'[b], HoldingsNext(b)) = m /\ Rounding(b) = 0
  BY <1>1, <1>3, <1>4, <1>6, <1>8, <1>10 DEF OwedNext, Rounding
<1>. QED
  BY <1>9, <1>11, <1>12 DEF CoveredNext

\* A withdrawal is checked on the account as it leaves it: striking an asset off changes nothing.
LEMMA WithdrawalCovers ==
  ASSUME Ledgers, Numbers', Placed, NEW b \in Accounts, NEW a \in Assets, NEW n \in Amounts,
         WithdrawCollateral(b, a, n), Index' = Index
  PROVE  CoveredNext(b)
<1>1. Numbers /\ Custody!CustodyTypeOK
  BY DEF Ledgers, CustodyHolds
<1>2. Holdings(b) \in [Assets -> Nat] /\ held[b] \in Seq(Assets)
  BY CoverTypes
<1>3. /\ a \in ToSet(held[b]) /\ n <= balanceOf[a][b] /\ n \in Nat
      /\ balanceOf' = [balanceOf EXCEPT ![a][b] = @ - n]
      /\ held' = [held EXCEPT ![b] = HeldAfter(b, a, n)]
      /\ UNCHANGED scaledPrincipalOf
  BY MarketConstants DEF WithdrawCollateral, withdrawalIsSafe, Custody!Release, debtBook
<1>4. PICK q : q = [Holdings(b) EXCEPT ![a] = @ - n]
  OBVIOUS
<1>5. MulDivUp(scaledPrincipalOf[b], Index, WAD) <= Maintenance(held[b], q)
  BY <1>4, HealthIs DEF WithdrawCollateral, withdrawalIsSafe, HealthWith, Index
<1>6. HoldingsNext(b) = q
  BY <1>1, <1>3, <1>4 DEF HoldingsNext, Holdings, Custody!CustodyTypeOK
<1>7. q \in [Assets -> Nat] /\ q[a] = balanceOf[a][b] - n
  BY <1>1, <1>2, <1>3, <1>4 DEF Holdings, Custody!CustodyTypeOK
<1>8. Maintenance(held'[b], q) = Maintenance(held[b], q)
  <2>1. held'[b] = HeldAfter(b, a, n)
    BY <1>3 DEF Placed
  <2>2. CASE balanceOf[a][b] = n
    <3>1. q[a] = 0
      BY <1>1, <1>7, <2>2 DEF Custody!CustodyTypeOK
    <3>2. Maintenance(RemoveFirst(held[b], a), q) = Maintenance(held[b], q)
      BY <1>1, <1>2, <1>3, <1>7, <3>1, StrikingOff
    <3>. QED
      BY <2>1, <2>2, <3>2 DEF HeldAfter
  <2>3. CASE balanceOf[a][b] # n
    BY <2>1, <2>3 DEF HeldAfter
  <2>. QED
    BY <2>2, <2>3
<1>9. OwedNext(b) = MulDivUp(scaledPrincipalOf[b], Index, WAD)
  BY <1>3 DEF OwedNext
<1>10. Rounding(b) = 0
  <2>1. scaledPrincipalOf[b] \in Nat /\ scaledPrincipalOf'[b] = scaledPrincipalOf[b]
    BY <1>1, <1>3 DEF Numbers
  <2>. QED
    BY <2>1 DEF Rounding
<1>11. PICK m \in Nat : m = Maintenance(held[b], q)
  BY <1>1, <1>2, <1>7, BorrowWithinMaintenance
<1>. QED
  BY <1>5, <1>6, <1>8, <1>9, <1>10, <1>11 DEF CoveredNext

\* What an account may still draw: its borrow limit, less its debt and what is reserved.
LEMMA AvailableIs ==
  ASSUME NEW b \in Accounts, accountHealth(b).status = NORMAL
  PROVE  accountHealth(b).available
           = Monus(BorrowLimit(held[b], Holdings(b)), Owed(b) + reservedUsd18[b])
<1>1. PICK xs : xs = Positions(held[b], Holdings(b))
  OBVIOUS
<1>2. PICK acct : acct = [scaledPrincipal |-> scaledPrincipalOf[b], borrowIndex |-> Index,
                          reservedUsd18 |-> reservedUsd18[b], statusOverride |-> statusOverride[b]]
  OBVIOUS
<1>3. accountHealth(b) = evaluate(xs, acct, sequencer)
  BY <1>1, <1>2 DEF accountHealth, HealthWith, HealthOf, Positions, Index
<1>4. evaluate(xs, acct, sequencer).status = NORMAL =>
        evaluate(xs, acct, sequencer).available
          = Monus(evaluate(xs, acct, sequencer).limits.borrow,
                  evaluate(xs, acct, sequencer).debt + acct.reservedUsd18)
  BY DEF evaluate
<1>5. /\ accountHealth(b).debt = Owed(b)
      /\ accountHealth(b).limits.borrow = BorrowLimit(held[b], Holdings(b))
  BY HealthIs DEF accountHealth, HealthWith, Owed, Index
<1>. QED
  BY <1>2, <1>3, <1>4, <1>5

\* A draw stays within the borrow limit, but for the unit its debt rounds up.
LEMMA DrawCovers ==
  ASSUME Ledgers, Numbers', Placed, NEW b \in Accounts, NEW n \in Amounts, Borrow(b, n),
         Index' = Index
  PROVE  CoveredNext(b)
<1>1. Numbers /\ n \in Nat \ {0}
  BY MarketConstants DEF Ledgers
<1>2. PICK s \in Nat : s = scaledPrincipalOf[b]
  BY <1>1 DEF Numbers
<1>3. PICK i \in Nat \ {0} : i = Index
  BY <1>1, IndexGrows
<1>4. PICK w \in Nat \ {0} : w = WAD
  BY Scales
<1>5. PICK x \in Nat : x = MulDivUp(n, w, i)
  BY <1>1, UpBounds
<1>6. n * w <= i * x
  BY <1>1, <1>5, UpBounds
<1>7. i * x < n * w + i
  BY <1>1, <1>5, UpBounds
<1>8. /\ scaledPrincipalOf'[b] = s + x /\ borrowIndex' = i
      /\ held' = held /\ balanceOf' = balanceOf
  <2>1. Debt!OnBorrow(b, n, freeCash) /\ UNCHANGED <<accounts, custody>>
    BY DEF Borrow
  <2>2. Debt!ScaledForBorrow(n, Index) = x
    BY <1>3, <1>4, <1>5, DebtNames DEF Debt!ScaledForBorrow
  <2>3. /\ borrowIndex' = Index
        /\ scaledPrincipalOf' = [scaledPrincipalOf EXCEPT ![b] = scaledPrincipalOf[b] + x]
    BY <2>1, <2>2 DEF Debt!OnBorrow, Debt!Accrue, Debt!Owe, Index
  <2>. QED
    BY <1>1, <1>2, <1>3, <2>1, <2>3 DEF Numbers, accounts, custody
<1>9. PICK y \in Nat : y = Owed(b)
  BY CoverTypes
<1>10. PICK m \in Nat, l \in Nat :
         /\ m = Maintenance(held[b], Holdings(b)) /\ l = BorrowLimit(held[b], Holdings(b))
         /\ l <= m
  BY CoverTypes
<1>11. y + n <= m
  <2>1. PICK r \in Nat : r = reservedUsd18[b]
    BY DEF Placed
  <2>2. n <= Monus(l, y + r)
    BY <1>9, <1>10, <2>1, AvailableIs DEF Borrow
  <2>. QED
    BY <1>1, <1>10, <2>2 DEF Monus
<1>12. PICK u \in Nat : u = MulDivUp(1, i, w)
  BY UpBounds
<1>13. PICK d \in Nat : d = MulDivUp(x, i, w)
  BY UpBounds
<1>14. d <= n + u
  <2>1. 1 * i <= w * u
    BY <1>12, UpBounds
  <2>2. w * d < x * i + w
    BY <1>13, UpBounds
  <2>3. /\ w * (n + u) = n * w + w * u /\ n * w \in Nat /\ w * u \in Nat
        /\ i * x = x * i /\ x * i \in Nat /\ w * d \in Nat /\ 1 * i = i
    BY <1>1
  <2>4. w * d < w * (n + u) + w
    BY <1>7, <2>1, <2>2, <2>3
  <2>. QED
    BY <1>1, <2>4, Cancel
<1>15. x # 0
  <2>1. 1 * 1 <= n * w
    <3>1. 1 <= n /\ 1 <= w
      BY <1>1
    <3>. QED
      BY <1>1, <3>1, TimesOrder
  <2>2. n * w \in Nat /\ i * 0 = 0
    BY <1>1
  <2>. QED
    BY <1>6, <2>1, <2>2
<1>16. PICK z \in Nat : z = MulDivUp(s + x, i, w)
  <2>1. s + x \in Nat
    OBVIOUS
  <2>. QED
    BY <2>1, UpBounds
<1>17. y = MulDivUp(s, i, w)
  BY <1>2, <1>3, <1>4, <1>9 DEF Owed
<1>18. z <= y + d
  BY <1>13, <1>16, <1>17, UpOfSum
<1>19. OwedNext(b) = z /\ Rounding(b) = u
  <2>1. s + x > s
    BY <1>15
  <2>2. OwedNext(b) = z
    BY <1>3, <1>4, <1>8, <1>16 DEF OwedNext
  <2>3. scaledPrincipalOf'[b] > scaledPrincipalOf[b]
    BY <1>2, <1>8, <2>1
  <2>4. MulDivUp(1, borrowIndex', WAD) = u
    BY <1>4, <1>8, <1>12
  <2>. QED
    BY <2>2, <2>3, <2>4 DEF Rounding
<1>20. Maintenance(held'[b], HoldingsNext(b)) = m
  BY <1>8, <1>10 DEF HoldingsNext, Holdings
<1>21. z <= m + u
  <2>1. PICK k \in Nat : k = n
    BY <1>1
  <2>. QED
    BY <1>11, <1>14, <1>18, <2>1
<1>. QED
  BY <1>19, <1>20, <1>21 DEF CoveredNext

\* A repayment clears principal and never adds any.
LEMMA RepaymentClears ==
  ASSUME Numbers, NEW b \in Accounts, NEW a \in Nat, NEW all \in BOOLEAN,
         all => a >= debtOf(b), Debt!OnRepay(b, a, all, freeCash)
  PROVE  scaledPrincipalOf'[b] <= scaledPrincipalOf[b]
<1>1. PICK x : x = Debt!ClearedBy(scaledPrincipalOf[b], a, all, Index)
  OBVIOUS
<1>2. PICK s \in Nat : s = scaledPrincipalOf[b]
  BY DEF Numbers
<1>3. PICK t \in Nat : t = totalScaledPrincipal
  BY DEF Numbers
<1>4. PICK i \in Nat \ {0} : i = Index
  BY IndexGrows
<1>5. scaledPrincipalOf'[b] = s - x /\ t - x >= 0
  BY <1>1, <1>2, <1>3 DEF Debt!OnRepay, Debt!Owe, Index, Numbers
<1>6. x \in 0..s
  <2>1. all => a >= debtAt(s, i)
    BY <1>2, <1>4, DebtNames DEF debtOf, Debt!debtOf, Index
  <2>2. x = Debt!ClearedBy(s, a, all, i)
    BY <1>1, <1>2, <1>4
  <2>. QED
    BY <1>5, <2>1, <2>2, ClearedIsPaid
<1>. QED
  BY <1>2, <1>5, <1>6

\* Nobody who is covered is liquidated, unless a guardian has marked the account.
LEMMA LiquidationSpares ==
  ASSUME Ledgers, Placed, NEW b \in Accounts, Covered(b), statusOverride[b] < MARGIN_CALL
  PROVE  ~(accountHealth(b).status >= MARGIN_CALL)
<1>1. PICK xs : xs = Positions(held[b], Holdings(b))
  OBVIOUS
<1>2. PICK acct : acct = [scaledPrincipal |-> scaledPrincipalOf[b], borrowIndex |-> Index,
                          reservedUsd18 |-> reservedUsd18[b], statusOverride |-> statusOverride[b]]
  OBVIOUS
<1>3. accountHealth(b) = evaluate(xs, acct, sequencer)
  BY <1>1, <1>2 DEF accountHealth, HealthWith, HealthOf, Positions, Index
<1>4. PICK h : h = evaluate(xs, acct, sequencer)
  OBVIOUS
<1>5. PICK floor \in {NORMAL, NO_NEW_RISK} :
        h.status = Greatest(Greatest(baseStatus(h.debt, h.limits), floor), acct.statusOverride)
  <2>1. h.status = Greatest(Greatest(baseStatus(h.debt, h.limits),
                                     IF h.gates = {} THEN NORMAL ELSE NO_NEW_RISK),
                            acct.statusOverride)
    BY <1>4 DEF evaluate
  <2>. QED
    BY <2>1
<1>6. h.debt <= h.limits.maintenance
  <2>1. h.debt = Owed(b) /\ h.limits.maintenance = Maintenance(held[b], Holdings(b))
    BY <1>3, <1>4, HealthIs DEF accountHealth, HealthWith, Owed, Index
  <2>. QED
    BY <2>1 DEF Covered
<1>7. baseStatus(h.debt, h.limits) \in {NORMAL, NO_NEW_RISK}
  BY <1>6 DEF baseStatus
<1>8. PICK o \in 0..2 : o = acct.statusOverride
  <2>1. PICK o \in 0..6 : o = statusOverride[b]
    BY DEF Placed, AccountStatus, NORMAL, BAD_DEBT
  <2>2. o < 3
    BY <2>1 DEF MARGIN_CALL
  <2>3. acct.statusOverride = o
    BY <1>2, <2>1
  <2>. QED
    BY <2>2, <2>3
<1>9. PICK p \in 0..1 : p = baseStatus(h.debt, h.limits)
  BY <1>7 DEF NORMAL, NO_NEW_RISK
<1>10. floor \in 0..1
  BY DEF NORMAL, NO_NEW_RISK
<1>11. Greatest(Greatest(p, floor), o) \in 0..2
  BY <1>10 DEF Greatest
<1>12. PICK s \in 0..2 : s = h.status
  BY <1>5, <1>8, <1>9, <1>11
<1>13. accountHealth(b).status = s
  BY <1>3, <1>4, <1>12, Zenon
<1>14. ~(s >= 3)
  OBVIOUS
<1>. QED
  BY <1>13, <1>14 DEF MARGIN_CALL

\* Every call, on an account that brings nothing in.
LEMMA CallsCover ==
  ASSUME Ledgers, Numbers', Placed, [Next]_vars, NEW b \in Accounts, Covered(b),
         elapsed' <= elapsed, ~RaisesPendingRate,
         statusOverride[b] < MARGIN_CALL,
         \A a \in Assets : balanceOf'[a][b] <= balanceOf[a][b]
  PROVE  CoveredNext(b)
<1>1. Numbers /\ Custody!CustodyTypeOK /\ Index \in Nat
  BY IndexGrows DEF Ledgers, CustodyHolds
<1>2. balanceOf \in [Assets -> [Accounts -> Nat]] /\ scaledPrincipalOf \in [Accounts -> Nat]
      /\ held \in [Accounts -> Seq(Assets)] /\ \A n \in Amounts : n \in Nat \ {0}
  BY <1>1, MarketConstants DEF Custody!CustodyTypeOK, Numbers, Placed
<1>3. ASSUME NEW c \in Accounts, NEW a \in Assets, NEW n \in Amounts, NEW r \in 1..n,
             AddCollateral(c, a, n, r)
      PROVE  CoveredNext(b)
  <2>1. /\ balanceOf' = [balanceOf EXCEPT ![a][c] = @ + r]
        /\ held' = [held EXCEPT ![c] = InsertHeld(@, a)]
        /\ UNCHANGED <<financing, pool>>
    BY <1>3 DEF AddCollateral, Custody!Deposit, Custody!Credited
  <2>2. c # b
    <3>1. CASE c = b
      <4>1. balanceOf'[a][b] = balanceOf[a][b] + r /\ balanceOf[a][b] \in Nat /\ r \in Nat \ {0}
        BY <1>2, <2>1, <3>1
      <4>. QED
        BY <4>1
    <3>. QED
      BY <3>1
  <2>3. /\ held'[b] = held[b] /\ \A x \in Assets : balanceOf'[x][b] = balanceOf[x][b]
        /\ scaledPrincipalOf'[b] <= scaledPrincipalOf[b]
    BY <1>2, <2>1, <2>2 DEF financing, debtBook
  <2>4. Index' = Index /\ Index' <= Index
    BY <1>1, <2>1, IndexStands
  <2>. QED
    BY <2>3, <2>4, Unburdened
<1>4. ASSUME NEW c \in Accounts, NEW a \in Assets, NEW n \in Amounts,
             WithdrawCollateral(c, a, n)
      PROVE  CoveredNext(b)
  <2>1. /\ balanceOf' = [balanceOf EXCEPT ![a][c] = @ - n]
        /\ held' = [held EXCEPT ![c] = HeldAfter(c, a, n)]
        /\ UNCHANGED debtBook /\ borrowIndex' = Index /\ elapsed' = 0
    BY <1>4 DEF WithdrawCollateral, Custody!Release, Debt!Accrue, Index
  <2>2. Index' = Index /\ Index' <= Index
    BY <1>1, <2>1, IndexStands
  <2>3. CASE c = b
    BY <1>4, <2>2, <2>3, WithdrawalCovers
  <2>4. CASE c # b
    <3>1. /\ held'[b] = held[b] /\ \A x \in Assets : balanceOf'[x][b] = balanceOf[x][b]
          /\ scaledPrincipalOf'[b] <= scaledPrincipalOf[b]
      BY <1>2, <2>1, <2>4 DEF debtBook
    <3>. QED
      BY <2>2, <3>1, Unburdened
  <2>. QED
    BY <2>3, <2>4
<1>5. ASSUME NEW c \in Accounts, NEW n \in Amounts, Borrow(c, n)
      PROVE  CoveredNext(b)
  <2>1. Debt!OnBorrow(c, n, freeCash) /\ UNCHANGED <<accounts, custody>>
    BY <1>5 DEF Borrow
  <2>2. Index' = Index /\ Index' <= Index
    BY <1>1, <2>1, IndexStands DEF Debt!OnBorrow, Debt!Accrue, Index
  <2>3. CASE c = b
    BY <1>5, <2>2, <2>3, DrawCovers
  <2>4. CASE c # b
    <3>1. scaledPrincipalOf'[b] = scaledPrincipalOf[b]
      BY <1>2, <2>1, <2>4 DEF Debt!OnBorrow, Debt!Owe
    <3>2. /\ held'[b] = held[b] /\ \A x \in Assets : balanceOf'[x][b] = balanceOf[x][b]
          /\ scaledPrincipalOf'[b] <= scaledPrincipalOf[b]
      BY <1>2, <2>1, <3>1 DEF accounts, custody
    <3>. QED
      BY <2>2, <3>2, Unburdened
  <2>. QED
    BY <2>3, <2>4
<1>6. ASSUME NEW c \in Accounts, NEW n \in Nat, NEW all \in BOOLEAN,
             c = b => (all => n >= debtOf(b)), Debt!OnRepay(c, n, all, freeCash),
             held'[b] = held[b], \A x \in Assets : balanceOf'[x][b] = balanceOf[x][b]
      PROVE  CoveredNext(b)
  <2>1. Index' = Index /\ Index' <= Index
    BY <1>1, <1>6, IndexStands DEF Debt!OnRepay, Debt!Accrue, Index
  <2>2. scaledPrincipalOf'[b] <= scaledPrincipalOf[b]
    <3>1. CASE c = b
      BY <1>1, <1>6, <3>1, RepaymentClears
    <3>2. CASE c # b
      BY <1>2, <1>6, <3>2 DEF Debt!OnRepay, Debt!Owe
    <3>. QED
      BY <3>1, <3>2
  <2>. QED
    BY <1>6, <2>1, <2>2, Unburdened
<1>7. ASSUME NEW c \in Accounts, NEW n \in Amounts, NEW all \in BOOLEAN, Repay(c, n, all)
      PROVE  CoveredNext(b)
  <2>1. debtOf(c) \in Nat
    BY <1>1, DebtType
  <2>2. PICK k \in Nat : k = IF all THEN debtOf(c) ELSE Least(n, debtOf(c))
    BY <1>2, <2>1 DEF Least
  <2>3. Debt!OnRepay(c, k, all, freeCash) /\ UNCHANGED <<accounts, custody>>
    BY <1>7, <2>2 DEF Repay
  <2>4. c = b => (all => k >= debtOf(b))
    BY <2>1, <2>2
  <2>5. held'[b] = held[b] /\ \A x \in Assets : balanceOf'[x][b] = balanceOf[x][b]
    BY <2>3 DEF accounts, custody
  <2>. QED
    BY <1>6, <2>3, <2>4, <2>5
<1>8. ASSUME NEW c \in Accounts, NEW a \in Assets, NEW n \in Amounts, NEW p \in {0} \cup Amounts,
             ExecuteLiquidation(c, a, n, p)
      PROVE  CoveredNext(b)
  <2>1. c # b
    BY <1>8, LiquidationSpares DEF ExecuteLiquidation
  <2>2. PICK k : k = Least(tokensToUsd18(ToDebt(p)), accountHealth(c).debt)
    OBVIOUS
  <2>3. /\ Debt!OnRepay(c, k, FALSE, freeCash)
        /\ balanceOf' = [balanceOf EXCEPT ![a][c] = @ - n]
        /\ held' = [held EXCEPT ![c] = HeldAfter(c, a, n)]
    BY <1>8, <2>2 DEF ExecuteLiquidation, Custody!Release
  <2>4. held'[b] = held[b] /\ \A x \in Assets : balanceOf'[x][b] = balanceOf[x][b]
    BY <1>2, <2>1, <2>3
  <2>5. scaledPrincipalOf'[b] <= scaledPrincipalOf[b]
    <3>1. \E s : scaledPrincipalOf' = [scaledPrincipalOf EXCEPT ![c] = s]
      BY <2>3, Zenon DEF Debt!OnRepay, Debt!Owe
    <3>2. scaledPrincipalOf'[b] = scaledPrincipalOf[b] /\ scaledPrincipalOf[b] \in Nat
      BY <1>2, <2>1, <3>1
    <3>. QED
      BY <3>2
  <2>6. Index' = Index /\ Index' <= Index
    BY <1>1, <2>3, IndexStands DEF Debt!OnRepay, Debt!Accrue, Index
  <2>. QED
    BY <2>4, <2>5, <2>6, Unburdened
<1>9. ASSUME NEW a \in Assets, DonateCollateral(a)
      PROVE  CoveredNext(b)
  <2>1. UNCHANGED <<accounts, financing, pool, balanceOf>>
    BY <1>9 DEF DonateCollateral, Custody!Donate
  <2>2. /\ held'[b] = held[b] /\ \A x \in Assets : balanceOf'[x][b] = balanceOf[x][b]
        /\ scaledPrincipalOf'[b] <= scaledPrincipalOf[b]
    BY <1>2, <2>1 DEF accounts, financing, debtBook
  <2>3. Index' = Index /\ Index' <= Index
    BY <1>1, <2>1, IndexStands
  <2>. QED
    BY <2>2, <2>3, Unburdened
<1>10. ASSUME UNCHANGED <<held, custody, debtBook>>, Index' <= Index
       PROVE  CoveredNext(b)
  <2>1. /\ held'[b] = held[b] /\ \A x \in Assets : balanceOf'[x][b] = balanceOf[x][b]
        /\ scaledPrincipalOf'[b] <= scaledPrincipalOf[b]
    BY <1>2, <1>10 DEF custody, debtBook
  <2>. QED
    BY <1>10, <2>1, Unburdened
<1>11. CASE \/ \E c \in Accounts, n \in Amounts : Reserve(c, n) \/ ReleaseReservation(c, n)
            \/ \E c \in Accounts, s \in Overrides : SetAccountRiskState(c, s)
            \/ \E c \in Accounts : ClearAccountRiskState(c)
            \/ \E m \in MaxPriceAges : SetSettlementMaxPriceAge(m)
            \/ ClearSettlementFreshness
            \/ \E f \in Feeds : \E p \in Prices[f] : Publish(f, p)
            \/ \E a \in Assets : \E s \in Standings[a] : SetStanding(a, s)
            \/ \E g \in SequencerStates : SetSequencer(g)
            \/ UNCHANGED vars
  <2>1. UNCHANGED <<held, custody, financing, pool>>
    BY <1>11 DEF Reserve, ReleaseReservation, SetAccountRiskState, ClearAccountRiskState,
      SetSettlementMaxPriceAge, ClearSettlementFreshness, Publish, SetStanding, SetSequencer,
      accounts, vars
  <2>2. Index' = Index
    BY <1>1, <2>1, IndexStands
  <2>. QED
    BY <1>1, <1>10, <2>1, <2>2 DEF financing
<1>12. CASE Poke \/ \E r \in RateCurves : SetRateParams(r)
  <2>1. UNCHANGED <<held, custody, debtBook>> /\ borrowIndex' = Index /\ elapsed' = 0
    BY <1>12 DEF Poke, SetRateParams, Debt!SetRateParams, Debt!Accrue, Debt!debtBook, debtBook,
      accounts, Index
  <2>2. Index' = Index
    BY <1>1, <2>1, IndexStands
  <2>. QED
    BY <1>1, <1>10, <2>1, <2>2
<1>13. ASSUME NEW l \in Lenders, NEW n \in Amounts, Supply(l, n)
       PROVE  CoveredNext(b)
  <2>1. UNCHANGED <<held, custody, financing, reserves>> /\ cash' = cash + n
    BY <1>13 DEF Supply, Pool!Supply, Pool!books, accounts
  <2>2. freeCash <= freeCash'
    <3>1. (freeCash = Monus(cash, 0 + reserves + 0))'
      BY FreeCashIs, PTL
    <3>2. PICK c \in Nat, r \in Nat, k \in Nat : c = cash /\ r = reserves /\ k = n
      BY <1>1, <1>2 DEF Numbers
    <3>3. cash' = c + k /\ reserves' = r
      BY <2>1, <3>2
    <3>4. Monus(c, 0 + r + 0) <= Monus(c + k, 0 + r + 0)
      BY DEF Monus
    <3>. QED
      BY <3>1, <3>2, <3>3, <3>4, FreeCashIs
  <2>3. Index' <= Index
    BY <1>1, <2>1, <2>2, IndexFalls DEF financing, debtBook
  <2>. QED
    BY <1>10, <2>1, <2>3 DEF financing
<1>14. ASSUME NEW l \in Lenders, NEW n \in Amounts, Withdraw(l, n)
       PROVE  CoveredNext(b)
  <2>1. UNCHANGED <<held, custody, financing>> /\ totalSupply' = totalSupply - n
    BY <1>14 DEF Withdraw, Pool!Withdraw, Pool!Burn, accounts
  <2>2. totalSupply' < totalSupply
    <3>1. n \in Nat \ {0}
      BY MarketConstants
    <3>2. totalSupply \in Nat
      BY <1>1 DEF Numbers
    <3>. QED
      BY ONLY <2>1, <3>1, <3>2
  <2>3. elapsed = 0 /\ elapsed' = 0 /\ borrowIndex' = borrowIndex
    BY <1>1, <2>1, <2>2 DEF RaisesPendingRate, Numbers, financing
  <2>4. Index = borrowIndex
    BY <1>1, <2>3, IndexAtRest
  <2>5. Index' = Index
    BY <1>1, <2>3, <2>4, IndexStands
  <2>. QED
    BY <1>1, <1>10, <2>1, <2>5 DEF financing
<1>15. ~Tick
  BY <1>1 DEF Tick, Numbers
<1>. QED
  BY Zenon, <1>3, <1>4, <1>5, <1>7, <1>8, <1>9, <1>11, <1>12, <1>13, <1>14, <1>15 DEF Next

Sound == Ledgers /\ Placed

\* The ledgers and the records hold always.
LEMMA SoundAlways == Spec => []Sound
<1>1. Init => Sound
  BY LedgersInit, PlacedInit DEF Sound
<1>2. Sound /\ [Next]_vars => Sound'
  BY LedgersNext, PlacedNext DEF Sound
<1>. QED
  BY <1>1, <1>2, PTL DEF Spec

EndangerBody ==
  (UNCHANGED inputs /\ elapsed' <= elapsed /\ ~RaisesPendingRate) =>
     \A b \in Accounts :
       (/\ scaledPrincipalOf'[b] # 0
        /\ statusOverride[b] < MARGIN_CALL
        /\ \A a \in Assets : balanceOf'[a][b] <= balanceOf[a][b]
        /\ Excess(held[b], Holdings(b), scaledPrincipalOf[b], Debt!currentIndex(freeCash)) <= 0)
       => Excess(held'[b], [a \in Assets |-> balanceOf'[a][b]], scaledPrincipalOf'[b],
                 Debt!currentIndex(freeCash)')
            <= IF scaledPrincipalOf'[b] > scaledPrincipalOf[b]
               THEN MulDivUp(1, borrowIndex', WAD) ELSE 0

\* A debt's excess over what the collateral carries.
LEMMA ExcessIs ==
  ASSUME NEW list, NEW q, NEW s, NEW i
  PROVE  Excess(list, q, s, i) = MulDivUp(s, i, WAD) - Maintenance(list, q)
BY HealthIs DEF Excess

\* I-10 in every market: while prices, registry records, the sequencer and the clock stand, no
\* step takes a debtor who brings nothing in past the maintenance limit, a draw excepted by the
\* unit its debt rounds up. Judged are borrow, withdrawCollateral, repay, executeLiquidation,
\* accrue, setRateParams and the lenders' calls alike (ClearingHouse.sol, FinancingEngine.sol,
\* LiquidityVault.sol); left out are an account that a guardian has marked for liquidation and
\* a lender's withdrawal before the elapsed time is charged, which raises its rate.
THEOREM OnlyInputsDoEndanger == Spec => OnlyInputsEndanger
<1>1. Sound /\ [Next]_vars => [EndangerBody]_vars
  <2> SUFFICES ASSUME Sound, [Next]_vars, elapsed' <= elapsed, ~RaisesPendingRate,
                      NEW b \in Accounts, statusOverride[b] < MARGIN_CALL,
                      \A a \in Assets : balanceOf'[a][b] <= balanceOf[a][b],
                      Excess(held[b], Holdings(b), scaledPrincipalOf[b], Index) <= 0
               PROVE  Excess(held'[b], HoldingsNext(b), scaledPrincipalOf'[b], Index')
                        <= Rounding(b)
    BY Zenon DEF EndangerBody, Index, HoldingsNext, Rounding
  <2>1. Ledgers /\ Placed /\ Numbers /\ Numbers' /\ Custody!CustodyTypeOK'
    BY LedgersNext DEF Sound, Ledgers, CustodyHolds
  <2>2. Placed'
    BY PlacedNext DEF Sound
  <2>3. Covered(b)
    <3>1. Owed(b) \in Nat /\ Maintenance(held[b], Holdings(b)) \in Nat
      BY <2>1, CoverTypes
    <3>2. Owed(b) - Maintenance(held[b], Holdings(b)) <= 0
      BY ExcessIs DEF Owed
    <3>. QED
      BY <3>1, <3>2 DEF Covered
  <2>4. CoveredNext(b)
    BY <2>1, <2>3, CallsCover
  <2>5. PICK m \in Nat : m = Maintenance(held'[b], HoldingsNext(b))
    <3>1. held'[b] \in Seq(Assets)
      BY <2>2 DEF Placed
    <3>2. HoldingsNext(b) \in [Assets -> Nat]
      BY <2>1 DEF HoldingsNext, Custody!CustodyTypeOK
    <3>. QED
      BY <2>1, <3>1, <3>2, BorrowWithinMaintenance
  <2>6. PICK o \in Nat : o = OwedNext(b)
    <3>1. PICK s \in Nat : s = scaledPrincipalOf'[b]
      BY <2>1 DEF Numbers
    <3>2. (Numbers => Index \in Nat \ {0} /\ Index >= borrowIndex)'
      BY IndexGrows, PTL
    <3>3. PICK i \in Nat : i = Index'
      BY <2>1, <3>2
    <3>. QED
      BY <3>1, <3>3, Scales, UpBounds DEF OwedNext
  <2>7. PICK r \in Nat : r = Rounding(b)
    <3>1. PICK i \in Nat : i = borrowIndex'
      BY <2>1 DEF Numbers
    <3>2. MulDivUp(1, i, WAD) \in Nat
      BY Scales, UpBounds
    <3>. QED
      BY <3>1, <3>2 DEF Rounding
  <2>8. Excess(held'[b], HoldingsNext(b), scaledPrincipalOf'[b], Index') = o - m
    BY <2>5, <2>6, ExcessIs DEF OwedNext
  <2>. QED
    BY <2>4, <2>5, <2>6, <2>7, <2>8 DEF CoveredNext
<1>. QED
  BY <1>1, SoundAlways, PTL DEF Spec, OnlyInputsEndanger, EndangerBody

=============================================================================
