-------------------------- MODULE FinancingEngine --------------------------
(***************************************************************************)
(* contracts/src/core/FinancingEngine.sol: dollar debt as principal scaled *)
(* against one borrow index. Every entry point accrues first. The engine   *)
(* reads the free cash of the liquidity vault for its rate, a parameter    *)
(* here, and reports interest without writing it anywhere. onBorrow and    *)
(* onRepay are conjuncts of ClearingHouse's actions; accrue and            *)
(* setRateParams are also called directly.                                 *)
(***************************************************************************)
EXTENDS RiskMath

CONSTANTS
  Accounts,
  RateCurves,   (* rate parameters governance may set                     *)
  MaxIndex      (* bound: the borrow index                                *)

VARIABLES
  borrowIndex,
  elapsed,               (* block.timestamp - lastAccrualAt               *)
  totalScaledPrincipal,
  scaledPrincipalOf,     (* by account                                    *)
  rate

debtBook == <<totalScaledPrincipal, scaledPrincipalOf>>
financing == <<borrowIndex, elapsed, debtBook, rate>>

totalBorrowsAt(index) == MulDivUp(totalScaledPrincipal, index, WAD)

totalBorrowsStored == totalBorrowsAt(borrowIndex)

currentRateBps(freeCash) == borrowRateBps(freeCash, totalBorrowsStored, rate)

\* The index as it would be after the time elapsed.
IndexAfter(dt, freeCash) == accrueIndex(borrowIndex, currentRateBps(freeCash), dt)

currentIndex(freeCash) == IndexAfter(elapsed, freeCash)

debtOf(account, freeCash) == debtAt(scaledPrincipalOf[account], currentIndex(freeCash))

\* What accrue() reports: the interest recognised since the last accrual, in dollars.
interestDelta(freeCash) == totalBorrowsAt(currentIndex(freeCash)) - totalBorrowsStored

FinancingInit ==
  /\ borrowIndex = WAD
  /\ elapsed = 0
  /\ totalScaledPrincipal = 0
  /\ scaledPrincipalOf = [b \in Accounts |-> 0]
  /\ rate \in RateCurves

\* accrue(): the index steps and the clock of the next interval starts.
Accrue(freeCash) ==
  /\ borrowIndex' = currentIndex(freeCash)
  /\ elapsed' = 0

\* Variant: the account's principal moves and the market's total is forgotten.
OweWithoutTotal(account, scaled, total) ==
  /\ scaledPrincipalOf' = [scaledPrincipalOf EXCEPT ![account] = scaled]
  /\ totalScaledPrincipal' = totalScaledPrincipal

\* Both subtractions are checked: a total below what is cleared would revert.
Owe(account, scaled, total) ==
  /\ scaled >= 0 /\ total >= 0
  /\ scaledPrincipalOf' = [scaledPrincipalOf EXCEPT ![account] = scaled]
  /\ totalScaledPrincipal' = total

ScaledForBorrow(amount, index) == MulDivUp(amount, WAD, index)

OnBorrow(account, amount, freeCash) ==
  LET delta == ScaledForBorrow(amount, currentIndex(freeCash)) IN
  /\ Accrue(freeCash)
  /\ Owe(account, scaledPrincipalOf[account] + delta, totalScaledPrincipal + delta)
  /\ UNCHANGED rate

\* The scaled principal a repayment clears: all of it when it is told to or when it covers the
\* debt, otherwise the amount rounded down.
ClearedBy(scaled, amount, repayAll, index) ==
  IF repayAll \/ amount >= debtAt(scaled, index) THEN scaled
  ELSE Least(scaled, MulDiv(amount, WAD, index))

OnRepay(account, amount, repayAll, freeCash) ==
  LET scaled == scaledPrincipalOf[account]
      delta  == ClearedBy(scaled, amount, repayAll, currentIndex(freeCash))
  IN
  /\ Accrue(freeCash)
  /\ Owe(account, scaled - delta, totalScaledPrincipal - delta)
  /\ UNCHANGED rate

SetRateParams(r, freeCash) ==
  /\ Accrue(freeCash)
  /\ rate' = r
  /\ UNCHANGED debtBook

FinancingTypeOK ==
  /\ borrowIndex \in Nat
  /\ elapsed \in Nat
  /\ totalScaledPrincipal \in Nat
  /\ scaledPrincipalOf \in [Accounts -> Nat]
  /\ rate \in RateCurves
=============================================================================
