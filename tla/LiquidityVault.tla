--------------------------- MODULE LiquidityVault ---------------------------
(***************************************************************************)
(* contracts/src/core/LiquidityVault.sol: the settlement-token pool of one *)
(* market, the lenders' share claims on it and the FIFO queue of those who *)
(* asked to leave while the cash was lent out. Every external function     *)
(* that changes state is one action; a call that reverts is a step that is *)
(* not enabled. One transaction is one step.                               *)
(***************************************************************************)
EXTENDS FixedPoint, Integers, FiniteSetsExt

CONSTANTS
  Lenders,         (* accounts that hold vault shares                        *)
  Amounts,         (* token amounts and share counts a call may name         *)
  ReserveFactors,  (* the values FinancingEngine's rate curve may give       *)
  BPS,             (* Types.BPS, the denominator of a reserve factor         *)
  MaxQueueSteps,   (* MAX_QUEUE_STEPS_PER_CALL                               *)
  MaxCash,         (* bound: tokens the vault ever holds or is owed          *)
  MaxLoss,         (* bound: debt ever written off                           *)
  MaxRequests      (* bound: withdrawal requests ever made                   *)

ASSUME VaultConstants ==
  /\ Amounts \subseteq Nat \ {0}
  /\ BPS \in Nat \ {0}
  /\ ReserveFactors \subseteq 0..BPS
  /\ MaxQueueSteps \in Nat \ {0}
  /\ MaxCash \in Nat
  /\ MaxLoss \in Nat
  /\ MaxRequests \in Nat

VARIABLES
  cash,                (* asset.balanceOf(vault)                             *)
  totalPrincipal,      (* lent out and not yet returned                      *)
  accruedReceivables,  (* interest recognised and not yet received           *)
  reservedCash,        (* promised to in-flight executions                   *)
  badDebt,             (* principal written off beyond the reserve           *)
  reserves,            (* the protocol's own share of collected interest     *)
  shares,              (* ERC20 balances of the lenders                      *)
  totalSupply,         (* ERC20 total supply                                 *)
  requests,            (* withdrawalRequests, ids 1 .. nextRequestId - 1     *)
  nextRequestId,
  queueHead,           (* the oldest request not fully funded                *)
  queuedLiabilities,   (* owed to requests not yet claimed or cancelled      *)
  queuedFunded         (* cash set aside for them                            *)

books == <<totalPrincipal, accruedReceivables, badDebt, reserves>>
equity == <<shares, totalSupply>>
queue == <<requests, nextRequestId, queueHead, queuedLiabilities, queuedFunded>>
vars == <<cash, books, reservedCash, equity, queue>>

RequestIds == 1..(nextRequestId - 1)

Request == [lender : Lenders, amount : Nat, funded : Nat, claimed : BOOLEAN]

Settled(r) == r.claimed \/ r.funded = r.amount

-----------------------------------------------------------------------------
(* Accounting views.                                                        *)

SpokenFor == reservedCash + reserves + queuedFunded

\* Variant: the cash set aside for the queue is forgotten.
FreeCashIgnoringQueue(held, spokenFor) == Monus(held, spokenFor - queuedFunded)

\* Free cash beside `held` tokens with `spokenFor` of them promised.
FreeCash(held, spokenFor) == Monus(held, spokenFor)

availableCash == FreeCash(cash, SpokenFor)

NetAssets(held, liabilities) ==
  Monus(held + totalPrincipal + accruedReceivables, badDebt + reserves + liabilities)

totalAssets == NetAssets(cash, queuedLiabilities)

\* Variant: the share count rounds in the depositor's favour.
SharesForRoundedUp(assets, ta) ==
  IF totalSupply = 0 \/ ta = 0 THEN assets ELSE MulDivUp(assets, totalSupply, ta)

\* Shares for `assets` when the lenders' claim is worth `ta`.
SharesFor(assets, ta) ==
  IF totalSupply = 0 \/ ta = 0 THEN assets ELSE MulDiv(assets, totalSupply, ta)

convertToShares(assets) == SharesFor(assets, totalAssets)

convertToAssets(s) ==
  IF totalSupply = 0 THEN s ELSE MulDiv(s, totalAssets, totalSupply)

-----------------------------------------------------------------------------
(* The withdrawal queue. A service call walks the requests from the head    *)
(* with a budget of free cash and of steps, and stops at the first request  *)
(* it cannot fund in full.                                                  *)

\* What the request r is given out of `free`.
Give(r, free) == Least(r.amount - r.funded, free)

\* Variant: the head also moves past a request that was funded part-way.
NextHeadPastPartial(head, r, give) == head + 1

\* The head moves past a request only once it is funded in full.
NextHead(head, r, give) == IF r.funded + give = r.amount THEN head + 1 ELSE head

\* One turn of the loop: w is the walk so far (requests, head, free, given, stuck).
WalkStep(w, next) ==
  IF w.free = 0 \/ w.head >= next \/ w.stuck THEN w
  ELSE LET r    == w.reqs[w.head]
           give == Give(r, w.free)
       IN  IF Settled(r) THEN [w EXCEPT !.head = @ + 1]
           ELSE [reqs  |-> [w.reqs EXCEPT ![w.head].funded = @ + give],
                 head  |-> NextHead(w.head, r, give),
                 free  |-> w.free - give,
                 given |-> w.given + give,
                 stuck |-> r.funded + give < r.amount]

\* The whole of _serviceQueue over `reqs` with `free` cash to hand out.
Walk(reqs, head, next, free) ==
  LET turn[n \in 0..MaxQueueSteps] ==
        IF n = 0
        THEN [reqs |-> reqs, head |-> head, free |-> free, given |-> 0, stuck |-> FALSE]
        ELSE WalkStep(turn[n - 1], next)
  IN  turn[MaxQueueSteps]

\* _serviceQueue run over the requests `reqs`, the ids below `next`.
ServiceQueue(reqs, next) ==
  LET w == Walk(reqs, queueHead, next, availableCash)
  IN  /\ requests' = w.reqs
      /\ queueHead' = w.head
      /\ queuedFunded' = queuedFunded + w.given

-----------------------------------------------------------------------------
(* Share bookkeeping (the inherited ERC20).                                 *)

Mint(l, s) ==
  /\ shares' = [shares EXCEPT ![l] = @ + s]
  /\ totalSupply' = totalSupply + s

\* The supply is the sum of the balances, so the first guard is the one that decides.
Burn(l, s) ==
  /\ shares[l] >= s
  /\ totalSupply >= s
  /\ shares' = [shares EXCEPT ![l] = @ - s]
  /\ totalSupply' = totalSupply - s

-----------------------------------------------------------------------------
Init ==
  /\ cash = 0
  /\ totalPrincipal = 0
  /\ accruedReceivables = 0
  /\ reservedCash = 0
  /\ badDebt = 0
  /\ reserves = 0
  /\ shares = [l \in Lenders |-> 0]
  /\ totalSupply = 0
  /\ requests = <<>>
  /\ nextRequestId = 1
  /\ queueHead = 1
  /\ queuedLiabilities = 0
  /\ queuedFunded = 0

(* Lender flows. *)

Supply(l, amount) ==
  /\ cash + totalPrincipal + accruedReceivables + amount <= MaxCash
  /\ Mint(l, convertToShares(amount))
  /\ cash' = cash + amount
  /\ UNCHANGED <<books, reservedCash, queue>>

Withdraw(l, s) ==
  LET amount == convertToAssets(s) IN
  /\ amount <= availableCash
  /\ Burn(l, s)
  /\ cash' = cash - amount
  /\ UNCHANGED <<books, reservedCash, queue>>

\* The ERC20 transfer of shares between lenders.
Transfer(from, to, s) ==
  /\ shares[from] >= s
  /\ shares' = [shares EXCEPT ![from] = @ - s, ![to] = @ + s]
  /\ UNCHANGED <<cash, books, reservedCash, totalSupply, queue>>

RequestWithdrawal(l, s) ==
  LET amount == convertToAssets(s)
      filed  == [lender |-> l, amount |-> amount, funded |-> 0, claimed |-> FALSE]
  IN
  /\ nextRequestId <= MaxRequests
  /\ Burn(l, s)
  /\ nextRequestId' = nextRequestId + 1
  /\ queuedLiabilities' = queuedLiabilities + amount
  /\ ServiceQueue([i \in 1..nextRequestId |-> IF i = nextRequestId THEN filed ELSE requests[i]],
                  nextRequestId + 1)
  /\ UNCHANGED <<cash, books, reservedCash>>

\* Variant: a cancelled request discharges only the part still waiting on cash.
DischargedUnfunded(r) == r.amount - r.funded

\* The liability a cancellation takes off the books: funded and unfunded part alike.
Discharged(r) == r.amount

\* Variant: the request is paid and stays open.
LeaveOpen(id) == requests' = requests

Close(id) == requests' = [requests EXCEPT ![id].claimed = TRUE]

\* The funded part is paid out; the rest becomes shares again, priced after the whole
\* liability has left the books.
CancelWithdrawal(id) ==
  LET r == requests[id]
      nav == NetAssets(cash - r.funded, queuedLiabilities - Discharged(r))
  IN
  /\ ~r.claimed
  /\ Discharged(r) <= queuedLiabilities
  /\ r.funded <= queuedFunded
  /\ r.funded <= cash
  /\ Close(id)
  /\ queuedLiabilities' = queuedLiabilities - Discharged(r)
  /\ queuedFunded' = queuedFunded - r.funded
  /\ cash' = cash - r.funded
  /\ Mint(r.lender, SharesFor(r.amount - r.funded, nav))
  /\ UNCHANGED <<books, reservedCash, nextRequestId, queueHead>>

ClaimWithdrawal(id) ==
  LET r == requests[id] IN
  /\ ~r.claimed
  /\ r.funded >= r.amount
  /\ r.amount <= queuedLiabilities
  /\ r.amount <= queuedFunded
  /\ r.amount <= cash
  /\ Close(id)
  /\ queuedLiabilities' = queuedLiabilities - r.amount
  /\ queuedFunded' = queuedFunded - r.amount
  /\ cash' = cash - r.amount
  /\ UNCHANGED <<books, reservedCash, equity, nextRequestId, queueHead>>

(* Flows of the CLEARING role. ClearingHouse recognises interest before it lends   *)
(* or books a repayment, in the same transaction: the "Over" forms start from the  *)
(* receivables that recognition leaves.                                            *)

LendOver(receivables, amount) ==
  /\ amount <= availableCash
  /\ totalPrincipal' = totalPrincipal + amount
  /\ accruedReceivables' = receivables
  /\ cash' = cash - amount
  /\ UNCHANGED <<badDebt, reserves, reservedCash, equity, queue>>

Lend(amount) == LendOver(accruedReceivables, amount)

\* The tokens have arrived in the same transaction; interest is retired before principal.
OnRepaidOver(receivables, tokensIn, reserveFactor) ==
  LET interestPart == Least(receivables, tokensIn) IN
  /\ cash' = cash + tokensIn
  /\ accruedReceivables' = receivables - interestPart
  /\ reserves' = reserves + MulDiv(interestPart, reserveFactor, BPS)
  /\ totalPrincipal' = Monus(totalPrincipal, tokensIn - interestPart)
  /\ UNCHANGED <<badDebt, reservedCash, equity, queue>>

OnRepaid(tokensIn, reserveFactor) ==
  /\ cash + tokensIn <= MaxCash
  /\ OnRepaidOver(accruedReceivables, tokensIn, reserveFactor)

Accrued(receivables) ==
  /\ accruedReceivables' = receivables
  /\ UNCHANGED <<cash, totalPrincipal, badDebt, reserves, reservedCash, equity, queue>>

Accrue(interest) ==
  /\ cash + totalPrincipal + accruedReceivables + interest <= MaxCash
  /\ Accrued(accruedReceivables + interest)

ServiceWithdrawalQueue ==
  /\ ServiceQueue(requests, nextRequestId)
  /\ UNCHANGED <<cash, books, reservedCash, equity, nextRequestId, queuedLiabilities>>

RecordBadDebt(amount) ==
  LET fromReserves == Least(reserves, amount) IN
  /\ badDebt + amount <= MaxLoss
  /\ totalPrincipal' = Monus(totalPrincipal, amount)
  /\ reserves' = reserves - fromReserves
  /\ badDebt' = badDebt + (amount - fromReserves)
  /\ UNCHANGED <<cash, accruedReceivables, reservedCash, equity, queue>>

ReserveCash(amount) ==
  /\ amount <= availableCash
  /\ reservedCash' = reservedCash + amount
  /\ UNCHANGED <<cash, books, equity, queue>>

ReleaseCash(amount) ==
  /\ reservedCash' = Monus(reservedCash, amount)
  /\ UNCHANGED <<cash, books, equity, queue>>

Next ==
  \/ \E l \in Lenders, n \in Amounts : Supply(l, n)
  \/ \E l \in Lenders, n \in Amounts : Withdraw(l, n)
  \/ \E l, m \in Lenders, n \in Amounts : l # m /\ Transfer(l, m, n)
  \/ \E l \in Lenders, n \in Amounts : RequestWithdrawal(l, n)
  \/ \E id \in RequestIds : CancelWithdrawal(id)
  \/ \E id \in RequestIds : ClaimWithdrawal(id)
  \/ \E n \in Amounts : Lend(n)
  \/ \E n \in Amounts, f \in ReserveFactors : OnRepaid(n, f)
  \/ \E n \in Amounts : Accrue(n)
  \/ ServiceWithdrawalQueue
  \/ \E n \in Amounts : RecordBadDebt(n)
  \/ \E n \in Amounts : ReserveCash(n)
  \/ \E n \in Amounts : ReleaseCash(n)

Spec == Init /\ [][Next]_vars

-----------------------------------------------------------------------------
(* Correctness.                                                             *)

\* The ledger holds naturals, the head lies in the queue and nothing is funded past its amount.
TypeOK ==
  /\ cash \in Nat
  /\ totalPrincipal \in Nat
  /\ accruedReceivables \in Nat
  /\ reservedCash \in Nat
  /\ badDebt \in Nat
  /\ reserves \in Nat
  /\ shares \in [Lenders -> Nat]
  /\ totalSupply \in Nat
  /\ nextRequestId \in Nat \ {0}
  /\ requests \in [RequestIds -> Request]
  /\ queueHead \in 1..nextRequestId
  /\ queuedLiabilities \in Nat
  /\ queuedFunded \in Nat
  /\ \A id \in RequestIds : requests[id].funded <= requests[id].amount

\* Cash promised to executions, to the reserve and to funded redemptions is really there: no
\* order of lending, instant withdrawal, repayment, cancellation and claims spends it twice.
CashCovered == SpokenFor <= cash

\* First in, first out: everything before the head is settled, and no request behind the head
\* has received any cash, however the bounded service calls are cut up.
QueueFifo ==
  /\ \A id \in 1..(queueHead - 1) : Settled(requests[id])
  /\ \A id \in (queueHead + 1)..(nextRequestId - 1) : requests[id].funded = 0

\* The two running totals of the queue are the sums over the requests that are still open, so
\* the checked subtractions of a claim and a cancellation can never revert.
QueueBalanced ==
  LET Open(r, sum) == IF r.claimed THEN 0 ELSE sum IN
  /\ queuedLiabilities = SumFunction([id \in RequestIds |-> Open(requests[id], requests[id].amount)])
  /\ queuedFunded = SumFunction([id \in RequestIds |-> Open(requests[id], requests[id].funded)])

\* Nobody's entry or exit is paid for by those who stay: while the reserve and the written-off
\* debt stand still, no call lowers the assets behind one share (rounding is always towards
\* the vault, a queued claim leaves NAV when its shares burn and returns when it is cancelled).
HoldersNotDiluted ==
  [][(reserves' = reserves /\ badDebt' = badDebt /\ totalSupply > 0)
       => totalAssets' * totalSupply >= totalAssets * totalSupply']_vars

\* The redemption queue keeps the promises of ExitQueue, with queuedFunded as the pot.
Exits == INSTANCE ExitQueue WITH
  Owners <- Lenders,
  Sums   <- 0..(2 * MaxCash),
  claims <- [id \in RequestIds |->
               [owner |-> requests[id].lender, amount |-> requests[id].amount,
                held |-> requests[id].funded, closed |-> requests[id].claimed]],
  pot    <- queuedFunded

QueueKeepsPromises == Exits!ExitSpec
=============================================================================
