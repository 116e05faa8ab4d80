-------------------------- MODULE CollateralVault --------------------------
(***************************************************************************)
(* contracts/src/core/CollateralVault.sol: custody of the collateral       *)
(* tokens. It credits what arrived, releases what it is told to, and knows *)
(* nothing of prices. Only ClearingHouse calls it, so its operations are   *)
(* the conjuncts of ClearingHouse's actions.                               *)
(***************************************************************************)
EXTENDS FixedPoint, FiniteSetsExt

CONSTANTS
  Accounts,    (* the accounts of the market                              *)
  Assets       (* asset ids, naturals: they are compared as numbers       *)

VARIABLES
  balanceOf,       (* units credited, by asset and account                *)
  totalDeposited,  (* units credited, by asset                            *)
  tokenBalance     (* units of the ERC20 the vault really holds           *)

custody == <<balanceOf, totalDeposited, tokenBalance>>

CustodyInit ==
  /\ balanceOf = [a \in Assets |-> [b \in Accounts |-> 0]]
  /\ totalDeposited = [a \in Assets |-> 0]
  /\ tokenBalance = [a \in Assets |-> 0]

\* Variant: the caller's figure is credited, whatever the token delivered.
CreditedAsRequested(requested, received) == requested

\* The credit is the measured delta of the vault's own balance.
Credited(requested, received) == received

\* A transfer of `requested` of which `received` arrive: a token may take a fee.
Deposit(asset, account, requested, received) ==
  LET credited == Credited(requested, received) IN
  /\ requested # 0
  /\ received # 0
  /\ balanceOf' = [balanceOf EXCEPT ![asset][account] = @ + credited]
  /\ totalDeposited' = [totalDeposited EXCEPT ![asset] = @ + credited]
  /\ tokenBalance' = [tokenBalance EXCEPT ![asset] = @ + received]

Release(asset, account, amount) ==
  /\ amount # 0
  /\ balanceOf[asset][account] >= amount
  /\ totalDeposited[asset] >= amount
  /\ balanceOf' = [balanceOf EXCEPT ![asset][account] = @ - amount]
  /\ totalDeposited' = [totalDeposited EXCEPT ![asset] = @ - amount]
  /\ tokenBalance' = [tokenBalance EXCEPT ![asset] = @ - amount]

\* A plain transfer to the vault: nobody is credited.
Donate(asset) ==
  /\ tokenBalance' = [tokenBalance EXCEPT ![asset] = @ + 1]
  /\ UNCHANGED <<balanceOf, totalDeposited>>

surplus(asset) == Monus(tokenBalance[asset], totalDeposited[asset])

CustodyTypeOK ==
  /\ balanceOf \in [Assets -> [Accounts -> Nat]]
  /\ totalDeposited \in [Assets -> Nat]
  /\ tokenBalance \in [Assets -> Nat]

\* I-01 and isSolvent: what the vault holds of an asset covers what it owes its accounts.
CustodySolvent ==
  \A a \in Assets : /\ totalDeposited[a] = SumFunction(balanceOf[a])
                    /\ tokenBalance[a] >= totalDeposited[a]
=============================================================================
