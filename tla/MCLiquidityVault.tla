-------------------------- MODULE MCLiquidityVault --------------------------
(***************************************************************************)
(* LiquidityVault on a small instance. Token amounts are scaled down to    *)
(* single units and a reserve factor of half (1 of 2) makes every division *)
(* of the vault round.                                                     *)
(***************************************************************************)
EXTENDS LiquidityVault, TLC

LenderSymmetry == Permutations(Lenders)
=============================================================================
