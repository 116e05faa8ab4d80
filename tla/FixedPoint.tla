----------------------------- MODULE FixedPoint -----------------------------
(***************************************************************************)
(* Unsigned arithmetic as contracts/src/libraries/RiskMath.sol and the     *)
(* saturating subtractions of the vault write it. Quantities are naturals: *)
(* the products fit the 512-bit intermediate of mulDiv, whose range is not *)
(* modelled.                                                               *)
(***************************************************************************)
EXTENDS Naturals

\* RiskMath.mulDiv: floor(a * b / d); a zero denominator reverts, so callers guard d > 0.
MulDiv(a, b, d) == (a * b) \div d

\* RiskMath.mulDivUp: the ceiling of the same quotient.
MulDivUp(a, b, d) == IF (a * b) % d = 0 THEN MulDiv(a, b, d) ELSE MulDiv(a, b, d) + 1

\* `x > y ? x - y : 0`
Monus(x, y) == IF x > y THEN x - y ELSE 0

\* `x < y ? x : y`
Least(x, y) == IF x < y THEN x ELSE y

\* `x > y ? x : y`
Greatest(x, y) == IF x > y THEN x ELSE y
=============================================================================
