-------------------------- MODULE MCClearingHouse --------------------------
(***************************************************************************)
(* ClearingHouse on two small markets: one of two borrowers and one asset, *)
(* one of a single borrower and two assets. A whole is 4 basis points, the *)
(* index starts at 2, and prices are chosen so that conversions round.     *)
(***************************************************************************)
EXTENDS ClearingHouse, TLC

MCPolicy ==
  [a \in Assets |->
     [unit   |-> 1,
      params |-> [haircuts |-> <<0>>, maxConcentration |-> 3, initialLtv |-> 2,
                  maintenanceLtv |-> 3, liquidationLtv |-> 3,
                  maxOracleAge |-> 0, maxPassportAge |-> 1],
      curve  |-> <<[threshold |-> 6, recovery |-> 4], [threshold |-> 8, recovery |-> 3]>>]]

MCPassport == [age |-> 0, status |-> "ACTIVE", redeemable |-> FALSE, floor |-> 0]

Listed == [capable |-> TRUE, assetStatus |-> "ACTIVE", passport |-> MCPassport]

Suspended == [capable |-> FALSE, assetStatus |-> "SUSPENDED", passport |-> MCPassport]

MCRateCurves == {[base |-> 2, slope1 |-> 0, slope2 |-> 4, kink |-> 2, reserveFactor |-> 2]}

MCMaxAge == [f \in Feeds |-> IF f = Settlement THEN 2 ELSE 1]

BorrowerSymmetry == Permutations(Accounts)

(* The market of borrowers: the settlement price moves and quotes go stale. *)

DebtPrices == [f \in Feeds |-> IF f = Settlement THEN {2, 3} ELSE {4}]

DebtStandings == [a \in Assets |-> {Listed}]

DebtSequencer == {{}}

(* The market of assets: the token is worth a dollar or has no price, quotes go stale, one
   asset may be suspended. *)

CollateralPrices == [f \in Feeds |-> IF f = Settlement THEN {0, 2} ELSE IF f = 1 THEN {4} ELSE {2}]

CollateralStandings == [a \in Assets |-> IF a = 2 THEN {Listed, Suspended} ELSE {Listed}]

CollateralSequencer == {{}}
=============================================================================
