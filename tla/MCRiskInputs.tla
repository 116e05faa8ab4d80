---------------------------- MODULE MCRiskInputs ----------------------------
(***************************************************************************)
(* RiskInputs with one asset and one policy, and a whole of 8 basis points. *)
(***************************************************************************)
EXTENDS RiskInputs, TLC

CONSTANTS governance, guardian, admission, controller

MCRolesOf ==
  [who \in Actors |->
     IF who = governance THEN {"GOVERNANCE"}
     ELSE IF who = admission THEN {"ADMISSION"} ELSE {"GUARDIAN"}]

Base ==
  [haircuts |-> <<1>>, maxConcentration |-> 8, initialLtv |-> 4, maintenanceLtv |-> 5,
   liquidationLtv |-> 6, maxOracleAge |-> 0, maxPassportAge |-> 1]

MCProposals ==
  {Base,
   [Base EXCEPT !.initialLtv = 2],
   [Base EXCEPT !.haircuts = <<4>>, !.maxPassportAge = 2],
   [Base EXCEPT !.maintenanceLtv = 7]}   \* above the liquidation limit: refused

MCCurves == {<<[threshold |-> 8, recovery |-> 8]>>}

MCHeaders == {[expiresAt |-> 2, redeemable |-> FALSE, floor |-> 0]}

-----------------------------------------------------------------------------
(* The browser's preview against the kernel, at time 1.                      *)

Tiers == {<<[threshold |-> 8, recovery |-> 8]>>,
          <<[threshold |-> 5, recovery |-> 7], [threshold |-> 9, recovery |-> 3]>>}

Terms == {[Base EXCEPT !.haircuts = <<1, 3>>, !.maxConcentration = 5], [Base EXCEPT !.maxOracleAge = 1]}

Positions ==
  [quantity : {0, 3}, unit : {1, 2}, price : {0, 2, 5}, priceUpdatedAt : 0..2,
   passport : [committedAt : {0, 2}, status : {"ACTIVE", "CONFLICTED", "SUSPENDED"},
               redeemable : BOOLEAN, floor : {0, 6}],
   assetStatus : {"ACTIVE", "SUSPENDED"}, params : Terms, curve : Tiers]

\* Two positions side by side, for the sums and the cap.
Pairs ==
  LET plain == {a \in Positions : /\ a.quantity = 3 /\ a.priceUpdatedAt = 2 /\ a.assetStatus = "ACTIVE"
                                  /\ a.passport.committedAt = 2 /\ a.passport.status = "ACTIVE"
                                  /\ a.passport.floor = 6 /\ a.unit = 1}
  IN  plain \X plain

Accounts ==
  [scaledPrincipal : {0, 1, 5, 11}, borrowIndex : {2, 3}, reservedUsd18 : {0, 2},
   statusOverride : {NORMAL, REDUCE_ONLY}]

Sequencers == [up : BOOLEAN, lastRestartAt : 0..2, gracePeriod : {1, 2}]

Preview(positions, acct, seq) == previewEvaluate(positions, acct, seq, 1)

Kernel(positions, acct, seq) ==
  LET aged(a) ==
        [quantity |-> a.quantity, unit |-> a.unit, price |-> a.price,
         priceAge |-> Monus(1, a.priceUpdatedAt),
         passport |-> [age |-> Monus(1, a.passport.committedAt), status |-> a.passport.status,
                       redeemable |-> a.passport.redeemable, floor |-> a.passport.floor],
         assetStatus |-> a.assetStatus, params |-> a.params, curve |-> a.curve]
  IN  evaluate([i \in DOMAIN positions |-> aged(positions[i])], acct, sequencerGatesAt(seq, 1))

\* What the browser previews is what the kernel lends against, to the unit, also where a
\* timestamp lies in the future, which the shared fixtures never do (RiskMath.sol _age), unless
\* the sequencer's grace period is zero (packages/domain/src/risk.ts: "every number it produces
\* must be reproducible").
PreviewAgrees ==
  LET up == [up |-> TRUE, lastRestartAt |-> 0, gracePeriod |-> 1] IN
  /\ \A a \in Positions, acct \in {[scaledPrincipal |-> 5, borrowIndex |-> 3, reservedUsd18 |-> 0,
                                   statusOverride |-> NORMAL]} :
       Preview(<<a>>, acct, up) = Kernel(<<a>>, acct, up)
  /\ \A pair \in Pairs, acct \in Accounts : Preview(pair, acct, up) = Kernel(pair, acct, up)
  /\ \A seq \in Sequencers, acct \in Accounts : Preview(<<>>, acct, seq) = Kernel(<<>>, acct, seq)

ASSUME PreviewAgrees
=============================================================================
