--------------------------- MODULE MCReadModels ---------------------------
(***************************************************************************)
(* One mandate, one account, two holders and two dimensions, which stand   *)
(* for the four concentration dimensions and for LIQUIDITY.  Two tokens on *)
(* one venue for the credit; two wallets, two visits and two wishes for    *)
(* the forms; two policies for the host, whose clock moves in steps longer *)
(* than the yield instance's window.                                       *)
(***************************************************************************)
EXTENDS ReadModels

CONSTANTS safety, yield

MCDimensions == {"UNDERLYING", "LIQUIDITY"}
MCCapBps ==
  "UNDERLYING" :> [NAMED |-> 6, UNKNOWN |-> 3] @@ "LIQUIDITY" :> [NAMED |-> 10, UNKNOWN |-> 4]
MCSessionFactorBps == "OPEN" :> 10 @@ "CLOSED" :> 8
MCScenarios == {[haircutBps |-> 3, groups |-> {"chips"}, sessions |-> {"CLOSED"}]}

Groups(underlying, route) == "UNDERLYING" :> underlying @@ "LIQUIDITY" :> route
\* A position without a route has no depth to speak of.
MCOffers ==
  {p \in [single : {1, 4, 7}, session : {"OPEN", "CLOSED"}, depth : {0, 3},
          groups : {Groups(u, r) : u \in {"chips", "bonds", ""}, r \in {"venue", ""}}] :
     p.groups["LIQUIDITY"] = "" => p.depth = 0}

\* The shallower token bounds what the venue is good for.
MCListings ==
  "i" :> [recognitionBps |-> 10, groups |-> Groups("chips", "venue"), depth |-> 1] @@
  "j" :> [recognitionBps |-> 10, groups |-> Groups("bonds", "venue"), depth |-> 5]
MCQuotes ==
  {[price |-> 2, factor |-> 2, session |-> "OPEN", feed |-> "LIVE"]}
    \cup [price : {1}, factor : {3}, session : {"CLOSED"}, feed : {"LIVE", "UNKNOWN"}]

\* A safety and a yield instance on one account, both of the Safety Buffer template.
MCPolicyOf ==
  LET config(most) == [targetBufferBps |-> 2, actionBufferBps |-> 1, maxRepayPerRun |-> most] IN
  [i \in {safety, yield} |->
     IF i = safety
     THEN [priority |-> 1, specs |-> {{"RISK_STATE"}, {"TIME"}}, config |-> config(2),
           confirm |-> [mode |-> "AUTO_WITHIN_MANDATE"],
           budget |-> [maxPerRun |-> 2, cooldown |-> 1, spending |-> {[seconds |-> 2, cap |-> 3]},
                       counts |-> {}]]
     ELSE [priority |-> 4, specs |-> {{"TIME", "AI_OBSERVATION"}}, config |-> config(1),
           confirm |-> [mode |-> "CONFIRM_WEAK_TRIGGER"],
           budget |-> [maxPerRun |-> 1, cooldown |-> 0, spending |-> {[seconds |-> 9, cap |-> 2]},
                       counts |-> {[seconds |-> 0, cap |-> 1]}]]]
=============================================================================
