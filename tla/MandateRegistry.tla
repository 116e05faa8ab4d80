-------------------------- MODULE MandateRegistry --------------------------
(***************************************************************************)
(* contracts/src/core/MandateRegistry.sol: the envelopes owners sign for   *)
(* their agents, the pauses and revocations around them, and the budgets   *)
(* an authorization draws down. A mandate is identified by its owner and   *)
(* nonce; Merkle commitments are the sets they commit to. `authorize` is a *)
(* conjunct of the CLEARING contracts' actions.                            *)
(***************************************************************************)
EXTENDS Authority, FixedPoint, FiniteSetsExt

CONSTANTS
  BPS,             (* Types.BPS                                              *)
  Owners, Nonces,
  Envelopes,       (* the envelopes somebody may present                     *)
  Signed,          (* those that carry their owner's signature               *)
  MaxDuration,     (* MAX_MANDATE_DURATION                                   *)
  MaxFreshness,    (* MAX_PASSPORT_FRESHNESS                                 *)
  MaxTime          (* bound: the clock                                       *)

VARIABLES
  now,             (* block.timestamp                                        *)
  mandateOf,       (* the registered envelopes, by id                        *)
  state            (* by id: revoked, ownerPaused, guardianPaused,           *)
                   (* debtDrawn, notionalTraded                              *)

registry == <<mandateOf, state>>

VenueActions == {"TRADE", "HEDGE", "CLOSE"}

MandateActions == {"BORROW", "REPAY", "ADD_COLLATERAL"} \cup VenueActions

mandateIdFor(m) == <<m.owner, m.nonce>>

MandateIds == Owners \X Nonces

exists(id) == id \in DOMAIN mandateOf

FreshState ==
  [revoked |-> FALSE, ownerPaused |-> FALSE, guardianPaused |-> FALSE,
   debtDrawn |-> 0, notionalTraded |-> 0]

-----------------------------------------------------------------------------
(* The check pipeline.                                                      *)

inWindow(m) == now \in m.validFrom..m.expiresAt

isLive(id) ==
  /\ exists(id)
  /\ ~state[id].revoked /\ ~state[id].ownerPaused /\ ~state[id].guardianPaused
  /\ inWindow(mandateOf[id])

\* A request names a mandate, agent, action, asset, venue ("NONE" for none), amount, the
\* projected debt, gross exposure and equity, a Passport time and a slippage.
lifecycleAllows(req) == isLive(req.id) /\ req.agent = mandateOf[req.id].agent

commitmentAllows(req) ==
  LET m == mandateOf[req.id] IN
  /\ req.action \in m.actions
  /\ req.asset \in m.assets
  /\ IF req.action \in VenueActions THEN req.venue \in m.venues ELSE req.venue = "NONE"
  /\ req.passportAt \in 1..now
  /\ now - req.passportAt <= m.freshness

\* Variant: the cap is on one call, not on all of them.
remainingPerCall(cap, used) == cap

remaining(cap, used) == Monus(cap, used)

leverageExceeds(gross, equity, maxBps) ==
  gross # 0 /\ (equity = 0 \/ MulDivUp(gross, BPS, equity) > maxBps)

budgetAllows(req) ==
  LET m == mandateOf[req.id]
      s == state[req.id]
  IN
  /\ req.slippage <= m.maxSlippageBps
  /\ req.action = "BORROW" =>
       /\ req.amount <= remaining(m.maxDebtUsd, s.debtDrawn)
       /\ req.projectedDebt <= m.maxDebtUsd
  /\ req.action \in VenueActions => req.amount <= remaining(m.maxTradeNotionalUsd, s.notionalTraded)
  /\ ~leverageExceeds(req.gross, req.equity, m.maxEffectiveLeverageBps)

isAuthorized(req) == lifecycleAllows(req) /\ commitmentAllows(req) /\ budgetAllows(req)

\* authorize: the act is inside the envelope, and its size comes off the budget for good.
Authorize(req) ==
  /\ isAuthorized(req)
  /\ state' = [state EXCEPT
       ![req.id].debtDrawn = @ + (IF req.action = "BORROW" THEN req.amount ELSE 0),
       ![req.id].notionalTraded = @ + (IF req.action \in VenueActions THEN req.amount ELSE 0)]
  /\ UNCHANGED mandateOf

-----------------------------------------------------------------------------
RegistryInit ==
  /\ now = 1
  /\ mandateOf = [id \in {} |-> {}]
  /\ state = [id \in MandateIds |-> FreshState]

\* _validate: a live mandate is one whose parameters mean something.
validate(m) ==
  /\ m.validFrom < m.expiresAt
  /\ m.expiresAt > now
  /\ m.expiresAt - m.validFrom <= MaxDuration
  /\ m.freshness \in 1..MaxFreshness
  /\ m.actions # {} /\ m.actions \subseteq MandateActions
  /\ m.assets # {}
  /\ m.actions \cap VenueActions # {} => m.venues # {}
  /\ m.maxSlippageBps <= BPS

\* Registering burns the nonce for good.
NonceIsFree(id) == ~exists(id)

RegisterMandate(m) ==
  LET id == mandateIdFor(m) IN
  /\ validate(m)
  /\ NonceIsFree(id)
  /\ m \in Signed
  /\ mandateOf' = [x \in DOMAIN mandateOf \cup {id} |-> IF x = id THEN m ELSE mandateOf[x]]
  /\ state' = [state EXCEPT ![id] = FreshState]

RevokeMandate(id, who) ==
  /\ exists(id)
  /\ ~state[id].revoked
  /\ who = mandateOf[id].owner \/ isOfficial(who)
  /\ state' = [state EXCEPT ![id].revoked = TRUE]
  /\ UNCHANGED mandateOf

\* The owner's flag comes first, whatever other role the caller holds.
PauseMandate(id, who) ==
  /\ exists(id)
  /\ \/ /\ who = mandateOf[id].owner
        /\ state' = [state EXCEPT ![id].ownerPaused = TRUE]
     \/ /\ who # mandateOf[id].owner
        /\ isOfficial(who)
        /\ state' = [state EXCEPT ![id].guardianPaused = TRUE]
  /\ UNCHANGED mandateOf

\* Governance lifts the guardian's flag, a guardian nothing, an owner the owner's own.
ResumeMandate(id, who) ==
  /\ exists(id)
  /\ ~state[id].revoked
  /\ \/ /\ hasRole(who, "GOVERNANCE")
        /\ state' = [state EXCEPT ![id].guardianPaused = FALSE]
     \/ /\ ~isOfficial(who)
        /\ who = mandateOf[id].owner
        /\ state' = [state EXCEPT ![id].ownerPaused = FALSE]
  /\ UNCHANGED mandateOf

MandateState ==
  [revoked : BOOLEAN, ownerPaused : BOOLEAN, guardianPaused : BOOLEAN,
   debtDrawn : Nat, notionalTraded : Nat]

RegistryTypeOK ==
  /\ now \in 1..MaxTime
  /\ DOMAIN mandateOf \subseteq MandateIds
  /\ Range(mandateOf) \subseteq Signed
  /\ state \in [MandateIds -> MandateState]
=============================================================================
