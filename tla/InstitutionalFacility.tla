----------------------- MODULE InstitutionalFacility -----------------------
(***************************************************************************)
(* The institutional facility's lifecycle and its collateral substitution  *)
(* (contracts/src/institutional/InstitutionalFacility.sol), over custody   *)
(* adapters that may settle late, in part or never.                        *)
(*                                                                         *)
(* Left out: the money moved by funding, disbursement and claims, the      *)
(* events, and the reason of a rejection. Prices are read afresh, so a     *)
(* coverage check may find any price of Prices.                            *)
(***************************************************************************)
EXTENDS Integers

CONSTANTS
  Adapters, FirstAdapter,
  Requests,                \* substitution request ids
  NoId,                    \* the zero id
  Units,                   \* units a commitment asks for
  Restrictable,            \* the restrictions a guardian may set
  Principal, MaxOwed,      \* bound: interest stops there
  Prices,
  MaturityAt, Grace, RecallGrace, DecisionLife, MaxTime,
  MaxEpoch                 \* bound on the risk epoch

ASSUME FacilityConstants ==
  /\ FirstAdapter \in Adapters /\ NoId \notin Requests /\ Units \in Nat \ {0}
  /\ {Principal, MaxOwed, MaturityAt, Grace, RecallGrace, DecisionLife, MaxTime, MaxEpoch}
       \subseteq Nat
  /\ 0 < Principal /\ Principal <= MaxOwed /\ Prices \subseteq Nat

VARIABLES
  status, owed, collateral, sub,
  recallBy, restricted,    \* the deadline of a recall; the guardian's restrictions
  held, arriving,          \* units in custody and on their way, by adapter
  now, epoch, authorised,  \* the ENS role as the verifier holds it
  approved,                \* request -> the last decision both verifiers accepted
  released                 \* history: the requests that released the old collateral

chainVars == <<held, arriving>>
worldVars == <<now, epoch, authorised, approved>>
facilityVars == <<status, owed, collateral, sub, recallBy, restricted, released>>

NoSub == [state |-> "NONE", id |-> NoId, adapter |-> FirstAdapter, epoch |-> 0, expiry |-> 0]
NoDecision == [adapter |-> FirstAdapter, expiry |-> 0]
Dead == {"SETTLED", "DEFAULTED"}

FacilityInit ==
  /\ status = "DRAFT" /\ owed = 0 /\ recallBy = 0 /\ restricted = {} /\ released = {}
  /\ collateral = [adapter |-> FirstAdapter, units |-> 0]
  /\ sub = NoSub
  /\ held = [a \in Adapters |-> 0] /\ arriving = held
  /\ now = 0 /\ epoch = 1 /\ authorised = TRUE
  /\ approved = [r \in Requests |-> NoDecision]

covers(units) == \E price \in Prices : owed <= price * units

\* An adapter takes n units now and the rest arrives later, or never.
commit(a, n) ==
  /\ held' = [held EXCEPT ![a] = @ + n]
  /\ arriving' = [arriving EXCEPT ![a] = Units - n]

giveBack(a) == held' = [held EXCEPT ![a] = 0] /\ UNCHANGED arriving

fund ==
  /\ status = "DRAFT" /\ status' = "PENDING_ACTIVATION"
  /\ UNCHANGED <<owed, collateral, sub, recallBy, restricted, released, chainVars, worldVars>>

withdrawFunding ==
  /\ status = "PENDING_ACTIVATION" /\ status' = "DRAFT"
  /\ UNCHANGED <<owed, collateral, sub, recallBy, restricted, released, chainVars, worldVars>>

commitInitialCollateral ==
  LET a == collateral.adapter
  IN  /\ status \in {"DRAFT", "PENDING_ACTIVATION"}
      /\ held[a] = 0 /\ arriving[a] = 0           \* bound: one commitment per adapter
      /\ \E n \in 0..Units : commit(a, n)
      /\ collateral' = [collateral EXCEPT !.units = held'[a]]
      /\ UNCHANGED <<status, owed, sub, recallBy, restricted, released, worldVars>>

activate ==
  /\ status = "PENDING_ACTIVATION" /\ "ACTIVATION" \notin restricted
  /\ MaturityAt > now /\ authorised
  /\ \E price \in Prices : Principal <= price * collateral.units
  /\ status' = "ACTIVE" /\ owed' = Principal
  /\ UNCHANGED <<collateral, sub, recallBy, restricted, released, chainVars, worldVars>>

poke ==
  LET unmet == \/ status = "RECALLING" /\ now >= recallBy
               \/ status \in {"ACTIVE", "MATURED"} /\ now >= MaturityAt + Grace
  IN  /\ status' = IF unmet /\ owed > 0 THEN "DEFAULTED"
                   ELSE IF status = "ACTIVE" /\ now >= MaturityAt THEN "MATURED" ELSE status
      /\ UNCHANGED <<owed, collateral, sub, recallBy, restricted, released, chainVars, worldVars>>

repay(amount) ==
  /\ status \in {"ACTIVE", "SUBSTITUTION_PENDING", "RECALLING", "MATURED"}
  /\ amount \in 1..owed /\ owed' = owed - amount
  /\ UNCHANGED <<status, collateral, sub, recallBy, restricted, released, chainVars, worldVars>>

\* The verifiers: one decision binds the request, its replacement and the epoch, and is
\* forgotten below once its epoch or its time is over.
Approve(r, a) ==
  /\ authorised
  /\ approved' = [approved EXCEPT ![r] = [adapter |-> a, expiry |-> now + DecisionLife]]
  /\ UNCHANGED <<facilityVars, chainVars, now, epoch, authorised>>

verifies(r, a) == authorised /\ approved[r].adapter = a /\ approved[r].expiry > now

\* Variant: the replacement may sit with the collateral's own adapter.
mayOpenAnywhere(r, a) ==
  /\ status = "ACTIVE" /\ "SUBSTITUTION" \notin restricted /\ sub.state = "NONE"
  /\ verifies(r, a)

mayOpen(r, a) ==
  /\ status = "ACTIVE" /\ "SUBSTITUTION" \notin restricted /\ sub.state = "NONE"
  /\ a # collateral.adapter
  /\ verifies(r, a)

opened(r, a) ==
  [state |-> "REQUESTED", id |-> r, adapter |-> a, epoch |-> epoch, expiry |-> approved[r].expiry]

requestSubstitution(r, a) ==
  /\ mayOpen(r, a)
  /\ sub' = opened(r, a) /\ status' = "SUBSTITUTION_PENDING"
  /\ UNCHANGED <<owed, collateral, recallBy, restricted, released, chainVars, worldVars>>

rejectSubstitution == sub' = NoSub /\ status' = "ACTIVE"

\* The adapter refuses, or takes some units at once.
pull(s) ==
  \/ rejectSubstitution /\ UNCHANGED chainVars
  \/ /\ arriving[s.adapter] = 0                   \* bound: one commitment on its way
     /\ \E n \in 0..Units : commit(s.adapter, n)
     /\ sub' = [s EXCEPT !.state = IF held'[s.adapter] >= Units THEN "REPLACEMENT_COMMITTED"
                                   ELSE "REPLACEMENT_COMMITTING"]
     /\ status' = "SUBSTITUTION_PENDING"

commitReplacement ==
  /\ sub.state = "REQUESTED" /\ "SUBSTITUTION" \notin restricted
  /\ pull(sub)
  /\ UNCHANGED <<owed, collateral, recallBy, restricted, released, worldVars>>

\* The adapter cannot tell, or says what it holds.
reconcileCommitment ==
  LET units == held[sub.adapter]
  IN  /\ sub.state \in {"REPLACEMENT_COMMITTING", "COMMITMENT_UNKNOWN"}
      /\ \/ sub' = [sub EXCEPT !.state = "COMMITMENT_UNKNOWN"] /\ UNCHANGED status
         \/ units >= Units /\ sub' = [sub EXCEPT !.state = "REPLACEMENT_COMMITTED"]
                           /\ UNCHANGED status
         \/ units = 0 /\ rejectSubstitution
      /\ UNCHANGED <<owed, collateral, recallBy, restricted, released, chainVars, worldVars>>

\* Variant: what custody holds is enough, reconciled or not.
releasableUnreconciled(s, pending, custody) ==
  /\ pending = "SUBSTITUTION_PENDING"
  /\ epoch = s.epoch /\ s.expiry > now /\ authorised
  /\ custody[s.adapter] >= Units /\ covers(custody[s.adapter])

assertReleasable(s, pending, custody) ==
  /\ pending = "SUBSTITUTION_PENDING" /\ s.state = "REPLACEMENT_COMMITTED"
  /\ epoch = s.epoch /\ s.expiry > now /\ authorised
  /\ custody[s.adapter] >= Units /\ covers(custody[s.adapter])

\* The replacement is adopted, the old units go back to the borrower.
releaseOldCollateral(s, custody) ==
  /\ collateral' = [adapter |-> s.adapter, units |-> custody[s.adapter]]
  /\ sub' = NoSub /\ status' = "ACTIVE" /\ released' = released \union {s.id}
  /\ held' = [custody EXCEPT ![collateral.adapter] = 0]

releaseOld(r) ==
  /\ sub.id = r /\ assertReleasable(sub, status, held)
  /\ releaseOldCollateral(sub, held)
  /\ UNCHANGED <<owed, recallBy, restricted, arriving, worldVars>>

\* One transaction; it stops after the commitment unless that is complete.
substituteAtomic(r, a) ==
  /\ mayOpen(r, a)
  /\ \/ /\ pull(opened(r, a)) /\ sub'.state # "REPLACEMENT_COMMITTED"
        /\ UNCHANGED <<released, collateral>>
     \/ /\ arriving[a] = 0
        /\ \E n \in 0..Units :
             LET s == [opened(r, a) EXCEPT !.state = "REPLACEMENT_COMMITTED"]
                 custody == [held EXCEPT ![a] = @ + n]
             IN  /\ assertReleasable(s, "SUBSTITUTION_PENDING", custody)
                 /\ releaseOldCollateral(s, custody)
                 /\ arriving' = [arriving EXCEPT ![a] = Units - n]
  /\ UNCHANGED <<owed, recallBy, restricted, worldVars>>

abortCommittedSubstitution ==
  /\ sub.state \in {"REPLACEMENT_COMMITTED", "COMMITMENT_UNKNOWN"}
  /\ giveBack(sub.adapter) /\ rejectSubstitution
  /\ UNCHANGED <<owed, collateral, recallBy, restricted, released, worldVars>>

cancelSubstitution ==
  /\ sub.state = "REQUESTED" /\ rejectSubstitution
  /\ UNCHANGED <<owed, collateral, recallBy, restricted, released, chainVars, worldVars>>

initiateRecall ==
  /\ status = "ACTIVE" /\ sub.state = "NONE" /\ authorised
  /\ status' = "RECALLING" /\ recallBy' = now + RecallGrace
  /\ UNCHANGED <<owed, collateral, sub, restricted, released, chainVars, worldVars>>

settle ==
  /\ status \notin Dead /\ sub.state = "NONE" /\ owed = 0 /\ authorised
  /\ status' = "SETTLED"
  /\ UNCHANGED <<owed, collateral, sub, recallBy, restricted, released, chainVars, worldVars>>

releaseCollateralAfterSettlement ==
  /\ status \in Dead /\ held[collateral.adapter] > 0
  /\ giveBack(collateral.adapter) /\ collateral' = [collateral EXCEPT !.units = 0]
  /\ UNCHANGED <<status, owed, sub, recallBy, restricted, released, worldVars>>

\* A guardian sets a restriction, governance lifts it.
setRestriction(which, on) ==
  /\ restricted' = IF on THEN restricted \union {which} ELSE restricted \ {which}
  /\ UNCHANGED <<status, owed, collateral, sub, recallBy, released, chainVars, worldVars>>

\* Time passes and interest, unless frozen, is owed.
Tick ==
  /\ now < MaxTime /\ now' = now + 1
  /\ \E interest \in 0..1 :
       /\ interest = 1 => owed \in 1..(MaxOwed - 1) /\ "INTEREST" \notin restricted
       /\ owed' = owed + interest
  /\ approved' = [r \in Requests |->
                   IF approved[r].expiry > now' THEN approved[r] ELSE NoDecision]
  /\ UNCHANGED <<status, collateral, sub, recallBy, restricted, released, chainVars, epoch,
                 authorised>>

\* Units on their way arrive, or the transfer is reversed.
Deliver(a) ==
  /\ arriving[a] > 0 /\ arriving' = [arriving EXCEPT ![a] = 0]
  /\ \E n \in {0, arriving[a]} : held' = [held EXCEPT ![a] = @ + n]
  /\ UNCHANGED <<facilityVars, worldVars>>

BumpEpoch ==
  /\ epoch < MaxEpoch /\ epoch' = epoch + 1
  /\ approved' = [r \in Requests |-> NoDecision]
  /\ UNCHANGED <<facilityVars, chainVars, now, authorised>>

\* Governance revokes the organisation's role, or configures it again.
SetAuthority ==
  /\ authorised' = ~authorised
  /\ UNCHANGED <<facilityVars, chainVars, now, epoch, approved>>

FacilityNext ==
  \/ fund \/ withdrawFunding \/ commitInitialCollateral \/ activate \/ poke
  \/ commitReplacement \/ reconcileCommitment \/ abortCommittedSubstitution
  \/ cancelSubstitution \/ initiateRecall \/ settle \/ releaseCollateralAfterSettlement
  \/ Tick \/ BumpEpoch \/ SetAuthority
  \/ \E amount \in 1..MaxOwed : repay(amount)
  \/ \E which \in Restrictable, on \in BOOLEAN :
       setRestriction(which, on)
  \/ \E a \in Adapters : Deliver(a)
  \/ \E r \in Requests : releaseOld(r)
  \/ \E r \in Requests, a \in Adapters :
       Approve(r, a) \/ requestSubstitution(r, a) \/ substituteAtomic(r, a)

FacilitySpec == FacilityInit /\ [][FacilityNext]_<<facilityVars, chainVars, worldVars>>

------------------------------------------------------------------------------

SubStates ==
  {"REQUESTED", "REPLACEMENT_COMMITTING", "COMMITMENT_UNKNOWN", "REPLACEMENT_COMMITTED"}

\* Custody counts whole units by adapter; a substitution names one of the requests and one of
\* the adapters, or is the empty one.
TypeOK ==
  /\ status \in {"DRAFT", "PENDING_ACTIVATION", "ACTIVE", "SUBSTITUTION_PENDING", "RECALLING",
                 "MATURED"} \union Dead
  /\ owed \in 0..MaxOwed /\ recallBy \in Nat /\ restricted \subseteq Restrictable
  /\ released \subseteq Requests
  /\ collateral \in [adapter : Adapters, units : Nat]
  /\ sub \in [state : SubStates, id : Requests, adapter : Adapters, epoch : Nat, expiry : Nat]
             \union {NoSub}
  /\ held \in [Adapters -> Nat] /\ arriving \in [Adapters -> 0..Units]
  /\ now \in Nat /\ epoch \in Nat /\ authorised \in BOOLEAN
  /\ approved \in [Requests -> [adapter : Adapters, expiry : Nat]]

\* From activation until the final release, the units the facility counts on are in the custody
\* of the adapter it names, whatever substitutions were tried, refused, aborted or late.
CollateralBehindDebt ==
  status \notin {"DRAFT", "PENDING_ACTIVATION"} /\ (status \notin Dead \/ collateral.units > 0) =>
    0 < collateral.units /\ collateral.units <= held[collateral.adapter]

Phases == INSTANCE SubstitutionPhases WITH
  RequestIds <- Requests, NoRequest <- NoId, releases <- released,
  phase <- IF status \in {"ACTIVE", "SUBSTITUTION_PENDING"} THEN status ELSE "OTHER",
  substitution <- [state |-> sub.state, id |-> sub.id]

\* The facility does what those who only read its substitution rely on: one at a time, and a
\* release only of the request whose replacement was committed.
ImplementsPhases == Phases!PhasesSpec

=============================================================================
