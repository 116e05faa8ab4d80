------------------------ MODULE InstitutionalProofs ------------------------
(***************************************************************************)
(* Institutional credit on both sides of its chain.  For every set of      *)
(* adapters and requests, every amount of collateral and every price: the  *)
(* units a facility counts on are in custody, and what its readers are     *)
(* promised of a substitution is kept.  Both rest on how status,           *)
(* substitution and custody hang together (Coherent).  For any requests,   *)
(* calls and sessions of the web application: however the calls on the     *)
(* substitution records interleave, a preparation never goes on from what  *)
(* another one wrote, and no view reports a release that did not happen    *)
(* (Sound).  The facility of the one half is a state machine apart from    *)
(* the phases of the other, which it implements.                           *)
(***************************************************************************)
EXTENDS InstitutionalFacility, Substitutions, TLAPS

facilityState == <<facilityVars, chainVars, worldVars>>

\* A substitution is open exactly while the status says so, and its replacement sits with
\* another adapter than the collateral.
OneSubstitution ==
  /\ status = "SUBSTITUTION_PENDING" <=> sub # NoSub
  /\ sub # NoSub => sub.adapter # collateral.adapter

\* The facility never counts more units than its adapter holds, and counts some from its
\* activation to its end.
CountedIsHeld ==
  /\ collateral.units <= held[collateral.adapter]
  /\ status \notin {"DRAFT", "PENDING_ACTIVATION"} \union Dead => 0 < collateral.units

Coherent == TypeOK /\ OneSubstitution /\ CountedIsHeld

-----------------------------------------------------------------------------
(* The invariant. *)

USE FacilityConstants DEF Dead, SubStates, NoSub, facilityVars, chainVars, worldVars

\* A facility starts with nothing committed.
LEMMA CoherentInit == FacilityInit => Coherent
BY DEF FacilityInit, NoDecision, Coherent, TypeOK, OneSubstitution, CountedIsHeld

\* A commitment adds to one adapter and leaves the others alone.
LEMMA CommitAdds ==
  ASSUME TypeOK, NEW a \in Adapters, NEW n \in 0..Units, commit(a, n)
  PROVE  /\ held' \in [Adapters -> Nat] /\ arriving' \in [Adapters -> 0..Units]
         /\ held'[a] = held[a] + n
         /\ \A b \in Adapters \ {a} : held'[b] = held[b]
<1>1. held \in [Adapters -> Nat] /\ arriving \in [Adapters -> 0..Units] /\ held[a] + n \in Nat
  BY DEF TypeOK
<1>2. Units - n \in 0..Units
  OBVIOUS
<1>. QED
  BY <1>1, <1>2 DEF commit

\* What an opened substitution is made of.
LEMMA OpenedType ==
  ASSUME TypeOK, NEW r \in Requests, NEW a \in Adapters
  PROVE  /\ opened(r, a) \in [state : SubStates, id : Requests, adapter : Adapters,
                              epoch : Nat, expiry : Nat]
         /\ opened(r, a).state = "REQUESTED" /\ opened(r, a).adapter = a /\ opened(r, a).id = r
BY DEF TypeOK, opened

\* The commitment to a replacement adapter that is not the collateral's.
LEMMA PullKeeps ==
  ASSUME Coherent,
         NEW s \in [state : SubStates, id : Requests, adapter : Adapters, epoch : Nat,
                    expiry : Nat],
         s.adapter # collateral.adapter,
         status \in {"ACTIVE", "SUBSTITUTION_PENDING"},
         pull(s),
         UNCHANGED <<owed, collateral, recallBy, restricted, released, worldVars>>
  PROVE  Coherent'
<1>1. TypeOK /\ OneSubstitution /\ CountedIsHeld
  BY DEF Coherent
<1>2. CASE rejectSubstitution /\ UNCHANGED chainVars
  BY <1>1, <1>2 DEF rejectSubstitution, Coherent, TypeOK, OneSubstitution, CountedIsHeld
<1>3. CASE ~(rejectSubstitution /\ UNCHANGED chainVars)
  <2>1. PICK n \in 0..Units : commit(s.adapter, n)
    BY <1>3 DEF pull
  <2>2. /\ status' = "SUBSTITUTION_PENDING"
        /\ sub' = [s EXCEPT !.state = IF held'[s.adapter] >= Units THEN "REPLACEMENT_COMMITTED"
                                      ELSE "REPLACEMENT_COMMITTING"]
    BY <1>3 DEF pull
  <2>3. /\ sub' \in [state : SubStates, id : Requests, adapter : Adapters, epoch : Nat,
                     expiry : Nat]
        /\ sub'.adapter = s.adapter /\ sub' # NoSub
    BY <2>2
  <2>4. TypeOK'
    BY <1>1, <2>1, <2>2, <2>3, CommitAdds DEF TypeOK
  <2>5. OneSubstitution'
    BY <2>2, <2>3 DEF OneSubstitution
  <2>6. held'[collateral.adapter] = held[collateral.adapter]
    BY <1>1, <2>1, CommitAdds DEF TypeOK
  <2>7. CountedIsHeld'
    BY <1>1, <2>2, <2>6 DEF CountedIsHeld, TypeOK
  <2>. QED
    BY <2>4, <2>5, <2>7 DEF Coherent
<1>. QED
  BY <1>2, <1>3

\* The replacement becomes the collateral and the old adapter is emptied.
LEMMA ReleaseKeeps ==
  ASSUME Coherent,
         NEW s \in [state : SubStates, id : Requests, adapter : Adapters, epoch : Nat,
                    expiry : Nat],
         s.adapter # collateral.adapter,
         NEW custody \in [Adapters -> Nat],
         custody[s.adapter] >= Units,
         releaseOldCollateral(s, custody),
         arriving' \in [Adapters -> 0..Units],
         UNCHANGED <<owed, recallBy, restricted, worldVars>>
  PROVE  Coherent'
<1>1. TypeOK
  BY DEF Coherent
<1>2. /\ collateral' = [adapter |-> s.adapter, units |-> custody[s.adapter]]
      /\ sub' = NoSub /\ status' = "ACTIVE" /\ released' = released \union {s.id}
      /\ held' = [custody EXCEPT ![collateral.adapter] = 0]
  BY DEF releaseOldCollateral
<1>3. held' \in [Adapters -> Nat] /\ held'[s.adapter] = custody[s.adapter]
  BY <1>1, <1>2 DEF TypeOK
<1>4. TypeOK'
  BY <1>1, <1>2, <1>3 DEF TypeOK
<1>5. OneSubstitution' /\ CountedIsHeld'
  BY <1>2, <1>3 DEF OneSubstitution, CountedIsHeld
<1>. QED
  BY <1>4, <1>5 DEF Coherent

\* The steps that leave substitution, collateral and custody alone.
Aside ==
  \/ fund \/ withdrawFunding \/ poke \/ Tick \/ BumpEpoch \/ SetAuthority
  \/ \E amount \in 1..MaxOwed : repay(amount)
  \/ \E which \in Restrictable, on \in BOOLEAN : setRestriction(which, on)
  \/ \E r \in Requests, a \in Adapters : Approve(r, a)

\* Steps that touch neither commitments nor the substitution.
LEMMA AsideKeeps ==
  ASSUME Coherent, Aside
  PROVE  Coherent'
<1>1. TypeOK /\ OneSubstitution /\ CountedIsHeld
  BY DEF Coherent
<1>2. UNCHANGED <<collateral, sub, held, arriving, released>>
  BY DEF Aside, fund, withdrawFunding, poke, Tick, BumpEpoch, SetAuthority, repay,
         setRestriction, Approve
<1>3. /\ status' = "SUBSTITUTION_PENDING" <=> status = "SUBSTITUTION_PENDING"
      /\ status' \notin {"DRAFT", "PENDING_ACTIVATION"} \union Dead =>
           status \notin {"DRAFT", "PENDING_ACTIVATION"} \union Dead
  BY <1>1 DEF Aside, fund, withdrawFunding, poke, Tick, BumpEpoch, SetAuthority, repay,
              setRestriction, Approve, TypeOK
<1>4. TypeOK'
  <2>1. CASE fund \/ withdrawFunding \/ poke
    BY <1>1, <2>1 DEF fund, withdrawFunding, poke, TypeOK
  <2>2. CASE Tick
    <3>1. owed' \in 0..MaxOwed /\ now' \in Nat
      BY <1>1, <2>2 DEF Tick, TypeOK
    <3>2. approved' \in [Requests -> [adapter : Adapters, expiry : Nat]]
      BY <1>1, <2>2 DEF Tick, TypeOK, NoDecision
    <3>. QED
      BY <1>1, <2>2, <3>1, <3>2 DEF Tick, TypeOK
  <2>3. CASE BumpEpoch
    BY <1>1, <2>3 DEF BumpEpoch, TypeOK, NoDecision
  <2>4. CASE SetAuthority
    BY <1>1, <2>4 DEF SetAuthority, TypeOK
  <2>5. CASE \E amount \in 1..MaxOwed : repay(amount)
    BY <1>1, <2>5 DEF repay, TypeOK
  <2>6. CASE \E which \in Restrictable, on \in BOOLEAN : setRestriction(which, on)
    BY <1>1, <2>6 DEF setRestriction, TypeOK
  <2>7. CASE \E r \in Requests, a \in Adapters : Approve(r, a)
    <3>1. PICK r \in Requests, a \in Adapters : Approve(r, a)
      BY <2>7
    <3>2. now + DecisionLife \in Nat
      BY <1>1 DEF TypeOK
    <3>3. approved' \in [Requests -> [adapter : Adapters, expiry : Nat]]
      BY <1>1, <3>1, <3>2 DEF Approve, TypeOK
    <3>. QED
      BY <1>1, <3>1, <3>3 DEF Approve, TypeOK
  <2>. QED
    BY <2>1, <2>2, <2>3, <2>4, <2>5, <2>6, <2>7 DEF Aside
<1>. QED
  BY <1>1, <1>2, <1>3, <1>4 DEF Coherent, OneSubstitution, CountedIsHeld

\* Every step of the facility keeps the invariant.
LEMMA CoherentNext ==
  ASSUME Coherent, [FacilityNext]_facilityState
  PROVE  Coherent'
<1>1. TypeOK /\ OneSubstitution /\ CountedIsHeld
  BY DEF Coherent
<1>2. CASE UNCHANGED facilityState
  BY <1>1, <1>2 DEF facilityState, Coherent, TypeOK, OneSubstitution, CountedIsHeld
<1>3. CASE Aside
  BY <1>3, AsideKeeps
<1>4. CASE commitInitialCollateral
  <2> DEFINE a == collateral.adapter
  <2>1. PICK n \in 0..Units : commit(a, n)
    BY <1>4 DEF commitInitialCollateral
  <2>2. a \in Adapters
    BY <1>1 DEF TypeOK
  <2>3. held' \in [Adapters -> Nat] /\ arriving' \in [Adapters -> 0..Units]
    BY <1>1, <2>1, <2>2, CommitAdds
  <2>4. collateral' \in [adapter : Adapters, units : Nat]
        /\ collateral'.adapter = a /\ collateral'.units = held'[a]
    BY <1>1, <1>4, <2>2, <2>3 DEF commitInitialCollateral, TypeOK
  <2>. QED
    BY <1>1, <1>4, <2>3, <2>4
       DEF commitInitialCollateral, Coherent, TypeOK, OneSubstitution, CountedIsHeld
<1>5. CASE activate
  <2>1. collateral.units # 0
    <3>1. PICK price \in Prices : Principal <= price * collateral.units
      BY <1>5 DEF activate
    <3>2. price \in Nat
      BY <3>1
    <3>3. collateral.units = 0 => price * collateral.units = 0
      BY <3>2
    <3>. QED
      BY <3>1, <3>3
  <2>2. Principal \in 0..MaxOwed
    OBVIOUS
  <2>. QED
    BY <1>1, <1>5, <2>1, <2>2
       DEF activate, Coherent, TypeOK, OneSubstitution, CountedIsHeld
<1>6. CASE commitReplacement
  <2>1. sub \in [state : SubStates, id : Requests, adapter : Adapters, epoch : Nat, expiry : Nat]
        /\ sub.adapter # collateral.adapter /\ status = "SUBSTITUTION_PENDING"
    BY <1>1, <1>6 DEF commitReplacement, TypeOK, OneSubstitution
  <2>. QED
    BY <1>6, <2>1, PullKeeps DEF commitReplacement
<1>7. CASE reconcileCommitment
  BY <1>1, <1>7
     DEF reconcileCommitment, rejectSubstitution, Coherent, TypeOK, OneSubstitution, CountedIsHeld
<1>8. CASE abortCommittedSubstitution
  <2>1. sub.adapter # collateral.adapter /\ sub.adapter \in Adapters
    BY <1>1, <1>8 DEF abortCommittedSubstitution, TypeOK, OneSubstitution
  <2>2. held' \in [Adapters -> Nat] /\ held'[collateral.adapter] = held[collateral.adapter]
    BY <1>1, <1>8, <2>1 DEF abortCommittedSubstitution, giveBack, TypeOK
  <2>. QED
    BY <1>1, <1>8, <2>2
       DEF abortCommittedSubstitution, giveBack, rejectSubstitution, Coherent, TypeOK,
           OneSubstitution, CountedIsHeld
<1>9. CASE cancelSubstitution
  BY <1>1, <1>9
     DEF cancelSubstitution, rejectSubstitution, Coherent, TypeOK, OneSubstitution, CountedIsHeld
<1>10. CASE initiateRecall \/ settle
  BY <1>1, <1>10 DEF initiateRecall, settle, Coherent, TypeOK, OneSubstitution, CountedIsHeld
<1>11. CASE releaseCollateralAfterSettlement
  BY <1>1, <1>11
     DEF releaseCollateralAfterSettlement, giveBack, Coherent, TypeOK, OneSubstitution,
         CountedIsHeld
<1>12. CASE \E a \in Adapters : Deliver(a)
  <2>1. PICK a \in Adapters : Deliver(a)
    BY <1>12
  <2>2. PICK n \in {0, arriving[a]} : held' = [held EXCEPT ![a] = @ + n]
    BY <2>1 DEF Deliver
  <2>3. n \in Nat
    BY <1>1, <2>2 DEF TypeOK
  <2>4. held' \in [Adapters -> Nat] /\ \A b \in Adapters : held'[b] >= held[b]
    BY <1>1, <2>2, <2>3 DEF TypeOK
  <2>5. arriving' \in [Adapters -> 0..Units]
    BY <1>1, <2>1 DEF Deliver, TypeOK
  <2>. QED
    BY <1>1, <2>1, <2>4, <2>5 DEF Deliver, Coherent, TypeOK, OneSubstitution, CountedIsHeld
<1>13. CASE \E r \in Requests : releaseOld(r)
  <2>1. PICK r \in Requests : releaseOld(r)
    BY <1>13
  <2>2. sub \in [state : SubStates, id : Requests, adapter : Adapters, epoch : Nat, expiry : Nat]
        /\ sub.adapter # collateral.adapter
    BY <1>1, <2>1 DEF releaseOld, TypeOK, OneSubstitution
  <2>3. held \in [Adapters -> Nat] /\ arriving' \in [Adapters -> 0..Units]
        /\ held[sub.adapter] >= Units
    BY <1>1, <2>1 DEF releaseOld, assertReleasable, TypeOK
  <2>. QED
    BY <2>1, <2>2, <2>3, ReleaseKeeps DEF releaseOld
<1>14. CASE \E r \in Requests, a \in Adapters : requestSubstitution(r, a)
  <2>1. PICK r \in Requests, a \in Adapters : requestSubstitution(r, a)
    BY <1>14
  <2>2. opened(r, a) # NoSub
    BY <1>1, OpenedType
  <2>. QED
    BY <1>1, <2>1, <2>2, OpenedType
       DEF requestSubstitution, mayOpen, Coherent, TypeOK, OneSubstitution, CountedIsHeld
<1>15. CASE \E r \in Requests, a \in Adapters : substituteAtomic(r, a)
  <2>1. PICK r \in Requests, a \in Adapters : substituteAtomic(r, a)
    BY <1>15
  <2>2. mayOpen(r, a) /\ a # collateral.adapter /\ status = "ACTIVE"
    BY <2>1 DEF substituteAtomic, mayOpen
  <2>3. CASE pull(opened(r, a)) /\ UNCHANGED <<released, collateral>>
    BY <1>1, <2>1, <2>2, <2>3, OpenedType, PullKeeps DEF substituteAtomic
  <2>4. ASSUME NEW n \in 0..Units,
               LET s == [opened(r, a) EXCEPT !.state = "REPLACEMENT_COMMITTED"]
                   custody == [held EXCEPT ![a] = @ + n]
               IN  /\ assertReleasable(s, "SUBSTITUTION_PENDING", custody)
                   /\ releaseOldCollateral(s, custody)
                   /\ arriving' = [arriving EXCEPT ![a] = Units - n]
        PROVE  Coherent'
    <3> DEFINE s == [opened(r, a) EXCEPT !.state = "REPLACEMENT_COMMITTED"]
               custody == [held EXCEPT ![a] = @ + n]
    <3>1. s \in [state : SubStates, id : Requests, adapter : Adapters, epoch : Nat, expiry : Nat]
          /\ s.adapter = a
      BY <1>1, OpenedType
    <3>2. custody \in [Adapters -> Nat] /\ arriving' \in [Adapters -> 0..Units]
      BY <1>1, <2>4 DEF TypeOK
    <3>3. custody[s.adapter] >= Units
      BY <2>4 DEF assertReleasable
    <3>4. releaseOldCollateral(s, custody)
      BY <2>4
    <3>5. UNCHANGED <<owed, recallBy, restricted, worldVars>>
      BY <2>1 DEF substituteAtomic
    <3> HIDE DEF s, custody
    <3>. QED
      BY <2>2, <3>1, <3>2, <3>3, <3>4, <3>5, ReleaseKeeps
  <2>. QED
    BY <2>1, <2>3, <2>4 DEF substituteAtomic
<1>. QED
  BY <1>2, <1>3, <1>4, <1>5, <1>6, <1>7, <1>8, <1>9, <1>10, <1>11, <1>12, <1>13, <1>14, <1>15
     DEF FacilityNext, Aside

\* Status, substitution and custody hang together in every reachable state
\* (InstitutionalFacility.sol, every entry point and the adapters' callbacks).
THEOREM FacilityCoherent == FacilitySpec => []Coherent
<1>1. FacilityInit => Coherent
  BY CoherentInit
<1>2. Coherent /\ [FacilityNext]_facilityState => Coherent'
  BY CoherentNext
<1>. QED
  BY <1>1, <1>2, PTL DEF FacilitySpec, facilityState

\* From activation until the final release the collateral the debt was given against is in
\* the custody of the adapter the facility names, for any adapters, amounts and prices.
THEOREM CollateralIsThere == FacilitySpec => []CollateralBehindDebt
<1>1. Coherent => CollateralBehindDebt
  BY DEF Coherent, TypeOK, CountedIsHeld, CollateralBehindDebt
<1>. QED
  BY <1>1, FacilityCoherent, PTL

-----------------------------------------------------------------------------
(* The refinement of SubstitutionPhases. *)

\* What a reader of the facility sees.
Phase == IF status \in {"ACTIVE", "SUBSTITUTION_PENDING"} THEN status ELSE "OTHER"
Open == [state |-> sub.state, id |-> sub.id]

USE DEF Phases!Idle, Phases!CommitStates

\* A substitution is pending exactly when there is one.
LEMMA OpenIsIdle ==
  ASSUME Coherent
  PROVE  /\ Open = Phases!Idle <=> sub = NoSub
         /\ Phase = "SUBSTITUTION_PENDING" <=> sub # NoSub
BY DEF Coherent, TypeOK, OneSubstitution, Open, Phase

\* A commitment ends the substitution or carries it on.
LEMMA PullAdvances ==
  ASSUME Coherent, commitReplacement
  PROVE  Phases!Abandoned \/ \E state \in Phases!CommitStates : Phases!Advance(state)
<1>1. sub # NoSub /\ sub.state = "REQUESTED" /\ status = "SUBSTITUTION_PENDING"
      /\ Open # Phases!Idle
  BY OpenIsIdle DEF commitReplacement, Coherent, OneSubstitution
<1>2. released' = released
  BY DEF commitReplacement
<1>3. CASE rejectSubstitution
  <2>1. Phases!Abandoned
    BY <1>1, <1>2, <1>3 DEF rejectSubstitution, Phases!Abandoned, Open
  <2>. QED
    BY <2>1
<1>4. CASE ~rejectSubstitution
  <2>1. PICK to \in {"REPLACEMENT_COMMITTED", "REPLACEMENT_COMMITTING"} :
          sub' = [sub EXCEPT !.state = to]
    BY <1>4 DEF commitReplacement, pull
  <2>2. status' = "SUBSTITUTION_PENDING"
    BY <1>4 DEF commitReplacement, pull
  <2>3. sub'.state = to /\ sub'.id = sub.id
    BY <1>1, <2>1 DEF Coherent, TypeOK
  <2>4. Phases!Advance(to)
    BY <1>1, <1>2, <2>2, <2>3 DEF Phases!Advance
  <2>. QED
    BY <2>1, <2>4
<1>. QED
  BY <1>3, <1>4

\* Opening a substitution and trying its commitment at once opens it, changes nothing or is
\* the whole of it, release included.
LEMMA AtomicIsOneStep ==
  ASSUME Coherent, NEW r \in Requests, NEW a \in Adapters, substituteAtomic(r, a)
  PROVE  \/ \E state \in Phases!CommitStates : Phases!OpenRequest(r, state)
         \/ Phases!Release(r)
         \/ UNCHANGED Phases!phaseVars
<1>1. status = "ACTIVE" /\ sub = NoSub
  BY DEF substituteAtomic, mayOpen, Coherent, OneSubstitution
<1>2. opened(r, a).id = r
  BY DEF opened
<1>3. CASE rejectSubstitution /\ released' = released
  BY <1>1, <1>3 DEF rejectSubstitution, Phases!phaseVars
<1>4. CASE pull(opened(r, a)) /\ sub'.state # "REPLACEMENT_COMMITTED" /\ released' = released
           /\ ~rejectSubstitution
  <2>1. PICK to \in {"REPLACEMENT_COMMITTED", "REPLACEMENT_COMMITTING"} :
          sub' = [opened(r, a) EXCEPT !.state = to]
    BY <1>4 DEF pull
  <2>2. status' = "SUBSTITUTION_PENDING"
    BY <1>4 DEF pull
  <2>3. sub'.state = to /\ sub'.id = r
    BY <1>2, <2>1 DEF opened
  <2>4. Phases!OpenRequest(r, to)
    BY <1>1, <1>4, <2>1, <2>2, <2>3 DEF Phases!OpenRequest
  <2>. QED
    BY <2>1, <2>4
<1>5. ASSUME NEW n \in 0..Units,
             releaseOldCollateral([opened(r, a) EXCEPT !.state = "REPLACEMENT_COMMITTED"],
                                  [held EXCEPT ![a] = @ + n])
      PROVE  Phases!Release(r)
  <2>1. [opened(r, a) EXCEPT !.state = "REPLACEMENT_COMMITTED"].id = r
    BY DEF opened
  <2>2. sub' = NoSub /\ status' = "ACTIVE" /\ released' = released \union {r}
    BY <1>5, <2>1 DEF releaseOldCollateral
  <2>. QED
    BY <1>1, <2>2 DEF Phases!Release
<1>. QED
  BY <1>3, <1>4, <1>5 DEF substituteAtomic

\* Every step of the facility is a step of the phases or leaves them alone.
LEMMA StepIsPhase ==
  ASSUME Coherent, Coherent', [FacilityNext]_facilityState
  PROVE  [Phases!PhasesNext]_(Phases!phaseVars)
<1> USE DEF Phases!PhasesNext, Phases!PhasesMoves
<1>1. CASE sub = NoSub /\ sub' = NoSub /\ released' = released
  <2>1. Open = Phases!Idle /\ Phase \in {"ACTIVE", "OTHER"} /\ Phase' \in {"ACTIVE", "OTHER"}
    BY <1>1, OpenIsIdle DEF Phase, Coherent, OneSubstitution
  <2>2. Phases!Turn
    BY <1>1, <2>1 DEF Phases!Turn, Open, Phase
  <2>. QED
    BY <2>2
<1>2. CASE Aside \/ UNCHANGED facilityState
  <2>1. sub' = sub /\ released' = released
    BY <1>2 DEF Aside, facilityState, fund, withdrawFunding, poke, Tick, BumpEpoch, SetAuthority,
                repay, setRestriction, Approve
  <2>2. CASE sub = NoSub
    BY <1>1, <2>1, <2>2
  <2>3. CASE sub # NoSub
    <3>1. status = "SUBSTITUTION_PENDING" /\ status' = "SUBSTITUTION_PENDING"
      BY <2>1, <2>3 DEF Coherent, OneSubstitution
    <3>. QED
      BY <2>1, <3>1 DEF Phases!phaseVars
  <2>. QED
    BY <2>2, <2>3
<1>3. CASE \/ commitInitialCollateral \/ activate \/ initiateRecall \/ settle
           \/ releaseCollateralAfterSettlement \/ \E a \in Adapters : Deliver(a)
  <2>1. sub' = sub /\ released' = released
    BY <1>3 DEF commitInitialCollateral, activate, initiateRecall, settle,
                releaseCollateralAfterSettlement, Deliver
  <2>2. CASE sub = NoSub
    BY <1>1, <2>1, <2>2
  <2>3. CASE sub # NoSub
    <3>1. status = "SUBSTITUTION_PENDING" /\ status' = "SUBSTITUTION_PENDING"
      BY <2>1, <2>3 DEF Coherent, OneSubstitution
    <3>. QED
      BY <2>1, <3>1 DEF Phases!phaseVars
  <2>. QED
    BY <2>2, <2>3
<1>4. CASE commitReplacement
  BY <1>4, PullAdvances
<1>5. CASE reconcileCommitment
  <2>1. sub # NoSub /\ status = "SUBSTITUTION_PENDING" /\ Open # Phases!Idle
    BY <1>5, OpenIsIdle DEF reconcileCommitment, Coherent, OneSubstitution
  <2>2. CASE rejectSubstitution
    <3>1. Phases!Abandoned
      BY <1>5, <2>1, <2>2 DEF reconcileCommitment, rejectSubstitution, Phases!Abandoned, Open
    <3>. QED
      BY <3>1
  <2>3. CASE ~rejectSubstitution
    <3>1. PICK to \in {"COMMITMENT_UNKNOWN", "REPLACEMENT_COMMITTED"} :
            sub' = [sub EXCEPT !.state = to]
      BY <1>5, <2>3 DEF reconcileCommitment
    <3>2. sub'.state = to /\ sub'.id = sub.id /\ status' = status
      BY <1>5, <2>1, <2>3, <3>1 DEF reconcileCommitment, Coherent, TypeOK
    <3>3. Phases!Advance(to)
      BY <1>5, <2>1, <3>1, <3>2 DEF reconcileCommitment, Phases!Advance
    <3>. QED
      BY <3>1, <3>3
  <2>. QED
    BY <2>2, <2>3
<1>6. CASE abortCommittedSubstitution \/ cancelSubstitution
  <2>1. Open # Phases!Idle
    BY <1>6, OpenIsIdle DEF abortCommittedSubstitution, cancelSubstitution
  <2>2. Phases!Abandoned
    BY <1>6, <2>1 DEF abortCommittedSubstitution, cancelSubstitution, rejectSubstitution,
                      Phases!Abandoned, Open
  <2>. QED
    BY <2>2
<1>7. ASSUME NEW r \in Requests, releaseOld(r)
      PROVE  Phases!Release(r)
  <2>1. sub.state = "REPLACEMENT_COMMITTED" /\ sub.id = r
    BY <1>7 DEF releaseOld, assertReleasable
  <2>2. sub' = NoSub /\ status' = "ACTIVE" /\ released' = released \union {r}
    BY <1>7, <2>1 DEF releaseOld, releaseOldCollateral
  <2>. QED
    BY <2>1, <2>2 DEF Phases!Release
<1>8. ASSUME NEW r \in Requests, NEW a \in Adapters, requestSubstitution(r, a)
      PROVE  Phases!OpenRequest(r, "REQUESTED")
  <2>1. sub' = opened(r, a) /\ sub'.id = r /\ sub'.state = "REQUESTED"
    BY <1>8 DEF requestSubstitution, opened
  <2>. QED
    BY <1>8, <2>1 DEF requestSubstitution, mayOpen, Phases!OpenRequest
<1>9. ASSUME NEW r \in Requests, NEW a \in Adapters, substituteAtomic(r, a)
      PROVE  [Phases!PhasesNext]_(Phases!phaseVars)
  BY <1>9, AtomicIsOneStep
<1>. QED
  BY <1>2, <1>3, <1>4, <1>5, <1>6, <1>7, <1>8, <1>9 DEF FacilityNext, Aside

\* The facility keeps what its readers rely on: one substitution at a time, bound to one
\* request, released only once its replacement was committed (InstitutionalFacility.sol
\* requestSubstitution to abortCommittedSubstitution).
THEOREM FacilityImplementsPhases == FacilitySpec => ImplementsPhases
<1>1. FacilityInit => Phases!PhasesInit
  BY DEF FacilityInit, Phases!PhasesInit
<1>2. Coherent /\ Coherent' /\ [FacilityNext]_facilityState => [Phases!PhasesNext]_(Phases!phaseVars)
  BY StepIsPhase
<1>. QED
  BY <1>1, <1>2, FacilityCoherent, PTL DEF FacilitySpec, facilityState, ImplementsPhases, Phases!PhasesSpec

-----------------------------------------------------------------------------
(* The application's records, beside a facility of which they see the phase *)
(* and the releases alone.                                                  *)

HIDE FacilityConstants DEF Dead, SubStates, NoSub, facilityVars, chainVars, worldVars

\* The steps of a call; the states of a row, with what a facility or a reader reports; its events.
Steps ==
  {"IDLE", "RESOLVE", "READ_AUTHORITY", "READ_READINESS", "STOP", "AUTHORITY_VALID", "PREPARE",
   "RECONCILED", "VIEW", "VIEWED"}
States ==
  {"NONE", "CREATED", "AUTHORITY_RESOLVING", "AUTHORITY_VALID", "AUTHORITY_REQUIRED",
   "AUTHORITY_REVOKED", "AUTHORITY_UNAVAILABLE", "POLICY_UNAVAILABLE", "ORG_APPROVAL_PENDING",
   "ORG_APPROVED", "COMPLETED", "CANCELLED"} \cup CommitStates
Outcomes ==
  States \cup {"PREPARATION_READY", "OLD_RELEASED", "EXTERNAL_ATTEMPT_DETECTED"}
Events == States \cup {"OPERATION_CREATED", "AUTHORITY_RESOLVING_STARTED", "RECONCILED"}

Versioned == [state : States, version : Nat, event : Events]
Held == [at : Steps, for : WebRequests \cup {NoRequest}, version : Nat, saw : Outcomes]

\* A substitution is open under its request, or there is none and its id reads as zero.
Bound == substitution.state \in CommitStates \/ substitution = Idle

Types ==
  /\ op \in [WebRequests -> Versioned]
  /\ call \in [Calls -> Held]
  /\ \A c \in Calls : call[c] # NoCall => call[c].for \in WebRequests
  /\ Bound

\* The steps of a preparation between its own first event and its second.
Checking == {"READ_AUTHORITY", "READ_READINESS", "AUTHORITY_VALID"}

\* What a call found or wrote is what the row still says, unless the row has a later version.
HoldsOf(kept, rows) ==
  kept.for \in WebRequests =>
    LET row == rows[kept.for] IN
    /\ kept.at \in Checking \cup {"PREPARE"} => kept.version <= row.version
    /\ kept.at \in Checking /\ kept.version = row.version => row.event = "AUTHORITY_RESOLVING_STARTED"
    /\ kept.at = "PREPARE" /\ kept.version = row.version => row.event = "AUTHORITY_VALID"

Holds(kept) == HoldsOf(kept, op)

\* What a call is about to write or show.
Carries(kept) ==
  /\ kept.at = "STOP" => kept.saw \in States \ {"COMPLETED", "AUTHORITY_VALID", "ORG_APPROVAL_PENDING"}
  /\ kept.at = "RECONCILED" => kept.saw \in States \ {"COMPLETED"}
  /\ kept.at = "VIEW" /\ kept.saw = "COMPLETED" => kept.for \in releases
  /\ kept.at = "VIEWED" /\ kept.saw = "OLD_RELEASED" /\ kept.for # NoRequest =>
       kept.for \in releases

CompletedIsReleased == \A r \in WebRequests : op[r].state = "COMPLETED" => r \in releases

Sound ==
  /\ Types
  /\ CompletedIsReleased
  /\ \A c \in Calls : Holds(call[c]) /\ Carries(call[c])

-----------------------------------------------------------------------------
(* Writing a row, or none. *)

\* A row is written with its next version, and says completed only of a release.
Follows(row, r) ==
  \/ row = op[r]
  \/ row.version = op[r].version + 1 /\ (row.state = "COMPLETED" => r \in releases)

\* Other calls are not disturbed: what they hold is older than the row that was written.
LEMMA OthersHold ==
  ASSUME Sound, NEW r \in WebRequests, NEW row \in Versioned, Follows(row, r),
         op' = [op EXCEPT ![r] = row], UNCHANGED phaseVars
  PROVE  /\ op' \in [WebRequests -> Versioned] /\ op'[r] = row /\ CompletedIsReleased'
         /\ \A x \in WebRequests : x # r => op'[x] = op[x]
         /\ \A c \in Calls : Holds(call[c]) => HoldsOf(call[c], op')
<1>1. op \in [WebRequests -> Versioned] /\ call \in [Calls -> Held]
  BY DEF Sound, Types
<1>2. op' \in [WebRequests -> Versioned] /\ op'[r] = row /\ \A x \in WebRequests : x # r => op'[x] = op[x]
  BY <1>1
<1>3. CompletedIsReleased'
  BY <1>2 DEF Sound, CompletedIsReleased, Follows, phaseVars
<1>4. op[r].version \in Nat /\ row.version \in Nat
  BY <1>1 DEF Versioned
<1>5. ASSUME NEW c \in Calls, Holds(call[c]), call[c].for \in WebRequests
      PROVE  HoldsOf(call[c], op')
  <2>1. call[c].version \in Nat
    BY <1>1 DEF Held
  <2>2. CASE op'[call[c].for] = op[call[c].for]
    BY <1>5, <2>2 DEF Holds, HoldsOf
  <2>3. CASE call[c].for = r /\ row.version = op[r].version + 1
    BY <1>2, <1>4, <1>5, <2>1, <2>3 DEF Holds, HoldsOf, Checking
  <2>. QED
    BY <1>2, <2>2, <2>3 DEF Follows
<1>. QED
  BY <1>2, <1>3, <1>5 DEF HoldsOf

\* A call that goes on, having written a row or none.
LEMMA CallWrites ==
  ASSUME Sound, NEW r \in WebRequests, NEW row \in Versioned, Follows(row, r),
         op' = [op EXCEPT ![r] = row], UNCHANGED phaseVars,
         NEW c \in Calls, NEW kept \in Held, call' = [call EXCEPT ![c] = kept],
         kept # NoCall => kept.for \in WebRequests, Holds(kept)', Carries(kept)
  PROVE  Sound'
<1>1. call \in [Calls -> Held]
  BY DEF Sound, Types
<1>2. call' \in [Calls -> Held] /\ call'[c] = kept /\ \A d \in Calls : d # c => call'[d] = call[d]
  BY <1>1
<1>3. Types'
  BY <1>2, OthersHold DEF Sound, Types, phaseVars, Bound
<1>4. CompletedIsReleased'
  BY OthersHold
<1>5. ASSUME NEW d \in Calls
      PROVE  (Holds(call[d]) /\ Carries(call[d]))'
  <2>1. CASE d = c
    BY <1>2, <2>1 DEF Holds, Carries, phaseVars
  <2>2. CASE d # c
    <3>1. Holds(call[d]) /\ Carries(call[d])
      BY DEF Sound
    <3>2. call'[d] = call[d] /\ releases' = releases
      BY <1>2, <2>2 DEF phaseVars
    <3>3. Carries(call[d])'
      BY <3>1, <3>2 DEF Carries
    <3>4. Holds(call[d])'
      BY <3>1, <3>2, OthersHold DEF Holds
    <3>. QED
      BY <3>3, <3>4
  <2>. QED
    BY <2>1, <2>2
<1>. QED
  BY <1>3, <1>4, <1>5 DEF Sound

\* What a step may write of a row, by the event it writes over.
FitsRow(r, row) ==
  row # op[r] => /\ row.event = "AUTHORITY_VALID" => op[r].event = "AUTHORITY_RESOLVING_STARTED"
                 /\ row.event = "ORG_APPROVAL_PENDING" => op[r].event = "AUTHORITY_VALID"

Fits == \A r \in WebRequests : FitsRow(r, op'[r])

\* A step on one operation fits if its row does.
LEMMA FitsOne ==
  ASSUME Sound, NEW r \in WebRequests, NEW row, op' = [op EXCEPT ![r] = row], FitsRow(r, row)
  PROVE  Fits
BY DEF Fits, FitsRow, Sound, Types

\* A call that only reads.
LEMMA CallReads ==
  ASSUME Sound, op' = op, UNCHANGED phaseVars,
         NEW c \in Calls, NEW kept \in Held, call' = [call EXCEPT ![c] = kept],
         kept.for \in WebRequests, Holds(kept), Carries(kept)
  PROVE  Sound' /\ Fits
<1> DEFINE r == kept.for
           row == op[kept.for]
<1>1. row \in Versioned /\ Follows(row, r) /\ op' = [op EXCEPT ![r] = row] /\ FitsRow(r, row)
  BY DEF Sound, Types, Follows, FitsRow
<1>2. Holds(kept)'
  BY DEF Holds
<1> HIDE DEF row, r
<1>3. r \in WebRequests
  BY DEF r
<1>4. Sound'
  BY <1>1, <1>2, <1>3, CallWrites
<1>5. Fits
  BY <1>1, <1>3, FitsOne
<1>. QED
  BY <1>4, <1>5

\* A call that ends, whatever it held.
LEMMA CallEnds ==
  ASSUME Sound, op' = op, UNCHANGED phaseVars, NEW c \in Calls, call[c] # NoCall, Answer(c)
  PROVE  Sound' /\ Fits
<1>1. PICK r \in WebRequests : r = call[c].for
  BY DEF Sound, Types
<1>2. PICK row \in Versioned : row = op[r]
  BY DEF Sound, Types
<1>3. Follows(row, r) /\ op' = [op EXCEPT ![r] = row] /\ FitsRow(r, row)
  BY <1>2 DEF Sound, Types, Follows, FitsRow
<1>4. NoCall \in Held
  BY DEF NoCall, Held, Steps, States, Outcomes
<1>5. Holds(NoCall)' /\ Carries(NoCall)
  BY DEF NoCall, Holds, HoldsOf, Carries, Checking
<1>. QED
  BY <1>3, <1>4, <1>5, CallWrites, FitsOne DEF Answer

-----------------------------------------------------------------------------
(* The steps. *)

\* Where a call goes on.
LEMMA GoHeld ==
  ASSUME NEW at \in Steps, NEW r \in WebRequests, NEW version \in Nat, NEW saw \in Outcomes
  PROVE  [at |-> at, for |-> r, version |-> version, saw |-> saw] \in Held
BY DEF Held

\* transition_substitution_operation: the row at the version the call holds, or nothing.
LEMMA TransitionKeeps ==
  ASSUME Sound, UNCHANGED phaseVars, NEW c \in Calls, call[c] # NoCall,
         NEW state \in States, state # "COMPLETED", NEW event \in Events,
         NEW next \in {"IDLE", "READ_AUTHORITY", "PREPARE"},
         transition(c, state, event, next),
         event = "AUTHORITY_VALID" => call[c].at \in Checking,
         event = "ORG_APPROVAL_PENDING" => call[c].at = "PREPARE",
         next = "READ_AUTHORITY" => event = "AUTHORITY_RESOLVING_STARTED",
         next = "PREPARE" => event = "AUTHORITY_VALID"
  PROVE  Sound' /\ Fits
<1>1. PICK r \in WebRequests : r = call[c].for
  BY DEF Sound, Types
<1>2. CASE applicable(r, call[c].version)
  <2>1. op[r].version = call[c].version /\ op[r].version \in Nat /\ op[r] \in Versioned
    BY <1>2 DEF applicable, Sound, Types, Versioned
  <2>8. PICK v \in Nat : v = op[r].version + 1
    BY <2>1
  <2>2. PICK row \in Versioned : row = [state |-> state, version |-> v, event |-> event]
    BY DEF Versioned
  <2>3. op' = [op EXCEPT ![r] = row]
    BY <1>1, <1>2, <2>2, <2>8 DEF transition
  <2>4. Follows(row, r)
    BY <2>2, <2>8 DEF Follows
  <2>5. FitsRow(r, row)
    <3>1. Holds(call[c])
      BY DEF Sound
    <3>2. /\ call[c].at \in Checking => op[r].event = "AUTHORITY_RESOLVING_STARTED"
          /\ call[c].at = "PREPARE" => op[r].event = "AUTHORITY_VALID"
      BY <1>1, <2>1, <3>1 DEF Holds, HoldsOf
    <3>. QED
      BY <2>2, <3>2 DEF FitsRow
  <2>6. CASE next = "IDLE"
    <3>1. NoCall \in Held
      BY DEF NoCall, Held, Steps, States, Outcomes
    <3>2. Holds(NoCall)' /\ Carries(NoCall)
      BY DEF NoCall, Holds, HoldsOf, Carries, Checking
    <3>3. call' = [call EXCEPT ![c] = NoCall]
      BY <1>1, <1>2, <2>6 DEF transition, Answer
    <3>. QED
      BY <2>3, <2>4, <2>5, <3>1, <3>2, <3>3, CallWrites, FitsOne
  <2>7. CASE next # "IDLE"
    <3>1. PICK kept \in Held :
            kept = [at |-> next, for |-> r, version |-> v, saw |-> "NONE"]
      BY GoHeld DEF Steps, Outcomes, States
    <3>2. call' = [call EXCEPT ![c] = kept]
      BY <1>1, <1>2, <2>7, <2>8, <3>1 DEF transition, Go
    <3>3. op'[r] = row
      BY <2>3 DEF Sound, Types
    <3>4. Holds(kept)'
      BY <2>1, <2>2, <2>7, <3>1, <3>3 DEF Holds, HoldsOf, Checking
    <3>5. Carries(kept)
      BY <2>7, <3>1 DEF Carries
    <3>. QED
      BY <1>1, <2>3, <2>4, <2>5, <3>1, <3>2, <3>4, <3>5, CallWrites, FitsOne
  <2>. QED
    BY <2>6, <2>7
<1>3. CASE ~applicable(r, call[c].version)
  BY <1>1, <1>3, CallEnds DEF transition
<1>. QED
  BY <1>2, <1>3

\* A call that holds its row's version and reads, going to another step.
LEMMA GoKeeps ==
  ASSUME Sound, op' = op, UNCHANGED phaseVars, NEW c \in Calls, NEW r \in WebRequests,
         NEW at \in Steps \ {"PREPARE"}, NEW version \in Nat, NEW saw \in Outcomes,
         Go(c, at, r, version, saw),
         at \in Checking => call[c].at \in Checking /\ version = call[c].version /\ r = call[c].for,
         Carries([at |-> at, for |-> r, version |-> version, saw |-> saw])
  PROVE  Sound' /\ Fits
<1> DEFINE kept == [at |-> at, for |-> r, version |-> version, saw |-> saw]
<1>1. kept \in Held /\ kept.for = r /\ kept.for \in WebRequests /\ kept.at = at /\ kept.version = version
  BY GoHeld
<1>2. Holds(call[c])
  BY DEF Sound
<1>3. call' = [call EXCEPT ![c] = kept]
  BY DEF Go
<1> HIDE DEF kept
<1>4. Holds(kept)
  BY <1>1, <1>2 DEF Holds, HoldsOf
<1>. QED
  BY <1>1, <1>3, <1>4, CallReads DEF kept

\* A call that starts creates its row or reads it.
LEMMA StartKeeps ==
  ASSUME Sound, UNCHANGED phaseVars, NEW c \in Calls, NEW r \in WebRequests,
         Create(c, r) \/ Refresh(c, r) \/ Reconcile(c, r) \/ ReadOperation(c, r)
  PROVE  Sound' /\ Fits
<1>1. op[r] \in Versioned /\ op[r].version \in Nat /\ op[r].state \in States
  BY DEF Sound, Types, Versioned
<1>2. CASE Create(c, r)
  <2>1. PICK row \in Versioned :
          row = IF op[r] = NoOp THEN [state |-> "CREATED", version |-> 1, event |-> "OPERATION_CREATED"]
                ELSE op[r]
    BY <1>1 DEF Versioned, States, Events
  <2>2. op' = [op EXCEPT ![r] = row] /\ op'[r] = row
    BY <1>2, <2>1 DEF Create, Sound, Types
  <2>3. Follows(row, r) /\ FitsRow(r, row) /\ row.version \in Nat
    BY <1>1, <2>1 DEF Follows, FitsRow, NoOp
  <2>4. CASE row.state = "CREATED"
    <3>1. PICK kept \in Held : kept = [at |-> "RESOLVE", for |-> r, version |-> row.version, saw |-> "NONE"]
      BY <2>3, GoHeld DEF Steps, Outcomes, States
    <3>2. call' = [call EXCEPT ![c] = kept]
      BY <1>2, <2>2, <2>4, <3>1 DEF Create, Go
    <3>3. Holds(kept)' /\ Carries(kept)
      BY <3>1 DEF Holds, HoldsOf, Checking, Carries
    <3>. QED
      BY <2>2, <2>3, <3>1, <3>2, <3>3, CallWrites, FitsOne
  <2>5. CASE row.state # "CREATED"
    <3>1. call' = call /\ row = op[r] /\ op' = op
      BY <1>2, <2>1, <2>2, <2>5 DEF Create
    <3>. QED
      BY <3>1 DEF Sound, Types, CompletedIsReleased, Holds, HoldsOf, Carries, phaseVars, Fits, FitsRow, Bound
  <2>. QED
    BY <2>4, <2>5
<1>3. CASE Refresh(c, r)
  <2>1. "RESOLVE" \in Steps \ {"PREPARE"} /\ "RESOLVE" \notin Checking /\ "NONE" \in Outcomes
    BY DEF Steps, Checking, Outcomes, States
  <2>2. Carries([at |-> "RESOLVE", for |-> r, version |-> op[r].version, saw |-> "NONE"])
    BY DEF Carries
  <2>. QED
    BY <1>1, <1>3, <2>1, <2>2, GoKeeps DEF Refresh
<1>4. CASE Reconcile(c, r)
  <2>1. PICK outcome \in {"UNAVAILABLE", mapReconciliationOutcome(r, FALSE)} :
          Go(c, "RECONCILED", r, op[r].version, reconciledState(r, outcome))
    BY <1>4 DEF Reconcile
  <2>2. PICK state \in States \ {"COMPLETED"} : state = reconciledState(r, outcome)
    BY <1>1, <1>4 DEF Reconcile, Active, TerminalOps, reconciledState, States, CommitStates
  <2>3. "RECONCILED" \in Steps \ {"PREPARE"} /\ "RECONCILED" \notin Checking /\ state \in Outcomes
    BY <2>2 DEF Steps, Checking, Outcomes
  <2>4. Carries([at |-> "RECONCILED", for |-> r, version |-> op[r].version, saw |-> state])
    BY <2>2 DEF Carries
  <2>5. op' = op
    BY <1>4 DEF Reconcile
  <2>. QED
    BY <1>1, <2>1, <2>2, <2>3, <2>4, <2>5, GoKeeps
<1>5. CASE ReadOperation(c, r)
  <2>1. PICK saw \in {"COMPLETED", "NONE"} : /\ saw = IF op[r].state = "COMPLETED" THEN "COMPLETED" ELSE "NONE"
                                             /\ Go(c, "VIEW", r, 0, saw) /\ op' = op
    BY <1>5 DEF ReadOperation
  <2>2. "VIEW" \in Steps \ {"PREPARE"} /\ "VIEW" \notin Checking /\ saw \in Outcomes
    BY <2>1 DEF Steps, Checking, Outcomes, States
  <2>3. saw = "COMPLETED" => r \in releases
    BY <2>1 DEF Sound, CompletedIsReleased
  <2>4. Carries([at |-> "VIEW", for |-> r, version |-> 0, saw |-> saw])
    BY <2>3 DEF Carries
  <2>. QED
    BY <2>1, <2>2, <2>4, GoKeeps
<1>. QED
  BY <1>2, <1>3, <1>4, <1>5

\* A call in flight: it holds a version, an operation and what it saw.
LEMMA InFlight ==
  ASSUME Sound, NEW c \in Calls, call[c].at # "IDLE"
  PROVE  /\ call[c] # NoCall /\ call[c].for \in WebRequests /\ call[c].version \in Nat
         /\ call[c].at \in Steps /\ Holds(call[c]) /\ Carries(call[c]) /\ call[c].saw \in Outcomes
BY DEF Sound, Types, NoCall, Held

\* What a call writes follows from what it read.
LEMMA ProceedKeeps ==
  ASSUME Sound, UNCHANGED phaseVars, NEW c \in Calls,
         \/ StartResolving(c) \/ readCurrentEnsAuthority(c) \/ readSubstitutionReadiness(c)
         \/ Stop(c) \/ RecordAuthority(c) \/ PrepareOrgApproval(c) \/ RecordReconciliation(c)
         \/ View(c) \/ Abandon(c)
  PROVE  Sound' /\ Fits
<1> DEFINE r == call[c].for
           version == call[c].version
<1>1. CASE StartResolving(c)
  BY <1>1, InFlight, TransitionKeeps DEF StartResolving, States, Events
<1>2. CASE readCurrentEnsAuthority(c)
  <2>1. /\ call[c].at = "READ_AUTHORITY" /\ call[c].at \in Checking /\ op' = op
        /\ r \in WebRequests /\ version \in Nat
    BY <1>2, InFlight DEF readCurrentEnsAuthority, Saw, Checking
  <2>2. CASE Go(c, "READ_READINESS", r, version, "AUTHORITY_VALID")
    <3>1. "READ_READINESS" \in Steps \ {"PREPARE"} /\ "AUTHORITY_VALID" \in Outcomes
      BY DEF Steps, Outcomes, States
    <3>2. Carries([at |-> "READ_READINESS", for |-> r, version |-> version, saw |-> "AUTHORITY_VALID"])
      BY DEF Carries
    <3>. QED
      BY <2>1, <2>2, <3>1, <3>2, GoKeeps
  <2>3. CASE \E outcome \in {"AUTHORITY_REQUIRED", "AUTHORITY_REVOKED", "AUTHORITY_UNAVAILABLE"} :
               Go(c, "STOP", r, version, outcome)
    <3>1. PICK outcome \in {"AUTHORITY_REQUIRED", "AUTHORITY_REVOKED", "AUTHORITY_UNAVAILABLE"} :
            Go(c, "STOP", r, version, outcome)
      BY <2>3
    <3>2. "STOP" \in Steps \ {"PREPARE"} /\ outcome \in Outcomes /\ "STOP" \notin Checking
      BY DEF Steps, Outcomes, States, Checking
    <3>3. Carries([at |-> "STOP", for |-> r, version |-> version, saw |-> outcome])
      BY DEF Carries, States
    <3>. QED
      BY <2>1, <3>1, <3>2, <3>3, GoKeeps
  <2>. QED
    BY <1>2, <2>2, <2>3 DEF readCurrentEnsAuthority, Saw
<1>3. CASE readSubstitutionReadiness(c)
  <2>1. /\ call[c].at = "READ_READINESS" /\ call[c].at \in Checking /\ op' = op
        /\ r \in WebRequests /\ version \in Nat
    BY <1>3, InFlight DEF readSubstitutionReadiness, Saw, Checking
  <2>2. CASE Go(c, "AUTHORITY_VALID", r, version, "PREPARATION_READY")
    <3>1. "AUTHORITY_VALID" \in Steps \ {"PREPARE"} /\ "PREPARATION_READY" \in Outcomes
      BY DEF Steps, Outcomes
    <3>2. Carries([at |-> "AUTHORITY_VALID", for |-> r, version |-> version, saw |-> "PREPARATION_READY"])
      BY DEF Carries
    <3>. QED
      BY <2>1, <2>2, <3>1, <3>2, GoKeeps
  <2>3. ASSUME NEW outcome, Go(c, "STOP", r, version, mapReadinessToBlockedState(outcome))
        PROVE  Sound' /\ Fits
    <3>1. PICK saw \in {"AUTHORITY_REVOKED", "AUTHORITY_REQUIRED", "COMMITMENT_UNKNOWN",
                        "POLICY_UNAVAILABLE", "AUTHORITY_UNAVAILABLE"} :
            saw = mapReadinessToBlockedState(outcome)
      BY DEF mapReadinessToBlockedState
    <3>2. "STOP" \in Steps \ {"PREPARE"} /\ saw \in Outcomes /\ "STOP" \notin Checking
      BY DEF Steps, Outcomes, States, CommitStates, Checking
    <3>3. Carries([at |-> "STOP", for |-> r, version |-> version, saw |-> saw])
      BY DEF Carries, States, CommitStates
    <3>. QED
      BY <2>1, <2>3, <3>1, <3>2, <3>3, GoKeeps
  <2>. QED
    BY <1>3, <2>2, <2>3 DEF readSubstitutionReadiness, Saw
<1>4. CASE Stop(c)
  <2>1. call[c].at = "STOP" /\ transition(c, call[c].saw, call[c].saw, "IDLE")
    BY <1>4 DEF Stop
  <2>2. /\ call[c] # NoCall /\ call[c].saw \in States /\ call[c].saw # "COMPLETED"
        /\ call[c].saw # "AUTHORITY_VALID" /\ call[c].saw # "ORG_APPROVAL_PENDING"
    BY <2>1, InFlight DEF Carries
  <2>3. call[c].saw \in Events /\ call[c].saw # "AUTHORITY_RESOLVING_STARTED"
    BY <2>2 DEF Events, States, CommitStates
  <2>. QED
    BY <2>1, <2>2, <2>3, TransitionKeeps
<1>5. CASE RecordAuthority(c)
  <2>1. call[c].at = "AUTHORITY_VALID" /\ transition(c, "AUTHORITY_VALID", "AUTHORITY_VALID", "PREPARE")
    BY <1>5 DEF RecordAuthority
  <2>2. call[c] # NoCall /\ call[c].at \in Checking /\ "AUTHORITY_VALID" \in States \cap Events
    BY <2>1, InFlight DEF Checking, States, Events
  <2>. QED
    BY <2>1, <2>2, TransitionKeeps
<1>6. CASE PrepareOrgApproval(c)
  BY <1>6, InFlight, TransitionKeeps DEF PrepareOrgApproval, States, Events
<1>7. CASE RecordReconciliation(c)
  <2>1. call[c].at = "RECONCILED" /\ transition(c, call[c].saw, "RECONCILED", "IDLE")
    BY <1>7 DEF RecordReconciliation
  <2>2. call[c] # NoCall /\ call[c].saw \in States /\ call[c].saw # "COMPLETED" /\ "RECONCILED" \in Events
    BY <2>1, InFlight DEF Carries, Events
  <2>. QED
    BY <2>1, <2>2, TransitionKeeps
<1>8. CASE View(c)
  <2>1. /\ call[c].at = "VIEW" /\ op' = op /\ r \in WebRequests /\ version \in Nat /\ Carries(call[c])
        /\ Go(c, "VIEWED", r, version, mapReconciliationOutcome(r, call[c].saw = "COMPLETED"))
    BY <1>8, InFlight DEF View, Saw
  <2>2. Bound
    BY DEF Sound, Types
  <2>3. PICK saw : saw = mapReconciliationOutcome(r, call[c].saw = "COMPLETED")
    OBVIOUS
  <2>4. saw \in Outcomes /\ (saw = "OLD_RELEASED" /\ r # NoRequest => call[c].saw = "COMPLETED")
    BY <2>2, <2>3 DEF mapReconciliationOutcome, Bound, Idle, Outcomes, States, CommitStates
  <2>5. saw = "OLD_RELEASED" /\ r # NoRequest => r \in releases
    BY <2>1, <2>4 DEF Carries
  <2>6. "VIEWED" \in Steps \ {"PREPARE"} /\ "VIEWED" \notin Checking
    BY DEF Steps, Checking
  <2>7. Carries([at |-> "VIEWED", for |-> r, version |-> version, saw |-> saw])
    BY <2>5 DEF Carries
  <2>. QED
    BY <2>1, <2>3, <2>4, <2>6, <2>7, GoKeeps
<1>9. CASE Abandon(c)
  BY <1>9, CallEnds DEF Abandon
<1>. QED
  BY <1>1, <1>2, <1>3, <1>4, <1>5, <1>6, <1>7, <1>8, <1>9

\* The operator records a commit state, completion only after the release.
LEMMA OperatorKeeps ==
  ASSUME Sound, UNCHANGED phaseVars, NEW r \in WebRequests, OperatorRecords(r)
  PROVE  Sound' /\ Fits
<1>1. PICK state \in {"ORG_APPROVED", "REPLACEMENT_COMMITTED", "COMPLETED", "CANCELLED"} :
        /\ state = "COMPLETED" => r \in releases
        /\ op' = [op EXCEPT ![r] = [state |-> state, version |-> @.version + 1, event |-> state]]
  BY DEF OperatorRecords
<1>2. op[r].version \in Nat /\ state \in States /\ state \in Events
  BY DEF Sound, Types, Versioned, States, Events, CommitStates
<1>3. PICK v \in Nat : v = op[r].version + 1
  BY <1>2
<1>4. PICK row \in Versioned : row = [state |-> state, version |-> v, event |-> state]
  BY <1>2 DEF Versioned
<1>5. op' = [op EXCEPT ![r] = row] /\ Follows(row, r) /\ FitsRow(r, row)
  BY <1>1, <1>3, <1>4 DEF Follows, FitsRow
<1>6. call' = call
  BY DEF OperatorRecords
<1>7. Types'
  BY <1>5, <1>6, OthersHold DEF Sound, Types, phaseVars, Bound
<1>8. (\A c \in Calls : Holds(call[c]) /\ Carries(call[c]))'
  BY <1>5, <1>6, OthersHold DEF Sound, Holds, Carries, phaseVars
<1>. QED
  BY <1>5, <1>7, <1>8, OthersHold, FitsOne DEF Sound

\* The facility and the script move the substitution and only ever add releases.
LEMMA FacilityKeeps ==
  ASSUME Sound, UNCHANGED operationVars, Bound',
         releases \subseteq releases'
  PROVE  Sound' /\ Fits
<1>1. op' = op /\ call' = call
  BY DEF operationVars
<1>2. Types' /\ CompletedIsReleased'
  BY <1>1 DEF Sound, Types, CompletedIsReleased
<1>3. (\A c \in Calls : Holds(call[c]) /\ Carries(call[c]))'
  BY <1>1 DEF Sound, Holds, HoldsOf, Carries
<1>. QED
  BY <1>1, <1>2, <1>3 DEF Sound, Fits, FitsRow

\* What the phases do to the substitution and to the releases.
LEMMA PhasesMove ==
  ASSUME Bound,
         \/ Turn \/ Abandoned \/ UNCHANGED phaseVars
         \/ \E state \in CommitStates : Advance(state) \/ \E r \in RequestIds : OpenRequest(r, state)
         \/ \E r \in RequestIds : Release(r)
  PROVE  Bound' /\ releases \subseteq releases'
<1>1. CASE Turn \/ UNCHANGED phaseVars
  BY <1>1 DEF Turn, phaseVars, Bound
<1>2. CASE Abandoned
  BY <1>2 DEF Abandoned, Idle, Bound
<1>3. CASE \E state \in CommitStates : Advance(state)
  <2>1. PICK state \in CommitStates : Advance(state)
    BY <1>3
  <2>2. substitution' = [substitution EXCEPT !.state = state] /\ releases' = releases
    BY <2>1 DEF Advance
  <2>3. substitution'.state = state \/ substitution'.state = substitution.state
    BY <2>2
  <2>. QED
    BY <2>2, <2>3 DEF Bound
<1>4. CASE \E state \in CommitStates, r \in RequestIds : OpenRequest(r, state)
  BY <1>4 DEF OpenRequest, Bound
<1>5. CASE \E r \in RequestIds : Release(r)
  BY <1>5 DEF Release, Idle, Bound
<1>. QED
  BY <1>1, <1>2, <1>3, <1>4, <1>5

\* There is no operation at the start.
LEMMA SoundInit ==
  ASSUME Init
  PROVE  Sound
<1>1. op = [r \in WebRequests |-> NoOp] /\ call = [c \in Calls |-> NoCall] /\ substitution = Idle
  BY DEF Init, OperationsInit, PhasesInit
<1>2. NoOp \in Versioned /\ NoCall \in Held /\ NoOp.state = "NONE" /\ Idle.state = "NONE"
  BY DEF NoOp, NoCall, Versioned, Held, Steps, States, Events, Outcomes, Idle
<1>3. Holds(NoCall) /\ Carries(NoCall)
  BY DEF NoCall, Holds, HoldsOf, Carries, Checking
<1>. QED
  BY <1>1, <1>2, <1>3 DEF Sound, Types, CompletedIsReleased, Bound

\* Every step keeps the rows sound.
LEMMA SoundNext ==
  ASSUME Sound, [Next]_vars
  PROVE  Sound' /\ Fits
<1>0. Bound
  BY DEF Sound, Types
<1>1. CASE PhasesMoves(RequestIds \ ScriptRequests) /\ UNCHANGED <<sessionVars, operationVars, script>>
  <2>1. \/ Turn \/ Abandoned
        \/ \E state \in CommitStates : Advance(state) \/ \E r \in RequestIds : OpenRequest(r, state)
        \/ \E r \in RequestIds : Release(r)
    BY <1>1 DEF PhasesMoves
  <2>. QED
    BY <1>0, <1>1, <2>1, PhasesMove, FacilityKeeps
<1>2. CASE (SessionsNext /\ UNCHANGED <<phaseVars, operationVars, script>>) \/ UNCHANGED vars
  <2>1. UNCHANGED <<phaseVars, operationVars>>
    BY <1>2 DEF vars
  <2>. QED
    BY <1>0, <2>1, PhasesMove, FacilityKeeps
<1>3. CASE OperationsNext /\ UNCHANGED <<phaseVars, sessionVars, script>>
  <2>1. ASSUME NEW c \in Calls, NEW r \in WebRequests,
               Create(c, r) \/ Refresh(c, r) \/ Reconcile(c, r) \/ ReadOperation(c, r)
        PROVE  Sound' /\ Fits
    BY <1>3, <2>1, StartKeeps
  <2>2. ASSUME NEW c \in Calls,
               \/ StartResolving(c) \/ readCurrentEnsAuthority(c) \/ readSubstitutionReadiness(c)
               \/ Stop(c) \/ RecordAuthority(c) \/ PrepareOrgApproval(c) \/ RecordReconciliation(c)
               \/ View(c) \/ Abandon(c)
        PROVE  Sound' /\ Fits
    BY <1>3, <2>2, ProceedKeeps
  <2>3. ASSUME NEW r \in WebRequests, OperatorRecords(r)
        PROVE  Sound' /\ Fits
    BY <1>3, <2>3, OperatorKeeps
  <2>. QED
    BY <1>3, <2>1, <2>2, <2>3 DEF OperationsNext
<1>4. CASE ScriptNext /\ UNCHANGED <<sessionVars, operationVars>>
  <2>1. PICK r \in ScriptRequests :
          ScriptFails(r) \/ ScriptRequest(r) \/ ScriptCommit(r) \/ ScriptRelease(r)
    BY <1>4 DEF ScriptNext
  <2>2. Bound' /\ releases \subseteq releases'
    <3>1. CASE ScriptFails(r)
      BY <1>0, <3>1, PhasesMove DEF ScriptFails
    <3>2. CASE ScriptRequest(r)
      BY <3>2 DEF ScriptRequest, OpenRequest, CommitStates, Bound
    <3>3. CASE ScriptCommit(r)
      <4>1. Abandoned \/ \E state \in CommitStates : Advance(state)
        BY <3>3 DEF ScriptCommit
      <4>. QED
        BY <1>0, <4>1, PhasesMove
    <3>4. CASE ScriptRelease(r)
      BY <3>4 DEF ScriptRelease, Release, Idle, Bound
    <3>. QED
      BY <2>1, <3>1, <3>2, <3>3, <3>4
  <2>. QED
    BY <1>4, <2>2, FacilityKeeps
<1>. QED
  BY <1>1, <1>2, <1>3, <1>4 DEF Next

\* So they are always.
LEMMA SoundAlways == Spec => []Sound
<1>1. Init => Sound
  BY SoundInit
<1>2. Sound /\ [Next]_vars => Sound'
  BY SoundNext
<1>. QED
  BY <1>1, <1>2, PTL DEF Spec

-----------------------------------------------------------------------------
(* The results. *)

\* A view that reports the old collateral released, of an operation under a request id that the
\* facility admits, is about a release that took place (mapReconciliationOutcome): neither a
\* facility without a substitution nor somebody else's release makes it say so. The zero
\* request id is left out, since every idle facility matches it.
THEOREM ReportsAreTrue == Spec => []ReleaseReportsAreTrue
<1>1. Sound => ReleaseReportsAreTrue
  BY DEF Sound, Carries, ReleaseReportsAreTrue
<1>. QED
  BY <1>1, SoundAlways, PTL

\* An operation is authorised, and its approval prepared, only as the next event after the same
\* preparation's own (transition_substitution_operation compares versions).
THEOREM PreparationsStayApart == Spec => PreparationsDoNotMix
<1> DEFINE Apart ==
      \A r \in WebRequests : op'[r] # op[r] =>
        /\ op'[r].event = "AUTHORITY_VALID" => op[r].event = "AUTHORITY_RESOLVING_STARTED"
        /\ op'[r].event = "ORG_APPROVAL_PENDING" => op[r].event = "AUTHORITY_VALID"
<1>1. Sound /\ [Next]_vars => [Apart]_op
  BY SoundNext DEF Fits, FitsRow
<1>. QED
  BY <1>1, SoundAlways, PTL DEF Spec, PreparationsDoNotMix
=============================================================================
