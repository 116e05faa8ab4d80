------------------------ MODULE SubstitutionPhases -------------------------
(***************************************************************************)
(* What the institutional facility promises whoever reads its substitution *)
(* from outside: one substitution at a time, bound to one request, which   *)
(* ends without effect or, once its replacement is committed, releases the *)
(* old collateral.  InstitutionalFacility implements it.                   *)
(***************************************************************************)
CONSTANTS RequestIds, NoRequest

VARIABLES
  phase,        \* "ACTIVE", "SUBSTITUTION_PENDING" or "OTHER"
  substitution, \* [state, id]
  releases      \* history: the requests whose release took place

phaseVars == <<phase, substitution, releases>>

Idle == [state |-> "NONE", id |-> NoRequest]
CommitStates == {"REQUESTED", "REPLACEMENT_COMMITTING", "COMMITMENT_UNKNOWN", "REPLACEMENT_COMMITTED"}

PhasesInit == phase = "OTHER" /\ substitution = Idle /\ releases = {}

\* The facility becomes active or leaves that status; no substitution is open.
Turn ==
  /\ substitution = Idle /\ phase' \in {"ACTIVE", "OTHER"}
  /\ UNCHANGED <<substitution, releases>>

\* A request is opened, and its commitment may be tried in the same transaction.
OpenRequest(r, state) ==
  /\ phase = "ACTIVE" /\ state \in CommitStates \ {"COMMITMENT_UNKNOWN"}
  /\ substitution' = [state |-> state, id |-> r] /\ phase' = "SUBSTITUTION_PENDING"
  /\ UNCHANGED releases

Advance(state) ==
  /\ \/ substitution.state = "REQUESTED"
        /\ state \in {"REPLACEMENT_COMMITTING", "REPLACEMENT_COMMITTED"}
     \/ substitution.state \in {"REPLACEMENT_COMMITTING", "COMMITMENT_UNKNOWN"}
        /\ state \in {"COMMITMENT_UNKNOWN", "REPLACEMENT_COMMITTED"}
  /\ substitution' = [substitution EXCEPT !.state = state]
  /\ UNCHANGED <<phase, releases>>

Abandoned ==
  /\ substitution # Idle /\ substitution' = Idle /\ phase' = "ACTIVE"
  /\ UNCHANGED releases

Release(r) ==
  /\ \/ substitution = [state |-> "REPLACEMENT_COMMITTED", id |-> r]
     \/ substitution = Idle /\ phase = "ACTIVE"        \* request, commitment and release at once
  /\ substitution' = Idle /\ phase' = "ACTIVE" /\ releases' = releases \union {r}

\* What happens to a substitution opened under one of these requests, or to any by anyone.
PhasesMoves(requests) ==
  \/ Turn \/ Abandoned
  \/ \E state \in CommitStates : Advance(state) \/ \E r \in requests : OpenRequest(r, state)
  \/ \E r \in requests : Release(r)

PhasesNext == PhasesMoves(RequestIds)

PhasesSpec == PhasesInit /\ [][PhasesNext]_phaseVars
=============================================================================
