--------------------------- MODULE Substitutions ----------------------------
(***************************************************************************)
(* The web application's record of substitution operations (apps/web:      *)
(* app/api/facilities/.../substitutions, lib/substitution-*.ts, the SQL    *)
(* functions behind the store), written by concurrent HTTP calls that read *)
(* the authority and the facility between their writes, and the sign-in    *)
(* they need (app/api/auth, lib/institutional-auth.ts): a challenge is     *)
(* signed once, verified by a call that reads it before consuming it, and  *)
(* answered with a session that can be revoked or expire.                  *)
(*                                                                         *)
(* A call is idle until it starts and again once it has answered, failed   *)
(* or died: nothing of it survives but what it wrote. At the end they run  *)
(* beside the operator's script and the facility as its readers may rely   *)
(* on it.                                                                  *)
(***************************************************************************)
EXTENDS Integers, SubstitutionPhases

(* Sign-in. *)

CONSTANTS Verifiers   \* concurrent calls to verify the one challenge

VARIABLES
  challenge,   \* "NONE", "ISSUED", "CONSUMED" or "EXPIRED"
  verifying,   \* the verify calls past their check of the challenge
  session      \* the session a verify call was given: "NONE", "LIVE" or "ENDED"

sessionVars == <<challenge, verifying, session>>

SessionsInit ==
  /\ challenge = "NONE"
  /\ verifying = {} /\ session = [v \in Verifiers |-> "NONE"]

createChallenge ==
  /\ challenge = "NONE" /\ challenge' = "ISSUED"
  /\ UNCHANGED <<verifying, session>>

\* The route reads the challenge and checks its expiry, nonce and signature; else it answers 401.
checkChallenge(v) ==
  /\ challenge = "ISSUED" /\ verifying' = verifying \union {v}
  /\ UNCHANGED <<challenge, session>>

consumable == challenge = "ISSUED"

\* The row is locked and looked at again; the wallet may have no active membership.
createSession(v) ==
  /\ v \in verifying /\ verifying' = verifying \ {v}
  /\ \/ consumable /\ challenge' = "CONSUMED" /\ session' = [session EXCEPT ![v] = "LIVE"]
     \/ UNCHANGED <<challenge, session>>

\* A caller whose session lookup_auth_session finds.
signedIn == \E v \in Verifiers : session[v] = "LIVE"

\* Revoked by logout, past its expiry, or its membership ended.
endSession(v) ==
  /\ session[v] = "LIVE" /\ session' = [session EXCEPT ![v] = "ENDED"]
  /\ UNCHANGED <<challenge, verifying>>

expireChallenge ==
  /\ challenge = "ISSUED" /\ challenge' = "EXPIRED"
  /\ UNCHANGED <<verifying, session>>

SessionsNext ==
  \/ createChallenge \/ expireChallenge
  \/ \E v \in Verifiers : checkChallenge(v) \/ createSession(v) \/ endSession(v)

-----------------------------------------------------------------------------
(* Operations. *)

CONSTANTS
  WebRequests,   \* requests made through the application
  ScriptRequests, \* one request per run of run-substitution.mjs
  Calls,
  MaxCalls       \* bound on the calls a run makes

\* The facility refuses the zero request id, here NoRequest, and the web's POST does not.
ASSUME OperationConstants ==
  /\ NoRequest \notin RequestIds /\ WebRequests \subseteq RequestIds \cup {NoRequest}
  /\ MaxCalls \in Nat

VARIABLES
  op,      \* request -> its row and the type of its last event
  call,    \* call -> [at, for, version, saw]
  calls,   \* how many were made
  script   \* request -> where its run of the script stands

operationVars == <<op, call, calls>>

NoOp == [state |-> "NONE", version |-> 0, event |-> "NONE"]
NoCall == [at |-> "IDLE", for |-> NoRequest, version |-> 0, saw |-> "NONE"]
TerminalOps == {"COMPLETED", "REFUSED", "EXPIRED", "CANCELLED"}

OperationsInit ==
  op = [r \in WebRequests |-> NoOp] /\ call = [c \in Calls |-> NoCall] /\ calls = 0

Active(r) == op[r] # NoOp /\ op[r].state \notin TerminalOps

Answer(c) == call' = [call EXCEPT ![c] = NoCall]
NewCall(c) == call[c] = NoCall /\ calls < MaxCalls /\ calls' = calls + 1
\* The call goes on at its next step, holding what it read or wrote.
Go(c, at, r, version, saw) ==
  call' = [call EXCEPT ![c] = [at |-> at, for |-> r, version |-> version, saw |-> saw]]

applicable(r, version) == op[r].version = version /\ op[r].state \notin TerminalOps

\* transition_substitution_operation: the row and its event, or an exception that ends the call.
transition(c, state, event, next) ==
  LET r == call[c].for
  IN  IF applicable(r, call[c].version)
      THEN /\ op' = [op EXCEPT ![r] =
                [state |-> state, version |-> @.version + 1, event |-> event]]
           /\ IF next = "IDLE" THEN Answer(c) ELSE Go(c, next, r, op[r].version + 1, "NONE")
      ELSE op' = op /\ Answer(c)

\* POST: one row per request, one active row per facility. A row past CREATED is returned as it is.
Create(c, r) ==
  /\ NewCall(c) /\ signedIn
  /\ \A other \in WebRequests \ {r} : ~Active(other)
  /\ op' = IF op[r] = NoOp
           THEN [op EXCEPT ![r] = [state |-> "CREATED", version |-> 1, event |-> "OPERATION_CREATED"]]
           ELSE op
  /\ IF op'[r].state = "CREATED" THEN Go(c, "RESOLVE", r, op'[r].version, "NONE")
     ELSE UNCHANGED call

\* POST refresh: the same preparation again, from any state but a terminal one.
Refresh(c, r) ==
  /\ NewCall(c) /\ signedIn /\ Active(r)
  /\ Go(c, "RESOLVE", r, op[r].version, "NONE") /\ op' = op

StartResolving(c) ==
  /\ call[c].at = "RESOLVE"
  /\ transition(c, "AUTHORITY_RESOLVING", "AUTHORITY_RESOLVING_STARTED", "READ_AUTHORITY")

Saw(c, at, outcome) == Go(c, at, call[c].for, call[c].version, outcome) /\ op' = op

\* The verifier on Hedera and the role on Sepolia, read one after the other.
readCurrentEnsAuthority(c) ==
  /\ call[c].at = "READ_AUTHORITY"
  /\ \/ Saw(c, "READ_READINESS", "AUTHORITY_VALID")
     \/ \E outcome \in {"AUTHORITY_REQUIRED", "AUTHORITY_REVOKED", "AUTHORITY_UNAVAILABLE"} :
          Saw(c, "STOP", outcome)

\* What one block of the facility and its adapters, or a failed read, can say.
readiness ==
  {"FACILITY_UNAVAILABLE"} \union
  (IF phase # "ACTIVE" THEN {"FACILITY_NOT_ACTIVE"}
   ELSE IF substitution.state = "COMMITMENT_UNKNOWN" THEN {"COMMITMENT_UNKNOWN"}
   ELSE IF substitution # Idle THEN {"SUBSTITUTION_ALREADY_PENDING"}
   ELSE {"ATS_RESTRICTED", "AUTHORITY_REQUIRED", "AUTHORITY_REVOKED", "CRE_REQUIRED",
         "REPLACEMENT_UNSAFE", "PREPARATION_READY"})

mapReadinessToBlockedState(outcome) ==
  CASE outcome \in {"AUTHORITY_REVOKED", "AUTHORITY_REQUIRED", "COMMITMENT_UNKNOWN"} -> outcome
    [] outcome = "CRE_REQUIRED" -> "POLICY_UNAVAILABLE"
    [] OTHER -> "AUTHORITY_UNAVAILABLE"

readSubstitutionReadiness(c) ==
  /\ call[c].at = "READ_READINESS"
  /\ \E outcome \in readiness :
       IF outcome = "PREPARATION_READY" THEN Saw(c, "AUTHORITY_VALID", outcome)
       ELSE Saw(c, "STOP", mapReadinessToBlockedState(outcome))

\* After the readiness its event is named by the outcome, before it was mapped.
Stop(c) == call[c].at = "STOP" /\ transition(c, call[c].saw, call[c].saw, "IDLE")

\* Variant: retried at the version it finds.
RecordAuthorityAgain(c) ==
  LET r == call[c].for
  IN  /\ call[c].at = "AUTHORITY_VALID" /\ op[r].state \notin TerminalOps
      /\ op' = [op EXCEPT ![r] = [state |-> "AUTHORITY_VALID", version |-> @.version + 1,
                                  event |-> "AUTHORITY_VALID"]]
      /\ Go(c, "PREPARE", r, op[r].version + 1, "NONE")

RecordAuthority(c) ==
  /\ call[c].at = "AUTHORITY_VALID"
  /\ transition(c, "AUTHORITY_VALID", "AUTHORITY_VALID", "PREPARE")

\* The decision's hashes are recorded for a quorum to sign outside the application.
\* (A refresh names the event DECISION_REFRESHED.)
PrepareOrgApproval(c) ==
  /\ call[c].at = "PREPARE"
  /\ transition(c, "ORG_APPROVAL_PENDING", "ORG_APPROVAL_PENDING", "IDLE")

\* Variant: a facility without a substitution has released this one.
mapReconciliationOutcomeOpen(r, completed) ==
  IF substitution = Idle THEN "OLD_RELEASED" ELSE substitution.state

\* completed: this operation's own row says so. An idle facility reads as the zero request.
mapReconciliationOutcome(r, completed) ==
  LET matches == substitution.id = r
      zeroRequestId == substitution.id = NoRequest
  IN  IF substitution.state = "COMMITMENT_UNKNOWN" THEN "COMMITMENT_UNKNOWN"
      ELSE IF ~matches /\ ~zeroRequestId THEN "EXTERNAL_ATTEMPT_DETECTED"
      ELSE IF substitution.state # "NONE" THEN substitution.state
      ELSE IF matches \/ (zeroRequestId /\ completed) THEN "OLD_RELEASED"
      ELSE "NONE"

reconciledState(r, outcome) ==
  IF outcome \in {"COMMITMENT_UNKNOWN", "EXTERNAL_ATTEMPT_DETECTED"} THEN "COMMITMENT_UNKNOWN"
  ELSE op[r].state

\* POST reconcile: reads the row and the facility, and writes the row later.
Reconcile(c, r) ==
  /\ NewCall(c) /\ signedIn /\ Active(r) /\ op' = op
  /\ \E outcome \in {"UNAVAILABLE", mapReconciliationOutcome(r, FALSE)} :
       Go(c, "RECONCILED", r, op[r].version, reconciledState(r, outcome))

RecordReconciliation(c) ==
  call[c].at = "RECONCILED" /\ transition(c, call[c].saw, "RECONCILED", "IDLE")

\* GET: the row, then the facility.
ReadOperation(c, r) ==
  /\ NewCall(c) /\ op[r] # NoOp /\ op' = op
  /\ Go(c, "VIEW", r, 0, IF op[r].state = "COMPLETED" THEN "COMPLETED" ELSE "NONE")

View(c) ==
  /\ call[c].at = "VIEW"
  /\ Saw(c, "VIEWED", mapReconciliationOutcome(call[c].for, call[c].saw = "COMPLETED"))

\* A view is shown, or the worker running the call is gone.
Abandon(c) == call[c] # NoCall /\ Answer(c) /\ op' = op

\* The operator records what happened outside, at the version it just read.
OperatorRecords(r) ==
  /\ Active(r) /\ call' = call
  /\ \E state \in {"ORG_APPROVED", "REPLACEMENT_COMMITTED", "COMPLETED", "CANCELLED"} :
       /\ state = "ORG_APPROVED" => op[r].state = "ORG_APPROVAL_PENDING"
       /\ state = "REPLACEMENT_COMMITTED" =>
            /\ op[r].state \in {"ORG_APPROVED", "COMMITMENT_UNKNOWN"}
            /\ substitution = [state |-> "REPLACEMENT_COMMITTED", id |-> r]
       /\ state = "COMPLETED" => r \in releases
       /\ op' = [op EXCEPT ![r] = [state |-> state, version |-> @.version + 1, event |-> state]]

OperationsNext ==
  \/ \E c \in Calls :
       \/ \E r \in WebRequests : Create(c, r) \/ Refresh(c, r) \/ Reconcile(c, r) \/ ReadOperation(c, r)
       \/ /\ UNCHANGED calls
          /\ \/ StartResolving(c) \/ readCurrentEnsAuthority(c) \/ readSubstitutionReadiness(c)
             \/ Stop(c) \/ RecordAuthority(c) \/ PrepareOrgApproval(c) \/ RecordReconciliation(c)
             \/ View(c) \/ Abandon(c)
  \/ \E r \in WebRequests : OperatorRecords(r) /\ UNCHANGED calls

-----------------------------------------------------------------------------
(* The operator's script. *)

scriptVars == script

\* A run of the script has its decision approved and sends one transaction after another, under
\* a request id nobody else knows; the first that fails ends it, and nothing resumes it.
Run(r, from, to) == script[r] = from /\ script' = [script EXCEPT ![r] = to]

ScriptFails(r) ==
  /\ \E from \in {"READY", "REQUESTED", "COMMITTED"} : Run(r, from, "ENDED")
  /\ UNCHANGED phaseVars

ScriptRequest(r) == Run(r, "READY", "REQUESTED") /\ OpenRequest(r, "REQUESTED")

\* The call succeeds whatever becomes of the commitment; a refusal closes the substitution.
ScriptCommit(r) ==
  /\ Run(r, "REQUESTED", "COMMITTED") /\ substitution = [state |-> "REQUESTED", id |-> r]
  /\ Abandoned \/ \E state \in CommitStates : Advance(state)

ScriptRelease(r) == Run(r, "COMMITTED", "ENDED") /\ substitution.id = r /\ Release(r)

ScriptNext ==
  \E r \in ScriptRequests :
    ScriptFails(r) \/ ScriptRequest(r) \/ ScriptCommit(r) \/ ScriptRelease(r)

vars == <<phaseVars, sessionVars, operationVars, script>>

Init ==
  /\ PhasesInit /\ SessionsInit /\ OperationsInit
  /\ script = [r \in ScriptRequests |-> "READY"]

Next ==
  \/ PhasesMoves(RequestIds \ ScriptRequests) /\ UNCHANGED <<sessionVars, operationVars, script>>
  \/ SessionsNext /\ UNCHANGED <<phaseVars, operationVars, script>>
  \/ OperationsNext /\ UNCHANGED <<phaseVars, sessionVars, script>>
  \/ ScriptNext /\ UNCHANGED <<sessionVars, operationVars>>

Spec == Init /\ [][Next]_vars

------------------------------------------------------------------------------

\* An operation is authorised, and its approval prepared, only as the next event after the same
\* preparation's own: two preparations of one operation never mix what they read.
PreparationsDoNotMix ==
  [][\A r \in WebRequests : op'[r] # op[r] =>
       /\ op'[r].event = "AUTHORITY_VALID" => op[r].event = "AUTHORITY_RESOLVING_STARTED"
       /\ op'[r].event = "ORG_APPROVAL_PENDING" => op[r].event = "AUTHORITY_VALID"]_op

\* A view that reports the old collateral released is about a request whose release took place,
\* unless the operation was created under the zero request id: every idle facility matches that
\* one, and it is reported released though the facility has never heard of it.
ReleaseReportsAreTrue ==
  \A c \in Calls :
    call[c].at = "VIEWED" /\ call[c].saw = "OLD_RELEASED" /\ call[c].for # NoRequest =>
      call[c].for \in releases

=============================================================================
