-------------------------- MODULE PassportWorkflow --------------------------
(***************************************************************************)
(* Workers take a Passport workflow from its evidence to the chain         *)
(* (services/evidence/src: workflow.ts, workflow-store.ts).                *)
(*                                                                         *)
(* A worker holds the copy of the record it read.  Sending, recording that *)
(* it was sent, waiting for receipts and asking the chain are steps of     *)
(* their own: other workers, the chain and the worker's death come         *)
(* between.  Who calls step and reconcile is outside the source; the       *)
(* driver here follows the path of the tests, with every edge the graph    *)
(* allows.                                                                 *)
(***************************************************************************)
EXTENDS PassportChain

CONSTANTS
  Workflows,
  Cites,          \* workflow -> the evidence of its identity
  WorkflowWorkers,
  MaxSubmissions,    \* resubmissions before reconcile escalates
  SameSecond      \* whether a write may carry the stamp of the one before it

ASSUME WorkflowConstants ==
  /\ Cites \in [Workflows -> (SUBSET Evidence) \ {{}}]
  /\ MaxSubmissions \in Nat \ {0} /\ SameSecond \subseteq BOOLEAN /\ SameSecond # {}

VARIABLES
  record,         \* workflow -> its stored record
  worker          \* worker -> the workflow and copy it holds and what it does next

workflowVars == <<record, worker>>

-----------------------------------------------------------------------------
(* The states a workflow goes through and the edges between them. *)

Preparation ==
  {"CREATED", "EVIDENCE_RESOLVING", "EVIDENCE_READY", "EXTRACTION_RUNNING", "EXTRACTION_COMPLETE",
   "CORROBORATING", "SINGLE_SOURCE", "EVIDENCE_VERIFIED", "PASSPORT_BUILDING",
   "PASSPORT_CANDIDATE_READY", "ADMISSION_EVALUATING"}
Setbacks == {"SOURCE_UNAVAILABLE", "EXTRACTION_FAILED", "CORROBORATION_FAILED", "NEEDS_EVIDENCE"}
EvidenceCommit ==
  {"EVIDENCE_COMMIT_PENDING", "EVIDENCE_COMMIT_SUBMITTED", "EVIDENCE_COMMIT_CONFIRMED"}
PassportCommit ==
  {"PASSPORT_COMMIT_PENDING", "PASSPORT_COMMIT_SUBMITTED", "PASSPORT_COMMIT_CONFIRMED"}
Aftermath == {"RISK_REEVALUATING", "RISK_EPOCH_ACTIVATED", "ACCOUNT_REEVALUATING", "COMPLETE"}

TerminalStates == {"COMPLETE", "CLAIM_CONFLICT", "POLICY_REJECTED", "RECONCILIATION_REQUIRED"}

WorkflowStates ==
  Preparation \cup Setbacks \cup EvidenceCommit \cup PassportCommit \cup Aftermath
    \cup TerminalStates \cup {"COMMIT_FAILED", "CONFIRMATION_UNKNOWN"}

Submitted == {"EVIDENCE_COMMIT_SUBMITTED", "PASSPORT_COMMIT_SUBMITTED"}
Resumable == Submitted \cup {"CONFIRMATION_UNKNOWN", "COMMIT_FAILED"}

\* A setback goes back to the step that failed or to a human; nothing skips forward.
Transitions(from) ==
  CASE from = "CREATED"               -> {"EVIDENCE_RESOLVING"}
    [] from = "EVIDENCE_RESOLVING"    -> {"EVIDENCE_READY", "SOURCE_UNAVAILABLE"}
    [] from = "EVIDENCE_READY"        -> {"EXTRACTION_RUNNING"}
    [] from = "EXTRACTION_RUNNING"    -> {"EXTRACTION_COMPLETE", "EXTRACTION_FAILED"}
    [] from = "EXTRACTION_COMPLETE"   -> {"CORROBORATING"}
    [] from = "CORROBORATING"         ->
         {"EVIDENCE_VERIFIED", "SINGLE_SOURCE", "CLAIM_CONFLICT", "CORROBORATION_FAILED"}
    [] from \in {"SINGLE_SOURCE", "EVIDENCE_VERIFIED"} -> {"PASSPORT_BUILDING"}
    [] from = "PASSPORT_BUILDING"     -> {"PASSPORT_CANDIDATE_READY", "NEEDS_EVIDENCE"}
    [] from = "PASSPORT_CANDIDATE_READY" -> {"ADMISSION_EVALUATING"}
    [] from = "ADMISSION_EVALUATING"  ->
         {"EVIDENCE_COMMIT_PENDING", "POLICY_REJECTED", "NEEDS_EVIDENCE"}
    [] from = "EVIDENCE_COMMIT_PENDING" -> {"EVIDENCE_COMMIT_SUBMITTED", "COMMIT_FAILED"}
    [] from = "EVIDENCE_COMMIT_SUBMITTED" ->
         {"EVIDENCE_COMMIT_CONFIRMED", "CONFIRMATION_UNKNOWN", "COMMIT_FAILED"}
    [] from = "EVIDENCE_COMMIT_CONFIRMED" -> {"PASSPORT_COMMIT_PENDING"}
    [] from = "PASSPORT_COMMIT_PENDING" -> {"PASSPORT_COMMIT_SUBMITTED", "COMMIT_FAILED"}
    [] from = "PASSPORT_COMMIT_SUBMITTED" ->
         {"PASSPORT_COMMIT_CONFIRMED", "CONFIRMATION_UNKNOWN", "COMMIT_FAILED"}
    [] from = "PASSPORT_COMMIT_CONFIRMED" -> {"RISK_REEVALUATING"}
    [] from = "RISK_REEVALUATING"     -> {"RISK_EPOCH_ACTIVATED", "RECONCILIATION_REQUIRED"}
    [] from = "RISK_EPOCH_ACTIVATED"  -> {"ACCOUNT_REEVALUATING"}
    [] from = "ACCOUNT_REEVALUATING"  -> {"COMPLETE", "RECONCILIATION_REQUIRED"}
    [] from \in {"SOURCE_UNAVAILABLE", "NEEDS_EVIDENCE"} ->
         {"EVIDENCE_RESOLVING", "RECONCILIATION_REQUIRED"}
    [] from = "EXTRACTION_FAILED"     -> {"EXTRACTION_RUNNING", "RECONCILIATION_REQUIRED"}
    [] from = "CORROBORATION_FAILED"  -> {"CORROBORATING", "RECONCILIATION_REQUIRED"}
    [] from = "COMMIT_FAILED"         ->
         {"EVIDENCE_COMMIT_PENDING", "PASSPORT_COMMIT_PENDING", "RECONCILIATION_REQUIRED"}
    [] from = "CONFIRMATION_UNKNOWN"  ->
         {"EVIDENCE_COMMIT_CONFIRMED", "PASSPORT_COMMIT_CONFIRMED",
          "EVIDENCE_COMMIT_PENDING", "PASSPORT_COMMIT_PENDING", "RECONCILIATION_REQUIRED"}
    [] from \in TerminalStates        -> {}

-----------------------------------------------------------------------------

NoRecord == [state |-> "ABSENT", attempts |-> 0, candidate |-> 0, passportVersion |-> 0]
Fresh == [NoRecord EXCEPT !.state = "CREATED"]

Free == [at |-> "free"]
Holds(copy, wf, at) ==
  [at |-> at, wf |-> wf, copy |-> copy, stale |-> FALSE, sent |-> {}, to |-> copy.state]

isTerminal(state) == state \in TerminalStates
Driven == WorkflowStates \ (Resumable \cup TerminalStates \cup
            {"EVIDENCE_COMMIT_PENDING", "PASSPORT_COMMIT_PENDING"})

-----------------------------------------------------------------------------
(* Records and the store. *)

\* Attempts count commits; the version is written down with the submission.
advance(copy, to) ==
  [copy EXCEPT
     !.state = to,
     !.attempts = IF to \in Submitted THEN @ + 1 ELSE @,
     !.passportVersion = IF to = "PASSPORT_COMMIT_SUBMITTED" THEN copy.candidate ELSE @]

\* save expects the time stamp, in whole seconds, of the copy it replaces.
save(w, next, then) ==
  LET mine == worker[w]
  IN  IF mine.stale
      THEN /\ worker' = [worker EXCEPT ![w] = Free]
           /\ UNCHANGED record
      ELSE /\ record' = [record EXCEPT ![mine.wf] = next]
           /\ \E same \in SameSecond :
                worker' = [v \in WorkflowWorkers |->
                  IF v = w THEN then
                  ELSE IF worker[v] # Free /\ worker[v].wf = mine.wf /\ ~same
                       THEN [worker[v] EXCEPT !.stale = TRUE]
                       ELSE worker[v]]

step(w, to, at) ==
  LET next == advance(worker[w].copy, to)
  IN  /\ to \in Transitions(worker[w].copy.state)
      /\ save(w, next, IF isTerminal(to) THEN Free ELSE Holds(next, worker[w].wf, at))

-----------------------------------------------------------------------------
(* What a worker does. *)

WorkflowInit ==
  /\ record = [wf \in Workflows |-> NoRecord]
  /\ worker = [w \in WorkflowWorkers |-> Free]

\* A duplicate delivery finds the record; a terminal one is left alone.
openWorkflow(w, wf) ==
  /\ worker[w] = Free /\ ~isTerminal(record[wf].state)
  /\ LET existing == IF record[wf] = NoRecord THEN Fresh ELSE record[wf]
     IN  /\ record' = [record EXCEPT ![wf] = existing]
         /\ worker' = [worker EXCEPT ![w] = Holds(existing, wf, "holding")]
  /\ UNCHANGED chain

Drive(w) ==
  /\ worker[w].at = "holding" /\ worker[w].copy.state \in Driven
  /\ \E to \in Transitions(worker[w].copy.state) :
       LET next == [advance(worker[w].copy, to) EXCEPT
                      !.candidate = IF to = "PASSPORT_CANDIDATE_READY" THEN currentPassportVersion + 1 ELSE @]
       IN  save(w, next, IF isTerminal(to) THEN Free ELSE Holds(next, worker[w].wf, "holding"))
  /\ UNCHANGED chain

\* The calls the pipeline prepared: one per document, or the Passport.
callsOf(copy, wf) ==
  IF copy.state = "EVIDENCE_COMMIT_PENDING"
  THEN SetToSeq({EvidenceTx(e) : e \in Cites[wf]})
  ELSE <<PassportTx(Cites[wf], copy.candidate)>>

Submit(w) ==
  /\ worker[w].at = "holding"
  /\ worker[w].copy.state \in {"EVIDENCE_COMMIT_PENDING", "PASSPORT_COMMIT_PENDING"}
  /\ LET calls == callsOf(worker[w].copy, worker[w].wf)
     IN  /\ MaySend(Len(calls)) /\ send(calls)
         /\ worker' = [worker EXCEPT ![w].at = "sent", ![w].sent = (Len(txs) + 1)..(Len(txs) + Len(calls))]
  /\ UNCHANGED <<record, invalidated>>

\* The transaction could not be sent.
FailToSend(w) ==
  /\ worker[w].at = "holding"
  /\ worker[w].copy.state \in {"EVIDENCE_COMMIT_PENDING", "PASSPORT_COMMIT_PENDING"}
  /\ step(w, "COMMIT_FAILED", "holding")
  /\ UNCHANGED chain

RecordSubmission(w) ==
  /\ worker[w].at = "sent"
  /\ LET to == IF worker[w].copy.state = "EVIDENCE_COMMIT_PENDING"
               THEN "EVIDENCE_COMMIT_SUBMITTED" ELSE "PASSPORT_COMMIT_SUBMITTED"
         next == advance(worker[w].copy, to)
     IN  save(w, next, [Holds(next, worker[w].wf, "waiting") EXCEPT !.sent = worker[w].sent])
  /\ UNCHANGED chain

\* Every receipt, one that reverted, or none within the time allowed.
Await(w) ==
  /\ worker[w].at = "waiting"
  /\ \/ /\ \A i \in worker[w].sent : Landed(i)
        /\ step(w, IF worker[w].copy.state = "EVIDENCE_COMMIT_SUBMITTED"
                   THEN "EVIDENCE_COMMIT_CONFIRMED" ELSE "PASSPORT_COMMIT_CONFIRMED", "holding")
     \/ /\ \E i \in worker[w].sent : txs[i].block = Reverted
        /\ step(w, "COMMIT_FAILED", "holding")
     \/ /\ \E i \in worker[w].sent : txs[i].block = Pending
        /\ step(w, "CONFIRMATION_UNKNOWN", "holding")
  /\ UNCHANGED chain

evidenceIsCommitted(wf) == \A e \in Cites[wf] : isUsableFor(e)

\* Variant: having been sent is as good as being there.
versionWasSent(version) == version # 0

versionIsOnChain(version) == version # 0 /\ currentPassportVersion >= version

Redo(copy) ==
  IF copy.attempts >= MaxSubmissions THEN "RECONCILIATION_REQUIRED"
  ELSE IF copy.passportVersion # 0 THEN "PASSPORT_COMMIT_PENDING"
  ELSE "EVIDENCE_COMMIT_PENDING"

Answer(w, to) == worker' = [worker EXCEPT ![w].at = "answered", ![w].to = to]

\* reconcile: a submission is first marked unknown; after COMMIT_FAILED the
\* chain is not asked.
Reconcile(w) ==
  /\ worker[w].at = "holding"
  /\ \/ /\ worker[w].copy.state \in Submitted
        /\ step(w, "CONFIRMATION_UNKNOWN", "asking evidence")
     \/ /\ worker[w].copy.state = "CONFIRMATION_UNKNOWN"
        /\ worker' = [worker EXCEPT ![w].at = "asking evidence"]
        /\ UNCHANGED record
     \/ /\ worker[w].copy.state = "COMMIT_FAILED"
        /\ Answer(w, Redo(worker[w].copy))
        /\ UNCHANGED record
  /\ UNCHANGED chain

AskEvidence(w) ==
  /\ worker[w].at = "asking evidence"
  /\ IF evidenceIsCommitted(worker[w].wf)
     THEN Answer(w, "EVIDENCE_COMMIT_CONFIRMED")
     ELSE worker' = [worker EXCEPT ![w].at = "asking version"]
  /\ UNCHANGED <<record, chain>>

AskVersion(w) ==
  /\ worker[w].at = "asking version"
  /\ Answer(w, IF versionIsOnChain(worker[w].copy.passportVersion)
               THEN "PASSPORT_COMMIT_CONFIRMED" ELSE Redo(worker[w].copy))
  /\ UNCHANGED <<record, chain>>

Resolve(w) ==
  /\ worker[w].at = "answered"
  /\ step(w, worker[w].to, "holding")
  /\ UNCHANGED chain

Crash(w) ==
  /\ worker[w] # Free
  /\ worker' = [worker EXCEPT ![w] = Free]
  /\ UNCHANGED <<record, chain>>

WorkflowNext ==
  \E w \in WorkflowWorkers :
    \/ \E wf \in Workflows : openWorkflow(w, wf)
    \/ Drive(w) \/ Submit(w) \/ FailToSend(w) \/ RecordSubmission(w) \/ Await(w)
    \/ Reconcile(w) \/ AskEvidence(w) \/ AskVersion(w) \/ Resolve(w) \/ Crash(w)

-----------------------------------------------------------------------------
(* Properties. *)

AfterEvidence == {"EVIDENCE_COMMIT_CONFIRMED", "PASSPORT_COMMIT_PENDING", "PASSPORT_COMMIT_SUBMITTED"}
AfterPassport == {"PASSPORT_COMMIT_CONFIRMED"} \cup Aftermath

\* A record never says more than the chain: past the evidence every document it
\* cites is committed, past the Passport its version is there, whoever crashed,
\* timed out or wrote over whom (workflow.ts: "The chain is the authority, never
\* local state").
RecordsFollowChain ==
  \A wf \in Workflows :
    /\ record[wf].state \in AfterEvidence => \A e \in Cites[wf] : Committed(e)
    /\ record[wf].state \in AfterPassport => currentPassportVersion >= record[wf].passportVersion

\* However often a Passport is sent again, it lands once (workflow-store.ts
\* reconcile: "stops the crash-then-retry loop from double-committing"; step:
\* "two workers cannot both win").  A worker that dies, loses a receipt or asks the
\* chain too early does not break it; two workers whose saves carry one stamp do:
\* the later one writes its old copy over the other's and goes on from there.
PassportsOf(wf) == {i \in LandedOf("passport") : txs[i].evidence = Cites[wf]}
OnePassportPerWorkflow == \A wf \in Workflows : Cardinality(PassportsOf(wf)) <= 1
=============================================================================
