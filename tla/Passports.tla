----------------------------- MODULE Passports ------------------------------
(***************************************************************************)
(* The operator's scripts that commit a Passport and rebuild its proof     *)
(* record (scripts/commit-passport.mjs, scripts/reconcile-passport.mjs),   *)
(* and at the end workflows, scripts and the guardian acting on the        *)
(* Passport history of one asset.                                          *)
(*                                                                         *)
(* Documents of different years of one instrument share one asset, so the  *)
(* scripts that are run for them work on one Passport history.             *)
(***************************************************************************)
EXTENDS PassportWorkflow

CONSTANTS
  Fixtures,       \* documents the manifest lists for this asset
  EvidenceOf,     \* fixture -> the evidence identifier of its document
  MaxRuns         \* bound on runs of the commit script

ASSUME ScriptConstants == EvidenceOf \in [Fixtures -> Evidence] /\ MaxRuns \in Nat

VARIABLES
  script,         \* the commit script's process
  runs,           \* how often it was started
  proofs          \* proof records under proof/: fixture, version and transactions

scriptVars == <<script, runs, proofs>>

NotRunning == [at |-> "ended"]
Calls(f, v) == <<EvidenceTx(EvidenceOf[f]), PassportTx({EvidenceOf[f]}, v), EpochTx>>

ScriptsInit == script = NotRunning /\ runs = 0 /\ proofs = {}

\* The next version is read once, before the pipeline runs.
StartCommit(f) ==
  /\ script = NotRunning /\ runs < MaxRuns
  /\ script' = [at |-> "sending", fixture |-> f, nextVersion |-> currentPassportVersion + 1, done |-> 0, tx |-> 0]
  /\ runs' = runs + 1
  /\ UNCHANGED <<proofs, chain>>

SendCall ==
  /\ script.at = "sending" /\ MaySend(1)
  /\ send(<<Calls(script.fixture, script.nextVersion)[script.done + 1]>>)
  /\ script' = [script EXCEPT !.at = "waiting", !.tx = Len(txs) + 1]
  /\ UNCHANGED <<runs, proofs, invalidated>>

Receipt ==
  /\ script.at = "waiting" /\ Landed(script.tx)
  /\ script' = [script EXCEPT !.done = @ + 1,
                              !.at = IF script.done = 2 THEN "verifying" ELSE "sending"]
  /\ UNCHANGED <<runs, proofs, chain>>

\* A revert or a time-out throws, and the process can be killed anywhere.
StopCommit ==
  /\ script # NotRunning
  /\ script' = NotRunning
  /\ UNCHANGED <<runs, proofs, chain>>

Current == CHOOSE i \in LandedOf("passport") : txs[i].version = currentPassportVersion

\* Variant: the read-back looks only for an active Passport.
readBackActive(f, v) == currentPassportVersion > 0

readBack(f, v) ==
  currentPassportVersion = v /\ txs[Current].evidence = {EvidenceOf[f]}

Verify ==
  /\ script.at = "verifying"
  /\ proofs' = IF readBack(script.fixture, script.nextVersion)
               THEN proofs \cup {[by |-> "commit", fixture |-> script.fixture, version |-> currentPassportVersion]}
               ELSE proofs
  /\ script' = NotRunning
  /\ UNCHANGED <<runs, chain>>

Blocks(kind) == {txs[i].block : i \in LandedOf(kind)}

\* No document of the asset may have landed after its first Passport.
evidenceFirst == Max(Blocks("evidence")) <= Min(Blocks("passport"))

ReconcilePassport(f) ==
  /\ currentPassportVersion > 0 /\ Blocks("evidence") # {} /\ evidenceFirst
  /\ proofs' = proofs \cup {[by |-> "reconcile", fixture |-> f, version |-> currentPassportVersion]}
  /\ UNCHANGED <<script, runs, chain>>

ScriptsNext ==
  \/ \E f \in Fixtures : StartCommit(f) \/ ReconcilePassport(f)
  \/ SendCall \/ Receipt \/ StopCommit \/ Verify

-----------------------------------------------------------------------------
(* Properties. *)

PassportAt(v) == {i \in LandedOf("passport") : txs[i].version = v}

\* A record written by the commit script names a version that is on chain, that
\* rests on that fixture's document and no other, and that came after it,
\* whatever other runs and workflows committed meanwhile (commit-passport.mjs:
\* "The record is written only when the read-back verified").
ProofsAreOnChain ==
  \A p \in proofs : p.by = "commit" =>
    \E i \in PassportAt(p.version), k \in LandedOf("evidence") :
      /\ txs[i].evidence = {EvidenceOf[p.fixture]} /\ txs[k].evidence = txs[i].evidence
      /\ txs[k].block < txs[i].block

-----------------------------------------------------------------------------
(* Workflows, scripts and the guardian together. *)

passportVars == <<chain, workflowVars, scriptVars>>

PassportsInit ==
  /\ txs = <<>> /\ invalidated = {}
  /\ WorkflowInit /\ ScriptsInit

ChainNext == (\E i \in Txs : Mine(i)) \/ (\E e \in Evidence : Invalidate(e))

PassportsNext ==
  \/ ChainNext /\ UNCHANGED <<workflowVars, scriptVars>>
  \/ WorkflowNext /\ UNCHANGED scriptVars
  \/ ScriptsNext /\ UNCHANGED workflowVars

PassportsSpec == PassportsInit /\ [][PassportsNext]_passportVars

=============================================================================
