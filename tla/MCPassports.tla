----------------------------- MODULE MCPassports -----------------------------
(***************************************************************************)
(* One asset with two documents and one workflow over one of them.         *)
(* MCPassports.cfg: one worker, the scripts and a guardian.                *)
(* MCPassportWorkers.cfg: two workers on the workflow, and no scripts;     *)
(* they may save within one second of each other.                          *)
(***************************************************************************)
EXTENDS Passports, TLC

CONSTANTS e1, e2, wf1, f1

MCCitesOne == wf1 :> {e2}
WorkerSymmetry == Permutations(WorkflowWorkers)
MCEvidenceOf == f1 :> e1
=============================================================================
