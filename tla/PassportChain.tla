--------------------------- MODULE PassportChain ---------------------------
(***************************************************************************)
(* The chain as the evidence service sees it: transactions that are sent,  *)
(* land in some order or never, and succeed or revert, and what            *)
(* EvidenceRegistry, PassportRegistry and RiskPolicyRegistry then hold     *)
(* for one asset.                                                          *)
(***************************************************************************)
EXTENDS Integers, Sequences, FiniteSets, FiniteSetsExt, SequencesExt

CONSTANTS
  Evidence,      \* identifiers of evidence documents
  MaxTxs,        \* bound on transactions sent
  MayInvalidate  \* whether a guardian may invalidate evidence

ASSUME ChainConstants == IsFiniteSet(Evidence) /\ MaxTxs \in Nat /\ MayInvalidate \in BOOLEAN

VARIABLES
  txs,           \* transactions sent: what each does and its block
  invalidated    \* evidence a guardian has invalidated

chain == <<txs, invalidated>>

Pending == 0
Reverted == -1
Txs == DOMAIN txs
Landed(i) == txs[i].block > 0
height == Max({0} \cup {txs[i].block : i \in Txs})

EvidenceTx(e) == [kind |-> "evidence", evidence |-> {e}, version |-> 0, block |-> Pending]
PassportTx(es, v) == [kind |-> "passport", evidence |-> es, version |-> v, block |-> Pending]
EpochTx == [kind |-> "epoch", evidence |-> {}, version |-> 0, block |-> Pending]

LandedOf(kind) == {i \in Txs : Landed(i) /\ txs[i].kind = kind}
Committed(e) == \E i \in LandedOf("evidence") : e \in txs[i].evidence
isUsableFor(e) == Committed(e) /\ e \notin invalidated
currentPassportVersion == Cardinality(LandedOf("passport"))

\* Variant: a version that is already there is committed again.
SucceedsAgain(tx) == \A e \in tx.evidence : tx.kind = "evidence" \/ isUsableFor(e)

\* The guards of EvidenceRegistry.commit, PassportRegistry.commitPassport and bumpEpoch.
Succeeds(tx) ==
  CASE tx.kind = "evidence" -> \A e \in tx.evidence : ~Committed(e)
    [] tx.kind = "passport" -> tx.version = currentPassportVersion + 1 /\ \A e \in tx.evidence : isUsableFor(e)
    [] tx.kind = "epoch"    -> TRUE

MaySend(n) == Len(txs) + n <= MaxTxs
send(batch) == txs' = txs \o batch

Mine(i) ==
  /\ txs[i].block = Pending
  /\ txs' = [txs EXCEPT ![i].block = IF Succeeds(txs[i]) THEN height + 1 ELSE Reverted]
  /\ UNCHANGED invalidated

Invalidate(e) ==
  /\ MayInvalidate /\ isUsableFor(e)
  /\ invalidated' = invalidated \cup {e}
  /\ UNCHANGED txs
=============================================================================
