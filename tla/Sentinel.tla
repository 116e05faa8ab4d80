------------------------------ MODULE Sentinel ------------------------------
(***************************************************************************)
(* The off-chain Sentinel engine of one instance (services/sentinel):      *)
(* workers drive trigger occurrences through the run state machine,        *)
(* reserve budget, send one transaction each and record what became of it; *)
(* the process may stop at any await and recover() asks the chain about    *)
(* the runs it finds.                                                      *)
(*                                                                         *)
(* A worker is an asynchronous call of processTrigger or recover.  Its     *)
(* script is the awaits it has left: a run state is one stepRun to that    *)
(* state, any other word an await of its own.  Other workers, the chain    *)
(* and a crash may come between any two.  The store is FileSystemRunStore, *)
(* whose save reads the current record before it writes.                   *)
(***************************************************************************)
EXTENDS RunRecords, Sequences

CONSTANTS
  Workers,         \* asynchronous calls that may be in flight together
  LedgerSurvives,  \* whether the budget store outlives the process
  MaxNow,          \* bound on the clock, in seconds
  MaxEpoch,        \* bound on the risk epoch
  MaxCrashes       \* bound on crashes

ASSUME EngineConstants ==
  LedgerSurvives \in BOOLEAN /\ {MaxNow, MaxEpoch, MaxCrashes} \subseteq Nat

VARIABLES
  store,    \* run -> its persisted record
  ledger,   \* the instance's budget ledger
  txs,      \* transactions sent, in order: [run, amount, outcome]
  epoch,    \* live risk epoch
  live,     \* whether the mandate is live
  now,
  crashes,
  worker    \* worker -> its call in flight

env == <<epoch, live, now>>
vars == <<store, ledger, txs, env, crashes, worker>>

NoTx == 0
Absent == [state |-> "ABSENT", tx |-> NoTx, updatedAt |-> -1]
Record == [state : RunStates, tx : Nat, updatedAt : 0..MaxNow] \cup {Absent}

NoRun == "NO RUN"
Idle == [run |-> NoRun, script |-> <<>>, record |-> Absent, writing |-> FALSE, epoch |-> 0,
         amount |-> 0, sent |-> NoTx, ledger |-> EmptyLedger, backlog |-> {}]

\* What the chain answers about a transaction; a read that fails is as one that says pending.
Outcomes == {"pending", "success", "reverted"}
transactionOutcome(t) == txs[t].outcome
Known(t) == t # NoTx /\ transactionOutcome(t) # "pending"

-----------------------------------------------------------------------------
(* Workers. *)

Free(w) == worker[w].script = <<>>
Waits(w, await) == ~Free(w) /\ Head(worker[w].script) = await

\* The call goes on with these awaits; with none left it returns to recover's loop.
With(call, script) ==
  IF script = <<>> THEN [Idle EXCEPT !.backlog = call.backlog] ELSE [call EXCEPT !.script = script]
GoesOn(w, call, script) == worker' = [worker EXCEPT ![w] = With(call, script)]
Returns(w, call) == GoesOn(w, call, Tail(call.script))

\* An exception ends processTrigger, and recover with every run it has not reached.
Throws(w) == worker' = [worker EXCEPT ![w] = Idle]

-----------------------------------------------------------------------------
(* stepRun: advanceRun, then a save that reads the record before it writes. *)

\* advanceRun throws on an illegal edge; save throws RunConflict when the
\* record changed since this call read it.
BeginStep(w) ==
  /\ ~Free(w) /\ Head(worker[w].script) \in RunStates /\ ~worker[w].writing
  /\ LET call == worker[w]
         to   == Head(call.script)
     IN  IF to \in RunTransitions(call.record.state) /\ store[call.run].updatedAt = call.record.updatedAt
         THEN worker' = [worker EXCEPT
                ![w].writing = TRUE,
                ![w].record = [state |-> to, updatedAt |-> now,
                               tx |-> IF to = "SUBMITTED" THEN call.sent ELSE call.record.tx]]
         ELSE Throws(w)
  /\ UNCHANGED <<store, ledger, txs, env, crashes>>

EndStep(w) ==
  /\ worker[w].writing
  /\ store' = [store EXCEPT ![worker[w].run] = worker[w].record]
  /\ Returns(w, [worker[w] EXCEPT !.writing = FALSE])
  /\ UNCHANGED <<ledger, txs, env, crashes>>

-----------------------------------------------------------------------------
(* processTrigger. *)

\* openRun: a second delivery returns the record that exists and does nothing.
StartsRun(r) == store[r] = Absent

ProcessTrigger(w, r) ==
  /\ Free(w) /\ worker[w].backlog = {}
  /\ StartsRun(r)
  /\ GoesOn(w, [Idle EXCEPT !.run = r], <<"TRIGGER_OBSERVED", "GATE">>)
  /\ UNCHANGED <<store, ledger, txs, env, crashes>>

\* Armed, in its window, subscribed to the trigger and first in priority, or not.
ArmedGate(w) ==
  /\ Waits(w, "GATE")
  /\ \E script \in {<<"BLOCKED_BY_POLICY">>,
                    <<"TRIGGER_VALIDATED", "SNAPSHOT_PINNING", "SNAPSHOT">>} :
       GoesOn(w, worker[w], script)
  /\ UNCHANGED <<store, ledger, txs, env, crashes>>

BuildSnapshot(w) ==
  /\ Waits(w, "SNAPSHOT")
  /\ GoesOn(w, [worker[w] EXCEPT !.epoch = epoch], <<"SNAPSHOT_PINNED", "PLANNING", "COMPILE">>)
  /\ UNCHANGED <<store, ledger, txs, env, crashes>>

Compile(w) ==
  /\ Waits(w, "COMPILE")
  /\ \/ \E to \in {"PLAN_REJECTED", "NO_ACTION_REQUIRED"} : GoesOn(w, worker[w], <<to>>)
     \/ \E n \in Amounts :
          GoesOn(w, [worker[w] EXCEPT !.amount = n], <<"PLAN_READY", "READ_LEDGER", "VALIDATE">>)
  /\ UNCHANGED <<store, ledger, txs, env, crashes>>

ReadLedger(w) ==
  /\ Waits(w, "READ_LEDGER")
  /\ Returns(w, [worker[w] EXCEPT !.ledger = ledger])
  /\ UNCHANGED <<store, ledger, txs, env, crashes>>

\* validatePlan on the ledger read before it, and the reservation written over
\* that reading.
ValidatePlan(w) ==
  /\ Waits(w, "VALIDATE")
  /\ LET call == worker[w] IN
     \/ /\ \E to \in {"WAITING_USER_CONFIRMATION", "BLOCKED_BY_POLICY", "BLOCKED_BY_MARKET_SESSION"} :
             GoesOn(w, call, <<to>>)
        /\ UNCHANGED ledger
     \/ /\ ~withinBudget(call.ledger, call.amount)
        /\ GoesOn(w, call, <<"BLOCKED_BY_BUDGET">>)
        /\ UNCHANGED ledger
     \/ /\ withinBudget(call.ledger, call.amount)
        /\ ledger' = reserveBudget(call.ledger, call.run, call.amount)
        /\ GoesOn(w, call, <<"AUTHORIZATION_CHECKING", "AUTHORIZE">>)
  /\ UNCHANGED <<store, txs, env, crashes>>

\* The live epoch and mandate, read again before anything is spent.
CheckAuthorization(w) ==
  /\ Waits(w, "AUTHORIZE")
  /\ GoesOn(w, worker[w],
            CASE epoch # worker[w].epoch -> <<"READ_LEDGER", "RELEASE", "BLOCKED_BY_RISK_EPOCH">>
              [] ~live -> <<"READ_LEDGER", "RELEASE", "BLOCKED_BY_MANDATE">>
              [] OTHER -> <<"AUTHORIZED", "SUBMITTING", "EXECUTE">>)
  /\ UNCHANGED <<store, ledger, txs, env, crashes>>

\* gateway.execute: the wallet sends the transaction, or refuses and throws.  The gateway turns
\* down other plans than REPAY; the templates compile no other.
Execute(w) ==
  /\ Waits(w, "EXECUTE")
  /\ \/ Throws(w) /\ UNCHANGED txs
     \/ /\ txs' = Append(txs, [run |-> worker[w].run, amount |-> worker[w].amount, outcome |-> "pending"])
        /\ GoesOn(w, [worker[w] EXCEPT !.sent = Len(txs) + 1], <<"AWAIT_RECEIPT">>)
  /\ UNCHANGED <<store, ledger, env, crashes>>

AfterSuccess == <<"READ_LEDGER", "CONFIRM", "FILLED", "RECONCILING", "RECONCILED", "COMPLETE">>
AfterRevert == <<"READ_LEDGER", "RELEASE", "RECONCILING", "RECONCILED", "COMPLETE">>

\* Variant: an unknown execution is taken for one that never happened.
AfterUnknownReleased == <<"READ_LEDGER", "RELEASE">>

\* An unknown execution releases nothing.
AfterUnknown == <<>>

\* The receipt, a report that the outcome is unknown, or a timeout that throws.
AwaitReceipt(w) ==
  /\ Waits(w, "AWAIT_RECEIPT")
  /\ \/ /\ transactionOutcome(worker[w].sent) = "success"
        /\ GoesOn(w, worker[w], <<"SUBMITTED">> \o AfterSuccess)
     \/ /\ transactionOutcome(worker[w].sent) = "reverted"
        /\ GoesOn(w, worker[w], <<"SUBMITTED", "EXECUTION_UNKNOWN">> \o AfterRevert)
     \/ GoesOn(w, worker[w], <<"SUBMITTED", "EXECUTION_UNKNOWN">> \o AfterUnknown)
     \/ Throws(w)
  /\ UNCHANGED <<store, ledger, txs, env, crashes>>

ConfirmBudget(w) ==
  /\ Waits(w, "CONFIRM")
  /\ LET call == worker[w] IN
     IF canConfirm(call.ledger, call.run)
     THEN ledger' = confirmBudget(call.ledger, call.run) /\ Returns(w, call)
     ELSE Throws(w) /\ UNCHANGED ledger
  /\ UNCHANGED <<store, txs, env, crashes>>

ReleaseBudget(w) ==
  /\ Waits(w, "RELEASE")
  /\ LET call == worker[w] IN
     IF canRelease(call.ledger, call.run)
     THEN ledger' = releaseBudget(call.ledger, call.run) /\ Returns(w, call)
     ELSE Throws(w) /\ UNCHANGED ledger
  /\ UNCHANGED <<store, txs, env, crashes>>

-----------------------------------------------------------------------------
(* recover: every resumable run as it was listed, one after the other. *)

\* Variant: a supervisor that takes unknown executions for finished.
ResumableSettled == {r \in Runs : store[r].state \in RunResumableStates \ {"EXECUTION_UNKNOWN"}}
Resumable == {r \in Runs : store[r].state \in RunResumableStates}

Recover(w) ==
  /\ Free(w) /\ worker[w].backlog = {}
  /\ Resumable # {}
  /\ worker' = [worker EXCEPT ![w].backlog = {[run |-> r, record |-> store[r]] : r \in Resumable}]
  /\ UNCHANGED <<store, ledger, txs, env, crashes>>

When(condition, script) == IF condition THEN script ELSE <<>>

\* Variant: whatever is not a success counts as reverted.
ReconcileScriptHasty(state, outcome) ==
  IF outcome = "success"
  THEN <<"READ_LEDGER", "CONFIRM">> \o When(state # "RECONCILING", <<"RECONCILING">>)
         \o <<"RECONCILED", "COMPLETE">>
  ELSE <<"READ_LEDGER", "RELEASE">> \o When(state = "SUBMITTED", <<"EXECUTION_UNKNOWN">>)
         \o <<"RECONCILING", "RECONCILED", "COMPLETE">>

\* What reconcile does with a run found in this state, by what the chain answers.
ReconcileScript(state, outcome) ==
  CASE outcome = "success" ->
         <<"READ_LEDGER", "CONFIRM">> \o When(state = "SUBMITTED", <<"FILLED">>)
           \o When(state # "RECONCILING", <<"RECONCILING">>) \o <<"RECONCILED", "COMPLETE">>
    [] outcome = "reverted" ->
         <<"READ_LEDGER", "RELEASE">> \o When(state = "SUBMITTED", <<"EXECUTION_UNKNOWN">>)
           \o <<"RECONCILING", "RECONCILED", "COMPLETE">>
    [] OTHER -> <<>>

\* Variant: a run that was about to submit is resumed where it stopped.
WithoutTransactionResumed(state) == IF state = "SUBMITTING" THEN <<"EXECUTE">> ELSE <<>>

\* A run that recorded no transaction is returned as it is.
WithoutTransaction(state) == <<>>

Reconcile(w, found) ==
  /\ Free(w) /\ found \in worker[w].backlog
  /\ LET call == [Idle EXCEPT !.run = found.run, !.record = found.record,
                              !.backlog = worker[w].backlog \ {found}]
     IN  GoesOn(w, call, IF found.record.tx = NoTx THEN WithoutTransaction(found.record.state)
                         ELSE ReconcileScript(found.record.state, transactionOutcome(found.record.tx)))
  /\ UNCHANGED <<store, ledger, txs, env, crashes>>

-----------------------------------------------------------------------------
(* The world. *)

\* The gateway contract refuses a dead mandate and may refuse for other
\* reasons; it is given no risk epoch to compare.
Land(t) ==
  /\ transactionOutcome(t) = "pending"
  /\ \E outcome \in {"reverted"} \cup (IF live THEN {"success"} ELSE {}) :
       txs' = [txs EXCEPT ![t].outcome = outcome]
  /\ UNCHANGED <<store, ledger, env, crashes, worker>>

\* The process stops: every call in flight is gone, the files stay.
Crash ==
  /\ crashes < MaxCrashes
  /\ crashes' = crashes + 1
  /\ worker' = [w \in Workers |-> Idle]
  /\ ledger' = IF LedgerSurvives THEN ledger ELSE EmptyLedger
  /\ UNCHANGED <<store, txs, env>>

Tick == now < MaxNow /\ now' = now + 1 /\ UNCHANGED <<store, ledger, txs, epoch, live, crashes, worker>>
MoveEpoch ==
  epoch < MaxEpoch /\ epoch' = epoch + 1 /\ UNCHANGED <<store, ledger, txs, live, now, crashes, worker>>
EndMandate == live /\ live' = FALSE /\ UNCHANGED <<store, ledger, txs, epoch, now, crashes, worker>>

Init ==
  /\ store = [r \in Runs |-> Absent]
  /\ ledger = EmptyLedger
  /\ txs = <<>>
  /\ epoch = 0 /\ live = TRUE /\ now = 0
  /\ crashes = 0
  /\ worker = [w \in Workers |-> Idle]

\* The awaits of calls in flight.
Proceed(w) ==
  \/ BeginStep(w) \/ EndStep(w)
  \/ ArmedGate(w) \/ BuildSnapshot(w) \/ Compile(w) \/ ReadLedger(w) \/ ValidatePlan(w)
  \/ CheckAuthorization(w) \/ Execute(w) \/ AwaitReceipt(w) \/ ConfirmBudget(w) \/ ReleaseBudget(w)
  \/ \E found \in worker[w].backlog : Reconcile(w, found)

Next ==
  \/ \E w \in Workers : Proceed(w)
  \/ \E w \in Workers, r \in Runs : ProcessTrigger(w, r)
  \/ \E w \in Workers : Recover(w)
  \/ \E t \in DOMAIN txs : Land(t)
  \/ Crash \/ Tick \/ MoveEpoch \/ EndMandate

\* Calls in flight go on, and the host calls recover again and again.
Fairness == \A w \in Workers : WF_vars(Proceed(w)) /\ WF_vars(Recover(w))

Spec == Init /\ [][Next]_vars /\ Fairness

-----------------------------------------------------------------------------
(* Properties. *)

\* Records, ledger and calls in flight keep their types; what a save is about
\* to write is a record of the run the call is for.
TypeOK ==
  /\ store \in [Runs -> Record]
  /\ ledger \in Ledger
  /\ \A t \in DOMAIN txs : txs[t].run \in Runs /\ txs[t].amount \in Amounts /\ txs[t].outcome \in Outcomes
  /\ epoch \in 0..MaxEpoch /\ live \in BOOLEAN /\ now \in 0..MaxNow /\ crashes \in 0..MaxCrashes
  /\ \A w \in Workers : /\ worker[w].run \in Runs \cup {NoRun}
                        /\ worker[w].record \in Record
                        /\ worker[w].ledger \in Ledger
                        /\ worker[w].writing => worker[w].run \in Runs

MayHaveEffect(t) == transactionOutcome(t) # "reverted"

\* However often a trigger is delivered and wherever the process stops, one run
\* has at most one transaction that takes effect or still may (I-63).
OneEffectPerRun ==
  \A t, u \in DOMAIN txs : MayHaveEffect(t) /\ MayHaveEffect(u) /\ txs[t].run = txs[u].run => t = u

\* While a transaction may still land, and after it did, its run keeps its
\* budget: not knowing releases nothing (I-64).
UnknownHoldsBudget == \A t \in DOMAIN txs : MayHaveEffect(t) => txs[t].run \in committed(ledger)

\* All that was or may be spent stays inside the instance's total cap (I-69).
BudgetHolds ==
  LET effects == {t \in DOMAIN txs : MayHaveEffect(t)} IN
  FoldFunctionOnSet(+, 0, [t \in DOMAIN txs |-> txs[t].amount], effects) <= MaxTotal

\* A run is complete only when the chain has answered, and then its budget
\* entry says what the chain said.
CompleteMatchesChain ==
  \A r \in Runs : store[r].state = "COMPLETE" =>
    /\ Known(store[r].tx)
    /\ ledger[r].state = IF transactionOutcome(store[r].tx) = "success" THEN "CONFIRMED" ELSE "RELEASED"

\* A run that recover cannot take one step further, and where it stops for all
\* the runs behind it.
Stuck(r) ==
  /\ Known(store[r].tx)
  /\ \/ store[r].state = "RECONCILED"
     \/ store[r].state = "RECONCILING" /\ transactionOutcome(store[r].tx) = "reverted"

\* An unknown execution is settled once the chain knows, unless some run is
\* left where recover cannot go on.
UnknownIsResolved ==
  []<>(\A r \in Runs : ~Stuck(r)) =>
    \A r \in Runs : (store[r].state = "EXECUTION_UNKNOWN" /\ Known(store[r].tx)) ~> (store[r].state = "COMPLETE")

=============================================================================
