---------------------------- MODULE SentinelHost ----------------------------
(***************************************************************************)
(* What wakes a Sentinel and what it then decides: triggers and their      *)
(* identities, the supervisor's queue and its drain by priority, the       *)
(* Safety Buffer compiler, the budget's windows and the repayment that     *)
(* moves the account (services/sentinel: triggers.ts, supervisor.ts,       *)
(* templates.ts, validate.ts; packages/schemas: sentinel-triggers.ts,      *)
(* sentinel-budget.ts).  Sentinel leaves these choices open and follows    *)
(* every await of one instance; here several instances share one account   *)
(* and a call of processTrigger has two steps, up to its reservation and   *)
(* from its authorization on.  The process itself does not stop here: its  *)
(* queue and its ledgers live in memory, and Sentinel follows restarts.    *)
(***************************************************************************)
EXTENDS Integers, Sequences, FiniteSets, FiniteSetsExt, SequencesExt

CONSTANTS
  Instances,
  PolicyOf,      \* instance -> [priority, specs, confirm, config, budget]
  Whole,         \* ten thousand basis points
  Debts,         \* 0..most the account may owe
  Limits,        \* maintenance limits prices may lead to
  Contents,      \* what an observer may report
  Claims,        \* the authority it may claim
  Interval,      \* of scheduled evaluations, in seconds
  MaxClock,      \* bound on the host's clock
  MaxWakes       \* bound on triggers delivered

YIELD == 4       \* the rank of P4_YIELD_OPPORTUNISTIC

\* From strongest to weakest authority.
TriggerAuthorities ==
  <<"DETERMINISTIC_ONCHAIN", "DETERMINISTIC_SCHEDULE", "VERIFIED_EXTERNAL",
    "EVIDENCE_BOUND", "AI_INTERPRETED", "LOW_TRUST_OBSERVATION">>

ASSUME HostConstants ==
  /\ \A i \in Instances : PolicyOf[i].priority \in 0..YIELD
  /\ Whole \in Nat \ {0} /\ Interval \in Nat \ {0} /\ {MaxClock, MaxWakes} \subseteq Nat
  /\ \A s \in {Debts, Limits} : s \subseteq Nat /\ IsFiniteSet(s) /\ s # {}
  /\ Claims \subseteq Range(TriggerAuthorities)

\* What the schemas of a budget and of the template's configuration let through.
ASSUME PolicyNumbers ==
  \A i \in Instances :
    LET policy == PolicyOf[i] IN
    /\ {policy.config.targetBufferBps, policy.config.actionBufferBps} \subseteq 0..Whole
    /\ {policy.config.maxRepayPerRun, policy.budget.maxPerRun, policy.budget.cooldown} \subseteq Nat
    /\ \A w \in policy.budget.spending \cup policy.budget.counts : {w.seconds, w.cap} \subseteq Nat

VARIABLES
  clock,
  account,       \* [debt, maintenance] of the one account
  queue,         \* the supervisor's pending items: [instance, trigger]
  batch,         \* the items of the drain under way, sorted
  at,            \* which of them processTrigger is on, 0 when nothing is drained
  flight,        \* the run between its reservation and its result
  runs,          \* run id -> [state, entry, amount, effectiveAt, tx]
  wakes

hostVars == <<clock, account, queue, batch, at, flight, runs, wakes>>

-----------------------------------------------------------------------------
(* Triggers.  An identity is derived from the occurrence, and the run's     *)
(* from the instance and that identity.                                     *)

authorityRank(a) == CHOOSE n \in DOMAIN TriggerAuthorities : TriggerAuthorities[n] = a
authorityAtLeast(a, least) == authorityRank(a) <= authorityRank(least)

ClassAuthorityCeiling(class) ==
  CASE class \in {"ONCHAIN_STATE", "RISK_STATE", "PASSPORT_STATE", "ORACLE_STATE"} -> "DETERMINISTIC_ONCHAIN"
    [] class \in {"TIME", "MANUAL", "COMPOSITE"} -> "DETERMINISTIC_SCHEDULE"
    [] class \in {"MARKET_STATE", "CORPORATE_ACTION"} -> "VERIFIED_EXTERNAL"
    [] class = "EVIDENCE_OBSERVATION" -> "EVIDENCE_BOUND"
    [] class = "AI_OBSERVATION" -> "AI_INTERPRETED"

\* A source may claim less than its class allows, never more.
clampAuthority(class, claimed) ==
  LET ceiling == ClassAuthorityCeiling(class)
  IN  IF authorityAtLeast(claimed, ceiling) THEN ceiling ELSE claimed

Trigger(class, claimed, identity) ==
  [class |-> class, authority |-> clampAuthority(class, claimed), identity |-> identity]

scheduleBucket(seconds) == (seconds \div Interval) * Interval

TimeTrigger(i) == Trigger("TIME", "DETERMINISTIC_SCHEDULE", <<"TIME", i, scheduleBucket(clock)>>)

\* The identity of an account's health is its status in a block; a block is a second here.
HealthTrigger ==
  Trigger("RISK_STATE", "DETERMINISTIC_ONCHAIN",
          <<"RISK_STATE", account.debt > account.maintenance, clock>>)

ObservationTriggers ==
  {Trigger("AI_OBSERVATION", claimed, <<"AI_OBSERVATION", c>>) : claimed \in Claims, c \in Contents}

\* A spec is the set of classes it names, of more than one class if it is composite: any of them
\* matches.
triggerMatchesInstance(i, trigger) == \E spec \in PolicyOf[i].specs : trigger.class \in spec

-----------------------------------------------------------------------------
(* The pinned account and the Safety Buffer compiler. *)

bufferBps(acct) ==
  IF acct.maintenance = 0 THEN Whole
  ELSE IF acct.debt >= acct.maintenance THEN 0
  ELSE ((acct.maintenance - acct.debt) * Whole) \div acct.maintenance

\* Repay what brings the debt down to where the buffer is the target, up to the cap of one run;
\* 0 when there is nothing to do.
compile(config, snapshot) ==
  LET targetDebt == (snapshot.maintenance * (Whole - config.targetBufferBps)) \div Whole
      shortfall  == IF snapshot.debt > targetDebt THEN snapshot.debt - targetDebt ELSE 0
  IN  IF \/ snapshot.debt = 0 \/ snapshot.maintenance = 0
         \/ bufferBps(snapshot) > config.actionBufferBps
      THEN 0 ELSE Min({shortfall, config.maxRepayPerRun})

-----------------------------------------------------------------------------
(* The budget of an instance.  Each limit is a number of seconds and what   *)
(* may be spent, or how many runs may be made, in them; that of the total   *)
(* looks back past the start.                                               *)

\* Variant: what was confirmed counts, what is still unknown does not.
committedRunsConfirmed(i) == {r \in DOMAIN runs : r[1] = i /\ runs[r].entry = "CONFIRMED"}
committedRuns(i) == {r \in DOMAIN runs : r[1] = i /\ runs[r].entry \in {"RESERVED", "CONFIRMED"}}

committedSince(i, since) == {r \in committedRuns(i) : runs[r].effectiveAt >= since}
spentBy(entries) == SumFunctionOnSet([r \in DOMAIN runs |-> runs[r].amount], entries)

\* withinBudget.
withinPacing(i, amount) ==
  LET budget == PolicyOf[i].budget IN
  /\ amount <= budget.maxPerRun
  /\ \A w \in budget.spending : spentBy(committedSince(i, clock - w.seconds)) + amount <= w.cap
  /\ \A w \in budget.counts : Cardinality(committedSince(i, clock - w.seconds)) < w.cap
  /\ \A r \in committedRuns(i) : clock - runs[r].effectiveAt >= budget.cooldown

\* validatePlan, for the one plan there is, a repayment.
confirmationRequired(policy, trigger, amount) ==
  \/ policy.mode = "CONFIRM_EVERY_ACTION"
  \/ policy.mode = "CONFIRM_ABOVE_AMOUNT" /\ amount > policy.threshold
  \/ policy.mode = "CONFIRM_WEAK_TRIGGER" /\ ~authorityAtLeast(trigger.authority, "VERIFIED_EXTERNAL")

validatePlan(i, trigger, amount) ==
  IF ~withinPacing(i, amount) THEN "BLOCKED_BY_BUDGET"
  ELSE IF confirmationRequired(PolicyOf[i].confirm, trigger, amount) THEN "WAITING_USER_CONFIRMATION"
  ELSE "AUTHORIZATION_CHECKING"

-----------------------------------------------------------------------------
(* The supervisor. *)

runIdOf(item) == <<item.instance, item.trigger.identity>>
priorityOf(item) == PolicyOf[item.instance].priority

Draining == at # 0
NoFlight == [run |-> <<>>, amount |-> 0]

Enqueue(i, trigger) ==
  /\ wakes < MaxWakes /\ wakes' = wakes + 1
  /\ queue' = Append(queue, [instance |-> i, trigger |-> trigger])
  /\ UNCHANGED <<clock, account, batch, at, flight, runs>>

Wake ==
  \E i \in Instances :
    \E trigger \in {TimeTrigger(i), HealthTrigger} \cup ObservationTriggers : Enqueue(i, trigger)

\* Behind everything of its own priority or a higher one.
InsertByPriority(items, item) ==
  InsertAt(items, Max({0} \cup {n \in DOMAIN items : priorityOf(items[n]) <= priorityOf(item)}) + 1,
           item)

\* Highest priority first, in order of arrival within one.
Sorted(items) == FoldLeft(InsertByPriority, <<>>, items)

Drain ==
  /\ ~Draining /\ queue # <<>>
  /\ batch' = Sorted(queue) /\ at' = 1 /\ queue' = <<>>
  /\ UNCHANGED <<clock, account, flight, runs, wakes>>

\* The drain goes on to the next item, or is over.
NextItem == IF at = Len(batch) THEN at' = 0 /\ batch' = <<>> ELSE at' = at + 1 /\ UNCHANGED batch

\* An item above yield claims the account for the rest of the drain, whatever became of it.
higherPriorityPending == \E n \in 1..at - 1 : priorityOf(batch[n]) < YIELD

\* Variant: yield does not yield.
armedGateOpen(item) == triggerMatchesInstance(item.instance, item.trigger)

\* The instance is armed and in its window here.
armedGate(item) ==
  /\ triggerMatchesInstance(item.instance, item.trigger)
  /\ ~(higherPriorityPending /\ priorityOf(item) >= YIELD)

\* Where the run stops before it asks for authority, and the amount it goes on with otherwise.
Decision(item) ==
  LET repay == compile(PolicyOf[item.instance].config, account) IN
  IF ~armedGate(item) THEN [state |-> "BLOCKED_BY_POLICY", amount |-> 0]
  ELSE IF repay = 0 THEN [state |-> "NO_ACTION_REQUIRED", amount |-> 0]
  ELSE [state |-> validatePlan(item.instance, item.trigger, repay), amount |-> repay]

\* A run that was not on record, entered now.
Records(id, state, amount, entry) ==
  runs' = [r \in DOMAIN runs \cup {id} |->
             IF r # id THEN runs[r]
             ELSE [state |-> state, amount |-> amount, effectiveAt |-> clock, tx |-> "none",
                   entry |-> entry]]

\* processTrigger up to its reservation: a second delivery finds the record and does nothing.
TakeItem ==
  /\ Draining /\ flight = NoFlight
  /\ LET item == batch[at]
         id   == runIdOf(item)
         made == Decision(item)
     IN  IF id \in DOMAIN runs
         THEN NextItem /\ UNCHANGED <<flight, runs>>
         ELSE IF made.state = "AUTHORIZATION_CHECKING"
         THEN /\ Records(id, made.state, made.amount, "RESERVED")
              /\ flight' = [run |-> id, amount |-> made.amount]
              /\ UNCHANGED <<batch, at>>
         ELSE Records(id, made.state, made.amount, "NONE") /\ NextItem /\ UNCHANGED flight
  /\ UNCHANGED <<clock, account, queue, wakes>>

Becomes(id, state, entry, tx) ==
  runs' = [runs EXCEPT ![id].state = state, ![id].entry = entry, ![id].tx = tx]
Repaid(amount) == account' = [account EXCEPT !.debt = IF @ > amount THEN @ - amount ELSE 0]

\* Authorization on live reads, which find the epoch moved, the mandate ended, or neither; then
\* the transaction lands, reverts, or nobody knows yet.
Finish ==
  /\ Draining /\ flight # NoFlight
  /\ flight' = NoFlight /\ NextItem
  /\ \/ \E state \in {"BLOCKED_BY_RISK_EPOCH", "BLOCKED_BY_MANDATE"} :
             Becomes(flight.run, state, "RELEASED", "none") /\ UNCHANGED account
     \/ Becomes(flight.run, "COMPLETE", "CONFIRMED", "success") /\ Repaid(flight.amount)
     \/ Becomes(flight.run, "COMPLETE", "RELEASED", "reverted") /\ UNCHANGED account
     \/ Becomes(flight.run, "EXECUTION_UNKNOWN", "RESERVED", "pending") /\ UNCHANGED account
  /\ UNCHANGED <<clock, queue, wakes>>

\* A read or the gateway throws, which ends the drain and loses the items it has not reached.  The
\* run stays where it was: a transaction sent by then is not on record.
Abort ==
  /\ Draining /\ at' = 0 /\ batch' = <<>> /\ flight' = NoFlight
  /\ IF flight = NoFlight
     THEN /\ runIdOf(batch[at]) \notin DOMAIN runs /\ armedGate(batch[at])
          /\ Records(runIdOf(batch[at]), "SNAPSHOT_PINNING", 0, "NONE")
     ELSE \E tx \in {"none", "unrecorded"} : Becomes(flight.run, "SUBMITTING", "RESERVED", tx)
  /\ UNCHANGED <<clock, account, queue, wakes>>

\* A transaction that was unknown lands or reverts; recover asks about those on record.
LateOutcome ==
  /\ \E r \in DOMAIN runs :
       /\ runs[r].tx \in {"pending", "unrecorded"}
       /\ \/ runs' = [runs EXCEPT ![r].tx = "success"] /\ Repaid(runs[r].amount)
          \/ runs' = [runs EXCEPT ![r].tx = "reverted"] /\ UNCHANGED account
  /\ UNCHANGED <<clock, queue, batch, at, flight, wakes>>

RecoverRuns ==
  /\ ~Draining
  /\ \E r \in DOMAIN runs :
       /\ runs[r].state = "EXECUTION_UNKNOWN"
       /\ \/ runs[r].tx = "success" /\ Becomes(r, "COMPLETE", "CONFIRMED", "success")
          \/ runs[r].tx = "reverted" /\ Becomes(r, "COMPLETE", "RELEASED", "reverted")
  /\ UNCHANGED <<clock, account, queue, batch, at, flight, wakes>>

\* The owner borrows or repays, prices move the limit, time passes.
AccountMoves ==
  /\ \E debt \in Debts, limit \in Limits :
       \/ account' = [account EXCEPT !.debt = debt]
       \/ account' = [account EXCEPT !.maintenance = limit]
  /\ UNCHANGED <<clock, queue, batch, at, flight, runs, wakes>>

ClockTicks ==
  /\ clock < MaxClock /\ clock' = clock + 1
  /\ UNCHANGED <<account, queue, batch, at, flight, runs, wakes>>

-----------------------------------------------------------------------------
HostInit ==
  /\ clock = 0 /\ account = [debt |-> Max(Debts), maintenance |-> Max(Limits)]
  /\ queue = <<>> /\ batch = <<>> /\ at = 0 /\ flight = NoFlight /\ runs = <<>> /\ wakes = 0

HostNext ==
  \/ Wake \/ Drain \/ TakeItem \/ Finish \/ Abort
  \/ LateOutcome \/ RecoverRuns \/ AccountMoves \/ ClockTicks

-----------------------------------------------------------------------------
(* Properties. *)

\* In every window that ends with a run that spent or may still spend, an instance kept to its
\* spending and run limits, and to its cooldown between runs, through executions that stayed
\* unknown, calls that failed after their reservation and late outcomes.
PacingHolds ==
  \A r \in UNION {committedRuns(i) : i \in Instances} :
    LET until == runs[r].effectiveAt
        window(seconds) == {q \in committedSince(r[1], until - seconds) : runs[q].effectiveAt <= until}
        budget == PolicyOf[r[1]].budget
    IN  /\ \A w \in budget.spending : spentBy(window(w.seconds)) <= w.cap
        /\ \A w \in budget.counts : Cardinality(window(w.seconds)) <= w.cap
        /\ \A q \in window(budget.cooldown - 1) : q = r

\* A yield run is never under way in a drain that holds anything of higher priority, in whatever
\* order the triggers came in (supervisor.ts).
YieldYields ==
  flight # NoFlight /\ priorityOf(batch[at]) = YIELD =>
    \A n \in DOMAIN batch : priorityOf(batch[n]) = YIELD
=============================================================================
