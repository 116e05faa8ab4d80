----------------------------- MODULE WorkQueue -----------------------------
(***************************************************************************)
(* The evidence work queue (services/evidence/src/queue.ts): jobs that are *)
(* claimed under a lease, reported as done or failed, and retried with a   *)
(* backoff.                                                                *)
(*                                                                         *)
(* Times are kept relative to now: dueIn is nextAttemptAt - now, down to   *)
(* -MaxLate, and leaseFor is leaseExpiresAt - now, down to 0.              *)
(***************************************************************************)
EXTENDS Integers

CONSTANTS
  Jobs,            \* job identifiers, derived from the idempotency keys
  MaxAttempts,
  LeaseSeconds,
  BackoffCap,
  MaxLate          \* how overdue a job is told apart from an overdue one

ASSUME QueueConstants ==
  /\ Jobs \subseteq Nat
  /\ {MaxAttempts, LeaseSeconds, BackoffCap, MaxLate} \subseteq Nat /\ MaxAttempts > 0

VARIABLE queue     \* job -> its record

Absent == [state |-> "ABSENT", attempts |-> 0, dueIn |-> 0, leaseFor |-> 0]
Terminal == {"SUCCEEDED", "RECONCILIATION_REQUIRED", "REJECTED"}

Later(x, y) == IF x < y THEN y ELSE x
Clip(seconds) == Later(seconds, -MaxLate)

\* Full jitter: a whole number of seconds below the bounded exponential, at least 1.
backoffSeconds(attempt) ==
  LET exponential == 2 ^ attempt
      bounded == IF exponential < BackoffCap THEN exponential ELSE BackoffCap
  IN  {Later(1, seconds) : seconds \in 0..(bounded - 1)}

\* Variant: a duplicate submission arms the job again.
enqueueRearms(j) == queue' = [queue EXCEPT ![j] = [Absent EXCEPT !.state = "PENDING"]]

\* An existing job is returned untouched, terminal or not.
enqueue(j) ==
  queue' = IF queue[j] = Absent THEN [queue EXCEPT ![j].state = "PENDING"] ELSE queue

LeaseExpired(job) == job.state = "LEASED" /\ job.leaseFor = 0

\* Variant: what a dead worker left behind is not taken up.
DueIfPending(j) == queue[j].dueIn <= 0 /\ queue[j].state = "PENDING"

Due(j) ==
  /\ queue[j].dueIn <= 0
  /\ queue[j].state = "PENDING" \/ LeaseExpired(queue[j])

Claimable(j) ==
  /\ Due(j)
  /\ \A k \in Jobs \ {j} :
       Due(k) => \/ queue[j].dueIn < queue[k].dueIn
                 \/ queue[j].dueIn = queue[k].dueIn /\ j < k

claim(j) ==
  /\ Claimable(j)
  /\ queue' = [queue EXCEPT ![j].state = "LEASED", ![j].leaseFor = LeaseSeconds]

\* Neither report asks who holds the lease or what the state is.
succeed(j) == queue' = [queue EXCEPT ![j].state = "SUCCEEDED", ![j].leaseFor = 0]

\* The report carries the time its worker started at, age seconds ago.
fail(j, terminal, age) ==
  LET attempts == queue[j].attempts + 1
      state == IF terminal THEN "REJECTED"
               ELSE IF attempts >= MaxAttempts THEN "RECONCILIATION_REQUIRED"
               ELSE "PENDING"
  IN  \E backoff \in backoffSeconds(attempts) :
        queue' = [queue EXCEPT ![j] =
          [state |-> state, attempts |-> attempts, leaseFor |-> 0,
           dueIn |-> IF state = "PENDING" THEN Clip(backoff - age) ELSE queue[j].dueIn]]

\* A second passes; a terminal job's times no longer matter.
elapse ==
  queue' = [j \in Jobs |->
    IF queue[j].state \in {"PENDING", "LEASED"}
    THEN [queue[j] EXCEPT !.dueIn = Clip(@ - 1), !.leaseFor = Later(@ - 1, 0)]
    ELSE queue[j]]
=============================================================================
