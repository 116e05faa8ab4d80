# Usance: a TLA+ verification project

This directory models the contracts and services of this repository in TLA+, model-checks
them with TLC on small instances, and proves with TLAPS, for every instance, what matters
most of the vault, the clearing house, delegation, the risk registries, the facility and its
substitutions, and the sentinel engine.
Paths are relative to the repository. `I-nn` are the invariants of `spec/invariants.md`.

Contents: 1 the system; 2 modules and code; 3 runs, bounds, fairness; 4 proofs;
5 seen while modelling; 6 what is not modelled; 7 plan.

## 1. The system

Usance lends a settlement token to accounts that pledge tokenised real-world assets.
Lenders share one pool. Borrowers' limits come from a chain of haircuts, gates and
exit-cost curves over live prices and dated evidence ("Passports"). An owner may sign a
*mandate* that lets an agent act within budgets, and an off-chain *sentinel* reacts to
triggers on the owner's behalf.

| Component | State it keeps | Operations | What is hard | What makes it correct |
|---|---|---|---|---|
| Lender vault (`LiquidityVault`) | cash, principal lent, receivables, reserves, bad debt, shares, exit queue with its head, liabilities and funded part | supply, withdraw, requestWithdrawal, cancelWithdrawal, claimWithdrawal, serviceWithdrawalQueue, lend, accrue, onRepaid, recordBadDebt, reserveCash, releaseCash | three claims on one balance; a bounded service loop; part-funded requests that are cancelled; rounding | promised cash is there; the queue is first-in first-out, its books balance; nobody's exit dilutes who stays |
| Borrowing ledger (`FinancingEngine`) | index, scaled principal per account and in total, rate curve | onBorrow, onRepay, accrue, accrueFor, setRateParams | rounding up and down at a moving index; a rate read from live pool cash; two-step recognition of interest | total = sum of accounts up to rounding; every interest delta reaches the lenders |
| Collateral custody (`CollateralVault`) | units held, units owed per account | deposit, release | tokens with transfer fees, direct transfers | held >= owed |
| Clearing house (`ClearingHouse`) | held lists, reservations, guardian overrides, settlement freshness bound | addCollateral, withdrawCollateral, borrow, repay, actOnBehalf, executeLiquidation, reserve, releaseReservation, setAccountRiskState, clearAccountRiskState, setSettlementMaxPriceAge, clearSettlementFreshness | prices that fail or age between any two calls; three contracts moved by one call; an exit that must never lock | only inputs endanger an account; repay always open; debt never appears without payment; the two ledgers move together |
| Risk kernel (`RiskMath`) | none | gates, evaluation, borrow rate, index accrual | order of gates, rounding direction | (through the components that call it) |
| Mandates (`MandateRegistry`) | envelopes, nonces, per-mandate counters, paused/revoked | register, pause, resume, revoke, authorize | replay of a signature; splitting one large request into many small ones | signed caps bound everything; nothing is un-revoked |
| Intents (`IntentBook`) | status, authorized, reserved, filled, released | validateIntent, reserveIntent, submitIntent, recordFill, markExecutionUnknown, requireReconciliation, cancelIntent, reconcile | answers that come late, twice or never | what is held back = what is outstanding |
| Delegation gateway | (uses the above) | execute | a request built from live state | as above |
| Risk policies, assets, Passports, emergency controller | parameters, queued changes, epoch; statuses; dated versions; freeze flag | create, update, queue, execute, cancel, setExitCurve, bind, commit, restrict, freeze, disable | queued changes that land after other changes; statuses compared as numbers and gated by value | looser only on notice; a quote's epoch binds what it was priced on; a guardian only restricts |
| Sentinel engine and host | run records (files), budget ledgers, a queue of triggers, in-flight calls | enqueue, drain, processTrigger, recover/reconcile | awaits between read and write; crash between any two; a receipt that times out; priorities; windows that count what is unknown | one effect per run; unknown releases nothing; caps, windows and cooldown; yield gives way; complete runs agree with the chain |
| Institutional facility (`InstitutionalFacility`) | facility and substitution state, the adapter and units relied on, what each adapter holds, requests in progress | fund, commit, activate, poke, repay, requestSubstitution, commitReplacement, reconcileCommitment, releaseOld, substituteAtomic, abort, cancel, initiateRecall, settle | custody that answers late, short or never; recall and default in the middle of a substitution | collateral is behind the debt at every moment; a release only of what was replaced |
| Substitution operations of the web tier | operation rows and their events, sign-in challenges and sessions | create, prepare, refresh, reconcile, read; a script that drives the facility | concurrent calls that read, wait and write the same row; a facility that tells little about the past | preparations do not mix; a reported release took place |
| Base portfolio credit (`PortfolioRevolvingCredit`, `RebasingCollateralVault`) | debt, cash, admitted instruments, claims in shares | admit, fund, commit, activate, draw, repay, withdraw, settle, liquidate | shares of a token that rebases and rounds; caps that are shares of a changing total | what is taken out leaves room under the limit the next call sees; claims are in the vault and may leave it |
| Evidence service | a leased queue, workflow records with a stamp, what paths read in a document | enqueue, claim, succeed, fail; corroborate; step, reconcile; the commit and reconcile scripts | leases that expire under a live worker; commits whose outcome is unknown; two workers in one second | one conclusion per lease, every job settles; independent paths behind a floor; records follow the chain, one Passport per workflow |
| Indexer and corporate actions | projections with the keys they have seen; a snapshot with its depth | apply, rollbackTo; reconcileSnapshot, quantities | logs that come twice, late, or are taken back | projections say what the canonical log says; figures in use outlive reorganisations |
| Pools and portfolio limits (`corp-actions/pool`, `portfolio-risk`) | shares, balance, surplus; none | deposit, withdraw, rebase, fee, donation, seizure; evaluate | share prices that move; groups that overlap | nobody is diluted; groups stay capped |
| Web forms | a page, its quote, the transactions it sent | sign in, quote, approve, submit, wait, arm and end a Sentinel | lost receipts, pages left, wallets that change account, a policy that moves | what a form was told was sent is not done again; what lands is what was shown |
| Sentinel registries, Rust core, provider adapters | see `PROJECT.json` "components" | | | |

How they interact. A user calls the clearing house, which in one transaction accrues
interest in the ledger, recognises it on the vault, moves collateral in custody and pays
or collects through the vault; prices, Passports, statuses and policies are read live. An
agent calls the delegation gateway (immediate effect, `actOnBehalf`) or validates and then
reserves an intent (two transactions, with an executor reporting the outcome later); both
are charged in the mandate registry. The sentinel calls the gateway from outside through a
wallet, and knows the result only by asking the chain. Evidence becomes a Passport through
the queue, the pipeline and a workflow whose last steps are transactions; the indexer and
the forms read what is on the chain, at some block, and act on it later. The web tier
records how a substitution of the institutional facility proceeds without being part of it. On chain everything is a sequence
of atomic calls: the difficulty is the *order* of calls by many actors and what each
leaves stale. Off chain the unit is the code between two `await`s.

`PROJECT.json` "hazards" lists the places where this bites, each with its line and the
properties that watch it. What holds by the shape of the code (a role check, a single
assignment) is modelled but not claimed as a property.

## 2. Modules and code

Definitions keep the source's names where they can. `PROJECT.json` "map" names the lines
each stands for. An operator whose comment starts with *Variant* is a faulty form of the
one after it; "mutants" says which property notices it. `MC*` modules give the constants
their values.

**Vault** (`core/LiquidityVault.sol`)
- `FixedPoint`: `mulDiv` rounding down and up, saturating subtraction, least.
- `LiquidityVault`: the whole contract. `_serviceQueue` is part of the calls that make it,
  as a bounded walk over the queue (a function on `0..MaxQueueSteps`, the code's
  `MAX_QUEUE_STEPS`). The parameters of the clearing house's calls (`LendOver`,
  `OnRepaidOver`) start from the receivables that recognition has just left, as the same
  transaction does.
- `ExitQueue`: what the queue promises, abstractly: filed requests are paid in full, once,
  oldest first, or given back. `LiquidityVault` implements it (`QueueKeepsPromises`).
- `LiquidityVaultProofs`: section 4, as for every `*Proofs` module below. `Induction` holds
  what they share: induction, folds over sets and lists, finite sums, quotients, greatest
  elements, insertion into and removal from a list.

**Clearing** (`core/ClearingHouse.sol`, `FinancingEngine.sol`, `CollateralVault.sol`, `libraries/RiskMath.sol`)
- `RiskMath`, `FinancingEngine`, `CollateralVault`: operators and actions of each part.
  `RiskMath` also holds the browser's copy of the pipeline (`packages/domain/src/risk.ts`),
  translated on its own (`previewEvaluate` and what it calls).
- `ClearingHouse` composes them by INSTANCE with the vault (`Pool!`), the ledger (`Debt!`)
  and custody (`Custody!`). The environment is explicit: `Publish` (a feed's answer, 0 for
  a failing one), `SetStanding` (an asset's status, capability, Passport), `SetSequencer`
  and `Tick`, which ages every quote. Liquidation takes whatever sale a settlement may
  report, so it covers every route and plan of the manager.
- `ClearingHouseProofs`.

**Delegation** (`core/MandateRegistry.sol`, `IntentBook.sol`, `DelegationGateway.sol`)
- `Authority` (roles), `MandateRegistry`, `IntentBook`, `Delegation` (the composition, with
  the account's debt, recognized value and reservation, the part of the clearing house they
  read and write). Anybody may present an envelope; the set of *signed* envelopes stands for
  the signature check, so an unsigned one can be presented and is refused.
- `DelegationProofs`.

**Registries** (`core/RiskPolicyRegistry.sol`, `AssetRegistry.sol`, `PassportRegistry.sol`, `EmergencyController.sol`)
- `RiskPolicyRegistry`: policies, their timelocked queue and the epoch.
- `RiskInputs`: the four together and what an account could borrow under them.
- `RegistryProofs`.

**Sentinel** (`services/sentinel`)
- `RunRecords` (`RUN_TRANSITIONS`, resumable states; reserve, confirm, release and the
  committed total of the budget), `Sentinel` (workers, stores, transactions, crashes of one
  instance). A call in flight is a *script*: the states and awaits it still has to go
  through. Each await is a step, so other workers, the chain, time and crashes come between
  any two. A state transition is two steps, as `run-store.ts` does it: read and check, then
  write. `Throws` ends a call as an exception does, and with it the rest of `recover`'s
  backlog. What a plan contains is left open.
- `SentinelHost`: what `Sentinel` leaves open. Several instances on one account, triggers
  with their identity and authority, the supervisor's queue and drain by priority, the
  confirmation modes, the Safety Buffer compiler, spending and run windows and the
  cooldown. It is coarser in time: `processTrigger` is two steps (up to the reservation;
  from the authorization on), and the process does not stop.
- `SentinelProofs`, about `Sentinel`.

**Evidence and Passports** (`services/evidence`, `packages/chaingpt`, `packages/zerog`, `packages/schemas/src/corroborate.ts`, `scripts/`)
- `Corroboration`: what each path reads in a document, which field values the paths establish
  together, and what of it reaches the Passport header. The parser is its table of patterns;
  a model's answer is a sequence of claims whose quotes stand in some relation to the
  document, and ChainGPT's comes in chunks of which any may be lost. `chunkDocument` is the
  algorithm itself, as a function on offsets.
- `WorkQueue`, `EvidenceJobs`: the leased queue, and workers that claim a job, read, run the
  pipeline, hand the outcome on and report, with every await a step.
- `PassportChain`: the registries as the service sees them, and transactions that land in
  some order or never.
- `PassportWorkflow`: the graph of `workflow.ts` (`Transitions`, as unions of what a phase
  may do), the store's compare-and-save by a stamp in whole seconds, workers holding the
  copy they read, and `reconcile`, which asks the chain.
- `Passports`: `commit-passport.mjs` and `reconcile-passport.mjs`, with workers, scripts and
  the guardian on one chain.
- `RegistryProofs`, which also holds the theorems about the risk registries.

**Institutional facility** (`institutional/InstitutionalFacility.sol`, `apps/web`)
- `SubstitutionPhases`: what readers of a substitution may rely on, abstractly. One at a
  time, bound to one request; it ends without effect, or releases the old collateral once
  the replacement is committed.
- `InstitutionalFacility`: the facility with adapters that deliver at once, later, in part
  or never. It implements `SubstitutionPhases` (`ImplementsPhases`).
- `Substitutions`: sign-in, the web tier's operation records, written by concurrent calls,
  and the operator's script. They use the facility *through the abstract specification
  only*, which the refinement justifies.
- `InstitutionalProofs`: the theorems of both.

**Read side and forms** (`services/indexer`, `packages/corp-actions`, `packages/portfolio-risk`, `contracts/src/base`, `apps/web`)
- `Projections`, `CorporateActions` (with the share pool): operators and state of each.
- `PortfolioCredit`: the portfolio valuation (`PortfolioRiskEngine.sol` computes what
  `evaluate.ts` does) and the Base facility over a rebasing vault that is valued by it.
- `AccountActions`: `tx.ts`, the quotes, sign-in and every write form. A form reads a
  quote, takes an amount and submits; each await is a step.
- `ReadModels` puts these and `SentinelHost` next to each other. They share no state, so a
  behaviour follows one of seven parts (variable `part`: mandates, factors, shares,
  portfolio, credit, forms, host) and the run's state space is the sum of theirs, not the
  product. The chain that reorganises belongs to `ReadModels`.
- `ReadModelProofs`.

## 3. Runs, bounds, fairness

| Run | Instance | Shows |
|---|---|---|
| `vault` | 2 lenders (symmetric), amounts 1-2, 3 units of money, a loss of 1, 2 requests, 1 step per service, half of interest reserved | promised cash is there (`CashCovered`), first in first out (`QueueFifo`), the queue's books (`QueueBalanced`), no dilution (`HoldersNotDiluted`), refinement of `ExitQueue` (`QueueKeepsPromises`); no deadlock |
| `clearing_debt` | 2 borrowers (symmetric), 1 asset, settlement price 2 or 3, quotes go stale, overrides, transfer fees and direct transfers | `CustodySolvent`, `DebtsAddUp`, `RepayAlwaysOpen`, `BooksFollowDebt` |
| `clearing_assets` | 1 borrower, 2 assets whose quotes go stale, one may be suspended, the settlement feed may fail; a lender, a change of the rate, a poke | no step of anybody takes a healthy account below maintenance but an input, time, or a lender who leaves before the time is charged (`OnlyInputsEndanger`) |
| `delegation` | 1 owner, 1 agent, 3 plans, two envelopes signed with one nonce and one unsigned, guardian, governance, executor | `ReservedIsOutstanding`, `SignedCapsHold`, `NeverPromisedTwice` |
| `registries` | 1 asset, 1 policy, 4 proposals (stricter, looser, mixed, ill-formed), timelock 1 | `QuotesBindPolicy`, `LooserOnlyOnNotice`, `GuardianRaisesNothing` |
| `sentinel` | 1 worker, 2 runs, total cap 2, a crash, the epoch may move, the mandate may end | `OneEffectPerRun`, `UnknownHoldsBudget`, `BudgetHolds`, `CompleteMatchesChain`, `UnknownIsResolved` |
| `jobs` | 2 jobs, 2 workers, a parser, two prompts of one model (one asked in two chunks that contradict each other), a path asked once, and one whose output always misstates; a disputed and a forged document, 2 attempts, 1 death | an outcome is handed on again only after a lease expired (`RepeatsNeedAReclaim`), a floor has two independent groups behind it, whichever paths and chunks were lost (`FloorNeedsTwoPaths`), every job comes to rest (`EveryJobSettles`) |
| `passport_workers` (expects a violation) | 1 workflow citing 1 document, 2 workers, 4 transactions, saves in one second or not | two workers within one second can land a workflow's Passport twice (`OnePassportPerWorkflow`, section 5) |
| `passports` | 1 workflow, 1 worker, 1 run of the commit script, the reconcile script, a guardian who invalidates, 5 transactions | a record is never ahead of the chain (`RecordsFollowChain`), a Passport that is sent again lands once (`OnePassportPerWorkflow`), the script's proofs name what is there (`ProofsAreOnChain`) |
| `facility` | 2 adapters, 2 requests, 2 units (so that a delivery may be short), one policy change, a restriction, maturity at 1 | `CollateralBehindDebt`, `ImplementsPhases` |
| `substitutions` | 1 web request and the zero one, 1 script request, 2 calls that run side by side, 2 sign-ins | `ReleaseReportsAreTrue`, `PreparationsDoNotMix` |
| `views` | see `MCReadModels`: 3 blocks, 2 forks, 2 observations under way; 5 pool actions; 3 positions with two overlapping dimensions; 2 instruments on one venue; 2 wallets, 2 visits, 2 wishes; a safety and a yield instance, 3 triggers | `ProjectionsFollowTheLog`, `FiguresOutliveReorgs`, `NobodyIsDiluted`, `GroupsStayCapped`, `TakingOutLeavesRoom`, `WishedOnce`, `LandsAsShown`, `PacingHolds`, `YieldYields` |

Two pure algorithms are compared with what is said of them over bounded inputs, as
assumptions that TLC evaluates before it starts: `PreviewAgrees` (run `registries`; what the
browser previews equals what the kernel computes, for every mix of gates, tiers, floors,
caps and debts listed in `MCRiskInputs` and with timestamps in the future, which the shared
fixtures never contain) and `SpansSurviveChunking` (run `jobs`; a span no longer than the
overlap lies whole in some chunk, for all texts of 8 to 11 characters over either pair of
separators, in windows of 8).

Every property has a mutant of the code that breaks it under the same bounds. The `TypeOK`s
are stated in the modules for the proofs; those of the modules section 4 is about are proved.

**Why the bounds are enough.** Units are scaled down so that every division rounds on some
path: a "whole" of 2 to 10 basis points, an index starting at 2, conversion prices 2 and 3
against a token unit of 2, factors 1, 2 and 3 over a neutral 2. Two requests with one step
per service exercise the tail the bound leaves (a service that stops in mid-queue), part
funding, cancellation of a part-funded request, and a head that skips a settled one. Two
borrowers are what "total against sum" needs, two assets what an ordered list needs, three
plans under two counters what splitting needs, one crash interrupts a run or
the recovery of one whose send was refused, two workers or calls are what a lost update
needs, one fork with two readings under way is what a stale reading needs, two forks are what
digs below a depth that one cannot, and three positions are what two groups that overlap in
one position need.

Bounds that stand in guards: `MaxCash`, `MaxLoss`, `MaxRequests` (vault); `MaxHolding`,
`MaxSurplus`, `MaxElapsed`, `MaxIndex`, `MaxCash + MaxGain` in `InBounds` (clearing; a
repayment in full is exempt, so that `RepayAlwaysOpen` speaks of the code's guards and not
of the bound); `MaxTime`, `MaxDebt` (delegation); `MaxTime`, `MaxEpoch`, `MaxVersion`
(registries); `MaxNow`, `MaxEpoch`, `MaxCrashes` (sentinel); `MaxLate` (how overdue a job is
told apart), `MaxDeaths` (jobs); `MaxTxs`, `MaxRuns` (Passports; when no transaction is
left to send, a sender waits); `MaxTime`, `MaxEpoch`, `MaxOwed` (facility); `MaxCalls`
(substitutions); `MaxBlocks`, `MaxForks`, `MaxReadings`, `MaxActions`, `MaxBalance`,
`MaxHeld`, `MaxFunds`, `MaxDebt`, `MaxEpoch`, `MaxVisits`, `MaxWishes`, `MaxSubmissions`,
`MaxTransactions`, `MaxClock`, `MaxWakes` (views). `MaxAttempts`, `MaxQueueSteps`,
`MaxInstruments` and `BackoffCap` are limits of the code. Deadlock is checked for the vault.
Elsewhere the system may really stop: time, money or blocks run out at a bound, or all work
is done.

**Fairness.** Two specifications assume any.
- `Sentinel`: `WF(Proceed(w))`, a call in flight goes on, which an event loop gives;
  `WF(Recover(w))`, the host calls `recover` again and again. Nothing in the repository does
  so outside its tests: it is an obligation on whoever deploys the engine. Nothing is
  assumed about the chain: a transaction may stay pending for ever, which is why
  `UnknownIsResolved` starts from one whose outcome is *known*. Its other premise is that
  time and again no run is at a point where `recover` throws (section 5); without it the
  runs behind such a one are never reached.
- `EvidenceJobs`: `WF(Proceed(w))` for each worker, `WF` of some claim (the host calls
  `runPipelineJobOnce` again), `WF(Tick)`. Deaths are bounded by `MaxDeaths`, and a job that
  is reported late may be tried more often than `MaxAttempts` (section 5).

**Premises**, what the models take as given about the outside:
- `sentinel`: one supervisor that works sequentially, as `drain` does. `LedgerSurvives =
  TRUE` stands for a durable `BudgetStore`, which the interface's comment
  (`budget-store.ts:4-6`) describes and the repository does not contain. With two workers on
  one run the file store lets both open it.
- `SentinelHost`: the process does not stop; a block is a second; the live reads at
  authorization may answer anything.
- `AccountActions`: the user submits a wish again only when told that it was declined or
  failed; a wallet that declines has sent nothing, one that answers with another error may
  have sent the call; wallets and the vault have what is asked; only the first wallet starts with a position; the user keeps to one menu
  of forms in a behaviour.
- `PortfolioCredit`: a borrower quotes at the block of the draw; the token rounds a transfer
  up to whole shares; `MaxLtvBps <= LiquidationLtvBps` and `SafetyBufferBps <= Bps`
  (`CreditTerms`).
- `ReadModels`: the walker rolls back before it goes on after a reorganisation, and delivers
  what is canonical at the time; a reorganisation is no deeper than the safe depth; an
  observation and the head it is judged by are read together.
- `PassportWorkflow`: a driver calls `step` along the path of the tests, with every edge of
  the graph.

## 4. Proofs

TLC checks one small instance; a theorem holds for every value of the constants that the
named `ASSUME` of its module admits: any number of accounts, lenders, requests, intents or
runs, any amounts, prices, rates and scales. Those assumptions are what the code enforces or
inherits from its types, and TLC evaluates each in the run of its module: `VaultConstants`,
`MarketConstants` (with the scales of `FixedPoint`), `DelegationConstants`,
`PolicyConstants`, `InputConstants`, `FacilityConstants`, `OperationConstants`,
`EngineConstants`, `BudgetConstants`, `HostConstants`, `PolicyNumbers`, `FormConstants`,
`CorporateConstants`, `PolicyIsSound`, `CreditTerms`, `ReadConstants`, `NamesAreApart`,
`QueueConstants`, `JobConstants`,
`CorroborationConstants`, `AnswerConstants`, `ChainConstants`, `WorkflowConstants` and
`ScriptConstants`. They say that quantities are naturals, that divisors are positive, that
fractions are at most one, and that sets which are summed over are finite; `AnswerConstants`,
that a model answers in claims, chunk by chunk, and 0G once; `NamesAreApart`, that no
account's address is a mandate's hash; `CreditTerms`, that some quote is live and no factor zero. Overflow of 256-bit arithmetic is
not modelled; checked subtractions are, as guards. The sentinel's theorems have one hypothesis more, stated in each (`Serial`, below);
`OnePassportLands` has two (`StampsTellApart`, `CitesAreApart`).

| Theorem | Property | States |
|---|---|---|
| `TypeCorrect` | | the vault's types: no subtraction goes below zero, no request is funded past its amount |
| `PromisedCashIsThere` | `CashCovered` | funded exits, reserves and settlement cash together never exceed the balance |
| `FirstInFirstOut` | `QueueFifo` | behind the head all is settled, past it nothing is funded |
| `QueueTotalsAreSums` | `QueueBalanced` | the queue's two running totals are the sums over its open requests |
| `VaultImplementsExitQueue` | `QueueKeepsPromises` | the vault refines `ExitQueue` |
| `SharesKeepTheirWorth` | `HoldersNotDiluted` | losses and reserves apart, no call lowers the assets behind a share |
| `CustodyIsSolvent` | `CustodySolvent` | units held cover the sum of units owed |
| `DebtsDoAddUp` | `DebtsAddUp` | total scaled principal is the sum of the accounts'; at any index the market's debt is theirs up to one unit of rounding each |
| `BooksDoFollowDebt` | `BooksFollowDebt` | no call makes the lenders' claims outgrow the debt behind them, a liquidation by at most a token |
| `OnlyInputsDoEndanger` | `OnlyInputsEndanger` | while prices, standings and time stand, no step of anybody takes a debtor who brings nothing in past the maintenance limit, a draw excepted by the unit its debt rounds up; left out are an account marked for liquidation and a lender who leaves before the elapsed time is charged |
| `DelegationAccounted` | | the inductive invariant of delegation |
| `ReservationsAreExact` | `ReservedIsOutstanding` | what is held back for an account is the sum of what its intents have outstanding |
| `CapsBoundCommitments` | `SignedCapsHold` | all that is authorized under a mandate is charged to it and stays within the caps its owner signed |
| `NothingPromisedTwice` | `NeverPromisedTwice` | a draw or a reservation leaves room for all that is promised already |
| `RegistriesTypes` | | the registries' types; no policy in force or queued has its limits out of order |
| `QuotesHold` | `QuotesBindPolicy` | while a quote's epoch stands, so does every parameter behind it |
| `LoosensOnNotice` | `LooserOnlyOnNotice` | only a change that waited out its timelock lends more |
| `GuardianOnlyTakesAway` | `GuardianRaisesNothing` | no guardian's call lets an account borrow more (section 5 names the two exceptions the property makes) |
| `FacilityCoherent` | | the inductive invariant of the facility |
| `CollateralIsThere` | `CollateralBehindDebt` | a live facility's collateral is in its adapter's custody |
| `FacilityImplementsPhases` | `ImplementsPhases` | the facility refines `SubstitutionPhases` |
| `ReportsAreTrue` | `ReleaseReportsAreTrue` | a view that reports a release is about one that took place, whatever the number of calls; the zero request id is left out |
| `PreparationsStayApart` | `PreparationsDoNotMix` | an approval follows only the same preparation's own event |
| `EngineTypes` | | the engine's types |
| `OneEffect` | `OneEffectPerRun` | a run has at most one transaction that takes effect or may |
| `UnknownStaysBooked` | `UnknownHoldsBudget` | a run whose transaction may still land keeps its budget entry |
| `BudgetCovers` | `BudgetHolds` | what was or may be spent stays within the total cap |
| `CompleteIsSettled` | `CompleteMatchesChain` | a complete run has the chain's answer behind it |
| `RunsKeepTheirPace` | `PacingHolds` | every spending window, run window and cooldown holds at every run on the books |
| `YieldGivesWay` | `YieldYields` | no yield run is under way in a drain that holds anything of higher priority |
| `WishesAreDoneOnce` | `WishedOnce` | a wish submitted again only when the form says declined or failed takes no second effect after a transaction the form was told of |
| `WhatLandsWasShown` | `LandsAsShown` | what lands is of the address and the policy on the form, an instance after its mandate |
| `NobodyIsEverDiluted` | `NobodyIsDiluted` | entering or leaving a pool costs no other holder a unit, and nobody's claim grows by more than he brings; a gift changes none |
| `RepeatsDoNeedAReclaim` | `RepeatsNeedAReclaim` | a job's outcome is handed on again only after an expired lease was taken up |
| `FloorDoesNeedTwoPaths` | `FloorNeedsTwoPaths` | a redemption floor on a Passport was given, with its quote, by paths of two independence groups, whatever they answer, whichever chunks are lost and however many extractors share a group |
| `RecordsDoFollowTheChain` | `RecordsFollowChain` | a record is past its evidence or its Passport only when the chain is, for any number of workers, also where their writes share a second |
| `OnePassportLands` | `OnePassportPerWorkflow` | a workflow's Passport lands once for any number of workers whose saves are told apart, whoever crashes, loses a receipt or sends again |
| `ProofsDoStandOnChain` | `ProofsAreOnChain` | what the commit script records is a Passport that landed after the one document it rests on |
| `ProjectionsDoFollowTheLog` | `ProjectionsFollowTheLog` | events twice, late or across reorganisations: a feed is the canonical executions that were applied, once each and in block order; a mandate whose events came in order on a chain that stood is shown as the log leaves it, and an applied revocation when either holds |
| `FiguresDoOutliveReorgs` | `FiguresOutliveReorgs` | through any number of reorganisations, a figure that restricts nothing was read from a block that stays, and says what the chain says there |
| `GroupsAlwaysStayCapped` | `GroupsStayCapped` | however many dimensions a position is in, what works of a group stays within that group's cap, and what works of a route within its depth |
| `ClaimsMayAlwaysLeave` | (part of `TakingOutLeavesRoom`) | `ClaimsCanLeave`: the Base vault holds every claim, and rounding never locks one in, whatever the factor becomes |

Each rests on an inductive invariant `I` with three lemmas, `Init => I`,
`I /\ [Next]_vars => I'` and `I => property`; an action property is a lemma
`I /\ [Next]_vars => [step]_vars`. What the invariants add to the properties, and why:

**Vault.** `IInv == TypeOK /\ CashCovered /\ QueueFifo`. The parts need each other. The walk
of `_serviceQueue` starts from `availableCash`, a *saturating* difference, so handing it out
keeps `CashCovered` only if the claims were covered before; and the walk keeps the order of
the queue only if nothing past the head had been funded. The walk is known only turn by
turn: `WalkIn` lifts a property of turns to the walk, once for its order, once for what it
gives out (`WalkFills`), which is what the totals and the refinement need. `QueueBalanced`
is inductive together with `IInv` and the bound on the vault's tokens (`Bounded`): a close takes
one term out of the sums, a join adds one, a service changes several. `HoldersNotDiluted` compares
two quotients by their products: every conversion rounds against who makes the call, so
entry and exit are fair to the rest (`EntryIsFair`, `ExitIsFair`); where there are no shares,
or nothing behind them, the code converts one for one and does not divide.

**Clearing house.** `Ledgers == CustodyHolds /\ Numbers /\ TotalIsSum`. Custody's total moves
with the one term that a deposit, release or seizure changes (`TermChanges`). The quotients
are used through what they bound (`DownBounds`, `UpBounds`, `UpOfSum`), never by how they
are computed. The debt of the whole is the sum of debts up to a unit each because rounding
up is subadditive (`UpOfSums`). For `BooksFollowDebt` each call is reduced to two figures,
by how much the claims grow in tokens and the debt in dollars: recognition rounds the
interest *down* into tokens (`Recognition`), a draw rounds its scaled principal up
(`Draws`), a repayment clears scaled principal rounded down and costs its dollars rounded up
(`Clears`, `RepayKeeps`). A repayment that passes what the pool believes it is owed is cut
off at zero, which is the property's first alternative. A liquidation's tokens are rounded
down and may fall short of the debt retired by less than one: the slack of the property is
exactly what `LiquidationKeeps` needs.

`OnlyInputsEndanger` judges every step, the lenders', governance's and a poke too. Where one
moves nothing of an account, its debt is no larger because the index of this instant does
not grow: accruing books what was computed (`IndexStands`), and cash that comes in lowers
utilisation and with it the rate for the time not yet charged, across the kink as well
(`UtilisationFalls`, `RateFalls`, `IndexFalls`). Cash that a lender takes out does the
opposite, which is why the property leaves that step out (section 5).
Collateral is worth what `RiskMath` folds over a *list*: a deposit must not lower the fold
(`PositionWorth`, `LimitsAre`), and an asset taken out whole leaves the list, which must be
what a quantity of zero is (`StrikingOff`, with `SumWithoutZero`). A withdrawal or a draw
is then covered by the check it passed, on the borrowing limit, which the initial
loan-to-value ratios keep below the maintenance limit (`BorrowWithinMaintenance`). A
liquidation takes only from accounts the property leaves aside or that are past their limit
(`LiquidationSpares`). `Placed` says that every held list is a list of assets and every
standing one that the registries may publish.

**Delegation.** `Accounted`: per intent, how `authorized`, `reserved`, `filled` and
`released` stand at each status; per mandate, that authorized equals charged; per account,
that the reservation is the sum of what is outstanding. Reconciliation gives back the
difference once because a reconciled intent says so of itself (`IntentShape`), and a
registration cannot find an old counter because nothing happens under an envelope that is
not registered (`UnregisteredIsFresh`).

**Registries.** `Coherent`: the policies in force and queued are ones `validParams` accepted,
and the quote's epoch is not ahead of the registry's. The two action properties compare the
amount an account could borrow before and after, so the proof shows the whole valuation
pipeline of `RiskMath` monotone: in the haircuts (a fold over the list), in the curve of
exit costs, in each age limit and gate, in the concentration cap, and through every floor of
the arithmetic.

**Evidence jobs.** `JobsOK`: for each job, the outcomes handed on, the workers that may still
hand one on and the claim to come if it is pending number at most one more than the
reclaims. A claim of a pending job trades the claim to come for a run; a claim of an expired
lease adds a run and a reclaim; a hand-over trades a run for an outcome; a failure gives back
the run and at most makes the job pending. That a job never enqueued has none of the three
(`Untouched`) is what its first enqueue needs.

`FloorNeedsTwoPaths` rests on `HandedOK`: what was handed on last is one of the job's
`Conclusions`. The rest is about one run of the pipeline. The parser has no pattern for a
floor (`ParserReadsNoFloor`); a model that gives one is heard to say so with a quote that is
not foreign, and a chunk that says otherwise with a true quote would have made its merge
abstain (`ReadersStandBehind`); the outcome `AGREED` of one value in more than one group has
two contributors of different groups (`CarriedFloorIsAgreed`).

**Passports.** `PassportsOK == InOrder(txs) /\ WorkersOK(txs) /\ ScriptsOK(txs)`. `InOrder` is
about the chain alone: the Passports that landed are versions 1 to the current one, and
every document one cites landed below it (`MiningGrows`). Everything else is stated *of a
chain* and is kept as the chain grows (`GrowsTo`, `BackedStays`, `HeldStays`,
`RecordedStays`): a copy, in the store or in the hands of a worker, claims no more than is
backed; a submission that is waited for covers what its copy speaks of (`SentFor`), so that
its receipts are enough; a conclusion was asked of the chain or repeats what it backed. Of
the workflow's graph the proof needs only which edges enter the states behind the evidence
and behind the Passport (`DrivenEdges`). A lost race writes an older copy, which was backed
too: that is why this holds whether or not two writes share a second, while
`OnePassportPerWorkflow` does not (section 5).

`OnePassportLands` has two hypotheses. `StampsTellApart`: no two saves share a second, or
there is one worker; the run `passport_workers` shows that it is needed. `CitesAreApart`: a
workflow is known by its documents, and no script commits the same one. Its invariant
`OnceOK` says that every Passport sent for a workflow is the candidate of its record, and
that the record was admitted: from there on no edge chooses a candidate again
(`DrivenKeepCandidates`). A worker's copy is the record or is stale, and a stale one that was
admitted has the same candidate, so a worker that sends again sends the same version
(`SaveIsOnce`). No two Passports that landed have one version (`VersionsAreApart`: as many
landed as there are versions).

**Facility.** `Coherent` adds to the types that a substitution is open exactly while the
status says so, with a replacement at *another* adapter, and that the units counted on are
in custody. Without the second part a release of the old collateral could take the new.

**Substitutions.** `Sound` relates what each call holds to the row it will write: while the
row has the version the call saw, its last event is the one that call itself wrote. The
version check is what makes a later write of somebody else visible. The facility enters
only through `SubstitutionPhases`, so the theorem holds over every facility that refines it.

**Sentinel.** `Kept` has a part about the stores (`Booked`: runs, transactions and budget
entries belong together) and one about every call in flight (`InStep`): what is still ahead
in its script says how far its run is, so a call that has yet to reserve has no
transaction, and one that has yet to confirm has the chain's answer. Crashes erase the
calls and leave the stores, which is why `Booked` must hold on its own. The hypothesis is `Serial`:
one call of the engine in flight at a time, and a budget store that outlives the process
(`LedgerSurvives`). These are the premises of the run `sentinel` (section 3); with two calls the total cap fails
(section 5), so the theorem says what a host that keeps calls apart buys. Any number of
runs, crashes, epochs and amounts is covered.

**The Sentinels' host.** `HostOK == HostTypes /\ Ranked(batch) /\ FlightOK /\ YieldYields /\
PacingHolds /\ \A r : RunOK(r)`. `withinPacing` counts back from the *clock*, while the
property counts back from each run: a new run enters with the latest time of all, so its
windows are the ones just checked and the others' do not change (`ReservingPaces`); an
outcome only takes runs out of windows (`SettlingPaces`), unless an unknown one is confirmed
late, which had its entry all along (`RunOK`). `YieldYields` needs the drain to be in order
of priority, that is that inserting each item behind its equals sorts any queue
(`InsertionRanks`, `SortedIs`): the gate looks only at what is still ahead, and what is
behind had a higher priority or the same.

**Forms.** `FormsOK == WishesOK /\ PageOK`. `Takes(w)` is the set of transactions a form was
told of that did something for a wish or still may: nothing that does it is sent after one
(`TakesLast`), and the wish's submission under way, of which there is one, names it
(`SubmissionOK`). A submission that ends without naming one, or with a reverted one, leaves
nothing to come that it was told of (`NothingTaken`); only then does the form say `REJECTED`
or `FAILED` (`RetryOK`), and only then is the wish submitted again (`SubmittingIsFresh`). A
receipt that is lost must therefore not be a failure. A call that the wallet sent and answered
with an error is not in `Takes`: nothing in the form keeps the wish from being done after it. `PageOK` is
what makes the form's address, its quote, its reads and its submissions those of *one*
address although the wallet may change it at any time: every read that could answer for
another was dropped with its form. The epoch that a loan's quote names is one there was,
with that share (`OfPolicy`), so a contract that asks for the epoch in force asks for the
share shown. Policies and transactions only become more (`Later`), which carries every such
fact over a step.

**Pools.** `PoolOK`: the surplus is in the balance, and where there are no shares there is
nothing behind them. The second part is what the first deposit needs, which mints one share
for each unit: whatever lay there already would be the depositor's. Every other deposit and
redemption is the vault's entry and exit again, with the lemmas shared (`EntryIsFair`,
`ExitIsFair`, `WorthOrder`, in `Induction`); that a depositor gains no more than he brings is
`EntryIsWorthItsPrice`. A gift goes to the surplus, which is why it changes no claim.

**Portfolio limits.** `PortfolioOK` only says that positions are finitely many and as they
were offered: the argument is in the evaluation. Positions of one group see the same
mates and are of the same kind, so they are scaled alike (`MatesAgree`); each works for its
amount times the least of its scales, rounded down (`WorkingIs`); so the group works for no
more than its scale times its amount (`SumWithin`), and the scale is what the cap allows
divided by that amount.

**Projections.** `LogOK == WalkerOK /\ KeysOK /\ FeedOK /\ MandatesOK` holds also between a
reorganisation and the rollback that answers it, so it is stated of what *stands*: all below
the block the walker has yet to roll back to (`Stands`). What was applied and stands is on
the chain under that key; a feed is in block order and, as far as it stands, is the
executions applied. The chain moves only above what stands (`ChainMovesAbove`), and the
rollback drops the rest by block number, from the keys and the feeds alike; keys kept alone
would stop the same log, mined again, from ever being applied. An event is inserted before
the first later one (`RecordedIs`), which is what pushing and sorting do to a list in order;
`BelowIs` says that filtering keeps order and content. A mandate is the fold of what was
seen of it, and a later event is applied to what the earlier ones leave (`FoldNext`): so it
is the log's only if nothing came late, while a revocation, being terminal, survives any
order as long as no rollback forgets the mandate (section 5 has the case where one does).

**Base vault.** `CustodyOK`: no more is claimed of a token than is held. A release keeps it
because units are rounded down twice, to the vault's balance and to the claim's part, and
shares up once, which does not come out above the claim (`LeavesWithin`). The same lemma
says that the vault's own check on the shares that left never refuses. The token is external:
that it takes whole shares, rounded up, is what it is modelled to do.

**Figures.** `FiguresOK` follows the height up to which blocks are final (`settled`), which
never goes down: what was read `SafeDepth` below the head of its time is below it, and says
what the chain says there. A block that is mined or replaced is above it (`ChainStep`), so
what is said of a final block is said for good (`SaidForGood`). The chain is external: that a
block which was once `safeDepthBlocks` deep stays is what the depth is configured for, and is
assumed.

**Induction.** The library's induction theorems quantify over predicates and are out of the
provers' reach. `Induction` proves first-order forms: induction over a set of naturals, over
the subsets of a finite set, iteration of a step, and from them that a fold over a finite set
is any one term and the fold of the rest (`SumRemove`, `SumChange`, `SumOrder`, `SumAdds`,
`SumWithin`).

**Model-checked only.**
- Liveness and `ENABLED`, which this prover does not do: `UnknownIsResolved`,
  `EveryJobSettles`, `RepayAlwaysOpen`.
- True of the code's own numbers and not of all: the room `TakingOutLeavesRoom` speaks of (a
  safety buffer narrower than one unit's rounding leaves none).
- `OnePassportPerWorkflow` where two workers save within one second: it is false (section 5).
- What a recursive computation yields for every input: `PreviewAgrees`,
  `SpansSurviveChunking` are comparisons over bounded inputs.

## 5. Seen while modelling

One disagreement has a run of its own, `passport_workers`. A save is accepted when the stored
stamp, in whole seconds, is the one that was read (`workflow-store.ts:83`), so within that
second every other worker's saves go unseen, although "two workers cannot both win"
(`workflow-store.ts:166`) and `reconcile` "stops the crash-then-retry loop from
double-committing" (`:202`). In the trace TLC prints, B reads the record at
`PASSPORT_BUILDING`; A saves six times in the same second, up to `PASSPORT_COMMIT_PENDING`,
with its evidence on chain; A sends Passport v1, which lands, in that second or later; B
saves its old copy over A's record, as the candidate for version 2. B's evidence reverts or
stays unconfirmed, reconciling finds the evidence committed and moves on, and v2 of the same
workflow lands. With one document instead of two the fourth transaction suffices, which is
why the run cites one. With distinct stamps (`SameSecond = {FALSE}`) the same instance holds,
641,155 states: what breaks is the stamp and not the protocol.

The other runs check what the code does do. While modelling it we met the following; no
run depends on them. Line numbers are the commit's.

*Vault and clearing.* `recordBadDebt` takes an uncovered loss off NAV twice
(`LiquidityVault.sol:216-229`; it has no caller). `accrue` and `setRateParams` advance the
index without recognising the interest on the vault. `serviceWithdrawalQueue` has no caller,
so cash that comes back can be lent again before the queue is served, though its comment
calls redemptions senior. The borrow rate is read from the pool's cash at accrual, so it
prices an interval that is already over: a lender who withdraws before anybody accrues raises
the rate for the whole of that time, and can so take a healthy account past its maintenance
limit, although `totalBorrowsStored` says that a rate applies over the interval that starts
where the last one stopped. `OnlyInputsEndanger` leaves that step out and no other of a
lender; with it in, TLC shows the withdrawal. A guardian override at or above `MARGIN_CALL`
makes a solvent account liquidatable.

*Delegation and registries.* Intents to `REPAY` or `ADD_COLLATERAL` are authorized and may be
reserved without a charge to the budget (`IntentBook.sol:185`). A fill stays reserved after
reconciliation and blocks `withdrawCollateral`. `ADD_COLLATERAL` through the gateway always
reverts. A guardian who moves an asset from `SUSPENDED` to `RETIRED`, or a Passport to
`REVOKED`, lifts the gate. `requireBorrowingAllowed` has no caller: a freeze acts through
the epoch only. `commitPassport`, `setStatus` and `bindRiskPolicy` do not move the epoch
although valuations depend on them; `setExitCurve` and `bindRiskPolicy` skip the timelock.

*Sentinel.*
- Two triggers of one instance in flight together overspend its total cap. `recover` throws
  on a run stopped at `RECONCILED` (or at `RECONCILING` when the transaction reverted) and
  resolves none behind it. A run that stops before its transaction is recorded keeps its
  reservation and is never taken up again. The epoch that was checked is not sent along.
- `receipt.ts` calls a run recovered from `EXECUTION_UNKNOWN` with success blocked or
  failed, because it looks for `FILLED` in a history that has it only on the direct path.
- Composite triggers are documented as a conjunction (`sentinel-triggers.ts:51-53`);
  `triggerMatchesInstance` takes any of them. `withinBudget` ignores
  `maxOutstandingReservationUsd18` and `maxSlippageBps`. Nothing resumes
  `WAITING_USER_CONFIRMATION`. The live view uses the borrow limit as maintenance limit.
- Yield gives way within one drain only; the refusal uses up the occurrence's run id; a
  duplicate of higher priority still claims the account; an exception in `processTrigger`
  loses the items drained with it. While one execution is unknown, a second occurrence may
  repay the same shortfall again.

*Evidence and Passports.* `maxAttempts` does not bound the attempts in general
(`workflow-store.ts:206`, `docs/RUNBOOKS.md:68`), and a report that comes after a reclaim
resets the count of the queue. The absence of a redemption floor can give a larger
recognised value than better evidence (`candidate.ts:184-185`). `COMMIT_FAILED` goes back to
`PENDING` without asking the chain; `PENDING` with a transaction sent is not resumable. The commit script run again after a stop between evidence
and Passport reverts on `AlreadyCommitted`; with two workers beside it one workflow can get
two Passports. `reconcile-passport.mjs` attributes an epoch by proximity and fails once
later evidence has landed. A lost chunk hides a disagreement between chunks.
An extractor whose chunks all failed still returns an empty extraction under its name. A
ChainGPT quote of fewer than 8 characters is accepted without being in the document
(`extractor.ts:393`: "other rules cover it"; none does), and so is an empty quote of 0G
(`text.includes`). When 0G answers twice about one field the first answer counts. The parser
reads no floor, so a floor needs both models. In `chaingpt/client.ts` the minimum interval
does not hold between a call's retries.

*Preview.* `domain/src/risk.ts:227` subtracts as signed numbers: with a grace period of zero
and a restart dated in the future it reports `SEQUENCER_GRACE`, where the kernel's saturating
`_age` does not, although the comment there says the implementations match.

*Substitutions.* `canAdvanceOperation` is called by no path that transitions: a refresh
moves `COMMITMENT_UNKNOWN` back to `AUTHORITY_RESOLVING`. The POST route accepts the zero
request id (`substitutions/route.ts:37`), which is the facility's "none": every idle facility
matches it, and `hedera-reconciliation.ts:82` reports it released, although the comments there
(`:29-36`, `:66-72`) have the operation's own row tell the two apart. The model does so too;
`ReleaseReportsAreTrue` is about every other id. `abortCommittedSubstitution` also
leaves `COMMITMENT_UNKNOWN`, although the comment says only `reconcileCommitment` does; late
units are then stranded. `poke` neither matures nor defaults a facility in
`SUBSTITUTION_PENDING`. A stop in mid-resolution leaves `AUTHORITY_RESOLVING` until a
refresh; an approved decision stays usable after it until it expires. A repeated create with
other units returns the first operation. `run-substitution.mjs` cannot be resumed.

*Base credit.* Committing a second instrument on a shared venue of smaller depth *lowers* the
recognised value, so pledging more can make an account liquidatable (a group is bounded by
its shallowest member; the same in `evaluate.ts`). The origination fee is added to the debt
and paid to nobody. `liquidate` credits the oracle's price of the claim whatever the route
returns, takes claims beyond the debt, and may deepen the shortfall since caps are shares
of a smaller total. The lender has no withdrawal. `settle` checks no status, and collateral
can be committed after it. The draw's digest ("exact quoted portfolio snapshot", I-115)
omits the market session and the liquidity depth.

*Read models.* When a mandate is first seen in block 5, its revocation in block 4 arrives
next and blocks from 5 up are rolled back, the mandate is forgotten but the key of block 4
is kept: a registration delivered later shows the mandate active for good. (This is why
`ProjectionsFollowTheLog` speaks of a mandate's status for logs in order, or a chain without
reorganisation, only.) A rollback keeps totals of mandates first seen below it. The cursor is durable while
projections are in memory, and its resume has no caller. `reconcileSnapshot` lets an old
observation that arrives late replace a live snapshot; one taken as stale stays so when the
same event is read again deep enough. I-89 (`invariants.md:215`) does not hold for a single
position: making one position's group unknown can raise the recognised value (three equal
positions in one group, caps 40 and 20 per cent: 0.4 becomes 0.6). A deposit smaller than a
share's price mints nothing; a fee may exceed the balance (the model bounds it).

*Forms.* `CONFIRMATION_UNKNOWN` enables the buttons again and nothing ever looks the
transaction up, although `tx.ts:17-19` and `action.tsx:162-163` say so. Every wallet error
but a rejection is `FAILED` (`tx.ts:236-243`), though the call may have been broadcast; the
form then takes the same submission again, and it is done twice, which `tx.ts:15-19` sets out
to prevent. The model has that wallet (`WalletErrs`); `WishedOnce` says that it is the only
way to do a wish twice, not that there is none. Pages for single
actions do not listen for an account change. Arming again after a failed `registerInstance`
leaves a second live mandate. `WithdrawForm` blocks `NO_NEW_RISK` although the contract allows
it. `repairByAddingCollateral` rounds down and may fall a unit short. `lib/quote.ts` has no
caller.

## 6. Not modelled

- Arithmetic at 256 bits, decimals, ERC-20 allowances, events, reentrancy guards and the
  one-time wiring of contracts: the models work in exact small integers and atomic calls.
- Signatures, Merkle proofs, hashes: membership in a set. Roles are a constant relation.
- `FinancingEngine.writeOff` (no caller) and the Sentinel instance and template registries
  (their status is an input of the engine; no money depends on them).
- The liquidation manager's choice of route and the split of proceeds beyond the debt share:
  `ExecuteLiquidation` takes every sale. The facility's claim on settlement proceeds.
- Base: settlement decimals, the quoted digest, the risk-policy registry, the vault's
  observation events.
- The Sentinel's gateway turns down a plan that is no `REPAY` (`xlayer.ts:154`); no template
  compiles one. A read of an outcome that fails (`:130`) is the answer "pending" to recovery.
- Evidence: canonicalisation of documents, media types, history files, receipts; the text of
  prompts, and how a JSON object is found in an answer (one that does not fit is a lost one).
  The ChainGPT client's attempts and spacing: a request is answered or lost.
- The Rust risk core (a second implementation of `RiskMath`, compared by shared fixtures)
  and the adapters to outside services: an oracle or a chain appears as an external action.
- Pages that only read, generators of demonstration data, deployment and live scripts, zod
  schemas, migrations without functions, end-to-end tests. They are about half of the
  implementation's lines, keep no state that another part relies on, and are why the share
  of lines the map covers stays low although every component with logic of its own is there.

## 7. Plan

Modelled: vault, clearing, delegation, registries, Sentinel and its host, evidence and
Passports, facility and substitutions, Base credit, projections, corporate actions, pools,
portfolio limits, forms. Proved: every property of the runs `vault`, `delegation`,
`registries`, `facility` and `substitutions`, the safety properties of `sentinel`, those of
the clearing runs, `RepayAlwaysOpen` excepted, and of `views` all but `TakingOutLeavesRoom`,
of which only the part about claims; `RepeatsNeedAReclaim` and `FloorNeedsTwoPaths` of `jobs`
and those of `passports` (`OnePassportPerWorkflow` where saves are told apart).

To model next, if at all: the liquidation manager's plan and fee split, the cursor when
something calls it.
