---------------------------- MODULE ReadModels ----------------------------
(***************************************************************************)
(* What is off chain and acts on what it read: the indexer's projections   *)
(* over a chain that may reorganise, corporate-action snapshots, the share *)
(* pool and the portfolio model with the credit given on it, the forms     *)
(* that submit what was read, and the Sentinels' host.  They share no      *)
(* state, so a behaviour follows one of them (variable part), which keeps  *)
(* their states from multiplying.                                          *)
(*                                                                         *)
(* The chain and whoever walks it are external: a block holds one event or *)
(* none, a reorganisation replaces the blocks from a height up, the walker *)
(* rolls back before it goes on, and it delivers what is canonical at the  *)
(* time, in any order and any number of times.                             *)
(***************************************************************************)
EXTENDS Projections, CorporateActions, PortfolioCredit, AccountActions, SentinelHost, FiniteSets, SequencesExt

CONSTANTS
  MaxBlocks,      \* height of the chain
  MaxForks,       \* reorganisations
  MaxReadings,    \* observations under way at a time
  MaxActions,     \* actions on the pool
  MaxBalance,     \* of the pool
  Factors,        \* factors an issuer may announce
  Instruments,    \* that may be admitted
  Offers          \* positions an instrument may be admitted with

ASSUME ReadConstants ==
  /\ MaxBalance \in Nat
  /\ \A p \in Offers : /\ p.single \in Nat /\ p.depth \in Nat
                       /\ SessionFactorBps[p.session] \in Nat

VARIABLES
  part,           \* the read model this behaviour follows
  chain,          \* the canonical events, block 1 first
  forks,
  settled,        \* the blocks up to here are final: the chain was once SafeDepth above
  orphaned,       \* the chain a reorganisation replaced, kept for the mandates' identities
  forkedAt,       \* where the walker still has to roll back to, 0 if nowhere
  inOrder,        \* nothing was delivered after an event of a later block
  readings,       \* observations read from the chain and not yet dropped
  snapshot,
  pool, actions,
  portfolio

walking == <<mandates, feed, applied, inOrder>>
observing == <<readings, snapshot>>
chainState == <<chain, forks, settled, orphaned, forkedAt>>
sharing == <<pool, actions>>
readVars == <<chainState, walking, observing, sharing, portfolio>>
vars == <<part, readVars, creditVars, formVars, hostVars>>

Height == Len(chain)

-----------------------------------------------------------------------------
(* The chain. *)

\* What the events at these positions leave of a mandate, taken in their order.
Fold(events, taken) ==
  MapThenFoldSet(LAMBDA e, m : updated(m, e), Unseen, LAMBDA b : events[b], LAMBDA T : Max(T), taken)
Of(subject) == {b \in 1..Height : chain[b].subject = subject}

\* MandateRegistry emits what its status allows; another account may execute any time.
AllowedIn ==
  [MandateRegistered |-> {"NONE"}, MandatePaused |-> {"ACTIVE"}, MandateResumed |-> {"PAUSED"},
   MandateConsumed |-> {"ACTIVE"}, MandateRevoked |-> {"ACTIVE", "PAUSED"}]
MandateEvents(m) ==
  LET now == Fold(chain, Of(m))
  IN  {[kind |-> k, subject |-> m,
        total |-> IF k = "MandateConsumed" THEN now.drawn + 1 ELSE now.drawn] :
         k \in {k \in DOMAIN AllowedIn : now.status \in AllowedIn[k]}}
Executions == [kind : {"DelegatedExecution"}, subject : Accounts, total : {0}]

LastOf(events, kinds) == SelectLastInSeq(events, LAMBDA e : e.kind \in kinds)
FactorAt(events) ==
  LET set == LastOf(events, {"FactorSet"}) IN IF set = 0 THEN One ELSE events[set].total
PendingAt(events) ==
  LET last == LastOf(events, {"FactorSet", "FactorAnnounced"})
  IN  IF last # 0 /\ events[last].kind = "FactorAnnounced" THEN events[last].total ELSE None
EventAt(events) ==
  LET last == LastOf(events, {"FactorSet", "FactorAnnounced"})
  IN  IF last = 0 THEN NoEvent ELSE eventKey(events[last])

FactorEvents ==
  LET event(k, f) == [kind |-> k, subject |-> "instrument", total |-> f]
  IN  {event("Empty", 0)}
        \cup (IF PendingAt(chain) = None THEN {event("FactorAnnounced", f) : f \in Factors}
              ELSE {event("FactorSet", PendingAt(chain))})

NewEvents ==
  IF part = "mandates" THEN Executions \cup UNION {MandateEvents(m) : m \in Mandates}
  ELSE FactorEvents

Fresh == [e \in NewEvents |-> [kind |-> e.kind, subject |-> e.subject, total |-> e.total,
                               block |-> Height + 1, tx |-> forks]]

\* A transaction of a replaced block may be mined again, in the same place.
MinedAgain ==
  {e \in Range(orphaned) :
     /\ e.block = Height + 1
     /\ [kind |-> e.kind, subject |-> e.subject, total |-> e.total] \in NewEvents}

Mine ==
  /\ part \in {"mandates", "factors"} /\ Height < MaxBlocks
  /\ \E e \in Range(Fresh) \cup MinedAgain : chain' = Append(chain, e)
  /\ settled' = Greatest(settled, Monus(Height + 1, SafeDepth))
  /\ UNCHANGED <<part, forks, orphaned, forkedAt, walking, observing, sharing, portfolio>>

\* A block that was once as deep as the depth that counts as final stays.
Reorganise ==
  /\ part \in {"mandates", "factors"} /\ forks < MaxForks /\ forkedAt = 0
  /\ \E h \in settled + 1..Height :
       /\ chain' = SubSeq(chain, 1, h - 1)
       /\ forkedAt' = IF part = "mandates" THEN h ELSE 0
  /\ forks' = forks + 1 /\ orphaned' = IF part = "mandates" THEN chain ELSE <<>>
  /\ UNCHANGED <<part, settled, walking, observing, sharing, portfolio>>

-----------------------------------------------------------------------------
(* The indexer. *)

Deliver ==
  /\ part = "mandates" /\ forkedAt = 0
  /\ \E b \in 1..Height :
       /\ apply(chain[b])
       /\ inOrder' = (inOrder /\ \A key \in applied : key[1] <= b)
  /\ UNCHANGED <<part, chainState, observing, sharing, portfolio>>

RollBack ==
  /\ forkedAt # 0
  /\ rollbackTo(forkedAt)
  /\ forkedAt' = 0
  /\ UNCHANGED <<part, chain, forks, settled, orphaned, inOrder, observing, sharing, portfolio>>

-----------------------------------------------------------------------------
(* Observations of an instrument's factor. *)

Reading(b, head) ==
  LET below == SubSeq(chain, 1, b)
  IN  [block |-> b, tx |-> chain[b].tx, event |-> EventAt(below), factor |-> FactorAt(below),
       pending |-> PendingAt(below), head |-> head]

\* The head is read together with the block, unless the domain does not answer.
Observe ==
  /\ part = "factors" /\ Cardinality(readings) < MaxReadings
  /\ \E b \in 1..Height, head \in {Height, Unreachable} :
       readings' = readings \cup {Reading(b, head)}
  /\ UNCHANGED <<part, chainState, walking, snapshot, sharing, portfolio>>

Observed(r) ==
  [block |-> r.block, tx |-> r.tx, event |-> r.event, factor |-> r.factor,
   pending |-> r.pending, feed |-> "LIVE"]

Ingest ==
  /\ part = "factors"
  /\ \E r \in readings : /\ r.head # Unreachable
                         /\ snapshot' = reconcileSnapshot(snapshot, Observed(r), r.head)
  /\ UNCHANGED <<part, chainState, walking, readings, sharing, portfolio>>

Drop ==
  /\ part = "factors"
  /\ \E r \in readings : readings' = readings \ {r}
  /\ UNCHANGED <<part, chainState, walking, snapshot, sharing, portfolio>>

-----------------------------------------------------------------------------
(* The share pool. *)

Account(step) ==
  /\ part = "shares" /\ actions < MaxActions
  /\ pool' = step /\ actions' = actions + 1
  /\ UNCHANGED <<part, chainState, walking, observing, portfolio>>

Deposit(h) ==
  \E value \in 1..(MaxBalance - pool.balance) : Account(deposited(pool, h, value))

Redeem(h) ==
  \E count \in 1..pool.shares[h] : Account(redeemed(pool, h, count))

\* The issuer scales what is there.
Rebase ==
  /\ pool.balance > 0
  /\ \E balance \in 0..MaxBalance : Account(rebased(pool, balance))

Donate ==
  \E balance \in pool.balance..MaxBalance : Account(donated(pool, balance))

\* A fee comes out of what backs the shares; the code sets no bound.
Charge ==
  \E fee \in 1..backedBalance(pool) : Account(charged(pool, fee))

-----------------------------------------------------------------------------
(* The portfolio. *)

Admit(i) ==
  /\ part = "portfolio" /\ i \notin DOMAIN portfolio
  /\ \E p \in Offers :
       portfolio' = [j \in DOMAIN portfolio \cup {i} |-> IF j = i THEN p ELSE portfolio[j]]
  /\ UNCHANGED <<part, chainState, walking, observing, sharing>>

-----------------------------------------------------------------------------
Init ==
  /\ part \in {"mandates", "factors", "shares", "portfolio", "credit", "forms", "host"}
  /\ chain = <<>> /\ orphaned = <<>> /\ forks = 0 /\ settled = 0 /\ forkedAt = 0
  /\ ProjectionsInit /\ inOrder = TRUE
  /\ readings = {} /\ snapshot = NoSnapshot
  /\ pool = emptyPool /\ actions = 0
  /\ portfolio = <<>>
  /\ CreditInit /\ HostInit /\ FormsInit /\ (part # "forms" => menu = CHOOSE m \in Menus : TRUE)

ReadNext ==
  \/ Mine \/ Reorganise \/ Deliver \/ RollBack
  \/ Observe \/ Ingest \/ Drop
  \/ \E h \in Holders : Deposit(h) \/ Redeem(h)
  \/ Rebase \/ Donate \/ Charge
  \/ \E i \in Instruments : Admit(i)

Next ==
  \/ ReadNext /\ UNCHANGED <<creditVars, formVars, hostVars>>
  \/ part = "credit" /\ CreditNext /\ UNCHANGED <<part, readVars, formVars, hostVars>>
  \/ part = "forms" /\ FormsNext /\ UNCHANGED <<part, readVars, creditVars, hostVars>>
  \/ part = "host" /\ HostNext /\ UNCHANGED <<part, readVars, creditVars, formVars>>

Spec == Init /\ [][Next]_vars

-----------------------------------------------------------------------------
(* Properties. *)

Seen(subject) == {b \in Of(subject) : eventKey(chain[b]) \in applied}

\* Whatever was delivered twice, out of order or before a reorganisation, an
\* account's activity is the canonical executions that were applied, once each and
\* in block order.  A mandate is shown as the log leaves it when its events came in
\* order on a chain that did not reorganise, and an applied revocation is shown when
\* either holds (projection.ts apply, rollbackTo: "A revocation seen first must
\* survive its own registration arriving afterwards").
InBlockOrder(events) == \A m, n \in DOMAIN events : m < n => events[m].block < events[n].block
FeedIsCanonical ==
  \A a \in Accounts : InBlockOrder(feed[a]) /\ Range(feed[a]) = {chain[b] : b \in Seen(a)}
ShownFollowsTheLog ==
  \A m \in Mandates :
    /\ inOrder /\ forks = 0 => mandates[m] = Fold(chain, Seen(m))
    /\ (inOrder \/ forks = 0) /\ (\E b \in Seen(m) : chain[b].kind = "MandateRevoked")
         => mandates[m].status = "REVOKED"
ProjectionsFollowTheLog == forkedAt = 0 => FeedIsCanonical /\ ShownFollowsTheLog

\* A figure that does not restrict was read from a block no reorganisation took
\* away, and the snapshot says what the chain says there (ingestion.ts
\* belowSafeDepth, facility.ts positionView and aggregatePortfolio).
Canonical(view) == view.block <= Height /\ chain[view.block].tx = view.tx
FiguresOutliveReorgs ==
  /\ snapshot.feed # "NONE" /\ ~restrictNewRisk(snapshot) =>
       /\ Canonical(snapshot)
       /\ snapshot.factor = FactorAt(SubSeq(chain, 1, snapshot.block))
  /\ \A r \in readings : counted(r) => Canonical(r)

\* A deposit, a redemption or a donation takes nothing from anybody else's claim,
\* and a deposit is worth no more to its depositor than was paid in (pool.ts
\* applyAction, invariant I-82).
DilutesNobody ==
  /\ \A h \in Holders :
       (Deposit(h) \/ Redeem(h)) =>
         \A other \in Holders \ {h} : effectiveOf(pool', other) >= effectiveOf(pool, other)
  /\ \A h \in Holders :
       Deposit(h) => effectiveOf(pool', h) - effectiveOf(pool, h) <= pool'.balance - pool.balance
  /\ Donate => \A h \in Holders : effectiveOf(pool', h) = effectiveOf(pool, h)
NobodyIsDiluted == [][part = "shares" => DilutesNobody]_vars

\* No group of a dimension works for more than its cap of the whole, nor a route for
\* more than it is deep, however the caps overlap (evaluate.ts dimensionScales).
Related(p, q, d) == p.groups[d] = q.groups[d]
Mates(d, i) ==
  {j \in DOMAIN portfolio : Related(portfolio[i], portfolio[j], d) /\ ~Exempt(portfolio[j], d)}
Works(d, i) == SumFunctionOnSet([j \in Mates(d, i) |-> working(portfolio, j)], Mates(d, i))
GroupsStayCapped ==
  \A d \in Dimensions, i \in DOMAIN portfolio :
    ~Exempt(portfolio[i], d) =>
      /\ Bps * Works(d, i) <= CapBps[d][kind(portfolio[i], d)] * base(portfolio)
      /\ d = "LIQUIDITY" => Works(d, i) <= portfolio[i].depth
=============================================================================
