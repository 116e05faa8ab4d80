-------------------------- MODULE DelegationProofs --------------------------
(***************************************************************************)
(* For any owners, agents, envelopes and amounts: what is held back for an *)
(* account is what its intents may still spend, the caps an owner signed   *)
(* bound everything committed under them, and nothing is promised twice.   *)
(***************************************************************************)
EXTENDS Delegation, Induction

USE DEF MandateState

Intent == [status : IntentStatus, authorized : Nat, reserved : Nat, filled : Nat, released : Nat]

\* What an intent's numbers are at each point of its life.
IntentShape ==
  \A i \in IntentIds :
    LET it == intents[i] IN
    /\ it.status \in {"NONE", "CREATED"} => it.authorized = 0
    /\ it.status \in {"NONE", "CREATED", "VALIDATED"} => it.reserved = 0
    /\ it.filled <= it.reserved
    /\ it.released = IF it.status = "RECONCILED" THEN it.reserved - it.filled ELSE 0

\* Nothing happens under a mandate before it is registered.
UnregisteredIsFresh ==
  /\ \A id \in MandateIds : ~exists(id) => state[id] = FreshState
  /\ \A i \in IntentIds : ~exists(mandateOfIntent(i)) => intents[i].status = "NONE"

\* Each of a mandate's two budgets is kept.
BudgetsHold ==
  \A id \in DOMAIN mandateOf :
    /\ state[id].debtDrawn <= mandateOf[id].maxDebtUsd
    /\ state[id].notionalTraded <= mandateOf[id].maxTradeNotionalUsd

committedFor(a) == SumOver(IntentsOf(a), outstanding)

HeldBackIsCommitted == \A a \in Owners : reservedUsd18[a] = committedFor(a)

\* What is authorized under a mandate that names budgeted actions only is charged to it.
AuthorizedIsCharged ==
  \A id \in DOMAIN mandateOf :
    mandateOf[id].actions \subseteq {"BORROW"} \cup VenueActions =>
      authorizedUnder(id) = charged(id)

Accounted ==
  /\ TypeOK
  /\ IntentShape
  /\ UnregisteredIsFresh
  /\ BudgetsHold
  /\ HeldBackIsCommitted
  /\ AuthorizedIsCharged

-----------------------------------------------------------------------------
(* Sums over intents. *)

\* The sums of this module are over finite sets of intents.
LEMMA IntentsAreFinite ==
  /\ \A a \in Owners : IsFiniteSet(IntentsOf(a))
  /\ \A id \in MandateIds : IsFiniteSet(IntentsUnder(id))
<1>1. IsFiniteSet(IntentIds)
  BY DelegationConstants, FS_Product DEF IntentIds, MandateIds
<1>. QED
  BY <1>1, FS_Subset DEF IntentsOf, IntentsUnder

\* An intent belongs to its account and to its mandate.
LEMMA IntentOwner ==
  ASSUME NEW i \in IntentIds
  PROVE  /\ mandateOfIntent(i) \in MandateIds
         /\ accountOf(i) \in Owners
         /\ i \in IntentsOf(accountOf(i)) /\ i \in IntentsUnder(mandateOfIntent(i))
BY DEF IntentIds, MandateIds, mandateOfIntent, accountOf, IntentsOf, IntentsUnder

\* When one intent changes, the account it is for commits as much more or less.
LEMMA CommittedChanges ==
  ASSUME TypeOK, TypeOK', NEW i \in IntentIds,
         \A j \in IntentIds : j # i => intents'[j] = intents[j],
         NEW a \in Owners
  PROVE  /\ committedFor(a) \in Int
         /\ committedFor(a)' = IF a = accountOf(i)
                               THEN committedFor(a) + (outstanding(i)' - outstanding(i))
                               ELSE committedFor(a)
<1> DEFINE S == IntentsOf(a)
           f == [j \in S |-> outstanding(j)]
           g == [j \in S |-> outstanding(j)']
<1>1. committedFor(a) = SumFunctionOnSet(f, S) /\ committedFor(a)' = SumFunctionOnSet(g, S)
  BY DEF committedFor, SumOver, SumFunction, IntentsOf
<1>2. IsFiniteSet(S)
  BY IntentsAreFinite
<1>3. \A j \in S : f[j] \in Int /\ g[j] \in Int
  BY DEF TypeOK, outstanding, IntentsOf
<1>4. \A j \in S : j # i => g[j] = f[j]
  BY DEF outstanding, IntentsOf
<1>5. i \in S <=> a = accountOf(i)
  BY DEF IntentsOf
<1>6. i \in S => f[i] = outstanding(i) /\ g[i] = outstanding(i)'
  OBVIOUS
<1> HIDE DEF S, f, g
<1>7. CASE i \in S
  <2>1. /\ SumFunctionOnSet(f, S) \in Int
        /\ SumFunctionOnSet(g, S) = SumFunctionOnSet(f, S) + (g[i] - f[i])
    BY <1>2, <1>3, <1>4, <1>7, SumChange
  <2>. QED
    BY <1>1, <1>5, <1>6, <1>7, <2>1
<1>8. CASE i \notin S
  <2>1. \A j \in S : f[j] \in Int /\ g[j] = f[j]
    BY <1>3, <1>4, <1>8
  <2>. QED
    BY <1>1, <1>2, <1>5, <1>8, <2>1, SumSame, SumFirst
<1>. QED
  BY <1>7, <1>8

\* What an account has promised is a function of the intents.
LEMMA CommittedStays ==
  ASSUME TypeOK, UNCHANGED intents, NEW a \in Owners
  PROVE  committedFor(a)' = committedFor(a)
BY DEF committedFor, SumOver, SumFunction, IntentsOf, outstanding

\* No intent has more outstanding than its account has committed.
LEMMA OneOfCommitted ==
  ASSUME TypeOK, IntentShape, NEW i \in IntentIds
  PROVE  /\ outstanding(i) \in Nat
         /\ outstanding(i) <= committedFor(accountOf(i))
<1> DEFINE S == IntentsOf(accountOf(i))
           f == [j \in S |-> outstanding(j)]
<1>1. \A j \in IntentIds : outstanding(j) \in Nat
  <2> SUFFICES ASSUME NEW j \in IntentIds PROVE outstanding(j) \in Nat
    OBVIOUS
  <2>1. intents[j].reserved \in Nat /\ intents[j].released \in Nat /\ intents[j].filled \in Nat
    BY DEF TypeOK
  <2>2. intents[j].released <= intents[j].reserved
    BY <2>1 DEF IntentShape
  <2>. QED
    BY <2>1, <2>2 DEF outstanding
<1>2. committedFor(accountOf(i)) = SumFunctionOnSet(f, S)
  BY DEF committedFor, SumOver, SumFunction
<1>3. IsFiniteSet(S)
  BY IntentsAreFinite, IntentOwner
<1>4. \A j \in S : f[j] \in Nat
  BY <1>1 DEF IntentsOf
<1>5. i \in S /\ f[i] = outstanding(i)
  BY IntentOwner
<1> HIDE DEF S, f
<1>. QED
  BY <1>1, <1>2, <1>3, <1>4, <1>5, SumOfNaturals

\* Authorising one intent adds to one mandate only.
LEMMA AuthorizedChanges ==
  ASSUME TypeOK, TypeOK', NEW i \in IntentIds,
         \A j \in IntentIds : j # i => intents'[j] = intents[j],
         NEW id \in MandateIds
  PROVE  /\ authorizedUnder(id) \in Int
         /\ authorizedUnder(id)' =
              IF id = mandateOfIntent(i)
              THEN authorizedUnder(id) + (intents'[i].authorized - intents[i].authorized)
              ELSE authorizedUnder(id)
<1> DEFINE S == IntentsUnder(id)
           f == [j \in S |-> intents[j].authorized]
           g == [j \in S |-> intents'[j].authorized]
<1>1. authorizedUnder(id) = SumFunctionOnSet(f, S) /\ authorizedUnder(id)' = SumFunctionOnSet(g, S)
  BY DEF authorizedUnder, SumOver, SumFunction, IntentsUnder
<1>2. IsFiniteSet(S)
  BY IntentsAreFinite
<1>3. \A j \in S : f[j] \in Int /\ g[j] \in Int
  BY DEF TypeOK, IntentsUnder
<1>4. \A j \in S : j # i => g[j] = f[j]
  BY DEF IntentsUnder
<1>5. i \in S <=> id = mandateOfIntent(i)
  BY DEF IntentsUnder
<1>6. i \in S => f[i] = intents[i].authorized /\ g[i] = intents'[i].authorized
  OBVIOUS
<1> HIDE DEF S, f, g
<1>7. CASE i \in S
  BY <1>1, <1>2, <1>3, <1>4, <1>5, <1>6, <1>7, SumChange
<1>8. CASE i \notin S
  <2>1. \A j \in S : f[j] \in Int /\ g[j] = f[j]
    BY <1>3, <1>4, <1>8
  <2>. QED
    BY <1>1, <1>2, <1>5, <1>8, <2>1, SumSame, SumFirst
<1>. QED
  BY <1>7, <1>8

\* What a mandate has authorised changes with the authorisations only.
LEMMA AuthorizedStays ==
  ASSUME TypeOK, NEW id \in MandateIds,
         \A j \in IntentIds : intents'[j].authorized = intents[j].authorized
  PROVE  authorizedUnder(id)' = authorizedUnder(id)
<1> DEFINE S == IntentsUnder(id)
           f == [j \in S |-> intents[j].authorized]
           g == [j \in S |-> intents'[j].authorized]
<1>1. authorizedUnder(id) = SumFunctionOnSet(f, S) /\ authorizedUnder(id)' = SumFunctionOnSet(g, S)
  BY DEF authorizedUnder, SumOver, SumFunction, IntentsUnder
<1>2. \A j \in S : f[j] \in Int /\ g[j] = f[j]
  BY DEF TypeOK, IntentsUnder
<1>3. IsFiniteSet(S)
  BY IntentsAreFinite
<1> HIDE DEF S, f, g
<1>. QED
  BY <1>1, <1>2, <1>3, SumSame

-----------------------------------------------------------------------------
(* What an authorization and a reservation do. *)

\* An authorisation charges its own mandate what it spends, within its budget.
LEMMA AuthorizeCharges ==
  ASSUME TypeOK, BudgetsHold, NEW req, req.amount \in Nat, Authorize(req)
  PROVE  /\ req.id \in DOMAIN mandateOf /\ req.id \in MandateIds
         /\ req.action \in mandateOf[req.id].actions
         /\ state' \in [MandateIds -> MandateState]
         /\ \A id \in MandateIds : id # req.id => state'[id] = state[id]
         /\ charged(req.id)' = charged(req.id) +
              (IF req.action \in {"BORROW"} \cup VenueActions THEN req.amount ELSE 0)
         /\ BudgetsHold'
<1> DEFINE id == req.id
<1>1. id \in DOMAIN mandateOf /\ req.action \in mandateOf[id].actions /\ mandateOf' = mandateOf
  BY DEF Authorize, isAuthorized, lifecycleAllows, commitmentAllows, isLive, exists
<1>2. id \in MandateIds /\ mandateOf[id] \in Signed
  BY <1>1 DEF TypeOK, RegistryTypeOK, Range
<1>3. mandateOf[id].maxDebtUsd \in Nat /\ mandateOf[id].maxTradeNotionalUsd \in Nat
  BY <1>2, DelegationConstants
<1>4. state[id].debtDrawn \in Nat /\ state[id].notionalTraded \in Nat
      /\ state[id].debtDrawn <= mandateOf[id].maxDebtUsd
      /\ state[id].notionalTraded <= mandateOf[id].maxTradeNotionalUsd
  BY <1>1, <1>2 DEF TypeOK, RegistryTypeOK, BudgetsHold
<1> DEFINE borrowed == IF req.action = "BORROW" THEN req.amount ELSE 0
           traded == IF req.action \in VenueActions THEN req.amount ELSE 0
<1>5. borrowed \in Nat /\ traded \in Nat
  OBVIOUS
<1>6. state' = [state EXCEPT ![id].debtDrawn = @ + borrowed, ![id].notionalTraded = @ + traded]
  BY DEF Authorize
<1>7. /\ state[id].debtDrawn + borrowed <= mandateOf[id].maxDebtUsd
      /\ state[id].notionalTraded + traded <= mandateOf[id].maxTradeNotionalUsd
  BY <1>3, <1>4 DEF Authorize, isAuthorized, budgetAllows, remaining, Monus
<1>8. borrowed + traded = IF req.action \in {"BORROW"} \cup VenueActions THEN req.amount ELSE 0
  BY DEF VenueActions
<1> HIDE DEF borrowed, traded
<1>9. /\ state' \in [MandateIds -> MandateState]
      /\ \A x \in MandateIds : x # id => state'[x] = state[x]
      /\ state'[id].debtDrawn = state[id].debtDrawn + borrowed
      /\ state'[id].notionalTraded = state[id].notionalTraded + traded
  BY <1>2, <1>4, <1>5, <1>6 DEF TypeOK, RegistryTypeOK
<1>10. BudgetsHold'
  BY <1>1, <1>7, <1>9 DEF BudgetsHold, TypeOK, RegistryTypeOK
<1>11. charged(id)' = charged(id) + (borrowed + traded)
  BY <1>4, <1>5, <1>9 DEF charged
<1>. QED
  BY <1>1, <1>2, <1>8, <1>9, <1>10, <1>11

\* The borrowing limit is a number.
LEMMA LimitType ==
  ASSUME TypeOK, NEW a \in Owners
  PROVE  borrowLimit(a) \in Nat
<1>1. recognized[a] \in Nat /\ InitialLtv \in Nat /\ BPS \in Nat \ {0}
  BY DelegationConstants DEF TypeOK
<1>2. \A x \in Nat, y \in Nat, d \in Nat \ {0} : (x * y) \div d \in Nat
  OBVIOUS
<1>. QED
  BY <1>1, <1>2 DEF borrowLimit, MulDiv

\* A reservation adds its amount to one account, inside its borrowing limit.
LEMMA ReserveFits ==
  ASSUME TypeOK, NEW a \in Owners, NEW n \in Nat, Reserve(a, n)
  PROVE  /\ reservedUsd18' \in [Owners -> Nat]
         /\ reservedUsd18'[a] = reservedUsd18[a] + n
         /\ \A b \in Owners : b # a => reservedUsd18'[b] = reservedUsd18[b]
         /\ n > 0 => debt[a] + reservedUsd18'[a] <= borrowLimit(a)
<1>1. debt[a] \in Nat /\ reservedUsd18[a] \in Nat /\ borrowLimit(a) \in Nat
  BY LimitType DEF TypeOK
<1>2. n <= Monus(borrowLimit(a), debt[a] + reservedUsd18[a])
  BY DEF Reserve, available
<1>3. /\ reservedUsd18' \in [Owners -> Nat]
      /\ reservedUsd18'[a] = reservedUsd18[a] + n
      /\ \A b \in Owners : b # a => reservedUsd18'[b] = reservedUsd18[b]
  BY <1>1 DEF Reserve, TypeOK
<1>4. n > 0 => debt[a] + (reservedUsd18[a] + n) <= borrowLimit(a)
  BY <1>1, <1>2 DEF Monus
<1>. QED
  BY <1>3, <1>4
-----------------------------------------------------------------------------
(* The invariant. *)

\* Nothing is promised at the start.
LEMMA AccountedInit ==
  ASSUME Init
  PROVE  Accounted
<1>1. TypeOK
  <2>1. 1 \in 1..MaxTime
    BY DelegationConstants
  <2>. QED
    BY <2>1 DEF Init, TypeOK, RegistryInit, RegistryTypeOK, Range, FreshState, NoIntent, IntentStatus
<1>2. IntentShape /\ UnregisteredIsFresh /\ BudgetsHold /\ AuthorizedIsCharged
  <2>1. DOMAIN mandateOf = {}
    BY DEF Init, RegistryInit
  <2>2. \A i \in IntentIds : intents[i] = NoIntent
    BY DEF Init
  <2>3. \A id \in MandateIds : state[id] = FreshState
    BY DEF Init, RegistryInit
  <2>4. IntentShape
    BY <2>2 DEF IntentShape, NoIntent
  <2>5. UnregisteredIsFresh
    <3>1. \A i \in IntentIds : intents[i].status = "NONE"
      BY <2>2 DEF NoIntent
    <3>. QED
      BY <2>3, <3>1, Zenon DEF UnregisteredIsFresh
  <2>. QED
    BY <2>1, <2>4, <2>5 DEF BudgetsHold, AuthorizedIsCharged
<1>3. HeldBackIsCommitted
  <2>1. ASSUME NEW a \in Owners
        PROVE  committedFor(a) = 0
    <3> DEFINE f == [j \in IntentsOf(a) |-> outstanding(j)]
    <3>1. committedFor(a) = SumFunctionOnSet(f, IntentsOf(a))
      BY DEF committedFor, SumOver, SumFunction
    <3>2. \A j \in IntentsOf(a) : f[j] = 0
      BY DEF Init, NoIntent, outstanding, IntentsOf
    <3>3. IsFiniteSet(IntentsOf(a))
      BY IntentsAreFinite
    <3> HIDE DEF f
    <3>. QED
      BY <3>1, <3>2, <3>3, SumOfZeros
  <2>. QED
    BY <2>1 DEF HeldBackIsCommitted, Init
<1>. QED
  BY <1>1, <1>2, <1>3 DEF Accounted

\* The statuses between reservation and reconciliation.
Committed == IntentStatus \ {"NONE", "CREATED", "VALIDATED", "RECONCILED"}

\* An intent whose numbers change keeps the invariant when its shape, its account's reservation
\* and its mandate's charge follow.
LEMMA IntentStep ==
  ASSUME Accounted, NEW i \in IntentIds, NEW it \in Intent,
         intents' = [intents EXCEPT ![i] = it],
         it.status \in {"NONE", "CREATED"} => it.authorized = 0,
         it.status \in {"NONE", "CREATED", "VALIDATED"} => it.reserved = 0,
         it.filled <= it.reserved,
         it.released = IF it.status = "RECONCILED" THEN it.reserved - it.filled ELSE 0,
         exists(mandateOfIntent(i)),
         UNCHANGED <<mandateOf, recognized, debt, now>>,
         state' \in [MandateIds -> MandateState],
         BudgetsHold',
         \A id \in MandateIds : id # mandateOfIntent(i) => state'[id] = state[id],
         mandateOf[mandateOfIntent(i)].actions \subseteq {"BORROW"} \cup VenueActions =>
           charged(mandateOfIntent(i))'
             = charged(mandateOfIntent(i)) + (it.authorized - intents[i].authorized),
         reservedUsd18' \in [Owners -> Nat],
         reservedUsd18'[accountOf(i)]
           = reservedUsd18[accountOf(i)] + ((it.reserved - it.released) - outstanding(i)),
         \A b \in Owners : b # accountOf(i) => reservedUsd18'[b] = reservedUsd18[b]
  PROVE  Accounted'
<1>1. TypeOK /\ IntentShape /\ UnregisteredIsFresh /\ HeldBackIsCommitted /\ AuthorizedIsCharged
  BY DEF Accounted
<1>2. /\ intents' \in [IntentIds -> Intent] /\ intents'[i] = it
      /\ \A j \in IntentIds : j # i => intents'[j] = intents[j]
  BY <1>1 DEF TypeOK, Intent
<1>3. TypeOK'
  BY <1>1, <1>2 DEF TypeOK, RegistryTypeOK, Intent
<1>4. IntentShape'
  BY <1>1, <1>2 DEF IntentShape
<1>5. UnregisteredIsFresh'
  BY <1>1, <1>2 DEF UnregisteredIsFresh, exists
<1>6. HeldBackIsCommitted'
  <2>1. outstanding(i)' = it.reserved - it.released
    BY <1>2 DEF outstanding
  <2>2. \A a \in Owners : committedFor(a)' = IF a = accountOf(i)
          THEN committedFor(a) + ((it.reserved - it.released) - outstanding(i))
          ELSE committedFor(a)
    BY <1>1, <1>2, <1>3, <2>1, CommittedChanges
  <2>. QED
    BY <1>1, <2>2 DEF HeldBackIsCommitted
<1>7. AuthorizedIsCharged'
  <2>1. \A id \in DOMAIN mandateOf : id \in MandateIds
    BY <1>1 DEF TypeOK, RegistryTypeOK
  <2>2. \A id \in MandateIds : authorizedUnder(id)' = IF id = mandateOfIntent(i)
          THEN authorizedUnder(id) + (it.authorized - intents[i].authorized)
          ELSE authorizedUnder(id)
    BY <1>1, <1>2, <1>3, AuthorizedChanges
  <2>3. \A id \in MandateIds : id # mandateOfIntent(i) => charged(id)' = charged(id)
    BY DEF charged
  <2>. QED
    BY <1>1, <2>1, <2>2, <2>3 DEF AuthorizedIsCharged
<1>. QED
  BY <1>3, <1>4, <1>5, <1>6, <1>7 DEF Accounted

\* A step that only moves an intent along.
LEMMA StatusStep ==
  ASSUME Accounted, NEW i \in IntentIds, NEW to,
         intents' = [intents EXCEPT ![i].status = to],
         \/ intents[i].status = "NONE" /\ to = "CREATED" /\ exists(mandateOfIntent(i))
         \/ intents[i].status \in Committed /\ to \in Committed,
         UNCHANGED <<now, registry, clearing>>
  PROVE  Accounted'
<1>1. TypeOK /\ IntentShape /\ UnregisteredIsFresh /\ BudgetsHold
  BY DEF Accounted
<1> DEFINE it == [intents[i] EXCEPT !.status = to]
           id == mandateOfIntent(i)
           a == accountOf(i)
<1>2. id \in MandateIds /\ a \in Owners
  BY IntentOwner
<1>3. intents[i] \in Intent /\ to \in IntentStatus
  BY <1>1 DEF TypeOK, Intent, IntentStatus, Committed
<1>4. /\ it \in Intent /\ it.status = to /\ it.authorized = intents[i].authorized
      /\ it.reserved = intents[i].reserved /\ it.filled = intents[i].filled
      /\ it.released = intents[i].released
  BY <1>3 DEF Intent
<1>5. intents' = [intents EXCEPT ![i] = it]
  BY <1>1 DEF TypeOK
<1>6. exists(id)
  BY <1>1 DEF UnregisteredIsFresh, Committed
<1>7. /\ it.status \in {"NONE", "CREATED"} => it.authorized = 0
      /\ it.status \in {"NONE", "CREATED", "VALIDATED"} => it.reserved = 0
      /\ it.filled <= it.reserved
      /\ it.released = IF it.status = "RECONCILED" THEN it.reserved - it.filled ELSE 0
  BY <1>1, <1>4 DEF IntentShape, Committed
<1>8. /\ state' \in [MandateIds -> MandateState]
      /\ BudgetsHold'
  BY <1>1 DEF TypeOK, RegistryTypeOK, registry, BudgetsHold
<1>9. charged(id)' = charged(id) + (it.authorized - intents[i].authorized)
  <2>1. charged(id)' = charged(id) /\ charged(id) \in Nat
    BY <1>1, <1>2 DEF charged, registry, TypeOK, RegistryTypeOK
  <2>2. it.authorized - intents[i].authorized = 0
    BY <1>3, <1>4 DEF Intent
  <2> HIDE DEF it, id
  <2>. QED
    BY <2>1, <2>2
<1>10. reservedUsd18'[a] = reservedUsd18[a] + ((it.reserved - it.released) - outstanding(i))
  <2>1. reservedUsd18'[a] = reservedUsd18[a] /\ reservedUsd18[a] \in Nat
    BY <1>1, <1>2 DEF clearing, TypeOK
  <2>2. (it.reserved - it.released) - outstanding(i) = 0
    BY <1>3, <1>4 DEF Intent, outstanding
  <2> HIDE DEF it, a
  <2>. QED
    BY <2>1, <2>2
<1>11. /\ reservedUsd18' \in [Owners -> Nat]
       /\ \A b \in Owners : b # a => reservedUsd18'[b] = reservedUsd18[b]
  BY <1>1 DEF clearing, TypeOK
<1>12. /\ UNCHANGED <<mandateOf, recognized, debt, now>>
       /\ \A x \in MandateIds : x # id => state'[x] = state[x]
  BY DEF registry, clearing
<1> HIDE DEF it, id, a
<1>. QED
  BY <1>4, <1>5, <1>6, <1>7, <1>8, <1>9, <1>10, <1>11, <1>12, IntentStep DEF id, a
\* A step of the registry alone keeps what was charged and what names the charges.
LEMMA RegistryStep ==
  ASSUME Accounted, UNCHANGED <<now, intents, clearing, mandateOf>>,
         NEW id \in MandateIds, exists(id), NEW s,
         s \in MandateState,
         state' = [state EXCEPT ![id] = s],
         s.debtDrawn = state[id].debtDrawn, s.notionalTraded = state[id].notionalTraded
  PROVE  Accounted'
<1>1. TypeOK /\ IntentShape /\ UnregisteredIsFresh /\ BudgetsHold /\ HeldBackIsCommitted
      /\ AuthorizedIsCharged
  BY DEF Accounted
<1>2. TypeOK'
  BY <1>1 DEF TypeOK, RegistryTypeOK, clearing
<1>3. \A x \in MandateIds : state'[x].debtDrawn = state[x].debtDrawn
                            /\ state'[x].notionalTraded = state[x].notionalTraded
  BY <1>1 DEF TypeOK, RegistryTypeOK
<1>4. DOMAIN mandateOf \subseteq MandateIds
  BY <1>1 DEF TypeOK, RegistryTypeOK
<1>5. IntentShape'
  BY <1>1 DEF IntentShape
<1>6. UnregisteredIsFresh'
  BY <1>1 DEF UnregisteredIsFresh, exists, TypeOK, RegistryTypeOK
<1>7. BudgetsHold'
  BY <1>1, <1>3, <1>4 DEF BudgetsHold
<1>8. HeldBackIsCommitted'
  BY <1>1, CommittedStays DEF HeldBackIsCommitted, clearing
<1>9. AuthorizedIsCharged'
  <2>1. \A x \in MandateIds : authorizedUnder(x)' = authorizedUnder(x) /\ charged(x)' = charged(x)
    BY <1>1, <1>3, AuthorizedStays DEF charged
  <2>. QED
    BY <1>1, <1>4, <2>1 DEF AuthorizedIsCharged
<1>. QED
  BY <1>2, <1>5, <1>6, <1>7, <1>8, <1>9 DEF Accounted

\* A new mandate starts with its whole budget.
LEMMA RegisterKeeps ==
  ASSUME Accounted, NEW m \in Envelopes, RegisterMandate(m), UNCHANGED <<now, intents, clearing>>
  PROVE  Accounted'
<1> DEFINE id == mandateIdFor(m)
<1>1. TypeOK /\ IntentShape /\ UnregisteredIsFresh /\ BudgetsHold /\ HeldBackIsCommitted
      /\ AuthorizedIsCharged
  BY DEF Accounted
<1>2. m \in Signed /\ ~exists(id) /\ id \in MandateIds
      /\ m.maxDebtUsd \in Nat /\ m.maxTradeNotionalUsd \in Nat
  BY DelegationConstants DEF RegisterMandate, NonceIsFree, mandateIdFor, MandateIds
<1>3. state[id] = FreshState /\ state' = state
  <2>1. state[id] = FreshState
    BY <1>1, <1>2 DEF UnregisteredIsFresh
  <2>. QED
    BY <1>1, <2>1 DEF RegisterMandate, TypeOK, RegistryTypeOK
<1>4. /\ DOMAIN mandateOf' = DOMAIN mandateOf \cup {id}
      /\ mandateOf'[id] = m
      /\ \A x \in DOMAIN mandateOf : mandateOf'[x] = mandateOf[x]
  BY <1>2 DEF RegisterMandate, exists
<1>5. TypeOK'
  <2>1. DOMAIN mandateOf' \subseteq MandateIds /\ Range(mandateOf)' \subseteq Signed
    BY <1>1, <1>2, <1>4 DEF TypeOK, RegistryTypeOK, Range
  <2>. QED
    BY <1>1, <1>3, <2>1 DEF TypeOK, RegistryTypeOK, clearing
<1>6. IntentShape'
  BY <1>1 DEF IntentShape
<1>7. UnregisteredIsFresh'
  BY <1>1, <1>3, <1>4 DEF UnregisteredIsFresh, exists
<1>8. BudgetsHold'
  BY <1>1, <1>2, <1>3, <1>4 DEF BudgetsHold, FreshState
<1>9. HeldBackIsCommitted'
  BY <1>1, CommittedStays DEF HeldBackIsCommitted, clearing
<1>10. AuthorizedIsCharged'
  <2>1. \A x \in MandateIds : authorizedUnder(x)' = authorizedUnder(x) /\ charged(x)' = charged(x)
    BY <1>1, <1>3, AuthorizedStays DEF charged
  <2>2. charged(id) = 0
    BY <1>3 DEF charged, FreshState
  <2>3. authorizedUnder(id) = 0
    <3> DEFINE f == [j \in IntentsUnder(id) |-> intents[j].authorized]
    <3>1. authorizedUnder(id) = SumFunctionOnSet(f, IntentsUnder(id))
      BY DEF authorizedUnder, SumOver, SumFunction
    <3>2. \A j \in IntentsUnder(id) : f[j] = 0
      BY <1>1, <1>2 DEF UnregisteredIsFresh, IntentShape, IntentsUnder
    <3>3. IsFiniteSet(IntentsUnder(id))
      BY <1>2, IntentsAreFinite
    <3> HIDE DEF f
    <3>. QED
      BY <3>1, <3>2, <3>3, SumOfZeros
  <2>4. DOMAIN mandateOf \subseteq MandateIds
    BY <1>1 DEF TypeOK, RegistryTypeOK
  <2>. QED
    BY <1>1, <1>2, <1>4, <2>1, <2>2, <2>3, <2>4 DEF AuthorizedIsCharged
<1>. QED
  BY <1>5, <1>6, <1>7, <1>8, <1>9, <1>10 DEF Accounted

\* Only value, debt and time change.
LEMMA OutsideStep ==
  ASSUME Accounted, TypeOK', UNCHANGED <<mandateOf, intents, reservedUsd18>>,
         \A id \in MandateIds : charged(id)' = charged(id), BudgetsHold', UnregisteredIsFresh'
  PROVE  Accounted'
<1>1. TypeOK /\ IntentShape /\ HeldBackIsCommitted /\ AuthorizedIsCharged
  BY DEF Accounted
<1>2. IntentShape'
  BY <1>1 DEF IntentShape
<1>3. HeldBackIsCommitted'
  BY <1>1, CommittedStays DEF HeldBackIsCommitted
<1>4. AuthorizedIsCharged'
  <2>1. \A x \in MandateIds : authorizedUnder(x)' = authorizedUnder(x)
    BY <1>1, AuthorizedStays
  <2>. QED
    BY <1>1, <2>1 DEF AuthorizedIsCharged, TypeOK, RegistryTypeOK
<1>. QED
  BY <1>2, <1>3, <1>4 DEF Accounted

\* A repayment made under a mandate charges nothing and promises nothing.
LEMMA ExecuteKeeps ==
  ASSUME Accounted, NEW who \in Actors, NEW a \in Owners, NEW id \in MandateIds, NEW asset,
         NEW n \in Amounts, Execute(who, a, id, asset, n)
  PROVE  Accounted'
<1>1. TypeOK /\ BudgetsHold /\ UnregisteredIsFresh
  BY DEF Accounted
<1>2. PICK req : /\ req.id = id /\ req.action = "REPAY" /\ req.amount = n /\ Authorize(req)
  BY DEF Execute
<1>3. n \in Nat
  BY DelegationConstants
<1>4. /\ id \in DOMAIN mandateOf
      /\ state' \in [MandateIds -> MandateState]
      /\ \A x \in MandateIds : x # id => state'[x] = state[x]
      /\ charged(id)' = charged(id) +
           (IF req.action \in {"BORROW"} \cup VenueActions THEN req.amount ELSE 0)
      /\ BudgetsHold'
  BY <1>1, <1>2, <1>3, AuthorizeCharges
<1>5. mandateOf' = mandateOf
  BY <1>2 DEF Authorize
<1>6. \A x \in MandateIds : charged(x)' = charged(x)
  <2>1. charged(id)' = charged(id) + 0
    BY <1>2, <1>4 DEF VenueActions
  <2>2. charged(id) \in Nat
    BY <1>1 DEF charged, TypeOK, RegistryTypeOK
  <2>3. charged(id)' = charged(id)
    BY <2>1, <2>2
  <2>. QED
    BY <1>4, <2>3 DEF charged
<1>7. TypeOK'
  <2>1. debt[a] \in Nat /\ debt[a] - Least(n, debt[a]) \in Nat
    BY <1>1, <1>3 DEF TypeOK, Least
  <2>2. debt' \in [Owners -> Nat]
    BY <1>1, <2>1 DEF Execute, TypeOK
  <2>. QED
    BY <1>1, <1>4, <1>5, <2>2 DEF Execute, TypeOK, RegistryTypeOK
<1>8. UnregisteredIsFresh'
  BY <1>1, <1>4, <1>5 DEF UnregisteredIsFresh, exists, Execute
<1>. QED
  BY <1>4, <1>5, <1>6, <1>7, <1>8, OutsideStep DEF Execute
\* Every step keeps the account of promises.
LEMMA AccountedNext ==
  ASSUME Accounted, [Next]_vars
  PROVE  Accounted'
<1>1. TypeOK /\ IntentShape /\ UnregisteredIsFresh /\ BudgetsHold /\ HeldBackIsCommitted
      /\ AuthorizedIsCharged
  BY DEF Accounted
<1>2. \A id \in MandateIds : state[id] \in MandateState
  BY <1>1 DEF TypeOK, RegistryTypeOK
<1>3. CASE UNCHANGED vars
  <2>1. TypeOK' /\ BudgetsHold' /\ UnregisteredIsFresh'
    BY <1>1, <1>3 DEF vars, registry, clearing, TypeOK, RegistryTypeOK, BudgetsHold,
                      UnregisteredIsFresh, exists
  <2>. QED
    BY <1>3, <2>1, OutsideStep DEF vars, registry, clearing, charged
<1>4. CASE \E m \in Envelopes : RegisterMandate(m) /\ UNCHANGED <<now, intents, clearing>>
  BY <1>4, RegisterKeeps
<1>5. CASE \E id \in MandateIds, who \in Actors :
             RevokeMandate(id, who) /\ UNCHANGED <<now, intents, clearing>>
  <2>1. PICK id \in MandateIds, who \in Actors :
          RevokeMandate(id, who) /\ UNCHANGED <<now, intents, clearing>>
    BY <1>5
  <2> DEFINE s == [state[id] EXCEPT !.revoked = TRUE]
  <2>2. state' = [state EXCEPT ![id] = s]
    BY <1>1, <2>1 DEF RevokeMandate, TypeOK, RegistryTypeOK
  <2>3. s \in MandateState
        /\ s.debtDrawn = state[id].debtDrawn /\ s.notionalTraded = state[id].notionalTraded
    BY <1>2
  <2> HIDE DEF s
  <2>. QED
    BY <2>1, <2>2, <2>3, RegistryStep DEF RevokeMandate
<1>6. CASE \E id \in MandateIds, who \in Actors :
             (PauseMandate(id, who) \/ ResumeMandate(id, who)) /\ UNCHANGED <<now, intents, clearing>>
  <2>1. PICK id \in MandateIds, who \in Actors :
          (PauseMandate(id, who) \/ ResumeMandate(id, who)) /\ UNCHANGED <<now, intents, clearing>>
    BY <1>6
  <2>2. PICK on \in BOOLEAN : \/ state' = [state EXCEPT ![id].ownerPaused = on]
                              \/ state' = [state EXCEPT ![id].guardianPaused = on]
    BY <2>1 DEF PauseMandate, ResumeMandate
  <2>3. PICK s \in {[state[id] EXCEPT !.ownerPaused = on], [state[id] EXCEPT !.guardianPaused = on]} :
          state' = [state EXCEPT ![id] = s]
    BY <1>1, <2>2 DEF TypeOK, RegistryTypeOK
  <2>4. s \in MandateState
        /\ s.debtDrawn = state[id].debtDrawn /\ s.notionalTraded = state[id].notionalTraded
    BY <1>2
  <2>5. exists(id) /\ mandateOf' = mandateOf
    BY <2>1 DEF PauseMandate, ResumeMandate
  <2>. QED
    BY <2>1, <2>3, <2>4, <2>5, RegistryStep
<1>7. CASE \E i \in IntentIds, who \in Actors : CreateIntent(i, who)
  <2>1. PICK i \in IntentIds, who \in Actors : CreateIntent(i, who)
    BY <1>7
  <2>2. /\ intents[i].status = "NONE" /\ exists(mandateOfIntent(i))
        /\ intents' = [intents EXCEPT ![i].status = "CREATED"]
        /\ UNCHANGED <<now, registry, clearing>>
    BY <2>1 DEF CreateIntent, Moves, isLive
  <2>. QED
    BY <2>2, StatusStep
<1>8. CASE \E i \in IntentIds : \E req \in Requests(mandateOfIntent(i)) : ValidateIntent(i, req)
  <2>0. PICK i \in IntentIds : \E req \in Requests(mandateOfIntent(i)) : ValidateIntent(i, req)
    BY <1>8
  <2>1. PICK req \in Requests(mandateOfIntent(i)) : ValidateIntent(i, req)
    BY <2>0
  <2> DEFINE id == mandateOfIntent(i)
             a == accountOf(i)
             it == [intents[i] EXCEPT !.status = "VALIDATED", !.authorized = req.amount]
  <2>2. req.id = id /\ req.amount \in Nat /\ id \in MandateIds /\ a \in Owners
    BY <2>1, DelegationConstants, IntentOwner DEF Requests
  <2>3. /\ req.id \in DOMAIN mandateOf
        /\ req.action \in mandateOf[req.id].actions
        /\ state' \in [MandateIds -> MandateState]
        /\ \A x \in MandateIds : x # req.id => state'[x] = state[x]
        /\ charged(req.id)' = charged(req.id) +
             (IF req.action \in {"BORROW"} \cup VenueActions THEN req.amount ELSE 0)
        /\ BudgetsHold'
    BY <1>1, <2>1, <2>2, AuthorizeCharges DEF ValidateIntent
  <2>4. /\ intents[i].status = "CREATED" /\ UNCHANGED <<now, clearing>> /\ mandateOf' = mandateOf
        /\ intents' = [intents EXCEPT ![i].status = "VALIDATED", ![i].authorized = req.amount]
    BY <2>1 DEF ValidateIntent, Authorize
  <2>5. /\ intents[i] \in Intent /\ intents[i].authorized = 0 /\ intents[i].reserved = 0
        /\ intents[i].filled = 0 /\ intents[i].released = 0
    BY <1>1, <2>4 DEF TypeOK, Intent, IntentShape
  <2>6. /\ it \in Intent /\ it.status = "VALIDATED" /\ it.authorized = req.amount
        /\ it.reserved = 0 /\ it.filled = 0 /\ it.released = 0
    BY <2>2, <2>5 DEF Intent, IntentStatus
  <2>7. intents' = [intents EXCEPT ![i] = it]
    BY <1>1, <2>4 DEF TypeOK
  <2> HIDE DEF it, id, a
  <2>8. mandateOf[id].actions \subseteq {"BORROW"} \cup VenueActions =>
          charged(id)' = charged(id) + (it.authorized - intents[i].authorized)
    BY <2>2, <2>3, <2>5, <2>6
  <2>9. /\ reservedUsd18' \in [Owners -> Nat]
        /\ \A b \in Owners : b # a => reservedUsd18'[b] = reservedUsd18[b]
        /\ reservedUsd18'[a] = reservedUsd18[a] + ((it.reserved - it.released) - outstanding(i))
    <3>1. outstanding(i) = 0 /\ reservedUsd18[a] \in Nat
      BY <1>1, <2>2, <2>5 DEF outstanding, TypeOK
    <3>. QED
      BY <1>1, <2>4, <2>6, <3>1 DEF clearing, TypeOK
  <2>10. /\ it.status \in {"NONE", "CREATED"} => it.authorized = 0
         /\ it.status \in {"NONE", "CREATED", "VALIDATED"} => it.reserved = 0
         /\ it.filled <= it.reserved
         /\ it.released = IF it.status = "RECONCILED" THEN it.reserved - it.filled ELSE 0
    BY <2>6
  <2>11. exists(id) /\ UNCHANGED <<mandateOf, recognized, debt, now>>
    BY <2>2, <2>3, <2>4 DEF exists, clearing
  <2>12. /\ BudgetsHold'
         /\ state' \in [MandateIds -> MandateState]
         /\ \A x \in MandateIds : x # id => state'[x] = state[x]
    BY <2>2, <2>3
  <2>. QED
    BY <2>6, <2>7, <2>8, <2>9, <2>10, <2>11, <2>12, IntentStep DEF id, a
<1>9. CASE \E i \in IntentIds, who \in Actors : ReserveIntent(i, who)
  <2>1. PICK i \in IntentIds, who \in Actors : ReserveIntent(i, who)
    BY <1>9
  <2> DEFINE id == mandateOfIntent(i)
             a == accountOf(i)
             n == intents[i].authorized
             it == [intents[i] EXCEPT !.status = "RESERVED", !.reserved = n]
  <2>2. id \in MandateIds /\ a \in Owners /\ intents[i] \in Intent /\ n \in Nat
    BY <1>1, IntentOwner DEF TypeOK, Intent
  <2>3. intents[i].reserved = 0 /\ intents[i].filled = 0 /\ intents[i].released = 0
    BY <1>1, <2>1, <2>2 DEF ReserveIntent, IntentShape, Intent
  <2>4. /\ it \in Intent /\ it.status = "RESERVED" /\ it.authorized = n
        /\ it.reserved = n /\ it.filled = 0 /\ it.released = 0
    BY <2>2, <2>3 DEF Intent, IntentStatus
  <2>5. intents' = [intents EXCEPT ![i] = it]
    BY <1>1, <2>1 DEF TypeOK, ReserveIntent
  <2>6. /\ reservedUsd18' \in [Owners -> Nat]
        /\ reservedUsd18'[a] = reservedUsd18[a] + n
        /\ \A b \in Owners : b # a => reservedUsd18'[b] = reservedUsd18[b]
    BY <1>1, <2>1, <2>2, ReserveFits DEF ReserveIntent
  <2>7. exists(id) /\ UNCHANGED <<now, registry, recognized, debt>>
    BY <2>1 DEF ReserveIntent, StillAllowed, isLive
  <2>8. /\ state' \in [MandateIds -> MandateState]
        /\ BudgetsHold'
    BY <1>1, <2>7 DEF TypeOK, RegistryTypeOK, registry, BudgetsHold
  <2>9. charged(id)' = charged(id) + (it.authorized - intents[i].authorized)
    <3>1. charged(id)' = charged(id) /\ charged(id) \in Nat
      BY <1>2, <2>2, <2>7 DEF charged, registry
    <3> HIDE DEF it, id
    <3>. QED
      BY <2>2, <2>4, <3>1
  <2>10. reservedUsd18'[a] = reservedUsd18[a] + ((it.reserved - it.released) - outstanding(i))
    <3>1. outstanding(i) = 0 /\ it.reserved - it.released = n
      BY <2>2, <2>3, <2>4 DEF outstanding
    <3> HIDE DEF it, n, a
    <3>. QED
      BY <2>2, <2>6, <3>1
  <2>11. /\ it.status \in {"NONE", "CREATED"} => it.authorized = 0
         /\ it.status \in {"NONE", "CREATED", "VALIDATED"} => it.reserved = 0
         /\ it.filled <= it.reserved
         /\ it.released = IF it.status = "RECONCILED" THEN it.reserved - it.filled ELSE 0
    BY <2>2, <2>4
  <2>12. /\ UNCHANGED <<mandateOf, recognized, debt, now>>
         /\ \A x \in MandateIds : x # id => state'[x] = state[x]
    BY <2>7 DEF registry
  <2> HIDE DEF it, id, a, n
  <2>. QED
    BY <2>4, <2>5, <2>6, <2>7, <2>8, <2>9, <2>10, <2>11, <2>12, IntentStep DEF id, a
<1>10. CASE \E i \in IntentIds :
              \/ SubmitIntent(i) \/ MarkExecutionUnknown(i) \/ RequireReconciliation(i)
              \/ \E who \in Actors : CancelIntent(i, who)
  <2>1. PICK i \in IntentIds :
              \/ SubmitIntent(i) \/ MarkExecutionUnknown(i) \/ RequireReconciliation(i)
              \/ \E who \in Actors : CancelIntent(i, who)
    BY <1>10
  <2>2. PICK to \in Committed : intents[i].status \in Committed
                                /\ intents' = [intents EXCEPT ![i].status = to]
    BY <2>1 DEF SubmitIntent, MarkExecutionUnknown, RequireReconciliation, CancelIntent, Moves,
                Committed, IntentStatus
  <2>3. UNCHANGED <<now, registry, clearing>>
    BY <2>1 DEF SubmitIntent, MarkExecutionUnknown, RequireReconciliation, CancelIntent
  <2>. QED
    BY <2>2, <2>3, StatusStep
<1>11. CASE \E i \in IntentIds, n \in Amounts : RecordFill(i, n)
  <2>1. PICK i \in IntentIds, n \in Amounts : RecordFill(i, n)
    BY <1>11
  <2>2. intents[i] \in Intent /\ n \in Nat
    BY <1>1, <2>1, DelegationConstants DEF TypeOK, Intent
  <2>3. PICK to \in {"FILLED", "PARTIALLY_FILLED"} :
          intents' = [intents EXCEPT ![i].filled = @ + n, ![i].status = to]
    BY <2>1 DEF RecordFill
  <2>4. /\ intents[i].filled + n <= intents[i].reserved
        /\ intents[i].status \in {"SUBMITTED", "PARTIALLY_FILLED", "RECONCILIATION_REQUIRED"}
        /\ UNCHANGED <<now, registry, clearing>>
    BY <2>1 DEF RecordFill, FillFits
  <2> DEFINE id == mandateOfIntent(i)
             a == accountOf(i)
             it == [intents[i] EXCEPT !.filled = @ + n, !.status = to]
  <2>5. id \in MandateIds /\ a \in Owners /\ exists(id)
    BY <1>1, <2>4, IntentOwner DEF UnregisteredIsFresh
  <2>6. /\ it \in Intent /\ it.status = to /\ it.authorized = intents[i].authorized
        /\ it.reserved = intents[i].reserved /\ it.filled = intents[i].filled + n
        /\ it.released = intents[i].released /\ intents[i].released = 0
    <3>1. intents[i].filled + n \in Nat /\ to \in IntentStatus
      BY <2>2 DEF Intent, IntentStatus
    <3>2. intents[i].released = 0
      BY <1>1, <2>4 DEF IntentShape
    <3>. QED
      BY <2>2, <3>1, <3>2 DEF Intent
  <2>7. intents' = [intents EXCEPT ![i] = it]
    BY <1>1, <2>3 DEF TypeOK
  <2>8. /\ state' \in [MandateIds -> MandateState]
        /\ BudgetsHold'
    BY <1>1, <2>4 DEF TypeOK, RegistryTypeOK, registry, BudgetsHold
  <2>9. charged(id)' = charged(id) + (it.authorized - intents[i].authorized)
    <3>1. charged(id)' = charged(id) /\ charged(id) \in Nat
      BY <1>2, <2>4, <2>5 DEF charged, registry
    <3>2. it.authorized - intents[i].authorized = 0
      BY <2>2, <2>6 DEF Intent
    <3> HIDE DEF it, id
    <3>. QED
      BY <3>1, <3>2
  <2>10. /\ reservedUsd18' \in [Owners -> Nat]
         /\ \A b \in Owners : b # a => reservedUsd18'[b] = reservedUsd18[b]
         /\ reservedUsd18'[a] = reservedUsd18[a] + ((it.reserved - it.released) - outstanding(i))
    <3>1. (it.reserved - it.released) - outstanding(i) = 0
      BY <2>2, <2>6 DEF Intent, outstanding
    <3>2. reservedUsd18[a] \in Nat
      BY <1>1, <2>5 DEF TypeOK
    <3> HIDE DEF it, a
    <3>. QED
      BY <1>1, <2>4, <3>1, <3>2 DEF clearing, TypeOK
  <2> HIDE DEF it, id, a
  <2>. QED
    BY <2>4, <2>5, <2>6, <2>7, <2>8, <2>9, <2>10, IntentStep DEF id, a, registry, clearing
<1>12. CASE \E i \in IntentIds : Reconcile(i)
  <2>1. PICK i \in IntentIds : Reconcile(i)
    BY <1>12
  <2> DEFINE id == mandateOfIntent(i)
             a == accountOf(i)
             back == Remainder(intents[i])
             it == [intents[i] EXCEPT !.status = "RECONCILED", !.released = back]
  <2>2. intents[i] \in Intent /\ id \in MandateIds /\ a \in Owners
    BY <1>1, IntentOwner DEF TypeOK, Intent
  <2>3. /\ intents[i].status \in {"FILLED", "CANCELLED"}
        /\ UNCHANGED <<now, registry, recognized, debt>>
        /\ reservedUsd18' = [reservedUsd18 EXCEPT ![a] = @ - Least(back, @)]
    BY <2>1 DEF Reconcile, ReleaseReservation
  <2>4. /\ intents[i].released = 0 /\ intents[i].filled <= intents[i].reserved
        /\ back = intents[i].reserved - intents[i].filled /\ back \in Nat
    BY <1>1, <2>2, <2>3 DEF IntentShape, Remainder, Intent
  <2>5. /\ it \in Intent /\ it.status = "RECONCILED" /\ it.authorized = intents[i].authorized
        /\ it.reserved = intents[i].reserved /\ it.filled = intents[i].filled
        /\ it.released = back
    BY <2>2, <2>4 DEF Intent, IntentStatus
  <2>6. intents' = [intents EXCEPT ![i] = it]
    BY <1>1, <2>1 DEF TypeOK, Reconcile
  <2>7. exists(id)
    BY <1>1, <2>3, IntentOwner DEF UnregisteredIsFresh
  <2>8. /\ state' \in [MandateIds -> MandateState]
        /\ BudgetsHold'
    BY <1>1, <2>3 DEF TypeOK, RegistryTypeOK, registry, BudgetsHold
  <2>9. charged(id)' = charged(id) + (it.authorized - intents[i].authorized)
    <3>1. charged(id)' = charged(id) /\ charged(id) \in Nat
      BY <1>2, <2>2, <2>3 DEF charged, registry
    <3>2. it.authorized - intents[i].authorized = 0
      BY <2>2, <2>5 DEF Intent
    <3> HIDE DEF it, id
    <3>. QED
      BY <3>1, <3>2
  <2>10. back <= reservedUsd18[a] /\ reservedUsd18[a] \in Nat
    <3>1. reservedUsd18[a] = committedFor(a) /\ reservedUsd18[a] \in Nat
      BY <1>1, <2>2 DEF HeldBackIsCommitted, TypeOK
    <3>2. outstanding(i) <= committedFor(a)
      BY <1>1, OneOfCommitted
    <3>3. back <= outstanding(i)
      BY <2>2, <2>4 DEF outstanding, Intent
    <3>4. outstanding(i) \in Nat
      BY <1>1, OneOfCommitted
    <3> HIDE DEF back, a
    <3>. QED
      BY <2>4, <3>1, <3>2, <3>3, <3>4
  <2>11. /\ reservedUsd18' \in [Owners -> Nat]
         /\ \A b \in Owners : b # a => reservedUsd18'[b] = reservedUsd18[b]
         /\ reservedUsd18'[a] = reservedUsd18[a] - back
    <3>1. reservedUsd18[a] - Least(back, reservedUsd18[a]) = reservedUsd18[a] - back
          /\ reservedUsd18[a] - back \in Nat
      BY <2>4, <2>10 DEF Least
    <3> HIDE DEF back
    <3>. QED
      BY <1>1, <2>2, <2>3, <3>1 DEF TypeOK
  <2>12. reservedUsd18'[a] = reservedUsd18[a] + ((it.reserved - it.released) - outstanding(i))
    <3>1. (it.reserved - it.released) - outstanding(i) = 0 - back
      BY <2>2, <2>4, <2>5 DEF outstanding, Intent
    <3> HIDE DEF it, back, a
    <3>. QED
      BY <2>4, <2>10, <2>11, <3>1
  <2>13. it.released = it.reserved - it.filled
    BY <2>4, <2>5
  <2> HIDE DEF it, id, a, back
  <2>. QED
    BY <2>2, <2>3, <2>4, <2>5, <2>6, <2>7, <2>8, <2>9, <2>11, <2>12, <2>13, IntentStep
       DEF id, a, registry
<1>13. CASE \E who \in Actors, a \in Owners, id \in MandateIds, asset \in Assets, n \in Amounts :
              Execute(who, a, id, asset, n)
  BY <1>13, ExecuteKeeps
<1>14. CASE \/ \E a \in Owners, n \in Amounts : Borrow(a, n)
            \/ \E a \in Owners, v \in Values : Revalue(a, v)
            \/ Tick
  <2>1. UNCHANGED <<mandateOf, state, intents, reservedUsd18>>
    BY <1>14 DEF Borrow, Revalue, Tick, registry, clearing
  <2>2. TypeOK'
    <3>1. CASE \E a \in Owners, n \in Amounts : Borrow(a, n)
      <4>1. PICK a \in Owners, n \in Amounts : Borrow(a, n)
        BY <3>1
      <4>2. debt[a] + n \in Nat
        BY <1>1, DelegationConstants DEF TypeOK
      <4>. QED
        BY <1>1, <2>1, <4>1, <4>2 DEF Borrow, TypeOK, RegistryTypeOK
    <3>2. CASE \E a \in Owners, v \in Values : Revalue(a, v)
      BY <1>1, <2>1, <3>2 DEF Revalue, TypeOK, RegistryTypeOK
    <3>3. CASE Tick
      <4>1. now' \in 1..MaxTime
        BY <1>1, <3>3, DelegationConstants DEF Tick, TypeOK, RegistryTypeOK
      <4>. QED
        BY <1>1, <2>1, <3>3, <4>1 DEF Tick, TypeOK, RegistryTypeOK, clearing
    <3>. QED
      BY <1>14, <3>1, <3>2, <3>3
  <2>3. BudgetsHold' /\ UnregisteredIsFresh'
    BY <1>1, <2>1 DEF BudgetsHold, UnregisteredIsFresh, exists
  <2>. QED
    BY <2>1, <2>2, <2>3, OutsideStep DEF charged
<1>. QED
  BY <1>3, <1>4, <1>5, <1>6, <1>7, <1>8, <1>9, <1>10, <1>11, <1>12, <1>13, <1>14 DEF Next

\* Registry, intents and reservations agree in every reachable state (MandateRegistry.sol,
\* IntentBook.sol and ClearingHouse's reserve and release).
THEOREM DelegationAccounted == Spec => []Accounted
<1>1. Init => Accounted
  BY AccountedInit
<1>2. Accounted /\ [Next]_vars => Accounted'
  BY AccountedNext
<1>. QED
  BY <1>1, <1>2, PTL DEF Spec

\* What ClearingHouse holds back for an account is exactly what its intents have reserved and
\* not been proved to have left unused, for any number of owners, mandates and intents.
THEOREM ReservationsAreExact == Spec => []ReservedIsOutstanding
<1>1. Accounted => ReservedIsOutstanding
  <2> SUFFICES ASSUME Accounted PROVE ReservedIsOutstanding
    OBVIOUS
  <2>1. \A a \in Owners : reservedUsd18[a] = SumOver(IntentsOf(a), outstanding)
    BY DEF Accounted, HeldBackIsCommitted, committedFor
  <2>2. ASSUME NEW i \in IntentIds
        PROVE  /\ intents[i].filled <= outstanding(i)
               /\ intents[i].status = "RECONCILED" => outstanding(i) = intents[i].filled
    <3>1. intents[i].filled \in Nat /\ intents[i].reserved \in Nat
      BY DEF Accounted, TypeOK
    <3>2. /\ intents[i].filled <= intents[i].reserved
          /\ intents[i].released = IF intents[i].status = "RECONCILED"
                                   THEN intents[i].reserved - intents[i].filled ELSE 0
      BY DEF Accounted, IntentShape
    <3>. QED
      BY <3>1, <3>2 DEF outstanding
  <2>. QED
    BY <2>1, <2>2 DEF ReservedIsOutstanding
<1>. QED
  BY <1>1, DelegationAccounted, PTL

\* The caps an owner signed bound everything committed under the mandate, for any envelopes
\* and any split of the budget into intents.
THEOREM CapsBoundCommitments == Spec => []SignedCapsHold
<1>1. Accounted => SignedCapsHold
  <2> SUFFICES ASSUME Accounted, NEW id \in DOMAIN mandateOf
               PROVE  charged(id) <= mandateOf[id].maxDebtUsd + mandateOf[id].maxTradeNotionalUsd
    BY DEF Accounted, AuthorizedIsCharged, SignedCapsHold
  <2>1. id \in MandateIds /\ mandateOf[id] \in Signed
    BY DEF Accounted, TypeOK, RegistryTypeOK, Range
  <2>2. state[id].debtDrawn \in Nat /\ state[id].notionalTraded \in Nat
    BY <2>1 DEF Accounted, TypeOK, RegistryTypeOK
  <2>3. mandateOf[id].maxDebtUsd \in Nat /\ mandateOf[id].maxTradeNotionalUsd \in Nat
    BY <2>1, DelegationConstants
  <2>4. /\ state[id].debtDrawn <= mandateOf[id].maxDebtUsd
        /\ state[id].notionalTraded <= mandateOf[id].maxTradeNotionalUsd
    BY DEF Accounted, BudgetsHold
  <2>. QED
    BY <2>2, <2>3, <2>4 DEF charged
<1>. QED
  BY <1>1, DelegationAccounted, PTL
\* A draw or a reservation leaves an account within its limit with all that is promised
\* already, for any values, prices and amounts.
THEOREM NothingPromisedTwice == Spec => NeverPromisedTwice
<1> DEFINE Fits == \A a \in Owners :
             (debt'[a] > debt[a] \/ reservedUsd18'[a] > reservedUsd18[a]) =>
               debt'[a] + reservedUsd18'[a] <= MulDiv(recognized[a], InitialLtv, BPS)
<1>1. Accounted /\ [Next]_vars => [Fits]_vars
  <2> SUFFICES ASSUME Accounted, Next, NEW a \in Owners,
                      debt'[a] > debt[a] \/ reservedUsd18'[a] > reservedUsd18[a]
               PROVE  debt'[a] + reservedUsd18'[a] <= borrowLimit(a)
    BY DEF borrowLimit
  <2>1. TypeOK /\ debt[a] \in Nat /\ reservedUsd18[a] \in Nat /\ borrowLimit(a) \in Nat
    BY LimitType DEF Accounted, TypeOK
  <2>2. CASE \E i \in IntentIds, who \in Actors : ReserveIntent(i, who)
    <3>1. PICK i \in IntentIds, who \in Actors : ReserveIntent(i, who)
      BY <2>2
    <3> DEFINE n == intents[i].authorized
               b == accountOf(i)
    <3>2. Reserve(b, n) /\ debt' = debt /\ b \in Owners /\ n \in Nat
      BY <2>1, <3>1, IntentOwner DEF ReserveIntent, TypeOK
    <3> HIDE DEF n, b
    <3>3. /\ reservedUsd18'[b] = reservedUsd18[b] + n
          /\ a # b => reservedUsd18'[a] = reservedUsd18[a]
          /\ n > 0 => debt[b] + reservedUsd18'[b] <= borrowLimit(b)
      BY <2>1, <3>2, ReserveFits
    <3>4. a = b /\ n > 0
      BY <2>1, <3>2, <3>3
    <3>. QED
      BY <3>2, <3>3, <3>4 DEF borrowLimit
  <2>3. CASE \E b \in Owners, n \in Amounts : Borrow(b, n)
    <3>1. PICK b \in Owners, n \in Amounts : Borrow(b, n)
      BY <2>3
    <3>2. n \in Nat /\ reservedUsd18' = reservedUsd18 /\ n <= available(b)
          /\ debt' = [debt EXCEPT ![b] = @ + n]
      BY <3>1, DelegationConstants DEF Borrow
    <3>3. a = b /\ debt'[a] = debt[a] + n /\ n > 0
      BY <2>1, <3>2 DEF TypeOK
    <3>4. n <= available(a)
      BY <3>2, <3>3 DEF available, borrowLimit
    <3>5. n <= borrowLimit(a) - (debt[a] + reservedUsd18[a])
      BY <2>1, <3>2, <3>3, <3>4 DEF available, Monus
    <3>. QED
      BY <2>1, <3>2, <3>3, <3>5
  <2>4. CASE \E i \in IntentIds : Reconcile(i)
    <3>1. PICK i \in IntentIds : Reconcile(i)
      BY <2>4
    <3> DEFINE back == Remainder(intents[i])
               b == accountOf(i)
    <3>2. /\ reservedUsd18' = [reservedUsd18 EXCEPT ![b] = @ - Least(back, @)] /\ debt' = debt
          /\ b \in Owners /\ back \in Nat
      BY <2>1, <3>1, IntentOwner DEF Reconcile, ReleaseReservation, Remainder, Accounted,
                                     IntentShape, TypeOK
    <3> HIDE DEF back, b
    <3>3. reservedUsd18'[a] <= reservedUsd18[a] /\ reservedUsd18'[a] \in Nat
      BY <2>1, <3>2 DEF TypeOK, Least
    <3>. QED
      BY <2>1, <3>2, <3>3
  <2>5. CASE \E who \in Actors, b \in Owners, id \in MandateIds, asset \in Assets, n \in Amounts :
               Execute(who, b, id, asset, n)
    <3>1. PICK who \in Actors, b \in Owners, id \in MandateIds, asset \in Assets, n \in Amounts :
            Execute(who, b, id, asset, n)
      BY <2>5
    <3>2. n \in Nat /\ reservedUsd18' = reservedUsd18
          /\ debt' = [debt EXCEPT ![b] = @ - Least(n, @)]
      BY <3>1, DelegationConstants DEF Execute
    <3>3. debt'[a] <= debt[a] /\ debt'[a] \in Nat
      BY <2>1, <3>2 DEF TypeOK, Least
    <3>. QED
      BY <2>1, <3>2, <3>3
  <2>6. CASE UNCHANGED <<debt, reservedUsd18>>
    BY <2>1, <2>6
  <2>7. \/ UNCHANGED <<debt, reservedUsd18>>
        \/ \E i \in IntentIds, who \in Actors : ReserveIntent(i, who)
        \/ \E b \in Owners, n \in Amounts : Borrow(b, n)
        \/ \E i \in IntentIds : Reconcile(i)
        \/ \E who \in Actors, b \in Owners, id \in MandateIds, asset \in Assets, n \in Amounts :
             Execute(who, b, id, asset, n)
    BY DEF Next, clearing, CreateIntent, ValidateIntent, SubmitIntent, RecordFill,
           MarkExecutionUnknown, RequireReconciliation, CancelIntent, Revalue, Tick
  <2>. QED
    BY <2>2, <2>3, <2>4, <2>5, <2>6, <2>7
<1>. QED
  BY <1>1, DelegationAccounted, PTL DEF Spec, NeverPromisedTwice
=============================================================================
