-------------------------- MODULE ReadModelProofs --------------------------
(***************************************************************************)
(* What is off chain, for every policy, trigger, price and wish: an        *)
(* instance keeps to its budget and its cooldown through every outcome of  *)
(* its runs, and yield never acts in a drain that holds anything of higher *)
(* priority (HostOK); a wish is done no second time after a call the form  *)
(* was told of, and what lands is what it showed (FormsOK).  On chain, for *)
(* any holders and any limits: what one does with pool shares takes        *)
(* nothing from another's (PoolOK), and positions that share a risk stay   *)
(* within its cap (PortfolioOK); and a figure that restricts nothing       *)
(* outlives every reorganisation (FiguresOK).  What is walked of the log,  *)
(* late, twice or across a reorganisation, is shown as the log has it      *)
(* (LogOK).  And no claim on the Base vault is locked in by rounding       *)
(* (CustodyOK).                                                            *)
(***************************************************************************)
EXTENDS ReadModels, Induction

-----------------------------------------------------------------------------
(* The Sentinels' host: what its variables hold.                            *)

Identities ==
  ({"TIME"} \X Instances \X Int) \cup ({"RISK_STATE"} \X BOOLEAN \X Nat)
    \cup ({"AI_OBSERVATION"} \X Contents)
Triggers ==
  [class : {"TIME", "RISK_STATE", "AI_OBSERVATION"},
   authority : Claims \cup {"DETERMINISTIC_SCHEDULE", "DETERMINISTIC_ONCHAIN", "AI_INTERPRETED"},
   identity : Identities]
Items == [instance : Instances, trigger : Triggers]

RunStates ==
  {"BLOCKED_BY_POLICY", "NO_ACTION_REQUIRED", "BLOCKED_BY_BUDGET", "WAITING_USER_CONFIRMATION",
   "AUTHORIZATION_CHECKING", "BLOCKED_BY_RISK_EPOCH", "BLOCKED_BY_MANDATE", "COMPLETE",
   "EXECUTION_UNKNOWN", "SNAPSHOT_PINNING", "SUBMITTING"}
RunsOnRecord ==
  [state : RunStates, amount : Nat, effectiveAt : Nat,
   tx : {"none", "pending", "unrecorded", "success", "reverted"},
   entry : {"NONE", "RESERVED", "CONFIRMED", "RELEASED"}]

\* A batch in the order of its priorities.
Ranked(items) ==
  \A m, n \in DOMAIN items : m <= n => priorityOf(items[m]) <= priorityOf(items[n])

\* A run that is on record belongs to an instance, was entered by now, and is reserved for as long
\* as its outcome is unknown.
RunOK(r) ==
  /\ r[1] \in Instances /\ runs[r].effectiveAt <= clock
  /\ runs[r].state = "EXECUTION_UNKNOWN" => runs[r].entry = "RESERVED"

HostTypes ==
  /\ clock \in Nat /\ account \in [debt : Nat, maintenance : Nat]
  /\ queue \in Seq(Items) /\ batch \in Seq(Items) /\ at \in 0..Len(batch)
  /\ IsFiniteSet(DOMAIN runs) /\ runs \in [DOMAIN runs -> RunsOnRecord]

FlightOK ==
  flight # NoFlight =>
    /\ at # 0 /\ flight.amount \in Nat
    /\ flight.run \in DOMAIN runs /\ runs[flight.run].entry = "RESERVED"

HostOK ==
  /\ HostTypes /\ Ranked(batch) /\ FlightOK /\ YieldYields /\ PacingHolds
  /\ \A r \in DOMAIN runs : RunOK(r)

-----------------------------------------------------------------------------
(* The order of a batch.                                                    *)

\* The ranks of the instances.
LEMMA RankIs == ASSUME NEW item \in Items PROVE priorityOf(item) \in 0..YIELD
BY HostConstants DEF Items, priorityOf

\* An item inserted behind its priority leaves the items ranked.
LEMMA InsertionRanks ==
  ASSUME NEW s \in Seq(Items), Ranked(s), NEW item \in Items
  PROVE  /\ InsertByPriority(s, item) \in Seq(Items) /\ Ranked(InsertByPriority(s, item))
         /\ InsertByPriority(s, item) # <<>>
<1>1. PICK n \in Nat : n = Len(s)
  OBVIOUS
<1>2. s \in [1..n -> Items] /\ DOMAIN s = 1..n
  BY <1>1
<1> DEFINE T == {0} \cup {i \in DOMAIN s : priorityOf(s[i]) <= priorityOf(item)}
<1>3. T \in SUBSET Nat /\ IsFiniteSet(T) /\ T # {} /\ T \in SUBSET (0..n)
  <2>1. T \in SUBSET (0..n) /\ T # {}
    BY <1>2
  <2> HIDE DEF T
  <2>2. IsFiniteSet(0..n) /\ 0..n \subseteq Nat
    BY FS_Interval
  <2>3. IsFiniteSet(T)
    BY <2>1, <2>2, FS_Subset
  <2>. QED
    BY <2>1, <2>2, <2>3
<1>4. PICK t : t = Max(T)
  OBVIOUS
<1>5. t \in T /\ \A y \in T : y <= t
  <2> HIDE DEF T
  <2>. QED
    BY <1>3, <1>4, GreatestOf
<1>6. t \in 0..n /\ t + 1 \in 1..(n + 1)
  BY <1>3, <1>5
<1>7. PICK w : w = InsertByPriority(s, item)
  OBVIOUS
<1>8. w = InsertAt(s, t + 1, item)
  BY <1>4, <1>7 DEF InsertByPriority
<1>9. w \in Seq(Items) /\ Len(w) = n + 1 /\ Inserted(n, s, t + 1, item, w)
  BY <1>1, <1>6, <1>8, InsertionIs
<1>10. \A i \in 1..n : priorityOf(s[i]) \in 0..YIELD
  BY <1>2, RankIs
<1>11. priorityOf(item) \in 0..YIELD
  BY RankIs
<1>12. ASSUME NEW i \in 1..t
       PROVE  priorityOf(s[i]) <= priorityOf(item)
  <2>1. t # 0 /\ t \in 1..n /\ i \in 1..n /\ i <= t
    BY <1>6
  <2>2. priorityOf(s[t]) <= priorityOf(item)
    BY <1>5, <2>1
  <2>3. priorityOf(s[i]) <= priorityOf(s[t])
    BY <1>2, <2>1 DEF Ranked
  <2>. QED
    BY <1>10, <1>11, <2>1, <2>2, <2>3 DEF YIELD
<1>13. ASSUME NEW i \in (t + 1)..n
       PROVE  priorityOf(item) <= priorityOf(s[i])
  <2>1. i \in 1..n /\ ~(i <= t)
    BY <1>6
  <2>2. ~(priorityOf(s[i]) <= priorityOf(item))
    BY <1>2, <1>5, <2>1
  <2>. QED
    BY <1>10, <1>11, <2>1, <2>2 DEF YIELD
<1> HIDE DEF T
<1>14. ASSUME NEW i \in 1..(n + 1), NEW j \in 1..(n + 1), i <= j
       PROVE  priorityOf(w[i]) <= priorityOf(w[j])
  <2>1. /\ i < t + 1 => w[i] = s[i] /\ i \in 1..t /\ i \in 1..n
        /\ i = t + 1 => w[i] = item
        /\ i > t + 1 => w[i] = s[i - 1] /\ i - 1 \in (t + 1)..n /\ i - 1 \in 1..n
    BY <1>6, <1>9 DEF Inserted
  <2>2. /\ j < t + 1 => w[j] = s[j] /\ j \in 1..t /\ j \in 1..n
        /\ j = t + 1 => w[j] = item
        /\ j > t + 1 => w[j] = s[j - 1] /\ j - 1 \in (t + 1)..n /\ j - 1 \in 1..n
    BY <1>6, <1>9 DEF Inserted
  <2>3. \A k, m \in 1..n : k <= m => priorityOf(s[k]) <= priorityOf(s[m])
    BY <1>2 DEF Ranked
  <2>4. CASE j < t + 1
    BY <1>6, <1>14, <2>1, <2>2, <2>3, <2>4
  <2>5. CASE i > t + 1
    <3>1. j > t + 1 /\ i - 1 <= j - 1
      BY <1>6, <1>14, <2>5
    <3>. QED
      BY <2>1, <2>2, <2>3, <2>5, <3>1
  <2>6. CASE i = t + 1
    BY <1>6, <1>11, <1>13, <1>14, <2>1, <2>2, <2>6 DEF YIELD
  <2>7. CASE i < t + 1 /\ j = t + 1
    BY <1>12, <2>1, <2>2, <2>7
  <2>8. CASE i < t + 1 /\ j > t + 1
    <3>1. priorityOf(s[i]) <= priorityOf(item) /\ priorityOf(item) <= priorityOf(s[j - 1])
      BY <1>12, <1>13, <2>1, <2>2, <2>8
    <3>2. priorityOf(s[i]) \in 0..YIELD /\ priorityOf(s[j - 1]) \in 0..YIELD
      BY <1>10, <2>1, <2>2, <2>8
    <3>. QED
      BY <1>11, <2>1, <2>2, <2>8, <3>1, <3>2 DEF YIELD
  <2>. QED
    BY <1>6, <1>14, <2>4, <2>5, <2>6, <2>7, <2>8
<1>15. DOMAIN w = 1..(n + 1) /\ w # <<>>
  BY <1>9
<1>. QED
  BY <1>7, <1>9, <1>14, <1>15 DEF Ranked

\* What is sorted of some of the items, by index.
Sorts(items, g) ==
  g = [s \in SUBSET DOMAIN items |->
         IF s = {} THEN <<>> ELSE InsertByPriority(g[s \ {Max(s)}], items[Max(s)])]

\* A batch is the value of a fold.
LEMMA SortedByFold == ASSUME NEW items
                      PROVE  Sorted(items) = (CHOOSE g : Sorts(items, g))[DOMAIN items]
BY Zenon DEF Sorted, FoldLeft, MapThenFoldSet, Sorts

\* It holds items, ranked.
LEMMA SortedIs ==
  ASSUME NEW items \in Seq(Items)
  PROVE  /\ Sorted(items) \in Seq(Items) /\ Ranked(Sorted(items))
         /\ items # <<>> => Sorted(items) # <<>>
<1>1. PICK n \in Nat : n = Len(items) /\ items \in [1..n -> Items] /\ DOMAIN items = 1..n
  OBVIOUS
<1> DEFINE S == 1..n
           W == {s \in Seq(Items) : Ranked(s)}
           first == [T \in SUBSET S |-> Max(T)]
           step == [i \in S |-> [s \in W |-> InsertByPriority(s, items[i])]]
<1>2. IsFiniteSet(S) /\ DOMAIN items = S
  BY <1>1, FS_Interval
<1>3. \A T \in SUBSET S : T # {} => Max(T) \in T
  BY GreatestIs
<1>4. step \in [S -> [W -> W]]
  BY <1>1, InsertionRanks
<1>5. <<>> \in W
  BY DEF Ranked
<1>6. PICK g \in [SUBSET S -> W] : Folds(S, <<>>, step, first, g)
  <2>1. \A T \in SUBSET S : T # {} => first[T] \in T
    BY <1>3
  <2> HIDE DEF S, W, first, step
  <2>. QED
    BY <1>2, <1>4, <1>5, <2>1, FoldExists
<1>7. ASSUME NEW T \in SUBSET S
      PROVE  g[T] = IF T = {} THEN <<>> ELSE InsertByPriority(g[T \ {Max(T)}], items[Max(T)])
  <2>1. T # {} => Max(T) \in S /\ g[T \ {Max(T)}] \in W /\ first[T] = Max(T)
    BY <1>3
  <2>2. T # {} => step[Max(T)][g[T \ {Max(T)}]] = InsertByPriority(g[T \ {Max(T)}], items[Max(T)])
    BY <2>1
  <2> HIDE DEF S, W, first, step
  <2>. QED
    BY <1>6, <2>1, <2>2 DEF Folds
<1> HIDE DEF S, W
<1>8. Sorts(items, g)
  BY <1>2, <1>6, <1>7 DEF Sorts
<1>9. PICK h : h = CHOOSE x : Sorts(items, x)
  OBVIOUS
<1>10. Sorts(items, h)
  BY <1>8, <1>9
<1> DEFINE X == {T \in SUBSET S : h[T] \in W /\ (T # {} => h[T] # <<>>)}
<1>11. ASSUME NEW T \in SUBSET S, \A U \in SUBSET T : U # T => U \in X
       PROVE  T \in X
  <2>1. h[T] = IF T = {} THEN <<>> ELSE InsertByPriority(h[T \ {Max(T)}], items[Max(T)])
    BY <1>2, <1>10 DEF Sorts
  <2>2. ASSUME T # {}
        PROVE  /\ InsertByPriority(h[T \ {Max(T)}], items[Max(T)]) \in W
               /\ InsertByPriority(h[T \ {Max(T)}], items[Max(T)]) # <<>>
    <3>1. Max(T) \in S /\ T \ {Max(T)} \in X
      BY <1>3, <1>11, <2>2
    <3>2. h[T \ {Max(T)}] \in W /\ items[Max(T)] \in Items
      BY <1>1, <3>1 DEF S
    <3>. QED
      BY <3>2, InsertionRanks DEF W
  <2>. QED
    BY <1>5, <2>1, <2>2
<1>12. S \in X
  <2> HIDE DEF X
  <2>1. SUBSET S \subseteq X
    BY <1>2, <1>11, SubsetInduction
  <2>. QED
    BY <2>1
<1>13. items # <<>> => S # {}
  <2>1. items # <<>> => n \in Nat \ {0}
    BY <1>1, EmptySeq
  <2>2. n \in Nat \ {0} => 1 \in 1..n
    OBVIOUS
  <2>. QED
    BY <2>1, <2>2 DEF S
<1>. QED
  BY <1>2, <1>9, <1>12, <1>13, SortedByFold DEF W

-----------------------------------------------------------------------------
(* Pacing.                                                                  *)

Spending == [r \in DOMAIN runs |-> runs[r].amount]
Committed == {r \in DOMAIN runs : runs[r].entry \in {"RESERVED", "CONFIRMED"}}
Window(r, seconds) ==
  {q \in Committed : /\ q[1] = r[1] /\ runs[q].effectiveAt >= runs[r].effectiveAt - seconds
                     /\ runs[q].effectiveAt <= runs[r].effectiveAt}

\* What PacingHolds says of one run.
PacedAt(r) ==
  LET budget == PolicyOf[r[1]].budget IN
  /\ \A w \in budget.spending : SumFunctionOnSet(Spending, Window(r, w.seconds)) <= w.cap
  /\ \A w \in budget.counts : Cardinality(Window(r, w.seconds)) <= w.cap
  /\ \A q \in Window(r, budget.cooldown - 1) : q = r

\* An instance's budget is made of naturals.
LEMMA BudgetIs ==
  ASSUME NEW i \in Instances
  PROVE  LET budget == PolicyOf[i].budget IN
         /\ budget.cooldown \in Nat /\ budget.cooldown - 1 \in Int
         /\ \A w \in budget.spending \cup budget.counts : w.seconds \in Nat /\ w.cap \in Nat
BY PolicyNumbers

\* Pacing, run by run.
LEMMA PacingIs ==
  ASSUME \A r \in DOMAIN runs : r[1] \in Instances
  PROVE  PacingHolds <=> \A r \in Committed : PacedAt(r)
<1>1. UNION {committedRuns(i) : i \in Instances} = Committed
  BY DEF committedRuns, Committed
<1>2. \A r, seconds :
        {q \in committedSince(r[1], runs[r].effectiveAt - seconds) :
           runs[q].effectiveAt <= runs[r].effectiveAt} = Window(r, seconds)
  BY DEF committedSince, committedRuns, Committed, Window
<1>. QED
  BY <1>1, <1>2 DEF PacingHolds, PacedAt, spentBy, Spending

\* A window that has lost runs and gained none keeps to the budget.
LEMMA WindowShrinks ==
  ASSUME HostTypes, HostTypes', NEW r, r[1] \in Instances, PacedAt(r),
         \A seconds \in Int : Window(r, seconds)' \subseteq Window(r, seconds),
         \A q \in DOMAIN runs \cap DOMAIN runs' : runs'[q].amount = runs[q].amount
  PROVE  PacedAt(r)'
<1> DEFINE budget == PolicyOf[r[1]].budget
<1>1. ASSUME NEW seconds \in Int
      PROVE  /\ SumFunctionOnSet(Spending, Window(r, seconds))' <= SumFunctionOnSet(Spending, Window(r, seconds))
             /\ Cardinality(Window(r, seconds))' <= Cardinality(Window(r, seconds))
             /\ SumFunctionOnSet(Spending, Window(r, seconds)) \in Nat
             /\ SumFunctionOnSet(Spending, Window(r, seconds))' \in Nat
             /\ Cardinality(Window(r, seconds)) \in Nat /\ Cardinality(Window(r, seconds))' \in Nat
  <2>1. PICK S : S = Window(r, seconds)
    OBVIOUS
  <2>2. PICK E : E = Window(r, seconds)'
    OBVIOUS
  <2>3. E \subseteq S
    BY <2>1, <2>2
  <2>4. S \subseteq DOMAIN runs /\ E \subseteq DOMAIN runs' /\ IsFiniteSet(DOMAIN runs)
    BY <2>1, <2>2 DEF Window, Committed, HostTypes
  <2>5. IsFiniteSet(S) /\ IsFiniteSet(E)
    BY <2>3, <2>4, FS_Subset
  <2>6. PICK f : f = Spending
    OBVIOUS
  <2>7. PICK g : g = Spending'
    OBVIOUS
  <2>8. \A x \in S : f[x] \in Nat
    BY <2>4, <2>6 DEF Spending, HostTypes, RunsOnRecord
  <2>9. \A x \in E : g[x] = f[x]
    BY <2>3, <2>4, <2>6, <2>7 DEF Spending
  <2>10. PICK h : h = [x \in E |-> x]
    OBVIOUS
  <2>11. \A x \in E : h[x] \in S /\ g[x] = f[h[x]]
    BY <2>3, <2>9, <2>10
  <2>12. \A x, y \in E : h[x] = h[y] => x = y
    BY <2>10
  <2>13. SumFunctionOnSet(g, E) <= SumFunctionOnSet(f, S)
    BY <2>5, <2>8, <2>11, <2>12, SumInto
  <2>14. SumFunctionOnSet(f, S) \in Nat
    BY <2>5, <2>8, SumOfNaturals
  <2>15. SumFunctionOnSet(g, E) \in Nat
    <3>1. \A x \in E : g[x] \in Nat
      BY <2>3, <2>8, <2>9
    <3>. QED
      BY <2>5, <3>1, SumOfNaturals
  <2>16. Cardinality(E) <= Cardinality(S) /\ Cardinality(E) \in Nat /\ Cardinality(S) \in Nat
    BY <2>3, <2>5, FS_Subset, FS_CardinalityType
  <2>. QED
    BY <2>1, <2>2, <2>6, <2>7, <2>13, <2>14, <2>15, <2>16
<1>2. /\ budget.cooldown - 1 \in Int
      /\ \A w \in budget.spending \cup budget.counts : w.seconds \in Int /\ w.cap \in Nat
  BY BudgetIs
<1>3. ASSUME NEW w \in budget.spending
      PROVE  SumFunctionOnSet(Spending, Window(r, w.seconds))' <= w.cap
  <2>1. w.seconds \in Int /\ w.cap \in Nat
    BY <1>2
  <2>2. SumFunctionOnSet(Spending, Window(r, w.seconds)) <= w.cap
    BY DEF PacedAt
  <2>. QED
    BY <1>1, <2>1, <2>2
<1>4. ASSUME NEW w \in budget.counts
      PROVE  Cardinality(Window(r, w.seconds))' <= w.cap
  <2>1. w.seconds \in Int /\ w.cap \in Nat
    BY <1>2
  <2>2. Cardinality(Window(r, w.seconds)) <= w.cap
    BY DEF PacedAt
  <2>. QED
    BY <1>1, <2>1, <2>2
<1>5. \A q \in Window(r, budget.cooldown - 1)' : q = r
  BY <1>2 DEF PacedAt
<1>. QED
  BY <1>3, <1>4, <1>5 DEF PacedAt

\* What a step does to runs that were entered before it, and to none other that commits anything.
Settles ==
  /\ DOMAIN runs \subseteq DOMAIN runs'
  /\ \A r \in DOMAIN runs : /\ runs'[r].amount = runs[r].amount
                            /\ runs'[r].effectiveAt = runs[r].effectiveAt
  /\ Committed' \subseteq Committed

\* Such a step keeps the pace.
LEMMA SettlingPaces ==
  ASSUME HostOK, HostTypes', (\A r \in DOMAIN runs : r[1] \in Instances)', Settles
  PROVE  PacingHolds'
<1>1. \A r \in Committed : PacedAt(r)
  BY PacingIs DEF HostOK, RunOK
<1>2. ASSUME NEW r \in Committed'
      PROVE  PacedAt(r)'
  <2>1. r \in Committed /\ r \in DOMAIN runs /\ r[1] \in Instances
    BY <1>2 DEF Settles, Committed, HostOK, RunOK
  <2>2. \A q \in DOMAIN runs \cap DOMAIN runs' : runs'[q].amount = runs[q].amount
    BY DEF Settles
  <2>3. ASSUME NEW seconds \in Int
        PROVE  Window(r, seconds)' \subseteq Window(r, seconds)
    BY <2>1 DEF Window, Settles, Committed
  <2>. QED
    BY <1>1, <2>1, <2>2, <2>3, WindowShrinks DEF HostOK
<1>3. ((\A r \in DOMAIN runs : r[1] \in Instances)
         => (PacingHolds <=> \A r \in Committed : PacedAt(r)))'
  BY PacingIs, PTL
<1>. QED
  BY <1>2, <1>3

\* A run entered now under a budget that had room for it keeps the pace.
LEMMA ReservingPaces ==
  ASSUME HostOK, HostTypes', (\A r \in DOMAIN runs : r[1] \in Instances)', clock' = clock,
         NEW i \in Instances, NEW id, id \notin DOMAIN runs, id[1] = i, NEW amount \in Nat,
         withinPacing(i, amount), Records(id, "AUTHORIZATION_CHECKING", amount, "RESERVED")
  PROVE  PacingHolds'
<1>1. /\ DOMAIN runs' = DOMAIN runs \cup {id}
      /\ \A r \in DOMAIN runs : runs'[r] = runs[r]
      /\ runs'[id].amount = amount /\ runs'[id].effectiveAt = clock /\ runs'[id].entry = "RESERVED"
  BY DEF Records
<1>2. Committed' = Committed \cup {id}
  BY <1>1 DEF Committed
<1>3. /\ clock \in Nat /\ Committed \subseteq DOMAIN runs /\ IsFiniteSet(DOMAIN runs)
      /\ \A q \in DOMAIN runs : /\ runs[q].effectiveAt \in Nat /\ runs[q].effectiveAt <= clock
                                /\ runs[q].amount \in Nat /\ q[1] \in Instances
  BY DEF HostOK, HostTypes, RunOK, RunsOnRecord, Committed
<1>4. \A r \in Committed : PacedAt(r)
  BY <1>3, PacingIs DEF HostOK
<1> DEFINE budget == PolicyOf[i].budget
<1>5. /\ budget.cooldown \in Nat
      /\ \A w \in budget.spending \cup budget.counts : w.seconds \in Nat /\ w.cap \in Nat
  BY BudgetIs
<1>6. \A q \in Committed : q[1] = i => clock - runs[q].effectiveAt >= budget.cooldown
  BY DEF withinPacing, committedRuns, Committed
<1>7. ASSUME NEW r \in Committed', r[1] = i, runs'[r].effectiveAt = clock
      PROVE  PacedAt(r)'
  <2>1. ASSUME NEW seconds \in Nat
        PROVE  /\ Window(r, seconds)' = committedSince(i, clock - seconds) \cup {id}
               /\ SumFunctionOnSet(Spending, Window(r, seconds))'
                    = spentBy(committedSince(i, clock - seconds)) + amount
               /\ spentBy(committedSince(i, clock - seconds)) \in Nat
               /\ Cardinality(Window(r, seconds))' = Cardinality(committedSince(i, clock - seconds)) + 1
               /\ Cardinality(committedSince(i, clock - seconds)) \in Nat
    <3>1. PICK A : A = committedSince(i, clock - seconds)
      OBVIOUS
    <3>2. A = {q \in Committed : q[1] = i /\ runs[q].effectiveAt >= clock - seconds}
      BY <3>1 DEF committedSince, committedRuns, Committed
    <3>3. A \subseteq DOMAIN runs /\ id \notin A /\ IsFiniteSet(A) /\ IsFiniteSet(A \cup {id})
      <4>1. A \subseteq DOMAIN runs /\ id \notin A
        BY <1>3, <3>2
      <4>2. IsFiniteSet(A)
        BY <1>3, <4>1, FS_Subset
      <4>. QED
        BY <4>1, <4>2, FS_AddElement
    <3>4. PICK B : B = Window(r, seconds)'
      OBVIOUS
    <3>5. B = {q \in Committed' : /\ q[1] = i /\ runs'[q].effectiveAt >= clock - seconds
                                  /\ runs'[q].effectiveAt <= clock}
      BY <1>7, <3>4 DEF Window
    <3>6. B = A \cup {id}
      <4>1. id \in B
        BY <1>1, <1>2, <1>3, <3>5
      <4>2. \A q \in Committed : q \in A <=> q \in B
        BY <1>1, <1>2, <1>3, <3>2, <3>5
      <4>3. B \subseteq Committed \cup {id} /\ A \subseteq Committed
        BY <1>2, <3>2, <3>5
      <4>. QED
        BY <4>1, <4>2, <4>3
    <3>7. PICK f : f = Spending
      OBVIOUS
    <3>8. PICK g : g = Spending'
      OBVIOUS
    <3>9. /\ \A q \in A : f[q] \in Nat /\ f[q] \in Int /\ g[q] = f[q]
          /\ g[id] = amount /\ \A q \in A \cup {id} : g[q] \in Int
      BY <1>1, <1>3, <3>3, <3>7, <3>8 DEF Spending
    <3>10. SumFunctionOnSet(g, A \cup {id}) = g[id] + SumFunctionOnSet(g, (A \cup {id}) \ {id})
      BY <3>3, <3>9, SumRemove
    <3>11. (A \cup {id}) \ {id} = A
      BY <3>3
    <3>12. SumFunctionOnSet(f, A) = SumFunctionOnSet(g, A)
      BY <3>3, <3>9, SumSame
    <3>13. SumFunctionOnSet(f, A) \in Nat
      BY <3>3, <3>9, SumOfNaturals
    <3>14. Cardinality(A \cup {id}) = Cardinality(A) + 1 /\ Cardinality(A) \in Nat
      BY <3>3, FS_AddElement, FS_CardinalityType
    <3>15. SumFunctionOnSet(g, B) = SumFunctionOnSet(f, A) + amount
      <4>1. SumFunctionOnSet(g, B) = amount + SumFunctionOnSet(g, A)
        BY <3>6, <3>9, <3>10, <3>11
      <4>. QED
        BY <3>12, <3>13, <4>1
    <3>16. spentBy(A) = SumFunctionOnSet(f, A)
      BY <3>7 DEF spentBy, Spending
    <3>. QED
      BY <3>1, <3>4, <3>6, <3>8, <3>13, <3>14, <3>15, <3>16
  <2>2. ASSUME NEW w \in budget.spending
        PROVE  SumFunctionOnSet(Spending, Window(r, w.seconds))' <= w.cap
    <3>1. w.seconds \in Nat
      BY <1>5
    <3>2. spentBy(committedSince(i, clock - w.seconds)) + amount <= w.cap
      BY DEF withinPacing
    <3>. QED
      BY <2>1, <3>1, <3>2
  <2>3. ASSUME NEW w \in budget.counts
        PROVE  Cardinality(Window(r, w.seconds))' <= w.cap
    <3>1. w.seconds \in Nat /\ w.cap \in Nat
      BY <1>5
    <3>2. Cardinality(committedSince(i, clock - w.seconds)) < w.cap
      BY DEF withinPacing
    <3>. QED
      BY <2>1, <3>1, <3>2
  <2>4. ASSUME NEW q \in Window(r, budget.cooldown - 1)'
        PROVE  q = r
    <3>1. /\ q \in Committed' /\ q[1] = i /\ runs'[q].effectiveAt >= clock - (budget.cooldown - 1)
          /\ runs'[q].effectiveAt <= clock
      BY <1>7 DEF Window
    <3>2. q = id
      <4>1. CASE q \in Committed
        <5>1. runs'[q].effectiveAt \in Nat /\ clock - runs'[q].effectiveAt >= budget.cooldown
          BY <1>1, <1>3, <1>6, <3>1, <4>1
        <5>. QED
          BY <1>3, <1>5, <3>1, <5>1
      <4>. QED
        BY <1>2, <3>1, <4>1
    <3>3. r = id
      <4>1. CASE r \in Committed
        <5>1. clock - runs[r].effectiveAt >= budget.cooldown /\ runs[r].effectiveAt = clock
          BY <1>1, <1>3, <1>6, <1>7, <4>1
        <5>2. budget.cooldown = 0
          BY <1>3, <1>5, <5>1
        <5>. QED
          BY <1>1, <1>3, <3>1, <3>2, <5>2
      <4>. QED
        BY <1>2, <4>1, <1>7
    <3>. QED
      BY <3>2, <3>3
  <2>. QED
    BY <1>7, <2>2, <2>3, <2>4 DEF PacedAt
<1>8. ASSUME NEW r \in Committed', ~(r[1] = i /\ runs'[r].effectiveAt = clock)
      PROVE  PacedAt(r)'
  <2>1. r \in Committed /\ r[1] \in Instances /\ PacedAt(r)
    BY <1>1, <1>2, <1>3, <1>4, <1>8
  <2>2. ASSUME NEW seconds \in Int
        PROVE  Window(r, seconds)' \subseteq Window(r, seconds)
    <3>1. runs'[r].effectiveAt = runs[r].effectiveAt /\ runs[r].effectiveAt \in Nat
      BY <1>1, <1>3, <2>1
    <3>2. id \notin Window(r, seconds)'
      <4>1. CASE r[1] # i
        BY <4>1 DEF Window
      <4>2. CASE runs[r].effectiveAt < clock
        BY <1>1, <1>3, <3>1, <4>2 DEF Window
      <4>. QED
        BY <1>3, <1>8, <2>1, <3>1, <4>1, <4>2
    <3>3. ASSUME NEW q \in Committed, q \in Window(r, seconds)'
          PROVE  q \in Window(r, seconds)
      <4>1. runs'[q] = runs[q] /\ runs'[r] = runs[r]
        BY <1>1, <1>3, <2>1
      <4>. QED
        BY <3>3, <4>1 DEF Window
    <3>4. Window(r, seconds)' \subseteq Committed'
      BY DEF Window
    <3>. QED
      BY <1>2, <3>2, <3>3, <3>4
  <2>3. \A q \in DOMAIN runs \cap DOMAIN runs' : runs'[q].amount = runs[q].amount
    BY <1>1
  <2>. QED
    BY <2>1, <2>2, <2>3, WindowShrinks DEF HostOK
<1>9. ((\A r \in DOMAIN runs : r[1] \in Instances)
         => (PacingHolds <=> \A r \in Committed : PacedAt(r)))'
  BY PacingIs, PTL
<1>. QED
  BY <1>7, <1>8, <1>9

-----------------------------------------------------------------------------
(* What a trigger and a plan are.                                           *)

\* No source speaks with more authority than its class has.
LEMMA TriggersAre ==
  ASSUME HostTypes, NEW i \in Instances
  PROVE  {TimeTrigger(i), HealthTrigger} \cup ObservationTriggers \subseteq Triggers
<1>1. clock \in Nat /\ scheduleBucket(clock) \in Int
  <2>1. clock \in Nat /\ clock \div Interval \in Int /\ Interval \in Int
    BY HostConstants DEF HostTypes
  <2>. QED
    BY <2>1 DEF scheduleBucket
<1>2. TimeTrigger(i) \in Triggers
  <2>1. clampAuthority("TIME", "DETERMINISTIC_SCHEDULE") = "DETERMINISTIC_SCHEDULE"
    BY DEF clampAuthority, ClassAuthorityCeiling
  <2>2. <<"TIME", i, scheduleBucket(clock)>> \in Identities
    BY <1>1 DEF Identities
  <2>. QED
    BY <2>1, <2>2 DEF TimeTrigger, Trigger, Triggers
<1>3. HealthTrigger \in Triggers
  <2>1. clampAuthority("RISK_STATE", "DETERMINISTIC_ONCHAIN") = "DETERMINISTIC_ONCHAIN"
    BY DEF clampAuthority, ClassAuthorityCeiling
  <2>2. <<"RISK_STATE", account.debt > account.maintenance, clock>> \in Identities
    <3>1. (account.debt > account.maintenance) \in BOOLEAN
      OBVIOUS
    <3>. QED
      BY <1>1, <3>1 DEF Identities
  <2>. QED
    BY <2>1, <2>2 DEF HealthTrigger, Trigger, Triggers
<1>4. ASSUME NEW claimed \in Claims, NEW c \in Contents
      PROVE  Trigger("AI_OBSERVATION", claimed, <<"AI_OBSERVATION", c>>) \in Triggers
  <2>1. clampAuthority("AI_OBSERVATION", claimed) \in Claims \cup {"AI_INTERPRETED"}
    BY DEF clampAuthority, ClassAuthorityCeiling
  <2>2. <<"AI_OBSERVATION", c>> \in Identities
    BY DEF Identities
  <2>. QED
    BY <2>1, <2>2 DEF Trigger, Triggers
<1>5. ASSUME NEW trigger \in ObservationTriggers
      PROVE  trigger \in Triggers
  <2>1. PICK claimed \in Claims, c \in Contents :
          trigger = Trigger("AI_OBSERVATION", claimed, <<"AI_OBSERVATION", c>>)
    BY DEF ObservationTriggers
  <2>. QED
    BY <1>4, <2>1
<1>. QED
  BY <1>2, <1>3, <1>5

\* What the template would repay is a natural.
LEMMA CompileIs ==
  ASSUME HostTypes, NEW i \in Instances
  PROVE  compile(PolicyOf[i].config, account) \in Nat
<1> DEFINE config == PolicyOf[i].config
           target == (account.maintenance * (Whole - config.targetBufferBps)) \div Whole
           shortfall == IF account.debt > target THEN account.debt - target ELSE 0
<1>1. /\ account.debt \in Nat /\ account.maintenance \in Nat /\ Whole \in Nat \ {0}
      /\ config.targetBufferBps \in 0..Whole /\ config.maxRepayPerRun \in Nat
  BY HostConstants, PolicyNumbers DEF HostTypes
<1>2. target \in Nat
  <2>1. Whole - config.targetBufferBps \in Nat
    BY <1>1
  <2>2. account.maintenance * (Whole - config.targetBufferBps) \in Nat
    BY <1>1, <2>1, TimesOrder
  <2>. QED
    BY <1>1, <2>2, QuotientOrder
<1>3. shortfall \in Nat
  BY <1>1, <1>2
<1>4. Min({shortfall, config.maxRepayPerRun}) \in Nat
  <2>1. {shortfall, config.maxRepayPerRun} \in SUBSET Nat /\ {shortfall, config.maxRepayPerRun} # {}
    BY <1>1, <1>3
  <2>2. Min({shortfall, config.maxRepayPerRun}) \in {shortfall, config.maxRepayPerRun}
    <3> HIDE DEF shortfall, config
    <3>. QED
      BY <2>1, LeastIs
  <2>. QED
    BY <2>1, <2>2
<1>. QED
  BY <1>4 DEF compile

\* A run goes on to its authorization with an open gate and an amount its budget has room for.
LEMMA DecisionIs ==
  ASSUME HostTypes, NEW item \in Items
  PROVE  /\ Decision(item).amount \in Nat
         /\ Decision(item).state \in RunStates \ {"EXECUTION_UNKNOWN"}
         /\ Decision(item).state = "AUTHORIZATION_CHECKING" =>
              armedGate(item) /\ withinPacing(item.instance, Decision(item).amount)
<1>1. PICK paid \in Nat : paid = compile(PolicyOf[item.instance].config, account)
  BY CompileIs DEF Items
<1>. QED
  BY <1>1 DEF Decision, validatePlan, RunStates

\* The drain goes on over the same batch, or is over.
LEMMA NextItemKeeps ==
  ASSUME HostTypes, Ranked(batch), Draining, NextItem
  PROVE  batch' \in Seq(Items) /\ at' \in 0..Len(batch') /\ Ranked(batch')
<1>1. CASE at = Len(batch)
  BY <1>1 DEF NextItem, Ranked
<1>2. CASE at # Len(batch)
  BY <1>2 DEF NextItem, HostTypes
<1>. QED
  BY <1>1, <1>2

-----------------------------------------------------------------------------
(* The records of the runs.                                                 *)

\* A run entered now.
LEMMA RecordsIs ==
  ASSUME HostTypes, NEW id, id \notin DOMAIN runs, NEW state \in RunStates, NEW amount \in Nat,
         NEW entry \in {"NONE", "RESERVED"}, Records(id, state, amount, entry)
  PROVE  /\ DOMAIN runs' = DOMAIN runs \cup {id} /\ IsFiniteSet(DOMAIN runs')
         /\ runs' \in [DOMAIN runs' -> RunsOnRecord]
         /\ \A r \in DOMAIN runs : runs'[r] = runs[r]
         /\ runs'[id].state = state /\ runs'[id].entry = entry /\ runs'[id].effectiveAt = clock
         /\ runs'[id].amount = amount
<1> DEFINE run == [state |-> state, amount |-> amount, effectiveAt |-> clock, tx |-> "none",
                   entry |-> entry]
<1>1. run \in RunsOnRecord
  BY DEF RunsOnRecord, HostTypes
<1>2. runs' = [r \in DOMAIN runs \cup {id} |-> IF r # id THEN runs[r] ELSE run]
  BY DEF Records
<1>3. runs \in [DOMAIN runs -> RunsOnRecord] /\ IsFiniteSet(DOMAIN runs \cup {id})
  BY FS_AddElement DEF HostTypes
<1>4. run.state = state /\ run.entry = entry /\ run.effectiveAt = clock /\ run.amount = amount
  OBVIOUS
<1> HIDE DEF run
<1>. QED
  BY <1>1, <1>2, <1>3, <1>4

\* What becomes of a run that is on record.
LEMMA BecomesIs ==
  ASSUME HostTypes, NEW id \in DOMAIN runs, NEW state \in RunStates,
         NEW entry \in {"NONE", "RESERVED", "CONFIRMED", "RELEASED"},
         NEW tx \in {"none", "pending", "unrecorded", "success", "reverted"},
         Becomes(id, state, entry, tx)
  PROVE  /\ DOMAIN runs' = DOMAIN runs /\ runs' \in [DOMAIN runs' -> RunsOnRecord]
         /\ \A r \in DOMAIN runs : r # id => runs'[r] = runs[r]
         /\ runs'[id].state = state /\ runs'[id].entry = entry
         /\ runs'[id].effectiveAt = runs[id].effectiveAt /\ runs'[id].amount = runs[id].amount
<1>1. runs \in [DOMAIN runs -> RunsOnRecord] /\ runs[id] \in RunsOnRecord
  BY DEF HostTypes
<1>2. PICK run : run = [runs[id] EXCEPT !.state = state, !.entry = entry, !.tx = tx]
  OBVIOUS
<1>3. /\ run \in RunsOnRecord /\ run.state = state /\ run.entry = entry
      /\ run.effectiveAt = runs[id].effectiveAt /\ run.amount = runs[id].amount
  BY <1>1, <1>2 DEF RunsOnRecord
<1>4. runs' = [runs EXCEPT ![id] = run]
  BY <1>2 DEF Becomes
<1>. QED
  BY <1>1, <1>3, <1>4

\* A step that enters nothing that commits, and settles what it touches.
LEMMA SettlingKeeps ==
  ASSUME HostOK, HostTypes', clock' \in Nat, clock <= clock', Settles,
         \A r \in DOMAIN runs' \ DOMAIN runs :
           r[1] \in Instances /\ runs'[r].effectiveAt = clock /\ runs'[r].state # "EXECUTION_UNKNOWN",
         \A r \in DOMAIN runs :
           runs'[r].state = "EXECUTION_UNKNOWN" => runs'[r].entry = "RESERVED"
  PROVE  PacingHolds' /\ (\A r \in DOMAIN runs : RunOK(r))'
<1>1. ASSUME NEW r \in DOMAIN runs'
      PROVE  RunOK(r)'
  <2>1. clock \in Nat
    BY DEF HostOK, HostTypes
  <2>2. CASE r \in DOMAIN runs
    <3>1. r[1] \in Instances /\ runs[r].effectiveAt <= clock /\ runs[r].effectiveAt \in Nat
      BY <2>2 DEF HostOK, HostTypes, RunOK, RunsOnRecord
    <3>2. runs'[r].effectiveAt = runs[r].effectiveAt
      BY <2>2 DEF Settles
    <3>. QED
      BY <2>1, <2>2, <3>1, <3>2 DEF RunOK
  <2>3. CASE r \notin DOMAIN runs
    BY <2>1, <2>3 DEF RunOK
  <2>. QED
    BY <2>2, <2>3
<1>2. (\A r \in DOMAIN runs : r[1] \in Instances)'
  BY <1>1 DEF RunOK
<1>. QED
  BY <1>1, <1>2, SettlingPaces

\* A step that leaves the runs alone.
LEMMA RunsStand ==
  ASSUME HostOK, HostTypes', clock' \in Nat, clock <= clock', runs' = runs
  PROVE  PacingHolds' /\ (\A r \in DOMAIN runs : RunOK(r))'
<1>1. Settles
  BY DEF Settles, Committed
<1>. QED
  BY <1>1, SettlingKeeps DEF HostOK, RunOK

-----------------------------------------------------------------------------
(* The steps.                                                               *)

\* A trigger is queued.
LEMMA WakeKeeps ==
  ASSUME HostOK, Wake
  PROVE  HostOK'
<1>1. PICK i \in Instances :
        \E trigger \in {TimeTrigger(i), HealthTrigger} \cup ObservationTriggers : Enqueue(i, trigger)
  BY DEF Wake
<1>2. PICK trigger \in Triggers : Enqueue(i, trigger)
  BY <1>1, TriggersAre DEF HostOK
<1>3. [instance |-> i, trigger |-> trigger] \in Items
  BY DEF Items
<1>4. UNCHANGED <<clock, account, batch, at, flight, runs>>
  BY <1>2 DEF Enqueue
<1>5. HostTypes'
  BY <1>2, <1>3, <1>4 DEF HostOK, HostTypes, Enqueue
<1>6. PacingHolds' /\ (\A r \in DOMAIN runs : RunOK(r))'
  BY <1>4, <1>5, RunsStand DEF HostOK, HostTypes
<1>. QED
  BY <1>4, <1>5, <1>6 DEF HostOK, FlightOK, YieldYields, Ranked

\* The queue is drained, sorted.
LEMMA DrainKeeps ==
  ASSUME HostOK, Drain
  PROVE  HostOK'
<1>1. /\ ~Draining /\ queue # <<>> /\ batch' = Sorted(queue) /\ at' = 1 /\ queue' = <<>>
      /\ UNCHANGED <<clock, account, flight, runs>>
  BY DEF Drain
<1>2. batch' \in Seq(Items) /\ Ranked(batch') /\ batch' # <<>>
  BY <1>1, SortedIs DEF HostOK, HostTypes
<1>3. at' \in 0..Len(batch')
  BY <1>1, <1>2, EmptySeq
<1>4. HostTypes'
  BY <1>1, <1>2, <1>3 DEF HostOK, HostTypes
<1>5. PacingHolds' /\ (\A r \in DOMAIN runs : RunOK(r))'
  BY <1>1, <1>4, RunsStand DEF HostOK, HostTypes
<1>6. flight = NoFlight /\ flight' = NoFlight
  BY <1>1 DEF HostOK, FlightOK, Draining
<1>. QED
  BY <1>2, <1>4, <1>5, <1>6 DEF HostOK, FlightOK, YieldYields, Ranked

\* Whoever goes on to its authorization has a gate that saw the priorities before it, and those
\* after it are not higher.
LEMMA GateYields ==
  ASSUME HostTypes, Ranked(batch), Draining, armedGate(batch[at]), priorityOf(batch[at]) = YIELD
  PROVE  \A n \in DOMAIN batch : priorityOf(batch[n]) = YIELD
<1>1. DOMAIN batch = 1..Len(batch) /\ at \in 1..Len(batch) /\ Len(batch) \in Nat
  BY DEF HostTypes, Draining
<1>2. ASSUME NEW n \in 1..Len(batch)
      PROVE  priorityOf(batch[n]) = YIELD
  <2>1. priorityOf(batch[n]) \in 0..YIELD /\ batch[n] \in Items
    BY <1>2, RankIs DEF HostTypes
  <2>2. CASE n < at
    <3>1. n \in 1..at - 1
      BY <1>1, <2>2
    <3>2. ~higherPriorityPending
      BY <1>1 DEF armedGate, YIELD
    <3>. QED
      BY <2>1, <3>1, <3>2 DEF higherPriorityPending, YIELD
  <2>3. CASE at <= n
    <3>1. YIELD <= priorityOf(batch[n])
      BY <1>1, <2>3 DEF Ranked
    <3>. QED
      BY <2>1, <3>1 DEF YIELD
  <2>. QED
    BY <1>1, <2>2, <2>3
<1>. QED
  BY <1>1, <1>2

\* The item a drain is on.
LEMMA ItemIs ==
  ASSUME HostTypes, Draining
  PROVE  batch[at] \in Items /\ runIdOf(batch[at])[1] = batch[at].instance
         /\ batch[at].instance \in Instances
<1>1. at \in 1..Len(batch)
  BY DEF HostTypes, Draining
<1>2. batch[at] \in Items
  BY <1>1 DEF HostTypes
<1>. QED
  BY <1>2 DEF Items, runIdOf

\* A run is entered that commits nothing, whatever becomes of the drain.
LEMMA EnteringKeeps ==
  ASSUME HostOK, Draining, NEW state \in RunStates \ {"EXECUTION_UNKNOWN"}, NEW amount \in Nat,
         runIdOf(batch[at]) \notin DOMAIN runs, Records(runIdOf(batch[at]), state, amount, "NONE"),
         batch' \in Seq(Items), at' \in 0..Len(batch'), Ranked(batch'), flight' = NoFlight,
         UNCHANGED <<clock, account, queue>>
  PROVE  HostOK'
<1> DEFINE id == runIdOf(batch[at])
<1>1. /\ DOMAIN runs' = DOMAIN runs \cup {id} /\ IsFiniteSet(DOMAIN runs')
      /\ runs' \in [DOMAIN runs' -> RunsOnRecord] /\ \A r \in DOMAIN runs : runs'[r] = runs[r]
      /\ runs'[id].state = state /\ runs'[id].entry = "NONE" /\ runs'[id].effectiveAt = clock
  <2>1. HostTypes /\ state \in RunStates /\ "NONE" \in {"NONE", "RESERVED"}
    BY DEF HostOK
  <2> HIDE DEF id
  <2>. QED
    BY <2>1, RecordsIs DEF id
<1>2. id[1] \in Instances
  BY ItemIs DEF HostOK
<1> HIDE DEF id
<1>3. HostTypes'
  BY <1>1 DEF HostOK, HostTypes
<1>4. Settles
  BY <1>1 DEF Settles, Committed
<1>5. PacingHolds' /\ (\A r \in DOMAIN runs : RunOK(r))'
  BY <1>1, <1>2, <1>3, <1>4, SettlingKeeps DEF HostOK, HostTypes, RunOK
<1>. QED
  BY <1>3, <1>5 DEF HostOK, FlightOK, YieldYields, Ranked

\* A trigger is processed up to its reservation.
LEMMA TakeKeeps ==
  ASSUME HostOK, TakeItem
  PROVE  HostOK'
<1> DEFINE item == batch[at]
           id == runIdOf(item)
           made == Decision(item)
<1>1. Draining /\ flight = NoFlight /\ UNCHANGED <<clock, account, queue, wakes>>
  BY DEF TakeItem
<1>2. item \in Items /\ id[1] = item.instance /\ item.instance \in Instances
  BY <1>1, ItemIs DEF HostOK
<1>3. /\ made.amount \in Nat /\ made.state \in RunStates \ {"EXECUTION_UNKNOWN"}
      /\ made.state = "AUTHORIZATION_CHECKING" =>
           armedGate(item) /\ withinPacing(item.instance, made.amount)
  BY <1>2, DecisionIs DEF HostOK
<1>4. HostTypes /\ Ranked(batch)
  BY DEF HostOK
<1>5. CASE id \in DOMAIN runs
  <2>1. NextItem /\ UNCHANGED <<flight, runs>>
    BY <1>5 DEF TakeItem
  <2>2. batch' \in Seq(Items) /\ at' \in 0..Len(batch') /\ Ranked(batch')
    BY <1>1, <1>4, <2>1, NextItemKeeps
  <2>3. HostTypes'
    BY <1>1, <1>4, <2>1, <2>2 DEF HostTypes
  <2>4. PacingHolds' /\ (\A r \in DOMAIN runs : RunOK(r))'
    BY <1>1, <1>4, <2>1, <2>3, RunsStand DEF HostTypes
  <2>. QED
    BY <1>1, <2>1, <2>2, <2>3, <2>4 DEF HostOK, FlightOK, YieldYields, Ranked
<1>6. CASE id \notin DOMAIN runs /\ made.state # "AUTHORIZATION_CHECKING"
  <2>1. Records(id, made.state, made.amount, "NONE") /\ NextItem /\ UNCHANGED flight
    BY <1>6 DEF TakeItem
  <2>2. batch' \in Seq(Items) /\ at' \in 0..Len(batch') /\ Ranked(batch')
    BY <1>1, <1>4, <2>1, NextItemKeeps
  <2>. QED
    BY <1>1, <1>3, <1>6, <2>1, <2>2, EnteringKeeps
<1>7. CASE id \notin DOMAIN runs /\ made.state = "AUTHORIZATION_CHECKING"
  <2>1. /\ Records(id, "AUTHORIZATION_CHECKING", made.amount, "RESERVED")
        /\ flight' = [run |-> id, amount |-> made.amount] /\ UNCHANGED <<batch, at>>
    BY <1>7 DEF TakeItem
  <2>2. PICK amount \in Nat : amount = made.amount
    BY <1>3
  <2>3. /\ DOMAIN runs' = DOMAIN runs \cup {id} /\ IsFiniteSet(DOMAIN runs')
        /\ runs' \in [DOMAIN runs' -> RunsOnRecord] /\ \A r \in DOMAIN runs : runs'[r] = runs[r]
        /\ runs'[id].state = "AUTHORIZATION_CHECKING" /\ runs'[id].entry = "RESERVED"
        /\ runs'[id].effectiveAt = clock
    <3>1. "AUTHORIZATION_CHECKING" \in RunStates /\ "RESERVED" \in {"NONE", "RESERVED"}
      BY DEF RunStates
    <3> HIDE DEF id, made
    <3>. QED
      BY <1>4, <1>7, <2>1, <2>2, <3>1, RecordsIs
  <2>4. HostTypes'
    BY <1>1, <1>4, <2>1, <2>3 DEF HostTypes
  <2>5. (\A r \in DOMAIN runs : RunOK(r))'
    <3> HIDE DEF id, made
    <3>1. ASSUME NEW r \in DOMAIN runs
          PROVE  RunOK(r)'
      BY <1>1, <2>3, <3>1 DEF HostOK, RunOK
    <3>2. PICK entered : entered = id
      OBVIOUS
    <3>3. RunOK(entered)'
      BY <1>1, <1>2, <1>4, <2>3, <3>2 DEF RunOK, HostTypes
    <3>. QED
      BY <2>3, <3>1, <3>2, <3>3
  <2>6. PacingHolds'
    <3>1. (\A r \in DOMAIN runs : r[1] \in Instances)' /\ clock' = clock
      BY <1>1, <2>5 DEF RunOK
    <3>2. withinPacing(item.instance, amount) /\ Records(id, "AUTHORIZATION_CHECKING", amount, "RESERVED")
      BY <1>3, <1>7, <2>1, <2>2
    <3> HIDE DEF id, made, item
    <3>. QED
      BY <1>2, <1>7, <2>4, <3>1, <3>2, ReservingPaces
  <2>7. FlightOK'
    BY <1>1, <2>1, <2>2, <2>3 DEF FlightOK, Draining
  <2>8. YieldYields'
    <3>1. armedGate(item)
      BY <1>3, <1>7
    <3>2. priorityOf(item) = YIELD => \A n \in DOMAIN batch : priorityOf(batch[n]) = YIELD
      BY <1>1, <1>4, <3>1, GateYields
    <3>3. \A x : priorityOf(x)' = priorityOf(x)
      BY DEF priorityOf
    <3>. QED
      BY <2>1, <3>2, <3>3 DEF YieldYields
  <2>. QED
    BY <1>4, <2>1, <2>4, <2>5, <2>6, <2>7, <2>8 DEF HostOK, Ranked
<1>. QED
  BY <1>5, <1>6, <1>7

\* A run on record gets another state, without committing what it had not.
LEMMA BecomingKeeps ==
  ASSUME HostOK, NEW id \in DOMAIN runs, NEW state \in RunStates,
         NEW entry \in {"NONE", "RESERVED", "CONFIRMED", "RELEASED"},
         NEW tx \in {"none", "pending", "unrecorded", "success", "reverted"},
         Becomes(id, state, entry, tx), clock' = clock,
         entry \in {"RESERVED", "CONFIRMED"} => runs[id].entry \in {"RESERVED", "CONFIRMED"},
         state = "EXECUTION_UNKNOWN" => entry = "RESERVED",
         account' \in [debt : Nat, maintenance : Nat], queue' = queue,
         batch' \in Seq(Items), at' \in 0..Len(batch'), Ranked(batch'),
         flight' = NoFlight
  PROVE  HostOK'
<1>1. /\ DOMAIN runs' = DOMAIN runs /\ runs' \in [DOMAIN runs' -> RunsOnRecord]
      /\ \A r \in DOMAIN runs : r # id => runs'[r] = runs[r]
      /\ runs'[id].state = state /\ runs'[id].entry = entry
      /\ runs'[id].effectiveAt = runs[id].effectiveAt /\ runs'[id].amount = runs[id].amount
  BY BecomesIs DEF HostOK
<1>2. HostTypes'
  BY <1>1 DEF HostOK, HostTypes
<1>3. Settles
  BY <1>1 DEF Settles, Committed
<1>4. \A r \in DOMAIN runs : runs'[r].state = "EXECUTION_UNKNOWN" => runs'[r].entry = "RESERVED"
  BY <1>1 DEF HostOK, RunOK
<1>5. PacingHolds' /\ (\A r \in DOMAIN runs : RunOK(r))'
  BY <1>1, <1>2, <1>3, <1>4, SettlingKeeps DEF HostOK, HostTypes
<1>. QED
  BY <1>2, <1>5 DEF HostOK, FlightOK, YieldYields, Ranked

\* A repayment leaves a debt.
LEMMA RepaidIs ==
  ASSUME HostTypes, NEW amount \in Nat, Repaid(amount)
  PROVE  account' \in [debt : Nat, maintenance : Nat]
BY DEF HostTypes, Repaid

\* A run in flight ends, in whatever way.
LEMMA FinishKeeps ==
  ASSUME HostOK, Finish
  PROVE  HostOK'
<1>1. /\ Draining /\ flight # NoFlight /\ flight' = NoFlight /\ NextItem
      /\ UNCHANGED <<clock, queue, wakes>>
  BY DEF Finish
<1>2. PICK id \in DOMAIN runs : id = flight.run /\ runs[id].entry = "RESERVED"
  BY <1>1 DEF HostOK, FlightOK
<1>3. HostTypes /\ Ranked(batch) /\ flight.amount \in Nat
  BY <1>1 DEF HostOK, FlightOK
<1>4. batch' \in Seq(Items) /\ at' \in 0..Len(batch') /\ Ranked(batch')
  BY <1>1, <1>3, NextItemKeeps
<1>5. account \in [debt : Nat, maintenance : Nat]
  BY <1>3 DEF HostTypes
<1>6. CASE \E state \in {"BLOCKED_BY_RISK_EPOCH", "BLOCKED_BY_MANDATE"} :
             Becomes(flight.run, state, "RELEASED", "none") /\ UNCHANGED account
  <2>1. PICK state \in {"BLOCKED_BY_RISK_EPOCH", "BLOCKED_BY_MANDATE"} :
          Becomes(id, state, "RELEASED", "none") /\ UNCHANGED account
    BY <1>2, <1>6
  <2>2. state \in RunStates /\ state # "EXECUTION_UNKNOWN"
    BY <2>1 DEF RunStates
  <2>. QED
    BY <1>1, <1>4, <1>5, <2>1, <2>2, BecomingKeeps
<1>7. CASE Becomes(flight.run, "COMPLETE", "CONFIRMED", "success") /\ Repaid(flight.amount)
  <2>1. account' \in [debt : Nat, maintenance : Nat] /\ "COMPLETE" \in RunStates
    BY <1>3, <1>7, RepaidIs DEF RunStates
  <2>. QED
    BY <1>1, <1>2, <1>4, <1>7, <2>1, BecomingKeeps
<1>8. CASE Becomes(flight.run, "COMPLETE", "RELEASED", "reverted") /\ UNCHANGED account
  <2>1. "COMPLETE" \in RunStates
    BY DEF RunStates
  <2>. QED
    BY <1>1, <1>2, <1>4, <1>5, <1>8, <2>1, BecomingKeeps
<1>9. CASE Becomes(flight.run, "EXECUTION_UNKNOWN", "RESERVED", "pending") /\ UNCHANGED account
  <2>1. "EXECUTION_UNKNOWN" \in RunStates
    BY DEF RunStates
  <2>. QED
    BY <1>1, <1>2, <1>4, <1>5, <1>9, <2>1, BecomingKeeps
<1>. QED
  BY <1>6, <1>7, <1>8, <1>9 DEF Finish

\* A call throws, before its reservation or after it.
LEMMA AbortKeeps ==
  ASSUME HostOK, Abort
  PROVE  HostOK'
<1>1. /\ Draining /\ at' = 0 /\ batch' = <<>> /\ flight' = NoFlight
      /\ UNCHANGED <<clock, account, queue, wakes>>
  BY DEF Abort
<1>2. batch' \in Seq(Items) /\ at' \in 0..Len(batch') /\ Ranked(batch')
  BY <1>1 DEF Ranked
<1>3. CASE flight = NoFlight
  <2>1. /\ runIdOf(batch[at]) \notin DOMAIN runs
        /\ Records(runIdOf(batch[at]), "SNAPSHOT_PINNING", 0, "NONE")
    BY <1>3 DEF Abort
  <2>2. "SNAPSHOT_PINNING" \in RunStates \ {"EXECUTION_UNKNOWN"} /\ 0 \in Nat
    BY DEF RunStates
  <2>. QED
    BY <1>1, <1>2, <2>1, <2>2, EnteringKeeps
<1>4. CASE flight # NoFlight
  <2>1. PICK id \in DOMAIN runs : id = flight.run /\ runs[id].entry = "RESERVED"
    BY <1>4 DEF HostOK, FlightOK
  <2>2. PICK tx \in {"none", "unrecorded"} : Becomes(id, "SUBMITTING", "RESERVED", tx)
    BY <1>4, <2>1 DEF Abort
  <2>3. /\ "SUBMITTING" \in RunStates /\ account \in [debt : Nat, maintenance : Nat]
        /\ tx \in {"none", "pending", "unrecorded", "success", "reverted"}
    BY <2>2 DEF RunStates, HostOK, HostTypes
  <2>. QED
    BY <1>1, <1>2, <2>1, <2>2, <2>3, BecomingKeeps
<1>. QED
  BY <1>3, <1>4

\* A transaction lands or reverts, after nobody knew.
LEMMA LateKeeps ==
  ASSUME HostOK, LateOutcome
  PROVE  HostOK'
<1>1. PICK r \in DOMAIN runs :
        \/ runs' = [runs EXCEPT ![r].tx = "success"] /\ Repaid(runs[r].amount)
        \/ runs' = [runs EXCEPT ![r].tx = "reverted"] /\ UNCHANGED account
  BY DEF LateOutcome
<1>2. UNCHANGED <<clock, queue, batch, at, flight, wakes>>
  BY DEF LateOutcome
<1>3. PICK tx \in {"success", "reverted"} : runs' = [runs EXCEPT ![r].tx = tx]
  BY <1>1
<1>4. runs \in [DOMAIN runs -> RunsOnRecord] /\ runs[r] \in RunsOnRecord
  BY DEF HostOK, HostTypes
<1>5. PICK run : run = [runs[r] EXCEPT !.tx = tx]
  OBVIOUS
<1>6. /\ run \in RunsOnRecord /\ run.state = runs[r].state /\ run.entry = runs[r].entry
      /\ run.effectiveAt = runs[r].effectiveAt /\ run.amount = runs[r].amount
  BY <1>4, <1>5 DEF RunsOnRecord
<1>7. runs' = [runs EXCEPT ![r] = run]
  BY <1>3, <1>5
<1>8. /\ DOMAIN runs' = DOMAIN runs /\ runs' \in [DOMAIN runs' -> RunsOnRecord]
      /\ \A q \in DOMAIN runs :
           /\ runs'[q].state = runs[q].state /\ runs'[q].entry = runs[q].entry
           /\ runs'[q].effectiveAt = runs[q].effectiveAt /\ runs'[q].amount = runs[q].amount
  BY <1>4, <1>6, <1>7
<1>9. account' \in [debt : Nat, maintenance : Nat]
  <2>1. runs[r].amount \in Nat /\ HostTypes /\ account \in [debt : Nat, maintenance : Nat]
    BY <1>4 DEF HostOK, HostTypes, RunsOnRecord
  <2>. QED
    BY <1>1, <2>1, RepaidIs
<1>10. HostTypes'
  BY <1>2, <1>8, <1>9 DEF HostOK, HostTypes
<1>11. Settles
  BY <1>8 DEF Settles, Committed
<1>12. \A q \in DOMAIN runs : runs'[q].state = "EXECUTION_UNKNOWN" => runs'[q].entry = "RESERVED"
  BY <1>8 DEF HostOK, RunOK
<1>13. PacingHolds' /\ (\A q \in DOMAIN runs : RunOK(q))'
  BY <1>2, <1>8, <1>10, <1>11, <1>12, SettlingKeeps DEF HostOK, HostTypes
<1>. QED
  BY <1>2, <1>8, <1>10, <1>13 DEF HostOK, FlightOK, YieldYields, Ranked

\* A run whose outcome was unknown is told it.
LEMMA RecoverKeeps ==
  ASSUME HostOK, RecoverRuns
  PROVE  HostOK'
<1>1. ~Draining /\ UNCHANGED <<clock, account, queue, batch, at, flight, wakes>>
  BY DEF RecoverRuns
<1>2. PICK r \in DOMAIN runs :
        /\ runs[r].state = "EXECUTION_UNKNOWN"
        /\ \/ Becomes(r, "COMPLETE", "CONFIRMED", "success")
           \/ Becomes(r, "COMPLETE", "RELEASED", "reverted")
  BY DEF RecoverRuns
<1>3. runs[r].entry = "RESERVED" /\ "COMPLETE" \in RunStates
  BY <1>2 DEF HostOK, RunOK, RunStates
<1>4. /\ account' \in [debt : Nat, maintenance : Nat] /\ batch' \in Seq(Items)
      /\ at' \in 0..Len(batch') /\ Ranked(batch')
  BY <1>1 DEF HostOK, HostTypes, Ranked
<1>5. flight' = NoFlight
  BY <1>1 DEF HostOK, FlightOK, Draining
<1>. QED
  BY <1>1, <1>2, <1>3, <1>4, <1>5, BecomingKeeps

\* The account or the clock moves.
LEMMA WorldKeeps ==
  ASSUME HostOK, AccountMoves \/ ClockTicks
  PROVE  HostOK'
<1>1. UNCHANGED <<queue, batch, at, flight, runs, wakes>>
  BY DEF AccountMoves, ClockTicks
<1>2. clock' \in Nat /\ clock <= clock' /\ account' \in [debt : Nat, maintenance : Nat]
  <2>1. clock \in Nat /\ account \in [debt : Nat, maintenance : Nat]
    BY DEF HostOK, HostTypes
  <2>2. CASE ClockTicks
    BY <2>1, <2>2 DEF ClockTicks
  <2>3. CASE AccountMoves
    <3>1. PICK debt \in Debts, limit \in Limits :
            \/ account' = [account EXCEPT !.debt = debt]
            \/ account' = [account EXCEPT !.maintenance = limit]
      BY <2>3 DEF AccountMoves
    <3>2. debt \in Nat /\ limit \in Nat
      BY HostConstants
    <3>. QED
      BY <2>1, <2>3, <3>1, <3>2 DEF AccountMoves
  <2>. QED
    BY <2>2, <2>3
<1>3. HostTypes'
  BY <1>1, <1>2 DEF HostOK, HostTypes
<1>4. PacingHolds' /\ (\A r \in DOMAIN runs : RunOK(r))'
  BY <1>1, <1>2, <1>3, RunsStand
<1>. QED
  BY <1>1, <1>3, <1>4 DEF HostOK, FlightOK, YieldYields, Ranked

\* Nothing has run at the start.
LEMMA HostStarts == ASSUME HostInit PROVE HostOK
<1>1. Max(Debts) \in Nat /\ Max(Limits) \in Nat
  BY GreatestOf, HostConstants
<1>2. /\ clock = 0 /\ account = [debt |-> Max(Debts), maintenance |-> Max(Limits)]
      /\ queue = <<>> /\ batch = <<>> /\ at = 0 /\ flight = NoFlight /\ runs = <<>>
  BY DEF HostInit
<1>3. DOMAIN runs = {} /\ DOMAIN batch = {} /\ IsFiniteSet({})
  BY <1>2, FS_EmptySet
<1>4. HostTypes
  BY <1>1, <1>2, <1>3 DEF HostTypes
<1>5. PacingHolds
  BY <1>3 DEF PacingHolds, committedRuns
<1>. QED
  BY <1>2, <1>3, <1>4, <1>5 DEF HostOK, Ranked, FlightOK, YieldYields

\* So the host is always, whichever read model a behaviour follows.
THEOREM HostAlways == Spec => []HostOK
<1>1. Init => HostOK
  BY HostStarts DEF Init
<1>2. ASSUME HostOK, [Next]_vars
      PROVE  HostOK'
  <2>1. CASE HostNext
    BY <1>2, <2>1, WakeKeeps, DrainKeeps, TakeKeeps, FinishKeeps, AbortKeeps, LateKeeps,
       RecoverKeeps, WorldKeeps DEF HostNext
  <2>2. CASE UNCHANGED hostVars
    <3>1. UNCHANGED <<clock, account, queue, batch, at, flight, runs, wakes>>
      BY <2>2 DEF hostVars
    <3>2. HostTypes'
      BY <1>2, <3>1 DEF HostOK, HostTypes
    <3>3. PacingHolds' /\ (\A r \in DOMAIN runs : RunOK(r))'
      BY <1>2, <3>1, <3>2, RunsStand DEF HostOK, HostTypes
    <3>. QED
      BY <1>2, <3>1, <3>2, <3>3 DEF HostOK, FlightOK, YieldYields, Ranked
  <2>. QED
    BY <1>2, <2>1, <2>2 DEF Next, vars
<1>. QED
  BY <1>1, <1>2, PTL DEF Spec

\* In every window that ends with a run that spent or may still spend, an instance kept to its
\* spending and run limits, and to its cooldown between runs, for any instances, policies, debts
\* and prices (validate.ts withinBudget, engine.ts processTrigger and recover).
THEOREM RunsKeepTheirPace == Spec => []PacingHolds
<1>1. HostOK => PacingHolds
  BY DEF HostOK
<1>. QED
  BY <1>1, HostAlways, PTL

\* A yield run is never under way in a drain that holds anything of higher priority, in whatever
\* order and number the triggers came in (supervisor.ts drain).
THEOREM YieldGivesWay == Spec => []YieldYields
<1>1. HostOK => YieldYields
  BY DEF HostOK
<1>. QED
  BY <1>1, HostAlways, PTL
-----------------------------------------------------------------------------
(***************************************************************************)
(* The forms an account is moved with.  A wish has at most one transaction *)
(* that took effect or still may, and a submission under way knows it:     *)
(* that is what makes "declined" and "failed" safe to submit again.  What  *)
(* a page reads, shows and submits is of one address, and the figures of a *)
(* loan are those of the epoch it names.                                   *)
(***************************************************************************)

FormKinds ==
  {"addCollateral", "withdrawCollateral", "borrow", "repay", "supply", "exit", "arm", "mandate",
   "instance"}

\* The calls after which a submission is over.
LastCalls(k) ==
  CASE k = "exit" -> {"withdraw", "requestWithdrawal", "claimWithdrawal", "cancelWithdrawal"}
    [] k \in {"mandate", "instance"} -> {"pause", "resume", "revoke"}
    [] OTHER -> {k}

\* What may be left of a submission's course.
Courses(k) ==
  IF k = "arm"
  THEN {<<"sign", "registerMandate", "registerInstance">>, <<"registerMandate", "registerInstance">>,
        <<"registerInstance">>}
  ELSE {<<c>> : c \in LastCalls(k)} \cup {<<"approve", c>> : c \in LastCalls(k)}

\* The figures of a policy that was in force.
OfPolicy(share, epoch) == epoch \in 1..Len(policies) /\ share = policies[epoch]

\* Transactions a form was told of that took effect or still may.
Takes(w) ==
  {n \in 1..Len(sent) :
     Does(n) /\ sent[n].wish = w /\ sent[n].outcome # "reverted" /\ sent[n].told}

\* Nothing that does the wish was sent after one of them.
TakesLast(w) ==
  \A n \in Takes(w), m \in 1..Len(sent) : Does(m) /\ sent[m].wish = w => m <= n
Mandated(w, n) ==
  \E k \in 1..n : /\ sent[k].outcome = "landed" /\ sent[k].call = "registerMandate"
                  /\ sent[k].wish = w

SentOK(n) ==
  LET t == sent[n] IN
  /\ t = [call |-> t.call, for |-> t.for, from |-> t.from, wish |-> t.wish, choice |-> t.choice,
          amount |-> t.amount, shown |-> t.shown, epoch |-> t.epoch, account |-> t.account,
          outcome |-> t.outcome, under |-> t.under, told |-> t.told]
  /\ t.wish \in 1..wishes /\ t.from = t.account
  /\ t.outcome \in {"pending", "landed", "reverted"}
  /\ t.call = "borrow" => /\ OfPolicy(t.shown, t.epoch)
                          /\ t.outcome = "landed" => t.under = t.shown
  /\ t.call = "registerInstance" => Mandated(t.wish, n - 1)

SubmissionOK(s) ==
  /\ s = [wish |-> s.wish, kind |-> s.kind, from |-> s.from, quote |-> s.quote,
          amount |-> s.amount, choice |-> s.choice, steps |-> s.steps, hash |-> s.hash,
          seen |-> s.seen]
  /\ s.wish \in 1..wishes /\ s.kind \in FormKinds /\ s.steps \in Courses(s.kind)
  /\ s.seen \in BOOLEAN
  /\ s.from = s.quote.account
  /\ s.kind = "borrow" => OfPolicy(s.quote.share, s.quote.epoch)
  /\ s.hash \in 0..Len(sent)
  /\ s.hash # 0 => /\ Head(s.steps) # "sign"
                   /\ sent[s.hash].call = Head(s.steps) /\ sent[s.hash].wish = s.wish
  /\ Head(s.steps) = "registerInstance" => Mandated(s.wish, Len(sent))
  /\ Takes(s.wish) \subseteq {s.hash}

\* How the submissions under way belong to the form on the page.
OnPage(s) ==
  /\ s.seen <=> s.wish = form.wish
  /\ s.seen => /\ s.kind = form.kind
               /\ Head(s.steps) = "sign" \/ form.stage \in {"AWAITING_WALLET", "SUBMITTED"}

SubmissionsOK ==
  /\ \A s \in submissions : SubmissionOK(s) /\ OnPage(s)
  /\ \A s, r \in submissions : s.wish = r.wish => s = r

TransactionsOK ==
  /\ Len(sent) \in Nat /\ sent = [n \in 1..Len(sent) |-> sent[n]]
  /\ \A n \in 1..Len(sent) : SentOK(n)
  /\ \A w \in 1..wishes : TakesLast(w)

\* What the form says was declined or failed has no effect to come.
RetryOK == form.wish # 0 /\ form.stage \in {"REJECTED", "FAILED"} => Takes(form.wish) = {}

WishesOK ==
  /\ wishes \in Nat /\ form.wish \in 0..wishes
  /\ SubmissionsOK /\ TransactionsOK /\ RetryOK

\* A form's reads, answers and submissions are those of one address.
ReadOf(r, a) ==
  \/ r.at = "asking wallet" /\ r.stored \in {a, Nobody}
  \/ /\ r.at = "pinning" /\ r.account = a /\ form.kind # "arm"
  \/ /\ r.at = "reading" /\ r.account = a /\ form.kind # "arm"
     /\ form.kind = "borrow" => r.epoch \in 1..Len(policies)

PageOf(a) ==
  /\ session \in {a, Nobody} /\ form.account \in {a, Nobody}
  /\ form.quote = NoQuote \/ form.quote.account = a
  /\ \A r \in refreshes : ReadOf(r, a)
  /\ \A s \in submissions : s.seen => s.from = a

PageOK ==
  /\ form = [kind |-> form.kind, account |-> form.account, quote |-> form.quote,
             stage |-> form.stage, wish |-> form.wish]
  /\ form.kind \in FormKinds \cup {"none", "onboarding"}
  /\ menu \subseteq FormKinds /\ selected \in Wallets /\ session \in Wallets \cup {Nobody}
  /\ Len(policies) \in Nat \ {0} /\ policies = [e \in 1..Len(policies) |-> policies[e]]
  /\ form.kind \in {"none", "onboarding"} =>
       form.wish = 0 /\ form.quote = NoQuote /\ refreshes = {}
  /\ form.kind = "onboarding" => form.account \in Wallets
  /\ form.kind = "none" => form.account = Nobody
  /\ form.kind # "onboarding" => \E a \in Wallets : PageOf(a)
  /\ form.kind = "arm" =>
       refreshes = {} \/ /\ form.quote = NoQuote /\ \E r : refreshes = {r}
                         /\ \A s \in submissions : ~s.seen
  /\ form.kind = "borrow" /\ form.quote # NoQuote => OfPolicy(form.quote.share, form.quote.epoch)

FormsOK == WishesOK /\ PageOK

-----------------------------------------------------------------------------
(* Courses, lists and records. *)

\* What follows in a course is a course; it ends with the call the form is for.
LEMMA CourseIs ==
  ASSUME NEW k \in FormKinds, NEW steps \in Courses(k)
  PROVE  /\ Len(steps) \in Nat \ {0} /\ Head(steps) # "none"
         /\ Len(steps) > 1 =>
              /\ Tail(steps) \in Courses(k)
              /\ Head(steps) \in {"sign", "approve", "registerMandate"}
              /\ Head(Tail(steps)) # "sign"
              /\ Head(Tail(steps)) = "registerInstance" => Head(steps) = "registerMandate"
         /\ Head(steps) = "sign" => Len(steps) > 1 /\ k = "arm"
         /\ Head(steps) = "borrow" => k = "borrow"
<1>1. CASE k = "arm"
  <2>1. CASE steps = <<"sign", "registerMandate", "registerInstance">>
    <3>1. Tail(steps) = <<"registerMandate", "registerInstance">>
      BY <2>1
    <3>. QED
      BY <1>1, <2>1, <3>1 DEF Courses
  <2>2. CASE steps = <<"registerMandate", "registerInstance">>
    <3>1. Tail(steps) = <<"registerInstance">>
      BY <2>2
    <3>. QED
      BY <1>1, <2>2, <3>1 DEF Courses
  <2>3. CASE steps = <<"registerInstance">>
    BY <1>1, <2>3
  <2>. QED
    BY <1>1, <2>1, <2>2, <2>3 DEF Courses
<1>2. CASE k # "arm"
  <2>1. \A c \in LastCalls(k) : c \notin {"none", "sign", "approve", "registerMandate", "registerInstance"}
                                /\ (c = "borrow" => k = "borrow")
    BY <1>2 DEF LastCalls, FormKinds
  <2>2. PICK c \in LastCalls(k) : steps = <<c>> \/ steps = <<"approve", c>>
    BY <1>2 DEF Courses
  <2>3. CASE steps = <<c>>
    <3>1. Len(steps) = 1 /\ Head(steps) = c
      BY <2>3
    <3>2. Len(steps) \in Nat \ {0} /\ ~(Len(steps) > 1)
      BY <3>1
    <3>3. Head(steps) # "sign" /\ Head(steps) # "none" /\ (Head(steps) = "borrow" => k = "borrow")
      BY <2>1, <3>1
    <3>. QED
      BY Zenon, <3>2, <3>3
  <2>4. CASE steps = <<"approve", c>>
    <3>1. Len(steps) = 2 /\ Head(steps) = "approve" /\ Tail(steps) = <<c>>
      BY <2>4
    <3>2. Head(Tail(steps)) = c
      <4>1. Head(<<c>>) = c
        OBVIOUS
      <4>. QED
        BY Zenon, <3>1, <4>1
    <3>3. Tail(steps) \in Courses(k)
      BY <1>2, <3>1 DEF Courses
    <3>. QED
      BY <2>1, <3>1, <3>2, <3>3
  <2>. QED
    BY <2>2, <2>3, <2>4
<1>. QED
  BY <1>1, <1>2

\* Sending puts one more transaction behind the others.
LEMMA Appended ==
  ASSUME NEW list, NEW t, NEW k \in Nat, k = Len(list), list = [n \in 1..k |-> list[n]]
  PROVE  LET more == Append(list, t) IN
         /\ Len(more) = k + 1 /\ more = [n \in 1..(k + 1) |-> more[n]]
         /\ more[k + 1] = t /\ \A n \in 1..k : more[n] = list[n]
<1>1. PICK S : S = {list[n] : n \in 1..k} \cup {t}
  OBVIOUS
<1>2. list \in Seq(S) /\ t \in S
  <2>1. \A n \in 1..k : list[n] \in S
    BY <1>1
  <2>2. PICK f : f = [n \in 1..k |-> list[n]]
    OBVIOUS
  <2>3. f \in Seq(S)
    <3>1. f \in [1..k -> S]
      BY <2>1, <2>2
    <3>. QED
      BY Zenon, <3>1, SeqDef
  <2>4. list = f
    BY <2>2
  <2>. QED
    BY <1>1, <2>3, <2>4
<1>3. PICK more : more = Append(list, t)
  OBVIOUS
<1>4. more \in Seq(S) /\ Len(more) = k + 1
  BY <1>2, <1>3
<1>5. more = [n \in 1..(k + 1) |-> more[n]]
  BY <1>4
<1>6. more[k + 1] = t /\ \A n \in 1..k : more[n] = list[n]
  BY <1>2, <1>3
<1>. QED
  BY <1>3, <1>4, <1>5, <1>6

-----------------------------------------------------------------------------
(* What stands when more is asked for, sent and decided.                    *)

\* Wishes, policies and transactions only become more; a transaction has one outcome.
Later ==
  /\ wishes \in Nat /\ wishes' \in Nat /\ wishes <= wishes'
  /\ Len(policies) \in Nat /\ Len(policies') \in Nat /\ Len(policies) <= Len(policies')
  /\ \A e \in 1..Len(policies) : policies'[e] = policies[e]
  /\ Len(sent) \in Nat /\ Len(sent') \in Nat /\ Len(sent) <= Len(sent')
  /\ \A n \in 1..Len(sent) :
       /\ sent'[n].call = sent[n].call /\ sent'[n].wish = sent[n].wish
       /\ sent'[n].told = sent[n].told
       /\ sent[n].outcome \in {"landed", "reverted"} => sent'[n].outcome = sent[n].outcome

\* A mandate that landed stays so.
LEMMA MandatedStands ==
  ASSUME Later, NEW w, NEW n \in 0..Len(sent), NEW m \in Nat, n <= m, Mandated(w, n)
  PROVE  Mandated(w, m)'
<1>1. PICK k \in 1..n : /\ sent[k].outcome = "landed" /\ sent[k].call = "registerMandate"
                        /\ sent[k].wish = w
  BY DEF Mandated
<1>2. k \in 1..Len(sent) /\ k \in 1..m
  BY <1>1 DEF Later
<1>3. sent'[k].outcome = "landed" /\ sent'[k].call = "registerMandate" /\ sent'[k].wish = w
  BY <1>1, <1>2 DEF Later
<1>. QED
  BY <1>2, <1>3 DEF Mandated

\* What a transaction does, it keeps doing; no wish gains one among those that were sent.
LEMMA TakesShrink ==
  ASSUME Later, NEW w, NEW n \in 1..Len(sent)
  PROVE  /\ Does(n)' => Does(n)
         /\ n \in Takes(w)' => n \in Takes(w)
<1>1. Does(n)' => Does(n)
  BY DEF Later, Does
<1>2. ASSUME n \in Takes(w)'
      PROVE  n \in Takes(w)
  <2>1. Does(n)' /\ sent'[n].wish = w /\ sent'[n].outcome # "reverted" /\ sent'[n].told
    BY <1>2 DEF Takes
  <2>2. Does(n) /\ sent[n].wish = w /\ sent[n].outcome # "reverted" /\ sent[n].told
    BY <1>1, <2>1 DEF Later
  <2>. QED
    BY <2>2 DEF Takes
<1>. QED
  BY <1>1, <1>2

\* A policy's figures stay those of its epoch.
LEMMA FiguresStand ==
  ASSUME Later, NEW share, NEW epoch, OfPolicy(share, epoch)
  PROVE  OfPolicy(share, epoch)'
BY DEF Later, OfPolicy

\* A submission stays what it is, and so does a transaction.
LEMMA SubmissionStands ==
  ASSUME Later, NEW s, SubmissionOK(s), Takes(s.wish)' \subseteq {s.hash}
  PROVE  SubmissionOK(s)'
<1>1. s.wish \in 1..wishes' /\ s.hash \in 0..Len(sent')
  BY DEF Later, SubmissionOK
<1>2. s.kind = "borrow" => OfPolicy(s.quote.share, s.quote.epoch)'
  BY FiguresStand DEF SubmissionOK
<1>3. s.hash # 0 => /\ Head(s.steps) # "sign"
                    /\ sent'[s.hash].call = Head(s.steps) /\ sent'[s.hash].wish = s.wish
  BY DEF Later, SubmissionOK
<1>4. Head(s.steps) = "registerInstance" => Mandated(s.wish, Len(sent))'
  <2>1. PICK k, m \in Nat : k = Len(sent) /\ m = Len(sent') /\ k <= m
    BY DEF Later
  <2>2. Head(s.steps) = "registerInstance" => Mandated(s.wish, k)
    BY <2>1 DEF SubmissionOK
  <2>3. Head(s.steps) = "registerInstance" => Mandated(s.wish, m)'
    BY <2>1, <2>2, MandatedStands
  <2>. QED
    BY <2>1, <2>3
<1>. QED
  BY <1>1, <1>2, <1>3, <1>4 DEF SubmissionOK

\* A transaction that is left alone.
LEMMA SentStands ==
  ASSUME Later, NEW n \in 1..Len(sent), SentOK(n), sent'[n] = sent[n]
  PROVE  SentOK(n)'
<1>1. PICK t : t = sent[n]
  OBVIOUS
<1>2. sent'[n] = t
  BY <1>1
<1>3. t.wish \in 1..wishes'
  BY <1>1 DEF SentOK, Later
<1>4. t.call = "borrow" => OfPolicy(t.shown, t.epoch)'
  BY <1>1, FiguresStand DEF SentOK
<1>5. t.call = "registerInstance" => Mandated(t.wish, n - 1)'
  <2>1. n - 1 \in 0..Len(sent) /\ n - 1 \in Nat
    BY DEF Later
  <2>. QED
    BY <1>1, <2>1, MandatedStands DEF SentOK
<1>. QED
  BY <1>1, <1>2, <1>3, <1>4, <1>5 DEF SentOK

\* Nothing is done for a wish nobody has.
LEMMA TakesOnce ==
  ASSUME WishesOK, NEW w
  PROVE  TakesLast(w) /\ (w \notin 1..wishes => Takes(w) = {})
<1>1. ASSUME NEW n \in Takes(w)
      PROVE  w \in 1..wishes
  BY <1>1 DEF Takes, WishesOK, TransactionsOK, SentOK
<1>2. w \in 1..wishes => TakesLast(w)
  BY DEF WishesOK, TransactionsOK
<1>3. w \notin 1..wishes => Takes(w) = {}
  BY <1>1
<1>4. Takes(w) = {} => TakesLast(w)
  BY DEF TakesLast
<1>. QED
  BY <1>2, <1>3, <1>4

\* While nothing is sent, what takes effect stays the last.
LEMMA LastStays ==
  ASSUME WishesOK, Later, Len(sent') = Len(sent), NEW w
  PROVE  Takes(w)' \subseteq Takes(w) /\ TakesLast(w)'
<1>1. \A n \in 1..Len(sent) : Does(n)' => Does(n)
  BY TakesShrink
<1>2. Takes(w)' \subseteq Takes(w)
  <2>1. \A n \in Takes(w)' : n \in 1..Len(sent)
    BY DEF Takes
  <2>. QED
    BY <2>1, TakesShrink
<1>3. \A m \in 1..Len(sent) : sent'[m].wish = sent[m].wish
  BY DEF Later
<1>4. ASSUME NEW n \in Takes(w)', NEW m \in 1..Len(sent), Does(m)', sent'[m].wish = w
      PROVE  m <= n
  <2>1. Does(m) /\ sent[m].wish = w /\ n \in Takes(w)
    BY <1>1, <1>2, <1>3, <1>4
  <2>2. TakesLast(w)
    BY TakesOnce
  <2>. QED
    BY <2>1, <2>2 DEF TakesLast
<1>5. TakesLast(w)'
  BY <1>4 DEF TakesLast
<1>. QED
  BY <1>2, <1>5

\* Nothing is sent and nothing mined.
LEMMA TransactionsStand ==
  ASSUME WishesOK, Later, sent' = sent
  PROVE  TransactionsOK' /\ \A w : Takes(w)' = Takes(w)
<1>1. \A w : Takes(w)' = Takes(w)
  BY DEF Takes, Does
<1>2. ASSUME NEW n \in 1..Len(sent')
      PROVE  SentOK(n)'
  <2>1. n \in 1..Len(sent) /\ SentOK(n) /\ sent'[n] = sent[n]
    BY <1>2 DEF WishesOK, TransactionsOK
  <2>. QED
    BY <2>1, SentStands
<1>3. \A w : TakesLast(w)'
  BY LastStays
<1>4. Len(sent') \in Nat /\ sent' = [n \in 1..Len(sent') |-> sent'[n]]
  BY DEF WishesOK, TransactionsOK
<1>. QED
  BY <1>1, <1>2, <1>3, <1>4 DEF TransactionsOK

\* A submission under way is for a wish the user has.
LEMMA SubmissionIs ==
  ASSUME WishesOK, NEW s \in submissions
  PROVE  SubmissionOK(s) /\ OnPage(s) /\ s.wish \in 1..wishes /\ s.wish # 0
<1>1. SubmissionOK(s) /\ OnPage(s)
  BY DEF WishesOK, SubmissionsOK
<1>2. s.wish \in 1..wishes /\ wishes \in Nat
  BY <1>1 DEF SubmissionOK, WishesOK
<1>. QED
  BY <1>1, <1>2

\* A page that does nothing for a wish.
LEMMA PageRests ==
  ASSUME WishesOK, Later, UNCHANGED <<wishes, submissions, sent>>, form'.wish = form.wish,
         form.wish = 0 \/ (form'.kind = form.kind /\ form'.stage = form.stage)
  PROVE  WishesOK'
<1>1. TransactionsOK' /\ \A w : Takes(w)' = Takes(w)
  BY TransactionsStand
<1>2. ASSUME NEW s \in submissions'
      PROVE  SubmissionOK(s)' /\ OnPage(s)'
  <2>1. SubmissionOK(s) /\ OnPage(s) /\ s.wish # 0
    BY <1>2, SubmissionIs
  <2>2. Takes(s.wish)' \subseteq {s.hash}
    BY <1>1, <2>1 DEF SubmissionOK
  <2>. QED
    BY <2>1, <2>2, SubmissionStands DEF OnPage
<1>3. SubmissionsOK'
  BY <1>2 DEF WishesOK, SubmissionsOK
<1>. QED
  BY <1>1, <1>3 DEF WishesOK, RetryOK

\* The form goes, and what it submitted goes on unseen.
LEMMA LeavingKeeps ==
  ASSUME WishesOK, Later, UNCHANGED <<wishes, sent>>, submissions' = Leave, form'.wish = 0
  PROVE  WishesOK'
<1>1. TransactionsOK' /\ \A w : Takes(w)' = Takes(w)
  BY TransactionsStand
<1>2. ASSUME NEW s \in submissions
      PROVE  LET r == [s EXCEPT !.seen = FALSE] IN
             /\ SubmissionOK(r)' /\ OnPage(r)' /\ r.wish = s.wish
  <2>1. SubmissionOK(s) /\ s.wish # 0
    BY <1>2, SubmissionIs
  <2>2. PICK r : r = [s EXCEPT !.seen = FALSE]
    OBVIOUS
  <2>3. r = [wish |-> s.wish, kind |-> s.kind, from |-> s.from, quote |-> s.quote,
             amount |-> s.amount, choice |-> s.choice, steps |-> s.steps, hash |-> s.hash,
             seen |-> FALSE]
    BY <2>1, <2>2 DEF SubmissionOK
  <2>4. SubmissionOK(r)
    BY <2>1, <2>3 DEF SubmissionOK
  <2>5. Takes(r.wish)' \subseteq {r.hash}
    BY <1>1, <2>4 DEF SubmissionOK
  <2>6. SubmissionOK(r)'
    BY <2>4, <2>5, SubmissionStands
  <2>7. OnPage(r)'
    BY <2>1, <2>3 DEF OnPage
  <2>. QED
    BY <2>2, <2>3, <2>6, <2>7
<1>3. SubmissionsOK'
  <2>1. ASSUME NEW s \in submissions'
        PROVE  SubmissionOK(s)' /\ OnPage(s)'
    BY <1>2 DEF Leave
  <2>2. ASSUME NEW s \in submissions', NEW r \in submissions', s.wish = r.wish
        PROVE  s = r
    <3>1. PICK q \in submissions : s = [q EXCEPT !.seen = FALSE]
      BY DEF Leave
    <3>2. PICK p \in submissions : r = [p EXCEPT !.seen = FALSE]
      BY DEF Leave
    <3>3. q.wish = p.wish
      BY <1>2, <2>2, <3>1, <3>2
    <3>4. q = p
      BY <3>3 DEF WishesOK, SubmissionsOK
    <3>. QED
      BY <3>1, <3>2, <3>4
  <2>. QED
    BY <2>1, <2>2 DEF SubmissionsOK
<1>. QED
  BY <1>1, <1>3 DEF WishesOK, RetryOK

\* A step that sends nothing and changes no policy.
LEMMA LaterIs ==
  ASSUME WishesOK, PageOK, UNCHANGED <<policies, sent>>, wishes' \in Nat, wishes <= wishes'
  PROVE  Later
BY DEF Later, WishesOK, TransactionsOK, PageOK

-----------------------------------------------------------------------------
(* Submitting. *)

\* An approval before a call.
LEMMA Joined ==
  ASSUME NEW b, NEW c
  PROVE  <<b>> \o <<c>> = <<b, c>> /\ <<>> \o <<c>> = <<c>>
<1>1. PICK S, x, y, d : S = {b, c} /\ x = <<b>> /\ y = <<c>> /\ d = x \o y
  OBVIOUS
<1>2. /\ x \in Seq(S) /\ Len(x) = 1 /\ x[1] = b
      /\ y \in Seq(S) /\ Len(y) = 1 /\ y[1] = c
  BY <1>1
<1>3. d \in Seq(S) /\ Len(d) = 2 /\ d[1] = b /\ d[2] = c
  BY <1>1, <1>2
<1>4. d = <<d[1], d[2]>>
  BY <1>3
<1>5. d = <<b, c>>
  BY Zenon, <1>3, <1>4
<1>6. <<>> \o <<c>> = <<c>>
  OBVIOUS
<1>. QED
  BY <1>1, <1>5, <1>6

\* What a form submits is a course of its own, and only arming begins with a signature.
LEMMA BehindIs ==
  ASSUME NEW s, s.kind \in FormKinds, s.choice \in Choosable(s.kind)
  PROVE  LET steps == Behind(s).steps IN
         /\ steps \in Courses(s.kind) /\ Head(steps) # "registerInstance"
         /\ Head(steps) = "sign" <=> s.kind = "arm"
<1>1. ASSUME NEW c \in LastCalls(s.kind), s.kind # "arm",
             Behind(s).steps = Approving(s) \o <<c>> \/ Behind(s).steps = <<c>>
      PROVE  LET steps == Behind(s).steps IN
             /\ steps \in Courses(s.kind) /\ Head(steps) # "registerInstance"
             /\ Head(steps) # "sign"
  <2>1. <<"approve">> \o <<c>> = <<"approve", c>> /\ <<>> \o <<c>> = <<c>>
    BY Joined
  <2>2. Behind(s).steps = <<c>> \/ Behind(s).steps = <<"approve", c>>
    BY <1>1, <2>1 DEF Approving
  <2>3. c \notin {"sign", "registerInstance"}
    BY <1>1 DEF LastCalls, FormKinds
  <2>4. Behind(s).steps \in Courses(s.kind)
    BY <1>1, <2>2 DEF Courses
  <2>5. Head(<<c>>) = c /\ Head(<<"approve", c>>) = "approve"
    OBVIOUS
  <2>. QED
    BY <2>2, <2>3, <2>4, <2>5
<1>2. CASE s.kind = "arm"
  <2>1. Behind(s).steps = <<"sign", "registerMandate", "registerInstance">>
    BY <1>2 DEF Behind, arm
  <2>2. Head(<<"sign", "registerMandate", "registerInstance">>) = "sign"
    OBVIOUS
  <2>. QED
    BY <1>2, <2>1, <2>2 DEF Courses
<1>3. CASE s.kind \in {"addCollateral", "repay", "supply", "borrow", "withdrawCollateral"}
  <2>1. s.kind \in LastCalls(s.kind)
    BY <1>3 DEF LastCalls
  <2>2. Behind(s).steps = Approving(s) \o <<s.kind>> \/ Behind(s).steps = <<s.kind>>
    BY <1>3 DEF Behind, AddCollateralForm, RepayForm, SupplyForm, BorrowForm, WithdrawForm
  <2>. QED
    BY <1>1, <1>3, <2>1, <2>2
<1>4. CASE s.kind \in {"exit", "mandate", "instance"}
  <2>1. s.choice \in LastCalls(s.kind)
    BY <1>4 DEF LastCalls, Choosable
  <2>2. Behind(s).steps = <<s.choice>>
    BY <1>4 DEF Behind, WithdrawControls, MandateControls, InstanceDetailView
  <2>. QED
    BY <1>1, <1>4, <2>1, <2>2
<1>. QED
  BY <1>2, <1>3, <1>4 DEF FormKinds

\* A form submits when it has nothing under way, for a wish with nothing under way.
LEMMA SubmittingIsFresh ==
  ASSUME WishesOK, NEW w, Idle, w = wishes + 1 \/ SaysRetry(w)
  PROVE  /\ Takes(w) = {} /\ w # 0
         /\ \A q \in submissions : ~q.seen /\ q.wish # w
<1>1. ASSUME NEW q \in submissions
      PROVE  ~q.seen
  <2>1. SUFFICES ASSUME q.seen PROVE FALSE
    OBVIOUS
  <2>2. /\ q.kind = form.kind /\ q.kind \in FormKinds /\ q.steps \in Courses(q.kind)
        /\ Head(q.steps) = "sign" \/ form.stage \in {"AWAITING_WALLET", "SUBMITTED"}
    BY <2>1, SubmissionIs DEF OnPage, SubmissionOK
  <2>3. form.kind # "arm"
    BY <2>1 DEF Idle
  <2>4. form.stage \in {"AWAITING_WALLET", "SUBMITTED"}
    BY <2>2, <2>3, CourseIs
  <2>. QED
    BY <2>3, <2>4 DEF Idle
<1>2. \A q \in submissions : q.wish # form.wish /\ q.wish # wishes + 1
  <2>1. \A q \in submissions : q.wish \in 1..wishes /\ OnPage(q)
    BY SubmissionIs
  <2>2. wishes \in Nat
    BY DEF WishesOK
  <2>. QED
    BY <1>1, <2>1, <2>2 DEF OnPage
<1>3. wishes + 1 \notin 1..wishes /\ wishes + 1 # 0
  BY DEF WishesOK
<1>4. CASE w = wishes + 1
  BY <1>1, <1>2, <1>3, <1>4, TakesOnce
<1>5. CASE SaysRetry(w)
  BY <1>1, <1>2, <1>5 DEF SaysRetry, WishesOK, RetryOK
<1>. QED
  BY <1>4, <1>5

\* What is submitted.
LEMMA SubmittedIs ==
  ASSUME PageOK, NEW w, NEW amount, NEW choice \in Choosable(form.kind), submit(w, amount, choice)
  PROVE  \E r : /\ submissions' = submissions \cup {r}
                /\ r = [wish |-> w, kind |-> form.kind, from |-> form.account, quote |-> form.quote,
                        amount |-> amount, choice |-> choice, steps |-> r.steps, hash |-> 0,
                        seen |-> TRUE]
                /\ r.steps \in Courses(form.kind) /\ Head(r.steps) # "registerInstance"
                /\ form.kind \in FormKinds
                /\ form'.wish = w
                /\ Head(r.steps) = "sign" \/ form'.stage = "AWAITING_WALLET"
                /\ form' = [kind |-> form.kind, account |-> form.account, quote |-> form.quote,
                            stage |-> form'.stage, wish |-> w]
<1>1. PICK s : s = [wish |-> w, kind |-> form.kind, from |-> form.account, quote |-> form.quote,
                    amount |-> amount, choice |-> choice, steps |-> <<>>, hash |-> 0, seen |-> TRUE]
  OBVIOUS
<1>2. PICK steps : steps = Behind(s).steps
  OBVIOUS
<1>3. /\ submissions' = submissions \cup {[s EXCEPT !.steps = steps]}
      /\ form' = [form EXCEPT !.wish = w,
                              !.stage = IF Head(steps) = "sign" THEN @ ELSE "AWAITING_WALLET"]
  BY <1>1, <1>2 DEF submit
<1>4. form.kind \in FormKinds
  BY DEF PageOK, submit
<1>5. steps \in Courses(form.kind) /\ Head(steps) # "registerInstance"
  BY <1>1, <1>2, <1>4, BehindIs
<1>6. PICK r : r = [s EXCEPT !.steps = steps]
  OBVIOUS
<1>7. r = [wish |-> w, kind |-> form.kind, from |-> form.account, quote |-> form.quote,
           amount |-> amount, choice |-> choice, steps |-> steps, hash |-> 0, seen |-> TRUE]
  BY <1>1, <1>6
<1>8. PICK st : st = IF Head(steps) = "sign" THEN form.stage ELSE "AWAITING_WALLET"
  OBVIOUS
<1>9. form = [kind |-> form.kind, account |-> form.account, quote |-> form.quote,
             stage |-> form.stage, wish |-> form.wish]
  BY DEF PageOK
<1>10. form' = [kind |-> form.kind, account |-> form.account, quote |-> form.quote,
                stage |-> st, wish |-> w]
  BY <1>3, <1>8, <1>9
<1>11. Head(steps) = "sign" \/ st = "AWAITING_WALLET"
  BY <1>8
<1>. QED
  BY <1>3, <1>4, <1>5, <1>6, <1>7, <1>10, <1>11

\* The account of a form is the one its quote is about.
LEMMA QuotedAccount ==
  ASSUME PageOK, form.account # Nobody, form.quote # NoQuote
  PROVE  form.account = form.quote.account /\ form.account \in Wallets
BY FormConstants DEF PageOK, PageOf

\* A submission is for a wish that has nothing under way and nothing done.
LEMMA SubmitKeeps ==
  ASSUME WishesOK, PageOK, NEW w \in 1..MaxWishes, NEW amount, NEW choice \in Choosable(form.kind),
         submit(w, amount, choice)
  PROVE  WishesOK'
<1>1. /\ Idle /\ (w = wishes + 1 \/ SaysRetry(w))
      /\ wishes' = IF w > wishes THEN w ELSE wishes
      /\ UNCHANGED <<policies, sent>> /\ form.account # Nobody /\ form.quote # NoQuote
  BY DEF submit, chainOfForms
<1>2. w \in Nat /\ w # 0 /\ wishes \in Nat /\ form.wish \in 0..wishes
  BY <1>1, SubmittingIsFresh DEF WishesOK
<1>3. wishes' \in Nat /\ wishes <= wishes' /\ w \in 1..wishes'
  BY <1>1, <1>2
<1>4. Later
  BY <1>1, <1>3, LaterIs
<1>5. TransactionsOK' /\ \A v : Takes(v)' = Takes(v)
  BY <1>1, <1>4, TransactionsStand
<1>6. PICK r : /\ submissions' = submissions \cup {r}
               /\ r = [wish |-> w, kind |-> form.kind, from |-> form.account, quote |-> form.quote,
                       amount |-> amount, choice |-> choice, steps |-> r.steps, hash |-> 0,
                       seen |-> TRUE]
               /\ r.steps \in Courses(form.kind) /\ Head(r.steps) # "registerInstance"
               /\ form.kind \in FormKinds
               /\ form'.wish = w /\ form'.kind = form.kind
               /\ Head(r.steps) = "sign" \/ form'.stage = "AWAITING_WALLET"
  BY SubmittedIs
<1>7. Takes(w) = {} /\ \A q \in submissions : ~q.seen /\ q.wish # w
  BY <1>1, SubmittingIsFresh
<1>8. ASSUME NEW q \in submissions
      PROVE  SubmissionOK(q)' /\ OnPage(q)'
  <2>1. SubmissionOK(q)
    BY SubmissionIs
  <2>2. Takes(q.wish)' \subseteq {q.hash}
    BY <1>5, <2>1 DEF SubmissionOK
  <2>. QED
    BY <1>4, <1>6, <1>7, <2>1, <2>2, SubmissionStands DEF OnPage
<1>9. OfPolicy(r.quote.share, r.quote.epoch)' \/ r.kind # "borrow"
  BY <1>1, <1>4, <1>6, FiguresStand DEF PageOK
<1>10. SubmissionOK(r)'
  <2>1. /\ r.wish = w /\ r.kind = form.kind /\ r.from = form.account /\ r.quote = form.quote
        /\ r.amount = amount /\ r.choice = choice /\ r.hash = 0 /\ r.seen = TRUE
    BY <1>6
  <2>2. r.from = r.quote.account
    BY <1>1, <2>1, QuotedAccount
  <2>3. r.hash \in 0..Len(sent')
    BY <1>4, <2>1 DEF Later
  <2>4. Takes(r.wish)' = {}
    BY <1>5, <1>7, <2>1
  <2>. QED
    BY <1>3, <1>6, <1>9, <2>1, <2>2, <2>3, <2>4 DEF SubmissionOK
<1>11. OnPage(r)'
  BY <1>6 DEF OnPage
<1>12. SubmissionsOK'
  <2>1. r.wish = w
    BY <1>6
  <2>2. \A q, p \in submissions : q.wish = p.wish => q = p
    BY DEF WishesOK, SubmissionsOK
  <2>. QED
    BY <1>6, <1>7, <1>8, <1>10, <1>11, <2>1, <2>2 DEF SubmissionsOK
<1>13. RetryOK'
  BY <1>5, <1>6, <1>7 DEF RetryOK
<1>. QED
  BY <1>3, <1>5, <1>6, <1>12, <1>13 DEF WishesOK

-----------------------------------------------------------------------------
(* What becomes of a submission. *)

\* A form shows one submission, and a wish has one.
LEMMA SeenOnce ==
  ASSUME WishesOK, NEW s \in submissions
  PROVE  \A q \in submissions \ {s} : q.wish # s.wish /\ (s.seen => ~q.seen)
<1>1. \A q \in submissions : q.seen <=> q.wish = form.wish
  BY SubmissionIs DEF OnPage
<1>2. \A q \in submissions : q.wish = s.wish => q = s
  BY DEF WishesOK, SubmissionsOK
<1>. QED
  BY <1>1, <1>2

\* A submission is over, with or without a call of its own that nobody was told of; the form
\* says so, or is gone.
LEMMA EndingKeeps ==
  ASSUME WishesOK, Later, TransactionsOK', UNCHANGED wishes, NEW s \in submissions,
         \A w : Takes(w)' \subseteq Takes(w),
         submissions' = submissions \ {s},
         ~s.seen => form' = form,
         s.seen => form'.wish \in {0, form.wish},
         s.seen /\ form'.wish # 0 /\ form'.stage \in {"REJECTED", "FAILED"} => Takes(s.wish) = {}
  PROVE  WishesOK'
<1>1. SubmissionOK(s) /\ OnPage(s)
  BY SubmissionIs
<1>2. wishes' \in Nat
  BY DEF WishesOK
<1>3. ASSUME NEW q \in submissions'
      PROVE  SubmissionOK(q)' /\ OnPage(q)'
  <2>1. SubmissionOK(q) /\ OnPage(q) /\ q.wish # 0
    BY <1>3, SubmissionIs
  <2>2. Takes(q.wish)' \subseteq {q.hash}
    BY <2>1 DEF SubmissionOK
  <2>3. SubmissionOK(q)'
    BY <2>1, <2>2, SubmissionStands
  <2>4. OnPage(q)'
    <3>1. CASE s.seen
      <4>1. ~q.seen /\ q.wish # form.wish
        BY <1>1, <1>3, <3>1, SeenOnce DEF OnPage
      <4>. QED
        BY <2>1, <3>1, <4>1 DEF OnPage
    <3>2. CASE ~s.seen
      BY <2>1, <3>2 DEF OnPage
    <3>. QED
      BY <3>1, <3>2
  <2>. QED
    BY <2>3, <2>4
<1>4. SubmissionsOK'
  BY <1>3 DEF WishesOK, SubmissionsOK
<1>5. RetryOK' /\ form'.wish \in 0..wishes'
  BY <1>1 DEF WishesOK, RetryOK, OnPage
<1>. QED
  BY <1>2, <1>4, <1>5 DEF WishesOK

\* A submission is over, and nothing was sent with it.
LEMMA EndsKeeps ==
  ASSUME WishesOK, Later, UNCHANGED <<wishes, sent>>, NEW s \in submissions,
         submissions' = submissions \ {s},
         ~s.seen => form' = form,
         s.seen => form'.wish \in {0, form.wish},
         s.seen /\ form'.wish # 0 /\ form'.stage \in {"REJECTED", "FAILED"} => Takes(s.wish) = {}
  PROVE  WishesOK'
<1>1. TransactionsOK' /\ \A w : Takes(w)' \subseteq Takes(w)
  BY TransactionsStand
<1>. QED
  BY <1>1, EndingKeeps

\* A submission goes on, by itself or with a transaction of its own.
LEMMA GoesOnKeeps ==
  ASSUME WishesOK, Later, TransactionsOK', UNCHANGED wishes, NEW s \in submissions, NEW next,
         GoesOn(s, next), SubmissionOK(next)',
         next.wish = s.wish, next.kind = s.kind, next.seen = s.seen,
         \A w : w # s.wish => Takes(w)' \subseteq Takes(w),
         ~s.seen => form' = form,
         s.seen => form'.wish = form.wish /\ form'.kind = form.kind
                   /\ form'.stage \in {"AWAITING_WALLET", "SUBMITTED"}
  PROVE  WishesOK'
<1>1. SubmissionOK(s) /\ OnPage(s)
  BY SubmissionIs
<1>2. ASSUME NEW q \in submissions \ {s}
      PROVE  SubmissionOK(q)' /\ OnPage(q)'
  <2>1. SubmissionOK(q) /\ OnPage(q) /\ q.wish # s.wish /\ (s.seen => ~q.seen)
    BY <1>2, SubmissionIs, SeenOnce
  <2>2. Takes(q.wish)' \subseteq {q.hash}
    BY <2>1 DEF SubmissionOK
  <2>3. SubmissionOK(q)'
    BY <2>1, <2>2, SubmissionStands
  <2>4. OnPage(q)'
    BY <2>1 DEF OnPage
  <2>. QED
    BY <2>3, <2>4
<1>3. OnPage(next)'
  BY <1>1 DEF OnPage
<1>4. SubmissionsOK'
  <2>1. submissions' = (submissions \ {s}) \cup {next}
    BY DEF GoesOn
  <2>2. \A q \in submissions \ {s} : q.wish # next.wish
    BY SeenOnce
  <2>3. \A q, p \in submissions : q.wish = p.wish => q = p
    BY DEF WishesOK, SubmissionsOK
  <2>. QED
    BY <1>2, <1>3, <2>1, <2>2, <2>3 DEF SubmissionsOK
<1>5. form'.wish \in 0..wishes'
  BY DEF WishesOK
<1>6. RetryOK'
  <2>1. CASE s.seen
    BY <2>1 DEF RetryOK
  <2>2. CASE ~s.seen
    <3>1. form.wish # s.wish
      BY <1>1, <2>2 DEF OnPage
    <3>. QED
      BY <2>2, <3>1 DEF WishesOK, RetryOK
  <2>. QED
    BY <2>1, <2>2
<1>7. wishes' \in Nat
  BY DEF WishesOK
<1>. QED
  BY <1>4, <1>5, <1>6, <1>7 DEF WishesOK

\* What the form shows of a submission.
LEMMA ShowsIs ==
  ASSUME PageOK, NEW s, NEW stage, form' = Shows(s, stage)
  PROVE  /\ ~s.seen => form' = form
         /\ form'.wish = form.wish /\ form'.kind = form.kind /\ form'.account = form.account
         /\ form'.quote = form.quote /\ (s.seen => form'.stage = stage)
         /\ form' = [kind |-> form'.kind, account |-> form'.account, quote |-> form'.quote,
                     stage |-> form'.stage, wish |-> form'.wish]
<1>1. form = [kind |-> form.kind, account |-> form.account, quote |-> form.quote,
              stage |-> form.stage, wish |-> form.wish]
  BY DEF PageOK
<1>2. CASE s.seen
  <2>1. form' = [kind |-> form.kind, account |-> form.account, quote |-> form.quote,
                 stage |-> stage, wish |-> form.wish]
    BY <1>1, <1>2 DEF Shows
  <2>. QED
    BY <1>2, <2>1
<1>3. CASE ~s.seen
  BY <1>1, <1>3 DEF Shows
<1>. QED
  BY <1>2, <1>3

-----------------------------------------------------------------------------
(* The steps of a submission and of the chain. *)

\* The transactions of a wish whose submission has none on its way.
LEMMA NothingTaken ==
  ASSUME WishesOK, NEW s \in submissions, s.hash = 0 \/ sent[s.hash].outcome = "reverted"
                                          \/ ~Does(s.hash)
  PROVE  Takes(s.wish) = {}
<1>1. Takes(s.wish) \subseteq {s.hash}
  BY SubmissionIs DEF SubmissionOK
<1>2. s.hash \notin Takes(s.wish)
  BY DEF Takes
<1>. QED
  BY <1>1, <1>2

\* A course goes on with its next call, once the one before it is done.
LEMMA NextCallIs ==
  ASSUME WishesOK, NEW s \in submissions, Len(s.steps) > 1,
         Head(s.steps) = "sign" \/ (s.hash # 0 /\ sent[s.hash].outcome = "landed"),
         NEW next, next = [s EXCEPT !.steps = Tail(s.steps), !.hash = 0]
  PROVE  SubmissionOK(next) /\ next.wish = s.wish /\ next.kind = s.kind /\ next.seen = s.seen
         /\ next.from = s.from
<1>1. SubmissionOK(s)
  BY SubmissionIs
<1>2. next = [wish |-> s.wish, kind |-> s.kind, from |-> s.from, quote |-> s.quote,
              amount |-> s.amount, choice |-> s.choice, steps |-> Tail(s.steps), hash |-> 0,
              seen |-> s.seen]
  BY <1>1 DEF SubmissionOK
<1>3. s.kind \in FormKinds /\ s.steps \in Courses(s.kind)
  BY <1>1 DEF SubmissionOK
<1>4. /\ Tail(s.steps) \in Courses(s.kind)
      /\ Head(s.steps) \in {"sign", "approve", "registerMandate"}
      /\ Head(Tail(s.steps)) = "registerInstance" => Head(s.steps) = "registerMandate"
  BY <1>3, CourseIs
<1>5. Takes(s.wish) = {}
  <2>1. CASE s.hash = 0
    BY <2>1, NothingTaken
  <2>2. CASE s.hash # 0
    <3>1. sent[s.hash].call \in {"approve", "registerMandate"}
      BY <1>1, <1>4, <2>2 DEF SubmissionOK
    <3>. QED
      BY <3>1, NothingTaken DEF Does
  <2>. QED
    BY <2>1, <2>2
<1>6. Head(Tail(s.steps)) = "registerInstance" => Mandated(s.wish, Len(sent))
  <2>1. SUFFICES ASSUME Head(s.steps) = "registerMandate"
                 PROVE  Mandated(s.wish, Len(sent))
    BY <1>4
  <2>2. /\ s.hash \in 1..Len(sent) /\ sent[s.hash].outcome = "landed"
        /\ sent[s.hash].call = "registerMandate" /\ sent[s.hash].wish = s.wish
    <3>1. s.hash # 0 /\ s.hash \in 0..Len(sent) /\ Len(sent) \in Nat
      BY <1>1, <2>1 DEF SubmissionOK, WishesOK, TransactionsOK
    <3>2. s.hash \in 1..Len(sent)
      BY <3>1
    <3>. QED
      BY <1>1, <2>1, <3>1, <3>2 DEF SubmissionOK
  <2>. QED
    BY <2>2 DEF Mandated
<1>7. 0 \in 0..Len(sent)
  BY DEF WishesOK, TransactionsOK
<1>8. /\ next.wish = s.wish /\ next.kind = s.kind /\ next.from = s.from /\ next.quote = s.quote
      /\ next.steps = Tail(s.steps) /\ next.hash = 0 /\ next.seen = s.seen
      /\ next.amount = s.amount /\ next.choice = s.choice
  BY <1>2
<1>9. SubmissionOK(next)
  BY <1>1, <1>2, <1>4, <1>5, <1>6, <1>7, <1>8 DEF SubmissionOK
<1>. QED
  BY <1>8, <1>9

\* A course that goes on sends nothing by it.
LEMMA CourseGoesOnKeeps ==
  ASSUME WishesOK, PageOK, Later, UNCHANGED <<wishes, sent>>, NEW s \in submissions, NEW next,
         SubmissionOK(next), next.wish = s.wish, next.kind = s.kind, next.seen = s.seen,
         GoesOn(s, next), NEW stage \in {"AWAITING_WALLET", "SUBMITTED"}, form' = Shows(s, stage)
  PROVE  WishesOK'
<1>1. TransactionsOK' /\ \A w : Takes(w)' = Takes(w)
  BY TransactionsStand
<1>2. Takes(next.wish)' \subseteq {next.hash}
  BY <1>1 DEF SubmissionOK
<1>3. SubmissionOK(next)'
  BY <1>2, SubmissionStands
<1>. QED
  BY <1>1, <1>3, ShowsIs, GoesOnKeeps

\* A signature, or the refusal of one.
LEMMA SignMandateKeeps ==
  ASSUME WishesOK, PageOK, NEW s \in submissions, SignMandate(s)
  PROVE  WishesOK'
<1>1. UNCHANGED <<wishes, sent, policies>> /\ Head(s.steps) = "sign"
  BY DEF SignMandate, chainOfForms
<1>2. Later
  BY <1>1, LaterIs DEF WishesOK
<1>3. SubmissionOK(s) /\ OnPage(s)
  BY SubmissionIs
<1>4. CASE Ends(s, form.stage)
  <2>1. s.seen /\ form.stage \in {"REJECTED", "FAILED"} => Takes(s.wish) = {}
    BY <1>3, SubmissionIs DEF OnPage, WishesOK, RetryOK
  <2>2. form' = Shows(s, form.stage) /\ submissions' = submissions \ {s}
    BY <1>4 DEF Ends
  <2>3. /\ ~s.seen => form' = form
        /\ form'.wish = form.wish /\ (s.seen => form'.stage = form.stage)
    BY <2>2, ShowsIs
  <2>. QED
    BY <1>1, <1>2, <2>1, <2>2, <2>3, EndsKeeps
<1>5. CASE /\ GoesOn(s, [s EXCEPT !.steps = Tail(@)])
           /\ form' = Shows(s, "AWAITING_WALLET")
  <2>1. PICK next : next = [s EXCEPT !.steps = Tail(s.steps), !.hash = 0]
    OBVIOUS
  <2>2. s.hash = 0
    BY <1>1, <1>3 DEF SubmissionOK
  <2>3. GoesOn(s, next)
    <3>1. next = [s EXCEPT !.steps = Tail(@)]
      BY <1>3, <2>1, <2>2 DEF SubmissionOK
    <3>. QED
      BY <1>5, <3>1
  <2>4. Len(s.steps) > 1
    BY <1>1, <1>3, CourseIs DEF SubmissionOK
  <2>5. SubmissionOK(next) /\ next.wish = s.wish /\ next.kind = s.kind /\ next.seen = s.seen
    BY <1>1, <2>1, <2>4, NextCallIs
  <2>. QED
    BY <1>1, <1>2, <1>5, <2>3, <2>5, CourseGoesOnKeeps
<1>. QED
  BY <1>4, <1>5 DEF SignMandate

\* The user declines, and nothing was sent.
LEMMA WalletRefusesKeeps ==
  ASSUME WishesOK, PageOK, NEW s \in submissions, WalletRefuses(s)
  PROVE  WishesOK'
<1>1. UNCHANGED <<wishes, sent, policies>> /\ s.hash = 0
  BY DEF WalletRefuses, chainOfForms
<1>2. Later
  BY <1>1, LaterIs DEF WishesOK
<1>3. PICK stage : Ends(s, stage)
  BY DEF WalletRefuses
<1>4. form' = Shows(s, stage) /\ submissions' = submissions \ {s}
  BY <1>3 DEF Ends
<1>5. (~s.seen => form' = form) /\ form'.wish = form.wish
  BY <1>4, ShowsIs
<1>. QED
  BY <1>1, <1>2, <1>4, <1>5, NothingTaken, EndsKeeps

\* The time is over for a receipt: what was sent may still land.
LEMMA ReceiptIsLostKeeps ==
  ASSUME WishesOK, PageOK, NEW s \in submissions, ReceiptIsLost(s)
  PROVE  WishesOK'
<1>1. UNCHANGED <<wishes, sent, policies>>
  BY DEF ReceiptIsLost, chainOfForms
<1>2. Later
  BY <1>1, LaterIs DEF WishesOK
<1>3. form' = Shows(s, "CONFIRMATION_UNKNOWN") /\ submissions' = submissions \ {s}
  BY DEF ReceiptIsLost, Ends, stageWithoutReceipt
<1>4. (~s.seen => form' = form) /\ form'.wish = form.wish /\ (s.seen => form'.stage = "CONFIRMATION_UNKNOWN")
  BY <1>3, ShowsIs
<1>. QED
  BY <1>1, <1>2, <1>3, <1>4, EndsKeeps

\* A receipt is read.
LEMMA ReceiptArrivesKeeps ==
  ASSUME WishesOK, PageOK, NEW s \in submissions, ReceiptArrives(s)
  PROVE  WishesOK'
<1>1. UNCHANGED <<wishes, sent, policies>> /\ s.hash # 0 /\ ~Unmined(s.hash)
  BY DEF ReceiptArrives, chainOfForms
<1>2. Later
  BY <1>1, LaterIs DEF WishesOK
<1>3. SubmissionOK(s) /\ OnPage(s)
  BY SubmissionIs
<1>4. CASE sent[s.hash].outcome = "reverted"
  <2>1. form' = Shows(s, "FAILED") /\ submissions' = submissions \ {s}
    BY <1>4 DEF ReceiptArrives, Ends
  <2>2. (~s.seen => form' = form) /\ form'.wish = form.wish
    BY <2>1, ShowsIs
  <2>. QED
    BY <1>1, <1>2, <1>4, <2>1, <2>2, NothingTaken, EndsKeeps
<1>5. CASE sent[s.hash].outcome # "reverted" /\ Len(s.steps) > 1
  <2>1. CASE s.kind = "arm" /\ Ends(s, "COMPLETE")
    <3>1. form' = Shows(s, "COMPLETE") /\ submissions' = submissions \ {s}
      BY <2>1 DEF Ends
    <3>2. (~s.seen => form' = form) /\ form'.wish = form.wish /\ (s.seen => form'.stage = "COMPLETE")
      BY <3>1, ShowsIs
    <3>. QED
      BY <1>1, <1>2, <3>1, <3>2, EndsKeeps
  <2>2. CASE /\ GoesOn(s, [s EXCEPT !.steps = Tail(@), !.hash = 0])
             /\ form' = Shows(s, "AWAITING_WALLET")
    <3>1. PICK next : next = [s EXCEPT !.steps = Tail(s.steps), !.hash = 0]
      OBVIOUS
    <3>2. GoesOn(s, next)
      BY <2>2, <3>1
    <3>3. sent[s.hash].outcome = "landed"
      <4>1. s.hash \in 1..Len(sent)
        BY <1>1, <1>3 DEF SubmissionOK, WishesOK, TransactionsOK
      <4>. QED
        BY <1>1, <1>5, <4>1 DEF Unmined, WishesOK, TransactionsOK, SentOK
    <3>4. SubmissionOK(next) /\ next.wish = s.wish /\ next.kind = s.kind /\ next.seen = s.seen
      BY <1>1, <1>5, <3>1, <3>3, NextCallIs
    <3>. QED
      BY <1>1, <1>2, <2>2, <3>2, <3>4, CourseGoesOnKeeps
  <2>. QED
    BY <1>5, <2>1, <2>2 DEF ReceiptArrives
<1>6. CASE sent[s.hash].outcome # "reverted" /\ ~(Len(s.steps) > 1)
  <2>1. submissions' = submissions \ {s}
        /\ form' = IF s.seen /\ s.kind = "arm" THEN NoForm ELSE Shows(s, "COMPLETE")
    BY <1>6 DEF ReceiptArrives
  <2>2. CASE s.seen /\ s.kind = "arm"
    <3>1. form'.wish = 0
      BY <2>1, <2>2 DEF NoForm, Mounted
    <3>. QED
      BY <1>1, <1>2, <2>1, <2>2, <3>1, EndsKeeps
  <2>3. CASE ~(s.seen /\ s.kind = "arm")
    <3>1. (~s.seen => form' = form) /\ form'.wish = form.wish /\ (s.seen => form'.stage = "COMPLETE")
      BY <2>1, <2>3, ShowsIs
    <3>. QED
      BY <1>1, <1>2, <2>1, <3>1, EndsKeeps
  <2>. QED
    BY <2>2, <2>3
<1>. QED
  BY <1>4, <1>5, <1>6

\* The transaction of a call is of the address and the figures it was submitted with.
LEMMA TransactionIs ==
  ASSUME NEW s, NEW t, t \in {TransactionOf(s), Untold(s)}
  PROVE  /\ t = [call |-> t.call, for |-> t.for, from |-> t.from, wish |-> t.wish,
                 choice |-> t.choice, amount |-> t.amount, shown |-> t.shown, epoch |-> t.epoch,
                 account |-> t.account, outcome |-> t.outcome, under |-> t.under, told |-> t.told]
         /\ t.call = Head(s.steps) /\ t.from = s.from /\ t.wish = s.wish
         /\ t.account = s.quote.account /\ t.outcome = "pending"
         /\ t.call = "borrow" => t.shown = s.quote.share /\ t.epoch = s.quote.epoch
         /\ t = Untold(s) => ~t.told
<1>1. PICK c, amount, shown, epoch :
        /\ c = Head(s.steps)
        /\ TransactionOf(s) =
             [call |-> c, for |-> s.kind, from |-> s.from, wish |-> s.wish, choice |-> s.choice,
              amount |-> amount, shown |-> shown, epoch |-> epoch,
              account |-> s.quote.account, outcome |-> "pending", under |-> 0, told |-> TRUE]
        /\ (c = "borrow" => shown = s.quote.share /\ epoch = s.quote.epoch)
  BY DEF TransactionOf
<1>2. PICK o : o = TransactionOf(s)
  OBVIOUS
<1>3. Untold(s) =
        [call |-> c, for |-> s.kind, from |-> s.from, wish |-> s.wish, choice |-> s.choice,
         amount |-> amount, shown |-> shown, epoch |-> epoch,
         account |-> s.quote.account, outcome |-> "pending", under |-> 0, told |-> FALSE]
  <2>1. Untold(s) = [o EXCEPT !.told = FALSE]
    BY <1>2 DEF Untold
  <2>2. o = [call |-> c, for |-> s.kind, from |-> s.from, wish |-> s.wish, choice |-> s.choice,
             amount |-> amount, shown |-> shown, epoch |-> epoch,
             account |-> s.quote.account, outcome |-> "pending", under |-> 0, told |-> TRUE]
    BY <1>1, <1>2
  <2>. QED
    BY ONLY <2>1, <2>2
<1>4. PICK told :
        t = [call |-> c, for |-> s.kind, from |-> s.from, wish |-> s.wish, choice |-> s.choice,
             amount |-> amount, shown |-> shown, epoch |-> epoch,
             account |-> s.quote.account, outcome |-> "pending", under |-> 0, told |-> told]
  BY <1>1, <1>3
<1>5. t = Untold(s) => ~t.told
  BY <1>3
<1>. QED
  BY <1>1, <1>4, <1>5

\* A call is sent, and the form is told of it or not: nothing for its wish was taken before it.
LEMMA CallIsSent ==
  ASSUME WishesOK, PageOK, UNCHANGED <<wishes, policies>>,
         NEW s \in submissions, Head(s.steps) # "sign", s.hash = 0,
         NEW t, t \in {TransactionOf(s), Untold(s)}, sent' = Append(sent, t)
  PROVE  /\ Later /\ TransactionsOK'
         /\ Len(sent) \in Nat /\ Len(sent') = Len(sent) + 1
         /\ sent'[Len(sent) + 1] = t
         /\ \A w : Takes(w)' \subseteq
                    Takes(w) \cup (IF w = s.wish /\ t # Untold(s) THEN {Len(sent) + 1} ELSE {})
<1>1. SubmissionOK(s) /\ OnPage(s)
  BY SubmissionIs
<1>2. PICK k : k = Len(sent) /\ k \in Nat /\ sent = [n \in 1..k |-> sent[n]]
  BY DEF WishesOK, TransactionsOK
<1>3. /\ Len(sent') = k + 1 /\ sent' = [n \in 1..(k + 1) |-> sent'[n]]
      /\ sent'[k + 1] = t /\ \A n \in 1..k : sent'[n] = sent[n]
  BY <1>2, Appended
<1>4. Later
  <2>1. wishes \in Nat /\ wishes' = wishes /\ Len(policies) \in Nat /\ policies' = policies
    BY DEF WishesOK, PageOK
  <2>2. \A n \in 1..Len(sent) : sent'[n] = sent[n]
    BY <1>2, <1>3
  <2>3. Len(sent) \in Nat /\ Len(sent') \in Nat /\ Len(sent) <= Len(sent')
    BY <1>2, <1>3
  <2>. QED
    BY ONLY <2>1, <2>2, <2>3 DEF Later
<1>5. Takes(s.wish) = {}
  BY NothingTaken
<1>6. t.wish = s.wish /\ t.call = Head(s.steps) /\ t.outcome = "pending" /\ (t = Untold(s) => ~t.told)
  BY TransactionIs
<1>7. \A w : Takes(w)' \subseteq
               Takes(w) \cup (IF w = s.wish /\ t # Untold(s) THEN {k + 1} ELSE {})
  <2>1. ASSUME NEW w, NEW n \in Takes(w)'
        PROVE  n \in Takes(w) \/ (w = s.wish /\ t # Untold(s) /\ n = k + 1)
    <3>1. n \in 1..(k + 1) /\ sent'[n].wish = w /\ sent'[n].told
      BY <1>3, <2>1 DEF Takes
    <3>2. CASE n \in 1..k
      BY <1>2, <1>4, <2>1, <3>2, TakesShrink
    <3>3. CASE n = k + 1
      BY <1>3, <1>6, <3>1, <3>3
    <3>. QED
      BY <1>2, <3>1, <3>2, <3>3
  <2>. QED
    BY <2>1
<1>8. \A w : TakesLast(w)'
  <2>1. ASSUME NEW w, NEW n \in Takes(w)', NEW m \in 1..(k + 1), Does(m)', sent'[m].wish = w
        PROVE  m <= n
    <3>1. CASE w = s.wish
      <4>1. n = k + 1
        BY <1>5, <1>7, <2>1, <3>1
      <4>. QED
        BY <1>2, <4>1
    <3>2. CASE w # s.wish
      <4>1. n \in Takes(w)
        BY <1>7, <2>1, <3>2
      <4>2. m # k + 1
        BY <1>3, <1>6, <2>1, <3>2
      <4>3. m \in 1..k
        BY <1>2, <4>2
      <4>4. Does(m) /\ sent[m].wish = w
        BY <1>2, <1>3, <1>4, <2>1, <4>3, TakesShrink
      <4>5. TakesLast(w)
        BY TakesOnce
      <4>. QED
        BY <1>2, <4>1, <4>3, <4>4, <4>5 DEF TakesLast
    <3>. QED
      BY <3>1, <3>2
  <2>. QED
    BY <1>3, <2>1 DEF TakesLast
<1>9. TransactionsOK'
  <2>1. ASSUME NEW n \in 1..k
        PROVE  SentOK(n)'
    BY <1>2, <1>3, <1>4, <2>1, SentStands DEF WishesOK, TransactionsOK
  <2>2. SentOK(k + 1)'
    <3>1. t.wish \in 1..wishes' /\ t.from = t.account
      BY <1>1, TransactionIs DEF SubmissionOK
    <3>2. t.call = "borrow" => OfPolicy(t.shown, t.epoch)'
      <4>1. SUFFICES ASSUME t.call = "borrow"
                     PROVE  OfPolicy(t.shown, t.epoch)'
        OBVIOUS
      <4>2. s.kind = "borrow"
        BY <1>1, <1>6, <4>1, CourseIs DEF SubmissionOK
      <4>3. OfPolicy(s.quote.share, s.quote.epoch)'
        BY <1>1, <1>4, <4>2, FiguresStand DEF SubmissionOK
      <4>4. t.shown = s.quote.share /\ t.epoch = s.quote.epoch
        BY <4>1, TransactionIs
      <4>. QED
        BY <4>3, <4>4
    <3>3. PICK j \in Nat : j = k + 1
      BY <1>2
    <3>4. t.call = "registerInstance" => Mandated(t.wish, j - 1)'
      <4>1. k \in 0..Len(sent) /\ k <= j - 1 /\ j - 1 \in Nat
        BY <1>2, <3>3
      <4>2. t.call = "registerInstance" => Mandated(t.wish, k)
        BY <1>1, <1>2, <1>6 DEF SubmissionOK
      <4>. QED
        BY <1>4, <4>1, <4>2, MandatedStands
    <3>5. t = [call |-> t.call, for |-> t.for, from |-> t.from, wish |-> t.wish,
               choice |-> t.choice, amount |-> t.amount, shown |-> t.shown, epoch |-> t.epoch,
               account |-> t.account, outcome |-> t.outcome, under |-> t.under, told |-> t.told]
      BY TransactionIs
    <3>6. t.outcome = "pending" /\ sent'[j] = t
      BY <1>3, <1>6, <3>3
    <3>7. SentOK(j)'
      BY <3>1, <3>2, <3>4, <3>5, <3>6 DEF SentOK
    <3>. QED
      BY <3>3, <3>7
  <2>. QED
    BY <1>2, <1>3, <1>8, <2>1, <2>2 DEF TransactionsOK
<1>. QED
  BY <1>2, <1>3, <1>4, <1>7, <1>9

\* The wallet errs: what it may have sent without a word is not taken for the wish.
LEMMA WalletErrsKeeps ==
  ASSUME WishesOK, PageOK, NEW s \in submissions, WalletErrs(s)
  PROVE  Later /\ WishesOK'
<1>1. UNCHANGED <<wishes, policies>> /\ Head(s.steps) # "sign" /\ s.hash = 0
  BY DEF WalletErrs
<1>2. form' = Shows(s, "FAILED") /\ submissions' = submissions \ {s}
  BY DEF WalletErrs, Ends
<1>3. (~s.seen => form' = form) /\ form'.wish = form.wish
  BY <1>2, ShowsIs
<1>4. Takes(s.wish) = {}
  BY <1>1, NothingTaken
<1>5. CASE sent' = sent
  <2>1. Later
    BY <1>1, <1>5, LaterIs DEF WishesOK
  <2>. QED
    BY <1>1, <1>2, <1>3, <1>4, <1>5, <2>1, EndsKeeps
<1>6. CASE sent' = Append(sent, Untold(s))
  <2>1. Later /\ TransactionsOK' /\ \A w : Takes(w)' \subseteq Takes(w)
    BY <1>1, <1>6, CallIsSent
  <2>. QED
    BY <1>1, <1>2, <1>3, <1>4, <2>1, EndingKeeps
<1>. QED
  BY <1>5, <1>6 DEF WalletErrs

\* The wallet sends a call: nothing that does its wish is sent after it.
LEMMA WalletSendsKeeps ==
  ASSUME WishesOK, PageOK, NEW s \in submissions, WalletSends(s)
  PROVE  Later /\ WishesOK'
<1>1. UNCHANGED <<wishes, policies>> /\ Head(s.steps) # "sign" /\ s.hash = 0
  BY DEF WalletSends
<1>2. SubmissionOK(s) /\ OnPage(s)
  BY SubmissionIs
<1>3. PICK k, t : k = Len(sent) /\ t = TransactionOf(s) /\ sent' = Append(sent, t)
  BY DEF WalletSends
<1>4. /\ Later /\ TransactionsOK' /\ k \in Nat /\ Len(sent') = k + 1 /\ sent'[k + 1] = t
      /\ \A w : Takes(w)' \subseteq Takes(w) \cup (IF w = s.wish THEN {k + 1} ELSE {})
  BY <1>1, <1>3, CallIsSent
<1>5. Later /\ TransactionsOK'
  BY <1>4
<1>6. Takes(s.wish) = {}
  BY <1>1, NothingTaken
<1>7. t.wish = s.wish /\ t.call = Head(s.steps)
  BY <1>3, TransactionIs
<1>10. PICK next : next = [s EXCEPT !.hash = k + 1]
  OBVIOUS
<1>11. next = [wish |-> s.wish, kind |-> s.kind, from |-> s.from, quote |-> s.quote,
               amount |-> s.amount, choice |-> s.choice, steps |-> s.steps, hash |-> k + 1,
               seen |-> s.seen]
  BY <1>2, <1>10 DEF SubmissionOK
<1>12. SubmissionOK(next)'
  <2>1. s.wish \in 1..wishes' /\ k + 1 \in 0..Len(sent')
    BY <1>1, <1>2, <1>3, <1>4 DEF SubmissionOK
  <2>2. s.kind = "borrow" => OfPolicy(s.quote.share, s.quote.epoch)'
    BY <1>2, <1>5, FiguresStand DEF SubmissionOK
  <2>3. Head(s.steps) = "registerInstance" => Mandated(s.wish, Len(sent))'
    <3>1. Head(s.steps) = "registerInstance" => Mandated(s.wish, k)
      BY <1>2, <1>3 DEF SubmissionOK
    <3>2. k \in 0..Len(sent) /\ k + 1 \in Nat /\ k <= k + 1
      BY <1>3
    <3>3. Head(s.steps) = "registerInstance" => Mandated(s.wish, k + 1)'
      BY <1>5, <3>1, <3>2, MandatedStands
    <3>. QED
      BY <1>4, <3>3
  <2>4. sent'[k + 1].call = Head(s.steps) /\ sent'[k + 1].wish = s.wish
    BY <1>4, <1>7
  <2>5. Takes(s.wish)' \subseteq {k + 1}
    BY <1>4, <1>6
  <2>6. /\ next.wish = s.wish /\ next.kind = s.kind /\ next.from = s.from /\ next.quote = s.quote
        /\ next.steps = s.steps /\ next.hash = k + 1 /\ next.seen = s.seen
        /\ next.amount = s.amount /\ next.choice = s.choice
    BY <1>11
  <2>7. /\ s.kind \in FormKinds /\ s.steps \in Courses(s.kind) /\ s.seen \in BOOLEAN
        /\ s.from = s.quote.account
    BY <1>2 DEF SubmissionOK
  <2>. QED
    BY <1>1, <1>11, <2>1, <2>2, <2>3, <2>4, <2>5, <2>6, <2>7 DEF SubmissionOK
<1>13. GoesOn(s, next) /\ form' = Shows(s, "SUBMITTED")
  BY <1>3, <1>10 DEF WalletSends
<1>14. next.wish = s.wish /\ next.kind = s.kind /\ next.seen = s.seen
  BY <1>11
<1>15. /\ ~s.seen => form' = form
       /\ form'.wish = form.wish /\ form'.kind = form.kind /\ (s.seen => form'.stage = "SUBMITTED")
  BY <1>13, ShowsIs
<1>16. \A w : w # s.wish => Takes(w)' \subseteq Takes(w)
  BY <1>4
<1>. QED
  BY <1>1, <1>5, <1>12, <1>13, <1>14, <1>15, <1>16, GoesOnKeeps

\* A transaction is mined: a borrow lands under the policy it names, which is the one
\* that was shown.
LEMMA IncludeKeeps ==
  ASSUME WishesOK, PageOK, NEW n \in DOMAIN sent, Include(n)
  PROVE  Later /\ WishesOK'
<1>1. UNCHANGED <<wishes, submissions, form, policies>> /\ Unmined(n)
  BY DEF Include
<1>2. PICK k \in Nat : k = Len(sent) /\ n \in 1..k /\ sent = [m \in 1..k |-> sent[m]]
  BY DEF WishesOK, TransactionsOK
<1>3. PICK t : t = sent[n] /\ SentOK(n)
  BY <1>2 DEF WishesOK, TransactionsOK
<1>4. PICK u : /\ u = [t EXCEPT !.outcome = IF Accepted(t) THEN "landed" ELSE "reverted",
                                !.under = IF t.call = "borrow" THEN policies[riskEpoch] ELSE 0]
               /\ sent' = [sent EXCEPT ![n] = u]
  BY <1>3 DEF Include
<1>5. /\ u = [call |-> t.call, for |-> t.for, from |-> t.from, wish |-> t.wish, choice |-> t.choice,
              amount |-> t.amount, shown |-> t.shown, epoch |-> t.epoch, account |-> t.account,
              outcome |-> u.outcome, under |-> u.under, told |-> t.told]
      /\ u.outcome = IF Accepted(t) THEN "landed" ELSE "reverted"
      /\ u.under = IF t.call = "borrow" THEN policies[riskEpoch] ELSE 0
  <2>1. t = [call |-> t.call, for |-> t.for, from |-> t.from, wish |-> t.wish, choice |-> t.choice,
             amount |-> t.amount, shown |-> t.shown, epoch |-> t.epoch, account |-> t.account,
             outcome |-> t.outcome, under |-> t.under, told |-> t.told]
    BY <1>3 DEF SentOK
  <2>2. PICK o, v : o = (IF Accepted(t) THEN "landed" ELSE "reverted")
                    /\ v = (IF t.call = "borrow" THEN policies[riskEpoch] ELSE 0)
    OBVIOUS
  <2>3. u = [t EXCEPT !.outcome = o, !.under = v]
    BY <1>4, <2>2
  <2>. QED
    BY <2>1, <2>2, <2>3
<1>6. /\ sent' = [m \in 1..k |-> sent'[m]] /\ Len(sent') = k
      /\ sent'[n] = u /\ \A m \in 1..k : m # n => sent'[m] = sent[m]
  <2>1. sent' = [m \in 1..k |-> IF m = n THEN u ELSE sent[m]]
    BY <1>2, <1>4
  <2>2. DOMAIN sent' = 1..k /\ k \in Nat
    BY <2>1
  <2>3. Len(sent') = k
    BY <2>1
  <2>. QED
    BY <1>2, <2>1, <2>3
<1>7. u.call = t.call /\ u.wish = t.wish /\ u.from = t.from /\ u.account = t.account
      /\ u.shown = t.shown /\ u.epoch = t.epoch /\ u.told = t.told
  BY <1>5
<1>8. t.outcome = "pending"
  BY <1>1, <1>3 DEF Unmined
<1>9. Later
  <2>1. wishes \in Nat /\ wishes' = wishes /\ Len(policies) \in Nat /\ policies' = policies
    BY <1>1 DEF WishesOK, PageOK
  <2>2. ASSUME NEW m \in 1..Len(sent)
        PROVE  /\ sent'[m].call = sent[m].call /\ sent'[m].wish = sent[m].wish
               /\ sent'[m].told = sent[m].told
               /\ sent[m].outcome \in {"landed", "reverted"} => sent'[m].outcome = sent[m].outcome
    BY <1>2, <1>3, <1>6, <1>7, <1>8, <2>2
  <2>3. Len(sent) \in Nat /\ Len(sent') \in Nat /\ Len(sent) <= Len(sent')
    BY <1>2, <1>6
  <2>. QED
    BY ONLY <2>1, <2>2, <2>3 DEF Later
<1>10. \A w : Takes(w)' \subseteq Takes(w) /\ TakesLast(w)'
  BY <1>2, <1>6, <1>9, LastStays
<1>11. SentOK(n)'
  <2>1. t.wish \in 1..wishes' /\ t.from = t.account
    BY <1>1, <1>3 DEF SentOK
  <2>2. t.call = "borrow" => OfPolicy(t.shown, t.epoch) /\ OfPolicy(t.shown, t.epoch)'
    BY <1>3, <1>9, FiguresStand DEF SentOK
  <2>3. t.call = "borrow" /\ Accepted(t) => t.epoch = riskEpoch
    BY DEF Accepted
  <2>4. t.call = "borrow" /\ u.outcome = "landed" => u.under = t.shown
    BY <1>5, <2>2, <2>3 DEF OfPolicy
  <2>5. t.call = "registerInstance" => Mandated(t.wish, n - 1)'
    <3>1. n - 1 \in 0..Len(sent) /\ n - 1 \in Nat
      BY <1>2
    <3>. QED
      BY <1>3, <1>9, <3>1, MandatedStands DEF SentOK
  <2>6. u.outcome \in {"pending", "landed", "reverted"}
    BY <1>5
  <2>7. u = [call |-> u.call, for |-> u.for, from |-> u.from, wish |-> u.wish, choice |-> u.choice,
             amount |-> u.amount, shown |-> u.shown, epoch |-> u.epoch, account |-> u.account,
             outcome |-> u.outcome, under |-> u.under, told |-> u.told]
    BY <1>5
  <2>. QED
    BY <1>6, <1>7, <2>1, <2>2, <2>4, <2>5, <2>6, <2>7 DEF SentOK
<1>12. TransactionsOK'
  <2>1. ASSUME NEW m \in 1..k
        PROVE  SentOK(m)'
    <3>1. CASE m = n
      BY <1>11, <3>1
    <3>2. CASE m # n
      BY <1>2, <1>6, <1>9, <2>1, <3>2, SentStands DEF WishesOK, TransactionsOK
    <3>. QED
      BY <3>1, <3>2
  <2>. QED
    BY <1>2, <1>6, <1>10, <2>1 DEF TransactionsOK
<1>13. SubmissionsOK'
  <2>1. ASSUME NEW s \in submissions
        PROVE  SubmissionOK(s)' /\ OnPage(s)'
    <3>1. SubmissionOK(s) /\ OnPage(s)
      BY SubmissionIs
    <3>2. Takes(s.wish)' \subseteq {s.hash}
      BY <1>10, <3>1 DEF SubmissionOK
    <3>. QED
      BY <1>1, <1>9, <3>1, <3>2, SubmissionStands DEF OnPage
  <2>. QED
    BY <1>1, <2>1 DEF WishesOK, SubmissionsOK
<1>14. RetryOK'
  BY <1>1, <1>10 DEF WishesOK, RetryOK
<1>. QED
  BY <1>1, <1>9, <1>12, <1>13, <1>14 DEF WishesOK

\* A policy is put behind the others.
LEMMA PolicyIsLater ==
  ASSUME WishesOK, PageOK, NEW share, ChangePolicy(share)
  PROVE  Later /\ policies' = [e \in 1..Len(policies') |-> policies'[e]]
         /\ Len(policies') \in Nat \ {0}
<1>1. PICK k \in Nat : k = Len(policies) /\ policies = [e \in 1..k |-> policies[e]]
                       /\ policies' = Append(policies, share)
  BY DEF ChangePolicy, PageOK
<1>2. /\ Len(policies') = k + 1 /\ policies' = [e \in 1..(k + 1) |-> policies'[e]]
      /\ \A e \in 1..k : policies'[e] = policies[e]
  BY <1>1, Appended
<1>3. UNCHANGED <<wishes, sent>>
  BY DEF ChangePolicy
<1>. QED
  BY <1>1, <1>2, <1>3 DEF Later, WishesOK, TransactionsOK

-----------------------------------------------------------------------------
(* The page. *)

\* A page on which nothing is read or submitted anew.
LEMMA PageStands ==
  ASSUME PageOK, Later, UNCHANGED <<menu, session, refreshes>>, selected' \in Wallets,
         Len(policies') \in Nat \ {0}, policies' = [e \in 1..Len(policies') |-> policies'[e]],
         form' = [kind |-> form'.kind, account |-> form'.account, quote |-> form'.quote,
                  stage |-> form'.stage, wish |-> form'.wish],
         form'.kind = form.kind, form'.account = form.account, form'.quote = form.quote,
         form'.wish = form.wish,
         \A s \in submissions' : s.seen => \E q \in submissions : q.seen /\ q.from = s.from
  PROVE  PageOK'
<1>1. ASSUME NEW a, PageOf(a)
      PROVE  PageOf(a)'
  <2>1. ASSUME NEW r \in refreshes
        PROVE  ReadOf(r, a)'
    <3>1. ReadOf(r, a)
      BY <1>1, <2>1 DEF PageOf
    <3>2. \A e \in 1..Len(policies) : e \in 1..Len(policies')
      BY DEF Later
    <3>3. form'.kind = form.kind
      OBVIOUS
    <3>. QED
      BY ONLY <3>1, <3>2, <3>3 DEF ReadOf
  <2>2. ASSUME NEW s \in submissions', s.seen
        PROVE  s.from = a
    BY <1>1, <2>2 DEF PageOf
  <2>3. session' \in {a, Nobody} /\ form'.account \in {a, Nobody}
    BY <1>1 DEF PageOf
  <2>4. form'.quote = NoQuote \/ form'.quote.account = a
    BY <1>1 DEF PageOf
  <2>. QED
    BY <2>1, <2>2, <2>3, <2>4 DEF PageOf
<1>2. form'.kind = "arm" =>
        refreshes' = {} \/ /\ form'.quote = NoQuote /\ \E r : refreshes' = {r}
                           /\ \A s \in submissions' : ~s.seen
  BY DEF PageOK
<1>3. PICK q : q = form.quote
  OBVIOUS
<1>4. form'.kind # "onboarding" => \E a \in Wallets : PageOf(a)'
  BY <1>1 DEF PageOK
<1>5. /\ form'.kind \in FormKinds \cup {"none", "onboarding"}
      /\ menu' \subseteq FormKinds /\ session' \in Wallets \cup {Nobody}
      /\ form'.kind \in {"none", "onboarding"} =>
           form'.wish = 0 /\ form'.quote = NoQuote /\ refreshes' = {}
      /\ form'.kind = "onboarding" => form'.account \in Wallets
      /\ form'.kind = "none" => form'.account = Nobody
  BY DEF PageOK
<1>6. form'.kind = "borrow" /\ q # NoQuote => OfPolicy(q.share, q.epoch)'
  BY <1>3, FiguresStand DEF PageOK
<1>7. form'.quote = q /\ NoQuote' = NoQuote
  BY <1>3 DEF NoQuote
<1>8. form'.kind = "borrow" /\ form'.quote # NoQuote =>
        /\ form'.quote.epoch \in 1..Len(policies')
        /\ form'.quote.share = policies'[form'.quote.epoch]
  BY <1>6, <1>7 DEF OfPolicy
<1>. QED
  BY <1>2, <1>4, <1>5, <1>8 DEF PageOK, OfPolicy

\* Policies stay where none is put.
LEMMA PoliciesStay ==
  ASSUME PageOK, UNCHANGED policies
  PROVE  Len(policies') \in Nat \ {0} /\ policies' = [e \in 1..Len(policies') |-> policies'[e]]
BY DEF PageOK

\* A page that was just opened.
LEMMA MountedIs ==
  ASSUME PageOK, UNCHANGED policies, menu' = menu, selected' \in Wallets,
         session' \in Wallets \cup {Nobody}, NEW k \in FormKinds \cup {"none"}, form' = Mounted(k),
         refreshes' = IF k = "none" THEN {} ELSE {Started'},
         \A s \in submissions' : ~s.seen
  PROVE  PageOK'
<1>1. form' = [kind |-> k, account |-> Nobody, quote |-> NoQuote, stage |-> "IDLE", wish |-> 0]
  BY DEF Mounted
<1>2. /\ form'.kind = k /\ form'.account = Nobody /\ form'.quote = NoQuote /\ form'.wish = 0
      /\ form' = [kind |-> form'.kind, account |-> form'.account, quote |-> form'.quote,
                  stage |-> form'.stage, wish |-> form'.wish]
  BY <1>1
<1>3. PICK a \in Wallets : session' \in {a, Nobody}
  BY FormConstants
<1>4. \A r \in refreshes' : ReadOf(r, a)'
  <2>1. ReadOf(Started, a)'
    <3>1. PICK r : r = Started'
      OBVIOUS
    <3>2. r.at = "asking wallet" /\ r.stored = session'
      BY <3>1 DEF Started
    <3>3. ReadOf(r, a)'
      BY <1>3, <3>2 DEF ReadOf
    <3>. QED
      BY <3>1, <3>3
  <2>. QED
    BY <2>1
<1>5. PageOf(a)'
  BY <1>2, <1>3, <1>4 DEF PageOf
<1>6. k # "none" => \E r : refreshes' = {r}
  OBVIOUS
<1>7. k # "onboarding"
  BY DEF FormKinds
<1>. QED
  BY <1>2, <1>3, <1>5, <1>6, <1>7, PoliciesStay DEF PageOK

\* Leaving a form leaves none of its submissions on the page.
LEMMA LeftUnseen ==
  ASSUME WishesOK, submissions' = Leave
  PROVE  \A s \in submissions' : ~s.seen
<1> SUFFICES ASSUME NEW s \in submissions'
             PROVE  ~s.seen
  OBVIOUS
<1>1. PICK q \in submissions : s = [q EXCEPT !.seen = FALSE]
  BY DEF Leave
<1>2. q = [wish |-> q.wish, kind |-> q.kind, from |-> q.from, quote |-> q.quote,
           amount |-> q.amount, choice |-> q.choice, steps |-> q.steps, hash |-> q.hash,
           seen |-> q.seen]
  BY SubmissionIs DEF SubmissionOK
<1>. QED
  BY <1>1, <1>2

\* A form is opened.
LEMMA OpenFormKeeps ==
  ASSUME FormsOK, NEW k \in menu, OpenForm(k)
  PROVE  FormsOK'
<1>1. /\ WishesOK /\ PageOK /\ submissions' = Leave /\ form' = Mounted(k)
      /\ UNCHANGED <<menu, selected, session, wishes, sent, policies>>
      /\ refreshes' = {Started}
  BY DEF OpenForm, chainOfForms, FormsOK
<1>2. k \in FormKinds /\ k # "none" /\ selected \in Wallets /\ session \in Wallets \cup {Nobody}
  BY <1>1 DEF PageOK, FormKinds
<1>3. Later
  BY <1>1, LaterIs DEF WishesOK
<1>4. form'.wish = 0
  BY <1>1 DEF Mounted
<1>5. WishesOK'
  BY <1>1, <1>3, <1>4, LeavingKeeps
<1>6. Started' = Started
  BY <1>1 DEF Started
<1>7. PageOK'
  BY <1>1, <1>2, <1>6, LeftUnseen, MountedIs
<1>. QED
  BY <1>5, <1>7 DEF FormsOK

\* The wallet is asked for an address.
LEMMA ConnectKeeps ==
  ASSUME FormsOK, Connect
  PROVE  FormsOK'
<1>1. /\ WishesOK /\ PageOK /\ submissions' = Leave
      /\ form' = [kind |-> "onboarding", account |-> selected, quote |-> NoQuote, stage |-> "IDLE",
                  wish |-> 0]
      /\ UNCHANGED <<menu, selected, session, wishes, sent, policies>> /\ refreshes' = {}
  BY DEF Connect, chainOfForms, pageVars, Mounted, FormsOK
<1>2. Later
  BY <1>1, LaterIs DEF WishesOK
<1>3. WishesOK'
  BY <1>1, <1>2, LeavingKeeps
<1>4. /\ form'.kind = "onboarding" /\ form'.account = selected /\ form'.quote = NoQuote
      /\ form'.wish = 0
      /\ form' = [kind |-> form'.kind, account |-> form'.account, quote |-> form'.quote,
                  stage |-> form'.stage, wish |-> form'.wish]
  BY <1>1
<1>5. /\ menu' \subseteq FormKinds /\ selected' \in Wallets /\ selected \in Wallets
      /\ session' \in Wallets \cup {Nobody}
  BY <1>1 DEF PageOK
<1>6. PageOK'
  BY <1>1, <1>4, <1>5, PoliciesStay DEF PageOK
<1>. QED
  BY <1>3, <1>6 DEF FormsOK

\* The wallet signs for the address it gave.
LEMMA SignInKeeps ==
  ASSUME FormsOK, SignIn
  PROVE  FormsOK'
<1>1. /\ WishesOK /\ PageOK /\ form.kind = "onboarding" /\ session' = form.account
      /\ form' = Mounted("none")
      /\ UNCHANGED <<menu, selected, refreshes, submissions, wishes, sent, policies>>
  BY DEF SignIn, chainOfForms, NoForm, FormsOK
<1>2. form.wish = 0 /\ refreshes = {} /\ form.account \in Wallets /\ selected \in Wallets
  BY <1>1 DEF PageOK
<1>3. Later
  BY <1>1, LaterIs DEF WishesOK
<1>4. form'.wish = 0
  BY <1>1 DEF Mounted
<1>5. WishesOK'
  BY <1>1, <1>2, <1>3, <1>4, PageRests
<1>6. \A s \in submissions' : ~s.seen
  BY <1>1, <1>2, SubmissionIs DEF OnPage
<1>7. PageOK'
  BY <1>1, <1>2, <1>6, MountedIs
<1>. QED
  BY <1>5, <1>7 DEF FormsOK

\* The wallet shows another address.
LEMMA SwitchAccountKeeps ==
  ASSUME FormsOK, NEW a \in Wallets, SwitchAccount(a)
  PROVE  FormsOK'
<1>1. WishesOK /\ PageOK /\ selected' = a /\ UNCHANGED <<menu, wishes, sent, policies>>
  BY DEF SwitchAccount, chainOfForms, FormsOK
<1>2. Later
  BY <1>1, LaterIs DEF WishesOK
<1>3. CASE session' = Nobody /\ form' = NoForm /\ refreshes' = {} /\ submissions' = Leave
  <2>1. form'.wish = 0 /\ form' = Mounted("none")
    BY <1>3 DEF NoForm, Mounted
  <2>2. WishesOK'
    BY <1>1, <1>2, <1>3, <2>1, LeavingKeeps
  <2>3. PageOK'
    BY <1>1, <1>3, <2>1, LeftUnseen, MountedIs
  <2>. QED
    BY <2>2, <2>3 DEF FormsOK
<1>4. CASE UNCHANGED <<session, form, refreshes, submissions>>
  <2>1. WishesOK'
    BY <1>1, <1>2, <1>4, PageRests
  <2>2. form' = [kind |-> form'.kind, account |-> form'.account, quote |-> form'.quote,
                 stage |-> form'.stage, wish |-> form'.wish]
    BY <1>1, <1>4 DEF PageOK
  <2>3. PageOK'
    BY <1>1, <1>2, <1>4, <2>2, PoliciesStay, PageStands
  <2>. QED
    BY <2>1, <2>3 DEF FormsOK
<1>. QED
  BY <1>3, <1>4 DEF SwitchAccount

-----------------------------------------------------------------------------
(* Reading a quote. *)

\* A read is under way on a form that reads, and for one address.
LEMMA ReadingIs ==
  ASSUME PageOK, NEW r \in refreshes
  PROVE  /\ form.kind \in FormKinds /\ form.kind \notin {"none", "onboarding"}
         /\ \E a \in Wallets : PageOf(a) /\ ReadOf(r, a)
         /\ form.kind = "arm" => refreshes = {r} /\ \A s \in submissions : ~s.seen
<1>1. form.kind \notin {"none", "onboarding"}
  BY DEF PageOK
<1>2. PICK a \in Wallets : PageOf(a)
  BY <1>1 DEF PageOK
<1>3. ReadOf(r, a)
  BY <1>2 DEF PageOf
<1>4. form.kind = "arm" => refreshes = {r} /\ \A s \in submissions : ~s.seen
  BY DEF PageOK
<1>. QED
  BY <1>1, <1>2, <1>3, <1>4 DEF PageOK

\* A step of a read: what it leaves on the page is of the same address.
LEMMA ReadKeeps ==
  ASSUME FormsOK, UNCHANGED <<menu, selected, submissions, wishes, policies, sent>>,
         NEW r \in refreshes, NEW a \in Wallets, PageOf(a),
         NEW more, refreshes' = (refreshes \ {r}) \cup more, \A q \in more : ReadOf(q, a)',
         form.kind = "arm" => more = {},
         NEW acct \in {a, Nobody}, NEW quote, quote = NoQuote \/ quote.account = a,
         form' = [form EXCEPT !.account = acct, !.quote = quote],
         session' \in {a, Nobody},
         form.kind = "borrow" /\ quote # NoQuote => OfPolicy(quote.share, quote.epoch)
  PROVE  FormsOK'
<1>1. WishesOK /\ PageOK
  BY DEF FormsOK
<1>2. Later
  BY <1>1, LaterIs DEF WishesOK
<1>3. form' = [kind |-> form.kind, account |-> acct, quote |-> quote, stage |-> form.stage,
               wish |-> form.wish]
  BY <1>1 DEF PageOK
<1>4. /\ form'.kind = form.kind /\ form'.account = acct /\ form'.quote = quote
      /\ form'.stage = form.stage /\ form'.wish = form.wish
      /\ form' = [kind |-> form'.kind, account |-> form'.account, quote |-> form'.quote,
                  stage |-> form'.stage, wish |-> form'.wish]
  BY <1>3
<1>5. WishesOK'
  BY <1>1, <1>2, <1>4, PageRests
<1>6. form.kind \in FormKinds /\ form.kind \notin {"none", "onboarding"}
      /\ (form.kind = "arm" => refreshes = {r})
  BY <1>1, ReadingIs
<1>7. PageOf(a)'
  <2>1. ASSUME NEW q \in refreshes
        PROVE  ReadOf(q, a)'
    <3>1. ReadOf(q, a)
      BY <2>1 DEF PageOf
    <3>2. form'.kind = form.kind /\ policies' = policies
      BY <1>4
    <3>. QED
      BY ONLY <3>1, <3>2 DEF ReadOf
  <2>2. \A q \in refreshes' : ReadOf(q, a)'
    BY <2>1
  <2>3. \A s \in submissions' : s.seen => s.from = a
    BY DEF PageOf
  <2>. QED
    BY <1>4, <2>2, <2>3 DEF PageOf
<1>8. form'.kind = "borrow" /\ form'.quote # NoQuote =>
        /\ form'.quote.epoch \in 1..Len(policies')
        /\ form'.quote.share = policies'[form'.quote.epoch]
  BY <1>4 DEF OfPolicy
<1>9. form'.kind = "arm" => refreshes' = {}
  BY <1>4, <1>6
<1>10. /\ menu' \subseteq FormKinds /\ selected' \in Wallets /\ session' \in Wallets \cup {Nobody}
  BY <1>1 DEF PageOK
<1>11. PageOK'
  BY <1>1, <1>4, <1>6, <1>7, <1>8, <1>9, <1>10, PoliciesStay DEF PageOK, OfPolicy
<1>. QED
  BY <1>5, <1>11 DEF FormsOK

\* The session is asked for: it is that of the address, or none.
LEMMA AskSessionKeeps ==
  ASSUME FormsOK, NEW r \in refreshes, AskSession(r)
  PROVE  FormsOK'
<1>1. PageOK /\ UNCHANGED <<menu, selected, submissions, wishes, policies, sent>>
  BY DEF FormsOK, AskSession, chainOfForms
<1>2. PICK a \in Wallets : PageOf(a) /\ ReadOf(r, a)
  BY <1>1, ReadingIs
<1>3. r.at = "asking wallet" /\ r.stored \in {a, Nobody}
  BY <1>2 DEF ReadOf, AskSession
<1>4. PICK acct : acct = readSession(r.stored)
  OBVIOUS
<1>5. acct \in {a, Nobody}
  BY <1>3, <1>4 DEF readSession
<1>6. PICK quote : quote = IF form.kind = "arm" THEN [account |-> acct] ELSE form.quote
  OBVIOUS
<1>7. PICK more : more = IF acct = Nobody THEN {} ELSE Afterwards(form.kind, acct)
  OBVIOUS
<1>8. /\ form' = [form EXCEPT !.account = acct, !.quote = quote]
      /\ session' = (IF acct = Nobody THEN Nobody ELSE session)
      /\ refreshes' = (refreshes \ {r}) \cup more
  <2>1. /\ form' = [form EXCEPT !.account = acct,
                                !.quote = IF form.kind = "arm" THEN [account |-> acct] ELSE form.quote]
        /\ session' = IF acct = Nobody THEN Nobody ELSE session
        /\ refreshes' = (refreshes \ {r}) \cup
             (IF acct = Nobody THEN {} ELSE Afterwards(form.kind, acct))
    BY <1>4 DEF AskSession
  <2>. QED
    BY <1>6, <1>7, <2>1
<1>9. quote = NoQuote \/ quote.account = a
  <2>1. CASE form.kind = "arm"
    BY <1>5, <1>6, <2>1 DEF NoQuote
  <2>2. CASE form.kind # "arm"
    BY <1>2, <1>6, <2>2 DEF PageOf
  <2>. QED
    BY <2>1, <2>2
<1>10. form.kind = "borrow" /\ quote # NoQuote => OfPolicy(quote.share, quote.epoch)
  BY <1>1, <1>6 DEF PageOK
<1>11. form'.kind = form.kind
  BY <1>1, <1>8 DEF PageOK
<1>12. \A q \in more : ReadOf(q, a)'
  <2>1. SUFFICES ASSUME NEW q \in more
                 PROVE  ReadOf(q, a)'
    OBVIOUS
  <2>2. acct = a /\ q \in Afterwards(form.kind, a)
    BY <1>5, <1>7, <2>1
  <2>3. /\ q.account = a /\ form.kind # "arm"
        /\ q.at = "pinning" \/ (q.at = "reading" /\ form.kind # "borrow")
    BY <2>2 DEF Afterwards
  <2>. QED
    BY <1>11, <2>3 DEF ReadOf
<1>13. form.kind = "arm" => more = {}
  BY <1>7 DEF Afterwards
<1>14. session' \in {a, Nobody}
  BY <1>2, <1>8 DEF PageOf
<1>. QED
  BY <1>1, <1>2, <1>5, <1>8, <1>9, <1>10, <1>12, <1>13, <1>14, ReadKeeps

\* A read that leaves the session and the form's address alone.
LEMMA ReadGoesOnKeeps ==
  ASSUME FormsOK, UNCHANGED <<menu, selected, session, submissions, wishes, policies, sent>>,
         NEW r \in refreshes, NEW a \in Wallets, PageOf(a), form.kind # "arm",
         NEW more, refreshes' = (refreshes \ {r}) \cup more, \A q \in more : ReadOf(q, a)',
         NEW quote, quote = NoQuote \/ quote.account = a, form' = [form EXCEPT !.quote = quote],
         form.kind = "borrow" /\ quote # NoQuote => OfPolicy(quote.share, quote.epoch)
  PROVE  FormsOK'
<1>1. form' = [form EXCEPT !.account = form.account, !.quote = quote]
  <2>1. form = [kind |-> form.kind, account |-> form.account, quote |-> form.quote,
                stage |-> form.stage, wish |-> form.wish]
    BY DEF FormsOK, PageOK
  <2>. QED
    BY <2>1
<1>2. form.account \in {a, Nobody} /\ session' \in {a, Nobody}
  BY DEF PageOf
<1>3. PICK acct : acct = form.account
  OBVIOUS
<1>4. acct \in {a, Nobody} /\ form' = [form EXCEPT !.account = acct, !.quote = quote]
  BY <1>1, <1>2, <1>3
<1>5. UNCHANGED <<menu, selected, submissions, wishes, policies, sent>>
  OBVIOUS
<1>. QED
  BY <1>2, <1>4, <1>5, ReadKeeps

\* A block is pinned, and its epoch is one there is.
LEMMA PinBlockKeeps ==
  ASSUME FormsOK, NEW r \in refreshes, PinBlock(r)
  PROVE  FormsOK'
<1>1. PageOK /\ UNCHANGED <<menu, selected, session, submissions, wishes, policies, sent, form>>
  BY DEF FormsOK, PinBlock, chainOfForms, pageVars
<1>2. PICK a \in Wallets : PageOf(a) /\ ReadOf(r, a)
  BY <1>1, ReadingIs
<1>3. r.account = a /\ form.kind # "arm"
  BY <1>2 DEF ReadOf, PinBlock
<1>4. PICK q : q = [at |-> "reading", account |-> r.account, epoch |-> riskEpoch,
                    position |-> ledger[r.account]]
  OBVIOUS
<1>5. refreshes' = (refreshes \ {r}) \cup {q}
  BY <1>4 DEF PinBlock
<1>6. q.at = "reading" /\ q.account = a /\ q.epoch \in 1..Len(policies')
  BY <1>1, <1>3, <1>4 DEF PageOK, riskEpoch
<1>7. ReadOf(q, a)'
  BY <1>1, <1>3, <1>6 DEF ReadOf
<1>8. form' = [form EXCEPT !.quote = form.quote]
  <2>1. form = [kind |-> form.kind, account |-> form.account, quote |-> form.quote,
                stage |-> form.stage, wish |-> form.wish]
    BY <1>1 DEF PageOK
  <2>. QED
    BY <1>1, <2>1
<1>9. PICK quote : quote = form.quote
  OBVIOUS
<1>10. /\ form' = [form EXCEPT !.quote = quote] /\ (quote = NoQuote \/ quote.account = a)
       /\ form.kind = "borrow" /\ quote # NoQuote => OfPolicy(quote.share, quote.epoch)
  BY <1>1, <1>2, <1>8, <1>9 DEF PageOf, PageOK
<1>11. PICK more : more = {q}
  OBVIOUS
<1>12. refreshes' = (refreshes \ {r}) \cup more /\ \A m \in more : ReadOf(m, a)'
  BY <1>5, <1>7, <1>11
<1>13. UNCHANGED <<menu, selected, session, submissions, wishes, policies, sent>>
  BY <1>1
<1>. QED
  BY <1>2, <1>3, <1>10, <1>12, <1>13, ReadGoesOnKeeps

\* A quote is of the address that was read, a loan's of the epoch that was read.
LEMMA QuotedIs ==
  ASSUME NEW k \in FormKinds, k # "arm", NEW r
  PROVE  /\ Quoted(k, r).account = r.account
         /\ k = "borrow" => /\ Quoted(k, r).epoch = r.epoch
                            /\ Quoted(k, r).share = policies[r.epoch]
<1>1. CASE k = "borrow"
  <2>1. PICK view : view = loadAccount(r)
    OBVIOUS
  <2>2. view.share = policies[r.epoch] /\ view.epoch = r.epoch
    BY <2>1 DEF loadAccount
  <2>3. PICK q : q = borrowQuote(r.account, view)
    OBVIOUS
  <2>4. q.account = r.account /\ q.share = view.share /\ q.epoch = view.epoch
    BY <2>3 DEF borrowQuote
  <2>5. Quoted(k, r) = q
    BY <1>1, <2>1, <2>3 DEF Quoted
  <2>. QED
    BY <2>2, <2>4, <2>5
<1>2. CASE k = "addCollateral"
  <2>1. addCollateralQuote(r.account).account = r.account
    BY DEF addCollateralQuote
  <2>. QED
    BY <1>2, <2>1 DEF Quoted
<1>3. CASE k = "repay"
  <2>1. repayQuote(r.account, loadAccount(r)).account = r.account
    BY DEF repayQuote
  <2>. QED
    BY <1>3, <2>1 DEF Quoted
<1>4. CASE k = "withdrawCollateral"
  <2>1. withdrawQuote(r.account, loadAccount(r)).account = r.account
    BY DEF withdrawQuote
  <2>. QED
    BY <1>4, <2>1 DEF Quoted
<1>5. CASE k = "supply"
  <2>1. depositQuote(r.account).account = r.account
    BY DEF depositQuote
  <2>. QED
    BY <1>5, <2>1 DEF Quoted
<1>6. CASE k = "exit"
  <2>1. withdrawPreview(r.account).account = r.account
    BY DEF withdrawPreview
  <2>. QED
    BY <1>6, <2>1 DEF Quoted
<1>7. CASE k \in {"mandate", "instance"}
  <2>1. Quoted(k, r) = [account |-> r.account, agency |-> ledger[r.account].agency]
    BY <1>7 DEF Quoted
  <2>. QED
    BY <1>7, <2>1
<1>. QED
  BY <1>1, <1>2, <1>3, <1>4, <1>5, <1>6, <1>7 DEF FormKinds

\* An answer fills the form.
LEMMA ReadQuoteKeeps ==
  ASSUME FormsOK, NEW r \in refreshes, ReadQuote(r)
  PROVE  FormsOK'
<1>1. PageOK /\ UNCHANGED <<menu, selected, session, submissions, wishes, policies, sent>>
  BY DEF FormsOK, ReadQuote, chainOfForms, pageVars
<1>2. PICK a \in Wallets : PageOf(a) /\ ReadOf(r, a)
  BY <1>1, ReadingIs
<1>3. /\ r.account = a /\ form.kind # "arm" /\ form.kind \in FormKinds
      /\ form.kind = "borrow" => r.epoch \in 1..Len(policies)
  BY <1>1, <1>2, ReadingIs DEF ReadOf, ReadQuote
<1>4. PICK quote \in {Quoted(form.kind, r), NoQuote, form.quote} : form' = [form EXCEPT !.quote = quote]
  BY DEF ReadQuote
<1>5. quote = NoQuote \/ quote.account = a
  <2>1. CASE quote = Quoted(form.kind, r)
    BY <1>3, <2>1, QuotedIs
  <2>2. CASE quote \in {NoQuote, form.quote}
    BY <1>2, <2>2 DEF PageOf
  <2>. QED
    BY <1>4, <2>1, <2>2
<1>6. form.kind = "borrow" /\ quote # NoQuote => OfPolicy(quote.share, quote.epoch)
  <2>1. CASE quote = Quoted(form.kind, r)
    BY <1>3, <2>1, QuotedIs DEF OfPolicy
  <2>2. CASE quote \in {NoQuote, form.quote}
    BY <1>1, <2>2 DEF PageOK
  <2>. QED
    BY <1>4, <2>1, <2>2
<1>7. PICK more : more = {}
  OBVIOUS
<1>8. refreshes' = (refreshes \ {r}) \cup more
  BY <1>7 DEF ReadQuote
<1>9. \A q \in more : ReadOf(q, a)'
  BY <1>7
<1>. QED
  BY <1>1, <1>2, <1>3, <1>4, <1>5, <1>6, <1>8, <1>9, ReadGoesOnKeeps

-----------------------------------------------------------------------------
(* The page of a submission. *)

\* A submission is of the address on the page.
LEMMA SubmitPageKeeps ==
  ASSUME FormsOK, NEW w \in 1..MaxWishes, NEW amount, NEW choice \in Choosable(form.kind),
         submit(w, amount, choice)
  PROVE  FormsOK'
<1>1. /\ WishesOK /\ PageOK /\ form.account # Nobody /\ form.quote # NoQuote
      /\ UNCHANGED <<menu, selected, session, refreshes, policies>>
  BY DEF FormsOK, submit, chainOfForms, pageVars
<1>2. WishesOK'
  BY <1>1, SubmitKeeps
<1>3. PICK r : /\ submissions' = submissions \cup {r} /\ r.from = form.account
               /\ form.kind \in FormKinds
               /\ form' = [kind |-> form.kind, account |-> form.account, quote |-> form.quote,
                           stage |-> form'.stage, wish |-> w]
  <2>1. PICK r : /\ submissions' = submissions \cup {r}
                 /\ r = [wish |-> w, kind |-> form.kind, from |-> form.account,
                         quote |-> form.quote, amount |-> amount, choice |-> choice,
                         steps |-> r.steps, hash |-> 0, seen |-> TRUE]
                 /\ form.kind \in FormKinds
                 /\ form' = [kind |-> form.kind, account |-> form.account, quote |-> form.quote,
                             stage |-> form'.stage, wish |-> w]
    BY <1>1, SubmittedIs
  <2>2. r.from = form.account
    BY <2>1
  <2>. QED
    BY <2>1, <2>2
<1>4. /\ form'.kind = form.kind /\ form'.account = form.account /\ form'.quote = form.quote
      /\ form' = [kind |-> form'.kind, account |-> form'.account, quote |-> form'.quote,
                  stage |-> form'.stage, wish |-> form'.wish]
  BY <1>3
<1>5. form.kind \notin {"none", "onboarding"}
  BY <1>3 DEF FormKinds
<1>6. PICK a \in Wallets : PageOf(a)
  BY <1>1, <1>5 DEF PageOK
<1>7. form.account = a
  BY <1>1, <1>6 DEF PageOf
<1>8. PageOf(a)'
  <2>1. ASSUME NEW q \in refreshes
        PROVE  ReadOf(q, a)'
    <3>1. ReadOf(q, a)
      BY <1>6, <2>1 DEF PageOf
    <3>2. form'.kind = form.kind /\ policies' = policies
      BY <1>1, <1>4
    <3>. QED
      BY ONLY <3>1, <3>2 DEF ReadOf
  <2>2. \A s \in submissions' : s.seen => s.from = a
    BY <1>3, <1>6, <1>7 DEF PageOf
  <2>3. session' \in {a, Nobody} /\ form'.account \in {a, Nobody}
    BY <1>1, <1>4, <1>6 DEF PageOf
  <2>4. form'.quote = NoQuote \/ form'.quote.account = a
    BY <1>4, <1>6 DEF PageOf
  <2>. QED
    BY <1>1, <2>1, <2>2, <2>3, <2>4 DEF PageOf
<1>9. form'.kind = "arm" => refreshes' = {}
  BY <1>1, <1>4 DEF PageOK
<1>10. form'.kind = "borrow" /\ form'.quote # NoQuote =>
         /\ form'.quote.epoch \in 1..Len(policies')
         /\ form'.quote.share = policies'[form'.quote.epoch]
  BY <1>1, <1>4 DEF PageOK, OfPolicy
<1>11. menu' \subseteq FormKinds /\ selected' \in Wallets /\ session' \in Wallets \cup {Nobody}
  BY <1>1 DEF PageOK
<1>12. PageOK'
  BY <1>1, <1>3, <1>4, <1>5, <1>8, <1>9, <1>10, <1>11, PoliciesStay DEF PageOK, OfPolicy
<1>. QED
  BY <1>2, <1>12 DEF FormsOK

\* A submission's step leaves the page as it was, but for the stage it shows.
LEMMA ShownPageKeeps ==
  ASSUME FormsOK, Later, UNCHANGED <<menu, selected, session, refreshes, policies>>,
         NEW s \in submissions, NEW stage, form' = Shows(s, stage),
         \/ submissions' = submissions \ {s}
         \/ \E next : /\ submissions' = (submissions \ {s}) \cup {next}
                      /\ next.seen = s.seen /\ next.from = s.from
  PROVE  PageOK'
<1>1. PageOK
  BY DEF FormsOK
<1>2. /\ form'.wish = form.wish /\ form'.kind = form.kind /\ form'.account = form.account
      /\ form'.quote = form.quote
      /\ form' = [kind |-> form'.kind, account |-> form'.account, quote |-> form'.quote,
                  stage |-> form'.stage, wish |-> form'.wish]
  BY <1>1, ShowsIs
<1>3. \A r \in submissions' : r.seen => \E q \in submissions : q.seen /\ q.from = r.from
  OBVIOUS
<1>4. selected' \in Wallets
  BY <1>1 DEF PageOK
<1>5. UNCHANGED <<menu, session, refreshes>>
  OBVIOUS
<1>. QED
  BY <1>1, <1>2, <1>3, <1>4, <1>5, PoliciesStay, PageStands

\* What a course's next state keeps of it.
LEMMA SameSubmission ==
  ASSUME NEW s, SubmissionOK(s), NEW next, NEW steps, NEW hash,
         next = [s EXCEPT !.steps = steps, !.hash = hash]
  PROVE  next.seen = s.seen /\ next.from = s.from
<1>1. next = [wish |-> s.wish, kind |-> s.kind, from |-> s.from, quote |-> s.quote,
              amount |-> s.amount, choice |-> s.choice, steps |-> steps, hash |-> hash,
              seen |-> s.seen]
  BY DEF SubmissionOK
<1>. QED
  BY <1>1

\* The steps of a submission.
LEMMA SubmissionStepKeeps ==
  ASSUME FormsOK, NEW s \in submissions,
         SignMandate(s) \/ WalletSends(s) \/ WalletRefuses(s) \/ WalletErrs(s) \/ ReceiptIsLost(s)
  PROVE  FormsOK'
<1>1. /\ WishesOK /\ PageOK
      /\ UNCHANGED <<menu, selected, session, refreshes, policies, wishes>>
  BY DEF FormsOK, SignMandate, WalletSends, WalletRefuses, WalletErrs, ReceiptIsLost, chainOfForms,
         pageVars
<1>2. WishesOK'
  BY <1>1, SignMandateKeeps, WalletSendsKeeps, WalletRefusesKeeps, WalletErrsKeeps, ReceiptIsLostKeeps
<1>3. SubmissionOK(s)
  BY <1>1, SubmissionIs
<1>4. Later
  <2>1. CASE sent' = sent
    BY <1>1, <2>1, LaterIs DEF WishesOK
  <2>2. CASE sent' # sent
    <3>1. WalletSends(s) \/ WalletErrs(s)
      BY <2>2 DEF SignMandate, WalletRefuses, ReceiptIsLost, chainOfForms
    <3>. QED
      BY <1>1, <3>1, WalletSendsKeeps, WalletErrsKeeps
  <2>. QED
    BY <2>1, <2>2
<1>5. \E stage : form' = Shows(s, stage)
  BY DEF SignMandate, WalletSends, WalletRefuses, WalletErrs, ReceiptIsLost, Ends
<1>6. \/ submissions' = submissions \ {s}
      \/ \E next : /\ submissions' = (submissions \ {s}) \cup {next}
                   /\ next.seen = s.seen /\ next.from = s.from
  <2>1. CASE submissions' = submissions \ {s}
    BY <2>1
  <2>2. CASE GoesOn(s, [s EXCEPT !.steps = Tail(s.steps)])
    <3>1. PICK next : next = [s EXCEPT !.steps = Tail(s.steps)]
      OBVIOUS
    <3>2. next = [s EXCEPT !.steps = Tail(s.steps), !.hash = s.hash]
      BY <1>3, <3>1 DEF SubmissionOK
    <3>3. next.seen = s.seen /\ next.from = s.from
      BY <1>3, <3>2, SameSubmission
    <3>4. submissions' = (submissions \ {s}) \cup {next}
      BY <2>2, <3>1 DEF GoesOn
    <3>. QED
      BY <3>3, <3>4
  <2>3. CASE GoesOn(s, [s EXCEPT !.hash = Len(sent) + 1])
    <3>1. PICK next : next = [s EXCEPT !.hash = Len(sent) + 1]
      OBVIOUS
    <3>2. next = [s EXCEPT !.steps = s.steps, !.hash = Len(sent) + 1]
      BY <1>3, <3>1 DEF SubmissionOK
    <3>3. next.seen = s.seen /\ next.from = s.from
      BY <1>3, <3>2, SameSubmission
    <3>4. submissions' = (submissions \ {s}) \cup {next}
      BY <2>3, <3>1 DEF GoesOn
    <3>. QED
      BY <3>3, <3>4
  <2>. QED
    BY <2>1, <2>2, <2>3 DEF SignMandate, WalletSends, WalletRefuses, WalletErrs, ReceiptIsLost, Ends
<1>7. PageOK'
  BY <1>1, <1>4, <1>5, <1>6, ShownPageKeeps
<1>. QED
  BY <1>2, <1>7 DEF FormsOK

\* What a form reads again is of its own address.
LEMMA RefreshedIs ==
  ASSUME NEW a, session' \in {a, Nobody}, NEW k \in FormKinds, form'.kind = k, session' = session
  PROVE  (\A q \in Refreshed(k, a) : ReadOf(q, a)') /\ (k = "arm" => Refreshed(k, a) = {})
<1>1. CASE k \in {"arm", "instance"}
  BY <1>1 DEF Refreshed
<1>2. CASE k = "mandate"
  <2>1. \A q \in Refreshed(k, a) : q.at = "reading" /\ q.account = a
    BY <1>2 DEF Refreshed
  <2>. QED
    BY <1>2, <2>1 DEF ReadOf
<1>3. CASE k \notin {"arm", "instance", "mandate"}
  <2>1. Refreshed(k, a) = {Started}
    BY <1>3 DEF Refreshed
  <2>2. \A q \in Refreshed(k, a) : q.at = "asking wallet" /\ q.stored = session
    <3>1. PICK st : st = Started
      OBVIOUS
    <3>2. st.at = "asking wallet" /\ st.stored = session
      BY <3>1 DEF Started
    <3>. QED
      BY <2>1, <3>1, <3>2
  <2>. QED
    BY <1>3, <2>2 DEF ReadOf
<1>. QED
  BY <1>1, <1>2, <1>3

\* A receipt: the form of a last call reads its quote again, and an armed one goes.
LEMMA ReceiptArrivesPageKeeps ==
  ASSUME FormsOK, NEW s \in submissions, ReceiptArrives(s)
  PROVE  FormsOK'
<1>1. WishesOK /\ PageOK /\ UNCHANGED <<menu, selected, session, policies, wishes, sent>>
  BY DEF FormsOK, ReceiptArrives, chainOfForms, pageVars
<1>2. WishesOK'
  BY <1>1, ReceiptArrivesKeeps
<1>3. SubmissionOK(s) /\ OnPage(s) /\ s.wish # 0
  BY <1>1, SubmissionIs
<1>4. Later
  BY <1>1, LaterIs DEF WishesOK
<1>5. CASE sent[s.hash].outcome = "reverted" \/ Len(s.steps) > 1
  <2>1. UNCHANGED refreshes
    BY <1>5 DEF ReceiptArrives
  <2>2. \E stage : form' = Shows(s, stage)
    BY <1>5 DEF ReceiptArrives, Ends
  <2>3. \/ submissions' = submissions \ {s}
        \/ \E next : /\ submissions' = (submissions \ {s}) \cup {next}
                     /\ next.seen = s.seen /\ next.from = s.from
    <3>1. CASE submissions' = submissions \ {s}
      BY <3>1
    <3>2. CASE GoesOn(s, [s EXCEPT !.steps = Tail(s.steps), !.hash = 0])
      <4>1. PICK next : next = [s EXCEPT !.steps = Tail(s.steps), !.hash = 0]
        OBVIOUS
      <4>2. next.seen = s.seen /\ next.from = s.from
        BY <1>3, <4>1, SameSubmission
      <4>3. submissions' = (submissions \ {s}) \cup {next}
        BY <3>2, <4>1 DEF GoesOn
      <4>. QED
        BY <4>2, <4>3
    <3>. QED
      BY <1>5, <3>1, <3>2 DEF ReceiptArrives, Ends
  <2>4. UNCHANGED <<menu, selected, session, refreshes, policies>>
    BY <1>1, <2>1
  <2>5. PageOK'
    BY <1>4, <2>2, <2>3, <2>4, ShownPageKeeps
  <2>. QED
    BY <1>2, <2>5 DEF FormsOK
<1>6. CASE sent[s.hash].outcome # "reverted" /\ ~(Len(s.steps) > 1)
  <2>1. /\ submissions' = submissions \ {s}
        /\ form' = IF s.seen /\ s.kind = "arm" THEN NoForm ELSE Shows(s, "COMPLETE")
        /\ refreshes' = IF s.seen THEN refreshes \cup Refreshed(s.kind, s.from) ELSE refreshes
    BY <1>6 DEF ReceiptArrives
  <2>2. CASE ~s.seen
    <3>1. form' = Shows(s, "COMPLETE") /\ UNCHANGED <<menu, selected, session, refreshes, policies>>
      BY <1>1, <2>1, <2>2
    <3>2. PageOK'
      BY <1>4, <2>1, <3>1, ShownPageKeeps
    <3>. QED
      BY <1>2, <3>2 DEF FormsOK
  <2>3. CASE s.seen /\ s.kind = "arm"
    <3>1. form' = Mounted("none")
      BY <2>1, <2>3 DEF NoForm
    <3>2. form.kind = "arm" /\ refreshes = {}
      BY <1>1, <1>3, <2>3 DEF OnPage, PageOK
    <3>3. refreshes' = {}
      BY <2>1, <2>3, <3>2 DEF Refreshed
    <3>4. \A q \in submissions' : ~q.seen
      BY <1>1, <2>1, <2>3, SeenOnce
    <3>5. selected' \in Wallets /\ session' \in Wallets \cup {Nobody}
      BY <1>1 DEF PageOK
    <3>6. PageOK'
      BY <1>1, <3>1, <3>3, <3>4, <3>5, MountedIs
    <3>. QED
      BY <1>2, <3>6 DEF FormsOK
  <2>4. CASE s.seen /\ s.kind # "arm"
    <3>1. form.kind = s.kind /\ s.kind \in FormKinds /\ form.kind \notin {"none", "onboarding"}
      BY <1>3, <2>4 DEF OnPage, SubmissionOK, FormKinds
    <3>2. PICK a \in Wallets : PageOf(a)
      BY <1>1, <3>1 DEF PageOK
    <3>3. s.from = a /\ session \in {a, Nobody}
      BY <2>4, <3>2 DEF PageOf
    <3>4. form' = Shows(s, "COMPLETE") /\ refreshes' = refreshes \cup Refreshed(form.kind, a)
      BY <2>1, <2>4, <3>1, <3>3
    <3>5. /\ form'.kind = form.kind /\ form'.account = form.account /\ form'.quote = form.quote
          /\ form'.wish = form.wish
          /\ form' = [kind |-> form'.kind, account |-> form'.account, quote |-> form'.quote,
                      stage |-> form'.stage, wish |-> form'.wish]
      BY <1>1, <3>4, ShowsIs
    <3>6. \A q \in refreshes' : ReadOf(q, a)'
      <4>1. ASSUME NEW q \in refreshes
            PROVE  ReadOf(q, a)'
        <5>1. ReadOf(q, a)
          BY <3>2, <4>1 DEF PageOf
        <5>2. form'.kind = form.kind /\ policies' = policies
          BY <1>1, <3>5
        <5>. QED
          BY ONLY <5>1, <5>2 DEF ReadOf
      <4>2. \A q \in Refreshed(form.kind, a) : ReadOf(q, a)'
        BY <1>1, <3>1, <3>3, <3>5, RefreshedIs
      <4>. QED
        BY <3>4, <4>1, <4>2
    <3>7. PageOf(a)'
      <4>1. \A q \in submissions' : q.seen => q.from = a
        BY <2>1, <3>2 DEF PageOf
      <4>2. session' \in {a, Nobody} /\ form'.account \in {a, Nobody}
        BY <1>1, <3>2, <3>5 DEF PageOf
      <4>3. form'.quote = NoQuote \/ form'.quote.account = a
        BY <3>2, <3>5 DEF PageOf
      <4>. QED
        BY <3>6, <4>1, <4>2, <4>3 DEF PageOf
    <3>8. form'.kind = "borrow" /\ form'.quote # NoQuote =>
            /\ form'.quote.epoch \in 1..Len(policies')
            /\ form'.quote.share = policies'[form'.quote.epoch]
      BY <1>1, <3>5 DEF PageOK, OfPolicy
    <3>9. menu' \subseteq FormKinds /\ selected' \in Wallets /\ session' \in Wallets \cup {Nobody}
      BY <1>1 DEF PageOK
    <3>10. form'.kind # "arm"
      BY <2>4, <3>1, <3>5
    <3>11. PageOK'
      BY <1>1, <3>1, <3>5, <3>7, <3>8, <3>9, <3>10, PoliciesStay DEF PageOK, OfPolicy
    <3>. QED
      BY <1>2, <3>11 DEF FormsOK
  <2>. QED
    BY <2>2, <2>3, <2>4
<1>. QED
  BY <1>5, <1>6

\* The chain goes on without the page.
LEMMA ChainGoesOnKeeps ==
  ASSUME FormsOK,
         \/ \E n \in DOMAIN sent : Include(n)
         \/ \E a \in Wallets : AccrueInterest(a)
         \/ \E share : ChangePolicy(share)
  PROVE  FormsOK'
<1>1. /\ WishesOK /\ PageOK
      /\ UNCHANGED <<menu, selected, session, form, refreshes, submissions, wishes>>
  BY DEF FormsOK, Include, AccrueInterest, ChangePolicy, pageVars
<1>2. Later /\ policies' = [e \in 1..Len(policies') |-> policies'[e]] /\ Len(policies') \in Nat \ {0}
      /\ WishesOK'
  <2>1. ASSUME NEW n \in DOMAIN sent, Include(n)
        PROVE  Later /\ UNCHANGED policies /\ WishesOK'
    BY <1>1, <2>1, IncludeKeeps DEF Include
  <2>2. ASSUME NEW a \in Wallets, AccrueInterest(a)
        PROVE  Later /\ UNCHANGED policies /\ WishesOK'
    <3>1. UNCHANGED <<policies, sent>>
      BY <2>2 DEF AccrueInterest
    <3>2. Later
      BY <1>1, <3>1, LaterIs DEF WishesOK
    <3>. QED
      BY <1>1, <3>1, <3>2, PageRests
  <2>3. ASSUME NEW share, ChangePolicy(share)
        PROVE  /\ Later /\ policies' = [e \in 1..Len(policies') |-> policies'[e]]
               /\ Len(policies') \in Nat \ {0} /\ WishesOK'
    <3>1. sent' = sent
      BY <2>3 DEF ChangePolicy
    <3>. QED
      BY <1>1, <2>3, <3>1, PolicyIsLater, PageRests
  <2>. QED
    BY <1>1, <2>1, <2>2, <2>3, PoliciesStay
<1>3. /\ selected' \in Wallets
      /\ form' = [kind |-> form'.kind, account |-> form'.account, quote |-> form'.quote,
                  stage |-> form'.stage, wish |-> form'.wish]
  BY <1>1 DEF PageOK
<1>4. PageOK'
  BY <1>1, <1>2, <1>3, PageStands
<1>. QED
  BY <1>2, <1>4, SMTT(60) DEF FormsOK

-----------------------------------------------------------------------------
(* The properties. *)

\* At the start there is no form.
LEMMA FormsStart == FormsInit => FormsOK
<1> SUFFICES ASSUME FormsInit
             PROVE  FormsOK
  OBVIOUS
<1>1. /\ session = Nobody /\ refreshes = {} /\ submissions = {} /\ wishes = 0
      /\ policies = <<1>> /\ sent = <<>> /\ selected \in Wallets /\ menu \in Menus
  BY FormConstants DEF FormsInit
<1>2. /\ form.kind = "none" /\ form.account = Nobody /\ form.quote = NoQuote /\ form.wish = 0
      /\ form.stage = "IDLE"
      /\ form = [kind |-> form.kind, account |-> form.account, quote |-> form.quote,
                 stage |-> form.stage, wish |-> form.wish]
  BY DEF FormsInit, NoForm, Mounted
<1>3. menu \subseteq FormKinds
  BY <1>1, FormConstants DEF FormKinds
<1>4. Len(sent) = 0 /\ sent = [n \in 1..Len(sent) |-> sent[n]]
  <2>1. Len(sent) = 0
    BY <1>1
  <2>2. [n \in 1..0 |-> sent[n]] = <<>>
    OBVIOUS
  <2>. QED
    BY <1>1, <2>1, <2>2
<1>5. Len(policies) \in Nat \ {0} /\ policies = [e \in 1..Len(policies) |-> policies[e]]
  BY <1>1
<1>6. WishesOK
  BY <1>1, <1>2, <1>4 DEF WishesOK, SubmissionsOK, TransactionsOK, RetryOK
<1>7. PageOf(selected)
  BY <1>1, <1>2 DEF PageOf
<1>8. PageOK
  BY <1>1, <1>2, <1>3, <1>5, <1>7 DEF PageOK
<1>. QED
  BY <1>6, <1>8 DEF FormsOK

\* The page, what it submitted and what was sent agree in every state.
THEOREM FormsAlways == Spec => []FormsOK
<1>1. Init => FormsOK
  BY FormsStart DEF Init
<1>2. ASSUME FormsOK, [Next]_vars
      PROVE  FormsOK'
  <2>1. CASE FormsNext
    <3>1. CASE \E k \in menu : OpenForm(k)
      BY <1>2, <3>1, OpenFormKeeps
    <3>2. CASE Connect
      BY <1>2, <3>2, ConnectKeeps
    <3>3. CASE SignIn
      BY <1>2, <3>3, SignInKeeps
    <3>4. CASE \E a \in Wallets : SwitchAccount(a)
      BY <1>2, <3>4, SwitchAccountKeeps
    <3>5. CASE \E a \in Wallets : AccrueInterest(a)
      BY <1>2, <3>5, ChainGoesOnKeeps
    <3>6. CASE \E r \in refreshes : AskSession(r) \/ PinBlock(r) \/ ReadQuote(r)
      BY <1>2, <3>6, AskSessionKeeps, PinBlockKeeps, ReadQuoteKeeps
    <3>7. CASE \E w \in 1..MaxWishes, amount \in Amounts, choice \in Choosable(form.kind) :
                 submit(w, amount, choice)
      BY <1>2, <3>7, SubmitPageKeeps
    <3>8. CASE \E s \in submissions :
                 \/ SignMandate(s) \/ WalletSends(s) \/ WalletRefuses(s) \/ WalletErrs(s)
                 \/ ReceiptIsLost(s)
      BY <1>2, <3>8, SubmissionStepKeeps
    <3>9. CASE \E s \in submissions : ReceiptArrives(s)
      BY <1>2, <3>9, ReceiptArrivesPageKeeps
    <3>10. CASE \E n \in DOMAIN sent : Include(n)
      BY <1>2, <3>10, ChainGoesOnKeeps
    <3>11. CASE \E share \in Shares : ChangePolicy(share)
      BY <1>2, <3>11, ChainGoesOnKeeps
    <3>. QED
      BY <2>1, <3>1, <3>2, <3>3, <3>4, <3>5, <3>6, <3>7, <3>8, <3>9, <3>10, <3>11 DEF FormsNext
  <2>2. CASE UNCHANGED formVars
    <3>1. UNCHANGED <<menu, selected, session, form, refreshes, submissions, wishes, policies, sent>>
      BY <2>2 DEF formVars, pageVars, chainOfForms
    <3>2. WishesOK /\ PageOK
      BY <1>2 DEF FormsOK
    <3>3. Later
      BY <3>1, <3>2, LaterIs DEF WishesOK
    <3>4. WishesOK'
      BY <3>1, <3>2, <3>3, PageRests
    <3>5. /\ selected' \in Wallets
          /\ form' = [kind |-> form'.kind, account |-> form'.account, quote |-> form'.quote,
                      stage |-> form'.stage, wish |-> form'.wish]
      BY <3>1, <3>2 DEF PageOK
    <3>6. PageOK'
      BY <3>1, <3>2, <3>3, <3>5, PoliciesStay, PageStands
    <3>. QED
      BY <3>4, <3>6 DEF FormsOK
  <2>. QED
    BY <1>2, <2>1, <2>2 DEF Next, vars
<1>. QED
  BY <1>1, <1>2, PTL DEF Spec

\* A user who submits a wish again only when the form says that it was declined or failed does it
\* no second time once the form was told of a transaction that does it, whatever the receipts, the
\* page, the addresses and the policy do in between (tx.ts sendTransaction, actions.ts).
THEOREM WishesAreDoneOnce == Spec => []WishedOnce
<1>1. FormsOK => WishedOnce
  <2> SUFFICES ASSUME FormsOK, NEW k \in Landed, NEW n \in Landed, k < n, Does(k), Does(n),
                      sent[k].wish = sent[n].wish, sent[k].told
               PROVE  FALSE
    BY DEF WishedOnce
  <2>1. WishesOK
    BY DEF FormsOK
  <2>2. PICK l \in Nat : l = Len(sent) /\ sent = [m \in 1..l |-> sent[m]]
    BY <2>1 DEF WishesOK, TransactionsOK
  <2>3. k \in 1..l /\ n \in 1..l /\ sent[k].outcome = "landed"
    BY <2>2 DEF Landed
  <2>4. k \in Takes(sent[k].wish)
    BY <2>2, <2>3 DEF Takes
  <2>5. n <= k
    BY <2>1, <2>2, <2>3, <2>4, TakesOnce DEF TakesLast
  <2>. QED
    BY <2>3, <2>5
<1>. QED
  BY <1>1, FormsAlways, PTL

\* What lands was sent by the account whose figures were on the form, a borrow under the share it was
\* shown, and a Sentinel's instance after its mandate (account.ts loadAccount, session.ts readSession).
THEOREM WhatLandsWasShown == Spec => []LandsAsShown
<1>1. FormsOK => LandsAsShown
  <2> SUFFICES ASSUME FormsOK, NEW n \in Landed
               PROVE  /\ sent[n].from = sent[n].account
                      /\ sent[n].call = "borrow" => sent[n].under = sent[n].shown
                      /\ sent[n].call = "registerInstance" =>
                           \E k \in Landed : /\ k < n /\ sent[k].call = "registerMandate"
                                             /\ sent[k].wish = sent[n].wish
    BY DEF LandsAsShown
  <2>1. PICK k \in Nat : k = Len(sent) /\ sent = [m \in 1..k |-> sent[m]]
    BY DEF FormsOK, WishesOK, TransactionsOK
  <2>2. n \in 1..k /\ sent[n].outcome = "landed"
    BY <2>1 DEF Landed
  <2>3. SentOK(n)
    BY <2>1, <2>2 DEF FormsOK, WishesOK, TransactionsOK
  <2>4. ASSUME sent[n].call = "registerInstance"
        PROVE  \E m \in Landed : /\ m < n /\ sent[m].call = "registerMandate"
                                 /\ sent[m].wish = sent[n].wish
    <3>1. PICK m \in 1..(n - 1) : /\ sent[m].outcome = "landed" /\ sent[m].call = "registerMandate"
                                  /\ sent[m].wish = sent[n].wish
      BY <2>3, <2>4 DEF SentOK, Mandated
    <3>2. m \in 1..k /\ m < n
      BY <2>2, <3>1
    <3>. QED
      BY <2>1, <3>1, <3>2 DEF Landed
  <2>. QED
    BY <2>2, <2>3, <2>4 DEF SentOK
<1>. QED
  BY <1>1, FormsAlways, PTL

-----------------------------------------------------------------------------
(* The share pool: its surplus is in it, and shares stand behind all of the *)
(* rest.                                                                    *)

PoolTypes(p) ==
  /\ p = [shares |-> p.shares, balance |-> p.balance, surplus |-> p.surplus]
  /\ p.shares \in [Holders -> Nat] /\ p.balance \in Nat /\ p.surplus \in 0..p.balance
PoolOK(p) == PoolTypes(p) /\ (totalShares(p) = 0 => backedBalance(p) = 0)

\* What a pool amounts to.
LEMMA PoolNumbers ==
  ASSUME NEW p, PoolTypes(p)
  PROVE  /\ totalShares(p) \in Nat /\ backedBalance(p) \in Nat
         /\ \A h \in Holders : p.shares[h] \in 0..totalShares(p)
<1>1. IsFiniteSet(Holders) /\ \A h \in Holders : p.shares[h] \in Nat
  BY CorporateConstants DEF PoolTypes
<1>2. totalShares(p) \in Nat /\ \A h \in Holders : p.shares[h] <= totalShares(p)
  BY <1>1, SumOfNaturals DEF totalShares
<1>3. backedBalance(p) \in Nat
  BY DEF PoolTypes, backedBalance
<1>. QED
  BY <1>1, <1>2, <1>3

\* The shares of one holder change, and the total with them.
LEMMA SharesMove ==
  ASSUME NEW p, PoolTypes(p), NEW q, PoolTypes(q), NEW h \in Holders,
         \A o \in Holders \ {h} : q.shares[o] = p.shares[o]
  PROVE  totalShares(q) = totalShares(p) + (q.shares[h] - p.shares[h])
<1>1. \A o \in Holders : p.shares[o] \in Int /\ q.shares[o] \in Int
  BY DEF PoolTypes
<1>2. PICK f : f = p.shares
  OBVIOUS
<1>3. PICK g : g = q.shares
  OBVIOUS
<1>4. /\ \A o \in Holders : f[o] \in Int /\ g[o] \in Int
      /\ \A o \in Holders : o # h => g[o] = f[o]
  BY <1>1, <1>2, <1>3
<1>5. SumFunctionOnSet(g, Holders) = SumFunctionOnSet(f, Holders) + (g[h] - f[h])
  <2>1. IsFiniteSet(Holders)
    BY CorporateConstants
  <2>2. ChangesAt(Holders, f, g, h)
    BY <1>4, <2>1 DEF ChangesAt
  <2>. QED
    BY <2>2, TermChanges
<1>. QED
  BY <1>2, <1>3, <1>5 DEF totalShares

\* A deposit mints no more than what it costs buys.
LEMMA MintedIs ==
  ASSUME NEW p, PoolOK(p), NEW value \in Nat \ {0}
  PROVE  /\ minted(p, value) \in Nat /\ minted(p, value) * backedBalance(p) <= value * totalShares(p)
         /\ totalShares(p) + minted(p, value) # 0
<1>1. PICK T \in Nat : T = totalShares(p)
  BY PoolNumbers DEF PoolOK
<1>2. PICK B \in Nat : B = backedBalance(p)
  BY PoolNumbers DEF PoolOK
<1>3. CASE T = 0
  <2>1. B = 0
    BY <1>1, <1>2, <1>3 DEF PoolOK
  <2>2. minted(p, value) = value
    BY <1>1, <1>3 DEF minted
  <2>. QED
    BY <1>1, <1>2, <1>3, <2>1, <2>2
<1>4. CASE T # 0 /\ B = 0
  <2>1. minted(p, value) = MulDiv(value, T, value)
    BY <1>1, <1>2, <1>4 DEF minted
  <2>2. PICK m \in Nat : m = MulDiv(value, T, value)
    BY DownBounds
  <2>3. m * 0 = 0 /\ value * T \in Nat /\ T + m # 0
    BY <1>4
  <2>. QED
    BY <1>1, <1>2, <1>4, <2>1, <2>2, <2>3
<1>5. CASE T # 0 /\ B # 0
  <2>1. minted(p, value) = MulDiv(value, T, B)
    BY <1>1, <1>2, <1>5 DEF minted
  <2>2. PICK m \in Nat : m = MulDiv(value, T, B) /\ B * m <= value * T
    BY <1>5, DownBounds
  <2>3. m * B = B * m /\ T + m # 0
    BY <1>5
  <2>. QED
    BY <1>1, <1>2, <2>1, <2>2, <2>3
<1>. QED
  BY <1>3, <1>4, <1>5

\* After a deposit.
LEMMA DepositedIs ==
  ASSUME NEW p, PoolOK(p), NEW h \in Holders, NEW value \in Nat \ {0}
  PROVE  LET q == deposited(p, h, value) IN
         /\ PoolOK(q) /\ q.balance = p.balance + value
         /\ totalShares(q) = totalShares(p) + minted(p, value)
         /\ backedBalance(q) = backedBalance(p) + value
         /\ q.shares = [p.shares EXCEPT ![h] = @ + minted(p, value)]
<1>1. PICK m \in Nat : m = minted(p, value) /\ totalShares(p) + m # 0
  BY MintedIs
<1>2. PICK q : q = deposited(p, h, value)
  OBVIOUS
<1>3. PoolTypes(p)
  BY DEF PoolOK
<1>4. q = [shares |-> [p.shares EXCEPT ![h] = @ + m], balance |-> p.balance + value, surplus |-> p.surplus]
  BY <1>1, <1>2, <1>3 DEF deposited, PoolTypes
<1>5. PoolTypes(q)
  BY <1>3, <1>4 DEF PoolTypes
<1>6. totalShares(q) = totalShares(p) + m
  <2>1. \A o \in Holders \ {h} : q.shares[o] = p.shares[o]
    BY <1>3, <1>4 DEF PoolTypes
  <2>2. q.shares[h] = p.shares[h] + m /\ p.shares[h] \in Nat
    BY <1>3, <1>4 DEF PoolTypes
  <2>3. totalShares(p) \in Nat
    BY <1>3, PoolNumbers
  <2>. QED
    BY <1>3, <1>5, <2>1, <2>2, <2>3, SharesMove
<1>7. backedBalance(q) = backedBalance(p) + value
  BY <1>3, <1>4 DEF backedBalance, PoolTypes
<1>8. PoolOK(q)
  BY <1>1, <1>5, <1>6 DEF PoolOK
<1>. QED
  BY <1>1, <1>2, <1>4, <1>6, <1>7, <1>8

\* What a redemption pays is backed.
LEMMA RawOutIs ==
  ASSUME NEW p, PoolOK(p), NEW count \in Nat, count <= totalShares(p), totalShares(p) # 0
  PROVE  /\ rawOut(p, count) \in 0..backedBalance(p)
         /\ totalShares(p) * rawOut(p, count) <= count * backedBalance(p)
         /\ count = totalShares(p) => rawOut(p, count) = backedBalance(p)
<1>1. PICK T \in Nat \ {0} : T = totalShares(p)
  BY PoolNumbers DEF PoolOK
<1>2. PICK B \in Nat : B = backedBalance(p)
  BY PoolNumbers DEF PoolOK
<1>3. PICK n \in Nat : n = MulDiv(count, B, T) /\ T * n <= count * B /\ count * B < T * n + T
  BY DownBounds
<1>4. rawOut(p, count) = n
  BY <1>1, <1>2, <1>3 DEF rawOut
<1>5. count * B <= T * B /\ T * B \in Nat /\ T * n \in Nat /\ count * B \in Nat
  BY <1>1, TimesOrder
<1>6. T * n < T * B + T
  BY <1>3, <1>5
<1>7. n <= B
  BY <1>6, Cancel
<1>8. count = T => B <= n
  <2>1. count = T => T * B < T * n + T
    BY <1>3
  <2>. QED
    BY <2>1, Cancel
<1>. QED
  BY <1>1, <1>2, <1>3, <1>4, <1>7, <1>8

\* After a redemption.
LEMMA RedeemedIs ==
  ASSUME NEW p, PoolOK(p), NEW h \in Holders, NEW count \in 1..p.shares[h]
  PROVE  LET q == redeemed(p, h, count) IN
         /\ PoolOK(q) /\ count \in 1..totalShares(p) /\ rawOut(p, count) \in 0..backedBalance(p)
         /\ totalShares(q) = totalShares(p) - count
         /\ backedBalance(q) = backedBalance(p) - rawOut(p, count)
         /\ q.shares = [p.shares EXCEPT ![h] = @ - count]
<1>1. PoolTypes(p)
  BY DEF PoolOK
<1>2. PICK s \in Nat : s = p.shares[h] /\ s <= totalShares(p)
  BY <1>1, PoolNumbers
<1>3. PICK T \in Nat : T = totalShares(p)
  BY <1>1, PoolNumbers
<1>4. PICK B \in Nat : B = backedBalance(p)
  BY <1>1, PoolNumbers
<1>5. count \in Nat /\ count # 0 /\ count <= s /\ count <= T /\ T # 0
  BY <1>2, <1>3
<1>6. PICK n \in Nat : n = rawOut(p, count) /\ n <= B /\ (count = T => n = B)
  BY <1>3, <1>4, <1>5, RawOutIs
<1>7. PICK q : q = redeemed(p, h, count)
  OBVIOUS
<1>8. q = [shares |-> [p.shares EXCEPT ![h] = @ - count], balance |-> p.balance - n, surplus |-> p.surplus]
  BY <1>1, <1>6, <1>7 DEF redeemed, PoolTypes
<1>9. p.balance \in Nat /\ p.surplus \in Nat /\ p.balance - p.surplus = B
  BY <1>1, <1>4 DEF PoolTypes, backedBalance
<1>10. p.balance - n \in Nat /\ p.surplus \in 0..(p.balance - n) /\ s - count \in Nat
  BY <1>2, <1>5, <1>6, <1>9
<1>11. PoolTypes(q)
  <2>1. [p.shares EXCEPT ![h] = @ - count] \in [Holders -> Nat]
    BY <1>1, <1>2, <1>10 DEF PoolTypes
  <2>. QED
    BY <1>8, <1>10, <2>1 DEF PoolTypes
<1>12. totalShares(q) = T - count
  <2>1. \A o \in Holders \ {h} : q.shares[o] = p.shares[o]
    BY <1>1, <1>8 DEF PoolTypes
  <2>2. q.shares[h] = s - count
    BY <1>1, <1>2, <1>8 DEF PoolTypes
  <2>. QED
    BY <1>1, <1>2, <1>3, <1>5, <1>11, <2>1, <2>2, SharesMove
<1>13. backedBalance(q) = B - n
  BY <1>6, <1>8, <1>9 DEF backedBalance
<1>14. PoolOK(q)
  <2>1. totalShares(q) = 0 => count = T
    BY <1>3, <1>5, <1>12
  <2>. QED
    BY <1>4, <1>6, <1>11, <1>13, <2>1 DEF PoolOK
<1>. QED
  BY <1>3, <1>4, <1>5, <1>6, <1>7, <1>8, <1>12, <1>13, <1>14

\* After a rebase.
LEMMA RebasedIs ==
  ASSUME NEW p, PoolOK(p), p.balance > 0, NEW balance \in Nat
  PROVE  PoolOK(rebased(p, balance))
<1>1. PICK b \in Nat \ {0} : b = p.balance
  BY DEF PoolOK, PoolTypes
<1>2. PICK u \in 0..b : u = p.surplus
  BY <1>1 DEF PoolOK, PoolTypes
<1>3. PICK w \in Nat : w = MulDiv(u, balance, b) /\ b * w <= u * balance /\ u * balance < b * w + b
  <2>1. u \in Nat
    BY <1>2
  <2>. QED
    BY <2>1, DownBounds
<1>4. w <= balance
  <2>1. u * balance <= b * balance /\ u * balance \in Nat /\ b * balance \in Nat /\ b * w \in Nat
    BY <1>2, TimesOrder
  <2>2. b * w < b * balance + b
    BY <1>3, <2>1
  <2>. QED
    BY <2>2, Cancel
<1>5. u = b => w = balance
  <2>1. u = b => b * balance < b * w + b
    BY <1>3
  <2>2. u = b => balance <= w
    BY <2>1, Cancel
  <2>. QED
    BY <1>4, <2>2
<1>6. PICK q : q = rebased(p, balance)
  OBVIOUS
<1>7. q = [shares |-> p.shares, balance |-> balance, surplus |-> w]
  BY <1>1, <1>2, <1>3, <1>6 DEF rebased, PoolOK, PoolTypes
<1>8. PoolTypes(q)
  BY <1>4, <1>7 DEF PoolOK, PoolTypes
<1>9. totalShares(q) = totalShares(p)
  BY <1>7 DEF totalShares
<1>10. backedBalance(p) = 0 => backedBalance(q) = 0
  BY <1>1, <1>2, <1>5, <1>7 DEF backedBalance
<1>. QED
  BY <1>6, <1>8, <1>9, <1>10 DEF PoolOK

\* After a donation nothing that counts for a share has moved.
LEMMA DonatedIs ==
  ASSUME NEW p, PoolOK(p), NEW balance \in Nat, p.balance <= balance
  PROVE  LET q == donated(p, balance) IN
         /\ PoolOK(q) /\ q.shares = p.shares /\ totalShares(q) = totalShares(p)
         /\ backedBalance(q) = backedBalance(p)
<1>1. PICK b \in Nat : b = p.balance
  BY DEF PoolOK, PoolTypes
<1>2. PICK u \in 0..b : u = p.surplus
  BY <1>1 DEF PoolOK, PoolTypes
<1>3. PICK q : q = donated(p, balance)
  OBVIOUS
<1>4. q = [shares |-> p.shares, balance |-> balance, surplus |-> u + (balance - b)]
  BY <1>1, <1>2, <1>3 DEF donated, PoolOK, PoolTypes
<1>5. u + (balance - b) \in 0..balance /\ balance - (u + (balance - b)) = b - u
  BY <1>1, <1>2
<1>6. PoolTypes(q)
  BY <1>4, <1>5 DEF PoolOK, PoolTypes
<1>7. totalShares(q) = totalShares(p) /\ backedBalance(q) = backedBalance(p)
  BY <1>1, <1>2, <1>4, <1>5 DEF totalShares, backedBalance
<1>. QED
  BY <1>3, <1>4, <1>6, <1>7 DEF PoolOK

\* A fee is taken from what is backed.
LEMMA ChargedIs ==
  ASSUME NEW p, PoolOK(p), NEW fee \in 1..backedBalance(p)
  PROVE  PoolOK(charged(p, fee))
<1>1. PICK b \in Nat : b = p.balance
  BY DEF PoolOK, PoolTypes
<1>2. PICK u \in 0..b : u = p.surplus
  BY <1>1 DEF PoolOK, PoolTypes
<1>3. backedBalance(p) = b - u
  BY <1>1, <1>2 DEF backedBalance
<1>4. PICK q : q = charged(p, fee)
  OBVIOUS
<1>5. q = [shares |-> p.shares, balance |-> b - fee, surplus |-> u]
  BY <1>1, <1>2, <1>4 DEF charged, PoolOK, PoolTypes
<1>6. b - fee \in Nat /\ u \in 0..(b - fee)
  BY <1>2, <1>3
<1>7. PoolTypes(q)
  BY <1>5, <1>6 DEF PoolOK, PoolTypes
<1>8. totalShares(q) = totalShares(p) /\ backedBalance(p) # 0
  BY <1>2, <1>3, <1>5 DEF totalShares
<1>. QED
  BY <1>4, <1>7, <1>8 DEF PoolOK

\* The pool stands on what backs it at every step.
THEOREM PoolAlways == Spec => []PoolOK(pool)
<1>1. Init => PoolOK(pool)
  <2> SUFFICES ASSUME Init
               PROVE  PoolOK(pool)
    OBVIOUS
  <2>1. pool = emptyPool
    BY DEF Init
  <2>2. PoolTypes(pool) /\ backedBalance(pool) = 0
    BY <2>1 DEF emptyPool, PoolTypes, backedBalance
  <2>. QED
    BY <2>2 DEF PoolOK
<1>2. ASSUME PoolOK(pool), [Next]_vars
      PROVE  PoolOK(pool)'
  <2>1. pool.balance \in Nat
    BY <1>2 DEF PoolOK, PoolTypes
  <2>2. MaxBalance \in Nat
    BY ReadConstants
  <2>3. ASSUME NEW h \in Holders, Deposit(h)
        PROVE  PoolOK(pool')
    <3>1. PICK value \in 1..(MaxBalance - pool.balance) : pool' = deposited(pool, h, value)
      BY <2>3 DEF Deposit, Account
    <3>2. value \in Nat \ {0}
      BY <2>1, <2>2, <3>1
    <3>. QED
      BY <1>2, <3>1, <3>2, DepositedIs
  <2>4. ASSUME NEW h \in Holders, Redeem(h)
        PROVE  PoolOK(pool')
    <3>1. PICK count \in 1..pool.shares[h] : pool' = redeemed(pool, h, count)
      BY <2>4 DEF Redeem, Account
    <3>. QED
      BY <1>2, <3>1, RedeemedIs
  <2>5. CASE Rebase
    <3>1. PICK balance \in 0..MaxBalance : pool' = rebased(pool, balance)
      BY <2>5 DEF Rebase, Account
    <3>2. pool.balance > 0 /\ balance \in Nat
      BY <2>2, <2>5, <3>1 DEF Rebase
    <3>. QED
      BY <1>2, <3>1, <3>2, RebasedIs
  <2>6. CASE Donate
    <3>1. PICK balance \in pool.balance..MaxBalance : pool' = donated(pool, balance)
      BY <2>6 DEF Donate, Account
    <3>2. balance \in Nat /\ pool.balance <= balance
      BY <2>1, <2>2, <3>1
    <3>. QED
      BY <1>2, <3>1, <3>2, DonatedIs
  <2>7. CASE Charge
    <3>1. PICK fee \in 1..backedBalance(pool) : pool' = charged(pool, fee)
      BY <2>7 DEF Charge, Account
    <3>. QED
      BY <1>2, <3>1, ChargedIs
  <2>8. CASE UNCHANGED pool
    BY <1>2, <2>8
  <2>9. ASSUME ReadNext
        PROVE  \/ UNCHANGED pool \/ Rebase \/ Donate \/ Charge
               \/ \E h \in Holders : Deposit(h) \/ Redeem(h)
    BY <2>9 DEF ReadNext, Mine, Reorganise, Deliver, RollBack, Observe, Ingest, Drop, Admit, sharing
  <2>10. ReadNext \/ UNCHANGED pool
    BY <1>2 DEF Next, vars, readVars, sharing
  <2>11. PoolOK(pool')
    BY <1>2, <2>3, <2>4, <2>5, <2>6, <2>7, <2>8, <2>9, <2>10
  <2>. QED
    BY <2>11 DEF PoolOK, PoolTypes, totalShares, backedBalance
<1>. QED
  BY <1>1, <1>2, PTL DEF Spec

\* A claim, when there are shares.
LEMMA EffectiveIs ==
  ASSUME NEW p, totalShares(p) # 0, NEW h
  PROVE  effectiveOf(p, h) = MulDiv(p.shares[h], backedBalance(p), totalShares(p))
BY DEF effectiveOf

\* A deposit is fair to the others and to whoever makes it.
LEMMA DepositIsFair ==
  ASSUME NEW p, PoolOK(p), NEW h \in Holders, NEW value \in Nat \ {0},
         NEW q, q = deposited(p, h, value)
  PROVE  /\ \A other \in Holders \ {h} : effectiveOf(q, other) >= effectiveOf(p, other)
         /\ effectiveOf(q, h) - effectiveOf(p, h) <= q.balance - p.balance
<1>1. PICK T \in Nat : T = totalShares(p)
  BY PoolNumbers DEF PoolOK
<1>2. PICK B \in Nat : B = backedBalance(p)
  BY PoolNumbers DEF PoolOK
<1>3. PICK m \in Nat : m = minted(p, value) /\ m * B <= value * T /\ T + m # 0
  BY <1>1, <1>2, MintedIs
<1>4. /\ totalShares(q) = T + m /\ backedBalance(q) = B + value /\ q.balance = p.balance + value
      /\ q.shares = [p.shares EXCEPT ![h] = @ + m]
  BY <1>1, <1>2, <1>3, DepositedIs
<1>5. p.shares \in [Holders -> Nat] /\ \A o \in Holders : p.shares[o] \in 0..T
  BY <1>1, PoolNumbers DEF PoolOK, PoolTypes
<1>6. q.balance - p.balance = value
  BY <1>4 DEF PoolOK, PoolTypes
<1>7. PICK U \in Nat \ {0} : U = T + m
  BY <1>3
<1>8. \A o \in Holders : effectiveOf(q, o) = MulDiv(q.shares[o], B + value, U)
  BY <1>4, <1>7, EffectiveIs
<1>9. PICK s \in Nat : s = p.shares[h]
  BY <1>5
<1>10. \A o \in Holders \ {h} : q.shares[o] = p.shares[o]
  BY <1>4, <1>5
<1>11. q.shares[h] = s + m
  BY <1>4, <1>5, <1>9
<1>12. \A o \in Holders \ {h} : MulDiv(q.shares[o], B + value, U) \in Nat
  <2>1. \A o \in Holders \ {h} : q.shares[o] \in Nat
    BY <1>5, <1>10
  <2>2. B + value \in Nat
    OBVIOUS
  <2>. QED
    BY <2>1, <2>2, DownBounds
<1>13. CASE T = 0
  <2>1. B = 0 /\ s = 0
    BY <1>1, <1>2, <1>5, <1>9, <1>13 DEF PoolOK
  <2>2. \A o \in Holders : effectiveOf(p, o) = 0
    BY <1>1, <1>13 DEF effectiveOf
  <2>3. MulDiv(s + m, B + value, U) = value
    <3>1. MulDiv(m, value, m) = value
      <4>1. m \in Nat \ {0}
        BY <1>3, <1>13
      <4>2. PICK n \in Nat : n = MulDiv(m, value, m) /\ m * n <= m * value /\ m * value < m * n + m
        BY <4>1, DownBounds
      <4>3. m * n < m * value + m
        BY <4>1, <4>2
      <4>4. n <= value /\ value <= n
        BY <4>1, <4>2, <4>3, Cancel
      <4>. QED
        BY <4>2, <4>4
    <3>2. s + m = m /\ B + value = value /\ U = m
      BY <1>7, <1>13, <2>1
    <3>. QED
      BY <3>1, <3>2
  <2>. QED
    BY <1>6, <1>8, <1>9, <1>11, <1>12, <2>2, <2>3
<1>14. CASE T # 0
  <2>1. \A o \in Holders : effectiveOf(p, o) = MulDiv(p.shares[o], B, T)
    BY <1>1, <1>2, <1>14, EffectiveIs
  <2>2. ASSUME NEW o \in Holders \ {h}
        PROVE  effectiveOf(q, o) >= effectiveOf(p, o)
    <3>1. PICK x \in Nat : x = p.shares[o]
      BY <1>5
    <3>2. PICK w \in Nat : w = B + value
      OBVIOUS
    <3>3. B * U <= w * T
      <4>1. B * m <= value * T
        BY <1>3
      <4>2. w * T >= B * (T + m)
        BY <3>2, <4>1, EntryIsFair
      <4>3. w * T \in Nat /\ B * (T + m) \in Nat
        OBVIOUS
      <4>. QED
        BY <1>7, <4>2, <4>3
    <3>4. MulDiv(x, B, T) <= MulDiv(x, w, U)
      BY <1>14, <3>3, WorthOrder
    <3>5. MulDiv(x, B, T) \in Nat /\ MulDiv(x, w, U) \in Nat
      BY <1>14, DownBounds
    <3>. QED
      BY <1>8, <1>10, <2>1, <3>1, <3>2, <3>4, <3>5
  <2>3. effectiveOf(q, h) - effectiveOf(p, h) <= value
    <3>1. s \in 0..T
      BY <1>5, <1>9
    <3>2. MulDiv(s + m, B + value, T + m) <= MulDiv(s, B, T) + value
      BY <1>3, <1>14, <3>1, EntryIsWorthItsPrice
    <3>3. MulDiv(s, B, T) \in Nat
      BY <1>14, DownBounds
    <3>4. MulDiv(s + m, B + value, U) \in Nat
      <4>1. s + m \in Nat /\ B + value \in Nat
        OBVIOUS
      <4>. QED
        BY <4>1, DownBounds
    <3>5. effectiveOf(p, h) = MulDiv(s, B, T) /\ effectiveOf(q, h) = MulDiv(s + m, B + value, U)
      BY <1>8, <1>9, <1>11, <2>1
    <3>. QED
      BY <1>7, <3>2, <3>3, <3>4, <3>5
  <2>. QED
    BY <1>6, <2>2, <2>3
<1>. QED
  BY <1>13, <1>14

\* A redemption is fair to the others.
LEMMA RedemptionIsFair ==
  ASSUME NEW p, PoolOK(p), NEW h \in Holders, NEW count \in 1..p.shares[h],
         NEW q, q = redeemed(p, h, count), NEW o \in Holders \ {h}
  PROVE  effectiveOf(q, o) >= effectiveOf(p, o)
<1>1. PICK T \in Nat : T = totalShares(p)
  BY PoolNumbers DEF PoolOK
<1>2. PICK B \in Nat : B = backedBalance(p)
  BY PoolNumbers DEF PoolOK
<1>3. /\ count \in 1..T /\ rawOut(p, count) \in 0..B
      /\ totalShares(q) = T - count /\ backedBalance(q) = B - rawOut(p, count)
      /\ q.shares = [p.shares EXCEPT ![h] = @ - count]
  BY <1>1, <1>2, RedeemedIs
<1>4. count \in Nat /\ count <= T /\ T # 0
  BY <1>3
<1>5. PICK n \in 0..B : n = rawOut(p, count) /\ T * n <= count * B
  BY <1>1, <1>2, <1>3, <1>4, RawOutIs
<1>6. p.shares \in [Holders -> Nat] /\ p.shares[o] \in 0..T
  BY <1>1, PoolNumbers DEF PoolOK, PoolTypes
<1>7. PICK x \in Nat : x = p.shares[o] /\ x = q.shares[o]
  BY <1>3, <1>6
<1>8. effectiveOf(p, o) = MulDiv(x, B, T)
  BY <1>1, <1>2, <1>4, <1>7, EffectiveIs
<1>9. MulDiv(x, B, T) \in Nat
  BY <1>4, DownBounds
<1>10. CASE count = T
  <2>1. totalShares(q) = 0
    BY <1>3, <1>10
  <2>2. x = 0
    <3>1. PoolTypes(q)
      BY RedeemedIs DEF PoolOK
    <3>2. q.shares[o] \in 0..0
      BY <2>1, <3>1, PoolNumbers
    <3>. QED
      BY <1>7, <3>2
  <2>3. MulDiv(0, B, T) = 0
    <3>1. 0 * B = 0 /\ 0 \div T = 0
      BY <1>4
    <3>. QED
      BY <3>1 DEF MulDiv
  <2>4. effectiveOf(q, o) = 0
    BY <2>1 DEF effectiveOf
  <2>. QED
    BY <1>8, <2>2, <2>3, <2>4
<1>11. CASE count # T
  <2>1. PICK U \in Nat \ {0} : U = T - count
    BY <1>4, <1>11
  <2>2. PICK w \in Nat : w = B - n
    BY <1>5
  <2>3. effectiveOf(q, o) = MulDiv(x, w, U)
    BY <1>3, <1>5, <1>7, <2>1, <2>2, EffectiveIs
  <2>4. B * U <= w * T
    <3>1. (B - n) * T >= B * (T - count)
      BY <1>4, <1>5, ExitIsFair
    <3>2. w * T \in Nat /\ B * U \in Nat
      OBVIOUS
    <3>. QED
      BY <2>1, <2>2, <3>1, <3>2
  <2>5. MulDiv(x, B, T) <= MulDiv(x, w, U)
    BY <1>4, <2>4, WorthOrder
  <2>6. MulDiv(x, w, U) \in Nat
    BY DownBounds
  <2>. QED
    BY <1>8, <1>9, <2>3, <2>5, <2>6
<1>. QED
  BY <1>10, <1>11

\* A deposit, a redemption or a donation takes nothing from anybody else's claim, and a deposit is
\* worth no more to its depositor than was paid in, through any number of them, of rebases and of
\* fees (pool.ts applyAction).
THEOREM NobodyIsEverDiluted == Spec => NobodyIsDiluted
<1>1. ASSUME PoolOK(pool)
      PROVE  DilutesNobody
  <2>1. pool.balance \in Nat /\ MaxBalance \in Nat
    BY <1>1, ReadConstants DEF PoolOK, PoolTypes
  <2>2. ASSUME NEW h \in Holders, Deposit(h)
        PROVE  /\ \A other \in Holders \ {h} : effectiveOf(pool', other) >= effectiveOf(pool, other)
               /\ effectiveOf(pool', h) - effectiveOf(pool, h) <= pool'.balance - pool.balance
    <3>1. PICK value \in 1..(MaxBalance - pool.balance) : pool' = deposited(pool, h, value)
      BY <2>2 DEF Deposit, Account
    <3>2. value \in Nat \ {0}
      BY <2>1, <3>1
    <3>. QED
      BY <1>1, <3>1, <3>2, DepositIsFair
  <2>3. ASSUME NEW h \in Holders, Redeem(h)
        PROVE  \A other \in Holders \ {h} : effectiveOf(pool', other) >= effectiveOf(pool, other)
    <3>1. PICK count \in 1..pool.shares[h] : pool' = redeemed(pool, h, count)
      BY <2>3 DEF Redeem, Account
    <3>. QED
      BY <1>1, <3>1, RedemptionIsFair
  <2>4. ASSUME Donate
        PROVE  \A h \in Holders : effectiveOf(pool', h) = effectiveOf(pool, h)
    <3>1. PICK balance \in pool.balance..MaxBalance : pool' = donated(pool, balance)
      BY <2>4 DEF Donate, Account
    <3>2. balance \in Nat /\ pool.balance <= balance
      BY <2>1, <3>1
    <3>3. /\ pool'.shares = pool.shares /\ totalShares(pool') = totalShares(pool)
          /\ backedBalance(pool') = backedBalance(pool)
      BY <1>1, <3>1, <3>2, DonatedIs
    <3>. QED
      BY <3>3 DEF effectiveOf
  <2>. QED
    BY <2>2, <2>3, <2>4 DEF DilutesNobody
<1>2. PoolOK(pool) => [part = "shares" => DilutesNobody]_vars
  BY <1>1
<1>. QED
  BY <1>2, PoolAlways, PTL DEF NobodyIsDiluted

-----------------------------------------------------------------------------
(* The portfolio: finitely many positions, each as it was offered.          *)

PortfolioOK ==
  /\ IsFiniteSet(DOMAIN portfolio)
  /\ \A i \in DOMAIN portfolio : portfolio[i] \in Offers

\* The portfolio is that at every step.
THEOREM PortfolioAlways == Spec => []PortfolioOK
<1>1. Init => PortfolioOK
  <2> SUFFICES ASSUME Init
               PROVE  PortfolioOK
    OBVIOUS
  <2>1. DOMAIN portfolio = {}
    BY DEF Init
  <2>. QED
    BY <2>1, FS_EmptySet DEF PortfolioOK
<1>2. ASSUME PortfolioOK, [Next]_vars
      PROVE  PortfolioOK'
  <2>1. ASSUME NEW i \in Instruments, Admit(i)
        PROVE  PortfolioOK'
    <3>1. PICK p \in Offers :
            portfolio' = [j \in DOMAIN portfolio \cup {i} |-> IF j = i THEN p ELSE portfolio[j]]
      BY <2>1 DEF Admit
    <3>2. IsFiniteSet(DOMAIN portfolio \cup {i})
      BY <1>2, FS_AddElement DEF PortfolioOK
    <3>3. DOMAIN portfolio' = DOMAIN portfolio \cup {i}
      BY <3>1
    <3>4. \A j \in DOMAIN portfolio' : portfolio'[j] \in Offers
      BY <1>2, <3>1 DEF PortfolioOK
    <3>. QED
      BY <3>2, <3>3, <3>4 DEF PortfolioOK
  <2>2. CASE UNCHANGED portfolio
    BY <1>2, <2>2 DEF PortfolioOK
  <2>3. ASSUME ReadNext
        PROVE  UNCHANGED portfolio \/ \E i \in Instruments : Admit(i)
    BY <2>3 DEF ReadNext, Mine, Reorganise, Deliver, RollBack, Observe, Ingest, Drop,
                Deposit, Redeem, Rebase, Donate, Charge, Account
  <2>4. ReadNext \/ UNCHANGED portfolio
    BY <1>2 DEF Next, vars, readVars
  <2>. QED
    BY <2>1, <2>2, <2>3, <2>4
<1>. QED
  BY <1>1, <1>2, PTL DEF Spec

\* The lowest of some naturals is one of them, and no other is lower.
LEMMA LowestIs ==
  ASSUME NEW values \in SUBSET Nat, values # {}
  PROVE  Lowest(values) \in values /\ \A v \in values : Lowest(values) <= v
BY LeastNatural DEF Lowest

\* What is offered is in naturals.
LEMMA OfferIs ==
  ASSUME PortfolioOK, NEW i \in DOMAIN portfolio
  PROVE  /\ portfolio[i].single \in Nat /\ portfolio[i].depth \in Nat
         /\ sessionScaleWad(portfolio[i].session) \in Nat
<1>1. /\ portfolio[i].single \in Nat /\ portfolio[i].depth \in Nat
      /\ SessionFactorBps[portfolio[i].session] \in Nat
  BY ReadConstants DEF PortfolioOK
<1>2. Wad \in Nat /\ Bps \in Nat \ {0}
  BY PolicyIsSound
<1>3. PICK x \in Nat : x = Least(Bps, SessionFactorBps[portfolio[i].session])
  BY <1>1, <1>2 DEF Least
<1>4. MulDiv(x, Wad, Bps) \in Nat
  BY <1>2, DownBounds
<1>. QED
  BY <1>1, <1>3, <1>4 DEF sessionScaleWad

\* The whole is a natural, and so is what any part of it is worth alone.
LEMMA TotalsAre ==
  ASSUME PortfolioOK, NEW S \in SUBSET DOMAIN portfolio
  PROVE  /\ TotalOver(portfolio, S) \in Nat /\ base(portfolio) \in Nat
         /\ \A j \in S : portfolio[j].single <= TotalOver(portfolio, S)
<1>1. ASSUME NEW U \in SUBSET DOMAIN portfolio
      PROVE  /\ TotalOver(portfolio, U) \in Nat
             /\ \A j \in U : portfolio[j].single <= TotalOver(portfolio, U)
  <2>1. PICK f : f = [j \in U |-> portfolio[j].single]
    OBVIOUS
  <2>2. IsFiniteSet(U)
    BY FS_Subset DEF PortfolioOK
  <2>3. \A j \in U : f[j] \in Nat /\ f[j] = portfolio[j].single
    BY <2>1, OfferIs
  <2>4. SumFunctionOnSet(f, U) \in Nat /\ \A j \in U : f[j] <= SumFunctionOnSet(f, U)
    BY <2>2, <2>3, SumOfNaturals
  <2>. QED
    BY <2>1, <2>3, <2>4 DEF TotalOver
<1>. QED
  BY <1>1 DEF base

\* A cap is a natural.
LEMMA CapIs ==
  ASSUME NEW d \in Dimensions, NEW p
  PROVE  CapBps[d][kind(p, d)] \in Nat
<1>1. CapBps[d].UNKNOWN \in Nat /\ CapBps[d].NAMED \in Nat
  BY PolicyIsSound
<1>. QED
  BY <1>1 DEF kind

\* What a group is allowed: no more than its cap of the whole, nor, for a route, than it is deep.
LEMMA AllowedIs ==
  ASSUME PortfolioOK, NEW d \in Dimensions, NEW i \in DOMAIN portfolio, ~Exempt(portfolio[i], d)
  PROVE  /\ allowed(portfolio, i, d) \in Nat
         /\ Bps * allowed(portfolio, i, d) <= CapBps[d][kind(portfolio[i], d)] * base(portfolio)
         /\ d = "LIQUIDITY" => allowed(portfolio, i, d) <= portfolio[i].depth
<1>1. Bps \in Nat \ {0}
  BY PolicyIsSound
<1>2. PICK c \in Nat : c = CapBps[d][kind(portfolio[i], d)]
  BY CapIs
<1>3. PICK b \in Nat : b = base(portfolio)
  BY TotalsAre
<1>4. PICK cap \in Nat : cap = MulDiv(b, c, Bps) /\ Bps * cap <= b * c
  BY <1>1, DownBounds
<1>5. PICK depths : depths = {portfolio[j].depth : j \in groupMates(portfolio, i, d)}
  OBVIOUS
<1>6. portfolio[i].depth \in depths /\ depths \in SUBSET Nat
  BY <1>5, OfferIs DEF groupMates
<1>7. PICK l \in Nat : l = Lowest(depths) /\ l <= portfolio[i].depth
  BY <1>6, LowestIs
<1>8. PICK A : A = allowed(portfolio, i, d)
  OBVIOUS
<1>9. A = IF d = "LIQUIDITY" THEN Least(cap, l) ELSE cap
  BY <1>2, <1>3, <1>4, <1>5, <1>7, <1>8 DEF allowed
<1>10. A \in Nat /\ A <= cap /\ (d = "LIQUIDITY" => A <= l)
  BY <1>9 DEF Least
<1>11. Bps * A <= Bps * cap /\ Bps * A \in Nat /\ Bps * cap \in Nat
  BY <1>1, <1>10, TimesOrder
<1>12. Bps * A <= c * b
  <2>1. b * c = c * b /\ c * b \in Nat
    OBVIOUS
  <2>. QED
    BY <1>4, <1>11, <2>1
<1>13. d = "LIQUIDITY" => A <= portfolio[i].depth
  <2>1. portfolio[i].depth \in Nat
    BY OfferIs
  <2>. QED
    BY <1>7, <1>10, <2>1
<1>. QED
  BY <1>2, <1>3, <1>8, <1>10, <1>12, <1>13

\* The scale of a dimension is a natural.
LEMMA ScaleIs ==
  ASSUME PortfolioOK, NEW d \in Dimensions, NEW i \in DOMAIN portfolio
  PROVE  dimScale(portfolio, i, d) \in Nat
<1>1. Wad \in Nat
  BY PolicyIsSound
<1>2. PICK total \in Nat : total = TotalOver(portfolio, groupMates(portfolio, i, d))
  BY TotalsAre DEF groupMates
<1>3. CASE Exempt(portfolio[i], d) \/ total = 0
  BY <1>1, <1>2, <1>3 DEF dimScale
<1>4. CASE ~Exempt(portfolio[i], d) /\ total # 0
  <2>1. PICK A \in Nat : A = allowed(portfolio, i, d)
    BY <1>4, AllowedIs
  <2>2. MulDiv(A, Wad, total) \in Nat
    BY <1>1, <1>4, DownBounds
  <2>3. dimScale(portfolio, i, d) = Least(Wad, MulDiv(A, Wad, total))
    BY <1>2, <1>4, <2>1 DEF dimScale
  <2>. QED
    BY <1>1, <2>2, <2>3 DEF Least
<1>. QED
  BY <1>3, <1>4

\* A position works for no more than the scale of any of its dimensions lets it.
LEMMA WorkingIs ==
  ASSUME PortfolioOK, NEW d \in Dimensions, NEW i \in DOMAIN portfolio
  PROVE  /\ working(portfolio, i) \in Nat
         /\ Wad * working(portfolio, i) <= dimScale(portfolio, i, d) * portfolio[i].single
<1>1. Wad \in Nat \ {0}
  BY PolicyIsSound
<1>2. PICK scales : scales = {sessionScaleWad(portfolio[i].session)}
                               \cup {dimScale(portfolio, i, e) : e \in Dimensions}
  OBVIOUS
<1>3. scales \in SUBSET Nat /\ dimScale(portfolio, i, d) \in scales
  BY <1>2, OfferIs, ScaleIs
<1>4. PICK x \in Nat : x = positionScale(portfolio, i) /\ x <= dimScale(portfolio, i, d)
  BY <1>2, <1>3, LowestIs DEF positionScale
<1>5. PICK D \in Nat : D = dimScale(portfolio, i, d)
  BY ScaleIs
<1>6. PICK s \in Nat : s = portfolio[i].single
  BY OfferIs
<1>7. PICK w \in Nat : w = MulDiv(s, x, Wad) /\ Wad * w <= s * x
  BY <1>1, DownBounds
<1>8. s * x <= s * D /\ s * x \in Nat /\ s * D \in Nat
  BY <1>4, <1>5, TimesOrder
<1>9. Wad * w <= D * s
  BY <1>1, <1>7, <1>8
<1>. QED
  BY <1>4, <1>5, <1>6, <1>7, <1>9 DEF working

\* Those of one group have the same mates, total, allowance and scale.
LEMMA MatesAgree ==
  ASSUME NEW d \in Dimensions, NEW i \in DOMAIN portfolio, NEW j \in Mates(d, i)
  PROVE  /\ groupMates(portfolio, i, d) = Mates(d, i)
         /\ ~Exempt(portfolio[i], d) => dimScale(portfolio, j, d) = dimScale(portfolio, i, d)
<1>1. j \in DOMAIN portfolio /\ ~Exempt(portfolio[j], d)
      /\ portfolio[i].groups[d] = portfolio[j].groups[d]
  BY DEF Mates, Related
<1>2. groupMates(portfolio, i, d) = Mates(d, i) /\ groupMates(portfolio, j, d) = Mates(d, i)
  BY <1>1 DEF groupMates, Mates, Related
<1>3. kind(portfolio[i], d) = kind(portfolio[j], d)
  BY <1>1 DEF kind
<1>4. allowed(portfolio, i, d) = allowed(portfolio, j, d)
  BY <1>2, <1>3 DEF allowed
<1>. QED
  BY <1>1, <1>2, <1>4 DEF dimScale

\* What a group works for together is no more than it is allowed.
LEMMA GroupWorksWithin ==
  ASSUME PortfolioOK, NEW d \in Dimensions, NEW i \in DOMAIN portfolio, ~Exempt(portfolio[i], d)
  PROVE  Works(d, i) \in Nat /\ Works(d, i) <= allowed(portfolio, i, d)
<1>1. PICK M : M = Mates(d, i)
  OBVIOUS
<1>2. i \in M /\ M \in SUBSET DOMAIN portfolio
  BY <1>1 DEF Mates, Related
<1>3. IsFiniteSet(M)
  BY <1>2, FS_Subset DEF PortfolioOK
<1>4. PICK A \in Nat : A = allowed(portfolio, i, d)
  BY AllowedIs
<1>5. PICK D \in Nat : D = dimScale(portfolio, i, d)
  BY ScaleIs
<1>6. PICK G \in Nat : G = TotalOver(portfolio, M)
  BY <1>2, TotalsAre
<1>7. PICK f : f = [j \in M |-> working(portfolio, j)]
  OBVIOUS
<1>8. PICK g : g = [j \in M |-> portfolio[j].single]
  OBVIOUS
<1>9. Wad \in Nat \ {0}
  BY PolicyIsSound
<1>10. ASSUME NEW j \in M
       PROVE  f[j] \in Nat /\ g[j] \in Nat /\ Wad * f[j] <= D * g[j]
  <2>1. j \in DOMAIN portfolio /\ dimScale(portfolio, j, d) = D
    BY <1>1, <1>2, <1>5, MatesAgree
  <2>2. working(portfolio, j) \in Nat /\ Wad * working(portfolio, j) <= D * portfolio[j].single
    BY <2>1, WorkingIs
  <2>3. f[j] = working(portfolio, j) /\ g[j] = portfolio[j].single
    BY <1>7, <1>8
  <2>. QED
    BY <2>1, <2>2, <2>3, OfferIs
<1>11. PICK W \in Nat : W = SumFunctionOnSet(f, M)
  BY <1>3, <1>10, SumOfNaturals
<1>12. G = SumFunctionOnSet(g, M)
  BY <1>6, <1>8 DEF TotalOver
<1>13. Works(d, i) = W
  BY <1>1, <1>7, <1>11 DEF Works
<1>14. Wad * W <= D * G
  BY <1>3, <1>9, <1>10, <1>11, <1>12, SumWithin
<1>15. D * G <= A * Wad
  <2>1. groupMates(portfolio, i, d) = M
    BY <1>1, <1>2, MatesAgree
  <2>2. CASE G = 0
    <3>1. D * 0 = 0 /\ A * Wad \in Nat
      BY <1>9
    <3>. QED
      BY <2>2, <3>1
  <2>3. CASE G # 0
    <3>1. PICK q \in Nat : q = MulDiv(A, Wad, G) /\ G * q <= A * Wad
      BY <1>9, <2>3, DownBounds
    <3>2. D = Least(Wad, q)
      BY <1>4, <1>5, <1>6, <2>1, <2>3, <3>1 DEF dimScale
    <3>3. D <= q
      BY <1>9, <3>2 DEF Least
    <3>4. G * D <= G * q /\ G * D \in Nat /\ G * q \in Nat
      BY <3>3, TimesOrder
    <3>5. G * D = D * G /\ A * Wad \in Nat
      BY <1>9
    <3>. QED
      BY <3>1, <3>4, <3>5
  <2>. QED
    BY <2>2, <2>3
<1>16. Wad * W < Wad * A + Wad
  <2>1. A * Wad = Wad * A /\ Wad * W \in Nat /\ D * G \in Nat /\ Wad * A \in Nat
    BY <1>9
  <2>. QED
    BY <1>9, <1>14, <1>15, <2>1
<1>17. W <= A
  BY <1>9, <1>16, Cancel
<1>. QED
  BY <1>4, <1>13, <1>17

\* No group of a dimension works for more than its cap of the whole, nor a route for more than it is
\* deep, whatever is admitted, in any order, and however the caps overlap (evaluate.ts dimensionScales).
THEOREM GroupsAlwaysStayCapped == Spec => []GroupsStayCapped
<1>1. PortfolioOK => GroupsStayCapped
  <2> SUFFICES ASSUME PortfolioOK, NEW d \in Dimensions, NEW i \in DOMAIN portfolio,
                      ~Exempt(portfolio[i], d)
               PROVE  /\ Bps * Works(d, i) <= CapBps[d][kind(portfolio[i], d)] * base(portfolio)
                      /\ d = "LIQUIDITY" => Works(d, i) <= portfolio[i].depth
    BY DEF GroupsStayCapped
  <2>1. PICK A \in Nat : A = allowed(portfolio, i, d)
    BY AllowedIs
  <2>2. PICK W \in Nat : W = Works(d, i) /\ W <= A
    BY <2>1, GroupWorksWithin
  <2>3. PICK c \in Nat : c = CapBps[d][kind(portfolio[i], d)]
    BY CapIs
  <2>4. PICK b \in Nat : b = base(portfolio)
    BY TotalsAre
  <2>5. Bps * A <= c * b /\ (d = "LIQUIDITY" => A <= portfolio[i].depth)
    BY <2>1, <2>3, <2>4, AllowedIs
  <2>6. Bps * W <= Bps * A /\ Bps * W \in Nat /\ Bps * A \in Nat /\ c * b \in Nat
    <3>1. Bps \in Nat
      BY PolicyIsSound
    <3>. QED
      BY <2>2, <3>1, TimesOrder
  <2>7. Bps * W <= c * b
    BY <2>5, <2>6
  <2>8. portfolio[i].depth \in Nat
    BY OfferIs
  <2>9. d = "LIQUIDITY" => W <= portfolio[i].depth
    BY <2>2, <2>5, <2>8
  <2>. QED
    BY <2>2, <2>3, <2>4, <2>7, <2>9
<1>. QED
  BY <1>1, PortfolioAlways, PTL

-----------------------------------------------------------------------------
(* The figures: what does not restrict was read from a block that is final. *)

\* A view of a final block says what the chain says there.
SaysTheChain(view) ==
  /\ view.block \in 1..settled /\ chain[view.block].tx = view.tx
  /\ view.factor = FactorAt(SubSeq(chain, 1, view.block))

ChainOK ==
  /\ chain \in Seq(Range(chain))
  /\ settled \in 0..Height /\ Monus(Height, SafeDepth) <= settled

FiguresOK ==
  /\ ChainOK
  /\ snapshot.feed = "LIVE" => SaysTheChain(snapshot)
  /\ \A r \in readings :
       /\ r.block \in Nat /\ (r.head # Unreachable => r.head \in Nat)
       /\ r.head # Unreachable /\ Deep(r.block, r.head) => SaysTheChain(r)

\* A sequence is one of what is in it.
LEMMA OfItsRange ==
  ASSUME NEW S, NEW s \in Seq(S)
  PROVE  s \in Seq(Range(s))
<1>1. PICK n \in Nat : n = Len(s)
  OBVIOUS
<1>2. s \in [1..n -> S] /\ DOMAIN s = 1..n
  BY <1>1
<1>3. s \in [1..n -> Range(s)]
  BY <1>2 DEF Range
<1>. QED
  BY <1>3, SeqDef

\* Two sequences that agree so far have the same beginning.
LEMMA BeginningIs ==
  ASSUME NEW S, NEW s \in Seq(S), NEW t \in Seq(S), NEW n \in Nat, n <= Len(s), n <= Len(t),
         \A i \in 1..n : s[i] = t[i]
  PROVE  SubSeq(s, 1, n) = SubSeq(t, 1, n)
<1>1. PICK u : u = SubSeq(s, 1, n)
  OBVIOUS
<1>2. PICK v : v = SubSeq(t, 1, n)
  OBVIOUS
<1>3. /\ 1 \in Int /\ n \in Int /\ \A i \in 1..n : s[i] \in S /\ t[i] \in S /\ 1 + i - 1 = i
      /\ n - 1 + 1 = n
  OBVIOUS
<1>4. /\ u \in Seq(S) /\ Len(u) = IF 1 <= n THEN n - 1 + 1 ELSE 0
      /\ \A i \in 1..(n - 1 + 1) : u[i] = s[1 + i - 1]
  BY <1>1, <1>3, SubSeqProperties
<1>5. /\ v \in Seq(S) /\ Len(v) = IF 1 <= n THEN n - 1 + 1 ELSE 0
      /\ \A i \in 1..(n - 1 + 1) : v[i] = t[1 + i - 1]
  BY <1>2, <1>3, SubSeqProperties
<1>6. Len(u) = n /\ Len(v) = n
  BY <1>4, <1>5
<1>7. \A i \in 1..Len(u) : u[i] = v[i]
  BY <1>3, <1>4, <1>5, <1>6
<1>8. u = v
  BY <1>4, <1>5, <1>6, <1>7, SeqEqual
<1>. QED
  BY <1>1, <1>2, <1>8

\* What is final stays so, and stays as it is.
FinalStays ==
  /\ settled' \in Nat /\ settled <= settled' /\ settled <= Height'
  /\ \A b \in 1..settled : chain'[b] = chain[b]
  /\ \A b \in 1..settled : SubSeq(chain', 1, b) = SubSeq(chain, 1, b)

\* A block that is mined or replaced is none of the final ones.
LEMMA ChainStep ==
  ASSUME ChainOK, Mine \/ Reorganise
  PROVE  ChainOK' /\ FinalStays
<1>1. SafeDepth \in Nat
  BY CorporateConstants
<1>2. PICK n \in Nat : n = Height
  BY DEF ChainOK, Height
<1>3. settled \in Nat /\ settled <= n
  BY <1>2 DEF ChainOK
<1>4. \E S : /\ chain \in Seq(S) /\ chain' \in Seq(S)
             /\ Height' \in Nat /\ settled' \in Nat /\ settled <= settled'
             /\ settled' <= Height' /\ Monus(Height', SafeDepth) <= settled'
             /\ \A b \in 1..settled : chain'[b] = chain[b]
  <2>1. CASE Mine
    <3>1. PICK e : chain' = Append(chain, e)
      BY <2>1 DEF Mine
    <3> DEFINE S == Range(chain) \cup {e}
    <3>2. chain \in Seq(S)
      <4>1. chain \in Seq(Range(chain)) /\ Range(chain) \subseteq S
        BY DEF ChainOK
      <4>. QED
        BY <4>1, SeqMonotonic
    <3>3. /\ chain' \in Seq(S) /\ Len(chain') = n + 1
          /\ \A b \in 1..n : chain'[b] = chain[b]
      <4>1. e \in S
        OBVIOUS
      <4> HIDE DEF S
      <4>. QED
        BY <1>2, <3>1, <3>2, <4>1 DEF Height
    <3>4. settled' = Greatest(settled, Monus(n + 1, SafeDepth))
      BY <1>2, <2>1 DEF Mine
    <3>5. settled' \in Nat /\ settled <= settled' /\ settled' <= n + 1
      BY <1>1, <1>3, <3>4 DEF Greatest, Monus
    <3>6. Monus(n + 1, SafeDepth) <= settled'
      BY <1>1, <1>3, <3>4 DEF Greatest, Monus
    <3>7. \A b \in 1..settled : chain'[b] = chain[b]
      BY <1>3, <3>3
    <3> HIDE DEF S
    <3>. QED
      BY <3>2, <3>3, <3>5, <3>6, <3>7 DEF Height
  <2>2. CASE Reorganise
    <3>1. PICK h \in settled + 1..Height : chain' = SubSeq(chain, 1, h - 1)
      BY <2>2 DEF Reorganise
    <3>2. PICK k \in Nat : k = h - 1 /\ settled <= k /\ k < n
      BY <1>2, <1>3, <3>1
    <3>3. chain \in Seq(Range(chain)) /\ \A b \in 1..k : chain[b] \in Range(chain)
      BY <1>2, <3>2 DEF ChainOK, Height, Range
    <3>4. PICK u : u = SubSeq(chain, 1, k)
      OBVIOUS
    <3>5. /\ u \in Seq(Range(chain)) /\ Len(u) = IF 1 <= k THEN k - 1 + 1 ELSE 0
          /\ \A i \in 1..(k - 1 + 1) : u[i] = chain[1 + i - 1]
      <4>1. 1 \in Int /\ k \in Int
        BY <3>2
      <4>. QED
        BY <3>3, <3>4, <4>1, SubSeqProperties
    <3>6. chain' = u /\ Len(u) = k
      BY <3>1, <3>2, <3>4, <3>5
    <3>7. \A b \in 1..settled : u[b] = chain[b]
      <4>1. \A b \in 1..settled : b \in 1..(k - 1 + 1) /\ 1 + b - 1 = b
        BY <1>3, <3>2
      <4>. QED
        BY <3>5, <4>1
    <3>8. settled' = settled
      BY <2>2 DEF Reorganise
    <3>9. Monus(k, SafeDepth) <= settled
      <4>1. Monus(n, SafeDepth) <= settled
        BY <1>2 DEF ChainOK
      <4>. QED
        BY <1>1, <1>3, <3>2, <4>1 DEF Monus
    <3>. QED
      BY <1>3, <3>2, <3>3, <3>5, <3>6, <3>7, <3>8, <3>9 DEF Height
  <2>. QED
    BY <2>1, <2>2
<1>5. PICK S : /\ chain \in Seq(S) /\ chain' \in Seq(S)
               /\ Height' \in Nat /\ settled' \in Nat /\ settled <= settled'
               /\ settled' <= Height' /\ Monus(Height', SafeDepth) <= settled'
               /\ \A b \in 1..settled : chain'[b] = chain[b]
  BY <1>4
<1>6. chain' \in Seq(Range(chain'))
  BY <1>5, OfItsRange
<1>7. ChainOK'
  BY <1>5, <1>6 DEF ChainOK
<1>8. ASSUME NEW b \in 1..settled
      PROVE  SubSeq(chain', 1, b) = SubSeq(chain, 1, b)
  <2>1. b \in Nat /\ b <= Len(chain) /\ b <= Len(chain')
    BY <1>2, <1>3, <1>5 DEF Height
  <2>2. \A i \in 1..b : chain'[i] = chain[i]
    BY <1>3, <1>5
  <2>. QED
    BY <1>5, <2>1, <2>2, BeginningIs
<1>. QED
  BY <1>3, <1>5, <1>7, <1>8 DEF FinalStays

\* What is said of a final block is said for good.
LEMMA SaidForGood ==
  ASSUME FinalStays, settled \in Nat, NEW view, SaysTheChain(view)
  PROVE  /\ view.block \in 1..settled' /\ chain'[view.block].tx = view.tx
         /\ view.factor = FactorAt(SubSeq(chain', 1, view.block))
<1>1. view.block \in 1..settled /\ view.block \in 1..settled'
  BY DEF SaysTheChain, FinalStays
<1>2. chain'[view.block] = chain[view.block]
  BY <1>1 DEF FinalStays
<1>3. SubSeq(chain', 1, view.block) = SubSeq(chain, 1, view.block)
  BY <1>1 DEF FinalStays
<1>. QED
  BY <1>1, <1>2, <1>3 DEF SaysTheChain

\* A figure that does not restrict is final, at every step.
THEOREM FiguresAlways == Spec => []FiguresOK
<1>1. Init => FiguresOK
  <2> SUFFICES ASSUME Init
               PROVE  FiguresOK
    OBVIOUS
  <2>1. chain = <<>> /\ settled = 0 /\ readings = {} /\ snapshot = NoSnapshot /\ SafeDepth \in Nat
    BY CorporateConstants DEF Init
  <2>2. chain \in Seq(Range(chain)) /\ Len(chain) = 0
    BY <2>1
  <2>3. ChainOK
    BY <2>1, <2>2 DEF ChainOK, Height, Monus
  <2>4. snapshot.feed # "LIVE"
    BY <2>1 DEF NoSnapshot
  <2>. QED
    BY <2>1, <2>3, <2>4 DEF FiguresOK
<1>2. ASSUME FiguresOK, [Next]_vars
      PROVE  FiguresOK'
  <2>1. settled \in Nat /\ ChainOK /\ SafeDepth \in Nat
    BY <1>2, CorporateConstants DEF FiguresOK, ChainOK
  <2>2. CASE Mine \/ Reorganise
    <3>1. ChainOK' /\ FinalStays
      BY <2>1, <2>2, ChainStep
    <3>2. UNCHANGED <<readings, snapshot>>
      BY <2>2 DEF Mine, Reorganise, observing
    <3>3. snapshot.feed = "LIVE" => SaysTheChain(snapshot)'
      BY <1>2, <2>1, <3>1, <3>2, SaidForGood DEF FiguresOK, SaysTheChain
    <3>4. ASSUME NEW r \in readings
          PROVE  /\ r.block \in Nat /\ (r.head # Unreachable => r.head \in Nat)
                 /\ r.head # Unreachable /\ Deep(r.block, r.head) =>
                      /\ r.block \in 1..settled' /\ chain'[r.block].tx = r.tx
                      /\ r.factor = FactorAt(SubSeq(chain', 1, r.block))
      BY <1>2, <2>1, <3>1, <3>4, SaidForGood DEF FiguresOK
    <3>. QED
      BY <3>1, <3>2, <3>3, <3>4 DEF FiguresOK, SaysTheChain
  <2>3. CASE Observe
    <3>1. UNCHANGED <<chain, settled, snapshot>>
      BY <2>3 DEF Observe, chainState
    <3>2. PICK b \in 1..Height, head \in {Height, Unreachable} :
            readings' = readings \cup {Reading(b, head)}
      BY <2>3 DEF Observe
    <3>3. PICK r : r = Reading(b, head)
      OBVIOUS
    <3>4. /\ r.block = b /\ r.head = head /\ r.tx = chain[b].tx
          /\ r.factor = FactorAt(SubSeq(chain, 1, b))
      BY <3>3 DEF Reading
    <3>5. Height \in Nat /\ b \in Nat
      BY <2>1, <3>2 DEF ChainOK, Height
    <3>6. r.block \in Nat /\ (r.head # Unreachable => r.head \in Nat)
      BY <3>2, <3>4, <3>5
    <3>7. ASSUME r.head # Unreachable, Deep(r.block, r.head)
          PROVE  SaysTheChain(r)
      <4>1. r.head = Height /\ Height - b >= SafeDepth /\ b >= 1
        BY <3>2, <3>4, <3>7 DEF Deep
      <4>2. Monus(Height, SafeDepth) <= settled
        BY <2>1 DEF ChainOK
      <4>3. b \in 1..settled
        BY <2>1, <3>5, <4>1, <4>2 DEF Monus
      <4>. QED
        BY <3>4, <4>3 DEF SaysTheChain
    <3>8. \A q \in readings' :
            /\ q.block \in Nat /\ (q.head # Unreachable => q.head \in Nat)
            /\ q.head # Unreachable /\ Deep(q.block, q.head) => SaysTheChain(q)
      <4>1. \A q \in readings' : q \in readings \/ q = r
        BY <3>2, <3>3
      <4>. QED
        BY <1>2, <3>6, <3>7, <4>1 DEF FiguresOK
    <3>9. ChainOK'
      BY <2>1, <3>1 DEF ChainOK, Height
    <3>. QED
      BY <1>2, <3>1, <3>8, <3>9 DEF FiguresOK, SaysTheChain
  <2>4. CASE Ingest
    <3>1. UNCHANGED <<chain, settled, readings>>
      BY <2>4 DEF Ingest, chainState
    <3>2. PICK r \in readings :
            r.head # Unreachable /\ snapshot' = reconcileSnapshot(snapshot, Observed(r), r.head)
      BY <2>4 DEF Ingest
    <3>3. snapshot' = snapshot \/ snapshot' = staged(Observed(r), r.head)
      BY <3>2 DEF reconcileSnapshot
    <3>4. ASSUME snapshot' = staged(Observed(r), r.head), snapshot'.feed = "LIVE"
          PROVE  SaysTheChain(snapshot')
      <4>1. /\ Observed(r).block = r.block /\ Observed(r).tx = r.tx
            /\ Observed(r).factor = r.factor
        BY DEF Observed
      <4>2. [Observed(r) EXCEPT !.feed = "STALE"].feed = "STALE"
        BY DEF Observed
      <4>3. Deep(r.block, r.head) /\ snapshot' = Observed(r)
        BY <3>4, <4>1, <4>2 DEF staged
      <4>4. SaysTheChain(r)
        BY <1>2, <3>2, <4>3 DEF FiguresOK
      <4>. QED
        BY <4>1, <4>3, <4>4 DEF SaysTheChain
    <3>5. snapshot'.feed = "LIVE" => SaysTheChain(snapshot')
      BY <1>2, <3>3, <3>4 DEF FiguresOK
    <3>6. ChainOK'
      BY <2>1, <3>1 DEF ChainOK, Height
    <3>. QED
      BY <1>2, <3>1, <3>5, <3>6 DEF FiguresOK, SaysTheChain
  <2>5. CASE UNCHANGED <<chain, settled, snapshot>> /\ readings' \subseteq readings
    <3>1. ChainOK'
      BY <2>1, <2>5 DEF ChainOK, Height
    <3>. QED
      BY <1>2, <2>5, <3>1 DEF FiguresOK, SaysTheChain
  <2>6. ASSUME ReadNext
        PROVE  \/ Mine \/ Reorganise \/ Observe \/ Ingest
               \/ UNCHANGED <<chain, settled, snapshot>> /\ readings' \subseteq readings
    BY <2>6 DEF ReadNext, Deliver, RollBack, Drop, Deposit, Redeem, Rebase, Donate, Charge,
                Account, Admit, chainState, observing
  <2>7. ReadNext \/ UNCHANGED <<chain, settled, snapshot, readings>>
    BY <1>2 DEF Next, vars, readVars, chainState, observing
  <2>. QED
    BY <2>2, <2>3, <2>4, <2>5, <2>6, <2>7
<1>. QED
  BY <1>1, <1>2, PTL DEF Spec

\* A figure that does not restrict was read from a block that no reorganisation takes away, and
\* the snapshot says what the chain says there, however many there are (ingestion.ts
\* belowSafeDepth, facility.ts positionView).
THEOREM FiguresDoOutliveReorgs == Spec => []FiguresOutliveReorgs
<1>1. FiguresOK => FiguresOutliveReorgs
  <2> SUFFICES ASSUME FiguresOK
               PROVE  FiguresOutliveReorgs
    OBVIOUS
  <2>1. \A view : SaysTheChain(view) => Canonical(view)
    BY DEF FiguresOK, ChainOK, SaysTheChain, Canonical, Height
  <2>2. snapshot.feed # "NONE" /\ ~restrictNewRisk(snapshot) => SaysTheChain(snapshot)
    BY DEF FiguresOK, restrictNewRisk
  <2>3. ASSUME NEW r \in readings, counted(r)
        PROVE  SaysTheChain(r)
    <3>1. r.block \in Nat /\ SafeDepth \in Nat
      BY CorporateConstants DEF FiguresOK
    <3>2. r.head = Unreachable => ~Deep(r.block, r.head)
      BY <3>1 DEF Unreachable, Deep
    <3>3. r.head # Unreachable /\ Deep(r.block, r.head)
      BY <2>3, <3>2 DEF counted, finality
    <3>. QED
      BY <3>3 DEF FiguresOK
  <2>. QED
    BY <2>1, <2>2, <2>3 DEF FiguresOutliveReorgs, SaysTheChain
<1>. QED
  BY <1>1, FiguresAlways, PTL

-----------------------------------------------------------------------------
(* The log: what its events leave of a mandate.                             *)

\* A projection is a record of three fields.
IsView(v) == v = [status |-> v.status, drawn |-> v.drawn, firstSeen |-> v.firstSeen]

\* What an event does to a projection.
LEMMA UpdatedIs ==
  ASSUME NEW v, IsView(v), v.firstSeen \in Nat, NEW e, e.block \in Nat
  PROVE  /\ IsView(updated(v, e)) /\ updated(v, e).firstSeen \in Nat
         /\ updated(v, e).drawn \in {0, v.drawn, e.total}
         /\ IF v = Unseen THEN updated(v, e).firstSeen = e.block
            ELSE /\ updated(v, e).firstSeen \in {v.firstSeen, e.block}
                 /\ updated(v, e).firstSeen <= v.firstSeen
         /\ updated(v, e).status \in {v.status, "ACTIVE", "PAUSED", "REVOKED"}
         /\ v.status = "REVOKED" \/ e.kind = "MandateRevoked" => updated(v, e).status = "REVOKED"
<1>1. PICK k : k = Known(v, e.block)
  OBVIOUS
<1>2. /\ IsView(k) /\ k.firstSeen \in Nat
      /\ v = Unseen => k = [status |-> "ACTIVE", drawn |-> 0, firstSeen |-> e.block]
      /\ v # Unseen => k = v
  BY <1>1 DEF Known, Placeholder, IsView
<1>3. k.status \in {v.status, "ACTIVE"} /\ (v.status = "REVOKED" => k.status = "REVOKED")
  BY <1>2 DEF Unseen
<1>4. CASE e.kind = "MandateRegistered"
  <2>1. updated(v, e) = [k EXCEPT !.firstSeen = Least(k.firstSeen, e.block)]
    BY <1>1, <1>4 DEF updated, registered
  <2>2. updated(v, e) = [status |-> k.status, drawn |-> k.drawn,
                         firstSeen |-> Least(k.firstSeen, e.block)]
    BY <1>2, <2>1 DEF IsView
  <2>3. /\ Least(k.firstSeen, e.block) \in {k.firstSeen, e.block}
        /\ Least(k.firstSeen, e.block) <= k.firstSeen
    BY <1>2 DEF Least
  <2>4. k.drawn \in {0, v.drawn}
    BY <1>2
  <2>. QED
    BY <1>2, <1>3, <1>4, <2>2, <2>3, <2>4 DEF IsView
<1>5. CASE e.kind # "MandateRegistered"
  <2> DEFINE status == statusAfter(k.status, e.kind)
             drawn == IF e.kind = "MandateConsumed" THEN e.total ELSE k.drawn
  <2>1. updated(v, e) = [k EXCEPT !.status = status, !.drawn = drawn]
    BY <1>1, <1>5 DEF updated, patched
  <2>2. updated(v, e) = [status |-> status, drawn |-> drawn, firstSeen |-> k.firstSeen]
    <3> HIDE DEF status, drawn
    <3>. QED
      BY <1>2, <2>1 DEF IsView
  <2>3. /\ status \in {k.status, "ACTIVE", "PAUSED", "REVOKED"}
        /\ k.status = "REVOKED" \/ e.kind = "MandateRevoked" => status = "REVOKED"
    BY DEF statusAfter
  <2>4. drawn \in {0, v.drawn, e.total}
    BY <1>2
  <2> HIDE DEF status, drawn
  <2>. QED
    BY <1>2, <1>3, <2>2, <2>3, <2>4 DEF IsView
<1>. QED
  BY <1>4, <1>5

\* The function a fold of the log is defined by.
LogFolds(events, S, g) ==
  g = [T \in SUBSET S |-> IF T = {} THEN Unseen
                          ELSE updated(g[T \ {Max(T)}], events[Max(T)])]

LEMMA FoldIs == ASSUME NEW events, NEW S
                PROVE  Fold(events, S) = (CHOOSE g : LogFolds(events, S, g))[S]
BY Zenon DEF Fold, MapThenFoldSet, LogFolds

\* There is such a function.
LEMMA LogFoldExists ==
  ASSUME NEW events, NEW S \in SUBSET Nat, IsFiniteSet(S), \A b \in S : events[b].block \in Nat
  PROVE  \E g : LogFolds(events, S, g)
<1> DEFINE Totals == {0} \cup {events[b].total : b \in S}
           W == [status : {"NONE", "ACTIVE", "PAUSED", "REVOKED"}, drawn : Totals, firstSeen : Nat]
           first == [T \in SUBSET S |-> Max(T)]
           step == [b \in S |-> [v \in W |-> updated(v, events[b])]]
<1>1. \A T \in SUBSET S : T # {} => first[T] \in T
  <2> SUFFICES ASSUME NEW T \in SUBSET S, T # {}
               PROVE  Max(T) \in T
    OBVIOUS
  <2>1. IsFiniteSet(T) /\ T \in SUBSET Nat
    BY FS_Subset
  <2>. QED
    BY <2>1, GreatestOf
<1>2. Unseen \in W
  BY DEF Unseen
<1>3. step \in [S -> [W -> W]]
  <2> SUFFICES ASSUME NEW b \in S, NEW v \in W
               PROVE  updated(v, events[b]) \in W
    OBVIOUS
  <2>1. /\ v.status \in {"NONE", "ACTIVE", "PAUSED", "REVOKED"} /\ v.drawn \in Totals
        /\ v.firstSeen \in Nat /\ IsView(v)
    BY DEF IsView
  <2>2. events[b].block \in Nat /\ {0, v.drawn, events[b].total} \subseteq Totals
    BY <2>1
  <2>3. PICK u : u = updated(v, events[b])
    OBVIOUS
  <2> HIDE DEF Totals
  <2>4. /\ u = [status |-> u.status, drawn |-> u.drawn, firstSeen |-> u.firstSeen]
        /\ u.firstSeen \in Nat /\ u.drawn \in {0, v.drawn, events[b].total}
        /\ u.status \in {v.status, "ACTIVE", "PAUSED", "REVOKED"}
    BY <2>1, <2>2, <2>3, UpdatedIs DEF IsView
  <2>5. u.drawn \in Totals /\ u.status \in {"NONE", "ACTIVE", "PAUSED", "REVOKED"}
    BY <2>1, <2>2, <2>4
  <2>. QED
    BY <2>3, <2>4, <2>5
<1>4. PICK g \in [SUBSET S -> W] : Folds(S, Unseen, step, first, g)
  <2> HIDE DEF W, first, step
  <2>. QED
    BY <1>1, <1>2, <1>3, FoldExists
<1>5. ASSUME NEW T \in SUBSET S
      PROVE  g[T] = IF T = {} THEN Unseen ELSE updated(g[T \ {Max(T)}], events[Max(T)])
  <2>1. g[T] = IF T = {} THEN Unseen ELSE step[first[T]][g[T \ {first[T]}]]
    <3> HIDE DEF W, first, step
    <3>. QED
      BY <1>4 DEF Folds
  <2>2. T # {} => Max(T) \in S /\ first[T] = Max(T)
    BY <1>1
  <2>3. g[T \ {Max(T)}] \in W
    <3> HIDE DEF W
    <3>. QED
      BY <1>4
  <2> HIDE DEF W, first
  <2>. QED
    BY <2>1, <2>2, <2>3
<1>. QED
  <2> HIDE DEF W
  <2>. QED
    BY <1>4, <1>5 DEF LogFolds

\* Only the events that are folded matter.
LEMMA LogFoldUnique ==
  ASSUME NEW events, NEW others, NEW S \in SUBSET Nat, IsFiniteSet(S), NEW T \in SUBSET S,
         NEW g, LogFolds(events, S, g), NEW h, LogFolds(others, T, h),
         \A b \in T : events[b] = others[b]
  PROVE  \A U \in SUBSET T : g[U] = h[U]
<1> DEFINE X == {U \in SUBSET T : g[U] = h[U]}
<1>1. IsFiniteSet(T)
  BY FS_Subset
<1>2. ASSUME NEW U \in SUBSET T, \A V \in SUBSET U : V # U => V \in X
      PROVE  U \in X
  <2>1. g[U] = IF U = {} THEN Unseen ELSE updated(g[U \ {Max(U)}], events[Max(U)])
    BY DEF LogFolds
  <2>2. h[U] = IF U = {} THEN Unseen ELSE updated(h[U \ {Max(U)}], others[Max(U)])
    BY DEF LogFolds
  <2>3. U # {} => Max(U) \in U
    <3>1. IsFiniteSet(U) /\ U \in SUBSET Nat
      BY <1>1, FS_Subset
    <3>. QED
      BY <3>1, GreatestOf
  <2>4. U # {} => g[U \ {Max(U)}] = h[U \ {Max(U)}]
    BY <1>2, <2>3
  <2>. QED
    BY <2>1, <2>2, <2>3, <2>4
<1>3. SUBSET T \subseteq X
  <2> HIDE DEF X
  <2>. QED
    BY <1>1, <1>2, SubsetInduction
<1>. QED
  BY <1>3

\* A log is folded the same whatever follows it.
LEMMA FoldSame ==
  ASSUME NEW events, NEW others, NEW S \in SUBSET Nat, IsFiniteSet(S),
         \A b \in S : events[b].block \in Nat /\ events[b] = others[b]
  PROVE  Fold(events, S) = Fold(others, S)
<1> DEFINE g == CHOOSE g : LogFolds(events, S, g)
           h == CHOOSE h : LogFolds(others, S, h)
<1>1. LogFolds(events, S, g) /\ LogFolds(others, S, h)
  BY LogFoldExists
<1>2. Fold(events, S) = g[S] /\ Fold(others, S) = h[S]
  BY FoldIs
<1> HIDE DEF g, h
<1>. QED
  BY <1>1, <1>2, LogFoldUnique

\* A later event is applied to what the earlier ones leave.
LEMMA FoldNext ==
  ASSUME NEW events, NEW S \in SUBSET Nat, IsFiniteSet(S), NEW b \in Nat, \A c \in S : c < b,
         \A c \in S \cup {b} : events[c].block \in Nat
  PROVE  /\ Fold(events, S \cup {b}) = updated(Fold(events, S), events[b])
         /\ Fold(events, {}) = Unseen
<1> DEFINE T == S \cup {b}
           g == CHOOSE g : LogFolds(events, T, g)
           h == CHOOSE h : LogFolds(events, S, h)
           k == CHOOSE k : LogFolds(events, {}, k)
<1>1. IsFiniteSet(T) /\ T \in SUBSET Nat
  BY FS_AddElement
<1>2. LogFolds(events, T, g) /\ LogFolds(events, S, h)
  <2> HIDE DEF T
  <2>1. \A c \in T : events[c].block \in Nat
    BY DEF T
  <2>. QED
    BY <1>1, <2>1, LogFoldExists
<1>3. LogFolds(events, {}, k)
  <2>1. IsFiniteSet({}) /\ {} \in SUBSET Nat
    BY FS_EmptySet
  <2>. QED
    BY <2>1, LogFoldExists
<1>4. Fold(events, T) = g[T] /\ Fold(events, S) = h[S] /\ Fold(events, {}) = k[{}]
  BY FoldIs
<1> HIDE DEF g, h, k
<1>5. Max(T) = b
  <2>1. b \in T
    OBVIOUS
  <2>2. \A c \in T : c \in S \/ c = b
    OBVIOUS
  <2>3. \A c \in T : c \in Nat /\ c <= b
    <3> HIDE DEF T
    <3>1. ASSUME NEW c \in S
          PROVE  c \in Nat /\ c <= b
      <4>1. c \in Nat /\ c < b
        OBVIOUS
      <4>. QED
        BY <4>1
    <3>2. b <= b
      OBVIOUS
    <3>. QED
      BY <2>2, <3>1, <3>2
  <2> HIDE DEF T
  <2>4. PICK m : m = Max(T)
    OBVIOUS
  <2>5. m \in T /\ b <= m
    BY <1>1, <2>1, <2>4, GreatestOf
  <2>6. m \in Nat /\ m <= b
    BY <2>3, <2>5
  <2>7. m = b
    BY <2>5, <2>6
  <2>. QED
    BY <2>4, <2>7
<1>6. T \ {b} = S
  <2>1. b \notin S
    <3>1. ~(b < b)
      OBVIOUS
    <3>. QED
      BY <3>1
  <2>. QED
    BY <2>1
<1>7. g[S] = h[S]
  <2>1. S \in SUBSET T /\ S \in SUBSET S /\ \A c \in S : events[c] = events[c]
    OBVIOUS
  <2> HIDE DEF T
  <2>2. \A U \in SUBSET S : g[U] = h[U]
    BY <1>1, <1>2, <2>1, LogFoldUnique
  <2>. QED
    BY <2>1, <2>2
<1>8. g[T] = updated(g[S], events[b])
  <2>1. T # {} /\ T \in SUBSET T
    OBVIOUS
  <2> HIDE DEF T
  <2>. QED
    BY <1>2, <1>5, <1>6, <2>1 DEF LogFolds
<1>9. k[{}] = Unseen
  BY <1>3 DEF LogFolds
<1>. QED
  BY <1>4, <1>7, <1>8, <1>9

-----------------------------------------------------------------------------
(* The feed: in block order, whatever is recorded and rolled back.          *)

\* The function that keeps the events below a block, by the events it has gone through.
Keeps(events, block, g) ==
  g = [T \in SUBSET DOMAIN events |->
         IF T = {} THEN <<>>
         ELSE IF events[Max(T)].block < block
              THEN Append(g[T \ {Max(T)}], events[Max(T)]) ELSE g[T \ {Max(T)}]]

LEMMA BelowByFold ==
  ASSUME NEW events, NEW block
  PROVE  eventsBelow(events, block) = (CHOOSE g : Keeps(events, block, g))[DOMAIN events]
BY Zenon DEF eventsBelow, FoldLeft, MapThenFoldSet, Keeps

\* There is such a function.
LEMMA KeepsExists ==
  ASSUME NEW S, NEW events \in Seq(S), NEW block
  PROVE  \E g : Keeps(events, block, g)
<1>1. PICK n \in Nat : n = Len(events)
  OBVIOUS
<1>2. events \in [1..n -> S] /\ DOMAIN events = 1..n /\ IsFiniteSet(1..n)
  BY <1>1, FS_Interval
<1> DEFINE D == 1..n
           W == Seq(S)
           first == [T \in SUBSET D |-> Max(T)]
           step == [i \in D |-> [w \in W |-> IF events[i].block < block
                                             THEN Append(w, events[i]) ELSE w]]
<1>3. \A T \in SUBSET D : T # {} => first[T] \in T
  BY GreatestIs
<1>4. <<>> \in W /\ step \in [D -> [W -> W]]
  BY <1>2
<1>5. PICK g \in [SUBSET D -> W] : Folds(D, <<>>, step, first, g)
  <2> HIDE DEF W, first, step
  <2>. QED
    BY <1>2, <1>3, <1>4, FoldExists
<1>6. ASSUME NEW T \in SUBSET D
      PROVE  g[T] = IF T = {} THEN <<>>
                    ELSE IF events[Max(T)].block < block
                         THEN Append(g[T \ {Max(T)}], events[Max(T)]) ELSE g[T \ {Max(T)}]
  <2>1. g[T] = IF T = {} THEN <<>> ELSE step[first[T]][g[T \ {first[T]}]]
    <3> HIDE DEF W, first, step
    <3>. QED
      BY <1>5 DEF Folds
  <2>2. T # {} => Max(T) \in D /\ first[T] = Max(T)
    BY <1>3
  <2>3. g[T \ {Max(T)}] \in W
    <3> HIDE DEF W
    <3>. QED
      BY <1>5
  <2> HIDE DEF W, first
  <2>. QED
    BY <2>1, <2>2, <2>3
<1>. QED
  <2> HIDE DEF W
  <2>. QED
    BY <1>2, <1>5, <1>6 DEF Keeps

\* What is kept of events in block order are those below the block, in block order.
LEMMA BelowIs ==
  ASSUME NEW S, \A e \in S : e.block \in Nat,
         NEW events \in Seq(S), InBlockOrder(events), NEW block \in Nat
  PROVE  /\ eventsBelow(events, block) \in Seq(S)
         /\ Range(eventsBelow(events, block)) = {e \in Range(events) : e.block < block}
         /\ InBlockOrder(eventsBelow(events, block))
<1>1. PICK n \in Nat : n = Len(events)
  OBVIOUS
<1>2. events \in [1..n -> S] /\ DOMAIN events = 1..n
  BY <1>1
<1>3. PICK g : Keeps(events, block, g) /\ eventsBelow(events, block) = g[1..n]
  BY <1>2, KeepsExists, BelowByFold
<1> DEFINE Kept(m) == /\ g[1..m] \in Seq(S) /\ InBlockOrder(g[1..m])
                      /\ Range(g[1..m]) = {e \in {events[i] : i \in 1..m} : e.block < block}
           N == {m \in Nat : m <= n => Kept(m)}
<1>4. 0 \in N
  <2>1. 1..0 = {} /\ g[{}] = <<>>
    BY <1>3 DEF Keeps
  <2>2. <<>> \in Seq(S) /\ InBlockOrder(<<>>) /\ Range(<<>>) = {}
    BY DEF InBlockOrder, Range
  <2>. QED
    BY <2>1, <2>2
<1>5. ASSUME NEW m \in N
      PROVE  m + 1 \in N
  <2> SUFFICES ASSUME m + 1 <= n
               PROVE  Kept(m + 1)
    OBVIOUS
  <2>1. m \in Nat /\ m <= n /\ Kept(m)
    OBVIOUS
  <2>2. PICK u : u = g[1..m]
    OBVIOUS
  <2>3. PICK e : e = events[m + 1]
    OBVIOUS
  <2>4. e \in S /\ e.block \in Nat
    BY <1>2, <2>1, <2>3
  <2>5. g[1..(m + 1)] = IF e.block < block THEN Append(u, e) ELSE u
    <3>1. /\ 1..(m + 1) \in SUBSET DOMAIN events /\ 1..(m + 1) # {}
          /\ (1..(m + 1)) \ {m + 1} = 1..m
      <4>1. \A i \in 1..(m + 1) : i \in 1..n
        BY <2>1
      <4>2. m + 1 \in 1..(m + 1) /\ (1..(m + 1)) \ {m + 1} = 1..m
        BY <2>1
      <4>. QED
        BY <1>2, <4>1, <4>2
    <3>2. Max(1..(m + 1)) = m + 1
      <4> HIDE DEF Kept
      <4>1. PICK q \in Nat : q = m + 1 /\ q \in 1..q
        BY <2>1
      <4>2. PICK R : R = 1..q
        OBVIOUS
      <4>3. IsFiniteSet(R)
        BY <4>1, <4>2, FS_Interval
      <4>4. R \in SUBSET Nat /\ q \in R
        BY <4>1, <4>2
      <4>5. Max(R) \in R /\ q <= Max(R)
        BY <4>3, <4>4, GreatestOf
      <4>6. Max(R) = q
        BY <4>1, <4>2, <4>5
      <4>. QED
        BY <4>1, <4>2, <4>6
    <3>3. PICK R : R = 1..(m + 1)
      OBVIOUS
    <3>4. R \in SUBSET DOMAIN events /\ R # {} /\ Max(R) = m + 1 /\ R \ {Max(R)} = 1..m
      BY <3>1, <3>2, <3>3
    <3>5. g[R] = IF events[Max(R)].block < block
                 THEN Append(g[R \ {Max(R)}], events[Max(R)]) ELSE g[R \ {Max(R)}]
      BY <1>3, <3>4 DEF Keeps
    <3>. QED
      BY <2>2, <2>3, <3>3, <3>4, <3>5
  <2>6. /\ u \in Seq(S) /\ InBlockOrder(u)
        /\ Range(u) = {x \in {events[i] : i \in 1..m} : x.block < block}
    BY <2>1, <2>2
  <2>7. {events[i] : i \in 1..(m + 1)} = {events[i] : i \in 1..m} \cup {e}
    <3>1. 1..(m + 1) = 1..m \cup {m + 1}
      BY <2>1
    <3>. QED
      BY <2>3, <3>1
  <2>8. CASE ~(e.block < block)
    <3>1. {x \in {events[i] : i \in 1..(m + 1)} : x.block < block} = Range(u)
      BY <2>6, <2>7, <2>8
    <3>. QED
      BY <2>5, <2>6, <2>8, <3>1
  <2>9. CASE e.block < block
    <3>1. PICK w : w = Append(u, e)
      OBVIOUS
    <3>2. PICK l \in Nat : l = Len(u)
      BY <2>6
    <3>3. /\ u \in [1..l -> S] /\ w \in Seq(S) /\ Len(w) = l + 1 /\ w[l + 1] = e
          /\ \A i \in 1..l : w[i] = u[i]
      BY <2>4, <2>6, <3>1, <3>2
    <3>4. DOMAIN u = 1..l /\ DOMAIN w = 1..(l + 1)
      BY <2>6, <3>2, <3>3
    <3>5. Range(w) = Range(u) \cup {e}
      <4>1. \A i \in 1..(l + 1) : i \in 1..l \/ i = l + 1
        BY <3>2
      <4>2. l + 1 \in 1..(l + 1) /\ \A i \in 1..l : i \in 1..(l + 1)
        BY <3>2
      <4>. QED
        BY <3>3, <3>4, <4>1, <4>2 DEF Range
    <3>6. {x \in {events[i] : i \in 1..(m + 1)} : x.block < block} = Range(w)
      BY <2>6, <2>7, <2>9, <3>5
    <3>7. ASSUME NEW x \in Range(u)
          PROVE  x.block < e.block
      <4>1. PICK i \in 1..m : x = events[i]
        BY <2>6
      <4>2. i \in DOMAIN events /\ m + 1 \in DOMAIN events /\ i < m + 1
        BY <1>2, <2>1
      <4>. QED
        BY <2>3, <4>1, <4>2 DEF InBlockOrder
    <3>8. ASSUME NEW i \in DOMAIN w, NEW j \in DOMAIN w, i < j
          PROVE  w[i].block < w[j].block
      <4>1. i \in 1..l /\ w[i] = u[i] /\ (j \in 1..l \/ j = l + 1)
        BY <3>2, <3>3, <3>4, <3>8
      <4>2. CASE j \in 1..l
        BY <2>6, <3>3, <3>4, <3>8, <4>1, <4>2 DEF InBlockOrder
      <4>3. CASE j = l + 1
        <5>1. u[i] \in Range(u)
          BY <3>4, <4>1 DEF Range
        <5>. QED
          BY <3>3, <3>7, <4>1, <4>3, <5>1
      <4>. QED
        BY <4>1, <4>2, <4>3
    <3>9. InBlockOrder(w)
      BY <3>8 DEF InBlockOrder
    <3>. QED
      BY <2>5, <2>9, <3>1, <3>3, <3>6, <3>9
  <2>. QED
    BY <2>8, <2>9
<1>6. N = Nat
  <2>1. N \in SUBSET Nat
    OBVIOUS
  <2> HIDE DEF N
  <2>. QED
    BY <1>4, <1>5, <2>1, SetInduction
<1>7. Kept(n)
  <2>1. n \in N
    <3> HIDE DEF N
    <3>. QED
      BY <1>6
  <2>2. n <= n
    OBVIOUS
  <2>. QED
    BY <2>1, <2>2
<1>8. Range(events) = {events[i] : i \in 1..n}
  BY <1>2 DEF Range
<1>. QED
  BY <1>3, <1>7, <1>8

\* An event of another block is recorded where it belongs.
LEMMA RecordedIs ==
  ASSUME NEW S, \A x \in S : x.block \in Nat, NEW events \in Seq(S), InBlockOrder(events),
         NEW e \in S, \A x \in Range(events) : x.block # e.block
  PROVE  /\ recorded(events, e) \in Seq(S) /\ InBlockOrder(recorded(events, e))
         /\ Range(recorded(events, e)) = Range(events) \cup {e}
<1>1. PICK n \in Nat : n = Len(events)
  OBVIOUS
<1>2. events \in [1..n -> S] /\ DOMAIN events = 1..n
  BY <1>1
<1>3. \A i \in 1..n : events[i].block \in Nat /\ events[i].block # e.block
  BY <1>2 DEF Range
<1> DEFINE T == {i \in 1..n : events[i].block > e.block} \cup {n + 1}
<1>4. PICK k : k = Min(T)
  OBVIOUS
<1>5. k \in T /\ \A i \in T : k <= i
  <2>1. T \in SUBSET Nat /\ T # {}
    OBVIOUS
  <2> HIDE DEF T
  <2>. QED
    BY <1>4, <2>1, LeastIs
<1>6. k \in 1..(n + 1)
  BY <1>5
<1>7. PICK w : w = recorded(events, e)
  OBVIOUS
<1>8. w = InsertAt(events, k, e)
  BY <1>1, <1>2, <1>4, <1>7 DEF recorded
<1>9. w \in Seq(S) /\ Len(w) = n + 1 /\ Inserted(n, events, k, e, w)
  BY <1>1, <1>6, <1>8, InsertionIs
<1>10. DOMAIN w = 1..(n + 1)
  BY <1>9
<1>11. /\ w[k] = e /\ \A i \in 1..(k - 1) : i \in 1..n /\ w[i] = events[i]
       /\ \A i \in (k + 1)..(n + 1) : i - 1 \in k..n /\ w[i] = events[i - 1]
  BY <1>6, <1>9 DEF Inserted
<1>12. ASSUME NEW i \in 1..(k - 1)
       PROVE  events[i].block < e.block
  <2>1. i \in 1..n /\ i \notin T
    BY <1>5, <1>6
  <2>2. ~(events[i].block > e.block)
    BY <2>1
  <2>3. e.block \in Nat
    OBVIOUS
  <2>. QED
    BY <1>3, <2>1, <2>2, <2>3
<1>13. ASSUME NEW i \in k..n
       PROVE  events[i].block > e.block
  <2>1. k \in 1..n /\ i \in 1..n /\ k <= i
    BY <1>6
  <2>2. events[k].block > e.block
    BY <1>5, <2>1
  <2>3. k = i \/ events[k].block < events[i].block
    BY <1>2, <2>1 DEF InBlockOrder
  <2>4. e.block \in Nat /\ events[i].block \in Nat /\ events[k].block \in Nat
    BY <1>3, <2>1
  <2>. QED
    BY <2>2, <2>3, <2>4
<1>14. Range(w) = Range(events) \cup {e}
  <2>1. \A i \in 1..(n + 1) : i \in 1..(k - 1) \/ i = k \/ i \in (k + 1)..(n + 1)
    BY <1>6
  <2>2. \A i \in 1..n : \E j \in 1..(n + 1) : w[j] = events[i]
    <3> SUFFICES ASSUME NEW i \in 1..n
                 PROVE  \E j \in 1..(n + 1) : w[j] = events[i]
      OBVIOUS
    <3>1. CASE i < k
      <4>1. i \in 1..(k - 1) /\ i \in 1..(n + 1)
        BY <1>6, <3>1
      <4>. QED
        BY <1>11, <4>1
    <3>2. CASE i >= k
      <4>1. i + 1 \in (k + 1)..(n + 1) /\ i + 1 \in 1..(n + 1) /\ (i + 1) - 1 = i
        BY <1>6, <3>2
      <4>. QED
        BY <1>11, <4>1
    <3>. QED
      BY <1>6, <3>1, <3>2
  <2>3. \A i \in 1..(n + 1) : w[i] = e \/ \E j \in 1..n : w[i] = events[j]
    <3>1. \A i \in k..n : i \in 1..n
      BY <1>6
    <3>. QED
      BY <1>11, <2>1, <3>1
  <2>. QED
    BY <1>2, <1>6, <1>10, <1>11, <2>2, <2>3 DEF Range
<1>15. ASSUME NEW i \in 1..(n + 1), NEW j \in 1..(n + 1), i < j
       PROVE  w[i].block < w[j].block
  <2>1. CASE j < k
    <3>1. i \in 1..(k - 1) /\ j \in 1..(k - 1)
      BY <1>6, <1>15, <2>1
    <3>. QED
      BY <1>2, <1>11, <1>15, <3>1 DEF InBlockOrder
  <2>2. CASE j = k
    <3>1. i \in 1..(k - 1)
      BY <1>6, <1>15, <2>2
    <3>. QED
      BY <1>11, <1>12, <2>2, <3>1
  <2>3. CASE j > k
    <3>1. j \in (k + 1)..(n + 1)
      BY <1>6, <2>3
    <3>2. PICK q \in k..n : q = j - 1 /\ q \in 1..n /\ w[j] = events[q]
      BY <1>6, <1>11, <3>1
    <3>3. e.block < events[q].block /\ e.block \in Nat /\ events[q].block \in Nat
      BY <1>3, <1>13, <3>2
    <3>4. CASE i < k
      <4>1. i \in 1..(k - 1) /\ i \in 1..n
        BY <1>6, <3>4
      <4>2. w[i] = events[i] /\ events[i].block < e.block /\ events[i].block \in Nat
        BY <1>3, <1>11, <1>12, <4>1
      <4>. QED
        BY <3>2, <3>3, <4>2
    <3>5. CASE i = k
      BY <1>11, <3>2, <3>3, <3>5
    <3>6. CASE i > k
      <4>1. i \in (k + 1)..(n + 1) /\ i - 1 \in 1..n /\ i - 1 < q
        BY <1>6, <1>15, <3>2, <3>6
      <4>2. w[i] = events[i - 1]
        BY <1>11, <4>1
      <4>. QED
        BY <1>2, <3>2, <4>1, <4>2 DEF InBlockOrder
    <3>. QED
      BY <1>6, <3>4, <3>5, <3>6
  <2>. QED
    BY <1>6, <2>1, <2>2, <2>3
<1>. QED
  BY <1>7, <1>9, <1>10, <1>14, <1>15 DEF InBlockOrder

-----------------------------------------------------------------------------
(* The projections: what stands of them while the walker has to roll back.  *)

\* Blocks below the one the walker still has to roll back to.
Stands(b) == forkedAt = 0 \/ b < forkedAt
Standing(subject) == {b \in Seen(subject) : Stands(b)}

\* Each block holds its event, and who it is about is told by its kind.
EventsOK ==
  \A b \in 1..Height :
    /\ chain[b].block = b
    /\ part = "mandates" => IF chain[b].kind = "DelegatedExecution"
                            THEN chain[b].subject \in Accounts
                            ELSE chain[b].subject \in Mandates

\* The walker rolls back to where the chain was cut, and nothing is walked but mandates.
WalkerOK ==
  /\ ChainOK /\ EventsOK
  /\ forks \in Nat /\ forkedAt \in 0..(Height + 1) /\ (forks = 0 => forkedAt = 0)
  /\ part # "mandates" => applied = {} /\ forkedAt = 0

\* What was applied and stands is on the chain.
KeysOK ==
  \A key \in applied :
    /\ key[1] \in Nat \ {0}
    /\ Stands(key[1]) => key[1] \in 1..Height /\ key = eventKey(chain[key[1]])

FeedOK ==
  /\ feed = [a \in Accounts |-> feed[a]]
  /\ \A a \in Accounts :
       /\ feed[a] \in Seq(Range(feed[a])) /\ InBlockOrder(feed[a])
       /\ \A e \in Range(feed[a]) : e.block \in Nat
       /\ {e \in Range(feed[a]) : Stands(e.block)} = {chain[b] : b \in Standing(a)}

\* A mandate is first seen in a block that was applied, and, when nothing came late, before all
\* that is seen of it.
MandateOK(m) ==
  LET shown == mandates[m] IN
  /\ IsView(shown) /\ shown.firstSeen \in Nat
  /\ shown # Unseen => \E key \in applied : key[1] = shown.firstSeen
  /\ inOrder /\ forks = 0 => shown = Fold(chain, Seen(m))
  /\ inOrder => \A b \in Standing(m) : shown # Unseen /\ shown.firstSeen <= b
  /\ inOrder \/ forks = 0 =>
       \A b \in Standing(m) : chain[b].kind = "MandateRevoked" => shown.status = "REVOKED"
MandatesOK ==
  /\ mandates = [m \in Mandates |-> mandates[m]]
  /\ \A m \in Mandates : MandateOK(m)

LogOK == WalkerOK /\ KeysOK /\ FeedOK /\ MandatesOK

\* A log is folded over finitely many blocks.
LEMMA SeenIs ==
  ASSUME WalkerOK, NEW subject
  PROVE  /\ Seen(subject) \in SUBSET (1..Height) /\ Seen(subject) \in SUBSET Nat
         /\ IsFiniteSet(Seen(subject))
         /\ \A b \in Seen(subject) : chain[b].block = b /\ chain[b].block \in Nat
<1>1. PICK n \in Nat : n = Height
  BY DEF WalkerOK, ChainOK, Height
<1>2. Seen(subject) \in SUBSET (1..n)
  BY <1>1 DEF Seen, Of
<1>3. IsFiniteSet(1..n)
  BY FS_Interval
<1>4. IsFiniteSet(Seen(subject))
  BY <1>2, <1>3, FS_Subset
<1>5. \A b \in 1..n : b \in Nat /\ chain[b].block = b
  BY <1>1 DEF WalkerOK, EventsOK
<1>. QED
  BY <1>1, <1>2, <1>4, <1>5

\* The chain moves above all that still stands.
LEMMA ChainMovesAbove ==
  ASSUME LogOK, WalkerOK', UNCHANGED <<mandates, feed, applied, inOrder>>,
         \A b \in Nat : Stands(b)' => Stands(b),
         \A b \in 1..Height' : eventKey(chain'[b]) \in applied /\ Stands(b)' =>
            b \in 1..Height /\ chain'[b] = chain[b],
         \A b \in 1..Height : Stands(b)' => b \in 1..Height' /\ chain'[b] = chain[b],
         forks' = 0 => forks = 0
  PROVE  LogOK'
<1>1. \A b \in 1..Height : b \in Nat /\ chain[b].block = b
  BY DEF LogOK, WalkerOK, ChainOK, EventsOK, Height
<1>2. \A b \in 1..Height' : b \in Nat /\ chain'[b].block = b
  BY DEF WalkerOK, ChainOK, EventsOK, Height
<1>3. ASSUME NEW subject
      PROVE  Standing(subject)' = {b \in Standing(subject) : Stands(b)'}
  <2>1. ASSUME NEW b \in Standing(subject)'
        PROVE  b \in Standing(subject) /\ Stands(b)'
    <3>1. /\ b \in 1..Height' /\ Stands(b)' /\ eventKey(chain'[b]) \in applied
          /\ chain'[b].subject = subject
      BY DEF Standing, Seen, Of
    <3>2. b \in 1..Height /\ chain'[b] = chain[b] /\ Stands(b)
      BY <1>2, <3>1
    <3>. QED
      BY <3>1, <3>2 DEF Standing, Seen, Of
  <2>2. ASSUME NEW b \in Standing(subject), Stands(b)'
        PROVE  b \in Standing(subject)'
    <3>1. b \in 1..Height /\ eventKey(chain[b]) \in applied /\ chain[b].subject = subject
      BY DEF Standing, Seen, Of
    <3>2. b \in 1..Height' /\ chain'[b] = chain[b]
      BY <2>2, <3>1
    <3>. QED
      BY <2>2, <3>1, <3>2 DEF Standing, Seen, Of
  <2>. QED
    BY <2>1, <2>2
<1>4. ASSUME NEW subject, NEW b \in Standing(subject)'
      PROVE  b \in Standing(subject) /\ chain'[b] = chain[b] /\ Stands(b)' /\ chain[b].block = b
  <2>1. b \in Standing(subject) /\ Stands(b)' /\ b \in 1..Height
    BY <1>3 DEF Standing, Seen, Of
  <2>. QED
    BY <1>1, <2>1
<1>5. KeysOK'
  <2> SUFFICES ASSUME NEW key \in applied
               PROVE  /\ key[1] \in Nat \ {0}
                      /\ Stands(key[1])' => /\ key[1] \in 1..Height'
                                            /\ key = eventKey(chain'[key[1]])
    BY DEF KeysOK
  <2>1. key[1] \in Nat \ {0}
    BY DEF LogOK, KeysOK
  <2>2. ASSUME Stands(key[1])'
        PROVE  key[1] \in 1..Height' /\ key = eventKey(chain'[key[1]])
    <3>1. Stands(key[1])
      BY <2>1, <2>2
    <3>2. key[1] \in 1..Height /\ key = eventKey(chain[key[1]])
      BY <3>1 DEF LogOK, KeysOK
    <3>3. key[1] \in 1..Height' /\ chain'[key[1]] = chain[key[1]]
      BY <2>2, <3>2
    <3>. QED
      BY <3>2, <3>3
  <2>. QED
    BY <2>1, <2>2
<1>6. ASSUME NEW a \in Accounts
      PROVE  {e \in Range(feed[a]) : Stands(e.block)'} = {chain'[b] : b \in Standing(a)'}
  <2>1. {e \in Range(feed[a]) : Stands(e.block)} = {chain[b] : b \in Standing(a)}
    BY DEF LogOK, FeedOK
  <2>2. \A e \in Range(feed[a]) : e.block \in Nat
    BY DEF LogOK, FeedOK
  <2>3. ASSUME NEW e \in Range(feed[a]), Stands(e.block)'
        PROVE  \E b \in Standing(a)' : e = chain'[b]
    <3>1. Stands(e.block)
      BY <2>2, <2>3
    <3>2. PICK b \in Standing(a) : e = chain[b]
      BY <2>1, <3>1
    <3>3. b \in 1..Height /\ e.block = b
      BY <1>1, <3>2 DEF Standing, Seen, Of
    <3>4. b \in Standing(a)'
      BY <1>3, <2>3, <3>3
    <3>. QED
      BY <1>4, <3>2, <3>4
  <2>4. ASSUME NEW b \in Standing(a)'
        PROVE  chain'[b] \in {e \in Range(feed[a]) : Stands(e.block)'}
    <3>1. b \in Standing(a) /\ chain'[b] = chain[b] /\ Stands(b)' /\ chain[b].block = b
      BY <1>4
    <3>2. chain[b] \in Range(feed[a])
      BY <2>1, <3>1
    <3>3. PICK e : e = chain[b]
      OBVIOUS
    <3>4. e \in Range(feed[a]) /\ e.block = b /\ Stands(e.block)' /\ chain'[b] = e
      BY <3>1, <3>2, <3>3
    <3>. QED
      BY <3>4
  <2>. QED
    BY <2>3, <2>4
<1>7. FeedOK'
  BY <1>6 DEF LogOK, FeedOK
<1>8. ASSUME NEW m \in Mandates
      PROVE  MandateOK(m)'
  <2>1. MandateOK(m)
    BY DEF LogOK, MandatesOK
  <2>2. ASSUME inOrder', forks' = 0
        PROVE  mandates'[m] = Fold(chain', Seen(m)')
    <3>1. forks = 0 /\ forkedAt = 0 /\ forkedAt' = 0
      BY <2>2 DEF LogOK, WalkerOK
    <3>2. Seen(m) = Standing(m) /\ Seen(m)' = Standing(m)'
      BY <3>1 DEF Standing, Stands
    <3>3. Seen(m)' = Seen(m)
      BY <1>3, <3>1, <3>2 DEF Stands
    <3>4. \A b \in Seen(m) : chain[b].block \in Nat /\ chain[b] = chain'[b]
      BY <1>1, <1>4, <3>2, <3>3 DEF Seen, Of
    <3>5. Fold(chain, Seen(m)) = Fold(chain', Seen(m))
      BY <3>4, SeenIs, FoldSame DEF LogOK
    <3>. QED
      BY <2>1, <2>2, <3>1, <3>3, <3>5 DEF MandateOK
  <2>3. \A b \in Standing(m)' : b \in Standing(m) /\ chain'[b] = chain[b]
    BY <1>4
  <2>. QED
    BY <2>1, <2>2, <2>3 DEF MandateOK
<1>. QED
  BY <1>5, <1>7, <1>8 DEF LogOK, MandatesOK

\* What is mined comes after all that was applied and stands.
LEMMA MineKeepsLog ==
  ASSUME LogOK, Mine
  PROVE  LogOK'
<1>1. PICK n \in Nat : n = Height
  BY DEF LogOK, WalkerOK, ChainOK, Height
<1>2. PICK e \in Range(Fresh) \cup MinedAgain : chain' = Append(chain, e)
  BY DEF Mine
<1>3. UNCHANGED <<part, forks, forkedAt, mandates, feed, applied, inOrder>>
  BY DEF Mine, walking
<1>4. ChainOK'
  BY ChainStep DEF LogOK, WalkerOK
<1>5. Height' = n + 1 /\ chain'[n + 1] = e /\ \A b \in 1..n : chain'[b] = chain[b]
  <2> DEFINE S == Range(chain) \cup {e}
  <2>1. chain \in Seq(Range(chain)) /\ Range(chain) \subseteq S /\ e \in S
    BY DEF LogOK, WalkerOK, ChainOK
  <2> HIDE DEF S
  <2>2. chain \in Seq(S)
    BY <2>1, SeqMonotonic
  <2>. QED
    BY <1>1, <1>2, <2>1, <2>2 DEF Height
<1>6. /\ e.block = n + 1
      /\ [kind |-> e.kind, subject |-> e.subject, total |-> e.total] \in NewEvents
  <2>1. CASE e \in MinedAgain
    BY <1>1, <2>1 DEF MinedAgain
  <2>2. CASE e \in Range(Fresh)
    <3>1. PICK x \in NewEvents :
            e = [kind |-> x.kind, subject |-> x.subject, total |-> x.total,
                 block |-> n + 1, tx |-> forks]
      BY <1>1, <2>2 DEF Fresh, Range
    <3>2. x = [kind |-> x.kind, subject |-> x.subject, total |-> x.total]
      BY DEF NewEvents, Executions, MandateEvents, FactorEvents
    <3>. QED
      BY <3>1, <3>2
  <2>. QED
    BY <2>1, <2>2
<1>7. part = "mandates" => IF e.kind = "DelegatedExecution" THEN e.subject \in Accounts
                           ELSE e.subject \in Mandates
  <2> SUFFICES ASSUME part = "mandates"
               PROVE  IF e.kind = "DelegatedExecution" THEN e.subject \in Accounts
                      ELSE e.subject \in Mandates
    OBVIOUS
  <2> DEFINE x == [kind |-> e.kind, subject |-> e.subject, total |-> e.total]
  <2>1. x.kind = e.kind /\ x.subject = e.subject
    OBVIOUS
  <2>2. x \in Executions \/ \E m \in Mandates : x \in MandateEvents(m)
    BY <1>6 DEF NewEvents
  <2> HIDE DEF x
  <2>3. CASE x \in Executions
    BY <2>1, <2>3 DEF Executions
  <2>4. CASE \E m \in Mandates : x \in MandateEvents(m)
    <3>1. PICK m \in Mandates : x \in MandateEvents(m)
      BY <2>4
    <3>2. x.subject = m /\ x.kind \in DOMAIN AllowedIn
      BY <3>1 DEF MandateEvents
    <3>3. "DelegatedExecution" \notin DOMAIN AllowedIn
      BY DEF AllowedIn
    <3>. QED
      BY <2>1, <3>2, <3>3
  <2>. QED
    BY <2>2, <2>3, <2>4
<1>8. EventsOK'
  <2> SUFFICES ASSUME NEW b \in 1..(n + 1)
               PROVE  /\ chain'[b].block = b
                      /\ part = "mandates" => IF chain'[b].kind = "DelegatedExecution"
                                              THEN chain'[b].subject \in Accounts
                                              ELSE chain'[b].subject \in Mandates
    BY <1>3, <1>5 DEF EventsOK
  <2>1. CASE b = n + 1
    BY <1>5, <1>6, <1>7, <2>1
  <2>2. CASE b \in 1..n
    BY <1>1, <1>5, <2>2 DEF LogOK, WalkerOK, EventsOK
  <2>. QED
    BY <2>1, <2>2
<1>9. WalkerOK'
  <2>1. forkedAt' \in 0..(Height' + 1)
    BY <1>1, <1>3, <1>5 DEF LogOK, WalkerOK
  <2>. QED
    BY <1>3, <1>4, <1>8, <2>1 DEF LogOK, WalkerOK
<1>10. \A b \in Nat : Stands(b)' = Stands(b)
  BY <1>3 DEF Stands
<1>11. ASSUME NEW b \in 1..(n + 1), eventKey(chain'[b]) \in applied, Stands(b)
       PROVE  b \in 1..n
  <2>1. CASE b = n + 1
    <3>1. eventKey(e)[1] = n + 1 /\ eventKey(e) \in applied
      BY <1>5, <1>6, <1>11, <2>1 DEF eventKey
    <3>2. n + 1 \in 1..n
      BY <1>1, <1>11, <2>1, <3>1 DEF LogOK, KeysOK
    <3>. QED
      BY <3>2
  <2>. QED
    BY <2>1
<1>12. \A b \in 1..Height' : eventKey(chain'[b]) \in applied /\ Stands(b)' =>
          b \in 1..Height /\ chain'[b] = chain[b]
  BY <1>1, <1>5, <1>10, <1>11
<1>13. \A b \in 1..Height : Stands(b)' => b \in 1..Height' /\ chain'[b] = chain[b]
  BY <1>1, <1>5
<1>. QED
  BY <1>3, <1>9, <1>10, <1>12, <1>13, ChainMovesAbove

\* What a reorganisation replaces does not stand.
LEMMA ReorganiseKeepsLog ==
  ASSUME LogOK, Reorganise
  PROVE  LogOK'
<1>1. PICK n \in Nat : n = Height
  BY DEF LogOK, WalkerOK, ChainOK, Height
<1>2. settled \in Nat
  BY DEF LogOK, WalkerOK, ChainOK, Height
<1>3. PICK h \in settled + 1..n : /\ chain' = SubSeq(chain, 1, h - 1)
                                  /\ forkedAt' = IF part = "mandates" THEN h ELSE 0
  BY <1>1 DEF Reorganise
<1>4. /\ UNCHANGED <<part, mandates, feed, applied, inOrder>>
      /\ forkedAt = 0 /\ forks' = forks + 1
  BY DEF Reorganise, walking
<1>5. ChainOK'
  BY ChainStep DEF LogOK, WalkerOK
<1>6. PICK k \in Nat : k = h - 1 /\ k < n
  BY <1>2, <1>3
<1>7. Height' = k /\ \A b \in 1..k : chain'[b] = chain[b]
  <2>1. chain \in Seq(Range(chain)) /\ \A b \in 1..k : chain[b] \in Range(chain)
    BY <1>1, <1>6 DEF LogOK, WalkerOK, ChainOK, Height, Range
  <2>2. PICK u : u = SubSeq(chain, 1, k)
    OBVIOUS
  <2>3. /\ u \in Seq(Range(chain)) /\ Len(u) = IF 1 <= k THEN k - 1 + 1 ELSE 0
        /\ \A i \in 1..(k - 1 + 1) : u[i] = chain[1 + i - 1]
    <3>1. 1 \in Int /\ k \in Int
      BY <1>6
    <3>. QED
      BY <2>1, <2>2, <3>1, SubSeqProperties
  <2>4. chain' = u /\ Len(u) = k
    BY <1>3, <1>6, <2>2, <2>3
  <2>5. \A b \in 1..k : b \in 1..(k - 1 + 1) /\ 1 + b - 1 = b
    BY <1>6
  <2>. QED
    BY <2>3, <2>4, <2>5 DEF Height
<1>8. EventsOK'
  <2>1. \A b \in 1..k : b \in 1..n
    BY <1>6
  <2>. QED
    BY <1>1, <1>4, <1>7, <2>1 DEF LogOK, WalkerOK, EventsOK
<1>9. forks' \in Nat /\ forks' # 0
  BY <1>4 DEF LogOK, WalkerOK
<1>10. WalkerOK'
  <2>1. forkedAt' \in 0..(k + 1) /\ (part # "mandates" => forkedAt' = 0)
    BY <1>3, <1>6
  <2>. QED
    BY <1>4, <1>5, <1>7, <1>8, <1>9, <2>1 DEF LogOK, WalkerOK
<1>11. \A b \in Nat : Stands(b)
  BY <1>4 DEF Stands
<1>12. \A b \in 1..Height' : b \in 1..Height /\ chain'[b] = chain[b]
  BY <1>1, <1>6, <1>7
<1>13. CASE part = "mandates"
  <2>1. \A b \in 1..Height : Stands(b)' => b \in 1..Height' /\ chain'[b] = chain[b]
    <3> SUFFICES ASSUME NEW b \in 1..n, Stands(b)'
                 PROVE  b \in 1..k
      BY <1>1, <1>7
    <3>1. forkedAt' = k + 1 /\ forkedAt' # 0
      BY <1>3, <1>6, <1>13
    <3>2. b < k + 1
      BY <3>1 DEF Stands
    <3>. QED
      BY <1>6, <3>2
  <2>. QED
    BY <1>4, <1>9, <1>10, <1>11, <1>12, <2>1, ChainMovesAbove
<1>14. CASE part # "mandates"
  <2>1. applied = {} /\ applied' = {} /\ forkedAt' = 0
    BY <1>4, <1>10, <1>14 DEF LogOK, WalkerOK
  <2>2. \A subject : Standing(subject) = {} /\ Standing(subject)' = {}
    BY <2>1 DEF Standing, Seen
  <2>3. KeysOK'
    BY <2>1 DEF KeysOK
  <2>4. FeedOK'
    <3>1. \A a \in Accounts : {e \in Range(feed[a]) : Stands(e.block)'} = {}
      <4>1. \A a \in Accounts : {e \in Range(feed[a]) : Stands(e.block)} = {}
        BY <2>2 DEF LogOK, FeedOK
      <4>. QED
        BY <1>4, <4>1 DEF Stands
    <3>. QED
      BY <1>4, <2>2, <3>1 DEF LogOK, FeedOK
  <2>5. MandatesOK'
    BY <1>4, <1>9, <2>2 DEF LogOK, MandatesOK, MandateOK
  <2>. QED
    BY <1>10, <2>3, <2>4, <2>5 DEF LogOK
<1>. QED
  BY <1>13, <1>14

\* An event that is applied is seen of its subject and of nothing else.
LEMMA SeenGrows ==
  ASSUME LogOK, NEW b \in 1..Height, eventKey(chain[b]) \notin applied,
         applied' = applied \cup {eventKey(chain[b])}, UNCHANGED chain, NEW subject
  PROVE  /\ b \notin Seen(subject)
         /\ Seen(subject)' = IF chain[b].subject = subject THEN Seen(subject) \cup {b}
                             ELSE Seen(subject)
<1>1. \A c \in 1..Height : eventKey(chain[c]) = eventKey(chain[b]) => c = b
  <2> SUFFICES ASSUME NEW c \in 1..Height, eventKey(chain[c]) = eventKey(chain[b])
               PROVE  c = b
    OBVIOUS
  <2>1. chain[c].block = c /\ chain[b].block = b
    BY DEF LogOK, WalkerOK, EventsOK
  <2>. QED
    BY <2>1 DEF eventKey
<1>2. Height' = Height
  BY DEF Height
<1>3. b \notin Seen(subject)
  BY DEF Seen
<1>4. ASSUME NEW c \in Seen(subject)'
      PROVE  c \in Seen(subject) \/ (c = b /\ chain[b].subject = subject)
  BY <1>1, <1>2 DEF Seen, Of
<1>5. \A c \in Seen(subject) : c \in Seen(subject)'
  BY <1>2 DEF Seen, Of
<1>6. chain[b].subject = subject => b \in Seen(subject)'
  BY <1>2 DEF Seen, Of
<1>. QED
  BY <1>3, <1>4, <1>5, <1>6

\* Everything stands while there is nothing to roll back.
LEMMA AllStands ==
  ASSUME forkedAt = 0
  PROVE  (\A b : Stands(b)) /\ \A subject : Standing(subject) = Seen(subject)
BY DEF Standing, Stands, Seen

\* A delivery records an execution in its place, or updates its mandate.
LEMMA DeliverKeepsLog ==
  ASSUME LogOK, Deliver
  PROVE  LogOK'
<1>1. /\ part = "mandates" /\ forkedAt = 0 /\ forkedAt' = 0
      /\ UNCHANGED <<part, chain, forks, settled>>
  BY DEF Deliver, chainState
<1>2. PICK b \in 1..Height : /\ apply(chain[b])
                             /\ inOrder' = (inOrder /\ \A key \in applied : key[1] <= b)
  BY DEF Deliver
<1>3. WalkerOK'
  <2>1. ChainOK' /\ EventsOK' /\ Height' = Height
    BY <1>1 DEF LogOK, WalkerOK, ChainOK, EventsOK, Height
  <2>. QED
    BY <1>1, <2>1 DEF LogOK, WalkerOK
<1>4. /\ \A c : Stands(c) /\ Stands(c)'
      /\ \A subject : Standing(subject) = Seen(subject) /\ Standing(subject)' = Seen(subject)'
  BY <1>1 DEF Standing, Stands, Seen
<1>5. PICK e : e = chain[b]
  OBVIOUS
<1>6. b \in Nat \ {0} /\ e.block = b /\ eventKey(e)[1] = b
  <2>1. b \in Nat \ {0}
    BY DEF LogOK, WalkerOK, ChainOK, Height
  <2>2. e.block = b
    BY <1>5 DEF LogOK, WalkerOK, EventsOK
  <2>. QED
    BY <2>1, <2>2 DEF eventKey
<1>7. CASE eventKey(e) \in applied
  <2>1. UNCHANGED <<mandates, feed, applied>>
    BY <1>2, <1>5, <1>7 DEF apply
  <2>2. \A subject : Seen(subject)' = Seen(subject)
    BY <1>1, <2>1 DEF Seen, Of, Height
  <2>3. KeysOK'
    BY <1>1, <1>4, <2>1 DEF LogOK, KeysOK, Height
  <2>4. FeedOK'
    BY <1>1, <1>4, <2>1, <2>2 DEF LogOK, FeedOK
  <2>5. MandatesOK'
    <3>1. inOrder' => inOrder
      BY <1>2
    <3>. QED
      BY <1>1, <1>4, <2>1, <2>2, <3>1 DEF LogOK, MandatesOK, MandateOK
  <2>. QED
    BY <1>3, <2>3, <2>4, <2>5 DEF LogOK
<1>8. CASE eventKey(e) \notin applied
  <2>1. /\ applied' = applied \cup {eventKey(e)}
        /\ IF e.kind = "DelegatedExecution"
           THEN feed' = [feed EXCEPT ![e.subject] = recorded(@, e)] /\ UNCHANGED mandates
           ELSE mandates' = [mandates EXCEPT ![e.subject] = updated(@, e)] /\ UNCHANGED feed
    BY <1>2, <1>5, <1>8 DEF apply
  <2>2. \A subject : /\ b \notin Seen(subject)
                     /\ Seen(subject)' = IF e.subject = subject THEN Seen(subject) \cup {b}
                                         ELSE Seen(subject)
    BY <1>1, <1>5, <1>8, <2>1, SeenGrows
  <2>3. KeysOK'
    <3>1. Height' = Height
      BY <1>1 DEF Height
    <3>2. \A key \in applied : /\ key[1] \in Nat \ {0} /\ key[1] \in 1..Height
                               /\ key = eventKey(chain[key[1]])
      BY <1>4 DEF LogOK, KeysOK
    <3>. QED
      BY <1>1, <1>5, <1>6, <2>1, <3>1, <3>2 DEF KeysOK
  <2>4. IF e.kind = "DelegatedExecution" THEN e.subject \in Accounts ELSE e.subject \in Mandates
    BY <1>1, <1>5 DEF LogOK, WalkerOK, EventsOK
  <2>5. \A m \in Mandates, a \in Accounts : m # a
    BY NamesAreApart
  <2>6. CASE e.kind = "DelegatedExecution"
    <3>1. e.subject \in Accounts /\ UNCHANGED mandates
      BY <2>1, <2>4, <2>6
    <3>2. PICK a \in Accounts : a = e.subject
      BY <3>1
    <3>3. feed' = [c \in Accounts |-> IF c = a THEN recorded(feed[a], e) ELSE feed[c]]
      BY <2>1, <2>6, <3>2 DEF LogOK, FeedOK
    <3>4. Range(feed[a]) = {chain[c] : c \in Seen(a)} /\ feed[a] \in Seq(Range(feed[a]))
          /\ InBlockOrder(feed[a]) /\ \A x \in Range(feed[a]) : x.block \in Nat
      BY <1>4 DEF LogOK, FeedOK
    <3>5. \A x \in Range(feed[a]) : x.block # e.block
      <4> SUFFICES ASSUME NEW c \in Seen(a)
                   PROVE  chain[c].block # e.block
        BY <3>4
      <4>1. chain[c].block = c /\ c # b
        BY <2>2 DEF Seen, Of, LogOK, WalkerOK, EventsOK
      <4>. QED
        BY <1>6, <4>1
    <3> DEFINE S == Range(feed[a]) \cup {e}
    <3>6. PICK w : w = recorded(feed[a], e)
      OBVIOUS
    <3>7. w \in Seq(S) /\ InBlockOrder(w) /\ Range(w) = Range(feed[a]) \cup {e}
      <4>1. (\A x \in S : x.block \in Nat) /\ e \in S /\ Range(feed[a]) \subseteq S
        BY <1>6, <3>4
      <4> HIDE DEF S
      <4>2. feed[a] \in Seq(S)
        BY <3>4, <4>1, SeqMonotonic
      <4>. QED
        BY <3>4, <3>5, <3>6, <4>1, <4>2, RecordedIs
    <3>8. w \in Seq(Range(w))
      <4> HIDE DEF S
      <4>. QED
        BY <3>7, OfItsRange
    <3>9. /\ feed'[a] = w
          /\ \A x \in Range(w) : x.block \in Nat
          /\ Range(w) = {chain'[c] : c \in Seen(a)'}
      <4>1. Seen(a)' = Seen(a) \cup {b}
        BY <2>2, <3>2
      <4>. QED
        BY <1>1, <1>5, <1>6, <3>3, <3>4, <3>6, <3>7, <4>1
    <3>10. ASSUME NEW c \in Accounts
           PROVE  /\ feed'[c] \in Seq(Range(feed'[c])) /\ InBlockOrder(feed'[c])
                  /\ \A x \in Range(feed'[c]) : x.block \in Nat
                  /\ Range(feed'[c]) = {chain'[d] : d \in Seen(c)'}
      <4>1. CASE c = a
        BY <3>7, <3>8, <3>9, <4>1
      <4>2. CASE c # a
        <5>1. feed'[c] = feed[c] /\ Seen(c)' = Seen(c)
          BY <2>2, <3>2, <3>3, <4>2
        <5>. QED
          BY <1>1, <1>4, <5>1 DEF LogOK, FeedOK
      <4>. QED
        BY <4>1, <4>2
    <3>11. FeedOK'
      <4>1. feed' = [c \in Accounts |-> feed'[c]]
        BY <3>3
      <4>. QED
        BY <1>4, <3>10, <4>1 DEF FeedOK
    <3>12. ASSUME NEW m \in Mandates
           PROVE  MandateOK(m)'
      <4>1. Seen(m)' = Seen(m)
        BY <2>2, <2>5, <3>2
      <4>2. inOrder' => inOrder
        BY <1>2
      <4>3. MandateOK(m)
        BY DEF LogOK, MandatesOK
      <4>. QED
        BY <1>1, <1>4, <2>1, <3>1, <4>1, <4>2, <4>3 DEF MandateOK
    <3>13. MandatesOK'
      BY <3>1, <3>12 DEF LogOK, MandatesOK
    <3>. QED
      BY <1>3, <2>3, <3>11, <3>13 DEF LogOK
  <2>7. CASE e.kind # "DelegatedExecution"
    <3>1. e.subject \in Mandates /\ UNCHANGED feed
      BY <2>1, <2>4, <2>7
    <3>2. PICK m \in Mandates : m = e.subject
      BY <3>1
    <3>3. mandates' = [c \in Mandates |-> IF c = m THEN updated(mandates[m], e) ELSE mandates[c]]
      BY <2>1, <2>7, <3>2 DEF LogOK, MandatesOK
    <3>4. FeedOK'
      <4>1. \A a \in Accounts : Seen(a)' = Seen(a)
        BY <2>2, <2>5, <3>2
      <4>. QED
        BY <1>1, <1>4, <3>1, <4>1 DEF LogOK, FeedOK
    <3>5. PICK v : v = mandates[m]
      OBVIOUS
    <3>6. PICK u : u = updated(v, e)
      OBVIOUS
    <3>7. MandateOK(m)
      BY DEF LogOK, MandatesOK
    <3>8. /\ IsView(v) /\ v.firstSeen \in Nat
          /\ v # Unseen => \E key \in applied : key[1] = v.firstSeen
          /\ inOrder /\ forks = 0 => v = Fold(chain, Seen(m))
          /\ inOrder => \A c \in Seen(m) : v # Unseen /\ v.firstSeen <= c
          /\ inOrder \/ forks = 0 =>
               \A c \in Seen(m) : chain[c].kind = "MandateRevoked" => v.status = "REVOKED"
      BY <1>4, <3>5, <3>7 DEF MandateOK
    <3>9. /\ IsView(u) /\ u.firstSeen \in Nat
          /\ IF v = Unseen THEN u.firstSeen = b
             ELSE u.firstSeen \in {v.firstSeen, b} /\ u.firstSeen <= v.firstSeen
          /\ v.status = "REVOKED" \/ e.kind = "MandateRevoked" => u.status = "REVOKED"
      BY <1>6, <3>6, <3>8, UpdatedIs
    <3>10. \E key \in applied' : key[1] = u.firstSeen
      BY <1>6, <2>1, <3>8, <3>9
    <3>11. u # Unseen
      <4>1. \A key \in applied' : key[1] # 0
        BY <2>3 DEF KeysOK
      <4>. QED
        BY <3>10, <4>1 DEF Unseen
    <3>12. Seen(m)' = Seen(m) \cup {b}
      BY <2>2, <3>2
    <3>13. /\ Seen(m) \in SUBSET Nat /\ IsFiniteSet(Seen(m))
           /\ \A c \in Seen(m) : chain[c].block = c /\ c \in Nat
      BY SeenIs DEF LogOK
    <3>14. ASSUME inOrder'
           PROVE  inOrder /\ \A c \in Seen(m) : c < b
      <4>1. inOrder /\ \A key \in applied : key[1] <= b
        BY <1>2, <3>14
      <4>2. ASSUME NEW c \in Seen(m)
            PROVE  c < b
        <5>1. eventKey(chain[c]) \in applied /\ eventKey(chain[c])[1] = c
          BY <3>13 DEF Seen, eventKey
        <5>2. c <= b /\ c # b
          BY <2>2, <4>1, <5>1
        <5>. QED
          BY <1>6, <3>13, <5>2
      <4>. QED
        BY <4>1, <4>2
    <3>15. ASSUME inOrder', forks' = 0
           PROVE  u = Fold(chain', Seen(m)')
      <4>1. v = Fold(chain, Seen(m))
        BY <1>1, <3>8, <3>14, <3>15
      <4>2. \A c \in Seen(m) \cup {b} : chain[c].block \in Nat
        BY <1>5, <1>6, <3>13
      <4>3. Fold(chain, Seen(m) \cup {b}) = updated(Fold(chain, Seen(m)), chain[b])
        BY <1>6, <3>13, <3>14, <3>15, <4>2, FoldNext
      <4>. QED
        BY <1>1, <1>5, <3>6, <3>12, <4>1, <4>3
    <3>16. ASSUME inOrder', NEW c \in Seen(m)'
           PROVE  u.firstSeen <= c
      <4>1. CASE c \in Seen(m)
        <5>1. v # Unseen /\ v.firstSeen <= c /\ c \in Nat
          BY <3>8, <3>13, <3>14, <3>16, <4>1
        <5>. QED
          BY <3>8, <3>9, <5>1
      <4>2. CASE c = b
        <5>1. v # Unseen => v.firstSeen <= b
          BY <1>2, <3>8, <3>16
        <5>. QED
          BY <1>6, <3>8, <3>9, <4>2, <5>1
      <4>. QED
        BY <3>12, <3>16, <4>1, <4>2
    <3>17. ASSUME inOrder' \/ forks' = 0, NEW c \in Seen(m)', chain'[c].kind = "MandateRevoked"
           PROVE  u.status = "REVOKED"
      <4>1. inOrder \/ forks = 0
        BY <1>1, <1>2, <3>17
      <4>2. CASE c = b
        BY <1>1, <1>5, <3>9, <3>17, <4>2
      <4>3. CASE c \in Seen(m)
        BY <1>1, <3>8, <3>9, <3>17, <4>1, <4>3
      <4>. QED
        BY <3>12, <3>17, <4>2, <4>3
    <3>18. MandateOK(m)'
      <4>1. mandates'[m] = u
        BY <3>3, <3>5, <3>6
      <4>. QED
        BY <1>4, <3>9, <3>10, <3>11, <3>15, <3>16, <3>17, <4>1 DEF MandateOK
    <3>19. ASSUME NEW c \in Mandates, c # m
           PROVE  MandateOK(c)'
      <4>1. Seen(c)' = Seen(c) /\ mandates'[c] = mandates[c]
        BY <2>2, <3>2, <3>3, <3>19
      <4>2. inOrder' => inOrder
        BY <1>2
      <4>3. MandateOK(c)
        BY DEF LogOK, MandatesOK
      <4>. QED
        BY <1>1, <1>4, <2>1, <4>1, <4>2, <4>3 DEF MandateOK
    <3>20. MandatesOK'
      <4>1. mandates' = [c \in Mandates |-> mandates'[c]]
        BY <3>3
      <4>. QED
        BY <3>18, <3>19, <4>1 DEF MandatesOK
    <3>. QED
      BY <1>3, <2>3, <3>4, <3>20 DEF LogOK
  <2>. QED
    BY <2>6, <2>7
<1>. QED
  BY <1>7, <1>8

\* A rollback leaves what stood.
LEMMA RollBackKeepsLog ==
  ASSUME LogOK, RollBack
  PROVE  LogOK'
<1>1. PICK h \in Nat \ {0} : h = forkedAt
  BY DEF RollBack, LogOK, WalkerOK, ChainOK, Height
<1>2. /\ UNCHANGED <<part, chain, forks, settled, inOrder>> /\ forkedAt' = 0
      /\ applied' = {key \in applied : key[1] < h}
      /\ mandates' = [m \in Mandates |->
           IF mandates[m].firstSeen >= h THEN Unseen ELSE mandates[m]]
      /\ feed' = [a \in Accounts |-> eventsBelow(feed[a], h)]
  BY <1>1 DEF RollBack, rollbackTo
<1>3. WalkerOK'
  <2>1. ChainOK' /\ EventsOK' /\ Height' = Height /\ Height \in Nat
    BY <1>2 DEF LogOK, WalkerOK, ChainOK, EventsOK, Height
  <2>2. part = "mandates"
    BY <1>1 DEF LogOK, WalkerOK
  <2>. QED
    BY <1>2, <2>1, <2>2 DEF LogOK, WalkerOK
<1>4. \A b : Stands(b) <=> b < h
  BY <1>1 DEF Stands
<1>5. \A b : Stands(b)'
  BY <1>2 DEF Stands
<1>6. ASSUME NEW subject
      PROVE  Seen(subject)' = Standing(subject) /\ Standing(subject)' = Standing(subject)
  <2>1. Height' = Height
    BY <1>2 DEF Height
  <2>2. \A b \in 1..Height : eventKey(chain[b])[1] = b
    BY DEF eventKey, LogOK, WalkerOK, EventsOK
  <2>3. Seen(subject)' = Standing(subject)
    BY <1>2, <1>4, <2>1, <2>2 DEF Seen, Of, Standing
  <2>. QED
    BY <1>5, <2>3 DEF Standing
<1>7. KeysOK'
  <2>1. Height' = Height
    BY <1>2 DEF Height
  <2>. QED
    BY <1>2, <1>4, <2>1 DEF LogOK, KeysOK
<1>8. ASSUME NEW a \in Accounts
      PROVE  /\ feed'[a] \in Seq(Range(feed'[a])) /\ InBlockOrder(feed'[a])
             /\ \A e \in Range(feed'[a]) : e.block \in Nat
             /\ Range(feed'[a]) = {chain'[b] : b \in Standing(a)'}
  <2>1. PICK w : w = eventsBelow(feed[a], h)
    OBVIOUS
  <2>2. /\ feed[a] \in Seq(Range(feed[a])) /\ InBlockOrder(feed[a])
        /\ \A e \in Range(feed[a]) : e.block \in Nat
        /\ {e \in Range(feed[a]) : Stands(e.block)} = {chain[b] : b \in Standing(a)}
    BY DEF LogOK, FeedOK
  <2>3. /\ w \in Seq(Range(feed[a])) /\ InBlockOrder(w)
        /\ Range(w) = {e \in Range(feed[a]) : e.block < h}
    <3>1. PICK S : S = Range(feed[a])
      OBVIOUS
    <3>2. PICK s : s = feed[a]
      OBVIOUS
    <3>3. s \in Seq(S) /\ InBlockOrder(s) /\ (\A e \in S : e.block \in Nat) /\ h \in Nat
      BY <2>2, <3>1, <3>2
    <3>4. /\ eventsBelow(s, h) \in Seq(S) /\ InBlockOrder(eventsBelow(s, h))
          /\ Range(eventsBelow(s, h)) = {e \in Range(s) : e.block < h}
      BY <3>3, BelowIs
    <3>. QED
      BY <2>1, <3>1, <3>2, <3>4
  <2>4. w \in Seq(Range(w))
    BY <2>3, OfItsRange
  <2>5. feed'[a] = w
    BY <1>2, <2>1
  <2>6. \A e \in Range(w) : e \in Range(feed[a])
    BY <2>3
  <2>7. Range(w) = {chain[b] : b \in Standing(a)}
    BY <1>4, <2>2, <2>3
  <2>8. {chain'[b] : b \in Standing(a)'} = {chain[b] : b \in Standing(a)}
    BY <1>2, <1>6
  <2>. QED
    BY <2>2, <2>3, <2>4, <2>5, <2>6, <2>7, <2>8
<1>9. FeedOK'
  <2>1. feed' = [a \in Accounts |-> feed'[a]]
    BY <1>2
  <2>. QED
    BY <1>5, <1>8, <2>1 DEF FeedOK
<1>10. ASSUME NEW m \in Mandates
       PROVE  MandateOK(m)'
  <2>1. PICK v : v = mandates[m]
    OBVIOUS
  <2>2. /\ IsView(v) /\ v.firstSeen \in Nat
        /\ v # Unseen => \E key \in applied : key[1] = v.firstSeen
        /\ inOrder => \A b \in Standing(m) : v # Unseen /\ v.firstSeen <= b
        /\ inOrder \/ forks = 0 =>
             \A b \in Standing(m) : chain[b].kind = "MandateRevoked" => v.status = "REVOKED"
    BY <2>1 DEF LogOK, MandatesOK, MandateOK
  <2>3. mandates'[m] = IF v.firstSeen >= h THEN Unseen ELSE v
    BY <1>2, <2>1
  <2>4. forks' # 0 /\ forks # 0
    BY <1>1, <1>2 DEF LogOK, WalkerOK
  <2>5. \A b \in Standing(m) : b \in Nat /\ b < h
    BY <1>4 DEF Standing, Seen, Of, LogOK, WalkerOK, ChainOK, Height
  <2>6. CASE v.firstSeen >= h
    <3>1. inOrder => Standing(m) = {}
      <4> SUFFICES ASSUME inOrder, NEW b \in Standing(m)
                   PROVE  FALSE
        OBVIOUS
      <4>1. v.firstSeen <= b /\ b < h /\ b \in Nat /\ v.firstSeen \in Nat
        BY <2>2, <2>5
      <4>. QED
        BY <1>1, <2>6, <4>1
    <3>2. IsView(Unseen) /\ Unseen.firstSeen \in Nat
      BY DEF IsView, Unseen
    <3>. QED
      BY <1>2, <1>6, <2>3, <2>4, <2>6, <3>1, <3>2 DEF MandateOK
  <2>7. CASE ~(v.firstSeen >= h)
    <3>1. mandates'[m] = v /\ v.firstSeen < h
      BY <1>1, <2>2, <2>3, <2>7
    <3>2. v # Unseen => \E key \in applied' : key[1] = v.firstSeen
      BY <1>2, <2>2, <3>1
    <3>. QED
      BY <1>2, <1>6, <2>2, <2>4, <3>1, <3>2 DEF MandateOK
  <2>. QED
    BY <2>6, <2>7
<1>11. MandatesOK'
  <2>1. mandates' = [m \in Mandates |-> mandates'[m]]
    BY <1>2
  <2>. QED
    BY <1>10, <2>1 DEF MandatesOK
<1>. QED
  BY <1>3, <1>7, <1>9, <1>11 DEF LogOK

\* The projections are that at every step.
THEOREM LogAlways == Spec => []LogOK
<1>1. Init => LogOK
  <2> SUFFICES ASSUME Init
               PROVE  LogOK
    OBVIOUS
  <2>1. /\ chain = <<>> /\ forks = 0 /\ settled = 0 /\ forkedAt = 0 /\ applied = {}
        /\ mandates = [m \in Mandates |-> Unseen] /\ feed = [a \in Accounts |-> <<>>]
        /\ SafeDepth \in Nat
    BY CorporateConstants DEF Init, ProjectionsInit
  <2>2. chain \in Seq(Range(chain)) /\ Height = 0
    BY <2>1 DEF Height
  <2>3. WalkerOK
    BY <2>1, <2>2 DEF WalkerOK, ChainOK, EventsOK, Height, Monus
  <2>4. KeysOK
    BY <2>1 DEF KeysOK
  <2>5. \A subject : Seen(subject) = {} /\ Standing(subject) = {}
    BY <2>1 DEF Seen, Standing
  <2>6. FeedOK
    <3>1. Range(<<>>) = {} /\ <<>> \in Seq({}) /\ InBlockOrder(<<>>)
      BY DEF Range, InBlockOrder
    <3>. QED
      BY <2>1, <2>5, <3>1 DEF FeedOK
  <2>7. Fold(chain, {}) = Unseen
    <3>1. {} \in SUBSET Nat /\ IsFiniteSet({}) /\ LogFolds(chain, {}, [T \in SUBSET {} |-> Unseen])
      BY FS_EmptySet DEF LogFolds
    <3>2. LogFolds(chain, {}, CHOOSE g : LogFolds(chain, {}, g))
      BY <3>1
    <3>3. (CHOOSE g : LogFolds(chain, {}, g))[{}] = Unseen
      BY <3>2 DEF LogFolds
    <3>. QED
      BY <3>3, FoldIs
  <2>8. MandatesOK
    <3>1. IsView(Unseen) /\ Unseen.firstSeen \in Nat
      BY DEF IsView, Unseen
    <3>. QED
      BY <2>1, <2>5, <2>7, <3>1 DEF MandatesOK, MandateOK
  <2>. QED
    BY <2>3, <2>4, <2>6, <2>8 DEF LogOK
<1>2. ASSUME LogOK, [Next]_vars
      PROVE  LogOK'
  <2>1. CASE UNCHANGED <<part, chain, forks, settled, forkedAt, mandates, feed, applied, inOrder>>
    <3>1. Height' = Height /\ (\A b : Stands(b)' = Stands(b))
          /\ \A subject : Seen(subject)' = Seen(subject)
      BY <2>1 DEF Height, Stands, Seen, Of
    <3>2. \A subject : Standing(subject)' = Standing(subject)
      BY <3>1 DEF Standing
    <3>3. WalkerOK'
      BY <1>2, <2>1, <3>1 DEF LogOK, WalkerOK, ChainOK, EventsOK
    <3>4. KeysOK'
      BY <1>2, <2>1, <3>1 DEF LogOK, KeysOK
    <3>5. FeedOK'
      BY <1>2, <2>1, <3>1, <3>2 DEF LogOK, FeedOK
    <3>6. MandatesOK'
      BY <1>2, <2>1, <3>1, <3>2 DEF LogOK, MandatesOK, MandateOK
    <3>. QED
      BY <3>3, <3>4, <3>5, <3>6 DEF LogOK
  <2>2. ASSUME ReadNext
        PROVE  \/ Mine \/ Reorganise \/ Deliver \/ RollBack
               \/ UNCHANGED <<part, chain, forks, settled, forkedAt, mandates, feed, applied, inOrder>>
    BY <2>2 DEF ReadNext, Observe, Ingest, Drop, Deposit, Redeem, Rebase, Donate, Charge,
                Account, Admit, chainState, walking
  <2>3. \/ ReadNext
        \/ UNCHANGED <<part, chain, forks, settled, forkedAt, mandates, feed, applied, inOrder>>
    BY <1>2 DEF Next, vars, readVars, chainState, walking
  <2>. QED
    BY <1>2, <2>1, <2>2, <2>3, MineKeepsLog, ReorganiseKeepsLog, DeliverKeepsLog, RollBackKeepsLog
<1>. QED
  BY <1>1, <1>2, PTL DEF Spec

\* Whatever was delivered twice, out of order or before a reorganisation, the feeds are the
\* canonical executions that were applied, and a mandate is shown as the log leaves it
\* (projection.ts apply, rollbackTo).
THEOREM ProjectionsDoFollowTheLog == Spec => []ProjectionsFollowTheLog
<1>1. LogOK => ProjectionsFollowTheLog
  <2> SUFFICES ASSUME LogOK, forkedAt = 0
               PROVE  FeedIsCanonical /\ ShownFollowsTheLog
    BY DEF ProjectionsFollowTheLog
  <2>1. (\A b : Stands(b)) /\ \A subject : Standing(subject) = Seen(subject)
    BY AllStands
  <2>2. FeedIsCanonical
    BY <2>1 DEF LogOK, FeedOK, FeedIsCanonical
  <2>3. ShownFollowsTheLog
    BY <2>1 DEF LogOK, MandatesOK, MandateOK, ShownFollowsTheLog
  <2>. QED
    BY <2>2, <2>3
<1>. QED
  BY <1>1, LogAlways, PTL
-----------------------------------------------------------------------------
(* The Base vault: a quote for every instrument, and all that is claimed is  *)
(* there.                                                                    *)

CustodyOK ==
  /\ market \in [Listed -> Quotes]
  /\ claimShares \in [Listed -> Nat] /\ heldShares \in [Listed -> Nat]
  /\ \A i \in Listed : claimShares[i] <= heldShares[i]

\* The token takes no more shares for the units of a claim than the claim has: down,
\* down again and up does not come out above.
LEMMA LeavesWithin ==
  ASSUME NEW c \in Nat, NEW H \in Nat \ {0}, NEW f \in Nat \ {0}, NEW F \in Nat \ {0}
  PROVE  /\ MulDivUp(MulDiv(c, MulDiv(H, f, F), H), F, f) \in Nat
         /\ MulDivUp(MulDiv(c, MulDiv(H, f, F), H), F, f) <= c
<1>1. PICK D \in Nat : D = MulDiv(H, f, F) /\ F * D <= H * f
  BY DownBounds
<1>2. PICK V \in Nat : V = MulDiv(c, D, H) /\ H * V <= c * D
  BY DownBounds
<1>3. PICK L \in Nat : L = MulDivUp(V, F, f) /\ f * L < V * F + f
  BY UpBounds
<1>4. F * (H * V) <= F * (c * D)
  <2>1. H * V \in Nat /\ c * D \in Nat
    OBVIOUS
  <2>. QED
    BY <1>2, <2>1, TimesOrder
<1>5. c * (F * D) <= c * (H * f)
  <2>1. F * D \in Nat /\ H * f \in Nat
    OBVIOUS
  <2>. QED
    BY <1>1, <2>1, TimesOrder
<1>6. F * (H * V) = H * (V * F) /\ F * (c * D) = c * (F * D) /\ c * (H * f) = H * (f * c)
  OBVIOUS
<1>7. PICK x \in Nat : x = V * F
  OBVIOUS
<1>8. PICK y \in Nat : y = f * c
  OBVIOUS
<1>9. H * x <= H * y
  <2>1. F * (H * V) \in Nat /\ F * (c * D) \in Nat /\ c * (H * f) \in Nat
    OBVIOUS
  <2>. QED
    BY <1>4, <1>5, <1>6, <1>7, <1>8, <2>1
<1>10. x <= y
  <2>1. H * x \in Nat /\ H * y \in Nat /\ H * x < H * y + H
    BY <1>9
  <2>. QED
    BY <2>1, Cancel
<1>11. f * L < f * c + f
  <2>1. f * L \in Nat
    OBVIOUS
  <2>. QED
    BY <1>3, <1>7, <1>8, <1>10, <2>1
<1>12. L <= c
  BY <1>11, Cancel
<1>. QED
  BY <1>1, <1>2, <1>3, <1>12

\* What a claim takes out of the vault.
LEMMA LeavingIs ==
  ASSUME CustodyOK, NEW i \in Listed, NEW claim \in 1..claimShares[i]
  PROVE  leaving(i, claim) \in Nat /\ leaving(i, claim) <= claim
<1>1. market[i].factor \in Nat \ {0} /\ FactorOne \in Nat \ {0}
  BY CreditTerms DEF CustodyOK
<1>2. claim \in Nat \ {0} /\ heldShares[i] \in Nat \ {0}
  BY DEF CustodyOK
<1>3. valuation(i, claim) = MulDiv(claim, MulDiv(heldShares[i], market[i].factor, FactorOne), heldShares[i])
  BY <1>2 DEF valuation, displayed
<1>. QED
  BY <1>1, <1>2, <1>3, LeavesWithin DEF leaving, sharesFor

\* A release takes from the vault no more than it takes from the claims.
LEMMA ReleaseKeeps ==
  ASSUME CustodyOK, NEW claims, release(claims), UNCHANGED market
  PROVE  CustodyOK'
<1>1. ASSUME NEW i \in Listed
      PROVE  /\ claimShares'[i] \in Nat /\ heldShares'[i] \in Nat
             /\ claimShares'[i] <= heldShares'[i]
  <2>1. claimShares[i] \in Nat /\ heldShares[i] \in Nat /\ claimShares[i] <= heldShares[i]
    BY <1>1 DEF CustodyOK
  <2>2. CASE i \in DOMAIN claims
    <3>1. claims[i] \in 1..claimShares[i]
      BY <2>2 DEF release, CanLeave
    <3>2. leaving(i, claims[i]) \in Nat /\ leaving(i, claims[i]) <= claims[i]
      BY <3>1, LeavingIs
    <3>3. claimShares'[i] = claimShares[i] - claims[i] /\ heldShares'[i] = heldShares[i] - leaving(i, claims[i])
      BY <2>2 DEF release
    <3>. QED
      BY <2>1, <3>1, <3>2, <3>3
  <2>3. CASE i \notin DOMAIN claims
    BY <2>1, <2>3 DEF release
  <2>. QED
    BY <2>2, <2>3
<1>2. claimShares' \in [Listed -> Nat] /\ heldShares' \in [Listed -> Nat]
  <2>1. /\ claimShares' = [i \in Listed |-> claimShares'[i]]
        /\ heldShares' = [i \in Listed |-> heldShares'[i]]
    BY DEF release
  <2>. QED
    BY <1>1, <2>1
<1>3. Listed' = Listed
  BY DEF Listed
<1>. QED
  BY <1>1, <1>2, <1>3 DEF CustodyOK

\* A deposit adds as much to the vault as to the claim.
LEMMA CommitKeeps ==
  ASSUME CustodyOK, NEW i \in Listed, NEW requested \in 1..MaxHeld, commitCollateral(i, requested)
  PROVE  CustodyOK'
<1>1. market[i].factor \in Nat \ {0} /\ FactorOne \in Nat
  BY CreditTerms DEF CustodyOK
<1>2. requested \in Nat
  OBVIOUS
<1>3. PICK n \in Nat : n = sharesFor(i, requested)
  BY <1>1, <1>2, UpBounds DEF sharesFor
<1>4. /\ claimShares' = [claimShares EXCEPT ![i] = @ + n]
      /\ heldShares' = [heldShares EXCEPT ![i] = @ + n] /\ market' = market
  BY <1>3 DEF commitCollateral
<1>5. \A j \in Listed : claimShares'[j] <= heldShares'[j]
  BY <1>4 DEF CustodyOK
<1>6. claimShares' \in [Listed -> Nat] /\ heldShares' \in [Listed -> Nat] /\ Listed' = Listed
  BY <1>4 DEF CustodyOK, Listed
<1>. QED
  BY <1>4, <1>5, <1>6 DEF CustodyOK

\* Every call of the facility keeps it.
LEMMA CreditKeepsCustody ==
  ASSUME CustodyOK, CreditNext
  PROVE  CustodyOK'
<1>1. ASSUME UNCHANGED <<claimShares, heldShares, market>>
      PROVE  CustodyOK'
  BY <1>1 DEF CustodyOK, Listed
<1>2. CASE activate
  BY <1>1, <1>2 DEF activate, custody
<1>3. CASE settle
  <2> DEFINE pledged == {i \in admitted : claimShares[i] > 0}
             claims == [i \in pledged |-> claimShares[i]]
  <2>1. release(claims) /\ UNCHANGED market
    BY <1>3 DEF settle
  <2>. QED
    BY <2>1, ReleaseKeeps
<1>4. ASSUME NEW amount \in 1..MaxFunds, fund(amount) \/ draw(amount) \/ repay(amount)
      PROVE  CustodyOK'
  BY <1>1, <1>4 DEF fund, draw, repay, custody
<1>5. ASSUME NEW i \in Listed, admitCollateral(i)
      PROVE  CustodyOK'
  BY <1>1, <1>5 DEF admitCollateral, custody
<1>6. ASSUME NEW i \in Listed, Moves(i)
      PROVE  CustodyOK'
  BY <1>6 DEF Moves, custody, CustodyOK, Listed
<1>7. ASSUME NEW i \in Listed, Gift(i)
      PROVE  CustodyOK'
  BY <1>7 DEF Gift, CustodyOK, Listed
<1>8. ASSUME NEW i \in Listed, NEW requested \in 1..MaxHeld, commitCollateral(i, requested)
      PROVE  CustodyOK'
  BY <1>8, CommitKeeps
<1>9. ASSUME NEW i \in Listed, NEW claim \in 1..claimShares[i],
             withdrawCollateral(i, claim) \/ liquidate(i, claim)
      PROVE  CustodyOK'
  <2>1. release(i :> claim) /\ UNCHANGED market
    BY <1>9 DEF withdrawCollateral, liquidate
  <2>. QED
    BY <2>1, ReleaseKeeps
<1>. QED
  BY <1>2, <1>3, <1>4, <1>5, <1>6, <1>7, <1>8, <1>9 DEF CreditNext

\* The vault is that at every step.
THEOREM CustodyAlways == Spec => []CustodyOK
<1>1. Init => CustodyOK
  <2> SUFFICES ASSUME Init
               PROVE  CustodyOK
    OBVIOUS
  <2>1. CreditInit
    BY DEF Init
  <2>2. (CHOOSE q \in Quotes : q.feed = "LIVE") \in Quotes
    BY CreditTerms
  <2>3. market \in [Listed -> Quotes]
    <3>1. market = [i \in Listed |-> CHOOSE q \in Quotes : q.feed = "LIVE"]
      BY <2>1 DEF CreditInit
    <3>. QED
      BY <2>2, <3>1, Zenon
  <2>4. \A i \in Listed : claimShares[i] <= heldShares[i]
    BY <2>1 DEF CreditInit
  <2>5. claimShares \in [Listed -> Nat] /\ heldShares \in [Listed -> Nat]
    BY <2>1 DEF CreditInit
  <2>. QED
    BY <2>3, <2>4, <2>5 DEF CustodyOK
<1>2. CustodyOK /\ [Next]_vars => CustodyOK'
  <2> SUFFICES ASSUME CustodyOK, [Next]_vars
               PROVE  CustodyOK'
    OBVIOUS
  <2>1. CreditNext \/ UNCHANGED creditVars
    BY DEF Next, vars
  <2>2. CASE UNCHANGED creditVars
    BY <2>2 DEF creditVars, custody, CustodyOK, Listed
  <2>. QED
    BY <2>1, <2>2, CreditKeepsCustody
<1>. QED
  BY <1>1, <1>2, PTL DEF Spec

\* The Base vault never owes a share it does not hold, and a claim is never locked in:
\* whatever the factor becomes and whatever was given, deposited or sold, the token takes
\* for the units of a claim no more shares than the claim has, so that no withdrawal,
\* settlement or liquidation is refused for it (RebasingCollateralVault._withdraw).
THEOREM ClaimsMayAlwaysLeave == Spec => []ClaimsCanLeave
<1>1. CustodyOK => ClaimsCanLeave
  BY LeavingIs DEF ClaimsCanLeave, CustodyOK
<1>. QED
  BY <1>1, CustodyAlways, PTL

=============================================================================
