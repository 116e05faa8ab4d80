------------------------ MODULE LiquidityVaultProofs ------------------------
(***************************************************************************)
(* For every set of lenders, every amount and every bound: the vault's     *)
(* ledger is well typed, promised cash is really there, the redemption     *)
(* queue is first in, first out, its totals are the sums over its open     *)
(* requests, it implements ExitQueue, and no call makes a share worth      *)
(* less while nothing is lost. The loop of _serviceQueue is the            *)
(* difficulty of the first five: its walk is an iterated function, and     *)
(* GoodWalks is what each turn preserves. The last is about quotients.     *)
(***************************************************************************)
EXTENDS LiquidityVault, Induction

\* A quotient of naturals is one.
LEMMA MulDivType ==
  ASSUME NEW a \in Nat, NEW b \in Nat, NEW d \in Nat \ {0}
  PROVE  MulDiv(a, b, d) \in Nat
BY DEF MulDiv

\* A fraction of at most one of a quantity is at most the quantity.
LEMMA MulDivBound ==
  ASSUME NEW a \in Nat, NEW d \in Nat \ {0}, NEW b \in 0..d
  PROVE  MulDiv(a, b, d) \in 0..a
<1>1. a * b <= a * d
  OBVIOUS
<1>2. a * b \in Nat /\ a * d \in Nat
  OBVIOUS
<1>3. (a * b) \div d <= a
  BY <1>1, <1>2
<1>. QED
  BY <1>3, MulDivType DEF MulDiv

-----------------------------------------------------------------------------
(* The walk of _serviceQueue.                                               *)

Requests(next) == [1..(next - 1) -> Request]

\* Nothing is funded past its amount; the requests before `head` are settled and those behind
\* it have nothing.
InOrder(reqs, head, next) ==
  /\ \A i \in 1..(next - 1) : reqs[i].funded <= reqs[i].amount
  /\ \A i \in 1..(head - 1) : Settled(reqs[i])
  /\ \A i \in (head + 1)..(next - 1) : reqs[i].funded = 0

\* The walks over `next - 1` requests that started with `free` cash.
GoodWalks(next, free) ==
  {w \in [reqs : Requests(next), head : 1..next, free : Nat, given : Nat, stuck : BOOLEAN] :
     w.free + w.given = free /\ InOrder(w.reqs, w.head, next)}

\* A turn of the walk keeps the requests in order and the budget a number.
LEMMA WalkStepGood ==
  ASSUME NEW next \in Nat \ {0}, NEW free \in Nat, NEW w \in GoodWalks(next, free)
  PROVE  WalkStep(w, next) \in GoodWalks(next, free)
<1> DEFINE r == w.reqs[w.head]
           give == Give(r, w.free)
           v == WalkStep(w, next)
<1>1. /\ w \in [reqs : Requests(next), head : 1..next, free : Nat, given : Nat, stuck : BOOLEAN]
      /\ w.free + w.given = free
      /\ InOrder(w.reqs, w.head, next)
  BY DEF GoodWalks
<1>2. CASE w.free = 0 \/ w.head >= next \/ w.stuck
  BY <1>2 DEF WalkStep
<1>3. CASE ~(w.free = 0 \/ w.head >= next \/ w.stuck)
  <2>1. w.head \in 1..(next - 1) /\ w.head + 1 \in 1..next
    BY <1>1, <1>3
  <2>2. r \in Request /\ r.funded <= r.amount /\ r.funded \in Nat /\ r.amount \in Nat
    BY <1>1, <2>1 DEF Requests, InOrder, Request
  <2>3. CASE Settled(r)
    <3>1. v = [w EXCEPT !.head = w.head + 1]
      BY <1>3, <2>3 DEF WalkStep
    <3>2. v \in [reqs : Requests(next), head : 1..next, free : Nat, given : Nat, stuck : BOOLEAN]
      BY <1>1, <2>1, <3>1
    <3>3. v.reqs = w.reqs /\ v.head = w.head + 1 /\ v.free = w.free /\ v.given = w.given
      BY <1>1, <3>1
    <3>4. InOrder(v.reqs, v.head, next)
      BY <1>1, <2>1, <2>3, <3>3 DEF InOrder
    <3>. QED
      BY <1>1, <3>2, <3>3, <3>4 DEF GoodWalks
  <2>4. CASE ~Settled(r)
    <3>1. give \in Nat /\ give <= w.free /\ r.funded + give <= r.amount
      BY <1>1, <2>2 DEF Give, Least
    <3> DEFINE s == [r EXCEPT !.funded = r.funded + give]
               reqs == [w.reqs EXCEPT ![w.head] = s]
    <3>2. v = [reqs  |-> reqs,
               head  |-> NextHead(w.head, r, give),
               free  |-> w.free - give,
               given |-> w.given + give,
               stuck |-> r.funded + give < r.amount]
      BY <1>3, <2>4 DEF WalkStep
    <3>3. /\ s \in Request /\ s.funded = r.funded + give /\ s.amount = r.amount
          /\ s.claimed = r.claimed
      BY <2>2, <3>1 DEF Request
    <3>4. /\ reqs \in Requests(next)
          /\ reqs[w.head] = s
          /\ \A i \in 1..(next - 1) : i # w.head => reqs[i] = w.reqs[i]
      <4> HIDE DEF s
      <4>. QED
        BY <1>1, <2>1, <3>3 DEF Requests
    <3>5. NextHead(w.head, r, give) \in {w.head, w.head + 1}
          /\ (NextHead(w.head, r, give) = w.head + 1 => s.funded = s.amount)
      BY <1>1, <3>3 DEF NextHead
    <3>6. InOrder(reqs, NextHead(w.head, r, give), next)
      <4> HIDE DEF reqs, s, give, r
      <4>1. \A i \in 1..(next - 1) : reqs[i].funded <= reqs[i].amount
        BY <1>1, <3>1, <3>3, <3>4 DEF InOrder
      <4>2. \A i \in 1..(NextHead(w.head, r, give) - 1) : Settled(reqs[i])
        BY <1>1, <2>1, <3>4, <3>5 DEF InOrder, Settled
      <4>3. \A i \in (NextHead(w.head, r, give) + 1)..(next - 1) : reqs[i].funded = 0
        BY <1>1, <2>1, <3>4, <3>5 DEF InOrder
      <4>. QED
        BY <4>1, <4>2, <4>3 DEF InOrder
    <3>7. w.free - give \in Nat /\ w.given + give \in Nat
          /\ (w.free - give) + (w.given + give) = free
      BY <1>1, <3>1
    <3>. QED
      <4> HIDE DEF reqs, give, r
      <4>. QED
        BY <1>1, <2>1, <3>2, <3>4, <3>5, <3>6, <3>7 DEF GoodWalks
  <2>. QED
    BY <2>3, <2>4
<1>. QED
  BY <1>2, <1>3

\* Where every turn of a walk stays, the whole walk ends.
LEMMA WalkIn ==
  ASSUME NEW next, NEW free, NEW reqs, NEW head, NEW W,
         [reqs |-> reqs, head |-> head, free |-> free, given |-> 0, stuck |-> FALSE] \in W,
         \A w \in W : WalkStep(w, next) \in W
  PROVE  Walk(reqs, head, next, free) \in W
<1> DEFINE w0 == [reqs |-> reqs, head |-> head, free |-> free, given |-> 0, stuck |-> FALSE]
           step == [w \in W |-> WalkStep(w, next)]
           Turn(t) == t = [n \in 0..MaxQueueSteps |->
                             IF n = 0 THEN w0 ELSE WalkStep(t[n - 1], next)]
<1>1. w0 \in W
  OBVIOUS
<1>2. step \in [W -> W]
  OBVIOUS
<1>3. MaxQueueSteps \in Nat
  BY VaultConstants
<1>4. PICK f \in [Nat -> W] :
        f[0] = w0 /\ \A n \in Nat : n < MaxQueueSteps => f[n + 1] = step[f[n]]
  <2> HIDE DEF w0, step
  <2>1. Iterable(W, w0, step, MaxQueueSteps)
    BY <1>1, <1>2, <1>3, Iterates
  <2>. QED
    BY <2>1 DEF Iterable
<1> DEFINE t0 == [n \in 0..MaxQueueSteps |-> f[n]]
<1>5. Turn(t0)
  <2>1. ASSUME NEW n \in 0..MaxQueueSteps
        PROVE  t0[n] = IF n = 0 THEN w0 ELSE WalkStep(t0[n - 1], next)
    <3>1. CASE n = 0
      BY <1>4, <3>1
    <3>2. CASE n # 0
      <4>1. n - 1 \in 0..MaxQueueSteps /\ n - 1 \in Nat /\ n - 1 < MaxQueueSteps
            /\ (n - 1) + 1 = n
        BY <1>3, <3>2
      <4>2. f[n - 1] \in W /\ t0[n - 1] = f[n - 1]
        BY <1>4, <4>1
      <4>3. f[n] = step[f[n - 1]]
        BY <1>4, <4>1
      <4>. QED
        BY <3>2, <4>2, <4>3
    <3>. QED
      BY <3>1, <3>2
  <2>. QED
    BY <2>1
<1> DEFINE turn == CHOOSE t : Turn(t)
           S == {n \in Nat : n <= MaxQueueSteps => turn[n] \in W}
<1>6. Turn(turn)
  BY <1>5
<1>7. Walk(reqs, head, next, free) = turn[MaxQueueSteps]
  BY DEF Walk
<1> HIDE DEF turn
<1>8. 0 \in S
  <2>1. turn[0] = w0
    BY <1>3, <1>6
  <2>. QED
    BY <1>1, <2>1
<1>9. ASSUME NEW n \in S
      PROVE  n + 1 \in S
  <2>1. CASE n + 1 <= MaxQueueSteps
    <3>1. n \in 0..MaxQueueSteps /\ n + 1 \in 0..MaxQueueSteps /\ (n + 1) - 1 = n /\ n + 1 # 0
      BY <1>3, <2>1
    <3>2. turn[n] \in W
      BY <1>3, <3>1
    <3>3. turn[n + 1] = WalkStep(turn[n], next)
      BY <1>6, <3>1
    <3>. QED
      BY <3>2, <3>3
  <2>2. CASE ~(n + 1 <= MaxQueueSteps)
    BY <2>2
  <2>. QED
    BY <2>1, <2>2
<1>10. S = Nat
  <2>1. S \in SUBSET Nat
    OBVIOUS
  <2> HIDE DEF S
  <2>. QED
    BY <1>8, <1>9, <2>1, SetInduction
<1>11. turn[MaxQueueSteps] \in W
  BY <1>3, <1>10
<1>. QED
  BY <1>7, <1>11

\* The whole walk stays within its budget and leaves the queue in order.
LEMMA WalkGood ==
  ASSUME NEW next \in Nat \ {0}, NEW free \in Nat, NEW reqs \in Requests(next),
         NEW head \in 1..next, InOrder(reqs, head, next)
  PROVE  Walk(reqs, head, next, free) \in GoodWalks(next, free)
<1>1. [reqs |-> reqs, head |-> head, free |-> free, given |-> 0, stuck |-> FALSE] \in GoodWalks(next, free)
  BY DEF GoodWalks
<1>. QED
  BY <1>1, WalkStepGood, WalkIn

\* `reqs` is `start` with more cash set aside, for open requests behind settled ones.
Filled(start, reqs, next) ==
  \A i \in 1..(next - 1) :
    /\ reqs[i] = [start[i] EXCEPT !.funded = reqs[i].funded]
    /\ reqs[i].funded \in start[i].funded..start[i].amount
    /\ reqs[i].funded # start[i].funded =>
         /\ ~start[i].claimed
         /\ \A j \in 1..(i - 1) : start[j].claimed \/ reqs[j].funded = start[j].amount

Put(start, reqs, next) ==
  SumFunctionOnSet([i \in 1..(next - 1) |-> reqs[i].funded - start[i].funded], 1..(next - 1))

\* The walks that only fill, and account for what they gave.
FillingWalks(start, next, free) ==
  {w \in GoodWalks(next, free) : Filled(start, w.reqs, next) /\ w.given = Put(start, w.reqs, next)}

\* A turn gives out what it takes from the budget, to one request.
LEMMA WalkStepFills ==
  ASSUME NEW next \in Nat \ {0}, NEW free \in Nat, NEW start \in Requests(next),
         NEW w \in FillingWalks(start, next, free)
  PROVE  WalkStep(w, next) \in FillingWalks(start, next, free)
<1> DEFINE r == w.reqs[w.head]
           give == Give(r, w.free)
           v == WalkStep(w, next)
<1>0. v \in GoodWalks(next, free)
  BY WalkStepGood DEF FillingWalks
<1>1. /\ w \in [reqs : Requests(next), head : 1..next, free : Nat, given : Nat, stuck : BOOLEAN]
      /\ InOrder(w.reqs, w.head, next)
      /\ Filled(start, w.reqs, next) /\ w.given = Put(start, w.reqs, next)
  BY DEF FillingWalks, GoodWalks
<1>2. CASE w.free = 0 \/ w.head >= next \/ w.stuck
  <2>1. WalkStep(w, next) = w
    BY <1>2 DEF WalkStep
  <2>. QED
    BY <2>1
<1>3. CASE ~(w.free = 0 \/ w.head >= next \/ w.stuck) /\ Settled(r)
  <2>1. v.reqs = w.reqs /\ v.given = w.given
    BY <1>1, <1>3 DEF WalkStep
  <2>2. v \in FillingWalks(start, next, free)
    <3> HIDE DEF v
    <3>. QED
      BY <1>0, <1>1, <2>1 DEF FillingWalks
  <2>. QED
    BY <2>2
<1>4. CASE ~(w.free = 0 \/ w.head >= next \/ w.stuck) /\ ~Settled(r)
  <2>1. PICK h \in 1..(next - 1) : h = w.head
    BY <1>1, <1>4
  <2>2. /\ r \in Request /\ r.funded <= r.amount /\ r.funded \in Nat /\ r.amount \in Nat
        /\ start[h] \in Request /\ start[h].funded \in Nat /\ start[h].amount \in Nat
    BY <1>1, <2>1 DEF Requests, InOrder, Request
  <2>3. give \in Nat /\ r.funded + give <= r.amount
    BY <1>1, <2>2 DEF Give, Least
  <2>4. v.reqs = [w.reqs EXCEPT ![h].funded = @ + give] /\ v.given = w.given + give
    BY <1>4, <2>1 DEF WalkStep
  <2>5. /\ \A i \in 1..(next - 1) : i # h => v.reqs[i] = w.reqs[i]
        /\ v.reqs[h] = [r EXCEPT !.funded = r.funded + give]
    BY <1>1, <2>1, <2>4 DEF Requests
  <2>6. v.reqs[h].funded = r.funded + give
    BY <2>2, <2>5 DEF Request
  <2>7. /\ r = [start[h] EXCEPT !.funded = r.funded]
        /\ r.funded \in start[h].funded..start[h].amount
        /\ r.amount = start[h].amount /\ r.claimed = start[h].claimed
    <3>1. /\ r = [start[h] EXCEPT !.funded = r.funded]
          /\ r.funded \in start[h].funded..start[h].amount
      BY <1>1, <2>1 DEF Filled
    <3>2. /\ [start[h] EXCEPT !.funded = r.funded].amount = start[h].amount
          /\ [start[h] EXCEPT !.funded = r.funded].claimed = start[h].claimed
      BY <2>2 DEF Request
    <3> HIDE DEF r
    <3>. QED
      BY <3>1, <3>2
  <2>8. v.reqs[h] = [start[h] EXCEPT !.funded = v.reqs[h].funded]
    <3>1. [r EXCEPT !.funded = r.funded + give] = [start[h] EXCEPT !.funded = r.funded + give]
      BY <2>2, <2>7 DEF Request
    <3>. QED
      BY <2>5, <2>6, <3>1
  <2>9. Filled(start, v.reqs, next)
    <3>1. ASSUME NEW i \in 1..(next - 1)
          PROVE  /\ v.reqs[i] = [start[i] EXCEPT !.funded = v.reqs[i].funded]
                 /\ v.reqs[i].funded \in start[i].funded..start[i].amount
                 /\ v.reqs[i].funded # start[i].funded =>
                      /\ ~start[i].claimed
                      /\ \A j \in 1..(i - 1) : start[j].claimed \/ v.reqs[j].funded = start[j].amount
      <4>1. CASE i = h
        <5>1. v.reqs[i].funded \in start[i].funded..start[i].amount
          BY <2>2, <2>3, <2>6, <2>7, <4>1
        <5>2. ~start[i].claimed
          BY <1>4, <2>7, <4>1 DEF Settled
        <5>3. ASSUME NEW j \in 1..(i - 1)
              PROVE  start[j].claimed \/ v.reqs[j].funded = start[j].amount
          <6>1. Settled(w.reqs[j]) /\ j \in 1..(next - 1) /\ j # h
            BY <1>1, <2>1, <4>1 DEF InOrder
          <6>2. w.reqs[j] = [start[j] EXCEPT !.funded = w.reqs[j].funded] /\ start[j] \in Request
            BY <1>1, <6>1 DEF Filled, Requests
          <6>3. /\ [start[j] EXCEPT !.funded = w.reqs[j].funded].amount = start[j].amount
                /\ [start[j] EXCEPT !.funded = w.reqs[j].funded].claimed = start[j].claimed
            BY <6>2 DEF Request
          <6>4. v.reqs[j] = w.reqs[j]
            BY <2>5, <6>1
          <6>. QED
            BY <6>1, <6>2, <6>3, <6>4 DEF Settled
        <5>. QED
          BY <2>8, <4>1, <5>1, <5>2, <5>3
      <4>2. CASE i # h
        <5>1. v.reqs[i] = w.reqs[i]
          BY <2>5, <4>2
        <5>2. /\ w.reqs[i] = [start[i] EXCEPT !.funded = w.reqs[i].funded]
              /\ w.reqs[i].funded \in start[i].funded..start[i].amount
              /\ w.reqs[i].funded # start[i].funded =>
                   /\ ~start[i].claimed
                   /\ \A j \in 1..(i - 1) : start[j].claimed \/ w.reqs[j].funded = start[j].amount
          BY <1>1 DEF Filled
        <5>3. ASSUME w.reqs[i].funded # start[i].funded, NEW j \in 1..(i - 1)
              PROVE  start[j].claimed \/ v.reqs[j].funded = start[j].amount
          <6>1. start[j].claimed \/ w.reqs[j].funded = start[j].amount
            BY <5>2, <5>3
          <6>2. CASE j = h
            <7>1. start[h].claimed \/ r.funded = start[h].amount
              BY <2>1, <6>1, <6>2
            <7>. QED
              BY <1>4, <2>7, <7>1 DEF Settled
          <6>3. CASE j # h
            <7>1. v.reqs[j] = w.reqs[j]
              BY <2>5, <6>3
            <7>. QED
              BY <6>1, <7>1
          <6>. QED
            BY <6>2, <6>3
        <5> HIDE DEF v
        <5>. QED
          BY <5>1, <5>2, <5>3
      <4>. QED
        BY <4>1, <4>2
    <3> HIDE DEF v
    <3>. QED
      BY <3>1 DEF Filled
  <2>10. v.given = Put(start, v.reqs, next)
    <3> DEFINE S == 1..(next - 1)
               f == [i \in S |-> w.reqs[i].funded - start[i].funded]
               g == [i \in S |-> v.reqs[i].funded - start[i].funded]
    <3>1. IsFiniteSet(S) /\ h \in S
      BY FS_Interval
    <3>2. ASSUME NEW i \in S
          PROVE  f[i] \in Int /\ g[i] \in Int /\ (i # h => g[i] = f[i])
      <4>1. w.reqs[i].funded \in Nat /\ start[i].funded \in Nat
        BY <1>1 DEF Requests, Request
      <4>2. v.reqs \in Requests(next)
        <5> HIDE DEF v
        <5>. QED
          BY <1>0 DEF GoodWalks
      <4>3. v.reqs[i].funded \in Nat
        <5> HIDE DEF v
        <5>. QED
          BY <4>2 DEF Requests, Request
      <4>. QED
        BY <2>5, <4>1, <4>3
    <3>3. g[h] - f[h] = give
      <4>1. w.reqs[h].funded = r.funded
        BY <2>1
      <4> HIDE DEF v, r, give
      <4>. QED
        BY <2>2, <2>3, <2>6, <3>1, <4>1
    <3>4. w.given = SumFunctionOnSet(f, S)
      BY <1>1 DEF Put
    <3>5. SumFunctionOnSet(f, S) \in Int /\ SumFunctionOnSet(g, S) = SumFunctionOnSet(f, S) + (g[h] - f[h])
      <4> HIDE DEF f, g, S
      <4>1. PICK k : k = h
        OBVIOUS
      <4>2. k \in S /\ IsFiniteSet(S) /\ \A i \in S : f[i] \in Int /\ g[i] \in Int
        BY <3>1, <3>2, <4>1
      <4>3. \A i \in S : i # k => g[i] = f[i]
        BY <3>2, <4>1
      <4>4. /\ SumFunctionOnSet(f, S) \in Int
            /\ SumFunctionOnSet(g, S) = SumFunctionOnSet(f, S) + (g[k] - f[k])
        BY <4>2, <4>3, TermChanges DEF ChangesAt
      <4>. QED
        BY <4>1, <4>4
    <3>6. Put(start, v.reqs, next) = SumFunctionOnSet(g, S)
      BY DEF Put
    <3> HIDE DEF f, g, S, v, give
    <3>. QED
      BY <2>4, <3>3, <3>4, <3>5, <3>6
  <2>11. v \in FillingWalks(start, next, free)
    <3> HIDE DEF v
    <3>. QED
      BY <1>0, <2>9, <2>10 DEF FillingWalks
  <2>. QED
    BY <2>11
<1> HIDE DEF r
<1>. QED
  BY <1>2, <1>3, <1>4

\* The whole walk only fills.
LEMMA WalkFills ==
  ASSUME NEW next \in Nat \ {0}, NEW free \in Nat, NEW reqs \in Requests(next),
         NEW head \in 1..next, InOrder(reqs, head, next)
  PROVE  Walk(reqs, head, next, free) \in FillingWalks(reqs, next, free)
<1> DEFINE w0 == [reqs |-> reqs, head |-> head, free |-> free, given |-> 0, stuck |-> FALSE]
<1>1. w0 \in GoodWalks(next, free)
  BY DEF GoodWalks
<1>2. ASSUME NEW i \in 1..(next - 1)
      PROVE  /\ reqs[i] \in Request /\ reqs[i].funded \in Nat /\ reqs[i].amount \in Nat
             /\ reqs[i].funded <= reqs[i].amount
             /\ reqs[i] = [reqs[i] EXCEPT !.funded = reqs[i].funded]
  BY DEF Requests, Request, InOrder
<1>3. Filled(reqs, reqs, next)
  BY <1>2 DEF Filled
<1>4. Put(reqs, reqs, next) = 0
  <2> DEFINE f == [i \in 1..(next - 1) |-> reqs[i].funded - reqs[i].funded]
  <2>1. ASSUME NEW i \in 1..(next - 1)
        PROVE  f[i] = 0
    <3>1. reqs[i].funded \in Nat
      BY <1>2
    <3>2. \A x \in Nat : x - x = 0
      OBVIOUS
    <3>. QED
      BY <3>1, <3>2
  <2>2. IsFiniteSet(1..(next - 1))
    BY FS_Interval
  <2>3. SumFunctionOnSet(f, 1..(next - 1)) = 0
    <3> HIDE DEF f
    <3>. QED
      BY <2>1, <2>2, SumOfZeros
  <2>. QED
    BY <2>3 DEF Put
<1>5. w0 \in FillingWalks(reqs, next, free)
  BY <1>1, <1>3, <1>4 DEF FillingWalks
<1>. QED
  BY <1>5, WalkStepFills, WalkIn

-----------------------------------------------------------------------------
(* The inductive invariant.                                                 *)

IInv == TypeOK /\ CashCovered /\ QueueFifo

\* With the promises covered, free cash is the rest of the cash.
LEMMA FreeCashType ==
  ASSUME TypeOK, CashCovered
  PROVE  availableCash \in Nat /\ availableCash = cash - SpokenFor
BY DEF availableCash, FreeCash, Monus, TypeOK, CashCovered, SpokenFor

\* Shares and assets convert to numbers.
LEMMA ConversionTypes ==
  ASSUME TypeOK
  PROVE  /\ \A n \in Nat : convertToShares(n) \in Nat /\ convertToAssets(n) \in Nat
         /\ \A n, ta \in Nat : SharesFor(n, ta) \in Nat
         /\ \A held \in Nat, owed \in Nat : NetAssets(held, owed) \in Nat
<1>1. ASSUME NEW held \in Nat, NEW owed \in Nat
      PROVE  NetAssets(held, owed) \in Nat
  BY DEF NetAssets, Monus, TypeOK
<1>2. totalAssets \in Nat
  BY <1>1 DEF totalAssets, TypeOK
<1>3. ASSUME NEW n \in Nat, NEW ta \in Nat
      PROVE  SharesFor(n, ta) \in Nat
  <2>1. CASE totalSupply = 0 \/ ta = 0
    BY <2>1 DEF SharesFor
  <2>2. CASE ~(totalSupply = 0 \/ ta = 0)
    BY <2>2, MulDivType DEF SharesFor, TypeOK
  <2>. QED
    BY <2>1, <2>2
<1>4. ASSUME NEW n \in Nat
      PROVE  convertToAssets(n) \in Nat
  <2>1. CASE totalSupply = 0
    BY <2>1 DEF convertToAssets
  <2>2. CASE totalSupply # 0
    BY <1>2, <2>2, MulDivType DEF convertToAssets, TypeOK
  <2>. QED
    BY <2>1, <2>2
<1>. QED
  BY <1>1, <1>2, <1>3, <1>4 DEF convertToShares

\* A service call keeps the queue in order and sets aside no more than the free cash.
LEMMA ServiceQueueGood ==
  ASSUME TypeOK, CashCovered,
         NEW next \in Nat \ {0}, NEW reqs \in Requests(next),
         queueHead \in 1..next, InOrder(reqs, queueHead, next),
         ServiceQueue(reqs, next)
  PROVE  /\ requests' \in Requests(next)
         /\ queueHead' \in 1..next
         /\ InOrder(requests', queueHead', next)
         /\ queuedFunded' \in Nat
         /\ reservedCash + reserves + queuedFunded' <= cash
<1> DEFINE w == Walk(reqs, queueHead, next, availableCash)
<1>1. availableCash \in Nat /\ availableCash = cash - SpokenFor
  BY FreeCashType
<1>2. w \in GoodWalks(next, availableCash)
  BY <1>1, WalkGood
<1>3. /\ w.reqs \in Requests(next) /\ w.head \in 1..next /\ w.free \in Nat /\ w.given \in Nat
      /\ w.free + w.given = availableCash /\ InOrder(w.reqs, w.head, next)
  <2> HIDE DEF w
  <2>. QED
    BY <1>2 DEF GoodWalks
<1>4. requests' = w.reqs /\ queueHead' = w.head /\ queuedFunded' = queuedFunded + w.given
  BY DEF ServiceQueue
<1> HIDE DEF w
<1>. QED
  BY <1>1, <1>3, <1>4 DEF TypeOK, SpokenFor

\* The queue's part of the invariant, in the vocabulary of the walk.
LEMMA QueueInOrder ==
  ASSUME nextRequestId \in Nat \ {0}
  PROVE  /\ requests \in [RequestIds -> Request] <=> requests \in Requests(nextRequestId)
         /\ InOrder(requests, queueHead, nextRequestId) <=>
              (\A id \in RequestIds : requests[id].funded <= requests[id].amount) /\ QueueFifo
BY DEF RequestIds, Requests, InOrder, QueueFifo

\* The empty pool satisfies the inductive invariant.
LEMMA InitIInv == Init => IInv
<1> SUFFICES ASSUME Init
             PROVE  IInv
  OBVIOUS
<1>1. requests \in [RequestIds -> Request] /\ RequestIds = {}
  BY DEF Init, RequestIds
<1>2. TypeOK
  BY <1>1 DEF Init, TypeOK
<1>3. CashCovered
  BY DEF Init, CashCovered, SpokenFor
<1>4. QueueFifo
  BY DEF Init, QueueFifo
<1>. QED
  BY <1>2, <1>3, <1>4 DEF IInv

\* Every call keeps it.
LEMMA NextIInv == IInv /\ [Next]_vars => IInv'
<1> SUFFICES ASSUME IInv, [Next]_vars
             PROVE  IInv'
  OBVIOUS
<1> USE VaultConstants
<1>0. TypeOK /\ CashCovered /\ QueueFifo
  BY DEF IInv
<1>1. ASSUME NEW l \in Lenders, NEW n \in Amounts, Supply(l, n)
      PROVE  IInv'
  <2>1. convertToShares(n) \in Nat
    BY <1>0, ConversionTypes
  <2>2. TypeOK'
    BY <1>0, <1>1, <2>1 DEF TypeOK, Supply, Mint, books, queue, RequestIds
  <2>3. CashCovered'
    BY <1>0, <1>1 DEF TypeOK, CashCovered, SpokenFor, Supply, books, queue
  <2>4. QueueFifo'
    BY <1>0, <1>1 DEF QueueFifo, Settled, Supply, queue
  <2>. QED
    BY <2>2, <2>3, <2>4 DEF IInv
<1>2. ASSUME NEW l \in Lenders, NEW n \in Amounts, Withdraw(l, n)
      PROVE  IInv'
  <2>1. convertToAssets(n) \in Nat /\ convertToAssets(n) <= cash - SpokenFor
    BY <1>0, <1>2, ConversionTypes, FreeCashType DEF Withdraw
  <2>2. TypeOK'
    BY <1>0, <1>2, <2>1 DEF TypeOK, CashCovered, SpokenFor, Withdraw, Burn, books, queue, RequestIds
  <2>3. CashCovered'
    BY <1>0, <1>2, <2>1 DEF TypeOK, CashCovered, SpokenFor, Withdraw, books, queue
  <2>4. QueueFifo'
    BY <1>0, <1>2 DEF QueueFifo, Settled, Withdraw, queue
  <2>. QED
    BY <2>2, <2>3, <2>4 DEF IInv
<1>3. ASSUME NEW l \in Lenders, NEW m \in Lenders, NEW n \in Amounts, l # m, Transfer(l, m, n)
      PROVE  IInv'
  <2>1. shares' \in [Lenders -> Nat]
    BY <1>0, <1>3 DEF TypeOK, Transfer
  <2>2. TypeOK'
    BY <1>0, <1>3, <2>1 DEF TypeOK, Transfer, books, queue, RequestIds
  <2>3. CashCovered' /\ QueueFifo'
    BY <1>0, <1>3 DEF CashCovered, SpokenFor, QueueFifo, Settled, Transfer, books, queue
  <2>. QED
    BY <2>2, <2>3 DEF IInv
<1>4. ASSUME NEW l \in Lenders, NEW n \in Amounts, RequestWithdrawal(l, n)
      PROVE  IInv'
  <2> DEFINE amount == convertToAssets(n)
             filed == [lender |-> l, amount |-> amount, funded |-> 0, claimed |-> FALSE]
             next == nextRequestId + 1
             reqs == [i \in 1..nextRequestId |-> IF i = nextRequestId THEN filed ELSE requests[i]]
  <2>1. /\ nextRequestId' = next
        /\ queuedLiabilities' = queuedLiabilities + amount
        /\ ServiceQueue(reqs, next)
        /\ Burn(l, n)
        /\ UNCHANGED <<cash, books, reservedCash>>
    BY <1>4 DEF RequestWithdrawal
  <2>2. amount \in Nat /\ filed \in Request
    BY <1>0, ConversionTypes DEF Request
  <2>3. nextRequestId \in Nat \ {0} /\ next \in Nat \ {0} /\ next - 1 = nextRequestId
        /\ queueHead \in 1..nextRequestId /\ queueHead \in 1..next
    BY <1>0 DEF TypeOK
  <2>4. reqs \in Requests(next)
    <3> HIDE DEF filed
    <3>. QED
      BY <1>0, <2>2, <2>3 DEF TypeOK, RequestIds, Requests
  <2>5. InOrder(requests, queueHead, nextRequestId)
    BY <1>0, <2>3, QueueInOrder DEF TypeOK
  <2>6. InOrder(reqs, queueHead, next)
    <3>1. \A i \in 1..(nextRequestId - 1) : reqs[i] = requests[i]
      BY <2>3
    <3>2. reqs[nextRequestId] = filed
      BY <2>3
    <3>3. filed.funded = 0 /\ filed.amount \in Nat
      BY <2>2
    <3> HIDE DEF reqs, filed
    <3>. QED
      BY <2>3, <2>5, <3>1, <3>2, <3>3 DEF InOrder
  <2>7. /\ requests' \in Requests(next)
        /\ queueHead' \in 1..next
        /\ InOrder(requests', queueHead', next)
        /\ queuedFunded' \in Nat
        /\ reservedCash + reserves + queuedFunded' <= cash
    <3> HIDE DEF reqs, next
    <3>. QED
      BY <1>0, <2>1, <2>3, <2>4, <2>6, ServiceQueueGood
  <2>8. shares' \in [Lenders -> Nat] /\ totalSupply' \in Nat
    BY <1>0, <2>1 DEF TypeOK, Burn
  <2>9. TypeOK'
    <3> HIDE DEF amount, reqs
    <3>. QED
      BY <1>0, <2>1, <2>2, <2>3, <2>7, <2>8 DEF TypeOK, Requests, RequestIds, InOrder, books
  <2>10. CashCovered'
    BY <2>1, <2>7 DEF CashCovered, SpokenFor, books
  <2>11. QueueFifo'
    <3> HIDE DEF reqs
    <3>. QED
      BY <2>1, <2>7 DEF QueueFifo, InOrder
  <2>. QED
    BY <2>9, <2>10, <2>11 DEF IInv
<1>5. ASSUME NEW id \in RequestIds, CancelWithdrawal(id)
      PROVE  IInv'
  <2> DEFINE r == requests[id]
             minted == SharesFor(r.amount - r.funded,
                                 NetAssets(cash - r.funded, queuedLiabilities - Discharged(r)))
  <2>1. r \in Request /\ r.funded \in Nat /\ r.amount \in Nat /\ r.funded <= r.amount
        /\ r.lender \in Lenders
    BY <1>0 DEF TypeOK, Request
  <2>2. /\ r.amount <= queuedLiabilities /\ r.funded <= queuedFunded /\ r.funded <= cash
        /\ Close(id)
        /\ queuedLiabilities' = queuedLiabilities - r.amount
        /\ queuedFunded' = queuedFunded - r.funded
        /\ cash' = cash - r.funded
        /\ Mint(r.lender, minted)
        /\ UNCHANGED <<books, reservedCash, nextRequestId, queueHead>>
    BY <1>5 DEF CancelWithdrawal, Discharged
  <2>3. minted \in Nat
    <3> DEFINE held == cash - r.funded
               owed == queuedLiabilities - Discharged(r)
               unfunded == r.amount - r.funded
    <3>1. held \in Nat /\ owed \in Nat /\ unfunded \in Nat
      BY <1>0, <2>1, <2>2 DEF Discharged, TypeOK
    <3> HIDE DEF held, owed, unfunded
    <3>2. NetAssets(held, owed) \in Nat
      BY <1>0, <3>1, ConversionTypes
    <3>3. SharesFor(unfunded, NetAssets(held, owed)) \in Nat
      BY <1>0, <3>1, <3>2, ConversionTypes
    <3>. QED
      BY <3>3 DEF held, owed, unfunded
  <2>4. /\ requests' \in [RequestIds -> Request]
        /\ \A i \in RequestIds : /\ requests'[i].funded = requests[i].funded
                                 /\ requests'[i].amount = requests[i].amount
                                 /\ Settled(requests[i]) => Settled(requests'[i])
    BY <1>0, <2>2 DEF TypeOK, Close, Request, Settled
  <2>5. TypeOK'
    <3>1. shares' \in [Lenders -> Nat] /\ totalSupply' \in Nat
      <4> HIDE DEF minted
      <4>. QED
        BY <1>0, <2>1, <2>2, <2>3 DEF TypeOK, Mint
    <3>2. queuedLiabilities' \in Nat /\ queuedFunded' \in Nat /\ cash' \in Nat
      <4> HIDE DEF r
      <4>. QED
        BY <1>0, <2>1, <2>2 DEF TypeOK
    <3>3. RequestIds' = RequestIds
      BY <2>2 DEF RequestIds
    <3>4. \A i \in RequestIds' : requests'[i].funded <= requests'[i].amount
      BY <1>0, <2>4, <3>3 DEF TypeOK
    <3> HIDE DEF r, minted
    <3>. QED
      BY <1>0, <2>2, <2>4, <3>1, <3>2, <3>3, <3>4 DEF TypeOK, books
  <2>6. CashCovered'
    <3> HIDE DEF r
    <3>. QED
      BY <1>0, <2>1, <2>2 DEF TypeOK, CashCovered, SpokenFor, books
  <2>7. QueueFifo'
    BY <1>0, <2>2, <2>4 DEF TypeOK, QueueFifo, RequestIds
  <2>. QED
    BY <2>5, <2>6, <2>7 DEF IInv
<1>6. ASSUME NEW id \in RequestIds, ClaimWithdrawal(id)
      PROVE  IInv'
  <2> DEFINE r == requests[id]
  <2>1. r \in Request /\ r.funded \in Nat /\ r.amount \in Nat
    BY <1>0 DEF TypeOK, Request
  <2>2. /\ r.amount <= queuedLiabilities /\ r.amount <= queuedFunded /\ r.amount <= cash
        /\ Close(id)
        /\ queuedLiabilities' = queuedLiabilities - r.amount
        /\ queuedFunded' = queuedFunded - r.amount
        /\ cash' = cash - r.amount
        /\ UNCHANGED <<books, reservedCash, equity, nextRequestId, queueHead>>
    BY <1>6 DEF ClaimWithdrawal
  <2>3. /\ requests' \in [RequestIds -> Request]
        /\ \A i \in RequestIds : /\ requests'[i].funded = requests[i].funded
                                 /\ requests'[i].amount = requests[i].amount
                                 /\ Settled(requests[i]) => Settled(requests'[i])
    BY <1>0, <2>2 DEF TypeOK, Close, Request, Settled
  <2>4. TypeOK'
    <3>1. queuedLiabilities' \in Nat /\ queuedFunded' \in Nat /\ cash' \in Nat
      <4> HIDE DEF r
      <4>. QED
        BY <1>0, <2>1, <2>2 DEF TypeOK
    <3>2. RequestIds' = RequestIds
      BY <2>2 DEF RequestIds
    <3>3. \A i \in RequestIds' : requests'[i].funded <= requests'[i].amount
      BY <1>0, <2>3, <3>2 DEF TypeOK
    <3> HIDE DEF r
    <3>. QED
      BY <1>0, <2>2, <2>3, <3>1, <3>2, <3>3 DEF TypeOK, books, equity
  <2>5. CashCovered'
    <3> HIDE DEF r
    <3>. QED
      BY <1>0, <2>1, <2>2 DEF TypeOK, CashCovered, SpokenFor, books
  <2>6. QueueFifo'
    BY <1>0, <2>2, <2>3 DEF TypeOK, QueueFifo, RequestIds
  <2>. QED
    BY <2>4, <2>5, <2>6 DEF IInv
<1>7. ASSUME NEW n \in Amounts, Lend(n)
      PROVE  IInv'
  <2>1. n \in Nat /\ n <= cash - SpokenFor
    BY <1>0, <1>7, FreeCashType DEF Lend, LendOver
  <2>2. TypeOK' /\ CashCovered'
    BY <1>0, <1>7, <2>1 DEF TypeOK, CashCovered, SpokenFor, Lend, LendOver, equity, queue, RequestIds
  <2>3. QueueFifo'
    BY <1>0, <1>7 DEF QueueFifo, Settled, Lend, LendOver, queue
  <2>. QED
    BY <2>2, <2>3 DEF IInv
<1>8. ASSUME NEW n \in Amounts, NEW f \in ReserveFactors, OnRepaid(n, f)
      PROVE  IInv'
  <2> DEFINE interest == Least(accruedReceivables, n)
  <2>1. n \in Nat /\ interest \in 0..n /\ interest <= accruedReceivables
    BY <1>0 DEF Least, TypeOK
  <2>2. MulDiv(interest, f, BPS) \in 0..interest
    <3> HIDE DEF interest
    <3>. QED
      BY <2>1, MulDivBound
  <2>3. /\ cash' = cash + n
        /\ accruedReceivables' = accruedReceivables - interest
        /\ reserves' = reserves + MulDiv(interest, f, BPS)
        /\ totalPrincipal' \in Nat
        /\ UNCHANGED <<badDebt, reservedCash, equity, queue>>
    BY <1>0, <1>8, <2>1 DEF OnRepaid, OnRepaidOver, Monus, TypeOK
  <2>4. TypeOK' /\ CashCovered'
    <3> HIDE DEF interest
    <3>. QED
      BY <1>0, <2>1, <2>2, <2>3, SMTT(60) DEF TypeOK, CashCovered, SpokenFor, equity, queue, RequestIds
  <2>5. QueueFifo'
    BY <1>0, <2>3 DEF QueueFifo, Settled, queue
  <2>. QED
    BY <2>4, <2>5 DEF IInv
<1>9. ASSUME NEW n \in Amounts, Accrue(n)
      PROVE  IInv'
  BY <1>0, <1>9
  DEF IInv, TypeOK, CashCovered, SpokenFor, QueueFifo, Settled, Accrue, Accrued, equity, queue, RequestIds
<1>10. ASSUME ServiceWithdrawalQueue
       PROVE  IInv'
  <2>1. /\ ServiceQueue(requests, nextRequestId)
        /\ UNCHANGED <<cash, books, reservedCash, equity, nextRequestId, queuedLiabilities>>
    BY <1>10 DEF ServiceWithdrawalQueue
  <2>2. /\ nextRequestId \in Nat \ {0} /\ queueHead \in 1..nextRequestId
        /\ requests \in Requests(nextRequestId)
        /\ InOrder(requests, queueHead, nextRequestId)
    BY <1>0, QueueInOrder DEF TypeOK
  <2>3. /\ requests' \in Requests(nextRequestId)
        /\ queueHead' \in 1..nextRequestId
        /\ InOrder(requests', queueHead', nextRequestId)
        /\ queuedFunded' \in Nat
        /\ reservedCash + reserves + queuedFunded' <= cash
    BY <1>0, <2>1, <2>2, ServiceQueueGood
  <2>4. TypeOK'
    BY <1>0, <2>1, <2>3 DEF TypeOK, Requests, RequestIds, InOrder, books, equity
  <2>5. CashCovered' /\ QueueFifo'
    BY <2>1, <2>3 DEF CashCovered, SpokenFor, QueueFifo, InOrder, books
  <2>. QED
    BY <2>4, <2>5 DEF IInv
<1>11. ASSUME NEW n \in Amounts, RecordBadDebt(n)
       PROVE  IInv'
  <2> DEFINE absorbed == Least(reserves, n)
  <2>1. n \in Nat /\ absorbed \in 0..n /\ absorbed <= reserves
    BY <1>0 DEF Least, TypeOK
  <2>2. /\ totalPrincipal' \in Nat
        /\ reserves' = reserves - absorbed
        /\ badDebt' = badDebt + (n - absorbed)
        /\ UNCHANGED <<cash, accruedReceivables, reservedCash, equity, queue>>
    BY <1>0, <1>11, <2>1 DEF RecordBadDebt, Monus, TypeOK
  <2>3. TypeOK' /\ CashCovered'
    <3> HIDE DEF absorbed
    <3>. QED
      BY <1>0, <2>1, <2>2 DEF TypeOK, CashCovered, SpokenFor, equity, queue, RequestIds
  <2>4. QueueFifo'
    BY <1>0, <2>2 DEF QueueFifo, Settled, queue
  <2>. QED
    BY <2>3, <2>4 DEF IInv
<1>12. ASSUME NEW n \in Amounts, ReserveCash(n)
       PROVE  IInv'
  <2>1. n \in Nat /\ n <= cash - SpokenFor
    BY <1>0, <1>12, FreeCashType DEF ReserveCash
  <2>2. TypeOK' /\ CashCovered'
    BY <1>0, <1>12, <2>1
    DEF TypeOK, CashCovered, SpokenFor, ReserveCash, books, equity, queue, RequestIds
  <2>3. QueueFifo'
    BY <1>0, <1>12 DEF QueueFifo, Settled, ReserveCash, queue
  <2>. QED
    BY <2>2, <2>3 DEF IInv
<1>13. ASSUME NEW n \in Amounts, ReleaseCash(n)
       PROVE  IInv'
  <2>1. n \in Nat /\ reservedCash' \in 0..reservedCash
    BY <1>0, <1>13 DEF ReleaseCash, Monus, TypeOK
  <2>2. TypeOK' /\ CashCovered'
    BY <1>0, <1>13, <2>1
    DEF TypeOK, CashCovered, SpokenFor, ReleaseCash, books, equity, queue, RequestIds
  <2>3. QueueFifo'
    BY <1>0, <1>13 DEF QueueFifo, Settled, ReleaseCash, queue
  <2>. QED
    BY <2>2, <2>3 DEF IInv
<1>14. CASE UNCHANGED vars
  BY <1>0, <1>14
  DEF IInv, TypeOK, CashCovered, SpokenFor, QueueFifo, Settled, RequestIds,
      vars, books, equity, queue
<1>. QED
  BY <1>1, <1>2, <1>3, <1>4, <1>5, <1>6, <1>7, <1>8, <1>9, <1>10, <1>11, <1>12, <1>13, <1>14
  DEF Next

\* Every reachable state of the vault satisfies the inductive invariant.
THEOREM Invariant == Spec => []IInv
<1>. QED
  BY InitIInv, NextIInv, PTL DEF Spec

\* The ledger is well typed for every instance of the constants.
THEOREM TypeCorrect == Spec => []TypeOK
<1>1. IInv => TypeOK
  BY DEF IInv
<1>. QED
  BY <1>1, Invariant, PTL

\* Promised cash is really there, in every state of every instance.
THEOREM PromisedCashIsThere == Spec => []CashCovered
<1>1. IInv => CashCovered
  BY DEF IInv
<1>. QED
  BY <1>1, Invariant, PTL

\* The redemption queue is first in, first out, in every state of every instance.
THEOREM FirstInFirstOut == Spec => []QueueFifo
<1>1. IInv => QueueFifo
  BY DEF IInv
<1>. QED
  BY <1>1, Invariant, PTL

-----------------------------------------------------------------------------
(* What a call does to the queue: nothing, more cash for it, one request    *)
(* more, or one request closed.                                             *)

FillStep(reqs, next) ==
  /\ requests' \in Requests(next)
  /\ Filled(reqs, requests', next)
  /\ queuedFunded' = queuedFunded + Put(reqs, requests', next)
  /\ nextRequestId' = next

Fresh(l, a) == [lender |-> l, amount |-> a, funded |-> 0, claimed |-> FALSE]

Joined(r) == [i \in 1..nextRequestId |-> IF i = nextRequestId THEN r ELSE requests[i]]

JoinStep(l, a) ==
  /\ Joined(Fresh(l, a)) \in Requests(nextRequestId + 1)
  /\ FillStep(Joined(Fresh(l, a)), nextRequestId + 1)
  /\ queuedLiabilities' = queuedLiabilities + a

CloseStep(id) ==
  /\ ~requests[id].claimed
  /\ requests' = [requests EXCEPT ![id].claimed = TRUE]
  /\ queuedLiabilities' = queuedLiabilities - requests[id].amount
  /\ queuedFunded' = queuedFunded - requests[id].funded
  /\ nextRequestId' = nextRequestId

\* The bound of Supply and Accrue: the vault's tokens and claims never pass MaxCash.
Bounded == cash + totalPrincipal + accruedReceivables <= MaxCash

\* Servicing the queue funds requests in order with what it takes from free cash.
LEMMA ServiceQueueFills ==
  ASSUME TypeOK, CashCovered,
         NEW next \in Nat \ {0}, NEW reqs \in Requests(next),
         queueHead \in 1..next, InOrder(reqs, queueHead, next),
         ServiceQueue(reqs, next), nextRequestId' = next
  PROVE  FillStep(reqs, next)
<1> DEFINE w == Walk(reqs, queueHead, next, availableCash)
<1>1. availableCash \in Nat
  BY FreeCashType
<1>2. w \in FillingWalks(reqs, next, availableCash)
  BY <1>1, WalkFills
<1>3. w.reqs \in Requests(next) /\ Filled(reqs, w.reqs, next) /\ w.given = Put(reqs, w.reqs, next)
  <2> HIDE DEF w
  <2>. QED
    BY <1>2 DEF FillingWalks, GoodWalks
<1>4. requests' = w.reqs /\ queuedFunded' = queuedFunded + w.given
  BY DEF ServiceQueue
<1> HIDE DEF w
<1>. QED
  BY <1>3, <1>4 DEF FillStep

\* A share is worth no more than the whole vault.
LEMMA SharesWithinAssets ==
  ASSUME TypeOK, Bounded, NEW s \in Nat \ {0}, s <= totalSupply
  PROVE  convertToAssets(s) \in 0..MaxCash
<1>1. totalSupply \in Nat \ {0} /\ s \in 0..totalSupply
  BY DEF TypeOK
<1>2. totalAssets \in Nat /\ totalAssets <= MaxCash
  BY VaultConstants DEF totalAssets, NetAssets, Monus, TypeOK, Bounded
<1>3. convertToAssets(s) = (s * totalAssets) \div totalSupply
  BY <1>1 DEF convertToAssets, MulDiv
<1> HIDE DEF totalAssets
<1>4. s * totalAssets = totalAssets * s
  BY <1>2
<1>5. MulDiv(totalAssets, s, totalSupply) \in 0..totalAssets
  BY <1>1, <1>2, MulDivBound
<1>. QED
  BY <1>2, <1>3, <1>4, <1>5, VaultConstants DEF MulDiv

\* What a call does to the queue: nothing, a filling, a filing or a closing.
LEMMA QueueStep ==
  ASSUME IInv, Bounded, [Next]_vars
  PROVE  \/ UNCHANGED queue
         \/ FillStep(requests, nextRequestId) /\ queuedLiabilities' = queuedLiabilities
         \/ \E l \in Lenders, a \in 0..MaxCash : JoinStep(l, a)
         \/ \E id \in RequestIds : CloseStep(id)
<1>0. TypeOK /\ CashCovered /\ QueueFifo
  BY DEF IInv
<1>1. /\ nextRequestId \in Nat \ {0} /\ queueHead \in 1..nextRequestId
      /\ requests \in Requests(nextRequestId)
      /\ InOrder(requests, queueHead, nextRequestId)
  BY <1>0, QueueInOrder DEF TypeOK
<1>2. ASSUME NEW l \in Lenders, NEW n \in Amounts, RequestWithdrawal(l, n)
      PROVE  \E a \in 0..MaxCash : JoinStep(l, a)
  <2> DEFINE a == convertToAssets(n)
             reqs == Joined(Fresh(l, a))
             next == nextRequestId + 1
  <2>1. /\ nextRequestId' = next /\ queuedLiabilities' = queuedLiabilities + a
        /\ ServiceQueue(reqs, next) /\ n <= totalSupply
    BY <1>2 DEF RequestWithdrawal, Burn, Joined, Fresh
  <2>2. n \in Nat \ {0}
    BY VaultConstants
  <2>3. a \in 0..MaxCash
    BY <1>0, <2>1, <2>2, SharesWithinAssets
  <2>4. a \in Nat
    BY <2>3, VaultConstants
  <2> HIDE DEF a
  <2>5. Fresh(l, a) \in Request /\ Fresh(l, a).funded = 0 /\ Fresh(l, a).amount = a
    BY <2>4 DEF Fresh, Request
  <2>6. next \in Nat \ {0} /\ next - 1 = nextRequestId /\ queueHead \in 1..next
    BY <1>1
  <2>7. /\ \A i \in 1..(nextRequestId - 1) : reqs[i] = requests[i]
        /\ reqs[nextRequestId] = Fresh(l, a)
    BY <1>1 DEF Joined
  <2>8. reqs \in Requests(next)
    <3>1. \A i \in 1..nextRequestId : reqs[i] \in Request
      BY <1>1, <2>5, <2>7 DEF Requests
    <3>2. reqs = [i \in 1..nextRequestId |-> reqs[i]]
      BY DEF Joined
    <3> HIDE DEF reqs
    <3>. QED
      BY <2>6, <3>1, <3>2 DEF Requests
  <2>9. InOrder(reqs, queueHead, next)
    <3> HIDE DEF reqs
    <3>. QED
      BY <1>1, <2>4, <2>5, <2>7 DEF InOrder
  <2>10. FillStep(reqs, next)
    <3> HIDE DEF reqs, next
    <3>. QED
      BY <1>0, <2>1, <2>6, <2>8, <2>9, ServiceQueueFills
  <2>. QED
    BY <2>1, <2>3, <2>8, <2>10 DEF JoinStep
<1>3. ASSUME NEW id \in RequestIds, CancelWithdrawal(id) \/ ClaimWithdrawal(id)
      PROVE  CloseStep(id)
  <2>1. requests[id].funded \in Nat /\ requests[id].amount \in Nat
        /\ requests[id].funded <= requests[id].amount
    BY <1>0 DEF TypeOK, Request
  <2>2. CASE CancelWithdrawal(id)
    BY <2>2 DEF CancelWithdrawal, CloseStep, Close, Discharged
  <2>3. CASE ClaimWithdrawal(id)
    <3>1. requests[id].funded = requests[id].amount
      BY <2>1, <2>3 DEF ClaimWithdrawal
    <3>. QED
      BY <2>3, <3>1 DEF ClaimWithdrawal, CloseStep, Close
  <2>. QED
    BY <1>3, <2>2, <2>3
<1>4. ASSUME ServiceWithdrawalQueue
      PROVE  FillStep(requests, nextRequestId) /\ queuedLiabilities' = queuedLiabilities
  <2>1. /\ ServiceQueue(requests, nextRequestId)
        /\ nextRequestId' = nextRequestId /\ queuedLiabilities' = queuedLiabilities
    BY <1>4 DEF ServiceWithdrawalQueue
  <2>. QED
    BY <1>0, <1>1, <2>1, ServiceQueueFills
<1>5. ASSUME NEW l \in Lenders, NEW n \in Amounts, Supply(l, n) \/ Withdraw(l, n)
      PROVE  UNCHANGED queue
  BY <1>5 DEF Supply, Withdraw
<1>6. ASSUME NEW l \in Lenders, NEW m \in Lenders, NEW n \in Amounts, Transfer(l, m, n)
      PROVE  UNCHANGED queue
  BY <1>6 DEF Transfer
<1>7. ASSUME NEW n \in Amounts, \/ Lend(n) \/ Accrue(n) \/ RecordBadDebt(n)
                                \/ ReserveCash(n) \/ ReleaseCash(n)
      PROVE  UNCHANGED queue
  BY <1>7 DEF Lend, LendOver, Accrue, Accrued, RecordBadDebt, ReserveCash, ReleaseCash
<1>8. ASSUME NEW n \in Amounts, NEW f \in ReserveFactors, OnRepaid(n, f)
      PROVE  UNCHANGED queue
  BY <1>8 DEF OnRepaid, OnRepaidOver
<1>9. CASE UNCHANGED vars
  BY <1>9 DEF vars
<1> HIDE DEF queue
<1>. QED
  BY <1>2, <1>3, <1>4, <1>5, <1>6, <1>7, <1>8, <1>9 DEF Next

\* Every call keeps the books within the bound of the exploration.
LEMMA StepBounded == IInv /\ Bounded /\ [Next]_vars => Bounded'
<1> SUFFICES ASSUME IInv, Bounded, [Next]_vars
             PROVE  Bounded'
  OBVIOUS
<1>0. TypeOK /\ CashCovered
  BY DEF IInv
<1>1. /\ cash \in Nat /\ totalPrincipal \in Nat /\ accruedReceivables \in Nat
      /\ MaxCash \in Nat /\ \A n \in Amounts : n \in Nat
  BY <1>0, VaultConstants DEF TypeOK
<1>2. ASSUME NEW l \in Lenders, NEW n \in Amounts, Supply(l, n)
      PROVE  Bounded'
  BY <1>1, <1>2 DEF Supply, books, Bounded
<1>3. ASSUME NEW l \in Lenders, NEW n \in Amounts, Withdraw(l, n)
      PROVE  Bounded'
  <2>1. n \in Nat
    BY VaultConstants
  <2>2. convertToAssets(n) \in Nat
    BY <1>0, <2>1, ConversionTypes
  <2>3. cash' = cash - convertToAssets(n) /\ UNCHANGED books
    BY <1>3 DEF Withdraw
  <2>. QED
    BY <1>1, <2>2, <2>3 DEF books, Bounded
<1>4. ASSUME NEW n \in Amounts, Lend(n)
      PROVE  Bounded'
  BY <1>1, <1>4 DEF Lend, LendOver, Bounded
<1>5. ASSUME NEW n \in Amounts, NEW f \in ReserveFactors, OnRepaid(n, f)
      PROVE  Bounded'
  BY <1>1, <1>5 DEF OnRepaid, OnRepaidOver, Least, Monus, Bounded
<1>6. ASSUME NEW n \in Amounts, Accrue(n)
      PROVE  Bounded'
  BY <1>1, <1>6 DEF Accrue, Accrued, Bounded
<1>7. ASSUME NEW n \in Amounts, RecordBadDebt(n)
      PROVE  Bounded'
  BY <1>1, <1>7 DEF RecordBadDebt, Monus, Bounded
<1>8. ASSUME NEW id \in RequestIds, CancelWithdrawal(id)
      PROVE  Bounded'
  <2>1. requests[id].funded \in Nat
    BY <1>0 DEF TypeOK, Request
  <2>2. cash' = cash - requests[id].funded /\ UNCHANGED books
    BY <1>8 DEF CancelWithdrawal
  <2>. QED
    BY <1>1, <2>1, <2>2 DEF books, Bounded
<1>9. ASSUME NEW id \in RequestIds, ClaimWithdrawal(id)
      PROVE  Bounded'
  <2>1. requests[id].amount \in Nat
    BY <1>0 DEF TypeOK, Request
  <2>2. cash' = cash - requests[id].amount /\ UNCHANGED books
    BY <1>9 DEF ClaimWithdrawal
  <2>. QED
    BY <1>1, <2>1, <2>2 DEF books, Bounded
<1>10. ASSUME NEW l \in Lenders, NEW m \in Lenders, NEW n \in Amounts,
              Transfer(l, m, n) \/ RequestWithdrawal(l, n)
       PROVE  Bounded'
  BY <1>10 DEF Transfer, RequestWithdrawal, books, Bounded
<1>11. CASE UNCHANGED vars
  BY <1>11 DEF vars, books, Bounded
<1>12. CASE ServiceWithdrawalQueue
  BY <1>12 DEF ServiceWithdrawalQueue, books, Bounded
<1>13. ASSUME NEW n \in Amounts, ReserveCash(n) \/ ReleaseCash(n)
       PROVE  Bounded'
  BY <1>13 DEF ReserveCash, ReleaseCash, books, Bounded
<1> HIDE DEF Bounded
<1>. QED
  BY <1>2, <1>3, <1>4, <1>5, <1>6, <1>7, <1>8, <1>9, <1>10, <1>11, <1>12, <1>13 DEF Next

\* So they stay within it.
LEMMA BoundedAlways == Spec => []Bounded
<1>1. Init => Bounded
  BY VaultConstants DEF Init, Bounded
<1>. QED
  BY <1>1, StepBounded, Invariant, PTL DEF Spec

-----------------------------------------------------------------------------
(* The queue's running totals.                                              *)

Owed(reqs, next) ==
  [id \in 1..(next - 1) |-> IF reqs[id].claimed THEN 0 ELSE reqs[id].amount]

Held(reqs, next) ==
  [id \in 1..(next - 1) |-> IF reqs[id].claimed THEN 0 ELSE reqs[id].funded]

OpenAmounts(reqs, next) == SumFunctionOnSet(Owed(reqs, next), 1..(next - 1))

OpenFunds(reqs, next) == SumFunctionOnSet(Held(reqs, next), 1..(next - 1))

\* QueueBalanced in terms of the two sums.
LEMMA BalancedBySums ==
  QueueBalanced <=> /\ queuedLiabilities = OpenAmounts(requests, nextRequestId)
                    /\ queuedFunded = OpenFunds(requests, nextRequestId)
BY DEF QueueBalanced, RequestIds, OpenAmounts, OpenFunds, Owed, Held, SumFunction

\* The terms of the two sums are numbers.
LEMMA OpenTypes ==
  ASSUME NEW next \in Nat \ {0}, NEW reqs \in Requests(next)
  PROVE  /\ \A i \in 1..(next - 1) : /\ reqs[i] \in Request /\ reqs[i].funded \in Nat
                                     /\ reqs[i].amount \in Nat
                                     /\ Owed(reqs, next)[i] \in Int
                                     /\ Held(reqs, next)[i] \in Int
         /\ IsFiniteSet(1..(next - 1))
         /\ OpenAmounts(reqs, next) \in Int /\ OpenFunds(reqs, next) \in Int
<1>1. IsFiniteSet(1..(next - 1))
  BY FS_Interval
<1>2. ASSUME NEW i \in 1..(next - 1)
      PROVE  /\ reqs[i] \in Request /\ reqs[i].funded \in Nat /\ reqs[i].amount \in Nat
             /\ Owed(reqs, next)[i] \in Int /\ Held(reqs, next)[i] \in Int
  BY DEF Requests, Request, Owed, Held
<1>3. OpenAmounts(reqs, next) \in Int /\ OpenFunds(reqs, next) \in Int
  BY <1>1, <1>2, SumFirst DEF OpenAmounts, OpenFunds
<1>. QED
  BY <1>1, <1>2, <1>3

\* Filling adds to the open funds what was put in, and leaves the amounts alone.
LEMMA FillCounts ==
  ASSUME NEW next \in Nat \ {0}, NEW start \in Requests(next), NEW reqs \in Requests(next),
         Filled(start, reqs, next)
  PROVE  /\ OpenFunds(reqs, next) = OpenFunds(start, next) + Put(start, reqs, next)
         /\ OpenAmounts(reqs, next) = OpenAmounts(start, next)
<1> DEFINE S == 1..(next - 1)
           put == [i \in S |-> reqs[i].funded - start[i].funded]
<1>1. ASSUME NEW i \in S
      PROVE  /\ reqs[i].funded \in Nat /\ start[i].funded \in Nat
             /\ reqs[i].claimed = start[i].claimed /\ reqs[i].amount = start[i].amount
             /\ start[i].claimed => reqs[i].funded = start[i].funded
  <2>1. /\ start[i] \in Request /\ reqs[i] \in Request
        /\ reqs[i] = [start[i] EXCEPT !.funded = reqs[i].funded]
        /\ reqs[i].funded # start[i].funded => ~start[i].claimed
    BY DEF Filled, Requests
  <2>2. /\ [start[i] EXCEPT !.funded = reqs[i].funded].claimed = start[i].claimed
        /\ [start[i] EXCEPT !.funded = reqs[i].funded].amount = start[i].amount
    BY <2>1 DEF Request
  <2>3. reqs[i].claimed = start[i].claimed /\ reqs[i].amount = start[i].amount
    BY <2>1, <2>2
  <2>4. reqs[i].funded \in Nat /\ start[i].funded \in Nat
    BY <2>1 DEF Request
  <2>. QED
    BY <2>1, <2>3, <2>4
<1>2. ASSUME NEW i \in S
      PROVE  /\ put[i] \in Int /\ Held(start, next)[i] \in Int
             /\ Held(reqs, next)[i] = Held(start, next)[i] + put[i]
  <2>1. /\ put[i] = reqs[i].funded - start[i].funded
        /\ Held(start, next)[i] = IF start[i].claimed THEN 0 ELSE start[i].funded
        /\ Held(reqs, next)[i] = IF reqs[i].claimed THEN 0 ELSE reqs[i].funded
    BY DEF Held
  <2> HIDE DEF put
  <2>2. CASE start[i].claimed
    BY <1>1, <2>1, <2>2
  <2>3. CASE ~start[i].claimed
    BY <1>1, <2>1, <2>3
  <2>. QED
    BY <2>2, <2>3
<1>3. \A i \in S : /\ Owed(start, next)[i] \in Int
                   /\ Owed(reqs, next)[i] = Owed(start, next)[i]
  BY <1>1, OpenTypes DEF Owed
<1>4. IsFiniteSet(S)
  BY FS_Interval
<1>5. SumFunctionOnSet(put, S) = Put(start, reqs, next)
  BY DEF Put
<1> HIDE DEF S, put
<1>6. SumFunctionOnSet(Held(reqs, next), S)
        = SumFunctionOnSet(Held(start, next), S) + SumFunctionOnSet(put, S)
  BY <1>2, <1>4, SumAdds
<1>7. SumFunctionOnSet(Owed(reqs, next), S) = SumFunctionOnSet(Owed(start, next), S)
  BY <1>3, <1>4, SumSame
<1>. QED
  BY <1>5, <1>6, <1>7 DEF OpenFunds, OpenAmounts, S

\* A request that joins adds its amount and brings no funds.
LEMMA JoinCounts ==
  ASSUME TypeOK, NEW l \in Lenders, NEW a \in Nat,
         Joined(Fresh(l, a)) \in Requests(nextRequestId + 1)
  PROVE  /\ OpenAmounts(Joined(Fresh(l, a)), nextRequestId + 1)
              = OpenAmounts(requests, nextRequestId) + a
         /\ OpenFunds(Joined(Fresh(l, a)), nextRequestId + 1)
              = OpenFunds(requests, nextRequestId)
<1> DEFINE next == nextRequestId + 1
           reqs == Joined(Fresh(l, a))
           S == 1..(nextRequestId - 1)
           T == 1..nextRequestId
<1>1. /\ nextRequestId \in Nat \ {0} /\ next \in Nat \ {0} /\ next - 1 = nextRequestId
      /\ requests \in Requests(nextRequestId)
  BY QueueInOrder DEF TypeOK
<1>2. S = T \ {nextRequestId} /\ nextRequestId \in T
  BY <1>1
<1>3. IsFiniteSet(S) /\ IsFiniteSet(T)
  BY FS_Interval, <1>1
<1>4. \A i \in S : reqs[i] = requests[i]
  BY <1>1 DEF Joined
<1>5. reqs[nextRequestId] = Fresh(l, a)
  BY <1>1 DEF Joined
<1>6. /\ Owed(reqs, next)[nextRequestId] = a
      /\ Held(reqs, next)[nextRequestId] = 0
  BY <1>1, <1>5 DEF Owed, Held, Fresh
<1>7. \A i \in S : /\ Owed(requests, nextRequestId)[i] \in Int
                   /\ Held(requests, nextRequestId)[i] \in Int
  BY <1>1, OpenTypes
<1>8. \A i \in S : /\ Owed(reqs, next)[i] = Owed(requests, nextRequestId)[i]
                   /\ Held(reqs, next)[i] = Held(requests, nextRequestId)[i]
  BY <1>1, <1>4 DEF Owed, Held
<1> HIDE DEF reqs
<1>9. \A i \in T : Owed(reqs, next)[i] \in Int /\ Held(reqs, next)[i] \in Int
  BY <1>1, OpenTypes DEF reqs
<1> HIDE DEF S, next
<1>10. /\ SumFunctionOnSet(Owed(reqs, next), T)
            = Owed(reqs, next)[nextRequestId] + SumFunctionOnSet(Owed(reqs, next), S)
       /\ SumFunctionOnSet(Held(reqs, next), T)
            = Held(reqs, next)[nextRequestId] + SumFunctionOnSet(Held(reqs, next), S)
  <2> HIDE DEF T
  <2>. QED
    BY <1>2, <1>3, <1>9, SumRemove
<1>11. /\ SumFunctionOnSet(Owed(reqs, next), S)
            = SumFunctionOnSet(Owed(requests, nextRequestId), S)
       /\ SumFunctionOnSet(Held(reqs, next), S)
            = SumFunctionOnSet(Held(requests, nextRequestId), S)
  BY <1>3, <1>7, <1>8, SumSame
<1>12. /\ OpenAmounts(reqs, next) = SumFunctionOnSet(Owed(reqs, next), T)
       /\ OpenFunds(reqs, next) = SumFunctionOnSet(Held(reqs, next), T)
       /\ OpenAmounts(requests, nextRequestId)
            = SumFunctionOnSet(Owed(requests, nextRequestId), S)
       /\ OpenFunds(requests, nextRequestId)
            = SumFunctionOnSet(Held(requests, nextRequestId), S)
  BY <1>1 DEF OpenAmounts, OpenFunds, S
<1>13. OpenAmounts(requests, nextRequestId) \in Int /\ OpenFunds(requests, nextRequestId) \in Int
  BY <1>1, OpenTypes
<1> HIDE DEF T
<1>14. /\ OpenAmounts(reqs, next) = OpenAmounts(requests, nextRequestId) + a
       /\ OpenFunds(reqs, next) = OpenFunds(requests, nextRequestId)
  BY <1>6, <1>10, <1>11, <1>12, <1>13
<1>. QED
  BY <1>14 DEF reqs, next

\* A request that closes takes its own share with it.
LEMMA CloseCounts ==
  ASSUME TypeOK, NEW id \in RequestIds, ~requests[id].claimed
  PROVE  LET reqs == [requests EXCEPT ![id].claimed = TRUE] IN
         /\ OpenAmounts(reqs, nextRequestId)
              = OpenAmounts(requests, nextRequestId) - requests[id].amount
         /\ OpenFunds(reqs, nextRequestId)
              = OpenFunds(requests, nextRequestId) - requests[id].funded
<1> DEFINE reqs == [requests EXCEPT ![id].claimed = TRUE]
           S == 1..(nextRequestId - 1)
<1>1. nextRequestId \in Nat \ {0} /\ requests \in Requests(nextRequestId) /\ id \in S
  BY QueueInOrder DEF TypeOK, RequestIds
<1>2. reqs \in Requests(nextRequestId) /\ reqs[id].claimed
      /\ \A i \in S : i # id => reqs[i] = requests[i]
  BY <1>1 DEF Requests, Request
<1>3. requests[id].amount \in Nat /\ requests[id].funded \in Nat
  BY <1>1, OpenTypes
<1> DEFINE a == Owed(requests, nextRequestId)
           b == Owed(reqs, nextRequestId)
           c == Held(requests, nextRequestId)
           d == Held(reqs, nextRequestId)
<1> HIDE DEF reqs
<1>4. a[id] = requests[id].amount /\ b[id] = 0 /\ c[id] = requests[id].funded /\ d[id] = 0
  BY <1>1, <1>2 DEF Owed, Held
<1>5. \A i \in S : i # id => b[i] = a[i] /\ d[i] = c[i]
  BY <1>2 DEF Owed, Held
<1>6. /\ \A i \in S : a[i] \in Int /\ b[i] \in Int /\ c[i] \in Int /\ d[i] \in Int
      /\ IsFiniteSet(S)
  BY <1>1, <1>2, OpenTypes
<1>7. /\ OpenAmounts(requests, nextRequestId) = SumFunctionOnSet(a, S)
      /\ OpenAmounts(reqs, nextRequestId) = SumFunctionOnSet(b, S)
      /\ OpenFunds(requests, nextRequestId) = SumFunctionOnSet(c, S)
      /\ OpenFunds(reqs, nextRequestId) = SumFunctionOnSet(d, S)
  BY DEF OpenAmounts, OpenFunds
<1> HIDE DEF a, b, c, d, S
<1>8. ChangesAt(S, a, b, id) /\ ChangesAt(S, c, d, id)
  BY <1>1, <1>5, <1>6 DEF ChangesAt
<1>9. /\ SumFunctionOnSet(a, S) \in Int /\ SumFunctionOnSet(c, S) \in Int
      /\ SumFunctionOnSet(b, S) = SumFunctionOnSet(a, S) + (b[id] - a[id])
      /\ SumFunctionOnSet(d, S) = SumFunctionOnSet(c, S) + (d[id] - c[id])
  BY <1>8, TermChanges
<1>10. /\ OpenAmounts(reqs, nextRequestId)
            = OpenAmounts(requests, nextRequestId) - requests[id].amount
       /\ OpenFunds(reqs, nextRequestId)
            = OpenFunds(requests, nextRequestId) - requests[id].funded
  BY <1>3, <1>4, <1>7, <1>9
<1>. QED
  BY <1>10 DEF reqs

\* Every call changes the totals as it changes the open requests.
LEMMA StepBalanced == IInv /\ IInv' /\ Bounded /\ QueueBalanced /\ [Next]_vars => QueueBalanced'
<1> SUFFICES ASSUME IInv, IInv', Bounded, QueueBalanced, [Next]_vars
             PROVE  QueueBalanced'
  OBVIOUS
<1>0. /\ TypeOK
      /\ nextRequestId \in Nat \ {0} /\ requests \in Requests(nextRequestId)
      /\ queuedLiabilities = OpenAmounts(requests, nextRequestId)
      /\ queuedFunded = OpenFunds(requests, nextRequestId)
  BY QueueInOrder, BalancedBySums DEF IInv, TypeOK
<1>1. SUFFICES /\ queuedLiabilities' = OpenAmounts(requests', nextRequestId')
               /\ queuedFunded' = OpenFunds(requests', nextRequestId')
  BY DEF QueueBalanced, RequestIds, OpenAmounts, OpenFunds, Owed, Held, SumFunction
<1>2. CASE UNCHANGED queue
  BY <1>0, <1>2 DEF queue
<1>3. CASE FillStep(requests, nextRequestId) /\ queuedLiabilities' = queuedLiabilities
  BY <1>0, <1>3, FillCounts DEF FillStep
<1>4. ASSUME NEW l \in Lenders, NEW a \in 0..MaxCash, JoinStep(l, a)
      PROVE  /\ queuedLiabilities' = OpenAmounts(requests', nextRequestId')
             /\ queuedFunded' = OpenFunds(requests', nextRequestId')
  <2> DEFINE reqs == Joined(Fresh(l, a))
             next == nextRequestId + 1
  <2>1. a \in Nat /\ next \in Nat \ {0}
    BY <1>0, VaultConstants
  <2>2. /\ reqs \in Requests(next) /\ requests' \in Requests(next)
        /\ Filled(reqs, requests', next)
        /\ queuedFunded' = queuedFunded + Put(reqs, requests', next)
        /\ nextRequestId' = next /\ queuedLiabilities' = queuedLiabilities + a
    BY <1>4 DEF JoinStep, FillStep
  <2>3. /\ OpenAmounts(reqs, next) = OpenAmounts(requests, nextRequestId) + a
        /\ OpenFunds(reqs, next) = OpenFunds(requests, nextRequestId)
    BY <1>0, <2>1, <2>2, JoinCounts
  <2> HIDE DEF reqs, next
  <2>4. /\ OpenFunds(requests', next) = OpenFunds(reqs, next) + Put(reqs, requests', next)
        /\ OpenAmounts(requests', next) = OpenAmounts(reqs, next)
    BY <2>1, <2>2, FillCounts
  <2>. QED
    BY <1>0, <2>2, <2>3, <2>4
<1>5. ASSUME NEW id \in RequestIds, CloseStep(id)
      PROVE  /\ queuedLiabilities' = OpenAmounts(requests', nextRequestId')
             /\ queuedFunded' = OpenFunds(requests', nextRequestId')
  BY <1>0, <1>5, CloseCounts DEF CloseStep
<1>. QED
  BY <1>2, <1>3, <1>4, <1>5, QueueStep

\* In every state of every instance the queue's two totals are the sums over its open requests:
\* no order of requests, bounded service calls, cancellations and claims loses or repeats a
\* token (LiquidityVault.sol requestWithdrawal to claimWithdrawal).
THEOREM QueueTotalsAreSums == Spec => []QueueBalanced
<1>1. Init => QueueBalanced
  <2> SUFFICES ASSUME Init
               PROVE  QueueBalanced
    OBVIOUS
  <2>1. 1..(nextRequestId - 1) = {} /\ queuedLiabilities = 0 /\ queuedFunded = 0
    BY DEF Init
  <2>2. IsFiniteSet(1..(nextRequestId - 1))
    BY <2>1, FS_EmptySet
  <2>3. OpenAmounts(requests, nextRequestId) = 0 /\ OpenFunds(requests, nextRequestId) = 0
    BY <2>1, <2>2, SumOfZeros DEF OpenAmounts, OpenFunds
  <2>. QED
    BY <2>1, <2>3, BalancedBySums
<1>. QED
  BY <1>1, StepBalanced, Invariant, BoundedAlways, PTL DEF Spec

-----------------------------------------------------------------------------
(* The refinement.                                                          *)

Claims(reqs, next) ==
  [id \in 1..(next - 1) |->
     [owner |-> reqs[id].lender, amount |-> reqs[id].amount,
      held |-> reqs[id].funded, closed |-> reqs[id].claimed]]

\* The abstract queue's sum is the one the lemmas speak of.
LEMMA SameSum ==
  ASSUME NEW f
  PROVE  Exits!SumFunction(f) = SumFunctionOnSet(f, DOMAIN f)
BY Zenon DEF SumFunctionOnSet, FoldFunctionOnSet, MapThenFoldSet,
  Exits!SumFunction, Exits!SumFunctionOnSet, Exits!FoldFunctionOnSet, Exits!MapThenFoldSet

\* Filling requests is filling claims, and puts as much into the pot.
LEMMA FillsClaims ==
  ASSUME NEW next \in Nat \ {0}, NEW start \in Requests(next), NEW reqs \in Requests(next),
         Filled(start, reqs, next)
  PROVE  /\ Exits!FifoFill(Claims(start, next), Claims(reqs, next))
         /\ Exits!Put(Claims(start, next), Claims(reqs, next)) = Put(start, reqs, next)
<1> DEFINE S == 1..(next - 1)
           before == Claims(start, next)
           after == Claims(reqs, next)
<1>1. DOMAIN before = S /\ DOMAIN after = S
  BY DEF Claims
<1>2. ASSUME NEW i \in S
      PROVE  /\ before[i] = [owner |-> start[i].lender, amount |-> start[i].amount,
                             held |-> start[i].funded, closed |-> start[i].claimed]
             /\ after[i] = [owner |-> reqs[i].lender, amount |-> reqs[i].amount,
                            held |-> reqs[i].funded, closed |-> reqs[i].claimed]
             /\ before[i].amount = start[i].amount /\ before[i].held = start[i].funded
             /\ before[i].closed = start[i].claimed /\ after[i].held = reqs[i].funded
  BY DEF Claims
<1>3. ASSUME NEW i \in S
      PROVE  /\ reqs[i].lender = start[i].lender /\ reqs[i].amount = start[i].amount
             /\ reqs[i].claimed = start[i].claimed
  <2>1. /\ start[i] \in Request /\ reqs[i] = [start[i] EXCEPT !.funded = reqs[i].funded]
    BY DEF Filled, Requests
  <2>2. /\ [start[i] EXCEPT !.funded = reqs[i].funded].lender = start[i].lender
        /\ [start[i] EXCEPT !.funded = reqs[i].funded].amount = start[i].amount
        /\ [start[i] EXCEPT !.funded = reqs[i].funded].claimed = start[i].claimed
    BY <2>1 DEF Request
  <2>. QED
    BY <2>1, <2>2
<1> HIDE DEF before, after
<1>4. ASSUME NEW i \in S
      PROVE  /\ after[i] = [before[i] EXCEPT !.held = after[i].held]
             /\ after[i].held \in before[i].held..before[i].amount
             /\ after[i].held # before[i].held =>
                  /\ ~before[i].closed
                  /\ \A j \in 1..(i - 1) : before[j].closed \/ after[j].held = before[j].amount
  <2>1. after[i] = [before[i] EXCEPT !.held = after[i].held]
    <3>2. after[i] = [owner |-> start[i].lender, amount |-> start[i].amount,
                      held |-> after[i].held, closed |-> start[i].claimed]
      <4>1. after[i] = [owner |-> reqs[i].lender, amount |-> reqs[i].amount,
                        held |-> reqs[i].funded, closed |-> reqs[i].claimed]
        BY <1>2
      <4>2. after[i].held = reqs[i].funded
        BY <1>2
      <4>3. /\ reqs[i].lender = start[i].lender /\ reqs[i].amount = start[i].amount
            /\ reqs[i].claimed = start[i].claimed
        BY <1>3
      <4>. QED
        BY <4>1, <4>2, <4>3, Zenon
    <3>3. before[i] = [owner |-> start[i].lender, amount |-> start[i].amount,
                       held |-> start[i].funded, closed |-> start[i].claimed]
      BY <1>2
    <3>4. [[owner |-> start[i].lender, amount |-> start[i].amount,
            held |-> start[i].funded, closed |-> start[i].claimed] EXCEPT !.held = after[i].held]
            = [owner |-> start[i].lender, amount |-> start[i].amount,
               held |-> after[i].held, closed |-> start[i].claimed]
      OBVIOUS
    <3>. QED
      BY <3>2, <3>3, <3>4, Zenon
  <2>2. /\ reqs[i].funded \in start[i].funded..start[i].amount
        /\ reqs[i].funded # start[i].funded =>
             /\ ~start[i].claimed
             /\ \A j \in 1..(i - 1) : start[j].claimed \/ reqs[j].funded = start[j].amount
    BY DEF Filled
  <2>3. \A j \in 1..(i - 1) : j \in S
    OBVIOUS
  <2> HIDE DEF S
  <2>. QED
    BY <1>2, <2>1, <2>2, <2>3
<1>5. Exits!FifoFill(before, after)
  BY <1>1, <1>4 DEF Exits!FifoFill
<1>6. Exits!Put(before, after) = Put(start, reqs, next)
  <2>1. [i \in DOMAIN before |-> after[i].held - before[i].held]
          = [i \in S |-> reqs[i].funded - start[i].funded]
    BY <1>1, <1>2
  <2>2. DOMAIN [i \in S |-> reqs[i].funded - start[i].funded] = S
    OBVIOUS
  <2>. QED
    BY <2>1, <2>2, SameSum DEF Exits!Put, Put
<1>. QED
  BY <1>5, <1>6 DEF before, after

\* And its cardinality.
LEMMA SameSize == ASSUME NEW S PROVE Exits!Cardinality(S) = Cardinality(S)
BY Zenon DEF Cardinality, Exits!Cardinality

\* What Join says of n claims, the last of them new.
JoinForm(n, claims, after) ==
  /\ DOMAIN after = 1..n
  /\ \E o \in Lenders, a \in 0..(2 * MaxCash) :
       LET fresh  == [owner |-> o, amount |-> a, held |-> 0, closed |-> FALSE]
           joined == [i \in 1..n |-> IF i = n THEN fresh ELSE claims[i]]
       IN  /\ Exits!FifoFill(joined, after)
           /\ queuedFunded' = queuedFunded + Exits!Put(joined, after)

\* Every step of the vault is a step of the abstract queue, or none of its business.
LEMMA StepIsExit ==
  IInv /\ IInv' /\ Bounded /\ [Next]_vars => [Exits!ExitNext]_(Exits!exitVars)
<1> SUFFICES ASSUME IInv, IInv', Bounded, [Next]_vars
             PROVE  [Exits!ExitNext]_(Exits!exitVars)
  OBVIOUS
<1> DEFINE claims == Claims(requests, nextRequestId)
           after == Claims(requests', nextRequestId')
<1>0. nextRequestId \in Nat \ {0} /\ requests \in Requests(nextRequestId) /\ TypeOK
  BY QueueInOrder DEF IInv, TypeOK
<1>1. CASE UNCHANGED queue
  BY <1>1 DEF queue, RequestIds, Exits!exitVars
<1>2. CASE FillStep(requests, nextRequestId)
  <2>1. /\ Exits!FifoFill(claims, after)
        /\ Exits!Put(claims, after) = Put(requests, requests', nextRequestId)
        /\ queuedFunded' = queuedFunded + Put(requests, requests', nextRequestId)
    BY <1>0, <1>2, FillsClaims DEF FillStep
  <2>2. Exits!Fill
    BY <2>1 DEF Exits!Fill, Claims, RequestIds
  <2>. QED
    BY <2>2 DEF Exits!ExitNext
<1>3. ASSUME NEW l \in Lenders, NEW a \in 0..MaxCash, JoinStep(l, a)
      PROVE  Exits!Join
  <2> DEFINE reqs == Joined(Fresh(l, a))
             next == nextRequestId + 1
             fresh == [owner |-> l, amount |-> a, held |-> 0, closed |-> FALSE]
             joined == [i \in 1..nextRequestId |-> IF i = nextRequestId THEN fresh ELSE claims[i]]
  <2>1. a \in 0..(2 * MaxCash) /\ next \in Nat \ {0} /\ next - 1 = nextRequestId
    BY <1>0, VaultConstants
  <2>2. /\ reqs \in Requests(next) /\ requests' \in Requests(next)
        /\ Filled(reqs, requests', next)
        /\ queuedFunded' = queuedFunded + Put(reqs, requests', next)
        /\ nextRequestId' = next
    BY <1>3 DEF JoinStep, FillStep
  <2>3. /\ Exits!FifoFill(Claims(reqs, next), after)
        /\ Exits!Put(Claims(reqs, next), after) = Put(reqs, requests', next)
    <3> HIDE DEF reqs, next
    <3>. QED
      BY <2>1, <2>2, FillsClaims
  <2>4. Claims(reqs, next) = joined
    <3>1. ASSUME NEW i \in 1..nextRequestId
          PROVE  [owner |-> reqs[i].lender, amount |-> reqs[i].amount,
                  held |-> reqs[i].funded, closed |-> reqs[i].claimed]
                   = IF i = nextRequestId THEN fresh ELSE claims[i]
      <4>1. CASE i = nextRequestId
        BY <4>1 DEF Joined, Fresh
      <4>2. CASE i # nextRequestId
        <5>1. i \in 1..(nextRequestId - 1) /\ reqs[i] = requests[i]
          BY <1>0, <4>2 DEF Joined
        <5>. QED
          BY <4>2, <5>1 DEF Claims
      <4>. QED
        BY <4>1, <4>2
    <3> HIDE DEF reqs, fresh, claims
    <3>. QED
      BY <2>1, <3>1 DEF Claims
  <2>5. Cardinality(DOMAIN claims) + 1 = nextRequestId
    <3>1. DOMAIN claims = 1..(nextRequestId - 1)
      BY DEF Claims
    <3>2. Cardinality(1..(nextRequestId - 1)) = nextRequestId - 1
      BY <1>0, FS_Interval
    <3> HIDE DEF claims
    <3>. QED
      BY <1>0, <3>1, <3>2
  <2>6. DOMAIN after = 1..nextRequestId
    BY <2>1, <2>2 DEF Claims
  <2>7. queuedFunded' = queuedFunded + Exits!Put(Claims(reqs, next), after)
    BY <2>2, <2>3
  <2>8. JoinForm(nextRequestId, claims, after)
    <3>1. Exits!FifoFill(joined, after) /\ queuedFunded' = queuedFunded + Exits!Put(joined, after)
      <4> HIDE DEF reqs, next, joined, after
      <4>. QED
        BY <2>3, <2>4, <2>7
    <3> HIDE DEF claims, after
    <3>. QED
      BY <2>1, <2>6, <3>1 DEF JoinForm
  <2>9. JoinForm(Exits!Cardinality(DOMAIN claims) + 1, claims, after)
    <3> HIDE DEF claims, after
    <3>. QED
      BY <2>5, <2>8, SameSize
  <2>. QED
    BY <2>9 DEF JoinForm, Exits!Join, Claims, RequestIds
<1>4. ASSUME NEW id \in RequestIds, CloseStep(id)
      PROVE  Exits!Close
  <2>1. /\ ~requests[id].claimed
        /\ requests' = [requests EXCEPT ![id].claimed = TRUE]
        /\ queuedFunded' = queuedFunded - requests[id].funded
        /\ nextRequestId' = nextRequestId
    BY <1>4 DEF CloseStep
  <2>2. /\ DOMAIN claims = RequestIds
        /\ claims[id].closed = requests[id].claimed /\ claims[id].held = requests[id].funded
    BY DEF Claims, RequestIds
  <2>3. after = [claims EXCEPT ![id].closed = TRUE]
    <3>1. ASSUME NEW i \in RequestIds
          PROVE  [owner |-> requests'[i].lender, amount |-> requests'[i].amount,
                  held |-> requests'[i].funded, closed |-> requests'[i].claimed]
                   = IF i = id THEN [claims[i] EXCEPT !.closed = TRUE] ELSE claims[i]
      <4>1. CASE i = id
        <5>1. requests'[i] = [requests[i] EXCEPT !.claimed = TRUE] /\ requests[i] \in Request
          BY <1>0, <2>1, <4>1 DEF TypeOK
        <5>2. claims[i] = [owner |-> requests[i].lender, amount |-> requests[i].amount,
                           held |-> requests[i].funded, closed |-> requests[i].claimed]
          BY DEF Claims, RequestIds
        <5>3. /\ requests'[i].lender = requests[i].lender /\ requests'[i].claimed = TRUE
              /\ requests'[i].amount = requests[i].amount
              /\ requests'[i].funded = requests[i].funded
          BY <5>1 DEF Request
        <5> HIDE DEF claims
        <5>6. PICK t : t = TRUE
          OBVIOUS
        <5>4. [[owner |-> requests[i].lender, amount |-> requests[i].amount,
                held |-> requests[i].funded, closed |-> requests[i].claimed] EXCEPT !.closed = t]
                = [owner |-> requests[i].lender, amount |-> requests[i].amount,
                   held |-> requests[i].funded, closed |-> t]
          OBVIOUS
        <5>5. [claims[i] EXCEPT !.closed = TRUE]
                = [owner |-> requests[i].lender, amount |-> requests[i].amount,
                   held |-> requests[i].funded, closed |-> TRUE]
          BY <5>2, <5>4, <5>6, Zenon
        <5>. QED
          BY <4>1, <5>3, <5>5
      <4>2. CASE i # id
        BY <1>0, <2>1, <4>2 DEF TypeOK, Claims, RequestIds
      <4>. QED
        BY <4>1, <4>2
    <3>2. after = [i \in RequestIds |->
                     [owner |-> requests'[i].lender, amount |-> requests'[i].amount,
                      held |-> requests'[i].funded, closed |-> requests'[i].claimed]]
      BY <2>1 DEF Claims, RequestIds
    <3>3. [claims EXCEPT ![id].closed = TRUE]
            = [i \in RequestIds |-> IF i = id THEN [claims[i] EXCEPT !.closed = TRUE] ELSE claims[i]]
      <4> HIDE DEF claims
      <4>. QED
        BY <2>2
    <3> HIDE DEF claims, after
    <3>. QED
      BY <3>1, <3>2, <3>3
  <2>4. /\ id \in DOMAIN claims /\ ~claims[id].closed
        /\ queuedFunded' = queuedFunded - claims[id].held
    BY <2>1, <2>2
  <2>. QED
    BY <2>3, <2>4 DEF Exits!Close, Claims, RequestIds
<1>. QED
  BY <1>1, <1>2, <1>3, <1>4, QueueStep DEF Exits!ExitNext

\* The redemption queue is the abstract queue of ExitQueue, in every instance: money reaches
\* the requests in their order, each leaves once, and the pot is moved by exactly what they are
\* given and take (LiquidityVault.sol requestWithdrawal to _serviceQueue).
THEOREM VaultImplementsExitQueue == Spec => QueueKeepsPromises
<1>1. Init => Exits!ExitInit
  <2> SUFFICES ASSUME Init
               PROVE  Exits!ExitInit
    OBVIOUS
  <2>1. RequestIds = {} /\ queuedFunded = 0
    BY DEF Init, RequestIds
  <2>. QED
    BY <2>1 DEF Exits!ExitInit
<1>. QED
  BY <1>1, StepIsExit, Invariant, BoundedAlways, PTL
  DEF Spec, QueueKeepsPromises, Exits!ExitSpec

-----------------------------------------------------------------------------
(* The worth of a share. With A the assets and T the supply, a call that    *)
(* brings or takes n tokens for m shares dilutes nobody when n * T covers   *)
(* A * m on the way in, or A * m covers n * T on the way out.               *)

\* A quotient rounded down does not pass the exact one.
LEMMA FloorWithin ==
  ASSUME NEW x \in Nat, NEW y \in Nat, NEW d \in Nat \ {0}
  PROVE  MulDiv(x, y, d) \in Nat /\ d * MulDiv(x, y, d) <= x * y
<1>1. PICK n \in Nat : n = x * y
  OBVIOUS
<1>2. n \div d \in Nat /\ d * (n \div d) <= n
  OBVIOUS
<1>. QED
  BY <1>1, <1>2 DEF MulDiv

\* More assets for the same shares are worth no less.
LEMMA MoreIsFair ==
  ASSUME NEW A \in Nat, NEW B \in Nat, NEW T \in Nat, A <= B
  PROVE  B * T >= A * T
<1>1. PICK c \in Nat : B = A + c
  OBVIOUS
<1>2. (A + c) * T = A * T + c * T /\ A * T \in Nat /\ c * T \in Nat
  OBVIOUS
<1>. QED
  BY <1>1, <1>2

\* The shares given for n tokens are worth no more than n, at the price they are given at.
LEMMA SharesAreWorth ==
  ASSUME TypeOK, totalSupply > 0, NEW n \in Nat, NEW ta \in Nat
  PROVE  SharesFor(n, ta) \in Nat /\ ta * SharesFor(n, ta) <= n * totalSupply
<1>1. totalSupply \in Nat \ {0}
  BY DEF TypeOK
<1>2. CASE ta = 0
  <2>1. SharesFor(n, ta) = n /\ n * totalSupply \in Nat /\ 0 * n = 0
    BY <1>1, <1>2 DEF SharesFor
  <2>. QED
    BY <1>2, <2>1
<1>3. CASE ta # 0
  <2>1. SharesFor(n, ta) = MulDiv(n, totalSupply, ta)
    BY <1>1, <1>3 DEF SharesFor
  <2>. QED
    BY <1>1, <1>3, <2>1, FloorWithin
<1>. QED
  BY <1>2, <1>3

\* The tokens given for s shares are no more than the shares' part of the assets.
LEMMA AssetsAreShared ==
  ASSUME TypeOK, totalSupply > 0, NEW s \in 0..totalSupply
  PROVE  /\ convertToAssets(s) \in 0..totalAssets
         /\ totalSupply * convertToAssets(s) <= s * totalAssets
<1>1. totalSupply \in Nat \ {0} /\ s \in Nat
  BY DEF TypeOK
<1>2. PICK A \in Nat : A = totalAssets
  BY ConversionTypes DEF totalAssets, TypeOK
<1>3. convertToAssets(s) = MulDiv(s, A, totalSupply)
  BY <1>1, <1>2 DEF convertToAssets
<1>4. MulDiv(s, A, totalSupply) = MulDiv(A, s, totalSupply)
  <2>1. s * A = A * s
    BY <1>1
  <2>. QED
    BY <2>1 DEF MulDiv
<1>5. MulDiv(A, s, totalSupply) \in 0..A
  BY <1>1, MulDivBound
<1>6. totalSupply * MulDiv(s, A, totalSupply) <= s * A
  BY <1>1, FloorWithin
<1>. QED
  BY <1>2, <1>3, <1>4, <1>5, <1>6

\* What HoldersNotDiluted says of one step.
KeepsWorth ==
  (reserves' = reserves /\ badDebt' = badDebt /\ totalSupply > 0)
    => totalAssets' * totalSupply >= totalAssets * totalSupply'

\* The numbers a step is judged by.
LEMMA WorthNumbers ==
  ASSUME TypeOK
  PROVE  /\ totalAssets \in Nat /\ totalSupply \in Nat
         /\ totalAssets = Monus(cash + totalPrincipal + accruedReceivables,
                                badDebt + reserves + queuedLiabilities)
         /\ totalAssets' = Monus(cash' + totalPrincipal' + accruedReceivables',
                                 badDebt' + reserves' + queuedLiabilities')
BY ConversionTypes DEF totalAssets, NetAssets, TypeOK

\* Supplying mints shares rounded down.
LEMMA SupplyKeepsWorth ==
  ASSUME TypeOK, totalSupply > 0, NEW l \in Lenders, NEW n \in Amounts, Supply(l, n)
  PROVE  totalAssets' * totalSupply >= totalAssets * totalSupply'
<1>1. n \in Nat
  BY VaultConstants
<1>2. PICK A \in Nat : A = totalAssets
  BY WorthNumbers
<1>3. PICK T \in Nat : T = totalSupply
  BY WorthNumbers
<1>4. PICK m \in Nat : m = SharesFor(n, A)
  BY <1>1, <1>2, SharesAreWorth
<1>5. A * m <= n * T
  BY <1>1, <1>2, <1>3, <1>4, SharesAreWorth
<1>6. totalSupply' = T + m
  BY <1>2, <1>3, <1>4 DEF Supply, Mint, convertToShares
<1>7. A = 0 \/ totalAssets' = A + n
  BY <1>1, <1>2, WorthNumbers DEF Supply, books, queue, Monus, TypeOK
<1>8. CASE A = 0
  <2>1. totalAssets' \in Nat
    BY <1>1, WorthNumbers DEF Supply, books, queue, Monus, TypeOK
  <2>2. PICK B \in Nat : B = totalAssets'
    BY <2>1
  <2>3. B * T \in Nat /\ 0 * (T + m) = 0
    OBVIOUS
  <2>4. B * T >= A * (T + m)
    BY <1>8, <2>3
  <2>. QED
    BY <1>2, <1>3, <1>6, <2>2, <2>4
<1>9. CASE totalAssets' = A + n
  <2>1. (A + n) * T >= A * (T + m)
    BY <1>1, <1>5, EntryIsFair
  <2>. QED
    BY <1>2, <1>3, <1>6, <1>9, <2>1
<1>. QED
  BY <1>7, <1>8, <1>9

\* Burning s shares for the tokens they convert to.
LEMMA BurnKeepsWorth ==
  ASSUME TypeOK, totalSupply > 0, NEW s \in Nat, s <= totalSupply,
         totalSupply' = totalSupply - s,
         totalAssets' = totalAssets - convertToAssets(s)
  PROVE  totalAssets' * totalSupply >= totalAssets * totalSupply'
<1>1. PICK A \in Nat : A = totalAssets
  BY WorthNumbers
<1>2. PICK T \in Nat : T = totalSupply
  BY WorthNumbers
<1>3. s \in 0..T
  BY <1>2
<1>4. convertToAssets(s) \in 0..A /\ T * convertToAssets(s) <= s * A
  BY <1>1, <1>2, <1>3, AssetsAreShared
<1>5. PICK n \in 0..A : n = convertToAssets(s)
  BY <1>4
<1>6. (A - n) * T >= A * (T - s)
  BY <1>3, <1>4, <1>5, ExitIsFair
<1>. QED
  BY <1>1, <1>2, <1>5, <1>6

\* A cancellation mints shares rounded down for the part it hands back.
LEMMA CancelKeepsWorth ==
  ASSUME TypeOK, totalSupply > 0, NEW id \in RequestIds, CancelWithdrawal(id)
  PROVE  totalAssets' * totalSupply >= totalAssets * totalSupply'
<1> DEFINE r == requests[id]
<1>1. /\ r.funded \in Nat /\ r.amount \in Nat /\ r.funded <= r.amount
      /\ r.amount <= queuedLiabilities /\ r.funded <= cash
  BY DEF CancelWithdrawal, Discharged, TypeOK, Request
<1>2. PICK u \in Nat : u = r.amount - r.funded
  BY <1>1
<1>3. PICK A \in Nat : A = totalAssets
  BY WorthNumbers
<1>4. PICK T \in Nat : T = totalSupply
  BY WorthNumbers
<1>5. /\ cash' = cash - r.funded /\ queuedLiabilities' = queuedLiabilities - r.amount
      /\ UNCHANGED books
  BY DEF CancelWithdrawal, Discharged
<1>6. totalAssets' \in Nat /\ totalAssets' = NetAssets(cash - r.funded, queuedLiabilities - r.amount)
  <2> HIDE DEF r
  <2>. QED
    BY <1>1, <1>5, WorthNumbers DEF NetAssets, Monus, books, TypeOK
<1>7. PICK B \in Nat : B = totalAssets'
  BY <1>6
<1>8. PICK m \in Nat : m = SharesFor(u, B)
  BY <1>2, SharesAreWorth
<1>9. B * m <= u * T
  BY <1>2, <1>4, <1>8, SharesAreWorth
<1>10. totalSupply' = T + m
  BY <1>2, <1>4, <1>6, <1>7, <1>8 DEF CancelWithdrawal, Discharged, Mint
<1>11. A = 0 \/ B = A + u
  <2> HIDE DEF r
  <2>. QED
    BY <1>1, <1>2, <1>3, <1>5, <1>7, WorthNumbers DEF Monus, books, TypeOK
<1>12. CASE A = 0
  <2>1. B * T \in Nat /\ 0 * (T + m) = 0
    OBVIOUS
  <2>2. B * T >= A * (T + m)
    BY <1>12, <2>1
  <2>. QED
    BY <1>3, <1>4, <1>7, <1>10, <2>2
<1>13. CASE B = A + u
  <2>1. A * m <= B * m
    <3>1. A <= B
      BY <1>13
    <3>2. B * m >= A * m
      BY <3>1, MoreIsFair
    <3>3. A * m \in Nat /\ B * m \in Nat
      OBVIOUS
    <3>. QED
      BY <3>2, <3>3
  <2>2. A * m <= u * T
    <3>1. A * m \in Nat /\ B * m \in Nat /\ u * T \in Nat
      OBVIOUS
    <3>. QED
      BY <1>9, <2>1, <3>1
  <2>3. (A + u) * T >= A * (T + m)
    BY <2>2, EntryIsFair
  <2>. QED
    BY <1>3, <1>4, <1>7, <1>10, <1>13, <2>3
<1>. QED
  BY <1>11, <1>12, <1>13

\* A step that leaves the shares and lowers no assets.
LEMMA RaiseKeepsWorth ==
  ASSUME TypeOK, totalSupply' = totalSupply, totalAssets' \in Nat, totalAssets <= totalAssets'
  PROVE  totalAssets' * totalSupply >= totalAssets * totalSupply'
<1>1. PICK A \in Nat : A = totalAssets
  BY WorthNumbers
<1>2. PICK B \in Nat : B = totalAssets'
  OBVIOUS
<1>3. PICK T \in Nat : T = totalSupply
  BY WorthNumbers
<1>4. B * T >= A * T
  BY <1>1, <1>2, MoreIsFair
<1>. QED
  BY <1>1, <1>2, <1>3, <1>4

\* Every call keeps what a share is worth, losses and reserves apart.
LEMMA StepKeepsWorth == IInv /\ [Next]_vars => [KeepsWorth]_vars
<1> SUFFICES ASSUME IInv, [Next]_vars, reserves' = reserves, badDebt' = badDebt, totalSupply > 0
             PROVE  totalAssets' * totalSupply >= totalAssets * totalSupply'
  BY DEF KeepsWorth
<1>0. TypeOK
  BY DEF IInv
<1>1. ASSUME NEW l \in Lenders, NEW n \in Amounts, Supply(l, n)
      PROVE  totalAssets' * totalSupply >= totalAssets * totalSupply'
  BY <1>0, <1>1, SupplyKeepsWorth
<1>2. ASSUME NEW l \in Lenders, NEW n \in Amounts, Withdraw(l, n) \/ RequestWithdrawal(l, n)
      PROVE  totalAssets' * totalSupply >= totalAssets * totalSupply'
  <2>1. n \in Nat /\ n <= totalSupply /\ totalSupply' = totalSupply - n
    BY <1>2, VaultConstants DEF Withdraw, RequestWithdrawal, Burn
  <2>2. n \in 0..totalSupply
    BY <1>0, <2>1 DEF TypeOK
  <2>3. PICK a \in Nat : a = convertToAssets(n)
    BY <1>0, <2>1, ConversionTypes
  <2>4. a <= totalAssets
    BY <1>0, <2>2, <2>3, AssetsAreShared
  <2>5. \/ cash' = cash - a /\ queuedLiabilities' = queuedLiabilities /\ a <= availableCash
        \/ cash' = cash /\ queuedLiabilities' = queuedLiabilities + a
    BY <1>2, <2>3 DEF Withdraw, RequestWithdrawal, queue
  <2>6. UNCHANGED books
    BY <1>2 DEF Withdraw, RequestWithdrawal
  <2>7. totalAssets' = totalAssets - a
    BY <1>0, <2>4, <2>5, <2>6, WorthNumbers DEF books, Monus, TypeOK
  <2>. QED
    BY <1>0, <2>1, <2>3, <2>7, BurnKeepsWorth
<1>3. ASSUME NEW id \in RequestIds, CancelWithdrawal(id)
      PROVE  totalAssets' * totalSupply >= totalAssets * totalSupply'
  BY <1>0, <1>3, CancelKeepsWorth
<1>4. ASSUME NEW l \in Lenders, NEW m \in Lenders, NEW n \in Amounts, Transfer(l, m, n)
      PROVE  totalSupply' = totalSupply /\ totalAssets' = totalAssets
  BY <1>0, <1>4, WorthNumbers DEF Transfer, books, queue
<1>5. ASSUME NEW id \in RequestIds, ClaimWithdrawal(id)
      PROVE  totalSupply' = totalSupply /\ totalAssets' = totalAssets
  <2>1. requests[id].amount \in Nat
    BY <1>0 DEF TypeOK, Request
  <2>2. PICK a \in Nat : a = requests[id].amount
    BY <2>1
  <2>3. /\ a <= cash /\ a <= queuedLiabilities /\ cash' = cash - a
        /\ queuedLiabilities' = queuedLiabilities - a /\ UNCHANGED <<books, equity>>
    BY <1>5, <2>2 DEF ClaimWithdrawal
  <2>. QED
    BY <1>0, <2>3, WorthNumbers DEF books, equity, Monus, TypeOK
<1>6. ASSUME NEW n \in Amounts, Lend(n)
      PROVE  totalSupply' = totalSupply /\ totalAssets' = totalAssets
  <2>1. n \in Nat
    BY VaultConstants
  <2>2. /\ cash' = cash - n /\ totalPrincipal' = totalPrincipal + n
        /\ UNCHANGED <<accruedReceivables, badDebt, reserves, equity, queue>>
    BY <1>6 DEF Lend, LendOver
  <2>. QED
    BY <1>0, <2>1, <2>2, WorthNumbers DEF equity, queue, TypeOK
<1>7. ASSUME NEW n \in Amounts, NEW f \in ReserveFactors, OnRepaid(n, f)
      PROVE  /\ totalSupply' = totalSupply
             /\ totalAssets' \in Nat /\ totalAssets <= totalAssets'
  <2>1. n \in Nat
    BY VaultConstants
  <2>2. PICK i \in 0..n : i = Least(accruedReceivables, n) /\ i <= accruedReceivables
    BY <1>0, <2>1 DEF Least, TypeOK
  <2>3. /\ cash' = cash + n /\ accruedReceivables' = accruedReceivables - i
        /\ totalPrincipal' = Monus(totalPrincipal, n - i)
        /\ UNCHANGED <<badDebt, equity, queue>>
    BY <1>7, <2>2 DEF OnRepaid, OnRepaidOver
  <2>. QED
    BY <1>0, <2>1, <2>2, <2>3, WorthNumbers DEF equity, queue, Monus, TypeOK
<1>8. ASSUME NEW n \in Amounts, Accrue(n)
      PROVE  /\ totalSupply' = totalSupply
             /\ totalAssets' \in Nat /\ totalAssets <= totalAssets'
  <2>1. n \in Nat
    BY VaultConstants
  <2>. QED
    BY <1>0, <1>8, <2>1, WorthNumbers DEF Accrue, Accrued, equity, queue, Monus, TypeOK
<1>9. ASSUME NEW n \in Amounts, RecordBadDebt(n)
      PROVE  FALSE
  <2>1. n \in Nat \ {0}
    BY VaultConstants
  <2>. QED
    BY <1>0, <1>9, <2>1 DEF RecordBadDebt, Least, TypeOK
<1>10. ASSUME NEW n \in Amounts, ReserveCash(n) \/ ReleaseCash(n)
       PROVE  totalSupply' = totalSupply /\ totalAssets' = totalAssets
  BY <1>0, <1>10, WorthNumbers DEF ReserveCash, ReleaseCash, books, equity, queue
<1>11. CASE ServiceWithdrawalQueue
  BY <1>0, <1>11, WorthNumbers DEF ServiceWithdrawalQueue, books, equity
<1>12. CASE UNCHANGED vars
  BY <1>0, <1>12, WorthNumbers DEF vars, books, equity, queue
<1>13. totalSupply' = totalSupply /\ totalAssets' = totalAssets
          => totalAssets' * totalSupply >= totalAssets * totalSupply'
  <2> SUFFICES ASSUME totalSupply' = totalSupply, totalAssets' = totalAssets
               PROVE  totalAssets' * totalSupply >= totalAssets * totalSupply'
    OBVIOUS
  <2>1. totalAssets \in Nat /\ totalAssets <= totalAssets
    BY <1>0, WorthNumbers
  <2>. QED
    BY <1>0, <2>1, RaiseKeepsWorth
<1>14. totalSupply' = totalSupply /\ totalAssets' \in Nat /\ totalAssets <= totalAssets'
          => totalAssets' * totalSupply >= totalAssets * totalSupply'
  BY <1>0, RaiseKeepsWorth
<1> HIDE DEF totalAssets
<1>. QED
  BY <1>1, <1>2, <1>3, <1>4, <1>5, <1>6, <1>7, <1>8, <1>9, <1>10, <1>11, <1>12, <1>13, <1>14 DEF Next

\* In every instance, no call lowers the assets behind one share while the reserve and the
\* written-off debt stand still: entry and exit are paid for by those who come and go
\* (LiquidityVault.sol supply to claimWithdrawal).
THEOREM SharesKeepTheirWorth == Spec => HoldersNotDiluted
<1>1. IInv /\ [Next]_vars => [KeepsWorth]_vars
  BY StepKeepsWorth
<1>. QED
  BY <1>1, Invariant, PTL DEF Spec, HoldersNotDiluted, KeepsWorth
=============================================================================
