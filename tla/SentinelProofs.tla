--------------------------- MODULE SentinelProofs ---------------------------
(***************************************************************************)
(* For any runs, amounts, caps, clocks and number of crashes: with one     *)
(* call of the engine in flight at a time and a budget store that outlives *)
(* the process, a run never has two transactions, the budget covers all    *)
(* that may be spent and a complete run says what the chain says.          *)
(***************************************************************************)
EXTENDS Sentinel, Induction

\* The hypothesis of the results: a second call in flight, or a ledger lost in a crash, breaks
\* them, and the host that calls the engine is what keeps calls apart.
Serial == (\A v, w \in Workers : v = w) /\ LedgerSurvives

-----------------------------------------------------------------------------
(* Scripts. *)

Awaits ==
  {"GATE", "SNAPSHOT", "COMPILE", "READ_LEDGER", "VALIDATE", "AUTHORIZE", "EXECUTE",
   "AWAIT_RECEIPT", "CONFIRM", "RELEASE"}

Ahead(s) == {s[k] : k \in 1..Len(s)}

Settling == {"CONFIRM", "RELEASE"}
Writing == Settling \cup {"VALIDATE"}

\* What must not come after what in a script: a reading of the ledger serves one writing of
\* it, and what is settled is settled before it is recorded.
Misplaced(first, then) ==
  \/ then = "TRIGGER_OBSERVED"
  \/ first \in Writing /\ then \in Writing \cup {"READ_LEDGER"}
  \/ first \in Settling /\ then \in Awaits
  \/ first \in {"RECONCILED", "COMPLETE"} /\ then \in Settling

Ordered(s) == \A j, k \in 1..Len(s) : j < k => ~Misplaced(s[j], s[k])

Script == {s \in Seq(RunStates \cup Awaits) : Ordered(s)}

-----------------------------------------------------------------------------
(* The invariant. *)

\* States of a run whose record names its transaction.
Sent ==
  {"SUBMITTED", "CONFIRMATION_UNKNOWN", "PARTIALLY_FILLED", "FILLED", "EXECUTION_UNKNOWN",
   "RECONCILING", "RECONCILED", "COMPLETE"}

Unsent(r) == \A t \in DOMAIN txs : txs[t].run # r

IsTxOf(t, r) == t \in DOMAIN txs /\ txs[t].run = r

\* The chain has answered about t, and the ledger says of r what the chain said.
SettledBy(r, t) ==
  /\ IsTxOf(t, r) /\ transactionOutcome(t) # "pending"
  /\ ledger[r].state = IF transactionOutcome(t) = "success" THEN "CONFIRMED" ELSE "RELEASED"

\* The transaction a call is about.
txOf(call) == IF call.sent # NoTx THEN call.sent ELSE call.record.tx

Call ==
  [run : Runs \cup {NoRun}, script : Script, record : Record, writing : BOOLEAN,
   epoch : 0..MaxEpoch, amount : Amounts \cup {0}, sent : Nat, ledger : Ledger,
   backlog : SUBSET [run : Runs, record : Record]]

DataTypes ==
  /\ store \in [Runs -> Record]
  /\ ledger \in Ledger
  /\ txs \in Seq([run : Runs, amount : Amounts, outcome : Outcomes])
  /\ epoch \in 0..MaxEpoch /\ live \in BOOLEAN /\ now \in 0..MaxNow /\ crashes \in 0..MaxCrashes

\* Runs, transactions and budget entries belong together.
Booked ==
  /\ \A t, u \in DOMAIN txs : txs[t].run = txs[u].run => t = u
  /\ \A t \in DOMAIN txs : /\ store[txs[t].run] # Absent
                           /\ txs[t].amount = ledger[txs[t].run].amount
                           /\ MayHaveEffect(t) => txs[t].run \in committed(ledger)
  /\ \A r \in Runs :
       /\ IF store[r].state \in Sent THEN IsTxOf(store[r].tx, r) ELSE store[r].tx = NoTx
       /\ store[r] = Absent => ledger[r] = NoEntry
       /\ store[r].state \in {"RECONCILED", "COMPLETE"} => SettledBy(r, store[r].tx)

WithinCap == spent(ledger) <= MaxTotal

\* What is ahead of a call says how far its run is.
InStep(call) ==
  LET r == call.run
      ahead == Ahead(call.script)
  IN
  /\ r \in Runs
  /\ Head(call.script) # "TRIGGER_OBSERVED" => store[r] # Absent
  /\ IF call.writing
     THEN /\ call.record.state = Head(call.script)
          /\ call.record.state \in RunTransitions(store[r].state)
          /\ call.record.tx = IF call.record.state = "SUBMITTED" THEN call.sent ELSE store[r].tx
     ELSE call.record = store[r]
  /\ call.sent # NoTx => IsTxOf(call.sent, r)
  /\ ahead \cap {"GATE", "SNAPSHOT", "COMPILE", "VALIDATE", "AUTHORIZE", "EXECUTE"} # {} =>
       Unsent(r) /\ call.sent = NoTx
  /\ ahead \cap {"GATE", "SNAPSHOT", "COMPILE", "VALIDATE"} # {} => ledger[r] = NoEntry
  /\ "VALIDATE" \in ahead => call.amount \in Amounts
  /\ ahead \cap {"AUTHORIZE", "EXECUTE"} # {} =>
       call.amount \in Amounts /\ ledger[r] = [state |-> "RESERVED", amount |-> call.amount]
  /\ ahead \cap {"AWAIT_RECEIPT", "SUBMITTED"} # {} => IsTxOf(call.sent, r)
  /\ "CONFIRM" \in ahead => IsTxOf(txOf(call), r) /\ transactionOutcome(txOf(call)) = "success"
  /\ "RELEASE" \in ahead =>
       Unsent(r) \/ (IsTxOf(txOf(call), r) /\ transactionOutcome(txOf(call)) = "reverted")
  /\ ahead \cap {"RECONCILED", "COMPLETE"} # {} =>
       /\ IsTxOf(txOf(call), r)
       /\ ahead \cap Settling # {} \/ SettledBy(r, txOf(call))
  /\ ahead \cap Writing # {} => "READ_LEDGER" \in ahead \/ call.ledger = ledger
  /\ "BLOCKED_BY_VENUE" \notin ahead

\* What recover has listed and not reached is as it was listed.
ListedStays(call) ==
  /\ \A found \in call.backlog : found.record = store[found.run]
  /\ call.script # <<>> => \A found \in call.backlog : found.run # call.run

InStepAll == \A w \in Workers : worker[w].script # <<>> => InStep(worker[w])

IdleIsIdle == \A w \in Workers : worker[w].script = <<>> => ~worker[w].writing

Kept ==
  /\ DataTypes
  /\ worker \in [Workers -> Call]
  /\ Booked
  /\ WithinCap
  /\ InStepAll
  /\ IdleIsIdle
  /\ \A w \in Workers : ListedStays(worker[w])

-----------------------------------------------------------------------------
(* Lemmas about scripts. *)

Word == RunStates \cup Awaits

\* A script of one word.
LEMMA ScriptOne ==
  ASSUME NEW a \in Word
  PROVE  <<a>> \in Script /\ Ahead(<<a>>) = {a}
BY DEF Script, Ordered, Ahead, Word

\* Of two words in order.
LEMMA ScriptTwo ==
  ASSUME NEW a \in Word, NEW b \in Word, ~Misplaced(a, b)
  PROVE  <<a, b>> \in Script /\ Ahead(<<a, b>>) = {a, b}
<1> DEFINE s == <<a, b>>
<1>1. s \in Seq(Word) /\ Len(s) = 2 /\ s[1] = a /\ s[2] = b
  OBVIOUS
<1>2. 1..2 = {1, 2}
  OBVIOUS
<1> HIDE DEF s
<1>3. Ordered(s)
  BY <1>1, <1>2 DEF Ordered
<1>4. Ahead(s) = {a, b}
  BY <1>1, <1>2 DEF Ahead
<1>. QED
  BY <1>1, <1>3, <1>4 DEF Script, Word, s

\* Of three.
LEMMA ScriptThree ==
  ASSUME NEW a \in Word, NEW b \in Word, NEW c \in Word,
         ~Misplaced(a, b), ~Misplaced(a, c), ~Misplaced(b, c)
  PROVE  <<a, b, c>> \in Script /\ Ahead(<<a, b, c>>) = {a, b, c}
<1> DEFINE s == <<a, b, c>>
<1>1. s \in Seq(Word) /\ Len(s) = 3 /\ s[1] = a /\ s[2] = b /\ s[3] = c
  OBVIOUS
<1>2. 1..3 = {1, 2, 3}
  OBVIOUS
<1> HIDE DEF s
<1>3. Ordered(s)
  BY <1>1, <1>2 DEF Ordered
<1>4. Ahead(s) = {a, b, c}
  BY <1>1, <1>2 DEF Ahead
<1>. QED
  BY <1>1, <1>3, <1>4 DEF Script, Word, s

\* A script that has run out.
LEMMA ScriptEmpty == <<>> \in Script /\ Ahead(<<>>) = {}
BY DEF Script, Ordered, Ahead, Word

\* Two scripts in order, one after the other.
LEMMA ScriptJoin ==
  ASSUME NEW s \in Script, NEW t \in Script,
         \A a \in Ahead(s), b \in Ahead(t) : ~Misplaced(a, b)
  PROVE  /\ s \o t \in Script /\ Ahead(s \o t) = Ahead(s) \cup Ahead(t)
         /\ s # <<>> => s \o t # <<>> /\ Head(s \o t) = Head(s)
<1> DEFINE u == s \o t
<1>1. /\ s \in Seq(Word) /\ t \in Seq(Word) /\ u \in Seq(Word)
      /\ Len(s) \in Nat /\ Len(t) \in Nat /\ Len(u) = Len(s) + Len(t)
      /\ \A k \in 1..Len(u) : u[k] = IF k <= Len(s) THEN s[k] ELSE t[k - Len(s)]
  BY DEF Script, Word
<1>2. /\ \A k \in 1..Len(u) : k <= Len(s) => k \in 1..Len(s)
      /\ \A k \in 1..Len(u) : ~(k <= Len(s)) => k - Len(s) \in 1..Len(t)
      /\ \A k \in 1..Len(s) : k \in 1..Len(u)
      /\ \A k \in 1..Len(t) : k + Len(s) \in 1..Len(u) /\ ~(k + Len(s) <= Len(s))
                              /\ (k + Len(s)) - Len(s) = k
  BY <1>1
<1> HIDE DEF u
<1>3. Ordered(u)
  <2> SUFFICES ASSUME NEW j \in 1..Len(u), NEW k \in 1..Len(u), j < k
               PROVE  ~Misplaced(u[j], u[k])
    BY DEF Ordered
  <2>1. CASE k <= Len(s)
    BY <1>1, <1>2, <2>1 DEF Script, Ordered
  <2>2. CASE j <= Len(s) /\ ~(k <= Len(s))
    BY <1>1, <1>2, <2>2 DEF Ahead
  <2>3. CASE ~(j <= Len(s))
    <3>1. ~(k <= Len(s)) /\ j - Len(s) < k - Len(s)
      BY <1>1, <2>3
    <3>. QED
      BY <1>1, <1>2, <2>3, <3>1 DEF Script, Ordered
  <2>. QED
    BY <1>1, <2>1, <2>2, <2>3
<1>4. Ahead(u) = Ahead(s) \cup Ahead(t)
  <2>1. Ahead(u) \subseteq Ahead(s) \cup Ahead(t)
    BY <1>1, <1>2 DEF Ahead
  <2>2. \A k \in 1..Len(s) : u[k] = s[k] /\ k \in 1..Len(u)
    BY <1>1, <1>2
  <2>3. \A k \in 1..Len(t) : u[k + Len(s)] = t[k] /\ k + Len(s) \in 1..Len(u)
    BY <1>1, <1>2
  <2>4. Ahead(s) \subseteq Ahead(u)
    BY <2>2 DEF Ahead
  <2>5. Ahead(t) \subseteq Ahead(u)
    <3> SUFFICES ASSUME NEW k \in 1..Len(t) PROVE t[k] \in Ahead(u)
      BY DEF Ahead
    <3>. QED
      BY <2>3 DEF Ahead
  <2>. QED
    BY <2>1, <2>4, <2>5
<1>5. s # <<>> => u # <<>> /\ Head(u) = Head(s)
  BY <1>1, <1>2
<1>. QED
  BY <1>1, <1>3, <1>4, <1>5 DEF Script, Word, u

\* What is left of a script after its first word.
LEMMA ScriptTail ==
  ASSUME NEW s \in Script, s # <<>>
  PROVE  /\ Tail(s) \in Script
         /\ Head(s) \in Ahead(s) /\ Head(s) \in Word
         /\ Ahead(s) = {Head(s)} \cup Ahead(Tail(s))
         /\ \A b \in Ahead(Tail(s)) : ~Misplaced(Head(s), b)
         /\ Tail(s) # <<>> => Head(Tail(s)) \in Ahead(Tail(s))
<1> DEFINE t == Tail(s)
<1>1. /\ s \in Seq(Word) /\ t \in Seq(Word) /\ Len(s) \in Nat \ {0} /\ Len(t) = Len(s) - 1
      /\ Head(s) = s[1] /\ 1 \in 1..Len(s)
      /\ \A k \in 1..Len(t) : t[k] = s[k + 1]
  BY DEF Script, Word
<1>2. /\ \A k \in 1..Len(t) : k + 1 \in 1..Len(s) /\ 1 < k + 1
      /\ \A k \in 1..Len(s) : k # 1 => k - 1 \in 1..Len(t) /\ (k - 1) + 1 = k
  BY <1>1
<1>3. t # <<>> => Head(t) = t[1] /\ 1 \in 1..Len(t)
  BY <1>1
<1> HIDE DEF t
<1>4. Ordered(t)
  <2> SUFFICES ASSUME NEW j \in 1..Len(t), NEW k \in 1..Len(t), j < k
               PROVE  ~Misplaced(t[j], t[k])
    BY DEF Ordered
  <2>1. j + 1 \in 1..Len(s) /\ k + 1 \in 1..Len(s) /\ j + 1 < k + 1
    BY <1>2
  <2>. QED
    BY <1>1, <2>1 DEF Script, Ordered
<1>5. Ahead(s) = {s[1]} \cup Ahead(t)
  <2>1. ASSUME NEW k \in 1..Len(s), k # 1
        PROVE  s[k] \in Ahead(t)
    <3>1. k - 1 \in 1..Len(t) /\ t[k - 1] = s[(k - 1) + 1] /\ (k - 1) + 1 = k
      BY <1>1, <1>2, <2>1
    <3>2. t[k - 1] = s[k]
      BY <3>1
    <3>. QED
      BY <3>1, <3>2 DEF Ahead
  <2>2. \A k \in 1..Len(t) : t[k] \in Ahead(s)
    BY <1>1, <1>2 DEF Ahead
  <2>3. s[1] \in Ahead(s)
    BY <1>1 DEF Ahead
  <2>4. Ahead(s) \subseteq {s[1]} \cup Ahead(t)
    BY <2>1 DEF Ahead
  <2>5. Ahead(t) \subseteq Ahead(s)
    BY <2>2 DEF Ahead
  <2>. QED
    BY <2>3, <2>4, <2>5
<1>6. \A b \in Ahead(t) : ~Misplaced(s[1], b)
  BY <1>1, <1>2 DEF Ahead, Script, Ordered
<1>7. t \in Script
  BY <1>1, <1>4 DEF Script, Word
<1>8. Head(s) \in Ahead(s) /\ Head(s) \in Word
  <2>1. s[1] \in Word
    BY <1>1
  <2>. QED
    BY <1>1, <1>5, <2>1
<1>9. t # <<>> => Head(t) \in Ahead(t)
  BY <1>3 DEF Ahead
<1>. QED
  BY <1>1, <1>5, <1>6, <1>7, <1>8, <1>9 DEF t

-----------------------------------------------------------------------------
(* Lemmas about calls. *)

\* An idle worker and an absent record are well formed.
LEMMA IdleCall == Idle \in Call /\ Absent \in Record
<1>1. NoEntry \in Entry /\ EmptyLedger \in Ledger
  BY DEF Entry, Ledger, EmptyLedger
<1>2. 0 \in 0..MaxEpoch
  BY EngineConstants
<1>. QED
  BY <1>1, <1>2, ScriptEmpty DEF Idle, Call, Record, NoTx

\* A call given another script.
LEMMA WithCall ==
  ASSUME NEW call \in Call, NEW script \in Script
  PROVE  /\ With(call, script) \in Call
         /\ With(call, script).script = script
         /\ With(call, script).backlog = call.backlog
         /\ script = <<>> => ~With(call, script).writing
         /\ script # <<>> => With(call, script) = [call EXCEPT !.script = script]
<1>1. CASE script = <<>>
  <2>1. With(call, script) = [Idle EXCEPT !.backlog = call.backlog]
    BY <1>1 DEF With
  <2>2. call.backlog \in SUBSET [run : Runs, record : Record]
    BY DEF Call
  <2>3. Idle.script = <<>> /\ Idle.writing = FALSE
    BY DEF Idle
  <2>4. DOMAIN Idle = {"run", "script", "record", "writing", "epoch", "amount", "sent", "ledger", "backlog"}
    BY DEF Idle
  <2>. QED
    BY <1>1, <2>1, <2>2, <2>3, <2>4, IdleCall DEF Call
<1>2. CASE script # <<>>
  BY <1>2 DEF With, Call
<1>. QED
  BY <1>1, <1>2

\* What becomes of the calls when the one that moves goes on with this script.
LEMMA Keeps ==
  ASSUME Serial, NEW w \in Workers, worker \in [Workers -> Call],
         NEW call \in Call, NEW script \in Script, GoesOn(w, call, script),
         DataTypes', Booked', WithinCap',
         script # <<>> => InStep([call EXCEPT !.script = script])',
         \A found \in call.backlog : /\ found.record = store'[found.run]
                                     /\ script # <<>> => found.run # call.run
  PROVE  Kept'
<1>1. worker' = [worker EXCEPT ![w] = With(call, script)]
  BY DEF GoesOn
<1>2. worker' \in [Workers -> Call] /\ worker'[w] = With(call, script)
  BY <1>1, WithCall
<1>3. \A v \in Workers : v = w
  BY DEF Serial
<1>4. InStepAll'
  <2>1. ASSUME worker'[w].script # <<>>
        PROVE  InStep(worker[w])'
    <3>1. script # <<>> /\ worker'[w] = [call EXCEPT !.script = script]
      BY <1>2, <2>1, WithCall
    <3>. QED
      BY <3>1 DEF InStep, Unsent, IsTxOf, SettledBy, transactionOutcome
  <2>. QED
    BY <1>3, <2>1 DEF InStepAll
<1>5. IdleIsIdle'
  BY <1>2, <1>3, WithCall DEF IdleIsIdle
<1>6. (\A v \in Workers : ListedStays(worker[v]))'
  <2>1. script # <<>> => With(call, script).run = call.run
    BY WithCall DEF Call
  <2>. QED
    BY <1>2, <1>3, <2>1, WithCall DEF ListedStays
<1>. QED
  BY <1>2, <1>4, <1>5, <1>6 DEF Kept


\* What the store, the ledger and the transactions say, as long as they do not change.
LEMMA Rests ==
  ASSUME Kept, UNCHANGED <<store, ledger, txs>>
  PROVE  Booked' /\ WithinCap'
BY DEF Kept, Booked, WithinCap, IsTxOf, SettledBy, MayHaveEffect, transactionOutcome

\* A call that moves on without writing anything.
LEMMA KeepsCall ==
  ASSUME Serial, Kept, NEW w \in Workers, UNCHANGED <<store, ledger, txs, env, crashes>>,
         NEW call \in Call, NEW script \in Script, GoesOn(w, call, script),
         script # <<>> => InStep([call EXCEPT !.script = script]),
         \A found \in call.backlog : /\ found.record = store[found.run]
                                     /\ script # <<>> => found.run # call.run
  PROVE  Kept'
<1>1. DataTypes'
  BY DEF Kept, DataTypes, env
<1>2. Booked' /\ WithinCap'
  BY Rests
<1>3. script # <<>> => InStep([call EXCEPT !.script = script])'
  BY DEF InStep, Unsent, IsTxOf, SettledBy, transactionOutcome
<1>. QED
  BY <1>1, <1>2, <1>3, Keeps DEF Kept

\* A call that is at an await of its own.
LEMMA Waiting ==
  ASSUME Kept, NEW w \in Workers, NEW await \in Awaits, Waits(w, await)
  PROVE  /\ worker[w] \in Call /\ worker[w].script # <<>> /\ InStep(worker[w])
         /\ ~worker[w].writing /\ worker[w].run \in Runs
         /\ worker[w].record = store[worker[w].run] /\ store[worker[w].run] # Absent
         /\ await \in Ahead(worker[w].script)
         /\ Ahead(worker[w].script) = {await} \cup Ahead(Tail(worker[w].script))
         /\ \A b \in Ahead(Tail(worker[w].script)) : ~Misplaced(await, b)
         /\ \A found \in worker[w].backlog : /\ found.record = store[found.run]
                                             /\ found.run # worker[w].run
<1> DEFINE call == worker[w]
<1>1. call \in Call /\ call.script \in Script /\ call.script # <<>> /\ Head(call.script) = await
  BY DEF Kept, Waits, Free, Call
<1>2. InStep(call)
  BY <1>1 DEF Kept, InStepAll
<1>3. await \notin RunStates \cup {"ABSENT"}
  BY DEF Awaits, RunStates, RunTerminalStates, RunResumableStates, Blocked
<1>4. call.record.state \in RunStates \cup {"ABSENT"}
  BY <1>1 DEF Call, Record, Absent
<1>5. ~call.writing
  BY <1>1, <1>2, <1>3, <1>4 DEF InStep
<1>6. await # "TRIGGER_OBSERVED"
  BY DEF Awaits
<1>7. call.run \in Runs /\ call.record = store[call.run] /\ store[call.run] # Absent
  BY <1>1, <1>2, <1>5, <1>6 DEF InStep
<1>. QED
  BY <1>1, <1>2, <1>5, <1>7, ScriptTail DEF Kept, ListedStays

\* A call that fails leaves everything as it is.
LEMMA ThrowsKeeps ==
  ASSUME Serial, Kept, NEW w \in Workers, Throws(w), UNCHANGED <<store, ledger, txs, env, crashes>>
  PROVE  Kept'
<1>1. GoesOn(w, Idle, <<>>)
  BY DEF Throws, GoesOn, With, Idle
<1>2. \A found \in Idle.backlog : FALSE
  BY DEF Idle
<1>. QED
  BY <1>1, <1>2, IdleCall, ScriptEmpty, KeepsCall

\* A trigger opens a run that has done nothing yet.
LEMMA ProcessTriggerKeeps ==
  ASSUME Serial, Kept, NEW w \in Workers, NEW r \in Runs, ProcessTrigger(w, r)
  PROVE  Kept'
<1> DEFINE script == <<"TRIGGER_OBSERVED", "GATE">>
           call == [Idle EXCEPT !.run = r]
<1>1. script \in Script /\ Ahead(script) = {"TRIGGER_OBSERVED", "GATE"}
  BY ScriptTwo DEF Word, Awaits, RunStates, Misplaced, Writing, Settling
<1>2. script # <<>> /\ Head(script) = "TRIGGER_OBSERVED"
  OBVIOUS
<1>3. call \in Call /\ call.backlog = {} /\ call.run = r /\ call.record = Absent
      /\ call.writing = FALSE /\ call.sent = NoTx
  BY IdleCall DEF Call, Idle
<1>4. store[r] = Absent /\ ledger[r] = NoEntry /\ Unsent(r)
  BY DEF Kept, Booked, ProcessTrigger, StartsRun, Unsent
<1> HIDE DEF script
<1>5. InStep([call EXCEPT !.script = script])
  BY <1>1, <1>2, <1>3, <1>4 DEF InStep, Settling, Writing, Call
<1>6. GoesOn(w, call, script) /\ UNCHANGED <<store, ledger, txs, env, crashes>>
  BY DEF ProcessTrigger, script
<1>. QED
  BY <1>1, <1>3, <1>5, <1>6, KeepsCall

\* The same call, with another epoch or amount.
Continues(old, call) == call = [old EXCEPT !.epoch = call.epoch, !.amount = call.amount]

\* The transactions are numbered from 1 and each names its run.
LEMMA TxTypes ==
  ASSUME DataTypes
  PROVE  /\ DOMAIN txs = 1..Len(txs) /\ Len(txs) \in Nat
         /\ \A t \in DOMAIN txs :
              /\ t # NoTx /\ t \in Nat /\ txs[t].run \in Runs /\ txs[t].amount \in Amounts
              /\ txs[t].outcome \in Outcomes
<1> DEFINE S == [run : Runs, amount : Amounts, outcome : Outcomes]
<1>1. txs \in Seq(S)
  BY DEF DataTypes
<1> HIDE DEF S
<1>2. DOMAIN txs = 1..Len(txs) /\ Len(txs) \in Nat /\ \A t \in DOMAIN txs : txs[t] \in S
  BY <1>1
<1>3. \A t \in DOMAIN txs : t # NoTx /\ t \in Nat
  BY <1>2 DEF NoTx
<1>4. \A x \in S : x.run \in Runs /\ x.amount \in Amounts /\ x.outcome \in Outcomes
  BY DEF S
<1>. QED
  BY <1>2, <1>3, <1>4

\* The next awaits of a call that has not sent anything and has nothing booked.
LEMMA PlanningGoesOn ==
  ASSUME Serial, Kept, NEW w \in Workers, \E await \in {"GATE", "SNAPSHOT", "COMPILE"} : Waits(w, await),
         UNCHANGED <<store, ledger, txs, env, crashes>>,
         NEW call \in Call, NEW script \in Script, GoesOn(w, call, script), script # <<>>,
         Continues(worker[w], call),
         Ahead(script) \subseteq RunStates \cup {"SNAPSHOT", "COMPILE", "READ_LEDGER", "VALIDATE"},
         Ahead(script) \cap {"SUBMITTED", "RECONCILED", "COMPLETE", "BLOCKED_BY_VENUE"} = {},
         "VALIDATE" \in Ahead(script) => call.amount \in Amounts /\ "READ_LEDGER" \in Ahead(script)
  PROVE  Kept'
<1> DEFINE old == worker[w]
           new == [call EXCEPT !.script = script]
<1>1. PICK await \in {"GATE", "SNAPSHOT", "COMPILE"} : Waits(w, await)
  OBVIOUS
<1>2. /\ InStep(old) /\ old.run \in Runs /\ ~old.writing /\ old.record = store[old.run]
      /\ store[old.run] # Absent /\ await \in Ahead(old.script)
      /\ \A found \in old.backlog : found.record = store[found.run] /\ found.run # old.run
      /\ old \in Call
  BY <1>1, Waiting DEF Awaits
<1>3. Unsent(old.run) /\ old.sent = NoTx /\ ledger[old.run] = NoEntry
  BY <1>2 DEF InStep
<1>4. /\ call.run = old.run /\ call.sent = old.sent /\ call.record = old.record
      /\ call.writing = old.writing /\ call.backlog = old.backlog
  BY <1>2 DEF Call, Continues
<1>5. /\ new.run = call.run /\ new.sent = call.sent /\ new.record = call.record
      /\ new.writing = call.writing /\ new.script = script /\ new.amount = call.amount
      /\ new.ledger = call.ledger
  BY DEF Call
<1>6. Ahead(script) \cap {"AUTHORIZE", "EXECUTE", "AWAIT_RECEIPT", "CONFIRM", "RELEASE"} = {}
  BY DEF RunStates, RunTerminalStates, RunResumableStates, Blocked
<1> HIDE DEF new
<1>7. InStep(new)
  BY <1>2, <1>3, <1>4, <1>5, <1>6 DEF InStep, Settling, Writing
<1>. QED
  BY <1>2, <1>4, <1>7, KeepsCall DEF new

\* The gate blocks a run or lets it pin its snapshot.
LEMMA ArmedGateKeeps ==
  ASSUME Serial, Kept, NEW w \in Workers, ArmedGate(w)
  PROVE  Kept'
<1> DEFINE call == worker[w]
           one == <<"BLOCKED_BY_POLICY">>
           three == <<"TRIGGER_VALIDATED", "SNAPSHOT_PINNING", "SNAPSHOT">>
<1>1. Waits(w, "GATE") /\ UNCHANGED <<store, ledger, txs, env, crashes>> /\ call \in Call
  BY DEF ArmedGate, Kept
<1>2. one \in Script /\ Ahead(one) = {"BLOCKED_BY_POLICY"} /\ one # <<>>
  BY ScriptOne DEF Word, RunStates, RunTerminalStates, Blocked
<1>3. /\ three \in Script /\ Ahead(three) = {"TRIGGER_VALIDATED", "SNAPSHOT_PINNING", "SNAPSHOT"}
      /\ three # <<>>
  BY ScriptThree DEF Word, RunStates, RunResumableStates, Awaits, Misplaced, Writing, Settling
<1>4. Continues(worker[w], call)
  BY <1>1 DEF Call, Continues
<1>5. PICK script \in {one, three} : GoesOn(w, call, script)
  BY DEF ArmedGate
<1> HIDE DEF one, three
<1>6. /\ script \in Script /\ script # <<>>
      /\ Ahead(script) \subseteq {"BLOCKED_BY_POLICY", "TRIGGER_VALIDATED", "SNAPSHOT_PINNING", "SNAPSHOT"}
  BY <1>2, <1>3, <1>5
<1>7. {"BLOCKED_BY_POLICY", "TRIGGER_VALIDATED", "SNAPSHOT_PINNING"} \subseteq RunStates
  BY DEF RunStates, RunTerminalStates, RunResumableStates, Blocked
<1>8. /\ Ahead(script) \subseteq RunStates \cup {"SNAPSHOT", "COMPILE", "READ_LEDGER", "VALIDATE"}
      /\ Ahead(script) \cap {"SUBMITTED", "RECONCILED", "COMPLETE", "BLOCKED_BY_VENUE"} = {}
      /\ "VALIDATE" \notin Ahead(script)
  BY <1>6, <1>7
<1>. QED
  BY <1>1, <1>4, <1>5, <1>6, <1>8, PlanningGoesOn

\* A snapshot pins the epoch.
LEMMA BuildSnapshotKeeps ==
  ASSUME Serial, Kept, NEW w \in Workers, BuildSnapshot(w)
  PROVE  Kept'
<1> DEFINE call == [worker[w] EXCEPT !.epoch = epoch]
           script == <<"SNAPSHOT_PINNED", "PLANNING", "COMPILE">>
<1>1. /\ Waits(w, "SNAPSHOT") /\ UNCHANGED <<store, ledger, txs, env, crashes>>
      /\ GoesOn(w, call, script)
  BY DEF BuildSnapshot
<1>2. script \in Script /\ Ahead(script) = {"SNAPSHOT_PINNED", "PLANNING", "COMPILE"} /\ script # <<>>
  BY ScriptThree DEF Word, RunStates, RunResumableStates, Awaits, Misplaced, Writing, Settling
<1>3. worker[w] \in Call /\ epoch \in 0..MaxEpoch
  BY DEF Kept, DataTypes
<1>4. /\ call \in Call
      /\ Continues(worker[w], call)
  BY <1>3 DEF Call, Continues
<1>5. {"SNAPSHOT_PINNED", "PLANNING"} \subseteq RunStates
  BY DEF RunStates, RunResumableStates
<1> HIDE DEF script, call
<1>6. /\ Ahead(script) \subseteq RunStates \cup {"SNAPSHOT", "COMPILE", "READ_LEDGER", "VALIDATE"}
      /\ Ahead(script) \cap {"SUBMITTED", "RECONCILED", "COMPLETE", "BLOCKED_BY_VENUE"} = {}
      /\ "VALIDATE" \notin Ahead(script)
  BY <1>2, <1>5
<1>. QED
  BY <1>1, <1>2, <1>4, <1>6, PlanningGoesOn

\* Compiling gives the call an amount or ends it.
LEMMA CompileKeeps ==
  ASSUME Serial, Kept, NEW w \in Workers, Compile(w)
  PROVE  Kept'
<1>1. Waits(w, "COMPILE") /\ UNCHANGED <<store, ledger, txs, env, crashes>> /\ worker[w] \in Call
  BY DEF Compile, Kept
<1>2. CASE \E to \in {"PLAN_REJECTED", "NO_ACTION_REQUIRED"} : GoesOn(w, worker[w], <<to>>)
  <2>1. PICK to \in {"PLAN_REJECTED", "NO_ACTION_REQUIRED"} : GoesOn(w, worker[w], <<to>>)
    BY <1>2
  <2>2. to \in RunStates /\ <<to>> # <<>>
    BY DEF RunStates, RunTerminalStates
  <2>3. <<to>> \in Script /\ Ahead(<<to>>) = {to}
    BY <2>2, ScriptOne DEF Word
  <2>4. Continues(worker[w], worker[w])
    BY <1>1 DEF Call, Continues
  <2> DEFINE script == <<to>>
  <2> HIDE DEF script
  <2>5. script \in Script /\ Ahead(script) = {to} /\ script # <<>> /\ GoesOn(w, worker[w], script)
    BY <2>1, <2>2, <2>3 DEF script
  <2>6. /\ Ahead(script) \subseteq RunStates \cup {"SNAPSHOT", "COMPILE", "READ_LEDGER", "VALIDATE"}
        /\ Ahead(script) \cap {"SUBMITTED", "RECONCILED", "COMPLETE", "BLOCKED_BY_VENUE"} = {}
        /\ "VALIDATE" \notin Ahead(script)
    BY <2>2, <2>5
  <2>. QED
    BY <1>1, <2>4, <2>5, <2>6, PlanningGoesOn
<1>3. CASE \E n \in Amounts : GoesOn(w, [worker[w] EXCEPT !.amount = n],
                                     <<"PLAN_READY", "READ_LEDGER", "VALIDATE">>)
  <2> DEFINE script == <<"PLAN_READY", "READ_LEDGER", "VALIDATE">>
  <2>1. PICK n \in Amounts : GoesOn(w, [worker[w] EXCEPT !.amount = n], script)
    BY <1>3
  <2> DEFINE call == [worker[w] EXCEPT !.amount = n]
  <2>2. script \in Script /\ Ahead(script) = {"PLAN_READY", "READ_LEDGER", "VALIDATE"} /\ script # <<>>
    BY ScriptThree DEF Word, RunStates, Awaits, Misplaced, Writing, Settling
  <2>3. /\ call \in Call /\ call.amount \in Amounts
        /\ Continues(worker[w], call)
    BY <1>1 DEF Call, Continues
  <2>4. "PLAN_READY" \in RunStates
    BY DEF RunStates
  <2> HIDE DEF script, call
  <2>5. /\ Ahead(script) \subseteq RunStates \cup {"SNAPSHOT", "COMPILE", "READ_LEDGER", "VALIDATE"}
        /\ Ahead(script) \cap {"SUBMITTED", "RECONCILED", "COMPLETE", "BLOCKED_BY_VENUE"} = {}
        /\ "VALIDATE" \in Ahead(script) => "READ_LEDGER" \in Ahead(script)
    BY <2>2, <2>4
  <2>6. GoesOn(w, call, script)
    BY <2>1 DEF call
  <2>. QED
    BY <1>1, <2>2, <2>3, <2>5, <2>6, PlanningGoesOn
<1>. QED
  BY <1>2, <1>3 DEF Compile

\* The call keeps what it read of the ledger.
LEMMA ReadLedgerKeeps ==
  ASSUME Serial, Kept, NEW w \in Workers, ReadLedger(w)
  PROVE  Kept'
<1> DEFINE old == worker[w]
           call == [old EXCEPT !.ledger = ledger]
           script == Tail(old.script)
           new == [call EXCEPT !.script = script]
<1>1. /\ Waits(w, "READ_LEDGER") /\ UNCHANGED <<store, ledger, txs, env, crashes>>
      /\ old \in Call /\ ledger \in Ledger
  BY DEF ReadLedger, Kept, DataTypes
<1>2. call \in Call /\ call.script = old.script /\ GoesOn(w, call, script)
  BY <1>1 DEF Call, ReadLedger, Returns
<1>3. /\ old.script # <<>> /\ old.script \in Script /\ InStep(old) /\ ~old.writing /\ old.run \in Runs
      /\ old.record = store[old.run] /\ store[old.run] # Absent
      /\ Ahead(old.script) = {"READ_LEDGER"} \cup Ahead(script)
      /\ \A found \in old.backlog : found.record = store[found.run] /\ found.run # old.run
  BY <1>1, Waiting DEF Awaits, Call
<1>4. script \in Script
  BY <1>3, ScriptTail
<1>5. /\ new.run = old.run /\ new.sent = old.sent /\ new.record = old.record
      /\ new.writing = old.writing /\ new.script = script /\ new.amount = old.amount
      /\ new.ledger = ledger /\ call.run = old.run /\ call.backlog = old.backlog
  BY <1>1 DEF Call
<1>6. txOf(new) = txOf(old)
  BY <1>5 DEF txOf
<1>7. /\ Ahead(script) \subseteq Ahead(old.script)
      /\ "READ_LEDGER" \notin Settling
      /\ Ahead(script) \cap Settling = Ahead(old.script) \cap Settling
  BY <1>3 DEF Settling
<1> HIDE DEF new, call, script
<1>8. InStep(new)
  BY <1>3, <1>5, <1>6, <1>7 DEF InStep
<1>. QED
  BY <1>1, <1>2, <1>3, <1>4, <1>5, <1>8, KeepsCall DEF new

\* A call that records an outcome with nothing spent, and is done.
LEMMA StopsKeeps ==
  ASSUME Serial, Kept, NEW w \in Workers, NEW await \in Awaits, Waits(w, await),
         UNCHANGED <<store, ledger, txs, env, crashes>>,
         NEW to \in {"WAITING_USER_CONFIRMATION", "BLOCKED_BY_POLICY", "BLOCKED_BY_MARKET_SESSION",
                     "BLOCKED_BY_BUDGET"},
         GoesOn(w, worker[w], <<to>>)
  PROVE  Kept'
<1> DEFINE old == worker[w]
           script == <<to>>
           new == [old EXCEPT !.script = script]
<1>1. to \in Word
  BY DEF Word, RunStates, RunTerminalStates, Blocked
<1>2. script \in Script /\ Ahead(script) = {to}
  BY <1>1, ScriptOne
<1>3. /\ InStep(old) /\ old.run \in Runs /\ ~old.writing /\ old.record = store[old.run]
      /\ store[old.run] # Absent /\ old \in Call
      /\ \A found \in old.backlog : found.record = store[found.run] /\ found.run # old.run
  BY Waiting
<1>4. /\ new.run = old.run /\ new.sent = old.sent /\ new.record = old.record
      /\ new.writing = old.writing /\ new.script = script
  BY <1>3 DEF Call
<1> HIDE DEF script, new
<1>5. InStep(new)
  BY <1>2, <1>3, <1>4 DEF InStep, Settling, Writing
<1>. QED
  BY <1>2, <1>3, <1>5, KeepsCall DEF new, script

\* A reservation adds its amount to what is spent.
LEMMA ReserveSpends ==
  ASSUME NEW l \in Ledger, NEW r \in Runs, l[r] = NoEntry, NEW n \in Amounts
  PROVE  /\ reserveBudget(l, r, n) = [l EXCEPT ![r] = [state |-> "RESERVED", amount |-> n]]
         /\ reserveBudget(l, r, n) \in Ledger
         /\ committed(reserveBudget(l, r, n)) = committed(l) \cup {r}
         /\ spent(reserveBudget(l, r, n)) = spent(l) + n
<1> DEFINE m == [l EXCEPT ![r] = [state |-> "RESERVED", amount |-> n]]
           f == [x \in Runs |-> l[x].amount]
           g == [x \in Runs |-> m[x].amount]
<1>1. reserveBudget(l, r, n) = m
  BY DEF reserveBudget
<1>2. m \in Ledger /\ m[r] = [state |-> "RESERVED", amount |-> n] /\ \A x \in Runs : x # r => m[x] = l[x]
  BY DEF Ledger, Entry
<1> HIDE DEF m
<1>3. /\ committed(m) = committed(l) \cup {r} /\ r \notin committed(l)
      /\ committed(l) \in SUBSET Runs /\ committed(m) \in SUBSET Runs
  BY <1>2 DEF committed, NoEntry
<1>4. IsFiniteSet(committed(m)) /\ IsFiniteSet(committed(l))
  BY <1>3, FS_Subset, BudgetConstants
<1>11. committed(m) \ {r} = committed(l) /\ r \in committed(m)
  BY <1>3
<1>12. \A k \in Ledger, x \in Runs : k[x].amount \in Int
  <2>1. \A e \in Entry : e.amount \in Amounts \cup {0}
    BY DEF Entry, NoEntry
  <2>2. \A a \in Amounts \cup {0} : a \in Int
    BY BudgetConstants
  <2>. QED
    BY <2>1, <2>2 DEF Ledger
<1>5. \A x \in Runs : f[x] \in Int /\ g[x] \in Int
  BY <1>2, <1>12
<1>6. g[r] = n /\ \A x \in committed(l) : g[x] = f[x]
  BY <1>2, <1>3
<1>7. spent(l) = SumFunctionOnSet(f, committed(l)) /\ spent(m) = SumFunctionOnSet(g, committed(m))
  BY Zenon DEF spent, SumFunctionOnSet
<1> HIDE DEF f, g
<1>8. SumFunctionOnSet(g, committed(m)) = g[r] + SumFunctionOnSet(g, committed(l))
  BY <1>3, <1>4, <1>5, <1>11, SumRemove
<1>9. SumFunctionOnSet(g, committed(l)) = SumFunctionOnSet(f, committed(l))
  BY <1>3, <1>4, <1>5, <1>6, SumSame
<1>10. SumFunctionOnSet(f, committed(l)) \in Int
  BY <1>3, <1>4, <1>5, SumFirst
<1>13. n \in Int
  BY BudgetConstants
<1>14. spent(m) = spent(l) + n
  BY <1>6, <1>7, <1>8, <1>9, <1>10, <1>13
<1>. QED
  BY <1>1, <1>2, <1>3, <1>14 DEF m

\* A plan that passes reserves its budget in the ledger.
LEMMA ValidatePlanKeeps ==
  ASSUME Serial, Kept, NEW w \in Workers, ValidatePlan(w)
  PROVE  Kept'
<1>0. PICK old \in Call : old = worker[w]
  BY DEF Kept
<1>1. Waits(w, "VALIDATE") /\ UNCHANGED <<store, txs, env, crashes>> /\ "VALIDATE" \in Awaits
  BY DEF ValidatePlan, Awaits
<1>2. /\ InStep(old) /\ old.run \in Runs /\ ~old.writing /\ old.record = store[old.run]
      /\ store[old.run] # Absent /\ old \in Call /\ "VALIDATE" \in Ahead(old.script)
      /\ Ahead(old.script) = {"VALIDATE"} \cup Ahead(Tail(old.script))
      /\ \A b \in Ahead(Tail(old.script)) : ~Misplaced("VALIDATE", b)
      /\ \A found \in old.backlog : found.record = store[found.run] /\ found.run # old.run
  BY <1>0, <1>1, Waiting
<1>3. CASE /\ \E to \in {"WAITING_USER_CONFIRMATION", "BLOCKED_BY_POLICY", "BLOCKED_BY_MARKET_SESSION"} :
                GoesOn(w, old, <<to>>)
           /\ UNCHANGED ledger
  BY <1>0, <1>1, <1>3, StopsKeeps
<1>4. CASE GoesOn(w, old, <<"BLOCKED_BY_BUDGET">>) /\ UNCHANGED ledger
  BY <1>0, <1>1, <1>4, StopsKeeps
<1>5. CASE /\ withinBudget(old.ledger, old.amount)
           /\ ledger' = reserveBudget(old.ledger, old.run, old.amount)
           /\ GoesOn(w, old, <<"AUTHORIZATION_CHECKING", "AUTHORIZE">>)
  <2> DEFINE script == <<"AUTHORIZATION_CHECKING", "AUTHORIZE">>
             new == [old EXCEPT !.script = script]
             r == old.run
             n == old.amount
  <2>1. "READ_LEDGER" \notin Ahead(old.script)
    BY <1>2 DEF Misplaced, Writing
  <2>2. old.ledger = ledger /\ ledger[r] = NoEntry /\ Unsent(r) /\ old.sent = NoTx /\ n \in Amounts
    BY <1>2, <2>1 DEF InStep, Writing
  <2>3. /\ ledger \in Ledger
        /\ ledger' = [ledger EXCEPT ![r] = [state |-> "RESERVED", amount |-> n]]
        /\ ledger' \in Ledger /\ committed(ledger') = committed(ledger) \cup {r}
        /\ spent(ledger') = spent(ledger) + n
    BY <1>2, <1>5, <2>2, ReserveSpends DEF Kept, DataTypes
  <2>4. /\ ledger'[r] = [state |-> "RESERVED", amount |-> n]
        /\ \A x \in Runs : x # r => ledger'[x] = ledger[x]
    BY <1>2, <2>3 DEF Ledger
  <2>5. DataTypes'
    BY <1>1, <2>3 DEF Kept, DataTypes, env
  <2>6. WithinCap'
    BY <1>5, <2>2, <2>3 DEF WithinCap, withinBudget
  <2>7. Booked'
    <3>1. \A t \in DOMAIN txs : txs[t].run \in Runs /\ txs[t].run # r
      BY <2>2, TxTypes DEF Kept, Unsent
    <3>2. (\A t, u \in DOMAIN txs : txs[t].run = txs[u].run => t = u)'
      BY <1>1 DEF Kept, Booked
    <3>6. (\A t \in DOMAIN txs : /\ store[txs[t].run] # Absent
                                 /\ txs[t].amount = ledger[txs[t].run].amount
                                 /\ MayHaveEffect(t) => txs[t].run \in committed(ledger))'
      <4> SUFFICES ASSUME NEW t \in DOMAIN txs
                   PROVE  /\ store[txs[t].run] # Absent
                          /\ txs[t].amount = ledger'[txs[t].run].amount
                          /\ MayHaveEffect(t) => txs[t].run \in committed(ledger')
        BY <1>1 DEF MayHaveEffect, transactionOutcome
      <4>1. /\ store[txs[t].run] # Absent
            /\ txs[t].amount = ledger[txs[t].run].amount
            /\ MayHaveEffect(t) => txs[t].run \in committed(ledger)
        BY DEF Kept, Booked
      <4>2. ledger'[txs[t].run] = ledger[txs[t].run]
        BY <2>4, <3>1
      <4>. QED
        BY <2>3, <4>1, <4>2
    <3>3. ~IsTxOf(store[r].tx, r)
      BY <3>1 DEF IsTxOf
    <3>4. store[r].state \notin Sent
      BY <1>2, <3>3 DEF Kept, Booked
    <3>5. (\A x \in Runs : /\ IF store[x].state \in Sent THEN IsTxOf(store[x].tx, x) ELSE store[x].tx = NoTx
                           /\ store[x] = Absent => ledger[x] = NoEntry
                           /\ store[x].state \in {"RECONCILED", "COMPLETE"} => SettledBy(x, store[x].tx))'
      BY <1>1, <1>2, <2>4, <3>4 DEF Kept, Booked, IsTxOf, SettledBy, transactionOutcome, Sent
    <3>. QED
      BY <3>2, <3>5, <3>6 DEF Booked
  <2>8. script \in Script /\ Ahead(script) = {"AUTHORIZATION_CHECKING", "AUTHORIZE"}
    BY ScriptTwo DEF Word, Awaits, RunStates, RunResumableStates, Misplaced, Writing, Settling
  <2>9. /\ new.run = r /\ new.sent = old.sent /\ new.record = old.record /\ new.amount = n
        /\ new.writing = old.writing /\ new.script = script
    BY <1>2 DEF Call
  <2>10. Unsent(r)'
    BY <1>1, <2>2 DEF Unsent
  <2>11. worker \in [Workers -> Call] /\ GoesOn(w, old, script)
    BY <1>5 DEF Kept
  <2> HIDE DEF script, new
  <2>12. InStep(new)'
    BY <1>1, <1>2, <2>2, <2>4, <2>8, <2>9, <2>10 DEF InStep, Settling, Writing
  <2>. QED
    BY <1>1, <1>2, <2>5, <2>6, <2>7, <2>8, <2>11, <2>12, Keeps DEF new
<1>. QED
  BY <1>0, <1>3, <1>4, <1>5 DEF ValidatePlan

\* A refusal leads to the release of the budget, a consent to one sending.
LEMMA CheckAuthorizationKeeps ==
  ASSUME Serial, Kept, NEW w \in Workers, CheckAuthorization(w)
  PROVE  Kept'
<1>0. PICK old \in Call : old = worker[w]
  BY DEF Kept
<1>1. Waits(w, "AUTHORIZE") /\ UNCHANGED <<store, ledger, txs, env, crashes>> /\ "AUTHORIZE" \in Awaits
  BY DEF CheckAuthorization, Awaits
<1>2. /\ InStep(old) /\ old.run \in Runs /\ ~old.writing /\ old.record = store[old.run]
      /\ store[old.run] # Absent /\ "AUTHORIZE" \in Ahead(old.script)
      /\ \A found \in old.backlog : found.record = store[found.run] /\ found.run # old.run
  BY <1>0, <1>1, Waiting
<1>3. /\ Unsent(old.run) /\ old.sent = NoTx /\ old.amount \in Amounts
      /\ ledger[old.run] = [state |-> "RESERVED", amount |-> old.amount]
  BY <1>2 DEF InStep
<1>4. CASE \E to \in {"BLOCKED_BY_RISK_EPOCH", "BLOCKED_BY_MANDATE"} :
             GoesOn(w, old, <<"READ_LEDGER", "RELEASE", to>>)
  <2>1. PICK to \in {"BLOCKED_BY_RISK_EPOCH", "BLOCKED_BY_MANDATE"} :
               GoesOn(w, old, <<"READ_LEDGER", "RELEASE", to>>)
    BY <1>4
  <2> DEFINE script == <<"READ_LEDGER", "RELEASE", to>>
             new == [old EXCEPT !.script = script]
  <2>2. script \in Script /\ Ahead(script) = {"READ_LEDGER", "RELEASE", to}
    BY ScriptThree DEF Word, Awaits, RunStates, RunTerminalStates, Blocked, Misplaced, Writing, Settling
  <2>3. /\ new.run = old.run /\ new.sent = old.sent /\ new.record = old.record /\ new.amount = old.amount
        /\ new.writing = old.writing /\ new.script = script
    BY DEF Call
  <2>4. GoesOn(w, old, script)
    BY <2>1
  <2> HIDE DEF script, new
  <2>5. InStep(new)
    BY <1>2, <1>3, <2>2, <2>3 DEF InStep, Settling, Writing
  <2>. QED
    BY <1>1, <1>2, <2>2, <2>4, <2>5, KeepsCall DEF new
<1>5. CASE GoesOn(w, old, <<"AUTHORIZED", "SUBMITTING", "EXECUTE">>)
  <2> DEFINE script == <<"AUTHORIZED", "SUBMITTING", "EXECUTE">>
             new == [old EXCEPT !.script = script]
  <2>2. script \in Script /\ Ahead(script) = {"AUTHORIZED", "SUBMITTING", "EXECUTE"}
    BY ScriptThree DEF Word, Awaits, RunStates, RunResumableStates, Misplaced, Writing, Settling
  <2>3. /\ new.run = old.run /\ new.sent = old.sent /\ new.record = old.record /\ new.amount = old.amount
        /\ new.writing = old.writing /\ new.script = script
    BY DEF Call
  <2>4. GoesOn(w, old, script)
    BY <1>5
  <2> HIDE DEF script, new
  <2>5. InStep(new)
    BY <1>2, <1>3, <2>2, <2>3 DEF InStep, Settling, Writing
  <2>. QED
    BY <1>1, <1>2, <2>2, <2>4, <2>5, KeepsCall DEF new
<1>. QED
  BY <1>0, <1>4, <1>5 DEF CheckAuthorization

\* Nothing that is recorded or reserved is disturbed when a transaction is sent for a run that
\* has none.
LEMMA ExecuteKeeps ==
  ASSUME Serial, Kept, NEW w \in Workers, Execute(w)
  PROVE  Kept'
<1>0. PICK old \in Call : old = worker[w]
  BY DEF Kept
<1>1. Waits(w, "EXECUTE") /\ UNCHANGED <<store, ledger, env, crashes>> /\ "EXECUTE" \in Awaits
  BY DEF Execute, Awaits
<1>2. /\ InStep(old) /\ old.run \in Runs /\ ~old.writing /\ old.record = store[old.run]
      /\ store[old.run] # Absent /\ "EXECUTE" \in Ahead(old.script)
      /\ \A found \in old.backlog : found.record = store[found.run] /\ found.run # old.run
  BY <1>0, <1>1, Waiting
<1>3. CASE Throws(w) /\ UNCHANGED txs
  BY <1>1, <1>3, ThrowsKeeps
<1>4. CASE /\ txs' = Append(txs, [run |-> old.run, amount |-> old.amount, outcome |-> "pending"])
           /\ GoesOn(w, [old EXCEPT !.sent = Len(txs) + 1], <<"AWAIT_RECEIPT">>)
  <2>1. PICK r \in Runs, n \in Amounts : r = old.run /\ n = old.amount
    BY <1>2 DEF InStep
  <2>2. Unsent(r) /\ ledger[r] = [state |-> "RESERVED", amount |-> n]
    BY <1>2, <2>1 DEF InStep
  <2>3. PICK tx \in Nat : tx = Len(txs) + 1
    BY TxTypes DEF Kept
  <2> DEFINE sent == [run |-> r, amount |-> n, outcome |-> "pending"]
             S == [run : Runs, amount : Amounts, outcome : Outcomes]
  <2>4. sent \in S /\ txs \in Seq(S) /\ sent.run = r /\ sent.amount = n /\ sent.outcome = "pending"
    BY DEF Outcomes, Kept, DataTypes
  <2>5. txs' = Append(txs, sent)
    BY <1>4, <2>1
  <2> HIDE DEF sent, S
  <2>6. /\ txs' \in Seq(S) /\ DOMAIN txs' = DOMAIN txs \cup {tx} /\ tx \notin DOMAIN txs /\ tx # 0
        /\ txs'[tx] = sent /\ \A t \in DOMAIN txs : txs'[t] = txs[t]
    BY <2>3, <2>4, <2>5
  <2>7. DataTypes'
    BY <1>1, <2>6 DEF Kept, DataTypes, env, S
  <2>8. WithinCap'
    BY <1>1 DEF Kept, WithinCap
  <2>9. \A t \in DOMAIN txs : txs[t].run # r
    BY <2>2 DEF Unsent
  <2>10. Booked'
    <3>1. (\A t, u \in DOMAIN txs : txs[t].run = txs[u].run => t = u)'
      BY <2>4, <2>6, <2>9 DEF Kept, Booked
    <3>2. (\A t \in DOMAIN txs : /\ store[txs[t].run] # Absent
                                 /\ txs[t].amount = ledger[txs[t].run].amount
                                 /\ MayHaveEffect(t) => txs[t].run \in committed(ledger))'
      <4>1. r \in committed(ledger) /\ ledger[r].amount = n
        BY <2>2 DEF committed
      <4>2. ASSUME NEW t \in DOMAIN txs
            PROVE  (/\ store[txs[t].run] # Absent
                    /\ txs[t].amount = ledger[txs[t].run].amount
                    /\ MayHaveEffect(t) => txs[t].run \in committed(ledger))'
        BY <1>1, <2>6 DEF Kept, Booked, MayHaveEffect, transactionOutcome
      <4>3. (/\ store[txs[tx].run] # Absent
             /\ txs[tx].amount = ledger[txs[tx].run].amount
             /\ MayHaveEffect(tx) => txs[tx].run \in committed(ledger))'
        BY <1>1, <1>2, <2>1, <2>4, <2>6, <4>1
      <4>. QED
        BY <2>6, <4>2, <4>3
    <3>3. (\A x \in Runs : /\ IF store[x].state \in Sent THEN IsTxOf(store[x].tx, x) ELSE store[x].tx = NoTx
                           /\ store[x] = Absent => ledger[x] = NoEntry
                           /\ store[x].state \in {"RECONCILED", "COMPLETE"} => SettledBy(x, store[x].tx))'
      BY <1>1, <2>6 DEF Kept, Booked, IsTxOf, SettledBy, transactionOutcome
    <3>. QED
      BY <3>1, <3>2, <3>3 DEF Booked
  <2> DEFINE script == <<"AWAIT_RECEIPT">>
             call == [old EXCEPT !.sent = tx]
             new == [call EXCEPT !.script = script]
  <2>11. script \in Script /\ Ahead(script) = {"AWAIT_RECEIPT"} /\ script # <<>>
    BY ScriptOne DEF Word, Awaits
  <2>12. /\ new.run = r /\ new.sent = tx /\ new.record = old.record /\ new.writing = old.writing
         /\ new.script = script /\ call \in Call /\ call.run = r /\ call.backlog = old.backlog
    BY <2>1 DEF Call
  <2>13. GoesOn(w, call, script) /\ worker \in [Workers -> Call]
    BY <1>4, <2>3 DEF Kept
  <2>14. IsTxOf(tx, r)'
    BY <2>4, <2>6 DEF IsTxOf
  <2> HIDE DEF script, new, call
  <2>15. InStep(new)'
    BY <1>1, <1>2, <2>1, <2>11, <2>12, <2>14 DEF InStep, Settling, Writing
  <2>. QED
    BY <1>1, <1>2, <2>1, <2>7, <2>8, <2>10, <2>11, <2>12, <2>13, <2>15, Keeps DEF new
<1>. QED
  BY <1>0, <1>3, <1>4 DEF Execute

\* The awaits after the chain has answered, as words.
LEMMA AfterAnswer ==
  /\ AfterSuccess \in Script
  /\ Ahead(AfterSuccess) = {"READ_LEDGER", "CONFIRM", "FILLED", "RECONCILING", "RECONCILED", "COMPLETE"}
  /\ AfterRevert \in Script
  /\ Ahead(AfterRevert) = {"READ_LEDGER", "RELEASE", "RECONCILING", "RECONCILED", "COMPLETE"}
<1> USE DEF Word, Awaits, RunStates, RunTerminalStates, RunResumableStates, Misplaced, Writing, Settling
<1> DEFINE a == <<"READ_LEDGER", "CONFIRM", "FILLED">>
           b == <<"RECONCILING", "RECONCILED", "COMPLETE">>
           c == <<"READ_LEDGER", "RELEASE">>
<1>1. a \in Script /\ Ahead(a) = {"READ_LEDGER", "CONFIRM", "FILLED"}
  BY ScriptThree
<1>2. b \in Script /\ Ahead(b) = {"RECONCILING", "RECONCILED", "COMPLETE"}
  BY ScriptThree
<1>3. c \in Script /\ Ahead(c) = {"READ_LEDGER", "RELEASE"}
  BY ScriptTwo
<1>4. AfterSuccess = a \o b /\ AfterRevert = c \o b
  BY DEF AfterSuccess, AfterRevert
<1> HIDE DEF a, b, c
<1>5. /\ \A x \in Ahead(a), y \in Ahead(b) : ~Misplaced(x, y)
      /\ \A x \in Ahead(c), y \in Ahead(b) : ~Misplaced(x, y)
  BY <1>1, <1>2, <1>3
<1>6. a \o b \in Script /\ Ahead(a \o b) = Ahead(a) \cup Ahead(b)
  BY <1>1, <1>2, <1>5, ScriptJoin
<1>7. c \o b \in Script /\ Ahead(c \o b) = Ahead(c) \cup Ahead(b)
  BY <1>3, <1>2, <1>5, ScriptJoin
<1>. QED
  BY <1>1, <1>2, <1>3, <1>4, <1>6, <1>7

\* The three scripts after a transaction was sent: what is ahead of them.
LEMMA AfterReceipt ==
  /\ <<"SUBMITTED">> \o AfterSuccess \in Script
  /\ Ahead(<<"SUBMITTED">> \o AfterSuccess) = {"SUBMITTED"} \cup Ahead(AfterSuccess)
  /\ <<"SUBMITTED", "EXECUTION_UNKNOWN">> \o AfterRevert \in Script
  /\ Ahead(<<"SUBMITTED", "EXECUTION_UNKNOWN">> \o AfterRevert)
       = {"SUBMITTED", "EXECUTION_UNKNOWN"} \cup Ahead(AfterRevert)
  /\ <<"SUBMITTED", "EXECUTION_UNKNOWN">> \o AfterUnknown \in Script
  /\ Ahead(<<"SUBMITTED", "EXECUTION_UNKNOWN">> \o AfterUnknown) = {"SUBMITTED", "EXECUTION_UNKNOWN"}
<1> DEFINE a == <<"SUBMITTED">>
           b == <<"SUBMITTED", "EXECUTION_UNKNOWN">>
<1>1. a \in Script /\ Ahead(a) = {"SUBMITTED"}
  BY ScriptOne DEF Word, RunStates, RunResumableStates
<1>2. b \in Script /\ Ahead(b) = {"SUBMITTED", "EXECUTION_UNKNOWN"}
  BY ScriptTwo DEF Word, RunStates, RunResumableStates, Misplaced, Writing, Settling
<1> HIDE DEF a, b
<1>3. \A x \in {"SUBMITTED", "EXECUTION_UNKNOWN"}, y \in Ahead(AfterSuccess) \cup Ahead(AfterRevert) :
        ~Misplaced(x, y)
  BY AfterAnswer DEF Misplaced, Writing, Settling
<1>4. a \o AfterSuccess \in Script /\ Ahead(a \o AfterSuccess) = Ahead(a) \cup Ahead(AfterSuccess)
  BY <1>1, <1>3, AfterAnswer, ScriptJoin
<1>5. b \o AfterRevert \in Script /\ Ahead(b \o AfterRevert) = Ahead(b) \cup Ahead(AfterRevert)
  BY <1>2, <1>3, AfterAnswer, ScriptJoin
<1>6. b \o AfterUnknown \in Script /\ Ahead(b \o AfterUnknown) = Ahead(b) \cup Ahead(AfterUnknown)
  BY <1>2, ScriptEmpty, ScriptJoin DEF AfterUnknown
<1>. QED
  BY <1>1, <1>2, <1>4, <1>5, <1>6, ScriptEmpty DEF a, b, AfterUnknown

\* Only a success or a revert leads to the budget; not knowing leads nowhere.
LEMMA AwaitReceiptKeeps ==
  ASSUME Serial, Kept, NEW w \in Workers, AwaitReceipt(w)
  PROVE  Kept'
<1>0. PICK old \in Call : old = worker[w]
  BY DEF Kept
<1>1. Waits(w, "AWAIT_RECEIPT") /\ UNCHANGED <<store, ledger, txs, env, crashes>> /\ "AWAIT_RECEIPT" \in Awaits
  BY DEF AwaitReceipt, Awaits
<1>2. /\ InStep(old) /\ old.run \in Runs /\ ~old.writing /\ old.record = store[old.run]
      /\ store[old.run] # Absent /\ "AWAIT_RECEIPT" \in Ahead(old.script)
      /\ \A found \in old.backlog : found.record = store[found.run] /\ found.run # old.run
  BY <1>0, <1>1, Waiting
<1>3. IsTxOf(old.sent, old.run) /\ old.sent # NoTx
  BY <1>2, TxTypes DEF InStep, IsTxOf, Kept
<1>4. txOf(old) = old.sent
  BY <1>3 DEF txOf
<1>5. ASSUME NEW script \in Script, GoesOn(w, old, script),
             Ahead(script) \cap {"GATE", "SNAPSHOT", "COMPILE", "VALIDATE", "AUTHORIZE", "EXECUTE",
                                 "BLOCKED_BY_VENUE"} = {},
             Ahead(script) \cap Settling # {} => "READ_LEDGER" \in Ahead(script),
             "CONFIRM" \in Ahead(script) => transactionOutcome(old.sent) = "success",
             "RELEASE" \in Ahead(script) => transactionOutcome(old.sent) = "reverted",
             Ahead(script) \cap {"RECONCILED", "COMPLETE"} # {} => Ahead(script) \cap Settling # {}
      PROVE  Kept'
  <2> DEFINE new == [old EXCEPT !.script = script]
  <2>1. /\ new.run = old.run /\ new.sent = old.sent /\ new.record = old.record /\ new.amount = old.amount
        /\ new.writing = old.writing /\ new.script = script /\ new.ledger = old.ledger
    BY DEF Call
  <2>2. txOf(new) = old.sent
    BY <1>4, <2>1 DEF txOf
  <2> HIDE DEF new
  <2>3. InStep(new)
    BY <1>2, <1>3, <1>5, <2>1, <2>2 DEF InStep, Writing
  <2>. QED
    BY <1>1, <1>2, <1>5, <2>3, KeepsCall DEF new
<1>6. CASE /\ transactionOutcome(old.sent) = "success"
           /\ GoesOn(w, old, <<"SUBMITTED">> \o AfterSuccess)
  <2> DEFINE script == <<"SUBMITTED">> \o AfterSuccess
  <2>1. /\ script \in Script /\ GoesOn(w, old, script)
        /\ Ahead(script) = {"SUBMITTED", "READ_LEDGER", "CONFIRM", "FILLED", "RECONCILING", "RECONCILED",
                            "COMPLETE"}
    BY <1>6, AfterAnswer, AfterReceipt
  <2> HIDE DEF script
  <2>. QED
    BY <1>5, <1>6, <2>1 DEF Settling
<1>7. CASE /\ transactionOutcome(old.sent) = "reverted"
           /\ GoesOn(w, old, <<"SUBMITTED", "EXECUTION_UNKNOWN">> \o AfterRevert)
  <2> DEFINE script == <<"SUBMITTED", "EXECUTION_UNKNOWN">> \o AfterRevert
  <2>1. /\ script \in Script /\ GoesOn(w, old, script)
        /\ Ahead(script) = {"SUBMITTED", "EXECUTION_UNKNOWN", "READ_LEDGER", "RELEASE", "RECONCILING",
                            "RECONCILED", "COMPLETE"}
    BY <1>7, AfterAnswer, AfterReceipt
  <2> HIDE DEF script
  <2>. QED
    BY <1>5, <1>7, <2>1 DEF Settling
<1>8. CASE GoesOn(w, old, <<"SUBMITTED", "EXECUTION_UNKNOWN">> \o AfterUnknown)
  <2> DEFINE script == <<"SUBMITTED", "EXECUTION_UNKNOWN">> \o AfterUnknown
  <2>1. /\ script \in Script /\ GoesOn(w, old, script)
        /\ Ahead(script) = {"SUBMITTED", "EXECUTION_UNKNOWN"}
    BY <1>8, AfterReceipt
  <2> HIDE DEF script
  <2>. QED
    BY <1>5, <2>1 DEF Settling
<1>9. CASE Throws(w)
  BY <1>1, <1>9, ThrowsKeeps
<1>. QED
  BY <1>0, <1>6, <1>7, <1>8, <1>9 DEF AwaitReceipt

\* What one settled entry changes: nothing that was spent before is forgotten, and what is
\* released is not spent any more.
LEMMA SettleSpends ==
  ASSUME NEW l \in Ledger, NEW r \in Runs, NEW to \in {"CONFIRMED", "RELEASED"},
         l[r].state \in {"RESERVED", to}, NEW m, m = [l EXCEPT ![r].state = to]
  PROVE  /\ m \in Ledger /\ m[r].state = to /\ \A x \in Runs : m[x].amount = l[x].amount
         /\ \A x \in Runs : x # r => m[x] = l[x]
         /\ committed(m) = IF to = "CONFIRMED" THEN committed(l) ELSE committed(l) \ {r}
         /\ spent(m) \in Int /\ spent(l) \in Int /\ spent(m) <= spent(l)
<1> DEFINE f == [x \in Runs |-> l[x].amount]
           g == [x \in Runs |-> m[x].amount]
<1>1. l[r] \in [state : {"RESERVED", "CONFIRMED", "RELEASED"}, amount : Amounts]
  BY DEF Ledger, Entry, NoEntry
<1>2. m[r] = [l[r] EXCEPT !.state = to] /\ \A x \in Runs : x # r => m[x] = l[x]
  BY DEF Ledger
<1>3. m[r] \in Entry /\ m[r].state = to /\ m[r].amount = l[r].amount
  BY <1>1, <1>2 DEF Entry
<1>4. m \in Ledger
  BY <1>2, <1>3 DEF Ledger
<1>5. \A x \in Runs : m[x].amount = l[x].amount
  BY <1>2, <1>3
<1>6. committed(m) = IF to = "CONFIRMED" THEN committed(l) ELSE committed(l) \ {r}
  BY <1>2, <1>3 DEF committed
<1>7. g = f
  BY <1>5
<1>8. committed(l) \in SUBSET Runs /\ committed(m) \in SUBSET Runs
  BY DEF committed
<1>9. IsFiniteSet(committed(m)) /\ IsFiniteSet(committed(l))
  BY <1>8, FS_Subset, BudgetConstants
<1>10. \A x \in Runs : f[x] \in Nat /\ f[x] \in Int
  <2>1. \A e \in Entry : e.amount \in Amounts \cup {0}
    BY DEF Entry, NoEntry
  <2>2. \A a \in Amounts \cup {0} : a \in Nat
    BY BudgetConstants
  <2>. QED
    BY <2>1, <2>2 DEF Ledger
<1>11. spent(l) = SumFunctionOnSet(f, committed(l)) /\ spent(m) = SumFunctionOnSet(f, committed(m))
  BY <1>7, Zenon DEF spent, SumFunctionOnSet
<1> HIDE DEF f, g
<1>12. SumFunctionOnSet(f, committed(l)) \in Int /\ SumFunctionOnSet(f, committed(m)) \in Int
  BY <1>8, <1>9, <1>10, SumFirst
<1>13. r \in committed(l) => SumFunctionOnSet(f, committed(l))
                               = f[r] + SumFunctionOnSet(f, committed(l) \ {r})
  BY <1>8, <1>9, <1>10, SumRemove
<1>14. committed(m) = committed(l) \/ (r \in committed(l) /\ committed(m) = committed(l) \ {r})
  BY <1>6
<1>15. SumFunctionOnSet(f, committed(m)) <= SumFunctionOnSet(f, committed(l))
  <2>1. CASE committed(m) = committed(l)
    BY <1>12, <2>1
  <2>2. CASE r \in committed(l) /\ committed(m) = committed(l) \ {r}
    <3>1. SumFunctionOnSet(f, committed(l)) = f[r] + SumFunctionOnSet(f, committed(m))
      BY <1>13, <2>2
    <3>2. f[r] \in Nat
      BY <1>10
    <3>. QED
      BY <1>12, <3>1, <3>2
  <2>. QED
    BY <1>14, <2>1, <2>2
<1>. QED
  BY <1>2, <1>3, <1>4, <1>5, <1>6, <1>11, <1>12, <1>15

\* An entry is confirmed or released as the chain says, and the call goes on.
LEMMA SettleKeeps ==
  ASSUME Serial, Kept, NEW w \in Workers, NEW old \in Call, old = worker[w],
         NEW await \in Settling, Waits(w, await), UNCHANGED <<store, txs, env, crashes>>,
         NEW to, to = IF await = "CONFIRM" THEN "CONFIRMED" ELSE "RELEASED",
         old.ledger = ledger => ledger[old.run].state \in {"RESERVED", to},
         old.ledger = ledger => ledger' = [ledger EXCEPT ![old.run].state = to],
         GoesOn(w, old, Tail(old.script))
  PROVE  Kept'
<1>1. await \in Awaits /\ await \in Writing
  BY DEF Settling, Awaits, Writing
<1>2. /\ InStep(old) /\ old.run \in Runs /\ ~old.writing /\ old.record = store[old.run]
      /\ store[old.run] # Absent /\ await \in Ahead(old.script) /\ old.script # <<>>
      /\ Ahead(old.script) = {await} \cup Ahead(Tail(old.script))
      /\ \A b \in Ahead(Tail(old.script)) : ~Misplaced(await, b)
      /\ \A found \in old.backlog : found.record = store[found.run] /\ found.run # old.run
  BY <1>1, Waiting
<1>3. /\ Ahead(Tail(old.script)) \cap (Writing \cup {"READ_LEDGER"}) = {}
      /\ "READ_LEDGER" \notin Ahead(old.script)
  BY <1>1, <1>2 DEF Misplaced, Settling
<1>4. old.ledger = ledger
  BY <1>1, <1>2, <1>3 DEF InStep
<1> DEFINE r == old.run
           outcome == IF to = "CONFIRMED" THEN "success" ELSE "reverted"
<1>5. /\ ledger \in Ledger
      /\ \/ await = "CONFIRM" /\ to = "CONFIRMED" /\ outcome = "success"
         \/ await = "RELEASE" /\ to = "RELEASED" /\ outcome = "reverted"
  <2>1. ledger \in Ledger
    BY DEF Kept, DataTypes
  <2>2. await \in {"CONFIRM", "RELEASE"}
    BY DEF Settling
  <2>3. CASE await = "CONFIRM"
    BY <2>1, <2>3
  <2>4. CASE await = "RELEASE"
    BY <2>1, <2>4
  <2>. QED
    BY <2>2, <2>3, <2>4
<1>6. /\ ledger' \in Ledger /\ ledger'[r].state = to /\ \A x \in Runs : ledger'[x].amount = ledger[x].amount
      /\ \A x \in Runs : x # r => ledger'[x] = ledger[x]
      /\ committed(ledger') = IF to = "CONFIRMED" THEN committed(ledger) ELSE committed(ledger) \ {r}
      /\ spent(ledger') \in Int /\ spent(ledger) \in Int /\ spent(ledger') <= spent(ledger)
  BY <1>2, <1>4, <1>5, SettleSpends
<1>7. \A t \in DOMAIN txs : txs[t].run = r => transactionOutcome(t) = outcome
  <2>1. Unsent(r) \/ (IsTxOf(txOf(old), r) /\ transactionOutcome(txOf(old)) = outcome)
    BY <1>2, <1>5 DEF InStep
  <2>. QED
    BY <2>1 DEF Unsent, IsTxOf, Kept, Booked
<1>8. DataTypes'
  BY <1>6 DEF Kept, DataTypes, env
<1>9. WithinCap'
  BY <1>6, BudgetConstants DEF Kept, WithinCap
<1>10. Booked'
  <2>1. (\A t, u \in DOMAIN txs : txs[t].run = txs[u].run => t = u)'
    BY DEF Kept, Booked
  <2>2. (\A t \in DOMAIN txs : /\ store[txs[t].run] # Absent
                               /\ txs[t].amount = ledger[txs[t].run].amount
                               /\ MayHaveEffect(t) => txs[t].run \in committed(ledger))'
    <3> SUFFICES ASSUME NEW t \in DOMAIN txs
                 PROVE  /\ store[txs[t].run] # Absent
                        /\ txs[t].amount = ledger'[txs[t].run].amount
                        /\ MayHaveEffect(t) => txs[t].run \in committed(ledger')
      BY DEF MayHaveEffect, transactionOutcome
    <3>1. /\ store[txs[t].run] # Absent
          /\ txs[t].amount = ledger[txs[t].run].amount
          /\ MayHaveEffect(t) => txs[t].run \in committed(ledger)
      BY DEF Kept, Booked
    <3>2. txs[t].run \in Runs
      BY TxTypes DEF Kept
    <3>3. txs[t].run = r /\ MayHaveEffect(t) => to = "CONFIRMED"
      BY <1>5, <1>7 DEF MayHaveEffect
    <3>. QED
      BY <1>6, <3>1, <3>2, <3>3
  <2>3. (\A x \in Runs : /\ IF store[x].state \in Sent THEN IsTxOf(store[x].tx, x) ELSE store[x].tx = NoTx
                         /\ store[x] = Absent => ledger[x] = NoEntry)'
    BY <1>2, <1>6 DEF Kept, Booked, IsTxOf
  <2>4. (\A x \in Runs : store[x].state \in {"RECONCILED", "COMPLETE"} => SettledBy(x, store[x].tx))'
    <3> SUFFICES ASSUME NEW x \in Runs, store[x].state \in {"RECONCILED", "COMPLETE"}
                 PROVE  SettledBy(x, store[x].tx)'
      OBVIOUS
    <3>1. SettledBy(x, store[x].tx)
      BY DEF Kept, Booked
    <3>2. CASE x = r
      BY <1>5, <1>6, <1>7, <3>1, <3>2 DEF SettledBy, IsTxOf, transactionOutcome
    <3>3. CASE x # r
      BY <1>6, <3>1, <3>3 DEF SettledBy, IsTxOf, transactionOutcome
    <3>. QED
      BY <3>2, <3>3
  <2>. QED
    BY <2>1, <2>2, <2>3, <2>4 DEF Booked
<1> DEFINE script == Tail(old.script)
           new == [old EXCEPT !.script = script]
<1>11. old.script \in Script /\ script \in Script /\ worker \in [Workers -> Call] /\ GoesOn(w, old, script)
  BY <1>2, ScriptTail DEF Call, Kept
<1>12. Ahead(script) \subseteq Ahead(old.script)
  BY <1>2
<1>13. /\ new.run = r /\ new.sent = old.sent /\ new.record = old.record /\ new.amount = old.amount
       /\ new.writing = old.writing /\ new.script = script
  BY DEF Call
<1>14. txOf(new) = txOf(old)
  BY <1>13 DEF txOf
<1>15. Ahead(script) \cap {"RECONCILED", "COMPLETE"} # {} => SettledBy(r, txOf(old))'
  <2>1. Ahead(script) \cap {"RECONCILED", "COMPLETE"} # {} => IsTxOf(txOf(old), r)
    BY <1>2, <1>12 DEF InStep
  <2>. QED
    BY <1>5, <1>6, <1>7, <2>1 DEF SettledBy, IsTxOf, transactionOutcome
<1>16. Ahead(script) \cap {"VALIDATE", "CONFIRM", "RELEASE"} = {}
  BY <1>3 DEF Writing, Settling
<1>17. Ahead(script) \cap {"GATE", "SNAPSHOT", "COMPILE", "AUTHORIZE", "EXECUTE"} = {}
  BY <1>2 DEF Misplaced, Awaits
<1> HIDE DEF script, new
<1>18. InStep(new)'
  BY <1>2, <1>12, <1>13, <1>14, <1>15, <1>16, <1>17 DEF InStep, Unsent, IsTxOf, Writing, Settling
<1>. QED
  BY <1>2, <1>8, <1>9, <1>10, <1>11, <1>18, Keeps DEF new

\* Confirming spends the reserved budget of a run that succeeded.
LEMMA ConfirmBudgetKeeps ==
  ASSUME Serial, Kept, NEW w \in Workers, ConfirmBudget(w)
  PROVE  Kept'
<1>0. PICK old \in Call : old = worker[w]
  BY DEF Kept
<1>1. Waits(w, "CONFIRM") /\ UNCHANGED <<store, txs, env, crashes>> /\ "CONFIRM" \in Settling
  BY DEF ConfirmBudget, Settling
<1>2. CASE canConfirm(old.ledger, old.run)
  <2>1. /\ ledger' = [old.ledger EXCEPT ![old.run].state = "CONFIRMED"]
        /\ GoesOn(w, old, Tail(old.script))
    BY <1>0, <1>2 DEF ConfirmBudget, confirmBudget, Returns
  <2>. QED
    BY <1>0, <1>1, <1>2, <2>1, SettleKeeps DEF canConfirm
<1>3. CASE ~canConfirm(old.ledger, old.run)
  BY <1>0, <1>1, <1>3, ThrowsKeeps DEF ConfirmBudget
<1>. QED
  BY <1>2, <1>3

\* Releasing gives back the budget of a run nothing of which can land.
LEMMA ReleaseBudgetKeeps ==
  ASSUME Serial, Kept, NEW w \in Workers, ReleaseBudget(w)
  PROVE  Kept'
<1>0. PICK old \in Call : old = worker[w]
  BY DEF Kept
<1>1. Waits(w, "RELEASE") /\ UNCHANGED <<store, txs, env, crashes>> /\ "RELEASE" \in Settling
  BY DEF ReleaseBudget, Settling
<1>2. CASE canRelease(old.ledger, old.run)
  <2>1. /\ ledger' = [old.ledger EXCEPT ![old.run].state = "RELEASED"]
        /\ GoesOn(w, old, Tail(old.script))
    BY <1>0, <1>2 DEF ReleaseBudget, releaseBudget, Returns
  <2>. QED
    BY <1>0, <1>1, <1>2, <2>1, SettleKeeps DEF canRelease
<1>3. CASE ~canRelease(old.ledger, old.run)
  BY <1>0, <1>1, <1>3, ThrowsKeeps DEF ReleaseBudget
<1>. QED
  BY <1>2, <1>3

\* Along its transitions a run that named its transaction goes on naming it, and only a
\* SUBMITTED record names a new one.
LEMMA SentStaysSent ==
  ASSUME NEW from \in RunStates \cup {"ABSENT"}, NEW to \in RunTransitions(from)
  PROVE  /\ to \in RunStates
         /\ from \in Sent => to \in Sent /\ to # "SUBMITTED"
         /\ to \in Sent /\ to # "SUBMITTED" => from \in Sent
<1> USE DEF RunTransitions, RunStates, RunTerminalStates, RunResumableStates, Blocked, Sent
<1>1. to \in RunStates
  OBVIOUS
<1>2. from \in Sent => to \in Sent /\ to # "SUBMITTED"
  OBVIOUS
<1>3. to \in Sent /\ to # "SUBMITTED" => from \in Sent
  OBVIOUS
<1>. QED
  BY <1>1, <1>2, <1>3

\* The next state is on its way to the record.
LEMMA BeginStepKeeps ==
  ASSUME Serial, Kept, NEW w \in Workers, BeginStep(w)
  PROVE  Kept'
<1>0. PICK old \in Call : old = worker[w]
  BY DEF Kept
<1> DEFINE to == Head(old.script)
           r == old.run
           record == [state |-> to, updatedAt |-> now,
                      tx |-> IF to = "SUBMITTED" THEN old.sent ELSE old.record.tx]
           call == [old EXCEPT !.writing = TRUE, !.record = record]
<1>1. /\ old.script # <<>> /\ old.script \in Script /\ to \in RunStates /\ ~old.writing
      /\ UNCHANGED <<store, ledger, txs, env, crashes>>
  BY <1>0 DEF BeginStep, Free, Call
<1>2. /\ InStep(old) /\ r \in Runs /\ old.record = store[r] /\ to \in Ahead(old.script)
      /\ \A found \in old.backlog : found.record = store[found.run] /\ found.run # r
  BY <1>0, <1>1, ScriptTail DEF Kept, InStepAll, InStep, ListedStays
<1>3. CASE to \in RunTransitions(old.record.state) /\ store[r].updatedAt = old.record.updatedAt
  <2>1. worker' = [worker EXCEPT ![w] = call]
    BY <1>0, <1>3 DEF BeginStep
  <2>2. record \in Record /\ record.state = to
    BY <1>1 DEF Kept, DataTypes, Call, Record, Absent, NoTx
  <2>3. /\ record.tx = IF to = "SUBMITTED" THEN old.sent ELSE old.record.tx
    OBVIOUS
  <2> HIDE DEF record
  <2>4. /\ call \in Call /\ call.script = old.script /\ call.run = r /\ call.record = record
        /\ call.writing = TRUE /\ call.sent = old.sent /\ call.ledger = old.ledger
        /\ call.amount = old.amount /\ call.backlog = old.backlog
        /\ call = [call EXCEPT !.script = old.script]
    BY <2>2 DEF Call
  <2>5. GoesOn(w, call, old.script)
    BY <1>1, <2>1, <2>4 DEF GoesOn, With
  <2>6. to = "SUBMITTED" => IsTxOf(old.sent, r) /\ old.sent # NoTx
    BY <1>2, TxTypes DEF InStep, IsTxOf, Kept
  <2> HIDE DEF call
  <2>7. txOf(call) = txOf(old)
    BY <2>3, <2>4, <2>6 DEF txOf
  <2>8. InStep(call)
    BY <1>1, <1>2, <1>3, <2>2, <2>3, <2>4, <2>7 DEF InStep
  <2>. QED
    BY <1>1, <1>2, <2>4, <2>5, <2>8, KeepsCall
<1>4. CASE Throws(w)
  BY <1>1, <1>4, ThrowsKeeps
<1>. QED
  BY <1>0, <1>3, <1>4 DEF BeginStep

\* The record is written, and the call goes on.
LEMMA EndStepKeeps ==
  ASSUME Serial, Kept, NEW w \in Workers, EndStep(w)
  PROVE  Kept'
<1>0. PICK old \in Call : old = worker[w]
  BY DEF Kept
<1> DEFINE r == old.run
           record == old.record
           to == record.state
           script == Tail(old.script)
           call == [old EXCEPT !.writing = FALSE]
<1>1. /\ old.writing /\ UNCHANGED <<ledger, txs, env, crashes>> /\ old.script # <<>>
      /\ store' = [store EXCEPT ![r] = record]
      /\ old.script \in Script
  BY <1>0 DEF EndStep, Kept, IdleIsIdle, Call
<1>2. /\ InStep(old) /\ r \in Runs
      /\ \A found \in old.backlog : found.record = store[found.run] /\ found.run # r
  BY <1>0, <1>1 DEF Kept, InStepAll, InStep, ListedStays
<1>3. /\ to = Head(old.script) /\ to \in RunTransitions(store[r].state)
      /\ record.tx = IF to = "SUBMITTED" THEN old.sent ELSE store[r].tx
  BY <1>1, <1>2 DEF InStep
<1>4. /\ script \in Script /\ to \in Ahead(old.script)
      /\ Ahead(old.script) = {to} \cup Ahead(script)
      /\ \A b \in Ahead(script) : ~Misplaced(to, b)
      /\ script # <<>> => Head(script) \in Ahead(script)
  BY <1>1, <1>3, ScriptTail
<1>5. store[r] \in Record /\ record \in Record /\ store \in [Runs -> Record]
  BY <1>2 DEF Kept, DataTypes, Call
<1>6. store[r].state \in RunStates \cup {"ABSENT"}
  BY <1>5 DEF Record, Absent
<1>7. /\ to \in RunStates
      /\ store[r].state \in Sent => to \in Sent /\ to # "SUBMITTED"
      /\ to \in Sent /\ to # "SUBMITTED" => store[r].state \in Sent
  BY <1>3, <1>6, SentStaysSent
<1>8. record # Absent
  <2>1. "ABSENT" \notin RunStates
    BY DEF RunStates, RunTerminalStates, RunResumableStates, Blocked
  <2>. QED
    BY <1>7, <2>1 DEF Absent
<1>9. store'[r] = record /\ \A x \in Runs : x # r => store'[x] = store[x]
  BY <1>1, <1>2, <1>5
<1>10. IF to \in Sent THEN IsTxOf(record.tx, r) ELSE record.tx = NoTx
  <2>1. CASE to = "SUBMITTED"
    BY <1>2, <1>3, <1>4, <2>1 DEF InStep, Sent
  <2>2. CASE to # "SUBMITTED"
    BY <1>2, <1>3, <1>7, <2>2 DEF Kept, Booked
  <2>. QED
    BY <2>1, <2>2
<1>11. to \in {"RECONCILED", "COMPLETE"} => SettledBy(r, record.tx)
  <2>1. SUFFICES ASSUME to \in {"RECONCILED", "COMPLETE"}
                 PROVE  SettledBy(r, record.tx)
    OBVIOUS
  <2>2. Ahead(old.script) \cap Settling = {}
    BY <1>4, <2>1 DEF Misplaced, Settling
  <2>3. IsTxOf(txOf(old), r) /\ SettledBy(r, txOf(old))
    BY <1>2, <1>4, <2>1, <2>2 DEF InStep
  <2>4. IsTxOf(record.tx, r)
    BY <1>10, <2>1 DEF Sent
  <2>5. record.tx = txOf(old)
    BY <2>3, <2>4 DEF IsTxOf, Kept, Booked
  <2>. QED
    BY <2>3, <2>5
<1>12. DataTypes'
  BY <1>1, <1>2, <1>5 DEF Kept, DataTypes, env
<1>13. WithinCap'
  BY <1>1 DEF Kept, WithinCap
<1>14. Booked'
  <2>1. (\A t, u \in DOMAIN txs : txs[t].run = txs[u].run => t = u)'
    BY <1>1 DEF Kept, Booked
  <2>2. (\A t \in DOMAIN txs : /\ store[txs[t].run] # Absent
                               /\ txs[t].amount = ledger[txs[t].run].amount
                               /\ MayHaveEffect(t) => txs[t].run \in committed(ledger))'
    BY <1>1, <1>8, <1>9, TxTypes DEF Kept, Booked, MayHaveEffect, transactionOutcome
  <2>3. ASSUME NEW x \in Runs
        PROVE  (/\ IF store[x].state \in Sent THEN IsTxOf(store[x].tx, x) ELSE store[x].tx = NoTx
                /\ store[x] = Absent => ledger[x] = NoEntry
                /\ store[x].state \in {"RECONCILED", "COMPLETE"} => SettledBy(x, store[x].tx))'
    <3>1. CASE x = r
      BY <1>1, <1>8, <1>9, <1>10, <1>11, <3>1 DEF IsTxOf, SettledBy, transactionOutcome
    <3>2. CASE x # r
      BY <1>1, <1>9, <3>2 DEF Kept, Booked, IsTxOf, SettledBy, transactionOutcome
    <3>. QED
      BY <3>1, <3>2
  <2>. QED
    BY <2>1, <2>2, <2>3 DEF Booked
<1> DEFINE new == [call EXCEPT !.script = script]
<1>15. /\ new.run = r /\ new.sent = old.sent /\ new.record = record /\ new.amount = old.amount
       /\ new.writing = FALSE /\ new.script = script /\ new.ledger = old.ledger
       /\ call \in Call /\ call.backlog = old.backlog /\ call.run = r
  BY DEF Call
<1>16. txOf(new) = txOf(old)
  BY <1>15 DEF txOf
<1>17. /\ Ahead(script) \subseteq Ahead(old.script)
       /\ Ahead(script) \cap Settling = Ahead(old.script) \cap Settling
       /\ "READ_LEDGER" \in Ahead(old.script) => "READ_LEDGER" \in Ahead(script)
  <2>1. to \notin Settling \cup {"READ_LEDGER"}
    BY <1>7 DEF RunStates, RunTerminalStates, RunResumableStates, Blocked, Settling
  <2>. QED
    BY <1>4, <2>1
<1>18. GoesOn(w, call, script) /\ worker \in [Workers -> Call]
  BY <1>0, <1>15 DEF EndStep, Returns, Kept
<1> HIDE DEF new, script, call
<1>19. InStep(new)'
  BY <1>1, <1>2, <1>8, <1>9, <1>15, <1>16, <1>17
     DEF InStep, Unsent, IsTxOf, SettledBy, transactionOutcome
<1>20. \A found \in call.backlog : found.record = store'[found.run] /\ found.run # call.run
  <2>1. \A found \in old.backlog : found.run \in Runs
    BY DEF Call
  <2>. QED
    BY <1>2, <1>9, <1>15, <2>1
<1>. QED
  BY <1>4, <1>12, <1>13, <1>14, <1>15, <1>18, <1>19, <1>20, Keeps DEF new, script

\* Recovery lists the runs it may resume.
LEMMA RecoverKeeps ==
  ASSUME Serial, Kept, NEW w \in Workers, Recover(w)
  PROVE  Kept'
<1> DEFINE listed == {[run |-> r, record |-> store[r]] : r \in Resumable}
<1>1. /\ worker[w] \in Call /\ worker[w].script = <<>> /\ worker \in [Workers -> Call]
      /\ worker' = [worker EXCEPT ![w].backlog = listed]
      /\ UNCHANGED <<store, ledger, txs, env, crashes>>
  BY DEF Recover, Free, Kept
<1>2. listed \in SUBSET [run : Runs, record : Record]
  BY DEF Kept, DataTypes, Resumable
<1>3. \A found \in listed : found.record = store[found.run]
  OBVIOUS
<1> HIDE DEF listed
<1>4. /\ worker' \in [Workers -> Call] /\ worker'[w].script = <<>> /\ worker'[w].backlog = listed
      /\ worker'[w].writing = worker[w].writing
  BY <1>1, <1>2 DEF Call
<1>5. \A v \in Workers : v = w
  BY DEF Serial
<1>6. DataTypes' /\ Booked' /\ WithinCap'
  BY <1>1, Rests DEF Kept, DataTypes, env
<1>7. InStepAll' /\ IdleIsIdle'
  BY <1>1, <1>4, <1>5 DEF Kept, InStepAll, IdleIsIdle
<1>8. (\A v \in Workers : ListedStays(worker[v]))'
  BY <1>1, <1>3, <1>4, <1>5 DEF ListedStays
<1>. QED
  BY <1>4, <1>6, <1>7, <1>8 DEF Kept

\* A word said on a condition.
LEMMA WhenWord ==
  ASSUME NEW condition \in BOOLEAN, NEW a \in Word
  PROVE  When(condition, <<a>>) \in Script /\ Ahead(When(condition, <<a>>)) \subseteq {a}
BY ScriptOne, ScriptEmpty DEF When

\* What recover does with a run it found: it settles first, as the chain says, and records after.
LEMMA ReconcileWords ==
  ASSUME NEW state, NEW outcome \in Outcomes
  PROVE  LET script == ReconcileScript(state, outcome)
             settle == IF outcome = "success" THEN "CONFIRM" ELSE "RELEASE"
         IN  /\ script \in Script
             /\ script # <<>> =>
                  /\ outcome # "pending" /\ Head(script) = "READ_LEDGER"
                  /\ {"READ_LEDGER", settle} \subseteq Ahead(script)
                  /\ Ahead(script) \subseteq {"READ_LEDGER", settle, "FILLED", "EXECUTION_UNKNOWN",
                                              "RECONCILING", "RECONCILED", "COMPLETE"}
<1> DEFINE recorded == {"FILLED", "EXECUTION_UNKNOWN", "RECONCILING", "RECONCILED", "COMPLETE"}
           c == <<"READ_LEDGER", "CONFIRM">>
           r == <<"READ_LEDGER", "RELEASE">>
           f == When(state = "SUBMITTED", <<"FILLED">>)
           u == When(state = "SUBMITTED", <<"EXECUTION_UNKNOWN">>)
           g == When(state # "RECONCILING", <<"RECONCILING">>)
           d == <<"RECONCILED", "COMPLETE">>
           e == <<"RECONCILING", "RECONCILED", "COMPLETE">>
<1>1. recorded \subseteq RunStates /\ recorded \cap Awaits = {} /\ recorded \subseteq Word
  BY DEF RunStates, RunTerminalStates, RunResumableStates, Awaits, Word
<1>2. c \in Script /\ Ahead(c) = {"READ_LEDGER", "CONFIRM"} /\ c # <<>> /\ Head(c) = "READ_LEDGER"
  BY ScriptTwo DEF Word, Awaits, Misplaced, Writing, Settling
<1>3. r \in Script /\ Ahead(r) = {"READ_LEDGER", "RELEASE"} /\ r # <<>> /\ Head(r) = "READ_LEDGER"
  BY ScriptTwo DEF Word, Awaits, Misplaced, Writing, Settling
<1>4. /\ f \in Script /\ Ahead(f) \subseteq {"FILLED"}
      /\ u \in Script /\ Ahead(u) \subseteq {"EXECUTION_UNKNOWN"}
      /\ g \in Script /\ Ahead(g) \subseteq {"RECONCILING"}
  BY <1>1, WhenWord
<1>5. d \in Script /\ Ahead(d) = {"RECONCILED", "COMPLETE"}
  BY <1>1, ScriptTwo DEF Misplaced, Writing, Settling
<1>6. e \in Script /\ Ahead(e) = {"RECONCILING", "RECONCILED", "COMPLETE"}
  BY <1>1, ScriptThree DEF Misplaced, Writing, Settling
<1>7. /\ outcome = "success" => ReconcileScript(state, outcome) = ((c \o f) \o g) \o d
      /\ outcome = "reverted" => ReconcileScript(state, outcome) = (r \o u) \o e
      /\ outcome = "pending" => ReconcileScript(state, outcome) = <<>>
  BY DEF ReconcileScript
<1>8. \A x \in {"READ_LEDGER", "CONFIRM", "RELEASE"} \cup recorded, y \in recorded : ~Misplaced(x, y)
  BY <1>1 DEF Misplaced, Writing, Settling
<1> HIDE DEF c, r, f, u, g, d, e
<1>9. CASE outcome = "success"
  <2>1. /\ c \o f \in Script /\ Ahead(c \o f) = Ahead(c) \cup Ahead(f)
        /\ c \o f # <<>> /\ Head(c \o f) = "READ_LEDGER"
    BY <1>2, <1>4, <1>8, ScriptJoin
  <2>2. \A x \in Ahead(c \o f), y \in Ahead(g) : ~Misplaced(x, y)
    BY <1>2, <1>4, <1>8, <2>1
  <2>3. /\ (c \o f) \o g \in Script /\ Ahead((c \o f) \o g) = Ahead(c \o f) \cup Ahead(g)
        /\ (c \o f) \o g # <<>> /\ Head((c \o f) \o g) = "READ_LEDGER"
    BY <1>4, <2>1, <2>2, ScriptJoin
  <2>4. \A x \in Ahead((c \o f) \o g), y \in Ahead(d) : ~Misplaced(x, y)
    BY <1>2, <1>4, <1>5, <1>8, <2>1, <2>3
  <2>5. /\ ((c \o f) \o g) \o d \in Script
        /\ Ahead(((c \o f) \o g) \o d) = Ahead((c \o f) \o g) \cup Ahead(d)
        /\ Head(((c \o f) \o g) \o d) = "READ_LEDGER"
    BY <1>5, <2>3, <2>4, ScriptJoin
  <2>. QED
    BY <1>2, <1>4, <1>5, <1>7, <1>9, <2>1, <2>3, <2>5
<1>10. CASE outcome = "reverted"
  <2>1. /\ r \o u \in Script /\ Ahead(r \o u) = Ahead(r) \cup Ahead(u)
        /\ r \o u # <<>> /\ Head(r \o u) = "READ_LEDGER"
    BY <1>3, <1>4, <1>8, ScriptJoin
  <2>2. \A x \in Ahead(r \o u), y \in Ahead(e) : ~Misplaced(x, y)
    BY <1>3, <1>4, <1>6, <1>8, <2>1
  <2>3. /\ (r \o u) \o e \in Script /\ Ahead((r \o u) \o e) = Ahead(r \o u) \cup Ahead(e)
        /\ Head((r \o u) \o e) = "READ_LEDGER"
    BY <1>6, <2>1, <2>2, ScriptJoin
  <2>. QED
    BY <1>3, <1>4, <1>6, <1>7, <1>10, <2>1, <2>3
<1>11. CASE outcome = "pending"
  BY <1>7, <1>11, ScriptEmpty
<1>. QED
  BY <1>9, <1>10, <1>11 DEF Outcomes

\* And settles each by what the chain says.
LEMMA ReconcileKeeps ==
  ASSUME Serial, Kept, NEW w \in Workers, NEW found \in worker[w].backlog, Reconcile(w, found)
  PROVE  Kept'
<1>0. PICK old \in Call : old = worker[w]
  BY DEF Kept
<1> DEFINE r == found.run
           call == [Idle EXCEPT !.run = r, !.record = found.record, !.backlog = old.backlog \ {found}]
           script == IF found.record.tx = NoTx THEN WithoutTransaction(found.record.state)
                     ELSE ReconcileScript(found.record.state, transactionOutcome(found.record.tx))
           new == [call EXCEPT !.script = script]
<1>1. /\ old.script = <<>> /\ UNCHANGED <<store, ledger, txs, env, crashes>> /\ found \in old.backlog
      /\ GoesOn(w, call, script)
  BY <1>0 DEF Reconcile, Free
<1>2. /\ found \in [run : Runs, record : Record] /\ found.record = store[r]
      /\ \A other \in old.backlog : /\ other \in [run : Runs, record : Record]
                                    /\ other.record = store[other.run]
  BY <1>0 DEF Kept, ListedStays, Call
<1>3. \A other \in old.backlog \ {found} : other.run # r
  BY <1>2
<1>4. /\ call \in Call /\ call.backlog = old.backlog \ {found} /\ call.run = r
      /\ call.record = store[r] /\ call.sent = NoTx /\ call.writing = FALSE
  BY <1>1, <1>2, IdleCall DEF Call, Idle
<1>5. /\ new.run = r /\ new.record = store[r] /\ new.sent = NoTx /\ new.writing = FALSE
      /\ new.script = script
  BY <1>4 DEF Call
<1> HIDE DEF call, new
<1>6. CASE found.record.tx = NoTx
  <2>1. script = <<>>
    BY <1>6 DEF WithoutTransaction
  <2>. QED
    BY <1>1, <1>2, <1>4, <2>1, ScriptEmpty, KeepsCall
<1>7. CASE found.record.tx # NoTx
  <2> DEFINE t == store[r].tx
             outcome == transactionOutcome(t)
             settle == IF outcome = "success" THEN "CONFIRM" ELSE "RELEASE"
  <2>1. r \in Runs /\ store[r].state \in Sent /\ IsTxOf(t, r) /\ store[r] # Absent
    BY <1>2, <1>7 DEF Kept, Booked, Absent
  <2>2. outcome \in Outcomes /\ script = ReconcileScript(store[r].state, outcome)
    BY <1>2, <1>7, <2>1, TxTypes DEF IsTxOf, Kept, transactionOutcome
  <2>3. /\ script \in Script
        /\ script # <<>> =>
             /\ outcome # "pending" /\ Head(script) = "READ_LEDGER"
             /\ {"READ_LEDGER", settle} \subseteq Ahead(script)
             /\ Ahead(script) \subseteq {"READ_LEDGER", settle, "FILLED", "EXECUTION_UNKNOWN",
                                         "RECONCILING", "RECONCILED", "COMPLETE"}
    BY <2>2, ReconcileWords
  <2>4. txOf(new) = t
    BY <1>5 DEF txOf
  <2>5. outcome # "pending" => outcome = IF settle = "CONFIRM" THEN "success" ELSE "reverted"
    BY <2>2 DEF Outcomes
  <2> HIDE DEF script, outcome, settle
  <2>6. settle \in Settling
    BY DEF settle, Settling
  <2>7. outcome = transactionOutcome(t)
    BY DEF outcome
  <2>8. ASSUME script # <<>>
        PROVE  InStep(new)
    BY <1>5, <2>1, <2>3, <2>4, <2>5, <2>6, <2>7, <2>8 DEF InStep, Settling, Writing
  <2>. QED
    BY <1>1, <1>2, <1>3, <1>4, <2>3, <2>8, KeepsCall DEF new
<1>. QED
  BY <1>6, <1>7

\* The chain answers once: what was settled before the answer stays settled, what waits for it
\* was not relied on.
LEMMA LandKeeps ==
  ASSUME Kept, NEW t \in DOMAIN txs, Land(t)
  PROVE  Kept'
<1>1. PICK outcome \in {"reverted", "success"} : txs' = [txs EXCEPT ![t].outcome = outcome]
  BY DEF Land
<1>2. transactionOutcome(t) = "pending" /\ UNCHANGED <<store, ledger, env, crashes, worker>>
  BY DEF Land
<1> DEFINE S == [run : Runs, amount : Amounts, outcome : Outcomes]
<1>3. txs \in Seq(S)
  BY DEF Kept, DataTypes
<1> HIDE DEF S
<1>4. txs[t] \in S
  BY <1>3
<1>16. /\ [txs[t] EXCEPT !.outcome = outcome] \in S
       /\ \A x \in S : [x EXCEPT !.outcome = outcome].run = x.run
                        /\ [x EXCEPT !.outcome = outcome].amount = x.amount
                        /\ [x EXCEPT !.outcome = outcome].outcome = outcome
  BY <1>4 DEF Outcomes, S
<1>5. /\ txs' \in Seq(S) /\ DOMAIN txs' = DOMAIN txs
      /\ txs'[t].run = txs[t].run /\ txs'[t].amount = txs[t].amount /\ txs'[t].outcome = outcome
      /\ \A u \in DOMAIN txs : u # t => txs'[u] = txs[u]
  <2>2. txs' = [txs EXCEPT ![t] = [txs[t] EXCEPT !.outcome = outcome]]
    BY <1>1
  <2> DEFINE new == [txs[t] EXCEPT !.outcome = outcome]
  <2>3. new.run = txs[t].run /\ new.amount = txs[t].amount /\ new.outcome = outcome
    BY <1>4, <1>16
  <2>4. new \in S /\ txs' = [txs EXCEPT ![t] = new]
    BY <1>16, <2>2
  <2> HIDE DEF new
  <2>. QED
    BY <1>3, <2>3, <2>4
<1>6. \A u \in DOMAIN txs : /\ txs'[u].run = txs[u].run /\ txs'[u].amount = txs[u].amount
                            /\ transactionOutcome(u) # "pending" => txs'[u] = txs[u]
  BY <1>2, <1>5
<1>7. DataTypes'
  BY <1>2, <1>5 DEF Kept, DataTypes, env, S
<1>8. WithinCap' /\ IdleIsIdle'
  BY <1>2 DEF Kept, WithinCap, IdleIsIdle
<1>9. \A u, r : IsTxOf(u, r)' <=> IsTxOf(u, r)
  BY <1>5, <1>6 DEF IsTxOf
<1>10. \A u, r : SettledBy(r, u) => SettledBy(r, u)'
  BY <1>2, <1>6, <1>9 DEF SettledBy, transactionOutcome, IsTxOf
<1>11. \A r : Unsent(r)' <=> Unsent(r)
  BY <1>5, <1>6 DEF Unsent
<1>12. Booked'
  <2>1. (\A u, v \in DOMAIN txs : txs[u].run = txs[v].run => u = v)'
    BY <1>5, <1>6 DEF Kept, Booked
  <2>2. (\A u \in DOMAIN txs : /\ store[txs[u].run] # Absent
                               /\ txs[u].amount = ledger[txs[u].run].amount
                               /\ MayHaveEffect(u) => txs[u].run \in committed(ledger))'
    BY <1>2, <1>5, <1>6 DEF Kept, Booked, MayHaveEffect, transactionOutcome
  <2>3. (\A x \in Runs : /\ IF store[x].state \in Sent THEN IsTxOf(store[x].tx, x) ELSE store[x].tx = NoTx
                         /\ store[x] = Absent => ledger[x] = NoEntry
                         /\ store[x].state \in {"RECONCILED", "COMPLETE"} => SettledBy(x, store[x].tx))'
    BY <1>2, <1>9, <1>10 DEF Kept, Booked
  <2>. QED
    BY <2>1, <2>2, <2>3 DEF Booked
<1>13. ASSUME NEW call, InStep(call)
       PROVE  InStep(call)'
  <2>1. \A u, r : IsTxOf(u, r) /\ transactionOutcome(u) # "pending" =>
                    transactionOutcome(u)' = transactionOutcome(u)
    BY <1>6 DEF IsTxOf, transactionOutcome
  <2>2. \A u, r : /\ IsTxOf(u, r) /\ transactionOutcome(u) = "success" =>
                       IsTxOf(u, r)' /\ transactionOutcome(u)' = "success"
                  /\ IsTxOf(u, r) /\ transactionOutcome(u) = "reverted" =>
                       IsTxOf(u, r)' /\ transactionOutcome(u)' = "reverted"
    BY <1>9, <2>1
  <2>. QED
    BY <1>2, <1>9, <1>10, <1>11, <1>13, <2>2 DEF InStep
<1>14. InStepAll'
  <2>1. ASSUME NEW w \in Workers, worker[w].script # <<>>
        PROVE  InStep(worker[w])'
    <3>1. PICK call : call = worker[w]
      OBVIOUS
    <3>2. InStep(call)'
      BY <1>13, <2>1, <3>1 DEF Kept, InStepAll
    <3>3. call = worker'[w]
      BY <1>2, <3>1
    <3>. QED
      BY <3>2, <3>3 DEF InStep, Unsent, IsTxOf, SettledBy, transactionOutcome
  <2>. QED
    BY <1>2, <2>1 DEF InStepAll
<1>15. (\A w \in Workers : ListedStays(worker[w]))'
  BY <1>2 DEF Kept, ListedStays
<1>. QED
  BY <1>2, <1>7, <1>8, <1>12, <1>14, <1>15 DEF Kept

\* A crash forgets the calls, not the records.
LEMMA CrashKeeps ==
  ASSUME Serial, Kept, Crash
  PROVE  Kept'
<1>1. /\ UNCHANGED <<store, ledger, txs, env>> /\ worker' = [w \in Workers |-> Idle]
      /\ crashes' \in 0..MaxCrashes
  BY EngineConstants DEF Crash, Serial, Kept, DataTypes
<1>2. Idle.script = <<>> /\ Idle.writing = FALSE /\ Idle.backlog = {}
  BY DEF Idle
<1>3. DataTypes' /\ Booked' /\ WithinCap'
  BY <1>1, Rests DEF Kept, DataTypes, env
<1>4. worker' \in [Workers -> Call]
  BY <1>1, IdleCall
<1>5. InStepAll' /\ IdleIsIdle' /\ (\A w \in Workers : ListedStays(worker[w]))'
  BY <1>1, <1>2 DEF InStepAll, IdleIsIdle, ListedStays
<1>. QED
  BY <1>3, <1>4, <1>5 DEF Kept

\* The clock, the epoch and the end of the mandate, and nothing at all.
LEMMA WorldKeeps ==
  ASSUME Kept, Tick \/ MoveEpoch \/ EndMandate \/ UNCHANGED vars
  PROVE  Kept'
<1>1. UNCHANGED <<store, ledger, txs, worker>>
  BY DEF Tick, MoveEpoch, EndMandate, vars
<1>2. /\ epoch' \in 0..MaxEpoch /\ live' \in BOOLEAN /\ now' \in 0..MaxNow /\ crashes' \in 0..MaxCrashes
  <2>1. /\ epoch \in 0..MaxEpoch /\ live \in BOOLEAN /\ now \in 0..MaxNow /\ crashes \in 0..MaxCrashes
        /\ MaxEpoch \in Nat /\ MaxNow \in Nat
    BY EngineConstants DEF Kept, DataTypes
  <2>2. CASE Tick
    BY <2>1, <2>2 DEF Tick
  <2>3. CASE MoveEpoch
    BY <2>1, <2>3 DEF MoveEpoch
  <2>4. CASE EndMandate
    BY <2>1, <2>4 DEF EndMandate
  <2>5. CASE UNCHANGED vars
    BY <2>1, <2>5 DEF vars, env
  <2>. QED
    BY <2>2, <2>3, <2>4, <2>5
<1>3. DataTypes' /\ Booked' /\ WithinCap'
  BY <1>1, <1>2, Rests DEF Kept, DataTypes
<1>4. IdleIsIdle' /\ (\A w \in Workers : ListedStays(worker[w]))' /\ worker' \in [Workers -> Call]
  BY <1>1 DEF Kept, IdleIsIdle, ListedStays
<1>5. InStepAll'
  <2>1. ASSUME NEW w \in Workers, InStep(worker[w])
        PROVE  InStep(worker[w])'
    BY <1>1, <2>1 DEF InStep, Unsent, IsTxOf, SettledBy, transactionOutcome
  <2>. QED
    BY <1>1, <2>1 DEF Kept, InStepAll
<1>. QED
  BY <1>3, <1>4, <1>5 DEF Kept

\* The engine starts with nothing recorded, promised or sent.
LEMMA KeptInit ==
  ASSUME Init
  PROVE  Kept
<1>1. EmptyLedger \in Ledger /\ committed(EmptyLedger) = {} /\ \A r \in Runs : EmptyLedger[r] = NoEntry
  BY DEF EmptyLedger, Ledger, Entry, committed, NoEntry
<1>2. spent(EmptyLedger) = 0
  <2> DEFINE f == [r \in Runs |-> EmptyLedger[r].amount]
  <2>1. spent(EmptyLedger) = SumFunctionOnSet(f, committed(EmptyLedger))
    BY Zenon DEF spent, SumFunctionOnSet
  <2> HIDE DEF f
  <2>2. IsFiniteSet({}) /\ \A x \in {} : f[x] \in Int
    BY FS_EmptySet
  <2>3. SumFunctionOnSet(f, {}) = 0
    BY <2>2, SumFirst
  <2>. QED
    BY <1>1, <2>1, <2>3
<1>3. DataTypes
  BY <1>1, IdleCall, EngineConstants DEF Init, DataTypes
<1>4. DOMAIN txs = {} /\ store = [r \in Runs |-> Absent] /\ ledger = EmptyLedger
      /\ worker = [w \in Workers |-> Idle]
  BY DEF Init
<1>5. Absent.state \notin Sent /\ Absent.tx = NoTx
      /\ Idle.script = <<>> /\ Idle.writing = FALSE /\ Idle.backlog = {}
  BY DEF Absent, Sent, Idle
<1>6. Booked
  BY <1>1, <1>4, <1>5 DEF Booked, Sent
<1>7. WithinCap
  BY <1>2, <1>4, BudgetConstants DEF WithinCap
<1>8. worker \in [Workers -> Call]
  BY <1>4, IdleCall
<1>9. InStepAll /\ IdleIsIdle /\ \A w \in Workers : ListedStays(worker[w])
  BY <1>4, <1>5 DEF InStepAll, IdleIsIdle, ListedStays
<1>. QED
  BY <1>3, <1>6, <1>7, <1>8, <1>9 DEF Kept

\* Every step keeps the invariant, one call in flight at a time.
LEMMA KeptNext ==
  ASSUME Serial, Kept, [Next]_vars
  PROVE  Kept'
<1>1. ASSUME NEW w \in Workers, Proceed(w)
      PROVE  Kept'
  <2>1. ASSUME NEW found \in worker[w].backlog, Reconcile(w, found)
        PROVE  Kept'
    BY <2>1, ReconcileKeeps
  <2>. QED
    BY <1>1, <2>1, BeginStepKeeps, EndStepKeeps, ArmedGateKeeps, BuildSnapshotKeeps, CompileKeeps,
       ReadLedgerKeeps, ValidatePlanKeeps, CheckAuthorizationKeeps, ExecuteKeeps, AwaitReceiptKeeps,
       ConfirmBudgetKeeps, ReleaseBudgetKeeps DEF Proceed
<1>2. ASSUME NEW w \in Workers, NEW r \in Runs, ProcessTrigger(w, r)
      PROVE  Kept'
  BY <1>2, ProcessTriggerKeeps
<1>3. ASSUME NEW w \in Workers, Recover(w)
      PROVE  Kept'
  BY <1>3, RecoverKeeps
<1>4. ASSUME NEW t \in DOMAIN txs, Land(t)
      PROVE  Kept'
  BY <1>4, LandKeeps
<1>5. CASE Crash
  BY <1>5, CrashKeeps
<1>6. CASE Tick \/ MoveEpoch \/ EndMandate \/ UNCHANGED vars
  BY <1>6, WorldKeeps
<1>. QED
  BY <1>1, <1>2, <1>3, <1>4, <1>5, <1>6 DEF Next

\* So it holds always.
LEMMA KeptAlways ==
  ASSUME Serial
  PROVE  Spec => []Kept
<1>1. Init => Kept
  BY KeptInit
<1>2. Kept /\ [Next]_vars => Kept'
  BY KeptNext
<1>. QED
  BY <1>1, <1>2, PTL DEF Spec

-----------------------------------------------------------------------------
(* The results. *)

\* Records, ledger and calls keep their types.
THEOREM EngineTypes ==
  ASSUME Serial
  PROVE  Spec => []TypeOK
<1>1. ASSUME Kept PROVE TypeOK
  <2>1. ASSUME NEW w \in Workers
        PROVE  /\ worker[w].run \in Runs \cup {NoRun} /\ worker[w].record \in Record
               /\ worker[w].ledger \in Ledger /\ (worker[w].writing => worker[w].run \in Runs)
    <3>1. worker[w] \in Call
      BY <1>1 DEF Kept
    <3>2. worker[w].writing => worker[w].run \in Runs
      BY <1>1, <3>1 DEF Kept, IdleIsIdle, InStepAll, InStep
    <3>. QED
      BY <3>1, <3>2 DEF Call
  <2>. QED
    BY <1>1, <2>1, TxTypes DEF TypeOK, Kept, DataTypes
<1>. QED
  BY <1>1, KeptAlways, PTL

\* However often a trigger is delivered and wherever the process stops, a run has at most one
\* transaction that takes effect or still may (engine.ts, I-63).
THEOREM OneEffect ==
  ASSUME Serial
  PROVE  Spec => []OneEffectPerRun
<1>1. Kept => OneEffectPerRun
  BY DEF Kept, Booked, OneEffectPerRun
<1>. QED
  BY <1>1, KeptAlways, PTL

\* While a transaction may still land, and after it did, its run keeps its budget (I-64).
THEOREM UnknownStaysBooked ==
  ASSUME Serial
  PROVE  Spec => []UnknownHoldsBudget
<1>1. Kept => UnknownHoldsBudget
  BY DEF Kept, Booked, UnknownHoldsBudget
<1>. QED
  BY <1>1, KeptAlways, PTL

\* A complete run has an answer of the chain, and its budget entry says the same.
THEOREM CompleteIsSettled ==
  ASSUME Serial
  PROVE  Spec => []CompleteMatchesChain
<1>1. Kept => CompleteMatchesChain
  BY TxTypes DEF Kept, Booked, CompleteMatchesChain, SettledBy, IsTxOf, Known
<1>. QED
  BY <1>1, KeptAlways, PTL

\* All that was or may be spent stays inside the total cap of the instance (budget.ts, I-69): each
\* transaction with an effect has a run of its own, whose entry counts its amount.
THEOREM BudgetCovers ==
  ASSUME Serial
  PROVE  Spec => []BudgetHolds
<1>1. ASSUME Kept PROVE BudgetHolds
  <2> DEFINE effects == {t \in DOMAIN txs : MayHaveEffect(t)}
             f == [t \in DOMAIN txs |-> txs[t].amount]
             g == [r \in Runs |-> ledger[r].amount]
             h == [t \in DOMAIN txs |-> txs[t].run]
  <2>1. \A t \in effects : /\ h[t] \in committed(ledger) /\ h[t] \in Runs
                           /\ f[t] = g[h[t]]
    BY <1>1, TxTypes DEF Kept, Booked
  <2>2. \A t, u \in effects : h[t] = h[u] => t = u
    BY <1>1 DEF Kept, Booked
  <2>3. /\ committed(ledger) \in SUBSET Runs /\ IsFiniteSet(committed(ledger))
        /\ effects \in SUBSET (1..Len(txs)) /\ IsFiniteSet(effects)
    <3>1. committed(ledger) \in SUBSET Runs
      BY DEF committed
    <3>2. Len(txs) \in Nat /\ effects \in SUBSET (1..Len(txs))
      BY <1>1, TxTypes DEF Kept
    <3>3. IsFiniteSet(1..Len(txs))
      BY <3>2, FS_Interval
    <3>. QED
      BY <3>1, <3>2, <3>3, FS_Subset, BudgetConstants
  <2>4. \A r \in Runs : g[r] \in Nat
    <3>1. \A e \in Entry : e.amount \in Amounts \cup {0}
      BY DEF Entry, NoEntry
    <3>2. \A a \in Amounts \cup {0} : a \in Nat
      BY BudgetConstants
    <3>. QED
      BY <1>1, <3>1, <3>2 DEF Kept, DataTypes, Ledger
  <2>5. spent(ledger) = SumFunctionOnSet(g, committed(ledger))
    BY Zenon DEF spent, SumFunctionOnSet
  <2>6. BudgetHolds <=> SumFunctionOnSet(f, effects) <= MaxTotal
    BY Zenon DEF BudgetHolds, SumFunctionOnSet
  <2> HIDE DEF f, g, h, effects
  <2>7. SumFunctionOnSet(f, effects) <= SumFunctionOnSet(g, committed(ledger))
    BY <2>1, <2>2, <2>3, <2>4, SumInto
  <2>8. SumFunctionOnSet(f, effects) \in Int /\ SumFunctionOnSet(g, committed(ledger)) \in Int
    <3>1. \A t \in effects : f[t] \in Int
      BY <2>1, <2>4
    <3>2. \A r \in committed(ledger) : g[r] \in Int
      BY <2>3, <2>4
    <3>. QED
      BY <2>3, <3>1, <3>2, SumFirst
  <2>. QED
    BY <1>1, <2>5, <2>6, <2>7, <2>8, BudgetConstants DEF Kept, WithinCap
<1>. QED
  BY <1>1, KeptAlways, PTL

=============================================================================
