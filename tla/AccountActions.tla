--------------------------- MODULE AccountActions ---------------------------
(***************************************************************************)
(* The forms a user moves an account with (apps/web: lib/tx.ts,            *)
(* lib/actions.ts, lib/earn-actions.ts, lib/account.ts, lib/session.ts,    *)
(* the forms under components and the pages that sign in, arm a Sentinel   *)
(* and end one).                                                           *)
(*                                                                         *)
(* A form reads a quote, takes an amount and submits one call, or an       *)
(* approval and a call, through sendTransaction.  Every await is a step:   *)
(* the user may leave the page, the wallet may show another account, the   *)
(* policy may move.  A submission goes on when its form is gone.           *)
(*                                                                         *)
(* The user and the wallet are external.  A wish is one thing the user     *)
(* wants done.  The same wish is submitted again only when the form says   *)
(* it was declined or failed ("Do not resubmit" otherwise).  A wallet that *)
(* declines has sent nothing; one that answers with another error may have *)
(* broadcast the call before it.  Wallets and the vault have what is asked *)
(* of them.                                                                *)
(***************************************************************************)
EXTENDS Naturals, Sequences, FiniteSets, TLC

CONSTANTS
  Wallets,        \* addresses the user's wallet holds
  Nobody,
  Menus,          \* sets of forms, of which the user keeps to one
  Amounts,        \* what may be typed
  Shares,         \* of collateral that a policy may lend against
  MaxDebt,
  MaxEpoch,
  MaxVisits,      \* pages opened
  MaxWishes, MaxSubmissions, MaxTransactions

ASSUME FormConstants ==
  /\ Nobody \notin Wallets /\ Wallets # {} /\ Amounts \subseteq Nat \ {0} /\ Shares \subseteq Nat
  /\ UNION Menus \subseteq {"addCollateral", "withdrawCollateral", "borrow", "repay",
                            "supply", "exit", "arm", "mandate", "instance"}

VARIABLES
  menu,           \* the forms this user opens
  selected,       \* the address the wallet reports
  session,        \* the address this browser signed in with, or Nobody
  form,           \* the form on the page
  refreshes,      \* its reads of a quote under way
  submissions,    \* submissions under way, those of forms that are gone too
  visits,         \* how many pages were opened
  wishes,         \* how many things the user has asked for
  ledger,         \* address -> what the contracts hold of it
  policies,       \* the share of collateral that is lent against, epoch by epoch
  sent            \* transactions, in the order they were sent

chainOfForms == <<ledger, policies, sent>>
pageVars == <<menu, selected, session, visits>>
formVars == <<pageVars, form, refreshes, submissions, wishes, chainOfForms>>

Hair == 1         \* what a payoff approves above the quoted debt

riskEpoch == Len(policies)

-----------------------------------------------------------------------------
(* The contracts, as far as the forms tell them apart (external). *)

NoAllowance == [collateralVault |-> 0, liquidityVault |-> 0]

borrowLimit(account, share) == ledger[account].deposited * share

spenderOf(call) == IF call = "addCollateral" THEN "collateralVault" ELSE "liquidityVault"

Pulled(t) ==
  IF t.call # "repay" THEN t.amount
  ELSE IF t.choice = "payoff" \/ t.amount > ledger[t.from].debt THEN ledger[t.from].debt ELSE t.amount

\* What was registered for an agent, and what its owner may do to it.
Agency(standing) ==
  CASE standing = "ACTIVE" -> "pause" :> "PAUSED" @@ "revoke" :> "REVOKED"
    [] standing = "PAUSED" -> "resume" :> "ACTIVE" @@ "revoke" :> "REVOKED"
    [] standing = "REVOKED" -> <<>>

Accepted(t) ==
  LET mine == ledger[t.from]
      covered == mine.allowance[spenderOf(t.call)] >= Pulled(t)
  IN  CASE t.call = "approve" -> TRUE
        [] t.call \in {"addCollateral", "supply"} -> covered
        [] t.call = "repay" -> mine.debt > 0 /\ covered
        [] t.call = "borrow" ->
             /\ t.epoch = riskEpoch
             /\ mine.debt + t.amount <= borrowLimit(t.from, policies[riskEpoch])
        [] t.call = "withdrawCollateral" ->
             /\ mine.deposited >= t.amount
             /\ mine.debt <= (mine.deposited - t.amount) * policies[riskEpoch]
        [] t.call \in {"withdraw", "requestWithdrawal"} -> mine.shares >= t.amount
        [] t.call \in {"claimWithdrawal", "cancelWithdrawal"} -> mine.queued > 0
        [] t.call \in {"registerMandate", "registerInstance"} -> TRUE
        [] t.call \in {"pause", "resume", "revoke"} -> t.call \in DOMAIN Agency(mine.agency)

Effect(t) ==
  LET mine == ledger[t.from]
      pulling == [mine EXCEPT !.allowance[spenderOf(t.call)] = @ - Pulled(t)]
  IN  CASE t.call = "approve" -> [mine EXCEPT !.allowance[spenderOf(t.for)] = t.amount]
        [] t.call = "addCollateral" -> [pulling EXCEPT !.deposited = @ + t.amount]
        [] t.call = "supply" -> [pulling EXCEPT !.shares = @ + t.amount]
        [] t.call = "repay" -> [pulling EXCEPT !.debt = @ - Pulled(t)]
        [] t.call = "borrow" -> [mine EXCEPT !.debt = @ + t.amount]
        [] t.call = "withdrawCollateral" -> [mine EXCEPT !.deposited = @ - t.amount]
        [] t.call = "withdraw" -> [mine EXCEPT !.shares = @ - t.amount]
        [] t.call = "requestWithdrawal" -> [mine EXCEPT !.shares = @ - t.amount, !.queued = @ + t.amount]
        [] t.call = "claimWithdrawal" -> [mine EXCEPT !.queued = 0]
        [] t.call = "cancelWithdrawal" -> [mine EXCEPT !.queued = 0, !.shares = @ + mine.queued]
        [] t.call \in {"registerMandate", "registerInstance"} -> mine
        [] t.call \in {"pause", "resume", "revoke"} -> [mine EXCEPT !.agency = Agency(@)[t.call]]

Unmined(n) == sent[n].outcome = "pending"

\* An account's transactions are mined in the order it sent them.
Include(n) ==
  /\ Unmined(n)
  /\ \A k \in 1..(n - 1) : sent[k].from = sent[n].from => ~Unmined(k)
  /\ sent' = [sent EXCEPT ![n].outcome = IF Accepted(sent[n]) THEN "landed" ELSE "reverted",
                          ![n].under = IF sent[n].call = "borrow" THEN policies[riskEpoch] ELSE 0]
  /\ ledger' = IF Accepted(sent[n]) THEN [ledger EXCEPT ![sent[n].from] = Effect(sent[n])] ELSE ledger
  /\ UNCHANGED <<pageVars, form, refreshes, submissions, wishes, policies>>

ChangePolicy(share) ==
  /\ riskEpoch < MaxEpoch /\ share # policies[riskEpoch]
  /\ policies' = Append(policies, share)
  /\ UNCHANGED <<pageVars, form, refreshes, submissions, wishes, ledger, sent>>

AccrueInterest(a) ==
  /\ ledger[a].debt \in 1..(MaxDebt - 1)
  /\ ledger' = [ledger EXCEPT ![a].debt = @ + 1]
  /\ UNCHANGED <<pageVars, form, refreshes, submissions, wishes, policies, sent>>

-----------------------------------------------------------------------------
(* The page and its session. *)

NoQuote == [account |-> Nobody]

Mounted(k) == [kind |-> k, account |-> Nobody, quote |-> NoQuote, stage |-> "IDLE", wish |-> 0]
NoForm == Mounted("none")

Started == [at |-> "asking wallet", stored |-> session]

\* Leaving a form drops its reads; what it submitted goes on unseen.
Leave == {[s EXCEPT !.seen = FALSE] : s \in submissions}

OpenForm(k) ==
  /\ visits < MaxVisits /\ visits' = visits + 1
  /\ form' = Mounted(k)
  /\ refreshes' = {Started}
  /\ submissions' = Leave
  /\ UNCHANGED <<menu, selected, session, wishes, chainOfForms>>

\* The wallet is asked for an address once, and later to sign for that address.
Connect ==
  /\ form' = [Mounted("onboarding") EXCEPT !.account = selected]
  /\ refreshes' = {} /\ submissions' = Leave
  /\ UNCHANGED <<pageVars, wishes, chainOfForms>>

SignIn ==
  /\ form.kind = "onboarding"
  /\ session' = form.account
  /\ form' = NoForm
  /\ UNCHANGED <<menu, selected, visits, refreshes, submissions, wishes, chainOfForms>>

\* The account pages listen to the wallet; the pages of a single action do not.
SwitchAccount(a) ==
  /\ a # selected /\ selected' = a
  /\ \/ /\ session' = Nobody
        /\ form' = NoForm /\ refreshes' = {} /\ submissions' = Leave
     \/ UNCHANGED <<session, form, refreshes, submissions>>
  /\ UNCHANGED <<menu, visits, wishes, chainOfForms>>

-----------------------------------------------------------------------------
(* Reading a quote. *)

\* The session is that of the address it was signed for, or none.
readSession(stored) == IF stored = selected THEN stored ELSE Nobody

\* Some forms stand on a page that has the account already read, or read nothing else.
Afterwards(k, account) ==
  CASE k \in {"borrow", "repay", "withdrawCollateral"} -> {[at |-> "pinning", account |-> account]}
    [] k = "arm" -> {}
    [] OTHER -> {[at |-> "reading", account |-> account]}

AskSession(r) ==
  /\ r.at = "asking wallet"
  /\ LET account == readSession(r.stored)
     IN  /\ form' = [form EXCEPT !.account = account,
                                 !.quote = IF form.kind = "arm" THEN [account |-> account] ELSE @]
         /\ session' = IF account = Nobody THEN Nobody ELSE session
         /\ refreshes' = (refreshes \ {r}) \cup
              (IF account = Nobody THEN {} ELSE Afterwards(form.kind, account))
  /\ UNCHANGED <<menu, selected, visits, submissions, wishes, chainOfForms>>

PinBlock(r) ==
  /\ r.at = "pinning"
  /\ refreshes' = (refreshes \ {r}) \cup
       {[at |-> "reading", account |-> r.account, epoch |-> riskEpoch, position |-> ledger[r.account]]}
  /\ UNCHANGED <<pageVars, form, submissions, wishes, chainOfForms>>

\* Variant: the epoch is read at the head and not at the pinned block.
loadAccountUnpinned(r) ==
  [share |-> policies[r.epoch], epoch |-> riskEpoch, debt |-> r.position.debt,
   limit |-> r.position.deposited * policies[r.epoch]]

\* Figures and epoch of the pinned block.
loadAccount(r) ==
  [share |-> policies[r.epoch], epoch |-> r.epoch, debt |-> r.position.debt,
   limit |-> r.position.deposited * policies[r.epoch]]

Normal(view) == view.debt <= view.limit
Plenty == CHOOSE n \in Amounts : \A k \in Amounts : k <= n

addCollateralQuote(account) ==
  [account |-> account, walletBalance |-> Plenty,
   allowance |-> ledger[account].allowance.collateralVault]

borrowQuote(account, view) ==
  [account |-> account, share |-> view.share, epoch |-> view.epoch, normal |-> Normal(view),
   byRisk |-> IF view.limit > view.debt THEN view.limit - view.debt ELSE 0]

repayQuote(account, view) ==
  [account |-> account, debt |-> view.debt, allowance |-> ledger[account].allowance.liquidityVault]

maxWithdrawable(account) ==
  LET mine == ledger[account]
  IN  IF mine.debt = 0 THEN mine.deposited
      ELSE Cardinality({n \in 1..mine.deposited :
                          mine.debt <= (mine.deposited - n) * policies[riskEpoch]})

withdrawQuote(account, view) ==
  [account |-> account, debtFree |-> view.debt = 0, normal |-> Normal(view),
   withdrawable |-> maxWithdrawable(account)]

depositQuote(account) ==
  [account |-> account, walletBalance |-> Plenty,
   allowance |-> ledger[account].allowance.liquidityVault]

\* The page's list of requests is read with it.
withdrawPreview(account) ==
  [account |-> account, shares |-> ledger[account].shares, queued |-> ledger[account].queued]

\* The account is read at the pinned block, everything else at the latest.
Quoted(k, r) ==
  CASE k = "addCollateral" -> addCollateralQuote(r.account)
    [] k = "borrow" -> borrowQuote(r.account, loadAccount(r))
    [] k = "repay" -> repayQuote(r.account, loadAccount(r))
    [] k = "withdrawCollateral" -> withdrawQuote(r.account, loadAccount(r))
    [] k = "supply" -> depositQuote(r.account)
    [] k = "exit" -> withdrawPreview(r.account)
    [] k \in {"mandate", "instance"} -> [account |-> r.account, agency |-> ledger[r.account].agency]

\* An answer fills the form; a failure empties it or leaves it as it was.
ReadQuote(r) ==
  /\ r.at = "reading"
  /\ \E q \in {Quoted(form.kind, r), NoQuote, form.quote} : form' = [form EXCEPT !.quote = q]
  /\ refreshes' = refreshes \ {r}
  /\ UNCHANGED <<pageVars, submissions, wishes, chainOfForms>>

-----------------------------------------------------------------------------
(* Submitting. *)

Approval(s) == IF s.choice = "payoff" THEN s.quote.debt + Hair ELSE s.amount

\* What a form does with an amount and a choice: whether its button can be pressed and
\* the calls that follow, in order.
Approving(s) == IF s.quote.allowance < Approval(s) THEN <<"approve">> ELSE <<>>

AddCollateralForm(s) ==
  [offered |-> s.amount <= s.quote.walletBalance, steps |-> Approving(s) \o <<"addCollateral">>]

BorrowForm(s) ==
  [offered |-> s.quote.normal /\ s.amount <= s.quote.byRisk, steps |-> <<"borrow">>]

RepayForm(s) ==
  [offered |-> s.choice = "payoff" => s.quote.debt > 0, steps |-> Approving(s) \o <<"repay">>]

WithdrawForm(s) ==
  [offered |-> (s.quote.debtFree \/ s.quote.normal) /\ s.amount <= s.quote.withdrawable,
   steps |-> <<"withdrawCollateral">>]

SupplyForm(s) ==
  [offered |-> s.amount <= s.quote.walletBalance, steps |-> Approving(s) \o <<"supply">>]

WithdrawControls(s) ==
  [offered |-> IF s.choice \in {"claimWithdrawal", "cancelWithdrawal"} THEN s.quote.queued > 0
               ELSE s.amount <= s.quote.shares,
   steps |-> <<s.choice>>]

arm == [offered |-> TRUE, steps |-> <<"sign", "registerMandate", "registerInstance">>]

\* A revocation is confirmed first, which sends nothing.
MandateControls(s) ==
  [offered |-> s.choice \in DOMAIN Agency(s.quote.agency), steps |-> <<s.choice>>]

InstanceDetailView(s) ==
  [offered |-> s.choice \in DOMAIN Agency(s.quote.agency), steps |-> <<s.choice>>]

Behind(s) ==
  CASE s.kind = "addCollateral" -> AddCollateralForm(s)
    [] s.kind = "borrow" -> BorrowForm(s)
    [] s.kind = "repay" -> RepayForm(s)
    [] s.kind = "withdrawCollateral" -> WithdrawForm(s)
    [] s.kind = "supply" -> SupplyForm(s)
    [] s.kind = "exit" -> WithdrawControls(s)
    [] s.kind = "arm" -> arm
    [] s.kind = "mandate" -> MandateControls(s)
    [] s.kind = "instance" -> InstanceDetailView(s)

Choosable(k) ==
  CASE k = "repay" -> {"part", "payoff"}
    [] k = "exit" -> {"withdraw", "requestWithdrawal", "claimWithdrawal", "cancelWithdrawal"}
    [] k \in {"mandate", "instance"} -> {"pause", "resume", "revoke"}
    [] OTHER -> {"only"}

\* Arming waits for its whole course, a Sentinel's page for an outcome it knows, the
\* other forms for the wallet and the receipt.
Idle ==
  CASE form.kind = "arm" -> \A s \in submissions : ~s.seen
    [] form.kind = "instance" -> form.stage \in {"IDLE", "COMPLETE", "REJECTED", "FAILED"}
    [] OTHER -> form.stage \notin {"AWAITING_WALLET", "SUBMITTED"}

SaysRetry(w) == w # 0 /\ form.wish = w /\ form.stage \in {"REJECTED", "FAILED"}

submit(w, amount, choice) ==
  /\ form.account # Nobody /\ form.quote # NoQuote /\ Idle
  /\ Cardinality(submissions) < MaxSubmissions
  /\ (w = wishes + 1 /\ w <= MaxWishes) \/ SaysRetry(w)
  /\ LET s == [wish |-> w, kind |-> form.kind, from |-> form.account, quote |-> form.quote,
              amount |-> amount, choice |-> choice, steps |-> <<>>, hash |-> 0, seen |-> TRUE]
         steps == Behind(s).steps
     IN  /\ Behind(s).offered
         /\ submissions' = submissions \cup {[s EXCEPT !.steps = steps]}
         /\ form' = [form EXCEPT !.wish = w,
                                 !.stage = IF Head(steps) = "sign" THEN @ ELSE "AWAITING_WALLET"]
  /\ wishes' = IF w > wishes THEN w ELSE wishes
  /\ UNCHANGED <<pageVars, refreshes, chainOfForms>>

-----------------------------------------------------------------------------
(* sendTransaction. *)

\* A form that is gone shows nothing.
Shows(s, stage) == IF s.seen THEN [form EXCEPT !.stage = stage] ELSE form

Ends(s, stage) ==
  /\ submissions' = submissions \ {s}
  /\ form' = Shows(s, stage)

GoesOn(s, next) == submissions' = (submissions \ {s}) \cup {next}

TransactionOf(s) ==
  LET call == Head(s.steps)
  IN  [call |-> call, for |-> s.kind, from |-> s.from, wish |-> s.wish, choice |-> s.choice,
       amount |-> IF call = "approve" THEN Approval(s) ELSE s.amount,
       shown |-> IF call = "borrow" THEN s.quote.share ELSE 0,
       epoch |-> IF call = "borrow" THEN s.quote.epoch ELSE 0,
       account |-> s.quote.account, outcome |-> "pending", under |-> 0, told |-> TRUE]

\* The mandate is signed before anything is sent; a refusal changes no stage.
SignMandate(s) ==
  /\ Head(s.steps) = "sign"
  /\ \/ /\ GoesOn(s, [s EXCEPT !.steps = Tail(@)])
        /\ form' = Shows(s, "AWAITING_WALLET")
     \/ Ends(s, form.stage)
  /\ UNCHANGED <<pageVars, refreshes, wishes, chainOfForms>>

WalletSends(s) ==
  /\ Head(s.steps) # "sign" /\ s.hash = 0 /\ Len(sent) < MaxTransactions
  /\ sent' = Append(sent, TransactionOf(s))
  /\ GoesOn(s, [s EXCEPT !.hash = Len(sent) + 1])
  /\ form' = Shows(s, "SUBMITTED")
  /\ UNCHANGED <<pageVars, refreshes, wishes, ledger, policies>>

\* The user declines: nothing was broadcast.
WalletRefuses(s) ==
  /\ Head(s.steps) # "sign" /\ s.hash = 0
  /\ Ends(s, "REJECTED")
  /\ UNCHANGED <<pageVars, refreshes, wishes, chainOfForms>>

\* A call whose hash the form was never told.
Untold(s) == [TransactionOf(s) EXCEPT !.told = FALSE]

\* Any other error is a failure to the form, whether or not the wallet had sent the call.
WalletErrs(s) ==
  /\ Head(s.steps) # "sign" /\ s.hash = 0
  /\ Ends(s, "FAILED")
  /\ \/ UNCHANGED sent
     \/ Len(sent) < MaxTransactions /\ sent' = Append(sent, Untold(s))
  /\ UNCHANGED <<pageVars, refreshes, wishes, ledger, policies>>

\* What a form reads again once its call is complete.
Refreshed(k, account) ==
  CASE k = "arm" \/ k = "instance" -> {}
    [] k = "mandate" -> {[at |-> "reading", account |-> account]}
    [] OTHER -> {Started}

\* Every call before the last must be COMPLETE for the next one to be made.  Arming
\* reads the chain between its calls, and gives up when that fails.
ReceiptArrives(s) ==
  /\ s.hash # 0 /\ ~Unmined(s.hash)
  /\ IF sent[s.hash].outcome = "reverted"
     THEN Ends(s, "FAILED") /\ UNCHANGED refreshes
     ELSE IF Len(s.steps) > 1
     THEN /\ \/ /\ GoesOn(s, [s EXCEPT !.steps = Tail(@), !.hash = 0])
                /\ form' = Shows(s, "AWAITING_WALLET")
             \/ s.kind = "arm" /\ Ends(s, "COMPLETE")
          /\ UNCHANGED refreshes
     ELSE /\ submissions' = submissions \ {s}
          /\ form' = IF s.seen /\ s.kind = "arm" THEN NoForm ELSE Shows(s, "COMPLETE")
          /\ refreshes' = IF s.seen THEN refreshes \cup Refreshed(s.kind, s.from) ELSE refreshes
  /\ UNCHANGED <<pageVars, wishes, chainOfForms>>

\* Variant: a receipt that does not come is a failure.
stageWithoutReceiptFails == "FAILED"

stageWithoutReceipt == "CONFIRMATION_UNKNOWN"

\* The time is over, or the wallet does not answer.
ReceiptIsLost(s) ==
  /\ s.hash # 0
  /\ Ends(s, stageWithoutReceipt)
  /\ UNCHANGED <<pageVars, refreshes, wishes, chainOfForms>>

-----------------------------------------------------------------------------
FormsInit ==
  /\ menu \in Menus /\ selected = CHOOSE a \in Wallets : TRUE
  /\ session = Nobody /\ visits = 0
  /\ form = NoForm /\ refreshes = {} /\ submissions = {} /\ wishes = 0
  /\ policies = <<1>> /\ sent = <<>>
  /\ ledger = [a \in Wallets |->
       [debt |-> IF a = selected THEN 1 ELSE 0, deposited |-> IF a = selected THEN 2 ELSE 0,
        shares |-> 1, queued |-> 0, allowance |-> NoAllowance, agency |-> "ACTIVE"]]

FormsNext ==
  \/ \E k \in menu : OpenForm(k)
  \/ Connect \/ SignIn
  \/ \E a \in Wallets : SwitchAccount(a) \/ AccrueInterest(a)
  \/ \E r \in refreshes : AskSession(r) \/ PinBlock(r) \/ ReadQuote(r)
  \/ \E w \in 1..MaxWishes, amount \in Amounts, choice \in Choosable(form.kind) : submit(w, amount, choice)
  \/ \E s \in submissions :
       \/ SignMandate(s) \/ WalletSends(s) \/ WalletRefuses(s) \/ WalletErrs(s)
       \/ ReceiptArrives(s) \/ ReceiptIsLost(s)
  \/ \E n \in DOMAIN sent : Include(n)
  \/ \E share \in Shares : ChangePolicy(share)

-----------------------------------------------------------------------------
(* Properties. *)

Landed == {n \in DOMAIN sent : sent[n].outcome = "landed"}
Does(n) == sent[n].call \notin {"approve", "registerMandate"}

\* A user who submits a wish again only when the form says that it was declined or
\* failed does it no second time once the form was told of a transaction that does it,
\* whatever the receipt, the page, the addresses and the policy do in between (tx.ts: "A
\* second signature after an unknown first result is how people borrow twice").  The one
\* way to do a wish twice is a wallet's error after its broadcast, which the form calls
\* FAILED (tx.ts:236-243).
WishedOnce ==
  \A k, n \in Landed :
    k < n /\ Does(k) /\ Does(n) /\ sent[k].wish = sent[n].wish => ~sent[k].told

\* What lands was sent by the account whose figures were on the form, a borrow under
\* the policy it was shown, and the second of two calls after the first (account.ts
\* loadAccount, session.ts readSession, quote.ts: "makes a stale preview refuse rather
\* than execute under rules the user never saw").
LandsAsShown ==
  \A n \in Landed :
    /\ sent[n].from = sent[n].account
    /\ sent[n].call = "borrow" => sent[n].under = sent[n].shown
    /\ sent[n].call = "registerInstance" =>
         \E k \in Landed : k < n /\ sent[k].call = "registerMandate" /\ sent[k].wish = sent[n].wish
=============================================================================
