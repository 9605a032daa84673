------------------------------ MODULE VaultOps ------------------------------
(***************************************************************************)
(* The life of restricted task vaults: credence/services/vault_ops.py, the *)
(* kill switch and passports of credence/services/identity.py, and the     *)
(* journal of credence/ledger/service.py they all post to.                 *)
(*                                                                         *)
(* One action is one HTTP handler that commits.  get_session               *)
(* (credence/api/deps.py) rolls a handler back whole when it raises, so a  *)
(* refused request leaves every table as it was: it is a stuttering step   *)
(* and has no action.  A replay that returns the stored row is a stuttering*)
(* step as well.                                                           *)
(*                                                                         *)
(* Signed amounts in the books are debits minus credits.                   *)
(***************************************************************************)
EXTENDS Integers, Sequences, CreditStates, Waterfall, VaultRules, Underwriting

CONSTANTS Agents,          \* registered agents
          Vaults,          \* one potential vault per approved application
          Vendors,         \* payees
          Purposes,        \* purpose codes a payment may claim
          VendorPurposes,  \* vendor -> the purposes its category serves
          Keys,            \* idempotency keys of proposals
          Tasks,           \* tasks the applications finance
          Events,          \* external ids of revenue events
          AllowLists,      \* vendor lists the applications proposed
          Limits,          \* approved limits of the applications
          PerTxnLimits,    \* per-transaction limits an owner may ask for
          SpendAmounts,    \* amounts an agent proposes
          RevenueAmounts,  \* amounts a customer pays
          ReserveCaps,     \* reserves an owner may sign for in a mandate
          Durations,       \* requested durations of the applications
          PassportTtls,    \* validity of an issued passport
          FeeRatePpm,      \* protocol fee in parts per million
          MaxTransactions, \* payments per vault
          DayLength,       \* ticks in a day
          MaxTime          \* the bound on the clock

Positive(S) == S \subseteq Nat \ {0}

ASSUME AmountsAssumption ==
  /\ Positive(Limits) /\ Positive(PerTxnLimits)
  /\ Positive(SpendAmounts) /\ Positive(RevenueAmounts)
  /\ ReserveCaps \subseteq Nat
ASSUME TimeAssumption ==
  /\ Positive(Durations) /\ Positive(PassportTtls)
  /\ DayLength \in Nat \ {0} /\ MaxTime \in Nat
  /\ VelocityWindow \in Nat /\ VelocityMax \in Nat
ASSUME RatesAssumption == FeeRatePpm \in 0 .. PPM /\ MaxTransactions \in Nat
ASSUME VendorsAssumption ==
  /\ VendorPurposes \in [Vendors -> SUBSET Purposes]
  /\ AllowLists \subseteq SUBSET Vendors

VARIABLES now,        \* the clock of the host
          mandate,    \* the reserve signed for each task, or NoMandate
          agent,      \* agent rows with their latest passport and revocation row
          vault,      \* credit_vaults, with the allowlist
          proposal,   \* transaction_proposals by idempotency key
          txn,        \* vault_transactions by the proposal they execute
          revenue,    \* revenue_events by external event id
          repayments, \* repayments of each vault, oldest first
          posted,     \* idempotency keys of the journal
          books       \* the journal's balances: vault, currency, account

vars == <<now, mandate, agent, vault, proposal, txn, revenue, repayments, posted, books>>

Accounts ==
  {"SANDBOX_CASH", "PRINCIPAL_RECEIVABLE", "VAULT_AVAILABLE", "VENDOR_PAYABLE",
   "REVENUE_ESCROW", "OWNER_PAYABLE", "RESERVE_POOL", "FEE_INCOME", "LOSS_DEFAULT"}

\* a request names the vault's own currency or another one
Currencies == {"own", "other"}

AgentStatuses == {"ACTIVE", "FROZEN", "REVOKED"}

Spends == [vendor : Vendors, amount : SpendAmounts, purpose : Purposes,
           currency : Currencies]

NoVault    == [status |-> "NONE"]
NoProposal == [status |-> "NONE"]
NoTxn      == [amount |-> 0]
NoRevenue  == [amount |-> 0]
NoMandate  == -1

\* the terms of a denied proposal are never read again and are not kept
Denied == [status |-> "DENIED"]

Exists(v) == vault[v].status # "NONE"
-----------------------------------------------------------------------------
(***************************************************************************)
(* The journal.  A journal transaction is a line per account; post_journal *)
(* refuses an unbalanced one and does nothing for a key already posted.    *)
(***************************************************************************)
NoLines == [a \in Accounts |-> 0]

Net(lines) ==
  lines["SANDBOX_CASH"] + lines["PRINCIPAL_RECEIVABLE"] + lines["VAULT_AVAILABLE"]
    + lines["VENDOR_PAYABLE"] + lines["REVENUE_ESCROW"] + lines["OWNER_PAYABLE"]
    + lines["RESERVE_POOL"] + lines["FEE_INCOME"] + lines["LOSS_DEFAULT"]

\* balanced, and with a line at all (so with two)
Postable(key, lines) ==
  key \in posted \/ (Net(lines) = 0 /\ \E a \in Accounts : lines[a] # 0)

Post(book, key, currency, lines) ==
  IF key \in posted
    THEN book
    ELSE [book EXCEPT ![currency] = [a \in Accounts |-> @[a] + lines[a]]]

DisbursementLines(limit) ==
  [NoLines EXCEPT !["PRINCIPAL_RECEIVABLE"] = limit, !["VAULT_AVAILABLE"] = -limit]

PaymentLines(amount) ==
  [NoLines EXCEPT !["VAULT_AVAILABLE"] = amount, !["VENDOR_PAYABLE"] = -amount]

RevenueLines(amount) ==
  [NoLines EXCEPT !["SANDBOX_CASH"] = amount, !["REVENUE_ESCROW"] = -amount]

\* mutated form: the fee is credited to the owner's account
RepaymentLinesFeeToOwner(amount, split) ==
  [NoLines EXCEPT !["REVENUE_ESCROW"] = amount,
                  !["PRINCIPAL_RECEIVABLE"] = -split.principal,
                  !["RESERVE_POOL"] = -split.reserve,
                  !["OWNER_PAYABLE"] = -(split.owner + split.fee)]

RepaymentLines(amount, split) ==
  [NoLines EXCEPT !["REVENUE_ESCROW"] = amount,
                  !["PRINCIPAL_RECEIVABLE"] = -split.principal,
                  !["FEE_INCOME"] = -split.fee,
                  !["RESERVE_POOL"] = -split.reserve,
                  !["OWNER_PAYABLE"] = -split.owner]

\* mutated form: the reserve draw is not posted
RecoveryLinesWithoutReserve(split) ==
  [NoLines EXCEPT !["VAULT_AVAILABLE"] = split.swept,
                  !["LOSS_DEFAULT"] = split.loss,
                  !["PRINCIPAL_RECEIVABLE"] = -(split.swept + split.loss)]

RecoveryLines(split) ==
  [NoLines EXCEPT !["VAULT_AVAILABLE"] = split.swept,
                  !["RESERVE_POOL"] = split.reserve,
                  !["LOSS_DEFAULT"] = split.loss,
                  !["PRINCIPAL_RECEIVABLE"] = -(split.swept + split.reserve + split.loss)]
-----------------------------------------------------------------------------
(***************************************************************************)
(* What a handler reads before it decides.                                 *)
(***************************************************************************)
PaymentsOf(v) == {k \in Keys : txn[k] # NoTxn /\ txn[k].vault = v}

Recent(v) == {txn[k] : k \in PaymentsOf(v)}

DayStart == now - (now % DayLength)

VaultLimits(v) ==
  [status           |-> vault[v].status,
   agent_status     |-> agent[vault[v].agent].status,
   currency         |-> "own",
   total            |-> vault[v].total,
   spent            |-> vault[v].spent,
   per_txn          |-> vault[v].per_txn,
   daily            |-> vault[v].total,
   spent_today      |-> SumOfAmounts({p \in Recent(v) : p.at >= DayStart}),
   allowed          |-> vault[v].allowed,
   purposes         |-> VendorPurposes,
   expires_at       |-> vault[v].expires_at,
   count            |-> vault[v].count,
   max_transactions |-> MaxTransactions]

\* the latest passport is inside its validity and the agent has no revocation row
PassportValid(a) == now < agent[a].passport_expires /\ ~agent[a].revoked

RuleDenials(v, spend) == EvaluateProposal(VaultLimits(v), spend, Recent(v), now)

PolicyDenials(v, spend) ==
  EvaluatePolicy(PassportValid(vault[v].agent), VaultLimits(v), spend,
                 RuleDenials(v, spend) = {}, now)

\* what the mandate of the task lets a recovery draw
ReserveCap(task) == IF mandate[task] = NoMandate THEN 0 ELSE mandate[task]

\* The vault's new row after each of the handlers that move money.
NewRow(a, task, limit, perTxn, vendors, expires) ==
  [status |-> "ACTIVE", agent |-> a, task |-> task, total |-> limit, per_txn |-> perTxn,
   spent |-> 0, count |-> 0, principal |-> limit, fee |-> (limit * FeeRatePpm) \div PPM,
   reserve_drawn |-> 0, allowed |-> vendors, expires_at |-> expires]

PaidRow(row, amount) ==
  [row EXCEPT !.spent = @ + amount, !.count = @ + 1,
              !.status = IF @ = "ACTIVE" THEN "SPENDING" ELSE @]

RepaidRow(row, split, end) ==
  [row EXCEPT !.principal = @ - split.principal, !.fee = @ - split.fee,
              !.reserve_drawn = @ - split.reserve, !.status = end]

RecoveredRow(row, split, end) ==
  [row EXCEPT !.principal = 0, !.fee = 0, !.reserve_drawn = @ + split.reserve,
              !.spent = row.total, !.status = end]
-----------------------------------------------------------------------------
Init ==
  /\ now = 0
  /\ mandate = [t \in Tasks |-> NoMandate]
  /\ agent = [a \in Agents |-> [status |-> "ACTIVE", passport_expires |-> 0,
                                revoked |-> FALSE]]
  /\ vault = [v \in Vaults |-> NoVault]
  /\ proposal = [k \in Keys |-> NoProposal]
  /\ txn = [k \in Keys |-> NoTxn]
  /\ revenue = [e \in Events |-> NoRevenue]
  /\ repayments = [v \in Vaults |-> <<>>]
  /\ posted = {}
  /\ books = [v \in Vaults |-> [c \in Currencies |-> NoLines]]

Tick ==
  /\ now < MaxTime
  /\ now' = now + 1
  /\ UNCHANGED <<mandate, agent, vault, proposal, txn, revenue, repayments, posted, books>>

\* the passport of an agent that holds none expires at 0
IssuePassport(a, ttl) ==
  /\ agent[a].status = "ACTIVE"
  /\ agent' = [agent EXCEPT ![a].passport_expires = now + ttl]
  /\ UNCHANGED <<now, mandate, vault, proposal, txn, revenue, repayments, posted, books>>

\* create_mandate: a task has at most one, before or after its vaults, and
\* nothing changes it later
CreateMandate(task, cap) ==
  /\ mandate[task] = NoMandate
  /\ mandate' = [mandate EXCEPT ![task] = cap]
  /\ UNCHANGED <<now, agent, vault, proposal, txn, revenue, repayments, posted, books>>

(***************************************************************************)
(* create_vault of an APPROVED application with the decided limit.  The    *)
(* application's own row admits one vault (CreditApplication models it).   *)
(* Nothing here looks at the agent's status.                               *)
(***************************************************************************)
CreateVault(v, a, task, limit, perTxn, vendors, duration) ==
  /\ ~Exists(v)
  /\ Postable(<<"disburse", v>>, DisbursementLines(limit))
  /\ vault' = [vault EXCEPT ![v] = NewRow(a, task, limit, perTxn, vendors, now + duration)]
  /\ books' = [books EXCEPT ![v] =
       Post(@, <<"disburse", v>>, "own", DisbursementLines(limit))]
  /\ posted' = posted \cup {<<"disburse", v>>}
  /\ UNCHANGED <<now, mandate, agent, proposal, txn, revenue, repayments>>

\* propose_transaction: both controls decide; a split pattern freezes the vault
Propose(k, v, spend) ==
  /\ proposal[k] = NoProposal
  /\ Exists(v)
  /\ LET rules   == RuleDenials(v, spend)
         allowed == rules = {} /\ PolicyDenials(v, spend) = {}
         freeze  == "SPLIT_PATTERN_DETECTED" \in rules /\ vault[v].status \in SpendableStatuses
     IN  /\ proposal' = [proposal EXCEPT ![k] =
              IF allowed
                THEN [status |-> "APPROVED", vault |-> v, vendor |-> spend.vendor,
                      amount |-> spend.amount, purpose |-> spend.purpose,
                      currency |-> spend.currency]
                ELSE Denied]
         /\ vault' = IF freeze THEN [vault EXCEPT ![v].status = "FROZEN"] ELSE vault
  /\ UNCHANGED <<now, mandate, agent, txn, revenue, repayments, posted, books>>

\* execute_transaction of an approved proposal: the rules are evaluated again
\* on the current rows, the policy and the passport are not
Execute(k) ==
  /\ proposal[k].status = "APPROVED"
  /\ txn[k] = NoTxn
  /\ LET v      == proposal[k].vault
         amount == proposal[k].amount
     IN  /\ RuleDenials(v, proposal[k]) = {}
         /\ Postable(<<"spend", k>>, PaymentLines(amount))
         /\ books' = [books EXCEPT ![v] =
              Post(@, <<"spend", k>>, proposal[k].currency, PaymentLines(amount))]
         /\ posted' = posted \cup {<<"spend", k>>}
         /\ vault' = [vault EXCEPT ![v] = PaidRow(vault[v], amount)]
         /\ txn' = [txn EXCEPT ![k] = [key |-> k, vault |-> v,
                                       vendor |-> proposal[k].vendor,
                                       amount |-> amount, at |-> now]]
  /\ proposal' = [proposal EXCEPT ![k].status = "EXECUTED"]
  /\ UNCHANGED <<now, mandate, agent, revenue, repayments>>

FreezeVault(v) ==
  /\ VaultMove(vault[v].status, "FROZEN")
  /\ vault' = [vault EXCEPT ![v].status = "FROZEN"]
  /\ UNCHANGED <<now, mandate, agent, proposal, txn, revenue, repayments, posted, books>>

\* receive_revenue walks the vault through the end of its task to
\* REVENUE_RECEIVED; these are the statuses from which every move is legal
AfterTask(status, completed) ==
  IF status \in {"ACTIVE", "SPENDING"}
    THEN IF completed THEN "TASK_COMPLETED" ELSE "TASK_FAILED"
    ELSE status

AcceptsRevenue(status, completed) ==
  /\ status \in {"ACTIVE", "SPENDING"} => VaultMove(status, AfterTask(status, completed))
  /\ VaultMove(AfterTask(status, completed), "REVENUE_RECEIVED")

\* mutated form: the fee is forgotten when the vault is settled
RepaidStatusOnPrincipal(principal, fee) ==
  IF principal = 0 THEN "REPAID" ELSE "PARTIALLY_REPAID"

RepaidStatus(principal, fee) ==
  IF principal = 0 /\ fee = 0 THEN "REPAID" ELSE "PARTIALLY_REPAID"

\* receive_revenue of a new event: revenue into escrow, then the repayment waterfall
ReceiveRevenue(v, e, amount, currency, completed) ==
  /\ revenue[e] = NoRevenue
  /\ AcceptsRevenue(vault[v].status, completed)
  /\ LET split == RepaymentWaterfall(amount, vault[v].principal, vault[v].fee,
                                     vault[v].reserve_drawn)
         end   == RepaidStatus(vault[v].principal - split.principal,
                               vault[v].fee - split.fee)
     IN  /\ VaultMove("REVENUE_RECEIVED", end)
         /\ Postable(<<"revenue", e>>, RevenueLines(amount))
         /\ Postable(<<"waterfall", e>>, RepaymentLines(amount, split))
         /\ books' = [books EXCEPT ![v] =
              Post(Post(@, <<"revenue", e>>, currency, RevenueLines(amount)),
                   <<"waterfall", e>>, currency, RepaymentLines(amount, split))]
         /\ vault' = [vault EXCEPT ![v] = RepaidRow(vault[v], split, end)]
         /\ repayments' = [repayments EXCEPT ![v] = Append(@,
              [kind |-> "WATERFALL", journal |-> <<"waterfall", e>>,
               principal |-> split.principal, fee |-> split.fee,
               reserve |-> split.reserve, owner |-> split.owner, loss |-> 0])]
  /\ posted' = posted \cup {<<"revenue", e>>, <<"waterfall", e>>}
  /\ revenue' = [revenue EXCEPT ![e] = [vault |-> v, amount |-> amount]]
  /\ UNCHANGED <<now, mandate, agent, proposal, txn>>

\* what the handler answers when the event is already stored: the latest
\* repayment of the event's vault
RevenueReplay(e) ==
  LET rows == repayments[revenue[e].vault] IN rows[Len(rows)]

\* simulate_failure: the task fails before revenue and recovery runs once
SimulateFailure(v) ==
  /\ vault[v].status \in {"ACTIVE", "SPENDING", "FROZEN", "EXPIRED"}
  /\ VaultMove(vault[v].status, "TASK_FAILED")
  /\ LET cap   == ReserveCap(vault[v].task)
         split == RecoveryWaterfall(vault[v].principal, vault[v].total - vault[v].spent,
                                    0, cap, cap)
         end   == IF split.loss > 0 THEN "DEFAULTED" ELSE "REPAID"
         total == split.swept + split.reserve + split.loss
     IN  /\ VaultMove("TASK_FAILED", end)
         /\ total # 0 => Postable(<<"recovery", v>>, RecoveryLines(split))
         /\ books' = IF total = 0 THEN books
                     ELSE [books EXCEPT ![v] =
                             Post(@, <<"recovery", v>>, "own", RecoveryLines(split))]
         /\ posted' = IF total = 0 THEN posted ELSE posted \cup {<<"recovery", v>>}
         /\ vault' = [vault EXCEPT ![v] = RecoveredRow(vault[v], split, end)]
         /\ repayments' = [repayments EXCEPT ![v] = Append(@,
              [kind |-> "RECOVERY", journal |-> <<"recovery", v>>,
               principal |-> split.swept, fee |-> 0,
               reserve |-> split.reserve, owner |-> 0, loss |-> split.loss])]
  /\ UNCHANGED <<now, mandate, agent, proposal, txn, revenue>>

CloseVault(v) ==
  /\ VaultMove(vault[v].status, "CLOSED")
  /\ vault' = [vault EXCEPT ![v].status = "CLOSED"]
  /\ UNCHANGED <<now, mandate, agent, proposal, txn, revenue, repayments, posted, books>>
-----------------------------------------------------------------------------
(***************************************************************************)
(* The owner's kill switch.  Revoking stores a revocation row for every    *)
(* passport of the agent, past and future, and freezes its open vaults.    *)
(***************************************************************************)
FreezeAgent(a) ==
  /\ agent' = [agent EXCEPT ![a].status = "FROZEN"]
  /\ UNCHANGED <<now, mandate, vault, proposal, txn, revenue, repayments, posted, books>>

\* mutated form: unfreezing the agent reactivates its frozen vaults
UnfreezeAgentAndVaults(a) ==
  /\ agent[a].status # "REVOKED"
  /\ agent' = [agent EXCEPT ![a].status = "ACTIVE"]
  /\ vault' = [v \in Vaults |->
       IF vault[v].status = "FROZEN" /\ vault[v].agent = a
         THEN [vault[v] EXCEPT !.status = "ACTIVE"] ELSE vault[v]]
  /\ UNCHANGED <<now, mandate, proposal, txn, revenue, repayments, posted, books>>

UnfreezeAgent(a) ==
  /\ agent[a].status # "REVOKED"
  /\ agent' = [agent EXCEPT ![a].status = "ACTIVE"]
  /\ UNCHANGED <<now, mandate, vault, proposal, txn, revenue, repayments, posted, books>>

\* mutated form: a vault that has started spending is forgotten
UnspentVaultsOf(a) ==
  {v \in Vaults : vault[v].status \in {"CREATED", "ACTIVE"} /\ vault[v].agent = a}

OpenVaultsOf(a) ==
  {v \in Vaults : vault[v].status \in {"CREATED", "ACTIVE", "SPENDING"} /\ vault[v].agent = a}

RevokeAgent(a) ==
  /\ agent' = [agent EXCEPT ![a].status = "REVOKED", ![a].revoked = TRUE]
  /\ vault' = [v \in Vaults |->
       IF v \in OpenVaultsOf(a) THEN [vault[v] EXCEPT !.status = "FROZEN"] ELSE vault[v]]
  /\ UNCHANGED <<now, mandate, proposal, txn, revenue, repayments, posted, books>>
-----------------------------------------------------------------------------
AgentStep ==
  \E a \in Agents :
    \/ \E ttl \in PassportTtls : IssuePassport(a, ttl)
    \/ FreezeAgent(a)
    \/ UnfreezeAgent(a)
    \/ RevokeAgent(a)

VaultStep ==
  \E v \in Vaults :
    \/ \E a \in Agents, task \in Tasks, limit \in Limits, vendors \in AllowLists,
          duration \in Durations :
         \E perTxn \in PerTxnLimits \cup {limit} :
           CreateVault(v, a, task, limit, perTxn, vendors, duration)
    \/ \E k \in Keys, spend \in Spends : Propose(k, v, spend)
    \/ FreezeVault(v)
    \/ \E e \in Events, amount \in RevenueAmounts, currency \in Currencies,
          completed \in BOOLEAN : ReceiveRevenue(v, e, amount, currency, completed)
    \/ SimulateFailure(v)
    \/ CloseVault(v)

Next ==
  \/ Tick
  \/ AgentStep
  \/ \E task \in Tasks, cap \in ReserveCaps : CreateMandate(task, cap)
  \/ VaultStep
  \/ \E k \in Keys : Execute(k)

Spec == Init /\ [][Next]_vars
-----------------------------------------------------------------------------
(***************************************************************************)
(* Properties.                                                             *)
(***************************************************************************)
VaultRows ==
  [status : VaultStatuses, agent : Agents, total : Nat \ {0}, per_txn : Nat, spent : Nat,
   count : Nat, principal : Nat, fee : Nat, reserve_drawn : Nat, task : Tasks,
   allowed : SUBSET Vendors, expires_at : Nat]

ProposalRows ==
  [status : {"APPROVED", "EXECUTED"}, vault : Vaults, vendor : Vendors,
   amount : Nat \ {0}, purpose : Purposes, currency : Currencies]

TxnRows ==
  [key : Keys, vault : Vaults, vendor : Vendors, amount : Nat \ {0}, at : Nat]

JournalKeys ==
  ({"disburse", "recovery"} \X Vaults) \cup ({"spend"} \X Keys)
    \cup ({"revenue", "waterfall"} \X Events)

Repayments ==
  [kind : {"WATERFALL", "RECOVERY"}, journal : JournalKeys, principal : Nat, fee : Nat,
   reserve : Nat, owner : Nat, loss : Nat]

\* Every row has the columns its table declares (finance_models.py).
TypeOK ==
  /\ now \in Nat
  /\ mandate \in [Tasks -> Nat \cup {NoMandate}]
  /\ agent \in [Agents -> [status : AgentStatuses, passport_expires : Nat,
                           revoked : BOOLEAN]]
  /\ vault \in [Vaults -> VaultRows \cup {NoVault}]
  /\ proposal \in [Keys -> ProposalRows \cup {NoProposal, Denied}]
  /\ txn \in [Keys -> TxnRows \cup {NoTxn}]
  /\ revenue \in [Events -> [vault : Vaults, amount : Nat \ {0}] \cup {NoRevenue}]
  /\ repayments \in [Vaults -> Seq(Repayments)]
  /\ posted \subseteq JournalKeys
  /\ books \in [Vaults -> [Currencies -> [Accounts -> Int]]]

Bal(v, a) == books[v]["own"][a] + books[v]["other"][a]

\* The general ledger and the vault's own columns agree: the receivable is the
\* outstanding principal, the vault account is what is left to spend, the
\* reserve account is the drawn reserve, and no revenue is left in escrow.  The
\* two are updated by separate statements of five handlers (vault_ops.py), and
\* a journal whose key was already posted would change the columns alone.
LedgerReconciles ==
  \A v \in Vaults : Exists(v) =>
    /\ Bal(v, "PRINCIPAL_RECEIVABLE") = vault[v].principal
    /\ Bal(v, "VAULT_AVAILABLE") = vault[v].spent - vault[v].total
    /\ Bal(v, "RESERVE_POOL") = vault[v].reserve_drawn
    /\ Bal(v, "REVENUE_ESCROW") = 0

\* The repayment journal a handler builds balances for every vault it may meet
\* and every revenue (README "money is neither created nor destroyed by any
\* waterfall"): post_journal never refuses revenue with LEDGER_IMBALANCE.
RevenueAlwaysPosts ==
  \A v \in Vaults, amount \in RevenueAmounts : Exists(v) =>
    Net(RepaymentLines(amount, RepaymentWaterfall(amount, vault[v].principal, vault[v].fee,
                                                  vault[v].reserve_drawn))) = 0

\* The owner receives revenue only when the principal and the fee are paid and
\* nothing is owed to the reserve, over any sequence of partial payments.
OwnerPaidLast ==
  \A v \in Vaults : Bal(v, "OWNER_PAYABLE") # 0 =>
    vault[v].principal = 0 /\ vault[v].fee = 0 /\ vault[v].reserve_drawn = 0

\* A failed task costs the lender at most what vendors were paid, and the
\* reserve of a vault gives at most what the owner signed for.
LossIsBounded ==
  \A v \in Vaults : Exists(v) =>
    /\ 0 <= Bal(v, "LOSS_DEFAULT")
    /\ Bal(v, "LOSS_DEFAULT") <= -Bal(v, "VENDOR_PAYABLE")
    /\ Bal(v, "RESERVE_POOL") <= ReserveCap(vault[v].task)

\* Loss is booked only when the reserve the mandate signs at that moment is
\* exhausted (waterfall.py "any remainder is explicit simulated loss").
LossAfterReserve ==
  [][\A v \in Vaults : Bal(v, "LOSS_DEFAULT")' # Bal(v, "LOSS_DEFAULT") =>
       Bal(v, "RESERVE_POOL")' = ReserveCap(vault[v].task)]_vars

\* What the ledger owes vendors is the sum of the executed transactions, each
\* approved proposal is paid at most once, and the sum stays within the limit,
\* however many proposals were approved against the same balance.
PaymentsReconcile ==
  \A v \in Vaults : Exists(v) =>
    /\ Bal(v, "VENDOR_PAYABLE") = -SumOfAmounts(Recent(v))
    /\ SumOfAmounts(Recent(v)) <= vault[v].total
    /\ Cardinality(PaymentsOf(v)) = vault[v].count
    /\ \A k \in PaymentsOf(v) : proposal[k].status = "EXECUTED"

\* The repayment receipts of a vault add up to its ledger: what they say went
\* to principal, fee and owner is what the accounts show, and each stands on a
\* journal entry of its own.
SumOf(v, Part(_)) == SumFunction([i \in DOMAIN repayments[v] |-> Part(repayments[v][i])])

ReceiptsReconcile ==
  \A v \in Vaults : Exists(v) =>
    /\ SumOf(v, LAMBDA r : r.fee) = -Bal(v, "FEE_INCOME")
    /\ SumOf(v, LAMBDA r : r.owner) = -Bal(v, "OWNER_PAYABLE")
    /\ SumOf(v, LAMBDA r : r.loss) = Bal(v, "LOSS_DEFAULT")
    /\ SumOf(v, LAMBDA r : r.principal + r.loss
                             + IF r.kind = "RECOVERY" THEN r.reserve ELSE 0)
         = vault[v].total - vault[v].principal
    /\ \A i, j \in 1 .. Len(repayments[v]) :
         /\ repayments[v][i].journal \in posted
         /\ i # j => repayments[v][i].journal # repayments[v][j].journal

\* No window of VelocityWindow ticks ever holds more payments than VelocityMax,
\* and three or more payments to one vendor in a window stay together within
\* the per-transaction limit (rules.py; approvals do not count as payments, so
\* only the second evaluation at execution can enforce it).
PaceHolds ==
  \A v \in Vaults : \A last \in Recent(v) :
    LET window == {p \in Recent(v) : last.at - VelocityWindow <= p.at /\ p.at <= last.at}
        same   == SameVendor(window, last)
    IN  /\ Cardinality(window) <= VelocityMax
        /\ Cardinality(same) >= 3 => SumOfAmounts(same) <= vault[v].per_txn

\* The policy is a second control over the same facts: it never refuses what the
\* rules allow, except for the passport, and where both look at a fact they
\* agree on it (policy/engine.py against vault/rules.py).
ControlsAgree ==
  \A v \in Vaults, spend \in Spends : Exists(v) =>
    LET rules  == RuleDenials(v, spend)
        policy == PolicyDenials(v, spend)
    IN  /\ rules = {} => policy \subseteq {"identity_invalid"}
        /\ "agent_not_active" \in policy <=> rules \cap {"AGENT_FROZEN", "PASSPORT_REVOKED"} # {}
        /\ "vendor_not_allowed" \in policy <=> "VENDOR_NOT_ALLOWED" \in rules
        /\ "transaction_limit" \in policy <=> "TRANSACTION_LIMIT_EXCEEDED" \in rules
        /\ "task_limit" \in policy <=> "TASK_LIMIT_EXCEEDED" \in rules

\* The status tells the debt: a REPAID vault owes nothing, a PARTIALLY_REPAID
\* one still owes, a DEFAULTED one has a booked loss, and a vault that can still
\* fail owes its whole limit (recovery would otherwise sweep more than is owed).
StatusTellsDebt ==
  \A v \in Vaults : Exists(v) =>
    LET owed == vault[v].principal + vault[v].fee
    IN  /\ vault[v].status = "REPAID" => owed = 0
        /\ vault[v].status = "PARTIALLY_REPAID" => owed > 0
        /\ vault[v].status = "DEFAULTED" => owed = 0 /\ Bal(v, "LOSS_DEFAULT") > 0
        /\ vault[v].status \in {"ACTIVE", "SPENDING", "FROZEN"} =>
             vault[v].principal = vault[v].total

Paid(v) == -Bal(v, "VENDOR_PAYABLE")

\* Once an agent has been revoked none of its vaults pays a vendor again, even
\* if it is frozen and unfrozen afterwards, holds a new passport, gets a new
\* vault or had proposals approved before (identity.py kill_switch "Blocks all
\* future spending immediately"; execute_transaction checks no passport).
RevocationIsFinal ==
  [][\A v \in Vaults :
       Exists(v) /\ agent[vault[v].agent].revoked => Paid(v)' = Paid(v)]_vars

\* A vault that has stopped being spendable never pays again: no handler leads
\* back to ACTIVE or SPENDING, although the table of state.py lists
\* FROZEN -> ACTIVE.
NoReopening ==
  [][\A v \in Vaults :
       Exists(v) /\ vault[v].status \notin SpendableStatuses =>
         vault'[v].status \notin SpendableStatuses /\ Paid(v)' = Paid(v)]_vars
-----------------------------------------------------------------------------
(***************************************************************************)
(* The inductive invariant: what every handler needs to know of the rows   *)
(* the others left, so that a journal key it is about to post is new, a    *)
(* recovery finds the whole limit owed and a revoked agent finds no        *)
(* approved proposal it could still execute.                               *)
(***************************************************************************)
Recovered(v) == <<"recovery", v>> \in posted

\* a key is in the journal exactly when its row is in the tables
KeysMatchRows ==
  /\ \A v \in Vaults : <<"disburse", v>> \in posted <=> Exists(v)
  /\ \A k \in Keys : <<"spend", k>> \in posted <=> txn[k] # NoTxn
  /\ \A k \in Keys : proposal[k].status = "EXECUTED" <=> txn[k] # NoTxn
  /\ \A e \in Events : <<"revenue", e>> \in posted <=> revenue[e] # NoRevenue
  /\ \A e \in Events : <<"waterfall", e>> \in posted <=> revenue[e] # NoRevenue

\* an approved proposal names a vault that exists and its currency
ApprovedTerms ==
  \A k \in Keys : proposal[k].status \in {"APPROVED", "EXECUTED"} =>
    Exists(proposal[k].vault) /\ proposal[k].currency = "own"

\* nothing is left to execute on a spendable vault of a revoked agent
NothingToExecute ==
  \A k \in Keys :
    proposal[k].status = "APPROVED" /\ agent[vault[proposal[k].vault].agent].revoked =>
      vault[proposal[k].vault].status \notin SpendableStatuses

OpenStatuses == {"ACTIVE", "SPENDING", "FROZEN"}

Balance(v) == [a \in Accounts |-> Bal(v, a)]

\* a vault that recovery has not touched
Live(row, bal) ==
  /\ row.status \in OpenStatuses \cup {"REPAID", "PARTIALLY_REPAID", "CLOSED"}
  /\ row.status \in OpenStatuses => row.principal = row.total
  /\ row.status \in OpenStatuses \cup {"PARTIALLY_REPAID"} => bal["OWNER_PAYABLE"] = 0
  /\ row.status = "REPAID" => row.principal = 0 /\ row.fee = 0
  /\ row.status = "PARTIALLY_REPAID" => row.principal + row.fee > 0
  /\ bal["OWNER_PAYABLE"] # 0 => row.principal = 0 /\ row.fee = 0
  /\ row.spent <= row.total
  /\ row.reserve_drawn = 0
  /\ bal["PRINCIPAL_RECEIVABLE"] = row.principal
  /\ bal["VAULT_AVAILABLE"] = row.spent - row.total
  /\ bal["VENDOR_PAYABLE"] = -row.spent
  /\ bal["RESERVE_POOL"] = 0
  /\ bal["REVENUE_ESCROW"] = 0
  /\ bal["LOSS_DEFAULT"] = 0

\* a vault that recovery has swept
Settled(row, bal) ==
  /\ row.status \in {"REPAID", "DEFAULTED", "CLOSED"}
  /\ row.status = "DEFAULTED" => bal["LOSS_DEFAULT"] > 0
  /\ row.spent = row.total
  /\ row.principal = 0 /\ row.fee = 0
  /\ bal["PRINCIPAL_RECEIVABLE"] = 0
  /\ bal["VAULT_AVAILABLE"] = 0
  /\ bal["OWNER_PAYABLE"] = 0
  /\ bal["REVENUE_ESCROW"] = 0
  /\ bal["RESERVE_POOL"] = row.reserve_drawn
  /\ bal["LOSS_DEFAULT"] >= 0
  /\ bal["LOSS_DEFAULT"] + row.reserve_drawn = -bal["VENDOR_PAYABLE"]

Sound(v) ==
  IF ~Exists(v)        THEN ~Recovered(v) /\ books[v] = [c \in Currencies |-> NoLines]
  ELSE IF Recovered(v) THEN Settled(vault[v], Balance(v))
                       ELSE Live(vault[v], Balance(v))

IInv == KeysMatchRows /\ ApprovedTerms /\ NothingToExecute /\ \A v \in Vaults : Sound(v)

\* no vault has drawn more than the mandate of its task allows it; invariant
\* relative to IInv
WithinMandate ==
  \A v \in Vaults : Exists(v) => vault[v].reserve_drawn <= ReserveCap(vault[v].task)

\* a payment knows its key, is not dated ahead of the clock and belongs to a
\* vault that exists, which has finitely many; invariant relative to IInv
PaymentRows ==
  /\ \A k \in Keys : txn[k] # NoTxn =>
       txn[k].key = k /\ txn[k].at <= now /\ Exists(txn[k].vault)
  /\ \A v \in Vaults : IsFiniteSet(PaymentsOf(v))

\* a vault that does not exist has no receipt; invariant relative to IInv
ReceiptRows == \A v \in Vaults : ~Exists(v) => repayments[v] = <<>>
=============================================================================
