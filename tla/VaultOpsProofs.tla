--------------------------- MODULE VaultOpsProofs ---------------------------
(***************************************************************************)
(* Theorems about VaultOps for every value of its constants.               *)
(***************************************************************************)
EXTENDS VaultOps, TLAPS

(***************************************************************************)
(* The repayment waterfall hands out the revenue exactly once, never more  *)
(* than is due to each, and reaches a payee only when those before it are  *)
(* satisfied (waterfall.py run_repayment_waterfall).                       *)
(***************************************************************************)
IsRepaymentSplit(s, received, principal, fee, drawn) ==
  /\ s.principal \in 0 .. principal
  /\ s.fee \in 0 .. fee
  /\ s.reserve \in 0 .. drawn
  /\ s.owner \in Nat
  /\ s.principal + s.fee + s.reserve + s.owner = received
  /\ s.owner > 0 => s.principal = principal /\ s.fee = fee /\ s.reserve = drawn

\* The repayment split of any revenue is natural in every part and adds up to it.
LEMMA RepaymentFacts ==
  ASSUME NEW r \in Nat, NEW p \in Nat, NEW f \in Nat, NEW d \in Nat
  PROVE  IsRepaymentSplit(RepaymentWaterfall(r, p, f, d), r, p, f, d)
  BY DEF RepaymentWaterfall, Least, IsRepaymentSplit

(***************************************************************************)
(* Recovery accounts for the whole debt, draws at most the signed cap and  *)
(* books a loss only beyond it (waterfall.py run_recovery_waterfall).      *)
(***************************************************************************)
IsRecoverySplit(s, owed, unspent, cap) ==
  /\ s.swept \in 0 .. owed /\ s.swept <= unspent
  /\ unspent <= owed => s.swept = unspent
  /\ s.reserve \in 0 .. cap
  /\ s.loss \in Nat
  /\ s.swept + s.reserve + s.loss = owed
  /\ s.loss > 0 => s.reserve = cap

\* The recovery split adds up to what is owed, and the reserve stays within its cap.
LEMMA RecoveryFacts ==
  ASSUME NEW owed \in Nat, NEW unspent \in Nat, NEW cap \in Nat
  PROVE  IsRecoverySplit(RecoveryWaterfall(owed, unspent, 0, cap, cap), owed, unspent, cap)
  BY DEF RecoveryWaterfall, Least, IsRecoverySplit

(***************************************************************************)
(* What the rules guarantee of a payment they allow (rules.py).            *)
(***************************************************************************)
LEMMA AllowedByRules ==
  ASSUME NEW v, NEW spend, RuleDenials(v, spend) = {}
  PROVE  /\ vault[v].status \in SpendableStatuses
         /\ agent[vault[v].agent].status \notin {"FROZEN", "REVOKED"}
         /\ spend.currency = "own"
         /\ ~(spend.amount <= 0)
         /\ spend.amount > 0 => ~(vault[v].spent + spend.amount > vault[v].total)
<1>1. EvaluateProposal(VaultLimits(v), spend, Recent(v), now) = {}
  BY DEF RuleDenials
<1>2. /\ VaultLimits(v).status = vault[v].status
      /\ VaultLimits(v).agent_status = agent[vault[v].agent].status
      /\ VaultLimits(v).currency = "own"
      /\ VaultLimits(v).total = vault[v].total
      /\ VaultLimits(v).spent = vault[v].spent
  BY DEF VaultLimits
<1>3. /\ AgentDenials(VaultLimits(v)) = {}
      /\ StatusDenials(VaultLimits(v), now) = {}
      /\ When(spend.currency # VaultLimits(v).currency, "CURRENCY_MISMATCH") = {}
      /\ AmountDenials(VaultLimits(v), spend) = {}
  BY <1>1 DEF EvaluateProposal
<1>4. vault[v].status \in SpendableStatuses
  BY <1>2, <1>3 DEF StatusDenials, When, SpendableStatuses
<1>5. agent[vault[v].agent].status \notin {"FROZEN", "REVOKED"}
  BY <1>2, <1>3 DEF AgentDenials, When
<1>6. spend.currency = "own"
  BY <1>2, <1>3 DEF When
<1>7. /\ ~(spend.amount <= 0)
      /\ spend.amount > 0 => ~(vault[v].spent + spend.amount > vault[v].total)
  BY <1>2, <1>3 DEF AmountDenials, When
<1>8. QED
  BY <1>4, <1>5, <1>6, <1>7

-----------------------------------------------------------------------------
USE DEF Currencies, AgentStatuses

(***************************************************************************)
(* The journals of the handlers, account by account.                       *)
(***************************************************************************)
LEMMA NoLinesFacts ==
  NoLines \in [Accounts -> Int] /\ \A a \in Accounts : NoLines[a] = 0
  BY DEF NoLines

\* A disbursement journal is balanced and touches two accounts.
LEMMA DisbursementFacts ==
  ASSUME NEW n \in Int
  PROVE  LET l == DisbursementLines(n)
         IN  /\ l \in [Accounts -> Int]
             /\ l["PRINCIPAL_RECEIVABLE"] = n
             /\ l["VAULT_AVAILABLE"] = -n
             /\ \A a \in Accounts \ {"PRINCIPAL_RECEIVABLE", "VAULT_AVAILABLE"} : l[a] = 0
  BY NoLinesFacts DEF DisbursementLines, Accounts

\* A vendor payment journal is balanced and touches two accounts.
LEMMA PaymentFacts ==
  ASSUME NEW n \in Int
  PROVE  LET l == PaymentLines(n)
         IN  /\ l \in [Accounts -> Int]
             /\ l["VAULT_AVAILABLE"] = n
             /\ l["VENDOR_PAYABLE"] = -n
             /\ \A a \in Accounts \ {"VENDOR_PAYABLE", "VAULT_AVAILABLE"} : l[a] = 0
  BY NoLinesFacts DEF PaymentLines, Accounts

\* A revenue journal is balanced and touches two accounts.
LEMMA RevenueFacts ==
  ASSUME NEW n \in Int
  PROVE  LET l == RevenueLines(n)
         IN  /\ l \in [Accounts -> Int]
             /\ l["SANDBOX_CASH"] = n
             /\ l["REVENUE_ESCROW"] = -n
             /\ \A a \in Accounts \ {"SANDBOX_CASH", "REVENUE_ESCROW"} : l[a] = 0
  BY NoLinesFacts DEF RevenueLines, Accounts

\* The journal of a repayment split is balanced, and its lines are the parts.
LEMMA RepaymentLineFacts ==
  ASSUME NEW n \in Int, NEW s,
         s.principal \in Int, s.fee \in Int, s.reserve \in Int, s.owner \in Int
  PROVE  LET l == RepaymentLines(n, s)
         IN  /\ l \in [Accounts -> Int]
             /\ l["REVENUE_ESCROW"] = n
             /\ l["PRINCIPAL_RECEIVABLE"] = -s.principal
             /\ l["FEE_INCOME"] = -s.fee
             /\ l["RESERVE_POOL"] = -s.reserve
             /\ l["OWNER_PAYABLE"] = -s.owner
             /\ \A a \in {"SANDBOX_CASH", "VAULT_AVAILABLE", "VENDOR_PAYABLE",
                          "LOSS_DEFAULT"} : l[a] = 0
<1> DEFINE P == -s.principal  F == -s.fee  R == -s.reserve  O == -s.owner
<1>1. P \in Int /\ F \in Int /\ R \in Int /\ O \in Int
  OBVIOUS
<1>2. RepaymentLines(n, s) =
        [NoLines EXCEPT !["REVENUE_ESCROW"] = n, !["PRINCIPAL_RECEIVABLE"] = P,
                        !["FEE_INCOME"] = F, !["RESERVE_POOL"] = R, !["OWNER_PAYABLE"] = O]
  BY DEF RepaymentLines
<1> HIDE DEF P, F, R, O
<1>3. LET l == RepaymentLines(n, s)
      IN  /\ l \in [Accounts -> Int]
          /\ l["REVENUE_ESCROW"] = n
          /\ l["PRINCIPAL_RECEIVABLE"] = P
          /\ l["FEE_INCOME"] = F
          /\ l["RESERVE_POOL"] = R
          /\ l["OWNER_PAYABLE"] = O
          /\ \A a \in {"SANDBOX_CASH", "VAULT_AVAILABLE", "VENDOR_PAYABLE",
                       "LOSS_DEFAULT"} : l[a] = 0
  BY <1>1, <1>2, NoLinesFacts DEF Accounts
<1>4. QED
  BY <1>3 DEF P, F, R, O

\* The journal of a recovery split is balanced, and its lines are the parts.
LEMMA RecoveryLineFacts ==
  ASSUME NEW s, s.swept \in Int, s.reserve \in Int, s.loss \in Int
  PROVE  LET l == RecoveryLines(s)
         IN  /\ l \in [Accounts -> Int]
             /\ l["VAULT_AVAILABLE"] = s.swept
             /\ l["RESERVE_POOL"] = s.reserve
             /\ l["LOSS_DEFAULT"] = s.loss
             /\ l["PRINCIPAL_RECEIVABLE"] = -(s.swept + s.reserve + s.loss)
             /\ \A a \in {"SANDBOX_CASH", "REVENUE_ESCROW", "VENDOR_PAYABLE",
                          "OWNER_PAYABLE", "FEE_INCOME"} : l[a] = 0
<1> DEFINE T == -(s.swept + s.reserve + s.loss)
<1>1. T \in Int
  OBVIOUS
<1>2. RecoveryLines(s) =
        [NoLines EXCEPT !["VAULT_AVAILABLE"] = s.swept, !["RESERVE_POOL"] = s.reserve,
                        !["LOSS_DEFAULT"] = s.loss, !["PRINCIPAL_RECEIVABLE"] = T]
  BY DEF RecoveryLines
<1> HIDE DEF T
<1>3. LET l == RecoveryLines(s)
      IN  /\ l \in [Accounts -> Int]
          /\ l["VAULT_AVAILABLE"] = s.swept
          /\ l["RESERVE_POOL"] = s.reserve
          /\ l["LOSS_DEFAULT"] = s.loss
          /\ l["PRINCIPAL_RECEIVABLE"] = T
          /\ \A a \in {"SANDBOX_CASH", "REVENUE_ESCROW", "VENDOR_PAYABLE",
                       "OWNER_PAYABLE", "FEE_INCOME"} : l[a] = 0
  BY <1>1, <1>2, NoLinesFacts DEF Accounts
<1>4. QED
  BY <1>3 DEF T

\* Posting keeps the type of a book.
LEMMA PostType ==
  ASSUME NEW book \in [Currencies -> [Accounts -> Int]], NEW key, NEW c \in Currencies,
         NEW lines \in [Accounts -> Int]
  PROVE  Post(book, key, c, lines) \in [Currencies -> [Accounts -> Int]]
  BY DEF Post
-----------------------------------------------------------------------------
(***************************************************************************)
(* Type correctness.                                                       *)
(***************************************************************************)
LEMMA MoveSources ==
  ASSUME NEW s
  PROVE  /\ VaultMove(s, "FROZEN") => s \in {"CREATED", "ACTIVE", "SPENDING"}
         /\ VaultMove(s, "CLOSED") => s \in {"REPAID", "PARTIALLY_REPAID", "DEFAULTED"}
         /\ VaultMove(s, "REVENUE_RECEIVED") =>
              s \in {"EXPIRED", "TASK_COMPLETED", "TASK_FAILED", "REVENUE_RECEIVED",
                     "PARTIALLY_REPAID"}
         /\ ~VaultMove("NONE", s)
  BY DEF VaultMove, CanMove, VaultTransitions

\* A vault that exists has all the columns of its table.
LEMMA RowOfExistingVault ==
  ASSUME TypeOK, NEW v \in Vaults, Exists(v)
  PROVE  vault[v] \in VaultRows
  BY DEF TypeOK, Exists, NoVault

\* What the mandate of a task lets a recovery draw is a natural number.
LEMMA ReserveCapType ==
  ASSUME TypeOK, NEW task \in Tasks
  PROVE  ReserveCap(task) \in Nat
  BY DEF TypeOK, ReserveCap, NoMandate

\* The fee charged at creation is a natural number.
LEMMA FeeType ==
  ASSUME NEW limit \in Limits
  PROVE  (limit * FeeRatePpm) \div PPM \in Nat
<1>1. PPM \in Nat /\ \A n \in Nat : n \div PPM \in Nat
  BY SMT DEF PPM
<1>2. limit \in Nat /\ FeeRatePpm \in Nat
  BY <1>1, AmountsAssumption, RatesAssumption, SMT DEF Positive
<1>3. limit * FeeRatePpm \in Nat
  BY <1>2, SMT
<1>4. QED
  BY <1>1, <1>3

\* create_vault keeps the types.
LEMMA TypeCreateVault ==
  ASSUME TypeOK, NEW v \in Vaults, NEW a \in Agents, NEW limit \in Limits,
         NEW perTxn \in PerTxnLimits \cup {limit}, NEW vendors \in AllowLists,
         NEW duration \in Durations, NEW task \in Tasks,
         CreateVault(v, a, task, limit, perTxn, vendors, duration)
  PROVE  TypeOK'
<1>1. /\ limit \in Nat \ {0} /\ perTxn \in Nat /\ duration \in Nat
      /\ vendors \subseteq Vendors
  BY AmountsAssumption, TimeAssumption, VendorsAssumption DEF Positive
<1> DEFINE row == NewRow(a, task, limit, perTxn, vendors, now + duration)
<1>2. vault' \in [Vaults -> VaultRows \cup {NoVault}]
  <2>1. "ACTIVE" \in VaultStatuses /\ now + duration \in Nat
    BY <1>1 DEF VaultStatuses, TypeOK
  <2>2. row \in VaultRows
    BY <1>1, <2>1, FeeType DEF NewRow, VaultRows
  <2>3. vault' = [vault EXCEPT ![v] = row]
    BY DEF CreateVault
  <2> HIDE DEF row
  <2>4. QED
    BY <2>2, <2>3 DEF TypeOK
<1>3. books' \in [Vaults -> [Currencies -> [Accounts -> Int]]]
  <2> DEFINE lines == DisbursementLines(limit)
             book == Post(books[v], <<"disburse", v>>, "own", lines)
  <2>1. lines \in [Accounts -> Int]
    BY <1>1, DisbursementFacts
  <2>2. books' = [books EXCEPT ![v] = book]
    BY DEF CreateVault
  <2> HIDE DEF lines
  <2>3. book \in [Currencies -> [Accounts -> Int]]
    BY <2>1, PostType DEF TypeOK
  <2> HIDE DEF book
  <2>4. QED
    BY <2>2, <2>3 DEF TypeOK
<1>4. posted' \subseteq JournalKeys
  BY DEF CreateVault, TypeOK, JournalKeys
<1>5. QED
  BY <1>2, <1>3, <1>4 DEF CreateVault, TypeOK

\* propose_transaction keeps the types.
LEMMA TypePropose ==
  ASSUME TypeOK, NEW k \in Keys, NEW v \in Vaults, NEW spend \in Spends,
         Propose(k, v, spend)
  PROVE  TypeOK'
<1>1. spend.vendor \in Vendors /\ spend.amount \in Nat \ {0} /\ spend.purpose \in Purposes
      /\ spend.currency \in Currencies
  BY AmountsAssumption DEF Spends, Positive
<1>2. vault' \in [Vaults -> VaultRows \cup {NoVault}]
  <2>1. vault[v] \in VaultRows
    BY RowOfExistingVault DEF Propose
  <2>2. QED
    BY <2>1 DEF Propose, TypeOK, VaultRows, VaultStatuses
<1>3. proposal' \in [Keys -> ProposalRows \cup {NoProposal, Denied}]
  BY <1>1 DEF Propose, TypeOK, ProposalRows
<1>4. QED
  BY <1>2, <1>3 DEF Propose, TypeOK

\* An approved proposal carries the terms it was approved with.
LEMMA ProposalOfApproved ==
  ASSUME TypeOK, NEW k \in Keys, proposal[k].status \in {"APPROVED", "EXECUTED"}
  PROVE  proposal[k] \in ProposalRows
  BY DEF TypeOK, NoProposal, Denied

\* The row execute_transaction leaves is a vault row.
LEMMA PaidRowType ==
  ASSUME NEW r \in VaultRows, NEW amount \in Nat
  PROVE  PaidRow(r, amount) \in VaultRows
<1>1. "SPENDING" \in VaultStatuses
  BY DEF VaultStatuses
<1>2. r.spent + amount \in Nat /\ r.count + 1 \in Nat
  BY DEF VaultRows
<1>3. QED
  BY <1>1, <1>2 DEF PaidRow, VaultRows

\* The row receive_revenue leaves is a vault row.
LEMMA RepaidRowType ==
  ASSUME NEW r \in VaultRows, NEW split, NEW end \in {"REPAID", "PARTIALLY_REPAID"},
         split.principal \in 0 .. r.principal, split.fee \in 0 .. r.fee,
         split.reserve \in 0 .. r.reserve_drawn
  PROVE  RepaidRow(r, split, end) \in VaultRows
<1>1. end \in VaultStatuses
  BY DEF VaultStatuses
<1>2. /\ r.principal - split.principal \in Nat
      /\ r.fee - split.fee \in Nat
      /\ r.reserve_drawn - split.reserve \in Nat
  BY DEF VaultRows
<1>3. QED
  BY <1>1, <1>2 DEF RepaidRow, VaultRows

\* The row simulate_failure leaves is a vault row.
LEMMA RecoveredRowType ==
  ASSUME NEW r \in VaultRows, NEW split, NEW end \in {"REPAID", "DEFAULTED"},
         split.reserve \in Nat
  PROVE  RecoveredRow(r, split, end) \in VaultRows
<1>1. end \in VaultStatuses
  BY DEF VaultStatuses
<1>2. r.reserve_drawn + split.reserve \in Nat
  BY DEF VaultRows
<1>3. QED
  BY <1>1, <1>2 DEF RecoveredRow, VaultRows

\* execute_transaction keeps the types.
LEMMA TypeExecute ==
  ASSUME TypeOK, NEW k \in Keys, NEW v, v = proposal[k].vault, Execute(k)
  PROVE  TypeOK'
<1> DEFINE amount == proposal[k].amount
           book == Post(books[v], <<"spend", k>>, proposal[k].currency, PaymentLines(amount))
           row == PaidRow(vault[v], amount)
<1>1. proposal[k] \in ProposalRows
  BY ProposalOfApproved DEF Execute
<1>2. /\ v \in Vaults /\ amount \in Nat \ {0} /\ proposal[k].currency \in Currencies
      /\ proposal[k].vendor \in Vendors
  BY <1>1 DEF ProposalRows
<1>3. vault[v] \in VaultRows
  <2>1. vault[v].status \in SpendableStatuses
    BY AllowedByRules DEF Execute
  <2>2. QED
    BY <1>2, <2>1, RowOfExistingVault DEF Exists, SpendableStatuses
<1>4. /\ vault' = [vault EXCEPT ![v] = row]
      /\ books' = [books EXCEPT ![v] = book]
      /\ txn' = [txn EXCEPT ![k] = [key |-> k, vault |-> v, vendor |-> proposal[k].vendor,
                                    amount |-> amount, at |-> now]]
  BY DEF Execute
<1>5. row \in VaultRows
  BY <1>2, <1>3, PaidRowType
<1>6. book \in [Currencies -> [Accounts -> Int]]
  <2>1. books[v] \in [Currencies -> [Accounts -> Int]]
    BY <1>2 DEF TypeOK
  <2>2. PaymentLines(amount) \in [Accounts -> Int]
    BY <1>2, PaymentFacts
  <2>3. QED
    BY <1>2, <2>1, <2>2, PostType
<1>7. posted' \subseteq JournalKeys
  BY DEF Execute, TypeOK, JournalKeys
<1>8. proposal' \in [Keys -> ProposalRows \cup {NoProposal, Denied}]
  BY <1>1 DEF Execute, TypeOK, ProposalRows
<1>9. txn' \in [Keys -> TxnRows \cup {NoTxn}]
  BY <1>2, <1>4 DEF TypeOK, TxnRows
<1>10. UNCHANGED <<now, mandate, agent, revenue, repayments>>
  BY DEF Execute
<1> HIDE DEF book, row
<1>11. QED
  BY <1>2, <1>4, <1>5, <1>6, <1>7, <1>8, <1>9, <1>10 DEF TypeOK

\* Revenue is accepted only by a vault that is spendable or awaits repayment.
LEMMA AcceptsFacts ==
  ASSUME NEW status, NEW completed \in BOOLEAN, AcceptsRevenue(status, completed)
  PROVE  status \in {"ACTIVE", "SPENDING", "EXPIRED", "TASK_COMPLETED", "TASK_FAILED",
                     "REVENUE_RECEIVED", "PARTIALLY_REPAID"}
  BY MoveSources DEF AcceptsRevenue, AfterTask

(***************************************************************************)
(* What receive_revenue writes, with its split of the revenue and the      *)
(* vault's final status named.                                             *)
(***************************************************************************)
Receipt(e, split) ==
  [kind |-> "WATERFALL", journal |-> <<"waterfall", e>>,
   principal |-> split.principal, fee |-> split.fee,
   reserve |-> split.reserve, owner |-> split.owner, loss |-> 0]

RevenueEffects(v, e, amount, currency, split, end) ==
  /\ vault[v] \in VaultRows
  /\ vault[v].status \in {"ACTIVE", "SPENDING", "EXPIRED", "TASK_COMPLETED", "TASK_FAILED",
                          "REVENUE_RECEIVED", "PARTIALLY_REPAID"}
  /\ amount \in Nat \ {0}
  /\ end = IF vault[v].principal - split.principal = 0 /\ vault[v].fee - split.fee = 0
             THEN "REPAID" ELSE "PARTIALLY_REPAID"
  /\ IsRepaymentSplit(split, amount, vault[v].principal, vault[v].fee, vault[v].reserve_drawn)
  /\ vault' = [vault EXCEPT ![v] = RepaidRow(vault[v], split, end)]
  /\ books' = [books EXCEPT ![v] =
       Post(Post(books[v], <<"revenue", e>>, currency, RevenueLines(amount)),
            <<"waterfall", e>>, currency, RepaymentLines(amount, split))]
  /\ repayments' = [repayments EXCEPT ![v] = Append(repayments[v], Receipt(e, split))]

\* What receive_revenue changes, part by part of the repayment split.
LEMMA RevenueSteps ==
  ASSUME TypeOK, NEW v \in Vaults, NEW e \in Events, NEW amount \in RevenueAmounts,
         NEW currency \in Currencies, NEW completed \in BOOLEAN,
         ReceiveRevenue(v, e, amount, currency, completed)
  PROVE  \E split, end : RevenueEffects(v, e, amount, currency, split, end)
<1> DEFINE split == RepaymentWaterfall(amount, vault[v].principal, vault[v].fee,
                                       vault[v].reserve_drawn)
           end == RepaidStatus(vault[v].principal - split.principal,
                               vault[v].fee - split.fee)
<1>1. vault[v].status \in {"ACTIVE", "SPENDING", "EXPIRED", "TASK_COMPLETED", "TASK_FAILED",
                           "REVENUE_RECEIVED", "PARTIALLY_REPAID"}
  BY AcceptsFacts DEF ReceiveRevenue
<1>2. vault[v] \in VaultRows
  BY <1>1, RowOfExistingVault DEF Exists
<1>3. amount \in Nat \ {0}
  BY AmountsAssumption DEF Positive
<1>4. vault[v].principal \in Nat /\ vault[v].fee \in Nat /\ vault[v].reserve_drawn \in Nat
  BY <1>2 DEF VaultRows
<1>5. IsRepaymentSplit(split, amount, vault[v].principal, vault[v].fee,
                       vault[v].reserve_drawn)
  BY <1>3, <1>4, RepaymentFacts
<1>6. end = IF vault[v].principal - split.principal = 0 /\ vault[v].fee - split.fee = 0
              THEN "REPAID" ELSE "PARTIALLY_REPAID"
  BY DEF RepaidStatus
<1>7. /\ vault' = [vault EXCEPT ![v] = RepaidRow(vault[v], split, end)]
      /\ books' = [books EXCEPT ![v] =
           Post(Post(books[v], <<"revenue", e>>, currency, RevenueLines(amount)),
                <<"waterfall", e>>, currency, RepaymentLines(amount, split))]
      /\ repayments' = [repayments EXCEPT ![v] = Append(repayments[v], Receipt(e, split))]
  BY DEF ReceiveRevenue, Receipt
<1> HIDE DEF split, end
<1>8. RevenueEffects(v, e, amount, currency, split, end)
  BY <1>1, <1>2, <1>3, <1>5, <1>6, <1>7 DEF RevenueEffects
<1>9. QED
  BY <1>8

\* The journal of a repayment split has an integer on every account.
LEMMA RepaymentLinesType ==
  ASSUME NEW v, NEW e, NEW amount, NEW currency, NEW split, NEW end,
         RevenueEffects(v, e, amount, currency, split, end)
  PROVE  RepaymentLines(amount, split) \in [Accounts -> Int]
<1>1. vault[v].principal \in Nat /\ vault[v].fee \in Nat /\ vault[v].reserve_drawn \in Nat
  BY DEF RevenueEffects, VaultRows
<1>2. /\ split.principal \in Int /\ split.fee \in Int /\ split.reserve \in Int
      /\ split.owner \in Int /\ amount \in Int
  BY <1>1 DEF RevenueEffects, IsRepaymentSplit
<1>3. QED
  BY <1>2, RepaymentLineFacts

\* receive_revenue keeps the types.
LEMMA TypeReceiveRevenue ==
  ASSUME TypeOK, NEW v \in Vaults, NEW e \in Events, NEW amount \in RevenueAmounts,
         NEW currency \in Currencies, NEW completed \in BOOLEAN,
         ReceiveRevenue(v, e, amount, currency, completed)
  PROVE  TypeOK'
<1>1. PICK split, end : RevenueEffects(v, e, amount, currency, split, end)
  BY RevenueSteps
<1> DEFINE escrowed == Post(books[v], <<"revenue", e>>, currency, RevenueLines(amount))
           book == Post(escrowed, <<"waterfall", e>>, currency, RepaymentLines(amount, split))
           row == RepaidRow(vault[v], split, end)
<1>2. /\ vault[v] \in VaultRows /\ amount \in Nat \ {0}
      /\ end \in {"REPAID", "PARTIALLY_REPAID"}
      /\ split.principal \in 0 .. vault[v].principal
      /\ split.fee \in 0 .. vault[v].fee
      /\ split.reserve \in 0 .. vault[v].reserve_drawn
      /\ split.owner \in Nat
  BY <1>1 DEF RevenueEffects, IsRepaymentSplit
<1>3. /\ vault' = [vault EXCEPT ![v] = row]
      /\ books' = [books EXCEPT ![v] = book]
      /\ repayments' = [repayments EXCEPT ![v] = Append(repayments[v], Receipt(e, split))]
  BY <1>1 DEF RevenueEffects
<1>4. UNCHANGED <<now, mandate, agent, proposal, txn>>
  BY DEF ReceiveRevenue
<1>5. posted' \subseteq JournalKeys
  BY DEF ReceiveRevenue, TypeOK, JournalKeys
<1>6. revenue' \in [Events -> [vault : Vaults, amount : Nat \ {0}] \cup {NoRevenue}]
  BY <1>2 DEF ReceiveRevenue, TypeOK
<1>7. row \in VaultRows
  BY <1>2, RepaidRowType
<1>8. book \in [Currencies -> [Accounts -> Int]]
  <2>1. books[v] \in [Currencies -> [Accounts -> Int]]
    BY DEF TypeOK
  <2>2. RevenueLines(amount) \in [Accounts -> Int]
    BY <1>2, RevenueFacts
  <2>3. escrowed \in [Currencies -> [Accounts -> Int]]
    BY <2>1, <2>2, PostType
  <2>4. RepaymentLines(amount, split) \in [Accounts -> Int]
    BY <1>1, RepaymentLinesType
  <2> HIDE DEF escrowed
  <2>5. QED
    BY <2>3, <2>4, PostType
<1>9. Receipt(e, split) \in Repayments
  <2>1. /\ split.principal \in Nat /\ split.fee \in Nat /\ split.reserve \in Nat
    BY <1>2 DEF VaultRows
  <2>2. <<"waterfall", e>> \in JournalKeys
    BY DEF JournalKeys
  <2>3. QED
    BY <1>2, <2>1, <2>2 DEF Receipt, Repayments
<1> HIDE DEF row, book
<1>10. QED
  BY <1>2, <1>3, <1>4, <1>5, <1>6, <1>7, <1>8, <1>9 DEF TypeOK

(***************************************************************************)
(* What simulate_failure writes.  That the vault owes its whole limit and  *)
(* has drawn no reserve comes from the invariant.                          *)
(***************************************************************************)
RecoveryReceipt(v, split) ==
  [kind |-> "RECOVERY", journal |-> <<"recovery", v>>,
   principal |-> split.swept, fee |-> 0,
   reserve |-> split.reserve, owner |-> 0, loss |-> split.loss]

FailureEffects(v, split, end) ==
  /\ vault[v] \in VaultRows /\ vault[v].status \in OpenStatuses
  /\ vault[v].principal = vault[v].total /\ vault[v].spent <= vault[v].total
  /\ IsRecoverySplit(split, vault[v].total, vault[v].total - vault[v].spent,
                     ReserveCap(vault[v].task))
  /\ end = IF split.loss > 0 THEN "DEFAULTED" ELSE "REPAID"
  /\ vault' = [vault EXCEPT ![v] = RecoveredRow(vault[v], split, end)]
  /\ books' = [books EXCEPT ![v] =
       Post(books[v], <<"recovery", v>>, "own", RecoveryLines(split))]
  /\ posted' = posted \cup {<<"recovery", v>>}
  /\ repayments' = [repayments EXCEPT ![v] = Append(repayments[v], RecoveryReceipt(v, split))]

\* What simulate_failure changes, part by part of the recovery split.
LEMMA FailureSteps ==
  ASSUME TypeOK, IInv, NEW v \in Vaults, SimulateFailure(v)
  PROVE  \E split, end : FailureEffects(v, split, end)
<1> DEFINE unspent == vault[v].total - vault[v].spent
           cap == ReserveCap(vault[v].task)
           split == RecoveryWaterfall(vault[v].principal, unspent, 0, cap, cap)
           end == IF split.loss > 0 THEN "DEFAULTED" ELSE "REPAID"
           total == split.swept + split.reserve + split.loss
<1>1. vault[v].status \in {"ACTIVE", "SPENDING", "FROZEN", "EXPIRED"}
  BY DEF SimulateFailure
<1>2. Exists(v) /\ vault[v] \in VaultRows
  BY <1>1, RowOfExistingVault DEF Exists
<1>3. /\ vault[v].status \in OpenStatuses
      /\ vault[v].principal = vault[v].total /\ vault[v].spent <= vault[v].total
  BY <1>1, <1>2 DEF IInv, Sound, Settled, Live, OpenStatuses
<1>4. /\ vault[v].total \in Nat \ {0} /\ vault[v].spent \in Nat /\ cap \in Nat
      /\ unspent \in Nat
  BY <1>2, <1>3, ReserveCapType DEF VaultRows
<1>5. IsRecoverySplit(split, vault[v].total, unspent, cap)
  <2>1. IsRecoverySplit(RecoveryWaterfall(vault[v].total, unspent, 0, cap, cap),
                        vault[v].total, unspent, cap)
    BY <1>4, RecoveryFacts
  <2>2. QED
    BY <1>3, <2>1
<1>6. total # 0
  <2> HIDE DEF split
  <2>1. QED
    BY <1>4, <1>5 DEF IsRecoverySplit
<1>7. /\ books' = [books EXCEPT ![v] =
           Post(books[v], <<"recovery", v>>, "own", RecoveryLines(split))]
      /\ posted' = posted \cup {<<"recovery", v>>}
  BY <1>6 DEF SimulateFailure
<1>8. /\ vault' = [vault EXCEPT ![v] = RecoveredRow(vault[v], split, end)]
      /\ repayments' = [repayments EXCEPT ![v] = Append(repayments[v], RecoveryReceipt(v, split))]
  BY DEF SimulateFailure, RecoveryReceipt
<1>9. end = IF split.loss > 0 THEN "DEFAULTED" ELSE "REPAID"
  OBVIOUS
<1> HIDE DEF split, end, unspent, cap
<1>10. FailureEffects(v, split, end)
  BY <1>2, <1>3, <1>5, <1>7, <1>8, <1>9 DEF FailureEffects, unspent, cap
<1>11. QED
  BY <1>10

\* The parts of a recovery split are natural numbers.
LEMMA RecoverySplitType ==
  ASSUME TypeOK, NEW v, NEW split, NEW end, FailureEffects(v, split, end)
  PROVE  split.swept \in Nat /\ split.reserve \in Nat /\ split.loss \in Nat
<1>1. vault[v].total \in Nat /\ ReserveCap(vault[v].task) \in Nat
  BY ReserveCapType DEF FailureEffects, VaultRows
<1>2. QED
  BY <1>1 DEF FailureEffects, IsRecoverySplit

\* simulate_failure keeps the types.
LEMMA TypeSimulateFailure ==
  ASSUME TypeOK, IInv, NEW v \in Vaults, SimulateFailure(v)
  PROVE  TypeOK'
<1>1. PICK split, end : FailureEffects(v, split, end)
  BY FailureSteps
<1> DEFINE row == RecoveredRow(vault[v], split, end)
           book == Post(books[v], <<"recovery", v>>, "own", RecoveryLines(split))
<1>2. split.swept \in Nat /\ split.reserve \in Nat /\ split.loss \in Nat
  BY <1>1, RecoverySplitType
<1>3. /\ vault[v] \in VaultRows /\ end \in {"REPAID", "DEFAULTED"}
      /\ vault' = [vault EXCEPT ![v] = row]
      /\ books' = [books EXCEPT ![v] = book]
      /\ repayments' = [repayments EXCEPT ![v] = Append(repayments[v], RecoveryReceipt(v, split))]
      /\ posted' = posted \cup {<<"recovery", v>>}
  BY <1>1 DEF FailureEffects
<1>4. UNCHANGED <<now, mandate, agent, proposal, txn, revenue>>
  BY DEF SimulateFailure
<1>5. row \in VaultRows
  BY <1>2, <1>3, RecoveredRowType
<1>6. book \in [Currencies -> [Accounts -> Int]]
  <2>1. books[v] \in [Currencies -> [Accounts -> Int]]
    BY DEF TypeOK
  <2>2. RecoveryLines(split) \in [Accounts -> Int]
    BY <1>2, RecoveryLineFacts
  <2>3. QED
    BY <2>1, <2>2, PostType
<1>7. posted' \subseteq JournalKeys
  BY <1>3 DEF TypeOK, JournalKeys
<1>8. RecoveryReceipt(v, split) \in Repayments
  <2>1. <<"recovery", v>> \in JournalKeys
    BY DEF JournalKeys
  <2>2. QED
    BY <1>2, <2>1 DEF RecoveryReceipt, Repayments
<1> HIDE DEF row, book
<1>9. QED
  BY <1>3, <1>4, <1>5, <1>6, <1>7, <1>8 DEF TypeOK

\* A vault row with another status is a vault row.
LEMMA StatusRowType ==
  ASSUME NEW r \in VaultRows, NEW s \in VaultStatuses
  PROVE  [r EXCEPT !.status = s] \in VaultRows
  BY DEF VaultRows

\* Freezing and closing a vault keep the types.
LEMMA TypeStatusChange ==
  ASSUME TypeOK, NEW v \in Vaults, NEW s \in {"FROZEN", "CLOSED"},
         VaultMove(vault[v].status, s), vault' = [vault EXCEPT ![v].status = s],
         UNCHANGED <<now, mandate, agent, proposal, txn, revenue, repayments, posted, books>>
  PROVE  TypeOK'
<1>1. vault[v] \in VaultRows
  BY MoveSources, RowOfExistingVault DEF Exists
<1>2. [vault[v] EXCEPT !.status = s] \in VaultRows
  BY <1>1, StatusRowType DEF VaultStatuses
<1>3. vault' = [vault EXCEPT ![v] = [vault[v] EXCEPT !.status = s]]
  OBVIOUS
<1>4. QED
  BY <1>2, <1>3 DEF TypeOK

\* The kill switch and the passports keep the types.
LEMMA TypeAgentStep ==
  ASSUME TypeOK, AgentStep
  PROVE  TypeOK'
<1> USE DEF TypeOK
<1>1. ASSUME NEW a \in Agents, NEW ttl \in PassportTtls, IssuePassport(a, ttl)
      PROVE  TypeOK'
  <2>1. now + ttl \in Nat
    BY TimeAssumption DEF Positive
  <2>2. QED
    BY <1>1, <2>1 DEF IssuePassport
<1>2. ASSUME NEW a \in Agents, FreezeAgent(a)
      PROVE  TypeOK'
  BY <1>2 DEF FreezeAgent
<1>3. ASSUME NEW a \in Agents, UnfreezeAgent(a)
      PROVE  TypeOK'
  BY <1>3 DEF UnfreezeAgent
<1>4. ASSUME NEW a \in Agents, RevokeAgent(a)
      PROVE  TypeOK'
  <2>1. agent' \in [Agents -> [status : AgentStatuses, passport_expires : Nat,
                               revoked : BOOLEAN]]
    BY <1>4 DEF RevokeAgent
  <2>2. ASSUME NEW v \in Vaults, v \in OpenVaultsOf(a)
        PROVE  [vault[v] EXCEPT !.status = "FROZEN"] \in VaultRows
    <3>1. vault[v] \in VaultRows
      BY <2>2, RowOfExistingVault DEF OpenVaultsOf, Exists
    <3>2. QED
      BY <3>1, StatusRowType DEF VaultStatuses
  <2>3. vault' \in [Vaults -> VaultRows \cup {NoVault}]
    BY <1>4, <2>2 DEF RevokeAgent
  <2>4. QED
    BY <1>4, <2>1, <2>3 DEF RevokeAgent
<1>5. QED
  BY <1>1, <1>2, <1>3, <1>4 DEF AgentStep

\* create_mandate keeps the types.
LEMMA TypeCreateMandate ==
  ASSUME TypeOK, NEW task \in Tasks, NEW cap \in ReserveCaps, CreateMandate(task, cap)
  PROVE  TypeOK'
<1>1. mandate' \in [Tasks -> Nat \cup {NoMandate}]
  BY AmountsAssumption DEF CreateMandate, TypeOK
<1>2. QED
  BY <1>1 DEF CreateMandate, TypeOK

(***************************************************************************)
(* Every handler keeps the tables' types.  Recovery needs the invariant: a *)
(* vault that had spent more than its limit would be swept of a negative   *)
(* amount.                                                                 *)
(***************************************************************************)
LEMMA TypeNext ==
  ASSUME TypeOK, IInv, [Next]_vars
  PROVE  TypeOK'
<1>1. CASE UNCHANGED vars
  BY <1>1 DEF vars, TypeOK
<1>2. CASE Tick
  BY <1>2 DEF Tick, TypeOK
<1>3. CASE AgentStep
  BY <1>3, TypeAgentStep
<1>4. CASE VaultStep
  <2>1. PICK v \in Vaults :
          \/ \E a \in Agents, task \in Tasks, limit \in Limits, vendors \in AllowLists,
                duration \in Durations :
               \E perTxn \in PerTxnLimits \cup {limit} :
                 CreateVault(v, a, task, limit, perTxn, vendors, duration)
          \/ \E k \in Keys, spend \in Spends : Propose(k, v, spend)
          \/ FreezeVault(v)
          \/ \E e \in Events, amount \in RevenueAmounts, currency \in Currencies,
                completed \in BOOLEAN : ReceiveRevenue(v, e, amount, currency, completed)
          \/ SimulateFailure(v)
          \/ CloseVault(v)
    BY <1>4 DEF VaultStep
  <2>2. FreezeVault(v) => TypeOK'
    BY TypeStatusChange DEF FreezeVault
  <2>3. CloseVault(v) => TypeOK'
    BY TypeStatusChange DEF CloseVault
  <2>4. QED
    BY <2>1, <2>2, <2>3, TypeCreateVault, TypePropose, TypeReceiveRevenue,
       TypeSimulateFailure
<1>5. CASE \E k \in Keys : Execute(k)
  BY <1>5, TypeExecute
<1>6. CASE \E task \in Tasks, cap \in ReserveCaps : CreateMandate(task, cap)
  BY <1>6, TypeCreateMandate
<1>7. QED
  BY <1>1, <1>2, <1>3, <1>4, <1>5, <1>6 DEF Next
=============================================================================
