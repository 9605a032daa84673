--------------------------- MODULE VaultOpsSafety ---------------------------
(***************************************************************************)
(* The inductive invariant of VaultOps and the properties it implies, for  *)
(* every value of the constants.                                           *)
(***************************************************************************)
EXTENDS VaultOpsProofs

USE DEF Currencies, AgentStatuses

(***************************************************************************)
(* Balances.  Posting under a new key adds the lines to the vault's        *)
(* balances, in whatever currency they are posted.                         *)
(***************************************************************************)
BookBalance(book) == [a \in Accounts |-> book["own"][a] + book["other"][a]]

Moved(bal, lines) == [a \in Accounts |-> bal[a] + lines[a]]

Books == [Currencies -> [Accounts -> Int]]

\* The balance of a vault is the sum of its two currencies, account by account.
LEMMA BalanceOfBook ==
  ASSUME TypeOK, NEW v \in Vaults
  PROVE  /\ books[v] \in Books
         /\ Balance(v) = BookBalance(books[v])
         /\ Balance(v) \in [Accounts -> Int]
  BY DEF TypeOK, Books, Balance, BookBalance, Bal

\* A new journal adds its lines to the balance, in whichever currency it is posted.
LEMMA PostBalance ==
  ASSUME NEW book \in Books, NEW key, key \notin posted, NEW c \in Currencies,
         NEW lines \in [Accounts -> Int]
  PROVE  BookBalance(Post(book, key, c, lines)) = Moved(BookBalance(book), lines)
<1> DEFINE after == Post(book, key, c, lines)
<1>1. after = [book EXCEPT ![c] = [a \in Accounts |-> book[c][a] + lines[a]]]
  BY DEF Post
<1>2. \A a \in Accounts : after["own"][a] + after["other"][a]
                            = book["own"][a] + book["other"][a] + lines[a]
  <2> HIDE DEF after
  <2>1. CASE c = "own"
    BY <1>1, <2>1 DEF Books
  <2>2. CASE c = "other"
    BY <1>1, <2>2 DEF Books
  <2>3. QED
    BY <2>1, <2>2
<1> HIDE DEF after
<1>3. BookBalance(after) = Moved(BookBalance(book), lines)
  BY <1>2 DEF BookBalance, Moved
<1>4. QED
  BY <1>3 DEF after

(***************************************************************************)
(* A vault whose row, books and recovery key stay is as sound as before.   *)
(***************************************************************************)
LEMMA SoundFrame ==
  ASSUME NEW w, Sound(w), vault'[w] = vault[w], books'[w] = books[w],
         Recovered(w)' <=> Recovered(w)
  PROVE  Sound(w)'
  BY DEF Sound, Exists, Balance, Bal

(***************************************************************************)
(* The rows the four handlers leave, as arithmetic on one row and one      *)
(* vector of balances.                                                     *)
(***************************************************************************)
LEMMA LiveNewRow ==
  ASSUME NEW a, NEW limit \in Nat \ {0}, NEW perTxn, NEW vendors, NEW expires, NEW task,
         NEW bal, bal = Moved(NoLines, DisbursementLines(limit))
  PROVE  Live(NewRow(a, task, limit, perTxn, vendors, expires), bal)
<1>1. /\ bal["PRINCIPAL_RECEIVABLE"] = limit
      /\ bal["VAULT_AVAILABLE"] = -limit
      /\ \A x \in Accounts \ {"PRINCIPAL_RECEIVABLE", "VAULT_AVAILABLE"} : bal[x] = 0
  <2> DEFINE l == DisbursementLines(limit)
  <2>1. /\ l["PRINCIPAL_RECEIVABLE"] = limit
        /\ l["VAULT_AVAILABLE"] = -limit
        /\ \A x \in Accounts \ {"PRINCIPAL_RECEIVABLE", "VAULT_AVAILABLE"} : l[x] = 0
    BY DisbursementFacts
  <2> HIDE DEF l
  <2>2. \A x \in Accounts : bal[x] = l[x]
    <3>1. bal = Moved(NoLines, l)
      BY DEF l
    <3>2. \A x \in Accounts : l[x] \in Int
      BY <2>1 DEF Accounts
    <3>3. QED
      BY <3>1, <3>2, NoLinesFacts DEF Moved
  <2>3. QED
    BY <2>1, <2>2 DEF Accounts
<1>2. QED
  BY <1>1 DEF Live, NewRow, OpenStatuses, Accounts

\* A payment the rules allow leaves a live vault live.
LEMMA LivePaidRow ==
  ASSUME NEW r \in VaultRows, NEW b \in [Accounts -> Int], Live(r, b),
         NEW amount \in Nat, r.spent + amount <= r.total,
         r.status \in SpendableStatuses,
         NEW bal, bal = Moved(b, PaymentLines(amount))
  PROVE  Live(PaidRow(r, amount), bal)
<1>1. /\ bal["VAULT_AVAILABLE"] = b["VAULT_AVAILABLE"] + amount
      /\ bal["VENDOR_PAYABLE"] = b["VENDOR_PAYABLE"] - amount
      /\ \A x \in Accounts \ {"VENDOR_PAYABLE", "VAULT_AVAILABLE"} : bal[x] = b[x]
  <2> DEFINE l == PaymentLines(amount)
  <2>1. /\ l["VAULT_AVAILABLE"] = amount
        /\ l["VENDOR_PAYABLE"] = -amount
        /\ \A x \in Accounts \ {"VENDOR_PAYABLE", "VAULT_AVAILABLE"} : l[x] = 0
    BY PaymentFacts
  <2>2. bal = Moved(b, l)
    OBVIOUS
  <2> HIDE DEF l
  <2>3. QED
    BY <2>1, <2>2 DEF Moved, Accounts
<1>2. QED
  BY <1>1 DEF Live, PaidRow, OpenStatuses, Accounts, VaultRows, SpendableStatuses

\* A repayment leaves a live vault live, with the status that tells its debt.
LEMMA LiveRepaidRow ==
  ASSUME NEW r \in VaultRows, NEW b \in [Accounts -> Int], Live(r, b),
         r.status \in {"ACTIVE", "SPENDING", "PARTIALLY_REPAID"},
         NEW amount \in Nat, NEW s,
         IsRepaymentSplit(s, amount, r.principal, r.fee, r.reserve_drawn),
         NEW end,
         end = IF r.principal - s.principal = 0 /\ r.fee - s.fee = 0
                 THEN "REPAID" ELSE "PARTIALLY_REPAID",
         NEW bal, bal = Moved(Moved(b, RevenueLines(amount)), RepaymentLines(amount, s))
  PROVE  Live(RepaidRow(r, s, end), bal)
<1>1. /\ r.principal \in Nat /\ r.fee \in Nat /\ r.reserve_drawn = 0
      /\ b["OWNER_PAYABLE"] = 0
  BY DEF Live, VaultRows, OpenStatuses
<1>2. /\ s.principal \in 0 .. r.principal /\ s.fee \in 0 .. r.fee /\ s.reserve = 0
      /\ s.owner \in Nat
      /\ s.owner > 0 => s.principal = r.principal /\ s.fee = r.fee
  BY <1>1 DEF IsRepaymentSplit
<1>3. /\ bal["PRINCIPAL_RECEIVABLE"] = b["PRINCIPAL_RECEIVABLE"] - s.principal
      /\ bal["REVENUE_ESCROW"] = b["REVENUE_ESCROW"]
      /\ bal["RESERVE_POOL"] = b["RESERVE_POOL"]
      /\ bal["OWNER_PAYABLE"] = -s.owner
      /\ \A x \in {"VAULT_AVAILABLE", "VENDOR_PAYABLE", "LOSS_DEFAULT"} : bal[x] = b[x]
  <2> DEFINE l == RevenueLines(amount)
             m == RepaymentLines(amount, s)
  <2>1. /\ l["REVENUE_ESCROW"] = -amount
        /\ \A x \in Accounts \ {"SANDBOX_CASH", "REVENUE_ESCROW"} : l[x] = 0
    BY RevenueFacts
  <2>2. /\ s.principal \in Int /\ s.fee \in Int /\ s.reserve \in Int /\ s.owner \in Int
    BY <1>1, <1>2
  <2>3. /\ m["REVENUE_ESCROW"] = amount
        /\ m["PRINCIPAL_RECEIVABLE"] = -s.principal
        /\ m["RESERVE_POOL"] = -s.reserve
        /\ m["OWNER_PAYABLE"] = -s.owner
        /\ \A x \in {"VAULT_AVAILABLE", "VENDOR_PAYABLE", "LOSS_DEFAULT"} : m[x] = 0
    BY <2>2, RepaymentLineFacts
  <2>4. bal = Moved(Moved(b, l), m)
    OBVIOUS
  <2> HIDE DEF l, m
  <2>5. QED
    BY <1>1, <1>2, <2>1, <2>2, <2>3, <2>4 DEF Moved, Accounts
<1>4. QED
  BY <1>1, <1>2, <1>3 DEF Live, RepaidRow, OpenStatuses, Accounts, VaultRows

\* Recovery of a live vault that owes its whole limit leaves it settled.
LEMMA SettledRecoveredRow ==
  ASSUME NEW r \in VaultRows, NEW b \in [Accounts -> Int], Live(r, b),
         r.status \in OpenStatuses, NEW s,
         NEW cap \in Nat, IsRecoverySplit(s, r.total, r.total - r.spent, cap),
         NEW end, end = IF s.loss > 0 THEN "DEFAULTED" ELSE "REPAID",
         NEW bal, bal = Moved(b, RecoveryLines(s))
  PROVE  Settled(RecoveredRow(r, s, end), bal)
<1>1. /\ r.total \in Nat /\ r.spent \in Nat /\ r.spent <= r.total
      /\ r.reserve_drawn = 0 /\ b["OWNER_PAYABLE"] = 0 /\ r.principal = r.total
  BY DEF Live, VaultRows
<1>2. /\ s.swept = r.total - r.spent /\ s.reserve \in 0 .. cap /\ s.loss \in Nat
      /\ s.swept + s.reserve + s.loss = r.total
  BY <1>1 DEF IsRecoverySplit
<1>3. /\ bal["VAULT_AVAILABLE"] = b["VAULT_AVAILABLE"] + s.swept
      /\ bal["RESERVE_POOL"] = b["RESERVE_POOL"] + s.reserve
      /\ bal["LOSS_DEFAULT"] = b["LOSS_DEFAULT"] + s.loss
      /\ bal["PRINCIPAL_RECEIVABLE"] = b["PRINCIPAL_RECEIVABLE"] - r.total
      /\ \A x \in {"REVENUE_ESCROW", "VENDOR_PAYABLE", "OWNER_PAYABLE"} : bal[x] = b[x]
  <2> DEFINE l == RecoveryLines(s)
  <2>1. s.swept \in Int /\ s.reserve \in Int /\ s.loss \in Int
    BY <1>1, <1>2
  <2>2. /\ l["VAULT_AVAILABLE"] = s.swept
        /\ l["RESERVE_POOL"] = s.reserve
        /\ l["LOSS_DEFAULT"] = s.loss
        /\ l["PRINCIPAL_RECEIVABLE"] = -(s.swept + s.reserve + s.loss)
        /\ \A x \in {"REVENUE_ESCROW", "VENDOR_PAYABLE", "OWNER_PAYABLE"} : l[x] = 0
    BY <2>1, RecoveryLineFacts
  <2>3. bal = Moved(b, l)
    OBVIOUS
  <2> HIDE DEF l
  <2>4. QED
    BY <1>1, <1>2, <2>1, <2>2, <2>3 DEF Moved, Accounts
<1>4. /\ RecoveredRow(r, s, end).status = end
      /\ RecoveredRow(r, s, end).spent = r.total
      /\ RecoveredRow(r, s, end).total = r.total
      /\ RecoveredRow(r, s, end).principal = 0
      /\ RecoveredRow(r, s, end).fee = 0
      /\ RecoveredRow(r, s, end).reserve_drawn = s.reserve
  BY <1>1, <1>2 DEF RecoveredRow, VaultRows
<1>5. /\ b["VAULT_AVAILABLE"] = r.spent - r.total /\ b["RESERVE_POOL"] = 0
      /\ b["LOSS_DEFAULT"] = 0 /\ b["PRINCIPAL_RECEIVABLE"] = r.total
      /\ b["REVENUE_ESCROW"] = 0 /\ b["VENDOR_PAYABLE"] = -r.spent
  BY <1>1 DEF Live
<1>6. /\ bal["VAULT_AVAILABLE"] = 0 /\ bal["RESERVE_POOL"] = s.reserve
      /\ bal["LOSS_DEFAULT"] = s.loss /\ bal["PRINCIPAL_RECEIVABLE"] = 0
      /\ bal["REVENUE_ESCROW"] = 0 /\ bal["VENDOR_PAYABLE"] = -r.spent
      /\ bal["OWNER_PAYABLE"] = 0
  BY <1>1, <1>2, <1>3, <1>5
<1>7. s.loss + s.reserve = -bal["VENDOR_PAYABLE"]
  BY <1>1, <1>2, <1>6
<1> DEFINE new == RecoveredRow(r, s, end)
<1> HIDE DEF new
<1>8. Settled(new, bal)
  BY <1>1, <1>2, <1>4, <1>6, <1>7 DEF Settled, new
<1>9. QED
  BY <1>8 DEF new
-----------------------------------------------------------------------------
(***************************************************************************)
(* The invariant, one handler at a time.                                   *)
(***************************************************************************)
LEMMA InvInit == Init => TypeOK /\ IInv
<1> SUFFICES ASSUME Init PROVE TypeOK /\ IInv
  OBVIOUS
<1>1. NoLines \in [Accounts -> Int]
  BY NoLinesFacts
<1>2. TypeOK
  BY <1>1 DEF Init, TypeOK
<1>3. KeysMatchRows
  BY DEF Init, KeysMatchRows, Exists, NoVault, NoProposal
<1>4. ApprovedTerms /\ NothingToExecute
  BY DEF Init, ApprovedTerms, NothingToExecute, NoProposal
<1>5. \A v \in Vaults : Sound(v)
  BY DEF Init, Sound, Exists, NoVault, Recovered
<1>6. QED
  BY <1>2, <1>3, <1>4, <1>5 DEF IInv

\* create_vault preserves the inductive invariant.
LEMMA InvCreateVault ==
  ASSUME TypeOK, IInv, NEW v \in Vaults, NEW a \in Agents, NEW limit \in Limits,
         NEW perTxn \in PerTxnLimits \cup {limit}, NEW vendors \in AllowLists,
         NEW duration \in Durations, NEW task \in Tasks,
         CreateVault(v, a, task, limit, perTxn, vendors, duration)
  PROVE  IInv'
<1> DEFINE row == NewRow(a, task, limit, perTxn, vendors, now + duration)
           lines == DisbursementLines(limit)
<1>1. /\ ~Exists(v) /\ <<"disburse", v>> \notin posted /\ Sound(v)
  BY DEF CreateVault, IInv, KeysMatchRows
<1>2. limit \in Nat \ {0}
  BY AmountsAssumption DEF Positive
<1>3. /\ vault' = [vault EXCEPT ![v] = row]
      /\ books' = [books EXCEPT ![v] = Post(books[v], <<"disburse", v>>, "own", lines)]
      /\ posted' = posted \cup {<<"disburse", v>>}
      /\ UNCHANGED <<now, mandate, agent, proposal, txn, revenue, repayments>>
  BY DEF CreateVault
<1>4. row.status = "ACTIVE"
  BY DEF NewRow
<1> HIDE DEF row, lines
<1>5. v \in DOMAIN vault /\ vault'[v] = row /\ \A w \in Vaults \ {v} : vault'[w] = vault[w]
  BY <1>3 DEF TypeOK
<1>6. Exists(v)' /\ \A w \in Vaults \ {v} : Exists(w)' <=> Exists(w)
  BY <1>4, <1>5 DEF Exists
<1>7. KeysMatchRows'
  BY <1>3, <1>6 DEF IInv, KeysMatchRows
<1>8. ApprovedTerms'
  <2>1. ASSUME NEW k \in Keys, proposal[k].status \in {"APPROVED", "EXECUTED"}
        PROVE  proposal[k].vault \in Vaults \ {v}
    BY <1>1, <2>1, ProposalOfApproved DEF ProposalRows, IInv, ApprovedTerms
  <2>2. QED
    BY <1>3, <1>6, <2>1 DEF IInv, ApprovedTerms
<1>9. NothingToExecute'
  <2>1. ASSUME NEW k \in Keys, proposal[k].status = "APPROVED"
        PROVE  proposal[k].vault \in Vaults \ {v}
    BY <1>1, <2>1, ProposalOfApproved DEF ProposalRows, IInv, ApprovedTerms
  <2>2. QED
    BY <1>3, <1>5, <2>1 DEF IInv, NothingToExecute
<1>10. Sound(v)'
  <2>1. books[v] = [c \in Currencies |-> NoLines] /\ ~Recovered(v)
    BY <1>1 DEF Sound
  <2>2. BookBalance(books[v]) = NoLines
    BY <2>1, NoLinesFacts DEF BookBalance, NoLines
  <2>3. lines \in [Accounts -> Int]
    BY <1>2, DisbursementFacts DEF lines
  <2>4. BookBalance(Post(books[v], <<"disburse", v>>, "own", lines)) = Moved(NoLines, lines)
    BY <1>1, <2>2, <2>3, BalanceOfBook, PostBalance
  <2>5. Balance(v)' = Moved(NoLines, lines)
    <3>1. books'[v] = Post(books[v], <<"disburse", v>>, "own", lines)
      BY <1>3 DEF TypeOK
    <3>2. Balance(v)' = BookBalance(books'[v])
      BY DEF Balance, BookBalance, Bal
    <3>3. QED
      BY <2>4, <3>1, <3>2
  <2>6. Live(row, Balance(v)')
    BY <1>2, <2>5, LiveNewRow DEF row, lines
  <2>7. ~Recovered(v)'
    BY <1>3, <2>1 DEF Recovered
  <2>8. QED
    BY <1>5, <1>6, <2>6, <2>7 DEF Sound
<1>11. ASSUME NEW w \in Vaults \ {v} PROVE Sound(w)'
  <2>1. books'[w] = books[w] /\ vault'[w] = vault[w]
    BY <1>3, <1>5 DEF TypeOK
  <2>2. Recovered(w)' <=> Recovered(w)
    BY <1>3 DEF Recovered
  <2>3. QED
    BY <2>1, <2>2, SoundFrame DEF IInv
<1>12. QED
  BY <1>7, <1>8, <1>9, <1>10, <1>11 DEF IInv

(***************************************************************************)
(* Freezing and closing touch the status alone.                            *)
(***************************************************************************)
LEMMA SoundFrozen ==
  ASSUME TypeOK, NEW v \in Vaults, Sound(v),
         vault[v].status \in {"CREATED", "ACTIVE", "SPENDING"},
         vault'[v] = [vault[v] EXCEPT !.status = "FROZEN"],
         books'[v] = books[v], posted' = posted
  PROVE  Sound(v)' /\ Exists(v)'
<1> DEFINE row == [vault[v] EXCEPT !.status = "FROZEN"]
<1>1. Exists(v) /\ vault[v] \in VaultRows
  BY RowOfExistingVault DEF Exists
<1>2. ~Recovered(v) /\ Live(vault[v], Balance(v))
  BY <1>1 DEF Sound, Settled
<1>3. row.status = "FROZEN"
  BY <1>1 DEF VaultRows
<1>4. Live(row, Balance(v))
  BY <1>1, <1>2 DEF Live, OpenStatuses, VaultRows
<1>5. Balance(v)' = Balance(v) /\ ~Recovered(v)'
  BY <1>2 DEF Balance, Bal, Recovered
<1> HIDE DEF row
<1>6. vault'[v] = row
  BY DEF row
<1>7. QED
  BY <1>3, <1>4, <1>5, <1>6 DEF Sound, Exists

\* Closing a sound vault leaves it sound.
LEMMA SoundClosed ==
  ASSUME TypeOK, NEW v \in Vaults, Sound(v),
         vault[v].status \in {"REPAID", "PARTIALLY_REPAID", "DEFAULTED"},
         vault'[v] = [vault[v] EXCEPT !.status = "CLOSED"],
         books'[v] = books[v], posted' = posted
  PROVE  Sound(v)' /\ Exists(v)'
<1> DEFINE row == [vault[v] EXCEPT !.status = "CLOSED"]
<1>1. Exists(v) /\ vault[v] \in VaultRows
  BY RowOfExistingVault DEF Exists
<1>2. row.status = "CLOSED"
  BY <1>1 DEF VaultRows
<1>3. Live(vault[v], Balance(v)) => Live(row, Balance(v))
  BY <1>1 DEF Live, OpenStatuses, VaultRows
<1>4. Settled(vault[v], Balance(v)) => Settled(row, Balance(v))
  BY <1>1 DEF Settled, VaultRows
<1>5. Balance(v)' = Balance(v) /\ (Recovered(v)' <=> Recovered(v))
  BY DEF Balance, Bal, Recovered
<1> HIDE DEF row
<1>6. vault'[v] = row
  BY DEF row
<1>7. QED
  BY <1>1, <1>2, <1>3, <1>4, <1>5, <1>6 DEF Sound, Exists

(***************************************************************************)
(* A step that only moves vaults to a status of no further payment keeps   *)
(* every other part of the invariant.                                      *)
(***************************************************************************)
LEMMA InvStatusChange ==
  ASSUME TypeOK, IInv, NEW v \in Vaults, NEW s \in {"FROZEN", "CLOSED"},
         VaultMove(vault[v].status, s), vault' = [vault EXCEPT ![v].status = s],
         UNCHANGED <<now, mandate, agent, proposal, txn, revenue, repayments, posted, books>>
  PROVE  IInv'
<1>1. vault[v] \in VaultRows
  BY MoveSources, RowOfExistingVault DEF Exists
<1>2. /\ vault'[v] = [vault[v] EXCEPT !.status = s]
      /\ \A w \in Vaults \ {v} : vault'[w] = vault[w]
  BY DEF TypeOK
<1>3. /\ vault'[v].status = s /\ vault'[v].agent = vault[v].agent
      /\ \A w \in Vaults \ {v} : vault'[w] = vault[w]
  BY <1>1, <1>2 DEF VaultRows
<1>4. Sound(v)' /\ Exists(v)' /\ Exists(v)
  <2>1. CASE s = "FROZEN"
    BY <1>2, <2>1, MoveSources, SoundFrozen DEF IInv, Exists
  <2>2. CASE s = "CLOSED"
    BY <1>2, <2>2, MoveSources, SoundClosed DEF IInv, Exists
  <2>3. QED
    BY <2>1, <2>2
<1>5. \A w \in Vaults : Exists(w)' <=> Exists(w)
  BY <1>3, <1>4 DEF Exists
<1>6. KeysMatchRows'
  BY <1>5 DEF IInv, KeysMatchRows
<1>7. ApprovedTerms'
  BY <1>5, ProposalOfApproved DEF IInv, ApprovedTerms, ProposalRows
<1>8. NothingToExecute'
  <2> SUFFICES ASSUME NEW k \in Keys, proposal[k].status = "APPROVED",
                      agent[vault'[proposal[k].vault].agent].revoked
               PROVE  vault'[proposal[k].vault].status \notin SpendableStatuses
    BY DEF NothingToExecute
  <2>1. proposal[k].vault \in Vaults
    BY ProposalOfApproved DEF ProposalRows
  <2>2. CASE proposal[k].vault = v
    BY <1>3, <2>2 DEF SpendableStatuses
  <2>3. CASE proposal[k].vault # v
    BY <1>3, <2>1, <2>3 DEF IInv, NothingToExecute
  <2>4. QED
    BY <2>2, <2>3
<1>9. \A w \in Vaults \ {v} : Sound(w)'
  BY <1>3, SoundFrame DEF IInv, Recovered
<1>10. QED
  BY <1>4, <1>6, <1>7, <1>8, <1>9 DEF IInv

\* propose_transaction preserves the inductive invariant.
LEMMA InvPropose ==
  ASSUME TypeOK, IInv, NEW k \in Keys, NEW v \in Vaults, NEW spend \in Spends,
         Propose(k, v, spend)
  PROVE  IInv'
<1>1. /\ proposal[k] = NoProposal /\ Exists(v)
      /\ UNCHANGED <<now, mandate, agent, txn, revenue, repayments, posted, books>>
  BY DEF Propose
<1>2. \/ vault' = vault
      \/ /\ vault' = [vault EXCEPT ![v].status = "FROZEN"]
         /\ vault[v].status \in SpendableStatuses
  BY DEF Propose
<1>3. \A w \in Vaults :
        \/ vault'[w] = vault[w]
        \/ /\ vault'[w] = [vault[w] EXCEPT !.status = "FROZEN"]
           /\ vault[w].status \in {"CREATED", "ACTIVE", "SPENDING"}
  BY <1>2 DEF TypeOK, SpendableStatuses
<1>4. ASSUME NEW w \in Vaults
      PROVE  /\ Sound(w)'
             /\ Exists(w)' <=> Exists(w)
             /\ vault'[w] # vault[w] => vault'[w].status \notin SpendableStatuses
  <2>1. CASE vault'[w] = vault[w]
    BY <1>1, <2>1, SoundFrame DEF IInv, Recovered, Exists
  <2>2. CASE /\ vault'[w] = [vault[w] EXCEPT !.status = "FROZEN"]
             /\ vault[w].status \in {"CREATED", "ACTIVE", "SPENDING"}
    <3>1. Exists(w) /\ vault[w] \in VaultRows
      BY <2>2, RowOfExistingVault DEF Exists
    <3>2. vault'[w].status = "FROZEN"
      BY <2>2, <3>1 DEF VaultRows
    <3>3. Sound(w)' /\ Exists(w)'
      BY <1>1, <2>2, SoundFrozen DEF IInv
    <3>4. QED
      BY <3>1, <3>2, <3>3 DEF SpendableStatuses
  <2>3. QED
    BY <1>3, <2>1, <2>2
<1>5. \/ proposal' = [proposal EXCEPT ![k] = Denied]
      \/ /\ RuleDenials(v, spend) = {} /\ PolicyDenials(v, spend) = {}
         /\ vault' = vault
         /\ proposal' = [proposal EXCEPT ![k] =
              [status |-> "APPROVED", vault |-> v, vendor |-> spend.vendor,
               amount |-> spend.amount, purpose |-> spend.purpose,
               currency |-> spend.currency]]
  BY DEF Propose
<1>6. \A j \in Keys \ {k} : proposal'[j] = proposal[j]
  BY <1>5 DEF TypeOK
<1>7. \/ proposal'[k] = Denied
      \/ /\ RuleDenials(v, spend) = {} /\ PolicyDenials(v, spend) = {} /\ vault' = vault
         /\ proposal'[k].status = "APPROVED" /\ proposal'[k].vault = v
         /\ proposal'[k].currency = spend.currency
  BY <1>5 DEF TypeOK
<1>8. KeysMatchRows'
  <2>1. proposal[k].status # "EXECUTED" /\ proposal'[k].status # "EXECUTED"
    BY <1>1, <1>7 DEF NoProposal, Denied
  <2>2. QED
    BY <1>1, <1>4, <1>6, <2>1 DEF IInv, KeysMatchRows
<1>9. ASSUME NEW j \in Keys, proposal[j].status \in {"APPROVED", "EXECUTED"}
      PROVE  proposal[j].vault \in Vaults
  BY <1>9, ProposalOfApproved DEF ProposalRows
<1>10. ApprovedTerms'
  <2>1. ASSUME NEW j \in Keys \ {k}, proposal'[j].status \in {"APPROVED", "EXECUTED"}
        PROVE  Exists(proposal[j].vault)' /\ proposal'[j].currency = "own"
    BY <1>4, <1>6, <1>9, <2>1 DEF IInv, ApprovedTerms, Exists
  <2>2. ASSUME proposal'[k].status \in {"APPROVED", "EXECUTED"}
        PROVE  Exists(proposal[k].vault)' /\ proposal'[k].currency = "own"
    <3>1. proposal'[k].vault = v /\ proposal'[k].currency = spend.currency
          /\ RuleDenials(v, spend) = {}
      BY <1>7, <2>2 DEF Denied
    <3>2. QED
      BY <1>1, <1>4, <3>1, AllowedByRules DEF Exists
  <2>3. QED
    BY <2>1, <2>2 DEF ApprovedTerms
<1>11. NothingToExecute'
  <2> SUFFICES ASSUME NEW j \in Keys, proposal'[j].status = "APPROVED",
                      agent'[vault'[proposal'[j].vault].agent].revoked
               PROVE  vault'[proposal'[j].vault].status \notin SpendableStatuses
    BY DEF NothingToExecute
  <2>1. CASE j = k
    <3>1. PolicyDenials(v, spend) = {} /\ vault' = vault /\ proposal'[k].vault = v
      BY <1>7, <2>1 DEF Denied
    <3>2. ~agent[vault[v].agent].revoked
      BY <3>1, Zenon DEF PolicyDenials, EvaluatePolicy, PassportValid, When
    <3>3. QED
      BY <1>1, <2>1, <3>1, <3>2
  <2>2. CASE j # k
    <3>1. proposal[j].status = "APPROVED" /\ proposal'[j] = proposal[j]
          /\ proposal[j].vault \in Vaults
      BY <1>6, <1>9, <2>2
    <3>2. CASE vault'[proposal[j].vault] = vault[proposal[j].vault]
      BY <1>1, <3>1, <3>2 DEF IInv, NothingToExecute
    <3>3. CASE vault'[proposal[j].vault] # vault[proposal[j].vault]
      BY <1>4, <3>1, <3>3
    <3>4. QED
      BY <3>2, <3>3
  <2>3. QED
    BY <2>1, <2>2
<1>12. QED
  BY <1>4, <1>8, <1>10, <1>11 DEF IInv

(***************************************************************************)
(* What execute_transaction writes, for the vault the proposal names.      *)
(***************************************************************************)
PaymentEffects(k, v, amount) ==
  /\ proposal[k] \in ProposalRows /\ proposal[k].status = "APPROVED" /\ proposal[k].vault = v
  /\ txn[k] = NoTxn
  /\ vault[v] \in VaultRows /\ vault[v].status \in SpendableStatuses
  /\ amount \in Nat \ {0} /\ vault[v].spent + amount <= vault[v].total
  /\ vault' = [vault EXCEPT ![v] = PaidRow(vault[v], amount)]
  /\ books' = [books EXCEPT ![v] =
       Post(books[v], <<"spend", k>>, "own", PaymentLines(amount))]
  /\ posted' = posted \cup {<<"spend", k>>}
  /\ proposal' = [proposal EXCEPT ![k].status = "EXECUTED"]
  /\ txn' = [txn EXCEPT ![k] = [key |-> k, vault |-> v, vendor |-> proposal[k].vendor,
                                amount |-> amount, at |-> now]]
  /\ UNCHANGED <<now, mandate, agent, revenue, repayments>>

\* What execute_transaction finds and changes.
LEMMA ExecuteSteps ==
  ASSUME TypeOK, NEW k \in Keys, Execute(k)
  PROVE  PaymentEffects(k, proposal[k].vault, proposal[k].amount)
<1> DEFINE v == proposal[k].vault
           amount == proposal[k].amount
<1>1. proposal[k] \in ProposalRows /\ RuleDenials(v, proposal[k]) = {}
  BY ProposalOfApproved DEF Execute
<1>2. v \in Vaults /\ amount \in Nat \ {0}
  BY <1>1 DEF ProposalRows
<1>3. /\ vault[v].status \in SpendableStatuses
      /\ proposal[k].currency = "own"
      /\ amount > 0 => ~(vault[v].spent + amount > vault[v].total)
  BY <1>1, AllowedByRules
<1>4. vault[v] \in VaultRows
  BY <1>2, <1>3, RowOfExistingVault DEF Exists, SpendableStatuses
<1>5. vault[v].spent + amount <= vault[v].total
  BY <1>2, <1>3, <1>4 DEF VaultRows
<1>6. books' = [books EXCEPT ![v] =
        Post(books[v], <<"spend", k>>, "own", PaymentLines(amount))]
  BY <1>3 DEF Execute
<1>7. QED
  BY <1>1, <1>2, <1>3, <1>4, <1>5, <1>6 DEF Execute, PaymentEffects

\* execute_transaction preserves the inductive invariant.
LEMMA InvExecute ==
  ASSUME TypeOK, IInv, NEW k \in Keys, NEW v \in Vaults, NEW amount,
         PaymentEffects(k, v, amount)
  PROVE  IInv'
<1> DEFINE row == PaidRow(vault[v], amount)
           lines == PaymentLines(amount)
<1>1. /\ proposal[k].status = "APPROVED" /\ proposal[k].vault = v /\ txn[k] = NoTxn
      /\ vault[v] \in VaultRows /\ vault[v].status \in SpendableStatuses
      /\ amount \in Nat \ {0} /\ vault[v].spent + amount <= vault[v].total
      /\ vault' = [vault EXCEPT ![v] = row]
      /\ books' = [books EXCEPT ![v] = Post(books[v], <<"spend", k>>, "own", lines)]
      /\ posted' = posted \cup {<<"spend", k>>}
      /\ UNCHANGED <<now, mandate, agent, revenue, repayments>>
  BY DEF PaymentEffects
<1>2. row.status = "SPENDING" /\ row.agent = vault[v].agent
  BY <1>1 DEF PaidRow, VaultRows, SpendableStatuses
<1>3. <<"spend", k>> \notin posted /\ Exists(v)
  BY <1>1 DEF IInv, KeysMatchRows, Exists, SpendableStatuses
<1>4. /\ proposal'[k].status = "EXECUTED" /\ proposal'[k].vault = v
      /\ proposal'[k].currency = proposal[k].currency
      /\ \A j \in Keys \ {k} : proposal'[j] = proposal[j] /\ txn'[j] = txn[j]
      /\ txn'[k] # NoTxn
  BY <1>1 DEF PaymentEffects, TypeOK, ProposalRows, NoTxn
<1> HIDE DEF row, lines
<1>5. vault'[v] = row /\ \A w \in Vaults \ {v} : vault'[w] = vault[w]
  BY <1>1 DEF TypeOK
<1>6. \A w \in Vaults : Exists(w)' <=> Exists(w)
  BY <1>2, <1>3, <1>5 DEF Exists
<1>7. KeysMatchRows'
  BY <1>1, <1>4, <1>6 DEF IInv, KeysMatchRows
<1>8. ASSUME NEW j \in Keys, proposal[j].status \in {"APPROVED", "EXECUTED"}
      PROVE  proposal[j].vault \in Vaults
  BY <1>8, ProposalOfApproved DEF ProposalRows
<1>9. ApprovedTerms'
  <2>1. ASSUME NEW j \in Keys, proposal'[j].status \in {"APPROVED", "EXECUTED"}
        PROVE  /\ proposal[j].status \in {"APPROVED", "EXECUTED"}
               /\ proposal'[j].vault = proposal[j].vault
               /\ proposal'[j].currency = proposal[j].currency
    BY <1>1, <1>4, <2>1
  <2>2. QED
    BY <1>6, <1>8, <2>1 DEF IInv, ApprovedTerms, Exists
<1>10. NothingToExecute'
  <2> SUFFICES ASSUME NEW j \in Keys, proposal'[j].status = "APPROVED",
                      agent'[vault'[proposal'[j].vault].agent].revoked
               PROVE  vault'[proposal'[j].vault].status \notin SpendableStatuses
    BY DEF NothingToExecute
  <2>1. j # k /\ proposal'[j] = proposal[j] /\ proposal[j].vault \in Vaults
    BY <1>4, <1>8
  <2>2. CASE proposal[j].vault = v
    BY <1>1, <1>2, <1>5, <2>1, <2>2 DEF IInv, NothingToExecute
  <2>3. CASE proposal[j].vault # v
    BY <1>1, <1>5, <2>1, <2>3 DEF IInv, NothingToExecute
  <2>4. QED
    BY <2>2, <2>3
<1>11. Sound(v)'
  <2>1. ~Recovered(v) /\ Live(vault[v], Balance(v))
    BY <1>1, <1>3 DEF IInv, Sound, Settled, SpendableStatuses
  <2>2. lines \in [Accounts -> Int]
    BY <1>1, PaymentFacts DEF lines
  <2>3. BookBalance(Post(books[v], <<"spend", k>>, "own", lines)) = Moved(Balance(v), lines)
    BY <1>3, <2>2, BalanceOfBook, PostBalance
  <2>4. Balance(v)' = Moved(Balance(v), lines)
    <3>1. books'[v] = Post(books[v], <<"spend", k>>, "own", lines)
      BY <1>1 DEF TypeOK
    <3>2. Balance(v)' = BookBalance(books'[v])
      BY DEF Balance, BookBalance, Bal
    <3>3. QED
      BY <2>3, <3>1, <3>2
  <2>5. Live(row, Balance(v)')
    BY <1>1, <2>1, <2>4, BalanceOfBook, LivePaidRow DEF row, lines
  <2>6. ~Recovered(v)'
    BY <1>1, <2>1 DEF Recovered
  <2>7. QED
    BY <1>3, <1>5, <1>6, <2>5, <2>6 DEF Sound
<1>12. ASSUME NEW w \in Vaults \ {v} PROVE Sound(w)'
  <2>1. books'[w] = books[w] /\ vault'[w] = vault[w]
    BY <1>1, <1>5 DEF TypeOK
  <2>2. Recovered(w)' <=> Recovered(w)
    BY <1>1 DEF Recovered
  <2>3. QED
    BY <2>1, <2>2, SoundFrame DEF IInv
<1>13. QED
  BY <1>7, <1>9, <1>10, <1>11, <1>12 DEF IInv

(***************************************************************************)
(* When a vault ends in a status of no further payment and nothing but its *)
(* row, its books and the journal changes, only the keys and the vault     *)
(* itself are left to check.                                               *)
(***************************************************************************)
LEMMA InvVaultEnds ==
  ASSUME TypeOK, IInv, NEW v \in Vaults, NEW row, Exists(v), row.status # "NONE",
         row.status \notin SpendableStatuses,
         vault' = [vault EXCEPT ![v] = row],
         UNCHANGED <<agent, proposal, txn>>,
         \A w \in Vaults \ {v} : books'[w] = books[w] /\ (Recovered(w)' <=> Recovered(w))
  PROVE  /\ \A w \in Vaults : Exists(w)' <=> Exists(w)
         /\ ApprovedTerms'
         /\ NothingToExecute'
         /\ \A w \in Vaults \ {v} : Sound(w)'
<1>1. vault'[v] = row /\ \A w \in Vaults \ {v} : vault'[w] = vault[w]
  BY DEF TypeOK
<1>2. \A w \in Vaults : Exists(w)' <=> Exists(w)
  BY <1>1 DEF Exists
<1>3. ASSUME NEW j \in Keys, proposal[j].status \in {"APPROVED", "EXECUTED"}
      PROVE  proposal[j].vault \in Vaults
  BY <1>3, ProposalOfApproved DEF ProposalRows
<1>4. ApprovedTerms'
  BY <1>2, <1>3 DEF IInv, ApprovedTerms
<1>5. NothingToExecute'
  <2> SUFFICES ASSUME NEW j \in Keys, proposal[j].status = "APPROVED",
                      agent[vault'[proposal[j].vault].agent].revoked
               PROVE  vault'[proposal[j].vault].status \notin SpendableStatuses
    BY DEF NothingToExecute
  <2>1. CASE proposal[j].vault = v
    BY <1>1, <2>1
  <2>2. CASE proposal[j].vault # v
    BY <1>1, <1>3, <2>2 DEF IInv, NothingToExecute
  <2>3. QED
    BY <2>1, <2>2
<1>6. \A w \in Vaults \ {v} : Sound(w)'
  BY <1>1, SoundFrame DEF IInv
<1>7. QED
  BY <1>2, <1>4, <1>5, <1>6

\* receive_revenue preserves the inductive invariant.
LEMMA InvReceiveRevenue ==
  ASSUME TypeOK, IInv, NEW v \in Vaults, NEW e \in Events, NEW amount \in RevenueAmounts,
         NEW currency \in Currencies, NEW completed \in BOOLEAN,
         ReceiveRevenue(v, e, amount, currency, completed)
  PROVE  IInv'
<1>1. PICK split, end : RevenueEffects(v, e, amount, currency, split, end)
  BY RevenueSteps
<1> DEFINE row == RepaidRow(vault[v], split, end)
           received == RevenueLines(amount)
           shared == RepaymentLines(amount, split)
           escrowed == Post(books[v], <<"revenue", e>>, currency, received)
           book == Post(escrowed, <<"waterfall", e>>, currency, shared)
<1>2. /\ revenue[e] = NoRevenue
      /\ posted' = posted \cup {<<"revenue", e>>, <<"waterfall", e>>}
      /\ revenue' = [revenue EXCEPT ![e] = [vault |-> v, amount |-> amount]]
      /\ UNCHANGED <<now, mandate, agent, proposal, txn>>
  BY DEF ReceiveRevenue
<1>3. /\ vault[v] \in VaultRows /\ amount \in Nat \ {0}
      /\ end \in {"REPAID", "PARTIALLY_REPAID"}
      /\ vault' = [vault EXCEPT ![v] = row]
      /\ books' = [books EXCEPT ![v] = book]
  BY <1>1 DEF RevenueEffects
<1>4. <<"revenue", e>> \notin posted /\ <<"waterfall", e>> \notin posted
  BY <1>2 DEF IInv, KeysMatchRows
<1>5. Exists(v) /\ ~Recovered(v) /\ Live(vault[v], Balance(v))
      /\ vault[v].status \in {"ACTIVE", "SPENDING", "PARTIALLY_REPAID"}
  <2>1. vault[v].status \in {"ACTIVE", "SPENDING", "EXPIRED", "TASK_COMPLETED",
                             "TASK_FAILED", "REVENUE_RECEIVED", "PARTIALLY_REPAID"}
    BY <1>1 DEF RevenueEffects
  <2>2. Exists(v) /\ Sound(v)
    BY <2>1 DEF Exists, IInv
  <2>3. QED
    BY <2>1, <2>2 DEF Sound, Settled, Live, OpenStatuses
<1>6. row.status = end
  BY <1>3 DEF RepaidRow, VaultRows
<1>7. \A w \in Vaults : Recovered(w)' <=> Recovered(w)
  BY <1>2 DEF Recovered
<1>8. Sound(v)'
  <2>1. /\ received \in [Accounts -> Int] /\ shared \in [Accounts -> Int]
        /\ books[v] \in Books /\ Balance(v) = BookBalance(books[v])
    BY <1>1, <1>3, RevenueFacts, RepaymentLinesType, BalanceOfBook
  <2> HIDE DEF received, shared
  <2>2. escrowed \in Books /\ BookBalance(escrowed) = Moved(Balance(v), received)
    <3>1. BookBalance(escrowed) = Moved(BookBalance(books[v]), received)
      BY <1>4, <2>1, PostBalance
    <3>2. escrowed \in Books
      BY <2>1, PostType DEF Books
    <3>3. QED
      BY <2>1, <3>1, <3>2
  <2> HIDE DEF escrowed
  <2>3. BookBalance(book) = Moved(Moved(Balance(v), received), shared)
    BY <1>4, <2>1, <2>2, PostBalance
  <2>4. Balance(v)' = Moved(Moved(Balance(v), received), shared)
    <3>1. books'[v] = book
      BY <1>3 DEF TypeOK
    <3>2. Balance(v)' = BookBalance(books'[v])
      BY DEF Balance, BookBalance, Bal
    <3>3. QED
      BY <2>3, <3>1, <3>2
  <2>5. /\ IsRepaymentSplit(split, amount, vault[v].principal, vault[v].fee,
                            vault[v].reserve_drawn)
        /\ end = IF vault[v].principal - split.principal = 0
                      /\ vault[v].fee - split.fee = 0
                   THEN "REPAID" ELSE "PARTIALLY_REPAID"
    BY <1>1 DEF RevenueEffects
  <2>6. Live(row, Balance(v)')
    <3>1. Balance(v)' = Moved(Moved(Balance(v), RevenueLines(amount)),
                              RepaymentLines(amount, split))
      BY <2>4 DEF received, shared
    <3>2. Balance(v) \in [Accounts -> Int] /\ amount \in Nat
      BY <1>3, BalanceOfBook
    <3>3. QED
      BY <1>3, <1>5, <2>5, <3>1, <3>2, LiveRepaidRow
  <2> HIDE DEF row
  <2>7. vault'[v] = row
    BY <1>3 DEF TypeOK
  <2>8. QED
    BY <1>3, <1>5, <1>6, <1>7, <2>6, <2>7 DEF Sound, Exists
<1> HIDE DEF row, book
<1>9. /\ \A w \in Vaults : Exists(w)' <=> Exists(w)
      /\ ApprovedTerms' /\ NothingToExecute'
      /\ \A w \in Vaults \ {v} : Sound(w)'
  <2>1. row.status # "NONE" /\ row.status \notin SpendableStatuses
    BY <1>3, <1>6 DEF SpendableStatuses
  <2>2. \A w \in Vaults \ {v} : books'[w] = books[w]
    BY <1>3 DEF TypeOK
  <2>3. QED
    BY <1>2, <1>3, <1>5, <1>7, <2>1, <2>2, InvVaultEnds
<1>10. KeysMatchRows'
  <2>1. revenue'[e] # NoRevenue /\ \A d \in Events \ {e} : revenue'[d] = revenue[d]
    BY <1>2 DEF TypeOK, NoRevenue
  <2>2. QED
    BY <1>2, <1>9, <2>1 DEF IInv, KeysMatchRows
<1>11. QED
  BY <1>8, <1>9, <1>10 DEF IInv

\* simulate_failure preserves the inductive invariant.
LEMMA InvSimulateFailure ==
  ASSUME TypeOK, IInv, NEW v \in Vaults, SimulateFailure(v)
  PROVE  IInv'
<1>1. PICK split, end : FailureEffects(v, split, end)
  BY FailureSteps
<1> DEFINE row == RecoveredRow(vault[v], split, end)
           lines == RecoveryLines(split)
           book == Post(books[v], <<"recovery", v>>, "own", lines)
<1>2. /\ vault[v] \in VaultRows /\ vault[v].status \in OpenStatuses
      /\ IsRecoverySplit(split, vault[v].total, vault[v].total - vault[v].spent,
                         ReserveCap(vault[v].task))
      /\ end = IF split.loss > 0 THEN "DEFAULTED" ELSE "REPAID"
      /\ vault' = [vault EXCEPT ![v] = row]
      /\ books' = [books EXCEPT ![v] = book]
      /\ posted' = posted \cup {<<"recovery", v>>}
  BY <1>1 DEF FailureEffects
<1>3. UNCHANGED <<now, mandate, agent, proposal, txn, revenue>>
  BY DEF SimulateFailure
<1>4. Exists(v) /\ ~Recovered(v) /\ Live(vault[v], Balance(v))
  <2>1. Exists(v) /\ Sound(v)
    BY <1>2 DEF Exists, IInv, OpenStatuses
  <2>2. QED
    BY <1>2, <2>1 DEF Sound, Settled, OpenStatuses
<1>5. row.status = end
  BY <1>2 DEF RecoveredRow, VaultRows
<1>6. \A w \in Vaults : Recovered(w)' <=> w = v \/ Recovered(w)
  BY <1>2 DEF Recovered
<1>7. Sound(v)'
  <2>1. lines \in [Accounts -> Int] /\ books[v] \in Books
        /\ Balance(v) = BookBalance(books[v])
    BY <1>1, RecoverySplitType, RecoveryLineFacts, BalanceOfBook
  <2> HIDE DEF lines
  <2>2. BookBalance(book) = Moved(Balance(v), lines)
    BY <1>4, <2>1, PostBalance DEF Recovered
  <2>3. Balance(v)' = Moved(Balance(v), lines)
    <3>1. books'[v] = book
      BY <1>2 DEF TypeOK
    <3>2. Balance(v)' = BookBalance(books'[v])
      BY DEF Balance, BookBalance, Bal
    <3>3. QED
      BY <2>2, <3>1, <3>2
  <2>4. Settled(row, Balance(v)')
    <3>1. ReserveCap(vault[v].task) \in Nat
      BY <1>2, ReserveCapType DEF VaultRows
    <3>2. QED
      BY <1>2, <1>4, <2>3, <3>1, BalanceOfBook, SettledRecoveredRow DEF lines
  <2> HIDE DEF row
  <2>5. vault'[v] = row
    BY <1>2 DEF TypeOK
  <2>6. QED
    BY <1>2, <1>5, <1>6, <2>4, <2>5 DEF Sound, Exists
<1> HIDE DEF row, book
<1>8. /\ \A w \in Vaults : Exists(w)' <=> Exists(w)
      /\ ApprovedTerms' /\ NothingToExecute'
      /\ \A w \in Vaults \ {v} : Sound(w)'
  <2>1. row.status # "NONE" /\ row.status \notin SpendableStatuses
    BY <1>2, <1>5 DEF SpendableStatuses
  <2>2. \A w \in Vaults \ {v} : books'[w] = books[w]
    BY <1>2 DEF TypeOK
  <2>3. QED
    BY <1>2, <1>3, <1>4, <1>6, <2>1, <2>2, InvVaultEnds
<1>9. KeysMatchRows'
  BY <1>2, <1>3, <1>8 DEF IInv, KeysMatchRows
<1>10. QED
  BY <1>7, <1>8, <1>9 DEF IInv

\* REVOKE preserves the inductive invariant: it freezes every open vault.
LEMMA InvRevokeAgent ==
  ASSUME TypeOK, IInv, NEW a \in Agents, RevokeAgent(a)
  PROVE  IInv'
<1>1. /\ agent' = [agent EXCEPT ![a].status = "REVOKED", ![a].revoked = TRUE]
      /\ vault' = [w \in Vaults |-> IF w \in OpenVaultsOf(a)
                                      THEN [vault[w] EXCEPT !.status = "FROZEN"]
                                      ELSE vault[w]]
      /\ UNCHANGED <<now, mandate, proposal, txn, revenue, repayments, posted, books>>
  BY DEF RevokeAgent
<1>2. \A w \in Vaults : IF w \in OpenVaultsOf(a)
                          THEN vault'[w] = [vault[w] EXCEPT !.status = "FROZEN"]
                          ELSE vault'[w] = vault[w]
  BY <1>1
<1>3. ASSUME NEW w \in Vaults
      PROVE  /\ Sound(w)'
             /\ Exists(w)' <=> Exists(w)
             /\ vault'[w] = vault[w] \/ vault'[w].status \notin SpendableStatuses
  <2>1. CASE w \notin OpenVaultsOf(a)
    BY <1>1, <1>2, <2>1, SoundFrame DEF IInv, Recovered, Exists
  <2>2. CASE w \in OpenVaultsOf(a)
    <3>1. /\ vault'[w] = [vault[w] EXCEPT !.status = "FROZEN"]
          /\ vault[w].status \in {"CREATED", "ACTIVE", "SPENDING"}
      BY <1>2, <2>2 DEF OpenVaultsOf
    <3>2. Exists(w) /\ vault[w] \in VaultRows
      BY <3>1, RowOfExistingVault DEF Exists
    <3>3. vault'[w].status = "FROZEN"
      BY <3>1, <3>2 DEF VaultRows
    <3>4. Sound(w)' /\ Exists(w)'
      BY <1>1, <3>1, SoundFrozen DEF IInv
    <3>5. QED
      BY <3>2, <3>3, <3>4 DEF SpendableStatuses
  <2>3. QED
    BY <2>1, <2>2
<1>4. ASSUME NEW k \in Keys, proposal[k].status \in {"APPROVED", "EXECUTED"}
      PROVE  proposal[k].vault \in Vaults
  BY <1>4, ProposalOfApproved DEF ProposalRows
<1>5. KeysMatchRows'
  BY <1>1, <1>3 DEF IInv, KeysMatchRows
<1>6. ApprovedTerms'
  BY <1>1, <1>3, <1>4 DEF IInv, ApprovedTerms
<1>7. NothingToExecute'
  <2> SUFFICES ASSUME NEW k \in Keys, proposal[k].status = "APPROVED",
                      agent'[vault'[proposal[k].vault].agent].revoked
               PROVE  vault'[proposal[k].vault].status \notin SpendableStatuses
    BY <1>1 DEF NothingToExecute
  <2> DEFINE v == proposal[k].vault
  <2>1. v \in Vaults /\ Exists(v) /\ vault[v] \in VaultRows
    BY <1>4, RowOfExistingVault DEF IInv, ApprovedTerms
  <2>2. CASE vault'[v] # vault[v]
    BY <1>3, <2>1, <2>2
  <2>3. CASE vault'[v] = vault[v] /\ vault[v].agent = a
    <3>1. CASE v \in OpenVaultsOf(a)
      <4>1. vault'[v].status = "FROZEN"
        BY <1>2, <2>1, <3>1 DEF VaultRows
      <4>2. QED
        BY <4>1 DEF SpendableStatuses
    <3>2. CASE v \notin OpenVaultsOf(a)
      BY <2>1, <2>3, <3>2 DEF OpenVaultsOf, SpendableStatuses
    <3>3. QED
      BY <3>1, <3>2
  <2>4. CASE vault'[v] = vault[v] /\ vault[v].agent # a
    <3>1. agent'[vault[v].agent] = agent[vault[v].agent]
      BY <1>1, <2>1, <2>4 DEF TypeOK, VaultRows
    <3>2. QED
      BY <2>1, <2>4, <3>1 DEF IInv, NothingToExecute
  <2>5. QED
    BY <2>2, <2>3, <2>4
<1>8. QED
  BY <1>3, <1>5, <1>6, <1>7 DEF IInv

\* A step that changes only an agent row preserves the invariant when it revokes nobody.
LEMMA InvAgentKept ==
  ASSUME TypeOK, IInv,
         \A a \in Agents : agent'[a].revoked = agent[a].revoked,
         UNCHANGED <<vault, proposal, txn, revenue, repayments, posted, books>>
  PROVE  IInv'
<1>1. KeysMatchRows' /\ ApprovedTerms'
  BY DEF IInv, KeysMatchRows, ApprovedTerms, Exists
<1>2. \A v \in Vaults : Sound(v)'
  BY SoundFrame DEF IInv, Recovered
<1>3. NothingToExecute'
  <2>1. ASSUME NEW k \in Keys, proposal[k].status = "APPROVED"
        PROVE  vault[proposal[k].vault].agent \in Agents
    <3>1. proposal[k].vault \in Vaults /\ Exists(proposal[k].vault)
      BY <2>1, ProposalOfApproved DEF ProposalRows, IInv, ApprovedTerms
    <3>2. QED
      BY <3>1, RowOfExistingVault DEF VaultRows
  <2>2. QED
    BY <2>1 DEF IInv, NothingToExecute
<1>4. QED
  BY <1>1, <1>2, <1>3 DEF IInv

\* Passports and the kill switch preserve the inductive invariant.
LEMMA InvAgentStep ==
  ASSUME TypeOK, IInv, AgentStep
  PROVE  IInv'
<1>1. ASSUME NEW a \in Agents, NEW ttl \in PassportTtls, IssuePassport(a, ttl)
      PROVE  IInv'
  BY <1>1, InvAgentKept DEF IssuePassport, TypeOK
<1>2. ASSUME NEW a \in Agents, FreezeAgent(a)
      PROVE  IInv'
  BY <1>2, InvAgentKept DEF FreezeAgent, TypeOK
<1>3. ASSUME NEW a \in Agents, UnfreezeAgent(a)
      PROVE  IInv'
  BY <1>3, InvAgentKept DEF UnfreezeAgent, TypeOK
<1>4. QED
  BY <1>1, <1>2, <1>3, InvRevokeAgent DEF AgentStep

\* Every step preserves the inductive invariant.
LEMMA InvNext ==
  ASSUME TypeOK, IInv, [Next]_vars
  PROVE  IInv'
<1>1. CASE UNCHANGED vars
  BY <1>1, InvAgentKept DEF vars
<1>2. CASE Tick
  BY <1>2, InvAgentKept DEF Tick
<1>3. CASE AgentStep
  BY <1>3, InvAgentStep
<1>4. CASE VaultStep
  <2>1. PICK v \in Vaults :
          \/ \E a \in Agents, task \in Tasks, limit \in Limits, vendors \in AllowLists,
                duration \in Durations :
               \E perTxn \in PerTxnLimits \cup {limit} :
                 CreateVault(v, a, task, limit, perTxn, vendors, duration)
          \/ \E k \in Keys, spend \in Spends : Propose(k, v, spend)
          \/ FreezeVault(v)
          \/ \E e \in Events, amount \in RevenueAmounts, currency \in Currencies,
                completed \in BOOLEAN : ReceiveRevenue(v, e, amount, currency, completed)
          \/ SimulateFailure(v)
          \/ CloseVault(v)
    BY <1>4 DEF VaultStep
  <2>2. FreezeVault(v) => IInv'
    BY InvStatusChange DEF FreezeVault
  <2>3. CloseVault(v) => IInv'
    BY InvStatusChange DEF CloseVault
  <2>4. QED
    BY <2>1, <2>2, <2>3, InvCreateVault, InvPropose, InvReceiveRevenue, InvSimulateFailure
<1>5. CASE \E k \in Keys : Execute(k)
  <2>1. PICK k \in Keys : Execute(k)
    BY <1>5
  <2>2. PaymentEffects(k, proposal[k].vault, proposal[k].amount)
    BY <2>1, ExecuteSteps
  <2>3. proposal[k].vault \in Vaults
    BY <2>2 DEF PaymentEffects, ProposalRows
  <2>4. QED
    BY <2>2, <2>3, InvExecute
<1>6. CASE \E task \in Tasks, cap \in ReserveCaps : CreateMandate(task, cap)
  BY <1>6, InvAgentKept DEF CreateMandate
<1>7. QED
  BY <1>1, <1>2, <1>3, <1>4, <1>5, <1>6 DEF Next
-----------------------------------------------------------------------------
(***************************************************************************)
(* Who pays vendors: only the execution of an approved proposal, on a      *)
(* spendable vault of an agent never revoked.                              *)
(***************************************************************************)
LEMMA PostKeeps ==
  ASSUME NEW book \in Books, NEW key, NEW c \in Currencies,
         NEW lines \in [Accounts -> Int], NEW a \in Accounts, lines[a] = 0
  PROVE  \A d \in Currencies : Post(book, key, c, lines)[d][a] = book[d][a]
<1>1. CASE key \in posted
  BY <1>1 DEF Post
<1>2. CASE key \notin posted
  BY <1>2 DEF Post, Books
<1>3. QED
  BY <1>1, <1>2

\* Revenue leaves what vendors were paid as it was.
LEMMA RevenueKeepsPaid ==
  ASSUME TypeOK, NEW v \in Vaults, NEW e \in Events, NEW amount \in RevenueAmounts,
         NEW currency \in Currencies, NEW completed \in BOOLEAN,
         ReceiveRevenue(v, e, amount, currency, completed)
  PROVE  \A w \in Vaults : Paid(w)' = Paid(w)
<1>1. PICK split, end : RevenueEffects(v, e, amount, currency, split, end)
  BY RevenueSteps
<1> DEFINE received == RevenueLines(amount)
           shared == RepaymentLines(amount, split)
           escrowed == Post(books[v], <<"revenue", e>>, currency, received)
           book == Post(escrowed, <<"waterfall", e>>, currency, shared)
           account == "VENDOR_PAYABLE"
<1>2. amount \in Nat /\ books' = [books EXCEPT ![v] = book]
  BY <1>1 DEF RevenueEffects
<1>3. received \in [Accounts -> Int] /\ received[account] = 0
  BY <1>2, RevenueFacts DEF Accounts
<1>4. shared[account] = 0
  <2>1. vault[v].principal \in Nat /\ vault[v].fee \in Nat /\ vault[v].reserve_drawn \in Nat
    BY <1>1 DEF RevenueEffects, VaultRows
  <2>2. /\ split.principal \in Int /\ split.fee \in Int /\ split.reserve \in Int
        /\ split.owner \in Int
    BY <1>1, <2>1 DEF RevenueEffects, IsRepaymentSplit
  <2>3. QED
    BY <1>2, <2>2, RepaymentLineFacts
<1>5. shared \in [Accounts -> Int] /\ books[v] \in Books
  BY <1>1, RepaymentLinesType, BalanceOfBook
<1>6. account \in Accounts
  BY DEF Accounts
<1> HIDE DEF received, shared
<1>7. escrowed \in Books /\ \A d \in Currencies : escrowed[d][account] = books[v][d][account]
  <2>1. escrowed \in Books
    BY <1>3, <1>5, PostType DEF Books
  <2>2. \A d \in Currencies : escrowed[d][account] = books[v][d][account]
    BY <1>3, <1>5, <1>6, PostKeeps
  <2>3. QED
    BY <2>1, <2>2
<1> HIDE DEF escrowed
<1>8. \A d \in Currencies : book[d][account] = escrowed[d][account]
  BY <1>4, <1>5, <1>6, <1>7, PostKeeps
<1> HIDE DEF book
<1>9. \A w \in Vaults, d \in Currencies : books'[w][d][account] = books[w][d][account]
  BY <1>2, <1>7, <1>8 DEF TypeOK
<1>10. QED
  BY <1>9 DEF Paid, Bal

\* Recovery leaves what vendors were paid as it was.
LEMMA FailureKeepsPaid ==
  ASSUME TypeOK, IInv, NEW v \in Vaults, SimulateFailure(v)
  PROVE  \A w \in Vaults : Paid(w)' = Paid(w)
<1>1. PICK split, end : FailureEffects(v, split, end)
  BY FailureSteps
<1> DEFINE lines == RecoveryLines(split)
           book == Post(books[v], <<"recovery", v>>, "own", lines)
           account == "VENDOR_PAYABLE"
<1>2. books' = [books EXCEPT ![v] = book]
  BY <1>1 DEF FailureEffects
<1>3. split.swept \in Int /\ split.reserve \in Int /\ split.loss \in Int
  BY <1>1, RecoverySplitType
<1>4. lines \in [Accounts -> Int] /\ lines[account] = 0
  BY <1>3, RecoveryLineFacts
<1>5. account \in Accounts /\ books[v] \in Books
  BY BalanceOfBook DEF Accounts
<1> HIDE DEF lines
<1>6. \A d \in Currencies : book[d][account] = books[v][d][account]
  BY <1>4, <1>5, PostKeeps
<1> HIDE DEF book
<1>7. \A w \in Vaults, d \in Currencies : books'[w][d][account] = books[w][d][account]
  BY <1>2, <1>6 DEF TypeOK
<1>8. QED
  BY <1>7 DEF Paid, Bal

\* Vendors are paid only from a spendable vault of an agent never revoked.
LEMMA OnlyExecutionPays ==
  ASSUME TypeOK, IInv, [Next]_vars, NEW v \in Vaults, Exists(v), Paid(v)' # Paid(v)
  PROVE  vault[v].status \in SpendableStatuses /\ ~agent[vault[v].agent].revoked
<1>1. CASE UNCHANGED books
  BY <1>1 DEF Paid, Bal
<1>2. CASE VaultStep
  <2>1. PICK w \in Vaults :
          \/ \E a \in Agents, task \in Tasks, limit \in Limits, vendors \in AllowLists,
                duration \in Durations :
               \E perTxn \in PerTxnLimits \cup {limit} :
                 CreateVault(w, a, task, limit, perTxn, vendors, duration)
          \/ \E k \in Keys, spend \in Spends : Propose(k, w, spend)
          \/ FreezeVault(w)
          \/ \E e \in Events, amount \in RevenueAmounts, currency \in Currencies,
                completed \in BOOLEAN : ReceiveRevenue(w, e, amount, currency, completed)
          \/ SimulateFailure(w)
          \/ CloseVault(w)
    BY <1>2 DEF VaultStep
  <2>2. ASSUME NEW a \in Agents, NEW limit \in Limits, NEW vendors \in AllowLists,
               NEW duration \in Durations, NEW task \in Tasks,
               NEW perTxn \in PerTxnLimits \cup {limit},
               CreateVault(w, a, task, limit, perTxn, vendors, duration)
        PROVE  FALSE
    <3>1. w # v
      BY <2>2 DEF CreateVault
    <3>2. books'[v] = books[v]
      BY <2>2, <3>1 DEF CreateVault, TypeOK
    <3>3. QED
      BY <3>2 DEF Paid, Bal
  <2>3. UNCHANGED books => FALSE
    BY DEF Paid, Bal
  <2>4. ASSUME NEW k \in Keys, NEW spend \in Spends, Propose(k, w, spend)
        PROVE  FALSE
    BY <2>3, <2>4 DEF Propose
  <2>5. FreezeVault(w) => FALSE
    BY <2>3 DEF FreezeVault
  <2>6. CloseVault(w) => FALSE
    BY <2>3 DEF CloseVault
  <2>7. QED
    BY <2>1, <2>2, <2>4, <2>5, <2>6, RevenueKeepsPaid, FailureKeepsPaid
<1>3. CASE \E k \in Keys : Execute(k)
  <2>1. PICK k \in Keys : Execute(k)
    BY <1>3
  <2>2. PaymentEffects(k, proposal[k].vault, proposal[k].amount)
    BY <2>1, ExecuteSteps
  <2>3. proposal[k].vault = v
    <3>1. CASE proposal[k].vault # v
      <4>1. books'[v] = books[v]
        BY <2>2, <3>1 DEF PaymentEffects, TypeOK
      <4>2. QED
        BY <4>1 DEF Paid, Bal
    <3>2. QED
      BY <3>1
  <2>4. QED
    BY <2>2, <2>3 DEF PaymentEffects, IInv, NothingToExecute
<1>4. QED
  BY <1>1, <1>2, <1>3 DEF Next, vars, Tick, AgentStep, IssuePassport, FreezeAgent,
     UnfreezeAgent, RevokeAgent, CreateMandate

\* A vault that exists and is not spendable does not become spendable.
LEMMA SpendableStaysBehind ==
  ASSUME TypeOK, IInv, [Next]_vars, NEW v \in Vaults, Exists(v),
         vault[v].status \notin SpendableStatuses
  PROVE  vault'[v].status \notin SpendableStatuses
<1>1. vault[v] \in VaultRows
  BY RowOfExistingVault
<1>2. ASSUME NEW w \in Vaults, NEW row, row.status \notin SpendableStatuses,
             vault' = [vault EXCEPT ![w] = row]
      PROVE  vault'[v].status \notin SpendableStatuses
  BY <1>2 DEF TypeOK
<1>3. CASE UNCHANGED vault
  BY <1>3
<1>4. ASSUME NEW a \in Agents, RevokeAgent(a)
      PROVE  vault'[v].status \notin SpendableStatuses
  BY <1>1, <1>4 DEF RevokeAgent, VaultRows, SpendableStatuses
<1>5. CASE VaultStep
  <2>1. PICK w \in Vaults :
          \/ \E a \in Agents, task \in Tasks, limit \in Limits, vendors \in AllowLists,
                duration \in Durations :
               \E perTxn \in PerTxnLimits \cup {limit} :
                 CreateVault(w, a, task, limit, perTxn, vendors, duration)
          \/ \E k \in Keys, spend \in Spends : Propose(k, w, spend)
          \/ FreezeVault(w)
          \/ \E e \in Events, amount \in RevenueAmounts, currency \in Currencies,
                completed \in BOOLEAN : ReceiveRevenue(w, e, amount, currency, completed)
          \/ SimulateFailure(w)
          \/ CloseVault(w)
    BY <1>5 DEF VaultStep
  <2>2. ASSUME NEW a \in Agents, NEW limit \in Limits, NEW vendors \in AllowLists,
               NEW duration \in Durations, NEW task \in Tasks,
               NEW perTxn \in PerTxnLimits \cup {limit},
               CreateVault(w, a, task, limit, perTxn, vendors, duration)
        PROVE  vault'[v].status \notin SpendableStatuses
    <3>1. w # v
      BY <2>2 DEF CreateVault
    <3>2. vault'[v] = vault[v]
      BY <2>2, <3>1 DEF CreateVault, TypeOK
    <3>3. QED
      BY <3>2
  <2>3. ASSUME NEW s \in {"FROZEN", "CLOSED"}, vault' = [vault EXCEPT ![w].status = s]
        PROVE  vault'[v].status \notin SpendableStatuses
    <3>1. CASE w = v
      BY <1>1, <2>3, <3>1 DEF TypeOK, VaultRows, SpendableStatuses
    <3>2. CASE w # v
      BY <2>3, <3>2 DEF TypeOK
    <3>3. QED
      BY <3>1, <3>2
  <2>4. ASSUME NEW k \in Keys, NEW spend \in Spends, Propose(k, w, spend)
        PROVE  vault'[v].status \notin SpendableStatuses
    <3>1. vault' = vault \/ vault' = [vault EXCEPT ![w].status = "FROZEN"]
      BY <2>4 DEF Propose
    <3>2. QED
      BY <1>3, <2>3, <3>1
  <2>5. ASSUME NEW e \in Events, NEW amount \in RevenueAmounts, NEW currency \in Currencies,
               NEW completed \in BOOLEAN, ReceiveRevenue(w, e, amount, currency, completed)
        PROVE  vault'[v].status \notin SpendableStatuses
    <3>1. PICK split, end : RevenueEffects(w, e, amount, currency, split, end)
      BY <2>5, RevenueSteps
    <3>2. /\ vault' = [vault EXCEPT ![w] = RepaidRow(vault[w], split, end)]
          /\ vault[w] \in VaultRows /\ end \in {"REPAID", "PARTIALLY_REPAID"}
      BY <3>1 DEF RevenueEffects
    <3>3. RepaidRow(vault[w], split, end).status \notin SpendableStatuses
      BY <3>2 DEF RepaidRow, VaultRows, SpendableStatuses
    <3>4. QED
      BY <1>2, <3>2, <3>3
  <2>6. ASSUME SimulateFailure(w)
        PROVE  vault'[v].status \notin SpendableStatuses
    <3>1. PICK split, end : FailureEffects(w, split, end)
      BY <2>6, FailureSteps
    <3>2. /\ vault' = [vault EXCEPT ![w] = RecoveredRow(vault[w], split, end)]
          /\ vault[w] \in VaultRows /\ end \in {"REPAID", "DEFAULTED"}
      BY <3>1 DEF FailureEffects
    <3>3. RecoveredRow(vault[w], split, end).status \notin SpendableStatuses
      BY <3>2 DEF RecoveredRow, VaultRows, SpendableStatuses
    <3>4. QED
      BY <1>2, <3>2, <3>3
  <2>7. FreezeVault(w) \/ CloseVault(w) => vault'[v].status \notin SpendableStatuses
    BY <2>3 DEF FreezeVault, CloseVault
  <2>8. QED
    BY <2>1, <2>2, <2>4, <2>5, <2>6, <2>7
<1>6. CASE \E k \in Keys : Execute(k)
  <2>1. PICK k \in Keys : Execute(k)
    BY <1>6
  <2>2. PaymentEffects(k, proposal[k].vault, proposal[k].amount)
    BY <2>1, ExecuteSteps
  <2>3. proposal[k].vault # v
    BY <2>2 DEF PaymentEffects
  <2>4. vault'[v] = vault[v]
    BY <2>2, <2>3 DEF PaymentEffects, TypeOK
  <2>5. QED
    BY <2>4
<1>7. QED
  BY <1>3, <1>4, <1>5, <1>6 DEF Next, vars, Tick, AgentStep, IssuePassport, FreezeAgent,
     UnfreezeAgent, CreateMandate
\* What the invariant says of the balances of a vault.
LEMMA SoundBooks ==
  ASSUME TypeOK, IInv, NEW v \in Vaults
  PROVE  /\ ~Exists(v) => \A a \in Accounts : Bal(v, a) = 0
         /\ Exists(v) => /\ vault[v] \in VaultRows
                         /\ Balance(v) \in [Accounts -> Int]
                         /\ Live(vault[v], Balance(v)) \/ Settled(vault[v], Balance(v))
<1>1. ASSUME ~Exists(v), NEW a \in Accounts
      PROVE  Bal(v, a) = 0
  <2>1. books[v] = [c \in Currencies |-> NoLines]
    BY <1>1 DEF IInv, Sound
  <2>2. QED
    BY <2>1, NoLinesFacts DEF Bal
<1>2. ASSUME Exists(v)
      PROVE  Live(vault[v], Balance(v)) \/ Settled(vault[v], Balance(v))
  BY <1>2 DEF IInv, Sound
<1>3. QED
  BY <1>1, <1>2, RowOfExistingVault, BalanceOfBook

-----------------------------------------------------------------------------
(***************************************************************************)
(* Recovery alone draws a reserve, at most what the mandate signs for.     *)
(***************************************************************************)
\* The cap of a task's mandate never shrinks.
LEMMA MandateStands ==
  ASSUME TypeOK, [Next]_vars, NEW task \in Tasks
  PROVE  ReserveCap(task) <= ReserveCap(task)'
<1>1. CASE UNCHANGED mandate
  BY <1>1, ReserveCapType DEF ReserveCap
<1>2. ASSUME NEW t \in Tasks, NEW cap \in ReserveCaps, CreateMandate(t, cap)
      PROVE  ReserveCap(task) <= ReserveCap(task)'
  <2>1. cap \in Nat
    BY AmountsAssumption
  <2>2. mandate \in [Tasks -> Nat \cup {NoMandate}] /\ mandate[t] = NoMandate
        /\ mandate' = [mandate EXCEPT ![t] = cap]
    BY <1>2 DEF CreateMandate, TypeOK
  <2>3. CASE task = t
    BY <2>1, <2>2, <2>3 DEF ReserveCap, NoMandate
  <2>4. CASE task # t
    BY <2>2, <2>4, ReserveCapType DEF ReserveCap
  <2>5. QED
    BY <2>3, <2>4
<1>3. CASE VaultStep
  <2>1. PICK v \in Vaults :
          \/ \E a \in Agents, t \in Tasks, limit \in Limits, vendors \in AllowLists,
                duration \in Durations :
               \E perTxn \in PerTxnLimits \cup {limit} :
                 CreateVault(v, a, t, limit, perTxn, vendors, duration)
          \/ \E k \in Keys, spend \in Spends : Propose(k, v, spend)
          \/ FreezeVault(v)
          \/ \E e \in Events, amount \in RevenueAmounts, currency \in Currencies,
                completed \in BOOLEAN : ReceiveRevenue(v, e, amount, currency, completed)
          \/ SimulateFailure(v)
          \/ CloseVault(v)
    BY <1>3 DEF VaultStep
  <2>2. FreezeVault(v) \/ CloseVault(v) => UNCHANGED mandate
    BY DEF FreezeVault, CloseVault
  <2>3. SimulateFailure(v) => UNCHANGED mandate
    BY DEF SimulateFailure
  <2>4. \A k, spend : Propose(k, v, spend) => UNCHANGED mandate
    BY DEF Propose
  <2>5. \A e, amount, currency, completed :
          ReceiveRevenue(v, e, amount, currency, completed) => UNCHANGED mandate
    BY DEF ReceiveRevenue
  <2>6. \A a, t, limit, perTxn, vendors, duration :
          CreateVault(v, a, t, limit, perTxn, vendors, duration) => UNCHANGED mandate
    BY DEF CreateVault
  <2>7. QED
    BY <1>1, <2>1, <2>2, <2>3, <2>4, <2>5, <2>6
<1>4. AgentStep => UNCHANGED mandate
  BY DEF AgentStep, IssuePassport, FreezeAgent, UnfreezeAgent, RevokeAgent
<1>5. \A k \in Keys : Execute(k) => UNCHANGED mandate
  BY DEF Execute
<1>6. Tick \/ UNCHANGED vars => UNCHANGED mandate
  BY DEF Tick, vars
<1>7. QED
  BY <1>1, <1>2, <1>3, <1>4, <1>5, <1>6 DEF Next

\* A step that is not a recovery of the vault keeps its task and drawn reserve.
KeepsReserve(v) ==
  /\ Recovered(v)' <=> Recovered(v)
  /\ Exists(v) => /\ Exists(v)'
                  /\ vault'[v].task = vault[v].task
                  /\ vault'[v].reserve_drawn = vault[v].reserve_drawn

\* Writing a row of the same task and drawn reserve over a vault that exists.
LEMMA KeepsReserveRow ==
  ASSUME TypeOK, NEW v \in Vaults, NEW w \in Vaults, NEW row,
         vault' = [vault EXCEPT ![w] = row],
         Recovered(v)' <=> Recovered(v),
         w = v => /\ row.status # "NONE"
                  /\ row.task = vault[w].task
                  /\ row.reserve_drawn = vault[w].reserve_drawn
  PROVE  KeepsReserve(v)
<1>1. CASE w = v
  BY <1>1 DEF TypeOK, KeepsReserve, Exists
<1>2. CASE w # v
  BY <1>2 DEF TypeOK, KeepsReserve, Exists
<1>3. QED
  BY <1>1, <1>2

\* Every step but the vault's own recovery keeps its task and drawn reserve.
LEMMA RecoveryAlone ==
  ASSUME TypeOK, IInv, [Next]_vars, NEW v \in Vaults, ~SimulateFailure(v)
  PROVE  KeepsReserve(v)
<1>1. CASE UNCHANGED <<vault, posted>>
  BY <1>1 DEF KeepsReserve, Recovered, Exists
<1>2. ASSUME NEW a \in Agents, RevokeAgent(a)
      PROVE  KeepsReserve(v)
  <2>1. CASE v \in OpenVaultsOf(a)
    <3>1. vault[v] \in VaultRows
      BY <2>1, RowOfExistingVault DEF OpenVaultsOf, Exists
    <3>2. QED
      BY <1>2, <2>1, <3>1 DEF RevokeAgent, KeepsReserve, Recovered, Exists, VaultRows
  <2>2. CASE v \notin OpenVaultsOf(a)
    BY <1>2, <2>2 DEF RevokeAgent, KeepsReserve, Recovered, Exists
  <2>3. QED
    BY <2>1, <2>2
<1>3. ASSUME NEW w \in Vaults, NEW a \in Agents, NEW task \in Tasks, NEW limit \in Limits,
             NEW vendors \in AllowLists, NEW duration \in Durations,
             NEW perTxn \in PerTxnLimits \cup {limit},
             CreateVault(w, a, task, limit, perTxn, vendors, duration)
      PROVE  KeepsReserve(v)
  <2>1. Recovered(v)' <=> Recovered(v)
    BY <1>3 DEF CreateVault, Recovered
  <2>2. CASE w = v
    BY <1>3, <2>1, <2>2 DEF CreateVault, KeepsReserve
  <2>3. CASE w # v
    BY <1>3, <2>1, <2>3, KeepsReserveRow DEF CreateVault
  <2>4. QED
    BY <2>2, <2>3
<1>4. ASSUME NEW w \in Vaults, NEW s \in {"FROZEN", "CLOSED"},
             vault' = [vault EXCEPT ![w].status = s], Exists(w), posted' = posted
      PROVE  KeepsReserve(v)
  <2> DEFINE row == [vault[w] EXCEPT !.status = s]
  <2>1. vault' = [vault EXCEPT ![w] = row]
    BY <1>4 DEF TypeOK
  <2>2. /\ row.status # "NONE"
        /\ row.task = vault[w].task
        /\ row.reserve_drawn = vault[w].reserve_drawn
    BY <1>4, RowOfExistingVault DEF VaultRows
  <2>3. Recovered(v)' <=> Recovered(v)
    BY <1>4 DEF Recovered
  <2> HIDE DEF row
  <2>4. QED
    BY <2>1, <2>2, <2>3, KeepsReserveRow
<1>5. ASSUME NEW w \in Vaults, NEW k \in Keys, NEW spend \in Spends, Propose(k, w, spend)
      PROVE  KeepsReserve(v)
  BY <1>1, <1>4, <1>5 DEF Propose
<1>6. ASSUME NEW w \in Vaults, FreezeVault(w) \/ CloseVault(w)
      PROVE  KeepsReserve(v)
  <2>1. vault[w].status # "NONE"
    BY <1>6 DEF FreezeVault, CloseVault, VaultMove, CanMove, VaultTransitions
  <2>2. QED
    BY <1>4, <1>6, <2>1 DEF FreezeVault, CloseVault, Exists
<1>7. ASSUME NEW w \in Vaults, NEW e \in Events, NEW amount \in RevenueAmounts,
             NEW currency \in Currencies, NEW completed \in BOOLEAN,
             ReceiveRevenue(w, e, amount, currency, completed)
      PROVE  KeepsReserve(v)
  <2>1. PICK split, end : RevenueEffects(w, e, amount, currency, split, end)
    BY <1>7, RevenueSteps
  <2> DEFINE row == RepaidRow(vault[w], split, end)
  <2>2. /\ vault[w] \in VaultRows /\ end \in {"REPAID", "PARTIALLY_REPAID"}
        /\ vault' = [vault EXCEPT ![w] = row]
        /\ split.reserve \in 0 .. vault[w].reserve_drawn
    BY <2>1 DEF RevenueEffects, IsRepaymentSplit
  <2>3. Live(vault[w], Balance(w)) \/ Settled(vault[w], Balance(w))
    BY <2>1, SoundBooks DEF RevenueEffects, Exists
  <2>4. vault[w].reserve_drawn = 0
    BY <2>1, <2>3 DEF RevenueEffects, Live, Settled
  <2>5. /\ row.status # "NONE"
        /\ row.task = vault[w].task
        /\ row.reserve_drawn = vault[w].reserve_drawn
    BY <2>2, <2>4 DEF RepaidRow, VaultRows
  <2>6. Recovered(v)' <=> Recovered(v)
    BY <1>7 DEF ReceiveRevenue, Recovered
  <2> HIDE DEF row
  <2>7. QED
    BY <2>2, <2>5, <2>6, KeepsReserveRow
<1>8. ASSUME NEW w \in Vaults, SimulateFailure(w)
      PROVE  KeepsReserve(v)
  <2>1. PICK split, end : FailureEffects(w, split, end)
    BY <1>8, FailureSteps
  <2>2. w # v
    BY <1>8
  <2>3. /\ vault' = [vault EXCEPT ![w] = RecoveredRow(vault[w], split, end)]
        /\ posted' = posted \cup {<<"recovery", w>>}
    BY <2>1 DEF FailureEffects
  <2>4. Recovered(v)' <=> Recovered(v)
    BY <2>2, <2>3 DEF Recovered
  <2>5. QED
    BY <2>2, <2>3, <2>4, KeepsReserveRow
<1>9. ASSUME NEW k \in Keys, Execute(k)
      PROVE  KeepsReserve(v)
  <2> DEFINE w == proposal[k].vault
             row == PaidRow(vault[w], proposal[k].amount)
  <2>1. PaymentEffects(k, w, proposal[k].amount)
    BY <1>9, ExecuteSteps
  <2>2. /\ w \in Vaults /\ vault[w] \in VaultRows
        /\ vault' = [vault EXCEPT ![w] = row]
        /\ posted' = posted \cup {<<"spend", k>>}
    BY <2>1 DEF PaymentEffects, ProposalRows
  <2>3. /\ row.status # "NONE"
        /\ row.task = vault[w].task
        /\ row.reserve_drawn = vault[w].reserve_drawn
    BY <2>1, <2>2 DEF PaymentEffects, PaidRow, VaultRows, SpendableStatuses
  <2>4. Recovered(v)' <=> Recovered(v)
    BY <2>2 DEF Recovered
  <2> HIDE DEF w, row
  <2>5. QED
    BY <2>2, <2>3, <2>4, KeepsReserveRow
<1>10. QED
  BY <1>1, <1>2, <1>3, <1>5, <1>6, <1>7, <1>8, <1>9 DEF Next, vars, Tick, AgentStep,
     VaultStep, IssuePassport, FreezeAgent, UnfreezeAgent, CreateMandate

\* What a recovery draws is within the mandate of the vault's task, whenever
\* the mandate was signed.
LEMMA WithinNext ==
  ASSUME TypeOK, IInv, WithinMandate, [Next]_vars
  PROVE  WithinMandate'
<1>1. TypeOK' /\ IInv'
  BY TypeNext, InvNext
<1> SUFFICES ASSUME NEW v \in Vaults, Exists(v)'
             PROVE  vault'[v].reserve_drawn <= ReserveCap(vault[v].task)'
  BY DEF WithinMandate
<1>2. CASE SimulateFailure(v)
  <2>1. PICK split, end : FailureEffects(v, split, end)
    BY <1>2, FailureSteps
  <2>2. /\ vault[v] \in VaultRows
        /\ split.reserve \in 0 .. ReserveCap(vault[v].task)
        /\ vault'[v] = RecoveredRow(vault[v], split, end)
    BY <2>1 DEF FailureEffects, IsRecoverySplit, TypeOK
  <2>3. Live(vault[v], Balance(v)) \/ Settled(vault[v], Balance(v))
    BY <2>1, SoundBooks DEF FailureEffects, OpenStatuses, Exists
  <2>4. vault[v].reserve_drawn = 0
    BY <2>1, <2>3 DEF FailureEffects, OpenStatuses, Live, Settled
  <2>5. /\ vault'[v].task = vault[v].task
        /\ vault'[v].reserve_drawn = split.reserve
    BY <2>2, <2>4 DEF RecoveredRow, VaultRows
  <2>6. mandate' = mandate
    BY <1>2 DEF SimulateFailure
  <2>7. ReserveCap(vault[v].task)' = ReserveCap(vault[v].task)
    BY <2>5, <2>6 DEF ReserveCap
  <2>8. QED
    BY <2>2, <2>5, <2>7
<1>3. CASE ~SimulateFailure(v)
  <2>1. KeepsReserve(v)
    BY <1>3, RecoveryAlone
  <2>2. CASE ~Exists(v)
    <3>1. ~Recovered(v)'
      BY <2>1, <2>2 DEF KeepsReserve, IInv, Sound
    <3>2. vault'[v].reserve_drawn = 0
      BY <1>1, <3>1 DEF IInv, Sound, Live
    <3>3. vault'[v].task \in Tasks
      BY <1>1 DEF TypeOK, Exists, NoVault, VaultRows
    <3>4. ReserveCap(vault[v].task)' \in Nat
      BY <1>1, <3>3 DEF TypeOK, ReserveCap, NoMandate
    <3>5. QED
      BY <3>2, <3>4
  <2>3. CASE Exists(v)
    <3>1. vault[v] \in VaultRows
      BY <2>3, RowOfExistingVault
    <3>2. /\ vault[v].task \in Tasks
          /\ vault'[v].task = vault[v].task
          /\ vault'[v].reserve_drawn = vault[v].reserve_drawn
          /\ vault[v].reserve_drawn <= ReserveCap(vault[v].task)
      BY <2>1, <2>3, <3>1 DEF KeepsReserve, WithinMandate, VaultRows
    <3>3. PICK task \in Tasks : task = vault[v].task
      BY <3>2
    <3>4. ReserveCap(task) \in Nat /\ ReserveCap(task)' \in Nat
      BY <1>1, ReserveCapType DEF TypeOK, ReserveCap, NoMandate
    <3>5. ReserveCap(task) <= ReserveCap(task)'
      BY MandateStands
    <3>6. ReserveCap(vault[v].task)' = ReserveCap(task)'
      BY <3>2, <3>3 DEF ReserveCap
    <3>7. QED
      BY <3>1, <3>2, <3>3, <3>4, <3>5, <3>6 DEF VaultRows
  <2>4. QED
    BY <2>2, <2>3
<1>4. QED
  BY <1>2, <1>3
\* The loss account of every vault holds an integer.
LEMMA BalIsInt ==
  ASSUME NEW v \in Vaults
  PROVE  /\ TypeOK => Bal(v, "LOSS_DEFAULT") \in Int
         /\ TypeOK' => Bal(v, "LOSS_DEFAULT")' \in Int
<1>1. ASSUME NEW b \in [Vaults -> Books]
      PROVE  b[v]["own"]["LOSS_DEFAULT"] + b[v]["other"]["LOSS_DEFAULT"] \in Int
  BY DEF Books, Accounts
<1>2. TypeOK => books \in [Vaults -> Books]
  BY DEF TypeOK, Books
<1>3. TypeOK' => books' \in [Vaults -> Books]
  BY DEF TypeOK, Books
<1>4. QED
  BY <1>1, <1>2, <1>3 DEF Bal

\* A step that is not a recovery of the vault books no loss on it.
LEMMA LossNeedsRecovery ==
  ASSUME TypeOK, IInv, [Next]_vars, NEW v \in Vaults, ~SimulateFailure(v)
  PROVE  Bal(v, "LOSS_DEFAULT")' = Bal(v, "LOSS_DEFAULT")
<1>1. TypeOK' /\ IInv'
  BY TypeNext, InvNext
<1>2. KeepsReserve(v)
  BY RecoveryAlone
<1>3. CASE ~Recovered(v)
  <2>1. Bal(v, "LOSS_DEFAULT") = 0
    <3>1. CASE Exists(v)
      BY <1>3, <3>1 DEF IInv, Sound, Live, Balance, Accounts
    <3>2. CASE ~Exists(v)
      BY <3>2, SoundBooks DEF Accounts
    <3>3. QED
      BY <3>1, <3>2
  <2>2. Bal(v, "LOSS_DEFAULT")' = 0
    <3>1. CASE Exists(v)'
      BY <1>1, <1>2, <1>3, <3>1 DEF KeepsReserve, IInv, Sound, Live, Balance, Accounts
    <3>2. CASE ~Exists(v)'
      <4>1. books'[v] = [c \in Currencies |-> NoLines]
        BY <1>1, <3>2 DEF IInv, Sound
      <4>2. QED
        BY <4>1, NoLinesFacts DEF Bal, Accounts
    <3>3. QED
      BY <3>1, <3>2
  <2>3. QED
    BY <2>1, <2>2
<1>4. CASE Recovered(v)
  <2>1. Exists(v) /\ Exists(v)' /\ Recovered(v)'
    BY <1>2, <1>4 DEF KeepsReserve, IInv, Sound
  <2>2. Settled(vault[v], Balance(v)) /\ Settled(vault'[v], Balance(v)')
    BY <1>1, <1>4, <2>1 DEF IInv, Sound
  <2>3. Bal(v, "LOSS_DEFAULT") + vault[v].reserve_drawn = Paid(v)
    BY <2>2 DEF Settled, Balance, Accounts, Paid
  <2>4. Bal(v, "LOSS_DEFAULT")' + vault'[v].reserve_drawn = Paid(v)'
    BY <2>2 DEF Settled, Balance, Accounts, Paid
  <2>5. Paid(v)' = Paid(v)
    BY <2>1, <2>2, OnlyExecutionPays DEF Settled, SpendableStatuses
  <2>6. vault'[v].reserve_drawn = vault[v].reserve_drawn
    BY <1>2, <2>1 DEF KeepsReserve
  <2>7. vault[v].reserve_drawn \in Int
    BY <2>1, RowOfExistingVault DEF VaultRows
  <2>8. Bal(v, "LOSS_DEFAULT") \in Int /\ Bal(v, "LOSS_DEFAULT")' \in Int
    BY <1>1, BalIsInt
  <2>9. Bal(v, "LOSS_DEFAULT")' + vault[v].reserve_drawn
          = Bal(v, "LOSS_DEFAULT") + vault[v].reserve_drawn
    BY <2>3, <2>4, <2>5, <2>6
  <2>10. \A x, y, d \in Int : x + d = y + d => x = y
    OBVIOUS
  <2>11. QED
    BY <2>7, <2>8, <2>9, <2>10
<1>5. QED
  BY <1>3, <1>4

\* A recovery that books a loss has drawn the whole reserve.
LEMMA RecoveryLoss ==
  ASSUME TypeOK, IInv, NEW v \in Vaults, SimulateFailure(v),
         Bal(v, "LOSS_DEFAULT")' # Bal(v, "LOSS_DEFAULT")
  PROVE  Bal(v, "RESERVE_POOL")' = ReserveCap(vault[v].task)
<1>1. PICK split, end : FailureEffects(v, split, end)
  BY FailureSteps
<1>2. /\ vault[v] \in VaultRows
      /\ vault[v].status \in OpenStatuses
      /\ IsRecoverySplit(split, vault[v].total, vault[v].total - vault[v].spent,
                         ReserveCap(vault[v].task))
      /\ vault[v].spent <= vault[v].total
      /\ vault'[v] = RecoveredRow(vault[v], split, end)
  BY <1>1 DEF FailureEffects, TypeOK
<1>3. Live(vault[v], Balance(v))
  <2>1. Live(vault[v], Balance(v)) \/ Settled(vault[v], Balance(v))
    BY <1>2, SoundBooks DEF OpenStatuses, Exists
  <2>2. QED
    BY <1>2, <2>1 DEF OpenStatuses, Settled
<1>4. Settled(vault'[v], Balance(v)')
  <2>1. IInv' /\ Recovered(v)'
    BY <1>1, InvSimulateFailure DEF FailureEffects, Recovered
  <2>2. QED
    BY <2>1 DEF IInv, Sound
<1>5. vault'[v].reserve_drawn = split.reserve
  <2>1. vault[v].reserve_drawn = 0
    BY <1>3 DEF Live
  <2>2. QED
    BY <1>2, <2>1 DEF RecoveredRow, VaultRows, IsRecoverySplit
<1>6. /\ Bal(v, "LOSS_DEFAULT")' + split.reserve = Paid(v)'
      /\ Bal(v, "RESERVE_POOL")' = split.reserve
  BY <1>4, <1>5 DEF Settled, Balance, Accounts, Paid
<1>7. Paid(v)' = vault[v].spent /\ Bal(v, "LOSS_DEFAULT") = 0
  <2>1. Paid(v)' = Paid(v)
    BY FailureKeepsPaid
  <2>2. Bal(v, "VENDOR_PAYABLE") = -vault[v].spent /\ Bal(v, "LOSS_DEFAULT") = 0
    BY <1>3 DEF Live, Balance, Accounts
  <2>3. vault[v].spent \in Nat
    BY <1>2 DEF VaultRows
  <2>4. QED
    BY <2>1, <2>2, <2>3 DEF Paid
<1>8. ReserveCap(vault[v].task) \in Nat /\ vault[v].spent \in Nat /\ vault[v].total \in Nat
  BY <1>2, ReserveCapType DEF VaultRows
<1>9. Bal(v, "LOSS_DEFAULT")' \in Int
  BY TypeSimulateFailure, BalIsInt
<1>10. split.loss > 0
  BY <1>2, <1>6, <1>7, <1>8, <1>9 DEF IsRecoverySplit
<1>11. QED
  BY <1>2, <1>6, <1>10 DEF IsRecoverySplit
-----------------------------------------------------------------------------
(***************************************************************************)
(* Theorems.                                                               *)
(***************************************************************************)

\* Every reachable state satisfies the tables' types and the inductive invariant.
THEOREM InvariantHolds == Spec => [](TypeOK /\ IInv)
<1>1. Init => TypeOK /\ IInv
  BY InvInit
<1>2. TypeOK /\ IInv /\ [Next]_vars => (TypeOK /\ IInv)'
  BY TypeNext, InvNext
<1>3. QED
  BY <1>1, <1>2, PTL DEF Spec

\* The columns of every row stay in the types their tables declare; an amount
\* is never negative.
THEOREM TypeCorrect == Spec => []TypeOK
  BY InvariantHolds, PTL

\* The inductive invariant itself.
THEOREM InductiveInvariant == Spec => []IInv
  BY InvariantHolds, PTL

\* No vault draws more than the mandate of its task.
THEOREM MandateHolds == Spec => []WithinMandate
<1>1. Init => WithinMandate
  BY DEF Init, WithinMandate, Exists, NoVault
<1>2. TypeOK /\ IInv /\ WithinMandate /\ [Next]_vars => WithinMandate'
  BY WithinNext
<1>3. QED
  BY <1>1, <1>2, InvariantHolds, PTL DEF Spec

\* The general ledger and the vault columns agree after every handler.
THEOREM LedgerAgreesWithColumns == Spec => []LedgerReconciles
<1>1. TypeOK /\ IInv => LedgerReconciles
  <2> SUFFICES ASSUME TypeOK, IInv, NEW v \in Vaults, Exists(v)
               PROVE  /\ Bal(v, "PRINCIPAL_RECEIVABLE") = vault[v].principal
                      /\ Bal(v, "VAULT_AVAILABLE") = vault[v].spent - vault[v].total
                      /\ Bal(v, "RESERVE_POOL") = vault[v].reserve_drawn
                      /\ Bal(v, "REVENUE_ESCROW") = 0
    BY DEF LedgerReconciles
  <2>1. \A a \in Accounts : Balance(v)[a] = Bal(v, a)
    BY DEF Balance
  <2>2. vault[v] \in VaultRows
        /\ (Live(vault[v], Balance(v)) \/ Settled(vault[v], Balance(v)))
    BY SoundBooks
  <2>3. CASE Live(vault[v], Balance(v))
    BY <2>1, <2>3 DEF Live, Accounts
  <2>4. CASE Settled(vault[v], Balance(v))
    BY <2>1, <2>2, <2>4 DEF Settled, Accounts, VaultRows
  <2>5. QED
    BY <2>2, <2>3, <2>4
<1>2. QED
  BY <1>1, InvariantHolds, PTL

\* The owner is paid only when nobody else is owed anything.
THEOREM OwnerIsPaidLast == Spec => []OwnerPaidLast
<1>1. TypeOK /\ IInv => OwnerPaidLast
  <2> SUFFICES ASSUME TypeOK, IInv, NEW v \in Vaults, Bal(v, "OWNER_PAYABLE") # 0
               PROVE  vault[v].principal = 0 /\ vault[v].fee = 0 /\ vault[v].reserve_drawn = 0
    BY DEF OwnerPaidLast
  <2>1. Exists(v) /\ Balance(v)["OWNER_PAYABLE"] # 0
    BY SoundBooks DEF Accounts, Balance
  <2>2. Live(vault[v], Balance(v)) \/ Settled(vault[v], Balance(v))
    BY <2>1, SoundBooks
  <2>3. QED
    BY <2>1, <2>2 DEF Live, Settled
<1>2. QED
  BY <1>1, InvariantHolds, PTL

\* What the lender loses is bounded by what vendors were paid, and the reserve
\* a vault draws by the mandate of its task.
THEOREM LossStaysBounded == Spec => []LossIsBounded
<1>1. TypeOK /\ IInv /\ WithinMandate => LossIsBounded
  <2> SUFFICES ASSUME TypeOK, IInv, WithinMandate, NEW v \in Vaults, Exists(v)
               PROVE  /\ 0 <= Bal(v, "LOSS_DEFAULT")
                      /\ Bal(v, "LOSS_DEFAULT") <= -Bal(v, "VENDOR_PAYABLE")
                      /\ Bal(v, "RESERVE_POOL") <= ReserveCap(vault[v].task)
    BY DEF LossIsBounded
  <2> DEFINE loss == Balance(v)["LOSS_DEFAULT"]
             vendor == Balance(v)["VENDOR_PAYABLE"]
             pool == Balance(v)["RESERVE_POOL"]
  <2>1. /\ Bal(v, "LOSS_DEFAULT") = loss /\ Bal(v, "VENDOR_PAYABLE") = vendor
        /\ Bal(v, "RESERVE_POOL") = pool
    BY DEF Balance, Accounts
  <2>2. /\ vault[v] \in VaultRows /\ Balance(v) \in [Accounts -> Int]
        /\ Live(vault[v], Balance(v)) \/ Settled(vault[v], Balance(v))
    BY SoundBooks
  <2>3. /\ loss \in Int /\ vendor \in Int /\ pool \in Int
        /\ vault[v].spent \in Nat /\ vault[v].reserve_drawn \in Nat
    BY <2>2 DEF Accounts, VaultRows
  <2>4. 0 <= loss /\ loss <= -vendor /\ pool = vault[v].reserve_drawn
    <3>1. CASE Live(vault[v], Balance(v))
      BY <2>3, <3>1 DEF Live
    <3>2. CASE Settled(vault[v], Balance(v))
      BY <2>3, <3>2 DEF Settled
    <3>3. QED
      BY <2>2, <3>1, <3>2
  <2> HIDE DEF loss, vendor, pool
  <2>5. QED
    BY <2>1, <2>4 DEF WithinMandate
<1>2. QED
  BY <1>1, InvariantHolds, MandateHolds, PTL

\* A loss is booked by a recovery alone, and only beside the whole reserve.
THEOREM ReserveBeforeLoss == Spec => LossAfterReserve
<1>1. ASSUME TypeOK, IInv, [Next]_vars, NEW v \in Vaults,
             Bal(v, "LOSS_DEFAULT")' # Bal(v, "LOSS_DEFAULT")
      PROVE  Bal(v, "RESERVE_POOL")' = ReserveCap(vault[v].task)
  <2>1. CASE ~SimulateFailure(v)
    BY <1>1, <2>1, LossNeedsRecovery
  <2>2. CASE SimulateFailure(v)
    BY <1>1, <2>2, RecoveryLoss
  <2>3. QED
    BY <2>1, <2>2
<1>2. TypeOK /\ IInv /\ [Next]_vars =>
        [\A v \in Vaults : Bal(v, "LOSS_DEFAULT")' # Bal(v, "LOSS_DEFAULT") =>
           Bal(v, "RESERVE_POOL")' = ReserveCap(vault[v].task)]_vars
  BY <1>1
<1>3. QED
  BY <1>2, InvariantHolds, PTL DEF Spec, LossAfterReserve

\* The status of a vault tells what it owes.
THEOREM StatusAlwaysTellsDebt == Spec => []StatusTellsDebt
<1>1. TypeOK /\ IInv => StatusTellsDebt
  <2> SUFFICES ASSUME TypeOK, IInv, NEW v \in Vaults, Exists(v)
               PROVE  LET owed == vault[v].principal + vault[v].fee
                      IN  /\ vault[v].status = "REPAID" => owed = 0
                          /\ vault[v].status = "PARTIALLY_REPAID" => owed > 0
                          /\ vault[v].status = "DEFAULTED" =>
                               owed = 0 /\ Bal(v, "LOSS_DEFAULT") > 0
                          /\ vault[v].status \in {"ACTIVE", "SPENDING", "FROZEN"} =>
                               vault[v].principal = vault[v].total
    BY DEF StatusTellsDebt
  <2>1. Balance(v)["LOSS_DEFAULT"] = Bal(v, "LOSS_DEFAULT")
    BY DEF Balance, Accounts
  <2>2. /\ vault[v] \in VaultRows
        /\ Live(vault[v], Balance(v)) \/ Settled(vault[v], Balance(v))
    BY SoundBooks
  <2>3. CASE Live(vault[v], Balance(v))
    BY <2>3 DEF Live, OpenStatuses
  <2>4. CASE Settled(vault[v], Balance(v))
    BY <2>1, <2>4 DEF Settled
  <2>5. QED
    BY <2>2, <2>3, <2>4
<1>2. QED
  BY <1>1, InvariantHolds, PTL

\* The repayment journal balances for every vault and every revenue.
THEOREM RevenueIsNeverRefused == Spec => []RevenueAlwaysPosts
<1>1. TypeOK => RevenueAlwaysPosts
  <2> SUFFICES ASSUME TypeOK, NEW v \in Vaults, NEW amount \in RevenueAmounts, Exists(v)
               PROVE  Net(RepaymentLines(amount,
                            RepaymentWaterfall(amount, vault[v].principal, vault[v].fee,
                                               vault[v].reserve_drawn))) = 0
    BY DEF RevenueAlwaysPosts
  <2> DEFINE p == vault[v].principal
             f == vault[v].fee
             d == vault[v].reserve_drawn
             split == RepaymentWaterfall(amount, p, f, d)
             lines == RepaymentLines(amount, split)
  <2>1. amount \in Nat /\ p \in Nat /\ f \in Nat /\ d \in Nat
    BY AmountsAssumption, RowOfExistingVault DEF Positive, VaultRows
  <2> HIDE DEF p, f, d
  <2>2. IsRepaymentSplit(split, amount, p, f, d)
    BY <2>1, RepaymentFacts
  <2> HIDE DEF split
  <2>3. /\ split.principal \in Int /\ split.fee \in Int /\ split.reserve \in Int
        /\ split.owner \in Int
        /\ split.principal + split.fee + split.reserve + split.owner = amount
    BY <2>1, <2>2 DEF IsRepaymentSplit
  <2>4. /\ lines["REVENUE_ESCROW"] = amount
        /\ lines["PRINCIPAL_RECEIVABLE"] = -split.principal
        /\ lines["FEE_INCOME"] = -split.fee
        /\ lines["RESERVE_POOL"] = -split.reserve
        /\ lines["OWNER_PAYABLE"] = -split.owner
        /\ lines["SANDBOX_CASH"] = 0 /\ lines["VAULT_AVAILABLE"] = 0
        /\ lines["VENDOR_PAYABLE"] = 0 /\ lines["LOSS_DEFAULT"] = 0
    BY <2>1, <2>3, RepaymentLineFacts
  <2> HIDE DEF lines
  <2>5. Net(lines) = 0
    BY <2>1, <2>3, <2>4 DEF Net
  <2>6. QED
    BY <2>5 DEF lines, split, p, f, d
<1>2. QED
  BY <1>1, TypeCorrect, PTL

\* Once an agent is revoked its vaults never pay a vendor again.
THEOREM RevocationStaysFinal == Spec => RevocationIsFinal
<1>1. TypeOK /\ IInv /\ [Next]_vars =>
        [\A v \in Vaults :
           Exists(v) /\ agent[vault[v].agent].revoked => Paid(v)' = Paid(v)]_vars
  BY OnlyExecutionPays
<1>2. QED
  BY <1>1, InvariantHolds, PTL DEF Spec, RevocationIsFinal

\* A vault that has left the spendable statuses never returns to them and
\* never pays a vendor again.
THEOREM NoVaultReopens == Spec => NoReopening
<1>1. TypeOK /\ IInv /\ [Next]_vars =>
        [\A v \in Vaults :
           Exists(v) /\ vault[v].status \notin SpendableStatuses =>
             vault'[v].status \notin SpendableStatuses /\ Paid(v)' = Paid(v)]_vars
  BY OnlyExecutionPays, SpendableStaysBehind
<1>2. QED
  BY <1>1, InvariantHolds, PTL DEF Spec, NoReopening
=============================================================================
