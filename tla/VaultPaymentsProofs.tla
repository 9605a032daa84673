------------------------ MODULE VaultPaymentsProofs ------------------------
(***************************************************************************)
(* What VaultOps adds up: the payments of a vault against its ledger, its  *)
(* limits and its pace, and its receipts against its ledger, for every     *)
(* value of the constants.                                                 *)
(***************************************************************************)
EXTENDS VaultOpsSafety, FiniteSetTheorems

(***************************************************************************)
(* Sums over finite sets.  MapThenSumSet is a recursive function over the  *)
(* subsets of its set; the lemmas show that the recursion is well founded  *)
(* and that the order in which elements are taken does not matter.         *)
(***************************************************************************)
Pick(s) == CHOOSE x \in s : TRUE

\* g gives every subset of S the sum of f over it, taking elements as Pick does
IsSum(g, f, S) ==
  g = [s \in SUBSET S |-> IF s = {} THEN 0 ELSE f[Pick(s)] + g[s \ {Pick(s)}]]

\* What Pick takes from a nonempty set is one of its elements.
LEMMA PickIn == ASSUME NEW s, s # {} PROVE Pick(s) \in s
  BY DEF Pick

\* Among subsets of a finite set, one has no proper subset among them: the
\* induction over finite sets of this module.
LEMMA LeastSubset ==
  ASSUME NEW S, IsFiniteSet(S), NEW Bad, Bad \subseteq SUBSET S, Bad # {}
  PROVE  \E s \in Bad : \A t \in SUBSET s : t # s => t \notin Bad
<1> DEFINE R == StrictSubsetOrdering(S)
<1>1. IsWellFoundedOn(R, SUBSET S)
  BY FS_StrictSubsetOrderingWellFounded, FS_FiniteSubsetsOfFinite
<1>2. PICK s \in Bad : \A t \in Bad : <<t, s>> \notin R
  <2> HIDE DEF R
  <2>1. QED
    BY <1>1, WFMin
<1>3. ASSUME NEW t \in SUBSET s, t # s, t \in Bad
      PROVE  FALSE
  <2>1. <<t, s>> \in (SUBSET S) \X (SUBSET S)
    OBVIOUS
  <2>2. <<t, s>> \in R
    BY <2>1, <1>3 DEF StrictSubsetOrdering
  <2>3. QED
    BY <2>2, <1>2, <1>3
<1>4. QED
  BY <1>3

\* A sum takes out the picked element first.
LEMMA SumUnfold ==
  ASSUME NEW S, NEW f, NEW g, IsSum(g, f, S), NEW s \in SUBSET S
  PROVE  g[s] = IF s = {} THEN 0 ELSE f[Pick(s)] + g[s \ {Pick(s)}]
<1> DEFINE body(t) == IF t = {} THEN 0 ELSE f[Pick(t)] + g[t \ {Pick(t)}]
<1>1. g = [t \in SUBSET S |-> body(t)]
  BY DEF IsSum
<1> HIDE DEF body
<1>2. g[s] = body(s)
  BY <1>1
<1>3. QED
  BY <1>2 DEF body

\* A sum of integers is an integer, a sum of naturals a natural.
LEMMA SumType ==
  ASSUME NEW S, IsFiniteSet(S), NEW N, N = Int \/ N = Nat,
         NEW f, \A x \in S : f[x] \in N, NEW g, IsSum(g, f, S)
  PROVE  \A s \in SUBSET S : g[s] \in N
<1> DEFINE Bad == {s \in SUBSET S : g[s] \notin N}
<1> SUFFICES ASSUME Bad # {} PROVE FALSE
  OBVIOUS
<1>1. PICK s \in Bad : \A t \in SUBSET s : t # s => t \notin Bad
  <2> HIDE DEF Bad
  <2>1. Bad \subseteq SUBSET S
    BY DEF Bad
  <2>2. QED
    BY <2>1, LeastSubset
<1>2. s \in SUBSET S /\ IsSum(g, f, S)
  OBVIOUS
<1>3. g[s] = IF s = {} THEN 0 ELSE f[Pick(s)] + g[s \ {Pick(s)}]
  BY ONLY SumUnfold, <1>2
<1>4. s # {}
  BY <1>3, <1>1
<1>5. Pick(s) \in s
  BY <1>4, PickIn
<1>6. g[s \ {Pick(s)}] \in N /\ f[Pick(s)] \in N
  BY <1>1, <1>2, <1>5
<1>7. g[s] \in N
  BY <1>3, <1>4, <1>6
<1>8. QED
  BY <1>7

\* A sum depends only on what is summed, not on the set it is a part of.
LEMMA SumAgree ==
  ASSUME NEW S, IsFiniteSet(S), NEW T, S \subseteq T, NEW f, NEW h,
         \A x \in S : f[x] = h[x],
         NEW g, IsSum(g, f, S), NEW k, IsSum(k, h, T)
  PROVE  \A s \in SUBSET S : g[s] = k[s]
<1> DEFINE Bad == {s \in SUBSET S : g[s] # k[s]}
<1> SUFFICES ASSUME Bad # {} PROVE FALSE
  OBVIOUS
<1>1. PICK s \in Bad : \A t \in SUBSET s : t # s => t \notin Bad
  <2> HIDE DEF Bad
  <2>1. Bad \subseteq SUBSET S
    BY DEF Bad
  <2>2. QED
    BY <2>1, LeastSubset
<1>2. s \in SUBSET S /\ s \in SUBSET T
  OBVIOUS
<1>9. /\ g[s] = IF s = {} THEN 0 ELSE f[Pick(s)] + g[s \ {Pick(s)}]
      /\ k[s] = IF s = {} THEN 0 ELSE h[Pick(s)] + k[s \ {Pick(s)}]
  <2> HIDE DEF Bad
  <2>1. QED
    BY SumUnfold, <1>2
<1>3. s # {}
  BY <1>9, <1>1
<1>4. Pick(s) \in s
  BY <1>3, PickIn
<1>5. g[s] = f[Pick(s)] + g[s \ {Pick(s)}]
  BY <1>9, <1>3
<1>6. k[s] = h[Pick(s)] + k[s \ {Pick(s)}]
  BY <1>9, <1>3
<1>7. g[s \ {Pick(s)}] = k[s \ {Pick(s)}]
  BY <1>1, <1>4
<1>8. QED
  BY <1>1, <1>4, <1>5, <1>6, <1>7

\* Every finite set has a sum: the recursive definition of the fold is total.
LEMMA SumExists ==
  ASSUME NEW S, IsFiniteSet(S), NEW f
  PROVE  \E g : IsSum(g, f, S)
<1> DEFINE Bad == {s \in SUBSET S : ~ \E g : IsSum(g, f, s)}
<1> SUFFICES ASSUME Bad # {} PROVE FALSE
  OBVIOUS
<1>1. PICK u \in Bad : \A t \in SUBSET u : t # u => t \notin Bad
  <2> HIDE DEF Bad
  <2>1. Bad \subseteq SUBSET S
    BY DEF Bad
  <2>2. QED
    BY <2>1, LeastSubset
<1> DEFINE G(s) == CHOOSE g : IsSum(g, f, s)
           step(s) == s \ {Pick(s)}
           g == [s \in SUBSET u |-> IF s = {} THEN 0 ELSE f[Pick(s)] + G(step(s))[step(s)]]
<1>2. \A t \in SUBSET u : t # u => IsSum(G(t), f, t)
  <2>1. SUFFICES ASSUME NEW t \in SUBSET u, t # u PROVE IsSum(G(t), f, t)
    OBVIOUS
  <2>2. \E h : IsSum(h, f, t)
    BY <1>1, <2>1
  <2>3. QED
    BY <2>2
<1> HIDE DEF G
<1>3. ASSUME NEW s \in SUBSET u, s # {}
      PROVE  g[step(s)] = G(step(s))[step(s)]
  <2> DEFINE t == step(s)
  <2>1. Pick(s) \in s
    BY <1>3, PickIn
  <2>2. t \in SUBSET u /\ t # u
    BY <2>1
  <2>3. IsSum(G(t), f, t)
    BY <2>2, <1>2
  <2>4. G(t)[t] = IF t = {} THEN 0 ELSE f[Pick(t)] + G(t)[step(t)]
    <3>1. t \in SUBSET t
      OBVIOUS
    <3> HIDE DEF t, g, Bad
    <3>2. G(t)[t] = IF t = {} THEN 0 ELSE f[Pick(t)] + G(t)[t \ {Pick(t)}]
      BY <2>3, <3>1, SumUnfold
    <3>3. QED
      BY <3>2
  <2>5. g[t] = IF t = {} THEN 0 ELSE f[Pick(t)] + G(step(t))[step(t)]
    BY <2>2
  <2>6. t # {} => G(t)[step(t)] = G(step(t))[step(t)]
    <3>1. SUFFICES ASSUME t # {} PROVE G(t)[step(t)] = G(step(t))[step(t)]
      OBVIOUS
    <3>2. Pick(t) \in t
      BY <3>1, PickIn
    <3>3. step(t) \in SUBSET u /\ step(t) # u /\ step(t) \subseteq t
      BY <2>2, <3>2
    <3>4. IsSum(G(step(t)), f, step(t))
      BY <3>3, <1>2
    <3>5. IsFiniteSet(step(t))
      BY <3>3, FS_Subset
    <3>6. \A x \in step(t) : f[x] = f[x]
      OBVIOUS
    <3>7. step(t) \in SUBSET step(t)
      OBVIOUS
    <3> DEFINE r == step(t)
    <3> HIDE DEF t, r, g, Bad
    <3>8. G(t)[r] = G(r)[r]
      BY <2>3, <3>3, <3>4, <3>5, <3>6, <3>7, SumAgree DEF r
    <3>9. QED
      BY <3>8 DEF r
  <2>7. QED
    BY <2>4, <2>5, <2>6
<1>4. g = [s \in SUBSET u |-> IF s = {} THEN 0 ELSE f[Pick(s)] + g[s \ {Pick(s)}]]
  <2> DEFINE old(s) == IF s = {} THEN 0 ELSE f[Pick(s)] + G(step(s))[step(s)]
             new(s) == IF s = {} THEN 0 ELSE f[Pick(s)] + g[s \ {Pick(s)}]
  <2>1. \A s \in SUBSET u : old(s) = new(s)
    BY <1>3
  <2>2. g = [s \in SUBSET u |-> old(s)]
    OBVIOUS
  <2> HIDE DEF old, new
  <2>3. [s \in SUBSET u |-> old(s)] = [s \in SUBSET u |-> new(s)]
    BY <2>1
  <2>4. g = [s \in SUBSET u |-> new(s)]
    BY <2>2, <2>3
  <2>5. QED
    BY <2>4 DEF new
<1>5. IsSum(g, f, u)
  BY <1>4 DEF IsSum
<1>6. QED
  BY <1>5, <1>1

\* Any element may be taken out first.
LEMMA SumAddElement ==
  ASSUME NEW S, IsFiniteSet(S), NEW f, \A x \in S : f[x] \in Int, NEW g, IsSum(g, f, S)
  PROVE  \A s \in SUBSET S : \A x \in s : g[s] = f[x] + g[s \ {x}]
<1> DEFINE Bad == {s \in SUBSET S : \E x \in s : g[s] # f[x] + g[s \ {x}]}
<1> SUFFICES ASSUME Bad # {} PROVE FALSE
  OBVIOUS
<1>1. PICK s \in Bad : \A t \in SUBSET s : t # s => t \notin Bad
  <2> HIDE DEF Bad
  <2>1. Bad \subseteq SUBSET S
    BY DEF Bad
  <2>2. QED
    BY <2>1, LeastSubset
<1>2. s \in SUBSET S
  OBVIOUS
<1>3. PICK x \in s : g[s] # f[x] + g[s \ {x}]
  OBVIOUS
<1> DEFINE p == Pick(s)
<1>4. p \in s
  BY <1>3, PickIn
<1>5. g[s] = f[p] + g[s \ {p}]
  <2> HIDE DEF Bad
  <2>1. g[s] = IF s = {} THEN 0 ELSE f[Pick(s)] + g[s \ {Pick(s)}]
    BY SumUnfold, <1>2
  <2>2. QED
    BY <2>1, <1>3
<1> HIDE DEF p
<1>6. p # x
  BY <1>3, <1>5
<1>7. g[s \ {p}] = f[x] + g[(s \ {p}) \ {x}]
  <2>1. s \ {p} \notin Bad
    BY <1>1, <1>4
  <2>2. s \ {p} \in SUBSET S /\ x \in s \ {p}
    BY <1>2, <1>6
  <2>3. QED
    BY <2>1, <2>2
<1>8. g[s \ {x}] = f[p] + g[(s \ {x}) \ {p}]
  <2>1. s \ {x} \notin Bad
    BY <1>1, <1>3
  <2>2. s \ {x} \in SUBSET S /\ p \in s \ {x}
    BY <1>2, <1>4, <1>6
  <2>3. QED
    BY <2>1, <2>2
<1>9. (s \ {p}) \ {x} = (s \ {x}) \ {p}
  OBVIOUS
<1>10. f[p] \in Int /\ f[x] \in Int /\ g[(s \ {x}) \ {p}] \in Int
  BY <1>2, <1>3, <1>4, SumType
<1>11. \A a, b, z \in Int : a + (b + z) = b + (a + z)
  OBVIOUS
<1>12. f[p] + (f[x] + g[(s \ {x}) \ {p}]) = f[x] + (f[p] + g[(s \ {x}) \ {p}])
  BY <1>10, <1>11
<1> HIDE DEF Bad
<1>13. QED
  BY ONLY <1>3, <1>5, <1>7, <1>8, <1>9, <1>12

\* SumOfAmounts (rules.py) is the sum of the amounts.
LEMMA SumOfAmountsIsSum ==
  ASSUME NEW S, IsFiniteSet(S)
  PROVE  \E g : IsSum(g, [p \in S |-> p.amount], S) /\ SumOfAmounts(S) = g[S]
<1> DEFINE f == [p \in S |-> p.amount]
           body(g) == [s \in SUBSET S |-> IF s = {} THEN 0
                        ELSE Pick(s).amount + g[s \ {Pick(s)}]]
           iter == CHOOSE g : g = body(g)
<1>1. PICK h : IsSum(h, f, S)
  BY SumExists
<1>2. ASSUME NEW g
      PROVE  body(g) = [s \in SUBSET S |-> IF s = {} THEN 0 ELSE f[Pick(s)] + g[s \ {Pick(s)}]]
  <2>1. \A s \in SUBSET S : s # {} => f[Pick(s)] = Pick(s).amount
    BY PickIn
  <2>2. QED
    BY <2>1
<1>3. h = body(h)
  BY <1>1, <1>2 DEF IsSum
<1>4. iter = body(iter)
  <2> HIDE DEF body
  <2>1. QED
    BY <1>3
<1>5. IsSum(iter, f, S)
  BY <1>4, <1>2 DEF IsSum
<1>6. SumOfAmounts(S) = iter[S]
  BY DEF SumOfAmounts, MapThenSumSet, MapThenFoldSet, Pick
<1>7. QED
  BY <1>5, <1>6

(***************************************************************************)
(* What the proofs below use of sums.                                      *)
(***************************************************************************)
\* One more element adds its value.
LEMMA SumOneMore ==
  ASSUME NEW S, IsFiniteSet(S), NEW x, x \notin S,
         NEW h, \A y \in S \cup {x} : h[y] \in Int,
         NEW f, \A y \in S : f[y] = h[y],
         NEW g, IsSum(g, f, S), NEW k, IsSum(k, h, S \cup {x})
  PROVE  k[S \cup {x}] = h[x] + g[S]
<1> DEFINE T == S \cup {x}
<1>1. IsFiniteSet(T)
  BY FS_AddElement
<1>2. T \in SUBSET T /\ x \in T /\ T \ {x} = S /\ S \subseteq T /\ S \in SUBSET S
  OBVIOUS
<1> HIDE DEF T
<1>3. IsSum(k, h, T) /\ \A y \in T : h[y] \in Int
  BY DEF T
<1>4. k[T] = h[x] + k[T \ {x}]
  BY <1>1, <1>2, <1>3, SumAddElement
<1>5. g[S] = k[S]
  BY <1>2, <1>3, SumAgree
<1>6. QED
  BY <1>2, <1>4, <1>5 DEF T

\* No payments add up to nothing.
LEMMA AmountsOfNone == SumOfAmounts({}) = 0
<1>1. PICK g : IsSum(g, [p \in {} |-> p.amount], {}) /\ SumOfAmounts({}) = g[{}]
  BY SumOfAmountsIsSum, FS_EmptySet
<1>2. g[{}] = 0
  <2>1. {} \in SUBSET {}
    OBVIOUS
  <2>2. QED
    BY <1>1, <2>1, SumUnfold
<1>3. QED
  BY <1>1, <1>2

\* One more payment adds its amount.
LEMMA AmountsOfOneMore ==
  ASSUME NEW S, IsFiniteSet(S), NEW x, x \notin S, \A p \in S \cup {x} : p.amount \in Nat
  PROVE  /\ SumOfAmounts(S) \in Nat
         /\ SumOfAmounts(S \cup {x}) = SumOfAmounts(S) + x.amount
<1> DEFINE T == S \cup {x}
           f == [p \in S |-> p.amount]
           h == [p \in T |-> p.amount]
<1>1. IsFiniteSet(T)
  BY FS_AddElement
<1>2. PICK g : IsSum(g, f, S) /\ SumOfAmounts(S) = g[S]
  BY SumOfAmountsIsSum
<1>3. PICK k : IsSum(k, h, T) /\ SumOfAmounts(T) = k[T]
  <2> HIDE DEF T
  <2>1. QED
    BY <1>1, SumOfAmountsIsSum
<1>4. /\ \A y \in S \cup {x} : h[y] \in Int
      /\ \A y \in S : f[y] = h[y]
      /\ \A y \in S : f[y] \in Nat
      /\ h[x] = x.amount /\ x.amount \in Nat
  OBVIOUS
<1> HIDE DEF f, h
<1>5. g[S] \in Nat
  <2>1. S \in SUBSET S
    OBVIOUS
  <2>2. QED
    BY <1>2, <1>4, <2>1, SumType
<1>6. k[T] = h[x] + g[S]
  BY <1>2, <1>3, <1>4, SumOneMore
<1>7. QED
  BY <1>2, <1>3, <1>4, <1>5, <1>6

-----------------------------------------------------------------------------
USE DEF Currencies, AgentStatuses

(***************************************************************************)
(* What every handler but execute_transaction leaves of the payments and   *)
(* of the terms they were decided on.                                      *)
(***************************************************************************)
SameBudget(v) ==
  /\ vault'[v].status # "NONE"
  /\ vault'[v].total = vault[v].total
  /\ vault'[v].per_txn = vault[v].per_txn
  /\ vault'[v].count = vault[v].count

QuietStep ==
  /\ txn' = txn
  /\ now <= now'
  /\ \A v \in Vaults : Exists(v) => SameBudget(v)
  /\ \A v \in Vaults : Paid(v)' = Paid(v)
  /\ \A v \in Vaults : ~Exists(v) /\ Exists(v)' => vault'[v].count = 0

\* The rows the handlers other than execute_transaction leave keep the terms.
LEMMA RowsKeepBudget ==
  ASSUME NEW r \in VaultRows
  PROVE  /\ \A s \in VaultStatuses :
              LET n == [r EXCEPT !.status = s]
              IN  n.total = r.total /\ n.per_txn = r.per_txn /\ n.count = r.count
         /\ \A split, s :
              LET n == RepaidRow(r, split, s)
              IN  n.total = r.total /\ n.per_txn = r.per_txn /\ n.count = r.count
                    /\ n.status = s
         /\ \A split, s :
              LET n == RecoveredRow(r, split, s)
              IN  n.total = r.total /\ n.per_txn = r.per_txn /\ n.count = r.count
                    /\ n.status = s
  BY DEF VaultRows, RepaidRow, RecoveredRow

\* A handler that rewrites the row of one existing vault and keeps its terms
\* keeps those of every vault.
LEMMA TermsOfOneRow ==
  ASSUME TypeOK, NEW w \in Vaults, Exists(w), NEW row, row.status # "NONE",
         row.total = vault[w].total, row.per_txn = vault[w].per_txn,
         row.count = vault[w].count, vault' = [vault EXCEPT ![w] = row]
  PROVE  /\ \A v \in Vaults : Exists(v) => SameBudget(v)
         /\ \A v \in Vaults : ~Exists(v) => ~Exists(v)'
<1>1. vault'[w] = row /\ \A v \in Vaults \ {w} : vault'[v] = vault[v]
  BY DEF TypeOK
<1>2. QED
  BY <1>1 DEF SameBudget, Exists

\* Changing the status of a vault keeps its terms.
LEMMA TermsOfStatus ==
  ASSUME TypeOK, NEW w \in Vaults, Exists(w), NEW s \in VaultStatuses, s # "NONE",
         vault' = [vault EXCEPT ![w].status = s]
  PROVE  /\ \A v \in Vaults : Exists(v) => SameBudget(v)
         /\ \A v \in Vaults : ~Exists(v) => ~Exists(v)'
<1> DEFINE row == [vault[w] EXCEPT !.status = s]
<1>1. vault[w] \in VaultRows
  BY RowOfExistingVault
<1>2. row.total = vault[w].total /\ row.per_txn = vault[w].per_txn /\ row.count = vault[w].count
  BY <1>1, RowsKeepBudget
<1>3. row.status # "NONE" /\ vault' = [vault EXCEPT ![w] = row]
  BY <1>1 DEF VaultRows
<1> HIDE DEF row
<1>4. QED
  BY <1>2, <1>3, TermsOfOneRow

\* A step that leaves the vault rows leaves their terms.
LEMMA TermsOfSameRows ==
  ASSUME UNCHANGED vault
  PROVE  /\ \A v \in Vaults : Exists(v) => SameBudget(v)
         /\ \A v \in Vaults : ~Exists(v) => ~Exists(v)'
  BY DEF SameBudget, Exists

\* The kill switch keeps the terms of the vaults it freezes.
LEMMA TermsOfRevoke ==
  ASSUME TypeOK, NEW a \in Agents, RevokeAgent(a)
  PROVE  /\ \A v \in Vaults : Exists(v) => SameBudget(v)
         /\ \A v \in Vaults : ~Exists(v) => ~Exists(v)'
<1>1. ASSUME NEW v \in Vaults, Exists(v)
      PROVE  SameBudget(v)
  <2>1. vault[v] \in VaultRows
    BY <1>1, RowOfExistingVault
  <2>2. vault'[v] = vault[v] \/ vault'[v] = [vault[v] EXCEPT !.status = "FROZEN"]
    BY DEF RevokeAgent
  <2>3. QED
    BY <1>1, <2>1, <2>2 DEF SameBudget, Exists, VaultRows
<1>2. ASSUME NEW v \in Vaults, ~Exists(v)
      PROVE  ~Exists(v)'
  <2>1. v \notin OpenVaultsOf(a)
    BY <1>2 DEF OpenVaultsOf, Exists
  <2>2. vault'[v] = vault[v]
    BY <2>1 DEF RevokeAgent
  <2>3. QED
    BY <1>2, <2>2 DEF Exists
<1>3. QED
  BY <1>1, <1>2

\* What vendors were paid is as before when the books are.
LEMMA PaidOfSameBooks ==
  ASSUME UNCHANGED books
  PROVE  \A v \in Vaults : Paid(v)' = Paid(v)
  BY DEF Paid, Bal

\* create_vault makes a vault with no payment and leaves the others.
LEMMA QuietCreateVault ==
  ASSUME TypeOK, NEW w \in Vaults, NEW a, NEW task, NEW limit \in Limits, NEW perTxn,
         NEW vendors, NEW duration, CreateVault(w, a, task, limit, perTxn, vendors, duration)
  PROVE  QuietStep
<1> DEFINE row == NewRow(a, task, limit, perTxn, vendors, now + duration)
           lines == DisbursementLines(limit)
           book == Post(books[w], <<"disburse", w>>, "own", lines)
           account == "VENDOR_PAYABLE"
<1>1. /\ ~Exists(w) /\ vault' = [vault EXCEPT ![w] = row] /\ txn' = txn /\ now' = now
      /\ books' = [books EXCEPT ![w] = book]
  BY DEF CreateVault
<1>2. row.count = 0
  BY DEF NewRow
<1>3. lines \in [Accounts -> Int] /\ lines[account] = 0 /\ account \in Accounts
  <2>1. limit \in Int
    BY AmountsAssumption DEF Positive
  <2>2. QED
    BY <2>1, DisbursementFacts DEF Accounts
<1> HIDE DEF row, lines
<1>4. \A d \in Currencies : book[d][account] = books[w][d][account]
  <2>1. books[w] \in Books /\ "own" \in Currencies
    BY BalanceOfBook
  <2> HIDE DEF account
  <2>2. QED
    BY <1>3, <2>1, PostKeeps
<1> HIDE DEF book
<1>5. \A v \in Vaults, d \in Currencies : books'[v][d][account] = books[v][d][account]
  BY <1>1, <1>4 DEF TypeOK
<1>6. \A v \in Vaults : Paid(v)' = Paid(v)
  BY <1>5 DEF Paid, Bal
<1>7. vault'[w] = row /\ \A v \in Vaults \ {w} : vault'[v] = vault[v]
  BY <1>1 DEF TypeOK
<1>8. \A v \in Vaults : Exists(v) => SameBudget(v)
  BY <1>1, <1>7 DEF SameBudget, Exists
<1>9. \A v \in Vaults : ~Exists(v) /\ Exists(v)' => vault'[v].count = 0
  BY <1>2, <1>7 DEF Exists
<1>10. now <= now'
  BY <1>1 DEF TypeOK
<1>11. QED
  BY <1>1, <1>6, <1>8, <1>9, <1>10 DEF QuietStep

\* Every step but execute_transaction is quiet.
LEMMA QuietOrPayment ==
  ASSUME TypeOK, IInv, [Next]_vars, ~ \E k \in Keys : Execute(k)
  PROVE  QuietStep
<1>1. now \in Nat
  BY DEF TypeOK
<1>2. ASSUME txn' = txn, now <= now', \A v \in Vaults : Exists(v) => SameBudget(v),
             \A v \in Vaults : Paid(v)' = Paid(v),
             \A v \in Vaults : ~Exists(v) => ~Exists(v)'
      PROVE  QuietStep
  BY <1>2 DEF QuietStep
<1>3. UNCHANGED now => now <= now'
  BY <1>1
<1>4. CASE UNCHANGED <<vault, books>> /\ txn' = txn /\ now <= now'
  BY <1>2, <1>4, TermsOfSameRows, PaidOfSameBooks
<1>5. ASSUME NEW a \in Agents, RevokeAgent(a)
      PROVE  QuietStep
  <2>1. UNCHANGED <<txn, now, books>>
    BY <1>5 DEF RevokeAgent
  <2>2. QED
    BY <1>2, <1>3, <1>5, <2>1, TermsOfRevoke, PaidOfSameBooks
<1>6. CASE VaultStep
  <2>1. PICK w \in Vaults :
          \/ \E a \in Agents, task \in Tasks, limit \in Limits, vendors \in AllowLists,
                duration \in Durations :
               \E perTxn \in PerTxnLimits \cup {limit} :
                 CreateVault(w, a, task, limit, perTxn, vendors, duration)
          \/ \E k \in Keys, spend \in Spends : Propose(k, w, spend)
          \/ FreezeVault(w)
          \/ \E e \in Events, amount \in RevenueAmounts, currency \in Currencies,
                completed \in BOOLEAN : ReceiveRevenue(w, e, amount, currency, completed)
          \/ SimulateFailure(w)
          \/ CloseVault(w)
    BY <1>6 DEF VaultStep
  <2>2. ASSUME NEW s \in {"FROZEN", "CLOSED"}, Exists(w),
               vault' = [vault EXCEPT ![w].status = s], UNCHANGED <<txn, now, books>>
        PROVE  QuietStep
    <3>1. s \in VaultStatuses /\ s # "NONE"
      BY DEF VaultStatuses
    <3>2. QED
      BY <1>2, <1>3, <2>2, <3>1, TermsOfStatus, PaidOfSameBooks
  <2>3. ASSUME NEW k \in Keys, NEW spend \in Spends, Propose(k, w, spend)
        PROVE  QuietStep
    <3>1. /\ Exists(w) /\ UNCHANGED <<txn, now, books>>
          /\ vault' = vault \/ vault' = [vault EXCEPT ![w].status = "FROZEN"]
      BY <2>3 DEF Propose
    <3>2. QED
      BY <1>3, <1>4, <2>2, <3>1
  <2>4. FreezeVault(w) => QuietStep
    BY <2>2, MoveSources DEF FreezeVault, Exists
  <2>5. CloseVault(w) => QuietStep
    BY <2>2, MoveSources DEF CloseVault, Exists
  <2>6. ASSUME NEW e \in Events, NEW amount \in RevenueAmounts, NEW currency \in Currencies,
               NEW completed \in BOOLEAN, ReceiveRevenue(w, e, amount, currency, completed)
        PROVE  QuietStep
    <3>1. PICK split, end : RevenueEffects(w, e, amount, currency, split, end)
      BY <2>6, RevenueSteps
    <3>2. /\ vault' = [vault EXCEPT ![w] = RepaidRow(vault[w], split, end)]
          /\ vault[w] \in VaultRows /\ Exists(w) /\ end # "NONE"
      BY <3>1 DEF RevenueEffects, Exists
    <3>3. UNCHANGED <<txn, now>>
      BY <2>6 DEF ReceiveRevenue
    <3> DEFINE row == RepaidRow(vault[w], split, end)
    <3>4. /\ row.total = vault[w].total /\ row.per_txn = vault[w].per_txn
          /\ row.count = vault[w].count /\ row.status # "NONE"
      BY <3>2, RowsKeepBudget
    <3> HIDE DEF row
    <3>5. /\ \A v \in Vaults : Exists(v) => SameBudget(v)
          /\ \A v \in Vaults : ~Exists(v) => ~Exists(v)'
      BY <3>2, <3>4, TermsOfOneRow DEF row
    <3>6. \A v \in Vaults : Paid(v)' = Paid(v)
      BY <2>6, RevenueKeepsPaid
    <3>7. QED
      BY <1>2, <1>3, <3>3, <3>5, <3>6
  <2>7. ASSUME SimulateFailure(w)
        PROVE  QuietStep
    <3>1. PICK split, end : FailureEffects(w, split, end)
      BY <2>7, FailureSteps
    <3>2. /\ vault' = [vault EXCEPT ![w] = RecoveredRow(vault[w], split, end)]
          /\ vault[w] \in VaultRows /\ Exists(w) /\ end # "NONE"
      BY <3>1 DEF FailureEffects, Exists, OpenStatuses
    <3>3. UNCHANGED <<txn, now>>
      BY <2>7 DEF SimulateFailure
    <3> DEFINE row == RecoveredRow(vault[w], split, end)
    <3>4. /\ row.total = vault[w].total /\ row.per_txn = vault[w].per_txn
          /\ row.count = vault[w].count /\ row.status # "NONE"
      BY <3>2, RowsKeepBudget
    <3> HIDE DEF row
    <3>5. /\ \A v \in Vaults : Exists(v) => SameBudget(v)
          /\ \A v \in Vaults : ~Exists(v) => ~Exists(v)'
      BY <3>2, <3>4, TermsOfOneRow DEF row
    <3>6. \A v \in Vaults : Paid(v)' = Paid(v)
      BY <2>7, FailureKeepsPaid
    <3>7. QED
      BY <1>2, <1>3, <3>3, <3>5, <3>6
  <2>8. QED
    BY <2>1, <2>3, <2>4, <2>5, <2>6, <2>7, QuietCreateVault
<1>7. CASE Tick
  BY <1>1, <1>4, <1>7 DEF Tick
<1>8. CASE AgentStep
  <2>1. PICK a \in Agents :
          \/ \E ttl \in PassportTtls : IssuePassport(a, ttl)
          \/ FreezeAgent(a) \/ UnfreezeAgent(a) \/ RevokeAgent(a)
    BY <1>8 DEF AgentStep
  <2>2. QED
    BY <1>3, <1>4, <1>5, <2>1 DEF IssuePassport, FreezeAgent, UnfreezeAgent
<1>9. CASE \E task \in Tasks, cap \in ReserveCaps : CreateMandate(task, cap)
  BY <1>3, <1>4, <1>9 DEF CreateMandate
<1>10. CASE UNCHANGED vars
  BY <1>3, <1>4, <1>10 DEF vars
<1>11. QED
  BY <1>6, <1>7, <1>8, <1>9, <1>10 DEF Next

-----------------------------------------------------------------------------
(***************************************************************************)
(* Payments against the ledger and the limit.                              *)
(***************************************************************************)
\* What a payment is: a row of its table, and distinct keys give distinct rows.
LEMMA PaymentRow ==
  ASSUME TypeOK, NEW k \in Keys, txn[k] # NoTxn
  PROVE  txn[k] \in TxnRows
  BY DEF TypeOK

\* The payments of a vault are rows with positive amounts, dated by the clock.
LEMMA RecentRows ==
  ASSUME TypeOK, PaymentRows, NEW v \in Vaults
  PROVE  /\ IsFiniteSet(Recent(v))
         /\ Recent(v) \subseteq TxnRows
         /\ \A p \in Recent(v) : p.at <= now /\ txn[p.key] = p /\ p.vault = v
<1>1. IsFiniteSet(PaymentsOf(v))
  BY DEF PaymentRows
<1>2. IsFiniteSet(Recent(v))
  <2> DEFINE pay == [k \in PaymentsOf(v) |-> txn[k]]
  <2>1. pay \in Surjection(PaymentsOf(v), Recent(v))
    BY DEF Recent, Surjection
  <2>2. QED
    BY <1>1, <2>1, FS_Surjection
<1>3. ASSUME NEW p \in Recent(v)
      PROVE  p \in TxnRows /\ p.at <= now /\ txn[p.key] = p /\ p.vault = v
  <2>1. PICK k \in Keys : p = txn[k] /\ txn[k] # NoTxn /\ txn[k].vault = v
    BY DEF Recent, PaymentsOf
  <2>2. QED
    BY <2>1, PaymentRow DEF PaymentRows
<1>4. QED
  BY <1>2, <1>3

\* A payment adds one row to its vault and none to the others.
LEMMA PaymentAdds ==
  ASSUME TypeOK, IInv, PaymentRows, NEW k \in Keys, NEW v \in Vaults, NEW amount,
         PaymentEffects(k, v, amount)
  PROVE  LET p == txn'[k]
         IN  /\ p \in TxnRows /\ p.key = k /\ p.vault = v /\ p.amount = amount
             /\ p.vendor = proposal[k].vendor /\ p.at = now
             /\ p \notin Recent(v) /\ k \notin PaymentsOf(v)
             /\ PaymentsOf(v)' = PaymentsOf(v) \cup {k}
             /\ Recent(v)' = Recent(v) \cup {p}
             /\ \A w \in Vaults \ {v} : PaymentsOf(w)' = PaymentsOf(w) /\ Recent(w)' = Recent(w)
<1> DEFINE p == [key |-> k, vault |-> v, vendor |-> proposal[k].vendor,
                 amount |-> amount, at |-> now]
<1>1. /\ txn' = [txn EXCEPT ![k] = p] /\ txn[k] = NoTxn
      /\ amount \in Nat \ {0} /\ proposal[k] \in ProposalRows
  BY DEF PaymentEffects
<1>2. p \in TxnRows
  BY <1>1 DEF TypeOK, TxnRows, ProposalRows
<1>3. /\ p.key = k /\ p.vault = v /\ p.amount = amount
      /\ p.vendor = proposal[k].vendor /\ p.at = now
  OBVIOUS
<1>4. p # NoTxn
  BY DEF NoTxn
<1> HIDE DEF p
<1>5. txn'[k] = p /\ \A j \in Keys \ {k} : txn'[j] = txn[j]
  BY <1>1 DEF TypeOK
<1>6. k \notin PaymentsOf(v)
  BY <1>1 DEF PaymentsOf
<1>7. p \notin Recent(v)
  <2>1. txn[k] # p
    BY <1>1, <1>4
  <2>2. QED
    BY <1>3, <2>1, RecentRows
<1>8. PaymentsOf(v)' = PaymentsOf(v) \cup {k}
  BY <1>3, <1>4, <1>5 DEF PaymentsOf
<1>9. Recent(v)' = Recent(v) \cup {p}
  <2>1. \A j \in PaymentsOf(v) : txn'[j] = txn[j]
    BY <1>5, <1>6 DEF PaymentsOf
  <2>2. QED
    BY <1>5, <1>8, <2>1 DEF Recent
<1>10. ASSUME NEW w \in Vaults \ {v}
       PROVE  PaymentsOf(w)' = PaymentsOf(w) /\ Recent(w)' = Recent(w)
  <2>1. PaymentsOf(w)' = PaymentsOf(w)
    BY <1>1, <1>3, <1>5 DEF PaymentsOf
  <2>2. k \notin PaymentsOf(w)
    BY <1>1 DEF PaymentsOf
  <2>3. \A j \in PaymentsOf(w) : txn'[j] = txn[j]
    BY <1>5, <2>2 DEF PaymentsOf
  <2>4. QED
    BY <2>1, <2>3 DEF Recent
<1>11. QED
  BY <1>2, <1>3, <1>5, <1>6, <1>7, <1>8, <1>9, <1>10

\* A quiet step leaves the payments of every vault.
LEMMA QuietKeepsPayments ==
  ASSUME QuietStep
  PROVE  \A v \in Vaults : PaymentsOf(v)' = PaymentsOf(v) /\ Recent(v)' = Recent(v)
  BY DEF QuietStep, PaymentsOf, Recent

\* A vault that does not exist has no payment.
LEMMA NoPaymentYet ==
  ASSUME PaymentRows, NEW v \in Vaults, ~Exists(v)
  PROVE  PaymentsOf(v) = {} /\ Recent(v) = {}
<1>1. PaymentsOf(v) = {}
  BY DEF PaymentRows, PaymentsOf
<1>2. QED
  BY <1>1 DEF Recent

\* An execution is a payment of the vault its proposal names, which the rules
\* allow at that moment.
LEMMA ExecutePays ==
  ASSUME TypeOK, NEW k \in Keys, Execute(k)
  PROVE  \E v \in Vaults : /\ PaymentEffects(k, v, proposal[k].amount)
                           /\ RuleDenials(v, proposal[k]) = {}
<1>1. proposal[k].vault \in Vaults
  BY ProposalOfApproved DEF Execute, ProposalRows
<1>2. RuleDenials(proposal[k].vault, proposal[k]) = {}
  BY DEF Execute
<1>3. QED
  BY <1>1, <1>2, ExecuteSteps

\* A payment leaves every vault in place.
LEMMA PaymentKeepsVaults ==
  ASSUME TypeOK, NEW k \in Keys, NEW v \in Vaults, NEW amount, PaymentEffects(k, v, amount)
  PROVE  \A w \in Vaults : Exists(w) <=> Exists(w)'
<1> DEFINE row == PaidRow(vault[v], amount)
<1>1. /\ vault' = [vault EXCEPT ![v] = row]
      /\ vault[v] \in VaultRows /\ vault[v].status \in SpendableStatuses
  BY DEF PaymentEffects
<1>2. row.status # "NONE"
  BY <1>1 DEF PaidRow, VaultRows, SpendableStatuses
<1> HIDE DEF row
<1>3. vault'[v] = row /\ \A w \in Vaults \ {v} : vault'[w] = vault[w]
  BY <1>1 DEF TypeOK
<1>4. QED
  BY <1>1, <1>2, <1>3 DEF Exists, SpendableStatuses

\* The rows of the payments stay what PaymentRows says.
LEMMA PaymentRowsNext ==
  ASSUME TypeOK, IInv, PaymentRows, [Next]_vars
  PROVE  PaymentRows'
<1>1. now \in Nat
  BY DEF TypeOK
<1>2. CASE \E k \in Keys : Execute(k)
  <2>1. PICK k \in Keys, v \in Vaults : PaymentEffects(k, v, proposal[k].amount)
    BY <1>2, ExecutePays
  <2>2. /\ txn'[k].key = k /\ txn'[k].vault = v /\ txn'[k].at = now
        /\ PaymentsOf(v)' = PaymentsOf(v) \cup {k}
        /\ \A w \in Vaults \ {v} : PaymentsOf(w)' = PaymentsOf(w)
    BY <2>1, PaymentAdds
  <2>3. now' = now /\ \A j \in Keys \ {k} : txn'[j] = txn[j]
    BY <2>1 DEF PaymentEffects, TypeOK
  <2>4. \A w \in Vaults : Exists(w) => Exists(w)'
    BY <2>1, PaymentKeepsVaults
  <2>5. Exists(v)
    BY <2>1 DEF PaymentEffects, Exists, SpendableStatuses
  <2>6. ASSUME NEW j \in Keys, txn'[j] # NoTxn
        PROVE  /\ txn'[j].key = j /\ txn'[j].at <= now'
               /\ vault'[txn'[j].vault].status # "NONE"
    <3>1. CASE j = k
      <4>1. vault'[v].status # "NONE"
        BY <2>4, <2>5 DEF Exists
      <4>2. now <= now
        BY <1>1
      <4>3. QED
        BY <2>2, <2>3, <3>1, <4>1, <4>2
    <3>2. CASE j # k
      <4>1. txn'[j] = txn[j] /\ txn[j] # NoTxn
        BY <2>3, <2>6, <3>2
      <4>2. txn[j].vault \in Vaults
        BY <4>1, PaymentRow DEF TxnRows
      <4>3. txn[j].key = j /\ txn[j].at <= now /\ Exists(txn[j].vault)
        BY <4>1 DEF PaymentRows
      <4>4. vault'[txn[j].vault].status # "NONE"
        BY <2>4, <4>2, <4>3 DEF Exists
      <4>5. QED
        BY <2>3, <4>1, <4>3, <4>4
    <3>3. QED
      BY <3>1, <3>2
  <2>7. ASSUME NEW w \in Vaults PROVE IsFiniteSet(PaymentsOf(w)')
    <3>1. IsFiniteSet(PaymentsOf(w))
      BY DEF PaymentRows
    <3>2. PaymentsOf(w)' = PaymentsOf(w) \/ PaymentsOf(w)' = PaymentsOf(w) \cup {k}
      BY <2>2
    <3>3. IsFiniteSet(PaymentsOf(w) \cup {k})
      BY <3>1, FS_AddElement
    <3>4. QED
      BY <3>1, <3>2, <3>3
  <2>8. QED
    BY <2>6, <2>7 DEF PaymentRows, Exists
<1>3. CASE ~ \E k \in Keys : Execute(k)
  <2>1. QuietStep
    BY <1>3, QuietOrPayment
  <2>2. txn' = txn /\ now <= now' /\ now' \in Nat
    BY <2>1, TypeNext DEF QuietStep, TypeOK
  <2>3. ASSUME NEW j \in Keys, txn[j] # NoTxn
        PROVE  txn[j].key = j /\ txn[j].at <= now' /\ vault'[txn[j].vault].status # "NONE"
    <3>1. txn[j].vault \in Vaults /\ txn[j].at \in Nat
      BY <2>3, PaymentRow DEF TxnRows
    <3>2. txn[j].key = j /\ txn[j].at <= now /\ Exists(txn[j].vault)
      BY <2>3 DEF PaymentRows
    <3>3. vault'[txn[j].vault].status # "NONE"
      BY <2>1, <3>1, <3>2 DEF QuietStep, SameBudget
    <3>4. QED
      BY <1>1, <2>2, <3>1, <3>2, <3>3
  <2>4. \A w \in Vaults : IsFiniteSet(PaymentsOf(w)')
    BY <2>1, QuietKeepsPayments DEF PaymentRows
  <2>5. QED
    BY <2>2, <2>3, <2>4 DEF PaymentRows, Exists
<1>4. QED
  BY <1>2, <1>3

\* What a vault owes its vendors is an integer.
LEMMA PayableIsInt ==
  ASSUME NEW v \in Vaults
  PROVE  /\ TypeOK => Bal(v, "VENDOR_PAYABLE") \in Int
         /\ TypeOK' => Bal(v, "VENDOR_PAYABLE")' \in Int
<1>1. ASSUME NEW b \in [Vaults -> Books]
      PROVE  b[v]["own"]["VENDOR_PAYABLE"] + b[v]["other"]["VENDOR_PAYABLE"] \in Int
  BY DEF Books, Accounts
<1>2. TypeOK => books \in [Vaults -> Books]
  BY DEF TypeOK, Books
<1>3. TypeOK' => books' \in [Vaults -> Books]
  BY DEF TypeOK, Books
<1>4. QED
  BY <1>1, <1>2, <1>3 DEF Bal

\* Between two payments nothing the ledger says of them changes.
LEMMA ReconcileQuiet ==
  ASSUME TypeOK, IInv, PaymentRows, PaymentsReconcile, QuietStep, IInv', TypeOK'
  PROVE  PaymentsReconcile'
<1> SUFFICES ASSUME NEW v \in Vaults, Exists(v)'
             PROVE  /\ Bal(v, "VENDOR_PAYABLE")' = -SumOfAmounts(Recent(v)')
                    /\ SumOfAmounts(Recent(v)') <= vault'[v].total
                    /\ Cardinality(PaymentsOf(v)') = vault'[v].count
                    /\ \A k \in PaymentsOf(v)' : proposal'[k].status = "EXECUTED"
  BY DEF PaymentsReconcile
<1>1. PaymentsOf(v)' = PaymentsOf(v) /\ Recent(v)' = Recent(v)
  BY QuietKeepsPayments
<1>2. \A k \in PaymentsOf(v)' : proposal'[k].status = "EXECUTED"
  BY DEF IInv, KeysMatchRows, PaymentsOf
<1>5. Bal(v, "VENDOR_PAYABLE")' = Bal(v, "VENDOR_PAYABLE")
  <2>1. Paid(v)' = Paid(v)
    BY DEF QuietStep
  <2>2. QED
    BY <2>1, PayableIsInt DEF Paid
<1>3. CASE Exists(v)
  <2>1. /\ Bal(v, "VENDOR_PAYABLE") = -SumOfAmounts(Recent(v))
        /\ SumOfAmounts(Recent(v)) <= vault[v].total
        /\ Cardinality(PaymentsOf(v)) = vault[v].count
    BY <1>3 DEF PaymentsReconcile
  <2>2. SameBudget(v)
    BY <1>3 DEF QuietStep
  <2>3. QED
    BY <1>1, <1>2, <1>5, <2>1, <2>2 DEF SameBudget
<1>4. CASE ~Exists(v)
  <2>1. PaymentsOf(v) = {} /\ Recent(v) = {}
    BY <1>4, NoPaymentYet
  <2>2. Cardinality({}) = 0 /\ SumOfAmounts({}) = 0
    BY FS_EmptySet, AmountsOfNone
  <2>3. vault'[v].count = 0
    BY <1>4 DEF QuietStep
  <2>4. Bal(v, "VENDOR_PAYABLE") = 0
    BY <1>4, SoundBooks DEF Accounts
  <2>5. vault'[v].total \in Nat
    BY DEF TypeOK, Exists, NoVault, VaultRows
  <2>6. QED
    BY <1>1, <1>2, <1>5, <2>1, <2>2, <2>3, <2>4, <2>5
<1>6. QED
  BY <1>3, <1>4

\* A payment moves its amount to the vendors, counts it and stays in the limit.
LEMMA ReconcilePayment ==
  ASSUME TypeOK, IInv, PaymentRows, PaymentsReconcile, NEW k \in Keys, NEW v \in Vaults,
         NEW amount, PaymentEffects(k, v, amount), IInv'
  PROVE  PaymentsReconcile'
<1> DEFINE p == txn'[k]
           row == PaidRow(vault[v], amount)
           lines == PaymentLines(amount)
<1>1. /\ vault[v] \in VaultRows /\ vault[v].status \in SpendableStatuses /\ txn[k] = NoTxn
      /\ amount \in Nat \ {0} /\ vault[v].spent + amount <= vault[v].total
      /\ vault' = [vault EXCEPT ![v] = row]
      /\ books' = [books EXCEPT ![v] = Post(books[v], <<"spend", k>>, "own", lines)]
  BY DEF PaymentEffects
<1>2. /\ p \in TxnRows /\ p.amount = amount /\ p \notin Recent(v) /\ k \notin PaymentsOf(v)
      /\ PaymentsOf(v)' = PaymentsOf(v) \cup {k}
      /\ Recent(v)' = Recent(v) \cup {p}
      /\ \A w \in Vaults \ {v} : PaymentsOf(w)' = PaymentsOf(w) /\ Recent(w)' = Recent(w)
  BY PaymentAdds
<1>3. vault'[v] = row /\ row.total = vault[v].total /\ row.count = vault[v].count + 1
  BY <1>1 DEF TypeOK, PaidRow, VaultRows
<1> HIDE DEF p, row
<1>4. Exists(v) /\ \A w \in Vaults : Exists(w)' => Exists(w)
  BY <1>1, PaymentKeepsVaults DEF Exists, SpendableStatuses
<1>5. \A w \in Vaults : \A j \in PaymentsOf(w)' : proposal'[j].status = "EXECUTED"
  BY DEF IInv, KeysMatchRows, PaymentsOf
<1>6. Bal(v, "VENDOR_PAYABLE")' = Bal(v, "VENDOR_PAYABLE") - amount
  <2>1. lines \in [Accounts -> Int] /\ lines["VENDOR_PAYABLE"] = -amount
    BY <1>1, PaymentFacts
  <2>2. <<"spend", k>> \notin posted
    BY <1>1 DEF IInv, KeysMatchRows
  <2> HIDE DEF lines
  <2>3. books'[v] = [books[v] EXCEPT !["own"] = [a \in Accounts |-> books[v]["own"][a] + lines[a]]]
    BY <1>1, <2>2 DEF Post, TypeOK
  <2>4. books[v] \in Books
    BY BalanceOfBook
  <2>5. QED
    BY <2>1, <2>3, <2>4, <1>1 DEF Bal, Books, Accounts
<1>7. /\ Bal(v, "VENDOR_PAYABLE") = -vault[v].spent
      /\ Bal(v, "VENDOR_PAYABLE") = -SumOfAmounts(Recent(v))
      /\ Cardinality(PaymentsOf(v)) = vault[v].count
  <2>1. Live(vault[v], Balance(v))
    BY <1>1, <1>4 DEF IInv, Sound, Settled, SpendableStatuses
  <2>2. QED
    BY <1>4, <2>1 DEF Live, Balance, Accounts, PaymentsReconcile
<1>8. /\ SumOfAmounts(Recent(v)) \in Nat
      /\ SumOfAmounts(Recent(v)') = SumOfAmounts(Recent(v)) + amount
  <2>1. IsFiniteSet(Recent(v)) /\ \A q \in Recent(v) \cup {p} : q.amount \in Nat
    BY <1>2, RecentRows DEF TxnRows
  <2>2. QED
    BY <1>2, <2>1, AmountsOfOneMore
<1>9. Cardinality(PaymentsOf(v)') = Cardinality(PaymentsOf(v)) + 1
  BY <1>2, FS_AddElement DEF PaymentRows
<1>10. vault[v].spent \in Nat /\ vault[v].total \in Nat
  BY <1>1 DEF VaultRows
<1>11. /\ Bal(v, "VENDOR_PAYABLE")' = -SumOfAmounts(Recent(v)')
       /\ SumOfAmounts(Recent(v)') <= vault'[v].total
       /\ Cardinality(PaymentsOf(v)') = vault'[v].count
  BY <1>1, <1>3, <1>6, <1>7, <1>8, <1>9, <1>10
<1>12. ASSUME NEW w \in Vaults \ {v}, Exists(w)'
       PROVE  /\ Bal(w, "VENDOR_PAYABLE")' = -SumOfAmounts(Recent(w)')
              /\ SumOfAmounts(Recent(w)') <= vault'[w].total
              /\ Cardinality(PaymentsOf(w)') = vault'[w].count
  <2>1. Exists(w) /\ books'[w] = books[w] /\ vault'[w] = vault[w]
    BY <1>1, <1>4, <1>12 DEF TypeOK
  <2>2. Bal(w, "VENDOR_PAYABLE")' = Bal(w, "VENDOR_PAYABLE")
    BY <2>1 DEF Bal
  <2>3. QED
    BY <1>2, <2>1, <2>2 DEF PaymentsReconcile
<1>13. QED
  BY <1>5, <1>11, <1>12 DEF PaymentsReconcile

\* The ledger and the limit agree with the payments after every step.
LEMMA ReconcileNext ==
  ASSUME TypeOK, IInv, PaymentRows, PaymentsReconcile, [Next]_vars
  PROVE  PaymentsReconcile'
<1>1. TypeOK' /\ IInv'
  BY TypeNext, InvNext
<1>2. CASE \E k \in Keys : Execute(k)
  <2>1. PICK k \in Keys, v \in Vaults : PaymentEffects(k, v, proposal[k].amount)
    BY <1>2, ExecutePays
  <2>2. QED
    BY <1>1, <2>1, ReconcilePayment
<1>3. CASE ~ \E k \in Keys : Execute(k)
  BY <1>1, <1>3, QuietOrPayment, ReconcileQuiet
<1>4. QED
  BY <1>2, <1>3

-----------------------------------------------------------------------------
(***************************************************************************)
(* The pace of payments.                                                   *)
(***************************************************************************)
\* The payments of the window that ends with a payment
WindowOf(payments, last) ==
  {p \in payments : last.at - VelocityWindow <= p.at /\ p.at <= last.at}

\* What PaceHolds says of one payment of a vault
InPace(payments, last, perTxn) ==
  LET window == WindowOf(payments, last)
      same   == SameVendor(window, last)
  IN  /\ Cardinality(window) <= VelocityMax
      /\ Cardinality(same) >= 3 => SumOfAmounts(same) <= perTxn

\* What the rules guarantee of the window a payment they allow falls in.
LEMMA AllowedPace ==
  ASSUME NEW v, NEW spend, RuleDenials(v, spend) = {}
  PROVE  LET window == InWindow(Recent(v), now)
             same   == SameVendor(window, spend)
         IN  /\ ~(Cardinality(window) + 1 > VelocityMax)
             /\ Cardinality(same) >= 2 =>
                  ~(SumOfAmounts(same) + spend.amount > vault[v].per_txn)
<1>1. VaultLimits(v).per_txn = vault[v].per_txn
  BY DEF VaultLimits
<1>2. PaceDenials(VaultLimits(v), spend, Recent(v), now) = {}
  BY DEF RuleDenials, EvaluateProposal
<1>3. QED
  BY <1>1, <1>2 DEF PaceDenials, When

\* A payment the rules allowed, at the moment it is made, and every payment of
\* the same moment before it, is in pace.
LEMMA PaceOfNewPayment ==
  ASSUME NEW R, IsFiniteSet(R), R \subseteq TxnRows, NEW p \in TxnRows, p \notin R,
         \A q \in R : q.at <= p.at, NEW perTxn \in Nat,
         \A last \in R : InPace(R, last, perTxn),
         ~(Cardinality(InWindow(R, p.at)) + 1 > VelocityMax),
         Cardinality(SameVendor(InWindow(R, p.at), p)) >= 2 =>
           ~(SumOfAmounts(SameVendor(InWindow(R, p.at), p)) + p.amount > perTxn)
  PROVE  \A last \in R \cup {p} : InPace(R \cup {p}, last, perTxn)
<1> DEFINE S == R \cup {p}
           past == InWindow(R, p.at)
<1>1. /\ VelocityWindow \in Nat /\ VelocityMax \in Nat
      /\ \A q \in S : q.at \in Nat /\ q.amount \in Nat
  BY TimeAssumption DEF TxnRows
<1>2. WindowOf(S, p) = past \cup {p} /\ past \subseteq R
  BY <1>1 DEF WindowOf, InWindow
<1>3. IsFiniteSet(past) /\ p \notin past
  BY <1>2, FS_Subset
<1>0. ~(Cardinality(past) + 1 > VelocityMax)
  OBVIOUS
<1> HIDE DEF past
<1>4. Cardinality(past) \in Nat /\ Cardinality(past \cup {p}) = Cardinality(past) + 1
  BY <1>3, FS_AddElement, FS_CardinalityType
<1>5. Cardinality(WindowOf(S, p)) <= VelocityMax
  <2> HIDE DEF S
  <2>1. QED
    BY ONLY <1>0, <1>1, <1>2, <1>4
<1>6. ASSUME NEW last \in S, last.at = p.at
      PROVE  WindowOf(S, last) = WindowOf(S, p)
  BY <1>6 DEF WindowOf
<1>7. InPace(S, p, perTxn)
  <2> DEFINE mine == SameVendor(past, p)
  <2>1. SameVendor(past \cup {p}, p) = mine \cup {p} /\ mine \subseteq past
    BY DEF SameVendor
  <2>2. IsFiniteSet(mine) /\ p \notin mine
    BY <1>3, <2>1, FS_Subset
  <2>3. \A q \in mine \cup {p} : q.amount \in Nat
    BY <1>1, <1>2, <2>1
  <2>4. Cardinality(mine) >= 2 => ~(SumOfAmounts(mine) + p.amount > perTxn)
    BY DEF past
  <2> HIDE DEF mine
  <2>5. /\ Cardinality(mine) \in Nat
        /\ Cardinality(mine \cup {p}) = Cardinality(mine) + 1
    BY <2>2, FS_AddElement, FS_CardinalityType
  <2>6. /\ SumOfAmounts(mine) \in Nat
        /\ SumOfAmounts(mine \cup {p}) = SumOfAmounts(mine) + p.amount
    BY <2>2, <2>3, AmountsOfOneMore
  <2>7. p.amount \in Nat
    BY <1>1
  <2>8. Cardinality(mine \cup {p}) >= 3 => SumOfAmounts(mine \cup {p}) <= perTxn
    BY <2>4, <2>5, <2>6, <2>7
  <2>9. SameVendor(WindowOf(S, p), p) = mine \cup {p}
    BY <1>2, <2>1
  <2> HIDE DEF S
  <2>10. QED
    BY <1>5, <2>8, <2>9 DEF InPace
<1>8. ASSUME NEW last \in R
      PROVE  InPace(S, last, perTxn)
  <2>1. InPace(R, last, perTxn)
    OBVIOUS
  <2>2. last.at <= p.at /\ last.at \in Nat /\ p.at \in Nat
    BY <1>1
  <2>3. CASE last.at # p.at
    <3>1. WindowOf(S, last) = WindowOf(R, last)
      BY <2>2, <2>3 DEF WindowOf
    <3>2. QED
      BY <2>1, <3>1 DEF InPace
  <2>4. CASE last.at = p.at /\ last.vendor = p.vendor
    <3>1. WindowOf(S, last) = WindowOf(S, p)
      BY <1>6, <2>4
    <3>2. SameVendor(WindowOf(S, last), last) = SameVendor(WindowOf(S, p), p)
      BY <2>4, <3>1 DEF SameVendor
    <3> HIDE DEF S
    <3>3. QED
      BY <1>7, <3>1, <3>2 DEF InPace
  <2>5. CASE last.at = p.at /\ last.vendor # p.vendor
    <3>1. WindowOf(S, last) = WindowOf(S, p)
      BY <1>6, <2>5
    <3>2. SameVendor(WindowOf(S, last), last) = SameVendor(WindowOf(R, last), last)
      BY <2>5 DEF SameVendor, WindowOf
    <3> HIDE DEF S
    <3>3. QED
      BY <1>5, <2>1, <3>1, <3>2 DEF InPace
  <2>6. QED
    BY <2>3, <2>4, <2>5
<1>9. QED
  BY <1>7, <1>8

\* The pace holds after every step: only execution adds a payment, and it
\* evaluates the rules on the payments made so far.
LEMMA PaceNext ==
  ASSUME TypeOK, IInv, PaymentRows, PaceHolds, [Next]_vars
  PROVE  PaceHolds'
<1> DEFINE Pace(v) == \A last \in Recent(v) : InPace(Recent(v), last, vault[v].per_txn)
<1>0. ASSUME \A v \in Vaults : \A last \in Recent(v)' :
                InPace(Recent(v)', last, vault'[v].per_txn)
      PROVE  PaceHolds'
  BY <1>0 DEF PaceHolds, InPace, WindowOf
<1>1. \A v \in Vaults : Pace(v)
  BY DEF PaceHolds, InPace, WindowOf
<1>2. CASE \E k \in Keys : Execute(k)
  <2>1. PICK k \in Keys, v \in Vaults :
          /\ PaymentEffects(k, v, proposal[k].amount)
          /\ RuleDenials(v, proposal[k]) = {}
    BY <1>2, ExecutePays
  <2> DEFINE p == txn'[k]
  <2>2. /\ p \in TxnRows /\ p.amount = proposal[k].amount /\ p.vendor = proposal[k].vendor
        /\ p.at = now /\ p \notin Recent(v) /\ Recent(v)' = Recent(v) \cup {p}
        /\ \A w \in Vaults \ {v} : Recent(w)' = Recent(w)
    BY <2>1, PaymentAdds
  <2> HIDE DEF p
  <2>3. /\ IsFiniteSet(Recent(v)) /\ Recent(v) \subseteq TxnRows
        /\ \A q \in Recent(v) : q.at <= p.at
    BY <2>2, RecentRows
  <2>4. vault[v].per_txn \in Nat /\ vault'[v].per_txn = vault[v].per_txn
    BY <2>1 DEF PaymentEffects, TypeOK, PaidRow, VaultRows
  <2>5. LET window == InWindow(Recent(v), now)
            same   == SameVendor(window, proposal[k])
        IN  /\ ~(Cardinality(window) + 1 > VelocityMax)
            /\ Cardinality(same) >= 2 =>
                 ~(SumOfAmounts(same) + proposal[k].amount > vault[v].per_txn)
    BY <2>1, AllowedPace
  <2>6. SameVendor(InWindow(Recent(v), p.at), p) = SameVendor(InWindow(Recent(v), now), proposal[k])
    BY <2>2 DEF SameVendor
  <2>7. /\ ~(Cardinality(InWindow(Recent(v), p.at)) + 1 > VelocityMax)
        /\ Cardinality(SameVendor(InWindow(Recent(v), p.at), p)) >= 2 =>
             ~(SumOfAmounts(SameVendor(InWindow(Recent(v), p.at), p)) + p.amount
                 > vault[v].per_txn)
    BY <2>2, <2>5, <2>6
  <2>8. \A last \in Recent(v) \cup {p} : InPace(Recent(v) \cup {p}, last, vault[v].per_txn)
    BY <1>1, <2>2, <2>3, <2>4, <2>7, PaceOfNewPayment
  <2>9. ASSUME NEW w \in Vaults, w # v
        PROVE  vault'[w] = vault[w]
    BY <2>1, <2>9 DEF PaymentEffects, TypeOK
  <2>10. ASSUME NEW w \in Vaults, NEW last \in Recent(w)'
         PROVE  InPace(Recent(w)', last, vault'[w].per_txn)
    <3>1. CASE w = v
      BY <2>2, <2>4, <2>8, <3>1
    <3>2. CASE w # v
      BY <1>1, <2>2, <2>9, <3>2
    <3>3. QED
      BY <3>1, <3>2
  <2>11. QED
    BY <1>0, <2>10
<1>3. CASE ~ \E k \in Keys : Execute(k)
  <2>1. QuietStep
    BY <1>3, QuietOrPayment
  <2>2. ASSUME NEW v \in Vaults, NEW last \in Recent(v)'
        PROVE  InPace(Recent(v)', last, vault'[v].per_txn)
    <3>1. Recent(v)' = Recent(v)
      BY <2>1, QuietKeepsPayments
    <3>2. Exists(v)
      BY <3>1, NoPaymentYet
    <3>3. vault'[v].per_txn = vault[v].per_txn
      BY <2>1, <3>2 DEF QuietStep, SameBudget
    <3>4. QED
      BY <1>1, <3>1, <3>3
  <2>3. QED
    BY <1>0, <2>2
<1>4. QED
  BY <1>2, <1>3

-----------------------------------------------------------------------------
(***************************************************************************)
(* The two controls.                                                       *)
(***************************************************************************)
\* The codes of the rules, by the rule that gives them.
LEMMA RuleCodes ==
  ASSUME NEW v, NEW spend
  PROVE  LET rules  == RuleDenials(v, spend)
             limits == VaultLimits(v)
         IN  /\ rules \cap {"AGENT_FROZEN", "PASSPORT_REVOKED"} = AgentDenials(limits)
             /\ "VENDOR_NOT_ALLOWED" \in rules <=> spend.vendor \notin limits.allowed
             /\ "TRANSACTION_LIMIT_EXCEEDED" \in rules <=>
                  spend.amount <= 0 \/ spend.amount > limits.per_txn
             /\ "TASK_LIMIT_EXCEEDED" \in rules <=>
                  spend.amount > 0 /\ limits.spent + spend.amount > limits.total
             /\ rules = {} => StatusDenials(limits, now) = {}
  BY DEF RuleDenials, EvaluateProposal, AgentDenials, StatusDenials, AmountDenials,
         VendorDenials, PaceDenials, When

\* The codes of the policy, likewise.
LEMMA PolicyCodes ==
  ASSUME NEW v, NEW spend
  PROVE  LET policy == PolicyDenials(v, spend)
             limits == VaultLimits(v)
         IN  /\ "agent_not_active" \in policy <=> limits.agent_status # "ACTIVE"
             /\ "vendor_not_allowed" \in policy <=> spend.vendor \notin limits.allowed
             /\ "transaction_limit" \in policy <=>
                  spend.amount > 0 /\ spend.amount > limits.per_txn
             /\ "task_limit" \in policy <=>
                  spend.amount > 0 /\ limits.spent + spend.amount > limits.total
             /\ "authorization_expired" \in policy <=> limits.expires_at <= now
             /\ "vault_not_spendable" \in policy <=> limits.status \notin SpendableStatuses
             /\ "amounts_unknown" \in policy <=> spend.amount <= 0
             /\ "risk_status_not_pass" \in policy <=> RuleDenials(v, spend) # {}
             /\ policy \subseteq {"identity_invalid", "agent_not_active", "vendor_not_allowed",
                                  "transaction_limit", "task_limit", "authorization_expired",
                                  "vault_not_spendable", "amounts_unknown",
                                  "risk_status_not_pass"}
  BY DEF PolicyDenials, EvaluatePolicy, When

\* The two controls agree in every state the tables can be in.
LEMMA ControlsOfTypes ==
  ASSUME TypeOK
  PROVE  ControlsAgree
<1> SUFFICES ASSUME NEW v \in Vaults, NEW spend \in Spends, Exists(v)
             PROVE  LET rules  == RuleDenials(v, spend)
                        policy == PolicyDenials(v, spend)
                    IN  /\ rules = {} => policy \subseteq {"identity_invalid"}
                        /\ "agent_not_active" \in policy <=>
                             rules \cap {"AGENT_FROZEN", "PASSPORT_REVOKED"} # {}
                        /\ "vendor_not_allowed" \in policy <=> "VENDOR_NOT_ALLOWED" \in rules
                        /\ "transaction_limit" \in policy <=>
                             "TRANSACTION_LIMIT_EXCEEDED" \in rules
                        /\ "task_limit" \in policy <=> "TASK_LIMIT_EXCEEDED" \in rules
  BY DEF ControlsAgree
<1> DEFINE rules == RuleDenials(v, spend)
           policy == PolicyDenials(v, spend)
           limits == VaultLimits(v)
<1>1. limits.agent_status \in {"ACTIVE", "FROZEN", "REVOKED"}
  <2>1. vault[v].agent \in Agents
    BY RowOfExistingVault DEF VaultRows
  <2>2. limits.agent_status = agent[vault[v].agent].status
    BY DEF VaultLimits
  <2>3. QED
    BY <2>1, <2>2 DEF TypeOK
<1>2. spend.amount \in Nat \ {0}
  BY AmountsAssumption DEF Spends, Positive
<1>3. rules \cap {"AGENT_FROZEN", "PASSPORT_REVOKED"} # {} <=> limits.agent_status # "ACTIVE"
  <2>1. rules \cap {"AGENT_FROZEN", "PASSPORT_REVOKED"} = AgentDenials(limits)
    BY RuleCodes
  <2> HIDE DEF limits
  <2>2. QED
    BY <1>1, <2>1 DEF AgentDenials, When
<1>4. StatusDenials(limits, now) = {} =>
        limits.status \in SpendableStatuses /\ ~(limits.expires_at <= now)
  BY DEF StatusDenials, When, SpendableStatuses
<1>5. /\ "VENDOR_NOT_ALLOWED" \in rules <=> spend.vendor \notin limits.allowed
      /\ "TRANSACTION_LIMIT_EXCEEDED" \in rules <=>
           spend.amount <= 0 \/ spend.amount > limits.per_txn
      /\ "TASK_LIMIT_EXCEEDED" \in rules <=>
           spend.amount > 0 /\ limits.spent + spend.amount > limits.total
      /\ rules = {} => StatusDenials(limits, now) = {}
  BY RuleCodes
<1>6. /\ "agent_not_active" \in policy <=> limits.agent_status # "ACTIVE"
      /\ "vendor_not_allowed" \in policy <=> spend.vendor \notin limits.allowed
      /\ "transaction_limit" \in policy <=> spend.amount > 0 /\ spend.amount > limits.per_txn
      /\ "task_limit" \in policy <=>
           spend.amount > 0 /\ limits.spent + spend.amount > limits.total
      /\ "authorization_expired" \in policy <=> limits.expires_at <= now
      /\ "vault_not_spendable" \in policy <=> limits.status \notin SpendableStatuses
      /\ "amounts_unknown" \in policy <=> spend.amount <= 0
      /\ "risk_status_not_pass" \in policy <=> rules # {}
      /\ policy \subseteq {"identity_invalid", "agent_not_active", "vendor_not_allowed",
                           "transaction_limit", "task_limit", "authorization_expired",
                           "vault_not_spendable", "amounts_unknown", "risk_status_not_pass"}
  BY PolicyCodes
<1> HIDE DEF rules, policy, limits
<1>7. "transaction_limit" \in policy <=> "TRANSACTION_LIMIT_EXCEEDED" \in rules
  BY <1>2, <1>5, <1>6
<1>8. rules = {} => policy \subseteq {"identity_invalid"}
  <2> SUFFICES ASSUME rules = {} PROVE policy \subseteq {"identity_invalid"}
    OBVIOUS
  <2>1. "agent_not_active" \notin policy
    BY <1>3, <1>6
  <2>2. /\ "vendor_not_allowed" \notin policy /\ "transaction_limit" \notin policy
        /\ "task_limit" \notin policy
    BY <1>5, <1>6, <1>7
  <2>3. /\ "authorization_expired" \notin policy /\ "vault_not_spendable" \notin policy
        /\ "risk_status_not_pass" \notin policy
    BY <1>4, <1>5, <1>6
  <2>4. "amounts_unknown" \notin policy
    BY <1>2, <1>6
  <2>5. QED
    BY <1>6, <2>1, <2>2, <2>3, <2>4
<1>9. QED
  BY <1>3, <1>5, <1>6, <1>7, <1>8 DEF rules, policy

-----------------------------------------------------------------------------
(***************************************************************************)
(* Sums over a sequence of amounts.                                        *)
(***************************************************************************)
\* SumFunction is the sum of the values of a function.
LEMMA SumFunctionIsSum ==
  ASSUME NEW S, IsFiniteSet(S), NEW f, DOMAIN f = S
  PROVE  \E g : IsSum(g, f, S) /\ SumFunction(f) = g[S]
<1> DEFINE body(g) == [s \in SUBSET S |-> IF s = {} THEN 0
                        ELSE f[Pick(s)] + g[s \ {Pick(s)}]]
           iter == CHOOSE g : g = body(g)
<1>1. PICK h : h = body(h)
  <2>1. PICK h : IsSum(h, f, S)
    BY SumExists
  <2>2. h = body(h)
    BY <2>1 DEF IsSum
  <2> HIDE DEF body
  <2>3. QED
    BY <2>2
<1>2. iter = body(iter)
  <2> HIDE DEF body
  <2>1. QED
    BY <1>1
<1>3. IsSum(iter, f, S)
  BY <1>2 DEF IsSum
<1>4. SumFunction(f) = iter[S]
  BY DEF SumFunction, SumFunctionOnSet, FoldFunctionOnSet, MapThenFoldSet, Pick
<1>5. QED
  BY <1>3, <1>4

\* A sequence with one more amount has a sum greater by that amount.
LEMMA SumOfLonger ==
  ASSUME NEW n \in Nat, NEW f \in [1 .. n -> Nat], NEW h \in [1 .. n + 1 -> Nat],
         \A i \in 1 .. n : f[i] = h[i]
  PROVE  /\ SumFunction(f) \in Nat
         /\ SumFunction(h) = SumFunction(f) + h[n + 1]
<1> DEFINE S == 1 .. n
<1>1. IsFiniteSet(S) /\ n + 1 \notin S /\ S \cup {n + 1} = 1 .. n + 1
  <2>1. IsFiniteSet(S)
    BY FS_Interval
  <2>2. n + 1 \notin S /\ S \cup {n + 1} = 1 .. n + 1
    OBVIOUS
  <2>3. QED
    BY <2>1, <2>2
<1>2. IsFiniteSet(1 .. n + 1)
  BY FS_Interval
<1>3. PICK g : IsSum(g, f, S) /\ SumFunction(f) = g[S]
  BY <1>1, SumFunctionIsSum
<1>4. PICK k : IsSum(k, h, 1 .. n + 1) /\ SumFunction(h) = k[1 .. n + 1]
  BY <1>2, SumFunctionIsSum
<1>5. /\ \A i \in S \cup {n + 1} : h[i] \in Int
      /\ \A i \in S : f[i] = h[i]
      /\ \A i \in S : f[i] \in Nat
      /\ h[n + 1] \in Nat
  BY <1>1
<1> HIDE DEF S
<1>6. k[1 .. n + 1] = h[n + 1] + g[S]
  BY <1>1, <1>3, <1>4, <1>5, SumOneMore
<1>7. g[S] \in Nat
  <2>1. S \in SUBSET S
    OBVIOUS
  <2>2. QED
    BY <1>1, <1>3, <1>5, <2>1, SumType
<1>8. QED
  BY <1>3, <1>4, <1>5, <1>6, <1>7

\* No amounts add up to nothing.
LEMMA SumOfNone ==
  ASSUME NEW f, DOMAIN f = {}
  PROVE  SumFunction(f) = 0
<1>1. PICK g : IsSum(g, f, {}) /\ SumFunction(f) = g[{}]
  BY SumFunctionIsSum, FS_EmptySet
<1>2. {} \in SUBSET {}
  OBVIOUS
<1>3. QED
  BY <1>1, <1>2, SumUnfold

(***************************************************************************)
(* The four sums of ReceiptsReconcile, as functions of the receipts.       *)
(***************************************************************************)
Fees(s) == [i \in DOMAIN s |-> s[i].fee]
Owners(s) == [i \in DOMAIN s |-> s[i].owner]
Losses(s) == [i \in DOMAIN s |-> s[i].loss]
\* what a receipt takes off the principal
Returned(r) == r.principal + r.loss + IF r.kind = "RECOVERY" THEN r.reserve ELSE 0
Returns(s) == [i \in DOMAIN s |-> Returned(s[i])]

\* The sums of the receipts
SumsOf(s, fee, owner, loss, returned) ==
  /\ SumFunction(Fees(s)) = fee
  /\ SumFunction(Owners(s)) = owner
  /\ SumFunction(Losses(s)) = loss
  /\ SumFunction(Returns(s)) = returned

\* No receipts, no sums.
LEMMA SumsOfNone == SumsOf(<<>>, 0, 0, 0, 0)
<1>1. DOMAIN Fees(<<>>) = {} /\ DOMAIN Owners(<<>>) = {}
        /\ DOMAIN Losses(<<>>) = {} /\ DOMAIN Returns(<<>>) = {}
  BY DEF Fees, Owners, Losses, Returns
<1>2. QED
  BY <1>1, SumOfNone DEF SumsOf

\* A receipt adds its parts to the sums.
LEMMA SumsOfAppend ==
  ASSUME NEW s \in Seq(Repayments), NEW r \in Repayments,
         NEW fee, NEW owner, NEW loss, NEW returned, SumsOf(s, fee, owner, loss, returned)
  PROVE  /\ fee \in Nat /\ owner \in Nat /\ loss \in Nat /\ returned \in Nat
         /\ SumsOf(Append(s, r), fee + r.fee, owner + r.owner, loss + r.loss,
                   returned + Returned(r))
<1> DEFINE n == Len(s)
           t == Append(s, r)
<1>1. /\ n \in Nat /\ DOMAIN s = 1 .. n /\ DOMAIN t = 1 .. n + 1
      /\ \A i \in 1 .. n : t[i] = s[i] /\ s[i] \in Repayments
      /\ t[n + 1] = r
  OBVIOUS
<1> HIDE DEF n, t
<1>2. \A q \in Repayments : /\ q.fee \in Nat /\ q.owner \in Nat /\ q.loss \in Nat
                            /\ Returned(q) \in Nat
  BY DEF Repayments, Returned
<1>3. \A i \in 1 .. n + 1 : t[i] \in Repayments
  BY <1>1
<1>4. SumFunction(Fees(s)) \in Nat /\ SumFunction(Fees(t)) = SumFunction(Fees(s)) + r.fee
  <2>1. /\ Fees(s) \in [1 .. n -> Nat] /\ Fees(t) \in [1 .. n + 1 -> Nat]
        /\ \A i \in 1 .. n : Fees(s)[i] = Fees(t)[i]
        /\ Fees(t)[n + 1] = r.fee
    BY <1>1, <1>2, <1>3 DEF Fees
  <2>2. QED
    BY <1>1, <2>1, SumOfLonger
<1>5. SumFunction(Owners(s)) \in Nat /\ SumFunction(Owners(t)) = SumFunction(Owners(s)) + r.owner
  <2>1. /\ Owners(s) \in [1 .. n -> Nat] /\ Owners(t) \in [1 .. n + 1 -> Nat]
        /\ \A i \in 1 .. n : Owners(s)[i] = Owners(t)[i]
        /\ Owners(t)[n + 1] = r.owner
    BY <1>1, <1>2, <1>3 DEF Owners
  <2>2. QED
    BY <1>1, <2>1, SumOfLonger
<1>6. SumFunction(Losses(s)) \in Nat /\ SumFunction(Losses(t)) = SumFunction(Losses(s)) + r.loss
  <2>1. /\ Losses(s) \in [1 .. n -> Nat] /\ Losses(t) \in [1 .. n + 1 -> Nat]
        /\ \A i \in 1 .. n : Losses(s)[i] = Losses(t)[i]
        /\ Losses(t)[n + 1] = r.loss
    BY <1>1, <1>2, <1>3 DEF Losses
  <2>2. QED
    BY <1>1, <2>1, SumOfLonger
<1>7. /\ SumFunction(Returns(s)) \in Nat
      /\ SumFunction(Returns(t)) = SumFunction(Returns(s)) + Returned(r)
  <2>1. /\ Returns(s) \in [1 .. n -> Nat] /\ Returns(t) \in [1 .. n + 1 -> Nat]
        /\ \A i \in 1 .. n : Returns(s)[i] = Returns(t)[i]
        /\ Returns(t)[n + 1] = Returned(r)
    BY <1>1, <1>2, <1>3 DEF Returns
  <2>2. QED
    BY <1>1, <2>1, SumOfLonger
<1>8. QED
  BY <1>4, <1>5, <1>6, <1>7 DEF SumsOf, t

\* ReceiptsReconcile, vault by vault
Receipted(v) ==
  /\ SumsOf(repayments[v], -Bal(v, "FEE_INCOME"), -Bal(v, "OWNER_PAYABLE"),
            Bal(v, "LOSS_DEFAULT"), vault[v].total - vault[v].principal)
  /\ \A i \in DOMAIN repayments[v] : repayments[v][i].journal \in posted
  /\ \A i, j \in DOMAIN repayments[v] :
       i # j => repayments[v][i].journal # repayments[v][j].journal

\* The invariant is Receipted of every vault that exists.
LEMMA ReceiptsByVault ==
  ASSUME TypeOK
  PROVE  ReceiptsReconcile <=> \A v \in Vaults : Exists(v) => Receipted(v)
<1>1. \A v \in Vaults : DOMAIN repayments[v] = 1 .. Len(repayments[v])
  BY DEF TypeOK
<1>2. QED
  BY <1>1 DEF ReceiptsReconcile, Receipted, SumsOf, SumOf, Fees, Owners, Losses, Returns, Returned

(***************************************************************************)
(* What a step does to the receipts of a vault: it leaves them, creates    *)
(* the vault without any, or adds the receipt of a journal new to it.      *)
(***************************************************************************)
ReceiptAccounts == {"FEE_INCOME", "OWNER_PAYABLE", "LOSS_DEFAULT"}

ReceiptsKept(v) ==
  /\ Exists(v)' <=> Exists(v)
  /\ repayments'[v] = repayments[v]
  /\ Exists(v) => /\ vault'[v].total = vault[v].total
                  /\ vault'[v].principal = vault[v].principal
                  /\ \A a \in ReceiptAccounts : Bal(v, a)' = Bal(v, a)

NoReceiptYet(v) ==
  /\ ~Exists(v) /\ Exists(v)'
  /\ repayments'[v] = repayments[v]
  /\ vault'[v].total - vault'[v].principal = 0
  /\ \A a \in ReceiptAccounts : Bal(v, a)' = 0

ReceiptAdded(v, r) ==
  /\ Exists(v) /\ Exists(v)'
  /\ repayments'[v] = Append(repayments[v], r)
  /\ r \in Repayments /\ r.journal \in posted' /\ r.journal \notin posted
  /\ vault'[v].total = vault[v].total
  /\ vault'[v].principal = vault[v].principal - Returned(r)
  /\ Bal(v, "FEE_INCOME")' = Bal(v, "FEE_INCOME") - r.fee
  /\ Bal(v, "OWNER_PAYABLE")' = Bal(v, "OWNER_PAYABLE") - r.owner
  /\ Bal(v, "LOSS_DEFAULT")' = Bal(v, "LOSS_DEFAULT") + r.loss

ReceiptStep ==
  /\ posted \subseteq posted'
  /\ \A v \in Vaults : \/ ReceiptsKept(v)
                       \/ NoReceiptYet(v)
                       \/ \E r : ReceiptAdded(v, r)

\* The accounts of a vault hold integers.
LEMMA ReceiptAmounts ==
  ASSUME TypeOK, NEW v \in Vaults
  PROVE  \A a \in ReceiptAccounts : Bal(v, a) \in Int
<1>1. books[v] \in [Currencies -> [Accounts -> Int]]
  BY DEF TypeOK
<1>2. QED
  BY <1>1 DEF Bal, ReceiptAccounts, Accounts

\* Receipts that stay keep agreeing with the ledger.
LEMMA KeptStaysReceipted ==
  ASSUME NEW v \in Vaults, posted \subseteq posted', Exists(v), ReceiptsKept(v), Receipted(v)
  PROVE  Receipted(v)'
<1>1. /\ repayments'[v] = repayments[v]
      /\ vault'[v].total = vault[v].total /\ vault'[v].principal = vault[v].principal
      /\ Bal(v, "FEE_INCOME")' = Bal(v, "FEE_INCOME")
      /\ Bal(v, "OWNER_PAYABLE")' = Bal(v, "OWNER_PAYABLE")
      /\ Bal(v, "LOSS_DEFAULT")' = Bal(v, "LOSS_DEFAULT")
  BY DEF ReceiptsKept, ReceiptAccounts
<1>2. QED
  BY <1>1 DEF Receipted, SumsOf, Fees, Owners, Losses, Returns, Returned

\* A new vault has no receipt and an untouched ledger.
LEMMA NewVaultReceipted ==
  ASSUME NEW v \in Vaults, repayments[v] = <<>>, NoReceiptYet(v)
  PROVE  Receipted(v)'
<1>1. /\ repayments'[v] = <<>>
      /\ vault'[v].total - vault'[v].principal = 0
      /\ Bal(v, "FEE_INCOME")' = 0 /\ Bal(v, "OWNER_PAYABLE")' = 0
      /\ Bal(v, "LOSS_DEFAULT")' = 0
  BY DEF NoReceiptYet, ReceiptAccounts
<1>2. SumsOf(repayments'[v], -Bal(v, "FEE_INCOME")', -Bal(v, "OWNER_PAYABLE")',
             Bal(v, "LOSS_DEFAULT")', vault'[v].total - vault'[v].principal)
  BY <1>1, SumsOfNone
<1>3. DOMAIN repayments'[v] = {}
  BY <1>1
<1>4. QED
  BY <1>2, <1>3 DEF Receipted, SumsOf, Fees, Owners, Losses, Returns, Returned

\* A receipt on a journal of its own keeps the receipts in step with the ledger.
LEMMA AddedStaysReceipted ==
  ASSUME TypeOK, NEW v \in Vaults, NEW r, posted \subseteq posted', ReceiptAdded(v, r),
         Receipted(v)
  PROVE  Receipted(v)'
<1> DEFINE s == repayments[v]
           n == Len(s)
           fee == -Bal(v, "FEE_INCOME")
           owner == -Bal(v, "OWNER_PAYABLE")
           loss == Bal(v, "LOSS_DEFAULT")
           returned == vault[v].total - vault[v].principal
<1>1. s \in Seq(Repayments) /\ r \in Repayments /\ repayments'[v] = Append(s, r)
  BY DEF ReceiptAdded, TypeOK
<1>2. vault[v].total \in Nat /\ vault[v].principal \in Nat
  BY RowOfExistingVault DEF ReceiptAdded, VaultRows
<1>3. /\ Bal(v, "FEE_INCOME") \in Int /\ Bal(v, "OWNER_PAYABLE") \in Int
      /\ Bal(v, "LOSS_DEFAULT") \in Int
  BY ReceiptAmounts DEF ReceiptAccounts
<1>4. r.fee \in Nat /\ r.owner \in Nat /\ r.loss \in Nat /\ Returned(r) \in Nat
  BY <1>1 DEF Repayments, Returned
<1>5. /\ vault'[v].total - vault'[v].principal = returned + Returned(r)
      /\ -Bal(v, "FEE_INCOME")' = fee + r.fee
      /\ -Bal(v, "OWNER_PAYABLE")' = owner + r.owner
      /\ Bal(v, "LOSS_DEFAULT")' = loss + r.loss
  <2>1. \A x, y, d \in Int : x - (y - d) = x - y + d /\ -(y - d) = -y + d
    OBVIOUS
  <2>2. vault'[v].total = vault[v].total
        /\ vault'[v].principal = vault[v].principal - Returned(r)
    BY DEF ReceiptAdded
  <2>3. /\ Bal(v, "FEE_INCOME")' = Bal(v, "FEE_INCOME") - r.fee
        /\ Bal(v, "OWNER_PAYABLE")' = Bal(v, "OWNER_PAYABLE") - r.owner
        /\ Bal(v, "LOSS_DEFAULT")' = Bal(v, "LOSS_DEFAULT") + r.loss
    BY DEF ReceiptAdded
  <2>4. vault'[v].total - vault'[v].principal = returned + Returned(r)
    BY <1>2, <1>4, <2>1, <2>2
  <2>5. -(Bal(v, "FEE_INCOME") - r.fee) = fee + r.fee
        /\ -(Bal(v, "OWNER_PAYABLE") - r.owner) = owner + r.owner
    BY <1>3, <1>4, <2>1
  <2>6. QED
    BY <2>3, <2>4, <2>5
<1>6. SumsOf(s, fee, owner, loss, returned)
  BY DEF Receipted
<1> HIDE DEF fee, owner, loss, returned
<1>7. SumsOf(Append(s, r), fee + r.fee, owner + r.owner, loss + r.loss, returned + Returned(r))
  BY <1>1, <1>6, SumsOfAppend
<1>8. SumsOf(repayments'[v], -Bal(v, "FEE_INCOME")', -Bal(v, "OWNER_PAYABLE")',
             Bal(v, "LOSS_DEFAULT")', vault'[v].total - vault'[v].principal)
  BY <1>1, <1>5, <1>7
<1>9. /\ DOMAIN s = 1 .. n /\ n \in Nat /\ DOMAIN repayments'[v] = 1 .. n + 1
      /\ \A i \in 1 .. n : repayments'[v][i] = s[i]
      /\ repayments'[v][n + 1] = r
  BY <1>1
<1>10. /\ \A i \in DOMAIN s : s[i].journal \in posted
       /\ \A i, j \in DOMAIN s : i # j => s[i].journal # s[j].journal
  BY DEF Receipted
<1>11. r.journal \in posted' /\ r.journal \notin posted
  BY DEF ReceiptAdded
<1> HIDE DEF s, n
<1>12. \A i \in DOMAIN repayments'[v] : i = n + 1 \/ i \in 1 .. n
  BY <1>9
<1>13. \A i \in DOMAIN repayments'[v] : repayments'[v][i].journal \in posted'
  BY <1>9, <1>10, <1>11, <1>12
<1>14. \A i, j \in DOMAIN repayments'[v] :
         i # j => repayments'[v][i].journal # repayments'[v][j].journal
  BY <1>9, <1>10, <1>11, <1>12
<1>15. QED
  BY <1>8, <1>13, <1>14 DEF Receipted, SumsOf, Fees, Owners, Losses, Returns, Returned

\* A step of these three kinds keeps the receipts of every vault.
LEMMA ReceiptsOfStep ==
  ASSUME TypeOK, TypeOK', ReceiptRows, ReceiptStep
  PROVE  ReceiptRows' /\ (ReceiptsReconcile => ReceiptsReconcile')
<1>1. ReceiptRows'
  BY DEF ReceiptStep, ReceiptRows, ReceiptsKept, NoReceiptYet, ReceiptAdded
<1>2. ASSUME ReceiptsReconcile, NEW v \in Vaults, Exists(v)'
      PROVE  Receipted(v)'
  <2>1. Exists(v) => Receipted(v)
    BY <1>2, ReceiptsByVault
  <2>2. CASE ReceiptsKept(v)
    BY <1>2, <2>1, <2>2, KeptStaysReceipted DEF ReceiptStep, ReceiptsKept
  <2>3. CASE NoReceiptYet(v)
    BY <2>3, NewVaultReceipted DEF ReceiptRows, NoReceiptYet
  <2>4. ASSUME NEW r, ReceiptAdded(v, r)
        PROVE  Receipted(v)'
    BY <2>1, <2>4, AddedStaysReceipted DEF ReceiptStep, ReceiptAdded
  <2>5. QED
    BY <2>2, <2>3, <2>4 DEF ReceiptStep
<1>3. (\A v \in Vaults : Exists(v)' => Receipted(v)') => ReceiptsReconcile'
  <2>1. \A v \in Vaults : DOMAIN repayments'[v] = 1 .. Len(repayments'[v])
    BY DEF TypeOK
  <2>2. QED
    BY <2>1 DEF ReceiptsReconcile, Receipted, SumsOf, SumOf, Fees, Owners, Losses, Returns,
       Returned
<1>4. QED
  BY <1>1, <1>2, <1>3

(***************************************************************************)
(* Every handler is such a step.                                           *)
(***************************************************************************)
\* A handler that leaves the receipts and the books, and of the vault rows the
\* debt, keeps the receipts of every vault.
LEMMA QuietReceipts ==
  ASSUME UNCHANGED <<repayments, posted, books>>,
         \A v \in Vaults : Exists(v)' <=> Exists(v),
         \A v \in Vaults : Exists(v) => /\ vault'[v].total = vault[v].total
                                        /\ vault'[v].principal = vault[v].principal
  PROVE  ReceiptStep
  BY DEF ReceiptStep, ReceiptsKept, Bal

\* The rows that only change their status keep the debt.
LEMMA StatusKeepsDebt ==
  ASSUME NEW r \in VaultRows, NEW s \in VaultStatuses
  PROVE  LET n == [r EXCEPT !.status = s]
         IN  n.total = r.total /\ n.principal = r.principal /\ n.status = s
  BY DEF VaultRows

\* Changing the status of a vault keeps the receipts.
LEMMA ReceiptsOfStatus ==
  ASSUME TypeOK, NEW w \in Vaults, Exists(w), NEW s \in VaultStatuses, s # "NONE",
         vault' = [vault EXCEPT ![w].status = s], UNCHANGED <<repayments, posted, books>>
  PROVE  ReceiptStep
<1> DEFINE row == [vault[w] EXCEPT !.status = s]
<1>1. vault[w] \in VaultRows
  BY RowOfExistingVault
<1>2. row.total = vault[w].total /\ row.principal = vault[w].principal /\ row.status = s
  BY <1>1, StatusKeepsDebt
<1>3. vault'[w] = row /\ \A v \in Vaults \ {w} : vault'[v] = vault[v]
  BY DEF TypeOK
<1> HIDE DEF row
<1>4. QED
  BY <1>2, <1>3, QuietReceipts DEF Exists

\* The kill switch keeps the receipts of the vaults it freezes.
LEMMA ReceiptsOfRevoke ==
  ASSUME TypeOK, NEW a \in Agents, RevokeAgent(a)
  PROVE  ReceiptStep
<1>1. UNCHANGED <<repayments, posted, books>>
  BY DEF RevokeAgent
<1>2. ASSUME NEW v \in Vaults, Exists(v)
      PROVE  /\ Exists(v)'
             /\ vault'[v].total = vault[v].total
             /\ vault'[v].principal = vault[v].principal
  <2>1. vault[v] \in VaultRows
    BY <1>2, RowOfExistingVault
  <2>2. vault'[v] = vault[v] \/ vault'[v] = [vault[v] EXCEPT !.status = "FROZEN"]
    BY DEF RevokeAgent
  <2>3. QED
    BY <1>2, <2>1, <2>2 DEF Exists, VaultRows
<1>3. ASSUME NEW v \in Vaults, ~Exists(v)
      PROVE  ~Exists(v)'
  <2>1. v \notin OpenVaultsOf(a)
    BY <1>3 DEF OpenVaultsOf, Exists
  <2>2. vault'[v] = vault[v]
    BY <2>1 DEF RevokeAgent
  <2>3. QED
    BY <1>3, <2>2 DEF Exists
<1>4. QED
  BY <1>1, <1>2, <1>3, QuietReceipts

\* Posting lines that miss the receipt accounts to one vault keeps the
\* balances of those accounts.
LEMMA ReceiptAccountsKept ==
  ASSUME TypeOK, NEW w \in Vaults, NEW key, NEW c \in Currencies,
         NEW lines \in [Accounts -> Int], \A a \in ReceiptAccounts : lines[a] = 0,
         books' = [books EXCEPT ![w] = Post(books[w], key, c, lines)]
  PROVE  \A v \in Vaults, a \in ReceiptAccounts : Bal(v, a)' = Bal(v, a)
<1> DEFINE book == Post(books[w], key, c, lines)
<1>1. books[w] \in Books /\ ReceiptAccounts \subseteq Accounts
  BY BalanceOfBook DEF ReceiptAccounts, Accounts
<1>2. \A a \in ReceiptAccounts : \A d \in Currencies : book[d][a] = books[w][d][a]
  BY <1>1, PostKeeps
<1> HIDE DEF book
<1>3. books'[w] = book /\ \A v \in Vaults \ {w} : books'[v] = books[v]
  BY DEF TypeOK, book
<1>4. QED
  BY <1>2, <1>3 DEF Bal

\* A new vault starts without receipts.
LEMMA ReceiptsOfCreate ==
  ASSUME TypeOK, IInv, NEW w \in Vaults, NEW a, NEW task, NEW limit \in Limits, NEW perTxn,
         NEW vendors, NEW duration, CreateVault(w, a, task, limit, perTxn, vendors, duration)
  PROVE  ReceiptStep
<1> DEFINE row == NewRow(a, task, limit, perTxn, vendors, now + duration)
           lines == DisbursementLines(limit)
<1>1. /\ ~Exists(w) /\ vault' = [vault EXCEPT ![w] = row]
      /\ repayments' = repayments
      /\ books' = [books EXCEPT ![w] = Post(books[w], <<"disburse", w>>, "own", lines)]
      /\ posted \subseteq posted'
  BY DEF CreateVault
<1>2. limit \in Int
  BY AmountsAssumption DEF Positive
<1>3. row.status = "ACTIVE" /\ row.total = limit /\ row.principal = limit
  BY DEF NewRow
<1>4. lines \in [Accounts -> Int] /\ \A b \in ReceiptAccounts : lines[b] = 0
  BY <1>2, DisbursementFacts DEF Accounts, ReceiptAccounts
<1> HIDE DEF row, lines
<1>5. \A v \in Vaults, b \in ReceiptAccounts : Bal(v, b)' = Bal(v, b)
  <2>1. "own" \in Currencies
    OBVIOUS
  <2>2. QED
    BY <1>1, <1>4, <2>1, ReceiptAccountsKept
<1>6. vault'[w] = row /\ \A v \in Vaults \ {w} : vault'[v] = vault[v]
  BY <1>1 DEF TypeOK
<1>7. \A b \in ReceiptAccounts : Bal(w, b) = 0
  BY <1>1, SoundBooks DEF ReceiptAccounts, Accounts
<1>8. NoReceiptYet(w)
  BY <1>1, <1>2, <1>3, <1>5, <1>6, <1>7 DEF NoReceiptYet, Exists
<1>9. \A v \in Vaults \ {w} : ReceiptsKept(v)
  BY <1>1, <1>5, <1>6 DEF ReceiptsKept, Exists
<1>10. QED
  BY <1>1, <1>8, <1>9 DEF ReceiptStep

\* A payment touches no receipt account.
LEMMA ReceiptsOfPayment ==
  ASSUME TypeOK, NEW k \in Keys, NEW v \in Vaults, NEW amount, PaymentEffects(k, v, amount)
  PROVE  ReceiptStep
<1> DEFINE row == PaidRow(vault[v], amount)
           lines == PaymentLines(amount)
<1>1. /\ vault[v] \in VaultRows /\ vault[v].status \in SpendableStatuses
      /\ amount \in Nat
      /\ vault' = [vault EXCEPT ![v] = row]
      /\ books' = [books EXCEPT ![v] = Post(books[v], <<"spend", k>>, "own", lines)]
      /\ posted \subseteq posted' /\ repayments' = repayments
  BY DEF PaymentEffects
<1>2. row.total = vault[v].total /\ row.principal = vault[v].principal /\ row.status # "NONE"
  BY <1>1 DEF PaidRow, VaultRows, SpendableStatuses
<1>3. lines \in [Accounts -> Int] /\ \A b \in ReceiptAccounts : lines[b] = 0
  BY <1>1, PaymentFacts DEF Accounts, ReceiptAccounts
<1> HIDE DEF row, lines
<1>4. \A w \in Vaults, b \in ReceiptAccounts : Bal(w, b)' = Bal(w, b)
  <2>1. "own" \in Currencies
    OBVIOUS
  <2>2. QED
    BY <1>1, <1>3, <2>1, ReceiptAccountsKept
<1>5. Exists(v) /\ vault'[v] = row /\ \A w \in Vaults \ {v} : vault'[w] = vault[w]
  BY <1>1 DEF TypeOK, Exists, SpendableStatuses
<1>6. \A w \in Vaults : ReceiptsKept(w)
  BY <1>1, <1>2, <1>4, <1>5 DEF ReceiptsKept, Exists
<1>7. QED
  BY <1>1, <1>6 DEF ReceiptStep

\* The balances after the two journals of a revenue event.
LEMMA RevenueBalance ==
  ASSUME TypeOK, IInv, NEW v \in Vaults, NEW e \in Events, revenue[e] = NoRevenue,
         NEW amount, NEW currency \in Currencies, NEW split, NEW end,
         RevenueEffects(v, e, amount, currency, split, end)
  PROVE  Balance(v)' = Moved(Moved(Balance(v), RevenueLines(amount)),
                             RepaymentLines(amount, split))
<1> DEFINE received == RevenueLines(amount)
           shared == RepaymentLines(amount, split)
           escrowed == Post(books[v], <<"revenue", e>>, currency, received)
           book == Post(escrowed, <<"waterfall", e>>, currency, shared)
<1>1. amount \in Nat \ {0} /\ books' = [books EXCEPT ![v] = book]
  BY DEF RevenueEffects
<1>2. <<"revenue", e>> \notin posted /\ <<"waterfall", e>> \notin posted
  BY DEF IInv, KeysMatchRows
<1>3. /\ received \in [Accounts -> Int] /\ shared \in [Accounts -> Int]
      /\ books[v] \in Books /\ Balance(v) = BookBalance(books[v])
  BY <1>1, RevenueFacts, RepaymentLinesType, BalanceOfBook
<1> HIDE DEF received, shared
<1>4. escrowed \in Books /\ BookBalance(escrowed) = Moved(Balance(v), received)
  <2>1. BookBalance(escrowed) = Moved(BookBalance(books[v]), received)
    BY <1>2, <1>3, PostBalance
  <2>2. escrowed \in Books
    BY <1>3, PostType DEF Books
  <2>3. QED
    BY <1>3, <2>1, <2>2
<1> HIDE DEF escrowed
<1>5. BookBalance(book) = Moved(Moved(Balance(v), received), shared)
  BY <1>2, <1>3, <1>4, PostBalance
<1>6. books'[v] = book
  BY <1>1 DEF TypeOK
<1>7. Balance(v)' = BookBalance(books'[v])
  BY DEF Balance, BookBalance, Bal
<1>8. QED
  BY <1>5, <1>6, <1>7 DEF received, shared

\* A vault another handler's row and books leave alone keeps its receipts.
LEMMA ReceiptsElsewhere ==
  ASSUME TypeOK, NEW v \in Vaults, NEW row, NEW book, NEW receipts,
         vault' = [vault EXCEPT ![v] = row], books' = [books EXCEPT ![v] = book],
         repayments' = [repayments EXCEPT ![v] = receipts]
  PROVE  /\ vault'[v] = row /\ repayments'[v] = receipts
         /\ \A w \in Vaults \ {v} : ReceiptsKept(w)
  BY DEF TypeOK, ReceiptsKept, Exists, Bal

\* receive_revenue adds one receipt, on the journal of its waterfall.
LEMMA ReceiptsOfRevenue ==
  ASSUME TypeOK, IInv, NEW v \in Vaults, NEW e \in Events, NEW amount \in RevenueAmounts,
         NEW currency \in Currencies, NEW completed \in BOOLEAN,
         ReceiveRevenue(v, e, amount, currency, completed)
  PROVE  ReceiptStep
<1>1. PICK split, end : RevenueEffects(v, e, amount, currency, split, end)
  BY RevenueSteps
<1> DEFINE row == RepaidRow(vault[v], split, end)
           book == Post(Post(books[v], <<"revenue", e>>, currency, RevenueLines(amount)),
                        <<"waterfall", e>>, currency, RepaymentLines(amount, split))
           r == Receipt(e, split)
<1>2. /\ vault[v] \in VaultRows /\ amount \in Nat \ {0}
      /\ vault[v].status # "NONE" /\ end # "NONE"
      /\ IsRepaymentSplit(split, amount, vault[v].principal, vault[v].fee,
                          vault[v].reserve_drawn)
      /\ vault' = [vault EXCEPT ![v] = row]
      /\ books' = [books EXCEPT ![v] = book]
      /\ repayments' = [repayments EXCEPT ![v] = Append(repayments[v], r)]
  BY <1>1 DEF RevenueEffects
<1>3. revenue[e] = NoRevenue /\ posted' = posted \cup {<<"revenue", e>>, <<"waterfall", e>>}
  BY DEF ReceiveRevenue
<1>4. <<"waterfall", e>> \notin posted /\ <<"waterfall", e>> \in posted'
  BY <1>3 DEF IInv, KeysMatchRows
<1>5. /\ split.principal \in Nat /\ split.fee \in Nat /\ split.reserve \in Nat
      /\ split.owner \in Nat /\ vault[v].principal \in Nat /\ amount \in Int
  BY <1>2 DEF IsRepaymentSplit, VaultRows
<1>6. row.total = vault[v].total /\ row.principal = vault[v].principal - split.principal
        /\ row.status # "NONE"
  BY <1>2 DEF RepaidRow, VaultRows
<1>7. /\ r \in Repayments /\ r.journal = <<"waterfall", e>> /\ r.fee = split.fee
      /\ r.owner = split.owner /\ r.loss = 0 /\ Returned(r) = split.principal
  BY <1>5 DEF Receipt, Repayments, JournalKeys, Returned
<1>8. /\ Balance(v) \in [Accounts -> Int]
      /\ Balance(v)' = Moved(Moved(Balance(v), RevenueLines(amount)),
                             RepaymentLines(amount, split))
  BY <1>1, <1>3, RevenueBalance, BalanceOfBook
<1>9. \A a \in Accounts : Balance(v)[a] = Bal(v, a) /\ Balance(v)'[a] = Bal(v, a)'
  BY DEF Balance
<1> HIDE DEF row, book, r
<1>10. /\ Bal(v, "FEE_INCOME")' = Bal(v, "FEE_INCOME") - split.fee
       /\ Bal(v, "OWNER_PAYABLE")' = Bal(v, "OWNER_PAYABLE") - split.owner
       /\ Bal(v, "LOSS_DEFAULT")' = Bal(v, "LOSS_DEFAULT")
  <2>1. LET l == RevenueLines(amount)
        IN  l["FEE_INCOME"] = 0 /\ l["OWNER_PAYABLE"] = 0 /\ l["LOSS_DEFAULT"] = 0
    BY <1>5, RevenueFacts DEF Accounts
  <2>2. LET l == RepaymentLines(amount, split)
        IN  l["FEE_INCOME"] = -split.fee /\ l["OWNER_PAYABLE"] = -split.owner
              /\ l["LOSS_DEFAULT"] = 0
    BY <1>5, RepaymentLineFacts
  <2>3. QED
    BY <1>5, <1>8, <1>9, <2>1, <2>2 DEF Moved, Accounts
<1>11. /\ vault'[v] = row /\ repayments'[v] = Append(repayments[v], r)
       /\ \A w \in Vaults \ {v} : ReceiptsKept(w)
  BY <1>2, ReceiptsElsewhere
<1>12. Bal(v, "LOSS_DEFAULT") \in Int
  BY ReceiptAmounts DEF ReceiptAccounts
<1>13. ReceiptAdded(v, r)
  BY <1>2, <1>4, <1>6, <1>7, <1>10, <1>11, <1>12 DEF ReceiptAdded, Exists
<1>14. QED
  BY <1>3, <1>11, <1>13 DEF ReceiptStep

\* simulate_failure adds one receipt, on the journal of the recovery.
LEMMA ReceiptsOfFailure ==
  ASSUME TypeOK, IInv, NEW v \in Vaults, SimulateFailure(v)
  PROVE  ReceiptStep
<1>1. PICK split, end : FailureEffects(v, split, end)
  BY FailureSteps
<1> DEFINE row == RecoveredRow(vault[v], split, end)
           lines == RecoveryLines(split)
           book == Post(books[v], <<"recovery", v>>, "own", lines)
           r == RecoveryReceipt(v, split)
<1>2. /\ vault[v] \in VaultRows /\ vault[v].status \in OpenStatuses /\ end # "NONE"
      /\ vault[v].principal = vault[v].total
      /\ IsRecoverySplit(split, vault[v].total, vault[v].total - vault[v].spent,
                         ReserveCap(vault[v].task))
      /\ vault' = [vault EXCEPT ![v] = row]
      /\ books' = [books EXCEPT ![v] = book]
      /\ posted' = posted \cup {<<"recovery", v>>}
      /\ repayments' = [repayments EXCEPT ![v] = Append(repayments[v], r)]
  BY <1>1 DEF FailureEffects
<1>3. Exists(v) /\ <<"recovery", v>> \notin posted
  <2>1. Exists(v) /\ Sound(v)
    BY <1>2 DEF Exists, IInv, OpenStatuses
  <2>2. QED
    BY <1>2, <2>1 DEF Sound, Settled, OpenStatuses, Recovered
<1>4. split.swept \in Nat /\ split.reserve \in Nat /\ split.loss \in Nat
  BY <1>1, RecoverySplitType
<1>5. row.total = vault[v].total /\ row.principal = 0 /\ row.status # "NONE"
  BY <1>2 DEF RecoveredRow, VaultRows
<1>6. /\ r \in Repayments /\ r.journal = <<"recovery", v>> /\ r.fee = 0
      /\ r.owner = 0 /\ r.loss = split.loss /\ Returned(r) = vault[v].principal
  BY <1>2, <1>4 DEF RecoveryReceipt, Repayments, JournalKeys, Returned, IsRecoverySplit
<1>7. /\ lines \in [Accounts -> Int] /\ lines["FEE_INCOME"] = 0
      /\ lines["OWNER_PAYABLE"] = 0 /\ lines["LOSS_DEFAULT"] = split.loss
  BY <1>4, RecoveryLineFacts
<1>8. vault[v].principal \in Nat
  BY <1>2 DEF VaultRows
<1> HIDE DEF row, r, lines
<1>9. books[v] \in Books /\ Balance(v) = BookBalance(books[v])
        /\ Balance(v) \in [Accounts -> Int]
  BY BalanceOfBook
<1>10. Balance(v)' = Moved(Balance(v), lines)
  <2>1. BookBalance(book) = Moved(Balance(v), lines)
    BY <1>3, <1>7, <1>9, PostBalance
  <2>2. books'[v] = book
    BY <1>2 DEF TypeOK
  <2>3. Balance(v)' = BookBalance(books'[v])
    BY DEF Balance, BookBalance, Bal
  <2>4. QED
    BY <2>1, <2>2, <2>3
<1> HIDE DEF book
<1>11. \A a \in Accounts : Balance(v)[a] = Bal(v, a) /\ Balance(v)'[a] = Bal(v, a)'
  BY DEF Balance
<1>12. /\ Bal(v, "FEE_INCOME")' = Bal(v, "FEE_INCOME") - 0
       /\ Bal(v, "OWNER_PAYABLE")' = Bal(v, "OWNER_PAYABLE") - 0
       /\ Bal(v, "LOSS_DEFAULT")' = Bal(v, "LOSS_DEFAULT") + split.loss
  BY <1>7, <1>9, <1>10, <1>11 DEF Moved, Accounts
<1>13. /\ vault'[v] = row /\ repayments'[v] = Append(repayments[v], r)
       /\ \A w \in Vaults \ {v} : ReceiptsKept(w)
  BY <1>2, ReceiptsElsewhere
<1>14. ReceiptAdded(v, r)
  BY <1>2, <1>3, <1>5, <1>6, <1>8, <1>12, <1>13 DEF ReceiptAdded, Exists
<1>15. QED
  BY <1>2, <1>13, <1>14 DEF ReceiptStep

\* Every step keeps, starts or adds receipts.
LEMMA ReceiptsOfNext ==
  ASSUME TypeOK, IInv, [Next]_vars
  PROVE  ReceiptStep
<1>1. UNCHANGED <<vault, repayments, posted, books>> => ReceiptStep
  BY QuietReceipts DEF Exists
<1>2. CASE VaultStep
  <2>1. PICK w \in Vaults :
          \/ \E a \in Agents, task \in Tasks, limit \in Limits, vendors \in AllowLists,
                duration \in Durations :
               \E perTxn \in PerTxnLimits \cup {limit} :
                 CreateVault(w, a, task, limit, perTxn, vendors, duration)
          \/ \E k \in Keys, spend \in Spends : Propose(k, w, spend)
          \/ FreezeVault(w)
          \/ \E e \in Events, amount \in RevenueAmounts, currency \in Currencies,
                completed \in BOOLEAN : ReceiveRevenue(w, e, amount, currency, completed)
          \/ SimulateFailure(w)
          \/ CloseVault(w)
    BY <1>2 DEF VaultStep
  <2>2. "FROZEN" \in VaultStatuses /\ "CLOSED" \in VaultStatuses
    BY DEF VaultStatuses
  <2>3. ASSUME NEW k \in Keys, NEW spend \in Spends, Propose(k, w, spend)
        PROVE  ReceiptStep
    <3>1. /\ Exists(w) /\ UNCHANGED <<repayments, posted, books>>
          /\ vault' = vault \/ vault' = [vault EXCEPT ![w].status = "FROZEN"]
      BY <2>3 DEF Propose
    <3>2. QED
      BY <1>1, <2>2, <3>1, ReceiptsOfStatus
  <2>4. FreezeVault(w) => ReceiptStep
    BY <2>2, MoveSources, ReceiptsOfStatus DEF FreezeVault, Exists
  <2>5. CloseVault(w) => ReceiptStep
    BY <2>2, MoveSources, ReceiptsOfStatus DEF CloseVault, Exists
  <2>6. QED
    BY <2>1, <2>3, <2>4, <2>5, ReceiptsOfCreate, ReceiptsOfRevenue, ReceiptsOfFailure
<1>3. CASE AgentStep
  <2>1. PICK a \in Agents :
          \/ \E ttl \in PassportTtls : IssuePassport(a, ttl)
          \/ FreezeAgent(a) \/ UnfreezeAgent(a) \/ RevokeAgent(a)
    BY <1>3 DEF AgentStep
  <2>2. QED
    BY <1>1, <2>1, ReceiptsOfRevoke DEF IssuePassport, FreezeAgent, UnfreezeAgent
<1>4. ASSUME NEW k \in Keys, Execute(k)
      PROVE  ReceiptStep
  BY <1>4, ExecutePays, ReceiptsOfPayment
<1>5. QED
  BY <1>1, <1>2, <1>3, <1>4 DEF Next, vars, Tick, CreateMandate

\* Every step keeps the receipts in step with the ledger.
LEMMA ReceiptsNext ==
  ASSUME TypeOK, IInv, ReceiptRows, [Next]_vars
  PROVE  ReceiptRows' /\ (ReceiptsReconcile => ReceiptsReconcile')
  BY TypeNext, ReceiptsOfNext, ReceiptsOfStep
-----------------------------------------------------------------------------
(***************************************************************************)
(* Theorems.                                                               *)
(***************************************************************************)

\* No payment exists at the start.
LEMMA NoPaymentAtFirst ==
  ASSUME Init
  PROVE  PaymentRows /\ PaymentsReconcile /\ PaceHolds
<1>1. \A v \in Vaults : PaymentsOf(v) = {} /\ Recent(v) = {} /\ ~Exists(v)
  BY DEF Init, PaymentsOf, Recent, Exists, NoVault
<1>2. PaymentRows
  BY <1>1, FS_EmptySet DEF Init, PaymentRows
<1>3. PaymentsReconcile /\ PaceHolds
  BY <1>1 DEF PaymentsReconcile, PaceHolds
<1>4. QED
  BY <1>2, <1>3

\* Payments know their key, are not dated ahead of the clock, belong to a vault
\* that exists and are finitely many for each.
THEOREM PaymentRowsHold == Spec => []PaymentRows
<1>1. Init => PaymentRows
  BY NoPaymentAtFirst
<1>2. TypeOK /\ IInv /\ PaymentRows /\ [Next]_vars => PaymentRows'
  BY PaymentRowsNext
<1>3. QED
  BY <1>1, <1>2, InvariantHolds, PTL DEF Spec

\* What the ledger owes vendors is the sum of the executed transactions, which
\* are counted, executed once each and stay within the limit of the vault.
THEOREM PaymentsAlwaysReconcile == Spec => []PaymentsReconcile
<1>1. Init => PaymentsReconcile
  BY NoPaymentAtFirst
<1>2. TypeOK /\ IInv /\ PaymentRows /\ PaymentsReconcile /\ [Next]_vars => PaymentsReconcile'
  BY ReconcileNext
<1>3. QED
  BY <1>1, <1>2, InvariantHolds, PaymentRowsHold, PTL DEF Spec

\* No window holds more payments than the velocity limit, and payments to one
\* vendor in a window cannot be split past the per-transaction limit.
THEOREM PaceAlwaysHolds == Spec => []PaceHolds
<1>1. Init => PaceHolds
  BY NoPaymentAtFirst
<1>2. TypeOK /\ IInv /\ PaymentRows /\ PaceHolds /\ [Next]_vars => PaceHolds'
  BY PaceNext
<1>3. QED
  BY <1>1, <1>2, InvariantHolds, PaymentRowsHold, PTL DEF Spec

\* A vault that does not exist has no receipt.
THEOREM ReceiptRowsHold == Spec => []ReceiptRows
<1>1. Init => ReceiptRows
  BY DEF Init, ReceiptRows
<1>2. TypeOK /\ IInv /\ ReceiptRows /\ [Next]_vars => ReceiptRows'
  BY ReceiptsNext
<1>3. QED
  BY <1>1, <1>2, InvariantHolds, PTL DEF Spec

\* The receipts of every vault add up to its ledger, each on a journal of its own.
THEOREM ReceiptsAlwaysReconcile == Spec => []ReceiptsReconcile
<1>1. Init => ReceiptsReconcile
  <2>1. Init => \A v \in Vaults : ~Exists(v)
    BY DEF Init, Exists, NoVault
  <2>2. QED
    BY <2>1 DEF ReceiptsReconcile
<1>2. TypeOK /\ IInv /\ ReceiptRows /\ ReceiptsReconcile /\ [Next]_vars => ReceiptsReconcile'
  BY ReceiptsNext
<1>3. QED
  BY <1>1, <1>2, InvariantHolds, ReceiptRowsHold, PTL DEF Spec

\* The policy mirror never contradicts the vault rules.
THEOREM ControlsAlwaysAgree == Spec => []ControlsAgree
<1>1. TypeOK => ControlsAgree
  BY ControlsOfTypes
<1>2. QED
  BY <1>1, TypeCorrect, PTL
=============================================================================
