---------------------------- MODULE CreditProofs ----------------------------
(***************************************************************************)
(* Theorems of CreditApplication.  Every step of the composed system is a  *)
(* step of VaultOps or leaves its tables alone, so what VaultOpsSafety     *)
(* proves of the vaults holds of the composition; and CInv, what ties      *)
(* applications, decisions, reviews and vaults together, is inductive.     *)
(***************************************************************************)
EXTENDS CreditApplication, VaultPaymentsProofs, TLAPS

(***************************************************************************)
(* The decision engine: the limit is the smallest cap.                     *)
(***************************************************************************)
LEMMA SmallestOfFive ==
  ASSUME NEW a \in Nat, NEW b \in Nat, NEW c \in Nat, NEW d \in Nat, NEW e \in Nat,
         NEW m, m = Min({a, b, c, d, e})
  PROVE  /\ m \in {a, b, c, d, e}
         /\ \A y \in {a, b, c, d, e} : m <= y
<1> DEFINE S == {a, b, c, d, e}
<1>1. \E x \in S : \A y \in S : x <= y
  OBVIOUS
<1>2. QED
  BY <1>1 DEF Min

Applied(i) ==
  /\ i.requested \in Nat \ {0} /\ i.exposure_cap \in Nat /\ i.revenue \in Nat
  /\ i.cost \in Nat /\ i.authority \in Nat

LEMMA CapsType ==
  ASSUME NEW i, Applied(i)
  PROVE  Caps(i) \in CapRows /\ Caps(i).requested = i.requested
<1>1. (IF i.outstanding \in 0 .. i.exposure_cap
         THEN i.exposure_cap - i.outstanding ELSE 0) \in Nat
  BY DEF Applied
<1>2. (i.revenue * 7) \div 10 \in Nat
  BY DEF Applied
<1>3. QED
  BY <1>1, <1>2 DEF Applied, Caps, CapRows

LEMMA LimitIsSmallest ==
  ASSUME NEW i, Applied(i)
  PROVE  /\ Limit(i) \in Nat
         /\ Limit(i) <= i.requested
         /\ \A c \in DOMAIN Caps(i) : Limit(i) <= Caps(i)[c]
<1> DEFINE k == Caps(i)
<1>1. k \in CapRows /\ k.requested = i.requested
  BY CapsType
<1>2. DOMAIN k = {"requested", "exposure", "revenue", "cost", "authority"}
  BY DEF Caps
<1> HIDE DEF k
<1>3. {k[c] : c \in DOMAIN k} = {k.requested, k.exposure, k.revenue, k.cost, k.authority}
  BY <1>2
<1>4. /\ k.requested \in Nat /\ k.exposure \in Nat /\ k.revenue \in Nat
      /\ k.cost \in Nat /\ k.authority \in Nat
  BY <1>1 DEF CapRows
<1>5. Limit(i) = Min({k.requested, k.exposure, k.revenue, k.cost, k.authority})
  BY <1>3 DEF Limit, k
<1>6. /\ Limit(i) \in {k.requested, k.exposure, k.revenue, k.cost, k.authority}
      /\ \A y \in {k.requested, k.exposure, k.revenue, k.cost, k.authority} : Limit(i) <= y
  <2>1. PICK a \in Nat, b \in Nat, c \in Nat, d \in Nat, e \in Nat :
          /\ a = k.requested /\ b = k.exposure /\ c = k.revenue
          /\ d = k.cost /\ e = k.authority
    BY <1>4
  <2>2. Limit(i) = Min({a, b, c, d, e})
    BY <1>5, <2>1, Zenon
  <2>3. /\ Limit(i) \in {a, b, c, d, e}
        /\ \A y \in {a, b, c, d, e} : Limit(i) <= y
    BY <2>2, SmallestOfFive
  <2>4. QED
    BY <2>1, <2>3, Zenon
<1>7. \A c \in DOMAIN k : Limit(i) <= k[c]
  BY <1>3, <1>6
<1>8. QED
  BY <1>1, <1>4, <1>6, <1>7 DEF k

\* An approval by the engine alone means that no trigger fired.
LEMMA ApprovedUnseen ==
  ASSUME NEW i, Decide(i).decision = "APPROVED"
  PROVE  i.mandate /\ ~i.history.first
<1>1. ~NeedsReview(i)
  BY DEF Decide
<1>2. ~i.mandate \/ i.history.first => NeedsReview(i)
  BY Zenon DEF NeedsReview
<1>3. QED
  BY <1>1, <1>2, Zenon
-----------------------------------------------------------------------------
(***************************************************************************)
(* What the handlers of VaultOps keep of a vault: it stays, with the terms *)
(* it was created with; and no vault appears but by create_vault.          *)
(***************************************************************************)
SameTerms(old, new) ==
  /\ new.status # "NONE"
  /\ new.total = old.total /\ new.agent = old.agent
  /\ new.task = old.task /\ new.allowed = old.allowed

VaultStays(v) ==
  IF Exists(v) THEN SameTerms(vault[v], vault'[v]) ELSE vault'[v] = vault[v]

LEMMA NothingNew == ASSUME UNCHANGED vault, TypeOK, NEW v \in Vaults PROVE VaultStays(v)
  BY RowOfExistingVault DEF VaultStays, SameTerms, Exists

LEMMA RowWritten ==
  ASSUME TypeOK, NEW v \in Vaults, NEW w \in Vaults, NEW row, Exists(w),
         vault' = [vault EXCEPT ![w] = row], SameTerms(vault[w], row)
  PROVE  VaultStays(v)
<1>1. vault'[v] = IF v = w THEN row ELSE vault[v]
  BY DEF TypeOK
<1>2. QED
  BY <1>1 DEF VaultStays, SameTerms, Exists

\* The new rows keep the terms of the vault.
LEMMA RowsKeepTerms ==
  ASSUME NEW r \in VaultRows
  PROVE  /\ \A s \in VaultStatuses : SameTerms(r, [r EXCEPT !.status = s])
         /\ \A amount : SameTerms(r, PaidRow(r, amount))
         /\ \A split, end : end # "NONE" => SameTerms(r, RepaidRow(r, split, end))
         /\ \A split, end : end # "NONE" => SameTerms(r, RecoveredRow(r, split, end))
<1>1. "NONE" \notin VaultStatuses
  BY DEF VaultStatuses
<1>2. \A s \in VaultStatuses : SameTerms(r, [r EXCEPT !.status = s])
  BY <1>1 DEF SameTerms, VaultRows
<1>3. \A amount : SameTerms(r, PaidRow(r, amount))
  <2>1. r.status # "NONE"
    BY <1>1 DEF VaultRows
  <2>2. QED
    BY <2>1 DEF SameTerms, VaultRows, PaidRow
<1>4. \A split, end : end # "NONE" => SameTerms(r, RepaidRow(r, split, end))
  BY DEF SameTerms, VaultRows, RepaidRow
<1>5. \A split, end : end # "NONE" => SameTerms(r, RecoveredRow(r, split, end))
  BY DEF SameTerms, VaultRows, RecoveredRow
<1>6. QED
  BY <1>2, <1>3, <1>4, <1>5

LEMMA StaysOnMove ==
  ASSUME TypeOK, NEW v \in Vaults, NEW w \in Vaults, NEW s \in {"FROZEN", "CLOSED"},
         VaultMove(vault[w].status, s), vault' = [vault EXCEPT ![w].status = s]
  PROVE  VaultStays(v)
<1>1. Exists(w)
  BY MoveSources DEF Exists
<1>2. vault[w] \in VaultRows
  BY <1>1, RowOfExistingVault
<1>3. s \in VaultStatuses
  BY DEF VaultStatuses
<1>4. SameTerms(vault[w], [vault[w] EXCEPT !.status = s])
  BY <1>2, <1>3, RowsKeepTerms
<1>5. vault' = [vault EXCEPT ![w] = [vault[w] EXCEPT !.status = s]]
  BY DEF TypeOK
<1>6. QED
  BY <1>1, <1>4, <1>5, RowWritten

LEMMA StaysOnPropose ==
  ASSUME TypeOK, NEW v \in Vaults, NEW k \in Keys, NEW w \in Vaults, NEW spend,
         Propose(k, w, spend)
  PROVE  VaultStays(v)
<1>1. CASE UNCHANGED vault
  BY <1>1, NothingNew
<1>2. CASE vault' = [vault EXCEPT ![w].status = "FROZEN"]
  <2>1. Exists(w) /\ vault[w] \in VaultRows
    BY RowOfExistingVault DEF Propose
  <2>2. SameTerms(vault[w], [vault[w] EXCEPT !.status = "FROZEN"])
    BY <2>1, RowsKeepTerms DEF VaultStatuses
  <2>3. vault' = [vault EXCEPT ![w] = [vault[w] EXCEPT !.status = "FROZEN"]]
    BY <1>2 DEF TypeOK
  <2>4. QED
    BY <2>1, <2>2, <2>3, RowWritten
<1>3. QED
  BY <1>1, <1>2 DEF Propose

LEMMA StaysOnExecute ==
  ASSUME TypeOK, IInv, NEW v \in Vaults, NEW k \in Keys, Execute(k)
  PROVE  VaultStays(v)
<1> DEFINE w == proposal[k].vault
<1>1. PaymentEffects(k, w, proposal[k].amount)
  BY ExecuteSteps
<1>0. w \in Vaults
  BY ProposalOfApproved DEF Execute, ProposalRows
<1> HIDE DEF w
<1>2. vault[w].status \in SpendableStatuses
  BY <1>1, Zenon DEF PaymentEffects
<1>5. vault' = [vault EXCEPT ![w] = PaidRow(vault[w], proposal[k].amount)]
  BY <1>1, Zenon DEF PaymentEffects
<1>6. Exists(w) /\ vault[w] \in VaultRows
  BY <1>0, <1>2, RowOfExistingVault DEF Exists, SpendableStatuses
<1>3. SameTerms(vault[w], PaidRow(vault[w], proposal[k].amount))
  BY <1>6, RowsKeepTerms
<1>4. QED
  BY <1>0, <1>3, <1>5, <1>6, RowWritten

LEMMA StaysOnRevenue ==
  ASSUME TypeOK, NEW v \in Vaults, NEW w \in Vaults, NEW e \in Events,
         NEW amount \in RevenueAmounts, NEW currency \in Currencies,
         NEW completed \in BOOLEAN, ReceiveRevenue(w, e, amount, currency, completed)
  PROVE  VaultStays(v)
<1>1. PICK split, end : RevenueEffects(w, e, amount, currency, split, end)
  BY RevenueSteps
<1>2. /\ vault[w] \in VaultRows /\ end # "NONE"
      /\ vault' = [vault EXCEPT ![w] = RepaidRow(vault[w], split, end)]
  BY <1>1 DEF RevenueEffects
<1>3. SameTerms(vault[w], RepaidRow(vault[w], split, end))
  BY <1>2, RowsKeepTerms
<1>4. Exists(w)
  BY <1>2 DEF Exists, VaultRows, VaultStatuses
<1>5. QED
  BY <1>2, <1>3, <1>4, RowWritten

LEMMA StaysOnFailure ==
  ASSUME TypeOK, IInv, NEW v \in Vaults, NEW w \in Vaults, SimulateFailure(w)
  PROVE  VaultStays(v)
<1>1. PICK split, end : FailureEffects(w, split, end)
  BY FailureSteps
<1>2. /\ vault[w] \in VaultRows /\ end # "NONE"
      /\ vault' = [vault EXCEPT ![w] = RecoveredRow(vault[w], split, end)]
  BY <1>1 DEF FailureEffects
<1>3. SameTerms(vault[w], RecoveredRow(vault[w], split, end))
  BY <1>2, RowsKeepTerms
<1>4. Exists(w)
  BY <1>2 DEF Exists, VaultRows, VaultStatuses
<1>5. QED
  BY <1>2, <1>3, <1>4, RowWritten

LEMMA StaysOnRevoke ==
  ASSUME TypeOK, NEW v \in Vaults, NEW a \in Agents, RevokeAgent(a)
  PROVE  VaultStays(v)
<1>1. vault'[v] = IF v \in OpenVaultsOf(a) THEN [vault[v] EXCEPT !.status = "FROZEN"]
                  ELSE vault[v]
  BY DEF RevokeAgent
<1>2. CASE v \in OpenVaultsOf(a)
  <2>1. Exists(v) /\ vault[v] \in VaultRows
    BY <1>2, RowOfExistingVault DEF OpenVaultsOf, Exists
  <2>2. QED
    BY <1>1, <1>2, <2>1, RowsKeepTerms DEF VaultStays, VaultStatuses
<1>3. CASE v \notin OpenVaultsOf(a)
  BY <1>1, <1>3, RowOfExistingVault DEF VaultStays, SameTerms, Exists
<1>4. QED
  BY <1>2, <1>3

(***************************************************************************)
(* What a step of VaultOps other than create_vault leaves of what the      *)
(* applications rest on: the vaults with their terms, and the mandates.    *)
(***************************************************************************)
Kept ==
  /\ \A v \in Vaults : VaultStays(v)
  /\ \A task \in Tasks : mandate[task] # NoMandate => mandate'[task] # NoMandate

LEMMA KeptVault ==
  ASSUME TypeOK, UNCHANGED mandate, \A v \in Vaults : VaultStays(v)
  PROVE  Kept
  BY DEF Kept

LEMMA KeptAlone ==
  ASSUME TypeOK, UNCHANGED <<vault, mandate>>
  PROVE  Kept
  BY NothingNew DEF Kept

\* The handlers that touch no table of the applications keep what those rest on.
LEMMA OthersKeep ==
  ASSUME TypeOK, IInv, OtherStep
  PROVE  Kept
<1>1. Tick => Kept
  BY KeptAlone DEF Tick
<1>2. ASSUME NEW a \in Agents, FreezeAgent(a) \/ UnfreezeAgent(a) \/ RevokeAgent(a)
      PROVE  Kept
  <2>1. CASE FreezeAgent(a) \/ UnfreezeAgent(a)
    BY <2>1, KeptAlone DEF FreezeAgent, UnfreezeAgent
  <2>2. CASE RevokeAgent(a)
    <3>1. UNCHANGED mandate
      BY <2>2 DEF RevokeAgent
    <3>2. QED
      BY <2>2, <3>1, StaysOnRevoke, KeptVault
  <2>3. QED
    BY <1>2, <2>1, <2>2
<1>3. ASSUME NEW task \in Tasks, NEW cap \in ReserveCaps, CreateMandate(task, cap)
      PROVE  Kept
  <2>1. cap # NoMandate
    BY AmountsAssumption DEF NoMandate
  <2>2. \A v \in Vaults : VaultStays(v)
    BY <1>3, NothingNew DEF CreateMandate
  <2>3. QED
    BY <1>3, <2>1, <2>2 DEF CreateMandate, Kept, TypeOK
<1>4. ASSUME NEW k \in Keys, Execute(k)
      PROVE  Kept
  <2>1. UNCHANGED mandate
    BY <1>4 DEF Execute
  <2>2. QED
    BY <1>4, <2>1, StaysOnExecute, KeptVault
<1>5. ASSUME NEW w \in Vaults, FreezeVault(w) \/ CloseVault(w)
      PROVE  Kept
  <2>1. UNCHANGED mandate
    BY <1>5 DEF FreezeVault, CloseVault
  <2>2. \A v \in Vaults : VaultStays(v)
    BY <1>5, StaysOnMove DEF FreezeVault, CloseVault
  <2>3. QED
    BY <2>1, <2>2, KeptVault
<1>6. ASSUME NEW w \in Vaults, NEW e \in Events, NEW amount \in RevenueAmounts,
             NEW currency \in Currencies, NEW completed \in BOOLEAN,
             ReceiveRevenue(w, e, amount, currency, completed)
      PROVE  Kept
  <2>1. UNCHANGED mandate
    BY <1>6 DEF ReceiveRevenue
  <2>2. QED
    BY <1>6, <2>1, StaysOnRevenue, KeptVault
<1>7. ASSUME NEW w \in Vaults, SimulateFailure(w)
      PROVE  Kept
  <2>1. UNCHANGED mandate
    BY <1>7 DEF SimulateFailure
  <2>2. QED
    BY <1>7, <2>1, StaysOnFailure, KeptVault
<1>8. QED
  BY <1>1, <1>2, <1>3, <1>4, <1>5, <1>6, <1>7 DEF OtherStep

\* While the rows of the applications stand, what ties them to the vaults does.
LEMMA CreditFrame ==
  ASSUME CInv, Kept, UNCHANGED <<application, decision, review>>,
         evidence \subseteq evidence', evidence' \subseteq Tasks, UNCHANGED locked,
         authority' \in [Agents -> Nat], blocked' \in [Agents -> Nat]
  PROVE  CInv'
<1>1. CreditTypeOK'
  BY DEF CInv, CreditTypeOK
<1>2. DecisionFits' /\ WithinEveryCap'
  BY DEF CInv, DecisionFits, WithinEveryCap
<1>3. \A v \in Vaults : Exists(v)' <=> Exists(v)
  BY DEF Kept, VaultStays, SameTerms, Exists
<1>4. \A v \in Vaults : Exists(v) =>
         /\ vault'[v].total = vault[v].total /\ vault'[v].agent = vault[v].agent
         /\ vault'[v].task = vault[v].task /\ vault'[v].allowed = vault[v].allowed
  BY DEF Kept, VaultStays, SameTerms
<1>5. VaultsStandOnApprovals'
  BY <1>3, <1>4 DEF CInv, VaultsStandOnApprovals
<1>6. \A a \in Agents : VaultsOfAgent(a)' = VaultsOfAgent(a)
  BY <1>3, <1>4 DEF VaultsOfAgent
<1>7. \A v \in Vaults : application[v].status \in ApprovedStatuses =>
         application[v] \in ApplicationRows
  BY DEF CInv, CreditTypeOK, NoApplication, ApprovedStatuses
<1>8. Vetted'
  BY <1>6, <1>7 DEF CInv, Vetted, ApplicationRows
<1>9. UnreviewedIsSecured'
  BY <1>6, <1>7 DEF CInv, UnreviewedIsSecured, ApplicationRows, Kept
<1>10. QED
  BY <1>1, <1>2, <1>5, <1>8, <1>9 DEF CInv
-----------------------------------------------------------------------------
(***************************************************************************)
(* The handlers that write an application.                                 *)
(***************************************************************************)
InStatus(row, s) == [row EXCEPT !.status = s]

LEMMA InStatusType ==
  ASSUME NEW row \in ApplicationRows, NEW s \in ApplicationStatuses
  PROVE  /\ InStatus(row, s) \in ApplicationRows
         /\ InStatus(row, s).status = s
         /\ InStatus(row, s).agent = row.agent /\ InStatus(row, s).task = row.task
         /\ InStatus(row, s).requested = row.requested
         /\ InStatus(row, s).vendors = row.vendors
  BY DEF InStatus, ApplicationRows

LEMMA RowOfApplication ==
  ASSUME CreditTypeOK, NEW v \in Vaults, application[v].status # "NONE"
  PROVE  application[v] \in ApplicationRows
  BY DEF CreditTypeOK, NoApplication

\* The first credit of an agent was reviewed: Vetted leads back to a review.
LEMMA ReviewedFirst ==
  ASSUME CInv
  PROVE  FirstCreditReviewed
<1> SUFFICES ASSUME NEW a \in Agents, NEW v \in VaultsOfAgent(a)
             PROVE  \E w \in VaultsOfAgent(a) : review[w] # NoReview
  BY DEF FirstCreditReviewed
<1>1. v \in Vaults /\ Exists(v) /\ vault[v].agent = a
  BY DEF VaultsOfAgent
<1>2. application[v].status \in ApprovedStatuses /\ application[v].agent = a
  BY <1>1 DEF CInv, VaultsStandOnApprovals, ApprovedStatuses
<1>3. QED
  BY <1>1, <1>2 DEF CInv, Vetted

(***************************************************************************)
(* What an evaluation or a review writes: the status s of application v,   *)
(* its decision row and its review, by someone who may decide so.          *)
(***************************************************************************)
DecidedAs(v, s, row, seen) ==
  /\ application[v].status \in {"DRAFT", "HUMAN_REVIEW_REQUIRED"}
  /\ s \in {"APPROVED", "HUMAN_REVIEW_REQUIRED", "REJECTED"}
  /\ row \in DecisionRows /\ seen \in Nat \cup {NoReview}
  /\ s = "APPROVED" => row.decision = "APPROVED"
  /\ s = "HUMAN_REVIEW_REQUIRED" => seen = NoReview
  /\ row.limit <= application[v].requested
  /\ \A c \in DOMAIN row.caps : row.limit <= row.caps[c]
  /\ s = "APPROVED" /\ seen = NoReview =>
       /\ application[v].task \in evidence
       /\ mandate[application[v].task] # NoMandate
       /\ VaultsOfAgent(application[v].agent) # {}
  /\ application' = [application EXCEPT ![v] = InStatus(application[v], s)]
  /\ decision' = [decision EXCEPT ![v] = row]
  /\ review' = [review EXCEPT ![v] = seen]
  /\ UNCHANGED <<vars, evidence, authority, blocked, locked>>

LEMMA DecidedKeeps ==
  ASSUME TypeOK, CInv, NEW v \in Vaults, NEW s, NEW row, NEW seen, DecidedAs(v, s, row, seen)
  PROVE  CInv'
<1> DEFINE app == InStatus(application[v], s)
<1>1. /\ application[v] \in ApplicationRows /\ s \in ApplicationStatuses
      /\ s \notin {"NONE", "DRAFT"}
  BY RowOfApplication DEF DecidedAs, CInv, ApplicationStatuses
<1>2. /\ app \in ApplicationRows /\ app.status = s
      /\ app.agent = application[v].agent /\ app.task = application[v].task
      /\ app.requested = application[v].requested
  BY <1>1, InStatusType
<1>3. /\ application' = [application EXCEPT ![v] = app]
      /\ decision' = [decision EXCEPT ![v] = row]
      /\ review' = [review EXCEPT ![v] = seen]
      /\ UNCHANGED <<vault, mandate, evidence, authority, blocked, locked>>
  BY DEF DecidedAs, vars
<1> HIDE DEF app
<1>4. /\ row \in DecisionRows /\ seen \in Nat \cup {NoReview}
      /\ row.limit <= application[v].requested
      /\ s = "APPROVED" => row.decision = "APPROVED"
      /\ s = "HUMAN_REVIEW_REQUIRED" => seen = NoReview
      /\ s \in {"APPROVED", "HUMAN_REVIEW_REQUIRED", "REJECTED"}
  BY DEF DecidedAs
<1>5. row # NoDecision
  BY <1>4 DEF DecisionRows, NoDecision
<1>6. CreditTypeOK'
  BY <1>1, <1>2, <1>3, <1>4, <1>5 DEF CInv, CreditTypeOK
<1>7. /\ application'[v] = app /\ decision'[v] = row /\ review'[v] = seen
      /\ \A w \in Vaults : w # v =>
           /\ application'[w] = application[w] /\ decision'[w] = decision[w]
           /\ review'[w] = review[w]
  BY <1>3 DEF CInv, CreditTypeOK
<1>8. DecisionFits'
  BY <1>2, <1>4, <1>7 DEF CInv, DecisionFits, ApprovedStatuses
<1>9. WithinEveryCap'
  BY <1>7 DEF CInv, WithinEveryCap, DecidedAs
<1>10. ~Exists(v)
  BY DEF CInv, VaultsStandOnApprovals, DecidedAs
<1>11. \A w \in Vaults : Exists(w)' <=> Exists(w)
  BY <1>3 DEF Exists
<1>12. VaultsStandOnApprovals'
  <2>1. s # "DISBURSEMENT_ENABLED"
    BY <1>4
  <2>2. QED
    BY <1>2, <1>3, <1>7, <1>10, <1>11, <2>1 DEF CInv, VaultsStandOnApprovals
<1>13. \A a : VaultsOfAgent(a)' = VaultsOfAgent(a)
  BY <1>3 DEF VaultsOfAgent, Exists
<1>14. \A a, w : w \in VaultsOfAgent(a) => w \in Vaults /\ w # v
  BY <1>10 DEF VaultsOfAgent
<1>15. s = "APPROVED" /\ seen = NoReview =>
         /\ application[v].task \in evidence
         /\ mandate[application[v].task] # NoMandate
         /\ \E w \in VaultsOfAgent(application[v].agent) : review[w] # NoReview
  BY <1>1, ReviewedFirst DEF DecidedAs, FirstCreditReviewed, ApplicationRows
<1>16. Vetted'
  BY <1>2, <1>4, <1>7, <1>13, <1>14, <1>15 DEF CInv, Vetted, ApprovedStatuses
<1>17. UnreviewedIsSecured'
  BY <1>2, <1>3, <1>4, <1>7, <1>13, <1>14, <1>15
     DEF CInv, UnreviewedIsSecured, ApprovedStatuses
<1>18. QED
  BY <1>6, <1>8, <1>9, <1>12, <1>16, <1>17 DEF CInv

\* What the decision engine is asked about an application.
LEMMA RequestFacts ==
  ASSUME CreditTypeOK, NEW v \in Vaults, application[v] \in ApplicationRows, NEW analysis
  PROVE  /\ Applied(Request(v, analysis))
         /\ Request(v, analysis).requested = application[v].requested
         /\ Request(v, analysis).mandate => mandate[application[v].task] # NoMandate
         /\ ~Request(v, analysis).history.first => VaultsOfAgent(application[v].agent) # {}
<1> DEFINE i == Request(v, analysis)
<1>1. /\ i.requested = application[v].requested
      /\ i.exposure_cap = application[v].exposure_cap
      /\ i.revenue = application[v].revenue /\ i.cost = application[v].cost
      /\ i.authority = authority[application[v].agent]
      /\ i.history = History(application[v].agent)
  BY DEF Request
<1>2. i.mandate <=> MandateValid(application[v].task)
  BY DEF Request
<1>3. i.history.first <=> IsFirstCredit(application[v].agent)
  BY <1>1 DEF History
<1>4. /\ application[v].requested \in Nat \ {0} /\ application[v].exposure_cap \in Nat
      /\ application[v].revenue \in Nat /\ application[v].cost \in Nat
      /\ authority[application[v].agent] \in Nat
  BY RequestsAssumption DEF ApplicationRows, CreditTypeOK, Positive
<1>5. QED
  BY <1>1, <1>2, <1>3, <1>4 DEF Applied, MandateValid, IsFirstCredit

\* evaluate_application decides within the caps, and approves alone only with
\* evidence, a mandate and an earlier vault.
LEMMA EvaluateDecides ==
  ASSUME CInv, NEW v \in Vaults, NEW analysis, Evaluate(v, analysis)
  PROVE  \E s, row : DecidedAs(v, s, row, review[v])
<1>1. application[v].status = "DRAFT" /\ application[v] \in ApplicationRows
  BY RowOfApplication DEF Evaluate, CInv
<1>2. /\ review[v] = NoReview
      /\ review' = [review EXCEPT ![v] = review[v]]
      /\ UNCHANGED <<vars, evidence, authority, blocked, locked>>
  BY DEF CInv, CreditTypeOK, DecisionFits, ApprovedStatuses, Evaluate
<1>3. ASSUME NEW path, Refuse(v, path)
      PROVE  \E s, row : DecidedAs(v, s, row, review[v])
  <2> DEFINE row == [decision |-> "REJECTED", limit |-> 0, caps |-> NoCaps]
  <2>1. application[v].requested \in Nat
    BY <1>1, RequestsAssumption DEF ApplicationRows, Positive
  <2>2. NoCaps \in CapRows /\ \A c \in DOMAIN NoCaps : 0 <= NoCaps[c]
    BY DEF NoCaps, CapRows
  <2>3. application' = [application EXCEPT ![v] = InStatus(application[v], "REJECTED")]
    BY <1>3 DEF Refuse, InStatus, CInv, CreditTypeOK
  <2>4. decision' = [decision EXCEPT ![v] = row]
    BY <1>3 DEF Refuse
  <2>5. row \in DecisionRows /\ row.limit = 0 /\ row.caps = NoCaps
    BY <2>2 DEF DecisionRows
  <2> HIDE DEF row
  <2>6. DecidedAs(v, "REJECTED", row, review[v])
    BY <1>1, <1>2, <2>1, <2>2, <2>3, <2>4, <2>5 DEF DecidedAs
  <2>7. QED
    BY <2>6
<1>4. CASE application[v].task \notin evidence \/ ~Admitted(v)
  BY <1>3, <1>4 DEF Evaluate
<1>5. CASE application[v].task \in evidence /\ Admitted(v)
  <2> DEFINE i == Request(v, analysis)
             verdict == Decide(i)
             row == [decision |-> verdict.decision, limit |-> verdict.limit, caps |-> Caps(i)]
  <2>1. /\ application' = [application EXCEPT ![v].status = verdict.decision]
        /\ decision' = [decision EXCEPT ![v] = row]
    BY <1>5 DEF Evaluate
  <2>2. /\ Applied(i) /\ i.requested = application[v].requested
        /\ i.mandate => mandate[application[v].task] # NoMandate
        /\ ~i.history.first => VaultsOfAgent(application[v].agent) # {}
    BY <1>1, RequestFacts DEF CInv
  <2> HIDE DEF i
  <2>3. verdict.decision = "APPROVED" => i.mandate /\ ~i.history.first
    BY ApprovedUnseen
  <2>4. /\ verdict.decision \in {"APPROVED", "HUMAN_REVIEW_REQUIRED", "REJECTED"}
        /\ verdict.limit \in {0, Limit(i)}
    BY DEF Decide
  <2>5. Caps(i) \in CapRows /\ Limit(i) \in Nat /\ Limit(i) <= i.requested
        /\ \A c \in DOMAIN Caps(i) : Limit(i) <= Caps(i)[c]
    BY <2>2, CapsType, LimitIsSmallest
  <2>6. /\ verdict.limit \in Nat /\ verdict.limit <= application[v].requested
        /\ \A c \in DOMAIN Caps(i) : verdict.limit <= Caps(i)[c]
    <3>1. DOMAIN Caps(i) = {"requested", "exposure", "revenue", "cost", "authority"}
      BY DEF Caps
    <3>2. \A c \in DOMAIN Caps(i) : Caps(i)[c] \in Nat
      BY <2>5, <3>1 DEF CapRows
    <3>3. QED
      BY <2>2, <2>4, <2>5, <3>2 DEF Applied
  <2> HIDE DEF verdict
  <2>7. row \in DecisionRows /\ row.decision = verdict.decision /\ row.limit = verdict.limit
        /\ row.caps = Caps(i)
    BY <2>4, <2>5, <2>6 DEF DecisionRows
  <2>8. application' = [application EXCEPT ![v] = InStatus(application[v], verdict.decision)]
    BY <2>1 DEF InStatus, CInv, CreditTypeOK
  <2> HIDE DEF row
  <2>9. DecidedAs(v, verdict.decision, row, review[v])
    BY <1>1, <1>2, <1>5, <2>1, <2>2, <2>3, <2>4, <2>6, <2>7, <2>8 DEF DecidedAs
  <2>10. QED
    BY <2>9
<1>6. QED
  BY <1>4, <1>5

\* review_application grants nothing beyond the decided limit.
LEMMA ReviewDecides ==
  ASSUME CInv, NEW v \in Vaults, NEW action \in Reviews, NEW amount \in Reductions,
         Review(v, action, amount)
  PROVE  \E s, row, seen :
           DecidedAs(v, s, row, seen) /\ row.limit <= decision[v].limit
             /\ row.caps = decision[v].caps
<1>1. /\ application[v].status = "HUMAN_REVIEW_REQUIRED"
      /\ decision[v] \in DecisionRows
      /\ decision[v].limit <= application[v].requested
      /\ \A c \in DOMAIN decision[v].caps : decision[v].limit <= decision[v].caps[c]
      /\ UNCHANGED <<vars, evidence, authority, blocked, locked>>
  BY DEF Review, CInv, CreditTypeOK, DecisionFits, WithinEveryCap
<1>2. application[v] \in ApplicationRows /\ application[v].requested \in Nat
  BY <1>1, RowOfApplication, RequestsAssumption DEF CInv, ApplicationRows, Positive
<1>3. CASE action = "REJECT"
  <2>1. application' = [application EXCEPT ![v] = InStatus(application[v], "REJECTED")]
    BY <1>3 DEF Review, InStatus, CInv, CreditTypeOK
  <2>2. decision' = [decision EXCEPT ![v] = decision[v]]
    BY <1>3 DEF Review, CInv, CreditTypeOK
  <2>3. decision[v].limit <= decision[v].limit
    BY <1>1 DEF DecisionRows
  <2>4. DecidedAs(v, "REJECTED", decision[v], 0)
    BY <1>1, <1>3, <2>1, <2>2 DEF DecidedAs, Review
  <2>5. QED
    BY <2>3, <2>4
<1>4. CASE action # "REJECT"
  <2> DEFINE g == Grant(v, action, amount)
             row == [decision[v] EXCEPT !.decision = "APPROVED", !.limit = g]
  <2>1. g \in Nat \ {0} /\ g <= decision[v].limit
    BY <1>1, <1>4, RequestsAssumption DEF Review, Grant, DecisionRows
  <2>2. application' = [application EXCEPT ![v] = InStatus(application[v], "APPROVED")]
    BY <1>4 DEF Review, InStatus, CInv, CreditTypeOK
  <2>3. decision' = [decision EXCEPT ![v] = row]
    BY <1>4 DEF Review, CInv, CreditTypeOK
  <2>4. review' = [review EXCEPT ![v] = g]
    BY <1>4 DEF Review
  <2> HIDE DEF g
  <2>5. /\ row \in DecisionRows /\ row.decision = "APPROVED" /\ row.limit = g
        /\ row.caps = decision[v].caps
    BY <1>1, <2>1 DEF DecisionRows
  <2> HIDE DEF row
  <2>6. /\ \A c \in DOMAIN row.caps : row.limit <= row.caps[c]
        /\ row.limit <= application[v].requested
    <3>1. \A c \in DOMAIN decision[v].caps : decision[v].caps[c] \in Nat
      BY <1>1 DEF DecisionRows, CapRows
    <3>2. decision[v].limit \in Nat
      BY <1>1 DEF DecisionRows
    <3>3. QED
      BY <1>1, <1>2, <2>1, <2>5, <3>1, <3>2
  <2>7. g # NoReview
    BY <2>1 DEF NoReview
  <2>8. DecidedAs(v, "APPROVED", row, g)
    BY <1>1, <2>1, <2>2, <2>3, <2>4, <2>5, <2>6, <2>7 DEF DecidedAs
  <2>9. QED
    BY <2>1, <2>5, <2>8
<1>5. QED
  BY <1>3, <1>4

\* A new draft has no decision and no vault.
LEMMA DraftKeeps ==
  ASSUME CInv, NEW v \in Vaults, NEW row \in Drafts, CreateApplication(v, row)
  PROVE  CInv'
<1>1. /\ application[v].status = "NONE"
      /\ row \in ApplicationRows /\ row.status = "DRAFT"
      /\ application' = [application EXCEPT ![v] = row]
      /\ UNCHANGED <<vault, mandate, evidence, authority, blocked, locked, decision, review>>
  BY DEF CreateApplication, NoApplication, Drafts, vars
<1>2. decision[v] = NoDecision /\ ~Exists(v)
  BY <1>1 DEF CInv, CreditTypeOK, VaultsStandOnApprovals
<1>3. CreditTypeOK'
  BY <1>1, <1>2 DEF CInv, CreditTypeOK
<1>4. /\ application'[v] = row
      /\ \A w \in Vaults : w # v => application'[w] = application[w]
  BY <1>1 DEF CInv, CreditTypeOK
<1>5. \A w \in Vaults : Exists(w)' <=> Exists(w)
  BY <1>1 DEF Exists
<1>6. \A a : VaultsOfAgent(a)' = VaultsOfAgent(a)
  BY <1>1, <1>5 DEF VaultsOfAgent
<1>7. DecisionFits' /\ WithinEveryCap'
  BY <1>1, <1>2, <1>4 DEF CInv, DecisionFits, WithinEveryCap, ApprovedStatuses
<1>8. VaultsStandOnApprovals'
  BY <1>1, <1>2, <1>4, <1>5 DEF CInv, VaultsStandOnApprovals
<1>9. Vetted' /\ UnreviewedIsSecured'
  BY <1>1, <1>4, <1>6 DEF CInv, Vetted, UnreviewedIsSecured, ApprovedStatuses
<1>10. QED
  BY <1>3, <1>7, <1>8, <1>9 DEF CInv

(***************************************************************************)
(* create_vault of an approved application: the one handler both tables    *)
(* share.                                                                  *)
(***************************************************************************)
Financed(v, row) ==
  /\ ~Exists(v) /\ application[v] \in ApplicationRows /\ application[v].status = "APPROVED"
  /\ row.status = "ACTIVE" /\ row.total = decision[v].limit
  /\ row.agent = application[v].agent /\ row.task = application[v].task
  /\ row.allowed = application[v].vendors
  /\ vault' = [vault EXCEPT ![v] = row]
  /\ application' = [application EXCEPT ![v] =
       InStatus(application[v], "DISBURSEMENT_ENABLED")]
  /\ locked' \subseteq Tasks
  /\ UNCHANGED <<mandate, evidence, authority, blocked, decision, review>>

LEMMA CreateVaultFinances ==
  ASSUME CInv, NEW v \in Vaults, NEW perTxn, CreateVaultOf(v, perTxn)
  PROVE  \E row : Financed(v, row)
<1> DEFINE app == application[v]
           row == NewRow(app.agent, app.task, decision[v].limit, perTxn, app.vendors,
                         now + app.duration)
<1>1. app.status = "APPROVED" /\ app \in ApplicationRows
  BY RowOfApplication DEF CreateVaultOf, Approved, CInv
<1>2. CreateVault(v, app.agent, app.task, decision[v].limit, perTxn, app.vendors, app.duration)
  BY DEF CreateVaultOf
<1>3. ~Exists(v) /\ vault' = [vault EXCEPT ![v] = row] /\ UNCHANGED mandate
  BY <1>2 DEF CreateVault
<1>4. /\ row.status = "ACTIVE" /\ row.total = decision[v].limit
      /\ row.agent = app.agent /\ row.task = app.task /\ row.allowed = app.vendors
  BY DEF NewRow
<1>5. application' = [application EXCEPT ![v] = InStatus(app, "DISBURSEMENT_ENABLED")]
  BY DEF CreateVaultOf, InStatus, CInv, CreditTypeOK
<1>6. /\ locked' \subseteq Tasks
      /\ UNCHANGED <<evidence, authority, blocked, decision, review>>
  BY <1>1 DEF CreateVaultOf, CInv, CreditTypeOK, ApplicationRows
<1> HIDE DEF row
<1>7. Financed(v, row)
  BY <1>1, <1>3, <1>4, <1>5, <1>6 DEF Financed
<1>8. QED
  BY <1>7

LEMMA FinancedKeeps ==
  ASSUME TypeOK, CInv, NEW v \in Vaults, NEW row, Financed(v, row)
  PROVE  CInv'
<1> DEFINE app == InStatus(application[v], "DISBURSEMENT_ENABLED")
<1>1. /\ app \in ApplicationRows /\ app.status = "DISBURSEMENT_ENABLED"
      /\ app.agent = application[v].agent /\ app.task = application[v].task
      /\ app.requested = application[v].requested /\ app.vendors = application[v].vendors
  BY InStatusType DEF Financed, ApplicationStatuses
<1>2. /\ application' = [application EXCEPT ![v] = app]
      /\ vault' = [vault EXCEPT ![v] = row] /\ locked' \subseteq Tasks
      /\ UNCHANGED <<mandate, evidence, authority, blocked, decision, review>>
  BY DEF Financed
<1> HIDE DEF app
<1>3. /\ application[v].status = "APPROVED" /\ ~Exists(v)
      /\ row.status = "ACTIVE" /\ row.total = decision[v].limit
      /\ row.agent = application[v].agent /\ row.task = application[v].task
      /\ row.allowed = application[v].vendors
  BY DEF Financed
<1>4. CreditTypeOK'
  BY <1>1, <1>2, <1>3 DEF CInv, CreditTypeOK
<1>5. /\ application'[v] = app /\ vault'[v] = row
      /\ \A w \in Vaults : w # v =>
           application'[w] = application[w] /\ vault'[w] = vault[w]
  BY <1>2 DEF CInv, CreditTypeOK, TypeOK
<1>6. Exists(v)' /\ \A w \in Vaults : w # v => (Exists(w)' <=> Exists(w))
  BY <1>3, <1>5 DEF Exists
<1>7. DecisionFits' /\ WithinEveryCap'
  BY <1>1, <1>2, <1>3, <1>5 DEF CInv, DecisionFits, WithinEveryCap, ApprovedStatuses
<1>8. VaultsStandOnApprovals'
  <2>1. decision[v].decision = "APPROVED"
    BY <1>3 DEF CInv, DecisionFits, ApprovedStatuses
  <2>2. QED
    BY <1>1, <1>2, <1>3, <1>5, <1>6, <2>1 DEF CInv, VaultsStandOnApprovals
<1>9. \A a : VaultsOfAgent(a) \subseteq VaultsOfAgent(a)'
  BY <1>3, <1>5, <1>6 DEF VaultsOfAgent
<1>10. \A w \in Vaults :
         /\ application'[w].status \in ApprovedStatuses =>
              application[w].status \in ApprovedStatuses
         /\ application'[w].agent = application[w].agent
         /\ application'[w].task = application[w].task
  BY <1>1, <1>3, <1>5 DEF ApprovedStatuses
<1>11. ASSUME NEW w \in Vaults, application'[w].status \in ApprovedStatuses,
              review'[w] = NoReview
       PROVE  /\ \E u \in VaultsOfAgent(application[w].agent)' : review'[u] # NoReview
              /\ application'[w].task \in evidence'
              /\ mandate'[application'[w].task] # NoMandate
              /\ \E u \in VaultsOfAgent(application[w].agent)' : u # w
  <2>1. /\ application[w].status \in ApprovedStatuses /\ review[w] = NoReview
        /\ application'[w].agent = application[w].agent
        /\ application'[w].task = application[w].task
    BY <1>2, <1>10, <1>11
  <2>2. PICK u \in VaultsOfAgent(application[w].agent) : review[u] # NoReview
    BY <2>1 DEF CInv, Vetted
  <2>3. /\ application[w].task \in evidence /\ mandate[application[w].task] # NoMandate
        /\ \E x \in VaultsOfAgent(application[w].agent) : x # w
    BY <2>1 DEF CInv, UnreviewedIsSecured
  <2>4. QED
    BY <1>2, <1>9, <2>1, <2>2, <2>3
<1>12. Vetted' /\ UnreviewedIsSecured'
  BY <1>11 DEF Vetted, UnreviewedIsSecured
<1>13. QED
  BY <1>4, <1>7, <1>8, <1>12 DEF CInv
-----------------------------------------------------------------------------
(***************************************************************************)
(* Every step of the composed system is a step of VaultOps or leaves the   *)
(* tables of VaultOps alone.                                               *)
(***************************************************************************)
LEMMA StepImplements ==
  ASSUME TypeOK, CInv, [CreditNext]_allVars
  PROVE  [Next]_vars
<1>1. CASE UNCHANGED allVars
  BY <1>1 DEF allVars
<1>2. CASE OtherStep
  BY <1>2 DEF OtherStep, Next, AgentStep, VaultStep
<1>3. ASSUME NEW task \in Tasks, AddEvidence(task) PROVE [Next]_vars
  BY <1>3 DEF AddEvidence
<1>4. ASSUME NEW a \in Agents, NEW ttl \in PassportTtls, NEW amount \in Authorities,
             IssuePassportFor(a, ttl, amount)
      PROVE  [Next]_vars
  BY <1>4 DEF IssuePassportFor, Next, AgentStep
<1>5. ASSUME NEW v \in Vaults, NEW row, CreateApplication(v, row) PROVE [Next]_vars
  BY <1>5 DEF CreateApplication
<1>6. ASSUME NEW v \in Vaults, NEW analysis, Evaluate(v, analysis) PROVE [Next]_vars
  BY <1>6 DEF Evaluate
<1>7. ASSUME NEW v \in Vaults, NEW action, NEW amount, Review(v, action, amount)
      PROVE  [Next]_vars
  BY <1>7 DEF Review
<1>8. ASSUME NEW v \in Vaults, NEW perTxn \in PerTxnLimits \cup {decision[v].limit},
             CreateVaultOf(v, perTxn)
      PROVE  [Next]_vars
  <2> DEFINE app == application[v]
  <2>1. /\ CreateVault(v, app.agent, app.task, decision[v].limit, perTxn, app.vendors,
                       app.duration)
        /\ decision[v].limit > 0 /\ app.status = "APPROVED"
    BY <1>8 DEF CreateVaultOf, Approved
  <2>2. app \in ApplicationRows
    BY <2>1, RowOfApplication DEF CInv
  <2>3. decision[v] \in DecisionRows /\ decision[v].limit <= app.requested
    BY <2>1 DEF CInv, CreditTypeOK, DecisionFits
  <2>4. decision[v].limit \in Limits
    <3>1. decision[v].limit \in 1 .. app.requested
      BY <2>1, <2>2, <2>3, RequestsAssumption DEF DecisionRows, ApplicationRows, Positive
    <3>2. QED
      BY <2>2, <3>1, RequestsAssumption DEF ApplicationRows
  <2>5. /\ app.agent \in Agents /\ app.task \in Tasks /\ app.vendors \in AllowLists
        /\ app.duration \in Durations
    BY <2>2 DEF ApplicationRows
  <2> HIDE DEF app
  <2>6. VaultStep
    BY <1>8, <2>1, <2>4, <2>5 DEF VaultStep
  <2>7. QED
    BY <2>6 DEF Next
<1>9. ASSUME NEW v \in Vaults, NEW k \in Keys, NEW spend \in Spends, ProposeFor(k, v, spend)
      PROVE  [Next]_vars
  BY <1>9 DEF ProposeFor, Next, VaultStep
<1>10. QED
  BY <1>1, <1>2, <1>3, <1>4, <1>5, <1>6, <1>7, <1>8, <1>9 DEF CreditNext, CreditStep

\* Every step of the composed system keeps the invariant of the credit tables.
LEMMA CInvNext ==
  ASSUME TypeOK, IInv, CInv, [CreditNext]_allVars
  PROVE  CInv'
<1>1. CASE UNCHANGED allVars
  <2>1. Kept
    BY <1>1, KeptAlone DEF allVars, vars
  <2>2. QED
    BY <1>1, <2>1, CreditFrame DEF allVars, creditVars, CInv, CreditTypeOK
<1>2. CASE OtherStep
  <2>1. Kept
    BY <1>2, OthersKeep
  <2>2. UNCHANGED <<evidence, authority, blocked, locked, application, decision, review>>
    BY <1>2 DEF OtherStep, creditVars
  <2>3. QED
    BY <2>1, <2>2, CreditFrame DEF CInv, CreditTypeOK
<1>3. ASSUME NEW task \in Tasks, AddEvidence(task) PROVE CInv'
  <2>1. Kept
    BY <1>3, KeptAlone DEF AddEvidence, vars
  <2>2. QED
    BY <1>3, <2>1, CreditFrame DEF AddEvidence, CInv, CreditTypeOK
<1>4. ASSUME NEW a \in Agents, NEW ttl \in PassportTtls, NEW amount \in Authorities,
             IssuePassportFor(a, ttl, amount)
      PROVE  CInv'
  <2>1. Kept
    BY <1>4, KeptAlone DEF IssuePassportFor, IssuePassport
  <2>2. authority' \in [Agents -> Nat]
    BY <1>4, RequestsAssumption DEF IssuePassportFor, CInv, CreditTypeOK
  <2>3. QED
    BY <1>4, <2>1, <2>2, CreditFrame DEF IssuePassportFor, CInv, CreditTypeOK
<1>5. ASSUME NEW v \in Vaults, NEW row \in Drafts, CreateApplication(v, row) PROVE CInv'
  BY <1>5, DraftKeeps
<1>6. ASSUME NEW v \in Vaults, NEW analysis \in Analyses, Evaluate(v, analysis) PROVE CInv'
  BY <1>6, EvaluateDecides, DecidedKeeps
<1>7. ASSUME NEW v \in Vaults, NEW action \in Reviews, NEW amount \in Reductions,
             Review(v, action, amount)
      PROVE  CInv'
  BY <1>7, ReviewDecides, DecidedKeeps
<1>8. ASSUME NEW v \in Vaults, NEW perTxn, CreateVaultOf(v, perTxn) PROVE CInv'
  BY <1>8, CreateVaultFinances, FinancedKeeps
<1>9. ASSUME NEW v \in Vaults, NEW k \in Keys, NEW spend \in Spends, ProposeFor(k, v, spend)
      PROVE  CInv'
  <2>1. Propose(k, v, spend)
    BY <1>9 DEF ProposeFor
  <2>2. UNCHANGED mandate
    BY <2>1 DEF Propose
  <2>3. Kept
    BY <2>1, <2>2, StaysOnPropose, KeptVault
  <2>4. blocked' \in [Agents -> Nat]
    <3>1. blocked \in [Agents -> Nat] /\ vault[v] \in VaultRows
      BY <2>1, RowOfExistingVault DEF Propose, CInv, CreditTypeOK
    <3>2. PICK a \in Agents : a = vault[v].agent
      BY <3>1 DEF VaultRows
    <3>3. blocked' = blocked \/ blocked' = [blocked EXCEPT ![a] = blocked[a] + 1]
      BY <1>9, <3>2 DEF ProposeFor
    <3>4. QED
      BY <3>1, <3>3
  <2>5. QED
    BY <1>9, <2>3, <2>4, CreditFrame DEF ProposeFor, CInv, CreditTypeOK
<1>10. QED
  BY <1>1, <1>2, <1>3, <1>4, <1>5, <1>6, <1>7, <1>8, <1>9 DEF CreditNext, CreditStep

\* Before any application there is nothing to tie together.
LEMMA CInvInit == CreditInit => CInv
<1> SUFFICES ASSUME CreditInit PROVE CInv
  OBVIOUS
<1>1. \A v \in Vaults : /\ application[v].status = "NONE" /\ decision[v] = NoDecision
                        /\ review[v] = NoReview /\ ~Exists(v)
  BY DEF CreditInit, Init, NoApplication, NoVault, Exists
<1>2. CreditTypeOK
  BY <1>1 DEF CreditInit, CreditTypeOK
<1>3. QED
  BY <1>1, <1>2 DEF CInv, DecisionFits, VaultsStandOnApprovals, WithinEveryCap, Vetted,
                    UnreviewedIsSecured, ApprovedStatuses
-----------------------------------------------------------------------------
(***************************************************************************)
(* The theorems.                                                           *)
(***************************************************************************)
\* The inductive invariant of the whole system: that of the vaults, kept
\* because every step of the composition is one of theirs, and CInv.
THEOREM CreditInvariant == CreditSpec => [](TypeOK /\ IInv /\ CInv)
<1>1. CreditInit => TypeOK /\ IInv /\ CInv
  BY InvInit, CInvInit DEF CreditInit
<1>2. TypeOK /\ IInv /\ CInv /\ [CreditNext]_allVars => (TypeOK /\ IInv /\ CInv)'
  BY StepImplements, TypeNext, InvNext, CInvNext
<1>3. QED
  BY <1>1, <1>2, PTL DEF CreditSpec

\* The system with applications implements the specification of the vaults:
\* create_vault finances only what VaultOps allows, whatever was applied for.
THEOREM CreditImplementsVaults == CreditSpec => Spec
<1>1. CreditInit => Init
  BY DEF CreditInit
<1>2. TypeOK /\ CInv /\ [CreditNext]_allVars => [Next]_vars
  BY StepImplements
<1>3. QED
  BY <1>1, <1>2, CreditInvariant, PTL DEF CreditSpec, Spec

\* Vaults that stand on decided applications keep what any vaults keep: their
\* journal, payments, receipts and limits agree, the owner is paid last, losses
\* are bounded, and a revoked agent's vaults pay nothing more.
THEOREM FinancedVaultsReconcile ==
  CreditSpec =>
    /\ [](/\ LedgerReconciles /\ PaymentsReconcile /\ ReceiptsReconcile /\ PaceHolds
          /\ OwnerPaidLast /\ LossIsBounded /\ StatusTellsDebt)
    /\ RevocationIsFinal /\ NoReopening /\ LossAfterReserve
BY CreditImplementsVaults, LedgerAgreesWithColumns, PaymentsAlwaysReconcile,
   ReceiptsAlwaysReconcile, PaceAlwaysHolds, OwnerIsPaidLast, LossStaysBounded,
   StatusAlwaysTellsDebt, RevocationStaysFinal, NoVaultReopens, ReserveBeforeLoss, PTL

\* The rows of credit.py keep the columns their tables declare.
THEOREM CreditTypeCorrect == CreditSpec => []CreditTypeOK
  BY CreditInvariant, PTL DEF CInv

\* A vault exists exactly for an application that was approved and financed,
\* with the decided limit and the agent, task and vendors applied for.
THEOREM VaultsAreApproved == CreditSpec => []VaultsStandOnApprovals
  BY CreditInvariant, PTL DEF CInv

\* No limit ever exceeds a cap in force when it was decided.
THEOREM LimitsWithinCaps == CreditSpec => []WithinEveryCap
  BY CreditInvariant, PTL DEF CInv

\* The first credit of every agent was reviewed by a person.
THEOREM FirstCreditIsReviewed == CreditSpec => []FirstCreditReviewed
<1>1. CInv => FirstCreditReviewed
  BY ReviewedFirst
<1>2. QED
  BY <1>1, CreditInvariant, PTL

\* What no person reviewed has evidence, a mandate and an earlier vault.
THEOREM UnreviewedAreSecured == CreditSpec => []UnreviewedIsSecured
  BY CreditInvariant, PTL DEF CInv

\* A limit never grows, a rejection is final and a review is not repeated.
THEOREM DecisionsAreFinal == CreditSpec => DecisionsStand
<1>1. ASSUME TypeOK, CInv, [CreditNext]_allVars, NEW v \in Vaults, decision[v] # NoDecision
      PROVE  /\ decision'[v].limit <= decision[v].limit
             /\ decision'[v].caps = decision[v].caps
             /\ application[v].status = "REJECTED" => application'[v] = application[v]
             /\ review[v] # NoReview => review'[v] = review[v]
  <2>1. decision[v] \in DecisionRows /\ decision[v].limit <= decision[v].limit
    BY <1>1 DEF CInv, CreditTypeOK, DecisionRows
  <2>2. CASE UNCHANGED <<application, decision, review>>
    BY <2>1, <2>2
  <2>3. ASSUME NEW w \in Vaults, NEW row, CreateApplication(w, row)
        PROVE  application'[v] = application[v] /\ UNCHANGED <<decision, review>>
    BY <1>1, <2>3 DEF CreateApplication, NoApplication, CInv, CreditTypeOK
  <2>4. ASSUME NEW w \in Vaults, NEW perTxn, CreateVaultOf(w, perTxn)
        PROVE  /\ application[v].status = "REJECTED" => application'[v] = application[v]
               /\ UNCHANGED <<decision, review>>
    BY <1>1, <2>4 DEF CreateVaultOf, Approved, CInv, CreditTypeOK
  <2>5. ASSUME NEW w \in Vaults, NEW analysis, Evaluate(w, analysis)
        PROVE  /\ application'[v] = application[v] /\ decision'[v] = decision[v]
               /\ UNCHANGED review
    <3>1. PICK s, row : DecidedAs(w, s, row, review[w])
      BY <1>1, <2>5, EvaluateDecides
    <3>2. w # v
      BY <1>1, <2>5 DEF Evaluate, CInv, CreditTypeOK
    <3>3. UNCHANGED review
      BY <2>5 DEF Evaluate
    <3>4. QED
      BY <1>1, <3>1, <3>2, <3>3 DEF DecidedAs, CInv, CreditTypeOK
  <2>6. ASSUME NEW w \in Vaults, NEW action \in Reviews, NEW amount \in Reductions,
               Review(w, action, amount)
        PROVE  /\ decision'[v].limit <= decision[v].limit
               /\ decision'[v].caps = decision[v].caps
               /\ application[v].status = "REJECTED" => application'[v] = application[v]
               /\ review[v] # NoReview => review'[v] = review[v]
    <3>1. PICK s, row, seen :
            DecidedAs(w, s, row, seen) /\ row.limit <= decision[w].limit
              /\ row.caps = decision[w].caps
      BY <1>1, <2>6, ReviewDecides
    <3>2. /\ application[w].status = "HUMAN_REVIEW_REQUIRED" /\ review[w] = NoReview
      BY <1>1, <2>6 DEF Review, CInv, DecisionFits, ApprovedStatuses
    <3>3. CASE w = v
      BY <1>1, <3>1, <3>2, <3>3 DEF DecidedAs, CInv, CreditTypeOK
    <3>4. CASE w # v
      BY <1>1, <2>1, <3>1, <3>4 DEF DecidedAs, CInv, CreditTypeOK
    <3>5. QED
      BY <3>3, <3>4
  <2>7. UNCHANGED allVars \/ OtherStep => UNCHANGED <<application, decision, review>>
    BY DEF allVars, creditVars, OtherStep
  <2>8. /\ \A task : AddEvidence(task) => UNCHANGED <<application, decision, review>>
        /\ \A a, ttl, amount : IssuePassportFor(a, ttl, amount) =>
             UNCHANGED <<application, decision, review>>
        /\ \A k, w, spend : ProposeFor(k, w, spend) =>
             UNCHANGED <<application, decision, review>>
    BY DEF AddEvidence, IssuePassportFor, ProposeFor
  <2>9. QED
    BY <1>1, <2>1, <2>2, <2>3, <2>4, <2>5, <2>6, <2>7, <2>8 DEF CreditNext, CreditStep
<1>2. TypeOK /\ CInv /\ [CreditNext]_allVars =>
        [\A v \in Vaults : decision[v] # NoDecision =>
           /\ decision'[v].limit <= decision[v].limit
           /\ decision'[v].caps = decision[v].caps
           /\ application[v].status = "REJECTED" => application'[v] = application[v]
           /\ review[v] # NoReview => review'[v] = review[v]]_allVars
  BY <1>1
<1>3. QED
  BY <1>2, CreditInvariant, PTL DEF CreditSpec, DecisionsStand
=============================================================================
