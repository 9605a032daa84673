-------------------------- MODULE CreditApplication --------------------------
(***************************************************************************)
(* Credit applications (credence/services/credit.py) composed with the     *)
(* vaults they lead to (VaultOps).  An application is drafted, evaluated   *)
(* once by the deterministic engine, reviewed by a person when the engine  *)
(* asks for it, and financed by one vault, whose history the evaluation of *)
(* the agent's next application reads.                                     *)
(*                                                                         *)
(* The rows of credit_vaults have a unique application_id: an application  *)
(* and its vault share their name.  An action of VaultOps appears here     *)
(* with the tables of this module unchanged; vaults are created only by    *)
(* CreateVaultOf.                                                          *)
(***************************************************************************)
EXTENDS VaultOps

CONSTANTS Requests,       \* amounts an application may request
          ExpectedRevenues,
          ExpectedCosts,
          ExposureCaps,   \* exposures an owner allows
          Authorities,    \* borrowing authorities an owner may sign in a passport
          Reductions,     \* amounts a reviewer may reduce to
          AgeAtStart      \* agent -> days since its registration, at time 0

ASSUME RequestsAssumption ==
  /\ Positive(Requests)
  /\ \A r \in Requests : 1 .. r \subseteq Limits
  /\ ExpectedRevenues \subseteq Nat /\ ExpectedCosts \subseteq Nat
  /\ ExposureCaps \subseteq Nat /\ Authorities \subseteq Nat /\ Reductions \subseteq Int
  /\ AgeAtStart \in [Agents -> Nat]

VARIABLES evidence,     \* tasks with at least one piece of evidence
          authority,    \* borrowing authority of each agent's latest passport
          blocked,      \* SPEND_BLOCKED events of each agent
          locked,       \* tasks whose mandate is locked
          application,  \* credit_applications
          decision,     \* credit_decisions
          review        \* human_reviews: what the reviewer granted

creditVars == <<evidence, authority, blocked, locked, application, decision, review>>
allVars == <<vars, creditVars>>

NoApplication == [status |-> "NONE"]
NoDecision    == [decision |-> "NONE", limit |-> 0]
NoReview      == -1

\* what the model analyst contributed: nothing, a flag the evidence confirms or
\* does not confirm, or no answer at all
Analyses == {"clean", "injection", "uncorroborated", "unavailable"}

Reviews == {"APPROVE", "REDUCE", "REJECT"}

\* a refusal before the decision engine records no caps
NoCaps == [requested |-> 0, exposure |-> 0, revenue |-> 0, cost |-> 0, authority |-> 0]
-----------------------------------------------------------------------------
(***************************************************************************)
(* compute_features: the history of an agent, from its vaults.             *)
(***************************************************************************)
VaultsOfAgent(a) == {v \in Vaults : Exists(v) /\ vault[v].agent = a}

WithStatus(a, statuses) == {v \in VaultsOfAgent(a) : vault[v].status \in statuses}

RepaymentsOf(a) == UNION {{v} \X DOMAIN repayments[v] : v \in VaultsOfAgent(a)}

RepaidInFull(a) ==
  Cardinality({r \in RepaymentsOf(a) :
                 LET row == repayments[r[1]][r[2]] IN row.kind = "WATERFALL" /\ row.loss = 0})

\* mutated form: the first application, not the first vault, is the first credit
IsFirstDecision(a) ==
  \A v \in Vaults : application[v].status \notin {"NONE", "DRAFT"} => application[v].agent # a

IsFirstCredit(a) == VaultsOfAgent(a) = {}

History(a) ==
  [ended          |-> Cardinality(WithStatus(a, {"REPAID", "PARTIALLY_REPAID", "DEFAULTED", "CLOSED"})),
   succeeded      |-> Cardinality(WithStatus(a, {"REPAID", "CLOSED"})),
   repayments     |-> Cardinality(RepaymentsOf(a)),
   repaid_in_full |-> RepaidInFull(a),
   defaulted      |-> MapThenSumSet(LAMBDA v : SumOf(v, LAMBDA r : r.loss), VaultsOfAgent(a)),
   blocked        |-> blocked[a],
   age_days       |-> AgeAtStart[a] + now \div DayLength,
   first          |-> IsFirstCredit(a)]

Outstanding(a) ==
  MapThenSumSet(LAMBDA v : vault[v].principal,
                VaultsOfAgent(a) \ WithStatus(a, {"REPAID", "CLOSED", "DEFAULTED"}))

\* mutated form: the mandate is not looked up
MandateAssumed(task) == TRUE

MandateValid(task) == mandate[task] # NoMandate

Request(v, analysis) ==
  LET app == application[v]
  IN  [requested    |-> app.requested,
       exposure_cap |-> app.exposure_cap,
       outstanding  |-> Outstanding(app.agent),
       revenue      |-> app.revenue,
       cost         |-> app.cost,
       authority    |-> authority[app.agent],
       history      |-> History(app.agent),
       mandate      |-> MandateValid(app.task),
       analysis     |-> analysis]
-----------------------------------------------------------------------------
CreditInit ==
  /\ Init
  /\ evidence = {}
  /\ authority = [a \in Agents |-> 0]
  /\ blocked = [a \in Agents |-> 0]
  /\ locked = {}
  /\ application = [v \in Vaults |-> NoApplication]
  /\ decision = [v \in Vaults |-> NoDecision]
  /\ review = [v \in Vaults |-> NoReview]

AddEvidence(task) ==
  /\ evidence' = evidence \cup {task}
  /\ UNCHANGED <<vars, authority, blocked, locked, application, decision, review>>

\* issue_passport signs the borrowing authority with the validity
IssuePassportFor(a, ttl, amount) ==
  /\ IssuePassport(a, ttl)
  /\ authority' = [authority EXCEPT ![a] = amount]
  /\ UNCHANGED <<evidence, blocked, locked, application, decision, review>>

CreateApplication(v, row) ==
  /\ application[v] = NoApplication
  /\ application' = [application EXCEPT ![v] = row]
  /\ UNCHANGED <<vars, evidence, authority, blocked, locked, decision, review>>

\* the application moves through each status of the list in turn
Passes(path) == \A i \in 1 .. Len(path) - 1 : ApplicationMove(path[i], path[i + 1])

\* mutated form: the evaluation does not look at the status of the application
EvaluateAgain(v, analysis) ==
  LET app == application[v]
  IN  /\ app.status \notin {"NONE", "DISBURSEMENT_ENABLED"}
      /\ LET verdict == Decide(Request(v, analysis))
         IN  /\ application' = [application EXCEPT ![v].status = verdict.decision]
             /\ decision' = [decision EXCEPT ![v] =
                  [decision |-> verdict.decision, limit |-> verdict.limit,
                   caps |-> Caps(Request(v, analysis))]]
      /\ UNCHANGED <<vars, evidence, authority, blocked, locked, review>>

Admitted(v) ==
  /\ PassportValid(application[v].agent)
  /\ agent[application[v].agent].status = "ACTIVE"

\* mutated form: the refusal does not store its decision
RefuseWithoutDecision(v, path) ==
  /\ Passes(path)
  /\ application' = [application EXCEPT ![v].status = "REJECTED"]
  /\ UNCHANGED decision

Refuse(v, path) ==
  /\ Passes(path)
  /\ application' = [application EXCEPT ![v].status = "REJECTED"]
  /\ decision' = [decision EXCEPT ![v] =
       [decision |-> "REJECTED", limit |-> 0, caps |-> NoCaps]]

\* evaluate_application of a draft (one evaluated before is answered from its
\* decision row).  The intermediate statuses are set in one transaction.
Evaluate(v, analysis) ==
  /\ application[v].status = "DRAFT"
  /\ \/ /\ ~Admitted(v)
        /\ Refuse(v, <<"DRAFT", "REJECTED">>)
     \/ /\ Admitted(v)
        /\ application[v].task \notin evidence
        /\ Refuse(v, <<"DRAFT", "IDENTITY_VERIFIED", "REJECTED">>)
     \/ /\ Admitted(v)
        /\ application[v].task \in evidence
        /\ LET verdict == Decide(Request(v, analysis))
           IN  /\ Passes(<<"DRAFT", "IDENTITY_VERIFIED", "EVIDENCE_READY", "UNDERWRITING",
                           "POLICY_EVALUATED", verdict.decision>>)
               /\ application' = [application EXCEPT ![v].status = verdict.decision]
               /\ decision' = [decision EXCEPT ![v] =
                    [decision |-> verdict.decision, limit |-> verdict.limit,
                     caps |-> Caps(Request(v, analysis))]]
  /\ UNCHANGED <<vars, evidence, authority, blocked, locked, review>>

\* mutated form: a reduction is compared to the request, not to the caps
GrantWithinRequest(v, action, amount) ==
  IF action = "APPROVE" THEN decision[v].limit
  ELSE IF amount \in 1 .. application[v].requested THEN amount ELSE 0

\* what a review that does not reject grants; 0 when it is out of range
Grant(v, action, amount) ==
  IF action = "APPROVE" THEN decision[v].limit
  ELSE IF amount \in 1 .. decision[v].limit THEN amount ELSE 0

\* review_application: a rejection leaves the decision row as it was
Review(v, action, amount) ==
  /\ application[v].status = "HUMAN_REVIEW_REQUIRED"
  /\ IF action = "REJECT"
       THEN /\ ApplicationMove("HUMAN_REVIEW_REQUIRED", "REJECTED")
            /\ application' = [application EXCEPT ![v].status = "REJECTED"]
            /\ review' = [review EXCEPT ![v] = 0]
            /\ UNCHANGED decision
       ELSE /\ Grant(v, action, amount) > 0
            /\ ApplicationMove("HUMAN_REVIEW_REQUIRED", "APPROVED")
            /\ application' = [application EXCEPT ![v].status = "APPROVED"]
            /\ decision' = [decision EXCEPT ![v].decision = "APPROVED",
                                            ![v].limit = Grant(v, action, amount)]
            /\ review' = [review EXCEPT ![v] = Grant(v, action, amount)]
  /\ UNCHANGED <<vars, evidence, authority, blocked, locked>>

\* mutated form: a vault stands on the decision row alone
ApprovedByRow(v) == decision[v].decision # "REJECTED"

Approved(v) == application[v].status = "APPROVED"

\* mutated form: the requested hours are taken for days
CreateVaultOfInDays(v, perTxn) ==
  LET app == application[v]
  IN  /\ Approved(v)
      /\ CreateVault(v, app.agent, app.task, decision[v].limit, perTxn, app.vendors,
                     app.duration * DayLength)
      /\ application' = [application EXCEPT ![v].status = "DISBURSEMENT_ENABLED"]
      /\ UNCHANGED <<evidence, authority, blocked, locked, decision, review>>

\* create_vault: the vault, its disbursement, the lock of the task's mandate and
\* the application's last two moves, in one transaction
CreateVaultOf(v, perTxn) ==
  LET app == application[v]
  IN  /\ Approved(v)
      /\ decision[v].limit > 0
      /\ CreateVault(v, app.agent, app.task, decision[v].limit, perTxn, app.vendors,
                     app.duration)
      /\ Passes(<<"APPROVED", "VAULT_CREATED", "DISBURSEMENT_ENABLED">>)
      /\ application' = [application EXCEPT ![v].status = "DISBURSEMENT_ENABLED"]
      /\ locked' = IF mandate[app.task] = NoMandate THEN locked ELSE locked \cup {app.task}
      /\ UNCHANGED <<evidence, authority, blocked, decision, review>>

\* propose_transaction records each denial as a SPEND_BLOCKED event of the agent
ProposeFor(k, v, spend) ==
  /\ Propose(k, v, spend)
  /\ blocked' = IF proposal'[k] = Denied
                  THEN [blocked EXCEPT ![vault[v].agent] = @ + 1] ELSE blocked
  /\ UNCHANGED <<evidence, authority, locked, application, decision, review>>
-----------------------------------------------------------------------------
ApplicationRows ==
  [status : ApplicationStatuses, agent : Agents, task : Tasks, requested : Requests,
   revenue : ExpectedRevenues, cost : ExpectedCosts, exposure_cap : ExposureCaps,
   vendors : AllowLists, duration : Durations]

Drafts == {row \in ApplicationRows : row.status = "DRAFT"}

CreditStep ==
  \/ \E task \in Tasks : AddEvidence(task)
  \/ \E a \in Agents, ttl \in PassportTtls, amount \in Authorities :
       IssuePassportFor(a, ttl, amount)
  \/ \E v \in Vaults :
       \/ \E row \in Drafts : CreateApplication(v, row)
       \/ \E analysis \in Analyses : Evaluate(v, analysis)
       \/ \E action \in Reviews, amount \in Reductions : Review(v, action, amount)
       \/ \E perTxn \in PerTxnLimits \cup {decision[v].limit} : CreateVaultOf(v, perTxn)
       \/ \E k \in Keys, spend \in Spends : ProposeFor(k, v, spend)

\* the handlers that touch no table of this module
OtherStep ==
  /\ \/ Tick
     \/ \E a \in Agents : FreezeAgent(a) \/ UnfreezeAgent(a) \/ RevokeAgent(a)
     \/ \E task \in Tasks, cap \in ReserveCaps : CreateMandate(task, cap)
     \/ \E k \in Keys : Execute(k)
     \/ \E v \in Vaults :
          \/ FreezeVault(v)
          \/ \E e \in Events, amount \in RevenueAmounts, currency \in Currencies,
                completed \in BOOLEAN : ReceiveRevenue(v, e, amount, currency, completed)
          \/ SimulateFailure(v)
          \/ CloseVault(v)
  /\ UNCHANGED creditVars

CreditNext == CreditStep \/ OtherStep

CreditSpec == CreditInit /\ [][CreditNext]_allVars
-----------------------------------------------------------------------------
(***************************************************************************)
(* Properties.                                                             *)
(***************************************************************************)
\* an application that may have, or has, a vault
ApprovedStatuses == {"APPROVED", "DISBURSEMENT_ENABLED"}

CapRows == [requested : Nat, exposure : Nat, revenue : Nat, cost : Nat, authority : Nat]

DecisionRows ==
  [decision : {"APPROVED", "HUMAN_REVIEW_REQUIRED", "REJECTED"}, limit : Nat, caps : CapRows]

\* Every row of credit.py has the columns its table declares (finance_models.py),
\* and a decision exists exactly for an application that has left DRAFT.
CreditTypeOK ==
  /\ evidence \subseteq Tasks /\ locked \subseteq Tasks
  /\ authority \in [Agents -> Nat] /\ blocked \in [Agents -> Nat]
  /\ application \in [Vaults -> ApplicationRows \cup {NoApplication}]
  /\ decision \in [Vaults -> DecisionRows \cup {NoDecision}]
  /\ review \in [Vaults -> Nat \cup {NoReview}]
  /\ \A v \in Vaults :
       decision[v] # NoDecision <=> application[v].status \notin {"NONE", "DRAFT"}

\* A vault exists exactly for an application that was approved and then
\* financed, with the decided limit and the agent, task and vendors applied for;
\* a rejection leaves a decision row with a limit behind, and no vault may ever
\* stand on it (credit.py review_application, vault_ops.py create_vault).
VaultsStandOnApprovals ==
  \A v \in Vaults :
    /\ Exists(v) <=> application[v].status = "DISBURSEMENT_ENABLED"
    /\ Exists(v) =>
         /\ decision[v].decision = "APPROVED"
         /\ vault[v].total = decision[v].limit
         /\ vault[v].agent = application[v].agent
         /\ vault[v].task = application[v].task
         /\ vault[v].allowed = application[v].vendors

\* No limit exceeds any of the five caps in force when it was decided, whatever
\* a reviewer granted afterwards (decision.py "approved_limit = min(...)",
\* review_application "never increase beyond the deterministic caps").
WithinEveryCap ==
  \A v \in Vaults : decision[v] # NoDecision =>
    \A c \in DOMAIN decision[v].caps : decision[v].limit <= decision[v].caps[c]

\* A person has seen the first credit of every agent: an agent with a vault has
\* one that was reviewed, however its applications and evaluations were ordered.
FirstCreditReviewed ==
  \A a \in Agents : VaultsOfAgent(a) # {} =>
    \E v \in VaultsOfAgent(a) : review[v] # NoReview

\* What no person has seen is secured: an application approved without a review
\* has evidence and a mandate, and the agent holds another vault.
UnreviewedIsSecured ==
  \A v \in Vaults :
    LET app == application[v]
    IN  app.status \in ApprovedStatuses /\ review[v] = NoReview =>
          /\ app.task \in evidence
          /\ mandate[app.task] # NoMandate
          /\ \E w \in VaultsOfAgent(app.agent) : w # v

\* Decisions stand: a limit never grows once it is decided, a rejection is
\* final, and nobody reviews an application twice.
DecisionsStand ==
  [][\A v \in Vaults : decision[v] # NoDecision =>
       /\ decision'[v].limit <= decision[v].limit
       /\ decision'[v].caps = decision[v].caps
       /\ application[v].status = "REJECTED" => application'[v] = application[v]
       /\ review[v] # NoReview => review'[v] = review[v]]_allVars
-----------------------------------------------------------------------------
(***************************************************************************)
(* The inductive invariant of the credit tables: what ties an approval to  *)
(* its decision row, and what an approval without a review rests on.       *)
(***************************************************************************)
\* a limit fits the request, an approved application has an approving row, and
\* a review has settled the application
DecisionFits ==
  \A v \in Vaults :
    /\ decision[v] # NoDecision => decision[v].limit <= application[v].requested
    /\ application[v].status \in ApprovedStatuses => decision[v].decision = "APPROVED"
    /\ review[v] # NoReview => application[v].status \in ApprovedStatuses \cup {"REJECTED"}

\* an approval without a review follows a reviewed vault of the same agent
Vetted ==
  \A v \in Vaults : application[v].status \in ApprovedStatuses /\ review[v] = NoReview =>
    \E w \in VaultsOfAgent(application[v].agent) : review[w] # NoReview

CInv ==
  /\ CreditTypeOK /\ DecisionFits /\ VaultsStandOnApprovals
  /\ WithinEveryCap /\ Vetted /\ UnreviewedIsSecured
=============================================================================
