----------------------------- MODULE ReadModel -----------------------------
(***************************************************************************)
(* What the pages ask the service (src/credence/api/read_routes.py): the   *)
(* workspaces there can be, with one agent, one application, one vault and *)
(* one attempted payment at most, and the figures the read API computes    *)
(* from them.  The statuses are those of state.py and of the handlers that *)
(* VaultOps and CreditApplication model.                                   *)
(***************************************************************************)
EXTENDS Naturals, Sequences, FiniteSets, SequencesExt, CreditStates

\* In minor units: what an application asks for and what the engine grants.
RequestedMinor == 3
LimitMinor == 2
\* A payment, and what a part payment leaves of the principal.
PaymentMinor == 1

Waterfall == "WATERFALL"
Recovery == "RECOVERY"

\* The repayment rows a vault can have when it ends with a status.
RunsOf(status) ==
  CASE status = "PARTIALLY_REPAID" -> {<<Waterfall>>, <<Waterfall, Waterfall>>}
    [] status = "REPAID" -> {<<Waterfall>>, <<Waterfall, Waterfall>>, <<Recovery>>}
    [] status = "DEFAULTED" -> {<<Recovery>>}
    [] OTHER -> {<<>>}

Unfinished == {"ACTIVE", "SPENDING", "FROZEN", "EXPIRED"}
Finished == {"PARTIALLY_REPAID", "REPAID", "DEFAULTED"}

\* end: the status before CLOSED; left: principal not repaid; limit: what the
\* decision holds; runs: the repayment rows.
NoVault == [status |-> "none", end |-> "none", left |-> 0, runs |-> <<>>]

VaultRows ==
  {[status |-> s, end |-> s, left |-> LimitMinor, runs |-> <<>>] : s \in Unfinished}
  \cup
  UNION {{[status |-> s, end |-> e, left |-> l, runs |-> r] :
            s \in {e, "CLOSED"},
            l \in (IF e = "PARTIALLY_REPAID" THEN {0, 1} ELSE {0}),
            r \in RunsOf(e)} : e \in Finished}

\* The attempted payment: none, approved, refused or paid.  A vault that only
\* waits has not paid, and one that is SPENDING has.
Attempts(vault) ==
  CASE vault.status = "none" -> {"none"}
    [] vault.status = "ACTIVE" -> {"none", "APPROVED", "DENIED"}
    [] vault.status = "SPENDING" -> {"EXECUTED"}
    [] OTHER -> {"none", "APPROVED", "DENIED", "EXECUTED"}

\* The application's status, the limit of its decision, and whether the risk
\* model has scored it: a refusal before the engine is asked, or by it, grants
\* nothing; a reviewer's refusal leaves the limit.
Application(status, limit, scored) == [status |-> status, limit |-> limit, scored |-> scored]

NoApplication == Application("none", 0, FALSE)
Financed == Application("DISBURSEMENT_ENABLED", LimitMinor, TRUE)

OpenApplications ==
  {Application("DRAFT", 0, FALSE), Application("HUMAN_REVIEW_REQUIRED", LimitMinor, TRUE),
   Application("REJECTED", 0, FALSE), Application("REJECTED", 0, TRUE),
   Application("REJECTED", LimitMinor, TRUE), Application("APPROVED", LimitMinor, TRUE)}

\* The model has read the evidence, or could not be asked.
Analyses(application) == IF application.scored THEN {"none", "sound", "unsupported"} ELSE {"none"}

Workspace(agent, passport, application, analysis, vault, attempt, intact, shared) ==
  [agent |-> agent, passport |-> passport, application |-> application.status,
   limit |-> application.limit, scored |-> application.scored, analysis |-> analysis,
   vault |-> vault, attempt |-> attempt, intact |-> intact, shared |-> shared]

\* A workspace whose agent has nothing yet, and whose chain may have been
\* tampered with or hold other workspaces' events.
NewWorkspaces ==
  {Workspace("none", "none", NoApplication, "none", NoVault, "none", i, s) :
     i \in BOOLEAN, s \in BOOLEAN}
  \cup
  {Workspace(a, p, NoApplication, "none", NoVault, "none", i, s) :
     a \in {"ACTIVE", "FROZEN"}, p \in {"none", "valid"}, i \in BOOLEAN, s \in BOOLEAN}

\* Workspaces in which credit has been applied for and not financed.
ApplyingWorkspaces ==
  UNION {{Workspace(agent[1], agent[2], application, analysis, NoVault, "none", TRUE, FALSE) :
            agent \in {<<"ACTIVE", "valid">>, <<"ACTIVE", "invalid">>, <<"FROZEN", "valid">>,
                       <<"REVOKED", "invalid">>},
            analysis \in Analyses(application)} : application \in OpenApplications}

\* Workspaces with a vault.
FundedWorkspaces ==
  UNION {{Workspace(agent, IF agent = "REVOKED" THEN "invalid" ELSE "valid",
                    Financed, "sound", vault, attempt, TRUE, FALSE) :
            agent \in IF vault.status \in {"FROZEN", "CLOSED"} THEN {"ACTIVE", "FROZEN", "REVOKED"}
                      ELSE {"ACTIVE", "FROZEN"},
            attempt \in Attempts(vault)} : vault \in VaultRows}

Workspaces == NewWorkspaces \cup ApplyingWorkspaces \cup FundedWorkspaces

-----------------------------------------------------------------------------
(* Rows and figures, named as the read API names them.                      *)

HasAgent(w) == w.agent # "none"
HasApplication(w) == w.application # "none"
HasVault(w) == w.vault.status # "none"
Decided(w) == HasApplication(w) /\ w.application # "DRAFT"

\* A figure per million, of a denominator that may be zero.
Ppm(part, whole) == IF whole = 0 THEN 0 ELSE (part * 1000000) \div whole

CountIf(condition) == IF condition THEN 1 ELSE 0

TerminalVaultStatuses == {"CLOSED", "REPAID", "DEFAULTED", "EXPIRED"}

\* compute_features.
TasksTotal(w) == CountIf(w.vault.status \in {"REPAID", "PARTIALLY_REPAID", "DEFAULTED", "CLOSED"})
TasksSucceeded(w) == CountIf(w.vault.status \in {"REPAID", "CLOSED"})
RepaymentsTotal(w) == Len(w.vault.runs)

\* A run of the waterfall is counted whatever it left unpaid.
RepaidInFull(w) == Cardinality({i \in DOMAIN w.vault.runs : w.vault.runs[i] = Waterfall})

CurrentOutstanding(w) ==
  IF w.vault.status \in {"none", "REPAID", "CLOSED", "DEFAULTED"} THEN 0 ELSE w.vault.left

\* _agent_row and dashboard_summary leave an expired vault out.
ActiveExposure(w) ==
  IF w.vault.status \in TerminalVaultStatuses \cup {"none"} THEN 0 ELSE w.vault.left

\* "decision.approved_limit_minor if decision else 0".
ApprovedLimitMinor(w) == IF Decided(w) THEN w.limit ELSE 0

\* The decision of the engine, which an approval overwrites and a rejection
\* does not.
DecisionOf(w) ==
  CASE w.application \in {"APPROVED", "DISBURSEMENT_ENABLED"} -> "APPROVED"
    [] w.application = "REJECTED" /\ w.limit = 0 -> "REJECTED"
    [] OTHER -> "HUMAN_REVIEW_REQUIRED"

\* What the vault has spent: recovery sweeps what is left of the limit.
SpentMinor(w) ==
  IF Recovery \in Range(w.vault.runs) THEN LimitMinor
  ELSE IF w.attempt = "EXECUTED" THEN PaymentMinor ELSE 0

BlockedValue(w) == IF w.attempt = "DENIED" THEN PaymentMinor ELSE 0

LossMinor(w) == IF w.vault.end = "DEFAULTED" THEN PaymentMinor ELSE 0

\* Every run of the waterfall follows one revenue event.
RevenueMinor(w) == RepaidInFull(w) * PaymentMinor

\* A refused attempt and a loss; a single attempt makes no pattern of payments
\* for which the service freezes the vault.
RiskEvents(w) ==
  CountIf(w.attempt = "DENIED") + CountIf(w.vault.end = "DEFAULTED")

FirstBroken(w) == IF w.intact THEN <<>> ELSE <<1>>
=============================================================================
