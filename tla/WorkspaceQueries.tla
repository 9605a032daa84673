-------------------------- MODULE WorkspaceQueries --------------------------
(***************************************************************************)
(* The queries of the product's pages, the writes its buttons make, and    *)
(* which of the former each of the latter invalidates and changes          *)
(* (frontend/lib/queries.ts; the read API of the service,                  *)
(* src/credence/api/read_routes.py).  A key is the sequence of its parts,  *)
(* and invalidating an area reaches every key that begins with it.         *)
(***************************************************************************)
EXTENDS SequencesExt

\* One record of each kind stands for those the open pages are about.
AgentsKey == <<"agents">>
AgentKey == <<"agents", "agent">>
TasksKey == <<"tasks">>
ApplicationsKey == <<"credit-applications">>
UnderwritingKey == <<"credit-applications", "application", "underwriting">>
UnderwritingQueueKey == <<"underwriting", "queue">>
VaultsKey == <<"vaults">>
VaultKey == <<"vaults", "vault">>
TransactionsKey == <<"transactions", "all">>
RepaymentsKey == <<"repayments">>
RiskSummaryKey == <<"risk", "summary">>
RiskEventsKey == <<"risk", "events">>
AuditEventsKey == <<"audit", "events">>
AuditChainKey == <<"audit", "chain">>
DashboardKey == <<"dashboard", "summary">>
ActivityKey == <<"dashboard", "activity", "12">>
ExposureKey == <<"dashboard", "exposure", "14">>

\* The queries whose answers writes can change.
WorkspaceKeys ==
  {AgentsKey, AgentKey, TasksKey, ApplicationsKey, UnderwritingKey, UnderwritingQueueKey,
   VaultsKey, VaultKey, TransactionsKey, RepaymentsKey, RiskSummaryKey, RiskEventsKey,
   AuditEventsKey, AuditChainKey, DashboardKey, ActivityKey, ExposureKey}

AuditKeys == {AuditEventsKey, AuditChainKey}

\* The mutations: a credit review, the vault's controls, the sandbox repayment
\* controls, and the sequences that drop the whole cache at their end; and the
\* areas each names in its onSuccess.
ReviewAreas ==
  {ApplicationsKey, UnderwritingKey, UnderwritingQueueKey, VaultsKey, DashboardKey,
   <<"dashboard">>, RiskSummaryKey} \cup AuditKeys

FreezeAreas ==
  {VaultKey, VaultsKey, RiskEventsKey, RiskSummaryKey, <<"dashboard">>} \cup AuditKeys

CloseAreas == {VaultKey, VaultsKey, RepaymentsKey, <<"dashboard">>} \cup AuditKeys

RevenueAreas ==
  {VaultsKey, VaultKey, RepaymentsKey, DashboardKey, RiskSummaryKey} \cup AuditKeys

FailureAreas ==
  {VaultsKey, VaultKey, RepaymentsKey, DashboardKey, RiskSummaryKey} \cup AuditKeys

\* invalidateQueries() with no key.
EveryArea == {<<>>}

Areas ==
  [review |-> ReviewAreas, freeze |-> FreezeAreas, close |-> CloseAreas,
   revenue |-> RevenueAreas, failure |-> FailureAreas,
   scenario |-> EveryArea, onboarding |-> EveryArea]

\* The queries a successful write invalidates.
CoveredBy(w) == {key \in WorkspaceKeys : \E area \in Areas[w] : IsPrefix(area, key)}

\* The queries whose answers a write changes: every write appends to the audit
\* chain, which the activity feed shows; the totals, the vault rows and the
\* agent rows are computed from the vaults.
ChangedBy(w) ==
  AuditKeys \cup {DashboardKey, ActivityKey, AgentKey} \cup
  CASE w = "review" -> {ApplicationsKey, UnderwritingKey, UnderwritingQueueKey}
    [] w = "freeze" -> {VaultsKey, VaultKey, RiskEventsKey, RiskSummaryKey, AgentsKey}
    [] w = "close" -> {VaultsKey, VaultKey, RepaymentsKey, AgentsKey}
    [] w = "revenue" -> {VaultsKey, VaultKey, RepaymentsKey, ExposureKey, AgentsKey}
    [] w = "failure" ->
         {VaultsKey, VaultKey, RepaymentsKey, ExposureKey, AgentsKey, RiskEventsKey,
          RiskSummaryKey}
    [] OTHER -> WorkspaceKeys
=============================================================================
