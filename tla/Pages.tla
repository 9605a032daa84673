------------------------------- MODULE Pages -------------------------------
(***************************************************************************)
(* What the product's pages show and offer (frontend/app/(product),        *)
(* frontend/components).                                                   *)
(*                                                                         *)
(* A page is a function of the workspace w and of the queries of its that  *)
(* have data.  What it shows is a set of statements, each a subject and a  *)
(* word; two pages that show the same column or count the same rows speak  *)
(* of one subject.  Layout and texts without a subject are left out.       *)
(***************************************************************************)
EXTENDS ReadModel, TLC

Says(subject, word) == {<<subject, word>>}
Counts(subject, n) == {<<subject, ToString(n)>>}
When(condition, statements) == IF condition THEN statements ELSE {}

\* An absent figure is never a zero (components/data/states.tsx).
Unavailable(subject, reason) == Says(subject, reason)

\* MoneyValue and Metric: a figure, or the reason there is none.
MoneyOr(subject, absent, reason, n) ==
  IF absent THEN Unavailable(subject, reason) ELSE Counts(subject, n)

\* A list says how many rows it has, and what each says when there are any.
ListOf(subject, n, rows) == Counts(subject, n) \cup When(n > 0, rows)

-----------------------------------------------------------------------------
(* Overview.                                                                *)

Portfolio(w) ==
  Counts("credit approved", IF HasVault(w) THEN LimitMinor ELSE 0)
  \cup Counts("applications approved", CountIf(w.application \in {"APPROVED", "DISBURSEMENT_ENABLED"}))
  \cup Counts("applications", CountIf(HasApplication(w)))
  \cup Counts("outstanding", ActiveExposure(w))
  \cup Unavailable("workspace repayment rate",
         IF w.vault.status \notin TerminalVaultStatuses THEN "insufficient"
         ELSE ToString(Ppm(CountIf(w.vault.status \in {"CLOSED", "REPAID"}), 1)))
  \cup Counts("vaults settled in full", CountIf(w.vault.status \in {"CLOSED", "REPAID"}))
  \cup Counts("blocked value", BlockedValue(w))
  \cup Counts("attempts blocked", CountIf(w.attempt = "DENIED"))
  \cup Counts("attempts", CountIf(w.attempt # "none"))

MoneyWent(w) ==
  Counts("recognised loss", LossMinor(w))
  \cup Counts("at risk",
         IF w.vault.status \in {"FROZEN", "DEFAULTED", "EXPIRED"} THEN w.vault.left ELSE 0)

IntegrityStrip(w) ==
  Says("chain", IF w.intact THEN "intact" ELSE "broken")
  \cup When(FirstBroken(w) # <<>>, Counts("first broken", Head(FirstBroken(w))))

AttentionCard(subject, n) == Counts(subject, n)

\* No handler records a critical event.
AttentionCards(w) ==
  AttentionCard("awaiting review", CountIf(w.application = "HUMAN_REVIEW_REQUIRED"))
  \cup AttentionCard("frozen vaults", CountIf(w.vault.status = "FROZEN"))
  \cup AttentionCard("critical events", 0)
  \cup Counts("risk events", RiskEvents(w))

\* The chart is shown with the figures, whatever the activity feed does.
DashboardPage(w, has) ==
  When("dashboard" \in has, Portfolio(w) \cup MoneyWent(w) \cup IntegrityStrip(w) \cup AttentionCards(w))
  \cup When({"dashboard", "exposure"} \subseteq has,
            Says("any vault", IF HasVault(w) THEN "yes" ELSE "no"))
  \cup When("activity" \in has, Says("any event", IF HasAgent(w) THEN "yes" ELSE "no"))

-----------------------------------------------------------------------------
(* Agents.                                                                  *)

AgentRow(w) ==
  Says("agent status", w.agent)
  \cup MoneyOr("task success", TasksTotal(w) = 0, "insufficient", Ppm(TasksSucceeded(w), TasksTotal(w)))
  \cup MoneyOr("repayment record", ~HasVault(w), "insufficient", Ppm(RepaidInFull(w), RepaymentsTotal(w)))
  \cup Counts("outstanding", ActiveExposure(w))
  \cup Says("passport", IF w.passport = "none" THEN "none" ELSE "verified")

AgentsPage(w, has) ==
  When("agents" \in has, ListOf("agents", CountIf(HasAgent(w)), AgentRow(w)))

\* The figures at the head of an agent's page.
AgentHeadline(w) ==
  Says("agent status", w.agent)
  \cup Counts("tasks on record", TasksTotal(w))
  \cup MoneyOr("task success", TasksTotal(w) = 0, "insufficient", Ppm(TasksSucceeded(w), TasksTotal(w)))
  \cup MoneyOr("repayment record", RepaymentsTotal(w) = 0, "insufficient",
               Ppm(RepaidInFull(w), RepaymentsTotal(w)))
  \cup Counts("outstanding", CurrentOutstanding(w))
  \cup Counts("defaulted", LossMinor(w))
  \cup Counts("attempts blocked", CountIf(w.attempt = "DENIED"))

Passport(w) ==
  Says("passport", CASE w.passport = "none" -> "none"
                     [] w.passport = "valid" -> "verified"
                     [] OTHER -> "verification failed")

\* The tabs; the spending tab reads a proposal_id and reason_codes that the
\* answer, {reason_code, count}, does not have.
AgentCreditTab(w) ==
  ListOf("applications", CountIf(HasApplication(w)),
    Says("application status", w.application)
    \cup Unavailable("decision", IF Decided(w) THEN DecisionOf(w) ELSE "undecided")
    \cup Counts("approved limit", ApprovedLimitMinor(w)))

AgentVaultsTab(w) ==
  ListOf("vaults", CountIf(HasVault(w)),
    Says("vault status", w.vault.status)
    \cup Counts("limit", LimitMinor)
    \cup Counts("spent", SpentMinor(w))
    \cup Counts("outstanding", w.vault.left))

AgentSpendingTab(w) ==
  IF w.attempt = "DENIED" THEN Says("spending", "breaks")
  ELSE Counts("attempts executed", CountIf(w.attempt = "EXECUTED"))
       \cup Counts("attempts blocked", CountIf(w.attempt = "DENIED"))

\* No handler closes a task.
AgentTasksTab(w) == ListOf("tasks", CountIf(HasApplication(w)), Says("task status", "OPEN"))

\* Events about the agent or its vaults.
AgentRiskTab(w) == Counts("risk events", RiskEvents(w))

\* Its registration is an event.
AgentAuditTab(w) == Says("any event", "yes")

AgentPage(w, has) ==
  When("agent" \in has,
       AgentHeadline(w) \cup Passport(w) \cup AgentCreditTab(w) \cup AgentVaultsTab(w)
       \cup AgentTasksTab(w) \cup AgentSpendingTab(w) \cup AgentRiskTab(w) \cup AgentAuditTab(w))

-----------------------------------------------------------------------------
(* Credit.                                                                  *)

ApprovedFamily == {"APPROVED", "VAULT_CREATED", "DISBURSEMENT_ENABLED"}
Terminalish == ApprovedFamily \cup {"REJECTED", "HUMAN_REVIEW_REQUIRED"}

\* approved_limit_minor is 0, and never null, for an undecided application.
ApplicationStage(w) ==
  Says("application status", w.application)
  \cup Counts("requested", RequestedMinor)
  \cup Counts("approved limit", ApprovedLimitMinor(w))

ApplicationRow(w) ==
  ApplicationStage(w)
  \cup Unavailable("scored", IF w.scored THEN "yes" ELSE "unavailable")
  \cup Says("financed", IF HasVault(w) THEN "yes" ELSE "no")

\* The stage filter counts the rows of every stage.
ApplicationsPage(w, has) ==
  When("applications" \in has,
       ListOf("applications", CountIf(HasApplication(w)), ApplicationRow(w))
       \cup Counts("applications approved", CountIf(w.application \in ApprovedFamily))
       \cup Counts("awaiting review", CountIf(w.application = "HUMAN_REVIEW_REQUIRED"))
       \cup Counts("in flight", CountIf(HasApplication(w) /\ w.application \notin Terminalish)))

\* The rows of the four buckets, the last of which has every decided one.
BucketTable(w) == When(HasApplication(w), ApplicationStage(w))

UnderwritingPage(w, has) ==
  When("queue" \in has,
       Counts("awaiting review", CountIf(w.application = "HUMAN_REVIEW_REQUIRED"))
       \cup Counts("in flight", CountIf(w.application = "DRAFT"))
       \cup BucketTable(w))

-----------------------------------------------------------------------------
(* One application: the request, the summary with its buttons, the three    *)
(* opinions, the review.                                                    *)

Runnable == {"DRAFT", "IDENTITY_VERIFIED", "EVIDENCE_READY", "UNDERWRITING"}

\* The caps of a refusal before the engine are an empty record, of which the
\* reduce picks its first entry.
UnderwritingSummary(w) ==
  Says("application status", w.application)
  \cup MoneyOr("approved limit", ~Decided(w), "unavailable", ApprovedLimitMinor(w))
  \cup When(Decided(w), Says("binding cap", IF w.scored THEN "of the caps" ELSE "requested"))
  \cup Unavailable("policy decision", IF w.scored THEN "recorded" ELSE "unavailable")
  \cup Says("analysis", IF w.analysis = "none" THEN "none" ELSE "recorded")
  \cup When(w.application \in ApprovedFamily \ {"APPROVED"}, Says("financed", "yes"))

\* "The deterministic engine decided without one" is said of a draft as well.
AiPanel(w) ==
  Says("analysis", IF w.analysis = "none" THEN "none" ELSE "recorded")
  \cup When(w.analysis = "none", Says("engine decided", "yes"))

\* No entry is marked unless it is both the least cap and the limit.
EnginePanel(w) ==
  Says("engine decided", IF Decided(w) THEN "yes" ELSE "no")
  \cup When(Decided(w),
         Says("decision", DecisionOf(w))
         \cup Counts("approved limit", ApprovedLimitMinor(w))
         \cup Unavailable("scored", IF w.scored THEN "yes" ELSE "unavailable"))

CapRows(w) == When(Decided(w), Says("binding cap", IF w.scored THEN "of the caps" ELSE "none"))

VerifierPanel(w) ==
  Says("verdict", CASE w.analysis = "none" -> "no model analysis"
                    [] w.analysis = "sound" -> "claims trace to evidence"
                    [] OTHER -> "contradictions found")
  \cup Says("analysis", IF w.analysis = "none" THEN "none" ELSE "recorded")

RequestCard(w) == Counts("requested", RequestedMinor)

\* Votes are recorded by the engine only, and by it whenever it is asked.
ApplicationVotes(w) ==
  Unavailable("policy decision", IF w.scored THEN "recorded" ELSE "unavailable")

ApplicationPage(w, has) ==
  When("application" \in has,
       Says("application status", w.application)
       \cup RequestCard(w) \cup UnderwritingSummary(w)
       \cup AiPanel(w) \cup EnginePanel(w) \cup CapRows(w) \cup VerifierPanel(w)
       \cup ApplicationVotes(w))

\* The button under the per-payment ceiling, when that is a sum of money.
FundCard(w) == When(w.application = "APPROVED", {"fund"})

ApplicationOffers(w, has) ==
  When("application" \in has,
       When(w.application \in Runnable, {"evaluate"})
       \cup FundCard(w)
       \cup When(w.application = "HUMAN_REVIEW_REQUIRED", {"review"}))

\* mutated form: every approval is sent as the engine's cap
DecideAsApprove(typed, limit) == [action |-> "APPROVE", amount |-> 0]

\* decide(): the amount the reviewer left in the field; APPROVE carries none.
Decide(typed, limit) ==
  IF typed = limit THEN [action |-> "APPROVE", amount |-> 0]
  ELSE [action |-> "REDUCE", amount |-> typed]

-----------------------------------------------------------------------------
(* Vaults.                                                                  *)

VaultRow(w) ==
  Says("vault status", w.vault.status)
  \cup Counts("limit", LimitMinor)
  \cup Counts("spent", SpentMinor(w))
  \cup Counts("outstanding", w.vault.left)

\* The status filter counts the vaults of every status.
VaultsPage(w, has) ==
  When("vaults" \in has,
       ListOf("vaults", CountIf(HasVault(w)), VaultRow(w))
       \cup Counts("frozen vaults", CountIf(w.vault.status = "FROZEN")))

Freezable == {"CREATED", "ACTIVE", "SPENDING"}
Closable == {"REPAID", "PARTIALLY_REPAID", "DEFAULTED"}
Settled == {"REPAID", "CLOSED", "DEFAULTED"}

VaultBalances(w) == VaultRow(w)

VaultTabs(w) ==
  Counts("attempts", CountIf(w.attempt # "none"))
  \cup When(w.attempt # "none", Says("attempt", w.attempt))
  \cup Counts("revenue collected", RevenueMinor(w))
  \cup Counts("repayments", RepaymentsTotal(w))

\* Events about the vault or its agent.
VaultRiskTab(w) == Counts("risk events", RiskEvents(w))

VaultPage(w, has) ==
  When("vault" \in has /\ HasVault(w), VaultBalances(w) \cup VaultTabs(w) \cup VaultRiskTab(w))

\* How long a reason for freezing may be, and what the sheet sends.
ReasonLengths == 0 .. 4
FreezeSheet(length) == When(length >= 3, {"freeze"})

\* mutated form: a defaulted vault still collects
RepaymentControlsOnDefault(w) ==
  When(w.vault.status \notin Settled \ {"DEFAULTED"}, {"revenue", "failure"})

\* The buttons of the head and of the sandbox's repayment controls.
RepaymentControls(w) == When(w.vault.status \notin Settled, {"revenue", "failure"})

VaultOffers(w, has) ==
  When("vault" \in has /\ HasVault(w),
       When(w.vault.status \in Freezable, UNION {FreezeSheet(n) : n \in ReasonLengths})
       \cup When(w.vault.status \in Closable, {"close"})
       \cup RepaymentControls(w))

-----------------------------------------------------------------------------
(* Payments and repayments.                                                 *)

\* The outcome filter asks the service; nothing is ever stored as PROPOSED.
TransactionsPage(w, has) ==
  When("transactions" \in has,
       ListOf("attempts", CountIf(w.attempt # "none"), Says("attempt", w.attempt))
       \cup Counts("attempts blocked", CountIf(w.attempt = "DENIED"))
       \cup Counts("attempts executed", CountIf(w.attempt = "EXECUTED")))

\* The vault's rules and the policy each vote, and "any single deny blocks it".
AttemptVotes(w) == Says("policy result", IF w.attempt = "DENIED" THEN "DENY" ELSE "ALLOW")

AttemptTrail(w) == Says("any event", "yes")

\* Every stored attempt has been decided, and the request says when; the text
\* beside it reads an approval that has not been carried out as undecided.
TransactionPage(w, has) ==
  When("transaction" \in has /\ w.attempt # "none",
       Says("attempt", w.attempt)
       \cup Says("attempt decided", "yes")
       \cup Says("attempt decided", IF w.attempt \in {"DENIED", "EXECUTED"} THEN "yes" ELSE "no")
       \cup Says("policy result", IF w.attempt = "DENIED" THEN "DENY" ELSE "ALLOW")
       \cup AttemptVotes(w) \cup AttemptTrail(w))

\* The totals add the rows up, and every row has the vault's whole revenue.
RepaymentTotals(w) ==
  Counts("revenue collected", RepaymentsTotal(w) * RevenueMinor(w))
  \cup Counts("recognised loss", LossMinor(w))

RepaymentsPage(w, has) ==
  When("repayments" \in has,
       Counts("repayments", RepaymentsTotal(w))
       \cup When(RepaymentsTotal(w) > 0, RepaymentTotals(w) \cup Says("vault status", w.vault.status)))

-----------------------------------------------------------------------------
(* Controls and audit.                                                      *)

\* The page that an event's subject links to, if any.
SubjectLink(subjectType) ==
  CASE subjectType = "AGENT" -> {"agent"}
    [] subjectType = "VAULT" -> {"vault"}
    [] subjectType \in {"TRANSACTION", "PROPOSAL"} -> {"transaction"}
    [] OTHER -> {}

RiskTotals(w) ==
  Counts("critical events", 0)
  \cup Counts("attempts blocked", CountIf(w.attempt = "DENIED"))
  \cup Counts("blocked value", BlockedValue(w))
  \cup Counts("frozen vaults", CountIf(w.vault.status = "FROZEN"))
  \cup Counts("stopped agents", CountIf(w.agent \in {"FROZEN", "REVOKED"}))
  \cup Counts("risk events", RiskEvents(w))

\* A refused payment and a loss are both about the agent.
RiskLog(w) ==
  ListOf("risk events", RiskEvents(w),
    UNION {Says("events are about", p) : p \in SubjectLink("AGENT")})

\* The event log is inside the branch that has the summary.
RiskPage(w, has) ==
  When("risk" \in has, RiskTotals(w))
  \cup When({"risk", "riskEvents"} \subseteq has, RiskLog(w))

\* The rows are one workspace's, the chain is everyone's: an event of another
\* workspace between two rows is a link that does not match.
AuditRows(w) == Says("links", IF w.shared THEN "mismatch" ELSE "sound")

AuditPage(w, has) ==
  When("chain" \in has,
       Says("chain", IF w.intact THEN "intact" ELSE "broken")
       \cup When(w.intact, Says("links", "sound"))
       \cup When(~w.intact, Counts("first broken", Head(FirstBroken(w)))))
  \cup When("auditEvents" \in has /\ HasAgent(w), AuditRows(w))

-----------------------------------------------------------------------------
(* The guided start.                                                        *)

\* data ?? []: the list as the page counts it, empty when it has none.
Listed(q, has, n) == IF q \in has THEN n ELSE 0

\* A card's status is shown at once, and so is what it waits for; its badge
\* only when every list has answered or failed.
StepCard(loading, done, status, waiting, reason) ==
  status \cup When(waiting, reason) \cup When(~loading, done)

StartPage(w, has, pending) ==
  LET holders == Listed("agents", has, CountIf(w.passport # "none"))
      applications == Listed("applications", has, CountIf(HasApplication(w)))
      approved == Listed("applications", has, CountIf(w.application \in ApprovedFamily))
      rejected == Listed("applications", has, CountIf(w.application = "REJECTED"))
      vaults == Listed("vaults", has, CountIf(HasVault(w)))
      repaid == Listed("repayments", has, RepaymentsTotal(w))
      verified == When(holders > 0, Says("passport", "verified"))
      submitted == When(applications > 0, Counts("applications", applications))
      loading == pending # {} IN
  StepCard(loading, verified, verified, FALSE, {})
  \cup StepCard(loading, submitted, submitted, holders = 0, Says("passport", "none"))
  \cup StepCard(loading, When(approved + rejected > 0, Says("engine decided", "yes")),
                When(approved > 0, Counts("applications approved", approved)),
                applications = 0, Counts("applications", 0))
  \cup StepCard(loading, When(repaid > 0, Counts("repayments", repaid)),
                When(vaults > 0, Counts("vaults", vaults) \cup Counts("repayments", repaid)),
                approved = 0, Counts("applications approved", 0))

\* mutated form: a list that has not answered is an empty one
FirstRunBannerEarly(w, has) ==
  When(~("agents" \in has /\ HasAgent(w)) /\ ~("applications" \in has /\ HasApplication(w)),
       Counts("agents", 0) \cup Counts("applications", 0))

\* Only when both lists answered.
FirstRunBanner(w, has) ==
  When({"agents", "applications"} \subseteq has /\ ~HasAgent(w) /\ ~HasApplication(w),
       Counts("agents", 0) \cup Counts("applications", 0))
=============================================================================
