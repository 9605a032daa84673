------------------------------ MODULE Screens ------------------------------
(***************************************************************************)
(* A visitor going from page to page (frontend/app/(product)) while the    *)
(* queries of each are answered, fail, or fail after an earlier answer.    *)
(* The workspace stands still: what pages show of one that changes is      *)
(* QueryCache's subject.                                                   *)
(***************************************************************************)
EXTENDS Pages

CONSTANT Worlds \* the workspaces looked at

ASSUME WorldsAssumption == Worlds \subseteq Workspaces

VARIABLES
  workspace, \* the workspace, which no page changes
  page,      \* the page on the screen
  answer     \* answer[q]: what has come of each of its queries

screenVars == <<workspace, page, answer>>

-----------------------------------------------------------------------------
\* The hooks that a page calls.
QueriesOf ==
  [dashboard |-> {"dashboard", "exposure", "activity"},
   agents |-> {"agents"},
   agent |-> {"agent"},
   applications |-> {"applications"},
   application |-> {"application"},
   underwriting |-> {"queue"},
   vaults |-> {"vaults"},
   vault |-> {"vault"},
   transactions |-> {"transactions"},
   transaction |-> {"transaction"},
   repayments |-> {"repayments"},
   risk |-> {"risk", "riskEvents"},
   audit |-> {"auditEvents", "chain"},
   start |-> {"agents", "applications", "vaults", "repayments"},
   banner |-> {"agents", "applications"}]

PageNames == DOMAIN QueriesOf

\* has: the queries answered last time they were asked; kept: those with an
\* answer, though asking again may have failed since.
Statements(p, w, has, kept, pending) ==
  CASE p = "dashboard" -> DashboardPage(w, has)
    [] p = "agents" -> AgentsPage(w, has)
    [] p = "agent" -> When(HasAgent(w), AgentPage(w, has))
    [] p = "applications" -> ApplicationsPage(w, has)
    [] p = "application" -> When(HasApplication(w), ApplicationPage(w, has))
    [] p = "underwriting" -> UnderwritingPage(w, has)
    [] p = "vaults" -> VaultsPage(w, has)
    [] p = "vault" -> VaultPage(w, has)
    [] p = "transactions" -> TransactionsPage(w, has)
    [] p = "transaction" -> TransactionPage(w, has)
    [] p = "repayments" -> RepaymentsPage(w, has)
    [] p = "risk" -> RiskPage(w, has)
    [] p = "audit" -> AuditPage(w, has)
    [] p = "start" -> StartPage(w, kept, pending)
    [] OTHER -> FirstRunBanner(w, kept)

\* All that the pages say of a workspace when every query is answered.
Everything(w) == UNION {Statements(p, w, QueriesOf[p], QueriesOf[p], {}) : p \in PageNames}

EverythingOf == [w \in Worlds |-> Everything(w)]

ScreensInit ==
  /\ workspace \in Worlds
  /\ page = "dashboard"
  /\ answer = [q \in QueriesOf["dashboard"] |-> "pending"]

Visit(p) ==
  /\ p # page
  /\ page' = p
  /\ answer' = [q \in QueriesOf[p] |-> "pending"]
  /\ UNCHANGED workspace

Loads(q) ==
  /\ answer[q] # "data"
  /\ answer' = [answer EXCEPT ![q] = "data"]
  /\ UNCHANGED <<workspace, page>>

Breaks(q) ==
  /\ answer[q] \in {"pending", "data"}
  /\ answer' = [answer EXCEPT ![q] = IF answer[q] = "data" THEN "kept" ELSE "failed"]
  /\ UNCHANGED <<workspace, page>>

\* "Try again": a query without an answer is pending anew.
Retry(q) ==
  /\ answer[q] = "failed"
  /\ answer' = [answer EXCEPT ![q] = "pending"]
  /\ UNCHANGED <<workspace, page>>

ScreensNext ==
  \/ \E p \in PageNames : Visit(p)
  \/ \E q \in DOMAIN answer : Loads(q) \/ Breaks(q) \/ Retry(q)

ScreensSpec == ScreensInit /\ [][ScreensNext]_screenVars

-----------------------------------------------------------------------------
Having == {q \in DOMAIN answer : answer[q] = "data"}
Keeping == {q \in DOMAIN answer : answer[q] \in {"data", "kept"}}
Pending == {q \in DOMAIN answer : answer[q] = "pending"}

Shown == Statements(page, workspace, Having, Keeping, Pending)

\* Subjects on which pages are known to differ, and the workspaces in which they
\* do: a passport that no longer verifies; what an expired or closed vault still
\* owes; a vault without repayments; the limit of a draft, and who decided it;
\* the cap that bound a refusal without caps; revenue that arrived in parts; a
\* chain shared with other workspaces; an approved attempt not carried out.
Disputed(w) ==
  When(w.passport = "invalid", {"passport"})
  \cup When(w.vault.status \in {"EXPIRED", "CLOSED"} /\ w.vault.left > 0, {"outstanding"})
  \cup When(HasVault(w) /\ w.vault.runs = <<>>, {"repayment record"})
  \cup When(w.application = "DRAFT", {"approved limit", "engine decided"})
  \cup When(w.application = "REJECTED" /\ ~w.scored, {"binding cap"})
  \cup When(Len(w.vault.runs) > 1, {"revenue collected"})
  \cup When(w.shared, {"links"})
  \cup When(w.attempt = "APPROVED", {"attempt decided"})

\* The guided start reads a list that has not answered, or has failed, as an
\* empty one.
ReadAsEmpty ==
  When(page = "start",
    When("agents" \notin Keeping, {"passport"})
    \cup When("applications" \notin Keeping, {"applications", "applications approved"})
    \cup When("repayments" \notin Keeping, {"repayments"}))

\* "The request failed; the number is unknown, not zero" (components/data/
\* states.tsx:19): whatever has been answered so far, a page gives no subject
\* another word than any page gives it when all is answered, the named
\* differences apart.
PagesAgree ==
  \A s \in Shown : \A t \in EverythingOf[workspace] :
    s[1] = t[1] /\ s[1] \notin Disputed(workspace) \cup ReadAsEmpty => s[2] = t[2]

\* The service's answer to a control, from its tables.
Accepts(w, control) ==
  CASE control = "evaluate" -> ApplicationMove(w.application, "IDENTITY_VERIFIED")
    [] control = "review" -> w.application = "HUMAN_REVIEW_REQUIRED"
    [] control = "fund" -> ApplicationMove(w.application, "VAULT_CREATED")
    [] control = "freeze" -> VaultMove(w.vault.status, "FROZEN")
    [] control = "close" -> VaultMove(w.vault.status, "CLOSED")
    [] control = "revenue" ->
         \/ VaultMove(w.vault.status, "TASK_COMPLETED")
         \/ VaultMove(w.vault.status, "REVENUE_RECEIVED")
    [] OTHER -> w.vault.status \in Unfinished

Offered ==
  CASE page = "application" -> ApplicationOffers(workspace, Having)
    [] page = "vault" -> VaultOffers(workspace, Having)
    [] OTHER -> {}

\* Controls shown though the service refuses them: revenue for a frozen vault,
\* the failure of one that has repaid a part.
Refused ==
  When(workspace.vault.status = "FROZEN", {"revenue"})
  \cup When(workspace.vault.status = "PARTIALLY_REPAID", {"failure"})

ControlsOf(p) ==
  CASE p = "application" -> {"evaluate", "review", "fund"}
    [] p = "vault" -> {"freeze", "close", "revenue", "failure"}
    [] OTHER -> {}

\* On a page that has its answer a control is there if and only if the service
\* accepts it, the named ones apart.
ControlsMatchTheService ==
  Pending = {} /\ Having = DOMAIN answer =>
    Offered \ Refused =
      {c \in ControlsOf(page) : Accepts(workspace, c)}

\* The figures a reviewer may type.
Typed == 1 .. RequestedMinor + 1

\* The service's grant of a review's action and amount, 0 if it refuses.
Granted(decision, cap) ==
  LET amount == IF decision.action = "APPROVE" THEN cap ELSE decision.amount IN
  IF amount > 0 /\ amount <= cap THEN amount ELSE 0

\* "Neither may be quietly rounded to the cap" (components/underwriting/
\* review-controls.tsx): a review is refused or grants the figure in the field.
WhatIsTypedIsGranted ==
  "review" \in Offered =>
    \A typed \in Typed :
      Granted(Decide(typed, ApprovedLimitMinor(workspace)), ApprovedLimitMinor(workspace))
        \in {0, typed}
=============================================================================
