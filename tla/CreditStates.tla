---------------------------- MODULE CreditStates ----------------------------
(***************************************************************************)
(* The two explicit state machines of credence/state.py: the credit        *)
(* application and the task vault.  A handler that asks for a move the      *)
(* table does not list raises InvalidTransitionError and its transaction   *)
(* is rolled back, so in the models a move that is not CanMove disables    *)
(* the action.                                                             *)
(***************************************************************************)

ApplicationTransitions ==
  [ DRAFT                 |-> {"IDENTITY_VERIFIED", "REJECTED"},
    IDENTITY_VERIFIED     |-> {"EVIDENCE_READY", "REJECTED"},
    EVIDENCE_READY        |-> {"UNDERWRITING", "REJECTED"},
    UNDERWRITING          |-> {"POLICY_EVALUATED", "REJECTED"},
    POLICY_EVALUATED      |-> {"HUMAN_REVIEW_REQUIRED", "APPROVED", "REJECTED"},
    HUMAN_REVIEW_REQUIRED |-> {"APPROVED", "REJECTED"},
    APPROVED              |-> {"VAULT_CREATED"},
    VAULT_CREATED         |-> {"DISBURSEMENT_ENABLED"},
    DISBURSEMENT_ENABLED  |-> {},
    REJECTED              |-> {} ]

VaultTransitions ==
  [ CREATED          |-> {"ACTIVE", "FROZEN", "EXPIRED"},
    ACTIVE           |-> {"SPENDING", "TASK_COMPLETED", "TASK_FAILED", "FROZEN", "EXPIRED"},
    SPENDING         |-> {"SPENDING", "TASK_COMPLETED", "TASK_FAILED", "FROZEN", "EXPIRED"},
    FROZEN           |-> {"ACTIVE", "TASK_FAILED", "EXPIRED"},
    EXPIRED          |-> {"REVENUE_RECEIVED", "TASK_FAILED"},
    TASK_COMPLETED   |-> {"REVENUE_RECEIVED"},
    TASK_FAILED      |-> {"REVENUE_RECEIVED", "DEFAULTED", "PARTIALLY_REPAID", "REPAID"},
    REVENUE_RECEIVED |-> {"REPAID", "PARTIALLY_REPAID", "DEFAULTED", "REVENUE_RECEIVED"},
    REPAID           |-> {"CLOSED"},
    PARTIALLY_REPAID |-> {"REVENUE_RECEIVED", "DEFAULTED", "CLOSED"},
    DEFAULTED        |-> {"CLOSED"},
    CLOSED           |-> {} ]

ApplicationStatuses ==
  {"DRAFT", "IDENTITY_VERIFIED", "EVIDENCE_READY", "UNDERWRITING", "POLICY_EVALUATED",
   "HUMAN_REVIEW_REQUIRED", "APPROVED", "VAULT_CREATED", "DISBURSEMENT_ENABLED", "REJECTED"}

VaultStatuses ==
  {"CREATED", "ACTIVE", "SPENDING", "FROZEN", "EXPIRED", "TASK_COMPLETED", "TASK_FAILED",
   "REVENUE_RECEIVED", "REPAID", "PARTIALLY_REPAID", "DEFAULTED", "CLOSED"}

CanMove(table, current, target) == current \in DOMAIN table /\ target \in table[current]

VaultMove(current, target) == CanMove(VaultTransitions, current, target)
ApplicationMove(current, target) == CanMove(ApplicationTransitions, current, target)
=============================================================================
