----------------------------- MODULE VaultRules -----------------------------
(***************************************************************************)
(* The two controls every proposed payment passes: the deterministic vault *)
(* rules (credence/vault/rules.py) and the in-process policy mirror        *)
(* (credence/policy/engine.py).  Both collect every violated rule; a       *)
(* payment is allowed when the set is empty.                               *)
(*                                                                         *)
(* limits is the record vault_ops._vault_limits builds, spend the proposed *)
(* payment, recent the set of earlier payments of the vault as records     *)
(* with their key, so that equal payments stay distinct.                   *)
(***************************************************************************)
EXTENDS Integers, FiniteSetsExt

CONSTANTS VelocityWindow,   \* length of the anti-splitting window, in ticks
          VelocityMax       \* payments allowed in one window

SpendableStatuses == {"ACTIVE", "SPENDING"}

When(violated, code) == IF violated THEN {code} ELSE {}

SumOfAmounts(payments) == MapThenSumSet(LAMBDA p : p.amount, payments)

\* mutated form: the first tick of the window is left out
InWindowExclusive(recent, at) == {r \in recent : r.at > at - VelocityWindow}

InWindow(recent, at) == {r \in recent : r.at >= at - VelocityWindow}

SameVendor(recent, spend) == {r \in recent : r.vendor = spend.vendor}

\* mutated form: only a frozen agent is refused
AgentDenialsFrozenOnly(limits) == When(limits.agent_status = "FROZEN", "AGENT_FROZEN")

AgentDenials(limits) ==
  When(limits.agent_status = "FROZEN", "AGENT_FROZEN")
    \cup When(limits.agent_status = "REVOKED", "PASSPORT_REVOKED")

StatusDenials(limits, at) ==
  When(limits.status = "FROZEN", "VAULT_FROZEN")
    \cup When(limits.status = "EXPIRED" \/ limits.expires_at <= at, "VAULT_EXPIRED")
    \cup When(limits.status \notin SpendableStatuses \cup {"FROZEN", "EXPIRED"}, "VAULT_CLOSED")

\* mutated form: each payment is compared to the limits alone
AmountDenialsIgnoringSpent(limits, spend) ==
  When(spend.amount <= 0 \/ spend.amount > limits.per_txn, "TRANSACTION_LIMIT_EXCEEDED")
    \cup When(spend.amount > limits.total, "TASK_LIMIT_EXCEEDED")

AmountDenials(limits, spend) ==
  When(spend.amount <= 0 \/ spend.amount > limits.per_txn, "TRANSACTION_LIMIT_EXCEEDED")
    \cup When(spend.amount > 0 /\ limits.spent + spend.amount > limits.total,
              "TASK_LIMIT_EXCEEDED")
    \cup When(spend.amount > 0 /\ limits.spent_today + spend.amount > limits.daily,
              "DAILY_LIMIT_EXCEEDED")

VendorDenials(limits, spend) ==
  When(spend.vendor \notin limits.allowed, "VENDOR_NOT_ALLOWED")
    \cup When(/\ spend.vendor \in limits.allowed
              /\ limits.purposes[spend.vendor] # {}     \* no category binds no purpose
              /\ spend.purpose \notin limits.purposes[spend.vendor],
              "PURPOSE_MISMATCH")

PaceDenials(limits, spend, recent, at) ==
  LET window == InWindow(recent, at)
      same   == SameVendor(window, spend)
  IN  When(limits.count + 1 > limits.max_transactions, "TXN_COUNT_EXCEEDED")
        \cup When(Cardinality(window) + 1 > VelocityMax, "VELOCITY_EXCEEDED")
        \cup When(/\ Cardinality(same) >= 2
                  /\ SumOfAmounts(same) + spend.amount > limits.per_txn,
                  "SPLIT_PATTERN_DETECTED")

EvaluateProposal(limits, spend, recent, at) ==
  AgentDenials(limits)
    \cup StatusDenials(limits, at)
    \cup When(spend.currency # limits.currency, "CURRENCY_MISMATCH")
    \cup AmountDenials(limits, spend)
    \cup VendorDenials(limits, spend)
    \cup PaceDenials(limits, spend, recent, at)

-----------------------------------------------------------------------------
\* The policy document of propose_transaction always carries every field with
\* its type, so the mirror's fail-closed branches for missing or malformed
\* input (authorization_window_unknown, amounts_unknown on a non-integer) are
\* not reachable from here.
EvaluatePolicy(identityValid, limits, spend, rulesAllow, at) ==
  When(~identityValid, "identity_invalid")
    \cup When(limits.expires_at <= at, "authorization_expired")
    \cup When(limits.agent_status # "ACTIVE", "agent_not_active")
    \cup When(limits.status \notin SpendableStatuses, "vault_not_spendable")
    \cup When(spend.vendor \notin limits.allowed, "vendor_not_allowed")
    \cup When(spend.amount <= 0, "amounts_unknown")
    \cup When(spend.amount > 0 /\ spend.amount > limits.per_txn, "transaction_limit")
    \cup When(spend.amount > 0 /\ limits.spent + spend.amount > limits.total, "task_limit")
    \cup When(~rulesAllow, "risk_status_not_pass")
=============================================================================
