---------------------------- MODULE MCVaultClaims ----------------------------
(***************************************************************************)
(* What the repository says of the vault and the code does not do.  Each   *)
(* claim has a configuration of its own, which refutes it.                 *)
(***************************************************************************)
EXTENDS MCVaultOps

\* "Replays of the same external_event_id are idempotent" (vault_ops.py:518-519):
\* the answer to a replay is the repayment its event made.  The code answers
\* with the vault's latest repayment.
ReplayReturnsOriginal ==
  \A e \in Events : revenue[e] # NoRevenue =>
    RevenueReplay(e).journal = <<"waterfall", e>>

\* "revoked agents cannot be unfrozen" (identity.py:262): an agent with a
\* revocation row is never ACTIVE again.  FREEZE overwrites REVOKED, and
\* UNFREEZE then finds FROZEN.
RevokedNeverActive == \A a \in Agents : agent[a].revoked => agent[a].status # "ACTIVE"

\* PRINCIPAL_RECEIVABLE is "credit owed back by tasks" (accounts.py:8): in the
\* vault's currency the account is the principal it still owes.  Revenue named
\* in another currency is posted in that currency and deducted one for one.
ReceivableInVaultCurrency ==
  \A v \in Vaults : Exists(v) =>
    books[v]["own"]["PRINCIPAL_RECEIVABLE"] = vault[v].principal

\* "The reserve draw never exceeds the signed authorization cap" (waterfall.py:106-107):
\* the mandate is signed once for a task.  Each vault of the task draws up to
\* the whole cap, whatever the others have drawn.
VaultsOf(task) == {v \in Vaults : Exists(v) /\ vault[v].task = task}

MandateCapsReserve ==
  \A t \in Tasks :
    MapThenSumSet(LAMBDA v : Bal(v, "RESERVE_POOL"), VaultsOf(t)) <= ReserveCap(t)
=============================================================================
