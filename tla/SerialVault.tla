---------------------------- MODULE SerialVault -----------------------------
(***************************************************************************)
(* What overlapping requests may do to the vaults of one agent, if each    *)
(* took effect at one moment (src/credence/services/vault_ops.py,          *)
(* identity.py): the moment of its commit, except that a payment is        *)
(* admitted at an earlier moment, when it finds the agent active.          *)
(***************************************************************************)
EXTENDS Naturals

CONSTANTS Vaults, Proposals, VaultOf, Amount, Limit, Founded

VARIABLES
  agent,    \* its status
  status,   \* status[v]: the vault's status, "none" before it is created
  spent,    \* spent[v]: what it has paid
  paid,     \* the proposals that were paid
  admitted  \* the proposals with a payment under way that found the agent active

serialVars == <<agent, status, spent, paid, admitted>>

Open == {"ACTIVE", "SPENDING"}

SerialInit ==
  /\ agent = "ACTIVE"
  /\ status = [v \in Vaults |-> IF v \in Founded THEN "ACTIVE" ELSE "none"]
  /\ spent = [v \in Vaults |-> 0]
  /\ paid = {}
  /\ admitted = {}

Admit(p) ==
  /\ agent = "ACTIVE"
  /\ admitted' = admitted \cup {p}
  /\ UNCHANGED <<agent, status, spent, paid>>

\* A payment that is given up.
Dismiss(p) ==
  /\ admitted' = admitted \ {p}
  /\ UNCHANGED <<agent, status, spent, paid>>

\* An admitted payment: once, from an open vault, within its limit.  Another
\* request that pays the same proposal may still be under way.
Pay(p) ==
  /\ p \in admitted /\ p \notin paid
  /\ status[VaultOf[p]] \in Open
  /\ spent[VaultOf[p]] + Amount[p] <= Limit
  /\ status' = [status EXCEPT ![VaultOf[p]] = "SPENDING"]
  /\ spent' = [spent EXCEPT ![VaultOf[p]] = spent[VaultOf[p]] + Amount[p]]
  /\ paid' = paid \cup {p}
  /\ admitted' \in {admitted, admitted \ {p}}
  /\ UNCHANGED agent

Freeze(v) ==
  /\ status[v] \in Open
  /\ status' = [status EXCEPT ![v] = "FROZEN"]
  /\ UNCHANGED <<agent, spent, paid, admitted>>

Create(v) ==
  /\ status[v] = "none"
  /\ status' = [status EXCEPT ![v] = "ACTIVE"]
  /\ UNCHANGED <<agent, spent, paid, admitted>>

\* The kill switch sets the agent's status over whatever it is by then.
Switch(to) ==
  /\ agent' = to
  /\ UNCHANGED <<status, spent, paid, admitted>>

\* A revocation also freezes the vaults it found; one that was created meanwhile
\* stays open.
Revoke(found) ==
  /\ \A v \in found : status[v] \in Open
  /\ agent' \in {agent, "REVOKED"}
  /\ status' = [v \in Vaults |-> IF v \in found THEN "FROZEN" ELSE status[v]]
  /\ UNCHANGED <<spent, paid, admitted>>

SerialNext ==
  \/ \E p \in Proposals : Admit(p) \/ Dismiss(p) \/ Pay(p)
  \/ \E v \in Vaults : Freeze(v) \/ Create(v)
  \/ \E to \in {"ACTIVE", "FROZEN"} : Switch(to)
  \/ \E found \in SUBSET Vaults : Revoke(found)

SerialSpec == SerialInit /\ [][SerialNext]_serialVars
=============================================================================
