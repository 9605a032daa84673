------------------------------ MODULE VaultTxn ------------------------------
(***************************************************************************)
(* Requests on the vaults of one agent whose database transactions overlap *)
(* (src/credence/api/deps.py, audit/chain.py, services/vault_ops.py,       *)
(* services/identity.py), on PostgreSQL at READ COMMITTED.  A transaction  *)
(* reads what is committed, computes from that, and writes when the        *)
(* session flushes: an UPDATE or a unique INSERT waits for the row's       *)
(* holder, and the version column makes an UPDATE of a row that changed    *)
(* since it was read fail.  Locks are held until the transaction ends.     *)
(***************************************************************************)
EXTENDS Naturals, Sequences

CONSTANTS
  Requests,  \* the requests, each served once
  Vaults, Proposals, VaultOf, Amount, Limit,
  Founded,   \* the vaults created before
  AgentRow, ChainLock, Nobody

Locks == Vaults \cup Proposals \cup {AgentRow, ChainLock}

ASSUME TxnAssumption ==
  /\ VaultOf \in [Proposals -> Vaults]
  /\ Amount \in [Proposals -> Nat \ {0}]
  /\ Limit \in Nat
  /\ Founded \subseteq Vaults
  /\ Nobody \notin Requests
  /\ Vaults \cap Proposals = {}
  /\ AgentRow \notin Vaults \cup Proposals
  /\ ChainLock \notin Vaults \cup Proposals \cup {AgentRow}

VARIABLES
  agent,   \* the agent's committed status; its row has no version
  vault,   \* vault[v]: the committed row
  paid,    \* the proposals with a committed payment
  chain,   \* the committed audit events, each the number of the one it follows
  holder,  \* holder[l]: whose transaction holds a row, a unique key or the chain's lock
  task,    \* task[r]: what a request asks for, and of which row
  at,      \* at[r]: the stage its transaction is at
  seen,    \* seen[r][v]: the vault's row as the transaction read it
  writes,  \* writes[r]: the vaults it changes
  todo,    \* todo[r]: the rows and keys of its flush that it does not hold yet
  head     \* head[r]: the audit event that its own follows

committed == <<agent, vault, paid, chain>>
local == <<seen, writes, head>>
vars == <<agent, vault, paid, chain, holder, task, at, seen, writes, todo, head>>

Open == {"ACTIVE", "SPENDING"}
Tasks ==
  [op : {"execute"}, on : Proposals] \cup [op : {"freeze", "create"}, on : Vaults]
    \cup [op : {"FREEZE", "UNFREEZE", "REVOKE"}, on : {AgentRow}]

Op(r) == task[r].op
On(r) == task[r].on
\* The vault of a request that names one, itself or by a proposal.
Target(r) == IF Op(r) = "execute" THEN VaultOf[On(r)] ELSE On(r)

NoRow == [status |-> "none", spent |-> 0, version |-> 0]
NewRow == [status |-> "ACTIVE", spent |-> 0, version |-> 1]

Init ==
  /\ agent = "ACTIVE"
  /\ vault = [v \in Vaults |-> IF v \in Founded THEN NewRow ELSE NoRow]
  /\ paid = {}
  /\ chain = <<>>
  /\ holder = [l \in Locks |-> Nobody]
  /\ task \in [Requests -> Tasks]
  /\ at = [r \in Requests |-> IF On(r) = AgentRow THEN "agent" ELSE "vault"]
  /\ seen = [r \in Requests |-> vault]
  /\ writes = [r \in Requests |-> {}]
  /\ todo = [r \in Requests |-> {}]
  /\ head = [r \in Requests |-> 0]

-----------------------------------------------------------------------------
Goes(r, stage) == at' = [at EXCEPT ![r] = stage]

\* mutated form: the chain's lock belongs to the connection and stays with it.
ReleasedButChain(r) ==
  [l \in Locks |-> IF holder[l] = r /\ l # ChainLock THEN Nobody ELSE holder[l]]

Released(r) == [l \in Locks |-> IF holder[l] = r THEN Nobody ELSE holder[l]]

\* The session's rollback: nothing of the transaction stays.
Rollback(r) ==
  /\ holder' = Released(r)
  /\ Goes(r, "end")
  /\ UNCHANGED <<committed, local, task, todo>>

\* What the handler needs of the vault: an open one to freeze it, none to create it.
Suits(r, row) ==
  \/ Op(r) = "execute"
  \/ Op(r) = "freeze" /\ row.status \in Open
  \/ Op(r) = "create" /\ row.status = "none"

\* The vault's row is read; a freeze takes the chain's lock before its flush.
ReadVault(r) ==
  /\ at[r] = "vault"
  /\ \/ /\ Suits(r, vault[Target(r)])
        /\ seen' = [seen EXCEPT ![r] = vault]
        /\ writes' = [writes EXCEPT ![r] = {Target(r)}]
        /\ todo' = [todo EXCEPT ![r] = {On(r), Target(r)}]
        /\ Goes(r, IF Op(r) = "execute" THEN "judge"
                   ELSE IF Op(r) = "freeze" THEN "chain" ELSE "rows")
        /\ UNCHANGED <<committed, holder, task, head>>
     \/ /\ ~Suits(r, vault[Target(r)])
        /\ Rollback(r)

\* An execution looks for an earlier payment of its proposal, reads the agent and
\* checks the rules against the vault's row as it was read.
Allowed(r) ==
  LET row == seen[r][Target(r)] IN
  agent = "ACTIVE" /\ row.status \in Open /\ row.spent + Amount[On(r)] <= Limit

Judge(r) ==
  /\ at[r] = "judge"
  /\ \/ /\ On(r) \notin paid /\ Allowed(r)
        /\ Goes(r, "rows")
        /\ UNCHANGED <<committed, local, holder, task, todo>>
     \/ /\ On(r) \in paid \/ ~Allowed(r)
        /\ Rollback(r)

\* The kill switch reads the agent; a revoked one is not unfrozen.
Wanted(r) ==
  IF Op(r) = "FREEZE" THEN "FROZEN" ELSE IF Op(r) = "UNFREEZE" THEN "ACTIVE" ELSE "REVOKED"

ReadAgent(r) ==
  /\ at[r] = "agent"
  /\ \/ /\ Op(r) # "UNFREEZE" \/ agent # "REVOKED"
        /\ todo' = [todo EXCEPT ![r] = IF agent = Wanted(r) THEN {} ELSE {AgentRow}]
        /\ Goes(r, "flag")
        /\ UNCHANGED <<committed, holder, task, seen, writes, head>>
     \/ /\ Op(r) = "UNFREEZE" /\ agent = "REVOKED"
        /\ Rollback(r)

-----------------------------------------------------------------------------
\* The flush takes the payment's unique journal key before the vault's row.
Ready(r) == {l \in todo[r] : l \in Vaults => todo[r] \cap Proposals = {}}

\* mutated form: no version column.
FreshAnyVersion(r, l) == l \notin paid

\* The row is as it was read, and the key is still free.
Fresh(r, l) ==
  /\ l \in Vaults => vault[l].version = seen[r][l].version
  /\ l \notin paid

Take(r) ==
  /\ at[r] \in {"flag", "rows"}
  /\ \E l \in Ready(r) :
       /\ holder[l] = Nobody
       /\ \/ /\ Fresh(r, l)
             /\ holder' = [holder EXCEPT ![l] = r]
             /\ todo' = [todo EXCEPT ![r] = todo[r] \ {l}]
             /\ UNCHANGED <<committed, local, task, at>>
          \/ /\ ~Fresh(r, l)
             /\ Rollback(r)

Flushed(r) ==
  /\ todo[r] = {}
  /\ \/ /\ at[r] = "flag"
        /\ Goes(r, IF Op(r) = "REVOKE" THEN "find" ELSE "chain")
     \/ /\ at[r] = "rows"
        /\ Goes(r, IF Op(r) = "freeze" THEN "append" ELSE "chain")
  /\ UNCHANGED <<committed, local, holder, task, todo>>

\* A revocation reads the vaults that are open by now.
FindOpen(r) ==
  /\ at[r] = "find"
  /\ LET found == {v \in Vaults : vault[v].status \in Open} IN
     /\ writes' = [writes EXCEPT ![r] = found]
     /\ todo' = [todo EXCEPT ![r] = found]
  /\ seen' = [seen EXCEPT ![r] = vault]
  /\ Goes(r, "rows")
  /\ UNCHANGED <<committed, holder, task, head>>

LockChain(r) ==
  /\ at[r] = "chain"
  /\ holder[ChainLock] = Nobody
  /\ holder' = [holder EXCEPT ![ChainLock] = r]
  /\ Goes(r, IF Op(r) = "freeze" THEN "rows" ELSE "append")
  /\ UNCHANGED <<committed, local, task, todo>>

\* mutated form: the lock is given back once the event is inserted, before the commit.
AppendEventUnlocking(r) ==
  /\ at[r] = "append"
  /\ head' = [head EXCEPT ![r] = Len(chain)]
  /\ holder' = [holder EXCEPT ![ChainLock] = Nobody]
  /\ Goes(r, "commit")
  /\ UNCHANGED <<committed, task, seen, writes, todo>>

\* The head of the chain is read and an event that follows it inserted.
AppendEvent(r) ==
  /\ at[r] = "append"
  /\ head' = [head EXCEPT ![r] = Len(chain)]
  /\ Goes(r, "commit")
  /\ UNCHANGED <<committed, holder, task, seen, writes, todo>>

\* What the handler makes of a row it read.
Written(r, row) ==
  IF Op(r) = "create" THEN NewRow
  ELSE IF Op(r) = "execute"
       THEN [status |-> "SPENDING", spent |-> row.spent + Amount[On(r)], version |-> row.version + 1]
       ELSE [row EXCEPT !.status = "FROZEN", !.version = row.version + 1]

Commit(r) ==
  /\ at[r] = "commit"
  /\ agent' = IF holder[AgentRow] = r THEN Wanted(r) ELSE agent
  /\ vault' = [v \in Vaults |-> IF v \in writes[r] THEN Written(r, seen[r][v]) ELSE vault[v]]
  /\ paid' = IF Op(r) = "execute" THEN paid \cup {On(r)} ELSE paid
  /\ chain' = Append(chain, head[r])
  /\ holder' = Released(r)
  /\ Goes(r, "end")
  /\ UNCHANGED <<local, task, todo>>

-----------------------------------------------------------------------------
\* What a transaction waits for, and a set of them that wait for one another.
Wants(r) ==
  IF at[r] \in {"flag", "rows"} THEN Ready(r) ELSE IF at[r] = "chain" THEN {ChainLock} ELSE {}

Stuck(S) == \A r \in S : Wants(r) # {} /\ \A l \in Wants(r) : holder[l] \in S

\* PostgreSQL breaks a deadlock by failing one of its transactions.
Victim(r) ==
  /\ \E S \in SUBSET Requests : r \in S /\ Stuck(S)
  /\ Rollback(r)

\* The process dies or the connection breaks before the commit, which comes after
\* the response is sent.
Lost(r) == at[r] # "end" /\ Rollback(r)

Step(r) ==
  \/ ReadVault(r) \/ Judge(r) \/ ReadAgent(r) \/ Take(r) \/ Flushed(r) \/ FindOpen(r)
  \/ LockChain(r) \/ AppendEvent(r) \/ Commit(r) \/ Victim(r)

Next == \E r \in Requests : Step(r) \/ Lost(r)

Spec == Init /\ [][Next]_vars

\* A request's thread runs on unless it waits for a lock.
FairSpec == Spec /\ \A r \in Requests : WF_vars(Step(r))

-----------------------------------------------------------------------------
\* The audit chain has one head at every moment: each committed event follows the
\* one that was committed before it, so verify_chain finds no fork.
OneChain == \A i \in 1..Len(chain) : chain[i] = i - 1

\* Every request ends, whoever waits for whom: a freeze that holds the chain's
\* lock and wants a vault's row, and a payment that holds the row and wants the
\* chain's lock.
EveryRequestEnds == \A r \in Requests : <>(at[r] = "end")

\* The payments whose execution found the agent active and has not ended.
Admitted ==
  {On(r) : r \in {q \in Requests : Op(q) = "execute"
                                   /\ at[q] \in {"rows", "chain", "append", "commit"}}}

Serial == INSTANCE SerialVault WITH
  status <- [v \in Vaults |-> vault[v].status],
  spent <- [v \in Vaults |-> vault[v].spent],
  admitted <- Admitted

\* Overlapping requests come to what some order of them would: no payment is
\* made twice or lost, goes beyond the limit or leaves a vault that was frozen
\* by then.
KeepsSerial == Serial!SerialSpec
=============================================================================
