--------------------------- MODULE VaultTxnProofs ---------------------------
(***************************************************************************)
(* Proofs about VaultTxn, for any requests, vaults and proposals: that the *)
(* audit chain never forks, and that overlapping transactions implement    *)
(* SerialVault.                                                            *)
(*                                                                         *)
(* TxnOK(r) says of one transaction what its commit rests on: it holds     *)
(* every row it writes, a row it holds is still as it read it, and what it *)
(* decided it decided on that row.                                         *)
(***************************************************************************)
EXTENDS VaultTxn, TLAPS

Row == {NoRow} \cup [status : {"ACTIVE", "SPENDING", "FROZEN"}, spent : Nat, version : Nat \ {0}]

Stages ==
  {"vault", "agent", "judge", "flag", "find", "rows", "chain", "append", "commit", "end"}

TxnTypeOK ==
  /\ agent \in {"ACTIVE", "FROZEN", "REVOKED"}
  /\ vault \in [Vaults -> Row]
  /\ paid \subseteq Proposals
  /\ chain \in Seq(Nat)
  /\ holder \in [Locks -> Requests \cup {Nobody}]
  /\ task \in [Requests -> Tasks]
  /\ at \in [Requests -> Stages]
  /\ seen \in [Requests -> [Vaults -> Row]]
  /\ writes \in [Requests -> SUBSET Vaults]
  /\ todo \in [Requests -> SUBSET Locks]
  /\ head \in [Requests -> Nat]

Kills(r) == On(r) = AgentRow
Decided(r) == at[r] \in {"rows", "chain", "append", "commit"}

\* Which stages a request goes through.
StageOK(r) ==
  /\ Kills(r) => at[r] \notin {"vault", "judge"}
  /\ ~Kills(r) => at[r] \notin {"agent", "flag", "find"}
  /\ at[r] = "judge" => Op(r) = "execute"
  /\ at[r] = "find" \/ (Kills(r) /\ at[r] = "rows") => Op(r) = "REVOKE"

\* What it read of the rows that it writes.
ReadOK(r) ==
  /\ at[r] \in {"vault", "agent", "flag"} \/ Op(r) \in {"FREEZE", "UNFREEZE"} => writes[r] = {}
  /\ Kills(r) /\ Decided(r) => \A v \in writes[r] : seen[r][v].status \in Open
  /\ ~Kills(r) /\ (at[r] = "judge" \/ Decided(r)) => writes[r] = {Target(r)}
  /\ Op(r) = "freeze" /\ Decided(r) => seen[r][On(r)].status \in Open
  /\ Op(r) = "create" /\ Decided(r) => seen[r][On(r)].status = "none"
  /\ Op(r) = "execute" /\ Decided(r) =>
       /\ seen[r][Target(r)].status \in Open
       /\ seen[r][Target(r)].spent + Amount[On(r)] <= Limit

\* What it holds and has still to take.
HoldsOK(r) ==
  /\ at[r] # "end" => \A v \in writes[r] : v \in todo[r] \/ holder[v] = r
  /\ Op(r) = "execute" /\ (at[r] = "judge" \/ Decided(r)) => On(r) \in todo[r] \/ holder[On(r)] = r
  /\ at[r] \in {"append", "commit"} \/ (at[r] = "chain" /\ Op(r) # "freeze") => todo[r] = {}
  /\ at[r] \in {"append", "commit"} \/ (at[r] = "rows" /\ Op(r) = "freeze") => holder[ChainLock] = r
  /\ ChainLock \notin todo[r]
  /\ AgentRow \in todo[r] \/ holder[AgentRow] = r => Kills(r)

\* What is still as it was when it was read.
CurrentOK(r) ==
  /\ \A v \in Vaults : holder[v] = r => seen[r][v] = vault[v]
  /\ \A p \in Proposals : holder[p] = r => p \notin paid
  /\ \A v \in Vaults : /\ seen[r][v].version <= vault[v].version
                       /\ seen[r][v].version = vault[v].version => seen[r][v] = vault[v]
  /\ at[r] = "commit" => head[r] = Len(chain)

TxnOK(r) == StageOK(r) /\ ReadOK(r) /\ HoldsOK(r) /\ CurrentOK(r)

TxnInv == TxnTypeOK /\ OneChain /\ \A r \in Requests : TxnOK(r)

-----------------------------------------------------------------------------
LEMMA TaskFacts ==
  ASSUME task \in [Requests -> Tasks], NEW r \in Requests
  PROVE  /\ Op(r) \in {"execute", "freeze", "create", "FREEZE", "UNFREEZE", "REVOKE"}
         /\ Op(r) = "execute" => On(r) \in Proposals /\ Target(r) = VaultOf[On(r)]
         /\ Op(r) \in {"freeze", "create"} => On(r) \in Vaults /\ Target(r) = On(r)
         /\ Op(r) \in {"execute", "freeze", "create"} => Target(r) \in Vaults
         /\ Kills(r) <=> Op(r) \in {"FREEZE", "UNFREEZE", "REVOKE"}
         /\ ~Kills(r) => {On(r), Target(r)} \subseteq Locks
<1>1. task[r] \in Tasks
  OBVIOUS
<1>2. CASE task[r] \in [op : {"execute"}, on : Proposals]
  <2>1. Op(r) = "execute" /\ On(r) \in Proposals
    BY <1>2 DEF Op, On
  <2>2. Target(r) = VaultOf[On(r)] /\ Target(r) \in Vaults
    BY <2>1, TxnAssumption DEF Target
  <2>. QED
    BY <2>1, <2>2, TxnAssumption DEF Kills, Locks
<1>3. CASE task[r] \in [op : {"freeze", "create"}, on : Vaults]
  <2>1. Op(r) \in {"freeze", "create"} /\ On(r) \in Vaults
    BY <1>3 DEF Op, On
  <2>2. Target(r) = On(r)
    BY <2>1 DEF Target
  <2>. QED
    BY <2>1, <2>2, TxnAssumption DEF Kills, Locks
<1>4. CASE task[r] \in [op : {"FREEZE", "UNFREEZE", "REVOKE"}, on : {AgentRow}]
  <2>1. Op(r) \in {"FREEZE", "UNFREEZE", "REVOKE"} /\ On(r) = AgentRow
    BY <1>4 DEF Op, On
  <2>. QED
    BY <2>1 DEF Kills
<1>. QED
  BY <1>1, <1>2, <1>3, <1>4 DEF Tasks

\* A step that changes nothing committed and none of a transaction's own locks
\* leaves what its commit rests on.
LEMMA OthersKept ==
  ASSUME NEW s \in Requests, TxnOK(s), UNCHANGED <<committed, task>>,
         holder \in [Locks -> Requests \cup {Nobody}],
         at'[s] = at[s], seen'[s] = seen[s], writes'[s] = writes[s],
         todo'[s] = todo[s], head'[s] = head[s],
         \A l \in Locks : holder'[l] = s <=> holder[l] = s,
         writes[s] \subseteq Vaults,
         Op(s) = "execute" => On(s) \in Proposals
  PROVE  TxnOK(s)'
<1>1. /\ Op(s)' = Op(s) /\ On(s)' = On(s) /\ Target(s)' = Target(s)
      /\ Kills(s)' = Kills(s) /\ Decided(s)' = Decided(s)
  BY DEF Op, On, Target, Kills, Decided
<1>2. vault' = vault /\ paid' = paid /\ chain' = chain
  BY DEF committed
<1>3. StageOK(s)' /\ ReadOK(s)'
  BY <1>1 DEF TxnOK, StageOK, ReadOK
<1>4. HoldsOK(s)'
  BY <1>1, TxnAssumption DEF TxnOK, HoldsOK, Locks
<1>5. CurrentOK(s)'
  BY <1>2, TxnAssumption DEF TxnOK, CurrentOK, Locks
<1>. QED
  BY <1>3, <1>4, <1>5 DEF TxnOK

LEMMA ReleasedFacts ==
  ASSUME NEW r \in Requests, holder \in [Locks -> Requests \cup {Nobody}]
  PROVE  /\ Released(r) \in [Locks -> Requests \cup {Nobody}]
         /\ \A l \in Locks : Released(r)[l] # r
         /\ \A s \in Requests \ {r}, l \in Locks : Released(r)[l] = s <=> holder[l] = s
  BY TxnAssumption DEF Released

-----------------------------------------------------------------------------
THEOREM TxnInit == Init => TxnInv
<1>. SUFFICES ASSUME Init PROVE TxnInv
  OBVIOUS
<1>1. NewRow \in Row /\ NoRow \in Row
  BY DEF Row, NewRow, NoRow
<1>2. vault \in [Vaults -> Row]
  BY <1>1 DEF Init
<1>3. TxnTypeOK
  BY <1>2, TxnAssumption DEF Init, TxnTypeOK, Stages, Locks
<1>4. OneChain
  BY DEF Init, OneChain
<1>5. ASSUME NEW r \in Requests PROVE TxnOK(r)
  <2>1. at[r] \in {"agent", "vault"} /\ (Kills(r) <=> at[r] = "agent")
    BY DEF Init, Kills
  <2>2. \A l \in Locks : holder[l] # r
    BY TxnAssumption DEF Init
  <2>3. todo[r] = {} /\ writes[r] = {} /\ seen[r] = vault
    BY DEF Init
  <2>4. StageOK(r)
    BY <2>1 DEF StageOK
  <2>5. ReadOK(r)
    BY <2>1, <2>3 DEF ReadOK, Decided
  <2>6. HoldsOK(r)
    BY <2>1, <2>2, <2>3 DEF HoldsOK, Decided, Locks
  <2>7. CurrentOK(r)
    <3>1. \A v \in Vaults : vault[v].version \in Nat
      BY <1>2 DEF Row, NoRow
    <3>. QED
      BY <2>1, <2>2, <2>3, <3>1 DEF CurrentOK, Locks
  <2>. QED
    BY <2>4, <2>5, <2>6, <2>7 DEF TxnOK
<1>. QED
  BY <1>3, <1>4, <1>5 DEF TxnInv

LEMMA RollbackKeeps ==
  ASSUME TxnInv, NEW r \in Requests, Rollback(r)
  PROVE  TxnInv'
<1>1. holder' = Released(r) /\ at' = [at EXCEPT ![r] = "end"]
  BY DEF Rollback, Goes
<1>2. UNCHANGED <<agent, vault, paid, chain, seen, writes, head, task, todo>>
  BY DEF Rollback, committed, local
<1>3. TxnTypeOK'
  BY <1>1, <1>2, ReleasedFacts DEF TxnInv, TxnTypeOK, Stages
<1>4. OneChain'
  BY <1>2 DEF TxnInv, OneChain
<1>5. ASSUME NEW s \in Requests PROVE TxnOK(s)'
  <2>1. CASE s = r
    <3>1. at'[r] = "end" /\ \A l \in Locks : holder'[l] # r
      BY <1>1, ReleasedFacts DEF TxnInv, TxnTypeOK
    <3>2. StageOK(r)' /\ ReadOK(r)'
      BY <3>1, <1>2 DEF StageOK, ReadOK, Decided, TxnInv, TxnOK, Kills, Op, On
    <3>3. HoldsOK(r)'
      BY <3>1, <1>2 DEF HoldsOK, Decided, TxnInv, TxnOK, Kills, Op, On, Locks
    <3>4. CurrentOK(r)'
      BY <3>1, <1>2 DEF CurrentOK, TxnInv, TxnOK, Locks
    <3>. QED
      BY <2>1, <3>2, <3>3, <3>4 DEF TxnOK
  <2>2. CASE s # r
    <3>0. holder \in [Locks -> Requests \cup {Nobody}] /\ s \in Requests \ {r}
      BY <2>2 DEF TxnInv, TxnTypeOK
    <3>1. \A l \in Locks : holder'[l] = s <=> holder[l] = s
      <4>1. \A l \in Locks : Released(r)[l] = s <=> holder[l] = s
        BY <3>0, ReleasedFacts
      <4>. QED
        BY <1>1, <4>1
    <3>2. at'[s] = at[s]
      BY <1>1, <2>2 DEF TxnInv, TxnTypeOK
    <3>3. TxnOK(s) /\ writes[s] \subseteq Vaults
      BY DEF TxnInv, TxnTypeOK
    <3>4. Op(s) = "execute" => On(s) \in Proposals
      BY TaskFacts DEF TxnInv, TxnTypeOK
    <3>. QED
      BY <1>2, <3>1, <3>2, <3>3, <3>4, OthersKept DEF committed, TxnInv, TxnTypeOK
  <2>. QED
    BY <2>1, <2>2
<1>. QED
  BY <1>3, <1>4, <1>5 DEF TxnInv

-----------------------------------------------------------------------------
\* A step that commits nothing is proved for the transaction that takes it.
LEMMA OwnStep ==
  ASSUME TxnInv, NEW r \in Requests, UNCHANGED <<committed, task>>, TxnTypeOK', TxnOK(r)',
         \A s \in Requests \ {r} :
           /\ at'[s] = at[s] /\ seen'[s] = seen[s] /\ writes'[s] = writes[s]
           /\ todo'[s] = todo[s] /\ head'[s] = head[s]
           /\ \A l \in Locks : holder'[l] = s <=> holder[l] = s
  PROVE  TxnInv'
<1>1. OneChain'
  BY DEF TxnInv, OneChain, committed
<1>2. ASSUME NEW s \in Requests \ {r} PROVE TxnOK(s)'
  <2>1. TxnOK(s) /\ writes[s] \subseteq Vaults
    BY DEF TxnInv, TxnTypeOK
  <2>2. Op(s) = "execute" => On(s) \in Proposals
    BY TaskFacts DEF TxnInv, TxnTypeOK
  <2>3. holder \in [Locks -> Requests \cup {Nobody}]
    BY DEF TxnInv, TxnTypeOK
  <2>. QED
    BY <2>1, <2>2, <2>3, OthersKept
<1>. QED
  BY <1>1, <1>2 DEF TxnInv

LEMMA ReadVaultKeeps ==
  ASSUME TxnInv, NEW r \in Requests, ReadVault(r)
  PROVE  TxnInv'
<1>1. CASE ~Suits(r, vault[Target(r)])
  BY <1>1, RollbackKeeps DEF ReadVault
<1>2. CASE Suits(r, vault[Target(r)])
  <2>0. /\ at[r] = "vault" /\ at \in [Requests -> Stages]
        /\ UNCHANGED <<agent, vault, paid, chain, holder, task, head>>
        /\ seen' = [seen EXCEPT ![r] = vault]
        /\ writes' = [writes EXCEPT ![r] = {Target(r)}]
        /\ todo' = [todo EXCEPT ![r] = {On(r), Target(r)}]
        /\ at' = [at EXCEPT ![r] = IF Op(r) = "execute" THEN "judge"
                                   ELSE IF Op(r) = "freeze" THEN "chain" ELSE "rows"]
    BY <1>2, SMT DEF ReadVault, Goes, Rollback, committed, TxnInv, TxnTypeOK
  <2>1. /\ Op(r) \in {"execute", "freeze", "create"} /\ ~Kills(r)
        /\ Target(r) \in Vaults /\ {On(r), Target(r)} \subseteq Locks
        /\ Op(r) = "execute" => On(r) \in Proposals
        /\ Op(r) \in {"freeze", "create"} => Target(r) = On(r)
    BY <2>0, TaskFacts DEF TxnInv, TxnTypeOK, TxnOK, StageOK
  <2>2. /\ Op(r)' = Op(r) /\ On(r)' = On(r) /\ Target(r)' = Target(r) /\ Kills(r)' = Kills(r)
    BY <2>0 DEF Op, On, Target, Kills
  <2>3. /\ seen'[r] = vault /\ writes'[r] = {Target(r)} /\ todo'[r] = {On(r), Target(r)}
        /\ at'[r] = IF Op(r) = "execute" THEN "judge"
                    ELSE IF Op(r) = "freeze" THEN "chain" ELSE "rows"
    BY <2>0 DEF TxnInv, TxnTypeOK
  <2>4. TxnTypeOK'
    <3>1. at' \in [Requests -> Stages]
      BY <2>0 DEF Stages
    <3>. QED
      BY <2>0, <2>1, <3>1 DEF TxnInv, TxnTypeOK
  <2>5. StageOK(r)'
    BY <2>1, <2>2, <2>3 DEF StageOK
  <2>6. ReadOK(r)'
    BY <1>2, <2>1, <2>2, <2>3 DEF ReadOK, Decided, Suits
  <2>7. HoldsOK(r)'
    <3>1. AgentRow \notin {On(r), Target(r)} /\ ChainLock \notin {On(r), Target(r)}
      BY <2>1, TxnAssumption DEF Kills
    <3>2. holder[AgentRow] # r
      BY <2>1 DEF TxnInv, TxnOK, HoldsOK
    <3>. QED
      BY <2>0, <2>1, <2>2, <2>3, <3>1, <3>2 DEF HoldsOK, Decided
  <2>8. CurrentOK(r)'
    <3>1. \A v \in Vaults : vault[v].version \in Nat
      BY DEF TxnInv, TxnTypeOK, Row, NoRow
    <3>. QED
      BY <2>0, <2>1, <2>3, <3>1 DEF CurrentOK, TxnInv, TxnOK
  <2>9. TxnOK(r)'
    BY <2>5, <2>6, <2>7, <2>8 DEF TxnOK
  <2>. QED
    BY <2>0, <2>4, <2>9, OwnStep DEF committed, TxnInv, TxnTypeOK
<1>. QED
  BY <1>1, <1>2

LEMMA JudgeKeeps ==
  ASSUME TxnInv, NEW r \in Requests, Judge(r)
  PROVE  TxnInv'
<1>1. CASE On(r) \in paid \/ ~Allowed(r)
  BY <1>1, RollbackKeeps DEF Judge
<1>2. CASE On(r) \notin paid /\ Allowed(r)
  <2>0. /\ at[r] = "judge" /\ at' = [at EXCEPT ![r] = "rows"]
        /\ UNCHANGED <<agent, vault, paid, chain, holder, task, seen, writes, head, todo>>
    BY <1>2 DEF Judge, Goes, committed, local
  <2>1. Op(r) = "execute" /\ ~Kills(r)
    BY <2>0, TaskFacts DEF TxnInv, TxnTypeOK, TxnOK, StageOK
  <2>2. /\ Op(r)' = Op(r) /\ On(r)' = On(r) /\ Target(r)' = Target(r) /\ Kills(r)' = Kills(r)
    BY <2>0 DEF Op, On, Target, Kills
  <2>3. at'[r] = "rows"
    BY <2>0 DEF TxnInv, TxnTypeOK
  <2>4. TxnTypeOK'
    BY <2>0 DEF TxnInv, TxnTypeOK, Stages
  <2>5. StageOK(r)'
    BY <2>1, <2>2, <2>3 DEF StageOK
  <2>6. ReadOK(r)'
    BY <1>2, <2>0, <2>1, <2>2, <2>3 DEF ReadOK, Decided, Allowed, TxnInv, TxnOK
  <2>7. HoldsOK(r)'
    BY <2>0, <2>1, <2>2, <2>3 DEF HoldsOK, Decided, TxnInv, TxnOK
  <2>8. CurrentOK(r)'
    BY <2>0, <2>3 DEF CurrentOK, TxnInv, TxnOK
  <2>9. TxnOK(r)'
    BY <2>5, <2>6, <2>7, <2>8 DEF TxnOK
  <2>. QED
    BY <2>0, <2>4, <2>9, OwnStep DEF committed, TxnInv, TxnTypeOK
<1>. QED
  BY <1>1, <1>2 DEF Judge

LEMMA ReadAgentKeeps ==
  ASSUME TxnInv, NEW r \in Requests, ReadAgent(r)
  PROVE  TxnInv'
<1>1. CASE Op(r) = "UNFREEZE" /\ agent = "REVOKED"
  BY <1>1, RollbackKeeps DEF ReadAgent
<1>2. CASE ~(Op(r) = "UNFREEZE" /\ agent = "REVOKED")
  <2>0. /\ at[r] = "agent" /\ at' = [at EXCEPT ![r] = "flag"]
        /\ todo' = [todo EXCEPT ![r] = IF agent = Wanted(r) THEN {} ELSE {AgentRow}]
        /\ UNCHANGED <<agent, vault, paid, chain, holder, task, seen, writes, head>>
    BY <1>2 DEF ReadAgent, Goes, committed
  <2>1. Kills(r) /\ Op(r) \in {"FREEZE", "UNFREEZE", "REVOKE"}
    BY <2>0, TaskFacts DEF TxnInv, TxnTypeOK, TxnOK, StageOK
  <2>2. /\ Op(r)' = Op(r) /\ On(r)' = On(r) /\ Target(r)' = Target(r) /\ Kills(r)' = Kills(r)
    BY <2>0 DEF Op, On, Target, Kills
  <2>3. at'[r] = "flag" /\ todo'[r] \subseteq {AgentRow}
    BY <2>0 DEF TxnInv, TxnTypeOK
  <2>4. TxnTypeOK'
    BY <2>0 DEF TxnInv, TxnTypeOK, Stages, Locks
  <2>5. StageOK(r)'
    BY <2>1, <2>2, <2>3 DEF StageOK
  <2>6. ReadOK(r)'
    BY <2>0, <2>1, <2>2, <2>3 DEF ReadOK, Decided, TxnInv, TxnOK
  <2>7. HoldsOK(r)'
    <3>1. writes'[r] = {}
      BY <2>0 DEF TxnInv, TxnOK, ReadOK
    <3>. QED
      BY <2>0, <2>1, <2>2, <2>3, <3>1, TxnAssumption DEF HoldsOK, Decided, TxnInv, TxnOK
  <2>8. CurrentOK(r)'
    BY <2>0, <2>3 DEF CurrentOK, TxnInv, TxnOK
  <2>9. TxnOK(r)'
    BY <2>5, <2>6, <2>7, <2>8 DEF TxnOK
  <2>. QED
    BY <2>0, <2>4, <2>9, OwnStep DEF committed, TxnInv, TxnTypeOK
<1>. QED
  BY <1>1, <1>2

LEMMA TakeKeeps ==
  ASSUME TxnInv, NEW r \in Requests, Take(r)
  PROVE  TxnInv'
<1>1. PICK l \in Ready(r) :
        /\ at[r] \in {"flag", "rows"}
        /\ holder[l] = Nobody
        /\ \/ /\ Fresh(r, l)
              /\ holder' = [holder EXCEPT ![l] = r]
              /\ todo' = [todo EXCEPT ![r] = todo[r] \ {l}]
              /\ UNCHANGED <<committed, local, task, at>>
           \/ /\ ~Fresh(r, l)
              /\ Rollback(r)
  BY DEF Take
<1>2. CASE Rollback(r)
  BY <1>2, RollbackKeeps
<1>3. CASE ~Rollback(r)
  <2>0. /\ holder' = [holder EXCEPT ![l] = r]
        /\ todo' = [todo EXCEPT ![r] = todo[r] \ {l}]
        /\ UNCHANGED <<agent, vault, paid, chain, task, at, seen, writes, head>>
        /\ l \in todo[r] /\ l \in Locks /\ Fresh(r, l)
    BY <1>1, <1>3 DEF committed, local, Ready, TxnInv, TxnTypeOK
  <2>1. /\ Op(r)' = Op(r) /\ On(r)' = On(r) /\ Target(r)' = Target(r) /\ Kills(r)' = Kills(r)
        /\ Decided(r)' = Decided(r)
    BY <2>0 DEF Op, On, Target, Kills, Decided
  <2>2. /\ holder'[l] = r /\ todo'[r] = todo[r] \ {l}
        /\ \A k \in Locks \ {l} : holder'[k] = holder[k]
    BY <2>0 DEF TxnInv, TxnTypeOK
  <2>3. TxnTypeOK'
    BY <2>0 DEF TxnInv, TxnTypeOK
  <2>4. StageOK(r)' /\ ReadOK(r)'
    BY <2>0, <2>1 DEF StageOK, ReadOK, TxnInv, TxnOK
  <2>5. HoldsOK(r)'
    <3>1. TxnOK(r) /\ writes[r] \subseteq Vaults /\ Vaults \subseteq Locks
      BY DEF TxnInv, TxnTypeOK, Locks
    <3>2. Op(r) = "execute" => On(r) \in Locks
      BY TaskFacts DEF TxnInv, TxnTypeOK, Locks
    <3>3. l # ChainLock /\ ChainLock \in Locks /\ AgentRow \in Locks
      BY <2>0, <3>1 DEF TxnOK, HoldsOK, Locks
    <3>4. l = AgentRow => Kills(r)
      BY <2>0, <3>1 DEF TxnOK, HoldsOK
    <3>. QED
      BY <1>1, <2>0, <2>1, <2>2, <3>1, <3>2, <3>3, <3>4 DEF HoldsOK, TxnOK
  <2>6. CurrentOK(r)'
    <3>1. TxnOK(r) /\ Vaults \subseteq Locks /\ Proposals \subseteq Locks
      BY DEF TxnInv, Locks
    <3>. QED
      BY <1>1, <2>0, <2>2, <3>1 DEF CurrentOK, TxnOK, Fresh
  <2>7. TxnOK(r)'
    BY <2>4, <2>5, <2>6 DEF TxnOK
  <2>8. ASSUME NEW s \in Requests \ {r}, NEW k \in Locks
        PROVE  holder'[k] = s <=> holder[k] = s
    BY <1>1, <2>2, TxnAssumption
  <2>. QED
    BY <2>0, <2>3, <2>7, <2>8, OwnStep DEF committed, TxnInv, TxnTypeOK
<1>. QED
  BY <1>2, <1>3

LEMMA FlushedKeeps ==
  ASSUME TxnInv, NEW r \in Requests, Flushed(r)
  PROVE  TxnInv'
<1>0. /\ todo[r] = {}
      /\ UNCHANGED <<agent, vault, paid, chain, holder, task, seen, writes, head, todo>>
  BY DEF Flushed, committed, local
<1>1. \/ /\ at[r] = "flag"
         /\ at' = [at EXCEPT ![r] = IF Op(r) = "REVOKE" THEN "find" ELSE "chain"]
      \/ /\ at[r] = "rows"
         /\ at' = [at EXCEPT ![r] = IF Op(r) = "freeze" THEN "append" ELSE "chain"]
  BY DEF Flushed, Goes
<1>2. /\ Op(r)' = Op(r) /\ On(r)' = On(r) /\ Target(r)' = Target(r) /\ Kills(r)' = Kills(r)
  BY <1>0 DEF Op, On, Target, Kills
<1>3. \/ at[r] = "flag" /\ Op(r) = "REVOKE" /\ at'[r] = "find"
      \/ at[r] = "flag" /\ Op(r) # "REVOKE" /\ at'[r] = "chain"
      \/ at[r] = "rows" /\ Op(r) = "freeze" /\ at'[r] = "append"
      \/ at[r] = "rows" /\ Op(r) # "freeze" /\ at'[r] = "chain"
  BY <1>1 DEF TxnInv, TxnTypeOK
<1>4. /\ TxnOK(r)
      /\ at[r] = "flag" => Kills(r) /\ Op(r) \in {"FREEZE", "UNFREEZE", "REVOKE"}
  BY TaskFacts DEF TxnInv, TxnTypeOK, TxnOK, StageOK
<1>5. TxnTypeOK'
  <2>1. at' \in [Requests -> Stages]
    BY <1>1 DEF TxnInv, TxnTypeOK, Stages
  <2>. QED
    BY <1>0, <2>1 DEF TxnInv, TxnTypeOK
<1>6. StageOK(r)'
  BY <1>2, <1>3, <1>4 DEF TxnOK, StageOK
<1>7. ReadOK(r)'
  BY <1>0, <1>2, <1>3, <1>4 DEF TxnOK, ReadOK, Decided
<1>8. HoldsOK(r)'
  BY <1>0, <1>2, <1>3, <1>4 DEF TxnOK, HoldsOK, Decided
<1>9. CurrentOK(r)'
  BY <1>0, <1>3, <1>4 DEF TxnOK, CurrentOK
<1>10. TxnOK(r)'
  BY <1>6, <1>7, <1>8, <1>9 DEF TxnOK
<1>11. \A s \in Requests \ {r} : at'[s] = at[s]
  BY <1>1 DEF TxnInv, TxnTypeOK
<1>. QED
  BY <1>0, <1>5, <1>10, <1>11, OwnStep DEF committed

LEMMA FindOpenKeeps ==
  ASSUME TxnInv, NEW r \in Requests, FindOpen(r)
  PROVE  TxnInv'
<1>. DEFINE found == {v \in Vaults : vault[v].status \in Open}
<1>0. /\ at[r] = "find" /\ at' = [at EXCEPT ![r] = "rows"]
      /\ writes' = [writes EXCEPT ![r] = found] /\ todo' = [todo EXCEPT ![r] = found]
      /\ seen' = [seen EXCEPT ![r] = vault]
      /\ UNCHANGED <<agent, vault, paid, chain, holder, task, head>>
  BY DEF FindOpen, Goes, committed
<1>1. /\ Op(r)' = Op(r) /\ On(r)' = On(r) /\ Target(r)' = Target(r) /\ Kills(r)' = Kills(r)
  BY <1>0 DEF Op, On, Target, Kills
<1>2. at'[r] = "rows" /\ writes'[r] = found /\ todo'[r] = found /\ seen'[r] = vault
  BY <1>0 DEF TxnInv, TxnTypeOK
<1>3. TxnOK(r) /\ Op(r) = "REVOKE" /\ Kills(r)
  BY <1>0, TaskFacts DEF TxnInv, TxnTypeOK, TxnOK, StageOK
<1>4. TxnTypeOK'
  BY <1>0 DEF TxnInv, TxnTypeOK, Stages, Locks
<1>5. StageOK(r)' /\ ReadOK(r)'
  BY <1>1, <1>2, <1>3 DEF StageOK, ReadOK, Decided
<1>6. HoldsOK(r)'
  BY <1>0, <1>1, <1>2, <1>3, TxnAssumption DEF HoldsOK, Decided, TxnOK
<1>7. CurrentOK(r)'
  <2>1. \A v \in Vaults : vault[v].version \in Nat
    BY DEF TxnInv, TxnTypeOK, Row, NoRow
  <2>. QED
    BY <1>0, <1>2, <1>3, <2>1 DEF CurrentOK, TxnOK
<1>8. TxnOK(r)'
  BY <1>5, <1>6, <1>7 DEF TxnOK
<1>. QED
  BY <1>0, <1>4, <1>8, OwnStep DEF committed, TxnInv, TxnTypeOK

LEMMA LockChainKeeps ==
  ASSUME TxnInv, NEW r \in Requests, LockChain(r)
  PROVE  TxnInv'
<1>0. /\ at[r] = "chain" /\ holder[ChainLock] = Nobody
      /\ holder' = [holder EXCEPT ![ChainLock] = r]
      /\ at' = [at EXCEPT ![r] = IF Op(r) = "freeze" THEN "rows" ELSE "append"]
      /\ UNCHANGED <<agent, vault, paid, chain, task, seen, writes, head, todo>>
  BY DEF LockChain, Goes, committed, local
<1>1. /\ Op(r)' = Op(r) /\ On(r)' = On(r) /\ Target(r)' = Target(r) /\ Kills(r)' = Kills(r)
  BY <1>0 DEF Op, On, Target, Kills
<1>2. /\ holder'[ChainLock] = r
      /\ (Op(r) = "freeze" /\ at'[r] = "rows") \/ (Op(r) # "freeze" /\ at'[r] = "append")
      /\ \A k \in Locks \ {ChainLock} : holder'[k] = holder[k]
  BY <1>0 DEF TxnInv, TxnTypeOK, Locks
<1>3. /\ TxnOK(r)
      /\ Op(r) = "freeze" => ~Kills(r)
      /\ Op(r) = "execute" => On(r) \in Proposals
      /\ writes[r] \subseteq Vaults
  BY TaskFacts DEF TxnInv, TxnTypeOK
<1>4. TxnTypeOK'
  <2>1. at' \in [Requests -> Stages]
    BY <1>0 DEF TxnInv, TxnTypeOK, Stages
  <2>. QED
    BY <1>0, <2>1 DEF TxnInv, TxnTypeOK
<1>5. StageOK(r)' /\ ReadOK(r)'
  BY <1>0, <1>1, <1>2, <1>3 DEF StageOK, ReadOK, Decided, TxnOK
<1>6. HoldsOK(r)'
  BY <1>0, <1>1, <1>2, <1>3, TxnAssumption DEF HoldsOK, Decided, TxnOK, Locks
<1>7. CurrentOK(r)'
  BY <1>0, <1>2, <1>3, TxnAssumption DEF CurrentOK, TxnOK, Locks
<1>8. TxnOK(r)'
  BY <1>5, <1>6, <1>7 DEF TxnOK
<1>9. \A s \in Requests \ {r}, k \in Locks : holder'[k] = s <=> holder[k] = s
  BY <1>0, <1>2, TxnAssumption
<1>10. \A s \in Requests \ {r} : at'[s] = at[s]
  BY <1>0 DEF TxnInv, TxnTypeOK
<1>. QED
  BY <1>0, <1>4, <1>8, <1>9, <1>10, OwnStep DEF committed

LEMMA AppendEventKeeps ==
  ASSUME TxnInv, NEW r \in Requests, AppendEvent(r)
  PROVE  TxnInv'
<1>0. /\ at[r] = "append" /\ at' = [at EXCEPT ![r] = "commit"]
      /\ head' = [head EXCEPT ![r] = Len(chain)]
      /\ UNCHANGED <<agent, vault, paid, chain, holder, task, seen, writes, todo>>
  BY DEF AppendEvent, Goes, committed
<1>1. /\ Op(r)' = Op(r) /\ On(r)' = On(r) /\ Target(r)' = Target(r) /\ Kills(r)' = Kills(r)
  BY <1>0 DEF Op, On, Target, Kills
<1>2. at'[r] = "commit" /\ head'[r] = Len(chain) /\ TxnOK(r)
  BY <1>0 DEF TxnInv, TxnTypeOK
<1>3. TxnTypeOK'
  BY <1>0 DEF TxnInv, TxnTypeOK, Stages
<1>4. StageOK(r)' /\ ReadOK(r)'
  BY <1>0, <1>1, <1>2 DEF StageOK, ReadOK, Decided, TxnOK
<1>5. HoldsOK(r)' /\ CurrentOK(r)'
  BY <1>0, <1>1, <1>2 DEF HoldsOK, CurrentOK, Decided, TxnOK
<1>6. TxnOK(r)'
  BY <1>4, <1>5 DEF TxnOK
<1>. QED
  BY <1>0, <1>3, <1>6, OwnStep DEF committed, TxnInv, TxnTypeOK

-----------------------------------------------------------------------------
\* A written row is a row, one version after the one that was read.
LEMMA WrittenOK ==
  ASSUME task \in [Requests -> Tasks], NEW r \in Requests, NEW row \in Row,
         Op(r) = "create" => row.status = "none"
  PROVE  Written(r, row) \in Row /\ Written(r, row).version = row.version + 1
<1>1. row.spent \in Nat /\ row.version \in Nat
  BY DEF Row, NoRow
<1>2. CASE Op(r) = "create"
  BY <1>2 DEF Written, Row, NewRow, NoRow
<1>3. CASE Op(r) = "execute"
  <2>1. Amount[On(r)] \in Nat
    BY <1>3, TaskFacts, TxnAssumption
  <2>. QED
    BY <1>1, <1>3, <2>1 DEF Written, Row
<1>4. CASE Op(r) \notin {"create", "execute"}
  <2>1. Written(r, row) = [row EXCEPT !.status = "FROZEN", !.version = row.version + 1]
    BY <1>4 DEF Written
  <2>2. row = [status |-> row.status, spent |-> row.spent, version |-> row.version]
    BY DEF Row, NoRow
  <2>3. Written(r, row) = [status |-> "FROZEN", spent |-> row.spent, version |-> row.version + 1]
    BY <2>1, <2>2
  <2>. QED
    BY <1>1, <2>3 DEF Row
<1>. QED
  BY <1>2, <1>3, <1>4

\* What a transaction that commits holds, and what it writes.
LEMMA CommitFacts ==
  ASSUME TxnInv, NEW r \in Requests, Commit(r)
  PROVE  /\ at[r] = "commit" /\ at' = [at EXCEPT ![r] = "end"] /\ holder' = Released(r)
         /\ UNCHANGED <<task, seen, writes, head, todo>>
         /\ \A v \in writes[r] : /\ v \in Vaults /\ holder[v] = r /\ seen[r][v] = vault[v]
                                 /\ vault'[v] = Written(r, vault[v])
                                 /\ vault'[v] \in Row
                                 /\ vault'[v].version = vault[v].version + 1
         /\ \A v \in Vaults \ writes[r] : vault'[v] = vault[v]
         /\ vault' \in [Vaults -> Row]
         /\ holder[ChainLock] = r /\ head[r] = Len(chain)
         /\ Op(r) = "execute" => holder[On(r)] = r /\ On(r) \in Proposals \ paid
<1>0. /\ at[r] = "commit" /\ at' = [at EXCEPT ![r] = "end"] /\ holder' = Released(r)
      /\ UNCHANGED <<task, seen, writes, head, todo>>
      /\ vault' = [v \in Vaults |-> IF v \in writes[r] THEN Written(r, seen[r][v]) ELSE vault[v]]
  BY DEF Commit, Goes, local
<1>1. TxnOK(r) /\ writes[r] \subseteq Vaults /\ vault \in [Vaults -> Row]
  BY DEF TxnInv, TxnTypeOK
<1>2. todo[r] = {} /\ holder[ChainLock] = r /\ head[r] = Len(chain)
  BY <1>0, <1>1 DEF TxnOK, HoldsOK, CurrentOK
<1>3. Op(r) = "execute" => holder[On(r)] = r /\ On(r) \in Proposals \ paid
  <2>1. Op(r) = "execute" => On(r) \in Proposals
    BY TaskFacts DEF TxnInv, TxnTypeOK
  <2>. QED
    BY <1>0, <1>1, <1>2, <2>1 DEF TxnOK, HoldsOK, CurrentOK, Decided
<1>4. ASSUME NEW v \in writes[r]
      PROVE  /\ v \in Vaults /\ holder[v] = r /\ seen[r][v] = vault[v]
             /\ vault'[v] = Written(r, vault[v])
             /\ vault'[v] \in Row
             /\ vault'[v].version = vault[v].version + 1
  <2>1. v \in Vaults /\ holder[v] = r /\ seen[r][v] = vault[v]
    BY <1>0, <1>1, <1>2 DEF TxnOK, HoldsOK, CurrentOK
  <2>2. vault'[v] = Written(r, vault[v]) /\ vault[v] \in Row
    BY <1>0, <1>1, <2>1
  <2>3. Op(r) = "create" => vault[v].status = "none"
    <3>1. Op(r) = "create" => On(r) \in Vaults /\ Target(r) = On(r) /\ ~Kills(r)
      BY TaskFacts DEF TxnInv, TxnTypeOK
    <3>. QED
      BY <1>0, <1>1, <2>1, <3>1 DEF TxnOK, ReadOK, Decided
  <2>4. Written(r, vault[v]) \in Row /\ Written(r, vault[v]).version = vault[v].version + 1
    BY <2>2, <2>3, WrittenOK DEF TxnInv, TxnTypeOK
  <2>. QED
    BY <2>1, <2>2, <2>4
<1>5. \A v \in Vaults \ writes[r] : vault'[v] = vault[v]
  BY <1>0
<1>6. vault' \in [Vaults -> Row]
  <2>1. \A v \in Vaults : vault'[v] \in Row
    BY <1>1, <1>4, <1>5
  <2>. QED
    BY <1>0, <2>1
<1>. QED
  BY <1>0, <1>2, <1>3, <1>4, <1>5, <1>6

LEMMA CommitKeeps ==
  ASSUME TxnInv, NEW r \in Requests, Commit(r)
  PROVE  TxnInv'
<1>1. /\ agent' = (IF holder[AgentRow] = r THEN Wanted(r) ELSE agent)
      /\ paid' = (IF Op(r) = "execute" THEN paid \cup {On(r)} ELSE paid)
      /\ chain' = Append(chain, head[r])
  BY DEF Commit
<1>2. /\ at[r] = "commit" /\ at' = [at EXCEPT ![r] = "end"] /\ holder' = Released(r)
      /\ UNCHANGED <<task, seen, writes, head, todo>>
  BY CommitFacts
<1>3. TxnTypeOK'
  <2>1. agent' \in {"ACTIVE", "FROZEN", "REVOKED"}
    BY <1>1 DEF Wanted, TxnInv, TxnTypeOK
  <2>2. paid' \subseteq Proposals
    BY <1>1, CommitFacts DEF TxnInv, TxnTypeOK
  <2>3. chain' \in Seq(Nat)
    BY <1>1 DEF TxnInv, TxnTypeOK
  <2>4. holder' \in [Locks -> Requests \cup {Nobody}]
    BY <1>2, ReleasedFacts DEF TxnInv, TxnTypeOK
  <2>5. at' \in [Requests -> Stages]
    BY <1>2 DEF TxnInv, TxnTypeOK, Stages
  <2>. QED
    BY <1>2, <2>1, <2>2, <2>3, <2>4, <2>5, CommitFacts DEF TxnInv, TxnTypeOK
<1>4. OneChain'
  <2>1. chain \in Seq(Nat) /\ head[r] = Len(chain) /\ head[r] \in Nat
    BY CommitFacts DEF TxnInv, TxnTypeOK
  <2>. QED
    BY <1>1, <2>1 DEF TxnInv, OneChain
<1>5. ASSUME NEW s \in Requests PROVE TxnOK(s)'
  <2>1. /\ Op(s)' = Op(s) /\ On(s)' = On(s) /\ Target(s)' = Target(s) /\ Kills(s)' = Kills(s)
    BY <1>2 DEF Op, On, Target, Kills
  <2>2. TxnOK(s) /\ seen'[s] = seen[s] /\ writes'[s] = writes[s] /\ todo'[s] = todo[s]
        /\ head'[s] = head[s]
    BY <1>2 DEF TxnInv
  <2>3. ASSUME NEW v \in Vaults
        PROVE  /\ seen[s][v].version <= vault'[v].version
               /\ seen[s][v].version = vault'[v].version => seen[s][v] = vault'[v]
    <3>1. seen[s][v].version \in Nat /\ vault[v].version \in Nat
      BY DEF TxnInv, TxnTypeOK, Row, NoRow
    <3>2. vault'[v] = vault[v] \/ vault'[v].version = vault[v].version + 1
      BY CommitFacts
    <3>. QED
      BY <2>2, <3>1, <3>2 DEF TxnOK, CurrentOK
  <2>4. CASE s = r
    <3>1. at'[r] = "end"
      BY <1>2 DEF TxnInv, TxnTypeOK
    <3>2. \A l \in Locks : holder'[l] # r
      <4>1. holder \in [Locks -> Requests \cup {Nobody}]
        BY DEF TxnInv, TxnTypeOK
      <4>. QED
        BY <1>2, <4>1, ReleasedFacts
    <3>3. StageOK(r)' /\ ReadOK(r)'
      BY <2>1, <2>2, <2>4, <3>1 DEF StageOK, ReadOK, Decided, TxnOK
    <3>4. HoldsOK(r)'
      BY <2>1, <2>2, <2>4, <3>1, <3>2 DEF HoldsOK, Decided, TxnOK, Locks
    <3>5. CurrentOK(r)'
      BY <2>2, <2>3, <2>4, <3>1, <3>2 DEF CurrentOK, Locks
    <3>. QED
      BY <2>4, <3>3, <3>4, <3>5 DEF TxnOK
  <2>5. CASE s # r
    <3>1. at'[s] = at[s]
      BY <1>2, <2>5 DEF TxnInv, TxnTypeOK
    <3>2. \A l \in Locks : holder'[l] = s <=> holder[l] = s
      <4>1. holder \in [Locks -> Requests \cup {Nobody}] /\ s \in Requests \ {r}
        BY <2>5 DEF TxnInv, TxnTypeOK
      <4>2. \A l \in Locks : Released(r)[l] = s <=> holder[l] = s
        BY <4>1, ReleasedFacts
      <4>. QED
        BY <1>2, <4>2
    <3>3. StageOK(s)' /\ ReadOK(s)'
      BY <2>1, <2>2, <3>1 DEF StageOK, ReadOK, Decided, TxnOK
    <3>4. HoldsOK(s)'
      <4>1. writes[s] \subseteq Vaults /\ (Op(s) = "execute" => On(s) \in Proposals)
        BY TaskFacts DEF TxnInv, TxnTypeOK
      <4>. QED
        BY <2>1, <2>2, <3>1, <3>2, <4>1 DEF HoldsOK, Decided, TxnOK, Locks
    <3>5. CurrentOK(s)'
      <4>1. ASSUME NEW v \in Vaults, holder'[v] = s PROVE seen[s][v] = vault'[v]
        <5>1. holder[v] = s
          BY <3>2, <4>1 DEF Locks
        <5>2. v \notin writes[r]
          BY <2>5, <5>1, CommitFacts
        <5>. QED
          BY <2>2, <5>1, <5>2, CommitFacts DEF TxnOK, CurrentOK
      <4>2. ASSUME NEW p \in Proposals, holder'[p] = s PROVE p \notin paid'
        <5>1. holder[p] = s
          BY <3>2, <4>2 DEF Locks
        <5>2. p \notin paid
          BY <2>2, <5>1 DEF TxnOK, CurrentOK
        <5>3. Op(r) = "execute" => On(r) # p
          BY <2>5, <5>1, CommitFacts
        <5>. QED
          BY <1>1, <5>2, <5>3
      <4>3. at[s] # "commit"
        BY <2>2, <2>5, CommitFacts DEF TxnOK, HoldsOK
      <4>. QED
        BY <2>2, <2>3, <3>1, <4>1, <4>2, <4>3 DEF CurrentOK
    <3>. QED
      BY <3>3, <3>4, <3>5 DEF TxnOK
  <2>. QED
    BY <2>4, <2>5
<1>. QED
  BY <1>3, <1>4, <1>5 DEF TxnInv

THEOREM TxnNext == TxnInv /\ [Next]_vars => TxnInv'
<1>. SUFFICES ASSUME TxnInv, [Next]_vars PROVE TxnInv'
  OBVIOUS
<1>1. CASE UNCHANGED vars
  BY <1>1 DEF vars, TxnInv, TxnTypeOK, OneChain, TxnOK, StageOK, ReadOK, HoldsOK, CurrentOK,
       Kills, Decided, Op, On, Target
<1>2. ASSUME NEW r \in Requests, Step(r) \/ Lost(r) PROVE TxnInv'
  <2>1. CASE ReadVault(r)
    BY <2>1, ReadVaultKeeps
  <2>2. CASE Judge(r)
    BY <2>2, JudgeKeeps
  <2>3. CASE ReadAgent(r)
    BY <2>3, ReadAgentKeeps
  <2>4. CASE Take(r)
    BY <2>4, TakeKeeps
  <2>5. CASE Flushed(r)
    BY <2>5, FlushedKeeps
  <2>6. CASE FindOpen(r)
    BY <2>6, FindOpenKeeps
  <2>7. CASE LockChain(r)
    BY <2>7, LockChainKeeps
  <2>8. CASE AppendEvent(r)
    BY <2>8, AppendEventKeeps
  <2>9. CASE Commit(r)
    BY <2>9, CommitKeeps
  <2>10. CASE Victim(r) \/ Lost(r)
    BY <2>10, RollbackKeeps DEF Victim, Lost
  <2>. QED
    BY <1>2, <2>1, <2>2, <2>3, <2>4, <2>5, <2>6, <2>7, <2>8, <2>9, <2>10 DEF Step
<1>. QED
  BY <1>1, <1>2 DEF Next

\* What every commit rests on holds throughout.
THEOREM TxnInvariant == Spec => []TxnInv
<1>. QED
  BY TxnInit, TxnNext, PTL DEF Spec

\* No interleaving of transactions, aborts and losses forks the audit chain.
THEOREM ChainNeverForks == Spec => []OneChain
<1>1. TxnInv => OneChain
  BY DEF TxnInv
<1>. QED
  BY <1>1, TxnInvariant, PTL

-----------------------------------------------------------------------------
\* The admitted payments change when an execution has judged and when it ends.
LEMMA AdmittedSame ==
  ASSUME UNCHANGED task,
         \A q \in Requests : Op(q) = "execute" => (Decided(q)' <=> Decided(q))
  PROVE  Admitted' = Admitted
<1>1. \A q \in Requests : Op(q)' = Op(q) /\ On(q)' = On(q)
  BY DEF Op, On
<1>. QED
  BY <1>1 DEF Admitted, Decided

LEMMA AdmittedAtEnd ==
  ASSUME at \in [Requests -> Stages], NEW r \in Requests, UNCHANGED task,
         at' = [at EXCEPT ![r] = "end"]
  PROVE  /\ Admitted' \in {Admitted, Admitted \ {On(r)}}
         /\ Op(r) # "execute" => Admitted' = Admitted
<1>1. \A q \in Requests : Op(q)' = Op(q) /\ On(q)' = On(q)
  BY DEF Op, On
<1>2. at'[r] = "end" /\ \A q \in Requests \ {r} : at'[q] = at[q]
  OBVIOUS
<1>3. ASSUME NEW p, p # On(r) PROVE p \in Admitted' <=> p \in Admitted
  BY <1>1, <1>2, <1>3 DEF Admitted
<1>4. On(r) \in Admitted' => On(r) \in Admitted
  BY <1>1, <1>2 DEF Admitted
<1>5. Admitted' \in {Admitted, Admitted \ {On(r)}}
  BY <1>3, <1>4
<1>6. Op(r) # "execute" => Admitted' = Admitted
  BY <1>1, <1>2 DEF Admitted
<1>. QED
  BY <1>5, <1>6

LEMMA SerialStart == Init => Serial!SerialInit
<1>. SUFFICES ASSUME Init PROVE Serial!SerialInit
  OBVIOUS
<1>1. Admitted = {}
  BY DEF Admitted, Init
<1>2. /\ [v \in Vaults |-> vault[v].status] = [v \in Vaults |-> IF v \in Founded THEN "ACTIVE" ELSE "none"]
      /\ [v \in Vaults |-> vault[v].spent] = [v \in Vaults |-> 0]
  BY DEF Init, NewRow, NoRow
<1>. QED
  BY <1>1, <1>2 DEF Init, Serial!SerialInit

\* A rollback gives up at most a payment.
LEMMA RollbackRefines ==
  ASSUME TxnInv, NEW r \in Requests, Rollback(r)
  PROVE  [Serial!SerialNext]_(Serial!serialVars)
<1>1. /\ at' = [at EXCEPT ![r] = "end"]
      /\ UNCHANGED <<agent, vault, paid, task>>
  BY DEF Rollback, Goes, committed
<1>2. /\ Admitted' \in {Admitted, Admitted \ {On(r)}}
      /\ Op(r) # "execute" => Admitted' = Admitted
  BY <1>1, AdmittedAtEnd DEF TxnInv, TxnTypeOK
<1>3. CASE Admitted' = Admitted
  BY <1>1, <1>3 DEF Serial!serialVars
<1>4. CASE Admitted' # Admitted
  <2>1. On(r) \in Proposals
    BY <1>2, <1>4, TaskFacts DEF TxnInv, TxnTypeOK
  <2>2. Serial!Dismiss(On(r))
    BY <1>1, <1>2, <1>4 DEF Serial!Dismiss
  <2>. QED
    BY <2>1, <2>2 DEF Serial!SerialNext
<1>. QED
  BY <1>3, <1>4

\* A step before the commit that judges nothing is a stutter.
LEMMA QuietStep ==
  ASSUME UNCHANGED <<agent, vault, paid, task>>,
         \A q \in Requests : Op(q) = "execute" => (Decided(q)' <=> Decided(q))
  PROVE  [Serial!SerialNext]_(Serial!serialVars)
<1>1. Admitted' = Admitted
  BY AdmittedSame
<1>. QED
  BY <1>1 DEF Serial!serialVars

\* The changes of SerialVault, one by one.
LEMMA SerialSteps ==
  /\ \A p \in Proposals : Serial!Pay(p) => Serial!SerialNext
  /\ \A v \in Vaults : Serial!Freeze(v) \/ Serial!Create(v) => Serial!SerialNext
  /\ \A found \in SUBSET Vaults : Serial!Revoke(found) => Serial!SerialNext
<1>1. ASSUME NEW p \in Proposals, Serial!Pay(p) PROVE Serial!SerialNext
  BY <1>1 DEF Serial!SerialNext
<1>2. ASSUME NEW v \in Vaults, Serial!Freeze(v) \/ Serial!Create(v) PROVE Serial!SerialNext
  BY <1>2 DEF Serial!SerialNext
<1>3. ASSUME NEW found \in SUBSET Vaults, Serial!Revoke(found) PROVE Serial!SerialNext
  BY <1>3 DEF Serial!SerialNext
<1>. QED
  BY <1>1, <1>2, <1>3

LEMMA CommitRefines ==
  ASSUME TxnInv, NEW r \in Requests, Commit(r)
  PROVE  [Serial!SerialNext]_(Serial!serialVars)
<1>0. /\ Op(r) \in {"execute", "freeze", "create", "FREEZE", "UNFREEZE", "REVOKE"}
      /\ Op(r) = "execute" => On(r) \in Proposals /\ Target(r) = VaultOf[On(r)]
      /\ Op(r) \in {"freeze", "create"} => On(r) \in Vaults /\ Target(r) = On(r)
      /\ Op(r) \in {"execute", "freeze", "create"} => Target(r) \in Vaults
      /\ Kills(r) <=> Op(r) \in {"FREEZE", "UNFREEZE", "REVOKE"}
      /\ TxnOK(r) /\ at[r] = "commit" /\ writes[r] \subseteq Vaults
  BY TaskFacts, CommitFacts DEF TxnInv, TxnTypeOK
<1>1. /\ \A v \in writes[r] : seen[r][v] = vault[v] /\ vault'[v] = Written(r, vault[v])
      /\ \A v \in Vaults \ writes[r] : vault'[v] = vault[v]
      /\ vault \in [Vaults -> Row]
  BY CommitFacts DEF TxnInv, TxnTypeOK
<1>2. /\ Admitted' \in {Admitted, Admitted \ {On(r)}}
      /\ Op(r) # "execute" => Admitted' = Admitted
  BY CommitFacts, AdmittedAtEnd DEF TxnInv, TxnTypeOK
<1>3. /\ agent' = (IF holder[AgentRow] = r THEN Wanted(r) ELSE agent)
      /\ paid' = (IF Op(r) = "execute" THEN paid \cup {On(r)} ELSE paid)
  BY DEF Commit
<1>4. ~Kills(r) => agent' = agent /\ writes[r] = {Target(r)}
  BY <1>0, <1>3 DEF TxnOK, HoldsOK, ReadOK, Decided
<1>5. CASE Op(r) = "execute"
  <2>1. /\ On(r) \in Proposals /\ On(r) \notin paid /\ On(r) \in Admitted
    BY <1>0, <1>5, CommitFacts DEF Admitted
  <2>2. /\ vault[Target(r)].status \in Open
        /\ vault[Target(r)].spent + Amount[On(r)] <= Limit
    BY <1>0, <1>1, <1>4, <1>5 DEF TxnOK, ReadOK, Decided
  <2>3. /\ vault'[Target(r)].status = "SPENDING"
        /\ vault'[Target(r)].spent = vault[Target(r)].spent + Amount[On(r)]
        /\ \A v \in Vaults \ {Target(r)} : vault'[v] = vault[v]
    <3>1. writes[r] = {Target(r)} /\ Target(r) \in Vaults
      BY <1>0, <1>4, <1>5
    <3>2. Written(r, vault[Target(r)]) =
            [status |-> "SPENDING", spent |-> vault[Target(r)].spent + Amount[On(r)],
             version |-> vault[Target(r)].version + 1]
      BY <1>5 DEF Written
    <3>. QED
      BY <1>1, <3>1, <3>2
  <2>0. PICK p \in Proposals : p = On(r)
    BY <2>1
  <2>4. Serial!Pay(p)
    BY <1>0, <1>2, <1>3, <1>4, <1>5, <2>0, <2>1, <2>2, <2>3 DEF Serial!Pay, Serial!Open, Open
  <2>7. Serial!SerialNext
    BY <2>4, SerialSteps, Zenon
  <2>. QED
    BY <2>7
<1>6. CASE Op(r) = "freeze"
  <2>1. vault[On(r)].status \in Open /\ On(r) \in Vaults
    BY <1>0, <1>1, <1>4, <1>6 DEF TxnOK, ReadOK, Decided
  <2>2. vault[On(r)] = [status |-> vault[On(r)].status, spent |-> vault[On(r)].spent,
                        version |-> vault[On(r)].version]
    BY <1>1, <2>1 DEF Row, NoRow
  <2>3. Written(r, vault[On(r)]) =
          [vault[On(r)] EXCEPT !.status = "FROZEN", !.version = vault[On(r)].version + 1]
    BY <1>6 DEF Written
  <2>4. /\ Written(r, vault[On(r)]).status = "FROZEN"
        /\ Written(r, vault[On(r)]).spent = vault[On(r)].spent
    BY <2>2, <2>3
  <2>5. /\ vault'[On(r)].status = "FROZEN" /\ vault'[On(r)].spent = vault[On(r)].spent
        /\ \A v \in Vaults \ {On(r)} : vault'[v] = vault[v]
    BY <1>0, <1>1, <1>4, <1>6, <2>4
  <2>0. PICK u \in Vaults : u = On(r)
    BY <2>1
  <2>6. Serial!Freeze(u)
    BY <2>0, <1>0, <1>2, <1>3, <1>4, <1>6, <2>1, <2>5 DEF Serial!Freeze, Serial!Open, Open
  <2>7. Serial!SerialNext
    BY <2>6, SerialSteps, Zenon
  <2>. QED
    BY <2>7
<1>7. CASE Op(r) = "create"
  <2>1. vault[On(r)].status = "none" /\ On(r) \in Vaults
    BY <1>0, <1>1, <1>4, <1>7 DEF TxnOK, ReadOK, Decided
  <2>2. vault[On(r)].spent = 0
    BY <1>1, <2>1 DEF Row, NoRow
  <2>3. /\ vault'[On(r)].status = "ACTIVE" /\ vault'[On(r)].spent = 0
        /\ \A v \in Vaults \ {On(r)} : vault'[v] = vault[v]
    BY <1>0, <1>1, <1>4, <1>7 DEF Written, NewRow
  <2>0. PICK u \in Vaults : u = On(r)
    BY <2>1
  <2>4. Serial!Create(u)
    BY <2>0, <1>0, <1>2, <1>3, <1>4, <1>7, <2>1, <2>2, <2>3 DEF Serial!Create
  <2>7. Serial!SerialNext
    BY <2>4, SerialSteps, Zenon
  <2>. QED
    BY <2>7
<1>8. CASE Op(r) \in {"FREEZE", "UNFREEZE"}
  <2>1. writes[r] = {}
    BY <1>0, <1>8 DEF TxnOK, ReadOK
  <2>2. \A v \in Vaults : vault'[v] = vault[v]
    BY <1>1, <2>1
  <2>3. [v \in Vaults |-> vault[v].status]' = [v \in Vaults |-> vault[v].status]
        /\ [v \in Vaults |-> vault[v].spent]' = [v \in Vaults |-> vault[v].spent]
    BY <2>2
  <2>4. CASE holder[AgentRow] = r
    <3>1. agent' \in {"ACTIVE", "FROZEN"}
      BY <1>3, <1>8, <2>4 DEF Wanted
    <3>2. Serial!Switch(agent')
      BY <1>2, <1>3, <1>8, <2>3 DEF Serial!Switch
    <3>. QED
      BY <3>1, <3>2 DEF Serial!SerialNext
  <2>5. CASE holder[AgentRow] # r
    BY <1>2, <1>3, <1>8, <2>3, <2>5 DEF Serial!serialVars
  <2>. QED
    BY <2>4, <2>5
<1>9. CASE Op(r) = "REVOKE"
  <2>1. \A v \in writes[r] : vault[v].status \in Open
    BY <1>0, <1>1, <1>9 DEF TxnOK, ReadOK, Decided
  <2>2. agent' \in {agent, "REVOKED"}
    BY <1>3, <1>9 DEF Wanted
  <2>3. ASSUME NEW v \in Vaults
        PROVE  /\ vault'[v].status = IF v \in writes[r] THEN "FROZEN" ELSE vault[v].status
               /\ vault'[v].spent = vault[v].spent
    <3>1. CASE v \notin writes[r]
      BY <1>1, <3>1
    <3>2. CASE v \in writes[r]
      <4>1. vault[v] = [status |-> vault[v].status, spent |-> vault[v].spent,
                        version |-> vault[v].version]
        BY <1>1 DEF Row, NoRow
      <4>2. vault'[v] = [vault[v] EXCEPT !.status = "FROZEN", !.version = vault[v].version + 1]
        BY <1>1, <1>9, <3>2 DEF Written
      <4>. QED
        BY <3>2, <4>1, <4>2
    <3>. QED
      BY <3>1, <3>2
  <2>0. PICK found \in SUBSET Vaults : found = writes[r]
    BY <1>0
  <2>4. Serial!Revoke(found)
    <3>1. [v \in Vaults |-> vault[v].status]'
            = [v \in Vaults |-> IF v \in writes[r] THEN "FROZEN"
                                ELSE [w \in Vaults |-> vault[w].status][v]]
      BY <2>3
    <3>2. [v \in Vaults |-> vault[v].spent]' = [v \in Vaults |-> vault[v].spent]
      BY <2>3
    <3>3. \A v \in writes[r] : [w \in Vaults |-> vault[w].status][v] \in Open
      BY <1>0, <2>1
    <3>4. paid' = paid /\ Admitted' = Admitted
      BY <1>2, <1>3, <1>9
    <3>. QED
      BY <2>0, <2>2, <3>1, <3>2, <3>3, <3>4 DEF Serial!Revoke, Serial!Open, Open
  <2>5. Serial!SerialNext
    BY <2>4, SerialSteps, Zenon
  <2>. QED
    BY <2>5
<1>. QED
  BY <1>0, <1>5, <1>6, <1>7, <1>8, <1>9

LEMMA StepRefines ==
  ASSUME TxnInv, [Next]_vars
  PROVE  [Serial!SerialNext]_(Serial!serialVars)
<1>1. CASE UNCHANGED vars
  BY <1>1, QuietStep DEF vars, Decided
<1>2. ASSUME NEW r \in Requests, Step(r) \/ Lost(r)
      PROVE  [Serial!SerialNext]_(Serial!serialVars)
  <2>0. at \in [Requests -> Stages] /\ task \in [Requests -> Tasks] /\ TxnOK(r)
    BY DEF TxnInv, TxnTypeOK
  <2>1. CASE ReadVault(r) /\ ~Rollback(r)
    <3>1. /\ at[r] = "vault" /\ UNCHANGED <<agent, vault, paid, task>>
          /\ at' = [at EXCEPT ![r] = IF Op(r) = "execute" THEN "judge"
                                     ELSE IF Op(r) = "freeze" THEN "chain" ELSE "rows"]
      BY <2>1 DEF ReadVault, Goes, committed
    <3>2. ASSUME NEW q \in Requests, Op(q) = "execute" PROVE Decided(q)' <=> Decided(q)
      BY <2>0, <3>1, <3>2 DEF Decided
    <3>. QED
      BY <3>1, <3>2, QuietStep
  <2>2. CASE Judge(r) /\ ~Rollback(r)
    <3>1. /\ at[r] = "judge" /\ UNCHANGED <<agent, vault, paid, task>>
          /\ at' = [at EXCEPT ![r] = "rows"]
          /\ agent = "ACTIVE"
      BY <2>2 DEF Judge, Goes, committed, Allowed
    <3>2. Op(r) = "execute" /\ On(r) \in Proposals
      BY <2>0, <3>1, TaskFacts DEF TxnOK, StageOK
    <3>3. \A q \in Requests : Op(q)' = Op(q) /\ On(q)' = On(q)
      BY <3>1 DEF Op, On
    <3>4. at'[r] = "rows" /\ \A q \in Requests \ {r} : at'[q] = at[q]
      BY <2>0, <3>1
    <3>5. Admitted' = Admitted \cup {On(r)}
      BY <3>1, <3>2, <3>3, <3>4 DEF Admitted
    <3>6. Serial!Admit(On(r))
      BY <3>1, <3>5 DEF Serial!Admit
    <3>. QED
      BY <3>2, <3>6 DEF Serial!SerialNext
  <2>3. CASE ReadAgent(r) /\ ~Rollback(r)
    <3>1. /\ at[r] = "agent" /\ UNCHANGED <<agent, vault, paid, task>>
          /\ at' = [at EXCEPT ![r] = "flag"]
      BY <2>3 DEF ReadAgent, Goes, committed
    <3>2. ASSUME NEW q \in Requests, Op(q) = "execute" PROVE Decided(q)' <=> Decided(q)
      BY <2>0, <3>1, <3>2 DEF Decided
    <3>. QED
      BY <3>1, <3>2, QuietStep
  <2>4. CASE Take(r) /\ ~Rollback(r)
    <3>1. UNCHANGED <<agent, vault, paid, task, at>>
      BY <2>4 DEF Take, committed
    <3>. QED
      BY <3>1, QuietStep DEF Decided
  <2>5. CASE Flushed(r)
    <3>1. /\ UNCHANGED <<agent, vault, paid, task>>
          /\ \/ /\ at[r] = "flag"
                /\ at' = [at EXCEPT ![r] = IF Op(r) = "REVOKE" THEN "find" ELSE "chain"]
             \/ /\ at[r] = "rows"
                /\ at' = [at EXCEPT ![r] = IF Op(r) = "freeze" THEN "append" ELSE "chain"]
      BY <2>5 DEF Flushed, Goes, committed
    <3>2. at[r] = "flag" => Op(r) # "execute"
      BY <2>0, TaskFacts DEF TxnOK, StageOK
    <3>3. ASSUME NEW q \in Requests, Op(q) = "execute" PROVE Decided(q)' <=> Decided(q)
      BY <2>0, <3>1, <3>2, <3>3 DEF Decided
    <3>. QED
      BY <3>1, <3>3, QuietStep
  <2>6. CASE FindOpen(r)
    <3>1. /\ at[r] = "find" /\ UNCHANGED <<agent, vault, paid, task>>
          /\ at' = [at EXCEPT ![r] = "rows"]
      BY <2>6 DEF FindOpen, Goes, committed
    <3>2. Op(r) # "execute"
      BY <2>0, <3>1 DEF TxnOK, StageOK
    <3>3. ASSUME NEW q \in Requests, Op(q) = "execute" PROVE Decided(q)' <=> Decided(q)
      BY <2>0, <3>1, <3>2, <3>3 DEF Decided
    <3>. QED
      BY <3>1, <3>3, QuietStep
  <2>7. CASE LockChain(r)
    <3>1. /\ at[r] = "chain" /\ UNCHANGED <<agent, vault, paid, task>>
          /\ at' = [at EXCEPT ![r] = IF Op(r) = "freeze" THEN "rows" ELSE "append"]
      BY <2>7 DEF LockChain, Goes, committed
    <3>2. ASSUME NEW q \in Requests, Op(q) = "execute" PROVE Decided(q)' <=> Decided(q)
      BY <2>0, <3>1, <3>2 DEF Decided
    <3>. QED
      BY <3>1, <3>2, QuietStep
  <2>8. CASE AppendEvent(r)
    <3>1. /\ at[r] = "append" /\ UNCHANGED <<agent, vault, paid, task>>
          /\ at' = [at EXCEPT ![r] = "commit"]
      BY <2>8 DEF AppendEvent, Goes, committed
    <3>2. ASSUME NEW q \in Requests, Op(q) = "execute" PROVE Decided(q)' <=> Decided(q)
      BY <2>0, <3>1, <3>2 DEF Decided
    <3>. QED
      BY <3>1, <3>2, QuietStep
  <2>9. CASE Commit(r)
    BY <2>9, CommitRefines
  <2>10. CASE Rollback(r)
    BY <2>10, RollbackRefines
  <2>. QED
    BY <1>2, <2>1, <2>2, <2>3, <2>4, <2>5, <2>6, <2>7, <2>8, <2>9, <2>10 DEF Step, Victim, Lost
<1>. QED
  BY <1>1, <1>2 DEF Next

\* For any requests, vaults and proposals, overlapping transactions come to what
\* SerialVault allows.
THEOREM TxnKeepsSerial == Spec => KeepsSerial
<1>. QED
  BY SerialStart, StepRefines, TxnInvariant, PTL DEF Spec, KeepsSerial, Serial!SerialSpec
=============================================================================
