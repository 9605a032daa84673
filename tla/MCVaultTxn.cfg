SPECIFICATION FairSpec
CONSTANTS
  r1 = r1
  r2 = r2
  r3 = r3
  v1 = v1
  v2 = v2
  p1 = p1
  p2 = p2
  AgentRow = AgentRow
  ChainLock = ChainLock
  Nobody = Nobody
  Requests <- MCRequests
  Vaults <- MCVaults
  Proposals <- MCProposals
  VaultOf <- MCVaultOf
  Amount <- MCAmount
  Limit <- MCLimit
  Founded <- MCFounded
INVARIANT OneChain
PROPERTIES
  KeepsSerial
  EveryRequestEnds
CHECK_DEADLOCK FALSE
