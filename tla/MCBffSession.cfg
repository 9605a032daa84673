SPECIFICATION Spec
CONSTANTS
  b1 = b1
  b2 = b2
  b3 = b3
  office = office
  home = home
  Browsers = {b1, b2, b3}
  Keys = {office, home}
  ClientKey <- MCClientKey
  Requests = {1, 2}
  Paths <- MCPaths
  Mints = {1, 2}
  NoToken = NoToken
  DemoEnabled = TRUE
  MaxResets = 2
INVARIANTS WorkspaceByClient EffectOnce 
PROPERTIES  EveryRequestAnswered
\* Every slot may have been used: the visitors have left.
CHECK_DEADLOCK FALSE
