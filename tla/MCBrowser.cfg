SPECIFICATION BrowserSpec
CONSTANTS
  Queries <- MCQueries
  Writes <- MCWrites
  Touched <- MCTouched
  Covered <- MCCovered
  MaxWrites = 3
  Drafts = 2
  MaxRuns = 3
  Worlds <- MCWorlds
INVARIANTS
  
    RegisteredIsVerified
  PagesAgree ControlsMatchTheService 
PROPERTIES
    SequencesEnd
\* The visitor may stop anywhere.
CHECK_DEADLOCK FALSE
