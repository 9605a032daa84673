----------------------------- MODULE MCBrowser -----------------------------
(***************************************************************************)
(* The three parts of the browser that share no state, explored side by    *)
(* side: the query cache under two of a vault's buttons, the sheets that   *)
(* write a sequence of rows, and the pages over every workspace.           *)
(***************************************************************************)
EXTENDS QueryCache, WorkspaceQueries, Onboarding, Screens

VARIABLE part \* the part that this behaviour is about

MCQueries == {ActivityKey}
MCWrites == {"revenue", "freeze"}
MCTouched == [w \in MCWrites |-> ChangedBy(w) \cap MCQueries]
MCCovered == [w \in MCWrites |-> CoveredBy(w) \cap MCQueries]
MCWorlds == Workspaces

\* A behaviour about another part looks at one workspace only.
AnyWorkspace == CHOOSE w \in Worlds : TRUE

BrowserInit ==
  /\ part \in {"cache", "desk", "screens"}
  /\ Init /\ DeskInit /\ ScreensInit
  /\ part # "screens" => workspace = AnyWorkspace

BrowserNext ==
  \/ part = "cache" /\ Next /\ UNCHANGED <<part, deskVars, screenVars>>
  \/ part = "desk" /\ DeskNext /\ UNCHANGED <<part, vars, screenVars>>
  \/ part = "screens" /\ ScreensNext /\ UNCHANGED <<part, vars, deskVars>>

BrowserSpec ==
  BrowserInit /\ [][BrowserNext]_<<part, vars, deskVars, screenVars>> /\ Fairness /\ DeskFairness
=============================================================================
