---------------------------- MODULE MCBffSession ----------------------------
(***************************************************************************)
(* Three visitors: b1 and b2 share an office's address and a user-agent,   *)
(* b3 is elsewhere.  Two requests at a time, each of a kind the proxy      *)
(* tells apart, while the sandbox database may be reset twice.             *)
(***************************************************************************)
EXTENDS BffSession, TLC

CONSTANTS b1, b2, b3, office, home

MCClientKey == (b1 :> office) @@ (b2 :> office) @@ (b3 :> home)

Path(v1, mutates, cross_site, demo, scenario) ==
  [dotted |-> FALSE, v1 |-> v1, mutates |-> mutates, cross_site |-> cross_site,
   demo |-> demo, scenario |-> scenario]

\* A form's write, which may also be refused as a read is; a judge scenario;
\* and, refused by the proxy, the demo reset and a write from another site.
MCPaths == {Path(TRUE, TRUE, FALSE, FALSE, FALSE), Path(TRUE, TRUE, FALSE, TRUE, TRUE),
            Path(TRUE, TRUE, FALSE, TRUE, FALSE), Path(TRUE, TRUE, TRUE, FALSE, FALSE)}
=============================================================================
