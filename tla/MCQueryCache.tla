---------------------------- MODULE MCQueryCache ----------------------------
(***************************************************************************)
(* Instances of QueryCache for TLC: the activity feed of the dashboard,    *)
(* which one of a vault's buttons refetches and another does not.          *)
(***************************************************************************)
EXTENDS QueryCache, WorkspaceQueries

MCQueries == {ActivityKey}
MCWrites == {"revenue", "freeze"}
MCTouched == [w \in MCWrites |-> ChangedBy(w) \cap MCQueries]
MCCovered == [w \in MCWrites |-> CoveredBy(w) \cap MCQueries]

\* "Writes invalidate the areas that genuinely changed rather than patching one
\* cache entry and leaving the rest stale" (lib/queries.ts:201): the answers a
\* write changed are marked, if they are kept, when the write succeeds.
WritesInvalidateWhatTheyChange ==
  [][\A w \in Writes : Succeed(w) =>
       \A q \in Touched[w] : entry[q].data # 0 => entry'[q].invalid]_vars
=============================================================================
