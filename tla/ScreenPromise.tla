--------------------------- MODULE ScreenPromise ----------------------------
(***************************************************************************)
(* What a page may rely on when it shows the answer of a query             *)
(* (frontend/lib/queries.ts): the service publishes versions of the data   *)
(* behind each query, an acknowledged write promises the versions that     *)
(* exist at that moment, and what is put on the screen is never older than *)
(* what is promised or than what was there.                                *)
(***************************************************************************)
EXTENDS Naturals

CONSTANT Queries

VARIABLES
  published, \* published[q]: the newest version the service has
  promised,  \* promised[q]: the version an acknowledged write owes the screen
  shown      \* shown[q]: the version on the screen, 0 for none

screenVars == <<published, promised, shown>>

Init ==
  /\ published = [q \in Queries |-> 1]
  /\ promised = [q \in Queries |-> 0]
  /\ shown = [q \in Queries |-> 0]

\* A write, of this visitor or of another, changes the data behind some queries.
Publish ==
  /\ \E changed \in SUBSET Queries :
       published' = [q \in Queries |-> IF q \in changed THEN published[q] + 1 ELSE published[q]]
  /\ UNCHANGED <<promised, shown>>

\* The visitor is told that a write has been made.
Acknowledge ==
  /\ \E owed \in SUBSET Queries :
       promised' = [q \in Queries |-> IF q \in owed THEN published[q] ELSE promised[q]]
  /\ UNCHANGED <<published, shown>>

\* An answer reaches the screen.
Show(q) ==
  /\ \E v \in promised[q] .. published[q] :
       /\ v >= shown[q]
       /\ shown' = [shown EXCEPT ![q] = v]
  /\ UNCHANGED <<published, promised>>

\* The answer is no longer kept.
Clear(q) ==
  /\ shown' = [shown EXCEPT ![q] = 0]
  /\ UNCHANGED <<published, promised>>

Next == Publish \/ Acknowledge \/ \E q \in Queries : Show(q) \/ Clear(q)

Spec == Init /\ [][Next]_screenVars
=============================================================================
