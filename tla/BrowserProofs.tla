---------------------------- MODULE BrowserProofs ----------------------------
(***************************************************************************)
(* Proofs about the three parts of the browser, for any value of their     *)
(* constants: the query cache (QueryCache), the sheets that write several  *)
(* rows (Onboarding) and what the pages offer and say (Screens).  The      *)
(* parts share no variable and no definition, each has its own invariant,  *)
(* and side by side (MCBrowser) they keep what each keeps alone.           *)
(***************************************************************************)
EXTENDS MCBrowser, FiniteSetTheorems, TLAPS

(***************************************************************************)
(* The query cache: its types, that stale data is marked, and that it      *)
(* implements ScreenPromise.                                               *)
(*                                                                         *)
(* EntryOK(e, v, o) says of one entry e, of a query whose version is v and *)
(* whose promise is o, what the properties need: what was read for a fetch *)
(* in flight keeps the promise, because the write that raised the promise  *)
(* began that fetch anew.                                                  *)
(***************************************************************************)
EntryOK(e, v, o) ==
  /\ e \in Rows
  /\ e.failures <= 2
  /\ ~e.fetching => e.read = 0 /\ e.failures = 0
  /\ e.data <= v /\ e.read <= v /\ o <= v
  /\ e.read # 0 => e.read >= o /\ e.read >= e.data
  /\ e.data # 0 /\ e.data < o => e.invalid /\ (e.seen => e.fetching \/ e.failed)

CacheInv ==
  /\ version \in [Queries -> Nat \ {0}]
  /\ DOMAIN entry = Queries /\ entry \in [Queries -> Rows]
  /\ mutation \in [Writes -> {"idle", "sent", "applied"}]
  /\ submitted \in Nat
  /\ owed \in [Queries -> Nat]
  /\ \A q \in Queries : EntryOK(entry[q], version[q], owed[q])

-----------------------------------------------------------------------------
(* What each change of an entry preserves.                                  *)

LEMMA NoEntryOK ==
  ASSUME NEW v \in Nat, NEW o \in Nat, o <= v
  PROVE  EntryOK(NoEntry, v, o)
  BY DEF EntryOK, NoEntry, Rows

LEMMA FetchedOK ==
  ASSUME NEW e, NEW v \in Nat, NEW o \in Nat, EntryOK(e, v, o)
  PROVE  EntryOK(Fetched(e), v, o) /\ Fetched(e).data = e.data
<1>1. e \in Rows
  BY DEF EntryOK
<1>2. Fetched(e) \in Rows
  BY <1>1 DEF Fetched, Rows
<1>3. /\ Fetched(e).data = e.data /\ Fetched(e).invalid = e.invalid
      /\ Fetched(e).fetching = TRUE /\ Fetched(e).read = 0 /\ Fetched(e).failures = 0
  BY <1>1 DEF Fetched, Rows
<1>. QED
  BY <1>2, <1>3 DEF EntryOK

LEMMA ObservedOK ==
  ASSUME NEW e, NEW v \in Nat, NEW o \in Nat, EntryOK(e, v, o)
  PROVE  EntryOK(Observed(e), v, o) /\ Observed(e).data = e.data
  BY DEF EntryOK, Observed, Stale, Fetched, Rows

LEMMA LeftOK ==
  ASSUME NEW e, NEW v \in Nat, NEW o \in Nat, EntryOK(e, v, o)
  PROVE  /\ EntryOK([e EXCEPT !.seen = FALSE], v, o)
         /\ [e EXCEPT !.seen = FALSE].data = e.data
  BY DEF EntryOK, Rows

LEMMA AgedOK ==
  ASSUME NEW e, NEW v \in Nat, NEW o \in Nat, EntryOK(e, v, o)
  PROVE  /\ EntryOK([e EXCEPT !.fresh = FALSE], v, o)
         /\ [e EXCEPT !.fresh = FALSE].data = e.data
  BY DEF EntryOK, Rows

LEMMA ReadOK ==
  ASSUME NEW e, NEW v \in Nat, NEW o \in Nat, EntryOK(e, v, o), e.fetching
  PROVE  /\ EntryOK([e EXCEPT !.read = v], v, o)
         /\ [e EXCEPT !.read = v].data = e.data
  BY DEF EntryOK, Rows

LEMMA AnsweredOK ==
  ASSUME NEW e, NEW v \in Nat, NEW o \in Nat, EntryOK(e, v, o), e.read # 0
  PROVE  /\ EntryOK(Answered(e), v, o)
         /\ Answered(e).data = e.read
<1>1. e \in Rows
  BY DEF EntryOK
<1>2. Answered(e) \in Rows
  BY <1>1 DEF Answered, Rows
<1>3. /\ Answered(e).data = e.read /\ Answered(e).fetching = FALSE
      /\ Answered(e).read = 0 /\ Answered(e).failures = 0
  BY <1>1 DEF Answered, Rows
<1>4. e.read \in Nat /\ e.data \in Nat
  BY <1>1 DEF Rows
<1>. QED
  BY <1>2, <1>3, <1>4 DEF EntryOK

LEMMA RetriedOK ==
  ASSUME NEW e, NEW v \in Nat, NEW o \in Nat, EntryOK(e, v, o), e.fetching, e.failures < 2
  PROVE  /\ EntryOK([e EXCEPT !.read = 0, !.failures = e.failures + 1], v, o)
         /\ [e EXCEPT !.read = 0, !.failures = e.failures + 1].data = e.data
<1>. DEFINE n == e.failures + 1
            f == [e EXCEPT !.read = 0, !.failures = n]
<1>1. e \in Rows /\ e.failures \in Nat /\ e.data \in Nat
  BY DEF EntryOK, Rows
<1>2. n \in Nat /\ n <= 2
  BY <1>1
<1>. HIDE DEF n
<1>3. f \in Rows
  BY <1>1, <1>2 DEF Rows
<1>4. /\ f.data = e.data /\ f.invalid = e.invalid /\ f.failed = e.failed /\ f.seen = e.seen
      /\ f.fetching = e.fetching /\ f.read = 0 /\ f.failures = n
  BY <1>1 DEF Rows
<1>. HIDE DEF f
<1>5. EntryOK(f, v, o) /\ f.data = e.data
  BY <1>1, <1>2, <1>3, <1>4 DEF EntryOK
<1>. QED
  BY <1>5 DEF f, n

LEMMA GivenUpOK ==
  ASSUME NEW e, NEW v \in Nat, NEW o \in Nat, EntryOK(e, v, o)
  PROVE  LET f == [e EXCEPT !.failed = TRUE, !.invalid = TRUE, !.fetching = FALSE,
                            !.read = 0, !.failures = 0]
         IN  EntryOK(f, v, o) /\ f.data = e.data
<1>. DEFINE f == [e EXCEPT !.failed = TRUE, !.invalid = TRUE, !.fetching = FALSE,
                           !.read = 0, !.failures = 0]
<1>1. f \in Rows
  BY DEF EntryOK, Rows
<1>2. /\ f.data = e.data /\ f.invalid = TRUE /\ f.failed = TRUE
      /\ f.fetching = FALSE /\ f.read = 0 /\ f.failures = 0
  BY DEF EntryOK, Rows
<1>3. EntryOK(f, v, o) /\ f.data = e.data
  <2>. HIDE DEF f
  <2>. QED
    BY <1>1, <1>2 DEF EntryOK
<1>. QED
  BY <1>3

LEMMA FailedOK ==
  ASSUME NEW e, NEW v \in Nat, NEW o \in Nat, EntryOK(e, v, o), e.fetching,
         NEW refused \in BOOLEAN
  PROVE  EntryOK(Failed(e, refused), v, o) /\ Failed(e, refused).data = e.data
  BY RetriedOK, GivenUpOK DEF Failed, ShouldRetry

\* Marking an entry keeps its promise, and a fetch begun anew or none keeps the
\* newest.
LEMMA MarkedOK ==
  ASSUME NEW e, NEW v \in Nat, NEW o \in Nat, EntryOK(e, v, o)
  PROVE  /\ EntryOK([e EXCEPT !.invalid = TRUE], v, o)
         /\ (e.fetching \/ ~e.seen) /\ e.read = 0 => EntryOK([e EXCEPT !.invalid = TRUE], v, v)
         /\ [e EXCEPT !.invalid = TRUE].data = e.data
<1>. DEFINE f == [e EXCEPT !.invalid = TRUE]
<1>1. f \in Rows
  BY DEF EntryOK, Rows
<1>2. /\ f.data = e.data /\ f.invalid = TRUE /\ f.failed = e.failed /\ f.seen = e.seen
      /\ f.fetching = e.fetching /\ f.read = e.read /\ f.failures = e.failures
  BY DEF EntryOK, Rows
<1>3. e.data \in Nat /\ e.read \in Nat
  BY DEF EntryOK, Rows
<1>. HIDE DEF f
<1>4. EntryOK(f, v, o)
  BY <1>1, <1>2, <1>3 DEF EntryOK
<1>5. ASSUME e.fetching \/ ~e.seen, e.read = 0 PROVE EntryOK(f, v, v)
  BY <1>1, <1>2, <1>3, <1>5 DEF EntryOK
<1>. QED
  BY <1>2, <1>4, <1>5 DEF f

\* Invalidating an entry keeps any promise, and the newest one unless it was
\* overtaken.
LEMMA InvalidatedOK ==
  ASSUME NEW e, NEW v \in Nat, NEW o \in Nat, EntryOK(e, v, o)
  PROVE  /\ EntryOK(Invalidated(e), v, o)
         /\ ~Overtaken(e) => EntryOK(Invalidated(e), v, v)
         /\ Invalidated(e).data = e.data
<1>1. EntryOK(Fetched(e), v, o) /\ Fetched(e).data = e.data
  BY FetchedOK
<1>2. Fetched(e).fetching = TRUE /\ Fetched(e).read = 0
  BY DEF EntryOK, Fetched, Rows
<1>3. CASE e.seen /\ ~Overtaken(e)
  <2>1. Invalidated(e) = [Fetched(e) EXCEPT !.invalid = TRUE]
    BY <1>3 DEF Invalidated
  <2>. QED
    BY <1>1, <1>2, <2>1, MarkedOK
<1>4. CASE ~(e.seen /\ ~Overtaken(e))
  <2>1. Invalidated(e) = [e EXCEPT !.invalid = TRUE]
    BY <1>4 DEF Invalidated
  <2>2. ~Overtaken(e) => ~e.seen /\ e.read = 0
    BY <1>4 DEF Overtaken, EntryOK
  <2>. QED
    BY <2>1, <2>2, MarkedOK
<1>. QED
  BY <1>3, <1>4

LEMMA PublishedOK ==
  ASSUME NEW e, NEW v \in Nat, NEW o \in Nat, EntryOK(e, v, o)
  PROVE  EntryOK(e, v + 1, o)
  BY DEF EntryOK, Rows

-----------------------------------------------------------------------------
(* The invariant.                                                           *)

\* An action that changes one entry keeps the invariant if the entry it leaves
\* is right.
LEMMA BecomeKeepsInv ==
  ASSUME CacheInv, NEW q \in Queries, NEW e, Become(q, e), EntryOK(e, version[q], owed[q])
  PROVE  CacheInv'
<1>1. e \in Rows
  BY DEF EntryOK
<1>2. /\ entry' \in [Queries -> Rows] /\ DOMAIN entry' = Queries
      /\ \A p \in Queries : entry'[p] = IF p = q THEN e ELSE entry[p]
  BY <1>1 DEF CacheInv, Become
<1>3. \A p \in Queries : EntryOK(entry'[p], version[p], owed[p])
  BY <1>2 DEF CacheInv
<1>. QED
  BY <1>2, <1>3 DEF CacheInv, Become

LEMMA InitInv == ASSUME WritesAssumption PROVE Init => CacheInv
<1>. SUFFICES ASSUME Init PROVE CacheInv
  OBVIOUS
<1>1. NoEntry \in Rows
  BY DEF NoEntry, Rows
<1>2. EntryOK(NoEntry, 1, 0)
  BY NoEntryOK
<1>. QED
  BY <1>1, <1>2 DEF Init, CacheInv

\* One query: the step leaves an entry that is right.
LEMMA QueryStepInv ==
  ASSUME CacheInv, NEW q \in Queries,
         \/ Mount(q) \/ Unmount(q) \/ Refetch(q) \/ Age(q) \/ Collect(q)
         \/ Read(q) \/ Arrive(q) \/ Fail(q)
  PROVE  CacheInv'
<1>. DEFINE e == entry[q]
<1>1. EntryOK(e, version[q], owed[q]) /\ version[q] \in Nat /\ owed[q] \in Nat
      /\ owed[q] <= version[q]
  BY DEF CacheInv, EntryOK
<1>2. CASE Mount(q)
  BY <1>1, <1>2, ObservedOK, BecomeKeepsInv DEF Mount
<1>3. CASE Unmount(q)
  BY <1>1, <1>3, LeftOK, BecomeKeepsInv DEF Unmount
<1>4. CASE Refetch(q)
  BY <1>1, <1>4, FetchedOK, BecomeKeepsInv DEF Refetch
<1>5. CASE Age(q)
  BY <1>1, <1>5, AgedOK, BecomeKeepsInv DEF Age
<1>6. CASE Collect(q)
  BY <1>1, <1>6, NoEntryOK, BecomeKeepsInv DEF Collect
<1>7. CASE Read(q)
  BY <1>1, <1>7, ReadOK, BecomeKeepsInv DEF Read
<1>8. CASE Arrive(q)
  BY <1>1, <1>8, AnsweredOK, BecomeKeepsInv DEF Arrive
<1>9. CASE Fail(q)
  <2>1. PICK refused \in BOOLEAN : Become(q, Failed(e, refused))
    BY <1>9 DEF Fail
  <2>. QED
    BY <1>1, <1>9, <2>1, FailedOK, BecomeKeepsInv DEF Fail
<1>. QED
  BY <1>2, <1>3, <1>4, <1>5, <1>6, <1>7, <1>8, <1>9

LEMMA ApplyInv ==
  ASSUME CacheInv, NEW w \in Writes, Apply(w) PROVE CacheInv'
<1>1. \A q \in Queries :
        version'[q] = (IF q \in Touched[w] THEN version[q] + 1 ELSE version[q])
  BY DEF Apply
<1>2. version' \in [Queries -> Nat \ {0}]
  BY DEF Apply, CacheInv
<1>3. ASSUME NEW q \in Queries PROVE EntryOK(entry[q], version'[q], owed[q])
  <2>1. EntryOK(entry[q], version[q], owed[q]) /\ version[q] \in Nat /\ owed[q] \in Nat
    BY DEF CacheInv
  <2>2. EntryOK(entry[q], version[q] + 1, owed[q])
    BY <2>1, PublishedOK
  <2>. QED
    BY <1>1, <2>1, <2>2
<1>. QED
  BY <1>2, <1>3 DEF Apply, CacheInv

LEMMA SucceedInv ==
  ASSUME CacheInv, NEW w \in Writes, Succeed(w) PROVE CacheInv'
<1>1. ASSUME NEW q \in Queries
      PROVE  /\ entry'[q] \in Rows
             /\ owed'[q] \in Nat
             /\ EntryOK(entry'[q], version[q], owed'[q])
  <2>1. EntryOK(entry[q], version[q], owed[q]) /\ version[q] \in Nat /\ owed[q] \in Nat
    BY DEF CacheInv
  <2>2. /\ EntryOK(Invalidated(entry[q]), version[q], owed[q])
        /\ ~Overtaken(entry[q]) => EntryOK(Invalidated(entry[q]), version[q], version[q])
    BY <2>1, InvalidatedOK
  <2>3. entry'[q] = (IF q \in Covered[w] THEN Invalidated(entry[q]) ELSE entry[q])
    BY DEF Succeed
  <2>4. owed'[q] =
          (IF q \in Covered[w] /\ ~Overtaken(entry[q]) THEN version[q] ELSE owed[q])
    BY DEF Succeed
  <2>5. EntryOK(entry'[q], version[q], owed'[q])
    BY <2>1, <2>2, <2>3, <2>4
  <2>. QED
    BY <2>1, <2>4, <2>5 DEF EntryOK
<1>2. entry' \in [Queries -> Rows] /\ DOMAIN entry' = Queries /\ owed' \in [Queries -> Nat]
  BY <1>1 DEF Succeed
<1>. QED
  BY <1>1, <1>2 DEF Succeed, CacheInv

LEMMA NextInv == CacheInv /\ [Next]_vars => CacheInv'
<1>. SUFFICES ASSUME CacheInv, [Next]_vars PROVE CacheInv'
  OBVIOUS
<1>1. ASSUME NEW w \in Writes, Submit(w) PROVE CacheInv'
  BY <1>1 DEF Submit, CacheInv
<1>2. ASSUME NEW w \in Writes, GiveUp(w) PROVE CacheInv'
  BY <1>2 DEF GiveUp, CacheInv
<1>3. CASE UNCHANGED vars
  BY <1>3 DEF vars, CacheInv
<1>. QED
  BY <1>1, <1>2, <1>3, QueryStepInv, ApplyInv, SucceedInv DEF Next

\* Whatever is read, shown or failing, an entry keeps what the properties need.
THEOREM CacheInvariant == Spec => []CacheInv
<1>1. Init => CacheInv
  BY WritesAssumption, InitInv
<1>. QED
  BY <1>1, NextInv, PTL DEF Spec

\* The types hold, and a fetch is given up after two repetitions.
THEOREM CacheTypeCorrect == Spec => []CacheTypeOK
<1>1. CacheInv => CacheTypeOK
  BY DEF CacheInv, CacheTypeOK, EntryOK
<1>. QED
  BY <1>1, CacheInvariant, PTL

\* Data older than an acknowledged write promised is marked, and refetched on a
\* page unless that failed (invalidateQueries after every write).
THEOREM StaleMarked == Spec => []StaleIsMarked
<1>1. CacheInv => StaleIsMarked
  BY DEF CacheInv, StaleIsMarked, EntryOK
<1>. QED
  BY <1>1, CacheInvariant, PTL

-----------------------------------------------------------------------------
(* The refinement.                                                          *)

ShownData == [q \in Queries |-> entry[q].data]

\* A step that changes one entry but not what it shows is a stutter.
LEMMA SameData ==
  ASSUME CacheInv, NEW q \in Queries, NEW e, Become(q, e), e.data = entry[q].data
  PROVE  UNCHANGED <<version, owed, ShownData>>
<1>1. \A p \in Queries : entry'[p] = IF p = q THEN e ELSE entry[p]
  BY DEF CacheInv, Become
<1>2. ShownData' = ShownData
  BY <1>1 DEF ShownData
<1>. QED
  BY <1>2 DEF Become

\* One that shows v instead.
LEMMA NewData ==
  ASSUME CacheInv, NEW q \in Queries, NEW e, Become(q, e)
  PROVE  ShownData' = [ShownData EXCEPT ![q] = e.data] /\ UNCHANGED <<version, owed>>
<1>1. \A p \in Queries : entry'[p] = IF p = q THEN e ELSE entry[p]
  BY DEF CacheInv, Become
<1>2. ShownData' = [ShownData EXCEPT ![q] = e.data]
  BY <1>1 DEF ShownData
<1>. QED
  BY <1>2 DEF Become

LEMMA QueryStepRefines ==
  ASSUME CacheInv, NEW q \in Queries,
         \/ Mount(q) \/ Unmount(q) \/ Refetch(q) \/ Age(q) \/ Collect(q)
         \/ Read(q) \/ Arrive(q) \/ Fail(q)
  PROVE  \/ UNCHANGED <<version, owed, ShownData>>
         \/ Screen!Show(q)
         \/ Screen!Clear(q)
<1>. DEFINE e == entry[q]
<1>1. EntryOK(e, version[q], owed[q]) /\ version[q] \in Nat /\ owed[q] \in Nat
  BY DEF CacheInv
<1>2. CASE Mount(q)
  BY <1>1, <1>2, ObservedOK, SameData DEF Mount
<1>3. CASE Unmount(q)
  BY <1>1, <1>3, LeftOK, SameData DEF Unmount
<1>4. CASE Refetch(q)
  BY <1>1, <1>4, FetchedOK, SameData DEF Refetch
<1>5. CASE Age(q)
  BY <1>1, <1>5, AgedOK, SameData DEF Age
<1>6. CASE Collect(q)
  <2>1. ShownData' = [ShownData EXCEPT ![q] = NoEntry.data] /\ UNCHANGED <<version, owed>>
    BY <1>6, NewData DEF Collect
  <2>2. NoEntry.data = 0
    BY DEF NoEntry
  <2>. QED
    BY <2>1, <2>2 DEF Screen!Clear, ShownData
<1>7. CASE Read(q)
  BY <1>1, <1>7, ReadOK, SameData DEF Read
<1>8. CASE Arrive(q)
  <2>1. ShownData' = [ShownData EXCEPT ![q] = e.read] /\ UNCHANGED <<version, owed>>
    BY <1>1, <1>8, AnsweredOK, NewData DEF Arrive
  <2>2. e.read \in owed[q] .. version[q] /\ e.read >= e.data
    BY <1>1, <1>8 DEF Arrive, EntryOK, Rows
  <2>3. ShownData[q] = e.data
    BY DEF ShownData
  <2>. QED
    BY <2>1, <2>2, <2>3 DEF Screen!Show, ShownData
<1>9. CASE Fail(q)
  <2>1. PICK refused \in BOOLEAN : Become(q, Failed(e, refused))
    BY <1>9 DEF Fail
  <2>2. Failed(e, refused).data = e.data
    BY <1>1, <1>9, FailedOK DEF Fail
  <2>. QED
    BY <2>1, <2>2, SameData
<1>. QED
  BY <1>2, <1>3, <1>4, <1>5, <1>6, <1>7, <1>8, <1>9

LEMMA ApplyRefines ==
  ASSUME CacheInv, NEW w \in Writes, Apply(w) PROVE Screen!Publish
<1>1. Touched[w] \in SUBSET Queries
  BY WritesAssumption
<1>2. UNCHANGED <<owed, ShownData>>
  BY DEF Apply, ShownData
<1>. QED
  BY <1>1, <1>2 DEF Apply, Screen!Publish, ShownData

LEMMA SucceedRefines ==
  ASSUME CacheInv, NEW w \in Writes, Succeed(w) PROVE Screen!Acknowledge
<1>. DEFINE S == {q \in Covered[w] : ~Overtaken(entry[q])}
<1>1. S \in SUBSET Queries
  BY WritesAssumption
<1>2. owed' = [q \in Queries |-> IF q \in S THEN version[q] ELSE owed[q]]
  BY DEF Succeed
<1>3. ASSUME NEW q \in Queries PROVE entry'[q].data = entry[q].data
  <2>1. EntryOK(entry[q], version[q], owed[q]) /\ version[q] \in Nat /\ owed[q] \in Nat
    BY DEF CacheInv
  <2>2. Invalidated(entry[q]).data = entry[q].data
    BY <2>1, InvalidatedOK
  <2>. QED
    BY <2>2 DEF Succeed
<1>4. ShownData' = ShownData
  BY <1>3 DEF ShownData
<1>. HIDE DEF S
<1>. QED
  BY <1>1, <1>2, <1>4 DEF Succeed, Screen!Acknowledge, ShownData

LEMMA NextRefines ==
  CacheInv /\ [Next]_vars => [Screen!Next]_(Screen!screenVars)
<1>. SUFFICES ASSUME CacheInv, [Next]_vars
              PROVE  Screen!Next \/ UNCHANGED <<version, owed, ShownData>>
  BY DEF Screen!screenVars, ShownData
<1>1. ASSUME NEW w \in Writes, Submit(w) \/ GiveUp(w)
      PROVE  UNCHANGED <<version, owed, ShownData>>
  BY <1>1 DEF Submit, GiveUp, ShownData
<1>2. CASE UNCHANGED vars
  BY <1>2 DEF vars, ShownData
<1>. QED
  BY <1>1, <1>2, QueryStepRefines, ApplyRefines, SucceedRefines DEF Next, Screen!Next

\* The cache implements the promise of the screen: an answer that is shown is
\* never older than an acknowledged write promised, than the one shown before,
\* or newer than what exists.
THEOREM CacheKeepsPromises == Spec => KeepsPromises
<1>1. Init => Screen!Init
  BY DEF Init, Screen!Init, NoEntry
<1>. QED
  BY <1>1, CacheInvariant, NextRefines, PTL DEF Spec, KeepsPromises, Screen!Spec

-----------------------------------------------------------------------------
(***************************************************************************)
(* The sheets: what they promise, for any number of submissions and        *)
(* drafts.                                                                 *)
(*                                                                         *)
(* The inductive invariant says of every sequence which of its rows are    *)
(* there already: those of the steps behind it, the one its call has just  *)
(* made, and as many pieces of evidence as calls it has had answered.      *)
(* Rows are never taken away, so that a sequence keeps what it has while   *)
(* others write.                                                           *)
(***************************************************************************)
LastStep(form) == IF form = "register" THEN 3 ELSE 4

\* Step i of the sequence has been answered; or its call has been made at least.
Over(x, i) == i < x.step \/ x.phase = "ok"
Reached(x, i) == Over(x, i) \/ (x.step = i /\ x.phase = "made")

\* The shape of a sequence.
Shaped(x) ==
  /\ x \in DeskRuns
  /\ x.step <= LastStep(x.form)
  /\ x.part < Drafts
  /\ x.part = 0 \/ (x.form = "apply" /\ x.step = 2)
  /\ x.phase = "ok" => x.step = LastStep(x.form)
  /\ x.step = 1 /\ x.phase \in {"none", "sent"} => x.row = 0
  /\ x.phase = "none" => x.step = 1

\* The rows of a registration, and of an application.
Registered(x) ==
  /\ Reached(x, 1) => x.row \in 1 .. agents
  /\ Reached(x, 2) => x.row \in passports
  /\ Over(x, 3) => x.row \in verified

Applied(x) ==
  /\ x.phase # "none" => x.agent \in passports
  /\ Reached(x, 1) => x.row \in 1 .. tasks
  /\ x.step = 2 /\ x.phase = "sent" => evidence[x.row] >= x.part
  /\ x.step = 2 /\ x.phase = "made" => evidence[x.row] >= x.part + 1
  /\ Over(x, 2) => evidence[x.row] >= Drafts
  /\ Reached(x, 3) => x.row \in mandates
  /\ Reached(x, 4) => \E a \in applications : a.task = x.row

Fine(x) ==
  /\ Shaped(x)
  /\ x.form = "register" => Registered(x)
  /\ x.form = "apply" => Applied(x)

Created == {r \in Runs : run[r].row # 0}

ServiceOK ==
  /\ agents \in Nat /\ tasks \in Nat
  /\ agents + tasks = Cardinality(Created)
  /\ passports \in SUBSET (1 .. agents)
  /\ verified \in SUBSET passports
  /\ evidence \in [Runs -> Nat]
  /\ mandates \in SUBSET (1 .. tasks)
  /\ applications \in SUBSET [agent : 1 .. agents, task : 1 .. tasks]

RunsOK ==
  /\ submissions \in 0 .. MaxRuns
  /\ run \in [Runs -> DeskRuns]
  /\ \A r \in Runs : Fine(run[r])
  /\ \A r \in Runs : r > submissions => run[r].phase = "none"

SheetOK(f) ==
  /\ sheet[f].run # 0 => run[sheet[f].run].form = f /\ sheet[f].run \in Runs
                         /\ sheet[f].run <= submissions

FormsOK ==
  /\ sheet \in [Forms -> [open : BOOLEAN, run : 0 .. MaxRuns, done : Nat]]
  /\ newAgent \in 0 .. agents
  /\ \A f \in Forms : SheetOK(f)

DeskInv ==
  /\ ServiceOK /\ RunsOK /\ FormsOK
  /\ ApplicationsAreBacked /\ RegisteredIsVerified

-----------------------------------------------------------------------------
(* Sequences.                                                               *)

LEMMA StepNames ==
  /\ Steps("register") = <<"agent", "passport", "verify">>
  /\ Steps("apply") = <<"task", "evidence", "mandate", "application">>
  /\ Len(Steps("register")) = 3 /\ Len(Steps("apply")) = 4
  /\ Steps("register")[1] = "agent" /\ Steps("register")[2] = "passport"
  /\ Steps("register")[3] = "verify"
  /\ Steps("apply")[1] = "task" /\ Steps("apply")[2] = "evidence"
  /\ Steps("apply")[3] = "mandate" /\ Steps("apply")[4] = "application"
BY DEF Steps

\* The rows only grow.
Grows ==
  /\ agents <= agents' /\ tasks <= tasks'
  /\ passports \subseteq passports' /\ verified \subseteq verified'
  /\ mandates \subseteq mandates' /\ applications \subseteq applications'
  /\ \A t \in Runs : evidence[t] <= evidence'[t]

LEMMA ShapedKeeps ==
  ASSUME NEW x, Shaped(x)
  PROVE  Shaped(x)'
BY DEF Shaped, LastStep, DeskRuns, Forms

\* Applications and evidence belong to tasks there are slots for.
LEMMA Slots ==
  ASSUME ServiceOK, RunsOK
  PROVE  /\ agents \in Nat /\ tasks \in Nat /\ agents + tasks <= submissions
         /\ 1 .. tasks \subseteq Runs
         /\ IsFiniteSet(Created) /\ Created \subseteq 1 .. submissions
<1> USE DraftsAssumption, MaxRunsAssumption
<1>1. Created \subseteq 1 .. submissions
  <2> SUFFICES ASSUME NEW r \in Runs, run[r].row # 0
               PROVE  r \in 1 .. submissions
    BY DEF Created
  <2>1. run[r].phase # "none"
    BY DEF RunsOK, Fine, Shaped
  <2> QED BY <2>1 DEF RunsOK, Runs
<1>2. submissions \in Nat /\ IsFiniteSet(1 .. submissions) /\ Cardinality(1 .. submissions) = submissions
  BY FS_Interval DEF RunsOK
<1>3. IsFiniteSet(Created) /\ Cardinality(Created) <= submissions
  BY <1>1, <1>2, FS_Subset
<1> QED BY <1>1, <1>2, <1>3 DEF ServiceOK, RunsOK, Runs

LEMMA FineKeeps ==
  ASSUME ServiceOK, RunsOK, ServiceOK', Grows, NEW x, Fine(x)
  PROVE  Fine(x)'
<1>1. Shaped(x) /\ Shaped(x)'
  BY ShapedKeeps DEF Fine
<1>2. ASSUME x.form = "register" PROVE Registered(x)'
  <2>1. Registered(x) BY <1>2 DEF Fine
  <2>2. agents \in Nat /\ agents' \in Nat /\ agents <= agents'
    BY DEF ServiceOK, Grows
  <2> QED BY <2>1, <2>2 DEF Registered, Reached, Over, Grows
<1>3. ASSUME x.form = "apply" PROVE Applied(x)'
  <2>1. Applied(x) BY <1>3 DEF Fine
  <2>2. /\ tasks \in Nat /\ tasks' \in Nat /\ tasks <= tasks' /\ 1 .. tasks \subseteq Runs
        /\ evidence \in [Runs -> Nat] /\ evidence' \in [Runs -> Nat]
        /\ \A t \in Runs : evidence[t] <= evidence'[t]
    BY Slots DEF ServiceOK, Grows
  <2>3. x.part \in Nat /\ x.step \in 1 .. 4 /\ Drafts \in Nat /\ (x.phase = "none" => x.step = 1)
    BY <1>1, DraftsAssumption DEF Shaped, DeskRuns
  <2>4. x.step > 1 => Reached(x, 1)
    BY <2>3 DEF Reached, Over
  <2>5. Over(x, 2) => Reached(x, 1)
    BY <2>3 DEF Reached, Over
  <2>6. Reached(x, 1) => x.row \in Runs /\ x.row \in 1 .. tasks' /\ evidence[x.row] <= evidence'[x.row]
                         /\ evidence[x.row] \in Nat /\ evidence'[x.row] \in Nat
    BY <2>1, <2>2 DEF Applied
  <2>7. (x.phase # "none" => x.agent \in passports') /\ (Reached(x, 1) => x.row \in 1 .. tasks')
    BY <2>1, <2>6 DEF Applied, Grows
  <2>8. /\ x.step = 2 /\ x.phase = "sent" => evidence'[x.row] >= x.part
        /\ x.step = 2 /\ x.phase = "made" => evidence'[x.row] >= x.part + 1
        /\ Over(x, 2) => evidence'[x.row] >= Drafts
    BY <2>1, <2>3, <2>4, <2>5, <2>6 DEF Applied
  <2>9. (Reached(x, 3) => x.row \in mandates')
        /\ (Reached(x, 4) => \E a \in applications' : a.task = x.row)
    BY <2>1 DEF Applied, Grows
  <2> QED BY <2>7, <2>8, <2>9 DEF Applied, Reached, Over
<1> QED BY <1>1, <1>2, <1>3 DEF Fine

-----------------------------------------------------------------------------
(* The rows a step leaves.                                                  *)

\* What a carried call does to the row of its sequence.
LEMMA CarriedRow ==
  ASSUME RunsOK, ServiceOK, NEW r \in Runs, Carry(r)
  PROVE  /\ run[r] \in DeskRuns /\ Fine(run[r]) /\ run[r].phase = "sent"
         /\ run' \in [Runs -> DeskRuns]
         /\ \A q \in Runs \ {r} : run'[q] = run[q]
         /\ run'[r].form = run[r].form /\ run'[r].step = run[r].step
         /\ run'[r].part = run[r].part /\ run'[r].agent = run[r].agent
         /\ run'[r].phase = "made"
         /\ run'[r].row = RowAfter(r)
<1>1. run \in [Runs -> DeskRuns] /\ run[r] \in DeskRuns /\ Fine(run[r]) /\ run[r].phase = "sent"
  BY DEF RunsOK, Carry
<1> DEFINE n == RowAfter(r)
<1>2. n \in Nat
  BY <1>1 DEF ServiceOK, DeskRuns, RowAfter
<1>3. run' = [run EXCEPT ![r] = [run[r] EXCEPT !.phase = "made", !.row = n]]
  BY DEF Carry
<1> HIDE DEF n
<1>4. [run[r] EXCEPT !.phase = "made", !.row = n] \in DeskRuns
  BY <1>1, <1>2 DEF DeskRuns
<1>5. run' \in [Runs -> DeskRuns] /\ run'[r] = [run[r] EXCEPT !.phase = "made", !.row = n]
      /\ \A q \in Runs \ {r} : run'[q] = run[q]
  BY <1>1, <1>3, <1>4
<1>6. /\ run'[r].form = run[r].form /\ run'[r].step = run[r].step
      /\ run'[r].part = run[r].part /\ run'[r].agent = run[r].agent
      /\ run'[r].phase = "made" /\ run'[r].row = n
  BY <1>1, <1>5 DEF DeskRuns
<1> QED BY <1>1, <1>5, <1>6 DEF n

\* The shape of a sequence does not depend on the rows; what it has does not depend
\* on its number.
LEMMA FineThen ==
  ASSUME NEW q \in Runs, NEW y, y = run'[q], Fine(y)'
  PROVE  Fine(run[q])'
BY DEF Fine, Shaped, Registered, Applied, Reached, Over, LastStep

\* A sequence that creates its row is one more in Created; any other leaves Created.
LEMMA CreatedStep ==
  ASSUME RunsOK, ServiceOK, NEW r \in Runs, run' \in [Runs -> DeskRuns],
         \A q \in Runs \ {r} : run'[q] = run[q]
  PROVE  /\ run'[r].row = run[r].row => Created' = Created
         /\ run[r].row = 0 /\ run'[r].row # 0 => Cardinality(Created') = Cardinality(Created) + 1
<1>1. ASSUME run'[r].row = run[r].row PROVE Created' = Created
  BY <1>1 DEF Created
<1>2. ASSUME run[r].row = 0, run'[r].row # 0
      PROVE  Cardinality(Created') = Cardinality(Created) + 1
  <2>1. r \notin Created /\ Created' = Created \cup {r}
    BY <1>2 DEF Created
  <2> QED BY <2>1, Slots, FS_AddElement
<1> QED BY <1>1, <1>2

LEMMA CarryRegister ==
  ASSUME RunsOK, ServiceOK, NEW r \in Runs, Carry(r), run[r].form = "register",
         NEW y, y = run'[r]
  PROVE  Grows /\ ServiceOK' /\ Fine(y)' /\ applications' = applications
<1> DEFINE x == run[r]
<1>1. x \in DeskRuns /\ Shaped(x) /\ Registered(x) /\ x.phase = "sent" /\ y \in DeskRuns
      /\ y.form = x.form /\ y.step = x.step /\ y.part = x.part /\ y.agent = x.agent
      /\ y.phase = "made"
  BY CarriedRow DEF Fine
<1>2. x.step \in {1, 2, 3} /\ StepOf(r) = Steps("register")[x.step]
  BY <1>1 DEF Shaped, LastStep, StepOf, DeskRuns
<1>3. agents \in Nat /\ tasks \in Nat /\ agents + tasks = Cardinality(Created)
  BY DEF ServiceOK
<1>4. Shaped(y)'
  BY <1>1 DEF Shaped, LastStep
<1>5. CASE x.step = 1
  <2>1. StepOf(r) = "agent"
    BY <1>2, <1>5, StepNames
  <2>2. agents' = agents + 1 /\ y.row = agents + 1
        /\ UNCHANGED <<passports, verified, tasks, evidence, mandates, applications>>
    BY <2>1, CarriedRow DEF Carry, RowAfter
  <2>3. x.row = 0
    BY <1>1, <1>5 DEF Shaped
  <2>4. Cardinality(Created') = Cardinality(Created) + 1
    BY <2>2, <2>3, <1>3, CarriedRow, CreatedStep
  <2>5. Grows
    BY <2>2, <1>3 DEF Grows, ServiceOK
  <2>6. 1 .. agents \subseteq 1 .. agents'
    BY <2>2, <1>3
  <2>7. [agent : 1 .. agents, task : 1 .. tasks] \subseteq [agent : 1 .. agents', task : 1 .. tasks']
    BY <2>6, <2>2
  <2>8. ServiceOK'
    <3>1. agents' \in Nat /\ tasks' \in Nat /\ agents' + tasks' = Cardinality(Created')
      BY <2>2, <2>4, <1>3
    <3>2. /\ passports' \in SUBSET (1 .. agents') /\ verified' \in SUBSET passports'
          /\ evidence' \in [Runs -> Nat] /\ mandates' \in SUBSET (1 .. tasks')
          /\ applications' \in SUBSET [agent : 1 .. agents', task : 1 .. tasks']
      BY <2>2, <2>6, <2>7 DEF ServiceOK
    <3> QED BY <3>1, <3>2 DEF ServiceOK
  <2>9. Registered(y)'
    BY <1>1, <1>5, <2>2, <1>3 DEF Registered, Reached, Over
  <2> QED BY <2>2, <2>5, <2>8, <2>9, <1>4, <1>1 DEF Fine
<1>6. CASE x.step \in {2, 3}
  <2>1. Over(x, 1) /\ x.row \in 1 .. agents /\ StepOf(r) \in {"passport", "verify"}
        /\ (x.step = 3 => x.row \in passports) /\ (x.step = 2 <=> StepOf(r) = "passport")
    BY <1>1, <1>2, <1>6, StepNames DEF Registered, Reached, Over
  <2>2. y.row = x.row /\ passports' = (IF StepOf(r) = "passport" THEN passports \cup {x.row} ELSE passports)
        /\ UNCHANGED <<agents, verified, tasks, evidence, mandates, applications>>
    BY <2>1, CarriedRow DEF Carry, RowOf, RowAfter
  <2>3. Created' = Created
    BY <2>2, CarriedRow, CreatedStep
  <2>4. Grows
    BY <2>2, <1>3 DEF Grows, ServiceOK
  <2>5. ServiceOK'
    BY <2>1, <2>2, <2>3 DEF ServiceOK
  <2>6. Registered(y)'
    BY <1>1, <1>6, <2>1, <2>2 DEF Registered, Reached, Over
  <2> QED BY <2>2, <2>4, <2>5, <2>6, <1>4, <1>1 DEF Fine
<1> QED BY <1>2, <1>5, <1>6

LEMMA CarryApply ==
  ASSUME RunsOK, ServiceOK, NEW r \in Runs, Carry(r), run[r].form = "apply",
         NEW y, y = run'[r]
  PROVE  /\ Grows /\ ServiceOK' /\ Fine(y)' /\ UNCHANGED <<agents, passports, verified>>
         /\ \A a \in applications' \ applications :
              evidence[a.task] >= Drafts /\ a.task \in mandates /\ a.agent \in passports
<1> USE DraftsAssumption
<1> DEFINE x == run[r]
<1>1. x \in DeskRuns /\ Shaped(x) /\ Applied(x) /\ x.phase = "sent" /\ y \in DeskRuns
      /\ y.form = x.form /\ y.step = x.step /\ y.part = x.part /\ y.agent = x.agent
      /\ y.phase = "made" /\ y.row = RowAfter(r)
  BY CarriedRow DEF Fine
<1>2. x.step \in {1, 2, 3, 4} /\ StepOf(r) = Steps("apply")[x.step] /\ x.part \in Nat /\ x.part < Drafts
  BY <1>1 DEF Shaped, LastStep, StepOf, DeskRuns
<1>3. agents \in Nat /\ tasks \in Nat /\ agents + tasks = Cardinality(Created)
  BY DEF ServiceOK
<1>4. Shaped(y)'
  BY <1>1 DEF Shaped, LastStep
<1>5. x.agent \in passports /\ passports \in SUBSET (1 .. agents)
  BY <1>1 DEF Applied, ServiceOK
<1>6. UNCHANGED <<agents, passports, verified>>
  BY <1>2, StepNames DEF Carry
<1>7. evidence \in [Runs -> Nat] /\ 1 .. tasks \subseteq Runs
  BY Slots DEF ServiceOK
<1>8. CASE x.step = 1
  <2>1. StepOf(r) = "task"
    BY <1>2, <1>8, StepNames
  <2>2. tasks' = tasks + 1 /\ y.row = tasks + 1
        /\ UNCHANGED <<evidence, mandates, applications>>
    BY <2>1, <1>1 DEF Carry, RowAfter
  <2>3. x.row = 0
    BY <1>1, <1>8 DEF Shaped
  <2>4. Cardinality(Created') = Cardinality(Created) + 1
    BY <2>2, <2>3, <1>3, CarriedRow, CreatedStep
  <2>5. Grows
    BY <2>2, <1>3, <1>6 DEF Grows, ServiceOK
  <2>6. 1 .. tasks \subseteq 1 .. tasks'
    BY <2>2, <1>3
  <2>7. [agent : 1 .. agents, task : 1 .. tasks] \subseteq [agent : 1 .. agents', task : 1 .. tasks']
    BY <2>6, <1>6
  <2>8. ServiceOK'
    <3>1. agents' \in Nat /\ tasks' \in Nat /\ agents' + tasks' = Cardinality(Created')
      BY <2>2, <2>4, <1>3, <1>6
    <3>2. /\ passports' \in SUBSET (1 .. agents') /\ verified' \in SUBSET passports'
          /\ evidence' \in [Runs -> Nat] /\ mandates' \in SUBSET (1 .. tasks')
          /\ applications' \in SUBSET [agent : 1 .. agents', task : 1 .. tasks']
      BY <1>6, <2>2, <2>6, <2>7 DEF ServiceOK
    <3> QED BY <3>1, <3>2 DEF ServiceOK
  <2>9. Applied(y)'
    BY <1>1, <1>5, <1>6, <1>8, <2>2, <1>3 DEF Applied, Reached, Over
  <2> QED BY <2>2, <2>5, <2>8, <2>9, <1>4, <1>1, <1>6 DEF Fine
<1>9. CASE x.step \in {2, 3, 4}
  <2>1. x.row \in 1 .. tasks
    BY <1>1, <1>9 DEF Applied, Reached, Over
  <2>2. x.row \in Runs /\ evidence[x.row] \in Nat
    BY <2>1, <1>7
  <2>3. /\ x.step = 2 <=> StepOf(r) = "evidence"
        /\ x.step = 3 <=> StepOf(r) = "mandate"
        /\ x.step = 4 <=> StepOf(r) = "application"
        /\ StepOf(r) \notin {"agent", "passport", "task"}
    BY <1>2, <1>9, StepNames
  <2>4. /\ y.row = x.row /\ tasks' = tasks
        /\ evidence' = (IF x.step = 2 THEN [evidence EXCEPT ![x.row] = evidence[x.row] + 1] ELSE evidence)
        /\ mandates' = (IF x.step = 3 THEN mandates \cup {x.row} ELSE mandates)
        /\ applications' = (IF x.step = 4 THEN applications \cup {[agent |-> x.agent, task |-> x.row]}
                            ELSE applications)
    BY <2>3, <1>1 DEF Carry, RowOf, RowAfter
  <2>5. /\ evidence' \in [Runs -> Nat] /\ \A t \in Runs : evidence[t] <= evidence'[t]
        /\ (x.step = 2 => evidence'[x.row] = evidence[x.row] + 1)
        /\ (x.step # 2 => evidence'[x.row] = evidence[x.row])
    BY <2>2, <2>4, <1>7
  <2>6. Grows
    BY <2>4, <2>5, <1>3, <1>6 DEF Grows
  <2>7. Created' = Created
    BY <2>4, <1>1, CarriedRow, CreatedStep
  <2>8. ServiceOK'
    <3>1. mandates' \in SUBSET (1 .. tasks')
      BY <2>1, <2>4 DEF ServiceOK
    <3>2. [agent |-> x.agent, task |-> x.row] \in [agent : 1 .. agents, task : 1 .. tasks]
      BY <2>1, <1>5
    <3>3. applications' \in SUBSET [agent : 1 .. agents', task : 1 .. tasks']
      BY <3>2, <2>4, <1>6 DEF ServiceOK
    <3> QED BY <3>1, <3>3, <2>4, <2>5, <2>7, <1>6 DEF ServiceOK
  <2>9. Applied(y)'
    <3>1. /\ x.step = 2 => evidence[x.row] >= x.part
          /\ x.step # 2 => evidence[x.row] >= Drafts
          /\ x.step = 4 => x.row \in mandates
      BY <1>1, <1>2, <1>9 DEF Applied, Reached, Over
    <3>2. /\ y.agent \in passports' /\ y.row \in 1 .. tasks'
          /\ y.step = 2 => evidence'[y.row] >= y.part + 1
          /\ y.step # 2 => evidence'[y.row] >= Drafts
      BY <3>1, <2>1, <2>2, <2>4, <2>5, <1>1, <1>2, <1>5, <1>6
    <3>3. /\ y.step = 3 => y.row \in mandates'
          /\ y.step = 4 => y.row \in mandates'
          /\ y.step = 4 => \E a \in applications' : a.task = y.row
      <4>1. y.step = 3 => y.row \in mandates'
        BY <2>4, <1>1
      <4>2. y.step = 4 => y.row \in mandates'
        BY <3>1, <2>4, <1>1
      <4>3. ASSUME y.step = 4 PROVE \E a \in applications' : a.task = y.row
        <5>1. [agent |-> x.agent, task |-> x.row] \in applications'
          BY <4>3, <2>4, <1>1
        <5>2. [agent |-> x.agent, task |-> x.row].task = y.row
          BY <2>4
        <5> QED BY <5>1, <5>2
      <4> QED BY <4>1, <4>2, <4>3
    <3> QED BY <3>2, <3>3, <1>1, <1>2, <1>9 DEF Applied, Reached, Over
  <2>10. ASSUME NEW a \in applications' \ applications
         PROVE  evidence[a.task] >= Drafts /\ a.task \in mandates /\ a.agent \in passports
    <3>1. x.step = 4 /\ a = [agent |-> x.agent, task |-> x.row]
      BY <2>4, <2>10
    <3>2. evidence[x.row] >= Drafts /\ x.row \in mandates
      BY <3>1, <1>1 DEF Applied, Reached, Over
    <3> QED BY <3>1, <3>2, <1>5
  <2> QED BY <2>6, <2>8, <2>9, <2>10, <1>4, <1>1, <1>6 DEF Fine
<1> QED BY <1>2, <1>8, <1>9

-----------------------------------------------------------------------------
(* What every step keeps while the rows grow.                               *)

LEMMA RowsKept ==
  ASSUME ServiceOK, RunsOK, ServiceOK', Grows, NEW r \in Runs, NEW y, y = run'[r], Fine(y)',
         run' \in [Runs -> DeskRuns], \A q \in Runs \ {r} : run'[q] = run[q],
         submissions' \in 0 .. MaxRuns, submissions' >= submissions, r <= submissions'
  PROVE  RunsOK'
<1>1. ASSUME NEW q \in Runs PROVE Fine(run[q])'
  <2>1. CASE q = r
    BY <2>1, FineThen
  <2>2. CASE q # r
    <3>1. PICK z : z = run[q] /\ z = run'[q]
      BY <2>2
    <3>2. Fine(z)
      BY <3>1 DEF RunsOK
    <3>3. Fine(z)'
      BY <3>2, FineKeeps
    <3> QED BY <3>1, <3>3, FineThen
  <2> QED BY <2>1, <2>2
<1>2. ASSUME NEW q \in Runs, q > submissions' PROVE run'[q].phase = "none"
  <2>1. q # r /\ q > submissions
    BY <1>2, MaxRunsAssumption DEF Runs, RunsOK
  <2> QED BY <2>1 DEF RunsOK
<1> QED BY <1>1, <1>2 DEF RunsOK

LEMMA BackedKept ==
  ASSUME ServiceOK, RunsOK, ServiceOK', Grows, ApplicationsAreBacked,
         \A a \in applications' \ applications :
           evidence[a.task] >= Drafts /\ a.task \in mandates /\ a.agent \in passports
  PROVE  ApplicationsAreBacked'
<1> USE DraftsAssumption
<1> SUFFICES ASSUME NEW a \in applications'
             PROVE  evidence'[a.task] >= Drafts /\ a.task \in mandates' /\ a.agent \in passports'
  BY DEF ApplicationsAreBacked
<1>1. evidence[a.task] >= Drafts /\ a.task \in mandates /\ a.agent \in passports
  BY DEF ApplicationsAreBacked
<1>2. a.task \in Runs
  BY <1>1, Slots DEF ServiceOK
<1>3. evidence[a.task] \in Nat /\ evidence'[a.task] \in Nat /\ evidence[a.task] <= evidence'[a.task]
  BY <1>2 DEF ServiceOK, Grows
<1> QED BY <1>1, <1>3 DEF Grows

LEMMA FormsKept ==
  ASSUME ServiceOK, ServiceOK', RunsOK, FormsOK, RegisteredIsVerified, Grows, UNCHANGED formVars,
         NEW r \in Runs, \A q \in Runs : run'[q].form = run[q].form \/ q > submissions,
         submissions' \in Nat, submissions' >= submissions
  PROVE  FormsOK' /\ RegisteredIsVerified'
<1>1. newAgent \in 0 .. agents'
  BY DEF FormsOK, ServiceOK, Grows
<1>2. ASSUME NEW f \in Forms PROVE SheetOK(f)'
  <2>1. SheetOK(f) /\ sheet[f] \in [open : BOOLEAN, run : 0 .. MaxRuns, done : Nat]
    BY DEF FormsOK
  <2> QED BY <2>1, MaxRunsAssumption DEF SheetOK, formVars, RunsOK
<1>3. FormsOK'
  BY <1>1, <1>2 DEF FormsOK, formVars
<1>4. RegisteredIsVerified'
  BY DEF RegisteredIsVerified, Grows, formVars
<1> QED BY <1>3, <1>4

-----------------------------------------------------------------------------
(* The actions.                                                             *)

LEMMA DeskInitially == DeskInit => DeskInv
<1> SUFFICES ASSUME DeskInit PROVE DeskInv
  OBVIOUS
<1> USE DraftsAssumption, MaxRunsAssumption DEF DeskInit
<1>1. Created = {}
  BY DEF Created, NoRun
<1>2. ServiceOK
  BY <1>1, FS_EmptySet DEF ServiceOK
<1>3. NoRun \in DeskRuns
  BY DEF NoRun, DeskRuns, Forms
<1>4. PICK x : x = NoRun
  OBVIOUS
<1>5. x.form = "register" /\ x.phase = "none" /\ x.step = 1 /\ x.part = 0 /\ x.row = 0
  BY <1>4 DEF NoRun
<1>6. Fine(x)
  BY <1>3, <1>4, <1>5 DEF Fine, Shaped, Registered, Reached, Over, LastStep
<1>7. RunsOK
  BY <1>3, <1>4, <1>5, <1>6 DEF RunsOK
<1>8. FormsOK
  BY DEF FormsOK, ClosedSheet, SheetOK, Forms
<1>9. ApplicationsAreBacked /\ RegisteredIsVerified
  BY DEF ApplicationsAreBacked, RegisteredIsVerified, ClosedSheet, Forms
<1> QED BY <1>2, <1>7, <1>8, <1>9 DEF DeskInv

\* Steps that leave the service and the sequences alone.
LEMMA OnlyForms ==
  ASSUME DeskInv, UNCHANGED <<run, submissions>>, UNCHANGED serviceVars,
         FormsOK', RegisteredIsVerified'
  PROVE  DeskInv'
<1>1. ServiceOK'
  BY DEF DeskInv, ServiceOK, serviceVars, Created
<1>2. RunsOK'
  <2>1. ASSUME NEW q \in Runs PROVE Fine(run[q])'
    <3>1. PICK z : z = run[q] /\ z = run'[q]
      OBVIOUS
    <3>2. Fine(z)
      BY <3>1 DEF DeskInv, RunsOK
    <3>3. Grows
      BY DEF Grows, serviceVars, DeskInv, ServiceOK
    <3>4. Fine(z)'
      BY <3>2, <3>3, <1>1, FineKeeps DEF DeskInv
    <3> QED BY <3>1, <3>4, FineThen
  <2> QED BY <2>1 DEF DeskInv, RunsOK
<1>3. ApplicationsAreBacked'
  BY DEF DeskInv, ApplicationsAreBacked, serviceVars
<1> QED BY <1>1, <1>2, <1>3 DEF DeskInv

LEMMA OpenKeeps == ASSUME DeskInv, NEW f \in Forms, Open(f) PROVE DeskInv'
<1>1. /\ sheet' = [sheet EXCEPT ![f].open = TRUE] /\ UNCHANGED <<run, submissions, newAgent>>
      /\ UNCHANGED serviceVars
  BY DEF Open
<1>2. FormsOK' /\ RegisteredIsVerified'
  BY <1>1 DEF DeskInv, FormsOK, SheetOK, RegisteredIsVerified, serviceVars, Forms
<1> QED BY <1>1, <1>2, OnlyForms

LEMMA CloseKeeps == ASSUME DeskInv, NEW f \in Forms, Close(f) PROVE DeskInv'
<1>1. /\ sheet' = [sheet EXCEPT ![f].open = FALSE] /\ UNCHANGED <<run, submissions, newAgent>>
      /\ UNCHANGED serviceVars
  BY DEF Close
<1>2. FormsOK' /\ RegisteredIsVerified'
  BY <1>1 DEF DeskInv, FormsOK, SheetOK, RegisteredIsVerified, serviceVars, Forms
<1> QED BY <1>1, <1>2, OnlyForms

LEMMA LeaveKeeps == ASSUME DeskInv, Leave PROVE DeskInv'
<1>1. /\ sheet' = [f \in Forms |-> ClosedSheet] /\ newAgent' = 0 /\ UNCHANGED <<run, submissions>>
      /\ UNCHANGED serviceVars
  BY DEF Leave
<1>2. FormsOK' /\ RegisteredIsVerified'
  BY <1>1, MaxRunsAssumption
  DEF DeskInv, FormsOK, SheetOK, RegisteredIsVerified, serviceVars, Forms, ClosedSheet, ServiceOK
<1> QED BY <1>1, <1>2, OnlyForms

LEMMA CarryKeeps == ASSUME DeskInv, NEW r \in Runs, Carry(r) PROVE DeskInv'
<1>1. RunsOK /\ ServiceOK /\ FormsOK /\ ApplicationsAreBacked /\ RegisteredIsVerified
  BY DEF DeskInv
<1>2. PICK y : y = run'[r]
  OBVIOUS
<1>3. run[r].form \in {"register", "apply"} /\ run[r].phase = "sent" /\ run'[r].form = run[r].form
      /\ run' \in [Runs -> DeskRuns] /\ \A q \in Runs \ {r} : run'[q] = run[q]
  BY <1>1, CarriedRow DEF DeskRuns, Forms
<1>4. /\ Grows /\ ServiceOK' /\ Fine(y)'
      /\ \A a \in applications' \ applications :
           evidence[a.task] >= Drafts /\ a.task \in mandates /\ a.agent \in passports
  BY <1>1, <1>2, <1>3, CarryRegister, CarryApply
<1>5. UNCHANGED submissions /\ UNCHANGED formVars /\ submissions \in 0 .. MaxRuns
  BY <1>1 DEF Carry, RunsOK
<1>6. r <= submissions
  BY <1>1, <1>3, <1>5, MaxRunsAssumption DEF RunsOK, Runs
<1>7. RunsOK'
  BY <1>1, <1>2, <1>3, <1>4, <1>5, <1>6, MaxRunsAssumption, RowsKept
<1>8. ApplicationsAreBacked'
  BY <1>1, <1>4, BackedKept
<1>9. \A q \in Runs : run'[q].form = run[q].form
  BY <1>3
<1>10. FormsOK' /\ RegisteredIsVerified'
  BY <1>1, <1>4, <1>5, <1>9, MaxRunsAssumption, FormsKept
<1> QED BY <1>4, <1>7, <1>8, <1>10 DEF DeskInv

LEMMA SubmitKeeps == ASSUME DeskInv, NEW f \in Forms, SubmitForm(f) PROVE DeskInv'
<1> USE DraftsAssumption, MaxRunsAssumption
<1>1. RunsOK /\ ServiceOK /\ FormsOK /\ ApplicationsAreBacked /\ RegisteredIsVerified
  BY DEF DeskInv
<1> DEFINE r == submissions + 1
<1>2. submissions \in 0 .. MaxRuns /\ submissions' = r /\ r \in Runs /\ submissions \in Nat
      /\ UNCHANGED newAgent /\ UNCHANGED serviceVars
  BY <1>1 DEF SubmitForm, RunsOK, Runs
<1>3. PICK agent \in IF f = "apply" THEN Eligible ELSE {0} :
        run' = [run EXCEPT ![r] = StartedRun(f, agent)]
  BY DEF SubmitForm
<1>4. Eligible \subseteq passports
  BY <1>1 DEF Eligible, RegisteredIsVerified
<1>5. agent \in Nat /\ (f = "apply" => agent \in passports)
  BY <1>1, <1>3, <1>4 DEF ServiceOK
<1>6. PICK y : y = StartedRun(f, agent)
  OBVIOUS
<1>7. y \in DeskRuns /\ y.form = f /\ y.phase = "sent" /\ y.step = 1 /\ y.part = 0 /\ y.agent = agent
      /\ y.row = 0
  BY <1>5, <1>6 DEF StartedRun, DeskRuns
<1>8. /\ run' \in [Runs -> DeskRuns] /\ y = run'[r] /\ \A q \in Runs \ {r} : run'[q] = run[q]
  BY <1>1, <1>2, <1>3, <1>6, <1>7 DEF RunsOK
<1>9. run[r].phase = "none" /\ run[r].row = 0
  BY <1>1, <1>2 DEF RunsOK, Fine, Shaped
<1>10. Created' = Created
  BY <1>1, <1>2, <1>7, <1>8, <1>9, CreatedStep
<1>11. ServiceOK'
  BY <1>1, <1>2, <1>10 DEF ServiceOK, serviceVars
<1>12. Grows
  BY <1>1, <1>2 DEF Grows, serviceVars, ServiceOK
<1>13. Fine(y)'
  BY <1>2, <1>5, <1>7 DEF Fine, Shaped, Registered, Applied, Reached, Over, LastStep, serviceVars
<1>14. RunsOK'
  <2>1. submissions' \in 0 .. MaxRuns /\ submissions' >= submissions /\ r <= submissions'
    BY <1>2 DEF Runs
  <2> HIDE DEF r
  <2> QED BY <2>1, <1>1, <1>2, <1>8, <1>11, <1>12, <1>13, RowsKept
<1>15. FormsOK' /\ RegisteredIsVerified'
  <2>1. sheet' = [sheet EXCEPT ![f].run = r] /\ UNCHANGED <<newAgent, agents, passports, verified>>
    BY <1>2 DEF SubmitForm, serviceVars
  <2>2. /\ sheet' \in [Forms -> [open : BOOLEAN, run : 0 .. MaxRuns, done : Nat]]
        /\ sheet'[f].run = r
        /\ \A g \in Forms : sheet'[g].done = sheet[g].done
        /\ \A g \in Forms \ {f} : sheet'[g] = sheet[g]
    BY <1>1, <1>2, <2>1 DEF FormsOK, Runs
  <2>3. ASSUME NEW g \in Forms PROVE SheetOK(g)'
    <3>1. CASE g = f
      BY <3>1, <2>2, <1>2, <1>7, <1>8 DEF SheetOK
    <3>2. CASE g # f
      <4>1. SheetOK(g) /\ sheet'[g] = sheet[g] /\ sheet[g].run \in 0 .. MaxRuns
        BY <3>2, <2>2, <1>1 DEF FormsOK
      <4>2. sheet[g].run # 0 => sheet[g].run # r
        BY <4>1, <1>2 DEF SheetOK
      <4> QED BY <4>1, <4>2, <1>2, <1>8 DEF SheetOK
    <3> QED BY <3>1, <3>2
  <2>4. RegisteredIsVerified'
    BY <1>1, <2>1, <2>2 DEF RegisteredIsVerified, Forms
  <2> QED BY <1>1, <2>1, <2>2, <2>3, <2>4 DEF FormsOK
<1>16. ApplicationsAreBacked'
  BY <1>1, <1>2 DEF ApplicationsAreBacked, serviceVars
<1> QED BY <1>11, <1>14, <1>15, <1>16 DEF DeskInv

\* The row of a sequence that stops, and of one that goes on to its next call.
LEMMA StoppedRow ==
  ASSUME NEW x \in DeskRuns
  PROVE  /\ Stopped(x) \in DeskRuns
         /\ Stopped(x).form = x.form /\ Stopped(x).agent = x.agent /\ Stopped(x).row = x.row
         /\ Stopped(x).step = x.step /\ Stopped(x).part = x.part /\ Stopped(x).phase = "failed"
BY DEF DeskRuns, Stopped

LEMMA RowShape ==
  ASSUME NEW x \in DeskRuns, NEW p \in {"none", "sent", "made", "ok", "failed"}, NEW s \in 1 .. 4,
         NEW n \in Nat
  PROVE  [x EXCEPT !.phase = p, !.step = s, !.part = n] \in DeskRuns
BY DEF DeskRuns

MoreDrafts(x) == x.form = "apply" /\ x.step = 2 /\ x.part + 1 < Drafts

LEMMA AdvancedRow ==
  ASSUME NEW x \in DeskRuns, x.step <= LastStep(x.form)
  PROVE  /\ Advanced(x) \in DeskRuns
         /\ Advanced(x).form = x.form /\ Advanced(x).agent = x.agent /\ Advanced(x).row = x.row
         /\ MoreDrafts(x) =>
              Advanced(x).phase = "sent" /\ Advanced(x).step = 2 /\ Advanced(x).part = x.part + 1
         /\ ~MoreDrafts(x) => Advanced(x).part = 0
         /\ ~MoreDrafts(x) /\ x.step = LastStep(x.form) =>
              Advanced(x).phase = "ok" /\ Advanced(x).step = x.step
         /\ ~MoreDrafts(x) /\ x.step < LastStep(x.form) =>
              Advanced(x).phase = "sent" /\ Advanced(x).step = x.step + 1
<1>0. 0 \in Nat /\ "sent" \in {"none", "sent", "made", "ok", "failed"}
      /\ "ok" \in {"none", "sent", "made", "ok", "failed"}
  OBVIOUS
<1>1. x.form \in {"register", "apply"} /\ x.step \in 1 .. 4 /\ x.part \in Nat
  BY DEF DeskRuns, Forms
<1>2. Len(Steps(x.form)) = LastStep(x.form) /\ LastStep(x.form) \in {3, 4}
  BY <1>1, StepNames DEF LastStep
<1>3. CASE MoreDrafts(x)
  <2>1. Advanced(x) = [x EXCEPT !.phase = "sent", !.part = x.part + 1]
    BY <1>3 DEF Advanced, MoreDrafts
  <2>2. x.part + 1 \in Nat
    BY <1>1
  <2> QED BY <2>1, <2>2, <1>3 DEF DeskRuns, MoreDrafts
<1>4. CASE ~MoreDrafts(x) /\ x.step = LastStep(x.form)
  <2>1. Advanced(x) = [x EXCEPT !.phase = "ok", !.part = 0]
    BY <1>2, <1>4 DEF Advanced, MoreDrafts
  <2>2. Advanced(x) \in DeskRuns
    <3>1. Advanced(x) = [x EXCEPT !.phase = "ok", !.step = x.step, !.part = 0]
      BY <2>1 DEF DeskRuns
    <3>2. [x EXCEPT !.phase = "ok", !.step = x.step, !.part = 0] \in DeskRuns
      BY <1>1, <1>0, RowShape
    <3> QED BY <3>1, <3>2
  <2>3. /\ Advanced(x).form = x.form /\ Advanced(x).agent = x.agent /\ Advanced(x).row = x.row
        /\ Advanced(x).phase = "ok" /\ Advanced(x).step = x.step /\ Advanced(x).part = 0
    BY <2>1 DEF DeskRuns
  <2> QED BY <2>2, <2>3, <1>1, <1>2, <1>4
<1>5. CASE ~MoreDrafts(x) /\ x.step < LastStep(x.form)
  <2> DEFINE n == x.step + 1
  <2>1. n \in 1 .. 4
    BY <1>1, <1>2, <1>5
  <2>2. Advanced(x) = [x EXCEPT !.phase = "sent", !.step = n, !.part = 0]
    BY <1>1, <1>2, <1>5 DEF Advanced, MoreDrafts
  <2> HIDE DEF n
  <2>3. Advanced(x) \in DeskRuns
    <3>1. [x EXCEPT !.phase = "sent", !.step = n, !.part = 0] \in DeskRuns
      BY <1>0, <2>1, RowShape
    <3> QED BY <3>1, <2>2
  <2>4. /\ Advanced(x).form = x.form /\ Advanced(x).agent = x.agent /\ Advanced(x).row = x.row
        /\ Advanced(x).phase = "sent" /\ Advanced(x).step = n /\ Advanced(x).part = 0
    BY <2>2 DEF DeskRuns
  <2> QED BY <2>3, <2>4, <1>1, <1>2, <1>5 DEF n
<1> QED BY <1>1, <1>2, <1>3, <1>4, <1>5

\* A sequence that stops keeps what it has.
LEMMA StoppedFine ==
  ASSUME NEW x, Fine(x), x.phase \in {"sent", "made"}, NEW y, y = Stopped(x)
  PROVE  Fine(y)
<1>1. x \in DeskRuns /\ Shaped(x)
  BY DEF Fine, Shaped
<1>2. /\ y \in DeskRuns
      /\ y.form = x.form /\ y.agent = x.agent /\ y.row = x.row
      /\ y.step = x.step /\ y.part = x.part /\ y.phase = "failed"
  BY <1>1, StoppedRow
<1>3. Shaped(y)
  BY <1>1, <1>2 DEF Shaped
<1>4. x.form = "register" => Registered(y)
  BY <1>2 DEF Fine, Registered, Reached, Over
<1>5. x.form = "apply" => Applied(y)
  BY <1>2 DEF Fine, Applied, Reached, Over
<1> QED BY <1>2, <1>3, <1>4, <1>5 DEF Fine

\* A sequence whose call is answered has the row of that call.
LEMMA AdvancedFine ==
  ASSUME NEW x, Fine(x)', x.phase = "made", x.form = "register" /\ x.step = 3 => x.row \in verified',
         \A t \in 1 .. tasks' : evidence'[t] \in Nat,
         NEW y, y = Advanced(x)
  PROVE  Fine(y)'
<1> USE DraftsAssumption
<1>1. x \in DeskRuns /\ Shaped(x)' /\ x.step \in 1 .. 4 /\ x.part \in Nat /\ x.part < Drafts
      /\ x.step <= LastStep(x.form) /\ x.form \in {"register", "apply"}
  BY DEF Fine, Shaped, DeskRuns, Forms
<1>2. y \in DeskRuns /\ y.form = x.form /\ y.agent = x.agent /\ y.row = x.row
  BY <1>1, AdvancedRow
<1>3. MoreDrafts(x) => y.phase = "sent" /\ y.step = 2 /\ y.part = x.part + 1
  BY <1>1, AdvancedRow
<1>4. ~MoreDrafts(x) => y.part = 0
  BY <1>1, AdvancedRow
<1>5. ~MoreDrafts(x) /\ x.step = LastStep(x.form) => y.phase = "ok" /\ y.step = x.step
  BY <1>1, AdvancedRow
<1>6. ~MoreDrafts(x) /\ x.step < LastStep(x.form) => y.phase = "sent" /\ y.step = x.step + 1
  BY <1>1, AdvancedRow
<1>7. Shaped(y)'
  <2>1. LastStep(x.form) \in {3, 4}
    BY DEF LastStep
  <2>2. CASE MoreDrafts(x)
    BY <2>1, <2>2, <1>1, <1>2, <1>3 DEF Shaped, MoreDrafts
  <2>3. CASE ~MoreDrafts(x) /\ x.step = LastStep(x.form)
    BY <2>1, <2>3, <1>1, <1>2, <1>4, <1>5 DEF Shaped
  <2>4. CASE ~MoreDrafts(x) /\ x.step < LastStep(x.form)
    BY <2>1, <2>4, <1>1, <1>2, <1>4, <1>6 DEF Shaped
  <2> QED BY <2>1, <2>2, <2>3, <2>4, <1>1
<1>8. ASSUME x.form = "register" PROVE Registered(y)'
  <2>1. Registered(x)' /\ x.step \in 1 .. 3 /\ ~MoreDrafts(x) /\ LastStep(x.form) = 3
    BY <1>8, <1>1 DEF Fine, LastStep, MoreDrafts
  <2>2. CASE x.step = 3
    BY <2>1, <2>2, <1>2, <1>5, <1>8 DEF Registered, Reached, Over
  <2>3. CASE x.step \in {1, 2}
    BY <2>1, <2>3, <1>2, <1>6 DEF Registered, Reached, Over
  <2> QED BY <2>1, <2>2, <2>3
<1>9. ASSUME x.form = "apply" PROVE Applied(y)'
  <2>1. Applied(x)' /\ x.step \in 1 .. 4 /\ LastStep(x.form) = 4 /\ x.agent \in passports'
        /\ Reached(x, 1) /\ x.row \in 1 .. tasks'
        /\ evidence'[x.row] \in Nat
    BY <1>9, <1>1 DEF Fine, Applied, LastStep, Reached, Over
  <2>2. CASE MoreDrafts(x)
    BY <2>1, <2>2, <1>1, <1>2, <1>3 DEF Applied, Reached, Over, MoreDrafts
  <2>3. CASE ~MoreDrafts(x) /\ x.step = 4
    <3>1. Over(x, 2) /\ Reached(x, 3) /\ Reached(x, 4)
      BY <2>3 DEF Over, Reached
    <3> QED BY <3>1, <2>1, <2>3, <1>2, <1>5 DEF Applied, Reached, Over
  <2>4. CASE ~MoreDrafts(x) /\ x.step = 1
    BY <2>1, <2>4, <1>2, <1>4, <1>6 DEF Applied, Reached, Over
  <2>5. CASE ~MoreDrafts(x) /\ x.step = 3
    <3>1. Over(x, 2) /\ Reached(x, 3)
      BY <2>5 DEF Over, Reached
    <3> QED BY <3>1, <2>1, <2>5, <1>2, <1>6 DEF Applied, Reached, Over
  <2>6. CASE ~MoreDrafts(x) /\ x.step = 2
    <3>1. evidence'[x.row] >= x.part + 1 /\ ~(x.part + 1 < Drafts)
      BY <2>1, <2>6, <1>9 DEF Applied, MoreDrafts
    <3>2. x.part + 1 = Drafts
      BY <3>1, <1>1
    <3>3. evidence'[x.row] >= Drafts
      BY <3>1, <3>2
    <3> QED BY <3>3, <2>1, <2>6, <1>2, <1>6 DEF Applied, Reached, Over
  <2> QED BY <2>1, <2>2, <2>3, <2>4, <2>5, <2>6
<1> QED BY <1>2, <1>7, <1>8, <1>9 DEF Fine

\* An answer or a failure: the row goes on, its sheet and its page are told.
LEMMA ToldKeeps ==
  ASSUME DeskInv, NEW r \in Runs, NEW y, y \in DeskRuns, run' = [run EXCEPT ![r] = y],
         run[r].phase \in {"sent", "made"}, y.form = run[r].form, y.row = run[r].row,
         Fine(y)', verified' \in SUBSET passports, verified \subseteq verified', Told(r),
         UNCHANGED <<submissions, agents, passports, tasks, evidence, mandates, applications>>
  PROVE  DeskInv'
<1>1. RunsOK /\ ServiceOK /\ FormsOK /\ ApplicationsAreBacked /\ RegisteredIsVerified
  BY DEF DeskInv
<1>2. /\ run' \in [Runs -> DeskRuns] /\ run'[r] = y /\ \A q \in Runs \ {r} : run'[q] = run[q]
      /\ \A q \in Runs : run'[q].form = run[q].form
  BY <1>1 DEF RunsOK
<1>3. Created' = Created
  BY <1>1, <1>2, CreatedStep
<1>4. ServiceOK'
  BY <1>1, <1>3 DEF ServiceOK
<1>5. Grows
  BY <1>1 DEF Grows, ServiceOK
<1>6. submissions \in 0 .. MaxRuns /\ submissions' = submissions /\ r <= submissions
  BY <1>1, MaxRunsAssumption DEF RunsOK, Runs
<1>7. RunsOK'
  BY <1>1, <1>2, <1>4, <1>5, <1>6, MaxRunsAssumption, RowsKept
<1>8. ApplicationsAreBacked'
  BY <1>1 DEF ApplicationsAreBacked
<1>9. FormsOK' /\ RegisteredIsVerified'
  <2>1. CASE UNCHANGED formVars
    BY <2>1, <1>1, <1>2, <1>4, <1>5, <1>6, MaxRunsAssumption, FormsKept
  <2>2. CASE y.phase = "ok" /\ sheet[run[r].form].run = r
    <3> DEFINE f == run[r].form
    <3>1. /\ sheet' = [sheet EXCEPT ![f].done = y.row]
          /\ newAgent' = (IF f = "register" THEN y.row ELSE newAgent)
      BY <2>2, <1>2 DEF Told
    <3>2. f \in Forms /\ y.row \in Nat
      BY <1>1 DEF RunsOK, DeskRuns
    <3>3. f = "register" => y.row \in verified' /\ y.row \in passports' /\ y.row \in 1 .. agents'
      <4> SUFFICES ASSUME f = "register"
                   PROVE  y.row \in verified' /\ y.row \in passports' /\ y.row \in 1 .. agents'
        OBVIOUS
      <4>1. Registered(y)' /\ Shaped(y)'
        BY DEF Fine
      <4>2. y.row \in verified'
        BY <4>1, <2>2 DEF Registered, Over
      <4> QED BY <4>2, <1>4 DEF ServiceOK
    <3> HIDE DEF f
    <3>4. /\ sheet' \in [Forms -> [open : BOOLEAN, run : 0 .. MaxRuns, done : Nat]]
          /\ \A g \in Forms : sheet'[g].run = sheet[g].run
          /\ sheet'[f].done = y.row
          /\ \A g \in Forms \ {f} : sheet'[g] = sheet[g]
      BY <3>1, <3>2, <1>1 DEF FormsOK
    <3>5. ASSUME NEW g \in Forms PROVE SheetOK(g)'
      <4>1. SheetOK(g) /\ sheet'[g].run = sheet[g].run
        BY <3>4, <1>1 DEF FormsOK
      <4> QED BY <4>1, <1>2, <1>6 DEF SheetOK
    <3>6. newAgent' \in 0 .. agents'
      BY <3>1, <3>3, <1>1 DEF FormsOK, ServiceOK
    <3>7. RegisteredIsVerified'
      <4>1. newAgent' # 0 => newAgent' \in passports' /\ newAgent' \in verified'
        BY <3>1, <3>3, <1>1 DEF RegisteredIsVerified
      <4>2. sheet'["register"].done # 0 => sheet'["register"].done \in verified'
        BY <3>3, <3>4, <1>1 DEF RegisteredIsVerified, Forms
      <4> QED BY <4>1, <4>2 DEF RegisteredIsVerified
    <3> QED BY <3>4, <3>5, <3>6, <3>7 DEF FormsOK
  <2> QED BY <2>1, <2>2, <1>2 DEF Told
<1> QED BY <1>4, <1>7, <1>8, <1>9 DEF DeskInv

LEMMA ThrowKeeps == ASSUME DeskInv, NEW r \in Runs, Throw(r) PROVE DeskInv'
<1>1. run[r] \in DeskRuns /\ Fine(run[r]) /\ run[r].phase \in {"sent", "made"} /\ ServiceOK /\ RunsOK
  BY DEF DeskInv, RunsOK, Throw, Under
<1>2. PICK x, y : x = run[r] /\ y = Stopped(x)
  OBVIOUS
<1>3. /\ run' = [run EXCEPT ![r] = y] /\ Told(r) /\ UNCHANGED submissions /\ UNCHANGED serviceVars
  BY <1>2 DEF Throw
<1>4. y \in DeskRuns /\ y.form = run[r].form /\ y.row = run[r].row
  BY <1>1, <1>2, StoppedRow
<1>5. Fine(y)
  BY <1>1, <1>2, StoppedFine
<1>6. Fine(y)'
  BY <1>3, <1>5 DEF Fine, Shaped, Registered, Applied, Reached, Over, LastStep, serviceVars
<1>7. verified' \in SUBSET passports /\ verified \subseteq verified'
      /\ UNCHANGED <<submissions, agents, passports, tasks, evidence, mandates, applications>>
  BY <1>1, <1>3 DEF serviceVars, ServiceOK
<1> QED BY <1>1, <1>3, <1>4, <1>6, <1>7, ToldKeeps

LEMMA AnswerKeeps == ASSUME DeskInv, NEW r \in Runs, Answer(r) PROVE DeskInv'
<1>1. run[r] \in DeskRuns /\ Fine(run[r]) /\ run[r].phase = "made" /\ ServiceOK /\ RunsOK
  BY DEF DeskInv, RunsOK, Answer
<1>2. PICK valid \in BOOLEAN :
        /\ StepOf(r) # "verify" => valid
        /\ verified' = IF StepOf(r) = "verify" /\ valid THEN verified \cup {run[r].row}
                       ELSE verified
        /\ run' = [run EXCEPT ![r] =
             IF Passes(StepOf(r), valid) THEN Advanced(run[r]) ELSE Stopped(run[r])]
  BY DEF Answer
<1>3. Told(r) /\ UNCHANGED <<submissions, agents, passports, tasks, evidence, mandates, applications>>
  BY DEF Answer
<1>4. PICK x, y : x = run[r] /\ y = IF Passes(StepOf(r), valid) THEN Advanced(x) ELSE Stopped(x)
  OBVIOUS
<1>5. /\ x \in DeskRuns /\ Shaped(x) /\ x.step \in 1 .. 4 /\ x.step <= LastStep(x.form)
      /\ x.form \in {"register", "apply"}
  BY <1>1, <1>4 DEF Fine, Shaped, DeskRuns, Forms
<1>6. StepOf(r) = Steps(x.form)[x.step] /\ (StepOf(r) = "verify" <=> x.form = "register" /\ x.step = 3)
  <2>1. CASE x.form = "register"
    BY <2>1, <1>4, <1>5, StepNames DEF StepOf, LastStep
  <2>2. CASE x.form = "apply"
    BY <2>2, <1>4, <1>5, StepNames DEF StepOf, LastStep
  <2> QED BY <2>1, <2>2, <1>5
<1>7. y \in DeskRuns /\ y.form = run[r].form /\ y.row = run[r].row
  BY <1>4, <1>5, AdvancedRow, StoppedRow
<1>8. verified' \in SUBSET passports /\ verified \subseteq verified'
  <2>1. StepOf(r) = "verify" => x.row \in passports
    BY <1>1, <1>4, <1>6 DEF Fine, Registered, Reached, Over
  <2> QED BY <2>1, <1>1, <1>2, <1>4 DEF ServiceOK
<1>9. Created' = Created
  <2>1. /\ run' \in [Runs -> DeskRuns] /\ run'[r] = y /\ \A q \in Runs \ {r} : run'[q] = run[q]
    BY <1>1, <1>2, <1>4, <1>7 DEF RunsOK
  <2> QED BY <2>1, <1>1, <1>7, CreatedStep
<1>10. ServiceOK' /\ Grows
  BY <1>1, <1>3, <1>8, <1>9 DEF ServiceOK, Grows
<1>11. Fine(x)'
  BY <1>1, <1>4, <1>10, FineKeeps
<1>12. Fine(y)'
  <2>1. CASE Passes(StepOf(r), valid)
    <3>1. x.form = "register" /\ x.step = 3 => x.row \in verified'
      BY <2>1, <1>2, <1>4, <1>6 DEF Passes
    <3>2. \A t \in 1 .. tasks' : evidence'[t] \in Nat
      BY <1>1, <1>3, Slots DEF ServiceOK
    <3> QED BY <2>1, <3>1, <3>2, <1>1, <1>4, <1>11, AdvancedFine
  <2>2. CASE ~Passes(StepOf(r), valid)
    <3>1. y = Stopped(x) /\ Fine(y) /\ Fine(x)
      BY <2>2, <1>1, <1>4, StoppedFine
    <3> QED BY <3>1, <1>1, <1>10, FineKeeps
  <2> QED BY <2>1, <2>2
<1> QED BY <1>1, <1>2, <1>3, <1>4, <1>7, <1>8, <1>12, ToldKeeps

LEMMA DeskInductive == DeskInv /\ [DeskNext]_deskVars => DeskInv'
<1> SUFFICES ASSUME DeskInv, [DeskNext]_deskVars PROVE DeskInv'
  OBVIOUS
<1>1. CASE Leave
  BY <1>1, LeaveKeeps
<1>2. ASSUME NEW f \in Forms, Open(f) \/ Close(f) \/ SubmitForm(f) PROVE DeskInv'
  BY <1>2, OpenKeeps, CloseKeeps, SubmitKeeps
<1>3. ASSUME NEW r \in Runs, Carry(r) \/ Answer(r) \/ Throw(r) PROVE DeskInv'
  BY <1>3, CarryKeeps, AnswerKeeps, ThrowKeeps
<1>4. CASE UNCHANGED deskVars
  <2>1. UNCHANGED <<run, submissions>> /\ UNCHANGED serviceVars /\ UNCHANGED formVars
    BY <1>4 DEF deskVars, serviceVars, formVars
  <2>2. FormsOK' /\ RegisteredIsVerified'
    BY <2>1 DEF DeskInv, FormsOK, SheetOK, RegisteredIsVerified, serviceVars, formVars
  <2> QED BY <2>1, <2>2, OnlyForms
<1> QED BY <1>1, <1>2, <1>3, <1>4 DEF DeskNext

-----------------------------------------------------------------------------
(* What follows from the invariant.                                         *)

\* The rows of every sequence, sheet and page stay as the invariant says.
THEOREM DeskInvariant == DeskSpec => []DeskInv
<1>1. DeskInit => DeskInv
  BY DeskInitially
<1>2. DeskInv /\ [DeskNext]_deskVars => DeskInv'
  BY DeskInductive
<1> QED BY <1>1, <1>2, PTL DEF DeskSpec

\* Sheets and rows keep their shape; there are no more agents and tasks than
\* submissions: one submission creates one of them at most.
THEOREM DeskTypeCorrect == DeskSpec => []DeskTypeOK
<1>1. DeskInv => DeskTypeOK
  <2> SUFFICES ASSUME DeskInv PROVE DeskTypeOK
    OBVIOUS
  <2>1. agents \in Nat /\ tasks \in Nat /\ agents + tasks <= submissions
    BY Slots DEF DeskInv
  <2> QED BY <2>1 DEF DeskInv, ServiceOK, RunsOK, FormsOK, DeskTypeOK
<1> QED BY <1>1, DeskInvariant, PTL

\* An application stands on its task's evidence and mandate and on a passport.
THEOREM ApplicationsBacked == DeskSpec => []ApplicationsAreBacked
<1>1. DeskInv => ApplicationsAreBacked
  BY DEF DeskInv
<1> QED BY <1>1, DeskInvariant, PTL

\* An agent a page takes for registered holds a passport that passed its checks.
THEOREM RegisteredVerified == DeskSpec => []RegisteredIsVerified
<1>1. DeskInv => RegisteredIsVerified
  BY DEF DeskInv
<1> QED BY <1>1, DeskInvariant, PTL

\* A step marked done has left its row behind, however the sequence ended.
THEOREM StepsTruthful == DeskSpec => []StepsTellTheTruth
<1>1. DeskInv => StepsTellTheTruth
  <2> SUFFICES ASSUME DeskInv, NEW f \in Forms, sheet[f].run # 0,
                      NEW i \in DOMAIN StepStates(sheet[f].run),
                      StepStates(sheet[f].run)[i] = "done"
               PROVE  LeftBehind(sheet[f].run, Steps(run[sheet[f].run].form)[i])
    BY DEF StepsTellTheTruth
  <2> DEFINE r == sheet[f].run
             x == run[r]
  <2>1. r \in Runs /\ Fine(x) /\ x \in DeskRuns /\ x.form \in {"register", "apply"}
    BY DEF DeskInv, FormsOK, SheetOK, RunsOK, DeskRuns, Forms
  <2>2. i \in 1 .. Len(Steps(x.form)) /\ Over(x, i)
    BY DEF StepStates, Over
  <2> HIDE DEF r
  <2>3. CASE x.form = "register"
    <3>1. i \in {1, 2, 3} /\ Registered(x) /\ x.step \in Nat
      <4>1. Len(Steps(x.form)) = 3
        BY <2>3, StepNames
      <4>2. i \in 1 .. 3
        BY <2>2, <4>1
      <4>3. Registered(x)
        BY <2>1, <2>3 DEF Fine
      <4>4. x.step \in Nat
        BY <2>1 DEF DeskRuns
      <4> QED BY <4>2, <4>3, <4>4
    <3>2. LeftBehind(r, Steps("register")[i])
      <4>1. CASE i = 1
        BY <4>1, <2>2, <3>1, StepNames DEF LeftBehind, Registered, Reached, Over
      <4>2. CASE i = 2
        BY <4>2, <2>2, <3>1, StepNames DEF LeftBehind, Registered, Reached, Over
      <4>3. CASE i = 3
        BY <4>3, <2>2, <3>1, StepNames DEF LeftBehind, Registered, Reached, Over
      <4> QED BY <3>1, <4>1, <4>2, <4>3
    <3> QED BY <2>3, <3>2 DEF r
  <2>4. CASE x.form = "apply"
    <3>1. i \in {1, 2, 3, 4} /\ Applied(x) /\ x.step \in Nat
      <4>1. Len(Steps(x.form)) = 4
        BY <2>4, StepNames
      <4>2. i \in 1 .. 4
        BY <2>2, <4>1
      <4>3. Applied(x)
        BY <2>1, <2>4 DEF Fine
      <4>4. x.step \in Nat
        BY <2>1 DEF DeskRuns
      <4> QED BY <4>2, <4>3, <4>4
    <3>2. LeftBehind(r, Steps("apply")[i])
      <4>1. CASE i = 1
        BY <4>1, <2>2, <3>1, StepNames DEF LeftBehind, Applied, Reached, Over
      <4>2. CASE i = 2
        BY <4>2, <2>2, <3>1, StepNames DEF LeftBehind, Applied, Reached, Over
      <4>3. CASE i = 3
        BY <4>3, <2>2, <3>1, StepNames DEF LeftBehind, Applied, Reached, Over
      <4>4. CASE i = 4
        BY <4>4, <2>2, <3>1, StepNames DEF LeftBehind, Applied, Reached, Over
      <4> QED BY <3>1, <4>1, <4>2, <4>3, <4>4
    <3> QED BY <2>4, <3>2 DEF r
  <2> QED BY <2>1, <2>3, <2>4
<1> QED BY <1>1, DeskInvariant, PTL

(***************************************************************************)
(* The pages: that they agree, offer what the service accepts, and send    *)
(* what was typed.                                                         *)
(*                                                                         *)
(* WorldOK(w) gathers what every workspace of ReadModel has and the pages  *)
(* rely on.  Truth(w, subject) is the one word of each subject: two pages  *)
(* that say it of every undisputed subject agree.                          *)
(***************************************************************************)
WorldOK(w) ==
  /\ w.application \in {"none", "DRAFT", "HUMAN_REVIEW_REQUIRED", "REJECTED", "APPROVED",
                        "DISBURSEMENT_ENABLED"}
  /\ w.limit \in 0 .. LimitMinor
  /\ w.passport \in {"none", "valid", "invalid"}
  /\ w.attempt \in {"none", "APPROVED", "DENIED", "EXECUTED"}
  /\ w.application = "DISBURSEMENT_ENABLED" => HasVault(w)
  /\ Decided(w) /\ ~w.scored => w.application = "REJECTED"
  /\ HasApplication(w) \/ w.attempt # "none" => HasAgent(w)
  /\ w.vault \in VaultRows \/ w.vault = NoVault

\* A vault owes nothing once it is repaid or has defaulted, and has a repayment
\* row from the moment it has left the statuses in which it is unfinished.
VaultOK(v) ==
  /\ v.status \in {"none", "CLOSED"} \cup Unfinished \cup Finished
  /\ v.left \in Nat
  /\ v.status \in {"none", "REPAID", "DEFAULTED"} => v.left = 0
  /\ v.runs \in Seq({Waterfall, Recovery})
  /\ v.status = "none" => v.runs = <<>>

LEMMA RunsShape ==
  ASSUME NEW e \in Finished, NEW r \in RunsOf(e)
  PROVE  r \in Seq({Waterfall, Recovery})
<1>1. r \in {<<Waterfall>>, <<Waterfall, Waterfall>>, <<Recovery>>}
  BY DEF RunsOf, Finished
<1>2. /\ <<Waterfall>> \in Seq({Waterfall, Recovery})
      /\ <<Waterfall, Waterfall>> \in Seq({Waterfall, Recovery})
      /\ <<Recovery>> \in Seq({Waterfall, Recovery})
  OBVIOUS
<1> QED BY <1>1, <1>2

LEMMA VaultsOK ==
  ASSUME NEW v, v \in VaultRows \/ v = NoVault
  PROVE  VaultOK(v)
<1>1. CASE v = NoVault
  BY <1>1 DEF NoVault, VaultOK
<1>2. CASE v \in {[status |-> s, end |-> s, left |-> LimitMinor, runs |-> <<>>] : s \in Unfinished}
  <2>1. PICK s \in Unfinished : v = [status |-> s, end |-> s, left |-> LimitMinor, runs |-> <<>>]
    BY <1>2
  <2>2. s \notin {"none", "REPAID", "DEFAULTED"}
    BY DEF Unfinished
  <2> QED BY <2>1, <2>2 DEF VaultOK, LimitMinor
<1>3. ASSUME NEW e \in Finished,
             v \in {[status |-> s, end |-> e, left |-> l, runs |-> r] :
                      s \in {e, "CLOSED"},
                      l \in (IF e = "PARTIALLY_REPAID" THEN {0, 1} ELSE {0}),
                      r \in RunsOf(e)}
      PROVE  VaultOK(v)
  <2>1. PICK s \in {e, "CLOSED"}, l \in (IF e = "PARTIALLY_REPAID" THEN {0, 1} ELSE {0}),
             r \in RunsOf(e) :
             v = [status |-> s, end |-> e, left |-> l, runs |-> r]
    BY <1>3
  <2>2. r \in Seq({Waterfall, Recovery})
    BY RunsShape
  <2> QED BY <2>1, <2>2 DEF VaultOK, Finished
<1> QED BY <1>1, <1>2, <1>3 DEF VaultRows
LEMMA RowsHaveStatus == ASSUME NEW v \in VaultRows PROVE v.status # "none"
<1>1. CASE v \in {[status |-> s, end |-> s, left |-> LimitMinor, runs |-> <<>>] : s \in Unfinished}
  BY <1>1 DEF Unfinished
<1>2. ASSUME NEW e \in Finished,
             v \in {[status |-> s, end |-> e, left |-> l, runs |-> r] :
                      s \in {e, "CLOSED"},
                      l \in (IF e = "PARTIALLY_REPAID" THEN {0, 1} ELSE {0}),
                      r \in RunsOf(e)}
      PROVE  v.status # "none"
  <2>1. PICK s \in {e, "CLOSED"}, l \in (IF e = "PARTIALLY_REPAID" THEN {0, 1} ELSE {0}),
             r \in RunsOf(e) :
             v = [status |-> s, end |-> e, left |-> l, runs |-> r]
    BY <1>2
  <2> QED BY <2>1 DEF Finished
<1> QED BY <1>1, <1>2 DEF VaultRows

LEMMA NewWorldOK == ASSUME NEW w \in NewWorkspaces PROVE WorldOK(w)
<1>1. /\ w.application = "none" /\ w.limit = 0 /\ w.attempt = "none" /\ w.vault = NoVault
      /\ w.passport \in {"none", "valid"}
  <2>1. CASE w \in {Workspace("none", "none", NoApplication, "none", NoVault, "none", i, s) :
                     i \in BOOLEAN, s \in BOOLEAN}
    BY <2>1 DEF Workspace, NoApplication, Application
  <2>2. CASE w \in {Workspace(a, p, NoApplication, "none", NoVault, "none", i, s) :
                     a \in {"ACTIVE", "FROZEN"}, p \in {"none", "valid"}, i \in BOOLEAN,
                     s \in BOOLEAN}
    <3>1. PICK a \in {"ACTIVE", "FROZEN"}, p \in {"none", "valid"}, i \in BOOLEAN, s \in BOOLEAN :
            w = Workspace(a, p, NoApplication, "none", NoVault, "none", i, s)
      BY <2>2
    <3> QED BY <3>1 DEF Workspace, NoApplication, Application
  <2> QED BY <2>1, <2>2 DEF NewWorkspaces
<1>2. w.vault.status = "none"
  BY <1>1 DEF NoVault
<1> QED BY <1>1, <1>2 DEF WorldOK, HasVault, Decided, HasApplication, LimitMinor

LEMMA ApplyingWorldOK == ASSUME NEW w \in ApplyingWorkspaces PROVE WorldOK(w)
<1> DEFINE Agents == {<<"ACTIVE", "valid">>, <<"ACTIVE", "invalid">>, <<"FROZEN", "valid">>,
                      <<"REVOKED", "invalid">>}
           Made(agent, application, analysis) ==
             Workspace(agent[1], agent[2], application, analysis, NoVault, "none", TRUE, FALSE)
           From(application) ==
             {Made(agent, application, analysis) : agent \in Agents, analysis \in Analyses(application)}
<1>0. ApplyingWorkspaces = UNION {From(application) : application \in OpenApplications}
  BY DEF ApplyingWorkspaces
<1>1. PICK application \in OpenApplications : w \in From(application)
  <2> HIDE DEF From
  <2> QED BY <1>0
<1>2. PICK agent \in Agents, analysis \in Analyses(application) : w = Made(agent, application, analysis)
  <2> HIDE DEF Agents, Made
  <2> QED BY <1>1
<1>3. agent[1] # "none" /\ agent[2] \in {"valid", "invalid"}
  OBVIOUS
<1>4. /\ application.status \in {"DRAFT", "HUMAN_REVIEW_REQUIRED", "REJECTED", "APPROVED"}
      /\ application.limit \in 0 .. LimitMinor
      /\ application.status # "DRAFT" /\ ~application.scored => application.status = "REJECTED"
  BY DEF OpenApplications, Application, LimitMinor
<1>5. /\ w.application = application.status /\ w.limit = application.limit
      /\ w.scored = application.scored /\ w.vault = NoVault /\ w.attempt = "none"
      /\ w.agent = agent[1] /\ w.passport = agent[2]
  BY <1>2 DEF Workspace
<1> QED BY <1>3, <1>4, <1>5 DEF WorldOK, HasVault, Decided, HasApplication, HasAgent

LEMMA FundedWorldOK == ASSUME NEW w \in FundedWorkspaces PROVE WorldOK(w)
<1> DEFINE Agents(vault) == IF vault.status \in {"FROZEN", "CLOSED"}
                            THEN {"ACTIVE", "FROZEN", "REVOKED"} ELSE {"ACTIVE", "FROZEN"}
           Made(agent, vault, attempt) ==
             Workspace(agent, IF agent = "REVOKED" THEN "invalid" ELSE "valid",
                       Financed, "sound", vault, attempt, TRUE, FALSE)
           From(vault) ==
             {Made(agent, vault, attempt) : agent \in Agents(vault), attempt \in Attempts(vault)}
<1>0. FundedWorkspaces = UNION {From(vault) : vault \in VaultRows}
  BY DEF FundedWorkspaces
<1>1. PICK vault \in VaultRows : w \in From(vault)
  <2> HIDE DEF From, VaultRows
  <2> QED BY <1>0
<1>2. PICK agent \in Agents(vault), attempt \in Attempts(vault) : w = Made(agent, vault, attempt)
  <2> HIDE DEF Agents, Made, Attempts
  <2> QED BY <1>1
<1>3. attempt \in {"none", "APPROVED", "DENIED", "EXECUTED"}
  BY DEF Attempts
<1>4. vault.status # "none"
  BY RowsHaveStatus
<1>5. /\ w.application = "DISBURSEMENT_ENABLED" /\ w.limit = LimitMinor
      /\ w.scored = TRUE /\ w.vault = vault /\ w.attempt = attempt
      /\ w.agent = agent /\ w.passport \in {"valid", "invalid"}
  BY <1>2 DEF Workspace, Financed, Application
<1>6. w.agent # "none" /\ HasVault(w)
  BY <1>2, <1>4, <1>5 DEF HasVault
<1>7. w.limit \in 0 .. LimitMinor
  BY <1>5 DEF LimitMinor
<1> HIDE DEF VaultRows, Attempts
<1> QED BY <1>3, <1>5, <1>6, <1>7 DEF WorldOK, Decided, HasApplication, HasAgent

LEMMA WorldsOK == ASSUME NEW w \in Workspaces PROVE WorldOK(w)
BY NewWorldOK, ApplyingWorldOK, FundedWorldOK DEF Workspaces

VaultTruth(w, subject) ==
  CASE subject = "vaults" -> ToString(CountIf(HasVault(w)))
    [] subject = "any vault" -> IF HasVault(w) THEN "yes" ELSE "no"
    [] subject = "vault status" -> w.vault.status
    [] subject = "frozen vaults" -> ToString(CountIf(w.vault.status = "FROZEN"))
    [] subject = "vaults settled in full" -> ToString(CountIf(w.vault.status \in {"CLOSED", "REPAID"}))
    [] subject = "credit approved" -> ToString(IF HasVault(w) THEN LimitMinor ELSE 0)
    [] subject = "limit" -> ToString(LimitMinor)
    [] subject = "spent" -> ToString(SpentMinor(w))
    [] subject = "outstanding" -> ToString(w.vault.left)
    [] subject = "at risk" ->
         ToString(IF w.vault.status \in {"FROZEN", "DEFAULTED", "EXPIRED"} THEN w.vault.left ELSE 0)
    [] subject \in {"recognised loss", "defaulted"} -> ToString(LossMinor(w))
    [] subject = "workspace repayment rate" ->
         (IF w.vault.status \notin TerminalVaultStatuses THEN "insufficient"
          ELSE ToString(Ppm(CountIf(w.vault.status \in {"CLOSED", "REPAID"}), 1)))
    [] subject = "revenue collected" -> ToString(RevenueMinor(w))
    [] subject = "repayments" -> ToString(RepaymentsTotal(w))
    [] subject = "attempts" -> ToString(CountIf(w.attempt # "none"))
    [] subject = "attempt" -> w.attempt
    [] subject = "attempt decided" -> "yes"
    [] subject = "attempts blocked" -> ToString(CountIf(w.attempt = "DENIED"))
    [] subject = "attempts executed" -> ToString(CountIf(w.attempt = "EXECUTED"))
    [] subject = "blocked value" -> ToString(BlockedValue(w))
    [] subject = "policy result" -> IF w.attempt = "DENIED" THEN "DENY" ELSE "ALLOW"
    [] subject = "spending" -> "breaks"
    [] subject = "critical events" -> ToString(0)
    [] subject = "risk events" -> ToString(RiskEvents(w))
    [] subject = "events are about" -> "agent"
    [] subject = "any event" -> IF HasAgent(w) THEN "yes" ELSE "no"
    [] subject = "chain" -> IF w.intact THEN "intact" ELSE "broken"
    [] subject = "first broken" -> ToString(Head(FirstBroken(w)))
    [] OTHER -> "sound"

Truth(w, subject) ==
  CASE subject = "agents" -> ToString(CountIf(HasAgent(w)))
    [] subject = "agent status" -> w.agent
    [] subject = "stopped agents" -> ToString(CountIf(w.agent \in {"FROZEN", "REVOKED"}))
    [] subject = "passport" -> IF w.passport = "none" THEN "none" ELSE "verified"
    [] subject = "task success" ->
         IF TasksTotal(w) = 0 THEN "insufficient" ELSE ToString(Ppm(TasksSucceeded(w), TasksTotal(w)))
    [] subject = "tasks on record" -> ToString(TasksTotal(w))
    [] subject = "tasks" -> ToString(CountIf(HasApplication(w)))
    [] subject = "task status" -> "OPEN"
    [] subject = "repayment record" ->
         IF ~HasVault(w) THEN "insufficient" ELSE ToString(Ppm(RepaidInFull(w), RepaymentsTotal(w)))
    [] subject = "applications" -> ToString(CountIf(HasApplication(w)))
    [] subject = "applications approved" -> ToString(CountIf(w.application \in ApprovedFamily))
    [] subject = "awaiting review" -> ToString(CountIf(w.application = "HUMAN_REVIEW_REQUIRED"))
    [] subject = "in flight" -> ToString(CountIf(w.application = "DRAFT"))
    [] subject = "application status" -> w.application
    [] subject = "requested" -> ToString(RequestedMinor)
    [] subject = "decision" -> IF Decided(w) THEN DecisionOf(w) ELSE "undecided"
    [] subject = "approved limit" -> ToString(ApprovedLimitMinor(w))
    [] subject = "binding cap" -> "of the caps"
    [] subject = "scored" -> IF w.scored THEN "yes" ELSE "unavailable"
    [] subject = "policy decision" -> IF w.scored THEN "recorded" ELSE "unavailable"
    [] subject = "analysis" -> IF w.analysis = "none" THEN "none" ELSE "recorded"
    [] subject = "verdict" ->
         (CASE w.analysis = "none" -> "no model analysis"
            [] w.analysis = "sound" -> "claims trace to evidence"
            [] OTHER -> "contradictions found")
    [] subject = "engine decided" -> IF Decided(w) THEN "yes" ELSE "no"
    [] subject = "financed" -> IF HasVault(w) THEN "yes" ELSE "no"
    [] OTHER -> VaultTruth(w, subject)

Fair(w, s) == s[1] \notin Disputed(w) => s[2] = Truth(w, s[1])
AllFair(w, S) == \A s \in S : Fair(w, s)

LEMMA FairSays ==
  ASSUME NEW w, NEW subject, NEW word,
         subject \notin Disputed(w) => word = Truth(w, subject)
  PROVE  AllFair(w, Says(subject, word)) /\ AllFair(w, Unavailable(subject, word))
BY DEF AllFair, Fair, Says, Unavailable

LEMMA FairCounts ==
  ASSUME NEW w, NEW subject, NEW n,
         subject \notin Disputed(w) => ToString(n) = Truth(w, subject)
  PROVE  AllFair(w, Counts(subject, n))
BY DEF AllFair, Fair, Counts

LEMMA FairUnion ==
  ASSUME NEW w, NEW S, NEW T, AllFair(w, S), AllFair(w, T)
  PROVE  AllFair(w, S \cup T)
BY DEF AllFair

LEMMA FairWhen ==
  ASSUME NEW w, NEW c, NEW S, c => AllFair(w, S)
  PROVE  AllFair(w, When(c, S))
BY DEF AllFair, When

LEMMA VaultFair ==
  ASSUME NEW w
  PROVE  /\ AllFair(w, Counts("vaults", CountIf(HasVault(w))))
         /\ AllFair(w, Says("any vault", IF HasVault(w) THEN "yes" ELSE "no"))
         /\ AllFair(w, Says("vault status", w.vault.status))
         /\ AllFair(w, Counts("frozen vaults", CountIf(w.vault.status = "FROZEN")))
         /\ AllFair(w, Counts("vaults settled in full",
                              CountIf(w.vault.status \in {"CLOSED", "REPAID"})))
         /\ AllFair(w, Counts("credit approved", IF HasVault(w) THEN LimitMinor ELSE 0))
         /\ AllFair(w, Counts("limit", LimitMinor))
         /\ AllFair(w, Counts("spent", SpentMinor(w)))
         /\ AllFair(w, Counts("at risk",
                       IF w.vault.status \in {"FROZEN", "DEFAULTED", "EXPIRED"} THEN w.vault.left
                       ELSE 0))
         /\ AllFair(w, Counts("recognised loss", LossMinor(w)))
         /\ AllFair(w, Counts("defaulted", LossMinor(w)))
         /\ AllFair(w, Unavailable("workspace repayment rate",
                       IF w.vault.status \notin TerminalVaultStatuses THEN "insufficient"
                       ELSE ToString(Ppm(CountIf(w.vault.status \in {"CLOSED", "REPAID"}), 1))))
         /\ AllFair(w, Counts("repayments", RepaymentsTotal(w)))
         /\ AllFair(w, Counts("attempts", CountIf(w.attempt # "none")))
         /\ AllFair(w, Says("attempt", w.attempt))
         /\ AllFair(w, Counts("attempts blocked", CountIf(w.attempt = "DENIED")))
         /\ AllFair(w, Counts("attempts executed", CountIf(w.attempt = "EXECUTED")))
         /\ AllFair(w, Counts("blocked value", BlockedValue(w)))
         /\ AllFair(w, Says("policy result", IF w.attempt = "DENIED" THEN "DENY" ELSE "ALLOW"))
         /\ AllFair(w, Counts("critical events", 0))
         /\ AllFair(w, Counts("risk events", RiskEvents(w)))
         /\ AllFair(w, Says("chain", IF w.intact THEN "intact" ELSE "broken"))
BY FairSays, FairCounts DEF Truth, VaultTruth

LEMMA CreditFair ==
  ASSUME NEW w
  PROVE  /\ AllFair(w, Counts("agents", CountIf(HasAgent(w))))
         /\ AllFair(w, Says("agent status", w.agent))
         /\ AllFair(w, Counts("stopped agents", CountIf(w.agent \in {"FROZEN", "REVOKED"})))
         /\ AllFair(w, MoneyOr("task success", TasksTotal(w) = 0, "insufficient",
                             Ppm(TasksSucceeded(w), TasksTotal(w))))
         /\ AllFair(w, Counts("tasks on record", TasksTotal(w)))
         /\ AllFair(w, Counts("tasks", CountIf(HasApplication(w))))
         /\ AllFair(w, Counts("applications", CountIf(HasApplication(w))))
         /\ AllFair(w, Counts("awaiting review", CountIf(w.application = "HUMAN_REVIEW_REQUIRED")))
         /\ AllFair(w, Says("application status", w.application))
         /\ AllFair(w, Counts("requested", RequestedMinor))
         /\ AllFair(w, Unavailable("decision", IF Decided(w) THEN DecisionOf(w) ELSE "undecided"))
         /\ AllFair(w, Unavailable("scored", IF w.scored THEN "yes" ELSE "unavailable"))
         /\ AllFair(w, Unavailable("policy decision", IF w.scored THEN "recorded" ELSE "unavailable"))
         /\ AllFair(w, Says("analysis", IF w.analysis = "none" THEN "none" ELSE "recorded"))
         /\ AllFair(w, Says("verdict",
                       CASE w.analysis = "none" -> "no model analysis"
                         [] w.analysis = "sound" -> "claims trace to evidence"
                         [] OTHER -> "contradictions found"))
BY FairSays, FairCounts DEF Truth, MoneyOr

\* Statements whose words agree because of what a workspace can be.
LEMMA OwedFair ==
  ASSUME NEW w, VaultOK(w.vault)
  PROVE  /\ AllFair(w, Counts("outstanding", w.vault.left))
         /\ AllFair(w, Counts("outstanding", ActiveExposure(w)))
         /\ AllFair(w, Counts("outstanding", CurrentOutstanding(w)))
<1>1. "outstanding" \notin Disputed(w) =>
        ActiveExposure(w) = w.vault.left /\ CurrentOutstanding(w) = w.vault.left
  BY DEF Disputed, When, ActiveExposure, CurrentOutstanding, VaultOK, TerminalVaultStatuses
<1>2. Truth(w, "outstanding") = ToString(w.vault.left)
  BY DEF Truth, VaultTruth
<1> QED BY <1>1, <1>2, FairCounts

LEMMA RecordFair ==
  ASSUME NEW w, VaultOK(w.vault)
  PROVE  /\ AllFair(w, MoneyOr("repayment record", ~HasVault(w), "insufficient",
                               Ppm(RepaidInFull(w), RepaymentsTotal(w))))
         /\ AllFair(w, MoneyOr("repayment record", RepaymentsTotal(w) = 0, "insufficient",
                               Ppm(RepaidInFull(w), RepaymentsTotal(w))))
<1>1. RepaymentsTotal(w) = 0 <=> w.vault.runs = <<>>
  BY DEF VaultOK, RepaymentsTotal
<1>2. "repayment record" \notin Disputed(w) => (RepaymentsTotal(w) = 0 <=> ~HasVault(w))
  BY <1>1 DEF Disputed, When, VaultOK, HasVault
<1>3. Truth(w, "repayment record") =
        IF ~HasVault(w) THEN "insufficient" ELSE ToString(Ppm(RepaidInFull(w), RepaymentsTotal(w)))
  BY DEF Truth
<1>4. CASE "repayment record" \in Disputed(w)
  BY <1>4, FairSays, FairCounts DEF MoneyOr
<1>5. CASE "repayment record" \notin Disputed(w)
  BY <1>2, <1>3, FairSays, FairCounts DEF MoneyOr
<1> QED BY <1>4, <1>5

LEMMA PassportFair ==
  ASSUME NEW w, WorldOK(w)
  PROVE  /\ AllFair(w, Says("passport", IF w.passport = "none" THEN "none" ELSE "verified"))
         /\ AllFair(w, Passport(w))
<1>1. AllFair(w, Says("passport", IF w.passport = "none" THEN "none" ELSE "verified"))
  BY FairSays DEF Truth
<1>2. "passport" \notin Disputed(w) => w.passport \in {"none", "valid"}
  BY DEF Disputed, When, WorldOK
<1>3. "passport" \notin Disputed(w) => (CASE w.passport = "none" -> "none"
                     [] w.passport = "valid" -> "verified"
                     [] OTHER -> "verification failed") = Truth(w, "passport")
  BY <1>2 DEF Truth
<1>4. AllFair(w, Passport(w))
  BY <1>3, FairSays DEF Passport
<1> QED BY <1>1, <1>4

LEMMA ApprovedFair ==
  ASSUME NEW w, WorldOK(w)
  PROVE  /\ AllFair(w, Counts("applications approved", CountIf(w.application \in ApprovedFamily)))
         /\ AllFair(w, Counts("applications approved",
                               CountIf(w.application \in {"APPROVED", "DISBURSEMENT_ENABLED"})))
<1>1. CountIf(w.application \in {"APPROVED", "DISBURSEMENT_ENABLED"})
        = CountIf(w.application \in ApprovedFamily)
  BY DEF WorldOK, ApprovedFamily, CountIf
<1>2. Truth(w, "applications approved") = ToString(CountIf(w.application \in ApprovedFamily))
  BY DEF Truth
<1>3. ToString(CountIf(w.application \in {"APPROVED", "DISBURSEMENT_ENABLED"}))
        = Truth(w, "applications approved")
  BY <1>1, <1>2
<1> QED BY <1>2, <1>3, FairCounts

LEMMA InFlightFair ==
  ASSUME NEW w, WorldOK(w)
  PROVE  /\ AllFair(w, Counts("in flight", CountIf(w.application = "DRAFT")))
         /\ AllFair(w, Counts("in flight",
                               CountIf(HasApplication(w) /\ w.application \notin Terminalish)))
<1>1. CountIf(HasApplication(w) /\ w.application \notin Terminalish) = CountIf(w.application = "DRAFT")
  BY DEF WorldOK, Terminalish, ApprovedFamily, CountIf, HasApplication
<1>2. Truth(w, "in flight") = ToString(CountIf(w.application = "DRAFT"))
  BY DEF Truth
<1>3. ToString(CountIf(HasApplication(w) /\ w.application \notin Terminalish)) = Truth(w, "in flight")
  BY <1>1, <1>2
<1> QED BY <1>2, <1>3, FairCounts

LEMMA LimitFair ==
  ASSUME NEW w
  PROVE  /\ AllFair(w, Counts("approved limit", ApprovedLimitMinor(w)))
         /\ HasApplication(w) =>
              AllFair(w, MoneyOr("approved limit", ~Decided(w), "unavailable", ApprovedLimitMinor(w)))
<1>1. Truth(w, "approved limit") = ToString(ApprovedLimitMinor(w))
  BY DEF Truth
<1>2. HasApplication(w) /\ ~Decided(w) => "approved limit" \in Disputed(w)
  BY DEF Decided, Disputed, When
<1>3. ASSUME HasApplication(w)
      PROVE  AllFair(w, MoneyOr("approved limit", ~Decided(w), "unavailable", ApprovedLimitMinor(w)))
  <2>1. CASE Decided(w)
    BY <1>1, <2>1, FairCounts DEF MoneyOr
  <2>2. CASE ~Decided(w)
    BY <1>2, <1>3, <2>2, FairSays DEF MoneyOr
  <2> QED BY <2>1, <2>2
<1> QED BY <1>1, <1>3, FairCounts

LEMMA CapFair ==
  ASSUME NEW w, WorldOK(w), Decided(w)
  PROVE  /\ AllFair(w, Says("binding cap", IF w.scored THEN "of the caps" ELSE "requested"))
         /\ AllFair(w, Says("binding cap", IF w.scored THEN "of the caps" ELSE "none"))
<1>1. "binding cap" \notin Disputed(w) => w.scored
  BY DEF WorldOK, Disputed, When
<1>2. Truth(w, "binding cap") = "of the caps"
  BY DEF Truth
<1> QED BY <1>1, <1>2, FairSays

LEMMA EngineFair ==
  ASSUME NEW w
  PROVE  /\ AllFair(w, Says("engine decided", IF Decided(w) THEN "yes" ELSE "no"))
         /\ HasApplication(w) => AllFair(w, Says("engine decided", "yes"))
<1>1. Truth(w, "engine decided") = IF Decided(w) THEN "yes" ELSE "no"
  BY DEF Truth
<1>2. HasApplication(w) /\ "engine decided" \notin Disputed(w) => Decided(w)
  BY DEF Decided, Disputed, When
<1> QED BY <1>1, <1>2, FairSays

LEMMA FinancedFair ==
  ASSUME NEW w, WorldOK(w)
  PROVE  /\ AllFair(w, Says("financed", IF HasVault(w) THEN "yes" ELSE "no"))
         /\ w.application \in ApprovedFamily \ {"APPROVED"} => AllFair(w, Says("financed", "yes"))
<1>1. Truth(w, "financed") = IF HasVault(w) THEN "yes" ELSE "no"
  BY DEF Truth
<1>2. w.application \in ApprovedFamily \ {"APPROVED"} => HasVault(w)
  BY DEF WorldOK, ApprovedFamily
<1> QED BY <1>1, <1>2, FairSays

LEMMA EventFair ==
  ASSUME NEW w
  PROVE  /\ AllFair(w, Says("any event", IF HasAgent(w) THEN "yes" ELSE "no"))
         /\ HasAgent(w) => AllFair(w, Says("any event", "yes"))
BY FairSays DEF Truth, VaultTruth

LEMMA RevenueFair ==
  ASSUME NEW w, VaultOK(w.vault)
  PROVE  /\ AllFair(w, Counts("revenue collected", RevenueMinor(w)))
         /\ RepaymentsTotal(w) > 0 =>
              AllFair(w, Counts("revenue collected", RepaymentsTotal(w) * RevenueMinor(w)))
<1>1. Truth(w, "revenue collected") = ToString(RevenueMinor(w))
  BY DEF Truth, VaultTruth
<1>2. RevenueMinor(w) \in Nat
  <2>1. IsFiniteSet(DOMAIN w.vault.runs)
    <3>1. DOMAIN w.vault.runs = 1 .. Len(w.vault.runs) /\ Len(w.vault.runs) \in Nat
      BY DEF VaultOK
    <3> QED BY <3>1, FS_Interval
  <2>2. IsFiniteSet({i \in DOMAIN w.vault.runs : w.vault.runs[i] = Waterfall})
    BY <2>1, FS_Subset
  <2>3. RepaidInFull(w) \in Nat
    BY <2>2, FS_CardinalityType DEF RepaidInFull
  <2> QED BY <2>3 DEF RevenueMinor, PaymentMinor
<1>3. RepaymentsTotal(w) \in Nat
  BY DEF RepaymentsTotal, VaultOK
<1>4. "revenue collected" \notin Disputed(w) => RepaymentsTotal(w) <= 1
  BY <1>3 DEF Disputed, When, RepaymentsTotal
<1>5. RepaymentsTotal(w) > 0 /\ "revenue collected" \notin Disputed(w) =>
        RepaymentsTotal(w) * RevenueMinor(w) = RevenueMinor(w)
  <2>1. ASSUME RepaymentsTotal(w) > 0, "revenue collected" \notin Disputed(w)
        PROVE  RepaymentsTotal(w) * RevenueMinor(w) = RevenueMinor(w)
    <3>1. RepaymentsTotal(w) <= 1 /\ RepaymentsTotal(w) > 0
      BY <1>4, <2>1
    <3>2. RepaymentsTotal(w) = 1
      BY <1>3, <3>1
    <3> QED BY <1>2, <3>2
  <2> QED BY <2>1
<1> QED BY <1>1, <1>5, FairCounts

LEMMA DecidedFair ==
  ASSUME NEW w, WorldOK(w), w.attempt # "none"
  PROVE  /\ AllFair(w, Says("attempt decided", "yes"))
         /\ AllFair(w, Says("attempt decided",
                             IF w.attempt \in {"DENIED", "EXECUTED"} THEN "yes" ELSE "no"))
<1>1. Truth(w, "attempt decided") = "yes"
  BY DEF Truth, VaultTruth
<1>2. "attempt decided" \notin Disputed(w) => w.attempt \in {"DENIED", "EXECUTED"}
  BY DEF WorldOK, Disputed, When
<1> QED BY <1>1, <1>2, FairSays

\* What only one page says, and the links of the audit trail.
LEMMA LoneFair ==
  ASSUME NEW w
  PROVE  /\ AllFair(w, Says("spending", "breaks"))
         /\ AllFair(w, Says("task status", "OPEN"))
         /\ AllFair(w, Says("events are about", "agent"))
         /\ AllFair(w, Says("links", "sound"))
         /\ AllFair(w, Counts("first broken", Head(FirstBroken(w))))
BY FairSays, FairCounts DEF Truth, VaultTruth

LEMMA LinksFair == ASSUME NEW w PROVE AllFair(w, AuditRows(w))
<1>1. w.shared => "links" \in Disputed(w)
  BY DEF Disputed, When
<1>2. Truth(w, "links") = "sound"
  BY DEF Truth, VaultTruth
<1> QED BY <1>1, <1>2, FairSays DEF AuditRows

\* Page by page: whatever has been answered, an undisputed subject has its word.
LEMMA DashboardFair ==
  ASSUME NEW w, WorldOK(w), VaultOK(w.vault), NEW has
  PROVE  AllFair(w, DashboardPage(w, has))
<1>1. AllFair(w, Portfolio(w))
  BY ApprovedFair, OwedFair, VaultFair, CreditFair DEF AllFair, Portfolio
<1>2. AllFair(w, MoneyWent(w))
  BY VaultFair DEF AllFair, MoneyWent
<1>3. AllFair(w, IntegrityStrip(w))
  BY VaultFair, LoneFair DEF AllFair, IntegrityStrip, When
<1>4. AllFair(w, AttentionCards(w))
  BY VaultFair, CreditFair DEF AllFair, AttentionCards, AttentionCard
<1>5. AllFair(w, Says("any vault", IF HasVault(w) THEN "yes" ELSE "no"))
  BY VaultFair
<1>6. AllFair(w, Says("any event", IF HasAgent(w) THEN "yes" ELSE "no"))
  BY EventFair
<1> QED
  BY <1>1, <1>2, <1>3, <1>4, <1>5, <1>6 DEF AllFair, DashboardPage, When

LEMMA AgentsFair ==
  ASSUME NEW w, WorldOK(w), VaultOK(w.vault), NEW has
  PROVE  AllFair(w, AgentsPage(w, has))
<1>1. AllFair(w, AgentRow(w))
  BY RecordFair, OwedFair, PassportFair, CreditFair DEF AllFair, AgentRow
<1> QED
  BY <1>1, CreditFair DEF AllFair, AgentsPage, ListOf, When

LEMMA AgentFair ==
  ASSUME NEW w, WorldOK(w), VaultOK(w.vault), NEW has, HasAgent(w)
  PROVE  AllFair(w, AgentPage(w, has))
<1>1. AllFair(w, AgentHeadline(w))
  BY RecordFair, OwedFair, VaultFair, CreditFair DEF AllFair, AgentHeadline
<1>2. AllFair(w, AgentCreditTab(w))
  BY CreditFair, LimitFair DEF AllFair, AgentCreditTab, ListOf, When
<1>3. AllFair(w, AgentVaultsTab(w))
  BY VaultFair, OwedFair DEF AllFair, AgentVaultsTab, ListOf, When
<1>4. AllFair(w, AgentTasksTab(w))
  BY CreditFair, LoneFair DEF AllFair, AgentTasksTab, ListOf, When
<1>5. AllFair(w, AgentSpendingTab(w))
  BY VaultFair, LoneFair DEF AllFair, AgentSpendingTab
<1>6. AllFair(w, AgentRiskTab(w))
  BY VaultFair DEF AgentRiskTab
<1>7. AllFair(w, AgentAuditTab(w))
  BY EventFair DEF AgentAuditTab
<1>8. AllFair(w, Passport(w))
  BY PassportFair
<1> QED
  BY <1>1, <1>2, <1>3, <1>4, <1>5, <1>6, <1>7, <1>8 DEF AllFair, AgentPage, When

LEMMA StageFair == ASSUME NEW w PROVE AllFair(w, ApplicationStage(w))
BY CreditFair, LimitFair DEF AllFair, ApplicationStage

LEMMA ApplicationsFair ==
  ASSUME NEW w, WorldOK(w), NEW has
  PROVE  AllFair(w, ApplicationsPage(w, has))
<1>1. AllFair(w, ApplicationRow(w))
  BY StageFair, CreditFair, FinancedFair DEF AllFair, ApplicationRow
<1>2. AllFair(w, ListOf("applications", CountIf(HasApplication(w)), ApplicationRow(w)))
  BY <1>1, CreditFair DEF AllFair, ListOf, When
<1> QED
  BY <1>2, ApprovedFair, CreditFair, InFlightFair DEF AllFair, ApplicationsPage, When

LEMMA UnderwritingFair ==
  ASSUME NEW w, WorldOK(w), NEW has
  PROVE  AllFair(w, UnderwritingPage(w, has))
<1>1. AllFair(w, BucketTable(w))
  BY StageFair DEF AllFair, BucketTable, When
<1> QED
  BY <1>1, CreditFair, InFlightFair DEF AllFair, UnderwritingPage, When

LEMMA ApplicationFair ==
  ASSUME NEW w, WorldOK(w), NEW has, HasApplication(w)
  PROVE  AllFair(w, ApplicationPage(w, has))
<1>1. AllFair(w, UnderwritingSummary(w))
  <2>1. AllFair(w, When(Decided(w),
                       Says("binding cap", IF w.scored THEN "of the caps" ELSE "requested")))
    BY CapFair, FairWhen
  <2>2. AllFair(w, When(w.application \in ApprovedFamily \ {"APPROVED"}, Says("financed", "yes")))
    BY FinancedFair, FairWhen
  <2>3. AllFair(w, MoneyOr("approved limit", ~Decided(w), "unavailable", ApprovedLimitMinor(w)))
    BY LimitFair
  <2> QED
    BY <2>1, <2>2, <2>3, CreditFair DEF AllFair, UnderwritingSummary
<1>2. AllFair(w, AiPanel(w))
  BY CreditFair, EngineFair DEF AllFair, AiPanel, When
<1>3. AllFair(w, EnginePanel(w))
  <2>1. Decided(w) => AllFair(w, Says("decision", DecisionOf(w)))
    BY CreditFair DEF Unavailable
  <2> QED
    BY <2>1, EngineFair, LimitFair, CreditFair DEF AllFair, EnginePanel, When
<1>4. AllFair(w, CapRows(w))
  BY CapFair, FairWhen DEF CapRows
<1>5. AllFair(w, VerifierPanel(w))
  BY CreditFair DEF AllFair, VerifierPanel
<1>6. AllFair(w, ApplicationVotes(w))
  BY CreditFair DEF ApplicationVotes
<1>7. AllFair(w, Says("application status", w.application)) /\ AllFair(w, RequestCard(w))
  BY CreditFair DEF RequestCard
<1> QED
  BY <1>1, <1>2, <1>3, <1>4, <1>5, <1>6, <1>7 DEF AllFair, ApplicationPage, When

LEMMA VaultRowFair == ASSUME NEW w, VaultOK(w.vault) PROVE AllFair(w, VaultRow(w))
BY VaultFair, OwedFair DEF AllFair, VaultRow

LEMMA VaultsFair ==
  ASSUME NEW w, VaultOK(w.vault), NEW has
  PROVE  AllFair(w, VaultsPage(w, has))
BY VaultRowFair, VaultFair DEF AllFair, VaultsPage, ListOf, When

LEMMA VaultFairPage ==
  ASSUME NEW w, VaultOK(w.vault), NEW has
  PROVE  AllFair(w, VaultPage(w, has))
<1>1. AllFair(w, VaultTabs(w))
  BY VaultFair, RevenueFair DEF AllFair, VaultTabs, When
<1>2. AllFair(w, VaultRiskTab(w)) /\ AllFair(w, VaultBalances(w))
  BY VaultFair, VaultRowFair DEF VaultRiskTab, VaultBalances
<1> QED
  BY <1>1, <1>2 DEF AllFair, VaultPage, When

LEMMA TransactionsFair ==
  ASSUME NEW w, NEW has
  PROVE  AllFair(w, TransactionsPage(w, has))
BY VaultFair DEF AllFair, TransactionsPage, ListOf, When

LEMMA TransactionFair ==
  ASSUME NEW w, WorldOK(w), NEW has
  PROVE  AllFair(w, TransactionPage(w, has))
<1>1. w.attempt # "none" => HasAgent(w)
  BY DEF WorldOK
<1>2. AllFair(w, AttemptVotes(w))
  BY VaultFair DEF AttemptVotes
<1>3. w.attempt # "none" => AllFair(w, AttemptTrail(w))
  BY <1>1, EventFair DEF AttemptTrail
<1> QED
  BY <1>2, <1>3, VaultFair, DecidedFair DEF AllFair, TransactionPage, When

LEMMA RepaymentsFair ==
  ASSUME NEW w, VaultOK(w.vault), NEW has
  PROVE  AllFair(w, RepaymentsPage(w, has))
<1>1. RepaymentsTotal(w) > 0 => AllFair(w, RepaymentTotals(w))
  BY RevenueFair, VaultFair DEF AllFair, RepaymentTotals
<1> QED
  BY <1>1, VaultFair DEF AllFair, RepaymentsPage, When

LEMMA RiskFair ==
  ASSUME NEW w, NEW has
  PROVE  AllFair(w, RiskPage(w, has))
<1>1. AllFair(w, RiskTotals(w))
  BY VaultFair, CreditFair DEF AllFair, RiskTotals
<1>2. AllFair(w, RiskLog(w))
  <2>1. UNION {Says("events are about", p) : p \in SubjectLink("AGENT")}
          = Says("events are about", "agent")
    BY DEF SubjectLink
  <2> QED
    BY <2>1, VaultFair, LoneFair DEF AllFair, RiskLog, ListOf, When
<1> QED
  BY <1>1, <1>2 DEF AllFair, RiskPage, When

LEMMA AuditFair ==
  ASSUME NEW w, NEW has
  PROVE  AllFair(w, AuditPage(w, has))
BY VaultFair, LoneFair, LinksFair DEF AllFair, AuditPage, When

\* The guided start: what of it rests on a list that it reads as empty.
EmptyRead(has) ==
  When("agents" \notin has, {"passport"})
  \cup When("applications" \notin has, {"applications", "applications approved"})
  \cup When("repayments" \notin has, {"repayments"})

ExcusedOrFair(w, has, S) == \A s \in S : s[1] \in EmptyRead(has) \/ Fair(w, s)

LEMMA FairIsEnough ==
  ASSUME NEW w, NEW has, NEW S, AllFair(w, S)
  PROVE  ExcusedOrFair(w, has, S)
BY DEF AllFair, ExcusedOrFair

LEMMA Excused ==
  ASSUME NEW w, NEW has, NEW subject \in EmptyRead(has), NEW n
  PROVE  ExcusedOrFair(w, has, Says(subject, n)) /\ ExcusedOrFair(w, has, Counts(subject, n))
BY DEF ExcusedOrFair, Says, Counts

LEMMA NothingFair == ASSUME NEW w PROVE AllFair(w, {})
BY DEF AllFair

LEMMA StartFair ==
  ASSUME NEW w, WorldOK(w), VaultOK(w.vault), NEW has, NEW pending
  PROVE  ExcusedOrFair(w, has, StartPage(w, has, pending))
<1> DEFINE holders == Listed("agents", has, CountIf(w.passport # "none"))
           applied == Listed("applications", has, CountIf(HasApplication(w)))
           approved == Listed("applications", has, CountIf(w.application \in ApprovedFamily))
           rejected == Listed("applications", has, CountIf(w.application = "REJECTED"))
           vaults == Listed("vaults", has, CountIf(HasVault(w)))
           repaid == Listed("repayments", has, RepaymentsTotal(w))
           verifiedCard == When(holders > 0, Says("passport", "verified"))
           submittedCard == When(applied > 0, Counts("applications", applied))
           loading == pending # {}
           Ok(S) == ExcusedOrFair(w, has, S)
<1>1. Ok(verifiedCard) /\ Ok(When(holders = 0, Says("passport", "none")))
  <2>1. holders > 0 => w.passport # "none"
    BY DEF Listed, CountIf
  <2>2. holders = 0 /\ "agents" \in has => w.passport = "none"
    BY DEF Listed, CountIf
  <2>3. "agents" \notin has => "passport" \in EmptyRead(has)
    BY DEF EmptyRead, When
  <2>4. holders > 0 => AllFair(w, Says("passport", "verified"))
    BY <2>1, PassportFair
  <2>5. Ok(verifiedCard)
    BY <2>4, FairWhen, FairIsEnough
  <2>6. CASE "agents" \in has
    <3>1. holders = 0 => AllFair(w, Says("passport", "none"))
      BY <2>2, <2>6, PassportFair
    <3> QED BY <3>1, <2>5, FairWhen, FairIsEnough
  <2>7. CASE "agents" \notin has
    <3>1. Ok(Says("passport", "none"))
      BY <2>3, <2>7, Excused
    <3> QED BY <3>1, <2>5 DEF ExcusedOrFair, When
  <2> QED BY <2>6, <2>7
<1>2. Ok(submittedCard) /\ Ok(When(applied = 0, Counts("applications", 0)))
  <2>1. CASE "applications" \in has
    <3>1. applied = CountIf(HasApplication(w))
      BY <2>1 DEF Listed
    <3>2. AllFair(w, Counts("applications", applied))
      BY <3>1, CreditFair
    <3>3. applied = 0 => AllFair(w, Counts("applications", 0))
      BY <3>2
    <3> HIDE DEF applied
    <3> QED BY <3>2, <3>3, FairWhen, FairIsEnough
  <2>2. CASE "applications" \notin has
    <3>1. "applications" \in EmptyRead(has)
      BY <2>2 DEF EmptyRead, When
    <3>2. Ok(Counts("applications", applied)) /\ Ok(Counts("applications", 0))
      BY <3>1, Excused
    <3> QED BY <3>2 DEF ExcusedOrFair, When
  <2> QED BY <2>1, <2>2
<1>3. /\ Ok(When(approved > 0, Counts("applications approved", approved)))
      /\ Ok(When(approved = 0, Counts("applications approved", 0)))
  <2>1. CASE "applications" \in has
    <3>1. approved = CountIf(w.application \in ApprovedFamily)
      BY <2>1 DEF Listed
    <3>2. AllFair(w, Counts("applications approved", approved))
      BY <3>1, ApprovedFair
    <3>3. approved = 0 => AllFair(w, Counts("applications approved", 0))
      BY <3>2
    <3> HIDE DEF approved
    <3> QED BY <3>2, <3>3, FairWhen, FairIsEnough
  <2>2. CASE "applications" \notin has
    <3>1. "applications approved" \in EmptyRead(has)
      BY <2>2 DEF EmptyRead, When
    <3>2. /\ Ok(Counts("applications approved", approved))
          /\ Ok(Counts("applications approved", 0))
      BY <3>1, Excused
    <3> QED BY <3>2 DEF ExcusedOrFair, When
  <2> QED BY <2>1, <2>2
<1>4. Ok(When(approved + rejected > 0, Says("engine decided", "yes")))
  <2>1. approved + rejected > 0 => Decided(w)
    BY DEF Listed, CountIf, Decided, HasApplication, ApprovedFamily
  <2>2. Decided(w) => AllFair(w, Says("engine decided", "yes"))
    BY EngineFair
  <2> QED BY <2>1, <2>2, FairWhen, FairIsEnough
<1>5. Ok(Counts("repayments", repaid))
  <2>1. CASE "repayments" \in has
    BY <2>1, VaultFair, FairIsEnough DEF Listed
  <2>2. CASE "repayments" \notin has
    <3>1. "repayments" \in EmptyRead(has)
      BY <2>2 DEF EmptyRead, When
    <3> QED BY <3>1, Excused
  <2> QED BY <2>1, <2>2
<1>6. Ok(When(vaults > 0, Counts("vaults", vaults) \cup Counts("repayments", repaid)))
  <2>1. CASE "vaults" \in has
    <3>1. vaults = CountIf(HasVault(w))
      BY <2>1 DEF Listed
    <3>2. Ok(Counts("vaults", vaults))
      BY <3>1, VaultFair, FairIsEnough
    <3> QED BY <3>2, <1>5 DEF ExcusedOrFair, When
  <2>2. CASE "vaults" \notin has
    <3>1. ~(vaults > 0)
      BY <2>2 DEF Listed
    <3> QED BY <3>1 DEF ExcusedOrFair, When
  <2> QED BY <2>1, <2>2
<1>7. Ok(When(repaid > 0, Counts("repayments", repaid)))
  BY <1>5 DEF ExcusedOrFair, When
<1>8. StartPage(w, has, pending) =
        StepCard(loading, verifiedCard, verifiedCard, FALSE, {})
        \cup StepCard(loading, submittedCard, submittedCard, holders = 0, Says("passport", "none"))
        \cup StepCard(loading, When(approved + rejected > 0, Says("engine decided", "yes")),
                      When(approved > 0, Counts("applications approved", approved)),
                      applied = 0, Counts("applications", 0))
        \cup StepCard(loading, When(repaid > 0, Counts("repayments", repaid)),
                      When(vaults > 0, Counts("vaults", vaults) \cup Counts("repayments", repaid)),
                      approved = 0, Counts("applications approved", 0))
  BY DEF StartPage
<1> HIDE DEF holders, applied, approved, rejected, vaults, repaid, verifiedCard, submittedCard, loading
<1>9. ASSUME NEW l, NEW done, NEW status, NEW waiting, NEW reason,
             Ok(done), Ok(status), Ok(When(waiting, reason))
      PROVE  Ok(StepCard(l, done, status, waiting, reason))
  BY <1>9 DEF ExcusedOrFair, StepCard, When
<1>10. Ok(StepCard(loading, verifiedCard, verifiedCard, FALSE, {}))
  BY <1>1, <1>9 DEF ExcusedOrFair, When
<1>11. Ok(StepCard(loading, submittedCard, submittedCard, holders = 0, Says("passport", "none")))
  BY <1>1, <1>2, <1>9
<1>12. Ok(StepCard(loading, When(approved + rejected > 0, Says("engine decided", "yes")),
                   When(approved > 0, Counts("applications approved", approved)),
                   applied = 0, Counts("applications", 0)))
  BY <1>2, <1>3, <1>4, <1>9
<1>13. Ok(StepCard(loading, When(repaid > 0, Counts("repayments", repaid)),
                   When(vaults > 0, Counts("vaults", vaults) \cup Counts("repayments", repaid)),
                   approved = 0, Counts("applications approved", 0)))
  BY <1>3, <1>6, <1>7, <1>9
<1> QED BY <1>8, <1>10, <1>11, <1>12, <1>13 DEF ExcusedOrFair

LEMMA BannerFair ==
  ASSUME NEW w, NEW has
  PROVE  AllFair(w, FirstRunBanner(w, has))
<1>1. ~HasAgent(w) => AllFair(w, Counts("agents", 0))
  <2>1. ~HasAgent(w) => CountIf(HasAgent(w)) = 0
    BY DEF CountIf
  <2> QED BY <2>1, CreditFair
<1>2. ~HasApplication(w) => AllFair(w, Counts("applications", 0))
  <2>1. ~HasApplication(w) => CountIf(HasApplication(w)) = 0
    BY DEF CountIf
  <2> QED BY <2>1, CreditFair
<1> QED BY <1>1, <1>2 DEF AllFair, FirstRunBanner, When

LEMMA StatementsFair ==
  ASSUME NEW w, WorldOK(w), VaultOK(w.vault), NEW p \in PageNames,
         NEW has, NEW kept, NEW pending,
         NEW s \in Statements(p, w, has, kept, pending)
  PROVE  Fair(w, s) \/ (p = "start" /\ s[1] \in EmptyRead(kept))
<1>1. p \in {"dashboard", "agents", "agent", "applications", "application", "underwriting",
             "vaults", "vault", "transactions", "transaction", "repayments", "risk", "audit",
             "start", "banner"}
  BY DEF PageNames, QueriesOf
<1>2. CASE p = "start"
  BY <1>2, StartFair DEF Statements, ExcusedOrFair
<1>3. CASE p # "start"
  <2>1. AllFair(w, Statements(p, w, has, kept, pending))
    <3>1. CASE p = "dashboard" BY <3>1, DashboardFair DEF Statements
    <3>2. CASE p = "agents" BY <3>2, AgentsFair DEF Statements
    <3>3. CASE p = "agent" BY <3>3, AgentFair, FairWhen DEF Statements
    <3>4. CASE p = "applications" BY <3>4, ApplicationsFair DEF Statements
    <3>5. CASE p = "application" BY <3>5, ApplicationFair, FairWhen DEF Statements
    <3>6. CASE p = "underwriting" BY <3>6, UnderwritingFair DEF Statements
    <3>7. CASE p = "vaults" BY <3>7, VaultsFair DEF Statements
    <3>8. CASE p = "vault" BY <3>8, VaultFairPage DEF Statements
    <3>9. CASE p = "transactions" BY <3>9, TransactionsFair DEF Statements
    <3>10. CASE p = "transaction" BY <3>10, TransactionFair DEF Statements
    <3>11. CASE p = "repayments" BY <3>11, RepaymentsFair DEF Statements
    <3>12. CASE p = "risk" BY <3>12, RiskFair DEF Statements
    <3>13. CASE p = "audit" BY <3>13, AuditFair DEF Statements
    <3>14. CASE p = "banner" BY <3>14, BannerFair DEF Statements
    <3> QED
      BY <1>1, <1>3, <3>1, <3>2, <3>3, <3>4, <3>5, <3>6, <3>7, <3>8, <3>9, <3>10, <3>11,
         <3>12, <3>13, <3>14
  <2> QED BY <2>1 DEF AllFair
<1> QED BY <1>2, <1>3

LEMMA AllAnsweredFair ==
  ASSUME NEW w, WorldOK(w), VaultOK(w.vault), NEW t \in Everything(w)
  PROVE  Fair(w, t)
<1>1. PICK p \in PageNames : t \in Statements(p, w, QueriesOf[p], QueriesOf[p], {})
  BY DEF Everything
<1>2. p = "start" => EmptyRead(QueriesOf[p]) = {}
  BY DEF QueriesOf, EmptyRead, When
<1> QED BY <1>1, <1>2, StatementsFair

\* A behaviour of the pages stays within its types.
ScreensTypeOK ==
  /\ workspace \in Worlds
  /\ page \in PageNames
  /\ answer \in [QueriesOf[page] -> {"pending", "data", "failed", "kept"}]

LEMMA ScreensInitially == ScreensInit => ScreensTypeOK
<1>1. "dashboard" \in PageNames
  BY DEF PageNames, QueriesOf
<1> QED BY <1>1 DEF ScreensInit, ScreensTypeOK

LEMMA ScreensStep == ScreensTypeOK /\ [ScreensNext]_screenVars => ScreensTypeOK'
<1> SUFFICES ASSUME ScreensTypeOK, [ScreensNext]_screenVars PROVE ScreensTypeOK'
  OBVIOUS
<1> USE DEF ScreensTypeOK
<1>1. ASSUME NEW p \in PageNames, Visit(p) PROVE ScreensTypeOK'
  BY <1>1 DEF Visit
<1>2. ASSUME NEW q \in DOMAIN answer, Loads(q) \/ Breaks(q) \/ Retry(q) PROVE ScreensTypeOK'
  <2>1. q \in QueriesOf[page]
    OBVIOUS
  <2>2. UNCHANGED <<workspace, page>>
    BY <1>2 DEF Loads, Breaks, Retry
  <2>3. answer' \in [QueriesOf[page] -> {"pending", "data", "failed", "kept"}]
    BY <1>2, <2>1 DEF Loads, Breaks, Retry
  <2> QED BY <2>2, <2>3
<1>3. CASE UNCHANGED screenVars
  BY <1>3 DEF screenVars
<1> QED BY <1>1, <1>2, <1>3 DEF ScreensNext

\* Whatever is asked, answered, lost or asked again, and wherever the visitor
\* goes, a page is shown with an answer, or none yet, for each of its queries.
THEOREM ScreensTypeCorrect == ScreensSpec => []ScreensTypeOK
<1>1. ScreensInit => ScreensTypeOK BY ScreensInitially
<1>2. ScreensTypeOK /\ [ScreensNext]_screenVars => ScreensTypeOK' BY ScreensStep
<1> QED BY <1>1, <1>2, PTL DEF ScreensSpec

LEMMA VisitedOK ==
  ASSUME ScreensTypeOK
  PROVE  /\ workspace \in Workspaces /\ WorldOK(workspace) /\ VaultOK(workspace.vault)
<1>1. workspace \in Workspaces
  BY WorldsAssumption DEF ScreensTypeOK
<1>2. WorldOK(workspace)
  BY <1>1, WorldsOK
<1>3. workspace.vault \in VaultRows \/ workspace.vault = NoVault
  BY <1>2 DEF WorldOK
<1> QED BY <1>1, <1>2, <1>3, VaultsOK

\* "The request failed; the number is unknown, not zero"
\* (components/data/states.tsx): for any workspaces, whatever has been answered,
\* a page says of an undisputed subject what every page says of it once all is
\* answered, because each of them says the subject's one word, Truth.
THEOREM PagesAlwaysAgree == ScreensSpec => []PagesAgree
<1>1. ScreensTypeOK => PagesAgree
  <2> SUFFICES ASSUME ScreensTypeOK,
                      NEW s \in Shown, NEW t \in EverythingOf[workspace],
                      s[1] = t[1], s[1] \notin Disputed(workspace) \cup ReadAsEmpty
               PROVE  s[2] = t[2]
    BY DEF PagesAgree
  <2>1. WorldOK(workspace) /\ VaultOK(workspace.vault) /\ page \in PageNames
    BY VisitedOK DEF ScreensTypeOK
  <2>2. t \in Everything(workspace)
    BY DEF EverythingOf, ScreensTypeOK
  <2>3. t[2] = Truth(workspace, t[1])
    BY <2>1, <2>2, AllAnsweredFair DEF Fair
  <2>4. page = "start" => EmptyRead(Keeping) = ReadAsEmpty
    BY DEF EmptyRead, ReadAsEmpty, When
  <2>5. Fair(workspace, s)
    BY <2>1, <2>4, StatementsFair DEF Shown
  <2> QED BY <2>3, <2>5 DEF Fair
<1> QED BY <1>1, ScreensTypeCorrect, PTL

-----------------------------------------------------------------------------
\* The service's tables, on the statuses that a workspace can have.
LEMMA ApplicationAccepts ==
  ASSUME NEW w, WorldOK(w)
  PROVE  /\ Accepts(w, "evaluate") <=> w.application = "DRAFT"
         /\ Accepts(w, "review") <=> w.application = "HUMAN_REVIEW_REQUIRED"
         /\ Accepts(w, "fund") <=> w.application = "APPROVED"
<1>1. ApplicationMove(w.application, "IDENTITY_VERIFIED") <=> w.application = "DRAFT"
  BY DEF WorldOK, ApplicationMove, CanMove, ApplicationTransitions
<1>2. ApplicationMove(w.application, "VAULT_CREATED") <=> w.application = "APPROVED"
  BY DEF WorldOK, ApplicationMove, CanMove, ApplicationTransitions
<1> QED BY <1>1, <1>2 DEF Accepts

LEMMA VaultAccepts ==
  ASSUME NEW w, VaultOK(w.vault)
  PROVE  /\ Accepts(w, "freeze") <=> w.vault.status \in {"ACTIVE", "SPENDING"}
         /\ Accepts(w, "close") <=> w.vault.status \in Finished
         /\ Accepts(w, "revenue") <=>
              w.vault.status \in {"ACTIVE", "SPENDING", "EXPIRED", "PARTIALLY_REPAID"}
         /\ Accepts(w, "failure") <=> w.vault.status \in Unfinished
<1> DEFINE v == w.vault.status
<1>1. v \in {"none", "CLOSED", "ACTIVE", "SPENDING", "FROZEN", "EXPIRED", "PARTIALLY_REPAID",
             "REPAID", "DEFAULTED"}
  BY DEF VaultOK, Unfinished, Finished
<1> HIDE DEF v
<1> USE DEF VaultMove, CanMove, VaultTransitions
<1>2. VaultMove(v, "FROZEN") <=> v \in {"ACTIVE", "SPENDING"}
  BY <1>1
<1>3. VaultMove(v, "CLOSED") <=> v \in Finished
  BY <1>1 DEF Finished
<1>4. VaultMove(v, "TASK_COMPLETED") <=> v \in {"ACTIVE", "SPENDING"}
  BY <1>1
<1>5. VaultMove(v, "REVENUE_RECEIVED") <=> v \in {"EXPIRED", "PARTIALLY_REPAID"}
  BY <1>1
<1> QED BY <1>2, <1>3, <1>4, <1>5 DEF Accepts, v

LEMMA ApplicationOffered ==
  ASSUME NEW w, WorldOK(w)
  PROVE  ApplicationOffers(w, {"application"}) = {c \in ControlsOf("application") : Accepts(w, c)}
<1>1. ControlsOf("application") = {"evaluate", "review", "fund"}
  BY DEF ControlsOf
<1>2. w.application \in Runnable <=> w.application = "DRAFT"
  BY DEF WorldOK, Runnable
<1>3. ApplicationOffers(w, {"application"}) =
        When(w.application = "DRAFT", {"evaluate"})
        \cup When(w.application = "APPROVED", {"fund"})
        \cup When(w.application = "HUMAN_REVIEW_REQUIRED", {"review"})
  BY <1>2 DEF ApplicationOffers, FundCard, When
<1> QED BY <1>1, <1>3, ApplicationAccepts DEF When

LEMMA VaultOffered ==
  ASSUME NEW w, VaultOK(w.vault)
  PROVE  VaultOffers(w, {"vault"})
           \ (When(w.vault.status = "FROZEN", {"revenue"})
              \cup When(w.vault.status = "PARTIALLY_REPAID", {"failure"}))
         = {c \in ControlsOf("vault") : Accepts(w, c)}
<1> DEFINE v == w.vault.status
<1>1. v \in {"none", "CLOSED", "ACTIVE", "SPENDING", "FROZEN", "EXPIRED", "PARTIALLY_REPAID",
             "REPAID", "DEFAULTED"}
  BY DEF VaultOK, Unfinished, Finished
<1>2. ControlsOf("vault") = {"freeze", "close", "revenue", "failure"}
  BY DEF ControlsOf
<1>3. UNION {FreezeSheet(n) : n \in ReasonLengths} = {"freeze"}
  BY DEF FreezeSheet, ReasonLengths, When
<1>4. VaultOffers(w, {"vault"}) =
        IF v = "none" THEN {}
        ELSE When(v \in Freezable, {"freeze"}) \cup When(v \in Closable, {"close"})
             \cup When(v \notin Settled, {"revenue", "failure"})
  BY <1>3 DEF VaultOffers, RepaymentControls, HasVault, When
<1>5. /\ Accepts(w, "freeze") <=> v \in {"ACTIVE", "SPENDING"}
      /\ Accepts(w, "close") <=> v \in Finished
      /\ Accepts(w, "revenue") <=> v \in {"ACTIVE", "SPENDING", "EXPIRED", "PARTIALLY_REPAID"}
      /\ Accepts(w, "failure") <=> v \in Unfinished
  BY VaultAccepts
<1> HIDE DEF v
<1>6. VaultOffers(w, {"vault"})
           \ (When(v = "FROZEN", {"revenue"}) \cup When(v = "PARTIALLY_REPAID", {"failure"}))
      = {c \in {"freeze", "close", "revenue", "failure"} : Accepts(w, c)}
  BY <1>1, <1>4, <1>5 DEF Freezable, Closable, Settled, Finished, Unfinished, When
<1> QED BY <1>2, <1>6 DEF v

\* The buttons that the two pages with controls show (application-detail,
\* vault-detail) are those whose request the service's state machines accept,
\* the two named exceptions apart, for any workspaces and in any order of
\* visits and answers.
THEOREM ControlsAlwaysMatch == ScreensSpec => []ControlsMatchTheService
<1>1. ScreensTypeOK => ControlsMatchTheService
  <2> SUFFICES ASSUME ScreensTypeOK, Having = DOMAIN answer
               PROVE  Offered \ Refused = {c \in ControlsOf(page) : Accepts(workspace, c)}
    BY DEF ControlsMatchTheService
  <2>1. WorldOK(workspace) /\ VaultOK(workspace.vault)
    BY VisitedOK
  <2>2. Having = QueriesOf[page]
    BY DEF ScreensTypeOK
  <2>3. CASE page = "application"
    <3>1. Having = {"application"}
      BY <2>2, <2>3 DEF QueriesOf
    <3>2. Offered = {c \in ControlsOf("application") : Accepts(workspace, c)}
      BY <2>1, <2>3, <3>1, ApplicationOffered DEF Offered
    <3>3. ControlsOf("application") \cap Refused = {}
      BY DEF ControlsOf, Refused, When
    <3> QED BY <2>3, <3>2, <3>3
  <2>4. CASE page = "vault"
    <3>1. Having = {"vault"}
      BY <2>2, <2>4 DEF QueriesOf
    <3>2. Offered = VaultOffers(workspace, {"vault"})
      BY <2>4, <3>1 DEF Offered
    <3> QED BY <2>1, <2>4, <3>2, VaultOffered DEF Refused
  <2>5. CASE page \notin {"application", "vault"}
    <3>1. Offered = {} /\ ControlsOf(page) = {}
      BY <2>5 DEF Offered, ControlsOf
    <3> QED BY <3>1
  <2> QED BY <2>3, <2>4, <2>5
<1> QED BY <1>1, ScreensTypeCorrect, PTL

\* What the service grants is the figure in the field or nothing: never the
\* engine's cap in place of a smaller or a larger figure.
LEMMA GrantsWhatIsTyped ==
  ASSUME NEW typed \in Nat \ {0}, NEW cap \in Nat
  PROVE  Granted(Decide(typed, cap), cap) \in {0, typed}
<1>1. CASE typed = cap
  <2>1. Decide(typed, cap) = [action |-> "APPROVE", amount |-> 0]
    BY <1>1 DEF Decide
  <2> QED BY <1>1, <2>1 DEF Granted
<1>2. CASE typed # cap
  <2>1. Decide(typed, cap) = [action |-> "REDUCE", amount |-> typed]
    BY <1>2 DEF Decide
  <2> QED BY <2>1 DEF Granted
<1> QED BY <1>1, <1>2

\* "Neither may be quietly rounded to the cap" (components/underwriting/
\* review-controls.tsx), for any workspaces.
THEOREM TypedIsAlwaysGranted == ScreensSpec => []WhatIsTypedIsGranted
<1>1. ScreensTypeOK => WhatIsTypedIsGranted
  <2> SUFFICES ASSUME ScreensTypeOK, NEW typed \in Typed
               PROVE  Granted(Decide(typed, ApprovedLimitMinor(workspace)),
                              ApprovedLimitMinor(workspace)) \in {0, typed}
    BY DEF WhatIsTypedIsGranted
  <2>1. typed \in Nat \ {0}
    BY DEF Typed, RequestedMinor
  <2>2. ApprovedLimitMinor(workspace) \in Nat
    BY VisitedOK DEF WorldOK, ApprovedLimitMinor, LimitMinor
  <2> QED BY <2>1, <2>2, GrantsWhatIsTyped
<1> QED BY <1>1, ScreensTypeCorrect, PTL

-----------------------------------------------------------------------------
\* Side by side, each part takes its own steps or none: what MCBrowser explores
\* is the query cache, the sheets and the pages, and nothing else.
THEOREM EachPartIsItself == BrowserSpec => Spec /\ DeskSpec /\ ScreensSpec
<1>1. BrowserInit => Init /\ DeskInit /\ ScreensInit
  BY DEF BrowserInit
<1>2. [BrowserNext]_<<part, vars, deskVars, screenVars>> =>
        [Next]_vars /\ [DeskNext]_deskVars /\ [ScreensNext]_screenVars
  BY DEF BrowserNext
<1> QED BY <1>1, <1>2, PTL DEF BrowserSpec, Spec, DeskSpec, ScreensSpec

\* The safety properties of the run, of the composition itself: stale data is
\* marked, a step and a badge name rows that exist, pages agree, offer what is
\* accepted and send what was typed, and screens keep ScreenPromise.
THEOREM BrowserIsSafe ==
  BrowserSpec =>
    /\ [](/\ StaleIsMarked
          /\ StepsTellTheTruth /\ ApplicationsAreBacked /\ RegisteredIsVerified
          /\ PagesAgree /\ ControlsMatchTheService /\ WhatIsTypedIsGranted)
    /\ KeepsPromises
BY EachPartIsItself, StaleMarked, StepsTruthful, ApplicationsBacked, RegisteredVerified,
   PagesAlwaysAgree, ControlsAlwaysMatch, TypedIsAlwaysGranted, CacheKeepsPromises, PTL
=============================================================================
