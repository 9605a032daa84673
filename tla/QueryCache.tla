----------------------------- MODULE QueryCache -----------------------------
(***************************************************************************)
(* The browser's query cache and the writes that invalidate it             *)
(* (frontend/lib/queries.ts, lib/api.ts, lib/providers.tsx).               *)
(*                                                                         *)
(* A query is fetched when a page that shows it is mounted and its entry   *)
(* is missing, stale or invalidated, and again when a successful write     *)
(* covers it.  The service reads its data at some moment between request   *)
(* and answer; a write takes effect there before its reply arrives, if it  *)
(* arrives.  A version of a query counts the writes that changed its data. *)
(*                                                                         *)
(* The entries follow the library the code relies on, query-core 5: an     *)
(* invalidation refetches the entries on the screen and replaces a fetch   *)
(* in flight, unless the entry has no data yet; entries off the screen are *)
(* only marked, and a fetch of theirs runs on.                             *)
(***************************************************************************)
EXTENDS Naturals, FiniteSets

CONSTANTS
  Queries,   \* the queries of the pages in use
  Writes,    \* the mutations they offer
  Touched,   \* Touched[w]: the queries whose data w changes
  Covered,   \* Covered[w]: the queries w invalidates when it succeeds
  MaxWrites  \* bound: writes submitted

ASSUME WritesAssumption ==
  /\ Touched \in [Writes -> SUBSET Queries]
  /\ Covered \in [Writes -> SUBSET Queries]
  /\ MaxWrites \in Nat

VARIABLES
  version,   \* version[q]: the service's data behind q
  entry,     \* entry[q]: the cache entry of q
  mutation,  \* mutation[w]: how far the mutation w has come
  submitted, \* writes submitted so far
  owed       \* owed[q]: the version that acknowledged writes promise the screen

vars == <<version, entry, mutation, submitted, owed>>

\* data and read are versions, 0 for none; seen: a mounted page observes it.
Rows ==
  [data : Nat, invalid : BOOLEAN, fresh : BOOLEAN, failed : BOOLEAN, seen : BOOLEAN,
   fetching : BOOLEAN, read : Nat, failures : Nat]

NoEntry ==
  [data |-> 0, invalid |-> FALSE, fresh |-> FALSE, failed |-> FALSE, seen |-> FALSE,
   fetching |-> FALSE, read |-> 0, failures |-> 0]

-----------------------------------------------------------------------------
(* What happens to an entry.                                                *)

\* staleTime has passed or a write has marked it.
Stale(e) == e.data = 0 \/ e.invalid \/ ~e.fresh

\* A fetch begins, or begins anew: nothing has been read for it.  An error is
\* forgotten when there is no data to show beside it.
Fetched(e) ==
  [e EXCEPT !.fetching = TRUE, !.read = 0, !.failures = 0,
            !.failed = (IF e.data = 0 THEN FALSE ELSE e.failed)]

\* useQuery on mount: the entry is shown as it is and fetched if it is stale.
Observed(e) ==
  IF Stale(e) /\ ~e.fetching THEN Fetched([e EXCEPT !.seen = TRUE])
  ELSE [e EXCEPT !.seen = TRUE]

\* The answer becomes the entry's data, fresh for staleTime.
Answered(e) ==
  [e EXCEPT !.data = e.read, !.invalid = FALSE, !.fresh = TRUE, !.failed = FALSE,
            !.fetching = FALSE, !.read = 0, !.failures = 0]

\* retry: a 4xx is a decision; anything else is worth another attempt, as long
\* as a page still wants the answer.
ShouldRetry(e, refused) == ~refused /\ e.failures < 2 /\ e.seen

Failed(e, refused) ==
  IF ShouldRetry(e, refused) THEN [e EXCEPT !.read = 0, !.failures = e.failures + 1]
  ELSE [e EXCEPT !.failed = TRUE, !.invalid = TRUE, !.fetching = FALSE, !.read = 0, !.failures = 0]

\* An entry whose fetch goes on when it is invalidated: its first fetch, and a
\* fetch that no page waits for.
Overtaken(e) == e.fetching /\ (e.data = 0 \/ ~e.seen)

\* mutated form: entries off the screen are not marked
InvalidatedOnScreen(e) ==
  IF e.seen /\ ~Overtaken(e) THEN [Fetched(e) EXCEPT !.invalid = TRUE] ELSE e

\* mutated form: a fetch in flight is taken for the refetch
InvalidatedKeepingFetch(e) ==
  IF e.seen /\ ~e.fetching THEN [Fetched(e) EXCEPT !.invalid = TRUE]
  ELSE [e EXCEPT !.invalid = TRUE]

\* mutated form: entries are marked and left to their next mount
InvalidatedLazily(e) == [e EXCEPT !.invalid = TRUE]

\* invalidateQueries: the entry is marked and, if a page shows it, fetched anew.
Invalidated(e) ==
  IF e.seen /\ ~Overtaken(e) THEN [Fetched(e) EXCEPT !.invalid = TRUE]
  ELSE [e EXCEPT !.invalid = TRUE]

-----------------------------------------------------------------------------
Init ==
  /\ version = [q \in Queries |-> 1]
  /\ entry = [q \in Queries |-> NoEntry]
  /\ mutation = [w \in Writes |-> "idle"]
  /\ submitted = 0
  /\ owed = [q \in Queries |-> 0]

Become(q, e) ==
  /\ entry' = [entry EXCEPT ![q] = e]
  /\ UNCHANGED <<version, mutation, submitted, owed>>

\* A page that shows q is opened, or left.
Mount(q) == ~entry[q].seen /\ Become(q, Observed(entry[q]))

Unmount(q) == entry[q].seen /\ Become(q, [entry[q] EXCEPT !.seen = FALSE])

\* refetch(): a page's "try again", or the interval of a live panel.
Refetch(q) ==
  /\ entry[q].seen /\ ~entry[q].fetching
  /\ Become(q, Fetched(entry[q]))

\* staleTime elapses.
Age(q) == entry[q].fresh /\ Become(q, [entry[q] EXCEPT !.fresh = FALSE])

\* gcTime elapses for an entry no page shows.
Collect(q) ==
  /\ ~entry[q].seen /\ ~entry[q].fetching /\ entry[q] # NoEntry
  /\ Become(q, NoEntry)

\* The service answers a request with the data of that moment.
Read(q) ==
  /\ entry[q].fetching /\ entry[q].read = 0
  /\ Become(q, [entry[q] EXCEPT !.read = version[q]])

\* request() resolves.
Arrive(q) ==
  /\ entry[q].fetching /\ entry[q].read # 0
  /\ Become(q, Answered(entry[q]))

\* request() throws: an ApiError of the service, or OFFLINE.
Fail(q) ==
  /\ entry[q].fetching
  /\ \E refused \in BOOLEAN : Become(q, Failed(entry[q], refused))

\* The visitor makes a write: a button's mutate().
Submit(w) ==
  /\ mutation[w] = "idle"
  /\ submitted < MaxWrites
  /\ mutation' = [mutation EXCEPT ![w] = "sent"]
  /\ submitted' = submitted + 1
  /\ UNCHANGED <<version, entry, owed>>

\* The service carries the write out.
Apply(w) ==
  /\ mutation[w] = "sent"
  /\ mutation' = [mutation EXCEPT ![w] = "applied"]
  /\ version' = [q \in Queries |-> IF q \in Touched[w] THEN version[q] + 1 ELSE version[q]]
  /\ UNCHANGED <<entry, submitted, owed>>

\* onSuccess: everything the write covers is invalidated.
Succeed(w) ==
  /\ mutation[w] = "applied"
  /\ mutation' = [mutation EXCEPT ![w] = "idle"]
  /\ entry' = [q \in Queries |-> IF q \in Covered[w] THEN Invalidated(entry[q]) ELSE entry[q]]
  /\ owed' = [q \in Queries |->
       IF q \in Covered[w] /\ ~Overtaken(entry[q]) THEN version[q] ELSE owed[q]]
  /\ UNCHANGED <<version, submitted>>

\* The mutation fails: refused by the service, or lost before it or after.
\* mutations never retry, and nothing is invalidated.
GiveUp(w) ==
  /\ mutation[w] \in {"sent", "applied"}
  /\ mutation' = [mutation EXCEPT ![w] = "idle"]
  /\ UNCHANGED <<version, entry, submitted, owed>>

Next ==
  \/ \E q \in Queries :
       \/ Mount(q) \/ Unmount(q) \/ Refetch(q) \/ Age(q) \/ Collect(q)
       \/ Read(q) \/ Arrive(q) \/ Fail(q)
  \/ \E w \in Writes : Submit(w) \/ Apply(w) \/ Succeed(w) \/ GiveUp(w)

\* A fetch ends, with an answer or an error: the browser sees to that, and the
\* proxy answers every request it receives.  The visitor owes nothing.
Fairness ==
  \A q \in Queries : WF_vars(Read(q) \/ Fail(q)) /\ WF_vars(Arrive(q) \/ Fail(q))

Spec == Init /\ [][Next]_vars /\ Fairness

-----------------------------------------------------------------------------
\* The entries keep their shape; a fetch fails at most twice before it is
\* given up, and nothing is read for an entry that is not being fetched.
CacheTypeOK ==
  /\ version \in [Queries -> Nat \ {0}]
  /\ entry \in [Queries -> Rows]
  /\ mutation \in [Writes -> {"idle", "sent", "applied"}]
  /\ submitted \in Nat
  /\ owed \in [Queries -> Nat]
  /\ \A q \in Queries :
       /\ entry[q].failures <= 2
       /\ ~entry[q].fetching => entry[q].read = 0 /\ entry[q].failures = 0

\* "Every one of those has to refetch or the screen starts lying" (queries.ts:20):
\* data older than an acknowledged write promised is marked as such, so that no
\* page takes it for fresh; on a page it is being fetched, unless that failed.
StaleIsMarked ==
  \A q \in Queries :
    entry[q].data # 0 /\ entry[q].data < owed[q] =>
      /\ entry[q].invalid
      /\ entry[q].seen => entry[q].fetching \/ entry[q].failed

\* The cache keeps what a page may rely on, however fetches, writes, pages and
\* failures interleave.
Screen == INSTANCE ScreenPromise WITH published <- version, promised <- owed,
  shown <- [q \in Queries |-> entry[q].data]

KeepsPromises == Screen!Spec

\* A page that shows data older than was promised gets the new data, or an
\* error to show, or is left.
Refetched ==
  \A q \in Queries :
    (entry[q].seen /\ entry[q].data # 0 /\ entry[q].data < owed[q])
      ~> (entry[q].data >= owed[q] \/ entry[q].failed \/ ~entry[q].seen)
=============================================================================
