----------------------------- MODULE LookupCache -----------------------------
(***************************************************************************)
(* db/lookupCache.ts (one createManagedLookupCache() instance), together   *)
(* with the writers that keep it honest through db/withInvalidation.ts.    *)
(*                                                                         *)
(* What the cache holds is one number, the version of the rows it was      *)
(* built from; a load that takes several SELECTs holds the oldest it read. *)
(* Time is reduced to two facts: whether the cache is past its TTL and     *)
(* whether the refresh backoff is over.  Promise callbacks interleave      *)
(* freely, so a caller's continuation may meet any write or invalidation.  *)
(***************************************************************************)
EXTENDS Naturals

CONSTANTS
  Readers,      \* callers of getCache(), each one call at a time
  Loads,        \* names for the promises of startRefresh(), reused
  None,         \* no refresh in flight
  MaxWrites,    \* bound: committed writes
  MaxFailures   \* bound: failed loads

ASSUME NoneAssumption == None \notin Loads
ASSUME BoundsAssumption == MaxWrites \in Nat /\ MaxFailures \in Nat

VARIABLES
  db,             \* the rows, as the number of writes committed
  uncovered,      \* writes committed whose writer has not invalidated yet
  cache,          \* this.cache: null ("none"), the empty fallback, or rows
  age,            \* loadedAt against the TTL
  inFlight,       \* this.inFlightPromise
  version,        \* this.version
  refreshAllowed, \* refreshAllowedAt against the clock
  load,           \* every refresh promise
  reader,         \* every getCache() call
  failures,       \* bound counter
  announced       \* history variable: rows as of the last invalidate()

cacheVars == <<cache, age, inFlight, version, refreshAllowed>>
dbVars == <<db, uncovered, announced>>
vars == <<db, uncovered, cache, age, inFlight, version, refreshAllowed, load,
          reader, failures, announced>>

CacheValue == [state: {"none", "empty", "loaded"}, data: Nat]
Null == [state |-> "none", data |-> 0]
Empty == [state |-> "empty", data |-> 0]
Rows(n) == [state |-> "loaded", data |-> n]

LoadRecord == [state: {"unused", "loading", "selected", "resolved", "failed"},
               cleanup: {"due", "done"}, version: Nat, data: Nat]

\* version is requestVersion; floor is a history field: what had been
\* announced when the call was made.
ReaderRecord == [pc: {"idle", "waiting", "resumed", "retrying", "returned", "threw"},
                 load: Loads \cup {None}, version: Nat, floor: Nat,
                 value: CacheValue]

NotCalling == [pc |-> "idle", load |-> None, version |-> 0, floor |-> 0,
               value |-> Null]

TypeOK ==
  /\ db \in Nat /\ uncovered \in Nat /\ announced \in Nat /\ failures \in Nat
  /\ cache \in CacheValue
  /\ age \in {"fresh", "expired"}
  /\ inFlight \in Loads \cup {None}
  /\ version \in Nat
  /\ refreshAllowed \in {"now", "later"}
  /\ load \in [Loads -> LoadRecord]
  /\ reader \in [Readers -> ReaderRecord]
  /\ \A r \in Readers : reader[r].pc \in {"waiting", "retrying"} => reader[r].load \in Loads

-----------------------------------------------------------------------------
Init ==
  /\ db = 0 /\ uncovered = 0 /\ announced = 0 /\ failures = 0
  /\ cache = Null
  /\ age = "fresh"
  /\ inFlight = None
  /\ version = 0
  /\ refreshAllowed = "now"
  /\ load = [f \in Loads |-> [state |-> "unused", cleanup |-> "done",
                              version |-> 0, data |-> 0]]
  /\ reader = [r \in Readers |-> NotCalling]

Awaits(r, f) == reader[r].pc \in {"waiting", "retrying"} /\ reader[r].load = f
Unsettled(f) == load[f].state \in {"loading", "selected"}

\* A promise nobody can observe any more: its name may be used again.
Forgotten(f) ==
  /\ ~Unsettled(f)
  /\ load[f].cleanup = "done"
  /\ \A r \in Readers : ~Awaits(r, f)

-----------------------------------------------------------------------------
(* Writers: withInvalidation() *)

\* The write is committed; its reply is on the way to the writer.
OperationCommits ==
  /\ db < MaxWrites
  /\ db' = db + 1
  /\ uncovered' = uncovered + 1
  /\ UNCHANGED <<announced, cacheVars, load, reader, failures>>

\* The operation returned: invalidate() runs in the same turn.
Invalidate ==
  /\ uncovered > 0
  /\ uncovered' = uncovered - 1
  /\ announced' = db
  /\ version' = version + 1
  /\ cache' = Null
  /\ inFlight' = None
  /\ refreshAllowed' = "now"
  /\ UNCHANGED <<db, age, load, reader, failures>>

\* The operation threw although it had committed (its reply was lost):
\* withInvalidation lets the error through and never invalidates.
OperationThrows ==
  /\ uncovered > 0
  /\ uncovered' = uncovered - 1
  /\ UNCHANGED <<db, announced, cacheVars, load, reader, failures>>

-----------------------------------------------------------------------------
(* The life of one refresh promise *)

\* startRefresh() hands f to its caller: the refresh in flight, or a new one.
StartRefresh(f) ==
  IF inFlight # None
  THEN f = inFlight /\ UNCHANGED <<inFlight, load>>
  ELSE /\ Forgotten(f) /\ f = CHOOSE g \in Loads : Forgotten(g)
       /\ inFlight' = f
       /\ load' = [load EXCEPT ![f] = [state |-> "loading", cleanup |-> "due",
                                       version |-> version, data |-> 0]]

LoadSelects(f) ==
  /\ load[f].state = "loading"
  /\ load' = [load EXCEPT ![f].state = "selected", ![f].data = db]
  /\ UNCHANGED <<dbVars, cacheVars, reader, failures>>

\* Mistake: whatever was loaded last is installed.
AlwaysCurrent(f) == TRUE

\* requestVersion === this.version
Current(f) == load[f].version = version

\* loadCache() resolved: applyRefreshSuccess.
LoadResolves(f) ==
  /\ load[f].state = "selected"
  /\ load' = [load EXCEPT ![f].state = "resolved"]
  /\ IF Current(f)
     THEN cache' = Rows(load[f].data) /\ age' = "fresh" /\ refreshAllowed' = "now"
     ELSE UNCHANGED <<cache, age, refreshAllowed>>
  /\ UNCHANGED <<dbVars, inFlight, version, reader, failures>>

\* Mistake: a failed refresh replaces stale rows by the empty fallback.
AlwaysEmpty == Empty

\* Mistake: a failed refresh installs nothing.
NoFallback == cache

\* handleRefreshFailureFallback
Fallback == IF cache.state = "none" THEN Empty ELSE cache

\* loadCache() rejected: applyRefreshError, the first reaction registered.
\* The empty fallback has loadedAt 0: it is past any TTL.
LoadFails(f) ==
  /\ Unsettled(f)
  /\ failures < MaxFailures
  /\ failures' = failures + 1
  /\ load' = [load EXCEPT ![f].state = "failed", ![f].data = 0]
  /\ IF Current(f)
     THEN /\ cache' = Fallback
          /\ age' = IF cache.state = "none" THEN "expired" ELSE age
          /\ refreshAllowed' = "later"
     ELSE UNCHANGED <<cache, age, refreshAllowed>>
  /\ UNCHANGED <<dbVars, inFlight, version, reader>>

\* Mistake: the slot is emptied whichever refresh it holds.
ClearAnyInFlight(f) ==
  /\ load[f].state \in {"resolved", "failed"} /\ load[f].cleanup = "due"
  /\ load' = [load EXCEPT ![f].cleanup = "done"]
  /\ inFlight' = None
  /\ UNCHANGED <<dbVars, cache, age, version, refreshAllowed, reader, failures>>

\* Mistake: a rejected refresh keeps the slot (a .then instead of a .finally).
ClearInFlightIfResolved(f) ==
  /\ load[f].state \in {"resolved", "failed"} /\ load[f].cleanup = "due"
  /\ load' = [load EXCEPT ![f].cleanup = "done"]
  /\ inFlight' = IF inFlight = f /\ load[f].state = "resolved" THEN None ELSE inFlight
  /\ UNCHANGED <<dbVars, cache, age, version, refreshAllowed, reader, failures>>

\* The finally reaction, clearInFlightIfCurrent.
ClearInFlight(f) ==
  /\ load[f].state \in {"resolved", "failed"} /\ load[f].cleanup = "due"
  /\ load' = [load EXCEPT ![f].cleanup = "done"]
  /\ inFlight' = IF inFlight = f THEN None ELSE inFlight
  /\ UNCHANGED <<dbVars, cache, age, version, refreshAllowed, reader, failures>>

-----------------------------------------------------------------------------
(* getCache() *)

\* There is a cache: it is returned at once, stale or not; past its TTL and
\* backoff it is also refreshed in the background.
GetCached(r) ==
  /\ reader[r] = NotCalling
  /\ cache.state # "none"
  /\ reader' = [reader EXCEPT ![r] = [pc |-> "returned", load |-> None,
                  version |-> 0, floor |-> announced, value |-> cache]]
  /\ IF age = "expired" /\ refreshAllowed = "now"
     THEN \E f \in Loads : StartRefresh(f)
     ELSE UNCHANGED <<inFlight, load>>
  /\ UNCHANGED <<dbVars, cache, age, version, refreshAllowed, failures>>

\* There is none: the caller waits for the load.
GetCold(r) ==
  /\ reader[r] = NotCalling
  /\ cache.state = "none"
  /\ \E f \in Loads :
       /\ StartRefresh(f)
       /\ reader' = [reader EXCEPT ![r] = [pc |-> "waiting", load |-> f,
                       version |-> version, floor |-> announced, value |-> Null]]
  /\ UNCHANGED <<dbVars, cache, age, version, refreshAllowed, failures>>

GetCache(r) == GetCached(r) \/ GetCold(r)

\* Mistake: a rejected refresh never reaches those who wait for it.
OnlyResolved(f) == load[f].state = "resolved"

Settled(f) == load[f].state \in {"resolved", "failed"}

\* Mistake: the promise is passed on without being awaited.
PromiseItself(f) == load[f]

\* What awaitCachePromise makes of a settled refresh; Null is the rethrown error.
Outcome(f) == IF load[f].state = "resolved" THEN Rows(load[f].data) ELSE cache

\* awaitCachePromise is over; getCache goes on in a later microtask.
Resume(r) ==
  /\ reader[r].pc = "waiting"
  /\ Settled(reader[r].load)
  /\ reader' = [reader EXCEPT ![r].pc = "resumed", ![r].load = None,
                              ![r].value = Outcome(reader[r].load)]
  /\ UNCHANGED <<dbVars, cacheVars, load, failures>>

\* Nothing to return after an invalidation: load once more.
Retry(r) ==
  /\ reader[r].pc = "resumed"
  /\ reader[r].version # version
  /\ reader[r].value.state = "none" \/ cache.state = "none"
  /\ \E f \in Loads :
       /\ StartRefresh(f)
       /\ reader' = [reader EXCEPT ![r].pc = "retrying", ![r].load = f]
  /\ UNCHANGED <<dbVars, cache, age, version, refreshAllowed, failures>>

\* The rest of getCache after its first await.
Return(r) ==
  /\ reader[r].pc = "resumed"
  /\ IF reader[r].version = version
     THEN reader' = [reader EXCEPT ![r].pc = IF reader[r].value.state = "none"
                                              THEN "threw" ELSE "returned"]
     ELSE /\ reader[r].value.state # "none" /\ cache.state # "none"
          /\ reader' = [reader EXCEPT ![r].pc = "returned", ![r].value = cache]
  /\ UNCHANGED <<dbVars, cacheVars, load, failures>>

\* The second load settled: its outcome is the caller's, whatever it is.
ReturnRetried(r) ==
  /\ reader[r].pc = "retrying"
  /\ Settled(reader[r].load)
  /\ LET outcome == Outcome(reader[r].load)
     IN reader' = [reader EXCEPT ![r].pc = IF outcome.state = "none" THEN "threw" ELSE "returned",
                                 ![r].load = None, ![r].value = outcome]
  /\ UNCHANGED <<dbVars, cacheVars, load, failures>>

\* The caller has used what it got.
CallerDone(r) ==
  /\ reader[r].pc \in {"returned", "threw"}
  /\ reader' = [reader EXCEPT ![r] = NotCalling]
  /\ UNCHANGED <<dbVars, cacheVars, load, failures>>

-----------------------------------------------------------------------------
(* The clock *)

TtlPasses ==
  /\ cache.state = "loaded" /\ age = "fresh"
  /\ age' = "expired"
  /\ UNCHANGED <<dbVars, cache, inFlight, version, refreshAllowed, load, reader, failures>>

BackoffEnds ==
  /\ refreshAllowed = "later"
  /\ refreshAllowed' = "now"
  /\ UNCHANGED <<dbVars, cache, age, inFlight, version, load, reader, failures>>

Next ==
  \/ OperationCommits \/ Invalidate \/ OperationThrows
  \/ \E f \in Loads : \/ LoadSelects(f) \/ LoadResolves(f)
                      \/ LoadFails(f) \/ ClearInFlight(f)
  \/ \E r \in Readers : \/ GetCached(r) \/ GetCold(r)
                        \/ Resume(r) \/ Retry(r) \/ Return(r) \/ ReturnRetried(r)
                        \/ CallerDone(r)
  \/ TtlPasses \/ BackoffEnds

Spec == Init /\ [][Next]_vars

\* Queries settle, microtasks and timers run, and a writer whose operation
\* settled goes on.  Nobody is obliged to call getCache().
FairSpec ==
  /\ Spec
  /\ WF_vars(Invalidate \/ OperationThrows)
  /\ WF_vars(TtlPasses) /\ WF_vars(BackoffEnds)
  /\ \A f \in Loads : /\ WF_vars(LoadSelects(f))
                      /\ WF_vars(LoadResolves(f) \/ LoadFails(f))
                      /\ WF_vars(ClearInFlight(f))
  /\ \A r \in Readers : /\ WF_vars(Resume(r) \/ Retry(r) \/ Return(r) \/ ReturnRetried(r))
                        /\ WF_vars(CallerDone(r))

-----------------------------------------------------------------------------
(* Properties *)

\* Read your writes: rows returned by a getCache() call are never older than
\* a write whose withInvalidation() had finished when the call was made, even
\* when the call joined, lost and restarted refreshes on the way; and they are
\* rows that were in the table.
ReadIsFresh ==
  \A r \in Readers :
    reader[r].pc = "returned" /\ reader[r].value.state = "loaded" =>
      reader[r].floor <= reader[r].value.data /\ reader[r].value.data <= db

\* "Multiple concurrent getCache() calls coalesce to one in-flight refresh":
\* no two unfinished loads belong to the current version.
SingleFlight ==
  \A f, g \in Loads :
    Unsettled(f) /\ Unsettled(g) /\ Current(f) /\ Current(g) => f = g

\* startRefresh's claim that "a cold load is never under" the backoff window,
\* which is why it may ignore the window.
ColdIsNeverBackedOff == refreshAllowed = "later" => cache.state # "none"

\* getCache() rejects only when invalidate() ran at least twice during the
\* call: one invalidation and any number of failed loads never reach a caller.
RejectsAfterTwoInvalidations ==
  \A r \in Readers : reader[r].pc = "threw" => reader[r].version + 2 <= version

\* Rows that were installed are replaced only by rows at least as new, or
\* dropped by invalidate(): never by the result of an older refresh, never by
\* the empty fallback.
NeverGoesBack ==
  [][cache.state = "loaded" =>
       \/ cache'.state = "none"
       \/ cache'.state = "loaded" /\ cache.data <= cache'.data]_vars

\* Every getCache() call that waits settles.
CallsSettle ==
  \A r \in Readers :
    reader[r].pc = "waiting" ~> reader[r].pc \in {"returned", "threw"}

\* If reads keep coming, the cache ends up holding the latest rows, even when
\* a writer failed after its commit and never invalidated: the TTL covers it,
\* through any bounded number of failed refreshes.
EventuallyFresh ==
  (\A r \in Readers : []<><<GetCache(r)>>_vars) => <>[](cache = Rows(db))
=============================================================================
