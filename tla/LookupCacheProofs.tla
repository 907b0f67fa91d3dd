-------------------------- MODULE LookupCacheProofs --------------------------
(***************************************************************************)
(* Proofs about LookupCache, for any number of callers, concurrent loads,  *)
(* writes and failures.                                                    *)
(***************************************************************************)
EXTENDS LookupCache, TLAPS

-----------------------------------------------------------------------------
(* Types *)

LEMMA ConstantTypes ==
  /\ Null \in CacheValue /\ Empty \in CacheValue
  /\ \A n \in Nat : Rows(n) \in CacheValue
  /\ NotCalling \in ReaderRecord
BY DEF Null, Empty, Rows, CacheValue, NotCalling, ReaderRecord

LEMMA InitType == Init => TypeOK
<1>1. Init => reader \in [Readers -> ReaderRecord] /\ cache \in CacheValue
  BY ConstantTypes DEF Init
<1>2. Init => load \in [Loads -> LoadRecord]
  BY DEF Init, LoadRecord
<1> QED
  BY <1>1, <1>2 DEF Init, TypeOK, NotCalling

\* startRefresh() hands out a refresh promise and keeps the promises typed.
LEMMA StartRefreshType ==
  ASSUME TypeOK, NEW f \in Loads, StartRefresh(f)
  PROVE  inFlight' \in Loads \cup {None} /\ load' \in [Loads -> LoadRecord]
BY DEF TypeOK, StartRefresh, LoadRecord

\* A call that moves on stays well typed.
LEMMA ReaderUpdateType ==
  ASSUME TypeOK, NEW r \in Readers, NEW l \in Loads \cup {None}, NEW v \in CacheValue,
         NEW pc \in {"idle", "waiting", "resumed", "retrying", "returned", "threw"}
  PROVE  /\ [reader EXCEPT ![r].pc = pc, ![r].load = l] \in [Readers -> ReaderRecord]
         /\ [reader EXCEPT ![r].pc = pc, ![r].value = v] \in [Readers -> ReaderRecord]
         /\ [reader EXCEPT ![r].pc = pc, ![r].load = l, ![r].value = v] \in [Readers -> ReaderRecord]
<1>1. reader[r] \in ReaderRecord
  BY DEF TypeOK
<1>2. [reader[r] EXCEPT !.pc = pc, !.load = l] \in ReaderRecord
  BY <1>1 DEF ReaderRecord
<1>3. [reader[r] EXCEPT !.pc = pc, !.value = v] \in ReaderRecord
  BY <1>1 DEF ReaderRecord
<1>4. [reader[r] EXCEPT !.pc = pc, !.load = l, !.value = v] \in ReaderRecord
  BY <1>1 DEF ReaderRecord
<1> QED
  BY <1>2, <1>3, <1>4 DEF TypeOK

LEMMA OutcomeType == ASSUME TypeOK, NEW f \in Loads PROVE Outcome(f) \in CacheValue
<1>1. load[f].data \in Nat
  BY DEF TypeOK, LoadRecord
<1> QED
  BY <1>1, ConstantTypes DEF TypeOK, Outcome

\* Every step keeps every variable well typed.
LEMMA NextType == TypeOK /\ [Next]_vars => TypeOK'
<1>1. SUFFICES ASSUME TypeOK, [Next]_vars PROVE TypeOK'
  OBVIOUS
<1> USE DEF cacheVars, dbVars
<1>2. CASE OperationCommits
  BY <1>1, <1>2 DEF OperationCommits, TypeOK
<1>3. CASE Invalidate
  BY <1>1, <1>3, ConstantTypes DEF Invalidate, TypeOK
<1>4. CASE OperationThrows
  BY <1>1, <1>4 DEF OperationThrows, TypeOK
<1>5. ASSUME NEW f \in Loads, LoadSelects(f) PROVE TypeOK'
  BY <1>1, <1>5 DEF LoadSelects, TypeOK, LoadRecord
<1>6. ASSUME NEW f \in Loads, LoadResolves(f) PROVE TypeOK'
  <2>1. load' \in [Loads -> LoadRecord]
    BY <1>1, <1>6 DEF LoadResolves, TypeOK, LoadRecord
  <2>2. Rows(load[f].data) \in CacheValue
    BY <1>1, ConstantTypes DEF TypeOK, LoadRecord
  <2> QED
    BY <1>1, <1>6, <2>1, <2>2 DEF LoadResolves, TypeOK
<1>7. ASSUME NEW f \in Loads, LoadFails(f) PROVE TypeOK'
  <2>1. load' \in [Loads -> LoadRecord]
    BY <1>1, <1>7 DEF LoadFails, TypeOK, LoadRecord
  <2>2. Fallback \in CacheValue
    BY <1>1, ConstantTypes DEF TypeOK, Fallback
  <2> QED
    BY <1>1, <1>7, <2>1, <2>2 DEF LoadFails, TypeOK
<1>8. ASSUME NEW f \in Loads, ClearInFlight(f) PROVE TypeOK'
  BY <1>1, <1>8 DEF ClearInFlight, TypeOK, LoadRecord
<1>9. ASSUME NEW r \in Readers, GetCached(r) PROVE TypeOK'
  <2>1. reader' \in [Readers -> ReaderRecord]
    BY <1>1, <1>9 DEF GetCached, TypeOK, ReaderRecord
  <2>2. \A q \in Readers : reader'[q].pc \in {"waiting", "retrying"} => reader'[q].load \in Loads
    BY <1>1, <1>9 DEF GetCached, TypeOK
  <2>3. inFlight' \in Loads \cup {None} /\ load' \in [Loads -> LoadRecord]
    BY <1>1, <1>9, StartRefreshType DEF GetCached, TypeOK
  <2> QED
    BY <1>1, <1>9, <2>1, <2>2, <2>3 DEF GetCached, TypeOK
<1>10. ASSUME NEW r \in Readers, GetCold(r) PROVE TypeOK'
  <2>1. reader' \in [Readers -> ReaderRecord]
    BY <1>1, <1>10, ConstantTypes DEF GetCold, TypeOK, ReaderRecord
  <2>2. \A q \in Readers : reader'[q].pc \in {"waiting", "retrying"} => reader'[q].load \in Loads
    BY <1>1, <1>10 DEF GetCold, TypeOK
  <2>3. inFlight' \in Loads \cup {None} /\ load' \in [Loads -> LoadRecord]
    BY <1>1, <1>10, StartRefreshType DEF GetCold, TypeOK
  <2> QED
    BY <1>1, <1>10, <2>1, <2>2, <2>3 DEF GetCold, TypeOK
<1>11. ASSUME NEW r \in Readers, Resume(r) PROVE TypeOK'
  <2>1. Outcome(reader[r].load) \in CacheValue
    BY <1>1, <1>11, OutcomeType DEF Resume, TypeOK
  <2>2. reader' \in [Readers -> ReaderRecord]
    BY <1>1, <1>11, <2>1, ReaderUpdateType DEF Resume
  <2> QED
    BY <1>1, <1>11, <2>2 DEF Resume, TypeOK
<1>12. ASSUME NEW r \in Readers, Retry(r) PROVE TypeOK'
  <2>1. reader' \in [Readers -> ReaderRecord]
    <3>1. PICK f \in Loads : reader' = [reader EXCEPT ![r].pc = "retrying", ![r].load = f]
      BY <1>12 DEF Retry
    <3> QED
      BY <1>1, <3>1, ReaderUpdateType, ConstantTypes
  <2>2. \A q \in Readers : reader'[q].pc \in {"waiting", "retrying"} => reader'[q].load \in Loads
    BY <1>1, <1>12 DEF Retry, TypeOK
  <2>3. inFlight' \in Loads \cup {None} /\ load' \in [Loads -> LoadRecord]
    BY <1>1, <1>12, StartRefreshType DEF Retry, TypeOK
  <2> QED
    BY <1>1, <1>12, <2>1, <2>2, <2>3 DEF Retry, TypeOK
<1>13. ASSUME NEW r \in Readers, Return(r) PROVE TypeOK'
  BY <1>1, <1>13 DEF Return, TypeOK, ReaderRecord
<1>14. ASSUME NEW r \in Readers, ReturnRetried(r) PROVE TypeOK'
  <2>1. Outcome(reader[r].load) \in CacheValue
    BY <1>1, <1>14, OutcomeType DEF ReturnRetried, TypeOK
  <2>2. reader' \in [Readers -> ReaderRecord]
    BY <1>1, <1>14, <2>1, ReaderUpdateType DEF ReturnRetried
  <2> QED
    BY <1>1, <1>14, <2>2 DEF ReturnRetried, TypeOK
<1>15. ASSUME NEW r \in Readers, CallerDone(r) PROVE TypeOK'
  BY <1>1, <1>15, ConstantTypes DEF CallerDone, TypeOK, NotCalling
<1>16. CASE TtlPasses
  BY <1>1, <1>16 DEF TtlPasses, TypeOK
<1>17. CASE BackoffEnds
  BY <1>1, <1>17 DEF BackoffEnds, TypeOK
<1>18. CASE UNCHANGED vars
  BY <1>1, <1>18 DEF vars, TypeOK
<1> QED
  BY <1>1, <1>2, <1>3, <1>4, <1>5, <1>6, <1>7, <1>8, <1>9, <1>10, <1>11, <1>12, <1>13,
     <1>14, <1>15, <1>16, <1>17, <1>18 DEF Next

\* Every variable keeps its type, in particular a caller that waits always
\* waits for a promise that exists.
THEOREM TypeCorrect == Spec => []TypeOK
BY InitType, NextType, PTL DEF Spec

-----------------------------------------------------------------------------
(* The inductive invariant *)

\* What a load can still do to the cache is decided by its version: loads of
\* an older version are inert, and the one unfinished load of the current
\* version is the one in flight, begun after the last invalidation.
LoadInv ==
  /\ announced <= db
  /\ \A f \in Loads :
       /\ load[f].version <= version
       /\ load[f].data <= db
       /\ Unsettled(f) /\ Current(f) => inFlight = f
       /\ Current(f) /\ load[f].state \in {"selected", "resolved"} => announced <= load[f].data
       /\ Current(f) /\ Settled(f) => cache.state # "none"
  /\ inFlight # None => Current(inFlight) /\ load[inFlight].state # "unused"

\* What the cache holds lies between the last invalidation and the table, and
\* behind whatever the current load has read.
CacheInv ==
  /\ ColdIsNeverBackedOff
  /\ cache.state = "loaded" => announced <= cache.data /\ cache.data <= db
  /\ \A f \in Loads :
       Current(f) /\ load[f].state = "selected" /\ cache.state = "loaded"
         => cache.data <= load[f].data

\* A call waits for a load no older than itself, so whatever it gets is recent
\* enough; each failed wait costs one invalidation.
CallerInv(caller) ==
  /\ caller.floor <= announced
  /\ caller.version <= version
  /\ caller.pc = "waiting" => load[caller.load].version = caller.version
  /\ caller.pc = "retrying" => caller.version < load[caller.load].version
  /\ caller.pc \in {"waiting", "retrying"} =>
       /\ load[caller.load].state # "unused"
       /\ load[caller.load].state \in {"selected", "resolved"} =>
            caller.floor <= load[caller.load].data
  /\ caller.pc = "resumed" /\ caller.value.state = "none" => caller.version < version
  /\ caller.pc \in {"resumed", "returned"} /\ caller.value.state = "loaded" =>
       caller.floor <= caller.value.data /\ caller.value.data <= db
  /\ caller.pc = "threw" => caller.version + 2 <= version

ReaderInv == \A r \in Readers : CallerInv(reader[r])

LEMMA InvInit == Init => LoadInv /\ CacheInv /\ ReaderInv
<1>1. Init => LoadInv
  BY DEF Init, LoadInv, Unsettled, Settled
<1>2. Init => CacheInv
  BY DEF Init, CacheInv, ColdIsNeverBackedOff, Null
<1>3. Init => ReaderInv
  <2>1. SUFFICES ASSUME Init, NEW r \in Readers PROVE CallerInv(reader[r])
    BY DEF ReaderInv
  <2>2. reader[r] = NotCalling /\ version = 0 /\ announced = 0
    BY <2>1 DEF Init
  <2> QED
    BY <2>2 DEF CallerInv, NotCalling
<1> QED
  BY <1>1, <1>2, <1>3

\* startRefresh() joins the load of the current version or, when there is
\* none, begins it; either way what is left of the other loads is inert.
LEMMA StartRefreshKeeps ==
  ASSUME TypeOK, LoadInv, CacheInv, NEW f \in Loads, StartRefresh(f),
         UNCHANGED <<dbVars, cache, version, refreshAllowed>>
  PROVE  /\ LoadInv' /\ CacheInv'
         /\ load'[f].version = version /\ load'[f].state # "unused"
         /\ load'[f].state \in {"selected", "resolved"} => announced <= load'[f].data
         /\ \A g \in Loads : load'[g] = load[g] \/ (g = f /\ Forgotten(f))
<1> USE DEF dbVars
<1>1. CASE inFlight # None
  BY <1>1, NoneAssumption DEF StartRefresh, TypeOK, LoadInv, CacheInv, ColdIsNeverBackedOff,
     Unsettled, Settled, Current
<1>2. CASE inFlight = None
  <2>1. /\ load' = [load EXCEPT ![f] = [state |-> "loading", cleanup |-> "due",
                                       version |-> version, data |-> 0]]
        /\ inFlight' = f /\ Forgotten(f)
    BY <1>2 DEF StartRefresh
  <2>2. /\ load'[f] = [state |-> "loading", cleanup |-> "due", version |-> version, data |-> 0]
        /\ \A g \in Loads \ {f} : load'[g] = load[g]
    BY <2>1 DEF TypeOK
  <2>3. LoadInv'
    BY <1>2, <2>1, <2>2, NoneAssumption DEF LoadInv, TypeOK, Unsettled, Settled, Current
  <2>4. CacheInv'
    BY <2>1, <2>2 DEF CacheInv, ColdIsNeverBackedOff, Current
  <2> QED
    BY <2>1, <2>2, <2>3, <2>4
<1> QED
  BY <1>1, <1>2

LEMMA LoadCacheNext == TypeOK /\ LoadInv /\ CacheInv /\ [Next]_vars => LoadInv' /\ CacheInv'
<1>1. SUFFICES ASSUME TypeOK, LoadInv, CacheInv, [Next]_vars PROVE LoadInv' /\ CacheInv'
  OBVIOUS
<1> USE DEF cacheVars, dbVars
<1>2. CASE OperationCommits
  BY <1>1, <1>2 DEF OperationCommits, LoadInv, CacheInv, ColdIsNeverBackedOff, TypeOK, LoadRecord,
     CacheValue, Unsettled, Settled, Current
<1>3. CASE Invalidate
  <2>1. \A f \in Loads : ~Current(f)'
    BY <1>1, <1>3 DEF Invalidate, LoadInv, TypeOK, LoadRecord, Current
  <2> QED
    BY <1>1, <1>3, <2>1 DEF Invalidate, LoadInv, CacheInv, ColdIsNeverBackedOff, TypeOK, LoadRecord,
       Null, Current
<1>4. CASE OperationThrows
  BY <1>1, <1>4 DEF OperationThrows, LoadInv, CacheInv, ColdIsNeverBackedOff, Unsettled, Settled, Current
<1>5. ASSUME NEW f \in Loads, LoadSelects(f) PROVE LoadInv' /\ CacheInv'
  BY <1>1, <1>5 DEF LoadSelects, LoadInv, CacheInv, ColdIsNeverBackedOff, TypeOK, LoadRecord,
     CacheValue, Unsettled, Settled, Current
<1>6. ASSUME NEW f \in Loads, LoadResolves(f) PROVE LoadInv' /\ CacheInv'
  BY <1>1, <1>6 DEF LoadResolves, LoadInv, CacheInv, ColdIsNeverBackedOff, TypeOK, LoadRecord,
     CacheValue, Rows, Unsettled, Settled, Current
<1>7. ASSUME NEW f \in Loads, LoadFails(f) PROVE LoadInv' /\ CacheInv'
  BY <1>1, <1>7 DEF LoadFails, LoadInv, CacheInv, ColdIsNeverBackedOff, TypeOK, LoadRecord,
     CacheValue, Fallback, Empty, Unsettled, Settled, Current
<1>8. ASSUME NEW f \in Loads, ClearInFlight(f) PROVE LoadInv' /\ CacheInv'
  BY <1>1, <1>8 DEF ClearInFlight, LoadInv, CacheInv, ColdIsNeverBackedOff, TypeOK, LoadRecord,
     Unsettled, Settled, Current
<1>9. ASSUME NEW r \in Readers, GetCached(r) PROVE LoadInv' /\ CacheInv'
  <2>1. CASE age = "expired" /\ refreshAllowed = "now"
    BY <1>1, <1>9, <2>1, StartRefreshKeeps DEF GetCached
  <2>2. CASE ~(age = "expired" /\ refreshAllowed = "now")
    BY <1>1, <1>9, <2>2 DEF GetCached, LoadInv, CacheInv, ColdIsNeverBackedOff, Unsettled, Settled, Current
  <2> QED
    BY <2>1, <2>2
<1>10. ASSUME NEW r \in Readers, GetCold(r) PROVE LoadInv' /\ CacheInv'
  BY <1>1, <1>10, StartRefreshKeeps DEF GetCold
<1>11. ASSUME NEW r \in Readers, Retry(r) PROVE LoadInv' /\ CacheInv'
  BY <1>1, <1>11, StartRefreshKeeps DEF Retry
<1>12. ASSUME UNCHANGED <<dbVars, cache, inFlight, version, load>>,
              refreshAllowed' = refreshAllowed \/ refreshAllowed' = "now"
       PROVE  LoadInv' /\ CacheInv'
  BY <1>1, <1>12 DEF LoadInv, CacheInv, ColdIsNeverBackedOff, Unsettled, Settled, Current
<1>13. ASSUME NEW r \in Readers, Resume(r) \/ Return(r) \/ ReturnRetried(r) \/ CallerDone(r)
       PROVE  LoadInv' /\ CacheInv'
  BY <1>12, <1>13 DEF Resume, Return, ReturnRetried, CallerDone
<1>14. CASE TtlPasses \/ BackoffEnds \/ UNCHANGED vars
  BY <1>12, <1>14 DEF TtlPasses, BackoffEnds, vars
<1> QED
  BY <1>1, <1>2, <1>3, <1>4, <1>5, <1>6, <1>7, <1>8, <1>9, <1>10, <1>11, <1>13, <1>14 DEF Next

\* A step of one call leaves the others what they know: it cannot reuse the
\* promise they wait for.
LEMMA OtherCallersKept ==
  ASSUME TypeOK, ReaderInv, NEW r \in Readers,
         UNCHANGED <<announced, version, db>>,
         \A q \in Readers \ {r} : reader'[q] = reader[q],
         \A g \in Loads : load'[g] = load[g] \/ Forgotten(g)
  PROVE  \A q \in Readers \ {r} : CallerInv(reader[q])'
<1>1. SUFFICES ASSUME NEW q \in Readers \ {r} PROVE CallerInv(reader[q])'
  OBVIOUS
<1>2. reader'[q] = reader[q] /\ CallerInv(reader[q])
  BY DEF ReaderInv
<1>3. CASE reader[q].pc \in {"waiting", "retrying"}
  <2>1. load'[reader[q].load] = load[reader[q].load]
    BY <1>3 DEF TypeOK, Forgotten, Awaits
  <2> QED
    BY <1>2, <2>1 DEF CallerInv
<1>4. CASE reader[q].pc \notin {"waiting", "retrying"}
  BY <1>2, <1>4 DEF CallerInv
<1> QED
  BY <1>3, <1>4

\* What awaitCachePromise yields is recent enough, and an error means that
\* the awaited load has been overtaken by an invalidation.
LEMMA OutcomeIsRecent ==
  ASSUME TypeOK, LoadInv, CacheInv, ReaderInv, NEW r \in Readers,
         reader[r].pc \in {"waiting", "retrying"}, Settled(reader[r].load)
  PROVE  LET outcome == Outcome(reader[r].load)
         IN /\ outcome.state = "loaded" => reader[r].floor <= outcome.data /\ outcome.data <= db
            /\ outcome.state = "none" => load[reader[r].load].version < version
<1> DEFINE f == reader[r].load
<1>1. f \in Loads /\ CallerInv(reader[r]) /\ reader[r].floor \in Nat /\ load[f] \in LoadRecord
  BY DEF TypeOK, ReaderRecord, ReaderInv
<1>2. CASE load[f].state = "resolved"
  BY <1>1, <1>2 DEF Outcome, Rows, CallerInv, LoadInv
<1>3. CASE load[f].state # "resolved"
  <2>1. Outcome(f) = cache
    BY <1>3 DEF Outcome
  <2>2. cache.state = "loaded" => reader[r].floor <= cache.data /\ cache.data <= db
    BY <1>1 DEF CallerInv, CacheInv, TypeOK, CacheValue
  <2>3. cache.state = "none" => load[f].version < version
    BY <1>1 DEF LoadInv, TypeOK, LoadRecord, Current
  <2> QED
    BY <2>1, <2>2, <2>3
<1> QED
  BY <1>2, <1>3

\* Every step keeps what each getCache() call knows.
LEMMA ReaderNext ==
  TypeOK /\ LoadInv /\ CacheInv /\ ReaderInv /\ [Next]_vars => ReaderInv'
<1>1. SUFFICES ASSUME TypeOK, LoadInv, CacheInv, ReaderInv, [Next]_vars PROVE ReaderInv'
  OBVIOUS
<1> USE DEF cacheVars, dbVars
<1>2. ASSUME reader' = reader, load' = load, announced <= announced', version <= version', db <= db',
             announced' \in Nat, version' \in Nat, db' \in Nat
      PROVE  ReaderInv'
  <2>1. SUFFICES ASSUME NEW r \in Readers PROVE CallerInv(reader[r])'
    BY DEF ReaderInv
  <2>2. reader[r] \in ReaderRecord /\ CallerInv(reader[r])
    BY <1>1 DEF TypeOK, ReaderInv
  <2> QED
    BY <1>1, <1>2, <2>2 DEF CallerInv, TypeOK, ReaderRecord, CacheValue
<1>3. ASSUME OperationCommits \/ Invalidate \/ OperationThrows PROVE ReaderInv'
  BY <1>1, <1>2, <1>3 DEF OperationCommits, Invalidate, OperationThrows, TypeOK, LoadInv
<1>4. CASE TtlPasses \/ BackoffEnds \/ UNCHANGED vars
  BY <1>1, <1>2, <1>4 DEF TtlPasses, BackoffEnds, vars, TypeOK
<1>5. ASSUME NEW f \in Loads, LoadSelects(f) PROVE ReaderInv'
  <2>1. SUFFICES ASSUME NEW r \in Readers PROVE CallerInv(reader[r])'
    BY DEF ReaderInv
  <2>2. reader[r] \in ReaderRecord /\ CallerInv(reader[r])
    BY <1>1 DEF TypeOK, ReaderInv
  <2> QED
    BY <1>1, <1>5, <2>2 DEF LoadSelects, CallerInv, LoadInv, TypeOK, ReaderRecord, LoadRecord
<1>6. ASSUME NEW f \in Loads, LoadResolves(f) \/ LoadFails(f) \/ ClearInFlight(f) PROVE ReaderInv'
  <2>1. SUFFICES ASSUME NEW r \in Readers PROVE CallerInv(reader[r])'
    BY DEF ReaderInv
  <2>2. reader[r] \in ReaderRecord /\ CallerInv(reader[r])
    BY <1>1 DEF TypeOK, ReaderInv
  <2> QED
    BY <1>1, <1>6, <2>2 DEF LoadResolves, LoadFails, ClearInFlight, CallerInv, TypeOK, LoadRecord,
       Unsettled
<1>7. ASSUME NEW r \in Readers,
             UNCHANGED <<announced, version, db>>,
             \A q \in Readers \ {r} : reader'[q] = reader[q],
             \A g \in Loads : load'[g] = load[g] \/ Forgotten(g),
             CallerInv(reader[r])'
      PROVE  ReaderInv'
  <2>1. \A q \in Readers \ {r} : CallerInv(reader[q])'
    BY <1>1, <1>7, OtherCallersKept
  <2> QED
    BY <1>7, <2>1 DEF ReaderInv
<1>8. ASSUME NEW r \in Readers, GetCached(r) PROVE ReaderInv'
  <2>1. reader'[r] = [pc |-> "returned", load |-> None, version |-> 0,
                      floor |-> announced, value |-> cache]
    BY <1>1, <1>8 DEF GetCached, TypeOK
  <2>2. CallerInv(reader[r])'
    BY <1>1, <1>8, <2>1 DEF GetCached, CallerInv, CacheInv, TypeOK
  <2>3. \A g \in Loads : load'[g] = load[g] \/ Forgotten(g)
    BY <1>1, <1>8, StartRefreshKeeps DEF GetCached
  <2> QED
    BY <1>1, <1>7, <1>8, <2>2, <2>3 DEF GetCached, TypeOK
<1>9. ASSUME NEW r \in Readers, GetCold(r) PROVE ReaderInv'
  <2>1. PICK f \in Loads :
          /\ StartRefresh(f)
          /\ reader' = [reader EXCEPT ![r] = [pc |-> "waiting", load |-> f,
                           version |-> version, floor |-> announced, value |-> Null]]
    BY <1>9 DEF GetCold
  <2>2. reader'[r] = [pc |-> "waiting", load |-> f, version |-> version,
                      floor |-> announced, value |-> Null]
    BY <1>1, <2>1 DEF TypeOK
  <2>3. /\ load'[f].version = version /\ load'[f].state # "unused"
        /\ load'[f].state \in {"selected", "resolved"} => announced <= load'[f].data
        /\ \A g \in Loads : load'[g] = load[g] \/ Forgotten(g)
    BY <1>1, <1>9, <2>1, StartRefreshKeeps DEF GetCold
  <2>4. CallerInv(reader[r])'
    BY <1>1, <1>9, <2>2, <2>3 DEF GetCold, CallerInv, TypeOK
  <2> QED
    BY <1>1, <1>7, <1>9, <2>1, <2>3, <2>4 DEF GetCold, TypeOK
<1>10. ASSUME NEW r \in Readers, Retry(r) PROVE ReaderInv'
  <2>1. PICK f \in Loads :
          /\ StartRefresh(f)
          /\ reader' = [reader EXCEPT ![r].pc = "retrying", ![r].load = f]
    BY <1>10 DEF Retry
  <2>2. reader'[r] = [reader[r] EXCEPT !.pc = "retrying", !.load = f]
    BY <1>1, <2>1 DEF TypeOK
  <2>3. /\ load'[f].version = version /\ load'[f].state # "unused"
        /\ load'[f].state \in {"selected", "resolved"} => announced <= load'[f].data
        /\ \A g \in Loads : load'[g] = load[g] \/ Forgotten(g)
    BY <1>1, <1>10, <2>1, StartRefreshKeeps DEF Retry
  <2>4. load'[f].data \in Nat /\ reader[r] \in ReaderRecord /\ CallerInv(reader[r])
    BY <1>1, <2>1, StartRefreshType DEF LoadRecord, TypeOK, ReaderInv
  <2>5. /\ reader'[r].pc = "retrying" /\ reader'[r].load = f
        /\ reader'[r].version = reader[r].version /\ reader'[r].floor = reader[r].floor
    BY <2>2, <2>4 DEF ReaderRecord
  <2>6. reader[r].version < version
    BY <1>1, <1>10, <2>4 DEF Retry, CallerInv, TypeOK, ReaderRecord
  <2>7. reader[r].floor <= announced /\ reader[r].floor \in Nat
    BY <2>4 DEF CallerInv, ReaderRecord
  <2>8. CallerInv(reader[r])'
    BY <1>1, <1>10, <2>3, <2>4, <2>5, <2>6, <2>7 DEF Retry, CallerInv, TypeOK
  <2> QED
    BY <1>1, <1>7, <1>10, <2>1, <2>3, <2>8 DEF Retry, TypeOK
<1>11. ASSUME NEW r \in Readers, Resume(r) PROVE ReaderInv'
  <2>1. reader'[r] = [reader[r] EXCEPT !.pc = "resumed", !.load = None,
                                       !.value = Outcome(reader[r].load)]
    BY <1>1, <1>11 DEF Resume, TypeOK
  <2>2. reader[r] \in ReaderRecord /\ CallerInv(reader[r])
    BY <1>1 DEF TypeOK, ReaderInv
  <2>3. CallerInv(reader[r])'
    <3> DEFINE outcome == Outcome(reader[r].load)
    <3>1. /\ outcome.state = "loaded" => reader[r].floor <= outcome.data /\ outcome.data <= db
          /\ outcome.state = "none" => reader[r].version < version
      BY <1>1, <1>11, <2>2, OutcomeIsRecent DEF Resume, CallerInv
    <3>2. /\ reader'[r].pc = "resumed" /\ reader'[r].value = outcome
          /\ reader'[r].version = reader[r].version /\ reader'[r].floor = reader[r].floor
      BY <2>1, <2>2 DEF ReaderRecord
    <3> HIDE DEF outcome
    <3> QED
      BY <1>11, <2>2, <3>1, <3>2 DEF Resume, CallerInv
  <2> QED
    BY <1>1, <1>7, <1>11, <2>3 DEF Resume, TypeOK
<1>12. ASSUME NEW r \in Readers, Return(r) PROVE ReaderInv'
  <2>1. reader[r] \in ReaderRecord /\ CallerInv(reader[r]) /\ reader[r].floor \in Nat
    BY <1>1 DEF TypeOK, ReaderInv, ReaderRecord
  <2>2. CASE reader[r].version = version
    <3>1. reader[r].value.state # "none"
      BY <1>1, <1>12, <2>1, <2>2 DEF Return, CallerInv, TypeOK
    <3>2. reader'[r] = [reader[r] EXCEPT !.pc = "returned"]
      BY <1>1, <1>12, <2>2, <3>1 DEF Return, TypeOK
    <3> QED
      BY <1>1, <1>7, <1>12, <2>1, <3>2 DEF Return, CallerInv, TypeOK, ReaderRecord
  <2>3. CASE reader[r].version # version
    <3>1. reader'[r] = [reader[r] EXCEPT !.pc = "returned", !.value = cache]
      BY <1>1, <1>12, <2>3 DEF Return, TypeOK
    <3>2. cache.state = "loaded" => reader[r].floor <= cache.data /\ cache.data <= db
      BY <1>1, <2>1 DEF CallerInv, CacheInv, TypeOK, CacheValue
    <3> QED
      BY <1>1, <1>7, <1>12, <2>1, <3>1, <3>2 DEF Return, CallerInv, TypeOK, ReaderRecord
  <2> QED
    BY <2>2, <2>3
<1>13. ASSUME NEW r \in Readers, ReturnRetried(r) PROVE ReaderInv'
  <2> DEFINE outcome == Outcome(reader[r].load)
  <2>1. reader'[r] = [reader[r] EXCEPT !.pc = IF outcome.state = "none" THEN "threw" ELSE "returned",
                                       !.load = None, !.value = outcome]
    BY <1>1, <1>13 DEF ReturnRetried, TypeOK
  <2>2. reader[r] \in ReaderRecord /\ CallerInv(reader[r]) /\ load[reader[r].load].version \in Nat
    BY <1>1, <1>13 DEF ReturnRetried, TypeOK, ReaderInv, LoadRecord
  <2>3. CallerInv(reader[r])'
    BY <1>1, <1>13, <2>1, <2>2, OutcomeIsRecent DEF ReturnRetried, CallerInv, ReaderRecord, TypeOK
  <2> QED
    BY <1>1, <1>7, <1>13, <2>3 DEF ReturnRetried, TypeOK
<1>14. ASSUME NEW r \in Readers, CallerDone(r) PROVE ReaderInv'
  <2>1. reader'[r] = NotCalling
    BY <1>1, <1>14 DEF CallerDone, TypeOK
  <2>2. CallerInv(reader[r])'
    BY <1>1, <1>14, <2>1 DEF CallerDone, CallerInv, NotCalling, TypeOK
  <2> QED
    BY <1>1, <1>7, <1>14, <2>2 DEF CallerDone, TypeOK
<1> QED
  BY <1>1, <1>3, <1>4, <1>5, <1>6, <1>8, <1>9, <1>10, <1>11, <1>12, <1>13, <1>14 DEF Next

CacheInvariant == TypeOK /\ LoadInv /\ CacheInv /\ ReaderInv

LEMMA InvInvariant == Spec => []CacheInvariant
<1>1. Init => CacheInvariant
  BY InitType, InvInit DEF CacheInvariant
<1>2. CacheInvariant /\ [Next]_vars => CacheInvariant'
  BY NextType, LoadCacheNext, ReaderNext DEF CacheInvariant
<1> QED
  BY <1>1, <1>2, PTL DEF Spec

-----------------------------------------------------------------------------
(* What follows from it *)

\* Read your writes, for any number of callers, overlapping refreshes and
\* writers: what getCache() returns is no older than the last invalidation
\* before the call.
THEOREM ReadIsFreshHolds == Spec => []ReadIsFresh
<1>1. CacheInvariant => ReadIsFresh
  BY DEF CacheInvariant, ReaderInv, CallerInv, ReadIsFresh
<1> QED
  BY <1>1, InvInvariant, PTL

\* At most one unfinished load belongs to the current version, however many
\* orphaned loads of older versions are still running.
THEOREM SingleFlightHolds == Spec => []SingleFlight
<1>1. CacheInvariant => SingleFlight
  BY DEF CacheInvariant, LoadInv, SingleFlight
<1> QED
  BY <1>1, InvInvariant, PTL

\* A cold load is never under the backoff window.
THEOREM ColdIsNeverBackedOffHolds == Spec => []ColdIsNeverBackedOff
BY InvInvariant, PTL DEF CacheInvariant, CacheInv

\* getCache() rejects only after two invalidations during the call.
THEOREM RejectsAfterTwoInvalidationsHolds == Spec => []RejectsAfterTwoInvalidations
<1>1. CacheInvariant => RejectsAfterTwoInvalidations
  BY DEF CacheInvariant, ReaderInv, CallerInv, RejectsAfterTwoInvalidations
<1> QED
  BY <1>1, InvInvariant, PTL

\* Installed rows are replaced only by rows at least as new, or dropped.
THEOREM NeverGoesBackHolds == Spec => NeverGoesBack
<1> USE DEF cacheVars, dbVars
<1> DEFINE Kept == cache.state = "loaded" =>
                     \/ cache'.state = "none"
                     \/ cache'.state = "loaded" /\ cache.data <= cache'.data
<1>1. CacheInvariant /\ [Next]_vars => [Kept]_vars
  <2>1. SUFFICES ASSUME CacheInvariant, Next PROVE Kept
    OBVIOUS
  <2>2. ASSUME cache' = cache PROVE Kept
    BY <2>1, <2>2 DEF CacheInvariant, TypeOK, CacheValue
  <2>3. CASE Invalidate
    BY <2>3 DEF Invalidate, Null
  <2>4. ASSUME NEW f \in Loads, LoadResolves(f) PROVE Kept
    BY <2>1, <2>2, <2>4 DEF LoadResolves, CacheInvariant, CacheInv, Rows
  <2>5. ASSUME NEW f \in Loads, LoadFails(f) PROVE Kept
    BY <2>1, <2>2, <2>5 DEF LoadFails, Fallback
  <2>6. ASSUME ~Invalidate,
               \A f \in Loads : ~LoadResolves(f) /\ ~LoadFails(f)
        PROVE  cache' = cache
    BY <2>1, <2>6 DEF Next, OperationCommits, OperationThrows, LoadSelects, ClearInFlight,
       GetCached, GetCold, Resume, Retry, Return, ReturnRetried, CallerDone, TtlPasses, BackoffEnds
  <2> QED
    BY <2>2, <2>3, <2>4, <2>5, <2>6
<1> QED
  BY <1>1, InvInvariant, PTL DEF Spec, NeverGoesBack
=============================================================================
