------------------------ MODULE RecallServing_proofs ------------------------
(***************************************************************************)
(* Proofs about RecallCache, RecallCounter and RecallServing for any       *)
(* number of calls, keys, mutators, points and slots of the channel, with  *)
(* and without faults and other writers of the points: of the cache and of *)
(* the counter by themselves, and of the server that wires them together,  *)
(* which is still the cache and the counter of their own specifications.   *)
(***************************************************************************)
EXTENDS MCRecallServing, TLAPS

------------------------------------------------------------------------------
(* The cache.                                                              *)

\* The pointers a call holds are to objects that exist, and an entry belongs
\* to a leader that has already answered, so its result no longer changes.
PtrInv ==
    /\ \A r \in Requests : rpc[r] \in {"lockEntry", "checkEntry", "hit"} =>
          ptr[r] \in Requests /\ rpc[ptr[r]] = "answered"
    /\ \A r \in Requests : rpc[r] = "wait" => ptr[r] \in Requests
    /\ \A k \in Keys : recalls[k] # None =>
          key[recalls[k]] = k /\ rpc[recalls[k]] = "answered"

\* A flight is in the map exactly while its leader works in the generation
\* that granted the lease.
LeaseInv ==
    /\ \A k \in Keys : inflight[k] # None =>
          /\ key[inflight[k]] = k
          /\ rpc[inflight[k]] \in {"search", "count"}
          /\ leaseGen[inflight[k]] = generation
    /\ \A r \in Requests : rpc[r] \in {"search", "count"} =>
          /\ leaseGen[r] <= generation
          /\ leaseGen[r] = generation => inflight[key[r]] = r

VersionInv ==
    /\ acked <= store
    /\ \A m \in Mutators : mver[m] <= store
    /\ \A r \in Requests : floor[r] <= acked

\* v reflects every write whose Invalidate has passed its critical section.
Covers(v) ==
    /\ acked <= v
    /\ v <= store
    /\ \A m \in Mutators : mpc[m] = "draining" => mver[m] <= v
    /\ (\A m \in Mutators : mpc[m] # "written") => v = store

CoverInv ==
    /\ \A k \in Keys : recalls[k] # None => Covers(result[recalls[k]])
    /\ \A r \in Requests :
          rpc[r] = "count" /\ leaseGen[r] = generation => Covers(result[r])

FloorInv ==
    /\ \A r \in Requests : rpc[r] = "hit" =>
          floor[r] <= result[ptr[r]] /\ result[ptr[r]] <= store
    /\ \A r \in Requests : rpc[r] \in {"count", "answered"} =>
          floor[r] <= result[r] /\ result[r] <= store

\* A call that looks at an entry holds its mutex, and an entry removed by an
\* Invalidate still in progress is never published again, so a hit on it can
\* only be one that the Invalidate has still to wait for.
DrainInv ==
    /\ \A r \in Requests :
          rpc[r] \in {"checkEntry", "hit"} => entryMu[ptr[r]] = r
    /\ \A m \in Mutators : mpc[m] = "draining" =>
          \A e \in entries[m] :
              rpc[e] = "answered" /\ (\A k \in Keys : recalls[k] # e)
    /\ \A m \in Mutators, r \in Requests :
          mpc[m] = "draining" /\ rpc[r] = "hit" /\ ptr[r] \in entries[m]
              => ptr[r] \in left[m]

\* The inductive invariant.
IInv ==
    /\ TypeOK
    /\ PtrInv
    /\ LeaseInv
    /\ VersionInv
    /\ CoverInv
    /\ FloorInv
    /\ SingleFlight
    /\ NoOrphanWaiter
    /\ DrainInv

------------------------------------------------------------------------------
(* Init and every action establish or preserve the invariant. *)

LEMMA InitInv == Init => IInv
BY NoneAssumption
   DEF Init, IInv, TypeOK, RequestStates, PtrInv, LeaseInv, VersionInv,
       CoverInv, Covers, FloorInv, SingleFlight, NoOrphanWaiter, DrainInv

LEMMA BeginStep ==
  ASSUME IInv, NEW r \in Requests, Begin(r)
  PROVE  IInv'
BY NoneAssumption
   DEF Begin, cacheVars, mutatorVars, Goto, storeVars,
       IInv, TypeOK, RequestStates, PtrInv, LeaseInv, VersionInv,
       CoverInv, Covers, FloorInv, SingleFlight, NoOrphanWaiter, DrainInv

LEMMA LookupStep ==
  ASSUME IInv, NEW r \in Requests, Lookup(r)
  PROVE  IInv'
<1> USE NoneAssumption
    DEF Lookup, mutatorVars, Goto, Leave, storeVars,
        TypeOK, RequestStates
<1>1. TypeOK'
  BY DEF IInv, PtrInv
<1>2. PtrInv'
  BY DEF IInv, PtrInv, LeaseInv
<1>3. LeaseInv'
  BY DEF IInv, LeaseInv
<1>4. VersionInv'
  BY DEF IInv, VersionInv
<1>5. CoverInv'
  BY DEF IInv, PtrInv, LeaseInv, VersionInv, CoverInv, Covers
<1>6. FloorInv'
  BY DEF IInv, PtrInv, VersionInv, CoverInv, Covers, FloorInv
<1>7. SingleFlight'
  BY DEF IInv, LeaseInv, SingleFlight
<1>8. NoOrphanWaiter'
  BY DEF IInv, PtrInv, LeaseInv, NoOrphanWaiter
<1>9. DrainInv'
  BY DEF IInv, PtrInv, DrainInv
<1>10. QED
  BY <1>1, <1>2, <1>3, <1>4, <1>5, <1>6, <1>7, <1>8, <1>9 DEF IInv

LEMMA LockEntryStep ==
  ASSUME IInv, NEW r \in Requests, LockEntry(r)
  PROVE  IInv'
BY NoneAssumption
   DEF LockEntry, cacheVars, mutatorVars, Goto, storeVars,
       IInv, TypeOK, RequestStates, PtrInv, LeaseInv, VersionInv,
       CoverInv, Covers, FloorInv, SingleFlight, NoOrphanWaiter, DrainInv

LEMMA CheckEntryStep ==
  ASSUME IInv, NEW r \in Requests, CheckEntry(r)
  PROVE  IInv'
<1> USE NoneAssumption
    DEF CheckEntry, EntryIsCurrent, mutatorVars, Goto, Leave, storeVars,
        TypeOK, RequestStates
<1>1. TypeOK'
  BY DEF IInv, PtrInv
<1>2. PtrInv'
  BY DEF IInv, PtrInv, LeaseInv
<1>3. LeaseInv'
  BY DEF IInv, LeaseInv
<1>4. VersionInv'
  BY DEF IInv, VersionInv
<1>5. CoverInv'
  BY DEF IInv, PtrInv, LeaseInv, VersionInv, CoverInv, Covers
<1>6. FloorInv'
  BY DEF IInv, PtrInv, VersionInv, CoverInv, Covers, FloorInv
<1>7. SingleFlight'
  BY DEF IInv, LeaseInv, SingleFlight
<1>8. NoOrphanWaiter'
  BY DEF IInv, PtrInv, LeaseInv, NoOrphanWaiter
<1>9. DrainInv'
  BY DEF IInv, PtrInv, DrainInv
<1>10. QED
  BY <1>1, <1>2, <1>3, <1>4, <1>5, <1>6, <1>7, <1>8, <1>9 DEF IInv

LEMMA HitReturnStep ==
  ASSUME IInv, NEW r \in Requests, HitReturn(r)
  PROVE  IInv'
<1> USE NoneAssumption
    DEF HitReturn, cacheVars, mutatorVars, Goto, Leave, storeVars,
        TypeOK, RequestStates
<1>1. TypeOK'
  BY DEF IInv, PtrInv
<1>2. PtrInv'
  BY DEF IInv, PtrInv, LeaseInv
<1>3. LeaseInv'
  BY DEF IInv, LeaseInv
<1>4. VersionInv'
  BY DEF IInv, VersionInv
<1>5. CoverInv'
  BY DEF IInv, PtrInv, LeaseInv, VersionInv, CoverInv, Covers
<1>6. FloorInv'
  BY DEF IInv, PtrInv, VersionInv, CoverInv, Covers, FloorInv
<1>7. SingleFlight'
  BY DEF IInv, LeaseInv, SingleFlight
<1>8. NoOrphanWaiter'
  BY DEF IInv, PtrInv, LeaseInv, NoOrphanWaiter
<1>9. DrainInv'
  BY DEF IInv, PtrInv, DrainInv
<1>10. QED
  BY <1>1, <1>2, <1>3, <1>4, <1>5, <1>6, <1>7, <1>8, <1>9 DEF IInv

LEMMA HitFailStep ==
  ASSUME IInv, NEW r \in Requests, HitFail(r)
  PROVE  IInv'
BY NoneAssumption
   DEF HitFail, cacheVars, mutatorVars, Goto, Leave, storeVars,
       IInv, TypeOK, RequestStates, PtrInv, LeaseInv, VersionInv,
       CoverInv, Covers, FloorInv, SingleFlight, NoOrphanWaiter, DrainInv

LEMMA WakeStep ==
  ASSUME IInv, NEW r \in Requests, Wake(r)
  PROVE  IInv'
BY NoneAssumption
   DEF Wake, cacheVars, mutatorVars, Goto, Leave, storeVars,
       IInv, TypeOK, RequestStates, PtrInv, LeaseInv, VersionInv,
       CoverInv, Covers, FloorInv, SingleFlight, NoOrphanWaiter, DrainInv

LEMMA CancelWaitStep ==
  ASSUME IInv, NEW r \in Requests, CancelWait(r)
  PROVE  IInv'
BY NoneAssumption
   DEF CancelWait, cacheVars, mutatorVars, Goto, Leave, storeVars,
       IInv, TypeOK, RequestStates, PtrInv, LeaseInv, VersionInv,
       CoverInv, Covers, FloorInv, SingleFlight, NoOrphanWaiter, DrainInv

LEMMA SearchStep ==
  ASSUME IInv, NEW r \in Requests, Search(r)
  PROVE  IInv'
<1> USE NoneAssumption
    DEF Search, cacheVars, mutatorVars, Goto, storeVars,
        TypeOK, RequestStates
<1>1. TypeOK'
  BY DEF IInv, PtrInv
<1>2. PtrInv'
  BY DEF IInv, PtrInv, LeaseInv
<1>3. LeaseInv'
  BY DEF IInv, LeaseInv
<1>4. VersionInv'
  BY DEF IInv, VersionInv
<1>5. CoverInv'
  BY DEF IInv, PtrInv, LeaseInv, VersionInv, CoverInv, Covers
<1>6. FloorInv'
  BY DEF IInv, PtrInv, VersionInv, CoverInv, Covers, FloorInv
<1>7. SingleFlight'
  BY DEF IInv, LeaseInv, SingleFlight
<1>8. NoOrphanWaiter'
  BY DEF IInv, PtrInv, LeaseInv, NoOrphanWaiter
<1>9. DrainInv'
  BY DEF IInv, PtrInv, DrainInv
<1>10. QED
  BY <1>1, <1>2, <1>3, <1>4, <1>5, <1>6, <1>7, <1>8, <1>9 DEF IInv

LEMMA PublishStep ==
  ASSUME IInv, NEW r \in Requests, Publish(r)
  PROVE  IInv'
<1> USE NoneAssumption
    DEF Publish, ReleaseLease, MayPublish, HoldsLease, mutatorVars, Goto, storeVars,
        TypeOK, RequestStates
<1>1. TypeOK'
  BY DEF IInv, PtrInv
<1>2. PtrInv'
  BY DEF IInv, PtrInv, LeaseInv
<1>3. LeaseInv'
  BY DEF IInv, LeaseInv
<1>4. VersionInv'
  BY DEF IInv, VersionInv
<1>5. CoverInv'
  BY DEF IInv, PtrInv, LeaseInv, VersionInv, CoverInv, Covers
<1>6. FloorInv'
  BY DEF IInv, PtrInv, VersionInv, CoverInv, Covers, FloorInv
<1>7. SingleFlight'
  BY DEF IInv, LeaseInv, SingleFlight
<1>8. NoOrphanWaiter'
  BY DEF IInv, PtrInv, LeaseInv, NoOrphanWaiter
<1>9. DrainInv'
  BY DEF IInv, PtrInv, DrainInv
<1>10. QED
  BY <1>1, <1>2, <1>3, <1>4, <1>5, <1>6, <1>7, <1>8, <1>9 DEF IInv

LEMMA AbortStep ==
  ASSUME IInv, NEW r \in Requests, Abort(r)
  PROVE  IInv'
<1> USE NoneAssumption
    DEF Abort, ReleaseLease, HoldsLease, mutatorVars, Goto, storeVars,
        TypeOK, RequestStates
<1>1. TypeOK'
  BY DEF IInv, PtrInv
<1>2. PtrInv'
  BY DEF IInv, PtrInv, LeaseInv
<1>3. LeaseInv'
  BY DEF IInv, LeaseInv
<1>4. VersionInv'
  BY DEF IInv, VersionInv
<1>5. CoverInv'
  BY DEF IInv, PtrInv, LeaseInv, VersionInv, CoverInv, Covers
<1>6. FloorInv'
  BY DEF IInv, PtrInv, VersionInv, CoverInv, Covers, FloorInv
<1>7. SingleFlight'
  BY DEF IInv, LeaseInv, SingleFlight
<1>8. NoOrphanWaiter'
  BY DEF IInv, PtrInv, LeaseInv, NoOrphanWaiter
<1>9. DrainInv'
  BY DEF IInv, PtrInv, DrainInv
<1>10. QED
  BY <1>1, <1>2, <1>3, <1>4, <1>5, <1>6, <1>7, <1>8, <1>9 DEF IInv

LEMMA DispatchStep ==
  ASSUME IInv, NEW m \in Mutators, Dispatch(m)
  PROVE  IInv'
BY NoneAssumption
   DEF Dispatch, cacheVars, requestVars,
       IInv, TypeOK, RequestStates, PtrInv, LeaseInv, VersionInv,
       CoverInv, Covers, FloorInv, SingleFlight, NoOrphanWaiter, DrainInv

LEMMA InvalidateStep ==
  ASSUME IInv, NEW m \in Mutators, Invalidate(m)
  PROVE  IInv'
<1> USE NoneAssumption
    DEF Invalidate, Published, Flying, requestVars, storeVars,
        TypeOK, RequestStates
<1>1. TypeOK'
  BY DEF IInv, PtrInv
<1>2. PtrInv'
  BY DEF IInv, PtrInv, LeaseInv
<1>3. LeaseInv'
  BY DEF IInv, LeaseInv
<1>4. VersionInv'
  BY DEF IInv, VersionInv
<1>5. CoverInv'
  BY DEF IInv, PtrInv, LeaseInv, VersionInv, CoverInv, Covers
<1>6. FloorInv'
  BY DEF IInv, PtrInv, VersionInv, CoverInv, Covers, FloorInv
<1>7. SingleFlight'
  BY DEF IInv, LeaseInv, SingleFlight
<1>8. NoOrphanWaiter'
  BY DEF IInv, PtrInv, LeaseInv, NoOrphanWaiter
<1>9. DrainInv'
  BY DEF IInv, PtrInv, DrainInv
<1>10. QED
  BY <1>1, <1>2, <1>3, <1>4, <1>5, <1>6, <1>7, <1>8, <1>9 DEF IInv

LEMMA AwaitEntryStep ==
  ASSUME IInv, NEW m \in Mutators, AwaitEntry(m)
  PROVE  IInv'
BY NoneAssumption
   DEF AwaitEntry, cacheVars, requestVars, storeVars,
       IInv, TypeOK, RequestStates, PtrInv, LeaseInv, VersionInv,
       CoverInv, Covers, FloorInv, SingleFlight, NoOrphanWaiter, DrainInv

LEMMA ReturnStep ==
  ASSUME IInv, NEW m \in Mutators, Return(m)
  PROVE  IInv'
BY NoneAssumption
   DEF Return, cacheVars, requestVars,
       IInv, TypeOK, RequestStates, PtrInv, LeaseInv, VersionInv,
       CoverInv, Covers, FloorInv, SingleFlight, NoOrphanWaiter, DrainInv

LEMMA Invariance == Spec => []IInv
<1>1. IInv /\ [Next]_vars => IInv'
  <2> SUFFICES ASSUME IInv, [Next]_vars PROVE IInv'
    OBVIOUS
  <2>1. ASSUME NEW r \in Requests, Begin(r) PROVE IInv'
    BY <2>1, BeginStep
  <2>2. ASSUME NEW r \in Requests, Lookup(r) PROVE IInv'
    BY <2>2, LookupStep
  <2>3. ASSUME NEW r \in Requests, LockEntry(r) PROVE IInv'
    BY <2>3, LockEntryStep
  <2>4. ASSUME NEW r \in Requests, CheckEntry(r) PROVE IInv'
    BY <2>4, CheckEntryStep
  <2>5. ASSUME NEW r \in Requests, HitReturn(r) PROVE IInv'
    BY <2>5, HitReturnStep
  <2>6. ASSUME NEW r \in Requests, HitFail(r) PROVE IInv'
    BY <2>6, HitFailStep
  <2>7. ASSUME NEW r \in Requests, Wake(r) PROVE IInv'
    BY <2>7, WakeStep
  <2>8. ASSUME NEW r \in Requests, CancelWait(r) PROVE IInv'
    BY <2>8, CancelWaitStep
  <2>9. ASSUME NEW r \in Requests, Search(r) PROVE IInv'
    BY <2>9, SearchStep
  <2>10. ASSUME NEW r \in Requests, Publish(r) PROVE IInv'
    BY <2>10, PublishStep
  <2>11. ASSUME NEW r \in Requests, Abort(r) PROVE IInv'
    BY <2>11, AbortStep
  <2>12. ASSUME NEW m \in Mutators, Dispatch(m) PROVE IInv'
    BY <2>12, DispatchStep
  <2>13. ASSUME NEW m \in Mutators, Invalidate(m) PROVE IInv'
    BY <2>13, InvalidateStep
  <2>14. ASSUME NEW m \in Mutators, AwaitEntry(m) PROVE IInv'
    BY <2>14, AwaitEntryStep
  <2>15. ASSUME NEW m \in Mutators, Return(m) PROVE IInv'
    BY <2>15, ReturnStep
  <2>16. CASE UNCHANGED vars
    BY <2>16 DEF vars, IInv, TypeOK, PtrInv, LeaseInv, VersionInv, CoverInv,
                 Covers, FloorInv, SingleFlight, NoOrphanWaiter, DrainInv
  <2>17. QED
    BY <2>1, <2>2, <2>3, <2>4, <2>5, <2>6, <2>7, <2>8, <2>9, <2>10, <2>11,
       <2>12, <2>13, <2>14, <2>15, <2>16
       DEF Next, RequestStep, MutatorStep
<1>2. QED
  BY InitInv, <1>1, PTL DEF Spec

------------------------------------------------------------------------------
(* The theorems. *)

\* Every variable keeps its type: in particular a hit never reads a result
\* through a nil entry.
THEOREM TypeCorrect == Spec => []TypeOK
<1>1. IInv => TypeOK
  BY DEF IInv
<1>2. QED
  BY <1>1, Invariance, PTL

\* A published entry differs from the store only while some handler still has
\* to invalidate.
THEOREM CacheNeverStale == Spec => []NeverStaleCache
<1>1. IInv => NeverStaleCache
  BY DEF IInv, CoverInv, Covers, NeverStaleCache
<1>2. QED
  BY <1>1, Invariance, PTL

\* A recall that began after a mutation was acknowledged reflects it.
THEOREM AnswersFresh == Spec => []AnswersReflectAcknowledged
<1>1. IInv => AnswersReflectAcknowledged
  BY DEF IInv, TypeOK, FloorInv, AnswersReflectAcknowledged
<1>2. QED
  BY <1>1, Invariance, PTL

\* Two leaders never populate one key in the same generation.
THEOREM SingleFlightPerGeneration == Spec => []SingleFlight
<1>1. IInv => SingleFlight
  BY DEF IInv
<1>2. QED
  BY <1>1, Invariance, PTL

\* No follower waits for a flight that nobody will ever finish.
THEOREM NoLostWakeUp == Spec => []NoOrphanWaiter
<1>1. IInv => NoOrphanWaiter
  BY DEF IInv
<1>2. QED
  BY <1>1, Invariance, PTL

\* Invalidate returns only when no hit is being served from an entry it
\* removed.
THEOREM DrainedOnReturn == Spec => RemovedEntriesDrained
<1> DEFINE Drained ==
      \A m \in Mutators, r \in Requests :
          mpc[m] = "draining" /\ mpc'[m] = "idle" /\ rpc[r] = "hit"
              => ptr[r] \notin entries[m]
<1>1. IInv /\ [Next]_vars => [Drained]_vars
  <2> SUFFICES ASSUME IInv, Next,
                      NEW m \in Mutators, NEW r \in Requests,
                      mpc[m] = "draining", mpc'[m] = "idle", rpc[r] = "hit"
               PROVE  ptr[r] \notin entries[m]
    OBVIOUS
  <2>1. left[m] = {}
    <3>1. Return(m)
      BY DEF IInv, TypeOK, Next, RequestStep, MutatorStep, mutatorVars,
             Begin, Lookup, LockEntry, CheckEntry, HitReturn, HitFail, Wake,
             CancelWait, Search, Publish, Abort, Dispatch, Invalidate,
             AwaitEntry, Return
    <3>2. QED
      BY <3>1 DEF Return
  <2>2. QED
    BY <2>1 DEF IInv, DrainInv
<1>2. QED
  BY <1>1, Invariance, PTL DEF Spec, RemovedEntriesDrained

\* Every behaviour of the cache is, for its clients, one in which answers
\* are chosen freely among the store states not older than what had been
\* acknowledged when the call began.
THEOREM RefinesFreshness == Spec => ImplementsFreshness
<1>1. Init => Freshness!Init
  BY DEF Init, Freshness!Init, Phase
<1>2. IInv /\ [Next]_vars => [Freshness!Next]_Freshness!vars
  <2> SUFFICES ASSUME IInv, [Next]_vars
               PROVE  [Freshness!Next]_Freshness!vars
    OBVIOUS
  <2> USE DEF IInv, TypeOK, Freshness!vars, Phase
  <2>1. ASSUME NEW r \in Requests, Begin(r) PROVE Freshness!Open(r)
    BY <2>1 DEF Begin, Goto, Freshness!Open, storeVars
  <2>2. ASSUME NEW r \in Requests, HitReturn(r) PROVE Freshness!Answer(r)
    <3> DEFINE v == result[ptr[r]]
               old == [q \in Requests |->
                          IF rpc[q] = "answered" THEN result[q] ELSE 0]
    <3>1. v \in floor[r] .. store
      BY <2>2 DEF HitReturn, PtrInv, FloorInv
    <3>2. [q \in Requests |-> IF rpc[q] = "answered" THEN result[q] ELSE 0]'
              = [old EXCEPT ![r] = v]
      BY <2>2 DEF HitReturn, Goto, Leave, PtrInv
    <3>3. QED
      BY <2>2, <3>1, <3>2 DEF HitReturn, Goto, Leave, Freshness!Answer,
                              storeVars
  <2>3. ASSUME NEW r \in Requests, Publish(r) PROVE Freshness!Answer(r)
    <3> DEFINE v == result[r]
               old == [q \in Requests |->
                          IF rpc[q] = "answered" THEN result[q] ELSE 0]
    <3>1. v \in floor[r] .. store
      BY <2>3 DEF Publish, FloorInv
    <3>2. [q \in Requests |-> IF rpc[q] = "answered" THEN result[q] ELSE 0]'
              = [old EXCEPT ![r] = v]
      BY <2>3 DEF Publish, Goto
    <3>3. QED
      BY <2>3, <3>1, <3>2 DEF Publish, Goto, Freshness!Answer, storeVars
  <2>4. ASSUME NEW r \in Requests, HitFail(r) \/ CancelWait(r) \/ Abort(r)
        PROVE  Freshness!Fail(r)
    BY <2>4 DEF HitFail, CancelWait, Abort, Goto, Leave, Freshness!Fail,
                storeVars
  <2>5. ASSUME NEW r \in Requests,
               \/ Lookup(r)
               \/ LockEntry(r)
               \/ CheckEntry(r)
               \/ Wake(r)
               \/ Search(r)
        PROVE  UNCHANGED Freshness!vars
    BY <2>5 DEF Lookup, LockEntry, CheckEntry, Wake, Search, Goto, Leave,
                storeVars
  <2>6. ASSUME NEW m \in Mutators, Dispatch(m)
        PROVE  Freshness!Write \/ UNCHANGED Freshness!vars
    BY <2>6 DEF Dispatch, requestVars, Freshness!Write
  <2>7. ASSUME NEW m \in Mutators, Return(m) PROVE Freshness!Acknowledge
    BY <2>7 DEF Return, requestVars, VersionInv, Freshness!Acknowledge
  <2>8. ASSUME NEW m \in Mutators, Invalidate(m) \/ AwaitEntry(m)
        PROVE  UNCHANGED Freshness!vars
    BY <2>8 DEF Invalidate, AwaitEntry, requestVars, storeVars
  <2>9. CASE UNCHANGED vars
    BY <2>9 DEF vars
  <2>10. QED
    BY <2>1, <2>2, <2>3, <2>4, <2>5, <2>6, <2>7, <2>8, <2>9
       DEF Next, RequestStep, MutatorStep, Freshness!Next
<1>3. QED
  BY <1>1, <1>2, Invariance, PTL DEF Spec, ImplementsFreshness, Freshness!Spec

------------------------------------------------------------------------------
(* The counter. *)

\* What is assumed of the counter's constants.
LEMMA CounterConstants ==
    QueueSize \in Nat \ {0} /\ Faults \in BOOLEAN /\ Rewrites \in BOOLEAN
  BY ServingAssumption DEF Counter!CounterAssumption

\* The calls in the channel.
Queued == {queue[i] : i \in 1 .. Len(queue)}

\* Call r is part of a count: stored, read by the worker or by an update.
CountedIn(r, f) ==
    \/ stored[f] # None /\ r \in stored[f]
    \/ rewriting[f] # None /\ r \in rewriting[f]

\* A call is in the channel once; whoever waits there, is pending or counted
\* has been accepted.
AcceptedInv ==
    /\ \A i, j \in 1 .. Len(queue) : queue[i] = queue[j] => i = j
    /\ \A r \in Queued : epc[r] = "sent"
    /\ \A r \in Requests, f \in Facts :
          r \in pending[f] \/ CountedIn(r, f) => epc[r] = "sent"
    /\ \A r \in seen : epc[r] = "sent"

\* The channel, the pending increments and the counts exclude each other.
OnceInv ==
    /\ \A r \in Queued, f \in Facts : r \notin pending[f] /\ ~CountedIn(r, f)
    /\ \A r \in Requests, f \in Facts : r \in pending[f] => ~CountedIn(r, f)
    /\ seen \cap Queued = {}
    /\ wpc = "set" => seen \cap pending[current] = {}

\* The phases of the worker and of stop.  Once nobody is admitted nobody will
\* be, so that the channel which the worker has emptied stays empty.
PhaseInv ==
    /\ wpc \in {"set", "invalidate"} => current \in Facts
    /\ spc # "running" => ~accepting
    /\ cancelled => spc # "running" /\ \A r \in Requests : epc[r] # "admitted"
    /\ wpc = "drain" => cancelled
    /\ final => cancelled /\ queue = <<>>
    /\ wpc = "done" => final
    /\ wpc \in {"select", "drain"} => ~final

\* The inductive invariant.
CounterInv == Counter!TypeOK /\ AcceptedInv /\ OnceInv /\ PhaseInv

LEMMA QueueFacts ==
  ASSUME Counter!TypeOK
  PROVE  Queued \subseteq Requests /\ Len(queue) \in Nat
BY DEF Counter!TypeOK, Queued

------------------------------------------------------------------------------
(* Init and every action establish or preserve the invariant. *)

LEMMA CounterInitInv == Counter!Init => CounterInv
<1> SUFFICES ASSUME Counter!Init PROVE CounterInv
  OBVIOUS
<1>1. Counter!TypeOK
  <2>1. queue \in Seq(Requests) /\ Len(queue) <= QueueSize
    BY CounterConstants DEF Counter!Init
  <2>2. batch \in [Requests -> SUBSET Facts]
    BY DEF Counter!Init
  <2>3. /\ pending \in [Facts -> Counter!Count] /\ stored \in [Facts -> Counter!Count \cup {None}]
        /\ rewriting \in [Facts -> Counter!Count \cup {None}] /\ seen \in Counter!Count
    BY DEF Counter!Init, Counter!Count
  <2>4. QED
    BY <2>1, <2>2, <2>3 DEF Counter!Init, Counter!TypeOK
<1>2. Queued = {}
  BY DEF Counter!Init, Queued
<1>3. AcceptedInv /\ OnceInv /\ PhaseInv
  BY <1>2 DEF Counter!Init, AcceptedInv, OnceInv, PhaseInv, CountedIn
<1>4. QED
  BY <1>1, <1>3 DEF CounterInv

\* A call is admitted, refused, or gives up: nothing else changes.
LEMMA SenderDecides ==
  ASSUME CounterInv, NEW r \in Requests, NEW s \in {"admitted", "refused"},
         epc' = [epc EXCEPT ![r] = s], epc[r] \in {"idle", "admitted"},
         s = "admitted" => accepting,
         UNCHANGED <<batch, queue, Counter!workerVars, Counter!stopVars, Counter!storeVars>>
  PROVE  CounterInv'
<1> USE DEF Counter!workerVars, Counter!stopVars, Counter!storeVars
<1>1. Counter!TypeOK'
  BY DEF CounterInv, Counter!TypeOK
<1>2. Queued' = Queued /\ \A x \in Requests, f \in Facts : CountedIn(x, f)' <=> CountedIn(x, f)
  BY DEF Queued, CountedIn
<1>3. \A x \in Requests : epc[x] = "sent" => epc'[x] = "sent"
  <2>1. epc \in [Requests -> {"idle", "admitted", "sent", "refused"}]
    BY DEF CounterInv, Counter!TypeOK
  <2>2. QED
    BY <2>1
<1>4. AcceptedInv'
  BY <1>2, <1>3, QueueFacts DEF CounterInv, Counter!TypeOK, AcceptedInv, Counter!Count
<1>5. OnceInv'
  BY <1>2, QueueFacts DEF CounterInv, OnceInv
<1>6. PhaseInv'
  BY DEF CounterInv, Counter!TypeOK, PhaseInv
<1>7. QED
  BY <1>1, <1>4, <1>5, <1>6 DEF CounterInv

LEMMA SendStep ==
  ASSUME CounterInv, NEW r \in Requests, Counter!Send(r)
  PROVE  CounterInv'
<1>1. /\ epc[r] = "admitted" /\ Len(queue) < QueueSize
      /\ queue' = Append(queue, r) /\ epc' = [epc EXCEPT ![r] = "sent"]
      /\ UNCHANGED <<batch, Counter!workerVars, Counter!stopVars, Counter!storeVars>>
  BY DEF Counter!Send
<1> USE DEF Counter!workerVars, Counter!stopVars, Counter!storeVars
<1>2. queue \in Seq(Requests) /\ Len(queue) \in Nat
  BY DEF CounterInv, Counter!TypeOK
<1>3. /\ Len(queue') = Len(queue) + 1
      /\ \A i \in 1 .. Len(queue) : queue'[i] = queue[i]
      /\ queue'[Len(queue) + 1] = r
  BY <1>1, <1>2
<1>4. Queued' = Queued \cup {r}
  BY <1>2, <1>3 DEF Queued
<1>5. /\ r \notin Queued /\ r \notin seen
      /\ \A f \in Facts : r \notin pending[f] /\ ~CountedIn(r, f)
  BY <1>1 DEF CounterInv, AcceptedInv
<1>6. Counter!TypeOK'
  BY <1>1, <1>2, <1>3, CounterConstants DEF CounterInv, Counter!TypeOK
<1>7. \A x \in Requests, f \in Facts : CountedIn(x, f)' <=> CountedIn(x, f)
  BY <1>1 DEF CountedIn
<1>8. \A x \in Requests : epc[x] = "sent" \/ x = r => epc'[x] = "sent"
  BY <1>1 DEF CounterInv, Counter!TypeOK
<1>9. AcceptedInv'
  <2>1. \A i, j \in 1 .. Len(queue') : queue'[i] = queue'[j] => i = j
    <3>1. \A i \in 1 .. Len(queue) : queue'[i] # r
      BY <1>3, <1>5 DEF Queued
    <3>2. QED
      BY <1>2, <1>3, <3>1 DEF CounterInv, AcceptedInv
  <2>2. \A x \in Queued' : epc'[x] = "sent"
    BY <1>4, <1>8, QueueFacts DEF CounterInv, AcceptedInv
  <2>3. QED
    BY <1>1, <1>7, <1>8, <2>1, <2>2 DEF CounterInv, Counter!TypeOK, AcceptedInv, Counter!Count
<1>10. OnceInv'
  BY <1>1, <1>4, <1>5, <1>7, QueueFacts DEF CounterInv, OnceInv
<1>11. PhaseInv'
  BY <1>1 DEF CounterInv, Counter!TypeOK, PhaseInv
<1>12. QED
  BY <1>6, <1>9, <1>10, <1>11 DEF CounterInv

LEMMA SenderSteps ==
  ASSUME CounterInv, NEW r \in Requests, Counter!SenderStep(r) \/ Counter!GiveUp(r)
  PROVE  CounterInv'
<1>1. CASE Counter!Admit(r)
  BY <1>1, SenderDecides DEF Counter!Admit
<1>2. CASE Counter!Send(r)
  BY <1>2, SendStep
<1>3. CASE Counter!Refuse(r)
  BY <1>3, SenderDecides DEF Counter!Refuse
<1>4. CASE Counter!GiveUp(r)
  BY <1>4, SenderDecides DEF Counter!GiveUp
<1>5. QED
  BY <1>1, <1>2, <1>3, <1>4 DEF Counter!SenderStep

\* The head of the channel moves to the pending increments.
LEMMA ReceiveStep ==
  ASSUME CounterInv, Counter!Receive
  PROVE  CounterInv'
<1> DEFINE h == Head(queue)
<1>1. /\ wpc \in {"select", "drain"} /\ queue # <<>> /\ queue' = Tail(queue)
      /\ pending' = [f \in Facts |-> IF f \in batch[h]
                                     THEN pending[f] \cup {h} ELSE pending[f]]
      /\ UNCHANGED <<Counter!senderVars, wpc, final, todo, current, seen, Counter!stopVars,
                     Counter!storeVars>>
  BY DEF Counter!Receive
<1> USE DEF Counter!senderVars, Counter!stopVars, Counter!storeVars
<1>2. queue \in Seq(Requests) /\ Len(queue) \in Nat \ {0}
  BY <1>1 DEF CounterInv, Counter!TypeOK
<1>3. /\ h = queue[1] /\ h \in Requests /\ h \in Queued
      /\ Len(queue') = Len(queue) - 1
      /\ \A i \in 1 .. Len(queue') : queue'[i] = queue[i + 1]
  BY <1>1, <1>2 DEF Queued
<1>4. Queued' \subseteq Queued \ {h}
  <2>1. ASSUME NEW i \in 1 .. Len(queue')
        PROVE  queue'[i] \in Queued /\ queue'[i] # h
    <3>1. i + 1 \in 1 .. Len(queue) /\ i + 1 # 1 /\ 1 \in 1 .. Len(queue)
      BY <1>2, <1>3
    <3>2. queue[i + 1] # queue[1]
      BY <3>1 DEF CounterInv, AcceptedInv
    <3>3. QED
      BY <1>3, <3>1, <3>2 DEF Queued
  <2>2. QED
    BY <2>1 DEF Queued
<1>5. \A x \in Requests, f \in Facts : CountedIn(x, f)' <=> CountedIn(x, f)
  BY <1>1 DEF CountedIn
<1>6. \A f \in Facts : pending'[f] \subseteq pending[f] \cup {h}
  BY <1>1
<1>7. Counter!TypeOK'
  <2>1. queue' \in Seq(Requests) /\ Len(queue') <= QueueSize
    BY <1>1, <1>2, <1>3, CounterConstants DEF CounterInv, Counter!TypeOK
  <2>2. pending' \in [Facts -> Counter!Count]
    BY <1>1, <1>3 DEF CounterInv, Counter!TypeOK, Counter!Count
  <2>3. QED
    BY <1>1, <2>1, <2>2 DEF CounterInv, Counter!TypeOK
<1>8. AcceptedInv'
  <2>1. \A i, j \in 1 .. Len(queue') : queue'[i] = queue'[j] => i = j
    <3>1. SUFFICES ASSUME NEW i \in 1 .. Len(queue'), NEW j \in 1 .. Len(queue'),
                          queue'[i] = queue'[j]
                   PROVE  i = j
      OBVIOUS
    <3>2. i + 1 \in 1 .. Len(queue) /\ j + 1 \in 1 .. Len(queue)
          /\ queue[i + 1] = queue[j + 1]
      BY <1>2, <1>3, <3>1
    <3>3. i + 1 = j + 1
      BY <3>2 DEF CounterInv, AcceptedInv
    <3>4. QED
      BY <1>2, <1>3, <3>3
  <2>2. epc[h] = "sent"
    BY <1>3 DEF CounterInv, AcceptedInv
  <2>3. QED
    BY <1>1, <1>4, <1>5, <1>6, <2>1, <2>2 DEF CounterInv, AcceptedInv
<1>9. OnceInv'
  <2>1. \A f \in Facts : ~CountedIn(h, f)
    BY <1>3 DEF CounterInv, OnceInv
  <2>2. \A x \in Queued', f \in Facts : x \notin pending'[f] /\ ~CountedIn(x, f)'
    BY <1>4, <1>5, <1>6, QueueFacts DEF CounterInv, OnceInv
  <2>3. QED
    BY <1>1, <1>4, <1>5, <1>6, <2>1, <2>2 DEF CounterInv, OnceInv
<1>10. PhaseInv'
  BY <1>1 DEF CounterInv, PhaseInv
<1>11. QED
  BY <1>7, <1>8, <1>9, <1>10 DEF CounterInv

\* The steps of the worker that only say where it is and what it visits.
LEMMA WorkerMoves ==
  ASSUME CounterInv, wpc' \in {"select", "drain", "flush", "done"},
         todo' \in SUBSET Facts, final' \in BOOLEAN, wpc # "set",
         UNCHANGED <<Counter!senderVars, queue, pending, current, seen, Counter!stopVars,
                     Counter!storeVars>>,
         wpc' = "drain" => cancelled,
         final' => cancelled /\ queue = <<>>,
         wpc' = "done" => final',
         wpc' \in {"select", "drain"} => ~final'
  PROVE  CounterInv'
<1> USE DEF Counter!senderVars, Counter!stopVars, Counter!storeVars
<1>1. Counter!TypeOK'
  BY DEF CounterInv, Counter!TypeOK
<1>2. Queued' = Queued /\ \A x \in Requests, f \in Facts : CountedIn(x, f)' <=> CountedIn(x, f)
  BY DEF Queued, CountedIn
<1>3. AcceptedInv' /\ OnceInv'
  BY <1>2, QueueFacts DEF CounterInv, AcceptedInv, OnceInv
<1>4. PhaseInv'
  BY DEF CounterInv, PhaseInv
<1>5. QED
  BY <1>1, <1>3, <1>4 DEF CounterInv

LEMMA LoopSteps ==
  ASSUME CounterInv, Counter!Tick \/ Counter!NoticeCancel \/ Counter!FinalFlush \/ Counter!FlushEnd \/ Counter!Abandon
  PROVE  CounterInv'
<1>1. CASE Counter!Tick
  BY <1>1, WorkerMoves DEF Counter!Tick, Counter!StartFlush, CounterInv, Counter!TypeOK, PhaseInv
<1>2. CASE Counter!NoticeCancel
  BY <1>2, WorkerMoves DEF Counter!NoticeCancel, CounterInv, Counter!TypeOK, PhaseInv
<1>3. CASE Counter!FinalFlush
  BY <1>3, WorkerMoves DEF Counter!FinalFlush, Counter!StartFlush, CounterInv, Counter!TypeOK, PhaseInv
<1>4. CASE Counter!FlushEnd
  BY <1>4, WorkerMoves DEF Counter!FlushEnd, Counter!StartFlush, CounterInv, Counter!TypeOK, PhaseInv
<1>5. CASE Counter!Abandon
  BY <1>5, WorkerMoves DEF Counter!Abandon, CounterInv, Counter!TypeOK, PhaseInv
<1>6. QED
  BY <1>1, <1>2, <1>3, <1>4, <1>5

LEMMA FlushGetStep ==
  ASSUME CounterInv, NEW f \in Facts, Counter!FlushGet(f)
  PROVE  CounterInv'
<1>1. /\ wpc = "flush"
      /\ UNCHANGED <<Counter!senderVars, queue, final, Counter!stopVars, Counter!storeVars>>
  BY DEF Counter!FlushGet
<1> USE DEF Counter!senderVars, Counter!stopVars, Counter!storeVars
<1>2. Queued' = Queued /\ \A x \in Requests, g \in Facts : CountedIn(x, g)' <=> CountedIn(x, g)
  BY <1>1 DEF Queued, CountedIn
<1>3. CASE todo' = todo \ {f} /\ UNCHANGED <<wpc, pending, current, seen>>
  BY <1>1, <1>3, WorkerMoves DEF CounterInv, Counter!TypeOK, PhaseInv
<1>4. CASE /\ todo' = todo \ {f} /\ pending' = [pending EXCEPT ![f] = {}]
           /\ UNCHANGED <<wpc, current, seen>>
  <2>1. pending' \in [Facts -> Counter!Count]
        /\ \A g \in Facts : pending'[g] \subseteq pending[g]
    BY <1>4 DEF CounterInv, Counter!TypeOK, Counter!Count
  <2>2. Counter!TypeOK'
    BY <1>1, <1>4, <2>1 DEF CounterInv, Counter!TypeOK
  <2>3. AcceptedInv' /\ OnceInv'
    BY <1>1, <1>2, <1>4, <2>1, QueueFacts DEF CounterInv, AcceptedInv, OnceInv
  <2>4. PhaseInv'
    BY <1>1, <1>4 DEF CounterInv, PhaseInv
  <2>5. QED
    BY <2>2, <2>3, <2>4 DEF CounterInv
<1>5. CASE /\ stored[f] # None /\ current' = f /\ seen' = stored[f]
           /\ wpc' = "set" /\ UNCHANGED <<todo, pending>>
  <2>1. seen' \in Counter!Count /\ \A x \in seen' : x \in Requests /\ CountedIn(x, f)
    BY <1>5 DEF CounterInv, Counter!TypeOK, Counter!Count, CountedIn
  <2>2. Counter!TypeOK'
    BY <1>1, <1>5, <2>1 DEF CounterInv, Counter!TypeOK
  <2>3. AcceptedInv'
    BY <1>1, <1>2, <1>5, <2>1, QueueFacts DEF CounterInv, AcceptedInv
  <2>4. OnceInv'
    BY <1>1, <1>2, <1>5, <2>1, QueueFacts DEF CounterInv, OnceInv
  <2>5. PhaseInv'
    BY <1>1, <1>5 DEF CounterInv, PhaseInv
  <2>6. QED
    BY <2>2, <2>3, <2>4, <2>5 DEF CounterInv
<1>6. QED
  BY <1>3, <1>4, <1>5 DEF Counter!FlushGet

\* The pending increments become part of the count, or are given up.
LEMMA FlushSetStep ==
  ASSUME CounterInv, Counter!FlushSet
  PROVE  CounterInv'
<1> DEFINE c == current
<1>1. /\ wpc = "set" /\ wpc' = "invalidate"
      /\ pending' = [pending EXCEPT ![c] = {}]
      /\ UNCHANGED <<Counter!senderVars, queue, final, todo, current, seen, Counter!stopVars,
                     rewriting>>
      /\ \/ stored' = [stored EXCEPT ![c] =
                          IF @ = None THEN None ELSE seen \cup pending[c]]
         \/ UNCHANGED stored
  BY DEF Counter!FlushSet, Counter!DropDelta
<1> USE DEF Counter!senderVars, Counter!stopVars
<1>2. c \in Facts
  BY <1>1 DEF CounterInv, PhaseInv
<1>3. /\ stored' \in [Facts -> Counter!Count \cup {None}]
      /\ \A x \in Requests, f \in Facts :
            CountedIn(x, f)' => CountedIn(x, f) \/ x \in seen \/ x \in pending[c]
      /\ \A x \in Requests, f \in Facts :
            f # c /\ CountedIn(x, f)' => CountedIn(x, f)
  BY <1>1, <1>2 DEF CounterInv, Counter!TypeOK, Counter!Count, CountedIn
<1>4. /\ pending' \in [Facts -> Counter!Count] /\ pending'[c] = {}
      /\ \A f \in Facts : f # c => pending'[f] = pending[f]
  BY <1>1, <1>2 DEF CounterInv, Counter!TypeOK, Counter!Count
<1>5. Queued' = Queued
  BY <1>1 DEF Queued
<1>6. Counter!TypeOK'
  BY <1>1, <1>3, <1>4 DEF CounterInv, Counter!TypeOK
<1>7. AcceptedInv'
  <2>1. \A x \in Requests : x \in seen \/ x \in pending[c] => epc[x] = "sent"
    BY <1>2 DEF CounterInv, AcceptedInv
  <2>2. \A x \in Requests, f \in Facts :
           x \in pending'[f] \/ CountedIn(x, f)' => epc'[x] = "sent"
    BY <1>1, <1>3, <1>4, <2>1 DEF CounterInv, AcceptedInv
  <2>3. QED
    BY <1>1, <1>5, <2>2 DEF CounterInv, AcceptedInv
<1>8. OnceInv'
  <2>1. \A x \in Queued, f \in Facts :
           /\ x \in Requests /\ x \notin pending[f] /\ ~CountedIn(x, f)
           /\ x \notin seen
    BY QueueFacts DEF CounterInv, OnceInv
  <2>2. \A x \in Queued', f \in Facts : x \notin pending'[f] /\ ~CountedIn(x, f)'
    BY <1>2, <1>3, <1>4, <1>5, <2>1
  <2>3. \A x \in Requests, f \in Facts : x \in pending'[f] => ~CountedIn(x, f)'
    BY <1>3, <1>4 DEF CounterInv, OnceInv
  <2>4. QED
    BY <1>1, <1>5, <2>2, <2>3 DEF CounterInv, OnceInv
<1>9. PhaseInv'
  BY <1>1 DEF CounterInv, PhaseInv
<1>10. QED
  BY <1>6, <1>7, <1>8, <1>9 DEF CounterInv

LEMMA FlushNextStep ==
  ASSUME CounterInv, Counter!FlushNext
  PROVE  CounterInv'
<1>1. /\ wpc = "invalidate" /\ wpc' = "flush" /\ todo' = todo \ {current}
      /\ current' = None /\ seen' = {}
      /\ UNCHANGED <<Counter!senderVars, queue, final, pending, Counter!stopVars, Counter!storeVars>>
  BY DEF Counter!FlushNext
<1> USE DEF Counter!senderVars, Counter!stopVars, Counter!storeVars
<1>2. Queued' = Queued /\ \A x \in Requests, f \in Facts : CountedIn(x, f)' <=> CountedIn(x, f)
  BY <1>1 DEF Queued, CountedIn
<1>3. Counter!TypeOK'
  BY <1>1 DEF CounterInv, Counter!TypeOK, Counter!Count
<1>4. AcceptedInv' /\ OnceInv'
  BY <1>1, <1>2, QueueFacts DEF CounterInv, AcceptedInv, OnceInv
<1>5. PhaseInv'
  BY <1>1 DEF CounterInv, PhaseInv
<1>6. QED
  BY <1>3, <1>4, <1>5 DEF CounterInv

LEMMA StopSteps ==
  ASSUME CounterInv, Counter!StopBegin \/ Counter!StopCancel \/ Counter!StopReturn \/ Counter!StopExpire
  PROVE  CounterInv'
<1>1. UNCHANGED <<Counter!senderVars, queue, Counter!workerVars, Counter!storeVars>>
  BY DEF Counter!StopBegin, Counter!StopCancel, Counter!StopReturn, Counter!StopExpire
<1> USE DEF Counter!senderVars, Counter!workerVars, Counter!storeVars
<1>2. Queued' = Queued /\ \A x \in Requests, f \in Facts : CountedIn(x, f)' <=> CountedIn(x, f)
  BY <1>1 DEF Queued, CountedIn
<1>3. Counter!TypeOK'
  BY <1>1 DEF Counter!StopBegin, Counter!StopCancel, Counter!StopReturn, Counter!StopExpire, CounterInv, Counter!TypeOK
<1>4. AcceptedInv' /\ OnceInv'
  BY <1>1, <1>2, QueueFacts DEF CounterInv, AcceptedInv, OnceInv
<1>5. PhaseInv'
  BY <1>1 DEF Counter!StopBegin, Counter!StopCancel, Counter!StopReturn, Counter!StopExpire, Counter!SendersGone, CounterInv,
              PhaseInv
<1>6. QED
  BY <1>3, <1>4, <1>5 DEF CounterInv

\* The other writers put back a count that was read before, or none.
LEMMA WriterSteps ==
  ASSUME CounterInv, NEW f \in Facts,
         Counter!UpdateRead(f) \/ Counter!UpdateWrite(f) \/ Counter!Delete(f) \/ Counter!Recreate(f)
  PROVE  CounterInv'
<1>1. UNCHANGED <<Counter!senderVars, queue, Counter!workerVars, Counter!stopVars>>
  BY DEF Counter!UpdateRead, Counter!UpdateWrite, Counter!Delete, Counter!Recreate
<1> USE DEF Counter!senderVars, Counter!workerVars, Counter!stopVars
<1>2. /\ stored' \in [Facts -> Counter!Count \cup {None}]
      /\ rewriting' \in [Facts -> Counter!Count \cup {None}]
  BY DEF Counter!UpdateRead, Counter!UpdateWrite, Counter!Delete, Counter!Recreate, CounterInv, Counter!TypeOK, Counter!Count
<1>3. \A x \in Requests, g \in Facts : CountedIn(x, g)' => CountedIn(x, g)
  BY DEF Counter!UpdateRead, Counter!UpdateWrite, Counter!Delete, Counter!Recreate, CounterInv, Counter!TypeOK, Counter!Count,
         CountedIn
<1>4. Queued' = Queued
  BY <1>1 DEF Queued
<1>5. Counter!TypeOK'
  BY <1>1, <1>2 DEF CounterInv, Counter!TypeOK
<1>6. AcceptedInv' /\ OnceInv'
  BY <1>1, <1>3, <1>4, QueueFacts DEF CounterInv, AcceptedInv, OnceInv
<1>7. PhaseInv'
  BY <1>1 DEF CounterInv, PhaseInv
<1>8. QED
  BY <1>5, <1>6, <1>7 DEF CounterInv

LEMMA StutterStep ==
  ASSUME CounterInv, UNCHANGED Counter!vars
  PROVE  CounterInv'
<1>1. Queued' = Queued /\ \A x \in Requests, f \in Facts : CountedIn(x, f)' <=> CountedIn(x, f)
  BY DEF Counter!vars, Queued, CountedIn
<1>2. Counter!TypeOK'
  BY DEF Counter!vars, CounterInv, Counter!TypeOK
<1>3. AcceptedInv' /\ OnceInv' /\ PhaseInv'
  BY <1>1, QueueFacts DEF Counter!vars, CounterInv, AcceptedInv, OnceInv, PhaseInv
<1>4. QED
  BY <1>2, <1>3 DEF CounterInv

LEMMA CounterStepInv == CounterInv /\ [Counter!Next]_(Counter!vars) => CounterInv'
<1> SUFFICES ASSUME CounterInv, [Counter!Next]_(Counter!vars) PROVE CounterInv'
  OBVIOUS
<1>1. CASE \E r \in Requests : Counter!SenderStep(r) \/ Counter!GiveUp(r)
  BY <1>1, SenderSteps
<1>2. CASE Counter!WorkerStep
  BY <1>2, ReceiveStep, LoopSteps, FlushGetStep, FlushSetStep, FlushNextStep
     DEF Counter!WorkerStep
<1>3. CASE Counter!Abandon
  BY <1>3, LoopSteps
<1>4. CASE Counter!StopBegin \/ Counter!StopStep \/ Counter!StopExpire
  BY <1>4, StopSteps DEF Counter!StopStep
<1>5. CASE \E f \in Facts :
              Counter!UpdateRead(f) \/ Counter!UpdateWrite(f) \/ Counter!Delete(f) \/ Counter!Recreate(f)
  BY <1>5, WriterSteps
<1>6. CASE UNCHANGED Counter!vars
  BY <1>6, StutterStep
<1>7. QED
  BY <1>1, <1>2, <1>3, <1>4, <1>5, <1>6 DEF Counter!Next

------------------------------------------------------------------------------
(* The theorems. *)

\* The invariant holds in every state.
THEOREM CounterInvariance == Counter!Spec => []CounterInv
BY CounterInitInv, CounterStepInv, PTL DEF Counter!Spec

\* Sender, channel, worker and stop keep their types.
THEOREM CounterTypeCorrect == Counter!Spec => []Counter!TypeOK
<1>1. CounterInv => Counter!TypeOK
  BY DEF CounterInv
<1>2. QED
  BY CounterInvariance, <1>1, PTL

\* Accepted recalls count once at most, refused ones not at all, and nobody
\* is left in or before the channel when the worker exits.
THEOREM CountsStayTrue == Counter!Spec => []Counter!CountsAreTrue
<1>1. CounterInv => Counter!CountsAreTrue
  <2> SUFFICES ASSUME CounterInv PROVE Counter!CountsAreTrue
    OBVIOUS
  <2>1. Counter!NeverCountedTwice
    <3>1. SUFFICES ASSUME NEW f \in Facts
                   PROVE  /\ stored[f] # None => stored[f] \cap pending[f] = {}
                          /\ \A i \in 1 .. Len(queue) :
                                /\ queue[i] \notin pending[f]
                                /\ stored[f] # None => queue[i] \notin stored[f]
      BY DEF Counter!NeverCountedTwice
    <3>2. pending[f] \subseteq Requests
      BY DEF CounterInv, Counter!TypeOK, Counter!Count
    <3>3. stored[f] # None => stored[f] \cap pending[f] = {}
      BY <3>2 DEF CounterInv, OnceInv, CountedIn
    <3>4. \A i \in 1 .. Len(queue) : queue[i] \in Queued
      BY DEF Queued
    <3>5. QED
      BY <3>3, <3>4 DEF CounterInv, OnceInv, CountedIn
  <2>2. Counter!RefusedNotCounted
    BY DEF Counter!RefusedNotCounted, CounterInv, AcceptedInv, CountedIn
  <2>3. Counter!NothingSentAfterStop
    BY DEF Counter!NothingSentAfterStop, CounterInv, PhaseInv
  <2>4. QED
    BY <2>1, <2>2, <2>3 DEF Counter!CountsAreTrue
<1>2. QED
  BY CounterInvariance, <1>1, PTL

------------------------------------------------------------------------------
(* Every step of the server is a step of each part or leaves it alone. *)

LEMMA CacheSteps == [ServingNext]_(servingVars) => [Next]_(vars)
<1> SUFFICES ASSUME [ServingNext]_(servingVars) PROVE Next \/ UNCHANGED vars
  OBVIOUS
<1> USE DEF vars
<1>1. ASSUME NEW r \in Requests, CallStep(r) \/ StopWaiting(r) \/ GiveUp(r)
      PROVE  Next \/ UNCHANGED vars
  <2>1. CASE CacheStep(r)
    BY <2>1 DEF CacheStep, Next, RequestStep
  <2>2. CASE Counted(r)
    BY <2>2 DEF Counted, Next, RequestStep
  <2>3. CASE CountFailed(r)
    BY <2>3 DEF CountFailed, Next, RequestStep
  <2>4. CASE StopWaiting(r)
    BY <2>4 DEF StopWaiting, Next
  <2>5. CASE Enqueue(r) \/ GiveUp(r)
    BY <2>5 DEF Enqueue, GiveUp
  <2>6. QED
    BY <1>1, <2>1, <2>2, <2>3, <2>4, <2>5 DEF CallStep
<1>2. CASE WorkerStep
  <2>1. CASE WorkerSet
    BY <2>1, ServingAssumption DEF WorkerSet, Next
  <2>2. CASE WorkerInvalidate \/ WorkerNext
    BY <2>2, ServingAssumption
       DEF WorkerInvalidate, WorkerNext, Next, MutatorStep
  <2>3. CASE WorkerLoop \/ NoticeCancel
    BY <2>3 DEF WorkerLoop, NoticeCancel
  <2>4. QED
    BY <1>2, <2>1, <2>2, <2>3 DEF WorkerStep
<1>3. CASE Abandon \/ StopBegin \/ StopStep \/ StopExpire
  BY <1>3 DEF Abandon, StopBegin, StopStep, StopExpire
<1>4. CASE UNCHANGED servingVars
  BY <1>4 DEF servingVars
<1>5. QED
  BY <1>1, <1>2, <1>3, <1>4 DEF ServingNext

LEMMA CounterSteps == [ServingNext]_(servingVars) => [Counter!Next]_(Counter!vars)
<1> SUFFICES ASSUME [ServingNext]_(servingVars) PROVE Counter!Next \/ UNCHANGED Counter!vars
  OBVIOUS
<1> USE DEF counterVars, Counter!vars
<1>1. ASSUME NEW r \in Requests, CallStep(r) \/ StopWaiting(r) \/ GiveUp(r)
      PROVE  Counter!Next \/ UNCHANGED Counter!vars
  <2>1. CASE CacheStep(r) \/ Counted(r) \/ CountFailed(r) \/ StopWaiting(r)
    BY <2>1 DEF CacheStep, Counted, CountFailed, StopWaiting
  <2>2. CASE Enqueue(r) \/ GiveUp(r)
    BY <2>2 DEF Enqueue, GiveUp, Counter!Next
  <2>3. QED
    BY <1>1, <2>1, <2>2 DEF CallStep
<1>2. CASE WorkerStep
  <2>1. CASE WorkerSet \/ WorkerNext \/ NoticeCancel
    BY <2>1 DEF WorkerSet, WorkerNext, NoticeCancel, Counter!Next,
                Counter!WorkerStep
  <2>2. CASE WorkerLoop
    BY <2>2 DEF WorkerLoop, Counter!Next, Counter!WorkerStep
  <2>3. CASE WorkerInvalidate
    BY <2>3 DEF WorkerInvalidate
  <2>4. QED
    BY <1>2, <2>1, <2>2, <2>3 DEF WorkerStep
<1>3. CASE Abandon \/ StopBegin \/ StopStep \/ StopExpire
  BY <1>3 DEF Abandon, StopBegin, StopStep, StopExpire, Counter!Next
<1>4. CASE UNCHANGED servingVars
  BY <1>4 DEF servingVars
<1>5. QED
  BY <1>1, <1>2, <1>3, <1>4 DEF ServingNext

------------------------------------------------------------------------------
(* The theorems. *)

\* The server's cache is the cache of RecallCache: what countRecalls waits
\* for, and the worker's invalidations, are among the steps it allows.
THEOREM ServesAsCache == ServingSpec => Spec
<1>1. ServingInit => Init
  BY DEF ServingInit
<1>2. QED
  BY <1>1, CacheSteps, PTL DEF ServingSpec, Spec

\* The server's counter is the counter of RecallCounter.
THEOREM ServesAsCounter == ServingSpec => Counter!Spec
<1>1. ServingInit => Counter!Init
  BY DEF ServingInit
<1>2. QED
  BY <1>1, CounterSteps, PTL DEF ServingSpec, Counter!Spec

\* So the recalls of the server count once at most, whatever the cache and
\* the counter make each other wait for.
THEOREM ServedCountsAreTrue == ServingSpec => []CountsAreTrue
BY CountsStayTrue, ServesAsCounter, PTL DEF CountsAreTrue

\* The same of the counter by itself, with other writers of the points.
THEOREM CountedAlone == CounterSpec => []CountsAreTrue
<1>1. ServingInit => Counter!Init
  BY DEF ServingInit
<1>2. [Counter!Next /\ UNCHANGED vars]_(servingVars)
        => [Counter!Next]_(Counter!vars)
  BY DEF servingVars, counterVars, Counter!vars
<1>3. QED
  BY <1>1, <1>2, CountsStayTrue, PTL DEF CounterSpec, Counter!Spec, CountsAreTrue

\* The worker has written and not invalidated only where it is about to.
WorkerInv ==
    \A m \in Mutators :
        mpc[m] = "written" => m = Worker /\ wpc = "invalidate"

LEMMA WorkerInvariant == ServingSpec => []WorkerInv
<1>1. ServingInit => WorkerInv
  BY DEF ServingInit, Init, WorkerInv
<1>2. WorkerInv /\ TypeOK /\ [ServingNext]_(servingVars) => WorkerInv'
  <2> SUFFICES ASSUME WorkerInv, TypeOK, [ServingNext]_(servingVars) PROVE WorkerInv'
    OBVIOUS
  <2> USE DEF WorkerInv, vars, counterVars, mutatorVars,
              Counter!workerVars
  <2>0. mpc \in [Mutators -> {"idle", "written", "draining"}]
    BY DEF TypeOK
  <2>1. ASSUME NEW r \in Requests, CallStep(r) \/ StopWaiting(r) \/ GiveUp(r)
        PROVE  UNCHANGED <<mpc, wpc>>
    <3>1. CASE CacheStep(r) \/ StopWaiting(r)
      BY <3>1 DEF CacheStep, StopWaiting, Begin, Lookup,
                  LockEntry, CheckEntry, Wake, Search,
                  Abort, CancelWait
    <3>2. CASE Counted(r) \/ CountFailed(r)
      BY <3>2 DEF Counted, CountFailed, HitReturn, Publish,
                  HitFail, Abort
    <3>3. CASE Enqueue(r) \/ GiveUp(r)
      BY <3>3 DEF Enqueue, GiveUp, Counter!SenderStep, Counter!Admit,
                  Counter!Send, Counter!Refuse, Counter!GiveUp
    <3>4. QED
      BY <2>1, <3>1, <3>2, <3>3 DEF CallStep
  <2>2. CASE WorkerStep
    <3>1. CASE WorkerSet
      BY <3>1, <2>0 DEF WorkerSet, Counter!FlushSet, Dispatch
    <3>2. CASE WorkerInvalidate
      BY <3>2, <2>0 DEF WorkerInvalidate, Invalidate, AwaitEntry
    <3>3. CASE WorkerNext
      BY <3>3, <2>0 DEF WorkerNext, Return
    <3>4. CASE WorkerLoop \/ NoticeCancel
      BY <3>4 DEF WorkerLoop, NoticeCancel, Counter!NoticeCancel,
                  Counter!Receive, Counter!Tick, Counter!FinalFlush,
                  Counter!FlushGet, Counter!FlushEnd, Counter!StartFlush
    <3>5. QED
      BY <2>2, <3>1, <3>2, <3>3, <3>4 DEF WorkerStep
  <2>3. CASE Abandon \/ StopBegin \/ StopStep \/ StopExpire
    BY <2>3 DEF Abandon, StopBegin, StopStep, StopExpire, Counter!Abandon,
                Counter!StopBegin, Counter!StopStep, Counter!StopCancel,
                Counter!StopReturn, Counter!StopExpire
  <2>4. CASE UNCHANGED servingVars
    BY <2>4 DEF servingVars
  <2>5. QED
    BY <2>1, <2>2, <2>3, <2>4 DEF ServingNext
<1>3. QED
  BY <1>1, <1>2, TypeCorrect, ServesAsCache, PTL DEF ServingSpec

\* Outside the window between the worker's write and its invalidation, the
\* cache shows the counts that are persisted.
THEOREM CacheShowsCounts == ServingSpec => []CacheShowsPersistedCounts
<1>1. NeverStaleCache /\ WorkerInv => CacheShowsPersistedCounts
  BY DEF NeverStaleCache, WorkerInv, CacheShowsPersistedCounts
<1>2. QED
  BY <1>1, CacheNeverStale, WorkerInvariant, ServesAsCache, PTL
=============================================================================
