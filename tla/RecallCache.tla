----------------------------- MODULE RecallCache -----------------------------
(***************************************************************************)
(* The recall cache of internal/memory/cache.go as recall_facts and the    *)
(* mutating tools of internal/memory/server.go use it: per-key entries     *)
(* with a mutex of their own, single-flight population under a generation  *)
(* lease, and Invalidate, which every handler that dispatched a write      *)
(* calls before it returns.                                                *)
(*                                                                         *)
(* Cached results are abstracted to the store state they reflect, a store  *)
(* state being the number of writes applied.  Cache.mu is never held while *)
(* another lock or a channel is awaited, so each of its critical sections  *)
(* is one action.  Entries and flights are heap objects; a recall_facts    *)
(* call creates at most one of each, which is named by that call.          *)
(***************************************************************************)
EXTENDS Naturals

CONSTANTS
    Requests,      \* recall_facts calls (each is one goroutine, used once)
    Keys,          \* cache keys
    Mutators,      \* goroutines that write to the store and invalidate
    None,          \* the nil pointer
    MaxWrites,     \* bound: writes applied to the store
    MaxMutations   \* bound: generation after which no mutation starts

ASSUME NoneAssumption == None \notin Requests
ASSUME BoundsAssumption == MaxWrites \in Nat /\ MaxMutations \in Nat

VARIABLES
    recalls,     \* recalls[k]: the entry published for k, or None
    inflight,    \* inflight[k]: the flight populating k, or None
    generation,  \* Cache.generation
    leaseGen,    \* leaseGen[r]: generation captured by the flight of r
    closed,      \* the flights whose done channel is closed
    entryMu,     \* entryMu[e]: the request holding the mutex of entry e, or None
    result,      \* result[r]: store state of the result of r (and of its entry)
    rpc,         \* rpc[r]: where the call r is
    key,         \* key[r]: the cache key of r, fixed
    ptr,         \* ptr[r]: the entry or the flight r holds a pointer to
    floor,       \* observer: acked when r began
    mpc,         \* mpc[m]: where the mutating goroutine m is
    mver,        \* mver[m]: store state after the last write m saw applied
    entries,     \* entries[m]: the entries Invalidate collected for m
    left,        \* left[m]: those whose mutex m has not yet passed through
    store,       \* writes applied
    acked        \* observer: newest write whose handler has returned

cacheVars == <<recalls, inflight, generation, closed>>
requestVars == <<leaseGen, entryMu, result, rpc, key, ptr, floor>>
mutatorVars == <<mpc, mver, entries, left>>
storeVars == <<store, acked>>
vars == <<recalls, inflight, generation, leaseGen, closed, entryMu, result,
          rpc, key, ptr, floor, mpc, mver, entries, left, store, acked>>

RequestStates == {"idle", "lookup", "lockEntry", "checkEntry", "hit", "wait",
                  "search", "count", "answered", "failed"}

TypeOK ==
    /\ recalls \in [Keys -> Requests \cup {None}]
    /\ inflight \in [Keys -> Requests \cup {None}]
    /\ generation \in Nat
    /\ leaseGen \in [Requests -> Nat]
    /\ closed \in SUBSET Requests
    /\ entryMu \in [Requests -> Requests \cup {None}]
    /\ result \in [Requests -> Nat]
    /\ rpc \in [Requests -> RequestStates]
    /\ key \in [Requests -> Keys]
    /\ ptr \in [Requests -> Requests \cup {None}]
    /\ floor \in [Requests -> Nat]
    /\ mpc \in [Mutators -> {"idle", "written", "draining"}]
    /\ mver \in [Mutators -> Nat]
    /\ entries \in [Mutators -> SUBSET Requests]
    /\ left \in [Mutators -> SUBSET Requests]
    /\ store \in Nat
    /\ acked \in Nat

Init ==
    /\ recalls = [k \in Keys |-> None]
    /\ inflight = [k \in Keys |-> None]
    /\ generation = 0
    /\ leaseGen = [r \in Requests |-> 0]
    /\ closed = {}
    /\ entryMu = [r \in Requests |-> None]
    /\ result = [r \in Requests |-> 0]
    /\ rpc = [r \in Requests |-> "idle"]
    /\ key \in [Requests -> Keys]
    /\ ptr = [r \in Requests |-> None]
    /\ floor = [r \in Requests |-> 0]
    /\ mpc = [m \in Mutators |-> "idle"]
    /\ mver = [m \in Mutators |-> 0]
    /\ entries = [m \in Mutators |-> {}]
    /\ left = [m \in Mutators |-> {}]
    /\ store = 0
    /\ acked = 0

------------------------------------------------------------------------------
(* recall_facts: the call, then AcquireRecall. *)

Goto(r, state) == rpc' = [rpc EXCEPT ![r] = state]

\* Leaving the scope in which the pointer to an entry or a flight is held.
Leave(r, state) == Goto(r, state) /\ ptr' = [ptr EXCEPT ![r] = None]

Begin(r) ==
    /\ rpc[r] = "idle"
    /\ Goto(r, "lookup")
    /\ floor' = [floor EXCEPT ![r] = acked]
    /\ UNCHANGED <<cacheVars, mutatorVars, storeVars,
                   leaseGen, entryMu, result, key, ptr>>

\* The critical section at the head of AcquireRecall's loop: remember the
\* entry, or the flight to follow, or take the lease.
Lookup(r) ==
    /\ rpc[r] = "lookup"
    /\ \/ /\ recalls[key[r]] # None
          /\ ptr' = [ptr EXCEPT ![r] = recalls[key[r]]]
          /\ Goto(r, "lockEntry")
          /\ UNCHANGED <<inflight, leaseGen>>
       \/ /\ recalls[key[r]] = None
          /\ inflight[key[r]] # None
          /\ ptr' = [ptr EXCEPT ![r] = inflight[key[r]]]
          /\ Goto(r, "wait")
          /\ UNCHANGED <<inflight, leaseGen>>
       \/ /\ recalls[key[r]] = None
          /\ inflight[key[r]] = None
          /\ inflight' = [inflight EXCEPT ![key[r]] = r]
          /\ leaseGen' = [leaseGen EXCEPT ![r] = generation]
          /\ Goto(r, "search")
          /\ UNCHANGED ptr
    /\ UNCHANGED <<mutatorVars, storeVars, recalls, generation, closed,
                   entryMu, result, key, floor>>

LockEntry(r) ==
    /\ rpc[r] = "lockEntry"
    /\ entryMu[ptr[r]] = None
    /\ entryMu' = [entryMu EXCEPT ![ptr[r]] = r]
    /\ Goto(r, "checkEntry")
    /\ UNCHANGED <<cacheVars, mutatorVars, storeVars,
                   leaseGen, result, key, ptr, floor>>

\* The second look at the map, with the entry's mutex held: a replaced or
\* expired entry sends the call back to the head of the loop.  The clock
\* decides between an expired and a live entry.
EntryIsCurrent(r) == recalls[key[r]] = ptr[r]

CheckEntry(r) ==
    /\ rpc[r] = "checkEntry"
    /\ \/ /\ ~EntryIsCurrent(r)
          /\ entryMu' = [entryMu EXCEPT ![ptr[r]] = None]
          /\ Leave(r, "lookup")
          /\ UNCHANGED recalls
       \/ /\ EntryIsCurrent(r)
          /\ recalls' = [recalls EXCEPT ![key[r]] = None]
          /\ entryMu' = [entryMu EXCEPT ![ptr[r]] = None]
          /\ Leave(r, "lookup")
       \/ /\ EntryIsCurrent(r)
          /\ Goto(r, "hit")
          /\ UNCHANGED <<recalls, entryMu, ptr>>
    /\ UNCHANGED <<mutatorVars, storeVars, inflight, generation, closed,
                   leaseGen, result, key, floor>>

\* updateHit (countRecalls) returned: release the entry and answer from it,
\* or report the error.
HitReturn(r) ==
    /\ rpc[r] = "hit"
    /\ entryMu' = [entryMu EXCEPT ![ptr[r]] = None]
    /\ result' = [result EXCEPT ![r] = result[ptr[r]]]
    /\ Leave(r, "answered")
    /\ UNCHANGED <<cacheVars, mutatorVars, storeVars, leaseGen, key, floor>>

HitFail(r) ==
    /\ rpc[r] = "hit"
    /\ entryMu' = [entryMu EXCEPT ![ptr[r]] = None]
    /\ Leave(r, "failed")
    /\ UNCHANGED <<cacheVars, mutatorVars, storeVars,
                   leaseGen, result, key, floor>>

\* A follower wakes when its flight's channel is closed and starts over.
Wake(r) ==
    /\ rpc[r] = "wait"
    /\ ptr[r] \in closed
    /\ Leave(r, "lookup")
    /\ UNCHANGED <<cacheVars, mutatorVars, storeVars,
                   leaseGen, entryMu, result, key, floor>>

CancelWait(r) ==
    /\ rpc[r] = "wait"
    /\ Leave(r, "failed")
    /\ UNCHANGED <<cacheVars, mutatorVars, storeVars,
                   leaseGen, entryMu, result, key, floor>>

------------------------------------------------------------------------------
(* The leader: embed, search and present, countRecalls, FinishRecall. *)

Search(r) ==
    /\ rpc[r] = "search"
    /\ result' = [result EXCEPT ![r] = store]
    /\ Goto(r, "count")
    /\ UNCHANGED <<cacheVars, mutatorVars, storeVars,
                   leaseGen, entryMu, key, ptr, floor>>

\* FinishRecall gives the lease up only while the flight is still the one
\* in the map, and publishes only in the generation that granted it.
\* Mutants: whatever flight is in the map is taken for the caller's own, and
\* every result is published.
LeaseNotCompared(r) == inflight[key[r]] # None
PublishAlways(r) == TRUE

HoldsLease(r) == inflight[key[r]] = r
MayPublish(r) == HoldsLease(r) /\ leaseGen[r] = generation

ReleaseLease(r) ==
    IF HoldsLease(r)
    THEN /\ inflight' = [inflight EXCEPT ![key[r]] = None]
         /\ closed' = closed \cup {r}
    ELSE UNCHANGED <<inflight, closed>>

Publish(r) ==
    /\ rpc[r] = "count"
    /\ recalls' = IF MayPublish(r) THEN [recalls EXCEPT ![key[r]] = r]
                                   ELSE recalls
    /\ ReleaseLease(r)
    /\ Goto(r, "answered")
    /\ UNCHANGED <<mutatorVars, storeVars, generation,
                   leaseGen, entryMu, result, key, ptr, floor>>

\* Embedding, search or counting failed: the deferred FinishRecall(nil).
Abort(r) ==
    /\ rpc[r] \in {"search", "count"}
    /\ ReleaseLease(r)
    /\ Goto(r, "failed")
    /\ UNCHANGED <<mutatorVars, storeVars, recalls, generation,
                   leaseGen, entryMu, result, key, ptr, floor>>

------------------------------------------------------------------------------
(* The mutating handlers.  One handler may dispatch several writes before  *)
(* its one Invalidate: update_fact upserts and deletes, import_facts loops.*)

Dispatch(m) ==
    /\ mpc[m] \in {"idle", "written"}
    /\ mpc[m] = "idle" => generation < MaxMutations
    /\ mpc' = [mpc EXCEPT ![m] = "written"]
    /\ \/ /\ store < MaxWrites                 \* applied, reported or not
          /\ store' = store + 1
          /\ mver' = [mver EXCEPT ![m] = store + 1]
       \/ UNCHANGED <<store, mver>>            \* failed and not applied
    /\ UNCHANGED <<cacheVars, requestVars, entries, left, acked>>

\* Mutants: nil entries are collected too; no channel is closed.
PublishedOrNil == {recalls[k] : k \in Keys}
NothingFlying == {}

Published == {recalls[k] : k \in Keys} \ {None}
Flying == {inflight[k] : k \in Keys} \ {None}

\* Invalidate: the critical section, then the wait for hits in progress on
\* the collected entries, one entry after the other.
Invalidate(m) ==
    /\ mpc[m] = "written"
    /\ generation' = generation + 1
    /\ recalls' = [k \in Keys |-> None]
    /\ inflight' = [k \in Keys |-> None]
    /\ closed' = closed \cup Flying
    /\ entries' = [entries EXCEPT ![m] = Published]
    /\ left' = [left EXCEPT ![m] = Published]
    /\ mpc' = [mpc EXCEPT ![m] = "draining"]
    /\ UNCHANGED <<requestVars, storeVars, mver>>

\* Mutant: the entries' mutexes are not awaited.
AwaitNothing(m) ==
    /\ mpc[m] = "draining"
    /\ left[m] # {}
    /\ left' = [left EXCEPT ![m] = {}]
    /\ UNCHANGED <<cacheVars, requestVars, storeVars, mpc, mver, entries>>

AwaitEntry(m) ==
    /\ mpc[m] = "draining"
    /\ \E e \in left[m] :
          /\ entryMu[e] = None
          /\ left' = [left EXCEPT ![m] = @ \ {e}]
    /\ UNCHANGED <<cacheVars, requestVars, storeVars, mpc, mver, entries>>

\* Invalidate returned and the handler answers its client.
Return(m) ==
    /\ mpc[m] = "draining"
    /\ left[m] = {}
    /\ mpc' = [mpc EXCEPT ![m] = "idle"]
    /\ entries' = [entries EXCEPT ![m] = {}]
    /\ acked' = IF acked < mver[m] THEN mver[m] ELSE acked
    /\ mver' = [mver EXCEPT ![m] = 0]
    /\ UNCHANGED <<cacheVars, requestVars, left, store>>

------------------------------------------------------------------------------
RequestStep(r) ==
    \/ Lookup(r)
    \/ LockEntry(r)
    \/ CheckEntry(r)
    \/ HitReturn(r)
    \/ HitFail(r)
    \/ Wake(r)
    \/ Search(r)
    \/ Publish(r)
    \/ Abort(r)

MutatorStep(m) == Invalidate(m) \/ AwaitEntry(m) \/ Return(m)

Next ==
    \/ \E r \in Requests : Begin(r) \/ CancelWait(r) \/ RequestStep(r)
    \/ \E m \in Mutators : Dispatch(m) \/ MutatorStep(m)

Spec == Init /\ [][Next]_vars

------------------------------------------------------------------------------
(* Properties. *)

\* Every published entry shows the store as it is unless some handler has
\* written and not yet invalidated: setFactLifecycle's "Never leave a stale
\* read cache", for every mutating tool and any interleaving with leaders.
NeverStaleCache ==
    (\A m \in Mutators : mpc[m] # "written")
        => \A k \in Keys : recalls[k] # None => result[recalls[k]] = store

\* A recall that began after a mutation was acknowledged reflects it,
\* whether it is answered by a hit, after following, or as a leader.
AnswersReflectAcknowledged ==
    \A r \in Requests : rpc[r] = "answered" => result[r] >= floor[r]

\* Single flight: two leaders of one key never work in the same generation.
SingleFlight ==
    \A r, s \in Requests :
        /\ rpc[r] \in {"search", "count"} /\ rpc[s] \in {"search", "count"}
        /\ key[r] = key[s] /\ leaseGen[r] = leaseGen[s]
        => r = s

\* No lost wake-up: the flight a follower waits for is still in the map or
\* its channel is closed, across FinishRecall, aborts and Invalidate.
NoOrphanWaiter ==
    \A r \in Requests :
        rpc[r] = "wait" => ptr[r] \in closed \/ inflight[key[r]] = ptr[r]

\* When Invalidate returns, no hit is still being served from an entry it
\* removed from the map.
RemovedEntriesDrained ==
    [][\A m \in Mutators, r \in Requests :
          mpc[m] = "draining" /\ mpc'[m] = "idle" /\ rpc[r] = "hit"
              => ptr[r] \notin entries[m]]_vars

------------------------------------------------------------------------------
(* Implementation of the promise made to clients. *)

Phase(r) ==
    IF rpc[r] \in {"idle", "answered", "failed"} THEN rpc[r] ELSE "open"

Freshness == INSTANCE RecallFreshness WITH
                phase  <- [r \in Requests |-> Phase(r)],
                answer <- [r \in Requests |->
                              IF rpc[r] = "answered" THEN result[r] ELSE 0]

ImplementsFreshness == Freshness!Spec
=============================================================================
