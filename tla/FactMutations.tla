---------------------------- MODULE FactMutations ----------------------------
(***************************************************************************)
(* The mutating tools of internal/memory/server.go on the collection of    *)
(* facts: store_fact, import_facts, update_fact, set_fact_lifecycle and    *)
(* delete_fact.  Each tool call is a goroutine that locks the stripes of   *)
(* the namespaces it touches, reads what it depends on again, and then     *)
(* writes; every Qdrant call is a step of its own and may fail, and a      *)
(* failed write may or may not have been applied.                          *)
(*                                                                         *)
(* A point ID is the pair it is the hash of, <<namespace, text>> (id.go).  *)
(* Texts whose vectors score at least the deduplication threshold are      *)
(* related by Similar.                                                     *)
(***************************************************************************)
EXTENDS Naturals, FiniteSets

CONSTANTS
    Handlers,     \* tool calls, each one goroutine used once
    Namespaces,
    Texts,
    Similar,      \* pairs of texts that are semantic duplicates
    NumStripes,   \* mutationStripeCount
    Stripe,       \* Stripe[ns]: mutationStripe(ns)
    LifeArgs,     \* lifecycle arguments of the calls, None when omitted
    MaxBatch,     \* bound: items of one import_facts
    None

ASSUME NoneAssumption == None \notin Handlers
ASSUME StripeAssumption ==
    NumStripes \in Nat /\ Stripe \in [Namespaces -> 0 .. (NumStripes - 1)]
ASSUME SimilarAssumption ==
    Similar \subseteq Texts \X Texts
    /\ \A s, t \in Texts : <<s, t>> \in Similar <=> <<t, s>> \in Similar
ASSUME BatchAssumption == MaxBatch \in Nat

Ids == Namespaces \X Texts
Stripes == {Stripe[ns] : ns \in Namespaces}
Lives == {"current", "superseded"}

\* What the tools tell apart in a payload.  by and vetted are observers: the
\* call that wrote the payload, and whether it is a new fact whose duplicate
\* search had succeeded.
Payloads == [active : BOOLEAN, life : Lives, by : Handlers \cup {None},
             vetted : BOOLEAN]

ASSUME PayloadAssumption == None \notin Payloads
ASSUME LifeAssumption == LifeArgs \subseteq Lives \cup {None}

VARIABLES
    points,   \* points[id]: the payload stored under id, or None
    holder,   \* holder[s]: the call that holds stripe s, or None
    pc,       \* pc[h]: where the call h is
    op,       \* op[h]: the tool
    life,     \* life[h]: the lifecycle argument, None when omitted
    items,    \* items[h]: facts store_fact or import_facts still has to add
    old,      \* old[h]: the ID of the fact to change, or None
    new,      \* new[h]: the ID to write, or None
    need,     \* need[h]: stripes still to be locked
    snap,     \* snap[h]: payload of old[h] read under the lock, or None
    vet       \* vet[h]: the duplicate search succeeded

callVars == <<op, life, items, old, new>>
lockVars == <<holder, need>>
readVars == <<snap, vet>>
vars == <<points, holder, pc, op, life, items, old, new, need, snap, vet>>

TypeOK ==
    /\ points \in [Ids -> Payloads \cup {None}]
    /\ holder \in [Stripes -> Handlers \cup {None}]
    /\ pc \in [Handlers -> {"idle", "lock", "check", "search", "reread",
                            "target", "upsert", "deleteOld", "setLifecycle",
                            "delete", "unlock", "done"}]
    /\ op \in [Handlers -> {"none", "store", "update", "lifecycle", "delete"}]
    /\ life \in [Handlers -> Lives \cup {None}]
    /\ items \in [Handlers -> SUBSET Ids]
    /\ old \in [Handlers -> Ids \cup {None}]
    /\ new \in [Handlers -> Ids \cup {None}]
    /\ need \in [Handlers -> SUBSET Stripes]
    /\ snap \in [Handlers -> Payloads \cup {None}]
    /\ vet \in [Handlers -> BOOLEAN]

\* Facts of earlier runs: active, or quarantined by the maintenance workflow.
Earlier(active) ==
    [active |-> active, life |-> "current", by |-> None, vetted |-> FALSE]

Init ==
    /\ points \in [Ids -> {None, Earlier(TRUE), Earlier(FALSE)}]
    /\ holder = [s \in Stripes |-> None]
    /\ pc = [h \in Handlers |-> "idle"]
    /\ op = [h \in Handlers |-> "none"]
    /\ life = [h \in Handlers |-> None]
    /\ items = [h \in Handlers |-> {}]
    /\ old = [h \in Handlers |-> None]
    /\ new = [h \in Handlers |-> None]
    /\ need = [h \in Handlers |-> {}]
    /\ snap = [h \in Handlers |-> None]
    /\ vet = [h \in Handlers |-> FALSE]

------------------------------------------------------------------------------
Goto(h, state) == pc' = [pc EXCEPT ![h] = state]

\* Mutant: quarantined facts are not told apart.
Stored(id) == points[id] # None

Active(id) == points[id] # None /\ points[id].active

\* lockFactMutations: the stripes of the namespaces, in ascending order.
\* Mutant: the namespace is used where its stripe is meant.
NamespacesOf(ids) == {id[1] : id \in ids}

StripesOf(ids) == {Stripe[id[1]] : id \in ids}

\* Mutant: the old namespace is locked before the new one.
OldFirst(h) ==
    IF op[h] = "update" /\ Stripe[old[h][1]] \in need[h]
    THEN Stripe[old[h][1]]
    ELSE CHOOSE s \in need[h] : \A t \in need[h] : s <= t

LowestNeeded(h) == CHOOSE s \in need[h] : \A t \in need[h] : s <= t

Lock(h) ==
    /\ pc[h] = "lock"
    /\ holder[LowestNeeded(h)] = None
    /\ holder' = [holder EXCEPT ![LowestNeeded(h)] = h]
    /\ need' = [need EXCEPT ![h] = @ \ {LowestNeeded(h)}]
    /\ Goto(h, IF need[h] # {LowestNeeded(h)} THEN "lock"
               ELSE IF op[h] = "store" THEN "check" ELSE "reread")
    /\ UNCHANGED <<points, callVars, readVars>>

------------------------------------------------------------------------------
(* store_fact (one item) and import_facts (a batch, one lock per item).    *)

\* Mutant: the item is added without the lock.
StartItemUnlocked(h, id) ==
    /\ new' = [new EXCEPT ![h] = id]
    /\ need' = [need EXCEPT ![h] = {}]
    /\ Goto(h, "check")

StartItem(h, id) ==
    /\ new' = [new EXCEPT ![h] = id]
    /\ need' = [need EXCEPT ![h] = StripesOf({id})]
    /\ Goto(h, "lock")

BeginStore(h, ids, state) ==
    /\ pc[h] = "idle"
    /\ op' = [op EXCEPT ![h] = "store"]
    /\ life' = [life EXCEPT ![h] = state]
    /\ \E id \in ids :
          /\ items' = [items EXCEPT ![h] = ids \ {id}]
          /\ StartItem(h, id)
    /\ UNCHANGED <<points, holder, old, readVars>>

\* checkDeterministicPoint: an existing fact, active or not, is a collision.
CheckDeterministicPoint(h) ==
    /\ pc[h] = "check"
    /\ Goto(h, IF points[new[h]] = None THEN "search" ELSE "unlock")
    /\ UNCHANGED <<points, lockVars, callVars, readVars>>

\* The active facts of the namespace above the threshold, new[h] apart.
Candidates(h) ==
    {id \in Ids : /\ id # new[h] /\ id[1] = new[h][1]
                  /\ <<id[2], new[h][2]>> \in Similar
                  /\ Active(id)}

\* selectRelatedCandidates: every fact that is not superseded blocks.
IsDuplicate(id) == points[id].life # "superseded"

\* The search may fail, and the write goes on without it; a window full of
\* superseded facts is inconclusive.
SearchDuplicates(h) ==
    /\ pc[h] = "search"
    /\ \/ /\ \A id \in Candidates(h) : ~IsDuplicate(id)
          /\ vet' = [vet EXCEPT ![h] = TRUE]
          /\ Goto(h, "upsert")
       \/ /\ Candidates(h) # {}                    \* duplicate, inconclusive
          /\ Goto(h, "unlock")
          /\ UNCHANGED vet
       \/ /\ vet' = [vet EXCEPT ![h] = FALSE]      \* fail-open
          /\ Goto(h, "upsert")
    /\ UNCHANGED <<points, lockVars, callVars, snap>>

------------------------------------------------------------------------------
(* update_fact, set_fact_lifecycle, delete_fact: mutationTarget finds an   *)
(* active fact, by ID or by meaning, before anything is locked.            *)

\* update_fact locks the namespaces of both IDs.  Mutants: only the new, or
\* only the old one.
NewNamespace(from, to) == StripesOf({to})
OldNamespace(from, to) == StripesOf({from})

BothNamespaces(from, to) == StripesOf({from, to})

BeginUpdate(h, from, to, state) ==
    /\ pc[h] = "idle"
    /\ Active(from)
    /\ op' = [op EXCEPT ![h] = "update"]
    /\ life' = [life EXCEPT ![h] = state]
    /\ old' = [old EXCEPT ![h] = from]
    /\ new' = [new EXCEPT ![h] = to]
    /\ need' = [need EXCEPT ![h] = BothNamespaces(from, to)]
    /\ Goto(h, "lock")
    /\ UNCHANGED <<points, holder, items, readVars>>

BeginLifecycle(h, id, state) ==
    /\ pc[h] = "idle"
    /\ Active(id)
    /\ op' = [op EXCEPT ![h] = "lifecycle"]
    /\ life' = [life EXCEPT ![h] = state]
    /\ old' = [old EXCEPT ![h] = id]
    /\ need' = [need EXCEPT ![h] = StripesOf({id})]
    /\ Goto(h, "lock")
    /\ UNCHANGED <<points, holder, items, new, readVars>>

BeginDelete(h, id) ==
    /\ pc[h] = "idle"
    /\ Active(id)
    /\ op' = [op EXCEPT ![h] = "delete"]
    /\ old' = [old EXCEPT ![h] = id]
    /\ need' = [need EXCEPT ![h] = StripesOf({id})]
    /\ Goto(h, "lock")
    /\ UNCHANGED <<points, holder, life, items, new, readVars>>

\* Under the lock the target is read again: it may be gone by now.
AfterReread(h) ==
    CASE op[h] = "update" -> IF new[h] = old[h] THEN "upsert" ELSE "target"
      [] op[h] = "lifecycle" -> "setLifecycle"
      [] op[h] = "delete" -> "delete"

Reread(h) ==
    /\ pc[h] = "reread"
    /\ IF Active(old[h])
       THEN /\ snap' = [snap EXCEPT ![h] = points[old[h]]]
            /\ Goto(h, AfterReread(h))
       ELSE /\ Goto(h, "unlock")
            /\ UNCHANGED snap
    /\ UNCHANGED <<points, lockVars, callVars, vet>>

\* update_fact refuses to overwrite another fact with the new text's ID.
CheckTarget(h) ==
    /\ pc[h] = "target"
    /\ Goto(h, IF points[new[h]] = None THEN "upsert" ELSE "unlock")
    /\ UNCHANGED <<points, lockVars, callVars, readVars>>

\* A read fails, or the request's context is done before the write.
GiveUp(h) ==
    /\ \/ pc[h] \in {"check", "reread", "target"}
       \/ pc[h] = "upsert" /\ op[h] = "store"
    /\ Goto(h, "unlock")
    /\ UNCHANGED <<points, lockVars, callVars, readVars>>

------------------------------------------------------------------------------
(* The writes.  The call learns either that its write was applied, or an   *)
(* error that leaves open whether it was.                                  *)

NewPayload(h) ==
    IF op[h] = "store"
    THEN [active |-> TRUE, by |-> h, vetted |-> vet[h],
          life |-> IF life[h] = None THEN "current" ELSE life[h]]
    ELSE [snap[h] EXCEPT !.by = h, !.vetted = FALSE,
                         !.life = IF life[h] = None THEN @ ELSE life[h]]

Upsert(h) ==
    /\ pc[h] = "upsert"
    /\ \/ /\ points' = [points EXCEPT ![new[h]] = NewPayload(h)]
          /\ Goto(h, IF op[h] = "update" /\ new[h] # old[h]
                     THEN "deleteOld" ELSE "unlock")
       \/ /\ points' = [points EXCEPT ![new[h]] = NewPayload(h)]
          /\ Goto(h, "unlock")                     \* applied, error reported
       \/ /\ Goto(h, "unlock")                     \* not applied
          /\ UNCHANGED points
    /\ UNCHANGED <<lockVars, callVars, readVars>>

\* The last step of an update that moved the fact to another ID, and the
\* only write of delete_fact.
DeleteOld(h) ==
    /\ pc[h] \in {"deleteOld", "delete"}
    /\ points' \in {points, [points EXCEPT ![old[h]] = None]}
    /\ Goto(h, "unlock")
    /\ UNCHANGED <<lockVars, callVars, readVars>>

\* ReplaceLifecyclePayload changes the lifecycle keys of the stored point.
SetLifecycle(h) ==
    /\ pc[h] = "setLifecycle"
    /\ \/ points' = [points EXCEPT ![old[h]] =
                        IF @ = None THEN None
                        ELSE [@ EXCEPT !.life = life[h], !.by = h,
                                       !.vetted = FALSE]]
       \/ UNCHANGED points
    /\ Goto(h, "unlock")
    /\ UNCHANGED <<lockVars, callVars, readVars>>

\* The next item of the batch, or the end of the call, whose variables go.
Unlock(h) ==
    /\ pc[h] = "unlock"
    /\ holder' = [s \in Stripes |-> IF holder[s] = h THEN None ELSE holder[s]]
    /\ snap' = [snap EXCEPT ![h] = None]
    /\ vet' = [vet EXCEPT ![h] = FALSE]
    /\ \/ /\ \E id \in items[h] :
                /\ items' = [items EXCEPT ![h] = @ \ {id}]
                /\ StartItem(h, id)
          /\ UNCHANGED <<op, life, old>>
       \/ /\ items[h] = {}
          /\ Goto(h, "done")
          /\ op' = [op EXCEPT ![h] = "none"]
          /\ life' = [life EXCEPT ![h] = None]
          /\ old' = [old EXCEPT ![h] = None]
          /\ new' = [new EXCEPT ![h] = None]
          /\ UNCHANGED <<items, need>>
    /\ UNCHANGED points

------------------------------------------------------------------------------
Step(h) ==
    \/ Lock(h)
    \/ CheckDeterministicPoint(h) \/ SearchDuplicates(h)
    \/ Reread(h) \/ CheckTarget(h) \/ GiveUp(h)
    \/ Upsert(h) \/ DeleteOld(h) \/ SetLifecycle(h)
    \/ Unlock(h)

Begin(h) ==
    \/ \E ids \in SUBSET Ids, state \in LifeArgs :
          Cardinality(ids) <= MaxBatch /\ BeginStore(h, ids, state)
    \/ \E from, to \in Ids, state \in LifeArgs : BeginUpdate(h, from, to, state)
    \/ \E id \in Ids, state \in LifeArgs \ {None} : BeginLifecycle(h, id, state)
    \/ \E id \in Ids : BeginDelete(h, id)

Next == \E h \in Handlers : Begin(h) \/ Step(h)

Spec == Init /\ [][Next]_vars

------------------------------------------------------------------------------
(* Properties. *)

\* What a call read under its locks is what is stored when it writes: no
\* write of another tool is undone by a payload copied before it.
SnapshotIsCurrent ==
    \A h \in Handlers :
        pc[h] \in {"target", "upsert", "deleteOld", "setLifecycle", "delete"}
            /\ op[h] # "store"
        => points[old[h]] = snap[h]

\* No tool overwrites another fact: an ID found free is still free when the
\* point is written, for store_fact, import_facts and a moving update_fact.
TargetStillFree ==
    \A h \in Handlers :
        pc[h] = "upsert" /\ new[h] # old[h] => points[new[h]] = None

\* update_fact removes the old text only while the new one is stored, with
\* the lifecycle of the fact it replaces unless another one was asked for.
UpdateKeepsFact ==
    \A h \in Handlers :
        pc[h] = "deleteOld" =>
            /\ points[new[h]] # None
            /\ points[new[h]].by = h
            /\ life[h] = None => points[new[h]].life = points[old[h]].life

\* No tool writes over, or copies from, a fact that has changed since it read
\* it, and a move ends with the fact in its new place.
NoWriteIsLost == SnapshotIsCurrent /\ TargetStillFree /\ UpdateKeepsFact

\* The duplicate check and the write it allows are atomic in a namespace:
\* two similar facts added after successful searches are never both current.
NoDuplicateCurrent ==
    \A i, j \in Ids :
        /\ i # j /\ i[1] = j[1] /\ <<i[2], j[2]>> \in Similar
        /\ Active(i) /\ points[i].vetted /\ points[i].life = "current"
        /\ Active(j) /\ points[j].vetted
        => points[j].life # "current"

\* No write is lost, and no second current fact is added.
MutationsAreSound == NoWriteIsLost /\ NoDuplicateCurrent

\* Quarantined facts are changed by no tool.
QuarantineUntouched ==
    [][\A id \in Ids : points[id] # None /\ ~points[id].active
                           => points'[id] = points[id]]_vars

\* Calls that wait for stripes never all wait for each other: some call that
\* has begun can take its next step, even when two updates move facts between
\* the same namespaces in opposite directions.
NoCircularWait ==
    (\E h \in Handlers : pc[h] = "lock") =>
        \E h \in Handlers :
            /\ pc[h] \notin {"idle", "done"}
            /\ pc[h] = "lock" => holder[LowestNeeded(h)] = None
=============================================================================
