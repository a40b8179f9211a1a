------------------------ MODULE FactMutations_proofs ------------------------
(***************************************************************************)
(* Proofs about FactMutations for any number of calls, any namespaces and  *)
(* texts, any assignment of namespaces to stripes and any relation of      *)
(* similarity: under its locks a call works on what it has read.           *)
(***************************************************************************)
EXTENDS MCFactMutations, WellFoundedInduction, TLAPS

StripeOf(id) == Stripe[id[1]]

\* The facts that a call reads under its locks and may write.
Touched(h) ==
    IF op[h] = "store" THEN {new[h]}
    ELSE IF op[h] = "update" THEN {old[h], new[h]} ELSE {old[h]}

\* Where a call is after it has taken its locks and before it gives them up.
Working == {"check", "search", "reread", "target", "upsert", "deleteOld",
            "setLifecycle", "delete"}

\* Which steps a tool takes, and with which arguments.
ShapeInv(h) ==
    /\ pc[h] = "idle" => op[h] = "none"
    /\ op[h] # "store" => items[h] = {}
    /\ pc[h] \notin {"idle", "done"} =>
          \/ /\ op[h] = "store"
             /\ new[h] \in Ids
             /\ pc[h] \in {"lock", "check", "search", "upsert", "unlock"}
          \/ /\ op[h] = "update"
             /\ old[h] \in Ids /\ new[h] \in Ids
             /\ pc[h] \in {"lock", "reread", "target", "upsert", "deleteOld",
                           "unlock"}
          \/ /\ op[h] = "lifecycle"
             /\ old[h] \in Ids /\ life[h] \in Lives
             /\ pc[h] \in {"lock", "reread", "setLifecycle", "unlock"}
          \/ /\ op[h] = "delete"
             /\ old[h] \in Ids
             /\ pc[h] \in {"lock", "reread", "delete", "unlock"}
    /\ pc[h] \in {"target", "deleteOld"} => new[h] # old[h]

\* A call takes the stripes of what it touches, the lower one first, and has
\* them all while it works.
LockInv(h) ==
    /\ pc[h] \in {"idle", "done"} => \A s \in Stripes : holder[s] # h
    /\ pc[h] = "lock" =>
          /\ need[h] # {}
          /\ need[h] \subseteq {StripeOf(id) : id \in Touched(h)}
          /\ \A id \in Touched(h) :
                StripeOf(id) \in need[h] \/ holder[StripeOf(id)] = h
          /\ \A s \in Stripes, t \in need[h] : holder[s] = h => s < t
    /\ pc[h] \in Working => \A id \in Touched(h) : holder[StripeOf(id)] = h

\* The fact to change is active and as it was read.
SnapInv(h) ==
    pc[h] \in {"target", "upsert", "deleteOld", "setLifecycle", "delete"}
        /\ op[h] # "store" =>
        /\ points[old[h]] = snap[h]
        /\ snap[h] \in Payloads /\ snap[h].active /\ snap[h] # None

\* An ID that the call found free is free until it writes it.
FreeInv(h) ==
    /\ pc[h] = "search" => points[new[h]] = None
    /\ pc[h] = "upsert" /\ (op[h] = "store" \/ new[h] # old[h])
          => points[new[h]] = None

\* The moved fact is in its new place.
MoveInv(h) ==
    pc[h] = "deleteOld" =>
        /\ points[new[h]] \in Payloads /\ points[new[h]] # None
        /\ points[new[h]].by = h
        /\ life[h] = None => points[new[h]].life = snap[h].life

\* What the duplicate search has found remains so until the fact is added.
VetInv(h) ==
    pc[h] = "upsert" /\ op[h] = "store" /\ vet[h] =>
        \A id \in Ids :
            /\ id # new[h] /\ id[1] = new[h][1]
            /\ <<id[2], new[h][2]>> \in Similar
            /\ Active(id)
            => points[id].life = "superseded"

CallInv(h) ==
    /\ ShapeInv(h) /\ LockInv(h) /\ SnapInv(h)
    /\ FreeInv(h) /\ MoveInv(h) /\ VetInv(h)

\* The inductive invariant.
IInv == TypeOK /\ (\A h \in Handlers : CallInv(h)) /\ NoDuplicateCurrent

------------------------------------------------------------------------------
(* Other calls are left alone by whoever writes under its own locks.       *)

\* Call g keeps what it knows when another call changes facts whose stripe g
\* does not hold, and g's own state and stripes do not change.
OnlyIn(g) ==
    \A id \in Ids : holder[StripeOf(id)] = g => points'[id] = points[id]

SameCall(g) ==
    /\ pc'[g] = pc[g] /\ op'[g] = op[g] /\ life'[g] = life[g]
    /\ items'[g] = items[g] /\ old'[g] = old[g] /\ new'[g] = new[g]
    /\ need'[g] = need[g] /\ snap'[g] = snap[g] /\ vet'[g] = vet[g]
    /\ \A s \in Stripes : holder'[s] = g <=> holder[s] = g

LEMMA StripeFacts ==
  ASSUME NEW id \in Ids
  PROVE  StripeOf(id) \in Stripes /\ StripeOf(id) \in Nat
BY StripeAssumption DEF Ids, Stripes, StripeOf

\* What a call touches are IDs.
LEMMA TouchedAreIds ==
  ASSUME NEW h \in Handlers, ShapeInv(h), pc[h] \notin {"idle", "done"}
  PROVE  Touched(h) \subseteq Ids
BY DEF ShapeInv, Touched

LEMMA OthersKeep ==
  ASSUME IInv, NEW g \in Handlers, SameCall(g), OnlyIn(g)
  PROVE  CallInv(g)'
<1>1. CallInv(g)
  BY DEF IInv
<1>2. Touched(g)' = Touched(g)
  BY DEF SameCall, Touched
<1>3. ShapeInv(g)'
  BY <1>1 DEF CallInv, ShapeInv, SameCall
<1>4. LockInv(g)'
  <2>1. \A id \in Ids : StripeOf(id) \in Stripes /\ StripeOf(id)' = StripeOf(id)
    BY StripeFacts DEF StripeOf
  <2>2. pc[g] \notin {"idle", "done"} => Touched(g) \subseteq Ids
    BY <1>1, TouchedAreIds DEF CallInv
  <2>3. pc[g] = "lock" => LockInv(g)'
    BY <1>1, <1>2, <2>1, <2>2 DEF CallInv, LockInv, SameCall, Working
  <2>4. pc[g] # "lock" => LockInv(g)'
    BY <1>1, <1>2, <2>1, <2>2 DEF CallInv, LockInv, SameCall, Working
  <2>5. QED
    BY <2>3, <2>4
<1>5. pc[g] \in Working =>
        \A id \in Touched(g) : id \in Ids /\ holder[StripeOf(id)] = g
                               /\ points'[id] = points[id]
  BY <1>1, TouchedAreIds DEF CallInv, LockInv, OnlyIn, Working
<1>6. SnapInv(g)' /\ FreeInv(g)' /\ MoveInv(g)'
  <2>1. pc[g] \in Working /\ op[g] = "store" => points'[new[g]] = points[new[g]]
    BY <1>5 DEF Touched
  <2>2. pc[g] \in Working /\ op[g] = "update" =>
          points'[new[g]] = points[new[g]] /\ points'[old[g]] = points[old[g]]
    BY <1>5 DEF Touched
  <2>3. pc[g] \in Working /\ op[g] \in {"lifecycle", "delete"} =>
          points'[old[g]] = points[old[g]]
    BY <1>5 DEF Touched
  <2>4. QED
    BY <1>1, <2>1, <2>2, <2>3
       DEF CallInv, ShapeInv, SnapInv, FreeInv, MoveInv, SameCall, Working
<1>7. VetInv(g)'
  <2>1. SUFFICES ASSUME pc[g] = "upsert", op[g] = "store", vet[g], NEW id \in Ids,
                        id # new[g], id[1] = new[g][1],
                        <<id[2], new[g][2]>> \in Similar, Active(id)'
                 PROVE  points'[id].life = "superseded"
    BY DEF VetInv, SameCall
  <2>2. StripeOf(id) = StripeOf(new[g])
    BY <2>1 DEF StripeOf
  <2>3. holder[StripeOf(new[g])] = g
    BY <1>5, <2>1 DEF Touched, Working
  <2>4. points'[id] = points[id]
    BY <2>2, <2>3 DEF OnlyIn
  <2>5. QED
    BY <1>1, <2>1, <2>4 DEF CallInv, VetInv, Active
<1>8. QED
  BY <1>3, <1>4, <1>6, <1>7 DEF CallInv

\* A step of one call that changes no fact and no stripe.
LEMMA QuietStep ==
  ASSUME IInv, NEW h \in Handlers,
         UNCHANGED <<points, holder>>,
         TypeOK',
         \A g \in Handlers \ {h} : SameCall(g),
         CallInv(h)'
  PROVE  IInv'
<1>1. \A g \in Handlers \ {h} : CallInv(g)'
  BY OthersKeep DEF OnlyIn
<1>2. NoDuplicateCurrent'
  BY DEF IInv, NoDuplicateCurrent, Active
<1>3. QED
  BY <1>1, <1>2 DEF IInv

------------------------------------------------------------------------------
(* Init. *)

LEMMA InitInv == Init => IInv
<1> SUFFICES ASSUME Init PROVE IInv
  OBVIOUS
<1>1. TypeOK
  <2>1. Earlier(TRUE) \in Payloads /\ Earlier(FALSE) \in Payloads
    BY DEF Earlier, Payloads, Lives
  <2>2. points \in [Ids -> Payloads \cup {None}]
    BY <2>1 DEF Init
  <2>3. QED
    BY <2>2 DEF Init, TypeOK
<1>2. \A h \in Handlers : CallInv(h)
  BY NoneAssumption
     DEF Init, CallInv, ShapeInv, LockInv, SnapInv, FreeInv, MoveInv, VetInv,
         Working
<1>3. NoDuplicateCurrent
  <2>1. \A i \in Ids : points[i] \in {None, Earlier(TRUE), Earlier(FALSE)}
    BY DEF Init
  <2>2. \A i \in Ids : Active(i) => ~points[i].vetted
    BY <2>1 DEF Active, Earlier
  <2>3. QED
    BY <2>2 DEF NoDuplicateCurrent
<1>4. QED
  BY <1>1, <1>2, <1>3 DEF IInv

------------------------------------------------------------------------------
(* The calls begin. *)

LEMMA BeginStep ==
  ASSUME IInv, NEW h \in Handlers, Begin(h)
  PROVE  IInv'
<1> USE DEF lockVars, readVars
<1>1. TypeOK /\ CallInv(h) /\ pc[h] = "idle"
  BY DEF IInv, Begin, BeginStore, BeginUpdate, BeginLifecycle, BeginDelete
<1>2. \A s \in Stripes : holder[s] # h
  BY <1>1 DEF CallInv, LockInv
<1>3. op[h] = "none" /\ items[h] = {}
  BY <1>1 DEF CallInv, ShapeInv
<1>4. ASSUME NEW ids \in SUBSET Ids, NEW state \in LifeArgs,
             BeginStore(h, ids, state)
      PROVE  IInv'
  <2>1. PICK id \in ids :
          /\ items' = [items EXCEPT ![h] = ids \ {id}]
          /\ new' = [new EXCEPT ![h] = id]
          /\ need' = [need EXCEPT ![h] = StripesOf({id})]
          /\ pc' = [pc EXCEPT ![h] = "lock"]
    BY <1>4 DEF BeginStore, StartItem, Goto
  <2>2. /\ op' = [op EXCEPT ![h] = "store"] /\ life' = [life EXCEPT ![h] = state]
        /\ UNCHANGED <<points, holder, old, snap, vet>>
    BY <1>4 DEF BeginStore
  <2>3. StripesOf({id}) = {StripeOf(id)} /\ StripeOf(id) \in Stripes /\ id \in Ids
    BY StripeFacts DEF StripesOf, StripeOf
  <2>4. TypeOK'
    BY <1>1, <2>1, <2>2, <2>3, LifeAssumption DEF TypeOK
  <2>5. \A g \in Handlers \ {h} : SameCall(g)
    BY <1>1, <2>1, <2>2 DEF SameCall, TypeOK
  <2>6. /\ pc'[h] = "lock" /\ op'[h] = "store" /\ new'[h] = id
        /\ need'[h] = {StripeOf(id)}
    BY <1>1, <2>1, <2>2, <2>3 DEF TypeOK
  <2>7. CallInv(h)'
    BY <1>2, <2>2, <2>3, <2>6
       DEF CallInv, ShapeInv, LockInv, SnapInv, FreeInv, MoveInv, VetInv,
           Working, Touched, StripeOf
  <2>8. QED
    BY <2>2, <2>4, <2>5, <2>7, QuietStep
<1>5. ASSUME NEW from \in Ids, NEW to \in Ids, NEW state \in LifeArgs,
             BeginUpdate(h, from, to, state)
      PROVE  IInv'
  <2>1. /\ op' = [op EXCEPT ![h] = "update"] /\ life' = [life EXCEPT ![h] = state]
        /\ old' = [old EXCEPT ![h] = from] /\ new' = [new EXCEPT ![h] = to]
        /\ need' = [need EXCEPT ![h] = StripesOf({from, to})]
        /\ pc' = [pc EXCEPT ![h] = "lock"]
        /\ UNCHANGED <<points, holder, items, snap, vet>>
    BY <1>5 DEF BeginUpdate, BothNamespaces, Goto
  <2>2. /\ StripesOf({from, to}) = {StripeOf(from), StripeOf(to)}
        /\ StripeOf(from) \in Stripes /\ StripeOf(to) \in Stripes
    BY StripeFacts DEF StripesOf, StripeOf
  <2>3. TypeOK'
    BY <1>1, <2>1, <2>2, LifeAssumption DEF TypeOK
  <2>4. \A g \in Handlers \ {h} : SameCall(g)
    BY <1>1, <2>1 DEF SameCall, TypeOK
  <2>5. /\ pc'[h] = "lock" /\ op'[h] = "update" /\ old'[h] = from
        /\ new'[h] = to /\ need'[h] = {StripeOf(from), StripeOf(to)}
        /\ items'[h] = {}
    BY <1>1, <1>3, <2>1, <2>2 DEF TypeOK
  <2>6. CallInv(h)'
    BY <1>2, <2>1, <2>2, <2>5
       DEF CallInv, ShapeInv, LockInv, SnapInv, FreeInv, MoveInv, VetInv,
           Working, Touched, StripeOf
  <2>7. QED
    BY <2>1, <2>3, <2>4, <2>6, QuietStep
<1>6. ASSUME NEW id \in Ids, NEW kind \in {"lifecycle", "delete"},
             op' = [op EXCEPT ![h] = kind],
             old' = [old EXCEPT ![h] = id],
             need' = [need EXCEPT ![h] = StripesOf({id})],
             pc' = [pc EXCEPT ![h] = "lock"],
             \/ \E state \in LifeArgs \ {None} : life' = [life EXCEPT ![h] = state]
             \/ kind = "delete" /\ UNCHANGED life,
             UNCHANGED <<points, holder, items, new, snap, vet>>
      PROVE  IInv'
  <2>1. StripesOf({id}) = {StripeOf(id)} /\ StripeOf(id) \in Stripes
    BY StripeFacts DEF StripesOf, StripeOf
  <2>2. TypeOK'
    <3>1. life' \in [Handlers -> Lives \cup {None}]
      BY <1>1, <1>6, LifeAssumption DEF TypeOK
    <3>2. /\ op' \in [Handlers -> {"none", "store", "update", "lifecycle", "delete"}]
          /\ old' \in [Handlers -> Ids \cup {None}]
          /\ need' \in [Handlers -> SUBSET Stripes]
      BY <1>1, <1>6, <2>1 DEF TypeOK
    <3>3. QED
      BY <1>1, <1>6, <3>1, <3>2 DEF TypeOK
  <2>3. \A g \in Handlers \ {h} : SameCall(g)
    BY <1>1, <1>6 DEF SameCall, TypeOK
  <2>4. /\ pc'[h] = "lock" /\ op'[h] = kind /\ old'[h] = id
        /\ need'[h] = {StripeOf(id)} /\ items'[h] = {}
        /\ kind = "lifecycle" => life'[h] \in Lives
    BY <1>1, <1>3, <1>6, <2>1, LifeAssumption DEF TypeOK
  <2>5. CallInv(h)'
    BY <1>2, <1>6, <2>1, <2>4
       DEF CallInv, ShapeInv, LockInv, SnapInv, FreeInv, MoveInv, VetInv,
           Working, Touched, StripeOf
  <2>6. QED
    BY <1>6, <2>2, <2>3, <2>5, QuietStep
<1>7. ASSUME NEW id \in Ids, NEW state \in LifeArgs \ {None},
             BeginLifecycle(h, id, state)
      PROVE  IInv'
  BY <1>6, <1>7 DEF BeginLifecycle, Goto
<1>8. ASSUME NEW id \in Ids, BeginDelete(h, id)
      PROVE  IInv'
  BY <1>6, <1>8 DEF BeginDelete, Goto
<1>9. QED
  BY <1>4, <1>5, <1>7, <1>8 DEF Begin

------------------------------------------------------------------------------
(* The locks. *)

\* One or two stripes have a lowest one.
LEMMA LowestIsLeast ==
  ASSUME NEW h \in Handlers, CallInv(h), pc[h] = "lock"
  PROVE  /\ LowestNeeded(h) \in need[h]
         /\ \A t \in need[h] : LowestNeeded(h) <= t
         /\ need[h] \subseteq Stripes /\ need[h] \subseteq Nat
<1>1. PICK i \in Ids, j \in Ids : Touched(h) = {i, j}
  BY DEF CallInv, ShapeInv, Touched
<1>2. need[h] # {} /\ need[h] \subseteq {StripeOf(i), StripeOf(j)}
  BY <1>1 DEF CallInv, LockInv
<1>3. /\ StripeOf(i) \in Nat /\ StripeOf(j) \in Nat
      /\ StripeOf(i) \in Stripes /\ StripeOf(j) \in Stripes
  BY StripeFacts
<1>4. \E s \in need[h] : \A t \in need[h] : s <= t
  <2>1. StripeOf(i) <= StripeOf(j) \/ StripeOf(j) <= StripeOf(i)
    BY <1>3
  <2>2. QED
    BY <1>2, <1>3, <2>1
<1>5. QED
  BY <1>2, <1>3, <1>4 DEF LowestNeeded

LEMMA LockStep ==
  ASSUME IInv, NEW h \in Handlers, Lock(h)
  PROVE  IInv'
<1> DEFINE low == LowestNeeded(h)
<1> USE DEF callVars, readVars
<1>1. /\ pc[h] = "lock" /\ holder[low] = None
      /\ holder' = [holder EXCEPT ![low] = h]
      /\ need' = [need EXCEPT ![h] = need[h] \ {low}]
      /\ pc' = [pc EXCEPT ![h] =
                   IF need[h] # {low} THEN "lock"
                   ELSE IF op[h] = "store" THEN "check" ELSE "reread"]
      /\ UNCHANGED <<points, op, life, items, old, new, snap, vet>>
  BY DEF Lock, Goto
<1>2. TypeOK /\ CallInv(h)
  BY DEF IInv
<1>3. /\ low \in need[h] /\ \A t \in need[h] : low <= t
      /\ need[h] \subseteq Stripes /\ need[h] \subseteq Nat
  BY <1>1, <1>2, LowestIsLeast
<1> HIDE DEF low
<1>4. /\ holder'[low] = h
      /\ \A s \in Stripes : s # low => holder'[s] = holder[s]
      /\ need'[h] = need[h] \ {low}
  BY <1>1, <1>2, <1>3 DEF TypeOK
<1>5. TypeOK'
  BY <1>1, <1>2, <1>3 DEF TypeOK
<1>6. \A g \in Handlers \ {h} : SameCall(g)
  BY <1>1, <1>2, <1>4, NoneAssumption DEF SameCall, TypeOK
<1>7. Touched(h) \subseteq Ids /\ Touched(h)' = Touched(h)
  BY <1>1, <1>2, TouchedAreIds DEF CallInv, Touched
<1>8. \A id \in Ids : StripeOf(id) \in Stripes /\ StripeOf(id)' = StripeOf(id)
  BY StripeFacts DEF StripeOf
<1>9. \A id \in Touched(h) :
         StripeOf(id) \in need[h] \ {low} \/ holder'[StripeOf(id)] = h
  BY <1>1, <1>2, <1>4, <1>7, <1>8 DEF CallInv, LockInv
<1>10. CASE need[h] # {low}
  <2>1. pc'[h] = "lock"
    BY <1>1, <1>2, <1>10 DEF TypeOK
  <2>2. need'[h] # {} /\ need'[h] \subseteq {StripeOf(id) : id \in Touched(h)}
    BY <1>1, <1>2, <1>3, <1>4, <1>10 DEF CallInv, LockInv
  <2>3. ASSUME NEW s \in Stripes, NEW t \in need'[h], holder'[s] = h
        PROVE  s < t
    <3>1. CASE s = low
      BY <1>3, <1>4, <3>1
    <3>2. CASE s # low
      BY <1>1, <1>2, <1>4, <2>3, <3>2 DEF CallInv, LockInv
    <3>3. QED
      BY <3>1, <3>2
  <2>4. LockInv(h)'
    BY <1>4, <1>7, <1>8, <1>9, <2>1, <2>2, <2>3 DEF LockInv, Working
  <2>5. CallInv(h)'
    BY <1>1, <1>2, <2>1, <2>4
       DEF CallInv, ShapeInv, SnapInv, FreeInv, MoveInv, VetInv
  <2>6. QED
    BY <1>1, <1>5, <1>6, <2>5, OthersKeep
       DEF IInv, OnlyIn, NoDuplicateCurrent, Active
<1>11. CASE need[h] = {low}
  <2>1. pc'[h] = IF op[h] = "store" THEN "check" ELSE "reread"
    BY <1>1, <1>2, <1>11 DEF TypeOK
  <2>2. LockInv(h)'
    BY <1>7, <1>8, <1>9, <1>11, <2>1 DEF LockInv, Working
  <2>3. ShapeInv(h)'
    BY <1>1, <1>2, <2>1 DEF CallInv, ShapeInv
  <2>4. CallInv(h)'
    BY <1>1, <2>1, <2>2, <2>3
       DEF CallInv, SnapInv, FreeInv, MoveInv, VetInv
  <2>5. QED
    BY <1>1, <1>5, <1>6, <2>4, OthersKeep
       DEF IInv, OnlyIn, NoDuplicateCurrent, Active
<1>12. QED
  BY <1>10, <1>11

LEMMA UnlockStep ==
  ASSUME IInv, NEW h \in Handlers, Unlock(h)
  PROVE  IInv'
<1>1. /\ pc[h] = "unlock"
      /\ holder' = [s \in Stripes |-> IF holder[s] = h THEN None ELSE holder[s]]
      /\ snap' = [snap EXCEPT ![h] = None] /\ vet' = [vet EXCEPT ![h] = FALSE]
      /\ UNCHANGED points
  BY DEF Unlock
<1>2. TypeOK /\ CallInv(h)
  BY DEF IInv
<1>3. \A s \in Stripes : /\ holder'[s] # h
                         /\ \A g \in Handlers \ {h} : holder'[s] = g <=> holder[s] = g
  BY <1>1, NoneAssumption
<1>4. /\ holder' \in [Stripes -> Handlers \cup {None}]
      /\ snap' \in [Handlers -> Payloads \cup {None}]
      /\ vet' \in [Handlers -> BOOLEAN]
  BY <1>1, <1>2 DEF TypeOK
<1>5. ASSUME TypeOK', CallInv(h)', \A g \in Handlers \ {h} : SameCall(g)
      PROVE  IInv'
  BY <1>1, <1>5, OthersKeep DEF IInv, OnlyIn, NoDuplicateCurrent, Active
<1>6. CASE \E id \in items[h] :
              /\ items' = [items EXCEPT ![h] = @ \ {id}]
              /\ StartItem(h, id)
              /\ UNCHANGED <<op, life, old>>
  <2>1. PICK id \in items[h] :
          /\ items' = [items EXCEPT ![h] = items[h] \ {id}]
          /\ new' = [new EXCEPT ![h] = id]
          /\ need' = [need EXCEPT ![h] = StripesOf({id})]
          /\ pc' = [pc EXCEPT ![h] = "lock"]
          /\ UNCHANGED <<op, life, old>>
    BY <1>6 DEF StartItem, Goto
  <2>2. id \in Ids /\ op[h] = "store"
    BY <1>2, <2>1 DEF TypeOK, CallInv, ShapeInv
  <2>3. StripesOf({id}) = {StripeOf(id)} /\ StripeOf(id) \in Stripes
    BY <2>2, StripeFacts DEF StripesOf, StripeOf
  <2>4. TypeOK'
    BY <1>1, <1>2, <1>4, <2>1, <2>2, <2>3 DEF TypeOK
  <2>5. /\ pc'[h] = "lock" /\ op'[h] = "store" /\ new'[h] = id
        /\ need'[h] = {StripeOf(id)}
    BY <1>2, <2>1, <2>2, <2>3 DEF TypeOK
  <2>6. CallInv(h)'
    BY <1>3, <2>2, <2>3, <2>5
       DEF CallInv, ShapeInv, LockInv, SnapInv, FreeInv, MoveInv, VetInv,
           Working, Touched, StripeOf
  <2>7. \A g \in Handlers \ {h} : SameCall(g)
    BY <1>1, <1>2, <1>3, <2>1 DEF SameCall, TypeOK
  <2>8. QED
    BY <1>5, <2>4, <2>6, <2>7
<1>7. CASE /\ items[h] = {} /\ Goto(h, "done")
           /\ op' = [op EXCEPT ![h] = "none"] /\ life' = [life EXCEPT ![h] = None]
           /\ old' = [old EXCEPT ![h] = None] /\ new' = [new EXCEPT ![h] = None]
           /\ UNCHANGED <<items, need>>
  <2>1. TypeOK'
    BY <1>1, <1>2, <1>4, <1>7 DEF TypeOK, Goto
  <2>2. pc'[h] = "done" /\ op'[h] = "none" /\ items'[h] = {}
    BY <1>2, <1>7 DEF TypeOK, Goto
  <2>3. CallInv(h)'
    BY <1>3, <2>2
       DEF CallInv, ShapeInv, LockInv, SnapInv, FreeInv, MoveInv, VetInv,
           Working
  <2>4. \A g \in Handlers \ {h} : SameCall(g)
    BY <1>1, <1>2, <1>3, <1>7 DEF SameCall, TypeOK, Goto
  <2>5. QED
    BY <1>5, <2>1, <2>3, <2>4
<1>8. QED
  BY <1>6, <1>7 DEF Unlock

------------------------------------------------------------------------------
(* The reads. *)

\* A call goes on to another of its steps and keeps its locks.
LEMMA StepOn ==
  ASSUME IInv, NEW h \in Handlers, pc[h] \in Working,
         NEW to \in Working \cup {"unlock"}, pc' = [pc EXCEPT ![h] = to],
         UNCHANGED <<points, holder, need, op, life, items, old, new>>,
         snap' \in [Handlers -> Payloads \cup {None}],
         vet' \in [Handlers -> BOOLEAN],
         \A g \in Handlers \ {h} : snap'[g] = snap[g] /\ vet'[g] = vet[g],
         ShapeInv(h)', SnapInv(h)', FreeInv(h)', MoveInv(h)', VetInv(h)'
  PROVE  IInv'
<1>1. TypeOK /\ CallInv(h)
  BY DEF IInv
<1>2. TypeOK'
  BY <1>1 DEF TypeOK, Working
<1>3. pc'[h] = to /\ \A g \in Handlers \ {h} : pc'[g] = pc[g]
  BY <1>1 DEF TypeOK
<1>4. LockInv(h)'
  BY <1>1, <1>3 DEF CallInv, LockInv, Working, Touched, StripeOf
<1>5. \A g \in Handlers \ {h} : SameCall(g)
  BY <1>3 DEF SameCall
<1>6. QED
  BY <1>2, <1>4, <1>5, QuietStep DEF CallInv

LEMMA CheckStep ==
  ASSUME IInv, NEW h \in Handlers, CheckDeterministicPoint(h) \/ CheckTarget(h)
  PROVE  IInv'
<1> DEFINE to == IF points[new[h]] # None THEN "unlock"
                 ELSE IF pc[h] = "check" THEN "search" ELSE "upsert"
<1>1. /\ pc[h] \in {"check", "target"} /\ pc' = [pc EXCEPT ![h] = to]
      /\ UNCHANGED <<points, holder, need, op, life, items, old, new, snap, vet>>
  BY DEF CheckDeterministicPoint, CheckTarget, Goto, lockVars, callVars, readVars
<1>2. TypeOK /\ CallInv(h)
  BY DEF IInv
<1>3. pc'[h] = to /\ to \in Working \cup {"unlock"}
  BY <1>1, <1>2 DEF TypeOK, Working
<1>4. /\ pc[h] = "check" => op[h] = "store"
      /\ pc[h] = "target" => op[h] = "update"
  BY <1>2 DEF CallInv, ShapeInv
<1>5. ShapeInv(h)' /\ SnapInv(h)' /\ FreeInv(h)' /\ MoveInv(h)' /\ VetInv(h)'
  BY <1>1, <1>2, <1>3, <1>4
     DEF CallInv, ShapeInv, SnapInv, FreeInv, MoveInv, VetInv
<1>6. pc[h] \in Working /\ snap' \in [Handlers -> Payloads \cup {None}]
      /\ vet' \in [Handlers -> BOOLEAN]
  BY <1>1, <1>2 DEF Working, TypeOK
<1>7. QED
  BY <1>1, <1>3, <1>5, <1>6, StepOn

LEMMA SearchStep ==
  ASSUME IInv, NEW h \in Handlers, SearchDuplicates(h)
  PROVE  IInv'
<1>1. /\ pc[h] = "search"
      /\ UNCHANGED <<points, holder, need, op, life, items, old, new, snap>>
  BY DEF SearchDuplicates, lockVars, callVars
<1>2. TypeOK /\ CallInv(h)
  BY DEF IInv
<1>3. op[h] = "store" /\ points[new[h]] = None /\ new[h] \in Ids
  BY <1>1, <1>2 DEF CallInv, ShapeInv, FreeInv
<1>4. ASSUME NEW to \in {"upsert", "unlock"}, pc' = [pc EXCEPT ![h] = to],
             NEW b \in BOOLEAN, vet' = [vet EXCEPT ![h] = b] \/ UNCHANGED vet,
             VetInv(h)'
      PROVE  IInv'
  <2>1. pc'[h] = to
    BY <1>2, <1>4 DEF TypeOK
  <2>2. ShapeInv(h)' /\ SnapInv(h)' /\ FreeInv(h)' /\ MoveInv(h)'
    BY <1>1, <1>2, <1>3, <2>1
       DEF CallInv, ShapeInv, SnapInv, FreeInv, MoveInv
  <2>3. /\ pc[h] \in Working /\ to \in Working \cup {"unlock"}
        /\ snap' \in [Handlers -> Payloads \cup {None}]
        /\ vet' \in [Handlers -> BOOLEAN]
        /\ \A g \in Handlers \ {h} : snap'[g] = snap[g] /\ vet'[g] = vet[g]
    BY <1>1, <1>2, <1>4 DEF Working, TypeOK
  <2>4. QED
    BY <1>1, <1>4, <2>2, <2>3, StepOn
<1>5. CASE /\ \A id \in Candidates(h) : ~IsDuplicate(id)
           /\ vet' = [vet EXCEPT ![h] = TRUE] /\ Goto(h, "upsert")
  <2>1. VetInv(h)'
    <3>1. SUFFICES ASSUME NEW id \in Ids, id # new[h], id[1] = new[h][1],
                          <<id[2], new[h][2]>> \in Similar, Active(id)
                   PROVE  points[id].life = "superseded"
      BY <1>1 DEF VetInv, Active
    <3>2. id \in Candidates(h)
      BY <3>1 DEF Candidates
    <3>3. QED
      BY <1>5, <3>2 DEF IsDuplicate
  <2>2. QED
    BY <1>4, <1>5, <2>1 DEF Goto
<1>6. CASE Goto(h, "unlock") /\ UNCHANGED vet
  <2>1. VetInv(h)'
    BY <1>2, <1>6 DEF VetInv, Goto, TypeOK
  <2>2. QED
    BY <1>4, <1>6, <2>1 DEF Goto
<1>7. CASE vet' = [vet EXCEPT ![h] = FALSE] /\ Goto(h, "upsert")
  <2>1. VetInv(h)'
    BY <1>2, <1>7 DEF VetInv, TypeOK
  <2>2. QED
    BY <1>4, <1>7, <2>1 DEF Goto
<1>8. QED
  BY <1>5, <1>6, <1>7 DEF SearchDuplicates

LEMMA RereadStep ==
  ASSUME IInv, NEW h \in Handlers, Reread(h)
  PROVE  IInv'
<1>1. /\ pc[h] = "reread"
      /\ UNCHANGED <<points, holder, need, op, life, items, old, new, vet>>
  BY DEF Reread, lockVars, callVars
<1>2. TypeOK /\ CallInv(h)
  BY DEF IInv
<1>3. /\ op[h] \in {"update", "lifecycle", "delete"}
      /\ old[h] \in Ids
      /\ op[h] = "lifecycle" => life[h] \in Lives
  BY <1>1, <1>2 DEF CallInv, ShapeInv
<1>4. CASE Active(old[h])
  <2> DEFINE to == AfterReread(h)
  <2>1. snap' = [snap EXCEPT ![h] = points[old[h]]] /\ pc' = [pc EXCEPT ![h] = to]
    BY <1>4 DEF Reread, Goto
  <2>2. to = IF op[h] = "update"
             THEN IF new[h] = old[h] THEN "upsert" ELSE "target"
             ELSE IF op[h] = "lifecycle" THEN "setLifecycle" ELSE "delete"
    <3>1. CASE op[h] = "update"
      BY <3>1 DEF AfterReread
    <3>2. CASE op[h] = "lifecycle"
      BY <3>2 DEF AfterReread
    <3>3. CASE op[h] = "delete"
      BY <3>3 DEF AfterReread
    <3>4. QED
      BY <1>3, <3>1, <3>2, <3>3
  <2> HIDE DEF to
  <2>3. points[old[h]] \in Payloads /\ points[old[h]].active /\ points[old[h]] # None
    <3>1. points[old[h]].active /\ points[old[h]] # None
      BY <1>4 DEF Active
    <3>2. points[old[h]] \in Payloads \cup {None}
      BY <1>2, <1>3 DEF TypeOK
    <3>3. QED
      BY <3>1, <3>2
  <2>4. /\ pc'[h] = to /\ snap'[h] = points[old[h]]
        /\ \A g \in Handlers \ {h} : snap'[g] = snap[g]
        /\ snap' \in [Handlers -> Payloads \cup {None}]
    BY <1>2, <2>1, <2>3 DEF TypeOK
  <2>5. ShapeInv(h)'
    BY <1>1, <1>2, <1>3, <2>2, <2>4 DEF CallInv, ShapeInv
  <2>6. SnapInv(h)' /\ FreeInv(h)' /\ MoveInv(h)' /\ VetInv(h)'
    BY <1>1, <1>3, <2>2, <2>3, <2>4 DEF SnapInv, FreeInv, MoveInv, VetInv
  <2>7. pc[h] \in Working /\ to \in Working \cup {"unlock"}
        /\ vet' \in [Handlers -> BOOLEAN]
    BY <1>1, <1>2, <2>2 DEF Working, TypeOK
  <2>8. QED
    BY <1>1, <2>1, <2>4, <2>5, <2>6, <2>7, StepOn
<1>5. CASE ~Active(old[h])
  <2>1. pc' = [pc EXCEPT ![h] = "unlock"] /\ UNCHANGED snap
    BY <1>5 DEF Reread, Goto
  <2>2. pc'[h] = "unlock"
    BY <1>2, <2>1 DEF TypeOK
  <2>3. ShapeInv(h)' /\ SnapInv(h)' /\ FreeInv(h)' /\ MoveInv(h)' /\ VetInv(h)'
    BY <1>1, <1>2, <2>2
       DEF CallInv, ShapeInv, SnapInv, FreeInv, MoveInv, VetInv
  <2>4. /\ pc[h] \in Working /\ "unlock" \in Working \cup {"unlock"}
        /\ snap' \in [Handlers -> Payloads \cup {None}]
        /\ vet' \in [Handlers -> BOOLEAN]
    BY <1>1, <1>2, <2>1 DEF Working, TypeOK
  <2>5. QED
    BY <1>1, <2>1, <2>3, <2>4, StepOn
<1>6. QED
  BY <1>4, <1>5

LEMMA GiveUpStep ==
  ASSUME IInv, NEW h \in Handlers, GiveUp(h)
  PROVE  IInv'
<1>1. /\ pc[h] \in Working /\ pc' = [pc EXCEPT ![h] = "unlock"]
      /\ UNCHANGED <<points, holder, need, op, life, items, old, new, snap, vet>>
  BY DEF GiveUp, Goto, lockVars, callVars, readVars, Working
<1>2. TypeOK /\ CallInv(h)
  BY DEF IInv
<1>3. pc'[h] = "unlock"
  BY <1>1, <1>2 DEF TypeOK
<1>4. ShapeInv(h)' /\ SnapInv(h)' /\ FreeInv(h)' /\ MoveInv(h)' /\ VetInv(h)'
  BY <1>1, <1>2, <1>3
     DEF CallInv, ShapeInv, SnapInv, FreeInv, MoveInv, VetInv, Working
<1>5. /\ "unlock" \in Working \cup {"unlock"}
      /\ snap' \in [Handlers -> Payloads \cup {None}]
      /\ vet' \in [Handlers -> BOOLEAN]
  BY <1>1, <1>2 DEF TypeOK
<1>6. QED
  BY <1>1, <1>4, <1>5, StepOn

------------------------------------------------------------------------------
(* The writes. *)

\* A call writes one fact that it has locked, or fails to, and goes on.
LEMMA WriteOn ==
  ASSUME IInv, NEW h \in Handlers, pc[h] \in Working,
         NEW to \in {"deleteOld", "unlock"}, pc' = [pc EXCEPT ![h] = to],
         UNCHANGED <<holder, need, op, life, items, old, new, snap, vet>>,
         NEW id \in Touched(h), NEW p \in Payloads \cup {None},
         points' = [points EXCEPT ![id] = p],
         ShapeInv(h)', SnapInv(h)', FreeInv(h)', MoveInv(h)', VetInv(h)',
         NoDuplicateCurrent'
  PROVE  IInv'
<1>1. TypeOK /\ CallInv(h)
  BY DEF IInv
<1>2. id \in Ids /\ holder[StripeOf(id)] = h
  BY <1>1, TouchedAreIds DEF CallInv, LockInv, Working
<1>3. TypeOK'
  BY <1>1, <1>2 DEF TypeOK, Working
<1>4. pc'[h] = to /\ \A g \in Handlers \ {h} : pc'[g] = pc[g]
  BY <1>1 DEF TypeOK
<1>5. LockInv(h)'
  BY <1>1, <1>4 DEF CallInv, LockInv, Working, Touched, StripeOf
<1>6. \A g \in Handlers \ {h} : SameCall(g) /\ OnlyIn(g)
  <2>1. \A g \in Handlers \ {h} : SameCall(g)
    BY <1>4 DEF SameCall
  <2>2. \A g \in Handlers \ {h}, i \in Ids :
           holder[StripeOf(i)] = g => points'[i] = points[i]
    BY <1>1, <1>2 DEF TypeOK
  <2>3. QED
    BY <2>1, <2>2 DEF OnlyIn
<1>7. \A g \in Handlers \ {h} : CallInv(g)'
  BY <1>6, OthersKeep
<1>8. QED
  BY <1>3, <1>5, <1>7 DEF IInv, CallInv

\* Facts that are gone, or written by a tool that searched for no duplicate,
\* do not make two of one.
LEMMA UnvettedWrite ==
  ASSUME TypeOK, NoDuplicateCurrent, NEW id \in Ids, NEW p,
         p = None \/ ~p.vetted,
         points' = [points EXCEPT ![id] = p]
  PROVE  NoDuplicateCurrent'
<1>1. \A i \in Ids : points'[i] = IF i = id THEN p ELSE points[i]
  BY DEF TypeOK
<1>2. SUFFICES ASSUME NEW i \in Ids, NEW j \in Ids, i # j, i[1] = j[1],
                      <<i[2], j[2]>> \in Similar,
                      Active(i)', points'[i].vetted, points'[i].life = "current",
                      Active(j)', points'[j].vetted
               PROVE  points'[j].life # "current"
  BY DEF NoDuplicateCurrent
<1>3. i # id /\ j # id
  BY <1>1, <1>2 DEF Active
<1>4. points'[i] = points[i] /\ points'[j] = points[j]
  BY <1>1, <1>3
<1>5. QED
  BY <1>2, <1>4 DEF NoDuplicateCurrent, Active

\* A new fact whose search succeeded is the only current one of its kind.
LEMMA VettedWrite ==
  ASSUME TypeOK, NoDuplicateCurrent, NEW h \in Handlers, VetInv(h),
         pc[h] = "upsert", op[h] = "store", new[h] \in Ids,
         NEW p, p.vetted => vet[h],
         points' = [points EXCEPT ![new[h]] = p]
  PROVE  NoDuplicateCurrent'
<1>1. \A i \in Ids : points'[i] = IF i = new[h] THEN p ELSE points[i]
  BY DEF TypeOK
<1>2. SUFFICES ASSUME NEW i \in Ids, NEW j \in Ids, i # j, i[1] = j[1],
                      <<i[2], j[2]>> \in Similar,
                      Active(i)', points'[i].vetted, points'[i].life = "current",
                      Active(j)', points'[j].vetted
               PROVE  points'[j].life # "current"
  BY DEF NoDuplicateCurrent
<1>3. i[2] \in Texts /\ j[2] \in Texts
  BY DEF Ids
<1>4. <<j[2], i[2]>> \in Similar
  BY <1>2, <1>3, SimilarAssumption
<1>5. CASE i = new[h]
  <2>1. points'[j] = points[j] /\ Active(j) /\ vet[h]
    BY <1>1, <1>2, <1>5 DEF Active
  <2>2. points[j].life = "superseded"
    BY <1>2, <1>4, <1>5, <2>1 DEF VetInv
  <2>3. QED
    BY <2>1, <2>2
<1>6. CASE j = new[h]
  <2>1. points'[i] = points[i] /\ Active(i) /\ vet[h]
    BY <1>1, <1>2, <1>6 DEF Active
  <2>2. points[i].life = "superseded"
    BY <1>2, <1>6, <2>1 DEF VetInv
  <2>3. QED
    BY <1>2, <2>1, <2>2
<1>7. CASE i # new[h] /\ j # new[h]
  <2>1. points'[i] = points[i] /\ points'[j] = points[j]
    BY <1>1, <1>7
  <2>2. QED
    BY <1>2, <2>1 DEF NoDuplicateCurrent, Active
<1>8. QED
  BY <1>5, <1>6, <1>7

\* What update_fact writes.
LEMMA UpdatedPayload ==
  ASSUME TypeOK, NEW h \in Handlers, CallInv(h), pc[h] = "upsert",
         op[h] = "update"
  PROVE  /\ NewPayload(h) \in Payloads
         /\ NewPayload(h).by = h
         /\ ~NewPayload(h).vetted
         /\ life[h] = None => NewPayload(h).life = snap[h].life
<1>1. snap[h] \in Payloads
  BY DEF CallInv, SnapInv
<1>2. life[h] \in Lives \cup {None}
  BY DEF TypeOK
<1>3. NewPayload(h) = [snap[h] EXCEPT !.by = h, !.vetted = FALSE,
                           !.life = IF life[h] = None THEN @ ELSE life[h]]
  BY DEF NewPayload
<1>4. QED
  BY <1>1, <1>2, <1>3 DEF Payloads

\* What store_fact and import_facts write.
LEMMA AddedPayload ==
  ASSUME TypeOK, NEW h \in Handlers, op[h] = "store"
  PROVE  /\ NewPayload(h) \in Payloads
         /\ NewPayload(h).vetted => vet[h]
<1>1. life[h] \in Lives \cup {None} /\ vet[h] \in BOOLEAN
  BY DEF TypeOK
<1>2. NewPayload(h) =
         [active |-> TRUE, by |-> h, vetted |-> vet[h],
          life |-> IF life[h] = None THEN "current" ELSE life[h]]
  BY DEF NewPayload
<1>3. QED
  BY <1>1, <1>2 DEF Payloads, Lives

\* A write that is not applied.
LEMMA NothingWritten ==
  ASSUME IInv, NEW h \in Handlers,
         pc[h] \in {"upsert", "deleteOld", "delete", "setLifecycle"},
         pc' = [pc EXCEPT ![h] = "unlock"],
         UNCHANGED <<points, holder, need, op, life, items, old, new, snap, vet>>
  PROVE  IInv'
<1>1. TypeOK /\ CallInv(h)
  BY DEF IInv
<1>2. pc'[h] = "unlock"
  BY <1>1 DEF TypeOK
<1>3. ShapeInv(h)' /\ SnapInv(h)' /\ FreeInv(h)' /\ MoveInv(h)' /\ VetInv(h)'
  BY <1>1, <1>2
     DEF CallInv, ShapeInv, SnapInv, FreeInv, MoveInv, VetInv
<1>4. /\ pc[h] \in Working /\ "unlock" \in Working \cup {"unlock"}
      /\ snap' \in [Handlers -> Payloads \cup {None}]
      /\ vet' \in [Handlers -> BOOLEAN]
  BY <1>1 DEF Working, TypeOK
<1>5. QED
  BY <1>3, <1>4, StepOn

LEMMA UpsertStep ==
  ASSUME IInv, NEW h \in Handlers, Upsert(h)
  PROVE  IInv'
<1>1. /\ pc[h] = "upsert"
      /\ UNCHANGED <<holder, need, op, life, items, old, new, snap, vet>>
  BY DEF Upsert, lockVars, callVars, readVars
<1>2. TypeOK /\ CallInv(h) /\ NoDuplicateCurrent
  BY DEF IInv
<1>3. /\ op[h] \in {"store", "update"} /\ new[h] \in Ids
      /\ op[h] = "update" => old[h] \in Ids
      /\ new[h] \in Touched(h) /\ pc[h] \in Working
  BY <1>1, <1>2 DEF CallInv, ShapeInv, Touched, Working
<1>4. ASSUME points' = [points EXCEPT ![new[h]] = NewPayload(h)],
             NEW to \in {"deleteOld", "unlock"}, pc' = [pc EXCEPT ![h] = to],
             to = "deleteOld" => op[h] = "update" /\ new[h] # old[h]
      PROVE  IInv'
  <2>1. pc'[h] = to
    BY <1>2 , <1>4 DEF TypeOK
  <2>2. NewPayload(h) \in Payloads
    BY <1>1, <1>2, <1>3, UpdatedPayload, AddedPayload
  <2>3. NoDuplicateCurrent'
    <3>1. CASE op[h] = "store"
      BY <1>1, <1>2, <1>3, <1>4, <3>1, AddedPayload, VettedWrite DEF CallInv
    <3>2. CASE op[h] = "update"
      BY <1>1, <1>2, <1>3, <1>4, <3>2, UpdatedPayload, UnvettedWrite
    <3>3. QED
      BY <1>3, <3>1, <3>2
  <2>4. ShapeInv(h)' /\ FreeInv(h)' /\ VetInv(h)'
    BY <1>1, <1>2, <1>3, <1>4, <2>1 DEF CallInv, ShapeInv, FreeInv, VetInv
  <2>5. SnapInv(h)' /\ MoveInv(h)'
    <3>1. CASE to = "unlock"
      BY <2>1, <3>1 DEF SnapInv, MoveInv
    <3>2. CASE to = "deleteOld"
      <4>1. op[h] = "update" /\ new[h] # old[h] /\ old[h] \in Ids
        BY <1>3, <1>4, <3>2
      <4>2. points'[new[h]] = NewPayload(h) /\ points'[old[h]] = points[old[h]]
        BY <1>2, <1>3, <1>4, <4>1 DEF TypeOK
      <4>3. points[new[h]] = None /\ points[old[h]] = snap[h]
            /\ snap[h] \in Payloads /\ snap[h].active /\ snap[h] # None
        BY <1>1, <1>2, <4>1 DEF CallInv, FreeInv, SnapInv
      <4>4. NewPayload(h) # None
        BY <2>2, PayloadAssumption
      <4>5. SnapInv(h)'
        BY <1>1, <4>2, <4>3 DEF SnapInv
      <4>6. MoveInv(h)'
        BY <1>1, <1>2, <2>2, <4>1, <4>2, <4>4, UpdatedPayload DEF MoveInv
      <4>7. QED
        BY <4>5, <4>6
    <3>3. QED
      BY <1>4, <3>1, <3>2
  <2>6. QED
    BY <1>1, <1>3, <1>4, <2>2, <2>3, <2>4, <2>5, WriteOn
<1>5. CASE UNCHANGED points /\ Goto(h, "unlock")
  BY <1>1, <1>5, NothingWritten DEF Goto
<1>6. QED
  BY <1>4, <1>5 DEF Upsert, Goto

LEMMA DeleteOldStep ==
  ASSUME IInv, NEW h \in Handlers, DeleteOld(h)
  PROVE  IInv'
<1>1. /\ pc[h] \in {"deleteOld", "delete"}
      /\ pc' = [pc EXCEPT ![h] = "unlock"]
      /\ UNCHANGED <<holder, need, op, life, items, old, new, snap, vet>>
  BY DEF DeleteOld, Goto, lockVars, callVars, readVars
<1>2. TypeOK /\ CallInv(h) /\ NoDuplicateCurrent
  BY DEF IInv
<1>3. old[h] \in Ids /\ old[h] \in Touched(h) /\ pc[h] \in Working
  BY <1>1, <1>2 DEF CallInv, ShapeInv, Touched, Working
<1>4. pc'[h] = "unlock"
  BY <1>1, <1>2 DEF TypeOK
<1>5. CASE UNCHANGED points
  BY <1>1, <1>5, NothingWritten
<1>6. CASE points' = [points EXCEPT ![old[h]] = None]
  <2>1. ShapeInv(h)' /\ SnapInv(h)' /\ FreeInv(h)' /\ MoveInv(h)' /\ VetInv(h)'
    BY <1>1, <1>2, <1>4
       DEF CallInv, ShapeInv, SnapInv, FreeInv, MoveInv, VetInv
  <2>2. NoDuplicateCurrent'
    BY <1>2, <1>3, <1>6, UnvettedWrite
  <2>3. QED
    BY <1>1, <1>3, <1>6, <2>1, <2>2, WriteOn
<1>7. QED
  BY <1>5, <1>6 DEF DeleteOld

LEMMA SetLifecycleStep ==
  ASSUME IInv, NEW h \in Handlers, SetLifecycle(h)
  PROVE  IInv'
<1> DEFINE p == [points[old[h]] EXCEPT !.life = life[h], !.by = h,
                                       !.vetted = FALSE]
<1>1. /\ pc[h] = "setLifecycle"
      /\ pc' = [pc EXCEPT ![h] = "unlock"]
      /\ UNCHANGED <<holder, need, op, life, items, old, new, snap, vet>>
  BY DEF SetLifecycle, Goto, lockVars, callVars, readVars
<1>2. TypeOK /\ CallInv(h) /\ NoDuplicateCurrent
  BY DEF IInv
<1>3. /\ op[h] = "lifecycle" /\ old[h] \in Ids /\ life[h] \in Lives
      /\ old[h] \in Touched(h) /\ pc[h] \in Working
  BY <1>1, <1>2 DEF CallInv, ShapeInv, Touched, Working
<1>4. pc'[h] = "unlock"
  BY <1>1, <1>2 DEF TypeOK
<1>5. points[old[h]] \in Payloads /\ points[old[h]] # None
  BY <1>1, <1>2, <1>3 DEF CallInv, SnapInv
<1>6. p \in Payloads /\ ~p.vetted
  BY <1>3, <1>5 DEF Payloads
<1>7. CASE UNCHANGED points
  BY <1>1, <1>7, NothingWritten
<1>8. CASE points' = [points EXCEPT ![old[h]] =
                         IF @ = None THEN None
                         ELSE [@ EXCEPT !.life = life[h], !.by = h,
                                        !.vetted = FALSE]]
  <2>1. points' = [points EXCEPT ![old[h]] = p]
    BY <1>2, <1>3, <1>5, <1>8 DEF TypeOK
  <2>2. ShapeInv(h)' /\ SnapInv(h)' /\ FreeInv(h)' /\ MoveInv(h)' /\ VetInv(h)'
    BY <1>1, <1>2, <1>4
       DEF CallInv, ShapeInv, SnapInv, FreeInv, MoveInv, VetInv
  <2> HIDE DEF p
  <2>3. NoDuplicateCurrent'
    BY <1>2, <1>3, <1>6, <2>1, UnvettedWrite
  <2>4. QED
    BY <1>1, <1>3, <1>6, <2>1, <2>2, <2>3, WriteOn
<1>9. QED
  BY <1>7, <1>8 DEF SetLifecycle

------------------------------------------------------------------------------
(* The theorems. *)

LEMMA StepInv == IInv /\ [Next]_vars => IInv'
<1> SUFFICES ASSUME IInv, [Next]_vars PROVE IInv'
  OBVIOUS
<1>1. CASE UNCHANGED vars
  <2>1. UNCHANGED <<points, holder, pc, op, life, items, old, new, need, snap, vet>>
    BY <1>1 DEF vars
  <2>2. TypeOK'
    BY <2>1 DEF IInv, TypeOK
  <2>3. \A g \in Handlers : SameCall(g) /\ OnlyIn(g)
    BY <2>1 DEF SameCall, OnlyIn
  <2>4. \A g \in Handlers : CallInv(g)'
    BY <2>3, OthersKeep
  <2>5. NoDuplicateCurrent'
    BY <2>1 DEF IInv, NoDuplicateCurrent, Active
  <2>6. QED
    BY <2>2, <2>4, <2>5 DEF IInv
<1>2. ASSUME NEW h \in Handlers, Step(h)
      PROVE  IInv'
  BY <1>2, LockStep, CheckStep, SearchStep, RereadStep, GiveUpStep, UpsertStep,
     DeleteOldStep, SetLifecycleStep, UnlockStep DEF Step
<1>3. QED
  BY <1>1, <1>2, BeginStep DEF Next

\* The inductive invariant holds in every reachable state of any collection
\* and any set of calls.
THEOREM Invariance == Spec => []IInv
<1>1. QED
  BY InitInv, StepInv, PTL DEF Spec

\* The stored facts and the state of the calls stay well formed through every
\* interleaving and every failed write (internal/memory/server.go).
THEOREM TypeCorrect == Spec => []TypeOK
<1>1. IInv => TypeOK
  BY DEF IInv
<1>2. QED
  BY Invariance, <1>1, PTL

\* What a call copies from, writes over or finds free under its stripes is
\* still so at each of its writes, a moving update_fact deletes the old text
\* only beside the new one, and no two facts added after successful duplicate
\* searches are similar and current: for any stripes, calls and failures.
THEOREM MutationsSound == Spec => []MutationsAreSound
<1>1. IInv => MutationsAreSound
  <2> SUFFICES ASSUME IInv PROVE MutationsAreSound
    OBVIOUS
  <2>1. SnapshotIsCurrent
    BY DEF IInv, CallInv, SnapInv, SnapshotIsCurrent
  <2>2. TargetStillFree
    BY DEF IInv, CallInv, FreeInv, TargetStillFree
  <2>3. UpdateKeepsFact
    <3>1. SUFFICES ASSUME NEW h \in Handlers, pc[h] = "deleteOld"
                   PROVE  /\ points[new[h]] # None
                          /\ points[new[h]].by = h
                          /\ life[h] = None =>
                                points[new[h]].life = points[old[h]].life
      BY DEF UpdateKeepsFact
    <3>2. ShapeInv(h) /\ SnapInv(h) /\ MoveInv(h)
      BY <3>1 DEF IInv, CallInv
    <3>3. op[h] = "update"
      BY <3>1, <3>2 DEF ShapeInv
    <3>4. points[old[h]] = snap[h]
      BY <3>1, <3>2, <3>3 DEF SnapInv
    <3>5. QED
      BY <3>1, <3>2, <3>4 DEF MoveInv
  <2>4. QED
    BY <2>1, <2>2, <2>3 DEF IInv, MutationsAreSound, NoWriteIsLost
<1>2. QED
  BY Invariance, <1>1, PTL

\* No step of any tool changes or deletes a quarantined fact: a write goes to
\* an ID the call found free or to a fact it read as active, and the stripe
\* it holds has kept that so since.
THEOREM QuarantineKept == Spec => QuarantineUntouched
<1> DEFINE Kept == \A id \in Ids : points[id] # None /\ ~points[id].active
                                      => points'[id] = points[id]
<1>1. ASSUME IInv, [Next]_vars
      PROVE  Kept
  <2>1. CASE UNCHANGED points
    BY <2>1
  <2>2. ASSUME NEW h \in Handlers, Upsert(h)
        PROVE  Kept
    <3>1. TypeOK /\ CallInv(h) /\ pc[h] = "upsert"
      BY <1>1, <2>2 DEF IInv, Upsert
    <3>2. op[h] \in {"store", "update"} /\ new[h] \in Ids
      BY <3>1 DEF CallInv, ShapeInv
    <3>3. points[new[h]] = None \/ points[new[h]].active
      <4>1. CASE op[h] = "store" \/ new[h] # old[h]
        BY <3>1, <4>1 DEF CallInv, FreeInv
      <4>2. CASE op[h] = "update" /\ new[h] = old[h]
        BY <3>1, <4>2 DEF CallInv, SnapInv
      <4>3. QED
        BY <3>2, <4>1, <4>2
    <3>4. UNCHANGED points \/ points' = [points EXCEPT ![new[h]] = NewPayload(h)]
      BY <2>2 DEF Upsert
    <3>5. QED
      BY <3>1, <3>3, <3>4 DEF TypeOK
  <2>3. ASSUME NEW h \in Handlers, DeleteOld(h) \/ SetLifecycle(h)
        PROVE  Kept
    <3>1. TypeOK /\ CallInv(h) /\ pc[h] \in {"deleteOld", "delete", "setLifecycle"}
      BY <1>1, <2>3 DEF IInv, DeleteOld, SetLifecycle
    <3>2. op[h] # "store"
      BY <3>1 DEF CallInv, ShapeInv
    <3>3. points[old[h]].active
      BY <3>1, <3>2 DEF CallInv, SnapInv
    <3>4. \A id \in Ids : id # old[h] => points'[id] = points[id]
      BY <2>3, <3>1 DEF DeleteOld, SetLifecycle, TypeOK
    <3>5. QED
      BY <3>3, <3>4
  <2>4. QED
    BY <1>1, <2>1, <2>2, <2>3
       DEF Next, Begin, BeginStore, BeginUpdate, BeginLifecycle, BeginDelete,
           Step, Lock, CheckDeterministicPoint, SearchDuplicates, Reread,
           CheckTarget, GiveUp, Unlock, vars
<1>2. IInv /\ [Next]_vars => [Kept]_vars
  BY <1>1
<1>3. QED
  BY Invariance, <1>2, PTL DEF Spec, QuarantineUntouched

------------------------------------------------------------------------------
(* Deadlock.  Natural numbers are well founded, so sets of stripes have     *)
(* least and greatest elements.                                             *)

LEMMA LeastNumber ==
    ASSUME NEW T \in SUBSET Nat, T # {}
    PROVE  \E x \in T : \A y \in T : x <= y
<1> DEFINE R == OpToRel(<, Nat)
<1>1. IsWellFoundedOn(R, Nat)
  BY NatLessThanWellFounded
<1> HIDE DEF R
<1>2. PICK x \in T : \A y \in T : ~(<<y, x>> \in R)
  BY <1>1, WFMin
<1>3. \A y \in T : y < x => <<y, x>> \in R
  BY DEF R, OpToRel
<1>4. \A y \in T : x <= y
  <2>1. SUFFICES ASSUME NEW y \in T PROVE x <= y
    OBVIOUS
  <2>2. x \in Nat /\ y \in Nat /\ ~(y < x)
    BY <1>2, <1>3
  <2>3. QED
    BY <2>2
<1>5. QED
  BY <1>4

LEMMA GreatestNumber ==
    ASSUME NEW n \in Nat, NEW T \in SUBSET (0 .. n), T # {}
    PROVE  \E x \in T : \A y \in T : y <= x
<1> DEFINE D == {n - x : x \in T}
<1>1. D \in SUBSET Nat /\ D # {}
  <2>1. \A x \in T : x \in Nat /\ n - x \in Nat
    OBVIOUS
  <2>2. QED
    BY <2>1
<1>2. PICK d \in D : \A e \in D : d <= e
  BY <1>1, LeastNumber
<1>3. PICK x \in T : d = n - x
  OBVIOUS
<1>4. \A y \in T : n - x <= n - y
  BY <1>2, <1>3
<1>5. QED
  BY <1>4

\* A call that waits for a stripe held by another makes the wait go up: the
\* holder either works or waits for a higher stripe itself.
LEMMA WaitsGoUp ==
  ASSUME IInv, NEW h \in Handlers, pc[h] = "lock", holder[LowestNeeded(h)] # None
  PROVE  \E k \in Handlers :
            /\ pc[k] \notin {"idle", "done"}
            /\ pc[k] = "lock" => LowestNeeded(h) < LowestNeeded(k)
<1> DEFINE s == LowestNeeded(h)
<1>1. s \in Stripes
  BY LowestIsLeast DEF IInv
<1>2. PICK k \in Handlers : k = holder[s]
  BY <1>1 DEF IInv, TypeOK
<1>3. CallInv(k)
  BY DEF IInv
<1>4. pc[k] \notin {"idle", "done"}
  BY <1>1, <1>2, <1>3 DEF CallInv, LockInv
<1>5. ASSUME pc[k] = "lock"
      PROVE  s < LowestNeeded(k)
  <2>1. LowestNeeded(k) \in need[k]
    BY <1>3, <1>5, LowestIsLeast
  <2>2. QED
    BY <1>1, <1>2, <1>3, <1>5, <2>1 DEF CallInv, LockInv
<1>6. QED
  BY <1>4, <1>5

\* Calls never all wait for each other, whatever namespaces they move facts
\* between and however many there are: of those that wait, the one that waits
\* for the highest stripe waits for a call that can go on.
THEOREM NoDeadlock == Spec => []NoCircularWait
<1>1. IInv => NoCircularWait
  <2>1. SUFFICES ASSUME IInv, NEW g \in Handlers, pc[g] = "lock"
                 PROVE  \E h \in Handlers :
                           /\ pc[h] \notin {"idle", "done"}
                           /\ pc[h] = "lock" => holder[LowestNeeded(h)] = None
    BY DEF NoCircularWait
  <2> DEFINE Waiting == {h \in Handlers : pc[h] = "lock"}
             Wanted == {LowestNeeded(h) : h \in Waiting}
  <2>2. Wanted \in SUBSET (0 .. NumStripes) /\ NumStripes \in Nat
    <3>1. \A h \in Waiting : LowestNeeded(h) \in Stripes
      BY <2>1, LowestIsLeast DEF IInv
    <3>2. Stripes \subseteq 0 .. NumStripes
      BY StripeAssumption DEF Stripes
    <3>3. QED
      BY <3>1, <3>2, StripeAssumption
  <2>3. Wanted # {}
    BY <2>1
  <2>4. PICK top \in Wanted : \A s \in Wanted : s <= top
    BY <2>2, <2>3, GreatestNumber
  <2>5. PICK h \in Waiting : top = LowestNeeded(h)
    OBVIOUS
  <2>6. CASE holder[LowestNeeded(h)] = None
    BY <2>5, <2>6
  <2>7. CASE holder[LowestNeeded(h)] # None
    <3>1. PICK k \in Handlers :
             /\ pc[k] \notin {"idle", "done"}
             /\ pc[k] = "lock" => LowestNeeded(h) < LowestNeeded(k)
      BY <2>1, <2>5, <2>7, WaitsGoUp
    <3>2. ASSUME pc[k] = "lock" PROVE FALSE
      <4>1. LowestNeeded(k) \in Wanted /\ LowestNeeded(k) <= top
        BY <2>4, <3>2
      <4>2. LowestNeeded(k) \in Nat /\ top \in Nat
        BY <2>2, <4>1
      <4>3. QED
        BY <2>5, <3>1, <3>2, <4>1, <4>2
    <3>3. QED
      BY <3>1, <3>2
  <2>8. QED
    BY <2>6, <2>7
<1>2. QED
  BY Invariance, <1>1, PTL

------------------------------------------------------------------------------
(* The two writers do not disturb each other. *)

LEMMA ServerRuns == MCSpec => Spec
<1>1. MCInit => Init
  BY DEF MCInit
<1>2. [MCNext]_<<writer, vars, purgeVars>> => [Next]_vars
  BY DEF MCNext, vars
<1>3. QED
  BY <1>1, <1>2, PTL DEF MCSpec, Spec

LEMMA PurgeRuns == MCSpec => Purge!Spec
<1>1. MCInit => Purge!Init
  BY DEF MCInit
<1>2. [MCNext]_<<writer, vars, purgeVars>> => [Purge!Next]_(Purge!vars)
  BY DEF MCNext, purgeVars, Purge!vars
<1>3. QED
  BY <1>1, <1>2, PTL DEF MCSpec, Purge!Spec

------------------------------------------------------------------------------
(* Purge, for any selection of points and any number of snapshots. *)

LEMMA PurgeConstants ==
    /\ MaxSnapshots \in Nat
    /\ None \notin 1 .. MaxSnapshots
    /\ None \notin Purge!Results
  BY PurgeAssumption DEF Purge!PurgeAssumption

\* A taken snapshot holds every point that still has the fingerprint of the
\* manifest: no such point was missing when the snapshot was taken.
SnapshotsHold ==
    /\ snapshots \subseteq 1 .. taken
    /\ archive # None => archive \in 1 .. taken
    /\ verdicts.snap # None => verdicts.snap \in 1 .. taken
    /\ journal # None /\ journal.snap # None => journal.snap \in 1 .. taken
    /\ \A s \in 1 .. taken, p \in Selected :
          stock[p] \in {"due", "other"} => p \in contents[s]

\* An archive is bound together with the snapshot it is a copy of.
BoundInv == journal # None /\ journal.sha # None => journal.sha = journal.snap

\* Before the archive is bound, a run resumes exactly what the journal holds,
\* or the journal holds nothing to resume.
PreflightInv ==
    /\ phase = "create" => ~resuming /\ ~Purge!Resumable
    /\ phase \in {"prove", "archive", "bind"} =>
          /\ verdicts.snap # None
          /\ ~resuming => ~Purge!Resumable
          /\ resuming => /\ Purge!Resumable
                         /\ journal.snap = verdicts.snap
                         /\ journal.out = verdicts.out
    /\ phase \in {"prove", "archive"} =>
          verdicts.sha = IF resuming THEN journal.sha ELSE None
    /\ phase = "bind" =>
          verdicts.sha = verdicts.snap /\ archive = verdicts.snap

\* From then on the journal is the Result in memory, but for the point whose
\* outcome has still to be recorded.
LoopInv ==
    /\ phase \in {"loop", "delete", "record"} =>
          /\ journal # None
          /\ archive # None
          /\ journal.snap = archive /\ journal.sha = archive
          /\ verdicts.snap = archive /\ verdicts.sha = archive
    /\ phase \in {"loop", "delete"} => journal.out = verdicts.out
    /\ phase \in {"delete", "record"} =>
          /\ current \in unvisited
          /\ journal.out[current] = "dispatching"
    /\ phase = "delete" => stock[current] = "due"
    /\ phase = "record" =>
          /\ \A p \in Selected \ {current} : verdicts.out[p] = journal.out[p]
          /\ verdicts.out[current] \in {"deleted", "ambiguous"}
          /\ verdicts.out[current] = "deleted" => stock[current] = "gone"

\* What a run has visited and calls a success is gone.
VisitedInv ==
    /\ phase \in {"create", "prove", "archive", "bind"} => unvisited = Selected
    /\ phase \in {"loop", "delete", "record"} /\ ~cancelled =>
          \A p \in Selected \ unvisited :
              verdicts.out[p] \in Purge!Successes => stock[p] = "gone"

\* The inductive invariant.
PurgeInv ==
    /\ Purge!TypeOK
    /\ SnapshotsHold
    /\ BoundInv
    /\ PreflightInv
    /\ LoopInv
    /\ VisitedInv
    /\ Purge!Recoverable
    /\ Purge!JournalStaysReadable

------------------------------------------------------------------------------
(* The Results that the run makes of the one in memory. *)

LEMMA NoResultFacts ==
    /\ Purge!NoResult \in Purge!Results
    /\ Purge!NoResult.snap = None
    /\ Purge!NoResult.sha = None
    /\ \A p \in Selected : Purge!NoResult.out[p] = "failed"
  BY DEF Purge!NoResult, Purge!Results, Purge!All, Purge!Statuses

LEMMA AllFailedFacts ==
  ASSUME NEW r \in Purge!Results
  PROVE  /\ Purge!AllFailed(r) \in Purge!Results
         /\ Purge!AllFailed(r).snap = r.snap
         /\ Purge!AllFailed(r).sha = r.sha
         /\ \A p \in Selected : Purge!AllFailed(r).out[p] = "failed"
  BY DEF Purge!AllFailed, Purge!Results, Purge!All, Purge!Statuses

LEMMA WithStatusFacts ==
  ASSUME NEW r \in Purge!Results, NEW p \in Selected,
         NEW status \in Purge!Statuses
  PROVE  /\ Purge!WithStatus(r, p, status) \in Purge!Results
         /\ Purge!WithStatus(r, p, status).snap = r.snap
         /\ Purge!WithStatus(r, p, status).sha = r.sha
         /\ Purge!WithStatus(r, p, status).out = [r.out EXCEPT ![p] = status]
         /\ r.out \in [Selected -> Purge!Statuses]
  BY DEF Purge!WithStatus, Purge!Results

------------------------------------------------------------------------------
(* Init and every action establish or preserve the invariant. *)

LEMMA PurgeInit == Purge!Init => PurgeInv
<1> SUFFICES ASSUME Purge!Init PROVE PurgeInv
  OBVIOUS
<1> USE DEF Purge!Init
<1>1. Purge!TypeOK
  <2>1. contents \in [Purge!Snapshots -> SUBSET Selected]
    OBVIOUS
  <2>2. taken \in 0 .. MaxSnapshots
    BY PurgeConstants
  <2>3. QED
    BY <2>1, <2>2, NoResultFacts DEF Purge!TypeOK
<1>2. SnapshotsHold /\ BoundInv /\ PreflightInv /\ LoopInv /\ VisitedInv
  BY PurgeConstants, NoResultFacts
     DEF SnapshotsHold, BoundInv, PreflightInv, LoopInv, VisitedInv
<1>3. Purge!Recoverable /\ Purge!JournalStaysReadable
  BY DEF Purge!Recoverable, Purge!JournalStaysReadable
<1>4. QED
  BY <1>1, <1>2, <1>3 DEF PurgeInv

LEMMA StartStep == ASSUME PurgeInv, Purge!Start PROVE PurgeInv'
<1> USE NoResultFacts DEF Purge!Start, Purge!storeVars
<1>1. Purge!TypeOK'
  BY DEF PurgeInv, Purge!TypeOK, Purge!Resumable, Purge!Evidence
<1>2. SnapshotsHold'
  BY DEF PurgeInv, SnapshotsHold, Purge!Resumable
<1>3. BoundInv' /\ Purge!JournalStaysReadable' /\ Purge!Recoverable'
  BY DEF PurgeInv, BoundInv, Purge!JournalStaysReadable, Purge!Recoverable
<1>4. PreflightInv'
  BY DEF PreflightInv, Purge!Resumable
<1>5. LoopInv' /\ VisitedInv'
  BY DEF LoopInv, VisitedInv
<1>6. QED
  BY <1>1, <1>2, <1>3, <1>4, <1>5 DEF PurgeInv

\* While there is nothing to resume nothing has been deleted either.
LEMMA NothingPurged ==
  ASSUME PurgeInv, ~Purge!Resumable
  PROVE  /\ purged = {}
         /\ journal # None => journal.sha = None
         /\ Purge!Evidence(journal) = {}
  BY DEF PurgeInv, Purge!Recoverable, BoundInv, Purge!JournalStaysReadable,
         Purge!Resumable,
         Purge!Evidence, Purge!EvidenceStatuses

LEMMA TakeSnapshotStep ==
  ASSUME PurgeInv, Purge!TakeSnapshot, stock' = stock
  PROVE  /\ taken \in Nat
         /\ taken' = taken + 1
         /\ taken' \in Purge!Snapshots
         /\ taken' # None
         /\ taken' \in 0 .. MaxSnapshots
         /\ snapshots' \subseteq Purge!Snapshots
         /\ snapshots' \subseteq 1 .. taken'
         /\ contents' \in [Purge!Snapshots -> SUBSET Selected]
         /\ \A s \in 1 .. taken : contents'[s] = contents[s]
         /\ \A s \in 1 .. taken', p \in Selected :
               stock'[p] \in {"due", "other"} => p \in contents'[s]
<1> USE PurgeConstants DEF PurgeInv, Purge!TypeOK, Purge!TakeSnapshot,
                           Purge!Snapshots
<1>1. /\ taken \in Nat
      /\ taken' = taken + 1
      /\ taken' \in Purge!Snapshots
      /\ taken' # None
      /\ taken' \in 0 .. MaxSnapshots
      /\ snapshots' \subseteq Purge!Snapshots
  OBVIOUS
<1>2. contents' \in [Purge!Snapshots -> SUBSET Selected]
  OBVIOUS
<1>3. \A s \in 1 .. taken : contents'[s] = contents[s]
  OBVIOUS
<1>4. snapshots' \subseteq 1 .. taken'
  BY DEF SnapshotsHold
<1>5. ASSUME NEW s \in 1 .. taken', NEW p \in Selected,
             stock'[p] \in {"due", "other"}
      PROVE  p \in contents'[s]
  <2>1. CASE s = taken + 1
    BY <1>5, <2>1
  <2>2. CASE s # taken + 1
    <3>1. s \in 1 .. taken
      BY <2>2
    <3>2. QED
      BY <1>3, <1>5, <3>1 DEF SnapshotsHold
  <2>3. QED
    BY <2>1, <2>2
<1>6. QED
  BY <1>1, <1>2, <1>3, <1>4, <1>5

LEMMA CreateSnapshotStep == ASSUME PurgeInv,
Purge!CreateSnapshot PROVE PurgeInv'
<1>1. ~Purge!Resumable /\ ~resuming
  BY DEF PurgeInv, PreflightInv, Purge!CreateSnapshot
<1>2. /\ purged = {}
      /\ journal # None => journal.sha = None
  BY <1>1, NothingPurged
<1> USE NoResultFacts DEF Purge!CreateSnapshot, Purge!Checkpoint, Purge!runVars
<1>3. Purge!TypeOK'
  <2>1. CASE Purge!TakeSnapshot
    <3>1. phase' = "prove" => verdicts' \in Purge!Results
      BY <2>1, TakeSnapshotStep DEF PurgeInv, Purge!TypeOK, Purge!Results,
                                    Purge!All, Purge!Statuses
    <3>2. QED
      BY <2>1, <3>1, TakeSnapshotStep DEF PurgeInv, Purge!TypeOK
  <2>2. CASE UNCHANGED <<taken, snapshots, contents>>
    <3>1. phase' = "off" /\ verdicts' = Purge!NoResult
          /\ journal' \in {journal, Purge!NoResult}
      BY <2>2 DEF PurgeInv, Purge!TypeOK, Purge!TakeSnapshot
    <3>2. QED
      BY <2>2, <3>1 DEF PurgeInv, Purge!TypeOK
  <2>3. QED
    BY <2>1, <2>2
<1>4. SnapshotsHold'
  <2>1. CASE Purge!TakeSnapshot
    BY <2>1, TakeSnapshotStep DEF PurgeInv, SnapshotsHold
  <2>2. CASE UNCHANGED <<taken, snapshots, contents>>
    BY <2>2 DEF PurgeInv, Purge!TypeOK, SnapshotsHold, Purge!TakeSnapshot
  <2>3. QED
    BY <2>1, <2>2
<1>5. BoundInv' /\ Purge!JournalStaysReadable' /\ Purge!Recoverable'
  BY <1>2 DEF PurgeInv, BoundInv, Purge!JournalStaysReadable, Purge!Recoverable
<1>6. PreflightInv'
  BY <1>1, TakeSnapshotStep DEF PreflightInv, Purge!Resumable
<1>7. LoopInv' /\ VisitedInv'
  BY DEF PurgeInv, LoopInv, VisitedInv
<1>8. QED
  BY <1>3, <1>4, <1>5, <1>6, <1>7 DEF PurgeInv

\* A run that ends before the loop leaves the journal as it was, or one with
\* nothing but failures.
LEMMA RefusedStep ==
  ASSUME PurgeInv, phase \in {"prove", "archive"},
         Purge!Checkpoint(Purge!Refused, ~resuming \/ evidence # {}, "off")
  PROVE  /\ verdicts' \in Purge!Results
         /\ verdicts'.snap = verdicts.snap
         /\ journal' \in Purge!Results \cup {None}
         /\ phase' = "off"
         /\ resuming => journal' = journal
         /\ ~resuming =>
               \/ journal' = journal
               \/ /\ journal'.snap = verdicts.snap
                  /\ journal'.sha = None
                  /\ \A p \in Selected : journal'.out[p] = "failed"
<1>1. /\ verdicts \in Purge!Results
      /\ journal \in Purge!Results \cup {None}
  BY DEF PurgeInv, Purge!TypeOK
<1>2. CASE resuming
  <2>1. /\ journal \in Purge!Results
        /\ journal.snap = verdicts.snap
        /\ journal.sha = verdicts.sha
        /\ journal.out = verdicts.out
    BY <1>1, <1>2 DEF PurgeInv, PreflightInv, Purge!Resumable
  <2>2. journal = verdicts
    BY <1>1, <2>1 DEF Purge!Results
  <2>3. QED
    BY <1>1, <1>2, <2>2 DEF Purge!Checkpoint, Purge!Refused
<1>3. CASE ~resuming
  <2>1. verdicts.sha = None
    BY <1>3 DEF PurgeInv, PreflightInv
  <2>2. QED
    BY <1>1, <1>3, <2>1, AllFailedFacts DEF Purge!Checkpoint, Purge!Refused
<1>4. QED
  BY <1>2, <1>3

LEMMA ProveSnapshotStep == ASSUME PurgeInv, Purge!ProveSnapshot PROVE PurgeInv'
<1> USE DEF Purge!ProveSnapshot, Purge!storeVars, Purge!runVars
<1>1. CASE phase' = "archive"
  <2>1. UNCHANGED <<verdicts, journal>>
    BY <1>1 DEF Purge!Checkpoint
  <2>2. QED
    BY <1>1, <2>1
       DEF PurgeInv, Purge!TypeOK, SnapshotsHold, BoundInv, PreflightInv,
           LoopInv,
           VisitedInv, Purge!Recoverable, Purge!JournalStaysReadable,
           Purge!Resumable
<1>2. CASE Purge!Checkpoint(Purge!Refused, ~resuming \/ evidence # {}, "off")
  <2>1. ~resuming => purged = {}
    BY NothingPurged DEF PurgeInv, PreflightInv
  <2>2. QED
    BY <1>2, <2>1, RefusedStep
       DEF PurgeInv, Purge!TypeOK, SnapshotsHold, BoundInv, PreflightInv,
           LoopInv,
           VisitedInv, Purge!Recoverable, Purge!JournalStaysReadable
<1>3. QED
  BY <1>1, <1>2

LEMMA EnsureArchiveStep == ASSUME PurgeInv, Purge!EnsureArchive PROVE PurgeInv'
<1> USE DEF Purge!EnsureArchive, Purge!storeVars, Purge!runVars
<1>1. /\ verdicts \in Purge!Results
      /\ verdicts.snap \in Purge!Snapshots
  BY DEF PurgeInv, Purge!TypeOK, PreflightInv, Purge!Results
<1>2. ~resuming => purged = {}
  BY NothingPurged DEF PurgeInv, PreflightInv
\* A bound archive is not replaced, and there is one when something has been
\* deleted.
<1>3. purged # {} /\ Purge!ArchiveAvailable => verdicts.snap = archive
  BY <1>2 DEF PurgeInv, PreflightInv, BoundInv, Purge!Recoverable,
              Purge!ArchiveAvailable,
              Purge!Resumable
<1>4. CASE phase' = "bind"
  <2>1. /\ Purge!ArchiveAvailable
        /\ archive' = verdicts.snap
        /\ verdicts' = [verdicts EXCEPT !.sha = verdicts.snap]
        /\ UNCHANGED journal
    BY <1>4 DEF Purge!Checkpoint
  <2>2. /\ verdicts' \in Purge!Results
        /\ verdicts'.snap = verdicts.snap
        /\ verdicts'.sha = verdicts.snap
        /\ verdicts'.out = verdicts.out
    BY <1>1, <2>1 DEF Purge!Results
  <2>3. Purge!TypeOK' /\ SnapshotsHold'
    BY <1>1, <1>4, <2>1, <2>2 DEF PurgeInv, Purge!TypeOK, SnapshotsHold
  <2>4. BoundInv' /\ Purge!JournalStaysReadable'
    BY <2>1 DEF PurgeInv, BoundInv, Purge!JournalStaysReadable
  <2>5. PreflightInv' /\ LoopInv' /\ VisitedInv'
    BY <1>4, <2>1, <2>2
       DEF PurgeInv, PreflightInv, LoopInv, VisitedInv, Purge!Resumable
  <2>6. Purge!Recoverable'
    BY <1>3, <2>1 DEF PurgeInv, Purge!Recoverable
  <2>7. QED
    BY <2>3, <2>4, <2>5, <2>6 DEF PurgeInv
<1>5. CASE Purge!Checkpoint(Purge!Refused, ~resuming \/ evidence # {}, "off")
  <2>1. archive' \in {archive, verdicts.snap}
    OBVIOUS
  <2>2. purged # {} => archive' = archive
    BY <1>3, <1>5
  <2>3. Purge!TypeOK' /\ SnapshotsHold'
    BY <1>1, <1>5, <2>1, RefusedStep DEF PurgeInv, Purge!TypeOK, SnapshotsHold
  <2>4. BoundInv' /\ Purge!JournalStaysReadable'
    BY <1>5, RefusedStep DEF PurgeInv, BoundInv, Purge!JournalStaysReadable
  <2>5. PreflightInv' /\ LoopInv' /\ VisitedInv'
    BY <1>5, RefusedStep DEF PreflightInv, LoopInv, VisitedInv
  <2>6. Purge!Recoverable'
    BY <1>2, <1>5, <2>2, RefusedStep DEF PurgeInv, Purge!Recoverable
  <2>7. QED
    BY <2>3, <2>4, <2>5, <2>6 DEF PurgeInv
<1>6. QED
  BY <1>4, <1>5

LEMMA BindStep == ASSUME PurgeInv, Purge!Bind PROVE PurgeInv'
<1> USE PurgeConstants DEF Purge!Bind, Purge!Checkpoint, Purge!storeVars,
                           Purge!runVars
<1>1. /\ verdicts \in Purge!Results
      /\ verdicts # None
      /\ verdicts.snap # None
      /\ verdicts.sha = verdicts.snap
      /\ archive = verdicts.snap
  BY DEF PurgeInv, Purge!TypeOK, PreflightInv
<1>2. Purge!TypeOK' /\ SnapshotsHold'
  BY <1>1 DEF PurgeInv, Purge!TypeOK, SnapshotsHold
<1>3. BoundInv' /\ Purge!JournalStaysReadable' /\ Purge!Recoverable'
  BY <1>1 DEF PurgeInv, BoundInv, Purge!JournalStaysReadable, Purge!Recoverable
<1>4. PreflightInv' /\ LoopInv' /\ VisitedInv'
  BY <1>1 DEF PurgeInv, PreflightInv, LoopInv, VisitedInv
<1>5. QED
  BY <1>2, <1>3, <1>4 DEF PurgeInv

\* What a checkpoint in the loop keeps, whatever outcomes it writes.
LEMMA LoopCheckpoint ==
  ASSUME PurgeInv, phase \in {"loop", "delete", "record"},
         NEW r \in Purge!Results, r.snap = verdicts.snap, r.sha = verdicts.sha,
         NEW shielded, NEW next \in {"loop", "delete"},
         Purge!Checkpoint(r, shielded, next),
         UNCHANGED <<taken, snapshots, contents, stock, archive, purged>>
  PROVE  /\ verdicts' = r
         /\ journal' \in Purge!Results
         /\ phase' \in {next, "off"}
         /\ phase' = next => journal' = r
         /\ phase' = next =>
               /\ journal' # None
               /\ archive' # None
               /\ journal'.snap = archive' /\ journal'.sha = archive'
               /\ verdicts'.snap = archive' /\ verdicts'.sha = archive'
         /\ SnapshotsHold' /\ BoundInv' /\ PreflightInv'
         /\ Purge!Recoverable' /\ Purge!JournalStaysReadable'
<1> USE PurgeConstants DEF Purge!Checkpoint
<1>1. /\ verdicts' = r
      /\ journal' \in {journal, r}
      /\ phase' \in {next, "off"}
      /\ phase' = next => journal' = r
  OBVIOUS
<1>2. /\ journal \in Purge!Results
      /\ archive # None
      /\ journal.snap = archive /\ journal.sha = archive
      /\ r.snap = archive /\ r.sha = archive
      /\ r # None
  BY DEF PurgeInv, Purge!TypeOK, LoopInv
<1>3. /\ journal' \in Purge!Results
      /\ journal' # None
      /\ journal'.snap = archive /\ journal'.sha = archive
  BY <1>1, <1>2
<1>4. SnapshotsHold' /\ BoundInv' /\ PreflightInv'
  BY <1>1, <1>2, <1>3 DEF PurgeInv, SnapshotsHold, BoundInv, PreflightInv
<1>5. Purge!Recoverable' /\ Purge!JournalStaysReadable'
  BY <1>2, <1>3 DEF PurgeInv, Purge!Recoverable, Purge!JournalStaysReadable
<1>6. QED
  BY <1>1, <1>2, <1>3, <1>4, <1>5

LEMMA SkipPointStep ==
  ASSUME PurgeInv, NEW p \in Selected, Purge!SkipPoint(p)
  PROVE  PurgeInv'
<1> USE DEF Purge!SkipPoint, Purge!storeVars, Purge!runVars
<1> DEFINE r == IF p \in evidence THEN verdicts
                ELSE Purge!WithStatus(verdicts, p, "failed")
<1>1. r \in Purge!Results /\ r.snap = verdicts.snap /\ r.sha = verdicts.sha
  BY WithStatusFacts DEF PurgeInv, Purge!TypeOK, Purge!Statuses
<1> HIDE DEF r
<1>2. Purge!Checkpoint(r, Purge!Shielded \/ evidence # {}, "loop")
  BY DEF r
<1>3. /\ verdicts' = r
      /\ journal' \in Purge!Results
      /\ phase' \in {"loop", "off"}
      /\ phase' = "loop" => journal' = r
      /\ SnapshotsHold' /\ BoundInv' /\ PreflightInv'
      /\ Purge!Recoverable' /\ Purge!JournalStaysReadable'
      /\ phase' = "loop" =>
            /\ journal' # None
            /\ archive' # None
            /\ journal'.snap = archive' /\ journal'.sha = archive'
            /\ verdicts'.snap = archive' /\ verdicts'.sha = archive'
  BY <1>1, <1>2, LoopCheckpoint
<1>4. Purge!TypeOK'
  BY <1>1, <1>3 DEF PurgeInv, Purge!TypeOK
<1>5. LoopInv' /\ VisitedInv'
  BY <1>3 DEF LoopInv, VisitedInv
<1>6. QED
  BY <1>3, <1>4, <1>5 DEF PurgeInv

LEMMA RefusePointStep ==
  ASSUME PurgeInv, NEW p \in Selected, Purge!RefusePoint(p)
  PROVE  PurgeInv'
<1> USE DEF Purge!RefusePoint, Purge!storeVars, Purge!runVars
<1>1. PICK status \in Purge!Refusals(p) :
          Purge!Checkpoint(Purge!WithStatus(verdicts, p, status),
          Purge!Shielded, "loop")
  OBVIOUS
<1>2. /\ status \in Purge!Statuses
      /\ status \in Purge!Successes => stock[p] = "gone"
  BY DEF PurgeInv, Purge!TypeOK, Purge!PointStates, Purge!Refusals,
         Purge!Statuses, Purge!Successes
<1> DEFINE r == Purge!WithStatus(verdicts, p, status)
<1>3. /\ r \in Purge!Results /\ r.snap = verdicts.snap /\ r.sha = verdicts.sha
      /\ r.out = [verdicts.out EXCEPT ![p] = status]
      /\ verdicts.out \in [Selected -> Purge!Statuses]
  <2>1. verdicts \in Purge!Results
    BY DEF PurgeInv, Purge!TypeOK
  <2>2. QED
    BY <1>2, <2>1, WithStatusFacts
<1> HIDE DEF r
<1>4. Purge!Checkpoint(r, Purge!Shielded, "loop")
  BY <1>1 DEF r
<1>5. /\ verdicts' = r
      /\ journal' \in Purge!Results
      /\ phase' \in {"loop", "off"}
      /\ phase' = "loop" => journal' = r
      /\ SnapshotsHold' /\ BoundInv' /\ PreflightInv'
      /\ Purge!Recoverable' /\ Purge!JournalStaysReadable'
      /\ phase' = "loop" =>
            /\ journal' # None
            /\ archive' # None
            /\ journal'.snap = archive' /\ journal'.sha = archive'
            /\ verdicts'.snap = archive' /\ verdicts'.sha = archive'
  BY <1>3, <1>4, LoopCheckpoint
<1>6. Purge!TypeOK'
  BY <1>3, <1>5 DEF PurgeInv, Purge!TypeOK
<1>7. LoopInv'
  BY <1>5 DEF LoopInv
<1>8. VisitedInv'
  BY <1>2, <1>3, <1>5 DEF PurgeInv, VisitedInv
<1>9. QED
  BY <1>5, <1>6, <1>7, <1>8 DEF PurgeInv

LEMMA DispatchDeleteStep ==
  ASSUME PurgeInv, NEW p \in Selected, Purge!DispatchDelete(p)
  PROVE  PurgeInv'
<1> USE DEF Purge!DispatchDelete, Purge!storeVars, Purge!runVars
<1> DEFINE r == Purge!WithStatus(verdicts, p, "dispatching")
<1>1. /\ r \in Purge!Results /\ r.snap = verdicts.snap /\ r.sha = verdicts.sha
      /\ r.out = [verdicts.out EXCEPT ![p] = "dispatching"]
      /\ verdicts.out \in [Selected -> Purge!Statuses]
  <2>1. verdicts \in Purge!Results /\ "dispatching" \in Purge!Statuses
    BY DEF PurgeInv, Purge!TypeOK, Purge!Statuses
  <2>2. QED
    BY <2>1, WithStatusFacts
<1> HIDE DEF r
<1>2. Purge!Checkpoint(r, Purge!Shielded, "delete")
  BY DEF r
<1>3. /\ verdicts' = r
      /\ journal' \in Purge!Results
      /\ phase' \in {"delete", "off"}
      /\ phase' = "delete" => journal' = r
      /\ SnapshotsHold' /\ BoundInv' /\ PreflightInv'
      /\ Purge!Recoverable' /\ Purge!JournalStaysReadable'
      /\ phase' = "delete" =>
            /\ journal' # None
            /\ archive' # None
            /\ journal'.snap = archive' /\ journal'.sha = archive'
            /\ verdicts'.snap = archive' /\ verdicts'.sha = archive'
  BY <1>1, <1>2, LoopCheckpoint
<1>4. Purge!TypeOK'
  BY <1>1, <1>3 DEF PurgeInv, Purge!TypeOK
<1>5. LoopInv'
  BY <1>1, <1>3 DEF LoopInv, Purge!Passes
<1>6. VisitedInv'
  BY <1>1, <1>3 DEF PurgeInv, VisitedInv, Purge!Successes
<1>7. QED
  BY <1>3, <1>4, <1>5, <1>6 DEF PurgeInv

LEMMA DeleteStep == ASSUME PurgeInv, Purge!Delete PROVE PurgeInv'
<1> USE DEF Purge!Delete, Purge!runVars
<1>1. /\ current \in Selected
      /\ current \in unvisited
      /\ stock[current] = "due"
      /\ journal.out[current] = "dispatching"
      /\ journal.out = verdicts.out
      /\ archive \in 1 .. taken
  BY DEF PurgeInv, Purge!TypeOK, LoopInv, SnapshotsHold
<1>2. PICK status \in {"deleted", "ambiguous"} :
          /\ verdicts' = Purge!WithStatus(verdicts, current, status)
          /\ \/ /\ stock' = [stock EXCEPT ![current] = "gone"]
                /\ purged' = purged \cup {current}
             \/ /\ status = "ambiguous"
                /\ UNCHANGED <<stock, purged>>
  OBVIOUS
<1>3. /\ verdicts' \in Purge!Results
      /\ verdicts'.snap = verdicts.snap
      /\ verdicts'.sha = verdicts.sha
      /\ verdicts'.out = [verdicts.out EXCEPT ![current] = status]
      /\ verdicts.out \in [Selected -> Purge!Statuses]
  <2>1. verdicts \in Purge!Results /\ status \in Purge!Statuses
    BY DEF PurgeInv, Purge!TypeOK, Purge!Statuses
  <2>2. QED
    BY <1>1, <1>2, <2>1, WithStatusFacts
<1>4. /\ stock' \in [Selected -> Purge!PointStates]
      /\ \A p \in Selected \ {current} : stock'[p] = stock[p]
      /\ stock'[current] \in {"due", "gone"}
      /\ status = "deleted" => stock'[current] = "gone"
      /\ purged' \in SUBSET Selected
      /\ purged' \subseteq purged \cup {current}
  BY <1>1, <1>2 DEF PurgeInv, Purge!TypeOK, Purge!PointStates
<1> HIDE DEF Purge!Delete
<1>5. /\ phase = "delete" /\ phase' = "record"
      /\ UNCHANGED <<snapshots, taken, contents, archive, journal, unvisited,
                     current, resuming, evidence, cancelled>>
      /\ dispatched' = TRUE
  BY DEF Purge!Delete
<1>6. Purge!TypeOK'
  BY <1>3, <1>4, <1>5 DEF PurgeInv, Purge!TypeOK
<1>7. SnapshotsHold'
  BY <1>1, <1>3, <1>4, <1>5 DEF PurgeInv, SnapshotsHold
<1>8. BoundInv' /\ PreflightInv' /\ Purge!JournalStaysReadable'
  BY <1>5 DEF PurgeInv, BoundInv, PreflightInv, Purge!JournalStaysReadable
<1>9. LoopInv'
  BY <1>1, <1>3, <1>4, <1>5 DEF PurgeInv, LoopInv
<1>10. VisitedInv'
  BY <1>1, <1>3, <1>4, <1>5 DEF PurgeInv, VisitedInv
\* The point to be deleted is in the snapshot, hence in the archive.
<1>11. Purge!Recoverable'
  <2>1. current \in contents[archive]
    BY <1>1 DEF PurgeInv, SnapshotsHold
  <2>2. QED
    BY <1>4, <1>5, <2>1 DEF PurgeInv, LoopInv, Purge!Recoverable
<1>12. QED
  BY <1>6, <1>7, <1>8, <1>9, <1>10, <1>11 DEF PurgeInv

LEMMA RecordStep == ASSUME PurgeInv, Purge!Record PROVE PurgeInv'
<1> USE DEF Purge!Record, Purge!storeVars, Purge!runVars
<1>1. verdicts \in Purge!Results
  BY DEF PurgeInv, Purge!TypeOK
<1>2. /\ verdicts' = verdicts
      /\ journal' \in Purge!Results
      /\ phase' \in {"loop", "off"}
      /\ phase' = "loop" => journal' = verdicts
      /\ SnapshotsHold' /\ BoundInv' /\ PreflightInv'
      /\ Purge!Recoverable' /\ Purge!JournalStaysReadable'
      /\ phase' = "loop" =>
            /\ journal' # None
            /\ archive' # None
            /\ journal'.snap = archive' /\ journal'.sha = archive'
            /\ verdicts'.snap = archive' /\ verdicts'.sha = archive'
  BY <1>1, LoopCheckpoint
<1>3. Purge!TypeOK'
  BY <1>2 DEF PurgeInv, Purge!TypeOK
<1>4. LoopInv'
  BY <1>2 DEF LoopInv
<1>5. VisitedInv'
  BY <1>2 DEF PurgeInv, LoopInv, VisitedInv, Purge!Successes
<1>6. QED
  BY <1>2, <1>3, <1>4, <1>5 DEF PurgeInv

LEMMA RestStep ==
  ASSUME PurgeInv, Purge!Finish \/ Purge!Interrupt \/ Purge!Crash
  PROVE  PurgeInv'
<1> USE DEF Purge!Finish, Purge!Interrupt, Purge!Crash, Purge!storeVars,
            Purge!runVars
<1>1. /\ UNCHANGED <<stock, snapshots, taken, contents, archive, journal,
                     verdicts, resuming, evidence, unvisited, current,
                     dispatched, purged>>
      /\ phase' \in {phase, "off"}
      /\ cancelled' \in {cancelled, TRUE}
  OBVIOUS
<1>2. Purge!TypeOK'
  BY <1>1 DEF PurgeInv, Purge!TypeOK
<1>3. SnapshotsHold' /\ BoundInv'
  BY <1>1 DEF PurgeInv, SnapshotsHold, BoundInv
<1>4. PreflightInv' /\ LoopInv' /\ VisitedInv'
  BY DEF PurgeInv, Purge!TypeOK, PreflightInv, LoopInv, VisitedInv,
         Purge!Resumable
<1>5. Purge!Recoverable' /\ Purge!JournalStaysReadable'
  BY <1>1 DEF PurgeInv, Purge!Recoverable, Purge!JournalStaysReadable
<1>6. QED
  BY <1>2, <1>3, <1>4, <1>5 DEF PurgeInv

LEMMA RotateStep ==
  ASSUME PurgeInv, NEW s \in Purge!Snapshots, Purge!Rotate(s)
  PROVE  PurgeInv'
<1> USE DEF Purge!Rotate, Purge!runVars
<1>1. Purge!TypeOK'
  BY DEF PurgeInv, Purge!TypeOK
<1>2. SnapshotsHold' /\ BoundInv'
  BY DEF PurgeInv, Purge!TypeOK, SnapshotsHold, BoundInv
<1>3. PreflightInv' /\ LoopInv' /\ VisitedInv'
  BY DEF PurgeInv, Purge!TypeOK, PreflightInv, LoopInv, VisitedInv,
         Purge!Resumable
<1>4. Purge!Recoverable' /\ Purge!JournalStaysReadable'
  BY DEF PurgeInv, Purge!Recoverable, Purge!JournalStaysReadable
<1>5. QED
  BY <1>1, <1>2, <1>3, <1>4 DEF PurgeInv

LEMMA OtherWriterStep ==
  ASSUME PurgeInv, NEW p \in Selected, Purge!OtherWriter(p)
  PROVE  PurgeInv'
<1> USE DEF Purge!OtherWriter, Purge!runVars
<1>1. /\ stock' \in [Selected -> Purge!PointStates]
      /\ \A q \in Selected \ {p} : stock'[q] = stock[q]
      /\ stock'[p] \in {"due", "other"} => stock[p] \in {"due", "other"}
      /\ purged' \subseteq purged
  BY DEF PurgeInv, Purge!TypeOK
<1> HIDE DEF Purge!OtherWriter
<1>2. /\ phase = "off"
      /\ UNCHANGED <<snapshots, taken, contents, archive, journal, phase,
                     verdicts, resuming, evidence, cancelled, unvisited,
                     current, dispatched>>
  BY DEF Purge!OtherWriter
<1>3. Purge!TypeOK'
  BY <1>1, <1>2 DEF PurgeInv, Purge!TypeOK
<1>4. SnapshotsHold'
  <2>1. \A q \in Selected : stock'[q] \in {"due", "other"} =>
                             stock[q] \in {"due", "other"}
    BY <1>1
  <2>2. QED
    BY <1>2, <2>1 DEF PurgeInv, SnapshotsHold
<1>5. PreflightInv' /\ LoopInv' /\ VisitedInv'
  BY <1>2 DEF PreflightInv, LoopInv, VisitedInv
<1>6. BoundInv' /\ Purge!Recoverable' /\ Purge!JournalStaysReadable'
  BY <1>1, <1>2 DEF PurgeInv, BoundInv, Purge!Recoverable,
                    Purge!JournalStaysReadable
<1>7. QED
  BY <1>3, <1>4, <1>5, <1>6 DEF PurgeInv

LEMMA PurgeInvariance == Purge!Spec => []PurgeInv
<1>1. PurgeInv /\ [Purge!Next]_(Purge!vars) => PurgeInv'
  <2> SUFFICES ASSUME PurgeInv, [Purge!Next]_(Purge!vars) PROVE PurgeInv'
    OBVIOUS
  <2>1. CASE Purge!Start
    BY <2>1, StartStep
  <2>2. CASE Purge!CreateSnapshot
    BY <2>2, CreateSnapshotStep
  <2>3. CASE Purge!ProveSnapshot
    BY <2>3, ProveSnapshotStep
  <2>4. CASE Purge!EnsureArchive
    BY <2>4, EnsureArchiveStep
  <2>5. CASE Purge!Bind
    BY <2>5, BindStep
  <2>6. ASSUME NEW p \in Selected, Purge!SkipPoint(p) PROVE PurgeInv'
    BY <2>6, SkipPointStep
  <2>7. ASSUME NEW p \in Selected, Purge!RefusePoint(p) PROVE PurgeInv'
    BY <2>7, RefusePointStep
  <2>8. ASSUME NEW p \in Selected, Purge!DispatchDelete(p) PROVE PurgeInv'
    BY <2>8, DispatchDeleteStep
  <2>9. ASSUME NEW p \in Selected, Purge!OtherWriter(p) PROVE PurgeInv'
    BY <2>9, OtherWriterStep
  <2>10. CASE Purge!Delete
    BY <2>10, DeleteStep
  <2>11. CASE Purge!Record
    BY <2>11, RecordStep
  <2>12. CASE Purge!Finish \/ Purge!Interrupt \/ Purge!Crash
    BY <2>12, RestStep
  <2>13. ASSUME NEW s \in Purge!Snapshots, Purge!Rotate(s) PROVE PurgeInv'
    BY <2>13, RotateStep
  <2>14. CASE UNCHANGED Purge!vars
    BY <2>14 DEF Purge!vars, PurgeInv, Purge!TypeOK, SnapshotsHold, BoundInv,
                 PreflightInv,
                 LoopInv, VisitedInv, Purge!Recoverable,
                 Purge!JournalStaysReadable,
                 Purge!Resumable
  <2>15. QED
    BY <2>1, <2>2, <2>3, <2>4, <2>5, <2>6, <2>7, <2>8, <2>9, <2>10, <2>11,
       <2>12, <2>13, <2>14 DEF Purge!Next
<1>2. QED
  BY PurgeInit, <1>1, PTL DEF Purge!Spec

------------------------------------------------------------------------------
(* What a step does to the journal. *)

KeepsBinding ==
    journal # None /\ journal.sha # None =>
        /\ journal'.snap = journal.snap
        /\ journal'.sha = journal.sha

KeepsEvidence ==
    \A p \in Purge!Evidence(journal) \ Purge!Evidence(journal') :
        phase = "loop" /\ p \in unvisited

\* A journal that takes over the outcomes of another one, but for points the
\* loop has still to visit, keeps the evidence.
LEMMA SameOutcomes ==
  ASSUME journal # None, journal' # None,
         \A p \in Selected : journal'.out[p] = journal.out[p]
                           \/ journal'.out[p] \in Purge!EvidenceStatuses
                           \/ (phase = "loop" /\ p \in unvisited)
  PROVE  KeepsEvidence
  BY DEF KeepsEvidence, Purge!Evidence

LEMMA NothingToKeep ==
  ASSUME PurgeInv, ~Purge!Resumable
  PROVE  KeepsBinding /\ KeepsEvidence
  BY NothingPurged DEF KeepsBinding, KeepsEvidence

LEMMA LoopJournal ==
  ASSUME PurgeInv, phase \in {"loop", "record"}, NEW p \in Selected,
         phase = "loop" => p \in unvisited,
         NEW r \in Purge!Results, r.snap = verdicts.snap, r.sha = verdicts.sha,
         journal' \in {journal, r},
         \A q \in Selected \ {p} : r.out[q] = journal.out[q],
         phase = "record" => r.out[p] \in Purge!EvidenceStatuses
  PROVE  KeepsBinding /\ KeepsEvidence
<1>1. /\ journal # None /\ journal' # None
      /\ journal.snap = verdicts.snap /\ journal.sha = verdicts.sha
  BY PurgeConstants DEF PurgeInv, LoopInv
<1>2. KeepsBinding
  BY <1>1 DEF KeepsBinding
<1>3. KeepsEvidence
  BY <1>1, SameOutcomes
<1>4. QED
  BY <1>2, <1>3

LEMMA JournalStep ==
  ASSUME PurgeInv, [Purge!Next]_(Purge!vars)
  PROVE  KeepsBinding /\ KeepsEvidence
<1>1. CASE UNCHANGED journal
  BY <1>1 DEF KeepsBinding, KeepsEvidence
<1>2. CASE Purge!CreateSnapshot
  BY <1>2, NothingToKeep DEF Purge!CreateSnapshot, PurgeInv, PreflightInv
<1>3. CASE Purge!ProveSnapshot \/ Purge!EnsureArchive
  <2>1. CASE resuming
    <3>1. UNCHANGED journal
      BY <1>3, <2>1, RefusedStep DEF Purge!ProveSnapshot, Purge!EnsureArchive
    <3>2. QED
      BY <1>1, <3>1
  <2>2. CASE ~resuming
    BY <1>3, <2>2, NothingToKeep
       DEF Purge!ProveSnapshot, Purge!EnsureArchive, PurgeInv, PreflightInv
  <2>3. QED
    BY <2>1, <2>2
<1>4. CASE Purge!Bind
  <2>1. /\ journal' \in {journal, verdicts}
        /\ phase = "bind"
    BY <1>4 DEF Purge!Bind, Purge!Checkpoint
  <2>2. CASE resuming
    <3>1. /\ journal # None /\ journal' # None
          /\ journal.snap = verdicts.snap
          /\ journal.out = verdicts.out
          /\ verdicts.sha = verdicts.snap
      BY <2>1, <2>2, PurgeConstants
         DEF PurgeInv, Purge!TypeOK, PreflightInv, Purge!Resumable
    <3>2. KeepsBinding
      BY <2>1, <3>1 DEF PurgeInv, BoundInv, KeepsBinding
    <3>3. KeepsEvidence
      BY <2>1, <3>1, SameOutcomes
    <3>4. QED
      BY <3>2, <3>3
  <2>3. CASE ~resuming
    BY <2>1, <2>3, NothingToKeep DEF PurgeInv, PreflightInv
  <2>4. QED
    BY <2>2, <2>3
<1>5. ASSUME NEW p \in Selected,
             Purge!SkipPoint(p) \/ Purge!RefusePoint(p) \/ Purge!DispatchDelete(p)
      PROVE  KeepsBinding /\ KeepsEvidence
  <2>1. /\ phase = "loop"
        /\ p \in unvisited
        /\ verdicts \in Purge!Results
        /\ verdicts.out = journal.out
    BY <1>5 DEF Purge!SkipPoint, Purge!RefusePoint, Purge!DispatchDelete,
                PurgeInv, Purge!TypeOK, LoopInv
  <2>2. \/ journal' \in {journal, verdicts}
        \/ \E status \in Purge!Statuses :
              journal' \in {journal, Purge!WithStatus(verdicts, p, status)}
    <3>1. CASE Purge!SkipPoint(p)
      BY <3>1 DEF Purge!SkipPoint, Purge!Checkpoint, Purge!Statuses
    <3>2. CASE Purge!RefusePoint(p)
      <4>1. Purge!Refusals(p) \subseteq Purge!Statuses
        BY DEF PurgeInv, Purge!TypeOK, Purge!PointStates, Purge!Refusals,
               Purge!Statuses
      <4>2. QED
        BY <3>2, <4>1 DEF Purge!RefusePoint, Purge!Checkpoint
    <3>3. CASE Purge!DispatchDelete(p)
      BY <3>3 DEF Purge!DispatchDelete, Purge!Checkpoint, Purge!Statuses
    <3>4. QED
      BY <1>5, <3>1, <3>2, <3>3
  <2>3. CASE journal' \in {journal, verdicts}
    BY <2>1, <2>3, LoopJournal
  <2>4. ASSUME NEW status \in Purge!Statuses,
               journal' \in {journal, Purge!WithStatus(verdicts, p, status)}
        PROVE  KeepsBinding /\ KeepsEvidence
    <3> DEFINE r == Purge!WithStatus(verdicts, p, status)
    <3>1. /\ r \in Purge!Results /\ r.snap = verdicts.snap /\ r.sha = verdicts.sha
          /\ r.out = [verdicts.out EXCEPT ![p] = status]
          /\ verdicts.out \in [Selected -> Purge!Statuses]
      BY <2>1, WithStatusFacts
    <3> HIDE DEF r
    <3>2. \A q \in Selected \ {p} : r.out[q] = journal.out[q]
      BY <2>1, <3>1
    <3>3. QED
      BY <2>1, <2>4, <3>1, <3>2, LoopJournal DEF r
  <2>5. QED
    BY <2>2, <2>3, <2>4
<1>6. CASE Purge!Record
  <2>1. /\ phase = "record"
        /\ current \in Selected
        /\ journal' \in {journal, verdicts}
        /\ verdicts \in Purge!Results
        /\ \A q \in Selected \ {current} : verdicts.out[q] = journal.out[q]
        /\ verdicts.out[current] \in Purge!EvidenceStatuses
    BY <1>6 DEF Purge!Record, Purge!Checkpoint, PurgeInv, Purge!TypeOK,
                LoopInv, Purge!EvidenceStatuses
  <2>2. QED
    BY <2>1, LoopJournal
<1>7. CASE \/ Purge!Start \/ Purge!Delete \/ Purge!Finish
           \/ Purge!Interrupt \/ Purge!Crash
           \/ (\E s \in Purge!Snapshots : Purge!Rotate(s))
           \/ (\E p \in Selected : Purge!OtherWriter(p))
           \/ UNCHANGED Purge!vars
  <2>1. UNCHANGED journal
    BY <1>7 DEF Purge!Start, Purge!Delete, Purge!Finish, Purge!Interrupt,
                Purge!Crash, Purge!Rotate, Purge!OtherWriter,
                Purge!vars
  <2>2. QED
    BY <1>1, <2>1
<1>8. QED
  BY <1>2, <1>3, <1>4, <1>5, <1>6, <1>7 DEF Purge!Next

------------------------------------------------------------------------------
(* The theorems about purge. *)

\* Every variable keeps its type: in particular no outcome but those of a
\* purge is ever journalled.
THEOREM PurgeTypeCorrect == MCSpec => []Purge!TypeOK
<1>1. PurgeInv => Purge!TypeOK
  BY DEF PurgeInv
<1>2. QED
  BY <1>1, PurgeRuns, PurgeInvariance, PTL

\* Whatever purge deletes, in however many runs, crashes and failures, is in
\* the archive that the journal names.
THEOREM DeletedIsRecoverable == MCSpec => []Recoverable
<1>1. PurgeInv => Recoverable
  BY DEF PurgeInv, Recoverable, Purge!Recoverable
<1>2. QED
  BY <1>1, PurgeRuns, PurgeInvariance, PTL

\* A delete is dispatched only under a journal that says so.
THEOREM DispatchIsJournalled == MCSpec => []Purge!DispatchIsDurable
<1>1. PurgeInv => Purge!DispatchIsDurable
  <2> SUFFICES ASSUME PurgeInv, phase = "delete" PROVE Purge!DispatchIsDurable
    BY DEF Purge!DispatchIsDurable
  <2>1. /\ journal \in Purge!Results /\ verdicts \in Purge!Results
        /\ journal.snap = verdicts.snap
        /\ journal.sha = verdicts.sha
        /\ journal.out = verdicts.out
    BY DEF PurgeInv, Purge!TypeOK, LoopInv
  <2>2. journal = verdicts
    BY <2>1 DEF Purge!Results
  <2>3. QED
    BY <2>2 DEF PurgeInv, LoopInv, Purge!DispatchIsDurable
<1>2. QED
  BY <1>1, PurgeRuns, PurgeInvariance, PTL

\* A run that reports success for all points leaves none of them.
THEOREM SuccessIsTrue == MCSpec => []SuccessMeansGone
<1>1. PurgeInv => SuccessMeansGone
  BY DEF SuccessMeansGone, PurgeInv, VisitedInv, Purge!Finished,
         Purge!SuccessMeansGone
<1>2. QED
  BY <1>1, PurgeRuns, PurgeInvariance, PTL

\* No run leaves a journal that its retry would refuse to read.
THEOREM JournalReadable == MCSpec => []JournalStaysReadable
<1>1. PurgeInv => JournalStaysReadable
  BY DEF PurgeInv, JournalStaysReadable, Purge!JournalStaysReadable
<1>2. QED
  BY <1>1, PurgeRuns, PurgeInvariance, PTL

\* Failures before the loop never erase the evidence of dispatched deletes.
THEOREM EvidenceSurvivesPreflight == MCSpec => Purge!PreflightKeepsEvidence
<1>1. PurgeInv /\ [Purge!Next]_(Purge!vars) => [KeepsEvidence]_(Purge!vars)
  BY JournalStep
<1>2. QED
  BY <1>1, PurgeRuns, PurgeInvariance, PTL
     DEF Purge!Spec, Purge!PreflightKeepsEvidence, KeepsEvidence

\* The recovery point, once bound, is never replaced.
THEOREM RecoveryPointIsFinal == MCSpec => Purge!BindingIsPermanent
<1>1. PurgeInv /\ [Purge!Next]_(Purge!vars) => [KeepsBinding]_(Purge!vars)
  BY JournalStep
<1>2. QED
  BY <1>1, PurgeRuns, PurgeInvariance, PTL
     DEF Purge!Spec, Purge!BindingIsPermanent, KeepsBinding

\* Both together: the journal keeps its evidence and its recovery point.
THEOREM RecordIsKept == MCSpec => JournalKeepsRecord
  BY EvidenceSurvivesPreflight, RecoveryPointIsFinal
     DEF JournalKeepsRecord, Purge!JournalKeepsRecord

==============================================================================
