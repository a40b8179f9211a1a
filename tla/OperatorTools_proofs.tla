------------------------- MODULE OperatorTools_proofs -------------------------
(***************************************************************************)
(* Proofs about the operator's tools for any values of the constants: the  *)
(* migration of point IDs (PointIds), which loses no fact however its      *)
(* groups overlap; the grouping of facts (FactGrouping), whose success is  *)
(* complete, whose writes of unknown outcome stay on record and are not    *)
(* repeated, and which leaves alone what others changed; the embedding     *)
(* (EmbeddingSpace), whose collections hold vectors of their identity      *)
(* only; and the maintenance and lifecycle commands (FactMaintenance),     *)
(* which report what they did, hide only what was reviewed and keep what   *)
(* they migrate on record; and the installer of the bundle                 *)
(* (IntegrationInstaller), which leaves all or nothing, the user's words   *)
(* and a way back.                                                         *)
(***************************************************************************)
EXTENDS MCOperatorTools, NaturalsInduction, WellFoundedInduction, TLAPS

------------------------------------------------------------------------------
(* The migration of point IDs. *)

\* What a run knows still holds: it has only added facts at free IDs and
\* deleted points, so a scanned point is as scanned or gone.
ScanInv ==
    step # "off" =>
        /\ FactsIn(scanned) = held
        /\ rest \subseteq Planned(scanned)
        /\ \A i \in Ids :
              scanned[i] # None => stored[i] = scanned[i] \/ stored[i] = None

\* The group being moved has one fact; its target is free until it has it.
MoveInv ==
    /\ step \in {"upsert", "delete"} =>
          /\ target \in Groups(scanned)
          /\ ~Collides(scanned, target)
    /\ step = "upsert" => stored[target] = None
    /\ step = "delete" => stored[target] = FactFor(target)

\* The inductive invariant.
IInv == TypeOK /\ NoFactIsLost /\ ScanInv /\ MoveInv

------------------------------------------------------------------------------
(* The plan. *)

\* A planned group has one fact: had it two, its members would be blocked.
LEMMA PlannedIsUniform ==
  ASSUME NEW s, NEW t \in Planned(s)
  PROVE  t \in Groups(s) /\ ~Collides(s, t)
<1>1. t \in Groups(s) /\ Candidates(s, t) \cap Blocked(s) = {}
  BY DEF Planned
<1>2. PICK i \in Candidates(s, t) : TRUE
  BY <1>1 DEF Groups
<1>3. i \in Ids /\ i \in Members(s, t)
  BY <1>2 DEF Candidates, Members
<1>4. ASSUME Collides(s, t) PROVE FALSE
  <2>1. i \in BlockedOnce(s)
    BY <1>1, <1>3, <1>4 DEF BlockedOnce
  <2>2. i \in Blocked(s)
    BY <1>3, <2>1 DEF Blocked
  <2>3. QED
    BY <1>1, <1>2, <2>2
<1>5. QED
  BY <1>1, <1>4

\* The fact that a group moves is that of each of its members.
LEMMA GroupHasOneFact ==
  ASSUME target \in Groups(scanned), ~Collides(scanned, target)
  PROVE  /\ FactFor(target) # None
         /\ \E i \in Ids : FactFor(target) = scanned[i]
         /\ \A i \in Members(scanned, target) : scanned[i] = FactFor(target)
<1> DEFINE c == CHOOSE i \in Candidates(scanned, target) : TRUE
<1>1. c \in Candidates(scanned, target)
  BY DEF Groups
<1>2. c \in Ids /\ scanned[c] # None /\ c \in Members(scanned, target)
  BY <1>1 DEF Candidates, Members
<1>3. FactFor(target) = scanned[c]
  BY DEF FactFor
<1>4. QED
  BY <1>2, <1>3 DEF Collides

------------------------------------------------------------------------------
(* The two writes of a move. *)

\* The upsert adds a fact that is held, at an ID that is free.
LEMMA UpsertKeeps ==
  ASSUME IInv, step = "upsert",
         stored' = [stored EXCEPT ![target] = FactFor(target)],
         UNCHANGED held
  PROVE  /\ stored' \in [Ids -> Facts \cup {None}]
         /\ NoFactIsLost'
         /\ stored'[target] = FactFor(target)
         /\ \A i \in Ids :
               scanned[i] # None => stored'[i] = scanned[i] \/ stored'[i] = None
<1>1. target \in Ids /\ stored[target] = None
  BY DEF IInv, MoveInv, Groups
<1>2. FactFor(target) # None
      /\ (\E i \in Ids : FactFor(target) = scanned[i])
      /\ \A i \in Members(scanned, target) : scanned[i] = FactFor(target)
  BY GroupHasOneFact DEF IInv, MoveInv
<1>3. FactFor(target) \in held /\ FactsIn(stored) = held
  BY <1>2 DEF IInv, ScanInv, FactsIn, NoFactIsLost
<1>4. FactFor(target) \in Facts \cup {None}
  BY <1>2 DEF IInv, TypeOK
<1>5. stored' \in [Ids -> Facts \cup {None}] /\ stored'[target] = FactFor(target)
  BY <1>1, <1>4 DEF IInv, TypeOK
<1>6. \A i \in Ids : i # target => stored'[i] = stored[i]
  BY DEF IInv, TypeOK
<1>7. FactsIn(stored') = FactsIn(stored) \cup {FactFor(target)}
  <2>1. FactsIn(stored') \subseteq FactsIn(stored) \cup {FactFor(target)}
    BY <1>5, <1>6 DEF FactsIn
  <2>2. FactsIn(stored) \subseteq FactsIn(stored')
    BY <1>1, <1>6 DEF FactsIn
  <2>3. FactFor(target) \in FactsIn(stored')
    BY <1>1, <1>2, <1>5 DEF FactsIn
  <2>4. QED
    BY <2>1, <2>2, <2>3
<1>8. NoFactIsLost'
  BY <1>3, <1>7 DEF NoFactIsLost, FactsIn
<1>9. ASSUME NEW i \in Ids, scanned[i] # None
      PROVE  stored'[i] = scanned[i] \/ stored'[i] = None
  <2>1. CASE i = target
    <3>1. i \in Members(scanned, target)
      BY <1>9, <2>1 DEF Members
    <3>2. QED
      BY <1>2, <1>5, <2>1, <3>1
  <2>2. CASE i # target
    BY <1>6, <1>9, <2>2 DEF IInv, ScanInv
  <2>3. QED
    BY <2>1, <2>2
<1>10. QED
  BY <1>5, <1>8, <1>9

\* Deleting sources of a group, some or all, leaves its fact at the target.
LEMMA DeleteKeeps ==
  ASSUME IInv, step = "delete", NEW ids \in SUBSET Sources,
         stored' = Without(ids), UNCHANGED held
  PROVE  /\ stored' \in [Ids -> Facts \cup {None}]
         /\ NoFactIsLost'
         /\ \A i \in Ids :
               scanned[i] # None => stored'[i] = scanned[i] \/ stored'[i] = None
<1>1. target \in Ids /\ stored[target] = FactFor(target)
  BY DEF IInv, MoveInv, Groups
<1>2. FactFor(target) # None
      /\ \A i \in Members(scanned, target) : scanned[i] = FactFor(target)
  BY GroupHasOneFact DEF IInv, MoveInv
<1>3. target \notin ids
      /\ \A i \in ids : i \in Ids /\ scanned[i] = FactFor(target)
  BY <1>2 DEF Sources, Candidates, Members
<1>4. \A i \in ids : stored[i] = FactFor(target) \/ stored[i] = None
  BY <1>2, <1>3 DEF IInv, ScanInv
<1>5. /\ stored' \in [Ids -> Facts \cup {None}]
      /\ \A i \in Ids : stored'[i] = IF i \in ids THEN None ELSE stored[i]
  BY DEF IInv, TypeOK, Without
<1>6. FactsIn(stored') = FactsIn(stored)
  <2>1. FactsIn(stored') \subseteq FactsIn(stored)
    BY <1>5 DEF FactsIn
  <2>2. FactFor(target) \in FactsIn(stored')
    BY <1>1, <1>2, <1>3, <1>5 DEF FactsIn
  <2>3. FactsIn(stored) \subseteq FactsIn(stored') \cup {FactFor(target)}
    BY <1>4, <1>5 DEF FactsIn
  <2>4. QED
    BY <2>1, <2>2, <2>3
<1>7. NoFactIsLost'
  BY <1>6 DEF IInv, NoFactIsLost, FactsIn
<1>8. QED
  BY <1>5, <1>7 DEF IInv, ScanInv

------------------------------------------------------------------------------
(* Init and every action establish or preserve the invariant. *)

LEMMA InitInv == Init => IInv
BY DEF Init, IInv, TypeOK, NoFactIsLost, ScanInv, MoveInv, Nothing

LEMMA StartStep ==
  ASSUME IInv, Start
  PROVE  IInv'
<1>1. TypeOK'
  BY DEF IInv, TypeOK, Start, Planned, Groups
<1>2. NoFactIsLost'
  BY DEF IInv, NoFactIsLost, FactsIn, Start
<1>3. ScanInv'
  <2>1. FactsIn(scanned)' = held'
    BY DEF IInv, NoFactIsLost, FactsIn, Start
  <2>2. scanned' = stored /\ rest' = Planned(scanned')
    BY DEF Start
  <2>3. Planned(scanned)' = Planned(scanned')
    BY DEF Planned, Groups, Candidates, Blocked, BlockedOnce, Spreads,
           Members, Collides
  <2>4. QED
    BY <2>1, <2>2, <2>3 DEF ScanInv, Start
<1>4. MoveInv'
  BY DEF MoveInv, Start
<1>5. QED
  BY <1>1, <1>2, <1>3, <1>4 DEF IInv

LEMMA GroupStep ==
  ASSUME IInv, NEW t \in Ids, Group(t)
  PROVE  IInv'
<1>1. t \in Groups(scanned) /\ ~Collides(scanned, t)
  <2>1. t \in Planned(scanned)
    BY DEF Group, IInv, ScanInv
  <2>2. QED
    BY <2>1, PlannedIsUniform
<1>2. TypeOK'
  BY DEF IInv, TypeOK, Group
<1>3. NoFactIsLost'
  BY DEF IInv, NoFactIsLost, FactsIn, Group
<1>4. ScanInv'
  <2>1. UNCHANGED <<scanned, stored, held>> /\ rest' \subseteq rest
    BY DEF Group
  <2>2. Planned(scanned)' = Planned(scanned)
    BY <2>1 DEF Planned, Groups, Candidates, Blocked, BlockedOnce, Spreads,
                Members, Collides
  <2>3. FactsIn(scanned)' = FactsIn(scanned)
    BY <2>1 DEF FactsIn
  <2>4. QED
    BY <2>1, <2>2, <2>3 DEF IInv, ScanInv, Group
<1>5. MoveInv'
  <2>1. CASE stored[t] \notin {None, FactFor(t)}
    BY <2>1 DEF Group, MoveInv
  <2>2. CASE stored[t] \in {None, FactFor(t)}
    <3>1. /\ target' = t
          /\ step' = IF stored[t] = None THEN "upsert" ELSE "delete"
          /\ UNCHANGED <<stored, scanned>>
      BY <2>2 DEF Group
    <3>2. target' \in Groups(scanned)' /\ ~Collides(scanned, target)'
      BY <1>1, <3>1 DEF Groups, Candidates, Collides, Members
    <3>3. FactFor(target)' = FactFor(t)
      BY <3>1 DEF FactFor, Candidates
    <3>4. QED
      BY <2>2, <3>1, <3>2, <3>3 DEF MoveInv
  <2>3. QED
    BY <2>1, <2>2
<1>6. QED
  BY <1>2, <1>3, <1>4, <1>5 DEF IInv

LEMMA UpsertStep ==
  ASSUME IInv, Upsert
  PROVE  IInv'
<1>1. /\ stored' = [stored EXCEPT ![target] = FactFor(target)]
      /\ step = "upsert" /\ step' = "delete"
      /\ UNCHANGED <<scanned, rest, target, held>>
  BY DEF Upsert
<1>2. /\ stored' \in [Ids -> Facts \cup {None}]
      /\ NoFactIsLost'
      /\ stored'[target] = FactFor(target)
      /\ \A i \in Ids :
            scanned[i] # None => stored'[i] = scanned[i] \/ stored'[i] = None
  BY <1>1, UpsertKeeps
<1>3. /\ Planned(scanned)' = Planned(scanned)
      /\ FactsIn(scanned)' = FactsIn(scanned)
      /\ Groups(scanned)' = Groups(scanned)
      /\ Collides(scanned, target)' = Collides(scanned, target)
      /\ FactFor(target)' = FactFor(target)
  BY <1>1 DEF Planned, Groups, Candidates, Blocked, BlockedOnce, Spreads,
              Members, Collides, FactsIn, FactFor
<1>4. TypeOK'
  BY <1>1, <1>2 DEF IInv, TypeOK
<1>5. ScanInv'
  BY <1>1, <1>2, <1>3 DEF IInv, ScanInv
<1>6. MoveInv'
  BY <1>1, <1>2, <1>3 DEF IInv, MoveInv
<1>7. QED
  BY <1>2, <1>4, <1>5, <1>6 DEF IInv

LEMMA DeleteStep ==
  ASSUME IInv, Delete
  PROVE  IInv'
<1>1. /\ stored' = Without(Sources) /\ target' = None
      /\ step = "delete" /\ step' = "group"
      /\ UNCHANGED <<scanned, rest, held>>
  BY DEF Delete
<1>2. /\ stored' \in [Ids -> Facts \cup {None}]
      /\ NoFactIsLost'
      /\ \A i \in Ids :
            scanned[i] # None => stored'[i] = scanned[i] \/ stored'[i] = None
  BY <1>1, DeleteKeeps
<1>3. /\ Planned(scanned)' = Planned(scanned)
      /\ FactsIn(scanned)' = FactsIn(scanned)
  BY <1>1 DEF Planned, Groups, Candidates, Blocked, BlockedOnce, Spreads,
              Members, Collides, FactsIn
<1>4. TypeOK'
  BY <1>1, <1>2 DEF IInv, TypeOK
<1>5. ScanInv'
  BY <1>1, <1>2, <1>3 DEF IInv, ScanInv
<1>6. MoveInv'
  BY <1>1 DEF MoveInv
<1>7. QED
  BY <1>2, <1>4, <1>5, <1>6 DEF IInv

\* A run that ends knows nothing: only the facts matter.
LEMMA ExitKeeps ==
  ASSUME Exit, IInv, stored' \in [Ids -> Facts \cup {None}], NoFactIsLost'
  PROVE  IInv'
BY DEF Exit, IInv, TypeOK, ScanInv, MoveInv, Nothing

LEMMA FailsStep ==
  ASSUME IInv, Fails
  PROVE  IInv'
<1>1. Exit /\ UNCHANGED held
  BY DEF Fails, Exit
<1>2. CASE UNCHANGED stored
  <2>1. stored' \in [Ids -> Facts \cup {None}] /\ NoFactIsLost'
    BY <1>1, <1>2 DEF IInv, TypeOK, NoFactIsLost, FactsIn
  <2>2. QED
    BY <1>1, <2>1, ExitKeeps
<1>3. CASE step = "upsert"
           /\ stored' = [stored EXCEPT ![target] = FactFor(target)]
  <2>1. stored' \in [Ids -> Facts \cup {None}] /\ NoFactIsLost'
    BY <1>1, <1>3, UpsertKeeps
  <2>2. QED
    BY <1>1, <2>1, ExitKeeps
<1>4. CASE step = "delete" /\ \E ids \in SUBSET Sources : stored' = Without(ids)
  <2>1. stored' \in [Ids -> Facts \cup {None}] /\ NoFactIsLost'
    BY <1>1, <1>4, DeleteKeeps
  <2>2. QED
    BY <1>1, <2>1, ExitKeeps
<1>5. QED
  BY <1>2, <1>3, <1>4 DEF Fails

LEMMA FinishStep ==
  ASSUME IInv, Finish
  PROVE  IInv'
<1>1. Exit /\ UNCHANGED <<stored, held>>
  BY DEF Finish, Exit
<1>2. stored' \in [Ids -> Facts \cup {None}] /\ NoFactIsLost'
  BY <1>1 DEF IInv, TypeOK, NoFactIsLost, FactsIn
<1>3. QED
  BY <1>1, <1>2, ExitKeeps

\* The server writes between two runs only, and what it writes is held.
LEMMA ServerWriteStep ==
  ASSUME IInv, ServerWrite
  PROVE  IInv'
<1>1. stored' \in [Ids -> Facts \cup {None}]
  BY TargetAssumption DEF ServerWrite, IInv, TypeOK
<1>2. NoFactIsLost'
  BY DEF ServerWrite, NoFactIsLost, FactsIn
<1>3. step' = "off" /\ UNCHANGED <<scanned, rest, target>>
  BY DEF ServerWrite
<1>4. QED
  BY <1>1, <1>2, <1>3 DEF IInv, TypeOK, ScanInv, MoveInv

LEMMA StutterStep ==
  ASSUME IInv, UNCHANGED vars
  PROVE  IInv'
<1>1. UNCHANGED <<stored, scanned, rest, target, step, held>>
  BY DEF vars
<1>2. /\ Planned(scanned)' = Planned(scanned)
      /\ FactsIn(scanned)' = FactsIn(scanned)
      /\ Groups(scanned)' = Groups(scanned)
      /\ Collides(scanned, target)' = Collides(scanned, target)
      /\ FactFor(target)' = FactFor(target)
  BY <1>1 DEF Planned, Groups, Candidates, Blocked, BlockedOnce, Spreads,
              Members, Collides, FactsIn, FactFor
<1>3. QED
  BY <1>1, <1>2 DEF IInv, TypeOK, NoFactIsLost, FactsIn, ScanInv, MoveInv

------------------------------------------------------------------------------
(* The theorems. *)

\* The invariant holds in every state of every migration.
THEOREM Invariance == Spec => []IInv
<1>1. IInv /\ [Next]_vars => IInv'
  <2> SUFFICES ASSUME IInv, [Next]_vars PROVE IInv'
    OBVIOUS
  <2>1. CASE Start                   BY <2>1, StartStep
  <2>2. CASE \E t \in Ids : Group(t) BY <2>2, GroupStep
  <2>3. CASE Upsert                  BY <2>3, UpsertStep
  <2>4. CASE Delete                  BY <2>4, DeleteStep
  <2>5. CASE Fails                   BY <2>5, FailsStep
  <2>6. CASE Finish                  BY <2>6, FinishStep
  <2>7. CASE ServerWrite             BY <2>7, ServerWriteStep
  <2>8. CASE UNCHANGED vars          BY <2>8, StutterStep
  <2>9. QED
    BY <2>1, <2>2, <2>3, <2>4, <2>5, <2>6, <2>7, <2>8 DEF Next
<1>2. QED
  BY InitInv, <1>1, PTL DEF Spec

\* What the collection holds, and what a run remembers of it, has its type.
THEOREM TypeCorrect == Spec => []TypeOK
<1>1. IInv => TypeOK
  BY DEF IInv
<1>2. QED
  BY Invariance, <1>1, PTL

\* No fact is lost and none appears, whichever facts compete for an ID,
\* whichever call fails, and wherever the command is killed.
THEOREM FactsAreNeverLost == Spec => []NoFactIsLost
<1>1. IInv => NoFactIsLost
  BY DEF IInv
<1>2. QED
  BY Invariance, <1>1, PTL

------------------------------------------------------------------------------
(* What a run that was not cut short leaves behind.                         *)

\* The groups that the run has moved, and the collection it makes of its
\* scan by moving them: this is what the collection is during the run.
Moved == {t \in Planned(scanned) : t \notin rest /\ t # target}

AsMoved(i) ==
    IF i \in Moved \/ (step = "delete" /\ i = target) THEN FactFor(i)
    ELSE IF \E t \in Moved : i \in Candidates(scanned, t) THEN None
    ELSE scanned[i]

RunInv ==
    /\ step \in {"off", "group"} => target = None
    /\ step \in {"upsert", "delete"} => target \in Planned(scanned) \ rest
    /\ step # "off" => \A i \in Ids : stored[i] = AsMoved(i)

\* The fact of a planned group belongs at its target and is that of all its
\* members; so no target of a planned group is a source of another.
LEMMA PlannedGroup ==
  ASSUME NEW t \in Planned(scanned)
  PROVE  /\ t \in Ids
         /\ FactFor(t) # None /\ TargetOf[FactFor(t)] = t
         /\ \A i \in Members(scanned, t) : scanned[i] = FactFor(t)
         /\ \A u \in Ids : t \notin Candidates(scanned, u)
<1> DEFINE c == CHOOSE i \in Candidates(scanned, t) : TRUE
<1>1. t \in Groups(scanned) /\ ~Collides(scanned, t)
  BY PlannedIsUniform
<1>2. t \in Ids /\ c \in Candidates(scanned, t)
  BY <1>1 DEF Groups
<1>3. /\ c \in Members(scanned, t) /\ FactFor(t) = scanned[c]
      /\ scanned[c] # None /\ TargetOf[scanned[c]] = t
  BY <1>2 DEF Candidates, Members, FactFor
<1>4. \A i \in Members(scanned, t) : scanned[i] = FactFor(t)
  BY <1>1, <1>3 DEF Collides
<1>5. ASSUME NEW u \in Ids, t \in Candidates(scanned, u) PROVE FALSE
  <2>1. scanned[t] # None /\ TargetOf[scanned[t]] = u /\ t # u
    BY <1>5 DEF Candidates
  <2>2. scanned[t] = FactFor(t)
    BY <1>4, <2>1 DEF Members
  <2>3. QED
    BY <1>3, <2>1, <2>2
<1>6. QED
  BY <1>2, <1>3, <1>4, <1>5

\* Blocked is closed, and the least set that is; it holds stored points only.
LEMMA BlockedIsLeast ==
  ASSUME NEW s
  PROVE  /\ BlockedOnce(s) \subseteq Blocked(s)
         /\ Spreads(s, Blocked(s))
         /\ \A B \in SUBSET Ids :
               BlockedOnce(s) \subseteq B /\ Spreads(s, B) => Blocked(s) \subseteq B
         /\ \A i \in Blocked(s) : s[i] # None
<1>1. \A t \in Ids : Members(s, t) \subseteq {i \in Ids : s[i] # None}
  BY DEF Members, Candidates
<1>2. BlockedOnce(s) \subseteq {i \in Ids : s[i] # None}
  BY <1>1 DEF BlockedOnce, Groups
<1>3. BlockedOnce(s) \subseteq Blocked(s)
  BY <1>2 DEF Blocked
<1>4. \A B \in SUBSET Ids :
         BlockedOnce(s) \subseteq B /\ Spreads(s, B) => Blocked(s) \subseteq B
  BY DEF Blocked
<1>5. Spreads(s, Blocked(s))
  <2>1. SUFFICES ASSUME NEW t \in Groups(s), Candidates(s, t) \cap Blocked(s) # {},
                        NEW i \in Members(s, t)
                 PROVE  i \in Blocked(s)
    BY DEF Spreads
  <2>2. i \in Ids
    BY <1>1, <2>1 DEF Groups
  <2>3. SUFFICES ASSUME NEW B \in SUBSET Ids, BlockedOnce(s) \subseteq B, Spreads(s, B)
                 PROVE  i \in B
    BY <2>2 DEF Blocked
  <2>4. Candidates(s, t) \cap B # {}
    BY <1>4, <2>1, <2>3
  <2>5. QED
    BY <2>1, <2>3, <2>4 DEF Spreads
<1>6. \A i \in Blocked(s) : s[i] # None
  <2> DEFINE B == {i \in Ids : s[i] # None}
  <2>1. B \in SUBSET Ids /\ BlockedOnce(s) \subseteq B /\ Spreads(s, B)
    BY <1>1, <1>2 DEF Spreads, Groups
  <2>2. QED
    BY <1>4, <2>1
<1>7. QED
  BY <1>3, <1>4, <1>5, <1>6

\* In the end the collection is its scan with the planned groups moved.
Settled ==
    \A i \in Ids :
        /\ i \in Planned(scanned) => stored[i] = FactFor(i)
        /\ i \notin Planned(scanned) =>
              stored[i] = IF \E t \in Planned(scanned) : i \in Candidates(scanned, t)
                          THEN None ELSE scanned[i]

\* What is left of a collection with its planned groups moved is blocked: no
\* group became movable, and nothing that was blocked has changed.
LEMMA SettledHasNoPlan ==
  ASSUME Settled
  PROVE  /\ Planned(stored) = {}
         /\ \A i \in Ids : scanned[i] # stored[i] => i \notin Blocked(scanned)
<1> DEFINE P == Planned(scanned)
           Bl == Blocked(scanned)
<1>1. \A t \in P : Candidates(scanned, t) \cap Bl = {}
  BY DEF Planned
<1>2. \A i \in Ids : scanned[i] # stored[i] => i \notin Bl
  <2>1. SUFFICES ASSUME NEW i \in Ids, scanned[i] # stored[i], i \in Bl PROVE FALSE
    OBVIOUS
  <2>2. CASE i \in P
    <3>1. scanned[i] # None
      BY <2>1, BlockedIsLeast
    <3>2. scanned[i] = FactFor(i)
      BY <2>2, <3>1, PlannedGroup DEF Members
    <3>3. QED
      BY <2>1, <2>2, <3>2 DEF Settled
  <2>3. CASE i \notin P
    BY <1>1, <2>1, <2>3 DEF Settled
  <2>4. QED
    BY <2>2, <2>3
<1>3. \A t \in Ids : Candidates(stored, t) \subseteq Candidates(scanned, t)
  <2>1. SUFFICES ASSUME NEW t \in Ids, NEW i \in Candidates(stored, t)
                 PROVE  i \in Candidates(scanned, t)
    OBVIOUS
  <2>2. i \in Ids /\ i # t /\ stored[i] # None /\ TargetOf[stored[i]] = t
    BY <2>1 DEF Candidates
  <2>3. i \notin P
    BY <2>2, PlannedGroup DEF Settled
  <2>4. stored[i] = scanned[i]
    BY <2>2, <2>3 DEF Settled
  <2>5. QED
    BY <2>2, <2>4 DEF Candidates
\* A group that is not planned, and whose occupant is not moved, is as it was.
<1>4. ASSUME NEW t \in Ids, t \notin P, scanned[t] # None => t \in Bl
      PROVE  /\ Candidates(stored, t) = Candidates(scanned, t)
             /\ Members(stored, t) = Members(scanned, t)
             /\ \A i \in Members(scanned, t) : stored[i] = scanned[i]
  <2>1. \A i \in Candidates(scanned, t) : stored[i] = scanned[i]
    <3>1. SUFFICES ASSUME NEW i \in Candidates(scanned, t)
                   PROVE  stored[i] = scanned[i]
      OBVIOUS
    <3>2. i \in Ids /\ scanned[i] # None /\ TargetOf[scanned[i]] = t
      BY <3>1 DEF Candidates
    <3>3. i \notin P
      BY <1>4, <3>1, PlannedGroup
    <3>4. \A u \in P : i \notin Candidates(scanned, u)
      BY <1>4, <3>2 DEF Candidates
    <3>5. QED
      BY <3>2, <3>3, <3>4 DEF Settled
  <2>2. stored[t] = scanned[t]
    <3>1. CASE scanned[t] # None
      BY <1>2, <1>4, <3>1
    <3>2. CASE scanned[t] = None
      BY <1>4, <3>2 DEF Settled
    <3>3. QED
      BY <3>1, <3>2
  <2>3. Candidates(stored, t) = Candidates(scanned, t)
    BY <1>3, <1>4, <2>1 DEF Candidates
  <2>4. Members(stored, t) = Members(scanned, t)
    BY <2>2, <2>3 DEF Members
  <2>5. \A i \in Members(scanned, t) : stored[i] = scanned[i]
    BY <2>1, <2>2 DEF Members
  <2>6. QED
    BY <2>3, <2>4, <2>5
\* A group with a blocked source is such a group, and all of it is blocked.
<1>5. ASSUME NEW t \in Groups(scanned), Candidates(scanned, t) \cap Bl # {}
      PROVE  /\ t \in Ids /\ t \notin P
             /\ scanned[t] # None => t \in Bl
             /\ Members(scanned, t) \subseteq Bl
  BY <1>1, <1>5, BlockedIsLeast DEF Spreads, Members, Groups
<1>6. Bl \subseteq Blocked(stored)
  <2>1. SUFFICES ASSUME NEW B \in SUBSET Ids, BlockedOnce(stored) \subseteq B,
                        Spreads(stored, B)
                 PROVE  Bl \subseteq B
    BY DEF Blocked
  <2> DEFINE C == B \cap Bl
  <2>2. BlockedOnce(scanned) \subseteq C
    <3>1. SUFFICES ASSUME NEW t \in Groups(scanned), Collides(scanned, t)
                   PROVE  Members(scanned, t) \subseteq B
      BY BlockedIsLeast DEF BlockedOnce
    <3>2. Members(scanned, t) \subseteq Bl
      BY <3>1, BlockedIsLeast DEF BlockedOnce
    <3>3. Candidates(scanned, t) \cap Bl # {}
      BY <3>1, <3>2 DEF Members, Groups
    <3>4. /\ t \in Ids
          /\ Candidates(stored, t) = Candidates(scanned, t)
          /\ Members(stored, t) = Members(scanned, t)
          /\ \A i \in Members(scanned, t) : stored[i] = scanned[i]
      BY <1>4, <1>5, <3>1, <3>3
    <3>5. t \in Groups(stored) /\ Collides(stored, t)
      BY <3>1, <3>4 DEF Groups, Collides
    <3>6. QED
      BY <2>1, <3>4, <3>5 DEF BlockedOnce
  <2>3. Spreads(scanned, C)
    <3>1. SUFFICES ASSUME NEW t \in Groups(scanned), Candidates(scanned, t) \cap C # {}
                   PROVE  Members(scanned, t) \subseteq C
      BY DEF Spreads
    <3>2. Candidates(scanned, t) \cap Bl # {}
      BY <3>1
    <3>3. /\ t \in Ids
          /\ Candidates(stored, t) = Candidates(scanned, t)
          /\ Members(stored, t) = Members(scanned, t)
          /\ Members(scanned, t) \subseteq Bl
      BY <1>4, <1>5, <3>1, <3>2
    <3>4. t \in Groups(stored) /\ Candidates(stored, t) \cap B # {}
      BY <3>1, <3>3 DEF Groups
    <3>5. QED
      BY <2>1, <3>3, <3>4 DEF Spreads
  <2>4. C \in SUBSET Ids
    OBVIOUS
  <2>5. QED
    BY <2>2, <2>3, <2>4, BlockedIsLeast
<1>7. ASSUME NEW t \in Planned(stored) PROVE FALSE
  <2>1. t \in Ids /\ Candidates(stored, t) # {} /\ Candidates(stored, t) \cap Blocked(stored) = {}
    BY <1>7 DEF Planned, Groups
  <2>2. t \in Groups(scanned)
    BY <1>3, <2>1 DEF Groups
  <2>3. t \notin P
    <3>1. SUFFICES ASSUME t \in P PROVE FALSE
      OBVIOUS
    <3>2. PICK i \in Candidates(stored, t) : TRUE
      BY <2>1
    <3>3. i \in Ids /\ stored[i] # None /\ i \in Candidates(scanned, t)
      BY <1>3, <2>1, <3>2 DEF Candidates
    <3>4. i \notin P
      BY <2>1, <3>3, PlannedGroup
    <3>5. QED
      BY <3>1, <3>3, <3>4 DEF Settled
  <2>4. Candidates(scanned, t) \cap Bl # {}
    BY <2>2, <2>3 DEF Planned
  <2>5. Candidates(stored, t) = Candidates(scanned, t)
    BY <1>4, <1>5, <2>2, <2>4
  <2>6. QED
    BY <1>6, <2>1, <2>4, <2>5
<1>8. QED
  BY <1>2, <1>7

\* While the run goes on, its plan and the facts it moves stay the same.
LEMMA SameScan ==
  ASSUME UNCHANGED scanned
  PROVE  /\ Planned(scanned)' = Planned(scanned)
         /\ \A i \in Ids : Candidates(scanned, i)' = Candidates(scanned, i)
         /\ \A i \in Ids : FactFor(i)' = FactFor(i)
BY DEF Planned, Groups, Candidates, Blocked, BlockedOnce, Spreads, Members,
       Collides, FactFor

LEMMA InitRun == Init => RunInv
BY DEF Init, RunInv

LEMMA StartRun ==
  ASSUME IInv, Start
  PROVE  RunInv'
<1>1. /\ scanned' = stored /\ stored' = stored /\ rest' = Planned(stored)
      /\ target' = None /\ step' = "group"
  BY DEF Start
<1>2. Planned(scanned)' = Planned(stored)
  BY <1>1 DEF Planned, Groups, Candidates, Blocked, BlockedOnce, Spreads,
              Members, Collides
<1>3. Moved' = {}
  BY <1>1, <1>2 DEF Moved
<1>4. \A i \in Ids : AsMoved(i)' = stored[i]
  BY <1>1, <1>3 DEF AsMoved
<1>5. QED
  BY <1>1, <1>4 DEF RunInv

\* A group is never skipped: its target holds what the scan saw there.
LEMMA GroupRun ==
  ASSUME IInv, RunInv, NEW t \in Ids, Group(t)
  PROVE  RunInv'
<1>1. /\ step = "group" /\ target = None /\ t \in rest /\ rest' = rest \ {t}
      /\ t \in Planned(scanned)
      /\ UNCHANGED <<stored, scanned>>
  BY DEF Group, RunInv, IInv, ScanInv
<1>2. stored[t] = scanned[t]
  <2>1. t \notin Moved /\ \A u \in Moved : t \notin Candidates(scanned, u)
    BY <1>1, PlannedGroup DEF Moved
  <2>2. QED
    BY <1>1, <2>1 DEF RunInv, AsMoved
<1>3. stored[t] \in {None, FactFor(t)}
  BY <1>1, <1>2, PlannedGroup DEF Members
<1>4. target' = t /\ step' = IF stored[t] = None THEN "upsert" ELSE "delete"
  BY <1>3 DEF Group
<1>5. Moved' = Moved
  <2>1. \A u \in Planned(scanned) : u # None
    BY PlannedGroup, TargetAssumption
  <2>2. QED
    BY <1>1, <1>4, <2>1, SameScan DEF Moved
<1>6. ASSUME NEW i \in Ids PROVE stored[i] = AsMoved(i)'
  <2>1. stored[i] = AsMoved(i)
    BY <1>1 DEF RunInv
  <2>2. CASE step' = "delete" /\ i = t
    BY <1>1, <1>3, <1>4, <2>2, SameScan DEF AsMoved
  <2>3. CASE ~(step' = "delete" /\ i = t)
    <3>1. AsMoved(i)' = AsMoved(i)
      <4>1. ~(step = "delete" /\ i = target) /\ ~(step' = "delete" /\ i = target')
        BY <1>1, <1>4, <2>3
      <4>2. (\E u \in Moved : i \in Candidates(scanned, u))'
              <=> \E u \in Moved : i \in Candidates(scanned, u)
        BY <1>1, <1>5 DEF Candidates
      <4>3. scanned'[i] = scanned[i] /\ FactFor(i)' = FactFor(i)
        BY <1>1, SameScan
      <4>4. QED
        BY <1>5, <4>1, <4>2, <4>3 DEF AsMoved
    <3>2. QED
      BY <2>1, <3>1
  <2>4. QED
    BY <2>2, <2>3
<1>7. target' \in Planned(scanned)' \ rest'
  BY <1>1, <1>4, SameScan
<1>8. QED
  BY <1>1, <1>4, <1>6, <1>7 DEF RunInv

LEMMA UpsertRun ==
  ASSUME IInv, RunInv, Upsert
  PROVE  RunInv'
<1>1. /\ step = "upsert" /\ step' = "delete"
      /\ target \in Planned(scanned) /\ target \notin rest
      /\ stored' = [stored EXCEPT ![target] = FactFor(target)]
      /\ UNCHANGED <<scanned, rest, target>>
  BY DEF Upsert, RunInv
<1>2. target \in Ids
  BY <1>1, PlannedGroup
<1>3. Moved' = Moved
  BY <1>1, SameScan DEF Moved
<1>4. ASSUME NEW i \in Ids PROVE stored'[i] = AsMoved(i)'
  <2>1. CASE i = target
    <3>1. stored'[i] = FactFor(i)
      BY <1>1, <1>2, <2>1 DEF IInv, TypeOK
    <3>2. FactFor(i)' = FactFor(i)
      BY <1>1, SameScan
    <3>3. QED
      BY <1>1, <2>1, <3>1, <3>2 DEF AsMoved
  <2>2. CASE i # target
    <3>1. stored'[i] = AsMoved(i)
      BY <1>1, <2>2 DEF RunInv, IInv, TypeOK
    <3>2. (\E u \in Moved : i \in Candidates(scanned, u))'
            <=> \E u \in Moved : i \in Candidates(scanned, u)
      BY <1>1, <1>3 DEF Candidates
    <3>3. scanned'[i] = scanned[i] /\ FactFor(i)' = FactFor(i)
      BY <1>1, SameScan
    <3>4. QED
      BY <1>1, <1>3, <2>2, <3>1, <3>2, <3>3 DEF AsMoved
  <2>3. QED
    BY <2>1, <2>2
<1>5. QED
  BY <1>1, <1>4, SameScan DEF RunInv

LEMMA DeleteRun ==
  ASSUME IInv, RunInv, Delete
  PROVE  RunInv'
<1>1. /\ step = "delete" /\ step' = "group" /\ target' = None
      /\ target \in Planned(scanned) /\ target \notin rest
      /\ stored' = Without(Candidates(scanned, target))
      /\ UNCHANGED <<scanned, rest>>
  BY DEF Delete, RunInv, Sources
<1>2. target \in Ids
  BY <1>1, PlannedGroup
<1>3. Moved' = Moved \cup {target}
  <2>1. \A t \in Planned(scanned) : t # None
    BY PlannedGroup, TargetAssumption
  <2>2. QED
    BY <1>1, <2>1, SameScan DEF Moved
<1>4. ASSUME NEW i \in Ids PROVE stored'[i] = AsMoved(i)'
  <2>1. stored[i] = AsMoved(i)
    BY <1>1 DEF RunInv
  <2>2. stored'[i] = IF i \in Candidates(scanned, target) THEN None ELSE stored[i]
    BY <1>1 DEF Without
  <2>3. i \in Candidates(scanned, target) => i \notin Moved /\ i # target
    <3>1. \A t \in Planned(scanned) : t \notin Candidates(scanned, target)
      BY <1>2, PlannedGroup
    <3>2. QED
      BY <1>1, <3>1 DEF Moved
  <2>4. (\E u \in Moved : i \in Candidates(scanned, u))'
          <=> \/ \E u \in Moved : i \in Candidates(scanned, u)
              \/ i \in Candidates(scanned, target)
    BY <1>1, <1>3 DEF Candidates
  <2>5. scanned'[i] = scanned[i] /\ FactFor(i)' = FactFor(i)
    BY <1>1, SameScan
  <2>6. AsMoved(i)' = IF i \in Moved \/ i = target THEN FactFor(i)
                      ELSE IF \/ \E u \in Moved : i \in Candidates(scanned, u)
                              \/ i \in Candidates(scanned, target)
                      THEN None ELSE scanned[i]
    BY <1>1, <1>3, <2>4, <2>5 DEF AsMoved
  <2>7. QED
    BY <1>1, <2>1, <2>2, <2>3, <2>6 DEF AsMoved
<1>5. QED
  BY <1>1, <1>4 DEF RunInv

\* The other actions happen between two runs, or end one.
LEMMA OffRun ==
  ASSUME Fails \/ Finish \/ ServerWrite, RunInv
  PROVE  RunInv'
BY DEF Fails, Finish, ServerWrite, Exit, RunInv

LEMMA StutterRun ==
  ASSUME RunInv, UNCHANGED vars
  PROVE  RunInv'
<1>1. UNCHANGED <<stored, scanned, rest, target, step>>
  BY DEF vars
<1>2. Moved' = Moved
  BY <1>1, SameScan DEF Moved
<1>3. \A i \in Ids : AsMoved(i)' = AsMoved(i)
  <2>1. SUFFICES ASSUME NEW i \in Ids PROVE AsMoved(i)' = AsMoved(i)
    OBVIOUS
  <2>2. (\E u \in Moved : i \in Candidates(scanned, u))'
          <=> \E u \in Moved : i \in Candidates(scanned, u)
    BY <1>1, <1>2 DEF Candidates
  <2>3. QED
    BY <1>1, <1>2, <2>2, SameScan DEF AsMoved
<1>4. QED
  BY <1>1, <1>3, SameScan DEF RunInv

\* A run that was not cut short leaves nothing for the next one: it never
\* skips a group, whatever order it takes them in, and the groups it moved
\* left every other one as it was.
THEOREM RunsSettle == Spec => []CompleteRunsSettle
<1>1. IInv /\ RunInv /\ [Next]_vars => RunInv'
  <2> SUFFICES ASSUME IInv, RunInv, [Next]_vars PROVE RunInv'
    OBVIOUS
  <2>1. CASE Start                   BY <2>1, StartRun
  <2>2. CASE \E t \in Ids : Group(t) BY <2>2, GroupRun
  <2>3. CASE Upsert                  BY <2>3, UpsertRun
  <2>4. CASE Delete                  BY <2>4, DeleteRun
  <2>5. CASE Fails \/ Finish \/ ServerWrite
    BY <2>5, OffRun
  <2>6. CASE UNCHANGED vars          BY <2>6, StutterRun
  <2>7. QED
    BY <2>1, <2>2, <2>3, <2>4, <2>5, <2>6 DEF Next
<1>2. RunInv => CompleteRunsSettle
  <2>1. SUFFICES ASSUME RunInv, Complete
                 PROVE  /\ Planned(stored) = {}
                        /\ \A i \in Ids :
                              scanned[i] # stored[i] => i \notin Blocked(scanned)
    BY DEF CompleteRunsSettle
  <2>2. step = "group" /\ rest = {} /\ target = None
    BY <2>1 DEF Complete, RunInv
  <2>3. Moved = Planned(scanned)
    <3>1. \A t \in Planned(scanned) : t # None
      BY PlannedGroup, TargetAssumption
    <3>2. QED
      BY <2>2, <3>1 DEF Moved
  <2>4. Settled
    BY <2>1, <2>2, <2>3 DEF RunInv, AsMoved, Settled
  <2>5. QED
    BY <2>4, SettledHasNoPlan
<1>3. QED
  BY Invariance, InitRun, <1>1, <1>2, PTL DEF Spec

------------------------------------------------------------------------------
(* The grouping of facts. *)

InDoubt == {"dispatching", "ambiguous"}
GroupRuns == [file : Journals, op : Regrouping!Operations,
              outcome : [Regrouping!Changes -> Regrouping!Outcomes]]

GroupShape ==
    /\ fact \in [Regrouping!Changes -> Regrouping!Contents \cup {None}]
    /\ as \in [Regrouping!Changes -> Regrouping!Contents \cup {None}]
    /\ journal \in [Journals -> Regrouping!Records \cup {None}]
    /\ change \in Regrouping!Changes
    /\ stage \in {"off", "look", "send", "verify"}
    /\ stage # "off" => grouping \in GroupRuns
    /\ unknown \subseteq Journals \X Regrouping!Changes

\* The changes that the run has passed and settled are in place, and no
\* earlier success is claimed while it moves facts.
GroupProgress ==
    stage # "off" =>
        /\ outcome = None
        /\ \A c \in Regrouping!Changes :
              c < change /\ grouping.outcome[c] \in {"updated", "already_applied"} =>
                  fact[c] = Regrouping!Target(grouping.op)

\* The run has in memory what its journal knows of unknown writes; from the
\* announcement of a write until its outcome, the two are the same.
InMemory ==
    /\ stage # "off" =>
          \A c \in Regrouping!Changes : <<grouping.file, c>> \in unknown =>
              grouping.outcome[c] \in InDoubt
    /\ stage \in {"send", "verify"} =>
          /\ grouping.outcome[change] = "dispatching"
          /\ journal[grouping.file] = [op |-> grouping.op, outcome |-> grouping.outcome]

\* A write that is about to be sent is of a fact as it was reviewed, and was
\* not sent before with its outcome still unknown.
MaySend ==
    stage = "send" =>
        /\ fact[change] = Regrouping!Expected(grouping.op)
        /\ <<grouping.file, change>> \notin unknown

\* Between runs the next run starts with the first change.
GroupIdle == stage = "off" => change = 1

GroupInv ==
    /\ GroupShape
    /\ GroupIdle
    /\ GroupProgress
    /\ InMemory
    /\ MaySend
    /\ Regrouping!SuccessIsTrue
    /\ Regrouping!UnknownIsOnRecord
    /\ Regrouping!OnlyReviewedMoves

------------------------------------------------------------------------------
\* What a look at the fact in hand says of it: a change is ready when the
\* fact is as reviewed and no write is known to be open, and it is in place
\* only when the fact holds its target (the switch of Run).
LEMMA GroupStatus ==
    ASSUME Regrouping!GroupingAssumption, GroupShape, stage # "off"
    PROVE  /\ Regrouping!Status \in Regrouping!Outcomes \cup {"ready"}
           /\ Regrouping!Status \in {"updated", "already_applied"} =>
                  fact[change] = Regrouping!Target(grouping.op)
           /\ Regrouping!Status = "ready" =>
                  fact[change] = Regrouping!Expected(grouping.op) /\ grouping.outcome[change] \notin InDoubt
           /\ Regrouping!Status # "ambiguous" => Regrouping!Status \notin InDoubt
<1>1. fact[change] \in Regrouping!Contents \cup {None}
  BY DEF GroupShape
<1>2. None # Regrouping!Target(grouping.op) /\ None # Regrouping!Expected(grouping.op)
  BY DEF Regrouping!GroupingAssumption, Regrouping!Target, Regrouping!Expected,
    Regrouping!Reviewed, Regrouping!Contents
<1>3. CASE fact[change] = None
  BY <1>2, <1>3 DEF Regrouping!Status, Regrouping!Outcomes, InDoubt
<1>4. CASE fact[change] # None /\ fact[change] = Regrouping!Target(grouping.op)
  BY <1>4 DEF Regrouping!Status, Regrouping!Outcomes, InDoubt
<1>5. CASE fact[change] # None /\ fact[change] # Regrouping!Target(grouping.op)
           /\ fact[change] = Regrouping!Expected(grouping.op)
  BY <1>5 DEF Regrouping!Status, Regrouping!Sent, Regrouping!Outcomes, InDoubt
<1>6. CASE fact[change] # None /\ fact[change] # Regrouping!Target(grouping.op)
           /\ fact[change] # Regrouping!Expected(grouping.op)
  BY <1>6 DEF Regrouping!Status, Regrouping!Outcomes, InDoubt
<1>7. QED
  BY <1>3, <1>4, <1>5, <1>6

\* A run that ends with an error keeps everything, whether or not its journal
\* was saved, if both journals record the writes of unknown outcome.
LEMMA GroupError ==
    ASSUME Regrouping!GroupingAssumption, GroupInv, stage # "off",
           NEW o \in [Regrouping!Changes -> Regrouping!Outcomes],
           Regrouping!Saved(o) \/ UNCHANGED journal, Regrouping!Stops("error"),
           fact' \in [Regrouping!Changes -> Regrouping!Contents \cup {None}],
           as' \in [Regrouping!Changes -> Regrouping!Contents \cup {None}],
           unknown' \subseteq Journals \X Regrouping!Changes,
           \A u \in unknown' : /\ journal[u[1]] # None
                               /\ journal[u[1]].outcome[u[2]] \in InDoubt
                               /\ u[1] = grouping.file => o[u[2]] \in InDoubt,
           ~resent',
           Regrouping!OnlyReviewedMoves'
    PROVE  GroupInv'
<1>1. grouping \in GroupRuns
  BY DEF GroupInv, GroupShape
<1>2. stage' = "off" /\ outcome' = "error" /\ change' = 1
  BY DEF Regrouping!Stops
<1>3. journal' \in [Journals -> Regrouping!Records \cup {None}]
  BY <1>1 DEF Regrouping!Saved, GroupInv, GroupShape, GroupRuns, Regrouping!Records
<1>4. GroupShape'
  BY <1>2, <1>3 DEF GroupShape, Regrouping!GroupingAssumption, Regrouping!Changes
<1>5. GroupIdle' /\ GroupProgress' /\ InMemory' /\ MaySend' /\ Regrouping!SuccessIsTrue'
  BY <1>2 DEF GroupIdle, GroupProgress, InMemory, MaySend, Regrouping!SuccessIsTrue,
    Regrouping!Operations
<1>6. Regrouping!UnknownIsOnRecord'
  <2>1. SUFFICES ASSUME NEW u \in unknown'
                 PROVE  journal'[u[1]] # None /\ journal'[u[1]].outcome[u[2]] \in InDoubt
    BY DEF Regrouping!UnknownIsOnRecord, InDoubt
  <2>2. CASE UNCHANGED journal
    BY <2>1, <2>2
  <2>3. CASE Regrouping!Saved(o) /\ u[1] = grouping.file
    <3>1. journal'[u[1]] = [op |-> grouping.op, outcome |-> o]
      BY <1>1, <2>3 DEF Regrouping!Saved, GroupInv, GroupShape, GroupRuns
    <3>2. journal'[u[1]] \in Regrouping!Records
      BY <1>1, <3>1 DEF GroupRuns, Regrouping!Records
    <3>3. QED
      BY <2>1, <2>3, <3>1, <3>2 DEF Regrouping!GroupingAssumption
  <2>4. CASE Regrouping!Saved(o) /\ u[1] # grouping.file
    <3>1. u[1] \in Journals
      BY <2>1
    <3>2. journal'[u[1]] = journal[u[1]]
      BY <1>1, <2>4, <3>1 DEF Regrouping!Saved, GroupInv, GroupShape, GroupRuns
    <3>3. QED
      BY <2>1, <3>2
  <2>5. QED
    BY <2>2, <2>3, <2>4
<1>7. QED
  BY <1>4, <1>5, <1>6 DEF GroupInv

\* Recording the outcome of the change in hand keeps the invariant, if the
\* outcome is settled only when the fact holds its target, and open whenever
\* the write still is: the last change then makes a success true.
LEMMA GroupRecord ==
    ASSUME Regrouping!GroupingAssumption, GroupInv, stage # "off",
           NEW status \in Regrouping!Outcomes,
           status \in {"updated", "already_applied"} =>
               fact[change] = Regrouping!Target(grouping.op),
           Regrouping!Record(status),
           unknown' \subseteq unknown,
           status \notin InDoubt => Regrouping!InHand \notin unknown',
           UNCHANGED <<fact, as, resent>>
    PROVE  GroupInv'
<1> DEFINE o == Regrouping!With(status)
<1>1. grouping \in GroupRuns /\ change \in Regrouping!Changes
  BY DEF GroupInv, GroupShape
<1>2. /\ o \in [Regrouping!Changes -> Regrouping!Outcomes]
      /\ o[change] = status
      /\ \A c \in Regrouping!Changes : c # change => o[c] = grouping.outcome[c]
  BY <1>1 DEF Regrouping!With, GroupRuns
<1>3. \A c \in Regrouping!Changes : <<grouping.file, c>> \in unknown' => o[c] \in InDoubt
  BY <1>1, <1>2 DEF GroupInv, InMemory, Regrouping!InHand
<1>4. \A u \in unknown' : /\ u = <<u[1], u[2]>>
                          /\ u[1] \in Journals
                          /\ u[2] \in Regrouping!Changes
                          /\ journal[u[1]] # None
                          /\ journal[u[1]].outcome[u[2]] \in InDoubt
  BY DEF GroupInv, GroupShape, Regrouping!UnknownIsOnRecord, InDoubt
<1>5. /\ fact' \in [Regrouping!Changes -> Regrouping!Contents \cup {None}]
      /\ as' \in [Regrouping!Changes -> Regrouping!Contents \cup {None}]
      /\ unknown' \subseteq Journals \X Regrouping!Changes
      /\ ~resent'
      /\ Regrouping!OnlyReviewedMoves'
  BY DEF GroupInv, GroupShape, Regrouping!UnknownIsOnRecord, Regrouping!OnlyReviewedMoves
<1>6. CASE Regrouping!SaveFails(o)
  <2>1. \A u \in unknown' : /\ journal[u[1]] # None
                            /\ journal[u[1]].outcome[u[2]] \in InDoubt
                            /\ u[1] = grouping.file => o[u[2]] \in InDoubt
    BY <1>3, <1>4
  <2>2. (Regrouping!Saved(o) \/ UNCHANGED journal) /\ Regrouping!Stops("error")
    BY <1>6 DEF Regrouping!SaveFails
  <2>3. QED
    BY <1>2, <1>5, <2>1, <2>2, GroupError
<1>7. CASE Regrouping!Saved(o) /\ ~Regrouping!SaveFails(o)
  <2>1. /\ journal'[grouping.file] = [op |-> grouping.op, outcome |-> o]
        /\ \A f \in Journals : f # grouping.file => journal'[f] = journal[f]
        /\ journal' \in [Journals -> Regrouping!Records \cup {None}]
    BY <1>1, <1>2, <1>7 DEF Regrouping!Saved, GroupInv, GroupShape, GroupRuns,
      Regrouping!Records
  <2>2. journal'[grouping.file] # None
    BY <1>1, <1>2, <2>1 DEF GroupRuns, Regrouping!Records, Regrouping!GroupingAssumption
  <2>3. Regrouping!UnknownIsOnRecord'
    <3>1. SUFFICES ASSUME NEW u \in unknown'
                   PROVE  journal'[u[1]] # None /\ journal'[u[1]].outcome[u[2]] \in InDoubt
      BY <1>5 DEF Regrouping!UnknownIsOnRecord, InDoubt
    <3>2. CASE u[1] = grouping.file
      BY <1>3, <1>4, <2>1, <2>2, <3>1, <3>2
    <3>3. CASE u[1] # grouping.file
      BY <1>4, <2>1, <3>1, <3>3
    <3>4. QED
      BY <3>2, <3>3
  <2>4. CASE change < NumChanges
    <3>1. /\ grouping' = [grouping EXCEPT !.outcome = o]
          /\ change' = change + 1
          /\ stage' = "look"
          /\ outcome' = outcome
      BY <1>7, <2>4 DEF Regrouping!Record
    <3>2. grouping' \in GroupRuns /\ grouping'.outcome = o /\ grouping'.file = grouping.file /\ grouping'.op = grouping.op
      BY <1>1, <1>2, <3>1 DEF GroupRuns
    <3>3. change' \in Regrouping!Changes
      BY <1>1, <2>4, <3>1 DEF Regrouping!Changes, Regrouping!GroupingAssumption
    <3>4. GroupShape'
      BY <1>5, <2>1, <3>1, <3>2, <3>3 DEF GroupShape
    <3>5. GroupProgress'
      <4>1. SUFFICES ASSUME NEW c \in Regrouping!Changes, c < change',
                            o[c] \in {"updated", "already_applied"}
                     PROVE  fact[c] = Regrouping!Target(grouping.op)
        BY <3>1, <3>2 DEF GroupProgress, GroupInv, Regrouping!Target, Regrouping!Reviewed
      <4>2. CASE c = change
        BY <1>2, <4>1, <4>2
      <4>3. CASE c # change
        <5>1. c < change
          BY <1>1, <3>1, <4>1, <4>3 DEF Regrouping!Changes
        <5>2. QED
          BY <1>2, <4>1, <4>3, <5>1 DEF GroupInv, GroupProgress
      <4>4. QED
        BY <4>2, <4>3
    <3>6. InMemory' /\ MaySend' /\ GroupIdle'
      BY <1>3, <3>1, <3>2 DEF InMemory, MaySend, GroupIdle
    <3>7. Regrouping!SuccessIsTrue'
      BY <3>1 DEF GroupInv, Regrouping!SuccessIsTrue, Regrouping!Target, Regrouping!Reviewed
    <3>8. QED
      BY <1>5, <2>3, <3>4, <3>5, <3>6, <3>7 DEF GroupInv
  <2>5. CASE ~(change < NumChanges)
    <3>1. Regrouping!Stops(IF Regrouping!Settled(o) THEN grouping.op ELSE "error")
      BY <1>7, <2>5 DEF Regrouping!Record
    <3>2. stage' = "off" /\ change' = 1
      BY <3>1 DEF Regrouping!Stops
    <3>3. GroupShape'
      <4>1. change' \in Regrouping!Changes
        BY <3>2 DEF Regrouping!GroupingAssumption, Regrouping!Changes
      <4>2. QED
        BY <1>5, <2>1, <3>2, <4>1 DEF GroupShape
    <3>4. GroupIdle' /\ GroupProgress' /\ InMemory' /\ MaySend'
      BY <3>2 DEF GroupIdle, GroupProgress, InMemory, MaySend
    <3>5. Regrouping!SuccessIsTrue'
      <4>1. SUFFICES ASSUME Regrouping!Settled(o), outcome' = grouping.op, NEW c \in Regrouping!Changes
                     PROVE  fact[c] = Regrouping!Target(grouping.op)
        BY <3>1 DEF Regrouping!SuccessIsTrue, Regrouping!Stops, Regrouping!Operations,
          Regrouping!Target, Regrouping!Reviewed
      <4>2. o[c] \in {"updated", "already_applied"}
        BY <4>1 DEF Regrouping!Settled
      <4>3. CASE c = change
        BY <1>2, <4>2, <4>3
      <4>4. CASE c # change
        <5>1. c < change
          BY <1>1, <2>5, <4>1, <4>4 DEF Regrouping!Changes, Regrouping!GroupingAssumption
        <5>2. QED
          BY <1>2, <4>2, <4>4, <5>1 DEF GroupInv, GroupProgress
      <4>5. QED
        BY <4>3, <4>4
    <3>6. QED
      BY <1>5, <2>3, <3>3, <3>4, <3>5 DEF GroupInv
  <2>6. QED
    BY <2>4, <2>5
<1>8. QED
  BY <1>6, <1>7 DEF Regrouping!Record

------------------------------------------------------------------------------
LEMMA GroupStarts ==
    ASSUME Regrouping!GroupingAssumption, Regrouping!Init
    PROVE  GroupInv
<1>1. GroupShape
  BY DEF Regrouping!Init, GroupShape, Regrouping!GroupingAssumption, Regrouping!Changes,
    Regrouping!Reviewed, Regrouping!Contents
<1>2. QED
  BY <1>1 DEF Regrouping!Init, GroupInv, GroupIdle, GroupProgress, InMemory, MaySend,
    Regrouping!SuccessIsTrue, Regrouping!UnknownIsOnRecord,
              Regrouping!OnlyReviewedMoves, Regrouping!GroupingAssumption

\* A run takes over what its journal knows, and claims nothing.
LEMMA GroupStart ==
    ASSUME Regrouping!GroupingAssumption, GroupInv, NEW f \in Journals, NEW kind \in Regrouping!Operations, Regrouping!Start(f, kind)
    PROVE  GroupInv'
<1>1. /\ grouping' = [file |-> f, op |-> kind,
                 outcome |-> IF journal[f] = None THEN [c \in Regrouping!Changes |-> "none"]
                             ELSE journal[f].outcome]
      /\ stage' = "look" /\ outcome' = None
      /\ UNCHANGED <<fact, journal, change, as, unknown, resent>>
  BY DEF Regrouping!Start
<1>2. grouping' \in GroupRuns
  <2>1. journal[f] # None => journal[f] \in Regrouping!Records
    BY DEF GroupInv, GroupShape
  <2>2. "none" \in Regrouping!Outcomes
    BY DEF Regrouping!Outcomes
  <2>3. QED
    BY <1>1, <2>1, <2>2 DEF GroupRuns, Regrouping!Records
<1>3. GroupShape'
  BY <1>1, <1>2 DEF GroupInv, GroupShape
<1>4. change = 1
  BY DEF GroupInv, GroupShape, GroupIdle, Regrouping!Start
<1>5. GroupProgress'
  BY <1>1, <1>4 DEF GroupProgress, Regrouping!Changes
<1>6. InMemory' /\ MaySend'
  BY <1>1 DEF GroupInv, InMemory, MaySend, Regrouping!UnknownIsOnRecord, InDoubt
<1>7. Regrouping!SuccessIsTrue' /\ Regrouping!UnknownIsOnRecord' /\ Regrouping!OnlyReviewedMoves'
  BY <1>1 DEF GroupInv, Regrouping!SuccessIsTrue, Regrouping!UnknownIsOnRecord,
    Regrouping!OnlyReviewedMoves, Regrouping!GroupingAssumption
<1>8. QED
  BY <1>1, <1>3, <1>5, <1>6, <1>7 DEF GroupInv, GroupIdle

LEMMA GroupPass ==
    ASSUME Regrouping!GroupingAssumption, GroupInv, Regrouping!Pass
    PROVE  GroupInv'
<1>1. stage # "off" /\ GroupShape
  BY DEF Regrouping!Pass, GroupInv
<1>2. /\ Regrouping!Status \in Regrouping!Outcomes
      /\ Regrouping!Status \in {"updated", "already_applied"} =>
                  fact[change] = Regrouping!Target(grouping.op)
      /\ Regrouping!Status # "ambiguous" => Regrouping!Status \notin InDoubt
  BY <1>1, GroupStatus DEF Regrouping!Pass
<1>3. /\ Regrouping!Record(Regrouping!Status)
      /\ unknown' \subseteq unknown
      /\ Regrouping!Status \notin InDoubt => Regrouping!InHand \notin unknown'
      /\ UNCHANGED <<fact, as, resent>>
  BY DEF Regrouping!Pass, InDoubt
<1>4. QED
  BY <1>1, <1>2, <1>3, GroupRecord

LEMMA GroupVerify ==
    ASSUME Regrouping!GroupingAssumption, GroupInv, Regrouping!Verify
    PROVE  GroupInv'
<1>1. stage # "off" /\ UNCHANGED <<fact, as, resent>>
  BY DEF Regrouping!Verify
<1>2. CASE /\ fact[change] = Regrouping!Target(grouping.op)
           /\ Regrouping!Record("updated")
           /\ unknown' = unknown \ {Regrouping!InHand}
  <2>1. "updated" \in Regrouping!Outcomes /\ unknown' \subseteq unknown /\ Regrouping!InHand \notin unknown'
    BY <1>2 DEF Regrouping!Outcomes
  <2>2. QED
    BY <1>1, <1>2, <2>1, GroupRecord
<1>3. CASE Regrouping!Record("ambiguous") /\ UNCHANGED unknown
  <2>1. "ambiguous" \in Regrouping!Outcomes /\ unknown' \subseteq unknown /\ "ambiguous" \in InDoubt
    BY <1>3 DEF Regrouping!Outcomes, InDoubt
  <2>2. QED
    BY <1>1, <1>3, <2>1, GroupRecord
<1>4. QED
  BY <1>2, <1>3 DEF Regrouping!Verify

\* What is announced is what is about to be sent: no write of unknown outcome.
LEMMA GroupAnnounce ==
    ASSUME Regrouping!GroupingAssumption, GroupInv, Regrouping!Announce
    PROVE  GroupInv'
<1> DEFINE o == Regrouping!With("dispatching")
<1>1. stage = "look" /\ Regrouping!Status = "ready" /\ UNCHANGED <<fact, as, unknown, resent>>
  BY DEF Regrouping!Announce
<1>2. fact[change] = Regrouping!Expected(grouping.op) /\ grouping.outcome[change] \notin InDoubt
  BY <1>1, GroupStatus DEF GroupInv
<1>3. grouping \in GroupRuns /\ change \in Regrouping!Changes
  BY <1>1 DEF GroupInv, GroupShape
<1>4. /\ o \in [Regrouping!Changes -> Regrouping!Outcomes]
      /\ o[change] = "dispatching"
      /\ \A c \in Regrouping!Changes : c # change => o[c] = grouping.outcome[c]
  BY <1>3 DEF Regrouping!With, GroupRuns, Regrouping!Outcomes
<1>5. Regrouping!InHand \notin unknown
  BY <1>1, <1>2, <1>3 DEF GroupInv, InMemory, Regrouping!InHand
<1>6. \A c \in Regrouping!Changes : <<grouping.file, c>> \in unknown => o[c] \in InDoubt
  BY <1>1, <1>4 DEF GroupInv, InMemory, InDoubt
<1>7. \A u \in unknown : /\ u = <<u[1], u[2]>>
                         /\ u[1] \in Journals
                         /\ u[2] \in Regrouping!Changes
                         /\ journal[u[1]] # None
                         /\ journal[u[1]].outcome[u[2]] \in InDoubt
  BY DEF GroupInv, GroupShape, Regrouping!UnknownIsOnRecord, InDoubt
<1>8. /\ fact' \in [Regrouping!Changes -> Regrouping!Contents \cup {None}]
      /\ as' \in [Regrouping!Changes -> Regrouping!Contents \cup {None}]
      /\ unknown' \subseteq Journals \X Regrouping!Changes
      /\ ~resent'
      /\ Regrouping!OnlyReviewedMoves'
  BY <1>1 DEF GroupInv, GroupShape, Regrouping!UnknownIsOnRecord, Regrouping!OnlyReviewedMoves
<1>9. CASE Regrouping!SaveFails(o)
  <2>1. \A u \in unknown' : /\ journal[u[1]] # None
                            /\ journal[u[1]].outcome[u[2]] \in InDoubt
                            /\ u[1] = grouping.file => o[u[2]] \in InDoubt
    BY <1>1, <1>6, <1>7
  <2>2. (Regrouping!Saved(o) \/ UNCHANGED journal) /\ Regrouping!Stops("error")
    BY <1>9 DEF Regrouping!SaveFails
  <2>3. QED
    BY <1>1, <1>4, <1>8, <2>1, <2>2, GroupError
<1>10. CASE /\ Regrouping!Saved(o)
            /\ grouping' = [grouping EXCEPT !.outcome = o]
            /\ stage' = "send"
            /\ UNCHANGED <<change, outcome>>
  <2>1. grouping' \in GroupRuns /\ grouping'.outcome = o /\ grouping'.file = grouping.file /\ grouping'.op = grouping.op
    BY <1>3, <1>4, <1>10 DEF GroupRuns
  <2>2. /\ journal'[grouping.file] = [op |-> grouping.op, outcome |-> o]
        /\ \A f \in Journals : f # grouping.file => journal'[f] = journal[f]
        /\ journal' \in [Journals -> Regrouping!Records \cup {None}]
    BY <1>3, <1>4, <1>10 DEF Regrouping!Saved, GroupInv, GroupShape, GroupRuns,
      Regrouping!Records
  <2>3. journal'[grouping.file] # None
    BY <1>3, <1>4, <2>2 DEF GroupRuns, Regrouping!Records, Regrouping!GroupingAssumption
  <2>4. GroupShape'
    BY <1>8, <1>10, <2>1, <2>2 DEF GroupInv, GroupShape
  <2>5. GroupProgress'
    <3>1. SUFFICES ASSUME NEW c \in Regrouping!Changes, c < change,
                          o[c] \in {"updated", "already_applied"}
                   PROVE  fact[c] = Regrouping!Target(grouping.op)
      BY <1>1, <1>10, <2>1 DEF GroupProgress, GroupInv, Regrouping!Target, Regrouping!Reviewed
    <3>2. c # change
      BY <1>3, <3>1 DEF Regrouping!Changes
    <3>3. QED
      BY <1>1, <1>4, <3>1, <3>2 DEF GroupInv, GroupProgress
  <2>6. InMemory'
    BY <1>1, <1>4, <1>6, <1>10, <2>1, <2>2 DEF InMemory
  <2>7. MaySend'
    BY <1>1, <1>2, <1>5, <1>10, <2>1 DEF MaySend, Regrouping!InHand, Regrouping!Expected,
      Regrouping!Reviewed
  <2>8. Regrouping!SuccessIsTrue'
    BY <1>1, <1>10 DEF GroupInv, Regrouping!SuccessIsTrue, Regrouping!Target,
      Regrouping!Reviewed
  <2>9. Regrouping!UnknownIsOnRecord'
    <3>1. SUFFICES ASSUME NEW u \in unknown
                   PROVE  journal'[u[1]] # None /\ journal'[u[1]].outcome[u[2]] \in InDoubt
      BY <1>1, <1>8 DEF Regrouping!UnknownIsOnRecord, InDoubt
    <3>2. CASE u[1] = grouping.file
      BY <1>6, <1>7, <2>2, <2>3, <3>1, <3>2
    <3>3. CASE u[1] # grouping.file
      BY <1>7, <2>2, <3>1, <3>3
    <3>4. QED
      BY <3>2, <3>3
  <2>10. GroupIdle'
    BY <1>10 DEF GroupIdle
  <2>11. QED
    BY <1>8, <2>4, <2>5, <2>6, <2>7, <2>8, <2>9, <2>10 DEF GroupInv
<1>11. QED
  BY <1>9, <1>10 DEF Regrouping!Announce

\* The write that is sent is the one on record; whether it was applied or not,
\* the fact stays in one of the two groups it was reviewed in.
LEMMA GroupSend ==
    ASSUME Regrouping!GroupingAssumption, GroupInv, Regrouping!Send
    PROVE  GroupInv'
<1>1. /\ stage = "send"
      /\ unknown' = unknown \cup {Regrouping!InHand}
      /\ resent' = (resent \/ Regrouping!InHand \in unknown)
      /\ as' = as
  BY DEF Regrouping!Send
<1>2. grouping \in GroupRuns /\ change \in Regrouping!Changes /\ Regrouping!InHand = <<grouping.file, change>>
  BY <1>1 DEF GroupInv, GroupShape, Regrouping!InHand
<1>3. /\ fact[change] = Regrouping!Expected(grouping.op)
      /\ Regrouping!InHand \notin unknown
      /\ grouping.outcome[change] = "dispatching"
      /\ journal[grouping.file] = [op |-> grouping.op, outcome |-> grouping.outcome]
  BY <1>1 DEF GroupInv, MaySend, InMemory, Regrouping!InHand
<1>4. /\ Regrouping!Target(grouping.op) \in Regrouping!Contents
      /\ Regrouping!Target(grouping.op) \in {Regrouping!Reviewed("before"), Regrouping!Reviewed("after")}
      /\ Regrouping!Expected(grouping.op) \in {Regrouping!Reviewed("before"), Regrouping!Reviewed("after")}
  BY DEF Regrouping!Target, Regrouping!Expected, Regrouping!Reviewed, Regrouping!Contents
<1>5. fact' \in {fact, [fact EXCEPT ![change] = Regrouping!Target(grouping.op)]}
  BY DEF Regrouping!Send
<1>6. fact' \in [Regrouping!Changes -> Regrouping!Contents \cup {None}]
  BY <1>2, <1>4, <1>5 DEF GroupInv, GroupShape
<1>7. \A c \in Regrouping!Changes : c # change => fact'[c] = fact[c]
  BY <1>2, <1>5 DEF GroupInv, GroupShape
<1>8. fact'[change] \in {fact[change], Regrouping!Target(grouping.op)}
  BY <1>2, <1>5 DEF GroupInv, GroupShape
<1>9. Regrouping!OnlyReviewedMoves'
  <2>1. SUFFICES ASSUME NEW c \in Regrouping!Changes, fact'[c] # as[c]
                 PROVE  {fact'[c], as[c]} \subseteq {Regrouping!Reviewed("before"), Regrouping!Reviewed("after")}
    BY <1>1 DEF Regrouping!OnlyReviewedMoves
  <2>2. CASE c # change
    BY <1>7, <2>1, <2>2 DEF GroupInv, Regrouping!OnlyReviewedMoves
  <2>3. CASE c = change
    BY <1>2, <1>3, <1>4, <1>8, <2>1, <2>3 DEF GroupInv, Regrouping!OnlyReviewedMoves
  <2>4. QED
    BY <2>2, <2>3
<1>10. ~resent'
  BY <1>1, <1>3 DEF GroupInv, Regrouping!UnknownIsOnRecord
<1>11. unknown' \subseteq Journals \X Regrouping!Changes
  BY <1>1, <1>2 DEF GroupInv, GroupShape, GroupRuns
<1>12. journal[grouping.file] # None
  BY <1>2, <1>3 DEF GroupRuns, Regrouping!Records, Regrouping!GroupingAssumption
<1>13. \A u \in unknown' : /\ u = <<u[1], u[2]>>
                           /\ u[2] \in Regrouping!Changes
                           /\ journal[u[1]] # None
                           /\ journal[u[1]].outcome[u[2]] \in InDoubt
  <2>1. SUFFICES ASSUME NEW u \in unknown'
                 PROVE  /\ u = <<u[1], u[2]>>
                        /\ u[2] \in Regrouping!Changes
                        /\ journal[u[1]] # None
                        /\ journal[u[1]].outcome[u[2]] \in InDoubt
    OBVIOUS
  <2>2. CASE u \in unknown
    BY <2>2 DEF GroupInv, GroupShape, Regrouping!UnknownIsOnRecord, InDoubt
  <2>3. CASE u = Regrouping!InHand
    BY <1>2, <1>3, <1>12, <2>3 DEF InDoubt
  <2>4. QED
    BY <1>1, <2>1, <2>2, <2>3
<1>14. CASE /\ fact' = [fact EXCEPT ![change] = Regrouping!Target(grouping.op)]
            /\ stage' = "verify"
            /\ UNCHANGED <<journal, grouping, change, outcome>>
  <2>1. GroupShape'
    BY <1>1, <1>6, <1>11, <1>14 DEF GroupInv, GroupShape
  <2>2. GroupProgress'
    <3>1. SUFFICES ASSUME NEW c \in Regrouping!Changes, c < change,
                          grouping.outcome[c] \in {"updated", "already_applied"}
                   PROVE  fact'[c] = Regrouping!Target(grouping.op)
      BY <1>1, <1>14 DEF GroupProgress, GroupInv, Regrouping!Target, Regrouping!Reviewed
    <3>2. c # change
      BY <1>2, <3>1 DEF Regrouping!Changes
    <3>3. QED
      BY <1>1, <1>7, <3>1, <3>2 DEF GroupInv, GroupProgress
  <2>3. \A c \in Regrouping!Changes : <<grouping.file, c>> \in unknown' => grouping.outcome[c] \in InDoubt
    BY <1>1, <1>2, <1>3 DEF GroupInv, InMemory, InDoubt
  <2>4. InMemory'
    BY <1>3, <1>14, <2>3 DEF InMemory
  <2>5. Regrouping!SuccessIsTrue'
    BY <1>1, <1>14 DEF GroupInv, GroupProgress, Regrouping!SuccessIsTrue,
      Regrouping!GroupingAssumption
  <2>6. Regrouping!UnknownIsOnRecord'
    BY <1>10, <1>13, <1>14 DEF Regrouping!UnknownIsOnRecord, InDoubt
  <2>7. MaySend' /\ GroupIdle'
    BY <1>14 DEF MaySend, GroupIdle
  <2>8. QED
    BY <1>9, <2>1, <2>2, <2>4, <2>5, <2>6, <2>7 DEF GroupInv
<1>15. CASE Regrouping!SaveFails(Regrouping!With("ambiguous"))
  <2> DEFINE o == Regrouping!With("ambiguous")
  <2>1. /\ o \in [Regrouping!Changes -> Regrouping!Outcomes]
        /\ o[change] = "ambiguous"
        /\ \A c \in Regrouping!Changes : c # change => o[c] = grouping.outcome[c]
    BY <1>2 DEF Regrouping!With, GroupRuns, Regrouping!Outcomes
  <2>2. \A u \in unknown' : /\ journal[u[1]] # None
                            /\ journal[u[1]].outcome[u[2]] \in InDoubt
                            /\ u[1] = grouping.file => o[u[2]] \in InDoubt
    BY <1>1, <1>2, <1>13, <2>1 DEF GroupInv, InMemory, InDoubt
  <2>3. (Regrouping!Saved(o) \/ UNCHANGED journal) /\ Regrouping!Stops("error")
    BY <1>15 DEF Regrouping!SaveFails
  <2>4. as' \in [Regrouping!Changes -> Regrouping!Contents \cup {None}] /\ stage # "off"
    BY <1>1 DEF GroupInv, GroupShape
  <2>5. QED
    BY <1>6, <1>9, <1>10, <1>11, <2>1, <2>2, <2>3, <2>4, GroupError
<1>16. QED
  BY <1>14, <1>15 DEF Regrouping!Send

LEMMA GroupHalt ==
    ASSUME Regrouping!GroupingAssumption, GroupInv, Regrouping!Halt
    PROVE  GroupInv'
<1>1. /\ stage # "off" /\ Regrouping!Stops("error")
      /\ UNCHANGED <<fact, journal, as, unknown, resent>>
  BY DEF Regrouping!Halt
<1>2. grouping.outcome \in [Regrouping!Changes -> Regrouping!Outcomes]
  BY <1>1 DEF GroupInv, GroupShape, GroupRuns
<1>3. \A u \in unknown' : /\ journal[u[1]] # None
                          /\ journal[u[1]].outcome[u[2]] \in InDoubt
                          /\ u[1] = grouping.file => grouping.outcome[u[2]] \in InDoubt
  BY <1>1 DEF GroupInv, GroupShape, InMemory, Regrouping!UnknownIsOnRecord, InDoubt
<1>4. /\ fact' \in [Regrouping!Changes -> Regrouping!Contents \cup {None}]
      /\ as' \in [Regrouping!Changes -> Regrouping!Contents \cup {None}]
      /\ unknown' \subseteq Journals \X Regrouping!Changes
      /\ ~resent'
      /\ Regrouping!OnlyReviewedMoves'
  BY <1>1 DEF GroupInv, GroupShape, Regrouping!UnknownIsOnRecord, Regrouping!OnlyReviewedMoves
<1>5. QED
  BY <1>1, <1>2, <1>3, <1>4, GroupError

LEMMA GroupEdit ==
    ASSUME Regrouping!GroupingAssumption, GroupInv, NEW c \in Regrouping!Changes, Regrouping!Edit(c)
    PROVE  GroupInv'
<1>1. PICK new \in Regrouping!Contents \cup {None} :
          /\ fact' = [fact EXCEPT ![c] = new]
          /\ as' = [as EXCEPT ![c] = new]
  BY DEF Regrouping!Edit
<1>2. /\ stage = "off" /\ stage' = "off" /\ outcome' = None
      /\ UNCHANGED <<journal, grouping, change, unknown, resent>>
  BY DEF Regrouping!Edit
<1>3. GroupShape'
  BY <1>1, <1>2 DEF GroupInv, GroupShape
<1>4. Regrouping!OnlyReviewedMoves'
  BY <1>1 DEF GroupInv, GroupShape, Regrouping!OnlyReviewedMoves
<1>5. GroupProgress' /\ InMemory' /\ MaySend' /\ Regrouping!SuccessIsTrue'
  BY <1>2 DEF GroupProgress, InMemory, MaySend, Regrouping!SuccessIsTrue,
    Regrouping!GroupingAssumption
<1>6. Regrouping!UnknownIsOnRecord' /\ GroupIdle'
  BY <1>2 DEF GroupInv, Regrouping!UnknownIsOnRecord, GroupIdle
<1>7. QED
  BY <1>3, <1>4, <1>5, <1>6 DEF GroupInv

\* Every step of the tool, of the operator and of the server between runs
\* keeps the invariant.
LEMMA GroupStays ==
    ASSUME Regrouping!GroupingAssumption, GroupInv, [Regrouping!Next]_(Regrouping!vars)
    PROVE  GroupInv'
<1>1. CASE UNCHANGED Regrouping!vars
  BY <1>1 DEF Regrouping!vars, GroupInv, GroupShape, GroupIdle, GroupProgress, InMemory,
    MaySend, Regrouping!SuccessIsTrue,
              Regrouping!UnknownIsOnRecord, Regrouping!OnlyReviewedMoves, Regrouping!Target,
                Regrouping!Expected
<1>2. CASE Regrouping!Next
  BY <1>2, GroupStart, GroupPass, GroupAnnounce, GroupSend, GroupVerify, GroupHalt, GroupEdit
  DEF Regrouping!Next
<1>3. QED
  BY <1>1, <1>2

\* A regrouping that reports success has grouped every fact of the manifest as
\* reviewed; a write of unknown outcome stands in its journal and is not sent
\* again under it; and a fact that others changed stays as they left it: for
\* every manifest, with any number of journals, runs, crashes and changes.
THEOREM GroupingSound == MCSpec => []GroupingIsTrue
<1> USE ToolsAssumption DEF ToolsAssumption
<1>1. MCInit => GroupInv
  BY GroupStarts DEF MCInit
<1>2. ASSUME GroupInv, [MCNext]_<<tool, vars, factVars, vectorVars, groupVars, bundleVars>>
      PROVE  GroupInv'
  <2>1. [Regrouping!Next]_(Regrouping!vars)
    BY <1>2 DEF MCNext, groupVars, Regrouping!vars
  <2> QED  BY <1>2, <2>1, GroupStays
<1>3. GroupInv => GroupingIsTrue
  BY DEF GroupInv, GroupingIsTrue, Regrouping!GroupingIsTrue
<1> QED  BY <1>1, <1>2, <1>3, PTL DEF MCSpec

------------------------------------------------------------------------------
(* The embedding. *)

Space == Vectors!Spaces
Vector == Vectors!Embedded

VType ==
    /\ coll \in [{FromColl, ToColl} -> Space \cup {None}]
    /\ vectorWrites \in Nat
    /\ conf \in [Procs -> [model : Models \cup {None},
                           uses : SUBSET {FromColl, ToColl}, adopt : BOOLEAN]]
    /\ doing \in [Procs -> {"off", "inspect", "bind", "confirm", "serve"}]
    /\ unseen \in [Procs -> SUBSET {FromColl, ToColl}]
    /\ pending \in [Procs -> SUBSET ({FromColl, ToColl} \X {"create", "update"})]
    /\ manifest \in Vectors!Manifests \cup {None}
    /\ job \in {"off", "read", "copy", "verify", "target", "again", "accepted"}
    /\ read \in [Vecs -> Vector \cup {None}]

\* The source is bound to the model it was made with, if at all; while it is
\* not, all its points are there, so that nobody takes it for a new one.
SourceInv ==
    /\ coll[FromColl] # None
    /\ coll[FromColl].id \in {None, FirstModel}
    /\ \A q \in Vecs :
          coll[FromColl].pts[q] # None => coll[FromColl].pts[q].by = FirstModel
    /\ coll[FromColl].id = None => \A q \in Vecs : coll[FromColl].pts[q] # None

\* The target has an identity from its creation on.
TargetInv ==
    coll[ToColl] # None =>
        /\ coll[ToColl].id \in Models
        /\ \A q \in Vecs :
              coll[ToColl].pts[q] # None => coll[ToColl].pts[q].by = coll[ToColl].id

\* Collection c is process p's: the check that lets it serve still holds.
Trusts(p, c) == coll[c] # None /\ coll[c].id = conf[p].model

\* A process gives an identity only to the source and only the one it has; it
\* serves only from collections that still have its model's identity.
ProcOK(p) ==
    /\ doing[p] # "off" => conf[p].model \in Models
    /\ \A c \in {FromColl, ToColl} :
          <<c, "update">> \in pending[p] =>
              c = FromColl /\ conf[p].model = FirstModel
    /\ doing[p] = "confirm" => \A c \in conf[p].uses \ unseen[p] : Trusts(p, c)
    /\ doing[p] = "serve" => \A c \in conf[p].uses : Trusts(p, c)

ProcInv == \A p \in Procs : ProcOK(p)

\* The migration's target is its own while it copies, nobody else writes it
\* meanwhile, and once verified it has the points of the manifest.
JobInv ==
    /\ job \in {"read", "copy"} =>
          /\ manifest # None
          /\ coll[ToColl] # None
          /\ coll[ToColl].id = manifest.to
    /\ job # "off" => \A p \in Procs : ToColl \notin conf[p].uses
    /\ job = "again" =>
          /\ coll[ToColl] # None
          /\ Vectors!Versions(coll[ToColl].pts) = manifest.points

VInv == VType /\ SourceInv /\ TargetInv /\ ProcInv /\ JobInv

------------------------------------------------------------------------------
(* The changes of a collection. *)

LEMMA VectorFacts ==
    /\ FirstModel \in Models
    /\ FromColl # ToColl
    /\ None \notin Models /\ None \notin Nat /\ None \notin Vector
    /\ None \notin Vectors!Manifests /\ None \notin Space
BY ToolsAssumption DEF ToolsAssumption, Vectors!LegacyAssumption, Space, Vector

LEMMA SpaceFields ==
    ASSUME NEW r \in Space
    PROVE  /\ r # None
           /\ r.id \in Models \cup {None}
           /\ r.owner \in Vectors!Manifests \cup {None}
           /\ r.pts \in [Vecs -> Vector \cup {None}]
BY VectorFacts DEF Space, Vector, Vectors!Spaces

LEMMA NewSpace ==
    ASSUME NEW m \in Models, NEW o \in Vectors!Manifests \cup {None}
    PROVE  /\ [id |-> m, owner |-> o, pts |-> Vectors!Empty] \in Space
           /\ \A q \in Vecs : Vectors!Empty[q] = None
BY DEF Space, Vectors!Spaces, Vectors!Empty

\* A new identity, and a new point.
LEMMA NewIdentity ==
    ASSUME NEW r \in Space, NEW m \in Models
    PROVE  /\ [r EXCEPT !.id = m] \in Space
           /\ [r EXCEPT !.id = m].id = m
           /\ [r EXCEPT !.id = m].pts = r.pts
BY DEF Space, Vectors!Spaces

LEMMA NewPoint ==
    ASSUME NEW r \in Space, NEW q \in Vecs, NEW new \in Vector \cup {None}
    PROVE  LET s == [r EXCEPT !.pts[q] = new] IN
           /\ s \in Space
           /\ s.id = r.id
           /\ s.pts[q] = new
           /\ \A x \in Vecs \ {q} : s.pts[x] = r.pts[x]
BY DEF Space, Vectors!Spaces, Vector

------------------------------------------------------------------------------
(* Steps that change one process only. *)

\* What process p has to know of itself.
ProcFields(p) ==
    /\ conf[p] \in [model : Models \cup {None},
                    uses : SUBSET {FromColl, ToColl}, adopt : BOOLEAN]
    /\ doing[p] \in {"off", "inspect", "bind", "confirm", "serve"}
    /\ unseen[p] \in SUBSET {FromColl, ToColl}
    /\ pending[p] \in SUBSET ({FromColl, ToColl} \X {"create", "update"})

\* The state of process p changes, and of no other.
OnlyProc(p) ==
    /\ \E v : conf' = [conf EXCEPT ![p] = v]
    /\ \E v : doing' = [doing EXCEPT ![p] = v]
    /\ \E v : unseen' = [unseen EXCEPT ![p] = v]
    /\ \E v : pending' = [pending EXCEPT ![p] = v]

LEMMA OnlyProcTyped ==
    ASSUME VType, NEW p \in Procs, OnlyProc(p), ProcFields(p)'
    PROVE  /\ conf' \in [Procs -> [model : Models \cup {None},
                                   uses : SUBSET {FromColl, ToColl}, adopt : BOOLEAN]]
           /\ doing' \in [Procs -> {"off", "inspect", "bind", "confirm", "serve"}]
           /\ unseen' \in [Procs -> SUBSET {FromColl, ToColl}]
           /\ pending' \in [Procs -> SUBSET ({FromColl, ToColl} \X {"create", "update"})]
           /\ \A r \in Procs \ {p} :
                 /\ conf'[r] = conf[r]
                 /\ doing'[r] = doing[r]
                 /\ unseen'[r] = unseen[r]
                 /\ pending'[r] = pending[r]
<1>1. PICK v : conf' = [conf EXCEPT ![p] = v]
  BY DEF OnlyProc
<1>2. PICK w : doing' = [doing EXCEPT ![p] = w]
  BY DEF OnlyProc
<1>3. PICK x : unseen' = [unseen EXCEPT ![p] = x]
  BY DEF OnlyProc
<1>4. PICK y : pending' = [pending EXCEPT ![p] = y]
  BY DEF OnlyProc
<1>5. /\ conf \in [Procs -> [model : Models \cup {None},
                             uses : SUBSET {FromColl, ToColl}, adopt : BOOLEAN]]
      /\ doing \in [Procs -> {"off", "inspect", "bind", "confirm", "serve"}]
      /\ unseen \in [Procs -> SUBSET {FromColl, ToColl}]
      /\ pending \in [Procs -> SUBSET ({FromColl, ToColl} \X {"create", "update"})]
  BY DEF VType
<1>6. /\ v = conf'[p] /\ w = doing'[p] /\ x = unseen'[p] /\ y = pending'[p]
  BY <1>1, <1>2, <1>3, <1>4, <1>5
<1>7. /\ v \in [model : Models \cup {None},
                uses : SUBSET {FromColl, ToColl}, adopt : BOOLEAN]
      /\ w \in {"off", "inspect", "bind", "confirm", "serve"}
      /\ x \in SUBSET {FromColl, ToColl}
      /\ y \in SUBSET ({FromColl, ToColl} \X {"create", "update"})
  BY <1>6 DEF ProcFields
<1> QED
  BY <1>1, <1>2, <1>3, <1>4, <1>5, <1>7

LEMMA LocalStep ==
    ASSUME VInv, NEW p \in Procs, OnlyProc(p), ProcFields(p)', ProcOK(p)',
           UNCHANGED <<coll, vectorWrites, manifest, job, read>>,
           job # "off" => ToColl \notin conf'[p].uses
    PROVE  VInv'
<1>1. /\ conf' \in [Procs -> [model : Models \cup {None},
                              uses : SUBSET {FromColl, ToColl}, adopt : BOOLEAN]]
      /\ doing' \in [Procs -> {"off", "inspect", "bind", "confirm", "serve"}]
      /\ unseen' \in [Procs -> SUBSET {FromColl, ToColl}]
      /\ pending' \in [Procs -> SUBSET ({FromColl, ToColl} \X {"create", "update"})]
      /\ \A r \in Procs \ {p} :
            /\ conf'[r] = conf[r]
            /\ doing'[r] = doing[r]
            /\ unseen'[r] = unseen[r]
            /\ pending'[r] = pending[r]
  BY OnlyProcTyped DEF VInv
<1>2. VType'
  BY <1>1 DEF VInv, VType
<1>3. SourceInv' /\ TargetInv'
  BY DEF VInv, SourceInv, TargetInv
<1>4. ASSUME NEW r \in Procs PROVE ProcOK(r)'
  <2>1. CASE r = p
    BY <2>1
  <2>2. CASE r # p
    <3>1. ProcOK(r)
      BY DEF VInv, ProcInv
    <3>2. /\ conf'[r] = conf[r] /\ doing'[r] = doing[r]
          /\ unseen'[r] = unseen[r] /\ pending'[r] = pending[r] /\ coll' = coll
      BY <1>1, <2>2
    <3> QED
      BY <3>1, <3>2 DEF ProcOK, Trusts
  <2> QED
    BY <2>1, <2>2
<1>5. JobInv'
  BY <1>1 DEF VInv, JobInv, Vectors!Versions
<1> QED
  BY <1>2, <1>3, <1>4, <1>5 DEF VInv, ProcInv

LEMMA StopKnows ==
    ASSUME VType, NEW p \in Procs, Vectors!Stop(p)
    PROVE  OnlyProc(p) /\ ProcFields(p)' /\ ProcOK(p)' /\ conf'[p].uses = {}
<1>1. /\ conf'[p] = [model |-> None, uses |-> {}, adopt |-> FALSE]
      /\ doing'[p] = "off" /\ unseen'[p] = {} /\ pending'[p] = {}
  BY DEF VType, Vectors!Stop, Vectors!NoConf
<1>2. OnlyProc(p)
  BY DEF OnlyProc, Vectors!Stop
<1> QED
  BY <1>1, <1>2 DEF ProcFields, ProcOK

LEMMA VStart ==
    ASSUME VInv, NEW p \in Procs, Vectors!Start(p)
    PROVE  VInv'
<1>1. PICK m \in Models, uses \in SUBSET {FromColl, ToColl}, adopt \in BOOLEAN :
         /\ ToColl \in uses => job = "off"
         /\ conf' = [conf EXCEPT ![p] = [model |-> m, uses |-> uses, adopt |-> adopt]]
         /\ unseen' = [unseen EXCEPT ![p] = uses]
  BY DEF Vectors!Start, Vectors!Collections
<1>2. /\ doing' = [doing EXCEPT ![p] = "inspect"]
      /\ pending' = [pending EXCEPT ![p] = {}]
      /\ UNCHANGED <<coll, vectorWrites, manifest, job, read>>
  BY DEF Vectors!Start, Vectors!jobVars
<1>3. /\ conf'[p] = [model |-> m, uses |-> uses, adopt |-> adopt]
      /\ doing'[p] = "inspect" /\ unseen'[p] = uses /\ pending'[p] = {}
  BY <1>1, <1>2 DEF VInv, VType
<1>4. ProcFields(p)' /\ ProcOK(p)' /\ (job # "off" => ToColl \notin conf'[p].uses)
  BY <1>1, <1>3 DEF ProcFields, ProcOK
<1>5. OnlyProc(p)
  BY <1>1, <1>2 DEF OnlyProc
<1> QED
  BY <1>2, <1>4, <1>5, LocalStep

LEMMA VStop ==
    ASSUME VInv, NEW p \in Procs, Vectors!Stop(p),
           UNCHANGED <<coll, vectorWrites, manifest, job, read>>
    PROVE  VInv'
<1>1. OnlyProc(p) /\ ProcFields(p)' /\ ProcOK(p)' /\ conf'[p].uses = {}
  BY StopKnows DEF VInv
<1> QED
  BY <1>1, LocalStep

\* The fields of a process before a step, for the ones that stay.
LEMMA FieldsBefore ==
    ASSUME VType, NEW p \in Procs
    PROVE  ProcFields(p)
BY DEF VType, ProcFields

LEMMA VInspect ==
    ASSUME VInv, NEW p \in Procs, NEW c \in {FromColl, ToColl}, Vectors!Inspect(p, c),
           Vecs # {}
    PROVE  VInv'
<1>1. UNCHANGED <<coll, vectorWrites, manifest, job, read>>
  BY DEF Vectors!Inspect, Vectors!jobVars
<1>2. CASE Vectors!Bound(p, c) \/ Vectors!Bindable(p, c)
  <2> DEFINE mode == IF coll[c] = None THEN "create" ELSE "update"
  <2>1. /\ pending' = [pending EXCEPT ![p] =
               IF Vectors!Bound(p, c) THEN @ ELSE @ \cup {<<c, mode>>}]
        /\ unseen' = [unseen EXCEPT ![p] = @ \ {c}]
        /\ conf' = conf /\ doing' = doing /\ doing[p] = "inspect"
    BY <1>2 DEF Vectors!Inspect
  <2>2. mode \in {"create", "update"}
    OBVIOUS
  <2>3. ASSUME ~Vectors!Bound(p, c), mode = "update"
        PROVE  c = FromColl /\ conf[p].model = FirstModel
    <3>1. coll[c] # None /\ coll[c].id = None
      BY <1>2, <2>3 DEF Vectors!Bindable
    <3>2. c = FromColl
      BY <3>1, VectorFacts DEF VInv, TargetInv
    <3>3. Vectors!Held(c) # {}
      BY <3>1, <3>2, Vecs # {} DEF VInv, SourceInv, Vectors!Held
    <3> QED
      BY <1>2, <2>3, <3>1, <3>2, <3>3 DEF Vectors!Bindable
  <2> HIDE DEF mode
  <2>4. /\ pending'[p] = IF Vectors!Bound(p, c) THEN pending[p]
                         ELSE pending[p] \cup {<<c, mode>>}
        /\ unseen'[p] = unseen[p] \ {c}
    BY <2>1 DEF VInv, VType
  <2>5. ProcFields(p)'
    BY <2>1, <2>2, <2>4, FieldsBefore DEF VInv, ProcFields
  <2>6. ProcOK(p)'
    BY <2>1, <2>3, <2>4 DEF VInv, ProcInv, ProcOK
  <2>7. OnlyProc(p)
    <3>1. conf' = [conf EXCEPT ![p] = conf[p]] /\ doing' = [doing EXCEPT ![p] = doing[p]]
      BY <2>1 DEF VInv, VType
    <3> QED
      BY <2>1, <3>1 DEF OnlyProc
  <2>8. job # "off" => ToColl \notin conf'[p].uses
    BY <2>1 DEF VInv, JobInv
  <2> QED
    BY <1>1, <2>5, <2>6, <2>7, <2>8, LocalStep
<1>3. CASE ~(Vectors!Bound(p, c) \/ Vectors!Bindable(p, c))
  BY <1>1, <1>3, VStop DEF Vectors!Inspect
<1> QED
  BY <1>2, <1>3

LEMMA VPhase ==
    ASSUME VInv, NEW p \in Procs,
           Vectors!Inspected(p) \/ Vectors!AllBound(p) \/ Vectors!Serve(p)
    PROVE  VInv'
<1>1. /\ UNCHANGED <<coll, vectorWrites, manifest, job, read, conf, pending>>
      /\ \E w \in {"bind", "confirm", "serve"} : doing' = [doing EXCEPT ![p] = w]
      /\ \/ unseen' = unseen
         \/ unseen' = [unseen EXCEPT ![p] = conf[p].uses]
  BY DEF Vectors!Inspected, Vectors!AllBound, Vectors!Serve, Vectors!jobVars
<1>2. ProcFields(p)
  BY FieldsBefore DEF VInv
<1>3. ProcFields(p)'
  BY <1>1, <1>2 DEF ProcFields, VInv, VType
<1>4. ProcOK(p)'
  <2>1. CASE Vectors!Inspected(p)
    BY <2>1 DEF Vectors!Inspected, VInv, VType, ProcInv, ProcOK
  <2>2. CASE Vectors!AllBound(p)
    <3>1. doing'[p] = "confirm" /\ unseen'[p] = conf[p].uses /\ doing[p] = "bind"
      BY <2>2 DEF Vectors!AllBound, VInv, VType
    <3> QED
      BY <1>1, <3>1 DEF VInv, ProcInv, ProcOK
  <2>3. CASE Vectors!Serve(p)
    <3>1. doing'[p] = "serve" /\ unseen[p] = {} /\ doing[p] = "confirm"
      BY <2>3 DEF Vectors!Serve, VInv, VType
    <3> QED
      BY <1>1, <3>1 DEF VInv, ProcInv, ProcOK, Trusts
  <2> QED
    BY <2>1, <2>2, <2>3
<1>5. OnlyProc(p)
  <2>1. /\ conf' = [conf EXCEPT ![p] = conf[p]]
        /\ pending' = [pending EXCEPT ![p] = pending[p]]
        /\ unseen = [unseen EXCEPT ![p] = unseen[p]]
    BY <1>1 DEF VInv, VType
  <2> QED
    BY <1>1, <2>1 DEF OnlyProc
<1>6. job # "off" => ToColl \notin conf'[p].uses
  BY <1>1 DEF VInv, JobInv
<1> QED
  BY <1>1, <1>3, <1>4, <1>5, <1>6, LocalStep

LEMMA VConfirm ==
    ASSUME VInv, NEW p \in Procs, NEW c \in {FromColl, ToColl}, Vectors!Confirm(p, c)
    PROVE  VInv'
<1>1. UNCHANGED <<coll, vectorWrites, manifest, job, read>>
  BY DEF Vectors!Confirm, Vectors!jobVars
<1>2. CASE Vectors!Bound(p, c)
  <2>1. /\ unseen' = [unseen EXCEPT ![p] = @ \ {c}]
        /\ UNCHANGED <<conf, doing, pending>> /\ doing[p] = "confirm"
    BY <1>2 DEF Vectors!Confirm
  <2>2. unseen'[p] = unseen[p] \ {c}
    BY <2>1 DEF VInv, VType
  <2>3. ProcFields(p)'
    BY <2>1, <2>2, FieldsBefore DEF VInv, ProcFields
  <2>4. ProcOK(p)'
    BY <1>1, <1>2, <2>1, <2>2 DEF VInv, ProcInv, ProcOK, Trusts, Vectors!Bound
  <2>5. OnlyProc(p)
    <3>1. /\ conf' = [conf EXCEPT ![p] = conf[p]]
          /\ pending' = [pending EXCEPT ![p] = pending[p]]
          /\ doing' = [doing EXCEPT ![p] = doing[p]]
      BY <2>1 DEF VInv, VType
    <3> QED
      BY <2>1, <3>1 DEF OnlyProc
  <2>6. job # "off" => ToColl \notin conf'[p].uses
    BY <2>1 DEF VInv, JobInv
  <2> QED
    BY <1>1, <2>3, <2>4, <2>5, <2>6, LocalStep
<1>3. CASE ~Vectors!Bound(p, c)
  BY <1>1, <1>3, VStop DEF Vectors!Confirm
<1> QED
  BY <1>2, <1>3

------------------------------------------------------------------------------
(* Steps that change a collection. *)

\* No collection disappears, and an identity changes only as SourceInv says.
IdsKept ==
    \A c \in {FromColl, ToColl} :
        coll[c] # None =>
            /\ coll'[c] # None
            /\ coll'[c].id = coll[c].id \/ (c = FromColl /\ coll'[c].id = FirstModel)

\* What a process trusts is bound, so that nobody binds it again otherwise.
LEMMA TrustKept ==
    ASSUME VInv, IdsKept, NEW p \in Procs, ProcOK(p),
           conf'[p] = conf[p], doing'[p] = doing[p], unseen'[p] = unseen[p],
           pending'[p] \subseteq pending[p]
    PROVE  ProcOK(p)'
<1>1. ASSUME doing[p] # "off", NEW c \in {FromColl, ToColl}, Trusts(p, c)
      PROVE  Trusts(p, c)'
  <2>1. conf[p].model \in Models
    BY <1>1 DEF ProcOK
  <2>2. coll[c] # None /\ coll[c].id = conf[p].model
    BY <1>1 DEF Trusts
  <2>3. coll[FromColl].id \in {None, FirstModel}
    BY DEF VInv, SourceInv
  <2>4. coll'[c] # None /\ coll'[c].id = coll[c].id
    BY <2>1, <2>2, <2>3, VectorFacts DEF IdsKept
  <2> QED
    BY <2>2, <2>4 DEF Trusts
<1>2. conf[p].uses \subseteq {FromColl, ToColl}
  BY FieldsBefore DEF VInv, ProcFields
<1> QED
  BY <1>1, <1>2 DEF ProcOK

\* The source stays what it is when its identity and points do.
LEMMA VCreate ==
    ASSUME VInv, NEW c \in {FromColl, ToColl}, coll[c] = None, NEW m \in Models,
           NEW o \in Vectors!Manifests \cup {None}, Vectors!Create(c, m, o)
    PROVE  /\ c = ToColl
           /\ coll' \in [{FromColl, ToColl} -> Space \cup {None}]
           /\ coll'[ToColl] = [id |-> m, owner |-> o, pts |-> Vectors!Empty]
           /\ coll'[ToColl] # None
           /\ SourceInv' /\ TargetInv' /\ IdsKept
<1>1. c = ToColl
  BY DEF VInv, SourceInv
<1>2. [id |-> m, owner |-> o, pts |-> Vectors!Empty] \in Space
  BY NewSpace
<1>3. /\ coll' \in [{FromColl, ToColl} -> Space \cup {None}]
      /\ coll'[ToColl] = [id |-> m, owner |-> o, pts |-> Vectors!Empty]
      /\ coll'[FromColl] = coll[FromColl]
  BY <1>1, <1>2, VectorFacts DEF VInv, VType, Vectors!Create
<1>4. coll'[ToColl] # None
  BY <1>2, <1>3, VectorFacts
<1>5. SourceInv'
  BY <1>3 DEF VInv, SourceInv
<1>6. TargetInv'
  BY <1>3, NewSpace DEF TargetInv
<1>7. IdsKept
  BY <1>1, <1>3 DEF IdsKept
<1> QED
  BY <1>1, <1>3, <1>4, <1>5, <1>6, <1>7

\* Others keep what they know when a process changes a collection.
LEMMA CollStep ==
    ASSUME VInv, NEW p \in Procs, IdsKept, SourceInv', TargetInv',
           coll' \in [{FromColl, ToColl} -> Space \cup {None}], vectorWrites' \in Nat,
           UNCHANGED <<conf, doing, unseen, manifest, job, read>>,
           pending' = pending \/ \E x : pending' = [pending EXCEPT ![p] = @ \ {x}],
           job # "off" /\ coll[ToColl] # None => coll'[ToColl] = coll[ToColl]
    PROVE  VInv'
<1>1. pending' \in [Procs -> SUBSET ({FromColl, ToColl} \X {"create", "update"})]
  BY DEF VInv, VType
<1>2. \A r \in Procs : pending'[r] \subseteq pending[r]
  BY DEF VInv, VType
<1>3. VType'
  BY <1>1 DEF VInv, VType
<1>4. ProcInv'
  BY <1>2, TrustKept DEF VInv, ProcInv
<1>5. JobInv'
  BY DEF VInv, JobInv, Vectors!Versions
<1> QED
  BY <1>3, <1>4, <1>5 DEF VInv

LEMMA VBind ==
    ASSUME VInv, NEW p \in Procs, NEW c \in {FromColl, ToColl}, Vectors!Bind(p, c)
    PROVE  VInv'
<1>1. UNCHANGED <<vectorWrites, manifest, job, read>> /\ doing[p] = "bind"
  BY DEF Vectors!Bind, Vectors!jobVars
<1>2. conf[p].model \in Models
  BY <1>1 DEF VInv, ProcInv, ProcOK
<1>3. CASE /\ <<c, "create">> \in pending[p]
           /\ coll[c] = None
           /\ Vectors!Create(c, conf[p].model, None)
           /\ pending' = [pending EXCEPT ![p] = @ \ {<<c, "create">>}]
           /\ UNCHANGED <<conf, doing, unseen>>
  <2>1. /\ coll' \in [{FromColl, ToColl} -> Space \cup {None}]
        /\ SourceInv' /\ TargetInv' /\ IdsKept /\ c = ToColl
    BY <1>2, <1>3, VCreate
  <2> QED
    BY <1>1, <1>3, <2>1, CollStep DEF VInv, VType
<1>4. CASE Vectors!Stop(p) /\ UNCHANGED coll
  BY <1>1, <1>4, VStop
<1>5. CASE /\ <<c, "update">> \in pending[p]
           /\ Vectors!SetIdentity(c, conf[p].model)
           /\ pending' = [pending EXCEPT ![p] = @ \ {<<c, "update">>}]
           /\ UNCHANGED <<conf, doing, unseen>>
  <2>1. c = FromColl /\ conf[p].model = FirstModel
    BY <1>5 DEF VInv, ProcInv, ProcOK
  <2>2. coll[FromColl] \in Space
    BY DEF VInv, VType, SourceInv
  <2>3. coll' = [coll EXCEPT ![FromColl] = [coll[FromColl] EXCEPT !.id = FirstModel]]
    BY <1>5, <2>1 DEF Vectors!SetIdentity
  <2>4. /\ coll' \in [{FromColl, ToColl} -> Space \cup {None}]
        /\ coll'[FromColl] \in Space
        /\ coll'[FromColl].id = FirstModel
        /\ coll'[FromColl].pts = coll[FromColl].pts
        /\ coll'[ToColl] = coll[ToColl]
    <3> DEFINE new == [coll[FromColl] EXCEPT !.id = FirstModel]
    <3>1. new \in Space /\ new.id = FirstModel /\ new.pts = coll[FromColl].pts
      BY <2>2, NewIdentity, VectorFacts
    <3>2. coll' = [coll EXCEPT ![FromColl] = new]
      BY <2>3
    <3> HIDE DEF new
    <3> QED
      BY <3>1, <3>2, VectorFacts DEF VInv, VType
  <2>5. coll'[FromColl] # None
    BY <2>4, VectorFacts
  <2>6. SourceInv'
    BY <2>4, <2>5, VectorFacts DEF VInv, SourceInv
  <2>7. TargetInv'
    BY <2>4 DEF VInv, TargetInv
  <2>8. IdsKept
    BY <2>4, <2>5 DEF IdsKept
  <2> QED
    BY <1>1, <1>5, <2>4, <2>6, <2>7, <2>8, CollStep DEF VInv, VType
<1> QED
  BY <1>3, <1>4, <1>5 DEF Vectors!Bind

LEMMA VWrite ==
    ASSUME VInv, NEW p \in Procs, NEW c \in {FromColl, ToColl}, NEW q \in Vecs,
           Vectors!Write(p, c, q)
    PROVE  VInv'
<1>1. /\ UNCHANGED <<conf, doing, unseen, pending, manifest, job, read>>
      /\ vectorWrites' = vectorWrites + 1 /\ doing[p] = "serve" /\ c \in conf[p].uses
  BY DEF Vectors!Write, Vectors!jobVars, Vectors!procVars
<1>2. /\ coll[c] # None /\ coll[c].id = conf[p].model /\ conf[p].model \in Models
  BY <1>1 DEF VInv, ProcInv, ProcOK, Trusts
<1>3. coll[c] \in Space /\ vectorWrites \in Nat
  BY <1>2 DEF VInv, VType
<1>4. coll[c].pts \in [Vecs -> Vector \cup {None}]
  BY <1>3, SpaceFields
<1>5. PICK new \in {None, [ver |-> vectorWrites + 1, by |-> conf[p].model]} \cup
                    (IF coll[c].pts[q] = None THEN {}
                     ELSE {[coll[c].pts[q] EXCEPT !.ver = vectorWrites + 1]}) :
         coll' = [coll EXCEPT ![c].pts[q] = new]
  BY DEF Vectors!Write
<1>6. /\ new \in Vector \cup {None}
      /\ new # None => \/ new.by = conf[p].model
                       \/ coll[c].pts[q] # None /\ new.by = coll[c].pts[q].by
  BY <1>2, <1>3, <1>4, <1>5 DEF Vector, Vectors!Embedded
<1> DEFINE s == [coll[c] EXCEPT !.pts[q] = new]
<1>7. coll' = [coll EXCEPT ![c] = s]
  BY <1>5
<1>8. /\ s \in Space /\ s.id = coll[c].id /\ s.pts[q] = new
      /\ \A x \in Vecs \ {q} : s.pts[x] = coll[c].pts[x]
  BY <1>3, <1>6, NewPoint
<1> HIDE DEF s
<1>9. /\ coll' \in [{FromColl, ToColl} -> Space \cup {None}]
      /\ coll'[c] = s /\ \A d \in {FromColl, ToColl} \ {c} : coll'[d] = coll[d]
  BY <1>7, <1>8 DEF VInv, VType
<1>10. s # None
  BY <1>8, VectorFacts
<1>11. SourceInv'
  <2>1. CASE c = FromColl
    <3>1. coll[FromColl].id = FirstModel
      BY <1>2, <2>1, VectorFacts DEF VInv, SourceInv
    <3>2. \A x \in Vecs : s.pts[x] # None => s.pts[x].by = FirstModel
      BY <1>2, <1>6, <1>8, <2>1, <3>1 DEF VInv, SourceInv
    <3> QED
      BY <1>8, <1>9, <1>10, <2>1, <3>1, <3>2, VectorFacts DEF SourceInv
  <2>2. CASE c # FromColl
    BY <1>9, <2>2 DEF VInv, SourceInv
  <2> QED
    BY <2>1, <2>2
<1>12. TargetInv'
  <2>1. CASE c = ToColl
    <3>1. \A x \in Vecs : s.pts[x] # None => s.pts[x].by = coll[c].id
      BY <1>2, <1>6, <1>8, <2>1 DEF VInv, TargetInv
    <3> QED
      BY <1>2, <1>8, <1>9, <2>1, <3>1 DEF TargetInv
  <2>2. CASE c # ToColl
    BY <1>9, <2>2 DEF VInv, TargetInv
  <2> QED
    BY <2>1, <2>2
<1>13. IdsKept
  BY <1>8, <1>9, <1>10 DEF IdsKept
<1>14. job # "off" => coll'[ToColl] = coll[ToColl]
  BY <1>1, <1>9 DEF VInv, JobInv
<1>15. vectorWrites' \in Nat
  BY <1>1, <1>3
<1> QED
  BY <1>1, <1>9, <1>11, <1>12, <1>13, <1>14, <1>15, CollStep

------------------------------------------------------------------------------
(* Steps of the migration. *)

\* A step of the migration that changes no collection.
LEMMA JobOnly ==
    ASSUME VInv, UNCHANGED <<coll, vectorWrites, conf, doing, unseen, pending>>,
           manifest' \in Vectors!Manifests \cup {None},
           job' \in {"off", "read", "copy", "verify", "target", "again", "accepted"},
           read' \in [Vecs -> Vector \cup {None}],
           JobInv'
    PROVE  VInv'
<1>1. VType'
  BY DEF VInv, VType
<1>2. SourceInv' /\ TargetInv'
  BY DEF VInv, SourceInv, TargetInv
<1>3. ProcInv'
  BY DEF VInv, ProcInv, ProcOK, Trusts
<1> QED
  BY <1>1, <1>2, <1>3 DEF VInv

LEMMA NothingRead ==
    Vectors!Empty \in [Vecs -> Vector \cup {None}]
BY DEF Vectors!Empty

LEMMA VPrepare ==
    ASSUME VInv, Vectors!Prepare \/ Vectors!Discard
    PROVE  VInv'
<1>1. /\ UNCHANGED <<coll, vectorWrites, conf, doing, unseen, pending, job, read>>
      /\ job = "off"
  BY DEF Vectors!Prepare, Vectors!Discard, Vectors!procVars
<1>2. JobInv'
  BY <1>1 DEF JobInv
<1>3. manifest' \in Vectors!Manifests \cup {None}
  <2>1. CASE Vectors!Prepare
    <3>1. PICK m \in Models : manifest' = Vectors!Survey(m)
      BY <2>1 DEF Vectors!Prepare
    <3>2. coll[FromColl] \in Space
      BY DEF VInv, VType, SourceInv
    <3>3. coll[FromColl].pts \in [Vecs -> Vector \cup {None}]
      BY <3>2, SpaceFields
    <3>4. Vectors!Versions(coll[FromColl].pts) \in [Vecs -> Nat \cup {None}]
      BY <3>3 DEF Vectors!Versions, Vector, Vectors!Embedded
    <3>5. coll[FromColl].id \in Models
      BY <2>1, VectorFacts DEF Vectors!Prepare, VInv, SourceInv
    <3> QED
      BY <3>1, <3>4, <3>5 DEF Vectors!Survey, Vectors!Manifests
  <2>2. CASE Vectors!Discard
    BY <2>2 DEF Vectors!Discard
  <2> QED
    BY <2>1, <2>2
<1> QED
  BY <1>1, <1>2, <1>3, JobOnly DEF VInv, VType

\* The copy is made for the manifest's target model.
LEMMA ManifestFields ==
    ASSUME VType, manifest # None
    PROVE  manifest \in Vectors!Manifests /\ manifest.to \in Models
BY DEF VType, Vectors!Manifests

LEMMA VApply ==
    ASSUME VInv, Vectors!Apply
    PROVE  VInv'
<1>1. /\ UNCHANGED <<vectorWrites, conf, doing, unseen, pending, manifest, read>>
      /\ job' = "read" /\ manifest # None /\ Vectors!TargetStopped /\ Vectors!OwnTarget
  BY DEF Vectors!Apply, Vectors!procVars, Vectors!Fresh
<1>2. manifest \in Vectors!Manifests /\ manifest.to \in Models
  BY <1>1, ManifestFields DEF VInv
<1>3. \A p \in Procs : ToColl \notin conf'[p].uses
  BY <1>1 DEF Vectors!TargetStopped
<1>4. CASE coll[ToColl] = None
  <2>1. Vectors!Create(ToColl, manifest.to, manifest)
    BY <1>4 DEF Vectors!Apply
  <2>2. /\ coll' \in [{FromColl, ToColl} -> Space \cup {None}]
        /\ coll'[ToColl] = [id |-> manifest.to, owner |-> manifest, pts |-> Vectors!Empty]
        /\ coll'[ToColl] # None
        /\ SourceInv' /\ TargetInv' /\ IdsKept
    BY <1>2, <1>4, <2>1, VCreate
  <2>3. VType'
    BY <1>1, <2>2 DEF VInv, VType
  <2>4. ProcInv'
    BY <1>1, <2>2, TrustKept DEF VInv, ProcInv
  <2>5. JobInv'
    BY <1>1, <1>3, <2>2 DEF JobInv
  <2> QED
    BY <2>2, <2>3, <2>4, <2>5 DEF VInv
<1>5. CASE coll[ToColl] # None
  <2>1. coll' = coll /\ coll[ToColl].id = manifest.to
    BY <1>1, <1>5 DEF Vectors!Apply, Vectors!OwnTarget
  <2>2. JobInv'
    BY <1>1, <1>3, <1>5, <2>1 DEF JobInv
  <2> QED
    BY <1>1, <2>1, <2>2, JobOnly DEF VInv, VType
<1> QED
  BY <1>4, <1>5

LEMMA VCopy ==
    ASSUME VInv, NEW q \in Vecs, Vectors!Copy(q)
    PROVE  VInv'
<1>1. /\ UNCHANGED <<vectorWrites, conf, doing, unseen, pending, manifest, job, read>>
      /\ job = "copy" /\ read[q] # None
  BY DEF Vectors!Copy, Vectors!procVars, Vectors!jobVars
<1>2. /\ manifest # None /\ coll[ToColl] # None /\ coll[ToColl].id = manifest.to
  BY <1>1 DEF VInv, JobInv
<1>3. coll[ToColl] \in Space /\ read[q] \in Vector /\ manifest.to \in Models
  BY <1>1, <1>2, ManifestFields DEF VInv, VType
<1> DEFINE new == [ver |-> read[q].ver, by |-> manifest.to]
           s == [coll[ToColl] EXCEPT !.pts[q] = new]
<1>4. new \in Vector \cup {None} /\ new.by = manifest.to
  BY <1>3 DEF Vector, Vectors!Embedded
<1>5. coll' = [coll EXCEPT ![ToColl] = s]
  BY DEF Vectors!Copy
<1> HIDE DEF new
<1>6. /\ s \in Space /\ s.id = coll[ToColl].id /\ s.pts[q] = new
      /\ \A x \in Vecs \ {q} : s.pts[x] = coll[ToColl].pts[x]
  BY <1>3, <1>4, NewPoint
<1> HIDE DEF s
<1>7. /\ coll' \in [{FromColl, ToColl} -> Space \cup {None}]
      /\ coll'[ToColl] = s /\ coll'[FromColl] = coll[FromColl]
  BY <1>5, <1>6, VectorFacts DEF VInv, VType
<1>8. s # None
  BY <1>6, VectorFacts
<1>9. VType'
  BY <1>1, <1>7 DEF VInv, VType
<1>10. SourceInv'
  BY <1>7 DEF VInv, SourceInv
<1>11. TargetInv'
  BY <1>2, <1>3, <1>4, <1>6, <1>7 DEF VInv, TargetInv
<1>12. IdsKept
  BY <1>6, <1>7, <1>8 DEF IdsKept
<1>13. ProcInv'
  BY <1>1, <1>12, TrustKept DEF VInv, ProcInv
<1>14. JobInv'
  BY <1>1, <1>2, <1>6, <1>7, <1>8 DEF VInv, JobInv
<1> QED
  BY <1>9, <1>10, <1>11, <1>13, <1>14 DEF VInv

LEMMA VCheck ==
    ASSUME VInv,
           \/ Vectors!ReadSource \/ Vectors!Copied \/ Vectors!StartVerify
           \/ Vectors!VerifySource \/ Vectors!VerifyTarget \/ Vectors!Accept
           \/ Vectors!JobStops
    PROVE  VInv'
<1>1. UNCHANGED <<coll, vectorWrites, conf, doing, unseen, pending, manifest>>
  BY DEF Vectors!ReadSource, Vectors!Copied, Vectors!StartVerify,
         Vectors!VerifySource, Vectors!VerifyTarget, Vectors!Accept,
         Vectors!JobStops, Vectors!JobStep, Vectors!procVars
<1>2. job' \in {"off", "copy", "verify", "target", "again", "accepted"}
  BY DEF Vectors!ReadSource, Vectors!Copied, Vectors!StartVerify,
         Vectors!VerifySource, Vectors!VerifyTarget, Vectors!Accept,
         Vectors!JobStops, Vectors!JobStep, Vectors!JobEnds
<1>3. read' \in {read, coll[FromColl].pts, Vectors!Empty}
  BY DEF Vectors!ReadSource, Vectors!Copied, Vectors!StartVerify,
         Vectors!VerifySource, Vectors!VerifyTarget, Vectors!Accept,
         Vectors!JobStops, Vectors!JobStep, Vectors!JobEnds
<1>4. coll[FromColl] \in Space
  BY DEF VInv, VType, SourceInv
<1>5. read' \in [Vecs -> Vector \cup {None}]
  <2>1. coll[FromColl].pts \in [Vecs -> Vector \cup {None}]
    BY <1>4, SpaceFields
  <2> QED
    BY <1>3, <2>1, NothingRead DEF VInv, VType
<1>6. \/ job' = "off" \/ (job # "off" /\ (job' = "copy" => job = "read"))
      \/ Vectors!StartVerify
  BY DEF Vectors!ReadSource, Vectors!Copied, Vectors!VerifySource,
         Vectors!VerifyTarget, Vectors!Accept, Vectors!JobStops, Vectors!JobStep,
         Vectors!JobEnds
<1>7. job' = "again" => Vectors!VerifyTarget
  BY DEF Vectors!ReadSource, Vectors!Copied, Vectors!StartVerify,
         Vectors!VerifySource, Vectors!Accept, Vectors!JobStops, Vectors!JobStep,
         Vectors!JobEnds
<1>8. job' # "off" => \A p \in Procs : ToColl \notin conf'[p].uses
  <2>1. CASE job # "off"
    BY <1>1, <2>1 DEF VInv, JobInv
  <2>2. CASE Vectors!StartVerify
    BY <1>1, <2>2 DEF Vectors!StartVerify, Vectors!TargetStopped
  <2> QED
    BY <1>6, <2>1, <2>2
<1>9. job' \in {"read", "copy"} =>
         /\ manifest' # None
         /\ coll'[ToColl] # None
         /\ coll'[ToColl].id = manifest'.to
  <2>1. job' = "copy" => job = "read"
    BY <1>6 DEF Vectors!StartVerify
  <2> QED
    BY <1>1, <1>2, <2>1 DEF VInv, JobInv
<1>10. job' = "again" =>
          /\ coll'[ToColl] # None
          /\ Vectors!Versions(coll'[ToColl].pts) = manifest'.points
  <2>1. SUFFICES ASSUME Vectors!VerifyTarget
        PROVE  /\ coll[ToColl] # None
               /\ Vectors!Versions(coll[ToColl].pts) = manifest.points
    BY <1>1, <1>7 DEF Vectors!Versions
  <2> QED
    BY <2>1 DEF Vectors!VerifyTarget, Vectors!TargetMatches
<1>11. JobInv'
  BY <1>8, <1>9, <1>10 DEF JobInv, Vectors!Versions
<1>12. manifest' \in Vectors!Manifests \cup {None}
  BY <1>1 DEF VInv, VType
<1> QED
  BY <1>1, <1>2, <1>5, <1>11, <1>12, JobOnly

------------------------------------------------------------------------------
(* The theorems about the embedding. *)

LEMMA VInit ==
    ASSUME Vectors!Init
    PROVE  VInv
<1>1. PICK id \in {FirstModel, None} :
         coll = [c \in {FromColl, ToColl} |->
                    IF c = ToColl THEN None
                    ELSE [id |-> id, owner |-> None,
                          pts |-> [q \in Vecs |-> [ver |-> 0, by |-> FirstModel]]]]
  BY DEF Vectors!Init, Vectors!Collections
<1> DEFINE pts == [q \in Vecs |-> [ver |-> 0, by |-> FirstModel]]
           s == [id |-> id, owner |-> None, pts |-> pts]
<1>2. /\ pts \in [Vecs -> Vector \cup {None}]
      /\ \A q \in Vecs : pts[q] # None /\ pts[q].by = FirstModel
  BY VectorFacts DEF Vector, Vectors!Embedded
<1>3. coll[FromColl] = s /\ coll[ToColl] = None
  BY <1>1, VectorFacts
<1> HIDE DEF pts
<1>4. s \in Space /\ s.id = id /\ s.pts = pts
  BY <1>2, VectorFacts DEF Space, Vectors!Spaces, Vector
<1> HIDE DEF s
<1>5. s # None
  BY <1>4, VectorFacts
<1>6. coll \in [{FromColl, ToColl} -> Space \cup {None}]
  BY <1>1, <1>3, <1>4
<1>7. /\ vectorWrites = 0
      /\ conf = [p \in Procs |-> Vectors!NoConf]
      /\ doing = [p \in Procs |-> "off"]
      /\ unseen = [p \in Procs |-> {}]
      /\ pending = [p \in Procs |-> {}]
      /\ manifest = None /\ job = "off" /\ read = Vectors!Empty
  BY DEF Vectors!Init
<1>8. VType
  BY <1>6, <1>7, NothingRead DEF VType, Vectors!NoConf
<1>9. SourceInv
  BY <1>2, <1>3, <1>4, <1>5 DEF SourceInv
<1>10. TargetInv /\ ProcInv /\ JobInv
  BY <1>3, <1>7 DEF TargetInv, ProcInv, ProcOK, JobInv
<1> QED
  BY <1>8, <1>9, <1>10 DEF VInv

LEMMA VStep ==
    ASSUME VInv, [Vectors!Next]_(Vectors!vars), Vecs # {}
    PROVE  VInv'
<1>1. CASE UNCHANGED Vectors!vars
  <2>1. UNCHANGED <<coll, vectorWrites, conf, doing, unseen, pending, manifest, job, read>>
    BY <1>1 DEF Vectors!vars
  <2>2. JobInv'
    BY <2>1 DEF VInv, JobInv, Vectors!Versions
  <2> QED
    BY <2>1, <2>2, JobOnly DEF VInv, VType
<1>2. ASSUME NEW p \in Procs, Vectors!Start(p) PROVE VInv'
  BY <1>2, VStart
<1>3. ASSUME NEW p \in Procs,
             Vectors!Inspected(p) \/ Vectors!AllBound(p) \/ Vectors!Serve(p)
      PROVE  VInv'
  BY <1>3, VPhase
<1>4. ASSUME NEW p \in Procs, Vectors!Crash(p) PROVE VInv'
  BY <1>4, VStop DEF Vectors!Crash, Vectors!jobVars
<1>5. ASSUME NEW p \in Procs, NEW c \in {FromColl, ToColl},
             \/ Vectors!Inspect(p, c) \/ Vectors!Bind(p, c) \/ Vectors!Confirm(p, c)
             \/ \E q \in Vecs : Vectors!Write(p, c, q)
      PROVE  VInv'
  BY <1>5, VInspect, VBind, VConfirm, VWrite, Vecs # {}
<1>6. CASE Vectors!Prepare \/ Vectors!Discard
  BY <1>6, VPrepare
<1>7. CASE Vectors!Apply
  BY <1>7, VApply
<1>8. ASSUME NEW q \in Vecs, Vectors!Copy(q) PROVE VInv'
  BY <1>8, VCopy
<1>9. CASE \/ Vectors!ReadSource \/ Vectors!Copied \/ Vectors!StartVerify
           \/ Vectors!VerifySource \/ Vectors!VerifyTarget \/ Vectors!Accept
           \/ Vectors!JobStops
  BY <1>9, VCheck
<1> QED
  BY <1>1, <1>2, <1>3, <1>4, <1>5, <1>6, <1>7, <1>8, <1>9
  DEF Vectors!Next, Vectors!Collections

LEMMA ToolsVectors ==
    /\ MCInit => Vectors!Init
    /\ [MCNext]_<<tool, vars, factVars, vectorVars, groupVars, bundleVars>> =>
           [Vectors!Next]_(Vectors!vars)
<1>1. MCInit => Vectors!Init
  BY DEF MCInit
<1>2. [MCNext]_<<tool, vars, factVars, vectorVars, groupVars, bundleVars>> =>
          [Vectors!Next]_(Vectors!vars)
  <2>1. UNCHANGED vectorVars => UNCHANGED Vectors!vars
    BY DEF vectorVars, Vectors!vars
  <2> QED
    BY <2>1 DEF MCNext
<1> QED
  BY <1>1, <1>2

\* For any points, as long as there are some: the invariant always holds.
LEMMA VAlways ==
    ASSUME Vecs # {}
    PROVE  MCSpec => []VInv
<1>1. MCInit => VInv
  BY ToolsVectors, VInit
<1>2. VInv /\ [MCNext]_<<tool, vars, factVars, vectorVars, groupVars, bundleVars>> => VInv'
  BY ToolsVectors, VStep, Vecs # {}
<1> QED
  BY <1>1, <1>2, PTL DEF MCSpec

\* A collection with an identity holds vectors of that model only, whatever
\* processes start with whatever models, fail half way through binding, crash
\* or write, and whatever the migration has copied (embeddingidentity.Ensure,
\* config.PrepareEmbeddings, embeddingmigration).
THEOREM IdentityIsTrue == MCSpec => []VectorsMatchIdentity
<1>1. ASSUME Vecs = {} PROVE MCSpec => []VectorsMatchIdentity
  <2>1. VectorsMatchIdentity
    BY <1>1 DEF VectorsMatchIdentity, Vectors!VectorsMatchIdentity, Vectors!Held
  <2> QED
    BY <2>1, PTL
<1>2. ASSUME Vecs # {} PROVE MCSpec => []VectorsMatchIdentity
  <2>1. VInv => VectorsMatchIdentity
    BY DEF VectorsMatchIdentity, Vectors!VectorsMatchIdentity, Vectors!Held,
           Vectors!Collections, VInv, SourceInv, TargetInv
  <2> QED
    BY <1>2, <2>1, VAlways, PTL
<1> QED
  BY <1>1, <1>2

\* When a migration is accepted, the target holds the points of the source as
\* it then is, although a writer of the source may have run all along
\* (embeddingmigration.Verify).
THEOREM AcceptedIsExact == MCSpec => AcceptedCopyIsExact
<1> DEFINE Exact == job # "accepted" /\ job' = "accepted" =>
                       Vectors!Versions(coll'[ToColl].pts) =
                           Vectors!Versions(coll'[FromColl].pts)
<1>1. ASSUME Vecs = {} PROVE MCSpec => AcceptedCopyIsExact
  <2>1. Exact
    BY <1>1 DEF Vectors!Versions
  <2> QED
    BY <2>1, PTL DEF AcceptedCopyIsExact, Vectors!AcceptedCopyIsExact
<1>2. ASSUME Vecs # {} PROVE MCSpec => AcceptedCopyIsExact
  <2>1. VInv /\ [MCNext]_<<tool, vars, factVars, vectorVars, groupVars, bundleVars>> =>
            [Exact]_(Vectors!vars)
    <3> SUFFICES ASSUME VInv, [Vectors!Next]_(Vectors!vars),
                        job # "accepted", job' = "accepted"
                 PROVE  Vectors!Versions(coll'[ToColl].pts) =
                           Vectors!Versions(coll'[FromColl].pts)
      BY ToolsVectors
    <3>1. Vectors!Next
      BY DEF Vectors!vars
    <3>2. ASSUME NEW p \in Procs PROVE job' = job \/ ~Vectors!Start(p)
      BY DEF Vectors!Start, Vectors!jobVars
    <3>3. ASSUME NEW p \in Procs, NEW c
          PROVE  /\ Vectors!Inspected(p) \/ Vectors!AllBound(p) \/ Vectors!Serve(p)
                       \/ Vectors!Crash(p) => job' = job
                 /\ Vectors!Inspect(p, c) \/ Vectors!Bind(p, c)
                       \/ Vectors!Confirm(p, c) => job' = job
                 /\ \A q : Vectors!Write(p, c, q) => job' = job
      BY DEF Vectors!Inspected, Vectors!AllBound, Vectors!Serve, Vectors!Crash,
             Vectors!Inspect, Vectors!Bind, Vectors!Confirm, Vectors!Write,
             Vectors!jobVars
    <3>4. /\ Vectors!Prepare \/ Vectors!Discard => job' = job
          /\ \A q : Vectors!Copy(q) => job' = job
          /\ Vectors!Apply \/ Vectors!ReadSource \/ Vectors!Copied
                \/ Vectors!StartVerify \/ Vectors!VerifySource
                \/ Vectors!VerifyTarget \/ Vectors!JobStops => job' # "accepted"
      BY DEF Vectors!Prepare, Vectors!Discard, Vectors!Copy, Vectors!jobVars,
             Vectors!Apply, Vectors!ReadSource, Vectors!Copied, Vectors!StartVerify,
             Vectors!VerifySource, Vectors!VerifyTarget, Vectors!JobStops,
             Vectors!JobStep, Vectors!JobEnds
    <3>5. Vectors!Accept
      BY <3>1, <3>2, <3>3, <3>4 DEF Vectors!Next
    <3>6. /\ coll' = coll /\ job = "again"
          /\ Vectors!Survey(manifest.to) = manifest
      BY <3>5 DEF Vectors!Accept, Vectors!JobStep, Vectors!FreshAgain, Vectors!Fresh
    <3>7. Vectors!Versions(coll[FromColl].pts) = manifest.points
      <4>1. Vectors!Survey(manifest.to).points = Vectors!Versions(coll[FromColl].pts)
        BY DEF Vectors!Survey
      <4> QED
        BY <3>6, <4>1
    <3> QED
      BY <3>6, <3>7 DEF VInv, JobInv, Vectors!Versions
  <2>2. MCSpec => []VInv
    BY <1>2, VAlways
  <2> QED
    BY <2>1, <2>2, PTL DEF MCSpec, AcceptedCopyIsExact, Vectors!AcceptedCopyIsExact
<1> QED
  BY <1>1, <1>2

------------------------------------------------------------------------------
(* The maintenance commands.  The inductive invariant follows one command:    *)
(* which points it has still to visit, what it may write, and what it may say *)
(* of the points it has visited.                                              *)

Findings == [Maintenance!Points -> Maintenance!Payloads \cup {None}]
Commands == {"none", "quarantine", "restore", "apply", "rollback"}
Marking == {"quarantine", "restore"}
Converting == {"apply", "rollback"}

MType ==
    /\ point \in Findings
    /\ factWrites \in 0 .. MaxFactWrites
    /\ manifests \in Seq(Findings) /\ Len(manifests) <= MaxAnalyses
    /\ record \in {None, Torn} \cup SUBSET Maintenance!Points
    /\ cmd \in Commands
    /\ left \subseteq Maintenance!Points
    /\ at \in {"look", "sent", "verify", "report"}
    /\ out \in [Maintenance!Points -> Maintenance!Outcomes]
    /\ before \in Findings
    /\ touched \subseteq Maintenance!Points
    /\ suspect \subseteq Maintenance!Points

\* A command has its manifest, says nothing of the points it has still to
\* visit, and writes the maintenance fields of eligible facts only.
CommandInv ==
    /\ cmd \in Marking => batch \in DOMAIN manifests
    /\ cmd \in Converting => record \notin {None, Torn} /\ left \subseteq record
    /\ cmd # "none" /\ at # "report" =>
          left # {} /\ \A p \in left : out[p] = "pending"
    /\ cmd # "none" /\ at \in {"sent", "verify"} =>
          /\ cmd \in Marking
          /\ Maintenance!Eligible(manifests[batch][Maintenance!Current])
    /\ cmd # "none" /\ at = "verify" => Maintenance!Current \in suspect

\* HiddenWasReviewed of one point, and who hid it is on disk.
HiddenInv(p) ==
    Maintenance!Hidden(p) =>
        /\ point[p].status \in DOMAIN manifests
        /\ p \notin suspect =>
              /\ Maintenance!Eligible(manifests[point[p].status][p])
              /\ manifests[point[p].status][p].rev = point[p].rev

\* A payload with the maintenance fields of the command.
NewStatus == IF cmd = "quarantine" THEN batch ELSE Active
Marked(f) == IF f = None THEN None ELSE [f EXCEPT !.status = NewStatus]

\* The point whose write was answered is as the command wrote it, and every
\* other is as reported.
ToldInv ==
    cmd # "none" =>
        \A p \in Maintenance!Points \ touched :
            IF at = "verify" /\ p = Maintenance!Current
            THEN point[p] = Marked(before[p])
            ELSE Maintenance!Reported(p)

MInv ==
    /\ MType /\ CommandInv
    /\ \A p \in Maintenance!Points : HiddenInv(p)
    /\ ToldInv
    /\ Maintenance!MigrationIsOnRecord

LEMMA MaintenanceFacts ==
    /\ NumPoints \in Nat /\ MaxAnalyses \in Nat /\ MaxFactWrites \in Nat
    /\ Unset \notin Maintenance!Batches /\ Active \notin Maintenance!Batches
    /\ None \notin Maintenance!Payloads
    /\ None \notin SUBSET Maintenance!Points /\ Torn \notin SUBSET Maintenance!Points
    /\ Maintenance!Points \subseteq Nat
BY ToolsAssumption DEF ToolsAssumption, Maintenance!MaintenanceAssumption,
   Maintenance!Points

LEMMA LeastNumber ==
    ASSUME NEW T \in SUBSET Nat, T # {}
    PROVE  \E x \in T : \A y \in T : x <= y
<1> DEFINE R == OpToRel(<, Nat)
<1>1. IsWellFoundedOn(R, Nat)
  BY NatLessThanWellFounded
<1> HIDE DEF R
<1>2. PICK x \in T : \A y \in T : ~(<<y, x>> \in R)
  BY <1>1, WFMin
<1>3. \A y \in T : y < x => <<y, x>> \in R
  BY DEF R, OpToRel
<1>4. \A y \in T : x <= y
  <2>1. SUFFICES ASSUME NEW y \in T PROVE x <= y
    OBVIOUS
  <2>2. x \in Nat /\ y \in Nat /\ ~(y < x)
    BY <1>2, <1>3
  <2>3. QED
    BY <2>2
<1>5. QED
  BY <1>4

\* The next point to visit is one of those that are left.
LEMMA CurrentIsLeft ==
    ASSUME MType, left # {}
    PROVE  Maintenance!Current \in left /\ Maintenance!Current \in Maintenance!Points
<1>1. left \in SUBSET Nat
  BY MaintenanceFacts DEF MType
<1>2. \E x \in left : \A y \in left : x <= y
  BY <1>1, LeastNumber
<1> QED
  BY <1>2 DEF Maintenance!Current, Maintenance!Min, MType

\* What is hidden, listed and reported is a matter of the point, the manifest
\* and the command's words.
LEMMA HiddenKept ==
    ASSUME NEW p \in Maintenance!Points, HiddenInv(p), point'[p] = point[p],
           p \in suspect => p \in suspect',
           \A k \in DOMAIN manifests : k \in DOMAIN manifests' /\ manifests'[k] = manifests[k]
    PROVE  HiddenInv(p)'
BY DEF HiddenInv, Maintenance!Hidden, Maintenance!Stored, Maintenance!Eligible

LEMMA ReportKept ==
    ASSUME NEW p \in Maintenance!Points, Maintenance!Reported(p),
           point'[p] = point[p], before'[p] = before[p], out'[p] = out[p],
           UNCHANGED <<cmd, batch, manifests>>
    PROVE  Maintenance!Reported(p)'
BY DEF Maintenance!Reported, Maintenance!Hidden, Maintenance!Stored, Maintenance!Projected,
   Maintenance!Fingerprint, Maintenance!To

\* The manifest stands: what gets the migration's lifecycle is listed, or the
\* server took it there from a fact that had it.
LEMMA RecordKept ==
    ASSUME MInv, UNCHANGED record,
           carried \cap Maintenance!HaveTarget(point') \subseteq carried',
           \A p \in Maintenance!HaveTarget(point') :
              \/ p \in Maintenance!HaveTarget(point)
              \/ p \in record /\ record \notin {None, Torn}
              \/ p \in carried' /\ Maintenance!HaveTarget(point) # {}
    PROVE  Maintenance!MigrationIsOnRecord'
<1>1. Maintenance!MigrationIsOnRecord
  BY DEF MInv
<1>2. Maintenance!HaveTarget(point)' = Maintenance!HaveTarget(point')
  BY DEF Maintenance!HaveTarget
<1>3. Maintenance!Listed' = Maintenance!Listed
  BY DEF Maintenance!Listed
<1>4. Maintenance!HaveTarget(point') # {} => record \notin {None, Torn}
  BY <1>1 DEF Maintenance!MigrationIsOnRecord
<1>5. ASSUME NEW p \in Maintenance!HaveTarget(point'), p \notin carried'
      PROVE  p \in Maintenance!Listed
  BY <1>1, <1>5 DEF Maintenance!MigrationIsOnRecord, Maintenance!Listed
<1> QED
  BY <1>2, <1>3, <1>4, <1>5 DEF Maintenance!MigrationIsOnRecord

\* The visit of the current point ends: what is stored there, whether it was
\* verified, and what is said of it, is all that changes.
LEMMA MVisit ==
    ASSUME MInv, cmd # "none", at # "report",
           NEW c \in left, c = Maintenance!Current, c \in Maintenance!Points,
           NEW o \in Maintenance!Outcomes, Maintenance!Outcome(o),
           UNCHANGED <<factWrites, carried, manifests, record, cmd, batch, before,
                       touched>>,
           point' \in Findings, suspect' \subseteq Maintenance!Points,
           \A p \in Maintenance!Points \ {c} :
              point'[p] = point[p] /\ (p \in suspect => p \in suspect'),
           HiddenInv(c)',
           c \notin touched => Maintenance!Reported(c)',
           \/ point'[c] = point[c] \/ point'[c] = None \/ point'[c].life # "applied"
           \/ point[c] # None /\ point[c].life = "applied"
           \/ c \in record /\ record \notin {None, Torn}
    PROVE  MInv'
<1>1. /\ out' = [out EXCEPT ![c] = o] /\ left' = left \ {c}
      /\ at' = IF left = {c} THEN "report" ELSE "look"
  BY DEF Maintenance!Outcome
<1>2. MType
  BY DEF MInv
<1>3. /\ out' \in [Maintenance!Points -> Maintenance!Outcomes] /\ out'[c] = o
      /\ \A p \in Maintenance!Points \ {c} : out'[p] = out[p]
      /\ at' \in {"report", "look"}
      /\ at' = "look" => left' # {}
  BY <1>1, <1>2 DEF MType
<1>4. MType'
  BY <1>1, <1>2, <1>3 DEF MType
<1>5. CommandInv'
  BY <1>1, <1>2, <1>3 DEF MInv, MType, CommandInv
<1>6. ASSUME NEW p \in Maintenance!Points \ {c} PROVE HiddenInv(p)'
  BY <1>6, HiddenKept DEF MInv
<1>7. ToldInv'
  <2>1. ASSUME NEW p \in Maintenance!Points \ {c}, p \notin touched
        PROVE  Maintenance!Reported(p)'
    <3>1. Maintenance!Reported(p)
      BY <2>1 DEF MInv, ToldInv
    <3> QED
      BY <1>3, <2>1, <3>1, ReportKept
  <2> QED
    BY <1>3, <2>1 DEF ToldInv
<1>8. Maintenance!MigrationIsOnRecord'
  BY RecordKept DEF Maintenance!HaveTarget
<1> QED
  BY <1>4, <1>5, <1>6, <1>7, <1>8 DEF MInv

\* Nothing is written and nothing said: only the command's place changes.
LEMMA MPlace ==
    ASSUME MInv, UNCHANGED <<point, factWrites, carried, manifests, record, before,
                             touched, suspect, cmd, batch, left, out>>,
           cmd # "none", at # "verify", at' \in {"look", "sent", "report"},
           CommandInv'
    PROVE  MInv'
<1>1. MType'
  BY DEF MInv, MType
<1>2. \A p \in Maintenance!Points : HiddenInv(p)'
  BY HiddenKept DEF MInv
<1>3. ToldInv'
  <2>1. \A p \in Maintenance!Points \ touched : Maintenance!Reported(p)'
    BY ReportKept DEF MInv, ToldInv
  <2> QED
    BY <2>1 DEF ToldInv
<1>4. Maintenance!MigrationIsOnRecord'
  BY RecordKept
<1> QED
  BY <1>1, <1>2, <1>3, <1>4 DEF MInv

LEMMA MLook ==
    ASSUME MInv, Maintenance!Look
    PROVE  MInv'
<1>1. cmd \in Marking /\ left # {} /\ at = "look"
  BY DEF Maintenance!Look, Maintenance!Maintaining, Marking
<1>2. MType /\ cmd # "none"
  BY <1>1 DEF MInv, Marking
<1>3. PICK c \in left : c = Maintenance!Current /\ c \in Maintenance!Points
  BY <1>1, <1>2, CurrentIsLeft
<1>4. out[c] = "pending" /\ batch \in DOMAIN manifests
  BY <1>1, <1>2, <1>3 DEF MInv, CommandInv
<1>5. c \notin touched => point[c] = before[c]
  BY <1>1, <1>2, <1>3, <1>4 DEF MInv, ToldInv, Maintenance!Reported
<1>6. CASE Maintenance!Dispatch /\ Maintenance!Decision(c) = "write"
  <2>1. /\ UNCHANGED <<point, factWrites, carried, manifests, record, before, touched,
                       suspect, cmd, batch, left, out>>
        /\ at' = "sent"
    BY <1>6 DEF Maintenance!Dispatch, Maintenance!store, Maintenance!server,
       Maintenance!files
  <2>2. Maintenance!Eligible(manifests[batch][c])
    BY <1>6 DEF Maintenance!Decision
  <2>3. Maintenance!Current' = c
    BY <1>3, <2>1 DEF Maintenance!Current, Maintenance!Min
  <2>4. CommandInv'
    BY <1>1, <1>2, <2>1, <2>2, <2>3
    DEF MInv, CommandInv, Maintenance!Eligible, Marking, Converting
  <2> QED
    BY <1>1, <1>2, <2>1, <2>4, MPlace
<1>7. ASSUME NEW o \in {"failed", "already_applied", "conflict", "not_found", "protected"},
             Maintenance!Settle(o),
             o = "already_applied" => Maintenance!Decision(c) = o
      PROVE  MInv'
  <2>1. /\ UNCHANGED <<point, factWrites, carried, manifests, record, before, touched,
                       suspect, cmd, batch>>
        /\ Maintenance!Outcome(o)
    BY <1>7 DEF Maintenance!Settle, Maintenance!store, Maintenance!server,
       Maintenance!files
  <2>2. o \in Maintenance!Outcomes
    BY DEF Maintenance!Outcomes
  <2>3. out'[c] = o
    BY <1>2, <1>3, <2>1 DEF Maintenance!Outcome, MType
  <2>4. HiddenInv(c)'
    BY <1>3, <2>1, HiddenKept DEF MInv
  <2>5. c \notin touched => Maintenance!Reported(c)'
    <3>1. CASE o # "already_applied"
      BY <1>1, <1>5, <2>1, <2>3, <3>1 DEF Maintenance!Reported, Marking
    <3>2. CASE o = "already_applied" /\ c \notin touched
      <4>1. Maintenance!Decision(c) = "already_applied"
        BY <1>7, <3>2
      <4>2. Maintenance!Stored(c) /\ Maintenance!Projected(c, manifests[batch][c])
        BY <4>1 DEF Maintenance!Decision, Maintenance!QuarantineDecision,
           Maintenance!RestoreDecision
      <4>3. IF cmd = "quarantine" THEN point[c].status = batch ELSE ~Maintenance!Hidden(c)
        BY <4>1 DEF Maintenance!Decision, Maintenance!QuarantineDecision,
           Maintenance!RestoreDecision
      <4>4. [point[c] EXCEPT !.status = before[c].status] = before[c]
        <5>1. point[c] = before[c] /\ before[c] \in Maintenance!Payloads
          BY <1>2, <1>3, <1>5, <3>2, <4>2 DEF MType, Findings, Maintenance!Stored
        <5> QED
          BY <5>1 DEF Maintenance!Payloads
      <4> QED
        BY <1>1, <2>1, <2>3, <3>2, <4>2, <4>3, <4>4
        DEF Maintenance!Reported, Marking, Maintenance!Stored, Maintenance!Projected,
            Maintenance!Fingerprint, Maintenance!Hidden
    <3> QED
      BY <3>1, <3>2
  <2> QED
    BY <1>1, <1>2, <1>3, <2>1, <2>2, <2>4, <2>5, MVisit DEF MType
<1>8. Maintenance!Decision(c) \in {"write", "already_applied", "conflict", "not_found",
                                   "protected"}
  BY DEF Maintenance!Decision, Maintenance!QuarantineDecision, Maintenance!RestoreDecision
<1> QED
  BY <1>3, <1>6, <1>7, <1>8 DEF Maintenance!Look

\* What the command writes: the maintenance fields of the fact it finds.
LEMMA MWritten ==
    ASSUME MInv, NEW c \in Maintenance!Points, cmd \in Marking
    PROVE  /\ Maintenance!Written(c) \in Findings
           /\ Maintenance!Written(c)[c] = Marked(point[c])
           /\ \A p \in Maintenance!Points \ {c} : Maintenance!Written(c)[p] = point[p]
           /\ Marked(point[c]) = None <=> point[c] = None
           /\ point[c] # None =>
                 /\ Marked(point[c]).status = NewStatus
                 /\ Marked(point[c]).life = point[c].life
<1>1. point \in Findings /\ point[c] \in Maintenance!Payloads \cup {None}
  BY DEF MInv, MType, Findings
<1>2. NewStatus \in {Unset, Active} \cup Maintenance!Batches
  BY MaintenanceFacts DEF NewStatus, MInv, MType, CommandInv, Maintenance!Batches
<1>3. point[c] # None =>
         /\ Marked(point[c]) \in Maintenance!Payloads
         /\ Marked(point[c]).status = NewStatus
         /\ Marked(point[c]).life = point[c].life
  BY <1>1, <1>2 DEF Marked, Maintenance!Payloads
<1>4. Maintenance!Written(c) = [point EXCEPT ![c] = Marked(point[c])]
  BY DEF Maintenance!Written, Marked, NewStatus
<1>5. Marked(None) = None
  BY DEF Marked
<1> QED
  BY <1>1, <1>3, <1>4, <1>5, MaintenanceFacts DEF Findings

LEMMA MWrite ==
    ASSUME MInv, Maintenance!Write
    PROVE  MInv'
<1>1. /\ cmd \in Marking /\ left # {} /\ at = "sent"
      /\ UNCHANGED <<factWrites, carried, before, touched, commands, manifests, record, cmd, batch>>
  BY DEF Maintenance!Write, Maintenance!server, Maintenance!Maintaining,
     Maintenance!files, Marking
<1>2. MType /\ cmd # "none"
  BY <1>1 DEF MInv, Marking
<1>3. PICK c \in left : c = Maintenance!Current /\ c \in Maintenance!Points
  BY <1>1, <1>2, CurrentIsLeft
<1>4. /\ out[c] = "pending" /\ batch \in DOMAIN manifests
      /\ Maintenance!Eligible(manifests[batch][c])
  BY <1>1, <1>2, <1>3 DEF MInv, CommandInv
<1>5. c \notin touched => point[c] = before[c]
  BY <1>1, <1>2, <1>3, <1>4 DEF MInv, ToldInv, Maintenance!Reported
<1>6. /\ point' \in {point, Maintenance!Written(c)}
      /\ suspect' = suspect \cup {c}
  BY <1>3 DEF Maintenance!Write
<1>7. /\ point' \in Findings
      /\ \A p \in Maintenance!Points \ {c} : point'[p] = point[p]
      /\ point'[c] \in {point[c], Marked(point[c])}
  BY <1>1, <1>2, <1>3, <1>6, MWritten DEF MType
<1>8. HiddenInv(c)'
  <2>1. CASE point'[c] = point[c]
    BY <1>1, <1>3, <1>6, <2>1
    DEF MInv, HiddenInv, Maintenance!Hidden, Maintenance!Stored
  <2>2. CASE point'[c] = Marked(point[c]) /\ point[c] # None
    <3>1. point'[c].status = NewStatus
      BY <1>1, <1>3, <2>2, MWritten
    <3>2. NewStatus = batch \/ NewStatus \notin Maintenance!Batches
      BY MaintenanceFacts DEF NewStatus
    <3>3. c \in suspect'
      BY <1>6
    <3> QED
      BY <1>1, <1>4, <3>1, <3>2, <3>3
      DEF HiddenInv, Maintenance!Hidden, Maintenance!Stored, Maintenance!Batches
  <2>3. CASE point'[c] = Marked(point[c]) /\ point[c] = None
    BY <2>3 DEF HiddenInv, Maintenance!Hidden, Maintenance!Stored, Marked
  <2> QED
    BY <1>7, <2>1, <2>2, <2>3
<1>9. \/ point'[c] = point[c] \/ point'[c] = None \/ point'[c].life # "applied"
      \/ point[c] # None /\ point[c].life = "applied"
  BY <1>1, <1>3, <1>7, MWritten
<1>10. suspect' \subseteq Maintenance!Points /\ suspect \subseteq suspect'
  BY <1>2, <1>3, <1>6 DEF MType
<1>11. CASE /\ point' = Maintenance!Written(c)
            /\ at' = "verify"
            /\ UNCHANGED <<left, out>>
  <2>1. point'[c] = Marked(point[c])
    BY <1>1, <1>3, <1>11, MWritten
  <2>2. Maintenance!Current' = c
    BY <1>3, <1>11 DEF Maintenance!Current, Maintenance!Min
  <2>3. MType'
    BY <1>1, <1>2, <1>7, <1>10, <1>11 DEF MType
  <2>4. CommandInv'
    BY <1>1, <1>2, <1>3, <1>4, <1>6, <1>11, <2>2
    DEF MInv, CommandInv, Maintenance!Eligible, Marking, Converting
  <2>5. ASSUME NEW p \in Maintenance!Points PROVE HiddenInv(p)'
    <3>1. CASE p # c
      BY <1>1, <1>7, <1>10, <3>1, HiddenKept DEF MInv
    <3> QED
      BY <1>8, <3>1
  <2>6. ToldInv'
    <3>1. ASSUME NEW p \in Maintenance!Points \ touched, p # c
          PROVE  Maintenance!Reported(p)'
      <4>1. Maintenance!Reported(p)
        BY <1>1, <1>2, <3>1 DEF MInv, ToldInv
      <4> QED
        BY <1>1, <1>7, <1>11, <3>1, <4>1, ReportKept
    <3>2. c \notin touched => point'[c] = Marked(before[c])'
      BY <1>1, <1>5, <2>1 DEF Marked, NewStatus
    <3> QED
      BY <1>1, <1>11, <2>2, <3>1, <3>2 DEF ToldInv
  <2>7. Maintenance!MigrationIsOnRecord'
    BY <1>1, <1>7, <1>9, RecordKept DEF Maintenance!HaveTarget
  <2> QED
    BY <2>3, <2>4, <2>5, <2>6, <2>7 DEF MInv
<1>12. CASE Maintenance!Outcome("ambiguous")
  <2>1. out'[c] = "ambiguous"
    BY <1>2, <1>3, <1>12 DEF Maintenance!Outcome, MType
  <2>2. Maintenance!Reported(c)'
    BY <2>1 DEF Maintenance!Reported
  <2>3. "ambiguous" \in Maintenance!Outcomes
    BY DEF Maintenance!Outcomes
  <2> QED
    BY <1>1, <1>2, <1>3, <1>7, <1>8, <1>9, <1>10, <1>12, <2>2, <2>3, MVisit
<1> QED
  BY <1>3, <1>11, <1>12 DEF Maintenance!Write, Maintenance!Unanswered

LEMMA MVerify ==
    ASSUME MInv, Maintenance!Verify
    PROVE  MInv'
<1>1. /\ cmd \in Marking /\ left # {} /\ at = "verify"
      /\ UNCHANGED <<point, factWrites, carried, before, touched, commands, manifests, record, cmd,
                     batch>>
  BY DEF Maintenance!Verify, Maintenance!Maintaining, Maintenance!files,
     Maintenance!store, Maintenance!server, Marking
<1>2. MType /\ cmd # "none"
  BY <1>1 DEF MInv, Marking
<1>3. PICK c \in left : c = Maintenance!Current /\ c \in Maintenance!Points
  BY <1>1, <1>2, CurrentIsLeft
<1>4. /\ batch \in DOMAIN manifests
      /\ Maintenance!Eligible(manifests[batch][c])
  BY <1>1, <1>2, <1>3 DEF MInv, CommandInv
<1>5. c \notin touched => point[c] = Marked(before[c])
  BY <1>1, <1>2, <1>3 DEF MInv, ToldInv
<1>6. CASE /\ Maintenance!Verified(c)
           /\ Maintenance!Outcome("updated")
           /\ suspect' = suspect \ {c}
  <2>1. out'[c] = "updated"
    BY <1>2, <1>3, <1>6 DEF Maintenance!Outcome, MType
  <2>2. /\ Maintenance!Stored(c)
        /\ Maintenance!Projected(c, manifests[batch][c])
        /\ point[c].status = NewStatus
    BY <1>6 DEF Maintenance!Verified, NewStatus
  <2>3. point[c] \in Maintenance!Payloads
    BY <1>2, <1>3, <2>2 DEF MType, Findings, Maintenance!Stored
  <2>4. manifests[batch][c] \in Maintenance!Payloads \cup {None}
    BY <1>2, <1>3, <1>4 DEF MType, Findings
  <2>5. point[c].rev = manifests[batch][c].rev
    BY <2>2, <2>3, <2>4
    DEF Maintenance!Projected, Maintenance!Fingerprint, Maintenance!Payloads
  <2>6. HiddenInv(c)'
    <3>1. CASE cmd = "quarantine"
      BY <1>1, <1>4, <2>2, <2>5, <3>1
      DEF HiddenInv, NewStatus, Maintenance!Hidden, Maintenance!Stored, Maintenance!Eligible
    <3>2. CASE cmd # "quarantine"
      BY <1>1, <2>2, <3>2, MaintenanceFacts
      DEF HiddenInv, NewStatus, Maintenance!Hidden, Maintenance!Stored
    <3> QED
      BY <3>1, <3>2
  <2>7. c \notin touched => Maintenance!Reported(c)'
    <3>1. SUFFICES ASSUME c \notin touched PROVE Maintenance!Reported(c)'
      OBVIOUS
    <3>2. point[c] = [before[c] EXCEPT !.status = NewStatus] /\ before[c] # None
      BY <1>5, <2>2, <3>1 DEF Marked, Maintenance!Stored
    <3>3. before[c] \in Maintenance!Payloads
      BY <1>2, <1>3, <3>2 DEF MType, Findings
    <3>4. [point[c] EXCEPT !.status = before[c].status] = before[c]
      BY <3>2, <3>3 DEF Maintenance!Payloads
    <3>5. IF cmd = "quarantine" THEN point[c].status = batch ELSE ~Maintenance!Hidden(c)
      BY <2>2, MaintenanceFacts DEF NewStatus, Maintenance!Hidden
    <3> QED
      BY <1>1, <2>1, <2>2, <3>4, <3>5
      DEF Maintenance!Reported, Marking, Maintenance!Stored, Maintenance!Projected,
          Maintenance!Fingerprint, Maintenance!Hidden
  <2>8. /\ "updated" \in Maintenance!Outcomes
        /\ suspect' \subseteq Maintenance!Points
        /\ \A p \in Maintenance!Points \ {c} : p \in suspect => p \in suspect'
    BY <1>2, <1>6 DEF Maintenance!Outcomes, MType
  <2> QED
    BY <1>1, <1>2, <1>3, <1>6, <2>6, <2>7, <2>8, MVisit DEF MType
<1>7. CASE Maintenance!Outcome("ambiguous") /\ UNCHANGED suspect
  <2>1. out'[c] = "ambiguous"
    BY <1>2, <1>3, <1>7 DEF Maintenance!Outcome, MType
  <2>2. Maintenance!Reported(c)'
    BY <2>1 DEF Maintenance!Reported
  <2>3. "ambiguous" \in Maintenance!Outcomes
    BY DEF Maintenance!Outcomes
  <2>4. HiddenInv(c)'
    BY <1>1, <1>3, <1>7, HiddenKept DEF MInv
  <2> QED
    BY <1>1, <1>2, <1>3, <1>7, <2>2, <2>3, <2>4, MVisit DEF MType
<1> QED
  BY <1>3, <1>6, <1>7 DEF Maintenance!Verify

\* The payload of an entry that the migration or its rollback converts.
LEMMA MMigrated ==
    ASSUME MInv, NEW c \in Maintenance!Points, point[c] # None
    PROVE  /\ Maintenance!Migrated(c) \in Findings
           /\ Maintenance!Migrated(c)[c] = [point[c] EXCEPT !.life = Maintenance!To]
           /\ Maintenance!Migrated(c)[c] # None
           /\ Maintenance!Migrated(c)[c].status = point[c].status
           /\ Maintenance!Migrated(c)[c].rev = point[c].rev
           /\ \A p \in Maintenance!Points \ {c} : Maintenance!Migrated(c)[p] = point[p]
<1>1. point \in Findings /\ point[c] \in Maintenance!Payloads
  BY DEF MInv, MType, Findings
<1>2. Maintenance!To \in {"legacy", "applied", "other"}
  BY DEF Maintenance!To
<1>3. PICK f : f = [point[c] EXCEPT !.life = Maintenance!To]
  OBVIOUS
<1>4. /\ f \in Maintenance!Payloads /\ f.status = point[c].status /\ f.rev = point[c].rev
  BY <1>1, <1>2, <1>3 DEF Maintenance!Payloads
<1>5. Maintenance!Migrated(c) = [point EXCEPT ![c] = f]
  BY <1>3 DEF Maintenance!Migrated
<1> QED
  BY <1>1, <1>3, <1>4, <1>5, MaintenanceFacts DEF Findings

LEMMA MEntry ==
    ASSUME MInv, Maintenance!Entry
    PROVE  MInv'
<1>1. /\ cmd \in Converting /\ left # {} /\ at = "look"
      /\ UNCHANGED <<factWrites, carried, before, touched, commands, manifests, record, cmd, batch,
                     suspect>>
  BY DEF Maintenance!Entry, Maintenance!server, Maintenance!Migrating,
     Maintenance!files, Converting
<1>2. MType /\ cmd # "none"
  BY <1>1 DEF MInv, Converting
<1>3. PICK c \in left : c = Maintenance!Current /\ c \in Maintenance!Points
  BY <1>1, <1>2, CurrentIsLeft
<1>4. /\ out[c] = "pending"
      /\ c \in record /\ record \notin {None, Torn}
  BY <1>1, <1>2, <1>3 DEF MInv, CommandInv
<1>5. c \notin touched => point[c] = before[c]
  BY <1>1, <1>2, <1>3, <1>4 DEF MInv, ToldInv, Maintenance!Reported
<1>6. /\ suspect' \subseteq Maintenance!Points
      /\ \A p \in Maintenance!Points \ {c} : p \in suspect => p \in suspect'
  BY <1>1, <1>2 DEF MType
<1>7. CASE /\ point[c] # None
           /\ point' = Maintenance!Migrated(c)
           /\ Maintenance!Outcome("updated")
  <2>1. out'[c] = "updated" /\ "updated" \in Maintenance!Outcomes
    BY <1>2, <1>3, <1>7 DEF Maintenance!Outcome, Maintenance!Outcomes, MType
  <2>2. /\ point' \in Findings /\ point'[c] # None
        /\ point'[c] = [point[c] EXCEPT !.life = Maintenance!To]
        /\ point'[c].status = point[c].status /\ point'[c].rev = point[c].rev
        /\ \A p \in Maintenance!Points \ {c} : point'[p] = point[p]
    BY <1>3, <1>7, MMigrated
  <2>3. HiddenInv(c)'
    BY <1>1, <1>3, <1>7, <2>2
    DEF MInv, HiddenInv, Maintenance!Hidden, Maintenance!Stored, Maintenance!Eligible
  <2>4. c \notin touched => Maintenance!Reported(c)'
    BY <1>1, <1>5, <2>1, <2>2
    DEF Maintenance!Reported, Maintenance!Stored, Maintenance!To, Converting
  <2> QED
    BY <1>1, <1>2, <1>3, <1>4, <1>6, <1>7, <2>1, <2>2, <2>3, <2>4, MVisit
<1>8. ASSUME NEW o \in {"already_applied", "conflict"},
             UNCHANGED point, Maintenance!Outcome(o),
             o = "already_applied" =>
                cmd = "apply" /\ point[c] # None /\ point[c].life = "applied"
      PROVE  MInv'
  <2>1. out'[c] = o /\ o \in Maintenance!Outcomes
    BY <1>2, <1>3, <1>8 DEF Maintenance!Outcome, Maintenance!Outcomes, MType
  <2>2. HiddenInv(c)'
    BY <1>1, <1>3, <1>8, HiddenKept DEF MInv
  <2>3. c \notin touched => Maintenance!Reported(c)'
    <3>1. SUFFICES ASSUME c \notin touched PROVE Maintenance!Reported(c)'
      OBVIOUS
    <3>2. CASE o = "conflict"
      BY <1>1, <1>5, <1>8, <2>1, <3>1, <3>2 DEF Maintenance!Reported, Converting
    <3>3. CASE o = "already_applied"
      <4>1. before[c] \in Maintenance!Payloads /\ before[c].life = "applied"
        BY <1>2, <1>3, <1>5, <1>8, <3>1, <3>3 DEF MType, Findings
      <4>2. before[c] = [before[c] EXCEPT !.life = "applied"]
        BY <4>1 DEF Maintenance!Payloads
      <4> QED
        BY <1>1, <1>5, <1>8, <2>1, <3>1, <3>3, <4>2
        DEF Maintenance!Reported, Maintenance!Stored, Maintenance!To
    <3> QED
      BY <1>8, <3>2, <3>3
  <2> QED
    BY <1>1, <1>2, <1>3, <1>4, <1>6, <1>8, <2>1, <2>2, <2>3, MVisit DEF MType
<1> QED
  BY <1>3, <1>7, <1>8 DEF Maintenance!Entry, Maintenance!Stored

LEMMA MEntryFails ==
    ASSUME MInv, Maintenance!EntryFails
    PROVE  MInv'
<1>1. /\ cmd \in Converting /\ left # {} /\ at = "look" /\ at' = "report"
      /\ UNCHANGED <<factWrites, carried, before, touched, commands, manifests, record, cmd, batch,
                     left, suspect>>
  BY DEF Maintenance!EntryFails, Maintenance!server, Maintenance!Migrating,
     Maintenance!files, Converting
<1>2. MType /\ cmd # "none"
  BY <1>1 DEF MInv, Converting
<1>3. PICK c \in left : c = Maintenance!Current /\ c \in Maintenance!Points
  BY <1>1, <1>2, CurrentIsLeft
<1>4. c \in record /\ record \notin {None, Torn}
  BY <1>1, <1>2, <1>3 DEF MInv, CommandInv
<1>5. /\ out' \in [Maintenance!Points -> Maintenance!Outcomes] /\ out'[c] = "failed"
      /\ \A p \in Maintenance!Points \ {c} : out'[p] = out[p]
  BY <1>2, <1>3 DEF Maintenance!EntryFails, Maintenance!Outcomes, MType
<1>6. /\ point' \in Findings
      /\ \A p \in Maintenance!Points \ {c} : point'[p] = point[p]
      /\ \/ point'[c] = point[c]
         \/ /\ point[c] # None /\ point'[c] # None
            /\ point'[c].status = point[c].status /\ point'[c].rev = point[c].rev
  <2>1. \/ point' = point
        \/ point[c] # None /\ point' = Maintenance!Migrated(c)
    BY <1>3 DEF Maintenance!EntryFails, Maintenance!Stored
  <2>2. CASE point' = point
    BY <1>2, <2>2 DEF MType
  <2>3. CASE point[c] # None /\ point' = Maintenance!Migrated(c)
    BY <1>3, <2>3, MMigrated
  <2> QED
    BY <2>1, <2>2, <2>3
<1>7. MType'
  BY <1>1, <1>2, <1>5, <1>6 DEF MType
<1>8. CommandInv'
  BY <1>1 DEF MInv, CommandInv, Converting, Marking
<1>9. ASSUME NEW p \in Maintenance!Points PROVE HiddenInv(p)'
  <2>1. CASE point'[p] = point[p]
    BY <1>1, <2>1, HiddenKept DEF MInv
  <2>2. CASE p = c /\ point'[c] # point[c]
    BY <1>1, <1>3, <1>6, <2>2
    DEF MInv, HiddenInv, Maintenance!Hidden, Maintenance!Stored, Maintenance!Eligible
  <2> QED
    BY <1>6, <2>1, <2>2
<1>10. ToldInv'
  <2>1. ASSUME NEW p \in Maintenance!Points \ touched PROVE Maintenance!Reported(p)'
    <3>1. CASE p = c
      BY <1>1, <1>5, <3>1 DEF Maintenance!Reported, Converting
    <3>2. CASE p # c
      <4>1. Maintenance!Reported(p)
        BY <1>1, <1>2 DEF MInv, ToldInv
      <4> QED
        BY <1>1, <1>5, <1>6, <3>2, <4>1, ReportKept
    <3> QED
      BY <3>1, <3>2
  <2> QED
    BY <1>1, <2>1 DEF ToldInv
<1>11. Maintenance!MigrationIsOnRecord'
  BY <1>1, <1>4, <1>6, RecordKept DEF Maintenance!HaveTarget
<1> QED
  BY <1>7, <1>8, <1>9, <1>10, <1>11 DEF MInv

LEMMA MAnalyze ==
    ASSUME MInv, Maintenance!Analyze
    PROVE  MInv'
<1>1. /\ cmd = "none" /\ Len(manifests) < MaxAnalyses
      /\ UNCHANGED <<point, factWrites, carried, before, touched, commands, record, cmd, batch, left,
                     at, out, cancelled, suspect>>
  BY DEF Maintenance!Analyze, Maintenance!store, Maintenance!server, Maintenance!command
<1>2. MType
  BY DEF MInv
<1>3. PICK found : found = [p \in Maintenance!Points |-> Maintenance!Finding(p)]
  OBVIOUS
<1>4. found \in Findings
  <2>1. ASSUME NEW p \in Maintenance!Points
        PROVE  Maintenance!Finding(p) \in Maintenance!Payloads \cup {None}
    BY <1>2 DEF MType, Findings, Maintenance!Finding
  <2> QED
    BY <1>3, <2>1 DEF Findings
<1>5. manifests' = Append(manifests, found)
  BY <1>3 DEF Maintenance!Analyze
<1>6. /\ manifests' \in Seq(Findings) /\ Len(manifests') = Len(manifests) + 1
      /\ \A k \in DOMAIN manifests : k \in DOMAIN manifests' /\ manifests'[k] = manifests[k]
  BY <1>2, <1>4, <1>5 DEF MType
<1>7. Len(manifests') <= MaxAnalyses
  BY <1>1, <1>2, <1>6, MaintenanceFacts DEF MType
<1>8. MType'
  BY <1>1, <1>2, <1>6, <1>7 DEF MType
<1>9. \A p \in Maintenance!Points : HiddenInv(p)'
  BY <1>1, <1>6, HiddenKept DEF MInv
<1>10. CommandInv' /\ ToldInv'
  BY <1>1 DEF CommandInv, ToldInv, Marking, Converting
<1>11. Maintenance!MigrationIsOnRecord'
  BY <1>1, RecordKept
<1> QED
  BY <1>8, <1>9, <1>10, <1>11 DEF MInv

\* A command begins: nothing is reported yet, and what is stored is what it
\* is compared with.
LEMMA MBegin ==
    ASSUME MInv, NEW c \in Commands \ {"none"}, NEW k, NEW selection \in SUBSET Maintenance!Points,
           Maintenance!Begin(c, k, selection),
           UNCHANGED <<point, factWrites, carried, manifests, suspect>>,
           record' \in {None, Torn} \cup SUBSET Maintenance!Points,
           Maintenance!MigrationIsOnRecord',
           c \in Marking => k \in DOMAIN manifests,
           c \in Converting => record' \notin {None, Torn} /\ selection \subseteq record'
    PROVE  MInv'
<1>1. /\ cmd' = c /\ batch' = k /\ left' = selection
      /\ at' = IF selection = {} THEN "report" ELSE "look"
      /\ out' = [p \in Maintenance!Points |-> "pending"]
      /\ before' = point /\ touched' = {}
  BY DEF Maintenance!Begin
<1>2. MType
  BY DEF MInv
<1>3. /\ out' \in [Maintenance!Points -> Maintenance!Outcomes]
      /\ \A p \in Maintenance!Points : out'[p] = "pending"
  BY <1>1 DEF Maintenance!Outcomes
<1>4. MType'
  BY <1>1, <1>2, <1>3 DEF MType
<1>5. CommandInv'
  BY <1>1, <1>3 DEF CommandInv
<1>6. \A p \in Maintenance!Points : HiddenInv(p)'
  BY HiddenKept DEF MInv
<1>7. ToldInv'
  BY <1>1, <1>3 DEF ToldInv, Maintenance!Reported
<1> QED
  BY <1>4, <1>5, <1>6, <1>7 DEF MInv

LEMMA MMaintain ==
    ASSUME MInv, Maintenance!Maintain
    PROVE  MInv'
<1>1. PICK c \in {"quarantine", "restore"}, k \in DOMAIN manifests :
         \E selection \in SUBSET Maintenance!Found(k) \ {{}} :
            Maintenance!Begin(c, k, selection)
  BY DEF Maintenance!Maintain
<1>2. PICK selection \in SUBSET Maintenance!Found(k) \ {{}} :
         Maintenance!Begin(c, k, selection)
  BY <1>1
<1>3. selection \subseteq Maintenance!Points
  BY <1>2 DEF Maintenance!Found
<1>4. UNCHANGED <<point, factWrites, carried, manifests, record, suspect>>
  BY DEF Maintenance!Maintain, Maintenance!server, Maintenance!files
<1>5. Maintenance!MigrationIsOnRecord'
  BY <1>4, RecordKept
<1> QED
  BY <1>2, <1>3, <1>4, <1>5, MBegin DEF MInv, MType, Commands, Marking, Converting

LEMMA MApply ==
    ASSUME MInv, Maintenance!Apply
    PROVE  MInv'
<1>1. /\ record # Torn
      /\ Maintenance!Begin("apply", 0, Maintenance!Entries)
      /\ record' = IF record = None THEN Maintenance!Legacy ELSE record
      /\ UNCHANGED <<point, factWrites, carried, manifests, suspect>>
  BY DEF Maintenance!Apply, Maintenance!server
<1>2. record' = Maintenance!Entries /\ record' \subseteq Maintenance!Points
  BY <1>1 DEF Maintenance!Entries, Maintenance!Legacy, MInv, MType
<1>3. record' \notin {None, Torn}
  BY <1>2, MaintenanceFacts
<1>4. Maintenance!MigrationIsOnRecord'
  BY <1>1, <1>3
  DEF MInv, Maintenance!MigrationIsOnRecord, Maintenance!Listed, Maintenance!HaveTarget
<1> QED
  BY <1>1, <1>2, <1>3, <1>4, MBegin DEF Commands, Marking, Converting

LEMMA MRollback ==
    ASSUME MInv, Maintenance!Rollback
    PROVE  MInv'
<1>1. /\ record \notin {None, Torn}
      /\ Maintenance!Begin("rollback", 0, record)
      /\ UNCHANGED <<point, factWrites, carried, manifests, record, suspect>>
  BY DEF Maintenance!Rollback, Maintenance!server, Maintenance!files
<1>2. record \subseteq Maintenance!Points
  BY <1>1 DEF MInv, MType
<1>3. Maintenance!MigrationIsOnRecord'
  BY <1>1, RecordKept
<1> QED
  BY <1>1, <1>2, <1>3, MBegin DEF Commands, Marking, Converting

\* A manifest that is cut short, or removed, listed nothing: only one that
\* could be finished was ever worked from.
LEMMA MTorn ==
    ASSUME MInv, Maintenance!ApplyCrash \/ Maintenance!RemoveTorn
    PROVE  MInv'
<1>1. /\ record \in {None, Torn} /\ record' \in {None, Torn}
      /\ UNCHANGED <<point, factWrites, carried, before, touched, manifests, cmd, batch, left, at,
                     out, cancelled, suspect>>
  BY DEF Maintenance!ApplyCrash, Maintenance!RemoveTorn, Maintenance!store, Maintenance!server,
     Maintenance!command
<1>2. MType'
  BY <1>1 DEF MInv, MType
<1>3. cmd \notin Converting
  BY <1>1 DEF MInv, CommandInv
<1>4. CommandInv'
  BY <1>1, <1>3 DEF MInv, CommandInv, Maintenance!Current, Maintenance!Min,
     Maintenance!Eligible
<1>5. \A p \in Maintenance!Points : HiddenInv(p)'
  BY <1>1, HiddenKept DEF MInv
<1>6. ToldInv'
  BY <1>1 DEF MInv, ToldInv, Maintenance!Current, Maintenance!Min, Maintenance!Reported,
     Maintenance!Hidden, Maintenance!Stored, Maintenance!Projected, Maintenance!Fingerprint,
     Maintenance!To, Marked, NewStatus
<1>7. Maintenance!MigrationIsOnRecord'
  BY <1>1
  DEF MInv, Maintenance!MigrationIsOnRecord, Maintenance!Listed, Maintenance!HaveTarget
<1> QED
  BY <1>2, <1>4, <1>5, <1>6, <1>7 DEF MInv

LEMMA MExit ==
    ASSUME MInv, Maintenance!Exit
    PROVE  MInv'
<1>1. /\ cmd' = "none" /\ left' = {} /\ at' = "look" /\ touched' = {}
      /\ out' = [p \in Maintenance!Points |-> "pending"]
      /\ before' = [p \in Maintenance!Points |-> None]
      /\ UNCHANGED <<point, factWrites, carried, manifests, record, suspect>>
  BY DEF Maintenance!Exit, Maintenance!server, Maintenance!files
<1>2. MType'
  BY <1>1 DEF MInv, MType, Findings, Commands, Maintenance!Outcomes
<1>3. CommandInv' /\ ToldInv'
  BY <1>1 DEF CommandInv, ToldInv, Marking, Converting
<1>4. \A p \in Maintenance!Points : HiddenInv(p)'
  BY <1>1, HiddenKept DEF MInv
<1>5. Maintenance!MigrationIsOnRecord'
  BY <1>1, RecordKept
<1> QED
  BY <1>2, <1>3, <1>4, <1>5 DEF MInv

\* What a call makes of a fact it may write is no quarantined fact, and keeps
\* its lifecycle or gives it one that is not the migration's.
LEMMA MChanged ==
    ASSUME MInv, NEW p \in Maintenance!Points, Maintenance!MayWrite(p), Maintenance!Stored(p),
           factWrites < MaxFactWrites, NEW f \in Maintenance!Changed(p)
    PROVE  /\ f \in Maintenance!Payloads /\ f.status \notin Maintenance!Batches
           /\ f.life \in {point[p].life, "other"}
<1>1. PICK life \in {point[p].life, "other"}, due \in BOOLEAN :
         f = [life |-> life,
              status |-> IF Maintenance!Hidden(p) THEN manifests[batch][p].status
                         ELSE point[p].status,
              rev |-> factWrites + 1, due |-> due]
  BY DEF Maintenance!Changed
<1>2. point[p] \in Maintenance!Payloads /\ point[p] # None
  BY DEF MInv, MType, Findings, Maintenance!Stored
<1>3. f.status \in {Unset, Active}
  <2>1. CASE Maintenance!Hidden(p)
    <3>1. cmd \in Marking /\ at = "verify" /\ p = Maintenance!Current /\ cmd # "none"
      BY <2>1 DEF Maintenance!MayWrite, Maintenance!Maintaining, Marking
    <3>2. Maintenance!Eligible(manifests[batch][p])
      BY <3>1 DEF MInv, CommandInv
    <3> QED
      BY <1>1, <2>1, <3>2 DEF Maintenance!Eligible
  <2>2. CASE ~Maintenance!Hidden(p)
    BY <1>1, <1>2, <2>2 DEF Maintenance!Hidden, Maintenance!Stored, Maintenance!Payloads
  <2> QED
    BY <2>1, <2>2
<1>4. factWrites + 1 \in 0 .. MaxFactWrites
  BY MaintenanceFacts DEF MInv, MType
<1>5. f.life = life /\ f.rev = factWrites + 1 /\ f.due = due
  BY <1>1
<1>6. life \in {"legacy", "applied", "other"}
  BY <1>1, <1>2 DEF Maintenance!Payloads
<1>7. f = [life |-> f.life, status |-> f.status, rev |-> f.rev, due |-> f.due]
  BY <1>1
<1>8. f \in Maintenance!Payloads
  BY <1>3, <1>4, <1>5, <1>6, <1>7 DEF Maintenance!Payloads
<1> QED
  BY <1>1, <1>3, <1>5, <1>8, MaintenanceFacts

LEMMA MNew ==
    ASSUME MInv, factWrites < MaxFactWrites, NEW f \in Maintenance!New
    PROVE  /\ f \in Maintenance!Payloads /\ f.status \notin Maintenance!Batches
           /\ f.life # "applied"
<1>1. PICK life \in {"legacy", "other"}, due \in BOOLEAN :
         f = [life |-> life, status |-> Unset, rev |-> factWrites + 1, due |-> due]
  BY DEF Maintenance!New
<1>2. factWrites + 1 \in 0 .. MaxFactWrites
  BY MaintenanceFacts DEF MInv, MType
<1>3. f.status = Unset /\ f.life = life
  BY <1>1
<1> QED
  BY <1>1, <1>2, <1>3, MaintenanceFacts DEF Maintenance!Payloads

\* One write of the server, to the point q: it is left, removed or given a
\* payload that is not quarantined, and the migration's lifecycle with it only
\* from a fact that has it.
LEMMA MServer ==
    ASSUME MInv, NEW q \in Maintenance!Points, point' \in Findings,
           \A p \in Maintenance!Points \ {q} : point'[p] = point[p],
           \/ point'[q] \in {point[q], None}
           \/ /\ point'[q].status \notin Maintenance!Batches
              /\ \/ point'[q].life # "applied"
                 \/ q \in Maintenance!HaveTarget(point)
                 \/ q \in carried' /\ Maintenance!HaveTarget(point) # {},
           carried \cap Maintenance!HaveTarget(point') \subseteq carried',
           touched' = Maintenance!Touched(q), factWrites' \in 0 .. MaxFactWrites,
           UNCHANGED <<manifests, record, cmd, batch, left, at, out, before, suspect>>
    PROVE  MInv'
<1>1. MType'
  BY DEF MInv, MType, Maintenance!Touched
<1>2. Maintenance!Current' = Maintenance!Current
  BY DEF Maintenance!Current, Maintenance!Min
<1>3. CommandInv'
  BY <1>2 DEF MInv, CommandInv, Maintenance!Eligible
<1>4. ASSUME NEW p \in Maintenance!Points PROVE HiddenInv(p)'
  <2>1. CASE point'[p] = point[p]
    BY <2>1, HiddenKept DEF MInv
  <2>2. CASE p = q /\ (point'[q] = None \/ point'[q].status \notin Maintenance!Batches)
    BY <2>2 DEF HiddenInv, Maintenance!Hidden, Maintenance!Stored, Maintenance!Batches
  <2> QED
    BY <2>1, <2>2
<1>5. ToldInv'
  <2>1. SUFFICES ASSUME cmd # "none", NEW p \in Maintenance!Points \ touched, p # q
        PROVE  IF at = "verify" /\ p = Maintenance!Current
               THEN (point[p] = Marked(before[p]))'
               ELSE Maintenance!Reported(p)'
    BY <1>2 DEF ToldInv, Maintenance!Touched
  <2>2. CASE at = "verify" /\ p = Maintenance!Current
    BY <2>1, <2>2 DEF MInv, ToldInv, Marked, NewStatus
  <2>3. CASE ~(at = "verify" /\ p = Maintenance!Current)
    <3>1. Maintenance!Reported(p)
      BY <2>1, <2>3 DEF MInv, ToldInv
    <3>2. Maintenance!Reported(p)'
      BY <2>1, <3>1, ReportKept
    <3> QED
      BY <2>3, <3>2
  <2> QED
    BY <2>2, <2>3
<1>6. Maintenance!MigrationIsOnRecord'
  <2>1. ASSUME NEW p \in Maintenance!HaveTarget(point')
        PROVE  \/ p \in Maintenance!HaveTarget(point)
               \/ p \in carried' /\ Maintenance!HaveTarget(point) # {}
    BY <2>1 DEF Maintenance!HaveTarget
  <2> QED
    BY <2>1, RecordKept
<1> QED
  BY <1>1, <1>3, <1>4, <1>5, <1>6 DEF MInv

\* The server stores a fact, changes it in its place or deletes it.
LEMMA MServerWrite ==
    ASSUME MInv, NEW q \in Maintenance!Points, Maintenance!ServerWrite(q)
    PROVE  MInv'
<1>1. /\ Maintenance!MayWrite(q)
      /\ factWrites < MaxFactWrites /\ factWrites' = factWrites + 1
      /\ touched' = Maintenance!Touched(q)
      /\ carried' = carried \cap Maintenance!HaveTarget(point')
      /\ UNCHANGED <<manifests, record, cmd, batch, left, at, out, before, suspect>>
  BY DEF Maintenance!ServerWrite, Maintenance!files, Maintenance!command
<1>2. factWrites' \in 0 .. MaxFactWrites
  BY <1>1, MaintenanceFacts DEF MInv, MType
<1>3. PICK f \in IF Maintenance!Stored(q) THEN Maintenance!Changed(q) \cup {None}
                 ELSE Maintenance!New : point' = [point EXCEPT ![q] = f]
  BY DEF Maintenance!ServerWrite
<1>4. /\ f \in Maintenance!Payloads \cup {None}
      /\ \/ f = None
         \/ /\ f.status \notin Maintenance!Batches
            /\ f.life # "applied" \/ (Maintenance!Stored(q) /\ point[q].life = "applied")
  <2>1. CASE f = None
    BY <2>1
  <2>2. CASE Maintenance!Stored(q) /\ f \in Maintenance!Changed(q)
    BY <1>1, <2>2, MChanged
  <2>3. CASE f \in Maintenance!New
    BY <1>1, <2>3, MNew
  <2> QED
    BY <1>3, <2>1, <2>2, <2>3
<1>5. /\ point' \in Findings /\ point'[q] = f
      /\ \A p \in Maintenance!Points \ {q} : point'[p] = point[p]
  BY <1>3, <1>4 DEF MInv, MType, Findings
<1>6. \/ point'[q] \in {point[q], None}
      \/ /\ point'[q].status \notin Maintenance!Batches
         /\ point'[q].life # "applied" \/ q \in Maintenance!HaveTarget(point)
  BY <1>4, <1>5 DEF Maintenance!HaveTarget, Maintenance!Stored
<1> QED
  BY <1>1, <1>2, <1>5, <1>6, MServer

\* update_fact stores the fact under the ID of its new text: the lifecycle
\* comes from the fact it is still stored as.
LEMMA MServerMove ==
    ASSUME MInv, NEW p \in Maintenance!Points, NEW q \in Maintenance!Points,
           Maintenance!ServerMove(p, q)
    PROVE  MInv'
<1>1. /\ Maintenance!MayWrite(p) /\ Maintenance!Stored(p)
      /\ factWrites < MaxFactWrites /\ factWrites' = factWrites + 1
      /\ touched' = Maintenance!Touched(q)
      /\ carried' = (carried \cup {q}) \cap Maintenance!HaveTarget(point')
      /\ UNCHANGED <<manifests, record, cmd, batch, left, at, out, before, suspect>>
  BY DEF Maintenance!ServerMove, Maintenance!files, Maintenance!command
<1>2. factWrites' \in 0 .. MaxFactWrites
  BY <1>1, MaintenanceFacts DEF MInv, MType
<1>3. PICK f \in Maintenance!Changed(p) : point' = [point EXCEPT ![q] = f]
  BY DEF Maintenance!ServerMove
<1>4. /\ f \in Maintenance!Payloads /\ f.status \notin Maintenance!Batches
      /\ f.life # "applied" \/ point[p].life = "applied"
  BY <1>1, <1>3, MChanged
<1>5. /\ point' \in Findings /\ point'[q] = f
      /\ \A r \in Maintenance!Points \ {q} : point'[r] = point[r]
  BY <1>3, <1>4 DEF MInv, MType, Findings
<1>6. ASSUME f.life = "applied"
      PROVE  q \in carried' /\ Maintenance!HaveTarget(point) # {}
  <2>1. p \in Maintenance!HaveTarget(point)
    BY <1>1, <1>4, <1>6 DEF Maintenance!HaveTarget, Maintenance!Stored
  <2>2. f # None
    BY <1>4, MaintenanceFacts
  <2>3. q \in Maintenance!HaveTarget(point')
    BY <1>5, <1>6, <2>2 DEF Maintenance!HaveTarget
  <2> QED
    BY <1>1, <2>1, <2>3
<1>7. carried \cap Maintenance!HaveTarget(point') \subseteq carried'
  BY <1>1
<1> QED
  BY <1>1, <1>2, <1>4, <1>5, <1>6, <1>7, MServer

\* update_fact removes the fact from its old ID, or could not.
LEMMA MServerLeaves ==
    ASSUME MInv, NEW p \in Maintenance!Points, NEW q \in Maintenance!Points,
           Maintenance!ServerLeaves(p, q)
    PROVE  MInv'
<1>1. /\ point' \in {point, [point EXCEPT ![p] = None]}
      /\ touched' = Maintenance!Touched(p)
      /\ carried' = carried \cap Maintenance!HaveTarget(point')
      /\ UNCHANGED <<factWrites, manifests, record, cmd, batch, left, at, out, before,
                     suspect>>
  BY DEF Maintenance!ServerLeaves, Maintenance!files, Maintenance!command
<1>2. factWrites' \in 0 .. MaxFactWrites
  BY <1>1 DEF MInv, MType
<1>3. /\ point' \in Findings /\ point'[p] \in {point[p], None}
      /\ \A r \in Maintenance!Points \ {p} : point'[r] = point[r]
  BY <1>1 DEF MInv, MType, Findings
<1> QED
  BY <1>1, <1>2, <1>3, MServer

\* A step of another tool, or an interruption that has not been noticed.
LEMMA MUnchanged ==
    ASSUME MInv, UNCHANGED <<point, factWrites, carried, manifests, record, cmd, batch,
                             left, at, out, before, touched, suspect>>
    PROVE  MInv'
<1>1. MType'
  BY DEF MInv, MType
<1>2. CommandInv'
  BY DEF MInv, CommandInv, Maintenance!Current, Maintenance!Min, Maintenance!Eligible
<1>3. \A p \in Maintenance!Points : HiddenInv(p)'
  BY HiddenKept DEF MInv
<1>4. ToldInv'
  BY DEF MInv, ToldInv, Maintenance!Current, Maintenance!Min, Maintenance!Reported,
     Maintenance!Hidden, Maintenance!Stored, Maintenance!Projected, Maintenance!Fingerprint,
     Maintenance!To, Marked, NewStatus
<1>5. Maintenance!MigrationIsOnRecord'
  BY RecordKept
<1> QED
  BY <1>1, <1>2, <1>3, <1>4, <1>5 DEF MInv

LEMMA MStep ==
    ASSUME MInv, [Maintenance!Next]_(Maintenance!vars)
    PROVE  MInv'
<1>1. CASE Maintenance!Interrupt
  BY <1>1, MUnchanged DEF Maintenance!Interrupt, Maintenance!store, Maintenance!server,
     Maintenance!files
<1>2. CASE UNCHANGED Maintenance!vars
  BY <1>2, MUnchanged DEF Maintenance!vars
<1>3. CASE Maintenance!Report \/ Maintenance!Crash
  BY <1>3, MExit DEF Maintenance!Report, Maintenance!Crash
<1> QED
  BY <1>1, <1>2, <1>3, MAnalyze, MMaintain, MLook, MWrite, MVerify, MApply, MTorn, MRollback,
     MEntry, MEntryFails, MServerWrite, MServerMove, MServerLeaves
  DEF Maintenance!Next

LEMMA MInit ==
    ASSUME Maintenance!Init
    PROVE  MInv
<1>1. /\ point \in Findings
      /\ \A p \in Maintenance!Points :
            point[p] = None \/ (point[p].status = Unset /\ point[p].life = "legacy")
  <2>2. /\ DOMAIN point = Maintenance!Points
        /\ point = [p \in Maintenance!Points |-> point[p]]
    BY DEF Maintenance!Init
  <2>3. ASSUME NEW p \in Maintenance!Points
        PROVE  /\ point[p] \in Maintenance!Payloads \cup {None}
               /\ point[p] = None \/ (point[p].status = Unset /\ point[p].life = "legacy")
    <3>1. ASSUME point[p] # None
          PROVE  \E due \in BOOLEAN : point[p] = [life |-> "legacy", status |-> Unset,
                                                   rev |-> 0, due |-> due]
      BY <2>3, <3>1 DEF Maintenance!Init
    <3>2. 0 \in 0 .. MaxFactWrites
      BY MaintenanceFacts
    <3>3. CASE point[p] # None
      <4>1. PICK due \in BOOLEAN : point[p] = [life |-> "legacy", status |-> Unset,
                                               rev |-> 0, due |-> due]
        BY <3>1, <3>3
      <4> QED
        BY <3>2, <4>1 DEF Maintenance!Payloads
    <3> QED
      BY <3>3
  <2> QED
    BY <2>2, <2>3 DEF Findings
<1>2. /\ factWrites = 0 /\ manifests = <<>> /\ record = None /\ cmd = "none" /\ left = {}
      /\ at = "look" /\ out = [p \in Maintenance!Points |-> "pending"]
      /\ before = [p \in Maintenance!Points |-> None] /\ touched = {} /\ suspect = {}
  BY DEF Maintenance!Init
<1>3. MType
  <2>1. 0 \in 0 .. MaxFactWrites /\ 0 <= MaxAnalyses
    BY MaintenanceFacts
  <2>2. before \in Findings
    BY <1>2 DEF Findings
  <2>3. out \in [Maintenance!Points -> Maintenance!Outcomes]
    BY <1>2 DEF Maintenance!Outcomes
  <2>4. manifests \in Seq(Findings) /\ Len(manifests) = 0
    BY <1>2
  <2> QED
    BY <1>1, <1>2, <2>1, <2>2, <2>3, <2>4 DEF MType, Commands
<1>4. CommandInv /\ ToldInv
  BY <1>2 DEF CommandInv, ToldInv, Marking, Converting
<1>5. \A p \in Maintenance!Points : HiddenInv(p)
  BY <1>1, MaintenanceFacts DEF HiddenInv, Maintenance!Hidden, Maintenance!Stored
<1>6. Maintenance!MigrationIsOnRecord
  BY <1>1 DEF Maintenance!MigrationIsOnRecord, Maintenance!HaveTarget
<1> QED
  BY <1>3, <1>4, <1>5, <1>6 DEF MInv

\* The inductive invariant is all that is claimed of the commands.
LEMMA MPromise ==
    ASSUME MInv
    PROVE  CommandsAreTrue
<1>1. Maintenance!ReportIsTrue
  BY DEF MInv, ToldInv, Maintenance!ReportIsTrue
<1>2. Maintenance!HiddenWasReviewed
  BY DEF MInv, HiddenInv, Maintenance!HiddenWasReviewed
<1> QED
  BY <1>1, <1>2 DEF MInv, CommandsAreTrue

\* However the operator's commands are interrupted, killed and repeated, and
\* whatever a server writes beside them: what a command reports is what it
\* did, and a fact is hidden only in the form in which the analysis found it
\* due.  No fact has the migration's lifecycle before the rollback manifest is
\* complete, and each that has it is listed there, unless update_fact took it
\* to the fact's next ID: of those nothing is claimed (apply, verifyQuarantine,
\* verifyRestore of internal/memory/maintenance; apply and rollback of
\* internal/lifecyclemigration; updateFact of internal/memory).
THEOREM CommandsSound == MCSpec => []CommandsAreTrue
<1>1. MCInit => MInv
  BY MInit DEF MCInit
<1>2. MInv /\ [MCNext]_<<tool, vars, factVars, vectorVars, groupVars, bundleVars>> => MInv'
  <2>1. SUFFICES ASSUME MInv,
                        [MCNext]_<<tool, vars, factVars, vectorVars, groupVars, bundleVars>>
                 PROVE  MInv'
    OBVIOUS
  <2>2. [Maintenance!Next]_(Maintenance!vars)
    BY <2>1 DEF MCNext, factVars, Maintenance!vars
  <2> QED
    BY <2>1, <2>2, MStep
<1>3. MInv => CommandsAreTrue
  BY MPromise
<1> QED
  BY <1>1, <1>2, <1>3, PTL DEF MCSpec

------------------------------------------------------------------------------
(* The installer of the bundle: types, where the operation stands, the state   *)
(* and the backups it rests on, the plan, the user's words, and what is owned. *)

\* What an installed file holds, what an operation may be, and its steps.
Contents == Sets \cup {Bundle!Bare, Bundle!Edited}
Files == [Bundle!Paths -> [m : Contents, u : Nat]]
States == [set : Sets \cup {Bundle!Bare}, tx : 0 .. MaxOps]
Backups == [manifest : BOOLEAN, intact : BOOLEAN, files : Files, state : States]
Applying == {"check", "write", "record", "stub", "final"}
Operations ==
    [pc : {"idle", "backup", "recover", "restore", "prune"} \cup Applying,
     kind : {"none", "apply", "rollback"}, set : Sets \cup {Bundle!Bare}, plan : Files,
     stub : BOOLEAN, from : 0 .. MaxOps, i : Bundle!Paths, current : [m : Contents, u : Nat],
     written : SUBSET Bundle!Paths, post : Files, stubbed : BOOLEAN, wrote : BOOLEAN,
     attempted : BOOLEAN, unread : BOOLEAN, expected : Files, todo : SUBSET Bundle!Paths,
     recovering : BOOLEAN]

BType ==
    /\ files \in Files /\ state \in States
    /\ backups \in [Bundle!Txs -> Backups] /\ op \in Operations
    /\ made \in 0 .. MaxOps /\ words \in [Bundle!Paths -> Nat]
    /\ raced \in BOOLEAN /\ tampered \in BOOLEAN /\ crashed \in BOOLEAN

\* The backup of the running operation, once it has been made.
Copied == op.pc \notin {"idle", "backup"}
Own == backups[made]

\* What the user has made of content a, or a itself.
Later(a, z) ==
    /\ a.u <= z.u
    /\ \/ a.m = z.m
       \/ a.m # Bundle!Edited /\ z.m = Bundle!Edited
       \/ a.m \in Sets /\ z.m = Bundle!Bare

\* What an operation is, where it stands, and what it knows of its backup.
PlaceInv ==
    /\ op.pc \in Applying \cup {"recover"} => op.kind = "apply"
    /\ op.pc # "idle" => op.kind \in {"apply", "rollback"}
    /\ op.pc = "backup" => made < MaxOps
    /\ op.pc = "restore" /\ op.kind = "apply" => op.recovering
    /\ Copied => made \in Bundle!Txs /\ Own.manifest /\ Own.intact

StateInv ==
    /\ state.tx <= made
    /\ \A tx \in Bundle!Txs : backups[tx].state.tx <= made
    /\ state.tx \notin {0} \cup undone => Bundle!Loadable(state.tx)
    /\ Copied => Own.state.tx < made
                 /\ (Own.state.tx \notin {0} \cup undone => Bundle!Loadable(Own.state.tx))
    /\ Copied /\ op.kind = "apply" /\ op.pc # "prune" /\ ~op.attempted
         => state = Own.state
    /\ op.pc \in Applying => ~op.attempted
    /\ op.pc = "prune" /\ op.kind = "apply" => state.tx = made
    /\ op.pc = "backup" /\ op.kind = "rollback" => op.from = state.tx
    /\ op.pc # "idle" /\ op.kind = "rollback" => Bundle!Loadable(op.from)
    /\ Copied /\ op.kind = "rollback" => op.from = Own.state.tx
    /\ op.pc = "prune" /\ op.kind = "rollback" =>
          IF op.recovering THEN state.tx = op.from ELSE state.tx \in undone

\* Artifacts that have been compared with the plan.
Passed(p) ==
    op.pc \in {"stub", "final"} \/ p < op.i \/ (p = op.i /\ op.pc \in {"write", "record"})

PlanInv ==
    /\ op.pc = "backup" /\ op.kind = "apply" =>
          \A p \in Bundle!Paths : op.plan[p].m = state.set /\ Later(op.plan[p], files[p])
    /\ op.pc \in Applying =>
          \A p \in Bundle!Paths :
             /\ op.plan[p].m = Own.state.set
             /\ IF Passed(p) THEN Own.files[p] = op.plan[p]
                ELSE Later(op.plan[p], Own.files[p]) /\ Later(Own.files[p], files[p])

WordsInv ==
    /\ \A p \in Bundle!Paths : files[p].u <= words[p]
    /\ \A tx \in Bundle!Txs, p \in Bundle!Paths : backups[tx].files[p].u <= words[p]
    /\ op.pc = "write" => op.current.u <= words[op.i]
    /\ \A p \in Bundle!Paths : Kind[p] = "file" =>
          files[p].u = 0 /\ \A tx \in Bundle!Txs : backups[tx].files[p].u = 0
    /\ mine => override = "user"

RaceInv ==
    ~raced =>
    /\ \A p \in Bundle!Paths : files[p].u = words[p]
    /\ op.pc \in {"write", "record"} => Own.files[op.i].u = words[op.i]
    /\ op.pc = "write" => op.current.u = words[op.i]
    /\ op.pc \in Applying \cup {"recover"} =>
          \A p \in op.written : op.post[p].u = Own.files[p].u
    /\ op.pc = "restore" /\ op.recovering =>
          \A p \in op.todo : Own.files[p].u = words[p]
    /\ Copied /\ op.kind = "rollback" =>
          \A p \in Bundle!Paths : Own.files[p].u = words[p]

WroteInv ==
    /\ op.pc = "backup" => ~op.attempted /\ ~op.unread /\ op.written = {} /\ op.i = 1
    /\ op.pc \in Applying => ~op.unread
    /\ op.pc \in Applying \cup {"recover"} /\ ~op.wrote => op.written = {} /\ ~op.unread
    /\ op.pc = "record" => op.wrote
    /\ op.kind = "rollback" => ~op.unread

CleanInv ==
    ~tampered /\ ~crashed =>
    /\ op.pc = "idle" /\ result \notin {"broken", "unread"} => Bundle!Owned(state.set)
    /\ op.pc \in {"backup", "prune"} => Bundle!Owned(state.set)
    /\ op.pc = "recover" /\ ~op.wrote => Bundle!Owned(state.set)
    /\ Copied => \A p \in Bundle!Paths : Own.files[p].m = Own.state.set
    /\ op.pc \in Applying \cup {"recover"} /\ ~op.unread =>
          \A p \in Bundle!Paths \ op.written :
             ~(op.pc = "record" /\ p = op.i) => files[p].m = Own.state.set
    /\ op.pc = "restore" /\ ~op.unread =>
          \A p \in Bundle!Paths \ op.todo : files[p].m = backups[Bundle!Source].state.set

BInv ==
    /\ BType /\ PlaceInv /\ StateInv /\ PlanInv /\ WordsInv /\ RaceInv /\ WroteInv
    /\ CleanInv


LEMMA PathFacts ==
    /\ Bundle!Paths = 1 .. Len(Kind) /\ Len(Kind) \in Nat /\ 1 \in Bundle!Paths
    /\ \A p \in Bundle!Paths : Kind[p] \in {"file", "shared"}
    /\ Sets \subseteq Nat \ {0} /\ Old \subseteq Sets /\ Keep \in Nat \ {0} /\ MaxOps \in Nat
    /\ Bundle!Txs = 1 .. MaxOps /\ Bundle!Edited = -1 /\ Bundle!Bare = 0
BY ToolsAssumption
DEF ToolsAssumption, Bundle!InstallerAssumption, Bundle!Paths, Bundle!Txs, Bundle!Edited,
    Bundle!Bare

LEMMA Types ==
    /\ Bundle!Absent \in [m : Contents, u : Nat] /\ Bundle!Nothing \in Files
    /\ Bundle!NoState \in States /\ Bundle!NoBackup \in Backups /\ Bundle!Idle \in Operations
    /\ Sets \cup {Bundle!Bare} \subseteq Contents
<1>1. Bundle!Absent \in [m : Contents, u : Nat] /\ Sets \cup {Bundle!Bare} \subseteq Contents
  BY DEF Bundle!Absent, Contents
<1>2. Bundle!Nothing \in Files
  BY <1>1 DEF Bundle!Nothing, Files
<1>3. Bundle!NoState \in States
  BY PathFacts DEF Bundle!NoState, States
<1>4. Bundle!NoBackup \in Backups
  BY <1>1, <1>3 DEF Bundle!NoBackup, Backups, Files
<1>5. Bundle!Idle \in Operations
  BY <1>1, <1>2, PathFacts DEF Bundle!Idle, Operations
<1> QED
  BY <1>1, <1>2, <1>3, <1>4, <1>5

LEMMA IPlan ==
    ASSUME BInv, NEW v \in Sets, NEW update \in BOOLEAN, Bundle!Plan(v, update)
    PROVE  BInv'
<1>1. /\ op = Bundle!Idle /\ op.pc = "idle" /\ made < MaxOps
      /\ Bundle!Owned(state.set)
      /\ op' = [Bundle!Idle EXCEPT !.pc = "backup", !.kind = "apply", !.set = v, !.plan = files,
                          !.stub = (override = "absent")]
      /\ UNCHANGED <<files, override, state, backups, made, undone, Bundle!user, crashed>>
  <2>1. made + 1 <= MaxOps /\ made \in Nat /\ MaxOps \in Nat
    BY PathFacts DEF BInv, BType, Bundle!Plan, Bundle!NextTx
  <2> QED
    BY <2>1 DEF Bundle!Plan, Bundle!Idle, Bundle!NoState
<1>2. op' \in Operations
  BY <1>1, Types DEF Operations, BInv, BType
<1>3. /\ op'.pc = "backup" /\ op'.kind = "apply" /\ op'.plan = files
      /\ ~op'.attempted /\ ~op'.unread /\ ~op'.recovering /\ op'.written = {} /\ op'.i = 1
  BY <1>1 DEF Bundle!Idle
<1>4. BType'
  BY <1>1, <1>2 DEF BInv, BType, Bundle!user
<1>5. PlaceInv'
  BY <1>1, <1>3 DEF BInv, PlaceInv, Applying, Copied
<1>6. StateInv'
  BY <1>1, <1>3 DEF BInv, StateInv, Applying, Copied, Bundle!Loadable
<1>7. PlanInv'
  BY <1>1, <1>3
  DEF BInv, BType, PlanInv, Applying, Later, Bundle!Owned, Bundle!Managed, Files
<1>8. WordsInv'
  BY <1>1, <1>3 DEF BInv, WordsInv, Bundle!user
<1>9. RaceInv'
  BY <1>1, <1>3 DEF BInv, RaceInv, Bundle!user, Applying, Copied
<1>10. WroteInv'
  BY <1>1, <1>3 DEF BInv, WroteInv, Applying
<1>11. CleanInv'
  BY <1>1, <1>3
  DEF BInv, CleanInv, Bundle!user, Applying, Copied, Bundle!Owned, Bundle!Managed
<1> QED
  BY <1>4, <1>5, <1>6, <1>7, <1>8, <1>9, <1>10, <1>11 DEF BInv

LEMMA IStartRollback ==
    ASSUME BInv, Bundle!StartRollback
    PROVE  BInv'
<1>1. /\ op = Bundle!Idle /\ op.pc = "idle" /\ made < MaxOps
      /\ Bundle!Owned(state.set) /\ Bundle!Loadable(state.tx)
      /\ op' = [Bundle!Idle EXCEPT !.pc = "backup", !.kind = "rollback", !.from = state.tx]
      /\ UNCHANGED <<files, override, state, backups, made, undone, Bundle!user, crashed>>
  <2>1. made + 1 <= MaxOps /\ made \in Nat /\ MaxOps \in Nat
    BY PathFacts DEF BInv, BType, Bundle!StartRollback, Bundle!NextTx
  <2>2. Bundle!Owned(state.set)
    BY DEF Bundle!StartRollback, Bundle!Status
  <2> QED
    BY <2>1, <2>2 DEF Bundle!StartRollback, Bundle!Idle
<1>2. op' \in Operations
  BY <1>1, Types DEF Operations, BInv, BType, States
<1>3. /\ op'.pc = "backup" /\ op'.kind = "rollback" /\ op'.from = state.tx
      /\ ~op'.attempted /\ ~op'.unread /\ ~op'.recovering /\ op'.written = {} /\ op'.i = 1
  BY <1>1 DEF Bundle!Idle
<1>4. BType'
  BY <1>1, <1>2 DEF BInv, BType, Bundle!user
<1>5. PlaceInv'
  BY <1>1, <1>3 DEF BInv, PlaceInv, Applying, Copied
<1>6. StateInv'
  BY <1>1, <1>3 DEF BInv, StateInv, Applying, Copied, Bundle!Loadable
<1>7. PlanInv'
  BY <1>1, <1>3 DEF BInv, PlanInv, Applying
<1>8. WordsInv'
  BY <1>1, <1>3 DEF BInv, WordsInv, Bundle!user
<1>9. RaceInv'
  BY <1>1, <1>3 DEF BInv, RaceInv, Bundle!user, Applying, Copied
<1>10. WroteInv'
  BY <1>1, <1>3 DEF BInv, WroteInv, Applying
<1>11. CleanInv'
  BY <1>1, <1>3
  DEF BInv, CleanInv, Bundle!user, Applying, Copied, Bundle!Owned, Bundle!Managed
<1> QED
  BY <1>4, <1>5, <1>6, <1>7, <1>8, <1>9, <1>10, <1>11 DEF BInv

\* What holds whether an operation runs or not, and when none does.
RestInv ==
    /\ BType
    /\ state.tx <= made
    /\ \A tx \in Bundle!Txs : backups[tx].state.tx <= made
    /\ state.tx \notin {0} \cup undone => Bundle!Loadable(state.tx)
    /\ WordsInv
    /\ ~raced => \A p \in Bundle!Paths : files[p].u = words[p]
    /\ ~tampered /\ ~crashed /\ result \notin {"broken", "unread"} => Bundle!Owned(state.set)

LEMMA IEnds ==
    ASSUME RestInv', op' = Bundle!Idle
    PROVE  BInv'
<1>1. /\ op'.pc = "idle" /\ op'.kind = "none"
  BY DEF Bundle!Idle
<1>2. PlaceInv' /\ StateInv' /\ PlanInv'
  BY <1>1 DEF RestInv, PlaceInv, StateInv, PlanInv, Applying, Copied
<1>3. RaceInv' /\ WroteInv'
  BY <1>1 DEF RestInv, RaceInv, WroteInv, Applying, Copied
<1>4. CleanInv'
  BY <1>1 DEF RestInv, CleanInv, Applying, Copied
<1> QED
  BY <1>2, <1>3, <1>4 DEF RestInv, BInv

\* The backups but the newest stay as they are.
LEMMA IBackup ==
    ASSUME BInv, Bundle!Backup
    PROVE  BInv'
<1>0. made \in Nat /\ made + 1 \in Bundle!Txs
  BY PathFacts DEF Bundle!Backup, BInv, BType, PlaceInv
<1>. PICK tx \in Bundle!Txs : tx = made + 1
  BY <1>0
<1>1. /\ op.pc = "backup" /\ made' = tx /\ tx \in Bundle!Txs /\ made \in Nat /\ tx \notin 0 .. made
      /\ op.kind \in {"apply", "rollback"}
      /\ UNCHANGED <<files, override, state, undone, Bundle!user, crashed>>
  BY <1>0 DEF Bundle!Backup, Bundle!NextTx, BInv, PlaceInv
<1>2. Bundle!Copy \in Backups /\ [Bundle!Copy EXCEPT !.manifest = FALSE] \in Backups
  BY DEF Bundle!Copy, Backups, BInv, BType
<1>3. ASSUME NEW x \in Backups, backups' = [backups EXCEPT ![tx] = x]
      PROVE  /\ backups' \in [Bundle!Txs -> Backups] /\ backups'[tx] = x
             /\ \A t \in Bundle!Txs \ {tx} : backups'[t] = backups[t]
             /\ \A t \in 0 .. made : Bundle!Loadable(t) => Bundle!Loadable(t)'
  <2>1. backups \in [Bundle!Txs -> Backups]
    BY DEF BInv, BType
  <2>2. /\ backups' \in [Bundle!Txs -> Backups] /\ backups'[tx] = x
        /\ \A t \in Bundle!Txs \ {tx} : backups'[t] = backups[t]
    BY <1>3, <2>1, <1>1
  <2> QED
    BY <2>2, <1>1 DEF Bundle!Loadable
<1>4. CASE /\ backups' = [backups EXCEPT ![tx] = Bundle!Copy]
           /\ op' = [op EXCEPT !.pc = IF op.kind = "apply" THEN "check" ELSE "restore",
                               !.expected = files, !.todo = Bundle!Paths]
  <2>1. op' \in Operations
    BY <1>4 DEF BInv, BType, Operations, Applying
  <2>2. /\ op'.pc = IF op.kind = "apply" THEN "check" ELSE "restore"
        /\ op'.kind = op.kind /\ op'.plan = op.plan /\ op'.todo = Bundle!Paths
        /\ op'.from = op.from /\ op'.recovering = op.recovering /\ op'.i = op.i
        /\ op'.written = op.written /\ op'.unread = op.unread /\ op'.wrote = op.wrote
        /\ op'.attempted = op.attempted
    BY <1>4 DEF BInv, BType, Operations
  <2>3. /\ Own'.manifest /\ Own'.intact /\ Own'.files = files /\ Own'.state = state
    BY <1>2, <1>3, <1>4, <1>1 DEF Own, Bundle!Copy
  <2>4. /\ backups' \in [Bundle!Txs -> Backups]
        /\ \A t \in Bundle!Txs \ {tx} : backups'[t] = backups[t]
        /\ \A t \in 0 .. made : Bundle!Loadable(t) => Bundle!Loadable(t)'
        /\ backups'[tx] = Bundle!Copy
    BY <1>2, <1>3, <1>4
  <2>5. state.tx \in 0 .. made
    BY <1>1 DEF BInv, StateInv, BType, States
  <2>6. BType'
    BY <1>1, <2>1, <2>4, PathFacts DEF BInv, BType, Bundle!user
  <2>7. PlaceInv'
    BY <1>1, <2>2, <2>3 DEF BInv, PlaceInv, Applying, Copied
  <2>8. StateInv'
    <3>1. \A t \in Bundle!Txs : (backups[t].state.tx <= made)'
      <4>1. \A t \in Bundle!Txs \ {tx} : (backups[t].state.tx <= made)'
        <5> SUFFICES ASSUME NEW t \in Bundle!Txs \ {tx} PROVE (backups[t].state.tx <= made)'
          OBVIOUS
        <5>1. backups[t].state.tx <= made
          BY DEF BInv, StateInv
        <5>2. backups[t].state.tx \in Nat
          BY PathFacts DEF BInv, BType, Backups, States
        <5> QED
          BY <5>1, <5>2, <2>4, <1>1
      <4>2. (backups[tx].state.tx <= made)'
        BY <2>4, <1>1, <2>5 DEF Bundle!Copy
      <4> QED
        BY <4>1, <4>2
    <3>2. op.kind = "rollback" => Bundle!Loadable(op.from)'
      BY <1>1, <2>2, <2>4, <2>5 DEF BInv, StateInv
    <3>3. state.tx \notin {0} \cup undone => Bundle!Loadable(state.tx)'
      BY <1>1, <2>4, <2>5 DEF BInv, StateInv
    <3>4. ~op.attempted
      BY <1>1 DEF BInv, WroteInv
    <3> QED
      BY <1>1, <2>2, <2>3, <2>5, <3>1, <3>2, <3>3, <3>4 DEF BInv, StateInv, Applying, Copied
  <2>9. PlanInv'
    BY <1>1, <2>2, <2>3, PathFacts
    DEF BInv, BType, WroteInv, PlanInv, Applying, Passed, Later, Files
  <2>10. WordsInv'
    BY <1>1, <1>3, <2>2, <2>4 DEF BInv, WordsInv, Bundle!user, Bundle!Copy
  <2>11. RaceInv'
    BY <1>1, <2>2, <2>3 DEF BInv, WroteInv, RaceInv, Bundle!user, Applying, Copied
  <2>12. WroteInv'
    BY <1>1, <2>2 DEF BInv, WroteInv, Applying
  <2>13. CleanInv'
    BY <1>1, <2>2, <2>3
    DEF BInv, CleanInv, Bundle!user, Applying, Copied, Bundle!Owned, Bundle!Managed
  <2> QED
    BY <2>6, <2>7, <2>8, <2>9, <2>10, <2>11, <2>12, <2>13 DEF BInv
<1>5. CASE /\ Bundle!Ends("failed")
           /\ \E z \in {Bundle!Copy, [Bundle!Copy EXCEPT !.manifest = FALSE]} :
                  backups' = [backups EXCEPT ![tx] = z]
  <2>1. PICK z \in {Bundle!Copy, [Bundle!Copy EXCEPT !.manifest = FALSE]} :
               backups' = [backups EXCEPT ![tx] = z]
    BY <1>5
  <2>2. z \in Backups /\ z.state = state /\ z.files = files
    <3>1. CASE z = Bundle!Copy
      BY <1>2, <3>1 DEF Bundle!Copy
    <3>2. CASE z = [Bundle!Copy EXCEPT !.manifest = FALSE]
      BY <1>2, <3>2 DEF Bundle!Copy
    <3> QED
      BY <2>1, <3>1, <3>2
  <2>3. /\ backups' \in [Bundle!Txs -> Backups] /\ backups'[tx] = z
        /\ \A t \in Bundle!Txs \ {tx} : backups'[t] = backups[t]
        /\ \A t \in 0 .. made : Bundle!Loadable(t) => Bundle!Loadable(t)'
    BY <1>3, <2>1, <2>2
  <2>4. state.tx \in 0 .. made
    BY <1>1 DEF BInv, StateInv, BType, States
  <2>5. op' = Bundle!Idle /\ result' = "failed"
    BY <1>5 DEF Bundle!Ends
  <2>6. BType'
    BY <1>1, <2>3, <2>5, Types, PathFacts DEF BInv, BType, Bundle!user
  <2>7. \A t \in Bundle!Txs : (backups[t].state.tx <= made)'
    <3> SUFFICES ASSUME NEW t \in Bundle!Txs PROVE (backups[t].state.tx <= made)'
      OBVIOUS
    <3>1. backups[t].state.tx <= made
      BY DEF BInv, StateInv
    <3>2. backups[t].state.tx \in Nat
      BY PathFacts DEF BInv, BType, Backups, States
    <3> QED
      BY <3>1, <3>2, <2>2, <2>3, <2>4, <1>1
  <2>8. state.tx \notin {0} \cup undone => Bundle!Loadable(state.tx)'
    BY <1>1, <2>3, <2>4 DEF BInv, StateInv
  <2>9. WordsInv'
    BY <1>1, <2>2, <2>3, <2>5 DEF BInv, WordsInv, Bundle!user, Bundle!Idle
  <2>10. (~raced => \A p \in Bundle!Paths : files[p].u = words[p])'
    BY <1>1 DEF BInv, RaceInv, Bundle!user
  <2>11. (~tampered /\ ~crashed => Bundle!Owned(state.set))'
    BY <1>1 DEF BInv, CleanInv, Bundle!user, Bundle!Owned, Bundle!Managed
  <2>12. RestInv'
    BY <1>1, <2>4, <2>6, <2>7, <2>8, <2>9, <2>10, <2>11 DEF RestInv
  <2> QED
    BY <2>5, <2>12, IEnds
<1> QED
  BY <1>0, <1>4, <1>5 DEF Bundle!Backup, Bundle!NextTx

\* An install that meets what it did not expect turns to its recovery.
LEMMA IGivesUp ==
    ASSUME BInv, op.pc \in Applying \ {"record"}, op' = [op EXCEPT !.pc = "recover"],
           UNCHANGED <<files, override, state, backups, made, undone, Bundle!user, crashed>>
    PROVE  BInv'
<1>1. op' \in Operations
  BY DEF BInv, BType, Operations
<1>2. /\ op'.pc = "recover" /\ op'.kind = op.kind /\ op'.from = op.from
      /\ op'.recovering = op.recovering /\ op'.written = op.written /\ op'.post = op.post
      /\ op'.unread = op.unread /\ op'.wrote = op.wrote /\ op'.attempted = op.attempted
  BY DEF BInv, BType, Operations
<1>3. Own' = Own
  BY DEF Own
<1>4. BType'
  BY <1>1 DEF BInv, BType, Bundle!user
<1>5. PlaceInv'
  BY <1>2, <1>3 DEF BInv, PlaceInv, Applying, Copied
<1>6. StateInv'
  BY <1>2, <1>3 DEF BInv, PlaceInv, StateInv, Applying, Copied, Bundle!Loadable
<1>7. PlanInv'
  BY <1>2 DEF PlanInv, Applying
<1>8. WordsInv'
  BY <1>2 DEF BInv, WordsInv, Bundle!user
<1>9. RaceInv'
  BY <1>2, <1>3 DEF BInv, PlaceInv, RaceInv, Bundle!user, Applying, Copied
<1>10. WroteInv'
  BY <1>2 DEF BInv, WroteInv, Applying
<1>11. CleanInv'
  <2> SUFFICES ASSUME ~tampered, ~crashed PROVE CleanInv'
    BY DEF CleanInv, Bundle!user
  <2>1. \A p \in Bundle!Paths \ op.written : files[p].m = Own.state.set
    BY DEF BInv, CleanInv, WroteInv, Applying
  <2>2. ~op.wrote => op.written = {}
    BY DEF BInv, WroteInv, Applying
  <2>3. state = Own.state
    BY DEF BInv, StateInv, WroteInv, PlaceInv, Applying, Copied
  <2>4. ~op.wrote => Bundle!Owned(state.set)
    BY <2>1, <2>2, <2>3 DEF Bundle!Owned, Bundle!Managed
  <2>5. \A p \in Bundle!Paths : Own.files[p].m = Own.state.set
    BY DEF BInv, CleanInv, Applying, Copied
  <2> QED
    BY <1>2, <1>3, <2>1, <2>4, <2>5 DEF CleanInv, Applying, Bundle!Owned, Bundle!Managed
<1> QED
  BY <1>4, <1>5, <1>6, <1>7, <1>8, <1>9, <1>10, <1>11 DEF BInv

LEMMA ICheck ==
    ASSUME BInv, Bundle!Check
    PROVE  BInv'
<1>1. /\ op.pc = "check" /\ op.i \in Bundle!Paths
      /\ UNCHANGED <<files, override, state, backups, made, undone, Bundle!user, crashed>>
  BY DEF Bundle!Check, BInv, BType, Operations
<1>2. CASE files[op.i] # op.plan[op.i]
  BY <1>1, <1>2, IGivesUp DEF Bundle!Check, Bundle!Goto, Applying
<1>3. CASE files[op.i] = op.plan[op.i]
  <2> DEFINE same == files[op.i] = Bundle!Merged(op.i, files[op.i], op.set)
  <2>1. op' = [op EXCEPT
                 !.current = files[op.i],
                 !.pc = IF ~same THEN "write"
                        ELSE IF op.i < Len(Kind) THEN "check" ELSE "stub",
                 !.i = IF same /\ op.i < Len(Kind) THEN @ + 1 ELSE @]
    BY <1>3 DEF Bundle!Check
  <2>2. files[op.i] \in [m : Contents, u : Nat]
    BY <1>1 DEF BInv, BType, Files
  <2>3. op.i < Len(Kind) => op.i + 1 \in Bundle!Paths
    BY <1>1, PathFacts
  <2>4. op' \in Operations
    BY <2>1, <2>2, <2>3 DEF BInv, BType, Operations, Applying
  <2>5. /\ op'.current = files[op.i]
        /\ op'.pc = IF ~same THEN "write"
                    ELSE IF op.i < Len(Kind) THEN "check" ELSE "stub"
        /\ op'.i = IF same /\ op.i < Len(Kind) THEN op.i + 1 ELSE op.i
        /\ op'.kind = op.kind /\ op'.from = op.from /\ op'.plan = op.plan
        /\ op'.recovering = op.recovering /\ op'.written = op.written
        /\ op'.post = op.post /\ op'.set = op.set
        /\ op'.unread = op.unread /\ op'.wrote = op.wrote /\ op'.attempted = op.attempted
    BY <2>1 DEF BInv, BType, Operations
  <2> HIDE DEF same
  <2>6. op'.pc \in {"check", "write", "stub"}
    BY <2>5
  <2>7. Own' = Own
    BY <1>1 DEF Own
  <2>8. Own.files[op.i] = op.plan[op.i]
    <3>1. /\ Later(op.plan[op.i], Own.files[op.i]) /\ Later(Own.files[op.i], files[op.i])
      <4>1. ~Passed(op.i)
        BY <1>1, PathFacts DEF Passed
      <4> QED
        BY <1>1, <4>1 DEF BInv, PlanInv, Applying
    <3>2. /\ Own.files[op.i] \in [m : Contents, u : Nat]
          /\ files[op.i] \in [m : Contents, u : Nat]
      <4>1. made \in Bundle!Txs
        BY <1>1 DEF BInv, PlaceInv, Copied
      <4> QED
        BY <1>1, <4>1 DEF BInv, BType, Own, Files, Backups
    <3>3. /\ Own.files[op.i].u = files[op.i].u /\ Own.files[op.i].m = files[op.i].m
      BY <1>3, <3>1, <3>2, PathFacts DEF Later
    <3> QED
      BY <1>3, <3>2, <3>3
  <2>9. BType'
    BY <1>1, <2>4 DEF BInv, BType, Bundle!user
  <2>10. PlaceInv'
    BY <1>1, <2>5, <2>6, <2>7 DEF BInv, PlaceInv, Applying, Copied
  <2>11. StateInv'
    BY <1>1, <2>5, <2>6, <2>7
    DEF BInv, PlaceInv, StateInv, Applying, Copied, Bundle!Loadable
  <2>12. PlanInv'
    <3> SUFFICES ASSUME NEW p \in Bundle!Paths
                 PROVE  /\ op.plan[p].m = Own.state.set
                        /\ IF Passed(p)' THEN Own.files[p] = op.plan[p]
                           ELSE /\ Later(op.plan[p], Own.files[p])
                                /\ Later(Own.files[p], files[p])
      BY <1>1, <2>5, <2>6, <2>7 DEF PlanInv, Applying
    <3>1. /\ op.plan[p].m = Own.state.set
          /\ IF Passed(p) THEN Own.files[p] = op.plan[p]
             ELSE Later(op.plan[p], Own.files[p]) /\ Later(Own.files[p], files[p])
      BY <1>1 DEF BInv, PlanInv, Applying
    <3>2. Passed(p)' => Passed(p) \/ p = op.i
      BY <1>1, <2>5, PathFacts DEF Passed
    <3>3. Passed(p) => Passed(p)'
      BY <1>1, <2>5, PathFacts DEF Passed
    <3> QED
      BY <2>8, <3>1, <3>2, <3>3
  <2>13. WordsInv'
    BY <1>1, <2>5 DEF BInv, WordsInv, Bundle!user
  <2>14. RaceInv'
    BY <1>1, <1>3, <2>5, <2>6, <2>7, <2>8
    DEF BInv, PlaceInv, RaceInv, Bundle!user, Applying, Copied
  <2>15. WroteInv'
    BY <1>1, <2>5, <2>6 DEF BInv, WroteInv, Applying
  <2>16. CleanInv'
    BY <1>1, <2>5, <2>6, <2>7
    DEF BInv, WroteInv, CleanInv, Bundle!user, Applying, Copied
  <2> QED
    BY <2>9, <2>10, <2>11, <2>12, <2>13, <2>14, <2>15, <2>16 DEF BInv
<1> QED
  BY <1>2, <1>3

LEMMA IWrite ==
    ASSUME BInv, Bundle!Write
    PROVE  BInv'
<1> DEFINE new == Bundle!Merged(op.i, op.current, op.set)
<1>1. /\ op.pc = "write" /\ op.i \in Bundle!Paths
      /\ UNCHANGED <<override, state, backups, made, undone, Bundle!user, crashed>>
  BY DEF Bundle!Write, BInv, BType, Operations
<1>2. CASE UNCHANGED files /\ op' = [op EXCEPT !.pc = "recover"]
  BY <1>1, <1>2, IGivesUp DEF Applying
<1>3. ASSUME NEW r \in BOOLEAN,
             files' = [files EXCEPT ![op.i] = new],
             op' = [op EXCEPT !.pc = "record", !.wrote = TRUE, !.recovering = r]
      PROVE  BInv'
  <2>1. op' \in Operations
    BY <1>3 DEF BInv, BType, Operations, Applying
  <2>2. /\ op'.pc = "record" /\ op'.wrote /\ op'.i = op.i
        /\ op'.kind = op.kind /\ op'.from = op.from /\ op'.plan = op.plan
        /\ op'.written = op.written /\ op'.post = op.post
        /\ op'.unread = op.unread /\ op'.attempted = op.attempted
    BY <1>3 DEF BInv, BType, Operations
  <2>3. Own' = Own
    BY <1>1 DEF Own
  <2>4. /\ new \in [m : Contents, u : Nat]
        /\ new.u = IF Kind[op.i] = "file" THEN 0 ELSE op.current.u
    <3>1. op.set \in Contents /\ op.current \in [m : Contents, u : Nat]
      BY Types DEF BInv, BType, Operations
    <3>2. CASE Kind[op.i] = "file"
      BY <3>1, <3>2 DEF Bundle!Merged
    <3>3. CASE Kind[op.i] # "file"
      BY <3>1, <3>3 DEF Bundle!Merged
    <3> QED
      BY <3>2, <3>3
  <2> HIDE DEF new
  <2>5. /\ files' \in Files /\ files'[op.i] = new
        /\ \A p \in Bundle!Paths \ {op.i} : files'[p] = files[p]
    BY <1>1, <1>3, <2>4 DEF BInv, BType, Files
  <2>6. BType'
    BY <1>1, <2>1, <2>5 DEF BInv, BType, Bundle!user
  <2>7. PlaceInv'
    BY <1>1, <2>2, <2>3 DEF BInv, PlaceInv, Applying, Copied
  <2>8. StateInv'
    BY <1>1, <2>2, <2>3 DEF BInv, PlaceInv, StateInv, Applying, Copied, Bundle!Loadable
  <2>9. PlanInv'
    <3> SUFFICES ASSUME NEW p \in Bundle!Paths
                 PROVE  /\ op.plan[p].m = Own.state.set
                        /\ IF Passed(p)' THEN Own.files[p] = op.plan[p]
                           ELSE /\ Later(op.plan[p], Own.files[p])
                                /\ Later(Own.files[p], files'[p])
      BY <1>1, <2>2, <2>3 DEF PlanInv, Applying, Later
    <3>1. /\ op.plan[p].m = Own.state.set
          /\ IF Passed(p) THEN Own.files[p] = op.plan[p]
             ELSE Later(op.plan[p], Own.files[p]) /\ Later(Own.files[p], files[p])
      BY <1>1 DEF BInv, PlanInv, Applying
    <3>2. Passed(p)' <=> Passed(p)
      BY <1>1, <2>2 DEF Passed
    <3>3. ~Passed(p) => files'[p] = files[p]
      BY <1>1, <2>5 DEF Passed
    <3> QED
      BY <3>1, <3>2, <3>3
  <2>10. WordsInv'
    <3>1. \A p \in Bundle!Paths : files'[p].u <= words[p]
      <4> SUFFICES ASSUME NEW p \in Bundle!Paths PROVE files'[p].u <= words[p]
        OBVIOUS
      <4>1. CASE p # op.i
        BY <2>5, <4>1 DEF BInv, WordsInv
      <4>2. CASE p = op.i
        <5>1. words[p] >= 0
          BY DEF BInv, BType
        <5> QED
          BY <1>1, <2>4, <2>5, <4>2, <5>1 DEF BInv, WordsInv
      <4> QED
        BY <4>1, <4>2
    <3>2. \A p \in Bundle!Paths : Kind[p] = "file" => files'[p].u = 0
      BY <2>4, <2>5 DEF BInv, WordsInv
    <3> QED
      BY <1>1, <2>2, <3>1, <3>2 DEF BInv, WordsInv, Bundle!user
  <2>11. RaceInv'
    <3> SUFFICES ASSUME ~raced PROVE RaceInv'
      BY <1>1 DEF RaceInv, Bundle!user
    <3>1. \A p \in Bundle!Paths : files'[p].u = words[p]
      BY <1>1, <2>4, <2>5 DEF BInv, WordsInv, RaceInv
    <3> QED
      BY <1>1, <2>2, <2>3, <3>1 DEF BInv, PlaceInv, RaceInv, Bundle!user, Applying, Copied
  <2>12. WroteInv'
    BY <1>1, <2>2 DEF BInv, WroteInv, Applying
  <2>13. CleanInv'
    BY <1>1, <2>2, <2>3, <2>5 DEF BInv, CleanInv, Bundle!user, Applying, Copied
  <2> QED
    BY <2>6, <2>7, <2>8, <2>9, <2>10, <2>11, <2>12, <2>13 DEF BInv
<1>4. CASE /\ files' = [files EXCEPT ![op.i] = new]
           /\ op' = [op EXCEPT !.pc = "record", !.wrote = TRUE]
  <2>1. op' = [op EXCEPT !.pc = "record", !.wrote = TRUE, !.recovering = op.recovering]
    BY <1>4 DEF BInv, BType, Operations
  <2>2. op.recovering \in BOOLEAN
    BY DEF BInv, BType, Operations
  <2> QED
    BY <1>3, <1>4, <2>1, <2>2
<1> QED
  BY <1>2, <1>3, <1>4 DEF Bundle!Write

LEMMA IRecord ==
    ASSUME BInv, Bundle!Record
    PROVE  BInv'
<1>1. /\ op.pc = "record" /\ op.i \in Bundle!Paths /\ op.wrote
      /\ UNCHANGED <<files, override, state, backups, made, undone, Bundle!user, crashed>>
  BY DEF Bundle!Record, BInv, BType, Operations, WroteInv
<1>2. Own' = Own
  BY <1>1 DEF Own
<1>3. CASE op' = [op EXCEPT
                    !.written = @ \cup {op.i},
                    !.post = [@ EXCEPT ![op.i] = files[op.i]],
                    !.pc = IF op.recovering THEN "recover"
                           ELSE IF op.i < Len(Kind) THEN "check" ELSE "stub",
                    !.recovering = FALSE,
                    !.i = IF op.i < Len(Kind) THEN @ + 1 ELSE @]
  <2>1. op.i < Len(Kind) => op.i + 1 \in Bundle!Paths
    BY <1>1, PathFacts
  <2>2. op' \in Operations
    <3>1. [op.post EXCEPT ![op.i] = files[op.i]] \in Files
      BY <1>1 DEF BInv, BType, Operations, Files
    <3> QED
      BY <1>1, <1>3, <2>1, <3>1 DEF BInv, BType, Operations, Applying
  <2>3. /\ op'.written = op.written \cup {op.i}
        /\ op'.post[op.i] = files[op.i]
        /\ \A p \in Bundle!Paths \ {op.i} : op'.post[p] = op.post[p]
        /\ op'.pc = IF op.recovering THEN "recover"
                    ELSE IF op.i < Len(Kind) THEN "check" ELSE "stub"
        /\ op'.i = IF op.i < Len(Kind) THEN op.i + 1 ELSE op.i
        /\ op'.kind = op.kind /\ op'.from = op.from /\ op'.plan = op.plan
        /\ op'.unread = op.unread /\ op'.wrote = op.wrote /\ op'.attempted = op.attempted
    BY <1>1, <1>3 DEF BInv, BType, Operations, Files
  <2>4. op'.pc \in {"check", "stub", "recover"}
    BY <2>3
  <2>5. BType'
    BY <1>1, <2>2 DEF BInv, BType, Bundle!user
  <2>6. PlaceInv'
    BY <1>1, <1>2, <2>3, <2>4 DEF BInv, PlaceInv, Applying, Copied
  <2>7. StateInv'
    BY <1>1, <1>2, <2>3, <2>4
    DEF BInv, PlaceInv, StateInv, Applying, Copied, Bundle!Loadable
  <2>8. PlanInv'
    <3> SUFFICES ASSUME NEW p \in Bundle!Paths, op'.pc # "recover"
                 PROVE  /\ op.plan[p].m = Own.state.set
                        /\ IF Passed(p)' THEN Own.files[p] = op.plan[p]
                           ELSE /\ Later(op.plan[p], Own.files[p])
                                /\ Later(Own.files[p], files[p])
      BY <1>1, <1>2, <2>3, <2>4 DEF PlanInv, Applying, Later
    <3>1. /\ op.plan[p].m = Own.state.set
          /\ IF Passed(p) THEN Own.files[p] = op.plan[p]
             ELSE Later(op.plan[p], Own.files[p]) /\ Later(Own.files[p], files[p])
      BY <1>1 DEF BInv, PlanInv, Applying
    <3>2. Passed(p)' <=> Passed(p)
      BY <1>1, <2>3, PathFacts DEF Passed
    <3> QED
      BY <3>1, <3>2
  <2>9. WordsInv'
    BY <1>1, <2>4 DEF BInv, WordsInv, Bundle!user
  <2>10. RaceInv'
    <3> SUFFICES ASSUME ~raced PROVE RaceInv'
      BY <1>1 DEF RaceInv, Bundle!user
    <3>1. \A p \in op'.written : op'.post[p].u = Own.files[p].u
      <4> SUFFICES ASSUME NEW p \in op'.written PROVE op'.post[p].u = Own.files[p].u
        OBVIOUS
      <4>1. p \in Bundle!Paths
        BY <2>2 DEF Operations
      <4>2. CASE p = op.i
        BY <1>1, <2>3, <4>2 DEF BInv, RaceInv
      <4>3. CASE p # op.i
        BY <1>1, <2>3, <4>1, <4>3 DEF BInv, RaceInv, Applying
      <4> QED
        BY <4>2, <4>3
    <3> QED
      BY <1>1, <1>2, <2>3, <2>4, <3>1
      DEF BInv, PlaceInv, RaceInv, Bundle!user, Applying, Copied
  <2>11. WroteInv'
    BY <1>1, <2>3, <2>4 DEF BInv, WroteInv, PlaceInv, Applying
  <2>12. CleanInv'
    BY <1>1, <1>2, <2>3, <2>4 DEF BInv, WroteInv, CleanInv, Bundle!user, Applying, Copied
  <2> QED
    BY <2>5, <2>6, <2>7, <2>8, <2>9, <2>10, <2>11, <2>12 DEF BInv
<1>4. CASE op' = [op EXCEPT !.pc = "recover", !.unread = TRUE, !.recovering = FALSE]
  <2>1. op' \in Operations
    BY <1>4 DEF BInv, BType, Operations
  <2>2. /\ op'.pc = "recover" /\ op'.kind = op.kind /\ op'.from = op.from
        /\ op'.written = op.written /\ op'.post = op.post
        /\ op'.unread /\ op'.wrote = op.wrote /\ op'.attempted = op.attempted
    BY <1>4 DEF BInv, BType, Operations
  <2>3. BType'
    BY <1>1, <2>1 DEF BInv, BType, Bundle!user
  <2>4. PlaceInv'
    BY <1>1, <1>2, <2>2 DEF BInv, PlaceInv, Applying, Copied
  <2>5. StateInv'
    BY <1>1, <1>2, <2>2 DEF BInv, PlaceInv, StateInv, Applying, Copied, Bundle!Loadable
  <2>6. PlanInv'
    BY <2>2 DEF PlanInv, Applying
  <2>7. WordsInv'
    BY <1>1, <2>2 DEF BInv, WordsInv, Bundle!user
  <2>8. RaceInv'
    BY <1>1, <1>2, <2>2 DEF BInv, PlaceInv, RaceInv, Bundle!user, Applying, Copied
  <2>9. WroteInv'
    BY <1>1, <2>2 DEF BInv, WroteInv, PlaceInv, Applying
  <2>10. CleanInv'
    BY <1>1, <1>2, <2>2 DEF BInv, WroteInv, CleanInv, Bundle!user, Applying, Copied
  <2> QED
    BY <2>3, <2>4, <2>5, <2>6, <2>7, <2>8, <2>9, <2>10 DEF BInv
<1> QED
  BY <1>3, <1>4 DEF Bundle!Record

LEMMA IStub ==
    ASSUME BInv, Bundle!Stub
    PROVE  BInv'
<1>1. /\ op.pc = "stub"
      /\ UNCHANGED <<files, state, backups, made, undone, Bundle!user, crashed>>
  BY DEF Bundle!Stub
<1>2. CASE UNCHANGED override /\ op' = [op EXCEPT !.pc = "recover"]
  BY <1>1, <1>2, IGivesUp DEF Applying
<1>3. ASSUME NEW s \in BOOLEAN, NEW w \in BOOLEAN, op.wrote => w,
             op' = [op EXCEPT !.pc = "final", !.stubbed = s, !.wrote = w],
             override' # override => override = "absent"
      PROVE  BInv'
  <2>1. op' \in Operations
    BY <1>3 DEF BInv, BType, Operations, Applying
  <2>2. /\ op'.pc = "final" /\ op'.wrote = w /\ op'.i = op.i
        /\ op'.kind = op.kind /\ op'.from = op.from /\ op'.plan = op.plan
        /\ op'.written = op.written /\ op'.post = op.post
        /\ op'.unread = op.unread /\ op'.attempted = op.attempted
    BY <1>3 DEF BInv, BType, Operations
  <2>3. Own' = Own
    BY <1>1 DEF Own
  <2>4. BType'
    BY <1>1, <2>1 DEF BInv, BType, Bundle!user
  <2>5. PlaceInv'
    BY <1>1, <2>2, <2>3 DEF BInv, PlaceInv, Applying, Copied
  <2>6. StateInv'
    BY <1>1, <2>2, <2>3 DEF BInv, PlaceInv, StateInv, Applying, Copied, Bundle!Loadable
  <2>7. PlanInv'
    BY <1>1, <2>2, <2>3 DEF BInv, PlanInv, Applying, Passed, Later
  <2>8. WordsInv'
    BY <1>1, <1>3, <2>2 DEF BInv, WordsInv, Bundle!user
  <2>9. RaceInv'
    BY <1>1, <2>2, <2>3 DEF BInv, PlaceInv, RaceInv, Bundle!user, Applying, Copied
  <2>10. WroteInv'
    BY <1>1, <1>3, <2>2 DEF BInv, WroteInv, PlaceInv, Applying
  <2>11. CleanInv'
    BY <1>1, <2>2, <2>3 DEF BInv, WroteInv, CleanInv, Bundle!user, Applying, Copied
  <2> QED
    BY <2>4, <2>5, <2>6, <2>7, <2>8, <2>9, <2>10, <2>11 DEF BInv
<1>4. CASE UNCHANGED override /\ op' = [op EXCEPT !.pc = "final"]
  <2>1. op' = [op EXCEPT !.pc = "final", !.stubbed = op.stubbed, !.wrote = op.wrote]
    BY <1>4 DEF BInv, BType, Operations
  <2>2. op.stubbed \in BOOLEAN /\ op.wrote \in BOOLEAN
    BY DEF BInv, BType, Operations
  <2> QED
    BY <1>3, <1>4, <2>1, <2>2
<1>5. CASE /\ override = "absent"
           /\ op' = [op EXCEPT !.pc = "final", !.stubbed = TRUE, !.wrote = TRUE]
  BY <1>3, <1>5
<1> QED
  BY <1>2, <1>4, <1>5 DEF Bundle!Stub, Bundle!Goto

\* An install that reaches its state has compared every artifact with its plan,
\* so its backup is that of an installation.
LEMMA BackupFits ==
    ASSUME BInv, op.pc = "final"
    PROVE  Bundle!Loadable(made) /\ made \in Bundle!Txs
<1>1. made \in Bundle!Txs /\ Own.manifest /\ Own.intact
  BY DEF BInv, PlaceInv, Copied
<1>2. \A p \in Bundle!Paths : Own.files[p].m = Own.state.set
  BY DEF BInv, PlanInv, Passed, Applying
<1> QED
  BY <1>1, <1>2 DEF Bundle!Loadable, Own

LEMMA IWriteState ==
    ASSUME BInv, Bundle!WriteState
    PROVE  BInv'
<1> DEFINE new == [set |-> op.set, tx |-> made]
<1>1. /\ op.pc = "final"
      /\ UNCHANGED <<files, override, backups, made, undone, Bundle!user, crashed>>
      /\ op.kind = "apply" /\ ~op.unread /\ ~op.attempted
  BY DEF Bundle!WriteState, BInv, PlaceInv, WroteInv, StateInv, Applying
<1>2. CASE UNCHANGED state /\ op' = [op EXCEPT !.pc = "recover"]
  BY <1>1, <1>2, IGivesUp DEF Applying
<1>3. new \in States /\ made \in Nat \ {0} /\ new.tx = made /\ new.set = op.set
  BY <1>1, BackupFits, PathFacts DEF BInv, BType, Operations, States
<1>4. Own' = Own
  BY <1>1 DEF Own
<1>5. Bundle!Loadable(made) /\ Bundle!Loadable(made)'
  BY <1>1, BackupFits DEF Bundle!Loadable
<1> HIDE DEF new
<1>6. CASE /\ Bundle!Owned(op.set) /\ state' = new /\ op' = [op EXCEPT !.pc = "prune"]
  <2>1. op' \in Operations
    BY <1>6 DEF BInv, BType, Operations
  <2>2. /\ op'.pc = "prune" /\ op'.kind = op.kind /\ op'.from = op.from
        /\ op'.unread = op.unread /\ op'.attempted = op.attempted
    BY <1>6 DEF BInv, BType, Operations
  <2>3. BType'
    BY <1>1, <1>3, <1>6, <2>1 DEF BInv, BType, Bundle!user
  <2>4. PlaceInv'
    BY <1>1, <1>4, <2>2 DEF BInv, PlaceInv, Applying, Copied
  <2>5. StateInv'
    <3>1. (state.tx \notin {0} \cup undone => Bundle!Loadable(state.tx))'
      BY <1>3, <1>5, <1>6, <1>1 DEF Bundle!Loadable
    <3>2. /\ Own.state.tx < made
          /\ Own.state.tx \notin {0} \cup undone => Bundle!Loadable(Own.state.tx)
      BY <1>1 DEF BInv, StateInv, Copied
    <3>3. (Own.state.tx \notin {0} \cup undone => Bundle!Loadable(Own.state.tx))'
      BY <1>1, <1>4, <3>2 DEF Bundle!Loadable
    <3>4. \A tx \in Bundle!Txs : backups[tx].state.tx <= made
      BY DEF BInv, StateInv
    <3> QED
      BY <1>1, <1>3, <1>4, <1>6, <2>2, <3>1, <3>2, <3>3, <3>4
      DEF StateInv, Applying, Copied
  <2>6. PlanInv'
    BY <2>2 DEF PlanInv, Applying
  <2>7. WordsInv'
    BY <1>1, <2>2 DEF BInv, WordsInv, Bundle!user
  <2>8. RaceInv'
    BY <1>1, <1>4, <2>2 DEF BInv, PlaceInv, RaceInv, Bundle!user, Applying, Copied
  <2>9. WroteInv'
    BY <1>1, <2>2 DEF BInv, WroteInv, PlaceInv, Applying
  <2>10. CleanInv'
    BY <1>1, <1>3, <1>4, <1>6, <2>2
    DEF BInv, CleanInv, Bundle!user, Applying, Copied, Bundle!Owned, Bundle!Managed
  <2> QED
    BY <2>3, <2>4, <2>5, <2>6, <2>7, <2>8, <2>9, <2>10 DEF BInv
<1>7. CASE /\ Bundle!Owned(op.set) /\ state' \in {state, new}
           /\ op' = [op EXCEPT !.pc = "recover", !.attempted = TRUE]
  <2>1. op' \in Operations
    BY <1>7 DEF BInv, BType, Operations
  <2>2. /\ op'.pc = "recover" /\ op'.kind = op.kind /\ op'.from = op.from
        /\ op'.written = op.written /\ op'.post = op.post /\ op'.wrote = op.wrote
        /\ op'.unread = op.unread /\ op'.attempted
    BY <1>7 DEF BInv, BType, Operations
  <2>3. BType'
    BY <1>1, <1>3, <1>7, <2>1 DEF BInv, BType, Bundle!user
  <2>4. PlaceInv'
    BY <1>1, <1>4, <2>2 DEF BInv, PlaceInv, Applying, Copied
  <2>5. StateInv'
    <3>1. (state.tx \notin {0} \cup undone => Bundle!Loadable(state.tx))'
      BY <1>3, <1>5, <1>7, <1>1 DEF BInv, StateInv, Bundle!Loadable
    <3>2. /\ Own.state.tx < made
          /\ Own.state.tx \notin {0} \cup undone => Bundle!Loadable(Own.state.tx)
      BY <1>1 DEF BInv, StateInv, Copied
    <3>3. (Own.state.tx \notin {0} \cup undone => Bundle!Loadable(Own.state.tx))'
      BY <1>1, <1>4, <3>2 DEF Bundle!Loadable
    <3>4. (\A tx \in Bundle!Txs : backups[tx].state.tx <= made) /\ state.tx <= made
      BY DEF BInv, StateInv
    <3> QED
      BY <1>1, <1>3, <1>4, <1>7, <2>2, <3>1, <3>2, <3>3, <3>4
      DEF StateInv, Applying, Copied
  <2>6. PlanInv'
    BY <2>2 DEF PlanInv, Applying
  <2>7. WordsInv'
    BY <1>1, <2>2 DEF BInv, WordsInv, Bundle!user
  <2>8. RaceInv'
    BY <1>1, <1>4, <2>2 DEF BInv, PlaceInv, RaceInv, Bundle!user, Applying, Copied
  <2>9. WroteInv'
    BY <1>1, <2>2 DEF BInv, WroteInv, PlaceInv, Applying
  <2>10. CleanInv'
    <3> SUFFICES ASSUME ~tampered, ~crashed PROVE CleanInv'
      BY <1>1 DEF CleanInv, Bundle!user
    <3>1. \A p \in Bundle!Paths \ op.written : files[p].m = Own.state.set
      BY <1>1 DEF BInv, CleanInv, WroteInv, Applying
    <3>2. ~op.wrote => op.written = {}
      BY <1>1 DEF BInv, WroteInv, Applying
    <3>3. state = Own.state
      BY <1>1 DEF BInv, StateInv, Copied
    <3>4. ~op.wrote => Bundle!Owned(state'.set)
      BY <1>3, <1>7, <3>1, <3>2, <3>3 DEF Bundle!Owned, Bundle!Managed
    <3>5. \A p \in Bundle!Paths : Own.files[p].m = Own.state.set
      BY <1>1 DEF BInv, CleanInv, Applying, Copied
    <3> QED
      BY <1>1, <1>4, <2>2, <3>1, <3>4, <3>5
      DEF CleanInv, Applying, Bundle!Owned, Bundle!Managed
  <2> QED
    BY <2>3, <2>4, <2>5, <2>6, <2>7, <2>8, <2>9, <2>10 DEF BInv
<1> QED
  BY <1>2, <1>6, <1>7 DEF Bundle!WriteState, Bundle!Goto, new

LEMMA IRecover ==
    ASSUME BInv, Bundle!Recover
    PROVE  BInv'
<1>1. /\ op.pc = "recover" /\ op.kind = "apply"
      /\ UNCHANGED <<files, state, backups, made, undone, Bundle!user, crashed>>
  BY DEF Bundle!Recover, BInv, PlaceInv
<1>2. CASE /\ UNCHANGED override
           /\ \/ ~op.wrote /\ Bundle!Ends("failed")
              \/ Bundle!Ends("broken")
  <2>1. op' = Bundle!Idle /\ (result' = "broken" \/ ~op.wrote)
    BY <1>2 DEF Bundle!Ends
  <2>2. BType'
    BY <1>1, <2>1, Types DEF BInv, BType, Bundle!user
  <2>3. WordsInv'
    BY <1>1, <1>2, <2>1 DEF BInv, WordsInv, Bundle!user, Bundle!Idle
  <2>4. (~tampered /\ ~crashed /\ result \notin {"broken", "unread"} => Bundle!Owned(state.set))'
    BY <1>1, <2>1 DEF BInv, CleanInv, Bundle!user, Bundle!Owned, Bundle!Managed
  <2>5. RestInv'
    BY <1>1, <2>2, <2>3, <2>4
    DEF BInv, RestInv, StateInv, RaceInv, Bundle!Loadable, Bundle!user
  <2> QED
    BY <2>1, <2>5, IEnds
<1>3. CASE /\ Bundle!Compared
           /\ override' = IF op.stubbed THEN "absent" ELSE override
           /\ op' = [op EXCEPT !.pc = "restore", !.expected = files,
                               !.todo = op.written, !.recovering = TRUE]
  <2>1. op' \in Operations
    BY <1>3 DEF BInv, BType, Operations
  <2>2. /\ op'.pc = "restore" /\ op'.kind = op.kind /\ op'.from = op.from
        /\ op'.todo = op.written /\ op'.recovering
        /\ op'.unread = op.unread /\ op'.attempted = op.attempted
    BY <1>3 DEF BInv, BType, Operations
  <2>3. Own' = Own
    BY <1>1 DEF Own
  <2>4. BType'
    BY <1>1, <2>1 DEF BInv, BType, Bundle!user
  <2>5. PlaceInv'
    BY <1>1, <2>2, <2>3 DEF BInv, PlaceInv, Applying, Copied
  <2>6. StateInv'
    BY <1>1, <2>2, <2>3 DEF BInv, StateInv, Applying, Copied, Bundle!Loadable
  <2>7. PlanInv'
    BY <2>2 DEF PlanInv, Applying
  <2>8. WordsInv'
    BY <1>1, <1>3, <2>2 DEF BInv, WordsInv, Bundle!Compared, Bundle!user
  <2>9. RaceInv'
    <3> SUFFICES ASSUME ~raced PROVE RaceInv'
      BY <1>1 DEF RaceInv, Bundle!user
    <3>1. \A p \in op.written : Own.files[p].u = words[p]
      <4>1. op.written \subseteq Bundle!Paths
        BY DEF BInv, BType, Operations
      <4> QED
        BY <1>1, <1>3, <4>1 DEF BInv, RaceInv, Bundle!Compared
    <3> QED
      BY <1>1, <2>2, <2>3, <3>1 DEF BInv, RaceInv, Bundle!user, Applying, Copied
  <2>10. WroteInv'
    BY <1>1, <2>2 DEF BInv, WroteInv, Applying
  <2>11. CleanInv'
    BY <1>1, <2>2, <2>3
    DEF BInv, CleanInv, Bundle!user, Applying, Copied, Bundle!Source, Bundle!Undoing, Own
  <2> QED
    BY <2>4, <2>5, <2>6, <2>7, <2>8, <2>9, <2>10, <2>11 DEF BInv
<1> QED
  BY <1>2, <1>3 DEF Bundle!Recover

\* A restoration that fails: nothing is lost, and what is not restored yet
\* cannot be told.
LEMMA IRestoreFails ==
    ASSUME BInv, op.pc = "restore", Bundle!RestoreFails,
           UNCHANGED <<override, backups, made, Bundle!user, crashed>>,
           files' \in Files, state' \in States, undone \subseteq undone',
           \A p \in Bundle!Paths : files'[p].u <= words[p] /\ (~raced => files'[p].u = words[p]),
           \A p \in Bundle!Paths : Kind[p] = "file" => files'[p].u = 0,
           state'.tx <= made, (state.tx \notin {0} \cup undone => Bundle!Loadable(state.tx))',
           op.kind = "rollback" \/ op.recovering
    PROVE  BInv'
<1>1. CASE op.recovering
  <2>1. op' = Bundle!Idle /\ result' = "broken"
    BY <1>1 DEF Bundle!RestoreFails, Bundle!Ends
  <2>2. BType'
    BY <2>1, Types DEF BInv, BType, Bundle!user
  <2>3. WordsInv'
    BY <2>1 DEF BInv, WordsInv, Bundle!user, Bundle!Idle
  <2>4. RestInv'
    BY <2>1, <2>2, <2>3 DEF BInv, RestInv, StateInv, Bundle!user
  <2> QED
    BY <2>1, <2>4, IEnds
<1>2. CASE ~op.recovering
  <2>1. op' = [op EXCEPT !.recovering = TRUE, !.expected = files, !.todo = Bundle!Paths]
    BY <1>2 DEF Bundle!RestoreFails
  <2>2. op' \in Operations
    BY <2>1 DEF BInv, BType, Operations
  <2>3. /\ op'.pc = "restore" /\ op'.kind = "rollback" /\ op.kind = "rollback"
        /\ op'.from = op.from /\ op'.todo = Bundle!Paths /\ op'.recovering
        /\ op'.unread = op.unread /\ op'.attempted = op.attempted
    BY <1>2, <2>1 DEF BInv, BType, Operations
  <2>4. Own' = Own
    BY DEF Own
  <2>5. BType'
    BY <2>2 DEF BInv, BType, Bundle!user
  <2>6. PlaceInv'
    BY <2>3, <2>4 DEF BInv, PlaceInv, Applying, Copied
  <2>7. StateInv'
    BY <2>3, <2>4 DEF BInv, StateInv, Applying, Copied, Bundle!Loadable
  <2>8. PlanInv'
    BY <2>3 DEF PlanInv, Applying
  <2>9. WordsInv'
    BY <2>3 DEF BInv, WordsInv, Bundle!user
  <2>10. RaceInv'
    BY <2>3, <2>4 DEF BInv, RaceInv, Bundle!user, Applying, Copied
  <2>11. WroteInv'
    BY <2>3 DEF BInv, WroteInv, Applying
  <2>12. CleanInv'
    BY <2>3, <2>4 DEF BInv, CleanInv, Bundle!user, Applying, Copied
  <2> QED
    BY <2>5, <2>6, <2>7, <2>8, <2>9, <2>10, <2>11, <2>12 DEF BInv
<1> QED
  BY <1>1, <1>2

\* A restored file has the managed content of the backup and the user's words.
LEMMA RestoredFile ==
    ASSUME BInv, op.pc = "restore", NEW p \in op.todo, NEW x,
           x = Bundle!Restored(p, files[p], backups[Bundle!Source].files[p], Bundle!Undoing)
    PROVE  /\ p \in Bundle!Paths /\ Bundle!Source \in Bundle!Txs
           /\ x \in [m : Contents, u : Nat] /\ x.m = backups[Bundle!Source].files[p].m
           /\ x.u <= words[p] /\ (Kind[p] = "file" => x.u = 0)
           /\ ~raced => x.u = words[p]
<1> DEFINE prior == backups[Bundle!Source].files[p]
<1>1. p \in Bundle!Paths /\ Bundle!Source \in Bundle!Txs
  BY DEF BInv, BType, Operations, PlaceInv, StateInv, Copied, Bundle!Loadable,
         Bundle!Source, Bundle!Undoing
<1>2. /\ prior \in [m : Contents, u : Nat] /\ prior.u <= words[p]
      /\ files[p] \in [m : Contents, u : Nat] /\ files[p].u <= words[p]
      /\ Kind[p] = "file" => prior.u = 0 /\ files[p].u = 0
      /\ words[p] \in Nat
  BY <1>1 DEF BInv, BType, Backups, Files, WordsInv
<1>3. ~raced => files[p].u = words[p] /\ (~Bundle!Undoing => prior.u = words[p])
  BY <1>1 DEF BInv, RaceInv, PlaceInv, Own, Bundle!Source, Bundle!Undoing, Copied
<1>4. /\ Bundle!Absent \in [m : Contents, u : Nat]
      /\ Bundle!Absent.m = Bundle!Bare /\ Bundle!Absent.u = 0
  BY Types DEF Bundle!Absent
<1>5. Kind[p] \in {"file", "shared"} /\ Bundle!Bare \in Contents
  BY <1>1, PathFacts, Types
<1> HIDE DEF prior
<1>6. x = IF prior # Bundle!Absent
          THEN IF Bundle!Undoing /\ files[p] # Bundle!Absent /\ Kind[p] = "shared"
               THEN [files[p] EXCEPT !.m = prior.m] ELSE prior
          ELSE IF Kind[p] = "file" THEN Bundle!Absent ELSE [files[p] EXCEPT !.m = Bundle!Bare]
  BY DEF Bundle!Restored, prior
<1>7. /\ x \in [m : Contents, u : Nat] /\ x.m = prior.m
      /\ x.u <= words[p] /\ (Kind[p] = "file" => x.u = 0)
      /\ ~raced => x.u = words[p]
  <2>1. CASE /\ prior # Bundle!Absent
             /\ Bundle!Undoing /\ files[p] # Bundle!Absent /\ Kind[p] = "shared"
    <3>1. x = [files[p] EXCEPT !.m = prior.m]
      BY <1>6, <2>1
    <3> QED
      BY <1>2, <1>3, <2>1, <3>1
  <2>2. CASE /\ prior # Bundle!Absent
             /\ ~(Bundle!Undoing /\ files[p] # Bundle!Absent /\ Kind[p] = "shared")
    <3>1. x = prior
      BY <1>6, <2>2
    <3>2. ~raced => prior.u = words[p]
      <4>1. CASE ~Bundle!Undoing
        BY <1>3, <4>1
      <4>2. CASE Kind[p] = "file"
        BY <1>2, <1>3, <4>2
      <4>3. CASE files[p] = Bundle!Absent
        BY <1>2, <1>3, <1>4, <4>3
      <4> QED
        BY <1>5, <2>2, <4>1, <4>2, <4>3
    <3> QED
      BY <1>2, <3>1, <3>2
  <2>3. CASE prior = Bundle!Absent /\ Kind[p] = "file"
    BY <1>2, <1>3, <1>4, <1>6, <2>3
  <2>4. CASE prior = Bundle!Absent /\ Kind[p] # "file"
    <3>1. x = [files[p] EXCEPT !.m = Bundle!Bare]
      BY <1>6, <2>4
    <3> QED
      BY <1>2, <1>3, <1>4, <1>5, <2>4, <3>1
  <2> QED
    BY <2>1, <2>2, <2>3, <2>4
<1> QED
  BY <1>1, <1>7 DEF prior

LEMMA IRestoreFile ==
    ASSUME BInv, Bundle!RestoreFile
    PROVE  BInv'
<1>1. /\ op.pc = "restore" /\ op.todo # {}
      /\ UNCHANGED <<override, state, backups, made, undone, Bundle!user, crashed>>
  BY DEF Bundle!RestoreFile
<1>2. PICK p \in op.todo : p = CHOOSE q \in op.todo : \A t \in op.todo : q <= t
  <2>1. \E q \in op.todo : \A t \in op.todo : q <= t
    <3>1. op.todo \in SUBSET Nat
      BY PathFacts DEF BInv, BType, Operations
    <3> HIDE DEF BInv
    <3> QED
      BY <1>1, <3>1, LeastNumber
  <2> QED
    BY <2>1
<1>3. PICK x : x = Bundle!Restored(p, files[p], backups[Bundle!Source].files[p], Bundle!Undoing)
  OBVIOUS
<1>4. /\ p \in Bundle!Paths /\ Bundle!Source \in Bundle!Txs
      /\ x \in [m : Contents, u : Nat] /\ x.m = backups[Bundle!Source].files[p].m
      /\ x.u <= words[p] /\ (Kind[p] = "file" => x.u = 0)
      /\ ~raced => x.u = words[p]
  BY <1>1, <1>3, RestoredFile
<1>5. \/ Bundle!RestoreFails /\ UNCHANGED files
      \/ files' = [files EXCEPT ![p] = x] /\ op' = [op EXCEPT !.todo = @ \ {p}]
      \/ files' \in {files, [files EXCEPT ![p] = x]} /\ Bundle!RestoreFails
  BY <1>2, <1>3 DEF Bundle!RestoreFile
<1>6. ASSUME files' \in {files, [files EXCEPT ![p] = x]}
      PROVE  /\ files' \in Files
             /\ \A q \in Bundle!Paths :
                   files'[q].u <= words[q] /\ (~raced => files'[q].u = words[q])
             /\ \A q \in Bundle!Paths : Kind[q] = "file" => files'[q].u = 0
  <2>1. files \in Files
    BY DEF BInv, BType
  <2>2. /\ \A q \in Bundle!Paths : files[q].u <= words[q] /\ (~raced => files[q].u = words[q])
        /\ \A q \in Bundle!Paths : Kind[q] = "file" => files[q].u = 0
    BY DEF BInv, WordsInv, RaceInv
  <2>3. CASE files' = files
    BY <2>1, <2>2, <2>3
  <2>4. CASE files' = [files EXCEPT ![p] = x]
    <3>1. /\ files' \in Files /\ files'[p] = x
          /\ \A q \in Bundle!Paths \ {p} : files'[q] = files[q]
      BY <1>4, <2>1, <2>4 DEF Files
    <3> QED
      BY <1>4, <2>2, <3>1
  <2> QED
    BY <1>6, <2>3, <2>4
<1>7. ASSUME Bundle!RestoreFails, files' \in {files, [files EXCEPT ![p] = x]}
      PROVE  BInv'
  <2>1. op.kind = "rollback" \/ op.recovering
    BY <1>1 DEF BInv, PlaceInv
  <2>2. /\ state' \in States /\ undone \subseteq undone' /\ state'.tx <= made
        /\ (state.tx \notin {0} \cup undone => Bundle!Loadable(state.tx))'
    BY <1>1 DEF BInv, BType, StateInv, Bundle!Loadable
  <2> QED
    BY <1>1, <1>6, <1>7, <2>1, <2>2, IRestoreFails
<1>8. CASE files' = [files EXCEPT ![p] = x] /\ op' = [op EXCEPT !.todo = @ \ {p}]
  <2>1. op' \in Operations
    BY <1>8 DEF BInv, BType, Operations
  <2>2. /\ op'.pc = "restore" /\ op'.kind = op.kind
        /\ op'.from = op.from /\ op'.todo = op.todo \ {p} /\ op'.recovering = op.recovering
        /\ op'.unread = op.unread /\ op'.attempted = op.attempted
    BY <1>1, <1>8 DEF BInv, BType, Operations
  <2>3. Own' = Own /\ Bundle!Source' = Bundle!Source
    BY <1>1, <2>2 DEF Own, Bundle!Source, Bundle!Undoing
  <2>4. /\ files' \in Files
        /\ \A q \in Bundle!Paths : files'[q].u <= words[q] /\ (~raced => files'[q].u = words[q])
        /\ \A q \in Bundle!Paths : Kind[q] = "file" => files'[q].u = 0
    BY <1>6, <1>8
  <2>5. files'[p] = x /\ \A q \in Bundle!Paths \ {p} : files'[q] = files[q]
    BY <1>4, <1>8 DEF BInv, BType, Files
  <2>6. BType'
    BY <1>1, <2>1, <2>4 DEF BInv, BType, Bundle!user
  <2>7. PlaceInv'
    BY <1>1, <2>2, <2>3 DEF BInv, PlaceInv, Applying, Copied
  <2>8. StateInv'
    BY <1>1, <2>2, <2>3 DEF BInv, StateInv, Applying, Copied, Bundle!Loadable
  <2>9. PlanInv'
    BY <2>2 DEF PlanInv, Applying
  <2>10. WordsInv'
    BY <1>1, <2>2, <2>4 DEF BInv, WordsInv, Bundle!user
  <2>11. RaceInv'
    BY <1>1, <2>2, <2>3, <2>4 DEF BInv, RaceInv, Bundle!user, Applying, Copied
  <2>12. WroteInv'
    BY <1>1, <2>2 DEF BInv, WroteInv, Applying
  <2>13. CleanInv'
    <3> SUFFICES ASSUME ~tampered, ~crashed PROVE CleanInv'
      BY <1>1 DEF CleanInv, Bundle!user
    <3>1. \A q \in Bundle!Paths : Own.files[q].m = Own.state.set
      BY <1>1 DEF BInv, CleanInv, Copied
    <3>2. x.m = backups[Bundle!Source].state.set
      <4>1. CASE Bundle!Undoing
        BY <1>1, <1>4, <4>1
        DEF BInv, StateInv, Bundle!Loadable, Bundle!Source, Bundle!Undoing
      <4>2. CASE ~Bundle!Undoing
        BY <1>4, <3>1, <4>2 DEF Own, Bundle!Source
      <4> QED
        BY <4>1, <4>2
    <3>3. ~op.unread => \A q \in Bundle!Paths \ op.todo :
                           files[q].m = backups[Bundle!Source].state.set
      BY <1>1 DEF BInv, CleanInv
    <3>4. ~op.unread => \A q \in Bundle!Paths \ op'.todo :
                           files'[q].m = backups'[Bundle!Source'].state.set
      BY <1>1, <2>2, <2>3, <2>5, <3>2, <3>3
    <3> QED
      BY <1>1, <2>2, <2>3, <3>1, <3>4 DEF CleanInv, Applying
  <2> QED
    BY <2>6, <2>7, <2>8, <2>9, <2>10, <2>11, <2>12, <2>13 DEF BInv
<1> QED
  BY <1>5, <1>7, <1>8

LEMMA IRestoreState ==
    ASSUME BInv, Bundle!RestoreState
    PROVE  BInv'
<1> DEFINE old == backups[Bundle!Source].state
<1>1. /\ op.pc = "restore" /\ op.todo = {} /\ op.kind \in {"apply", "rollback"}
      /\ UNCHANGED <<files, override, backups, made, Bundle!user, crashed>>
      /\ op.kind = "rollback" \/ op.recovering
  BY DEF Bundle!RestoreState, BInv, PlaceInv
<1>2. /\ Bundle!Source \in Bundle!Txs /\ old \in States /\ old.tx <= made
      /\ ~Bundle!Undoing => /\ old = Own.state
                     /\ (old.tx \notin {0} \cup undone => Bundle!Loadable(old.tx))
  <2>1. Bundle!Source \in Bundle!Txs
    BY <1>1
    DEF BInv, PlaceInv, StateInv, Copied, Bundle!Loadable, Bundle!Source, Bundle!Undoing
  <2>2. ~Bundle!Undoing => old = Own.state
    BY DEF Bundle!Source, Own
  <2>3. Own.state.tx \notin {0} \cup undone => Bundle!Loadable(Own.state.tx)
    BY <1>1 DEF BInv, StateInv, Copied
  <2> QED
    BY <2>1, <2>2, <2>3 DEF BInv, BType, Backups, StateInv
<1>3. ~tampered /\ ~crashed /\ ~op.unread => Bundle!Owned(old.set)
  BY <1>1 DEF BInv, CleanInv, Bundle!Owned, Bundle!Managed
<1> HIDE DEF old
<1>4. /\ op.kind = "apply" => Bundle!Failure \in {"unread", "failed"}
      /\ Bundle!Failure # "unread" => ~op.unread
  BY DEF Bundle!Failure
<1>5. ASSUME op' = Bundle!Idle, result' = Bundle!Failure, op.kind = "apply", undone' = undone,
             state' \in States, state'.tx <= made, state' = old,
             (state.tx \notin {0} \cup undone => Bundle!Loadable(state.tx))'
      PROVE  BInv'
  <2>1. BType'
    BY <1>1, <1>5, Types DEF BInv, BType, Bundle!user
  <2>2. WordsInv'
    BY <1>1, <1>5 DEF BInv, WordsInv, Bundle!user, Bundle!Idle
  <2>3. (~tampered /\ ~crashed /\ result \notin {"broken", "unread"} => Bundle!Owned(state.set))'
    BY <1>1, <1>3, <1>4, <1>5 DEF Bundle!user, Bundle!Owned, Bundle!Managed
  <2>4. RestInv'
    BY <1>1, <1>5, <2>1, <2>2, <2>3 DEF BInv, RestInv, StateInv, RaceInv, Bundle!user
  <2> QED
    BY <1>5, <2>4, IEnds
<1>6. CASE /\ op.kind = "apply" /\ ~op.attempted
           /\ Bundle!Ends(Bundle!Failure) /\ UNCHANGED <<state, undone>>
  <2>1. state = old
    BY <1>1, <1>2, <1>6 DEF BInv, StateInv, Copied, Bundle!Undoing
  <2> QED
    BY <1>1, <1>2, <1>5, <1>6, <2>1 DEF Bundle!Ends, BInv, BType, StateInv, Bundle!Loadable
<1>7. ASSUME undone' = IF Bundle!Undoing THEN undone \cup {old.tx} ELSE undone,
             state' \in {state, old}
      PROVE  /\ state' \in States /\ undone \subseteq undone' /\ state'.tx <= made
             /\ (state.tx \notin {0} \cup undone => Bundle!Loadable(state.tx))'
  <2>1. /\ state \in States /\ state.tx <= made
        /\ state.tx \notin {0} \cup undone => Bundle!Loadable(state.tx)
    BY DEF BInv, BType, StateInv
  <2>2. CASE state' = state
    BY <1>1, <1>7, <2>1, <2>2 DEF Bundle!Loadable
  <2>3. CASE state' = old
    BY <1>1, <1>2, <1>7, <2>3 DEF Bundle!Loadable
  <2> QED
    BY <1>7, <2>2, <2>3
<1>8. CASE /\ undone' = IF Bundle!Undoing THEN undone \cup {old.tx} ELSE undone
           /\ state' = old
           /\ op.kind = "apply" /\ Bundle!Ends(Bundle!Failure)
  <2>1. undone' = undone
    BY <1>8 DEF Bundle!Undoing
  <2> QED
    BY <1>5, <1>7, <1>8, <2>1 DEF Bundle!Ends
<1>9. CASE /\ undone' = IF Bundle!Undoing THEN undone \cup {old.tx} ELSE undone
           /\ state' = old
           /\ op.kind # "apply" /\ Bundle!Goto("prune")
  <2>1. op' = [op EXCEPT !.pc = "prune"] /\ op.kind = "rollback"
    BY <1>1, <1>9 DEF Bundle!Goto
  <2>2. op' \in Operations
    BY <2>1 DEF BInv, BType, Operations
  <2>3. /\ op'.pc = "prune" /\ op'.kind = "rollback"
        /\ op'.from = op.from /\ op'.recovering = op.recovering
        /\ op'.unread = op.unread /\ op'.attempted = op.attempted
    BY <2>1 DEF BInv, BType, Operations
  <2>4. Own' = Own
    BY <1>1 DEF Own
  <2>5. /\ state' \in States /\ undone \subseteq undone' /\ state'.tx <= made
        /\ (state.tx \notin {0} \cup undone => Bundle!Loadable(state.tx))'
    BY <1>7, <1>9
  <2>6. BType'
    BY <1>1, <2>2, <2>5 DEF BInv, BType, Bundle!user
  <2>7. PlaceInv'
    BY <1>1, <2>3, <2>4 DEF BInv, PlaceInv, Applying, Copied
  <2>8. StateInv'
    <3>1. IF op.recovering THEN state'.tx = op.from ELSE state'.tx \in undone'
      BY <1>1, <1>2, <1>9, <2>1 DEF BInv, StateInv, Copied, Bundle!Undoing
    <3> QED
      BY <1>1, <2>1, <2>3, <2>4, <2>5, <3>1
      DEF BInv, StateInv, Applying, Copied, Bundle!Loadable
  <2>9. PlanInv'
    BY <2>3 DEF PlanInv, Applying
  <2>10. WordsInv'
    BY <1>1, <2>3 DEF BInv, WordsInv, Bundle!user
  <2>11. RaceInv'
    BY <1>1, <2>1, <2>3, <2>4 DEF BInv, RaceInv, Bundle!user, Applying, Copied
  <2>12. WroteInv'
    BY <1>1, <2>1, <2>3 DEF BInv, WroteInv, Applying
  <2>13. CleanInv'
    <3>1. ~op.unread
      BY <2>1 DEF BInv, WroteInv
    <3>2. ~tampered /\ ~crashed => Bundle!Owned(state.set)'
      BY <1>1, <1>3, <1>9, <3>1 DEF Bundle!Owned, Bundle!Managed
    <3> QED
      BY <1>1, <2>3, <2>4, <3>2 DEF BInv, CleanInv, Bundle!user, Applying, Copied
  <2> QED
    BY <2>6, <2>7, <2>8, <2>9, <2>10, <2>11, <2>12, <2>13 DEF BInv
<1>10. CASE /\ undone' = IF Bundle!Undoing THEN undone \cup {old.tx} ELSE undone
            /\ state' \in {state, old} /\ Bundle!RestoreFails
  <2>1. /\ files' \in Files
        /\ \A p \in Bundle!Paths : files'[p].u <= words[p] /\ (~raced => files'[p].u = words[p])
        /\ \A p \in Bundle!Paths : Kind[p] = "file" => files'[p].u = 0
    BY <1>1 DEF BInv, BType, WordsInv, RaceInv
  <2> QED
    BY <1>1, <1>7, <1>10, <2>1, IRestoreFails
<1> QED
  BY <1>6, <1>8, <1>9, <1>10 DEF Bundle!RestoreState, old

\* What pruning is told to spare stays as it is.
LEMMA IRetain ==
    ASSUME BInv, Bundle!Retain
    PROVE  BInv'
<1> DEFINE cur == IF op.kind = "apply" THEN made
                  ELSE IF op.recovering THEN op.from
                  ELSE backups[op.from].state.tx
           r == IF op.kind = "rollback" /\ op.recovering THEN "failed" ELSE "done"
<1>1. /\ op.pc = "prune" /\ op.kind \in {"apply", "rollback"} /\ Bundle!Prune(cur, r)
  BY DEF Bundle!Retain, BInv, PlaceInv
<1>2. /\ UNCHANGED <<files, override, state, made, undone, Bundle!user, crashed>>
      /\ op' = Bundle!Idle
  BY <1>1 DEF Bundle!Prune, Bundle!Ends
<1>3. Bundle!Loadable(cur) => cur \notin Bundle!Pruned(cur)
  BY DEF Bundle!Loadable, Bundle!Pruned, Bundle!Complete
<1> HIDE DEF cur, r
<1>4. /\ DOMAIN backups' = Bundle!Txs
      /\ \A t \in Bundle!Txs : \/ backups'[t] \in {backups[t], Bundle!NoBackup}
                        \/ backups'[t] = [backups[t] EXCEPT !.intact = FALSE]
      /\ Bundle!Loadable(cur) => backups'[cur] = backups[cur]
  <2>1. CASE backups' = [tx \in Bundle!Txs |-> IF tx \in Bundle!Pruned(cur) THEN Bundle!NoBackup
                                        ELSE backups[tx]]
    BY <1>3, <2>1 DEF Bundle!Loadable
  <2>2. CASE \E gone \in SUBSET Bundle!Pruned(cur), half \in Bundle!Pruned(cur) :
                backups' = [tx \in Bundle!Txs |->
                    IF tx = half THEN [backups[tx] EXCEPT !.intact = FALSE]
                    ELSE IF tx \in gone THEN Bundle!NoBackup ELSE backups[tx]]
    <3>1. PICK gone \in SUBSET Bundle!Pruned(cur), half \in Bundle!Pruned(cur) :
                backups' = [tx \in Bundle!Txs |->
                    IF tx = half THEN [backups[tx] EXCEPT !.intact = FALSE]
                    ELSE IF tx \in gone THEN Bundle!NoBackup ELSE backups[tx]]
      BY <2>2
    <3>2. Bundle!Loadable(cur) => cur # half /\ cur \notin gone /\ cur \in Bundle!Txs
      BY <1>3 DEF Bundle!Loadable
    <3>3. ASSUME NEW t \in Bundle!Txs
          PROVE  backups'[t] = IF t = half THEN [backups[t] EXCEPT !.intact = FALSE]
                               ELSE IF t \in gone THEN Bundle!NoBackup ELSE backups[t]
      BY <3>1
    <3>4. DOMAIN backups' = Bundle!Txs
      BY <3>1
    <3>5. \A t \in Bundle!Txs : \/ backups'[t] \in {backups[t], Bundle!NoBackup}
                         \/ backups'[t] = [backups[t] EXCEPT !.intact = FALSE]
      BY <3>3
    <3> QED
      BY <3>2, <3>3, <3>4, <3>5
  <2> QED
    BY <1>1, <2>1, <2>2 DEF Bundle!Prune
<1>5. ASSUME NEW t \in Bundle!Txs
      PROVE  /\ backups'[t] \in Backups
             /\ backups'[t].files \in {backups[t].files, Bundle!Nothing}
             /\ backups'[t].state \in {backups[t].state, Bundle!NoState}
  <2>1. backups[t] \in Backups
    BY DEF BInv, BType
  <2>2. /\ Bundle!NoBackup \in Backups /\ Bundle!NoBackup.files = Bundle!Nothing
        /\ Bundle!NoBackup.state = Bundle!NoState
    BY Types DEF Bundle!NoBackup, Bundle!Nothing
  <2>3. CASE backups'[t] \in {backups[t], Bundle!NoBackup}
    BY <2>1, <2>2, <2>3
  <2>4. CASE backups'[t] = [backups[t] EXCEPT !.intact = FALSE]
    BY <2>1, <2>4 DEF Backups
  <2> QED
    BY <1>4, <2>3, <2>4
<1>6. \A p \in Bundle!Paths : Bundle!Nothing[p].u = 0 /\ words[p] \in Nat
  BY DEF Bundle!Nothing, Bundle!Absent, BInv, BType
<1>7. BType'
  <2>1. backups' \in [Bundle!Txs -> Backups]
    <3>1. \A t \in Bundle!Txs : backups'[t] \in Backups
      BY <1>5
    <3>2. backups' = [t \in Bundle!Txs |-> backups'[t]]
      <4>1. \/ backups' = [tx \in Bundle!Txs |-> IF tx \in Bundle!Pruned(cur) THEN Bundle!NoBackup
                                          ELSE backups[tx]]
            \/ \E gone \in SUBSET Bundle!Pruned(cur), half \in Bundle!Pruned(cur) :
                 backups' = [tx \in Bundle!Txs |->
                    IF tx = half THEN [backups[tx] EXCEPT !.intact = FALSE]
                    ELSE IF tx \in gone THEN Bundle!NoBackup ELSE backups[tx]]
        BY <1>1 DEF Bundle!Prune
      <4> QED
        BY <4>1
    <3> QED
      BY <3>1, <3>2
  <2> QED
    BY <1>2, <2>1, Types DEF BInv, BType, Bundle!user
<1>8. \A t \in Bundle!Txs : (backups[t].state.tx <= made)'
  <2>1. Bundle!NoState.tx = 0 /\ made \in Nat
    BY DEF Bundle!NoState, BInv, BType
  <2> QED
    BY <1>2, <1>5, <2>1 DEF BInv, StateInv
<1>9. (state.tx \notin {0} \cup undone => Bundle!Loadable(state.tx))'
  <2>1. CASE state.tx \in {0} \cup undone
    BY <1>2, <2>1
  <2>2. CASE state.tx \notin {0} \cup undone
    <3>1. state.tx = cur
      BY <1>1, <2>2 DEF BInv, StateInv, Copied, cur
    <3>2. Bundle!Loadable(cur)
      BY <2>2, <3>1 DEF BInv, StateInv
    <3>3. backups'[cur] = backups[cur]
      BY <1>4, <3>2
    <3> QED
      BY <1>2, <3>1, <3>2, <3>3 DEF Bundle!Loadable
  <2> QED
    BY <2>1, <2>2
<1>10. WordsInv'
  <2>1. \A t \in Bundle!Txs, p \in Bundle!Paths : backups'[t].files[p].u <= words[p]
    BY <1>5, <1>6 DEF BInv, WordsInv
  <2>2. \A t \in Bundle!Txs, p \in Bundle!Paths : Kind[p] = "file" => backups'[t].files[p].u = 0
    BY <1>5, <1>6 DEF BInv, WordsInv
  <2> QED
    BY <1>2, <2>1, <2>2 DEF BInv, WordsInv, Bundle!user, Bundle!Idle
<1>11. (~tampered /\ ~crashed => Bundle!Owned(state.set))'
  BY <1>1, <1>2 DEF BInv, CleanInv, Bundle!user, Bundle!Owned, Bundle!Managed
<1>12. (~raced => \A p \in Bundle!Paths : files[p].u = words[p])'
  BY <1>2 DEF BInv, RaceInv, Bundle!user
<1>13. (state.tx <= made)'
  BY <1>2 DEF BInv, StateInv
<1>14. RestInv'
  BY <1>7, <1>8, <1>9, <1>10, <1>11, <1>12, <1>13 DEF RestInv
<1> QED
  BY <1>2, <1>14, IEnds

LEMMA ICrash ==
    ASSUME BInv, Bundle!Crash
    PROVE  BInv'
<1>1. /\ op' = Bundle!Idle /\ crashed' = TRUE
      /\ UNCHANGED <<files, override, state, backups, made, undone, Bundle!user>>
  BY DEF Bundle!Crash, Bundle!Ends
<1>2. BType'
  BY <1>1, Types DEF BInv, BType, Bundle!user
<1>3. WordsInv'
  BY <1>1 DEF BInv, WordsInv, Bundle!user, Bundle!Idle
<1>4. RestInv'
  BY <1>1, <1>2, <1>3 DEF BInv, RestInv, StateInv, RaceInv, Bundle!user, Bundle!Loadable
<1> QED
  BY <1>1, <1>4, IEnds

\* The user's edits leave the operation and its backup alone.
LEMMA IEditOverride ==
    ASSUME BInv, Bundle!EditOverride
    PROVE  BInv'
<1>1. /\ UNCHANGED <<files, words, raced, tampered, state, backups, op, result, made, undone,
                     crashed>>
      /\ mine' => override' = "user"
  BY DEF Bundle!EditOverride, Bundle!Edit
<1>2. Own' = Own
  BY <1>1 DEF Own
<1>3. BType' /\ PlaceInv' /\ StateInv' /\ PlanInv'
  BY <1>1, <1>2
  DEF BInv, BType, PlaceInv, StateInv, PlanInv, Copied, Bundle!Loadable, Passed, Later
<1>4. WordsInv' /\ RaceInv' /\ WroteInv'
  BY <1>1, <1>2 DEF BInv, WordsInv, RaceInv, WroteInv, Copied
<1>5. CleanInv'
  BY <1>1, <1>2
  DEF BInv, CleanInv, Copied, Bundle!Owned, Bundle!Managed, Bundle!Source, Bundle!Undoing
<1> QED
  BY <1>3, <1>4, <1>5 DEF BInv

LEMMA IEditWords ==
    ASSUME BInv, NEW p \in Bundle!Paths, Bundle!EditWords(p)
    PROVE  BInv'
<1>1. /\ UNCHANGED <<override, mine, tampered, state, backups, op, result, made, undone, crashed>>
      /\ Kind[p] = "shared"
      /\ files' = [files EXCEPT ![p].u = words[p] + 1]
      /\ words' = [words EXCEPT ![p] = @ + 1]
      /\ raced' = (raced \/ Bundle!Exposed(p))
  BY DEF Bundle!EditWords, Bundle!Edit
<1>2. /\ files \in Files /\ words \in [Bundle!Paths -> Nat] /\ words[p] \in Nat
  BY DEF BInv, BType
<1>3. /\ files' \in Files
      /\ files'[p].m = files[p].m /\ files'[p].u = words[p] + 1
      /\ \A q \in Bundle!Paths \ {p} : files'[q] = files[q]
  BY <1>1, <1>2 DEF Files
<1>4. /\ words' \in [Bundle!Paths -> Nat] /\ words'[p] = words[p] + 1
      /\ \A q \in Bundle!Paths \ {p} : words'[q] = words[q]
  BY <1>1, <1>2
<1>5. \A q \in Bundle!Paths : files'[q].m = files[q].m /\ words[q] <= words'[q] /\ words[q] \in Nat
  BY <1>2, <1>3, <1>4
<1>6. Own' = Own
  BY <1>1 DEF Own
<1>7. BType'
  BY <1>1, <1>3, <1>4 DEF BInv, BType, Bundle!Exposed
<1>8. PlaceInv' /\ StateInv' /\ WroteInv'
  BY <1>1, <1>6 DEF BInv, PlaceInv, StateInv, WroteInv, Copied, Bundle!Loadable
<1>9. ASSUME NEW q \in Bundle!Paths, NEW a \in [m : Contents, u : Nat], Later(a, files[q])
      PROVE  Later(a, files'[q])
  <2>1. files[q].u \in Nat /\ files'[q].u \in Nat /\ files[q].u <= files'[q].u
    <3>1. CASE q = p
      <4>1. files[p].u <= words[p] /\ files[p].u \in Nat
        BY <1>2 DEF BInv, WordsInv, Files
      <4> QED
        BY <1>2, <1>3, <3>1, <4>1
    <3>2. CASE q # p
      BY <1>2, <1>3, <3>2 DEF Files
    <3> QED
      BY <3>1, <3>2
  <2> QED
    BY <1>5, <1>9, <2>1 DEF Later
<1>10. PlanInv'
  <2>1. CASE op.pc = "backup"
    <3>1. \A q \in Bundle!Paths : op.plan[q] \in [m : Contents, u : Nat]
      BY DEF BInv, BType, Operations, Files
    <3>2. op.kind = "apply" => \A q \in Bundle!Paths :
                                  op.plan[q].m = state.set /\ Later(op.plan[q], files'[q])
      BY <1>9, <2>1, <3>1 DEF BInv, PlanInv
    <3> QED
      BY <1>1, <2>1, <3>2 DEF PlanInv, Applying, Later
  <2>2. CASE op.pc \in Applying
    <3>1. made \in Bundle!Txs
      BY <2>2 DEF BInv, PlaceInv, Applying, Copied
    <3>2. \A q \in Bundle!Paths : Own.files[q] \in [m : Contents, u : Nat]
      BY <3>1 DEF BInv, BType, Backups, Own, Files
    <3>3. \A q \in Bundle!Paths :
             /\ op.plan[q].m = Own.state.set
             /\ IF Passed(q) THEN Own.files[q] = op.plan[q]
                ELSE Later(op.plan[q], Own.files[q]) /\ Later(Own.files[q], files'[q])
      BY <1>9, <2>2, <3>2 DEF BInv, PlanInv
    <3> QED
      BY <1>1, <1>6, <2>2, <3>3 DEF PlanInv, Applying, Later, Passed
  <2>3. CASE op.pc \notin Applying \cup {"backup"}
    BY <1>1, <2>3 DEF PlanInv
  <2> QED
    BY <2>1, <2>2, <2>3
<1>11. WordsInv'
  <2>1. \A q \in Bundle!Paths : files'[q].u <= words'[q]
    BY <1>2, <1>3, <1>4 DEF BInv, WordsInv
  <2>2. \A t \in Bundle!Txs, q \in Bundle!Paths : backups[t].files[q].u <= words'[q]
    <3> SUFFICES ASSUME NEW t \in Bundle!Txs, NEW q \in Bundle!Paths
                 PROVE  backups[t].files[q].u <= words'[q]
      OBVIOUS
    <3>1. backups[t].files[q].u <= words[q] /\ backups[t].files[q].u \in Nat
      BY DEF BInv, BType, WordsInv, Backups, Files
    <3> QED
      BY <1>4, <1>5, <3>1
  <2>3. op.pc = "write" => op.current.u <= words'[op.i]
    <3>1. op.i \in Bundle!Paths /\ op.current.u \in Nat
      BY DEF BInv, BType, Operations
    <3> QED
      BY <1>4, <1>5, <3>1 DEF BInv, WordsInv
  <2>4. \A q \in Bundle!Paths : Kind[q] = "file" => files'[q].u = 0
    BY <1>1, <1>3 DEF BInv, WordsInv
  <2> QED
    BY <1>1, <2>1, <2>2, <2>3, <2>4 DEF BInv, WordsInv
<1>12. RaceInv'
  <2> SUFFICES ASSUME ~raced, ~Bundle!Exposed(p) PROVE RaceInv'
    BY <1>1 DEF RaceInv
  <2>1. \A q \in Bundle!Paths : files'[q].u = words'[q]
    BY <1>3, <1>4 DEF BInv, RaceInv
  <2>2. op.pc \in {"write", "record"} => op.i # p /\ op.i \in Bundle!Paths
    BY DEF Bundle!Exposed, BInv, BType, Operations
  <2>3. op.pc # "idle" => op.kind # "rollback" /\ ~(op.pc = "restore" /\ op.recovering)
    BY DEF Bundle!Exposed, Bundle!Idle
  <2> QED
    BY <1>1, <1>4, <1>6, <2>1, <2>2, <2>3 DEF BInv, RaceInv, Copied
<1>13. CleanInv'
  BY <1>1, <1>5, <1>6
  DEF BInv, CleanInv, Copied, Bundle!Owned, Bundle!Managed, Bundle!Source, Bundle!Undoing
<1> QED
  BY <1>7, <1>8, <1>10, <1>11, <1>12, <1>13 DEF BInv

LEMMA IEditManaged ==
    ASSUME BInv, NEW p \in Bundle!Paths, Bundle!EditManaged(p)
    PROVE  BInv'
<1>1. /\ UNCHANGED <<override, mine, words, raced, state, backups, op, result, made, undone,
                     crashed>>
      /\ files[p].m # Bundle!Edited /\ tampered' = TRUE
  BY DEF Bundle!EditManaged, Bundle!Edit
<1>. PICK m \in {Bundle!Edited, Bundle!Bare} \ {files[p].m} : files' = [files EXCEPT ![p].m = m]
  BY DEF Bundle!EditManaged
<1>2. files \in Files /\ m \in Contents
  BY DEF BInv, BType, Contents
<1>3. /\ files' \in Files
      /\ files'[p].m = m /\ files'[p].u = files[p].u
      /\ \A q \in Bundle!Paths \ {p} : files'[q] = files[q]
  BY <1>2 DEF Files
<1>4. \A q \in Bundle!Paths : files'[q].u = files[q].u
  BY <1>3
<1>5. Own' = Own
  BY <1>1 DEF Own
<1>6. BType'
  BY <1>1, <1>3 DEF BInv, BType
<1>7. PlaceInv' /\ StateInv' /\ WroteInv'
  BY <1>1, <1>5 DEF BInv, PlaceInv, StateInv, WroteInv, Copied, Bundle!Loadable
<1>8. ASSUME NEW q \in Bundle!Paths, NEW a \in [m : Contents, u : Nat], Later(a, files[q])
      PROVE  Later(a, files'[q])
  <2>1. CASE q = p
    <3>1. a.m \in Contents /\ files[p].m \in Contents
      BY <1>2 DEF Files
    <3>2. a.u <= files'[p].u
      BY <1>4, <1>8, <2>1 DEF Later
    <3>3. files[p].m # m /\ m \in {Bundle!Edited, Bundle!Bare}
      OBVIOUS
    <3>4. \/ a.m = m
          \/ a.m # Bundle!Edited /\ m = Bundle!Edited
          \/ a.m \in Sets /\ m = Bundle!Bare
      BY <1>1, <1>8, <2>1, <3>1, <3>3, PathFacts DEF Later, Contents
    <3> QED
      BY <1>3, <2>1, <3>2, <3>4 DEF Later
  <2>2. CASE q # p
    BY <1>3, <1>8, <2>2
  <2> QED
    BY <2>1, <2>2
<1>9. PlanInv'
  <2>1. CASE op.pc = "backup"
    <3>1. \A q \in Bundle!Paths : op.plan[q] \in [m : Contents, u : Nat]
      BY DEF BInv, BType, Operations, Files
    <3>2. op.kind = "apply" => \A q \in Bundle!Paths :
                                  op.plan[q].m = state.set /\ Later(op.plan[q], files'[q])
      BY <1>8, <2>1, <3>1 DEF BInv, PlanInv
    <3> QED
      BY <1>1, <2>1, <3>2 DEF PlanInv, Applying, Later
  <2>2. CASE op.pc \in Applying
    <3>1. made \in Bundle!Txs
      BY <2>2 DEF BInv, PlaceInv, Applying, Copied
    <3>2. \A q \in Bundle!Paths : Own.files[q] \in [m : Contents, u : Nat]
      BY <3>1 DEF BInv, BType, Backups, Own, Files
    <3>3. \A q \in Bundle!Paths :
             /\ op.plan[q].m = Own.state.set
             /\ IF Passed(q) THEN Own.files[q] = op.plan[q]
                ELSE Later(op.plan[q], Own.files[q]) /\ Later(Own.files[q], files'[q])
      BY <1>8, <2>2, <3>2 DEF BInv, PlanInv
    <3> QED
      BY <1>1, <1>5, <2>2, <3>3 DEF PlanInv, Applying, Later, Passed
  <2>3. CASE op.pc \notin Applying \cup {"backup"}
    BY <1>1, <2>3 DEF PlanInv
  <2> QED
    BY <2>1, <2>2, <2>3
<1>10. WordsInv'
  BY <1>1, <1>4 DEF BInv, WordsInv
<1>11. RaceInv'
  BY <1>1, <1>4, <1>5 DEF BInv, RaceInv, Copied
<1>12. CleanInv'
  BY <1>1 DEF CleanInv
<1> QED
  BY <1>6, <1>7, <1>9, <1>10, <1>11, <1>12 DEF BInv

LEMMA IStep ==
    ASSUME BInv, [Bundle!Next]_(Bundle!vars)
    PROVE  BInv'
<1>1. CASE UNCHANGED Bundle!vars
  <2>1. /\ UNCHANGED <<files, override, mine, words, raced, tampered, state, backups, op, result,
                       made, undone, crashed>>
    BY <1>1 DEF Bundle!vars
  <2>2. Own' = Own
    BY <2>1 DEF Own
  <2>3. BType' /\ PlaceInv' /\ StateInv' /\ PlanInv'
    BY <2>1, <2>2
    DEF BInv, BType, PlaceInv, StateInv, PlanInv, Copied, Bundle!Loadable, Passed, Later
  <2>4. WordsInv' /\ RaceInv' /\ WroteInv'
    BY <2>1, <2>2 DEF BInv, WordsInv, RaceInv, WroteInv, Copied
  <2>5. CleanInv'
    BY <2>1, <2>2
    DEF BInv, CleanInv, Copied, Bundle!Owned, Bundle!Managed, Bundle!Source, Bundle!Undoing
  <2> QED
    BY <2>3, <2>4, <2>5 DEF BInv
<1>2. CASE Bundle!Installer
  BY <1>2, IPlan, IStartRollback, IBackup, ICheck, IWrite, IRecord, IStub, IWriteState,
     IRecover, IRestoreFile, IRestoreState, IRetain, ICrash
  DEF Bundle!Installer
<1>3. CASE Bundle!User
  BY <1>3, IEditOverride, IEditWords, IEditManaged DEF Bundle!User
<1> QED
  BY <1>1, <1>2, <1>3 DEF Bundle!Next

LEMMA IInit ==
    ASSUME Bundle!Init
    PROVE  BInv
<1>1. PICK v \in {Bundle!Bare} \cup Old, u \in {0, 1} :
        /\ files = [p \in Bundle!Paths |-> IF Kind[p] = "file" THEN [m |-> v, u |-> 0]
                                                       ELSE [m |-> v, u |-> u]]
        /\ state = [set |-> v, tx |-> 0]
  BY DEF Bundle!Init
<1>2. /\ backups = [tx \in Bundle!Txs |-> Bundle!NoBackup] /\ op = Bundle!Idle /\ made = 0
      /\ words = [p \in Bundle!Paths |-> files[p].u]
      /\ mine = FALSE /\ raced = FALSE /\ tampered = FALSE /\ crashed = FALSE
  BY DEF Bundle!Init
<1>3. v \in Contents /\ v \in Sets \cup {Bundle!Bare}
  BY PathFacts, Types
<1>4. /\ files \in Files
      /\ \A p \in Bundle!Paths : files[p].m = v /\ (Kind[p] = "file" => files[p].u = 0)
  BY <1>1, <1>3 DEF Files
<1>5. BType
  <2>1. state \in States /\ made \in 0 .. MaxOps
    BY <1>1, <1>2, <1>3, PathFacts DEF States
  <2>2. backups \in [Bundle!Txs -> Backups] /\ op \in Operations
    BY <1>2, Types
  <2>3. words \in [Bundle!Paths -> Nat]
    <3>1. \A p \in Bundle!Paths : files[p].u \in Nat
      BY <1>4 DEF Files
    <3> QED
      BY <1>2, <3>1
  <2> QED
    BY <1>2, <1>4, <2>1, <2>2, <2>3 DEF BType
<1>6. op.pc = "idle" /\ op.kind = "none"
  BY <1>2 DEF Bundle!Idle
<1>7. PlaceInv /\ StateInv /\ PlanInv
  BY <1>1, <1>2, <1>6
  DEF PlaceInv, StateInv, PlanInv, Applying, Copied, Bundle!NoBackup, Bundle!NoState
<1>8. WordsInv
  <2>1. \A p \in Bundle!Paths : files[p].u <= words[p] /\ words[p] \in Nat
    BY <1>2, <1>5 DEF BType
  <2>2. \A t \in Bundle!Txs, p \in Bundle!Paths : backups[t].files[p].u = 0
    BY <1>2 DEF Bundle!NoBackup, Bundle!Absent
  <2> QED
    BY <1>2, <1>4, <1>6, <2>1, <2>2 DEF WordsInv
<1>9. RaceInv /\ WroteInv
  BY <1>2, <1>6 DEF RaceInv, WroteInv, Applying, Copied
<1>10. CleanInv
  BY <1>1, <1>4, <1>6 DEF CleanInv, Applying, Copied, Bundle!Owned, Bundle!Managed
<1> QED
  BY <1>5, <1>7, <1>8, <1>9, <1>10 DEF BInv

\* The inductive invariant is all that is claimed of the installer.
LEMMA IPromise ==
    ASSUME BInv
    PROVE  Bundle!AllOrNothing /\ Bundle!UserWordsKept /\ Bundle!LastUpdateCanBeUndone
<1>1. Bundle!AllOrNothing
  BY DEF BInv, CleanInv, Bundle!AllOrNothing, Bundle!Idle
<1>2. Bundle!UserWordsKept
  BY DEF BInv, RaceInv, WordsInv, Bundle!UserWordsKept
<1>3. Bundle!LastUpdateCanBeUndone
  BY DEF BInv, StateInv, Bundle!LastUpdateCanBeUndone
<1> QED
  BY <1>1, <1>2, <1>3

\* However steps fail before or after they took effect, whenever an operation
\* dies, whatever the user changes meanwhile and however many backups are
\* pruned: an operation that ends leaves the files of one set and the state
\* that names it or says that it could not; the user's words survive, but for
\* the windows of Exposed; and what an install or update replaced can be
\* brought back (Install, Update, Rollback of integrationbundle/installer.go).
THEOREM BundleSound == MCSpec => []BundleIsWhole
<1>1. MCInit => BInv
  BY IInit DEF MCInit
<1>2. BInv /\ [MCNext]_<<tool, vars, factVars, vectorVars, groupVars, bundleVars>> => BInv'
  <2>1. SUFFICES ASSUME BInv,
                        [MCNext]_<<tool, vars, factVars, vectorVars, groupVars, bundleVars>>
                 PROVE  BInv'
    OBVIOUS
  <2>2. [Bundle!Next]_(Bundle!vars)
    BY <2>1 DEF MCNext, bundleVars, Bundle!vars
  <2> QED
    BY <2>1, <2>2, IStep
<1>3. BInv => BundleIsWhole
  BY IPromise DEF BundleIsWhole
<1> QED
  BY <1>1, <1>2, <1>3, PTL DEF MCSpec
=============================================================================
