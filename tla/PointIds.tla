------------------------------- MODULE PointIds -------------------------------
(***************************************************************************)
(* The point ID migration (internal/memorymigration, cmd/migrate-memory-   *)
(* ids): a fact stored under a legacy ID is copied to the ID its namespace *)
(* and text determine, then the legacy point is deleted.  The command      *)
(* demands stopped writers; it can fail or be killed between any two calls *)
(* and is run again.  The server writes facts between two runs.            *)
(*                                                                         *)
(* A fact stands for a vector and a payload with its namespace normalised: *)
(* equivalentPoint is equality of facts.                                   *)
(***************************************************************************)
EXTENDS Naturals

CONSTANTS
    Ids,         \* point IDs
    Facts,       \* what can be stored
    TargetOf,    \* TargetOf[f]: the ID of fact f, or None: no text or vector
    MaxWrites,   \* bound: writes of the server
    MaxRuns,     \* bound: runs of the migration
    None

ASSUME TargetAssumption == TargetOf \in [Facts -> Ids \cup {None}] /\ None \notin Ids

VARIABLES
    stored,     \* stored[i]: the fact under ID i, or None
    writes,     \* number of writes of the server
    runs,       \* number of runs
    scanned,    \* the run's scan of the collection; all None between runs
    rest,       \* targets of the groups it has still to move
    target,     \* the target being moved to, or None
    step,       \* "off", "group", "upsert" or "delete"
    held        \* observer: the facts clients have stored and not deleted

vars == <<stored, writes, runs, scanned, rest, target, step, held>>

Nothing == [i \in Ids |-> None]
FactsIn(s) == {s[i] : i \in Ids} \ {None}

Init ==
    /\ stored \in [Ids -> Facts \cup {None}]
    /\ writes = 0
    /\ runs = 0
    /\ scanned = Nothing
    /\ rest = {}
    /\ target = None
    /\ step = "off"
    /\ held = FactsIn(stored)

------------------------------------------------------------------------------
(* The plan, made from a scan s before anything is written. *)

\* The sources that resolve to target t.
Candidates(s, t) == {i \in Ids \ {t} : s[i] # None /\ TargetOf[s[i]] = t}
Groups(s) == {t \in Ids : Candidates(s, t) # {}}
Members(s, t) == Candidates(s, t) \cup (IF s[t] # None THEN {t} ELSE {})

\* Mutant: only the point at the target is compared.
CollidesWithOccupant(s, t) ==
    s[t] # None /\ \E i \in Candidates(s, t) : s[i] # s[t]

Collides(s, t) == \E i, j \in Members(s, t) : s[i] # s[j]

\* Points that take part in a collision, and all those of a group that shares
\* one with a blocked group: the smallest set with these two properties.
BlockedOnce(s) == UNION {Members(s, t) : t \in {g \in Groups(s) : Collides(s, g)}}

Spreads(s, B) ==
    \A t \in Groups(s) : Candidates(s, t) \cap B # {} => Members(s, t) \subseteq B

Blocked(s) ==
    {i \in Ids : \A B \in SUBSET Ids : BlockedOnce(s) \subseteq B /\ Spreads(s, B) => i \in B}

Planned(s) == {t \in Groups(s) : Candidates(s, t) \cap Blocked(s) = {}}

------------------------------------------------------------------------------
(* A run. *)

Start ==
    /\ step = "off"
    /\ runs < MaxRuns
    /\ runs' = runs + 1
    /\ scanned' = stored
    /\ rest' = Planned(stored)
    /\ target' = None
    /\ step' = "group"
    /\ UNCHANGED <<stored, writes, held>>

FactFor(t) == scanned[CHOOSE i \in Candidates(scanned, t) : TRUE]

\* The target is read again, and the group skipped if it holds another fact.
Group(t) ==
    /\ step = "group"
    /\ t \in rest
    /\ rest' = rest \ {t}
    /\ IF stored[t] \notin {None, FactFor(t)}
       THEN UNCHANGED <<target, step>>
       ELSE /\ target' = t
            /\ step' = IF stored[t] = None THEN "upsert" ELSE "delete"
    /\ UNCHANGED <<stored, writes, runs, scanned, held>>

Exit ==
    /\ step' = "off"
    /\ scanned' = Nothing
    /\ rest' = {}
    /\ target' = None
    /\ UNCHANGED <<writes, runs, held>>

Upsert ==
    /\ step = "upsert"
    /\ stored' = [stored EXCEPT ![target] = FactFor(target)]
    /\ step' = "delete"
    /\ UNCHANGED <<writes, runs, scanned, rest, target, held>>

\* The sources of the group, deleted by one call.  Mutant: only the one that
\* was copied.
CopiedSource == {CHOOSE i \in Candidates(scanned, target) : TRUE}
Without(ids) == [i \in Ids |-> IF i \in ids THEN None ELSE stored[i]]
Sources == Candidates(scanned, target)

Delete ==
    /\ step = "delete"
    /\ stored' = Without(Sources)
    /\ step' = "group"
    /\ target' = None
    /\ UNCHANGED <<writes, runs, scanned, rest, held>>

\* A call fails, applied or not, and ends the run; or the process is killed.
Fails ==
    /\ step # "off"
    /\ \/ UNCHANGED stored
       \/ step = "upsert" /\ stored' = [stored EXCEPT ![target] = FactFor(target)]
       \/ step = "delete" /\ \E ids \in SUBSET Sources : stored' = Without(ids)
    /\ Exit

Complete == step = "group" /\ rest = {}

Finish ==
    /\ Complete
    /\ Exit
    /\ UNCHANGED stored

------------------------------------------------------------------------------
(* The server, between two runs. *)

\* A client stores a fact under its own ID, or deletes one.
ServerWrite ==
    /\ step = "off"
    /\ writes < MaxWrites
    /\ writes' = writes + 1
    /\ \/ \E f \in Facts :
             /\ TargetOf[f] # None
             /\ stored[TargetOf[f]] = None
             /\ stored' = [stored EXCEPT ![TargetOf[f]] = f]
       \/ \E i \in Ids :
             /\ stored[i] # None
             /\ stored' = [stored EXCEPT ![i] = None]
    /\ held' = FactsIn(stored')
    /\ UNCHANGED <<runs, scanned, rest, target, step>>

Next ==
    \/ Start
    \/ \E t \in Ids : Group(t)
    \/ Upsert
    \/ Delete
    \/ Fails
    \/ Finish
    \/ ServerWrite

Spec == Init /\ [][Next]_vars

------------------------------------------------------------------------------
(* Properties. *)

TypeOK ==
    /\ stored \in [Ids -> Facts \cup {None}]
    /\ scanned \in [Ids -> Facts \cup {None}]
    /\ rest \subseteq Ids
    /\ target \in Ids \cup {None}
    /\ step \in {"off", "group", "upsert", "delete"}

\* No fact is lost, and none appears: whatever fails or crashes, and however
\* many different facts compete for one ID, what clients have stored is there
\* under some ID.
NoFactIsLost == FactsIn(stored) = held

\* A run that was not cut short leaves nothing for the next one: the facts
\* still under a legacy ID are those whose place is contested, and no group
\* became movable or contested because another one moved.
CompleteRunsSettle ==
    Complete =>
        /\ Planned(stored) = {}
        /\ \A i \in Ids : scanned[i] # stored[i] => i \notin Blocked(scanned)
=============================================================================
