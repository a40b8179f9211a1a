--------------------------- MODULE MCFactMutations ---------------------------
(***************************************************************************)
(* What writes the facts, for TLC: the tools of the server, and            *)
(* `maintenance purge`, which an operator runs with the server stopped.    *)
(* The two never write at the same time and purge sees no more of the      *)
(* server than the states it leaves points in (OtherWriter), so one of     *)
(* them moves in each behaviour, and each has a run of its own.            *)
(***************************************************************************)
EXTENDS FactMutations, TLC

CONSTANTS ns1, ns2, text1, text2,
          Selected, MaxSnapshots,
          Writers       \* which of "server" and "purge" a run is about

VARIABLES
    writer,
    stock, snapshots, taken, contents, archive, journal, phase, verdicts,
    resuming, evidence, unvisited, current, dispatched, cancelled, purged

purgeVars == <<stock, snapshots, taken, contents, archive, journal, phase,
               verdicts, resuming, evidence, unvisited, current, dispatched,
               cancelled, purged>>

\* The namespaces are on stripes of their own, the texts mean the same.
TwoStripes == (ns1 :> 1) @@ (ns2 :> 2)
SomeLifeArgs == {None, "superseded"}
AllSimilar == {text1, text2} \X {text1, text2}

Purge == INSTANCE MaintenancePurge WITH
            Points <- Selected, points <- stock, pc <- phase,
            result <- verdicts, rest <- unvisited

ASSUME PurgeAssumption == Purge!PurgeAssumption

\* The writer that does not move stays in one of its initial states.
MCInit ==
    /\ writer \in Writers
    /\ Init /\ Purge!Init
    /\ writer # "server" => \A id \in Ids : points[id] = None
    /\ writer # "purge" => \A p \in Selected : stock[p] = "gone"

MCNext ==
    /\ UNCHANGED writer
    /\ \/ writer = "server" /\ Next /\ UNCHANGED purgeVars
       \/ writer = "purge" /\ Purge!Next /\ UNCHANGED vars

MCSpec == MCInit /\ [][MCNext]_<<writer, vars, purgeVars>>

\* Calls and texts differ in name only.
Symmetry == Permutations(Handlers) \cup Permutations({text1, text2})

------------------------------------------------------------------------------
(* The properties of purge; those of the server are FactMutations'. *)

\* What purge deletes can be restored from the archive that its journal names
\* (MaintenancePurge).
Recoverable == Purge!Recoverable

\* A purge that reports success leaves none of the points (MaintenancePurge).
SuccessMeansGone == Purge!SuccessMeansGone

\* No purge leaves a journal that its retry refuses (MaintenancePurge).
JournalStaysReadable == Purge!JournalStaysReadable

\* The journal of a purge keeps its recovery point, and its evidence until
\* the turn of the point it is about (MaintenancePurge).
JournalKeepsRecord == Purge!JournalKeepsRecord
=============================================================================
