--------------------------- MODULE MCCatalogReviews ---------------------------
(***************************************************************************)
(* The catalog and what people say of its AI proposals, for TLC: catalog   *)
(* operations (CatalogOperations), and the assessments in the dashboard    *)
(* (ReviewAssessments), which never change the catalog.  They are checked  *)
(* one at a time.                                                          *)
(***************************************************************************)
EXTENDS CatalogOperations, TLC

CONSTANTS Clients, Entries, Verdicts, MaxAssessments, MaxFaults, MaxEdits, Torn

VARIABLES
    part,
    entry, revision, head, lock, stage, req, shown, answered, refused, faults, edits

reviewVars == <<entry, revision, head, lock, stage, req, shown, answered,
                refused, faults, edits>>

Reviews == INSTANCE ReviewAssessments WITH
              MaxRevision <- MaxAssessments,
              catalog <- entry, file <- revision, pc <- stage

ASSUME ReviewsAssumption == Reviews!ReviewAssumption

\* The part that does not move stays in one of its initial states.
MCInit ==
    /\ part \in {"catalog", "reviews"}
    /\ Init /\ Reviews!Init
    /\ part = "catalog" => entry = "absent"

MCNext ==
    /\ UNCHANGED part
    /\ \/ part = "catalog" /\ Next /\ UNCHANGED reviewVars
       \/ part = "reviews" /\ Reviews!Next /\ UNCHANGED vars

Symmetry == Permutations(Projects) \cup Permutations(Contents)

MCSpec == MCInit /\ [][MCNext]_<<part, vars, reviewVars>>

------------------------------------------------------------------------------
\* An acknowledged assessment stays, revisions follow what was shown, and a
\* conflict can be seen (ReviewAssessments).
AssessmentsAreKept == Reviews!AssessmentsAreKept
================================================================================
