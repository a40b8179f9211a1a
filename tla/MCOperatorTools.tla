--------------------------- MODULE MCOperatorTools ---------------------------
(***************************************************************************)
(* What operators and users run beside the server, for TLC: the point ID   *)
(* migration, the maintenance and lifecycle commands, the embedding        *)
(* migration, the grouping of facts by a reviewed manifest and the         *)
(* installer of the client bundle.  They share no state, so one of them    *)
(* moves in each behaviour.                                                *)
(***************************************************************************)
EXTENDS PointIds, Sequences, TLC

CONSTANTS t1, t2, i3, i4, a1, a2, b, bad,
          NumPoints, MaxAnalyses, MaxFactWrites, MaxCommands, Unset, Active, Torn,
          Procs, FromColl, ToColl, Models, FirstModel, Vecs, MaxVectorWrites,
          MaxStarts,
          NumChanges, Journals, MaxGroupings, MaxFactEdits,
          Kind, Sets, Old, Keep, MaxOps, MaxEdits, MaxFaults

VARIABLES
    tool,
    point, factWrites, moving, commands, manifests, record, cmd, batch, left, at,
    out, cancelled, before, touched, suspect, carried,
    coll, vectorWrites, starts, conf, doing, unseen, pending, manifest, job,
    read,
    fact, journal, grouping, change, stage, outcome, groupings, factEdits, as,
    unknown, resent,
    files, override, state, backups, op, result, made, undone, words, mine,
    raced, tampered, crashed, edits, faults

factVars == <<point, factWrites, moving, commands, manifests, record, cmd, batch,
              left, at, out, cancelled, before, touched, suspect, carried>>
vectorVars == <<coll, vectorWrites, starts, conf, doing, unseen, pending,
                manifest, job, read>>
groupVars == <<fact, journal, grouping, change, stage, outcome, groupings,
               factEdits, as, unknown, resent>>
bundleVars == <<files, override, state, backups, op, result, made, undone,
                words, mine, raced, tampered, crashed, edits, faults>>

\* Two facts that compete for one ID, one alone, one that cannot be placed.
TargetDef == (a1 :> t1) @@ (a2 :> t1) @@ (b :> t2) @@ (bad :> None)

Maintenance == INSTANCE FactMaintenance WITH
                  MaxWrites <- MaxFactWrites, MaxRuns <- MaxCommands,
                  writes <- factWrites, runs <- commands, rest <- left

Vectors == INSTANCE EmbeddingSpace WITH
              Source <- FromColl, Target <- ToColl, Legacy <- FirstModel,
              Points <- Vecs,
              MaxWrites <- MaxVectorWrites, writes <- vectorWrites,
              left <- unseen

Regrouping == INSTANCE FactGrouping WITH
             MaxRuns <- MaxGroupings, MaxEdits <- MaxFactEdits,
             run <- grouping, at <- change, step <- stage, result <- outcome,
             runs <- groupings, edits <- factEdits

\* A file that holds a managed block among the user's words, and one that is
\* the bundle's.
KindDef == <<"shared", "file">>

Bundle == INSTANCE IntegrationInstaller

ASSUME ToolsAssumption ==
    /\ Maintenance!MaintenanceAssumption
    /\ Vectors!LegacyAssumption
    /\ Regrouping!GroupingAssumption
    /\ Bundle!InstallerAssumption

\* The tools that do not move stay in one of their initial states.
MCInit ==
    /\ tool \in {"ids", "facts", "vectors", "groups", "bundle"}
    /\ Init /\ Maintenance!Init /\ Vectors!Init /\ Regrouping!Init /\ Bundle!Init
    /\ tool # "ids" => stored = Nothing
    /\ tool # "facts" => \A p \in DOMAIN point : point[p] = None
    /\ tool # "vectors" => coll[FromColl].id = None
    /\ tool # "bundle" => state.set = 0 /\ \A p \in DOMAIN words : words[p] = 0

MCNext ==
    /\ UNCHANGED tool
    /\ \/ /\ tool = "ids" /\ Next
          /\ UNCHANGED <<factVars, vectorVars, groupVars, bundleVars>>
       \/ /\ tool = "facts" /\ Maintenance!Next
          /\ UNCHANGED <<vars, vectorVars, groupVars, bundleVars>>
       \/ /\ tool = "vectors" /\ Vectors!Next
          /\ UNCHANGED <<vars, factVars, groupVars, bundleVars>>
       \/ /\ tool = "groups" /\ Regrouping!Next
          /\ UNCHANGED <<vars, factVars, vectorVars, bundleVars>>
       \/ /\ tool = "bundle" /\ Bundle!Next
          /\ UNCHANGED <<vars, factVars, vectorVars, groupVars>>

MCSpec ==
    MCInit /\ [][MCNext]_<<tool, vars, factVars, vectorVars, groupVars, bundleVars>>

\* The processes of the embedding differ in name only.
Symmetry == Permutations(Procs)

------------------------------------------------------------------------------
(* The properties of the tools; those of the IDs are PointIds'. *)

\* The commands report what they did, hide only what was reviewed, and keep
\* what they migrate on record (FactMaintenance).
CommandsAreTrue ==
    /\ Maintenance!ReportIsTrue
    /\ Maintenance!HiddenWasReviewed
    /\ Maintenance!MigrationIsOnRecord

\* A collection holds vectors of its identity only (EmbeddingSpace).
VectorsMatchIdentity == Vectors!VectorsMatchIdentity

\* An accepted migration has copied the source as it is (EmbeddingSpace).
AcceptedCopyIsExact == Vectors!AcceptedCopyIsExact

\* A regrouping that succeeds is complete, a write of unknown outcome stays
\* on record and is not repeated, and what others changed stays (FactGrouping).
GroupingIsTrue == Regrouping!GroupingIsTrue

\* The installer leaves all or nothing, the user's words, and a way back
\* (IntegrationInstaller).
BundleIsWhole ==
    /\ Bundle!AllOrNothing
    /\ Bundle!UserWordsKept
    /\ Bundle!LastUpdateCanBeUndone
=============================================================================
