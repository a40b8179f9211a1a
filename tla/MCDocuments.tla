------------------------------ MODULE MCDocuments ------------------------------
(***************************************************************************)
(* The documents, for TLC: the publication and search of one document      *)
(* (RagPublication), the walk of the indexer over the tree and its folder  *)
(* summaries (FolderSummaries), and the inventory in the dashboard         *)
(* (VizDocuments).  They are checked one at a time.                        *)
(***************************************************************************)
EXTENDS RagPublication, TLC

CONSTANTS v, w, empty,
          Files, Folders, Folder, Hidden, Texts, MaxRuns, MaxEdits, MaxFaults, Old,
          f1, f2, d1,
          Requests, NumPages, TTL, Timeout, MaxScans, MaxWrites, MaxTime

VARIABLES
    part,
    tree, index, summary, phase, indexed, left, walked, missed, dirty, failed,
    healthy, touched, behind, lost, runs, edits, faults,
    page, now, cache, flight, refresh, scan, stage, req, given, past

folderVars == <<tree, index, summary, phase, indexed, left, walked, missed,
                dirty, failed, healthy, touched, behind, lost, runs, edits, faults>>
inventoryVars == <<page, now, cache, flight, refresh, scan, stage, req, given, past>>

\* Two contents of two and one chunks, and the empty file.
SomeChunks == (v :> 2) @@ (w :> 1) @@ (empty :> 0)

\* Two files in one folder; there is also a hidden folder, without files.
FolderDef == (f1 :> d1) @@ (f2 :> d1)

Tree == INSTANCE FolderSummaries WITH
           Contents <- Texts, disk <- tree, known <- indexed, owed <- behind

Inventory == INSTANCE VizDocuments WITH pc <- stage

ASSUME PartsAssumption == Tree!FoldersAssumption /\ Inventory!DocumentsAssumption

\* The parts that do not move stay in one of their initial states.
MCInit ==
    /\ part \in {"document", "tree", "inventory"}
    /\ Init /\ Tree!Init /\ Inventory!Init
    /\ part # "document" => disk = v
    /\ part # "tree" => \A f \in Files, d \in Folders : tree[f] = None /\ summary[d] = None

MCNext ==
    /\ UNCHANGED part
    /\ \/ part = "document" /\ Next /\ UNCHANGED <<folderVars, inventoryVars>>
       \/ part = "tree" /\ Tree!Next /\ UNCHANGED <<vars, inventoryVars>>
       \/ part = "inventory" /\ Inventory!Next /\ UNCHANGED <<vars, folderVars>>

MCSpec ==
    /\ MCInit
    /\ [][MCNext]_<<part, vars, folderVars, inventoryVars>>
    /\ Inventory!Fairness

------------------------------------------------------------------------------
\* Folder summaries follow the tree, and a doubtful walk removes nothing
\* (FolderSummaries).
FoldersFollow == Tree!FoldersFollow

\* The inventory is never older than its cache and its scan allow
\* (VizDocuments).
InventoryIsSound == Inventory!InventoryIsSound

\* Every request for the inventory is answered (VizDocuments).
DocumentsAnswered == Inventory!DocumentsAnswered
================================================================================
