--------------------------- MODULE FolderSummaries ----------------------------
(***************************************************************************)
(* The walk of the document indexer over the whole tree                    *)
(* (internal/rag/indexer.go, summarizer.go): which files it indexes, which *)
(* it takes for deleted, and which folders get a new summary, or lose it.  *)
(* How one file is indexed is RagPublication.                              *)
(*                                                                         *)
(* The tree is synchronised from elsewhere: a walk may miss files that are *)
(* there.  Empty files and files that are not text, which a summary names  *)
(* but the indexer does not notice, are left out.                          *)
(***************************************************************************)
EXTENDS Integers, FiniteSets, Functions

CONSTANTS
    Files, Folders,
    Folder,      \* Folder[f]: the folder of file f
    Hidden,      \* folders whose path has a hidden component
    Contents,
    MaxRuns, MaxEdits, MaxFaults,   \* bounds: runs, edits, failures
    None, Old    \* no file or summary; a summary of an earlier version

FoldersAssumption ==
    /\ IsFiniteSet(Files)
    /\ Old # None
    /\ Folder \in [Files -> Folders]
    /\ Hidden \subseteq Folders
    /\ \A f \in Files : Folder[f] \notin Hidden

VARIABLES
    disk,        \* disk[f]: content of file f, or None
    index,       \* index[f]: the content that is indexed, or None
    summary,     \* summary[d]: the listing in the folder's summary, or None
    phase,       \* "rest", "walk", "clean" or "reconcile"
    known,       \* files in the index when the run began
    left,        \* files still to be visited or removed
    walked,      \* files the walk has seen
    missed,      \* whether the walk had errors
    dirty,       \* folders to reconcile
    failed,      \* whether the run returns an error
    healthy,     \* what cleanupStale returns; FALSE while a run is under way
    touched,     \* history: folders edited since the run began
    owed,        \* history: folders a step about which has failed, or which
                 \* were reconciled while the index was behind the disk
    lost,        \* history: files removed from the index by the run
    runs, edits, faults

vars == <<disk, index, summary, phase, known, left, walked, missed, dirty,
          failed, healthy, touched, owed, lost, runs, edits, faults>>
runVars == <<known, walked, missed, touched, runs, edits>>

In(d) == {f \in Files : Folder[f] = d /\ disk[f] # None}
Gone(d) == In(d) = {} \/ d \in Hidden
Listing(d) == IF Gone(d) THEN None ELSE Restrict(disk, In(d))

\* Nothing indexed yet, or all of it with summaries of an earlier version,
\* which may be there for hidden folders too.
Init ==
    /\ disk \in [Files -> Contents \cup {None}]
    /\ \/ index = [f \in Files |-> None] /\ summary = [d \in Folders |-> None]
       \/ /\ index = disk
          /\ summary = [d \in Folders |-> IF In(d) # {} \/ d \in Hidden THEN Old ELSE None]
    /\ phase = "rest"
    /\ known = {} /\ left = {} /\ walked = {} /\ dirty = {}
    /\ missed = FALSE /\ failed = FALSE /\ healthy = FALSE
    /\ touched = Folders /\ owed = {} /\ lost = {}
    /\ runs = 0 /\ edits = 0 /\ faults = 0

Fault == faults < MaxFaults /\ faults' = faults + 1

\* Run: the state of the index, and foldersNeedingRefresh.
Refresh == {d \in Folders : summary[d] # None /\ (d \in Hidden \/ summary[d] = Old)}

Start ==
    /\ phase = "rest"
    /\ runs < MaxRuns
    /\ runs' = runs + 1
    /\ phase' = "walk"
    /\ known' = {f \in Files : index[f] # None}
    /\ left' = Files
    /\ walked' = {}
    /\ missed' = FALSE
    /\ dirty' = Refresh
    /\ healthy' = FALSE
    /\ failed' = FALSE
    /\ touched' = {}
    /\ lost' = {}
    /\ UNCHANGED <<disk, index, summary, owed, edits, faults>>

\* The walk sees a file and indexes it, if it has changed.
Visit(f) ==
    /\ disk[f] # None
    /\ walked' = walked \cup {f}
    /\ UNCHANGED missed
    /\ \/ /\ index' = [index EXCEPT ![f] = disk[f]]
          /\ dirty' = IF index[f] = disk[f] THEN dirty ELSE dirty \cup {Folder[f]}
          /\ UNCHANGED <<faults, failed, owed>>
       \/ /\ Fault      \* before or after anything was written
          /\ failed' = TRUE
          /\ index[f] # disk[f]
          /\ \/ UNCHANGED <<index, dirty>>
             \/ index' \in {index, [index EXCEPT ![f] = disk[f]]} /\ dirty' = dirty \cup {Folder[f]}
          /\ owed' = owed \cup {Folder[f]}

\* It does not see the file, which may be there: with or without an error.
Miss(f) ==
    /\ \/ disk[f] = None /\ UNCHANGED <<missed, faults, owed>>
       \/ /\ disk[f] # None
          /\ Fault
          /\ missed' \in {missed, TRUE}
          /\ owed' = owed \cup {Folder[f]}
    /\ UNCHANGED <<index, walked, dirty, failed>>

Walk(f) ==
    /\ phase = "walk"
    /\ f \in left
    /\ left' = left \ {f}
    /\ Visit(f) \/ Miss(f)
    /\ UNCHANGED <<disk, summary, phase, known, healthy, touched, lost, runs, edits>>

\* staleCleanupDecision.
\* Mutant: without the comparison of counts.
SkipOnError == missed
SkipCleanup == missed \/ Cardinality(walked) * 2 < Cardinality(known)

Clean ==
    /\ phase = "walk"
    /\ left = {}
    /\ phase' = "clean"
    /\ healthy' = ~SkipCleanup
    /\ left' = IF SkipCleanup THEN {} ELSE known \ walked
    /\ UNCHANGED <<disk, index, summary, runVars, dirty, failed, owed, lost, faults>>

\* deleteFileChunks of a file that was not seen.
\* Mutant: its folder keeps its summary.
KeepsSummary(f) == dirty
AlsoDirty(f) == dirty \cup {Folder[f]}

RemoveStale(f) ==
    /\ phase = "clean"
    /\ f \in left
    /\ left' = left \ {f}
    /\ \/ /\ index' = [index EXCEPT ![f] = None]
          /\ dirty' = AlsoDirty(f)
          /\ lost' = lost \cup {f}
          /\ UNCHANGED <<faults, failed, owed>>
       \/ /\ Fault
          /\ failed' = TRUE
          /\ \/ UNCHANGED <<index, lost>>
             \/ index' = [index EXCEPT ![f] = None] /\ lost' = lost \cup {f}
          /\ owed' = owed \cup {Folder[f]}
          /\ UNCHANGED dirty
    /\ UNCHANGED <<disk, summary, phase, runVars, healthy>>

Cleaned ==
    /\ phase = "clean"
    /\ left = {}
    /\ phase' = "reconcile"
    /\ UNCHANGED <<disk, index, summary, runVars, left, dirty, failed, healthy,
                   owed, lost, faults>>

Indexed(d) == \A f \in Files : Folder[f] = d => index[f] = disk[f]

\* reconcileFolder looks at the folder again: a summary of what is there now,
\* or none, if the walk was healthy.  Files that cannot be read then are
\* missing from the summary.  What is there now need not be what the walk has
\* indexed: if the index catches up by an edit that undoes another, no run
\* will find anything to change.
Reconcile(d) ==
    /\ phase = "reconcile"
    /\ d \in dirty
    /\ dirty' = dirty \ {d}
    /\ IF Gone(d) /\ ~healthy
       THEN /\ owed' = IF Indexed(d) THEN owed ELSE owed \cup {d}
            /\ UNCHANGED <<summary, faults, failed>>
       ELSE \/ /\ summary' = [summary EXCEPT ![d] = Listing(d)]
               /\ owed' = IF Indexed(d) THEN owed \ {d} ELSE owed \cup {d}
               /\ UNCHANGED <<faults, failed>>
            \/ /\ Fault
               /\ \/ failed' = TRUE /\ summary' \in {summary, [summary EXCEPT ![d] = Listing(d)]}
                  \/ /\ ~Gone(d) /\ UNCHANGED failed
                     /\ \E some \in SUBSET In(d) :
                           summary' = [summary EXCEPT ![d] = Restrict(disk, some)]
               /\ owed' = owed \cup {d}
    /\ UNCHANGED <<disk, index, phase, runVars, left, healthy, lost>>

End ==
    /\ phase = "reconcile"
    /\ dirty = {}
    /\ phase' = "rest"
    /\ UNCHANGED <<disk, index, summary, runVars, left, dirty, failed, healthy,
                   owed, lost, faults>>

\* The process stops; the next run begins anew.
Stop ==
    /\ phase # "rest"
    /\ Fault
    /\ phase' = "rest"
    /\ healthy' = FALSE
    /\ failed' = TRUE
    /\ owed' = owed \cup dirty
    /\ dirty' = {}
    /\ left' = {}
    /\ UNCHANGED <<disk, index, summary, runVars, lost>>

Edit(f) ==
    /\ edits < MaxEdits
    /\ edits' = edits + 1
    /\ \E c \in (Contents \cup {None}) \ {disk[f]} : disk' = [disk EXCEPT ![f] = c]
    /\ touched' = touched \cup {Folder[f]}
    /\ UNCHANGED <<index, summary, phase, known, left, walked, missed, dirty,
                   failed, healthy, owed, lost, runs, faults>>

Next ==
    \/ Start
    \/ \E f \in Files : Walk(f) \/ RemoveStale(f) \/ Edit(f)
    \/ Clean
    \/ Cleaned
    \/ \E d \in Folders : Reconcile(d)
    \/ End
    \/ Stop

Spec == Init /\ [][Next]_vars

------------------------------------------------------------------------------
(* Properties. *)

\* After a healthy run the summary of every folder lists the folder as it is,
\* and only folders that exist have one, unless it was edited meanwhile, or
\* a step about it failed or took the folder for something else than what the
\* index holds, and nothing has been put right since.
SummariesFollow ==
    phase = "rest" /\ healthy =>
        \A d \in Folders \ (touched \cup owed) : summary[d] = Listing(d)

\* A walk that had errors or saw less than half as many files as there were
\* removes nothing from the index.
CleanupIsCautious ==
    lost # {} => ~missed /\ Cardinality(walked) * 2 >= Cardinality(known)

FoldersFollow == SummariesFollow /\ CleanupIsCautious

\* A run without any error leaves no summary behind.  It does: a summary that
\* failed is not tried again until a file of its folder changes
\* (docs/reviews/2026-09-04-personal-memory-correctness-review.md:102).
SummariesCatchUp ==
    phase = "rest" /\ healthy /\ ~failed /\ runs = MaxRuns =>
        \A d \in Folders \ touched : summary[d] = Listing(d)
================================================================================
