--------------------------- MODULE MaintenancePurge ---------------------------
(***************************************************************************)
(* `maintenance purge` (internal/memory/maintenance/purge.go): an operator *)
(* runs it, again and again with the same manifest, selection, journal and *)
(* archive path, until every selected point is gone.  The first run takes  *)
(* a snapshot of the collection, downloads it to an archive file and binds *)
(* both to the journal; a later run resumes from the journal.  The process *)
(* may be interrupted (its context is cancelled) or crash between any two  *)
(* steps, and every remote call and file operation may fail.               *)
(*                                                                         *)
(* The collection has no other writer during a run (the command requires   *)
(* --confirm-server-stopped), but writers may run between two of them.     *)
(***************************************************************************)
EXTENDS Naturals

CONSTANTS
    Points,         \* the selected point IDs
    MaxSnapshots,   \* bound: snapshots taken
    None

Snapshots == 1 .. MaxSnapshots

\* due: quarantined in the manifest's batch, old enough, fingerprint
\* unchanged; other: the same fact, but restored or not old enough;
\* replaced: a payload with another fingerprint under the same ID.
PointStates == {"due", "other", "replaced", "gone"}

Statuses == {"pending", "dispatching", "deleted", "already_applied",
             "not_found", "protected", "conflict", "failed", "ambiguous"}
Successes == {"deleted", "already_applied"}
EvidenceStatuses == {"dispatching", "deleted", "ambiguous", "already_applied"}

\* What Result keeps for a later run.  A snapshot's archive is identified by
\* its SHA-256, here by the snapshot itself.
Results == [snap : Snapshots \cup {None}, sha : Snapshots \cup {None},
            out : [Points -> Statuses]]

PurgeAssumption ==
    /\ MaxSnapshots \in Nat
    /\ None \notin 1 .. MaxSnapshots
    /\ None \notin Results

VARIABLES
    points,       \* points[p]: what is stored under p
    snapshots,    \* the snapshots Qdrant lists
    taken,        \* number of snapshots taken
    contents,     \* contents[s]: the points in snapshot s
    archive,      \* the snapshot in the archive file, or None
    journal,      \* the Result in the journal file, or None
    pc,           \* where the run is, "off" between two runs
    result,       \* the Result in memory
    resuming,     \* the run resumes from a journal
    evidence,     \* points with resume evidence in that journal
    rest,         \* points the loop has still to visit
    current,      \* the point whose deletion is dispatched, or None
    dispatched,   \* this run has dispatched a delete
    cancelled,    \* the run's context is cancelled
    purged        \* observer: points deleted by purge and not stored again

storeVars == <<points, snapshots, taken, contents>>
runVars == <<resuming, evidence, cancelled>>
vars == <<points, snapshots, taken, contents, archive, journal, pc, result,
          resuming, evidence, rest, current, dispatched, cancelled, purged>>

TypeOK ==
    /\ points \in [Points -> PointStates]
    /\ snapshots \subseteq Snapshots
    /\ taken \in 0 .. MaxSnapshots
    /\ contents \in [Snapshots -> SUBSET Points]
    /\ archive \in Snapshots \cup {None}
    /\ journal \in Results \cup {None}
    /\ pc \in {"off", "create", "prove", "archive", "bind", "loop", "delete",
               "record"}
    /\ result \in Results
    /\ resuming \in BOOLEAN
    /\ evidence \in SUBSET Points
    /\ rest \in SUBSET Points
    /\ current \in Points \cup {None}
    /\ dispatched \in BOOLEAN
    /\ cancelled \in BOOLEAN
    /\ purged \in SUBSET Points

All(status) == [p \in Points |-> status]
NoResult == [snap |-> None, sha |-> None, out |-> All("failed")]

Init ==
    /\ points \in [Points -> PointStates]
    /\ snapshots = {}
    /\ taken = 0
    /\ contents = [s \in Snapshots |-> {}]
    /\ archive = None
    /\ journal = None
    /\ pc = "off"
    /\ result = NoResult
    /\ resuming = FALSE
    /\ evidence = {}
    /\ rest = {}
    /\ current = None
    /\ dispatched = FALSE
    /\ cancelled = FALSE
    /\ purged = {}

------------------------------------------------------------------------------
(* The journal. *)

\* checkpointPurge: write r, under a context that survives the cancellation
\* of the run when shielded, and go on at the place next.  A failed write
\* ends the run; it may have replaced the file (the directory's fsync is the
\* last step of WriteResultJournal).
\* Mutant: a failed write is ignored.
CheckpointBestEffort(r, shielded, next) ==
    /\ result' = r
    /\ journal' \in {journal, r}
    /\ pc' = next

Checkpoint(r, shielded, next) ==
    /\ result' = r
    /\ \/ /\ shielded \/ ~cancelled
          /\ journal' = r
          /\ pc' = next
       \/ /\ journal' \in {journal, r}
          /\ pc' = "off"

\* Runs that create the snapshot have dispatched a mutation from then on.
Shielded == ~resuming \/ dispatched

WithStatus(r, p, status) == [r EXCEPT !.out[p] = status]
AllFailed(r) == [r EXCEPT !.out = All("failed")]

\* readCompatiblePurgeJournal and resumeEvidence.  A journal without a
\* snapshot holds nothing to resume.  Mutant: neither does one in which no
\* delete was dispatched.
ResumeDispatchedOnly ==
    journal # None /\ \E p \in Points : journal.out[p] \in EvidenceStatuses

Resumable == journal # None /\ journal.snap # None

Evidence(j) ==
    IF j = None THEN {} ELSE {p \in Points : j.out[p] \in EvidenceStatuses}

Start ==
    /\ pc = "off"
    /\ resuming' = Resumable
    /\ evidence' = IF Resumable THEN Evidence(journal) ELSE {}
    /\ result' = IF Resumable THEN journal ELSE NoResult
    /\ pc' = IF Resumable THEN "prove" ELSE "create"
    /\ rest' = Points
    /\ current' = None
    /\ dispatched' = FALSE
    /\ cancelled' = FALSE
    /\ UNCHANGED <<storeVars, archive, journal, purged>>

------------------------------------------------------------------------------
(* The recovery point. *)

TakeSnapshot ==
    /\ taken < MaxSnapshots
    /\ taken' = taken + 1
    /\ snapshots' = snapshots \cup {taken + 1}
    /\ contents' = [contents EXCEPT ![taken + 1] =
                       {p \in Points : points[p] # "gone"}]

CreateSnapshot ==
    /\ pc = "create"
    /\ \/ /\ ~cancelled
          /\ TakeSnapshot
          /\ result' = [snap |-> taken + 1, sha |-> None,
                        out |-> All("pending")]
          /\ pc' = "prove"
          /\ UNCHANGED journal
       \/ /\ TakeSnapshot \/ UNCHANGED <<taken, snapshots, contents>>
          /\ Checkpoint(NoResult, TRUE, "off")
    /\ UNCHANGED <<points, archive, runVars, rest, current, dispatched, purged>>

\* What the run reports when it ends before the loop.  Mutants: a resumed run
\* reports failures too; a first run reports no failures.
RefusedAlways == AllFailed(result)
RefusedNever == result

Refused == IF resuming THEN result ELSE AllFailed(result)

ProveSnapshot ==
    /\ pc = "prove"
    /\ \/ /\ ~cancelled
          /\ result.snap \in snapshots
          /\ pc' = "archive"
          /\ UNCHANGED <<result, journal>>
       \/ Checkpoint(Refused, ~resuming \/ evidence # {}, "off")
    /\ UNCHANGED <<storeVars, archive, runVars, rest, current, dispatched,
                   purged>>

\* EnsureSnapshotArchive: an archive bound to the journal is only verified;
\* otherwise the snapshot is downloaded, and an existing file must be equal
\* to it.
ArchiveAvailable ==
    IF result.sha # None
    THEN archive = result.sha
    ELSE /\ ~cancelled
         /\ result.snap \in snapshots
         /\ archive \in {None, result.snap}

EnsureArchive ==
    /\ pc = "archive"
    /\ \/ /\ ArchiveAvailable
          /\ archive' = result.snap
          /\ result' = [result EXCEPT !.sha = result.snap]
          /\ pc' = "bind"
          /\ UNCHANGED journal
       \/ /\ \/ UNCHANGED archive
             \/ ArchiveAvailable /\ archive' = result.snap
          /\ Checkpoint(Refused, ~resuming \/ evidence # {}, "off")
    /\ UNCHANGED <<storeVars, runVars, rest, current, dispatched, purged>>

\* Persist snapshot, archive and selection before the first deletion.
Bind ==
    /\ pc = "bind"
    /\ Checkpoint(result, ~resuming \/ evidence # {}, "loop")
    /\ UNCHANGED <<storeVars, archive, runVars, rest, current, dispatched,
                   purged>>

------------------------------------------------------------------------------
(* The loop over the selected points. *)

\* The run was interrupted: the remaining points are not visited.
SkipPoint(p) ==
    /\ pc = "loop"
    /\ p \in rest
    /\ cancelled
    /\ Checkpoint(IF p \in evidence THEN result
                  ELSE WithStatus(result, p, "failed"),
                  Shielded \/ evidence # {}, "loop")
    /\ rest' = rest \ {p}
    /\ UNCHANGED <<storeVars, archive, runVars, current, dispatched, purged>>

\* purgeOne's gates: metadata, age and payload fingerprint.  Mutant: the
\* fingerprint is not compared.
FingerprintIgnored(p) == points[p] \in {"due", "replaced"}

Passes(p) == points[p] = "due"

\* Mutants: the evidence is trusted without reading the point; the outcome of
\* the quarantine workflow is reported.
TrustEvidence(p) == {IF p \in evidence THEN "already_applied" ELSE "failed"}
QuarantineOutcome(p) == {"updated"}

\* purgeOne refuses: the point cannot be read or the snapshot cannot be
\* proved again, the point is gone, or it does not pass the gates.
Refusals(p) ==
    {"failed"} \cup
    (CASE points[p] = "gone" ->
              {IF p \in evidence THEN "already_applied" ELSE "not_found"}
       [] points[p] = "other" -> {"conflict", "protected"}
       [] points[p] = "replaced" -> {"conflict"}
       [] points[p] = "due" -> {})

RefusePoint(p) ==
    /\ pc = "loop"
    /\ p \in rest
    /\ \E status \in Refusals(p) :
          Checkpoint(WithStatus(result, p, status), Shielded, "loop")
    /\ rest' = rest \ {p}
    /\ UNCHANGED <<storeVars, archive, runVars, current, dispatched, purged>>

\* The point passes the gates, the snapshot still exists: journal the
\* dispatch, then delete.
DispatchDelete(p) ==
    /\ pc = "loop"
    /\ p \in rest
    /\ ~cancelled
    /\ Passes(p)
    /\ result.snap \in snapshots
    /\ Checkpoint(WithStatus(result, p, "dispatching"), Shielded, "delete")
    /\ current' = p
    /\ UNCHANGED <<storeVars, archive, runVars, rest, dispatched, purged>>

\* DeleteExactStrong and the read that verifies it.
Delete ==
    /\ pc = "delete"
    /\ \/ /\ points' = [points EXCEPT ![current] = "gone"]
          /\ purged' = purged \cup {current}
          /\ \E status \in {"deleted", "ambiguous"} :
                result' = WithStatus(result, current, status)
       \/ /\ result' = WithStatus(result, current, "ambiguous")
          /\ UNCHANGED <<points, purged>>
    /\ dispatched' = TRUE
    /\ pc' = "record"
    /\ UNCHANGED <<snapshots, taken, contents, archive, journal, runVars, rest,
                   current>>

Record ==
    /\ pc = "record"
    /\ Checkpoint(result, Shielded, "loop")
    /\ rest' = rest \ {current}
    /\ current' = None
    /\ UNCHANGED <<storeVars, archive, runVars, dispatched, purged>>

Finished == pc = "loop" /\ rest = {}

Finish ==
    /\ Finished
    /\ pc' = "off"
    /\ UNCHANGED <<storeVars, archive, journal, runVars, result, rest, current,
                   dispatched, purged>>

------------------------------------------------------------------------------
(* The environment. *)

Interrupt ==
    /\ pc # "off"
    /\ cancelled' = TRUE
    /\ UNCHANGED <<storeVars, archive, journal, pc, result, resuming, evidence,
                   rest, current, dispatched, purged>>

Crash ==
    /\ pc # "off"
    /\ pc' = "off"
    /\ UNCHANGED <<storeVars, archive, journal, runVars, result, rest, current,
                   dispatched, purged>>

\* KEEP_SNAPSHOTS rotation removes snapshots at any time.
Rotate(s) ==
    /\ s \in snapshots
    /\ snapshots' = snapshots \ {s}
    /\ UNCHANGED <<points, taken, contents, archive, journal, pc, result,
                   runVars, rest, current, dispatched, purged>>

\* Between two runs a point is restored, quarantined again or comes of age;
\* an active one is rewritten or deleted; a missing one is stored anew.  No
\* payload gets back a fingerprint it has lost.
OtherWriter(p) ==
    /\ pc = "off"
    /\ \E now \in PointStates :
          /\ <<points[p], now>> \in
                {<<"due", "other">>, <<"other", "due">>,
                 <<"other", "replaced">>, <<"other", "gone">>,
                 <<"replaced", "gone">>, <<"gone", "replaced">>}
          /\ points' = [points EXCEPT ![p] = now]
          /\ purged' = IF now = "gone" THEN purged ELSE purged \ {p}
    /\ UNCHANGED <<snapshots, taken, contents, archive, journal, pc, result,
                   runVars, rest, current, dispatched>>

Next ==
    \/ Start
    \/ CreateSnapshot
    \/ ProveSnapshot
    \/ EnsureArchive
    \/ Bind
    \/ \E p \in Points :
          SkipPoint(p) \/ RefusePoint(p) \/ DispatchDelete(p) \/ OtherWriter(p)
    \/ Delete
    \/ Record
    \/ Finish
    \/ Interrupt
    \/ Crash
    \/ \E s \in Snapshots : Rotate(s)

Spec == Init /\ [][Next]_vars

------------------------------------------------------------------------------
(* Properties. *)

\* Whatever purge has deleted is in the archive, and the journal names that
\* archive: a resumed run never replaces the recovery point with one taken
\* after a partial deletion, across crashes and failed checkpoints.
Recoverable ==
    \A p \in purged :
        /\ archive # None
        /\ p \in contents[archive]
        /\ journal # None
        /\ journal.sha = archive

\* A delete is on the wire only while the journal on disk says so, so that a
\* crash leaves evidence for the next run.
DispatchIsDurable ==
    pc = "delete" =>
        /\ journal = result
        /\ journal.out[current] = "dispatching"
        /\ journal.sha = archive

\* A run that was not interrupted and reports success leaves none of the
\* selected points, although some were deleted by an earlier run and may
\* have been stored again since.
SuccessMeansGone ==
    Finished /\ ~cancelled /\ (\A p \in Points : result.out[p] \in Successes)
        => \A p \in Points : points[p] = "gone"

\* Failures before the loop never erase the evidence of dispatched deletes:
\* only the turn of a point itself may replace its evidence.
PreflightKeepsEvidence ==
    [][\A p \in Evidence(journal) \ Evidence(journal') :
          pc = "loop" /\ p \in rest]_vars

\* Once an archive is bound, the journal keeps it and its snapshot for good.
BindingIsPermanent ==
    [][journal # None /\ journal.sha # None =>
          /\ journal'.snap = journal.snap
          /\ journal'.sha = journal.sha]_vars

\* Whatever happens, what the journal has recorded is kept.
JournalKeepsRecord == PreflightKeepsEvidence /\ BindingIsPermanent

\* Every journal that is left behind can be resumed from:
\* readCompatiblePurgeJournal rejects one that names no snapshot or no archive
\* unless all its points failed, and would reject it on every retry.
JournalStaysReadable ==
    journal # None /\ None \in {journal.snap, journal.sha}
        => \A p \in Points : journal.out[p] = "failed"

\* The journal is "recovery state": the evidence of a dispatched delete is
\* there for every later run, whatever fails in between.
EvidenceKept == purged \subseteq Evidence(journal)
=============================================================================
