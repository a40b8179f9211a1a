---------------------------- MODULE FactMaintenance ----------------------------
(***************************************************************************)
(* The operator's commands that change the payloads of stored facts under  *)
(* a manifest: `maintenance analyze`, `quarantine` and `restore`           *)
(* (internal/memory/maintenance, cmd/maintenance) and the lifecycle        *)
(* migration with its rollback (internal/lifecyclemigration,               *)
(* cmd/migrate-memory-lifecycle).  One command runs at a time; it may be   *)
(* interrupted or killed between any two steps and run again.              *)
(*                                                                         *)
(* The server writes facts between two commands.  Each command demands     *)
(* that writers are stopped, but quarantine and restore are written to     *)
(* survive one that is not: it may write while they run.                   *)
(***************************************************************************)
EXTENDS Naturals, Sequences, FiniteSetsExt

CONSTANTS
    NumPoints,     \* the facts' point IDs, in the order commands visit them
    MaxAnalyses,   \* bound: analyses run
    MaxWrites,     \* bound: writes of the server
    MaxRuns,       \* bound: commands started
    Unset, Active, \* no maintenance field; an explicit "active"
    Torn,          \* a rollback manifest cut short by a crash
    None           \* no point, no finding, no file

Points == 1 .. NumPoints
Batches == 1 .. MaxAnalyses

\* What the commands read of a payload.  life: no lifecycle field, the
\* migration's target, or anything else; status: no maintenance field, an
\* explicit "active", or the batch that quarantined the fact; rev: the rest
\* of the payload; due: it has expired or outlived its retention.
Payloads == [life : {"legacy", "applied", "other"},
             status : {Unset, Active} \cup Batches,
             rev : 0 .. MaxWrites,
             due : BOOLEAN]
Outcomes == {"pending", "updated", "already_applied", "not_found", "protected",
             "conflict", "failed", "ambiguous"}

\* A field that is absent or "active" is no batch, and nil is no payload and
\* no file.
MaintenanceAssumption ==
    /\ NumPoints \in Nat /\ MaxAnalyses \in Nat /\ MaxWrites \in Nat
    /\ Unset \notin Batches /\ Active \notin Batches
    /\ None \notin Payloads
    /\ \A S \in SUBSET Points : S \notin {None, Torn}

VARIABLES
    point,      \* point[p]: the stored payload, or None
    writes,     \* number of writes of the server
    moving,     \* calls of update_fact between their two writes: <<old ID, new ID>>
    runs,       \* number of commands started
    manifests,  \* the saved analyses: batch -> point -> finding
    record,     \* the migration's rollback manifest: None, Torn, or the
                \* set of points it lists
    cmd,        \* the running command, or "none"
    batch,      \* the batch of the manifest it was given
    rest,       \* points it has still to visit
    at,         \* "look", "sent" (a write is dispatched) or "report"
    out,        \* the outcome of each point
    cancelled,  \* the command was interrupted
    before,     \* observer: what was stored when the command began
    touched,    \* observer: points the server wrote since the command began
    suspect,    \* observer: points a command left with an unverified write
    carried     \* observer: points that have the migration's lifecycle because
                \* update_fact took it there

vars == <<point, writes, moving, runs, manifests, record, cmd, batch, rest, at,
          out, cancelled, before, touched, suspect, carried>>
server == <<writes, moving, carried>>
store == <<point, server, before, touched>>
files == <<manifests, record>>
command == <<cmd, batch, rest, at, out, cancelled>>

Stored(p) == point[p] # None
Hidden(p) == Stored(p) /\ point[p].status \in Batches
HaveTarget(facts) == {p \in Points : facts[p] # None /\ facts[p].life = "applied"}
Listed == IF record \in {None, Torn} THEN {} ELSE record

Init ==
    /\ point \in [Points -> {None} \cup {[life |-> "legacy", status |-> Unset, rev |-> 0,
                                         due |-> d] : d \in BOOLEAN}]
    /\ writes = 0
    /\ moving = {}
    /\ carried = {}
    /\ runs = 0
    /\ manifests = <<>>
    /\ record = None
    /\ cmd = "none"
    /\ batch = 0
    /\ rest = {}
    /\ at = "look"
    /\ out = [p \in Points |-> "pending"]
    /\ cancelled = FALSE
    /\ before = [p \in Points |-> None]
    /\ touched = {}
    /\ suspect = {}

------------------------------------------------------------------------------
(* Fingerprints. *)

\* matchesFinding: the payload has the finding's fingerprint; where the
\* quarantine fields may have changed, it has it without them, or with an
\* explicit active status in their place.
Fingerprint(p, f) == point[p] = f
Projected(p, f) ==
    \/ Fingerprint(p, f)
    \/ /\ f.status \in {Unset, Active}
       /\ [point[p] EXCEPT !.status = f.status] = f

\* classify: what an analysis says of a fact, if it says anything.
Finding(p) ==
    IF Stored(p) /\ (point[p].due \/ Hidden(p)) THEN point[p] ELSE None

Found(b) == {p \in Points : manifests[b][p] # None}
Eligible(f) == f.due /\ f.status \in {Unset, Active}

------------------------------------------------------------------------------
(* maintenance analyze, quarantine and restore. *)

Analyze ==
    /\ cmd = "none"
    /\ Len(manifests) < MaxAnalyses
    /\ manifests' = Append(manifests, [p \in Points |-> Finding(p)])
    /\ UNCHANGED <<store, runs, record, command, suspect>>

Begin(c, b, selection) ==
    /\ cmd = "none"
    /\ runs < MaxRuns
    /\ runs' = runs + 1
    /\ cmd' = c
    /\ batch' = b
    /\ rest' = selection
    /\ at' = IF selection = {} THEN "report" ELSE "look"
    /\ out' = [p \in Points |-> "pending"]
    /\ cancelled' = FALSE
    /\ before' = point
    /\ touched' = {}

\* Run and validateRequest: points named by the manifest, or all the eligible.
Maintain ==
    /\ \E c \in {"quarantine", "restore"}, b \in DOMAIN manifests :
          \E selection \in SUBSET Found(b) \ {{}} : Begin(c, b, selection)
    /\ UNCHANGED <<point, server, files, suspect>>

Current == Min(rest)

\* The visit of the current point ends with the given outcome.
Outcome(o) ==
    /\ out' = [out EXCEPT ![Current] = o]
    /\ rest' = rest \ {Current}
    /\ at' = IF rest = {Current} THEN "report" ELSE "look"

\* A visit without a write.
Settle(o) ==
    /\ Outcome(o)
    /\ UNCHANGED <<store, runs, files, cmd, batch, cancelled, suspect>>

Dispatch ==
    /\ at' = "sent"
    /\ UNCHANGED <<store, runs, files, cmd, batch, rest, out, cancelled, suspect>>

\* apply: what the command makes of the point it reads.  "write" stands for
\* going on to the dispatch.
QuarantineDecision(p, f) ==
    IF Hidden(p)
    THEN IF point[p].status = batch /\ Projected(p, f)
         THEN "already_applied" ELSE "conflict"
    ELSE IF Fingerprint(p, f) THEN "write" ELSE "conflict"

RestoreDecision(p, f) ==
    IF Hidden(p)
    THEN IF point[p].status = batch /\ Projected(p, f) THEN "write" ELSE "conflict"
    ELSE IF Projected(p, f) THEN "already_applied" ELSE "conflict"

Decision(p) ==
    LET f == manifests[batch][p] IN
    IF ~Eligible(f) THEN "protected"
    ELSE IF ~Stored(p) THEN "not_found"
    ELSE IF cmd = "quarantine" THEN QuarantineDecision(p, f)
    ELSE RestoreDecision(p, f)

Maintaining == cmd \in {"quarantine", "restore"} /\ rest # {}

Look ==
    /\ Maintaining
    /\ at = "look"
    /\ \/ Settle("failed")              \* interrupted, or the read failed
       \/ /\ ~cancelled
          /\ IF Decision(Current) = "write" THEN Dispatch
             ELSE Settle(Decision(Current))

\* QuarantineMaintenance and RestoreMaintenance replace the maintenance
\* fields of whatever is stored by then, and create no point.
Written(p) ==
    [point EXCEPT ![p] =
        IF @ = None THEN None
        ELSE [@ EXCEPT !.status = IF cmd = "quarantine" THEN batch ELSE Active]]

\* verifyQuarantine and verifyRestore, on what a second read returns.
\* Mutant: a write that was answered is taken for verified.
NotVerified(p) == TRUE

Verified(p) ==
    /\ Stored(p)
    /\ Projected(p, manifests[batch][p])
    /\ point[p].status = IF cmd = "quarantine" THEN batch ELSE Active

\* The write is applied, and is answered or not; or it is lost.  Mutant: one
\* that is not answered counts as failed.
UnansweredAsFailed == "failed"
Unanswered == "ambiguous"

Write ==
    /\ Maintaining
    /\ at = "sent"
    /\ \/ /\ point' = Written(Current)
          /\ at' = "verify"
          /\ suspect' = suspect \cup {Current}
          /\ UNCHANGED <<rest, out>>
       \/ /\ point' \in {point, Written(Current)}
          /\ Outcome(Unanswered)
          /\ suspect' = suspect \cup {Current}
    /\ UNCHANGED <<server, before, touched, runs, files, cmd, batch, cancelled>>

Verify ==
    /\ Maintaining
    /\ at = "verify"
    /\ \/ /\ ~cancelled
          /\ Verified(Current)
          /\ Outcome("updated")
          /\ suspect' = suspect \ {Current}
       \/ /\ Outcome("ambiguous")
          /\ UNCHANGED suspect
    /\ UNCHANGED <<store, runs, files, cmd, batch, cancelled>>

------------------------------------------------------------------------------
(* The lifecycle migration and its rollback. *)

\* scan and isLegacy.
Legacy == {p \in Points : Stored(p) /\ point[p].life = "legacy"}

\* apply, up to its loop.  The points of an existing manifest are migrated,
\* never those of a new scan.  createManifest removes a file it could not
\* finish; a crash leaves it, and readManifest or the checksum rejects it.
\* Writers are stopped: no call of theirs is under way.  Mutant: the collection
\* is scanned again.
ScannedAgain == Legacy
Entries == IF record = None THEN Legacy ELSE record

Apply ==
    /\ record # Torn
    /\ moving = {}
    /\ Begin("apply", 0, Entries)
    /\ record' = IF record = None THEN Legacy ELSE record
    /\ UNCHANGED <<point, server, manifests, suspect>>

ApplyCrash ==
    /\ cmd = "none"
    /\ record = None
    /\ runs < MaxRuns
    /\ runs' = runs + 1
    /\ record' = Torn
    /\ UNCHANGED <<store, manifests, command, suspect>>

\* The operator removes the rejected file.
RemoveTorn ==
    /\ record = Torn
    /\ record' = None
    /\ UNCHANGED <<store, runs, manifests, command, suspect>>

Rollback ==
    /\ record \notin {None, Torn}
    /\ moving = {}
    /\ Begin("rollback", 0, record)
    /\ UNCHANGED <<point, server, files, suspect>>

Migrating == cmd \in {"apply", "rollback"} /\ rest # {}

From == IF cmd = "apply" THEN "legacy" ELSE "applied"
To == IF cmd = "apply" THEN "applied" ELSE "legacy"
Migrated(p) == [point EXCEPT ![p].life = To]

\* One entry: the point is read and, if its lifecycle is the one the command
\* starts from, written.  A failed read or write ends the command.
Entry ==
    /\ Migrating
    /\ at = "look"
    /\ ~cancelled
    /\ IF Current \in {p \in Points : Stored(p) /\ point[p].life = From}
       THEN point' = Migrated(Current) /\ Outcome("updated")
       ELSE /\ UNCHANGED point
            /\ Outcome(IF cmd = "apply" /\ Stored(Current)
                          /\ point[Current].life = "applied"
                       THEN "already_applied" ELSE "conflict")
    /\ UNCHANGED <<server, before, touched, runs, files, cmd, batch, cancelled, suspect>>

EntryFails ==
    /\ Migrating
    /\ at = "look"
    /\ point' \in {point} \cup
          (IF Stored(Current) /\ point[Current].life = From
           THEN {Migrated(Current)} ELSE {})
    /\ out' = [out EXCEPT ![Current] = "failed"]
    /\ at' = "report"
    /\ UNCHANGED <<server, before, touched, runs, files, cmd, batch, rest, cancelled,
                   suspect>>

------------------------------------------------------------------------------
(* The end of a command, and its environment. *)

\* The process ends and its variables with it.
Exit ==
    /\ cmd # "none"
    /\ cmd' = "none"
    /\ batch' = 0
    /\ rest' = {}
    /\ at' = "look"
    /\ out' = [p \in Points |-> "pending"]
    /\ cancelled' = FALSE
    /\ before' = [p \in Points |-> None]
    /\ touched' = {}
    /\ UNCHANGED <<point, server, runs, files, suspect>>

\* The journal or the summary is written, or not.
Report == at = "report" /\ Exit

Crash == at # "report" /\ Exit

Interrupt ==
    /\ cmd # "none"
    /\ ~cancelled
    /\ cancelled' = TRUE
    /\ UNCHANGED <<store, runs, files, cmd, batch, rest, at, out, suspect>>

\* The server refuses to change a quarantined fact, unless it read the fact
\* before the command's write and replaces all of it after.  The stripes keep
\* other tools from a fact that is being moved; recall counts, which take none,
\* are left out for that moment.
MayWrite(p) ==
    /\ \/ cmd = "none" /\ ~Hidden(p)
       \/ Maintaining /\ (~Hidden(p) \/ (at = "verify" /\ p = Current))
    /\ \A m \in moving : p \notin {m[1], m[2]}

Touched(p) == IF cmd = "none" THEN {} ELSE touched \cup {p}

\* What a call makes of the stored fact p: an explicit lifecycle always carries
\* the time of its transition, which the migration's target lacks; without one
\* the lifecycle stays, as do the maintenance fields.
Changed(p) ==
    {[life |-> life,
      status |-> IF Hidden(p) THEN manifests[batch][p].status ELSE point[p].status,
      rev |-> writes + 1, due |-> due] :
         life \in {point[p].life, "other"}, due \in BOOLEAN}

\* A new fact has no maintenance field, and the migration's lifecycle neither.
New == {[life |-> life, status |-> Unset, rev |-> writes + 1, due |-> due] :
           life \in {"legacy", "other"}, due \in BOOLEAN}

\* A write of the server: the fact is stored, changed in its place or deleted.
ServerWrite(p) ==
    /\ MayWrite(p)
    /\ writes < MaxWrites
    /\ writes' = writes + 1
    /\ \E f \in IF Stored(p) THEN Changed(p) \cup {None} ELSE New :
          point' = [point EXCEPT ![p] = f]
    /\ touched' = Touched(p)
    /\ carried' = carried \cap HaveTarget(point')
    /\ UNCHANGED <<moving, runs, files, command, before, suspect>>

\* update_fact with another text: the fact with all its fields is stored under
\* the ID of the text, if that is free, ...
ServerMove(p, q) ==
    /\ MayWrite(p) /\ Stored(p)
    /\ MayWrite(q) /\ ~Stored(q)
    /\ writes < MaxWrites
    /\ writes' = writes + 1
    /\ \E f \in Changed(p) : point' = [point EXCEPT ![q] = f]
    /\ moving' = moving \cup {<<p, q>>}
    /\ touched' = Touched(q)
    /\ carried' = (carried \cup {q}) \cap HaveTarget(point')
    /\ UNCHANGED <<runs, files, command, before, suspect>>

\* ... and then deleted under its old ID, unless that fails or the server stops.
ServerLeaves(p, q) ==
    /\ <<p, q>> \in moving
    /\ moving' = moving \ {<<p, q>>}
    /\ point' \in {point, [point EXCEPT ![p] = None]}
    /\ touched' = Touched(p)
    /\ carried' = carried \cap HaveTarget(point')
    /\ UNCHANGED <<writes, runs, files, command, before, suspect>>

Next ==
    \/ Analyze
    \/ Maintain
    \/ Look
    \/ Write
    \/ Verify
    \/ Apply
    \/ ApplyCrash
    \/ RemoveTorn
    \/ Rollback
    \/ Entry
    \/ EntryFails
    \/ Report
    \/ Interrupt
    \/ Crash
    \/ \E p \in Points : ServerWrite(p)
    \/ \E p, q \in Points : ServerMove(p, q)
    \/ \E p, q \in Points : ServerLeaves(p, q)

Spec == Init /\ [][Next]_vars

------------------------------------------------------------------------------
(* Properties. *)

TypeOK ==
    /\ point \in [Points -> Payloads \cup {None}]
    /\ writes \in 0 .. MaxWrites
    /\ moving \subseteq Points \X Points
    /\ runs \in 0 .. MaxRuns
    /\ DOMAIN manifests \subseteq Batches
    /\ record \in {None, Torn} \cup SUBSET Points
    /\ cmd \in {"none", "quarantine", "restore", "apply", "rollback"}
    /\ rest \subseteq Points
    /\ at \in {"look", "sent", "verify", "report"}
    /\ out \in [Points -> Outcomes]
    /\ suspect \subseteq Points
    /\ carried \subseteq Points

\* The outcomes a command reports are what it did, whatever calls failed and
\* wherever it was interrupted: a reported change is in the collection and
\* changed nothing else; a fact reported as unchanged, missing or failed was
\* left as it was.  Facts the server wrote meanwhile are excepted, and only an
\* "ambiguous" outcome says nothing.
Reported(p) ==
    /\ out[p] \in {"updated", "already_applied"} =>
          /\ Stored(p)
          /\ IF cmd \in {"quarantine", "restore"}
             THEN /\ Projected(p, manifests[batch][p])
                  /\ IF cmd = "quarantine" THEN point[p].status = batch ELSE ~Hidden(p)
                  /\ [point[p] EXCEPT !.status = before[p].status] = before[p]
             ELSE point[p] = [before[p] EXCEPT !.life = To]
    /\ \/ out[p] \in {"pending", "not_found", "protected", "conflict"}
       \/ out[p] = "failed" /\ cmd \in {"quarantine", "restore"}
       => point[p] = before[p]

ReportIsTrue ==
    cmd # "none" /\ at = "report" => \A p \in Points \ touched : Reported(p)

\* A fact is hidden only in the form in which the analysis found it due: if
\* it changed between the analysis and the write that hid it, the command did
\* not report success ("a concurrent write that cannot be verified is
\* ambiguous, never success").
HiddenWasReviewed ==
    \A p \in Points :
        Hidden(p) /\ p \notin suspect =>
            LET f == manifests[point[p].status][p] IN
            /\ Eligible(f)
            /\ f.rev = point[p].rev

\* No fact has the migration's lifecycle before a complete rollback manifest
\* is there, and each that has it is listed there, across crashes, removed
\* files and repeated runs, except where update_fact took it with the fact to
\* another ID: those a rollback does not reach.
MigrationIsOnRecord ==
    /\ HaveTarget(point) # {} => record \notin {None, Torn}
    /\ HaveTarget(point) \ carried \subseteq Listed
=============================================================================
