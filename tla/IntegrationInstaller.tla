------------------------ MODULE IntegrationInstaller ------------------------
(***************************************************************************)
(* The installer of the client bundle (integrationbundle/installer.go,     *)
(* rootfs_unix.go, cmd/memory-integration): install, update, verify and    *)
(* roll back the files that tell a client how to use the memory.           *)
(*                                                                         *)
(* The files are written one after another by atomic renames, after a      *)
(* backup of what they replace; the state file is written last.  A write   *)
(* may fail before the rename or after it, which starts an automatic       *)
(* recovery; the process may die at any step; and the user edits the same  *)
(* files meanwhile.  The flock on the target root admits one installer at  *)
(* a time, so one operation runs at a time.                                *)
(*                                                                         *)
(* A path of kind "file" belongs to the bundle.  A path of kind "shared"   *)
(* (AGENTS.md, settings.json) holds one managed block or hook among the    *)
(* user's own words.  A rendered set, a bundle version with a capability   *)
(* configuration, is a number: every artifact of set v has content v.      *)
(***************************************************************************)
EXTENDS Integers, Sequences, FiniteSets

CONSTANTS
    Kind,       \* Kind[i]: the kind of the artifact written i-th
    Sets,       \* what can be rendered: numbers above 0
    Old,        \* those that only the bundle before this one (0.2.0) rendered
    Keep,       \* keepCompletedBackups
    MaxOps,     \* bound: operations that change something
    MaxEdits,   \* bound: edits by the user
    MaxFaults   \* bound: failing steps and crashes

InstallerAssumption ==
    /\ Kind \in Seq({"file", "shared"}) /\ Kind # <<>>
    /\ Sets \subseteq Nat \ {0} /\ Old \subseteq Sets
    /\ Keep \in Nat \ {0}
    /\ {MaxOps, MaxEdits, MaxFaults} \subseteq Nat

Paths == DOMAIN Kind
Bare == 0     \* no managed content
Edited == -1  \* managed content that the user has changed

VARIABLES
    files,     \* files[p]: managed content and the number of the user's words
    override,  \* the override file: absent, the stub, or the user's
    state,     \* state.json: the set, and the transaction before it
    backups,   \* backups[tx]: what transaction tx replaced
    op,        \* the running operation
    result,    \* how the last operation ended
    made,      \* number of transactions so far
    undone,    \* observer: transactions that a rollback has brought back
    words,     \* observer: words[p], what the user wrote last
    mine,      \* observer: the override is the user's
    raced,     \* observer: an edit fell into a window that is not protected
    tampered,  \* observer: the user has changed managed content
    crashed,   \* observer: an operation died
    edits,     \* number of edits
    faults     \* number of faults

vars == <<files, override, state, backups, op, result, made, undone, words,
          mine, raced, tampered, crashed, edits, faults>>
user == <<words, mine, raced, tampered, edits>>

Absent == [m |-> Bare, u |-> 0]
NoState == [set |-> Bare, tx |-> 0]
Txs == 1 .. MaxOps
NoBackup == [manifest |-> FALSE, intact |-> FALSE,
             files |-> [p \in Paths |-> Absent], state |-> NoState]
Nothing == [p \in Paths |-> Absent]

\* The variables of an operation: its place; the set and the files it was
\* planned with and whether the stub is to be created; the transaction that a
\* rollback undoes; the artifact in hand and its content; the files written
\* and as what; whether it created the stub, wrote anything, tried to write
\* the state, could not read a file back; the files as a restoration expects
\* them, those it has still to restore, and whether it is a recovery.
Idle == [pc |-> "idle", kind |-> "none", set |-> Bare, plan |-> Nothing, stub |-> FALSE,
         from |-> 0, i |-> 1, current |-> Absent, written |-> {}, post |-> Nothing,
         stubbed |-> FALSE, wrote |-> FALSE, attempted |-> FALSE, unread |-> FALSE,
         expected |-> Nothing, todo |-> {}, recovering |-> FALSE]

\* Nothing is installed, or the bundle before this one is.
Init ==
    /\ \E v \in {Bare} \cup Old, u \in {0, 1} :
        /\ files = [p \in Paths |-> IF Kind[p] = "file" THEN [m |-> v, u |-> 0]
                                                       ELSE [m |-> v, u |-> u]]
        /\ state = [set |-> v, tx |-> 0]
        /\ override = IF v = Bare THEN "absent" ELSE "stub"
    /\ backups = [tx \in Txs |-> NoBackup]
    /\ op = Idle
    /\ result = "none"
    /\ made = 0 /\ undone = {}
    /\ words = [p \in Paths |-> files[p].u]
    /\ mine = FALSE
    /\ raced = FALSE /\ tampered = FALSE /\ crashed = FALSE
    /\ edits = 0
    /\ faults = 0

------------------------------------------------------------------------------
(* Content. *)

\* mergeActive: a file is replaced, a block or hook is replaced or added.
Merged(p, current, v) ==
    IF Kind[p] = "file" THEN [m |-> v, u |-> 0] ELSE [current EXCEPT !.m = v]

\* codexManaged, claudeManaged: what of a file is managed.
Managed(p) == files[p].m

\* verifyOwned, against a set.
Owned(v) == \A p \in Paths : Managed(p) = v

\* What Verify says when asked about set v.
Status(v) ==
    IF state = NoState THEN "missing"
    ELSE IF v \in Old \/ state.set # v THEN "incompatible"
    ELSE IF override = "absent" \/ ~Owned(v) THEN "drifted"
    ELSE "installed"

\* Mutant: what a failed install created stays.
RestoredIfBackedUp(p, current, prior, preserve) ==
    IF prior # Absent THEN prior ELSE current

\* What restoreBackup makes of a file; the surroundings are the user's, or
\* those of the backup.
Restored(p, current, prior, preserve) ==
    IF prior # Absent
    THEN IF preserve /\ current # Absent /\ Kind[p] = "shared"
         THEN [current EXCEPT !.m = prior.m] ELSE prior
    ELSE IF Kind[p] = "file" THEN Absent ELSE [current EXCEPT !.m = Bare]

\* removeCodex asks for exactly one block.
Restorable(p, current, prior, preserve) ==
    \/ Kind[p] = "file" \/ current = Absent \/ current.m # Bare
    \/ prior # Absent /\ (~preserve \/ prior.m # Bare)

------------------------------------------------------------------------------
(* Backups. *)

Used == {tx \in Txs : backups[tx] # NoBackup}
NextTx == made + 1
Complete == {tx \in Txs : backups[tx].manifest}

\* Mutant: the backup of the current transaction is not spared.
PrunedOldest(current) ==
    {tx \in Complete :
        Cardinality({u \in Complete : u < tx}) < Cardinality(Complete) - Keep}
    \cup (Used \ Complete)

\* pruneBackups: what has no manifest goes, and of the others the oldest but
\* one, until Keep are left.
Pruned(current) ==
    LET spare == Complete \ {current} IN
    {tx \in spare : Cardinality({u \in spare : u < tx}) < Cardinality(Complete) - Keep}
    \cup (Used \ Complete)

\* loadBackup: the manifest, the contents, and whether they fit the state
\* that they go with.
Loadable(tx) ==
    /\ tx \in Txs /\ backups[tx].manifest /\ backups[tx].intact
    /\ \A p \in Paths : backups[tx].files[p].m = backups[tx].state.set

------------------------------------------------------------------------------
(* Install and update. *)

Ends(r) == op' = Idle /\ result' = r
Goto(l) == op' = [op EXCEPT !.pc = l] /\ UNCHANGED result

Fails == faults < MaxFaults /\ faults' = faults + 1

\* plan.  Without a state nothing managed may be there; with one, everything
\* must be as it says.  Nothing to change is nothing to do.
Plan(v, update) ==
    /\ op = Idle
    /\ NextTx <= MaxOps
    /\ v \notin Old
    /\ IF state = NoState THEN ~update /\ Owned(Bare) ELSE Owned(state.set)
    /\ Owned(v) => override = "absent"
    /\ op' = [Idle EXCEPT !.pc = "backup", !.kind = "apply", !.set = v, !.plan = files,
                          !.stub = (override = "absent")]
    /\ result' = "none"
    /\ UNCHANGED <<files, override, state, backups, made, undone, user, crashed, faults>>

Copy == [manifest |-> TRUE, intact |-> TRUE, files |-> files, state |-> state]

\* createBackup: copies first, the manifest last.
Backup ==
    /\ op.pc = "backup"
    /\ \/ /\ backups' = [backups EXCEPT ![NextTx] = Copy]
          /\ op' = [op EXCEPT !.pc = IF op.kind = "apply" THEN "check" ELSE "restore",
                              !.expected = files, !.todo = Paths]
          /\ UNCHANGED <<result, faults>>
       \/ /\ Fails /\ Ends("failed")
          /\ \E b \in {Copy, [Copy EXCEPT !.manifest = FALSE]} :
                backups' = [backups EXCEPT ![NextTx] = b]
    /\ made' = NextTx
    /\ UNCHANGED <<files, override, state, undone, user, crashed>>

\* revalidate against the plan, then read what the content is merged into.
Check ==
    /\ op.pc = "check"
    /\ IF files[op.i] # op.plan[op.i] THEN Goto("recover")
       ELSE /\ op' = [op EXCEPT
                        !.current = files[op.i],
                        !.pc = IF files[op.i] # Merged(op.i, files[op.i], op.set)
                               THEN "write"
                               ELSE IF op.i < Len(Kind) THEN "check" ELSE "stub",
                        !.i = IF files[op.i] = Merged(op.i, files[op.i], op.set)
                                    /\ op.i < Len(Kind)
                              THEN @ + 1 ELSE @]
            /\ UNCHANGED result
    /\ UNCHANGED <<files, override, state, backups, made, undone, user, crashed, faults>>

\* atomicWriteRelative: the rename, and a sync that may fail after it.
Write ==
    /\ op.pc = "write"
    /\ LET new == [files EXCEPT ![op.i] = Merged(op.i, op.current, op.set)] IN
       \/ files' = new /\ op' = [op EXCEPT !.pc = "record", !.wrote = TRUE]
                       /\ UNCHANGED faults
       \/ Fails /\ UNCHANGED files /\ op' = [op EXCEPT !.pc = "recover"]
       \/ Fails /\ files' = new
                /\ op' = [op EXCEPT !.pc = "record", !.wrote = TRUE,
                                    !.recovering = TRUE]
    /\ UNCHANGED <<override, state, backups, result, made, undone, user, crashed>>

\* recordCommittedWrite: what the file is now, for a recovery to compare.  If
\* it cannot be read the recovery passes it over.
Record ==
    /\ op.pc = "record"
    /\ \/ /\ op' = [op EXCEPT
                      !.written = @ \cup {op.i},
                      !.post = [@ EXCEPT ![op.i] = files[op.i]],
                      !.pc = IF op.recovering THEN "recover"
                             ELSE IF op.i < Len(Kind) THEN "check" ELSE "stub",
                      !.recovering = FALSE,
                      !.i = IF op.i < Len(Kind) THEN @ + 1 ELSE @]
          /\ UNCHANGED faults
       \/ Fails /\ op' = [op EXCEPT !.pc = "recover", !.unread = TRUE,
                                    !.recovering = FALSE]
    /\ UNCHANGED <<files, override, state, backups, result, made, undone, user, crashed>>

\* The override is created by a link, which fails if the user was faster.
Stub ==
    /\ op.pc = "stub"
    /\ IF ~op.stub THEN Goto("final") /\ UNCHANGED <<override, faults>>
       ELSE IF override # "absent"
       THEN Goto("recover") /\ UNCHANGED <<override, faults>>
       ELSE \/ /\ override' = "stub"
               /\ op' = [op EXCEPT !.pc = "final", !.stubbed = TRUE,
                                   !.wrote = TRUE]
               /\ UNCHANGED <<result, faults>>
            \/ Fails /\ Goto("recover") /\ UNCHANGED override
    /\ UNCHANGED <<files, state, backups, made, undone, user, crashed>>

\* The final validation, then state.json.
WriteState ==
    /\ op.pc = "final"
    /\ IF ~Owned(op.set) \/ override = "absent"
       THEN Goto("recover") /\ UNCHANGED <<state, faults>>
       ELSE LET new == [set |-> op.set, tx |-> made] IN
            \/ state' = new /\ Goto("prune") /\ UNCHANGED faults
            \/ /\ Fails
               /\ state' \in {state, new}
               /\ op' = [op EXCEPT !.pc = "recover", !.attempted = TRUE]
               /\ UNCHANGED result
    /\ UNCHANGED <<files, override, backups, made, undone, user, crashed>>

\* pruneBackups fails or dies with the copies of a backup gone and its
\* manifest still there; the operation is done all the same.
Prune(current, r) ==
    /\ \/ /\ backups' = [tx \in Txs |-> IF tx \in Pruned(current) THEN NoBackup
                                                                  ELSE backups[tx]]
          /\ UNCHANGED faults
       \/ /\ Fails
          /\ \E gone \in SUBSET Pruned(current), half \in Pruned(current) :
                backups' = [tx \in Txs |->
                    IF tx = half THEN [backups[tx] EXCEPT !.intact = FALSE]
                    ELSE IF tx \in gone THEN NoBackup ELSE backups[tx]]
    /\ Ends(r)
    /\ UNCHANGED <<files, override, state, made, undone, user, crashed>>

------------------------------------------------------------------------------
(* Recovery of a failed install or update. *)

\* Mutant: the recovery does not compare.
NotCompared == TRUE

\* Nothing is touched when the files are not what the operation left.
Compared ==
    /\ \A p \in op.written : files[p] = op.post[p]
    /\ op.stubbed => override = "stub"

\* recoverApply: the stub goes; then restoreBackup takes its own picture of the
\* files.
Recover ==
    /\ op.pc = "recover"
    /\ IF ~op.wrote THEN Ends("failed") /\ UNCHANGED override
       ELSE IF ~Compared THEN Ends("broken") /\ UNCHANGED override
       ELSE /\ override' = IF op.stubbed THEN "absent" ELSE override
            /\ op' = [op EXCEPT !.pc = "restore", !.expected = files,
                                !.todo = op.written, !.recovering = TRUE]
            /\ UNCHANGED result
    /\ UNCHANGED <<files, state, backups, made, undone, user, crashed, faults>>

------------------------------------------------------------------------------
(* Rollback, and restoreBackup that it shares with the recovery. *)

\* Rollback asks for a verified installation of this bundle and a backup that
\* fits.
StartRollback ==
    /\ op = Idle
    /\ NextTx <= MaxOps
    /\ Status(state.set) = "installed"
    /\ Loadable(state.tx)
    /\ op' = [Idle EXCEPT !.pc = "backup", !.kind = "rollback", !.from = state.tx]
    /\ result' = "none"
    /\ UNCHANGED <<files, override, state, backups, made, undone, user, crashed, faults>>

\* A rollback restores the backup of the transaction that it undoes, around
\* which the user's words stay; a recovery that of its own.
Undoing == op.kind = "rollback" /\ ~op.recovering
Source == IF Undoing THEN op.from ELSE made

\* A rollback that fails restores what it found; a recovery that fails ends.
RestoreFails ==
    IF op.recovering
    THEN Ends("broken")
    ELSE /\ op' = [op EXCEPT !.recovering = TRUE, !.expected = files, !.todo = Paths]
         /\ UNCHANGED result

RestoreFile ==
    LET p == CHOOSE q \in op.todo : \A t \in op.todo : q <= t
        prior == backups[Source].files[p]
        new == [files EXCEPT ![p] = Restored(p, @, prior, Undoing)]
    IN
    /\ op.pc = "restore"
    /\ op.todo # {}
    /\ IF files[p] # op.expected[p]
            \/ ~Restorable(p, files[p], prior, Undoing)
       THEN RestoreFails /\ UNCHANGED <<files, faults>>
       ELSE \/ /\ files' = new
               /\ op' = [op EXCEPT !.todo = @ \ {p}]
               /\ UNCHANGED <<result, faults>>
            \/ Fails /\ files' \in {files, new} /\ RestoreFails
    /\ UNCHANGED <<override, state, backups, made, undone, user, crashed>>

\* The error of an operation that could not read back what it wrote says so.
Failure == IF op.unread THEN "unread" ELSE "failed"

\* The state goes last here too.  An install that did not reach its state
\* has none to restore.
RestoreState ==
    /\ op.pc = "restore"
    /\ op.todo = {}
    /\ IF op.kind = "apply" /\ ~op.attempted
       THEN Ends(Failure) /\ UNCHANGED <<state, undone, faults>>
       ELSE LET old == backups[Source].state IN
            /\ undone' = IF Undoing THEN undone \cup {old.tx} ELSE undone
            /\ \/ /\ state' = old
                  /\ IF op.kind = "apply" THEN Ends(Failure) ELSE Goto("prune")
                  /\ UNCHANGED faults
               \/ Fails /\ state' \in {state, old} /\ RestoreFails
    /\ UNCHANGED <<files, override, backups, made, user, crashed>>

\* The backup that the installation now rests on is kept.
Retain ==
    /\ op.pc = "prune"
    /\ Prune(IF op.kind = "apply" THEN made
             ELSE IF op.recovering THEN op.from
             ELSE backups[op.from].state.tx,
             IF op.kind = "rollback" /\ op.recovering THEN "failed" ELSE "done")

Crash ==
    /\ op # Idle
    /\ Fails
    /\ Ends("crashed")
    /\ crashed' = TRUE
    /\ UNCHANGED <<files, override, state, backups, made, undone, user>>

------------------------------------------------------------------------------
(* The user. *)

Edit ==
    /\ edits < MaxEdits
    /\ edits' = edits + 1
    /\ UNCHANGED <<state, backups, op, result, made, undone, crashed, faults>>

\* Between the reading of a file and its replacement, or the picture that a
\* recovery compares with, an edit is lost; and a rollback that fails puts
\* back the files as they were when it began, without comparing.
Exposed(p) ==
    \/ op.pc \in {"write", "record"} /\ op.i = p
    \/ op.pc = "restore" /\ op.recovering
    \/ op # Idle /\ op.kind = "rollback"

\* The user writes around the managed block.
EditWords(p) ==
    /\ Edit
    /\ Kind[p] = "shared"
    /\ files' = [files EXCEPT ![p].u = words[p] + 1]
    /\ words' = [words EXCEPT ![p] = @ + 1]
    /\ raced' = (raced \/ Exposed(p))
    /\ UNCHANGED <<override, mine, tampered>>

\* The user changes or removes managed content, or puts some where it would
\* go.  (A file put back as it was has another inode and time, and revalidate
\* takes it for changed; so nothing is put back here.)
EditManaged(p) ==
    /\ Edit
    /\ files[p].m # Edited
    /\ \E m \in {Edited, Bare} \ {files[p].m} : files' = [files EXCEPT ![p].m = m]
    /\ tampered' = TRUE
    /\ UNCHANGED <<override, words, mine, raced>>

EditOverride ==
    /\ Edit
    /\ override' \in {"user", "absent"} \ {override}
    /\ mine' = (override' = "user")
    /\ UNCHANGED <<files, words, raced, tampered>>

Installer ==
    \/ \E v \in Sets, update \in BOOLEAN : Plan(v, update)
    \/ StartRollback
    \/ Backup \/ Check \/ Write \/ Record \/ Stub \/ WriteState
    \/ Recover \/ RestoreFile \/ RestoreState \/ Retain \/ Crash

User == EditOverride \/ \E p \in Paths : EditWords(p) \/ EditManaged(p)

Next == Installer \/ User

Spec == Init /\ [][Next]_vars

------------------------------------------------------------------------------
(* Properties. *)

\* An operation that ends, well or badly, leaves the files of one set and the
\* state that names it; it says so when it could not.  (A crash, a file that
\* could not be read back and the user's own changes are excepted.)
AllOrNothing ==
    op = Idle /\ result # "broken" /\ ~crashed /\ ~tampered /\ result # "unread"
        => Owned(state.set)

\* What the user wrote, around the managed blocks and in the override, survives
\* every operation, recovery and crash, except in the windows of Exposed.
UserWordsKept ==
    ~raced => /\ \A p \in Paths : files[p].u = words[p]
              /\ mine => override = "user"

\* The way back from what is installed is open, however many backups,
\* half-removed ones among them, come and go: unless a rollback has brought
\* back an earlier installation, its backup can be restored.
LastUpdateCanBeUndone ==
    op = Idle /\ state.tx \notin {0} \cup undone => Loadable(state.tx)
=============================================================================
