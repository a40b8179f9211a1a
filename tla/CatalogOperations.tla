-------------------------- MODULE CatalogOperations --------------------------
(***************************************************************************)
(* The context catalog on disk (internal/contextcatalog): immutable        *)
(* snapshots, the pointer to the active one, a publication policy per      *)
(* project, and a journal with an intent and a receipt per operation.      *)
(*                                                                         *)
(* Every call that writes holds the lock file exclusively, so there is one *)
(* call at a time, `call`; the lock goes with the process when it dies.    *)
(* A call ends where a write reports an error, and also where the process  *)
(* crashes: in both cases the write may have happened or not, and a file   *)
(* that is not written by rename may be torn (`torn`).                     *)
(*                                                                         *)
(* A snapshot is named by its hash, here a number; it holds one card per   *)
(* registered project, and a card stands for its description.              *)
(***************************************************************************)
EXTENDS Naturals

CONSTANTS
    Projects,         \* project IDs
    Contents,         \* what the description of a card may be
    OperationIds,     \* the IDs that clients give to restorations
    Reasons,          \* the reasons given for a change of policy
    MaxSnapshots,     \* bound: snapshots made
    MaxRevision,      \* bound: revision of a policy
    None

ASSUME BoundsAssumption == MaxSnapshots \in Nat /\ MaxRevision \in Nat
ASSUME NoneAssumption == None \notin Contents \cup Projects \cup Reasons

Snapshots == 1 .. MaxSnapshots
Cards == [Projects -> Contents \cup {None}]
Policies == [hold : BOOLEAN, revision : 0 .. MaxRevision,
             reason : Reasons \cup {None}]

\* A journal record, as far as its ID and ReconcileOperations depend on it.
\* A hold is identified by the target of its restoration.
Operations == [kind : {"publish", "restore", "policy", "hold"},
               source : 0 .. MaxSnapshots, target : 0 .. MaxSnapshots,
               project : Projects \cup {None}, revision : 0 .. MaxRevision,
               reason : Reasons \cup {None}, id : OperationIds \cup {None}]

VARIABLES
    made,       \* number of snapshots made so far, published or not
    parent,     \* parent[s]: parent_hash of s, 0 for the first generation
    cards,      \* cards[s]: the cards in s
    files,      \* snapshots that an operator keeps in a file of his own
    stored,     \* stored[s]: the file of s in the catalog
    active,     \* the pointer, 0 before the first publication
    policies,   \* the policy files
    intents,    \* operations with an intent in the journal
    applied,    \* operations whose receipt says "applied"
    notApplied, \* operations whose receipt says "not_applied"
    torn,       \* operations with a torn intent or receipt
    pc,         \* where the call is, "idle" when the lock is free
    call,       \* the call
    done        \* observer: operations whose pointer or policy was written

snapshotVars == <<made, parent, cards, files>>
journalVars == <<intents, applied, notApplied, torn>>
vars == <<made, parent, cards, files, stored, active, policies, intents,
          applied, notApplied, torn, pc, call, done>>

Calls == [by : {"nobody", "reconcile", "manual", "registration",
                "maintenance", "hold", "restore"},
          target : 0 .. MaxSnapshots, project : Projects \cup {None},
          hold : BOOLEAN, revision : 0 .. MaxRevision,
          reason : Reasons \cup {None}, id : OperationIds \cup {None}]

NoCall == [by |-> "nobody", target |-> 0, project |-> None, hold |-> FALSE,
           revision |-> 0, reason |-> None, id |-> None]

TypeOK ==
    /\ made \in 0 .. MaxSnapshots
    /\ parent \in [Snapshots -> 0 .. MaxSnapshots]
    /\ cards \in [Snapshots -> Cards]
    /\ files \subseteq Snapshots
    /\ stored \in [Snapshots -> {"no", "torn", "yes"}]
    /\ active \in 0 .. MaxSnapshots
    /\ policies \in [Projects -> Policies]
    /\ intents \subseteq Operations
    /\ applied \subseteq intents
    /\ notApplied \subseteq intents
    /\ torn \subseteq Operations
    /\ pc \in {"idle", "reconcile", "restoreIntent", "policyIntent", "policy",
               "policyReceipt", "snapshot", "intent", "pointer", "receipt"}
    /\ call \in Calls
    /\ done \subseteq Operations

Init ==
    /\ made = 0
    /\ parent = [s \in Snapshots |-> 0]
    /\ cards = [s \in Snapshots |-> [p \in Projects |-> None]]
    /\ files = {}
    /\ stored = [s \in Snapshots |-> "no"]
    /\ active = 0
    /\ policies = [p \in Projects |->
                      [hold |-> FALSE, revision |-> 0, reason |-> None]]
    /\ intents = {} /\ applied = {} /\ notApplied = {} /\ torn = {}
    /\ pc = "idle"
    /\ call = NoCall
    /\ done = {}

------------------------------------------------------------------------------
(* Reading the catalog. *)

Card(s, p) == IF s = 0 THEN None ELSE cards[s][p]

\* s and its ancestors: the smallest set with s that is closed under parent.
Ancestry(s) ==
    {t \in Snapshots : \A S \in SUBSET Snapshots :
        /\ s # 0 => s \in S
        /\ \A u \in S : parent[u] # 0 => parent[u] \in S
        => t \in S}

Record(kind, source, target) ==
    [kind |-> kind, source |-> source, target |-> target, project |-> None,
     revision |-> 0, reason |-> None, id |-> None]

\* The operation of the publication in progress, and those on the policy.
Publication ==
    IF call.by = "restore"
    THEN [Record("restore", parent[call.target], call.target)
             EXCEPT !.project = call.project, !.reason = call.reason,
                    !.id = call.id]
    ELSE Record("publish", parent[call.target], call.target)

PolicyChange ==
    [Record(IF call.by = "restore" THEN "hold" ELSE "policy", active,
            IF call.by = "restore" THEN call.target ELSE active)
        EXCEPT !.project = call.project, !.revision = call.revision + 1,
               !.reason = call.reason]

------------------------------------------------------------------------------
(* The steps that calls have in common. *)

End == pc' = "idle" /\ call' = NoCall
Goto(next) == IF next = "idle" THEN End ELSE pc' = next /\ UNCHANGED call

WriteIntent(o, next) ==
    /\ \/ /\ intents' = intents \cup {o}
          /\ Goto(next) \/ End
          /\ UNCHANGED torn
       \/ /\ torn' = torn \cup ({o} \ intents) \/ UNCHANGED torn
          /\ End
          /\ UNCHANGED intents
    /\ UNCHANGED <<applied, notApplied>>

\* A receipt is immutable: one that says otherwise is an error.
WriteReceipt(o, next) ==
    /\ \/ /\ o \notin notApplied
          /\ applied' = applied \cup {o}
          /\ Goto(next) \/ End
          /\ UNCHANGED torn
       \/ /\ torn' = torn \cup ({o} \ (applied \cup notApplied))
                \/ UNCHANGED torn
          /\ End
          /\ UNCHANGED applied
    /\ UNCHANGED <<intents, notApplied>>

MakeSnapshot(base, cs) ==
    /\ made < MaxSnapshots
    /\ made' = made + 1
    /\ parent' = [parent EXCEPT ![made + 1] = base]
    /\ cards' = [cards EXCEPT ![made + 1] = cs]

Begin(c) ==
    /\ pc = "idle"
    /\ pc' = "reconcile"
    /\ call' = c
    /\ UNCHANGED <<stored, active, policies, journalVars, done>>

------------------------------------------------------------------------------
(* Reconciliation: every operation without a receipt gets one, if the      *)
(* pointer and the policy files tell whether it happened.                  *)

Unresolved == intents \ (applied \cup notApplied)

OnPolicy(o) == o.kind \in {"policy", "hold"}

Happened(o) ==
    IF OnPolicy(o)
    THEN /\ policies[o.project].revision = o.revision
         /\ policies[o.project].reason = o.reason
         /\ o.kind = "hold" => policies[o.project].hold
    ELSE o.target \in Ancestry(active)

Ambiguous(o) ==
    /\ active # o.source
    /\ OnPolicy(o) \/ ~Happened(o)

\* A restoration reconciles again before it publishes, all but itself.
\* Mutant: itself too.
OwnForgotten == {}

Own == {o \in intents : /\ call.by = "restore" /\ o.kind = "restore"
                        /\ o.target = call.target}

Resolve(o) ==
    /\ pc = "reconcile"
    /\ o \in Unresolved \ (Own \cup torn)
    /\ ~Ambiguous(o)
    /\ \/ /\ IF Happened(o)
             THEN applied' = applied \cup {o} /\ UNCHANGED notApplied
             ELSE notApplied' = notApplied \cup {o} /\ UNCHANGED applied
          /\ Goto("reconcile") \/ End
          /\ UNCHANGED torn
       \/ /\ torn' = torn \cup {o} \/ UNCHANGED torn
          /\ End
          /\ UNCHANGED <<applied, notApplied>>
    /\ UNCHANGED <<snapshotVars, stored, active, policies, intents, done>>

\* Mutant: manual publications do not reconcile.
ReconciledUnlessManual ==
    call.by = "manual" \/ (torn = {} /\ Unresolved \subseteq Own)

Reconciled == torn = {} /\ Unresolved \subseteq Own

\* A call that only reconciles (server start, worker, listing versions,
\* preview), finds an ambiguous or torn record, or is refused, ends here.
LeaveReconcile ==
    /\ pc = "reconcile"
    /\ End
    /\ UNCHANGED <<snapshotVars, stored, active, policies, journalVars, done>>

Reconcile ==
    /\ Begin([NoCall EXCEPT !.by = "reconcile"])
    /\ UNCHANGED snapshotVars

------------------------------------------------------------------------------
(* Publications.  The worker's requests, and those of the review page,     *)
(* carry the values their author saw; with any but the current ones a call *)
(* is refused and changes nothing, so that requests carry current values   *)
(* here.                                                                   *)

Amended(s, p, c) == [q \in Projects |-> IF q = p THEN c ELSE Card(s, q)]

\* ErrConflict unless the parent is the active snapshot.  Mutant: any parent.
AnyBase(s) == s <= made

Current(s) == s = active

\* context-catalog publish: an operator has exported snapshot s, edited a card
\* and publishes the file.
PublishFile(s, p, c) ==
    /\ Current(s)
    /\ c # Card(s, p)
    /\ MakeSnapshot(s, Amended(s, p, c))
    /\ files' = files \cup {made + 1}
    /\ Begin([NoCall EXCEPT !.by = "manual", !.target = made + 1])

\* The same file again, after an error or a crash.
PublishAgain(s) ==
    /\ s \in files
    /\ Current(parent[s])
    /\ Begin([NoCall EXCEPT !.by = "manual", !.target = s])
    /\ UNCHANGED snapshotVars

EnsureProject(p, c) ==
    /\ Card(active, p) = None
    /\ MakeSnapshot(active, Amended(active, p, c))
    /\ Begin([NoCall EXCEPT !.by = "registration", !.target = made + 1])
    /\ UNCHANGED files

\* The policy guard of PublishWithPolicyGuard, for a change of p's card.
\* Mutant: it compares revisions only.
AdmittedIfHeld(p) == Card(active, p) # None

Admitted(p) ==
    /\ Card(active, p) # None
    /\ ~policies[p].hold

\* The worker of scope catalog_only, the scope in which the review page offers
\* holds and restorations.

Maintain(cs) ==
    /\ \E p \in Projects : cs[p] # Card(active, p)
    /\ \A p \in Projects :
          cs[p] # Card(active, p) => cs[p] # None /\ Admitted(p)
    /\ MakeSnapshot(active, cs)
    /\ Begin([NoCall EXCEPT !.by = "maintenance", !.target = made + 1])
    /\ UNCHANGED files

------------------------------------------------------------------------------
(* publishLockedMetadataSkipping, from its reconciliation on. *)

StartPublication ==
    /\ pc = "reconcile"
    /\ Reconciled
    /\ call.target # 0
    /\ Goto("snapshot")
    /\ UNCHANGED <<snapshotVars, stored, active, policies, journalVars, done>>

StoreSnapshot ==
    /\ pc = "snapshot"
    /\ \/ /\ stored[call.target] # "torn"
          /\ stored' = [stored EXCEPT ![call.target] = "yes"]
          /\ Goto("intent") \/ End
       \/ /\ \/ UNCHANGED stored
             \/ /\ stored[call.target] = "no"
                /\ stored' = [stored EXCEPT ![call.target] = "torn"]
          /\ End
    /\ UNCHANGED <<snapshotVars, active, policies, journalVars, done>>

\* The intent of a restoration is in the journal already, and lists its card
\* as changed: restoring the current description stops here.
NothingRestored ==
    /\ call.by = "restore"
    /\ Card(call.target, call.project) = Card(active, call.project)

IntendPublication ==
    /\ pc = "intent"
    /\ IF NothingRestored
       THEN End /\ UNCHANGED journalVars
       ELSE WriteIntent(Publication, "pointer")
    /\ UNCHANGED <<snapshotVars, stored, active, policies, done>>

MovePointer ==
    /\ pc = "pointer"
    /\ \/ /\ active' = call.target
          /\ done' = done \cup {Publication}
          /\ Goto("receipt") \/ End
       \/ End /\ UNCHANGED <<active, done>>
    /\ UNCHANGED <<snapshotVars, stored, policies, journalVars>>

ConfirmPublication ==
    /\ pc = "receipt"
    /\ WriteReceipt(Publication, "idle")
    /\ UNCHANGED <<snapshotVars, stored, active, policies, done>>

------------------------------------------------------------------------------
(* Holds and restorations. *)

SetPublicationHold(p, hold, reason) ==
    /\ Begin([NoCall EXCEPT !.by = "hold", !.project = p, !.hold = hold,
                            !.revision = policies[p].revision,
                            !.reason = reason])
    /\ UNCHANGED snapshotVars

AdmitHold ==
    /\ pc = "reconcile"
    /\ call.by = "hold"
    /\ Reconciled
    /\ Card(active, call.project) # None
    /\ call.revision < MaxRevision
    /\ Goto("policyIntent")
    /\ UNCHANGED <<snapshotVars, stored, active, policies, journalVars, done>>

\* PreviewRestore: only what was published can be restored.
Restorable(s, p) ==
    /\ s \in Ancestry(active)
    /\ Card(active, p) # None
    /\ Card(s, p) # None

Restore(id, p, reason) ==
    /\ Begin([NoCall EXCEPT !.by = "restore", !.id = id, !.project = p,
                            !.hold = TRUE, !.revision = policies[p].revision,
                            !.reason = reason])
    /\ UNCHANGED snapshotVars

\* An operation that the journal knows is answered from it.
AdmitRestore(s) ==
    /\ pc = "reconcile"
    /\ call.by = "restore" /\ call.target = 0
    /\ Reconciled
    /\ \A o \in intents : o.id # call.id
    /\ Restorable(s, call.project)
    /\ call.revision < MaxRevision
    /\ MakeSnapshot(active, Amended(active, call.project,
                                    Card(s, call.project)))
    /\ pc' = "restoreIntent"
    /\ call' = [call EXCEPT !.target = made + 1]
    /\ UNCHANGED <<files, stored, active, policies, journalVars, done>>

\* Mutant: the hold is forgotten.
IntendRestoreOnly ==
    /\ pc = "restoreIntent"
    /\ WriteIntent(Publication, "reconcile")
    /\ UNCHANGED <<snapshotVars, stored, active, policies, done>>

IntendRestore ==
    /\ pc = "restoreIntent"
    /\ WriteIntent(Publication, "policyIntent")
    /\ UNCHANGED <<snapshotVars, stored, active, policies, done>>

\* Mutant: the policy is written without an intent.
IntendNothing ==
    /\ pc = "policyIntent"
    /\ Goto("policy")
    /\ UNCHANGED <<snapshotVars, stored, active, policies, journalVars, done>>

IntendPolicy ==
    /\ pc = "policyIntent"
    /\ WriteIntent(PolicyChange, "policy")
    /\ UNCHANGED <<snapshotVars, stored, active, policies, done>>

WritePolicy ==
    /\ pc = "policy"
    /\ \/ /\ policies' = [policies EXCEPT ![call.project] =
                             [hold |-> call.hold, reason |-> call.reason,
                              revision |-> call.revision + 1]]
          /\ done' = done \cup {PolicyChange}
          /\ Goto("policyReceipt") \/ End
       \/ End /\ UNCHANGED <<policies, done>>
    /\ UNCHANGED <<snapshotVars, stored, active, journalVars>>

\* A restoration goes on to publish.
ConfirmPolicy ==
    /\ pc = "policyReceipt"
    /\ WriteReceipt(PolicyChange,
                    IF call.by = "restore" THEN "reconcile" ELSE "idle")
    /\ UNCHANGED <<snapshotVars, stored, active, policies, done>>

------------------------------------------------------------------------------
(* The review page's list of the versions of a project's card. *)

\* ListVersions: the published snapshots that changed the card.
Versions(p) ==
    {s \in Ancestry(active) : Card(s, p) \notin {None, Card(parent[s], p)}}

\* findAppliedOperation: without one, the origin of a version is unknown.
Explained(s) ==
    \E o \in applied : ~OnPolicy(o) /\ o.target = s

------------------------------------------------------------------------------
Next ==
    \/ Reconcile \/ LeaveReconcile
    \/ \E o \in intents : Resolve(o)
    \/ \E p \in Projects, c \in Contents :
          EnsureProject(p, c) \/ \E s \in 0 .. MaxSnapshots : PublishFile(s, p, c)
    \/ \E s \in Snapshots : PublishAgain(s) \/ AdmitRestore(s)
    \/ \E cs \in Cards : Maintain(cs)
    \/ StartPublication \/ StoreSnapshot \/ IntendPublication
    \/ MovePointer \/ ConfirmPublication
    \/ \E p \in Projects, reason \in Reasons :
          \/ \E hold \in BOOLEAN : SetPublicationHold(p, hold, reason)
          \/ \E id \in OperationIds : Restore(id, p, reason)
    \/ AdmitHold \/ IntendRestore \/ IntendPolicy \/ WritePolicy
    \/ ConfirmPolicy

Spec == Init /\ [][Next]_vars

------------------------------------------------------------------------------
(* Properties. *)

\* The pointer moves only to a complete snapshot whose parent is the snapshot
\* it leaves: no publication is lost under another.
HistoryIsLinear ==
    [][active' # active =>
          parent[active'] = active /\ stored[active'] = "yes"]_vars

\* Whatever ends a call, the next one can tell from the pointer and the policy
\* files what became of every intent that it left without a receipt.
JournalNeverAmbiguous == \A o \in Unresolved : ~Ambiguous(o)

\* A receipt "applied" is given only to an operation that wrote the pointer or
\* its policy; a restoration, or its hold, that was reported as not applied
\* has not happened and never will.
VerdictsAreTrue ==
    /\ applied \subseteq done
    /\ \A o \in notApplied \cap done : o.kind \in {"publish", "policy"}

\* A list of versions, which begins with a reconciliation, offers nothing that
\* cannot be restored and names the operation behind each version, but for a
\* publication that was recorded as not applied before it was tried again.
VersionsAreExplained ==
    pc = "reconcile" /\ Reconciled =>
        \A p \in Projects : \A s \in Versions(p) :
            /\ Restorable(s, p)
            /\ Explained(s) \/ \E o \in notApplied : o.kind = "publish" /\ o.target = s

\* The journal can be read, what it says is true, and it explains every
\* version.
ReceiptsAreTrue == JournalNeverAmbiguous /\ VerdictsAreTrue /\ VersionsAreExplained

\* Every publication, and every change of a policy, that happened is recorded
\* as applied: no receipt says the opposite (optional-ai.md promises "an
\* applied receipt afterward").
DeniedNeverHappened == notApplied \cap done = {}

\* When a restored description is published, its project has been put on hold,
\* and only a later change of the policy lifts the hold.
RestoreIsProtected ==
    \A o \in done : o.kind = "restore" =>
        \E h \in applied :
            /\ h.kind = "hold" /\ h.target = o.target
            /\ policies[o.project].revision >= h.revision
            /\ policies[o.project].revision = h.revision =>
                  policies[o.project].hold

\* Maintenance never changes the description of a project on hold.
HeldDescriptionStays ==
    [][call.by = "maintenance" =>
          \A p \in Projects : policies[p].hold =>
              Card(active', p) = Card(active, p)]_vars

\* The pointer loses no publication and respects the holds.
PointerObeysRules == HistoryIsLinear /\ HeldDescriptionStays
==============================================================================
