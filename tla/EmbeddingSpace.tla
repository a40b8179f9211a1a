---------------------------- MODULE EmbeddingSpace ----------------------------
(***************************************************************************)
(* The vector space of a collection: the identity a process binds its      *)
(* collections to before it serves (internal/embeddingidentity,            *)
(* config.PrepareEmbeddings), and the migration that re-embeds a           *)
(* collection for another model into a new one (internal/                  *)
(* embeddingmigration, cmd/migrate-embeddings).  Qdrant offers no compare- *)
(* and-set: each reads first and writes later, call by call.  The server   *)
(* and the indexer start, crash and start again with the same or another   *)
(* configuration; the migration can fail or be killed anywhere.            *)
(*                                                                         *)
(* The models have equal dimensions, so that only their identity tells     *)
(* them apart.  The migration demands that writers are stopped; the        *)
(* target's are, but a writer of the source may still run (a recall worker *)
(* that has not drained), which its checks are there to notice.            *)
(***************************************************************************)
EXTENDS Naturals, FiniteSets

CONSTANTS
    Procs,       \* the processes that embed: the server, the indexer
    Source,      \* the collection there is from the start
    Target,      \* the collection the migration creates
    Models,      \* embedding models, by their full identity
    Legacy,      \* the model that can be adopted (TEI, legacy input profile)
    Points,      \* point IDs
    MaxWrites,   \* bound: writes of the processes
    MaxStarts,   \* bound: starts of processes and migration commands
    None

\* A point, by the write that stored it and the model that embedded it, and
\* the manifest of a migration: its models and the points of its source.
Embedded == [ver : Nat, by : Models]
Manifests == [from : Models, to : Models, points : [Points -> Nat \cup {None}]]
Spaces == [id : Models \cup {None}, owner : Manifests \cup {None},
           pts : [Points -> Embedded \cup {None}]]

\* Nil is no model, number, point, manifest or collection; the migration
\* refuses its source as its target.
LegacyAssumption ==
    /\ Legacy \in Models
    /\ Source # Target
    /\ None \notin Models /\ None \notin Nat /\ None \notin Embedded
    /\ None \notin Manifests /\ None \notin Spaces

Collections == {Source, Target}

VARIABLES
    coll,      \* coll[c]: the collection, or None: its identity, the manifest
               \* that owns it and its points (a version and a model each)
    writes,    \* number of writes
    starts,    \* number of starts
    conf,      \* conf[p]: the model, collections and adoption flag p has
    doing,     \* doing[p]: "off", "inspect", "bind", "confirm" or "serve"
    left,      \* left[p]: collections the current pass has still to visit
    pending,   \* pending[p]: collections to create or to give an identity
    manifest,  \* the migration's manifest file, or None
    job,       \* where the migration is, "off" between two commands
    read       \* the source points its copy works from

vars == <<coll, writes, starts, conf, doing, left, pending, manifest, job, read>>
procVars == <<conf, doing, left, pending>>
jobVars == <<manifest, job, read>>

Empty == [q \in Points |-> None]
NoConf == [model |-> None, uses |-> {}, adopt |-> FALSE]
Held(c) == {q \in Points : coll[c].pts[q] # None}

\* The source is bound, or dates from before there were identities.  (A
\* collection that exists, is empty and has no identity is left out: see the
\* README.)
Init ==
    /\ \E id \in {Legacy, None} :
          coll = [c \in Collections |->
                     IF c = Target THEN None
                     ELSE [id |-> id, owner |-> None,
                           pts |-> [q \in Points |-> [ver |-> 0, by |-> Legacy]]]]
    /\ writes = 0
    /\ starts = 0
    /\ conf = [p \in Procs |-> NoConf]
    /\ doing = [p \in Procs |-> "off"]
    /\ left = [p \in Procs |-> {}]
    /\ pending = [p \in Procs |-> {}]
    /\ manifest = None
    /\ job = "off"
    /\ read = Empty

------------------------------------------------------------------------------
(* A process binds its collections: EnsureBindings and ensure. *)

\* The operator sets the adoption flag only after checking that the vectors
\* there are the configured model's, and keeps processes off the target
\* while the migration runs.
Start(p) ==
    /\ doing[p] = "off"
    /\ starts < MaxStarts
    /\ starts' = starts + 1
    /\ \E m \in Models, uses \in SUBSET Collections \ {{}}, adopt \in BOOLEAN :
          /\ adopt => m = Legacy
          /\ Target \in uses => job = "off"
          /\ conf' = [conf EXCEPT ![p] = [model |-> m, uses |-> uses, adopt |-> adopt]]
          /\ left' = [left EXCEPT ![p] = uses]
    /\ doing' = [doing EXCEPT ![p] = "inspect"]
    /\ pending' = [pending EXCEPT ![p] = {}]
    /\ UNCHANGED <<coll, writes, jobVars>>

Stop(p) ==
    /\ doing' = [doing EXCEPT ![p] = "off"]
    /\ conf' = [conf EXCEPT ![p] = NoConf]
    /\ left' = [left EXCEPT ![p] = {}]
    /\ pending' = [pending EXCEPT ![p] = {}]

\* What the preflight makes of collection c: nothing to do, to be bound, or
\* a refusal.
Bound(p, c) == coll[c] # None /\ coll[c].id = conf[p].model
\* Mutant: whatever has no identity may be given one.
BindableUnheld(p, c) == coll[c] # None => coll[c].id = None
Bindable(p, c) ==
    coll[c] # None =>
        /\ coll[c].id = None
        /\ Held(c) = {} \/ (conf[p].adopt /\ conf[p].model = Legacy)

Inspect(p, c) ==
    /\ doing[p] = "inspect"
    /\ c \in left[p]
    /\ IF Bound(p, c) \/ Bindable(p, c)
       THEN /\ pending' = [pending EXCEPT ![p] =
                   IF Bound(p, c) THEN @
                   ELSE @ \cup {<<c, IF coll[c] = None THEN "create" ELSE "update">>}]
            /\ left' = [left EXCEPT ![p] = @ \ {c}]
            /\ UNCHANGED <<conf, doing>>
       ELSE Stop(p)
    /\ UNCHANGED <<coll, writes, starts, jobVars>>

Inspected(p) ==
    /\ doing[p] = "inspect"
    /\ left[p] = {}
    /\ doing' = [doing EXCEPT ![p] = "bind"]
    /\ UNCHANGED <<coll, writes, starts, conf, left, pending, jobVars>>

\* By now another process may have been there: CreateCollection refuses an
\* existing collection, UpdateCollectionMetadata overwrites its identity.
Create(c, m, owner) ==
    coll' = [coll EXCEPT ![c] = [id |-> m, owner |-> owner, pts |-> Empty]]
SetIdentity(c, m) == coll' = [coll EXCEPT ![c].id = m]

Bind(p, c) ==
    /\ doing[p] = "bind"
    /\ \/ /\ <<c, "create">> \in pending[p]
          /\ IF coll[c] = None
             THEN /\ Create(c, conf[p].model, None)
                  /\ pending' = [pending EXCEPT ![p] = @ \ {<<c, "create">>}]
                  /\ UNCHANGED <<conf, doing, left>>
             ELSE Stop(p) /\ UNCHANGED coll
       \/ /\ <<c, "update">> \in pending[p]
          /\ SetIdentity(c, conf[p].model)
          /\ pending' = [pending EXCEPT ![p] = @ \ {<<c, "update">>}]
          /\ UNCHANGED <<conf, doing, left>>
    /\ UNCHANGED <<writes, starts, jobVars>>

AllBound(p) ==
    /\ doing[p] = "bind"
    /\ pending[p] = {}
    /\ doing' = [doing EXCEPT ![p] = "confirm"]
    /\ left' = [left EXCEPT ![p] = conf[p].uses]
    /\ UNCHANGED <<coll, writes, starts, conf, pending, jobVars>>

Confirm(p, c) ==
    /\ doing[p] = "confirm"
    /\ c \in left[p]
    /\ \/ Bound(p, c) /\ left' = [left EXCEPT ![p] = @ \ {c}]
                      /\ UNCHANGED <<conf, doing, pending>>
       \/ ~Bound(p, c) /\ Stop(p)
    /\ UNCHANGED <<coll, writes, starts, jobVars>>

Serve(p) ==
    /\ doing[p] = "confirm"
    /\ left[p] = {}
    /\ doing' = [doing EXCEPT ![p] = "serve"]
    /\ UNCHANGED <<coll, writes, starts, conf, left, pending, jobVars>>

\* A call fails or the process dies.
Crash(p) ==
    /\ doing[p] # "off"
    /\ Stop(p)
    /\ UNCHANGED <<coll, writes, starts, jobVars>>

\* A process that serves stores, changes or deletes a point, or counts a
\* recall, which keeps the vector.
Write(p, c, q) ==
    /\ doing[p] = "serve"
    /\ c \in conf[p].uses
    /\ writes < MaxWrites
    /\ writes' = writes + 1
    /\ \E new \in {None, [ver |-> writes + 1, by |-> conf[p].model]} \cup
                  (IF coll[c].pts[q] = None THEN {}
                   ELSE {[coll[c].pts[q] EXCEPT !.ver = writes + 1]}) :
          coll' = [coll EXCEPT ![c].pts[q] = new]
    /\ UNCHANGED <<starts, procVars, jobVars>>

------------------------------------------------------------------------------
(* The migration: a manifest, a copy, a verification. *)

Versions(pts) == [q \in Points |-> IF pts[q] = None THEN None ELSE pts[q].ver]

\* Prepare: what is there to migrate now, for model m.
Survey(m) == [from |-> coll[Source].id, to |-> m, points |-> Versions(coll[Source].pts)]
Fresh == manifest # None /\ Survey(manifest.to) = manifest

TargetStopped == \A p \in Procs : Target \notin conf[p].uses

Prepare ==
    /\ job = "off"
    /\ manifest = None
    /\ coll[Source].id # None
    /\ \E m \in Models : manifest' = Survey(m)
    /\ UNCHANGED <<coll, writes, starts, procVars, job, read>>

\* The operator removes a manifest that went stale.
Discard ==
    /\ job = "off"
    /\ manifest # None
    /\ manifest' = None
    /\ UNCHANGED <<coll, writes, starts, procVars, job, read>>

\* Apply, up to the target: the manifest is fresh; the target is its own or
\* does not exist.
OwnTarget == coll[Target] # None => /\ coll[Target].owner = manifest
                                    /\ coll[Target].id = manifest.to

Apply ==
    /\ job = "off"
    /\ TargetStopped
    /\ starts < MaxStarts
    /\ starts' = starts + 1
    /\ Fresh
    /\ OwnTarget
    /\ IF coll[Target] = None THEN Create(Target, manifest.to, manifest)
       ELSE UNCHANGED coll
    /\ job' = "read"
    /\ UNCHANGED <<writes, procVars, manifest, read>>

JobStep(now, next) ==
    /\ job = now
    /\ job' = next
    /\ UNCHANGED <<writes, starts, procVars, manifest>>

JobEnds == job' = "off" /\ read' = Empty

\* The source is read again; what the target holds must be part of it.
Resumes == \A q \in Points :
    coll[Target].pts[q] # None =>
        Versions(coll[Target].pts)[q] = Versions(coll[Source].pts)[q]

ReadSource ==
    /\ JobStep("read", "copy")
    /\ Resumes
    /\ read' = coll[Source].pts
    /\ UNCHANGED coll

Copy(q) ==
    /\ job = "copy"
    /\ read[q] # None
    /\ coll[Target].pts[q] = None
    /\ coll' = [coll EXCEPT ![Target].pts[q] =
                   [ver |-> read[q].ver, by |-> manifest.to]]
    /\ UNCHANGED <<writes, starts, procVars, jobVars>>

\* Verify: the source, the target, and the source once more.
Copied ==
    /\ JobStep("copy", "verify")
    /\ \A q \in Points : read[q] # None => coll[Target].pts[q] # None
    /\ read' = Empty
    /\ UNCHANGED coll

StartVerify ==
    /\ starts < MaxStarts
    /\ starts' = starts + 1
    /\ job = "off"
    /\ manifest # None
    /\ TargetStopped
    /\ job' = "verify"
    /\ UNCHANGED <<coll, writes, procVars, manifest, read>>

VerifySource == JobStep("verify", "target") /\ Fresh /\ UNCHANGED <<coll, read>>

\* Mutant: only the number of points is compared.
CountMatches == Cardinality(Held(Target)) =
                Cardinality({q \in Points : manifest.points[q] # None})
TargetMatches == Versions(coll[Target].pts) = manifest.points

VerifyTarget ==
    /\ JobStep("target", "again")
    /\ coll[Target] # None /\ OwnTarget
    /\ TargetMatches
    /\ UNCHANGED <<coll, read>>

\* Mutant: the source is not read again.
NotFreshAgain == TRUE
FreshAgain == Fresh

Accept ==
    /\ JobStep("again", "accepted")
    /\ FreshAgain
    /\ UNCHANGED <<coll, read>>

\* A check refuses, a call fails, the process dies, or the work is done.
JobStops ==
    /\ job # "off"
    /\ JobEnds
    /\ UNCHANGED <<coll, writes, starts, procVars, manifest>>

Next ==
    \/ \E p \in Procs :
          \/ Start(p)
          \/ Inspected(p)
          \/ AllBound(p)
          \/ Serve(p)
          \/ Crash(p)
          \/ \E c \in Collections :
                \/ Inspect(p, c)
                \/ Bind(p, c)
                \/ Confirm(p, c)
                \/ \E q \in Points : Write(p, c, q)
    \/ Prepare
    \/ Discard
    \/ Apply
    \/ ReadSource
    \/ \E q \in Points : Copy(q)
    \/ Copied
    \/ StartVerify
    \/ VerifySource
    \/ VerifyTarget
    \/ Accept
    \/ JobStops

Spec == Init /\ [][Next]_vars

------------------------------------------------------------------------------
(* Properties. *)

TypeOK ==
    /\ DOMAIN coll = Collections
    /\ doing \in [Procs -> {"off", "inspect", "bind", "confirm", "serve"}]
    /\ left \in [Procs -> SUBSET Collections]
    /\ pending \in [Procs -> SUBSET (Collections \X {"create", "update"})]
    /\ job \in {"off", "read", "copy", "verify", "target", "again", "accepted"}

\* A collection with an identity holds vectors of that model only, whatever
\* processes with whatever configurations have started, failed half way
\* through binding, or crashed, and whatever the migration has copied.
VectorsMatchIdentity ==
    \A c \in Collections :
        coll[c] # None /\ coll[c].id # None =>
            \A q \in Held(c) : coll[c].pts[q].by = coll[c].id

\* A migration that was accepted has copied the source as it is at that
\* moment, although a writer of the source may have run all along.
AcceptedCopyIsExact ==
    [][job # "accepted" /\ job' = "accepted" =>
          Versions(coll'[Target].pts) = Versions(coll'[Source].pts)]_vars
=============================================================================
