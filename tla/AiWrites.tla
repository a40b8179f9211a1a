------------------------------- MODULE AiWrites -------------------------------
(***************************************************************************)
(* store_fact with AI grouping (internal/memory/ai_write.go, the AI parts  *)
(* of storeFact in server.go, ai_runtime.go) and get_write_recommendation  *)
(* (ai_write_recommendation.go).  In mode "on" the provider is asked first *)
(* and its tags are stored with the fact, if the catalog they came from is *)
(* still active; in mode "shadow" the fact is stored as it is and a queued *)
(* job asks the provider later, for a client to read the advice.           *)
(*                                                                         *)
(* Meanwhile catalogs are published, facts change, the signal that cancels *)
(* the runtime arrives, and the server crashes and restarts.  A fact's     *)
(* tags are 0 for the client's own or the catalog generation they were     *)
(* classified in.  Locks, duplicates and the cache are FactMutations and   *)
(* RecallCache; the daily budget is AiBudget.                              *)
(***************************************************************************)
EXTENDS Naturals, FiniteSets, Sequences

CONSTANTS
    Calls,         \* store calls, each for a fact of its own
    QueueSize,     \* places in the shadow queue (8 in the code)
    MaxCatalogs,   \* bound: catalog generations
    MaxStarts,     \* bound: starts of the server
    MaxChanges,    \* bound: changes of facts by others
    MaxFaults,     \* bound: journal saves that fail
    None

\* What the journal keeps of a call, and what the runtime's goroutine runs.
Statuses == {"prepared", "stored", "pending", "decided", "abstained", "failed"}
Entries == [status : Statuses, cat : Nat, inst : Nat, gen : Nat, tags : Nat]
Jobs == [call : Calls, cat : Nat, runs : BOOLEAN]

WritesAssumption ==
    /\ QueueSize \in Nat \ {0}
    /\ MaxStarts \in Nat \ {0}
    /\ None \notin Entries
    /\ None \notin Jobs

VARIABLES
    mode,       \* "on" or "shadow"
    catalog,    \* the active catalog generation
    inst,       \* the runtime instance
    signalled,  \* the runtime's context is cancelled
    loop,       \* the runtime's goroutine: "live", "draining" or "gone"
    queue,      \* its jobs
    job,        \* the job it runs, or None
    pc,         \* pc[c]: where store call c is
    d,          \* d[c]: its decision
    guard,      \* calls that hold off publication and reconfiguration
    fact,       \* fact[c]: the fact stored, or None
    journal,    \* journal[c]: the audit record on disk, or None
    refs,       \* calls whose reference was returned to a client
    changes, faults,
    ask,        \* a get_write_recommendation call, or None
    answer,     \* its answer, or None
    under,      \* history: under[c]: the catalog when fact c was written
    unsaved     \* history: calls whose shadow result could not be saved

vars == <<mode, catalog, inst, signalled, loop, queue, job, pc, d, guard, fact,
          journal, refs, changes, faults, ask, answer, under, unsaved>>
runtimeVars == <<inst, signalled, loop, queue, job>>
askVars == <<ask, answer>>
boundVars == <<changes, faults>>

NoDecision == [status |-> "none", cat |-> 0, tags |-> 0, inst |-> 0]

Init ==
    /\ mode \in {"on", "shadow"}
    /\ catalog = 1
    /\ inst = 1
    /\ signalled = FALSE
    /\ loop = "live"
    /\ queue = <<>>
    /\ job = None
    /\ pc = [c \in Calls |-> "idle"]
    /\ d = [c \in Calls |-> NoDecision]
    /\ guard = {}
    /\ fact = [c \in Calls |-> None]
    /\ journal = [c \in Calls |-> None]
    /\ refs = {}
    /\ changes \in 0 .. MaxChanges
    /\ faults \in 0 .. MaxFaults
    /\ ask = None
    /\ answer = None
    /\ under = [c \in Calls |-> 0]
    /\ unsaved = {}

\* Writing the journal of call c; the write may fail.
Saved(c, entry) == journal' = [journal EXCEPT ![c] = entry] /\ faults' = faults
SaveFails == faults < MaxFaults /\ faults' = faults + 1 /\ journal' = journal

Goto(c, next) == pc' = [pc EXCEPT ![c] = next]
Step(c, now, next) == pc[c] = now /\ Goto(c, next)

------------------------------------------------------------------------------
(* Mode "on": classify, guard, prepare, store, complete. *)

\* aiClassify: in mode "on" the provider is asked under the catalog read now,
\* unless policy, budget or catalog refuse.
Classify(c) ==
    /\ pc[c] = "idle"
    /\ \/ /\ mode = "on"
          /\ ~signalled
          /\ d' = [d EXCEPT ![c] = [NoDecision EXCEPT !.cat = catalog, !.inst = inst]]
          /\ Goto(c, "asked")
       \/ /\ d' = [d EXCEPT ![c] = [NoDecision EXCEPT !.inst = inst,
                       !.status = IF mode = "shadow" THEN "shadow" ELSE "unavailable"]]
          /\ Goto(c, "lock")
    /\ UNCHANGED <<mode, catalog, runtimeVars, guard, fact, journal, refs, boundVars,
                   askVars, under, unsaved>>

ProviderAnswers(c) ==
    /\ Step(c, "asked", "lock")
    /\ \/ ~signalled /\ d' = [d EXCEPT ![c].status = "decided", ![c].tags = d[c].cat]
       \/ d' = [d EXCEPT ![c].status = "abstained"]
    /\ UNCHANGED <<mode, catalog, runtimeVars, guard, fact, journal, refs, boundVars,
                   askVars, under, unsaved>>

\* The call refuses or is cancelled before anything is written.
GiveUp(c) ==
    /\ pc[c] \in {"asked", "lock", "write"}
    /\ Goto(c, "done")
    /\ guard' = guard \ {c}
    /\ UNCHANGED <<mode, catalog, runtimeVars, d, fact, journal, refs, boundVars,
                   askVars, under, unsaved>>

\* guardAIWrite: the runtime is still the one that decided and the catalog
\* the one it decided under.
\* Mutant: the generation is not compared.
RuntimeSame(c) == d[c].inst = inst /\ ~signalled
Guardable(c) == RuntimeSame(c) /\ d[c].cat = catalog

Guard(c) ==
    /\ pc[c] = "lock"
    /\ IF d[c].status = "decided"
       THEN IF Guardable(c)
            THEN guard' = guard \cup {c} /\ Goto(c, "guarded") /\ d' = d
            ELSE /\ d' = [d EXCEPT ![c].status = "catalog_changed", ![c].tags = 0]
                 /\ Goto(c, "write")
                 /\ guard' = guard
       ELSE Goto(c, "write") /\ UNCHANGED <<guard, d>>
    /\ UNCHANGED <<mode, catalog, runtimeVars, fact, journal, refs, boundVars, askVars,
                   under, unsaved>>

\* prepare: the intended grouping goes to the journal before the fact.
Prepare(c) ==
    /\ Step(c, "guarded", "write")
    /\ \/ /\ ~signalled
          /\ Saved(c, [status |-> "prepared", cat |-> d[c].cat, inst |-> inst, gen |-> 0,
                       tags |-> d[c].tags])
          /\ d' = d
       \/ /\ \/ signalled /\ UNCHANGED <<journal, faults>>
             \/ SaveFails
          /\ d' = [d EXCEPT ![c].status = "unavailable", ![c].tags = 0]
    /\ UNCHANGED <<mode, catalog, runtimeVars, guard, fact, refs, changes, askVars,
                   under, unsaved>>

\* Upsert.  An error says nothing about whether the fact is there.
Upsert(c) ==
    /\ pc[c] = "write"
    /\ \/ /\ fact' = [fact EXCEPT ![c] = [gen |-> 1, tags |-> d[c].tags]]
          /\ under' = [under EXCEPT ![c] = catalog]
       \/ UNCHANGED <<fact, under>>
    /\ \/ /\ fact'[c] # None
          /\ Goto(c, IF d[c].status = "shadow" THEN "shadow"
                     ELSE IF d[c].status = "decided" THEN "complete" ELSE "done")
          /\ guard' = guard
       \/ Goto(c, "done") /\ guard' = guard \ {c}
    /\ UNCHANGED <<mode, catalog, runtimeVars, d, journal, refs, boundVars, askVars, unsaved>>

Complete(c) ==
    /\ Step(c, "complete", "done")
    /\ Saved(c, [journal[c] EXCEPT !.status = "stored"]) \/ SaveFails
    /\ guard' = guard \ {c}
    /\ refs' = refs \cup {c}
    /\ UNCHANGED <<mode, catalog, runtimeVars, d, fact, changes, askVars, under, unsaved>>

------------------------------------------------------------------------------
(* Mode "shadow": the journal, the queue, the job. *)

Shadow(c) ==
    /\ pc[c] = "shadow"
    /\ \/ /\ Saved(c, [status |-> "pending", cat |-> catalog, inst |-> inst, gen |-> 1,
                       tags |-> 0])
          /\ Goto(c, "enqueue")
       \/ SaveFails /\ Goto(c, "done")
    /\ UNCHANGED <<mode, catalog, runtimeVars, d, guard, fact, refs, changes, askVars,
                   under, unsaved>>

\* recordShadow: the result of call c's job.
Record(c, status, tags) ==
    \/ /\ Saved(c, [journal[c] EXCEPT !.status = status, !.tags = tags])
       /\ unsaved' = unsaved
    \/ SaveFails /\ unsaved' = unsaved \cup {c}

\* enqueueShadow.  Its mutex keeps stop() out, but not the signal: between
\* the check and the send the runtime may drain its queue and go.
CheckQueue(c) ==
    /\ pc[c] = "enqueue"
    /\ IF signalled
       THEN Goto(c, "returned") /\ Record(c, "failed", 0)
       ELSE Goto(c, "send") /\ UNCHANGED <<journal, faults, unsaved>>
    /\ UNCHANGED <<mode, catalog, runtimeVars, d, guard, fact, refs, changes, askVars, under>>

\* Mutant: a job that finds the queue full is dropped without a word.
DropFull(c) == UNCHANGED <<journal, faults, unsaved>>
RecordFull(c) == Record(c, "failed", 0)

Send(c) ==
    /\ Step(c, "send", "returned")
    /\ IF Len(queue) < QueueSize
       THEN queue' = Append(queue, c) /\ UNCHANGED <<journal, faults, unsaved>>
       ELSE queue' = queue /\ RecordFull(c)
    /\ UNCHANGED <<mode, catalog, inst, signalled, loop, job, d, guard, fact, refs, changes,
                   askVars, under>>

Return(c) ==
    /\ Step(c, "returned", "done")
    /\ refs' = refs \cup {c}
    /\ UNCHANGED <<mode, catalog, runtimeVars, d, guard, fact, journal, boundVars, askVars,
                   under, unsaved>>

\* run: take a job and read the catalog for it; a catalog that is not the
\* journal's ends it, as does a cancelled context.
Take ==
    /\ loop = "live"
    /\ job = None
    /\ queue # <<>>
    /\ job' = [call |-> Head(queue), cat |-> catalog,
               runs |-> ~signalled /\ journal[Head(queue)].cat = catalog]
    /\ queue' = Tail(queue)
    /\ UNCHANGED <<mode, catalog, inst, signalled, loop, pc, d, guard, fact, journal, refs,
                   boundVars, askVars, under, unsaved>>

\* The provider answers with a tag of the catalog it was shown, abstains,
\* fails or is cancelled.
Finish ==
    /\ job # None
    /\ \/ job.runs /\ ~signalled /\ Record(job.call, "decided", job.cat)
       \/ job.runs /\ ~signalled /\ Record(job.call, "abstained", 0)
       \/ Record(job.call, "failed", 0)
    /\ job' = None
    /\ UNCHANGED <<mode, catalog, inst, signalled, loop, queue, pc, d, guard, fact, refs,
                   changes, askVars, under>>

Leave ==
    /\ loop = "live"
    /\ signalled
    /\ job = None
    /\ loop' = "draining"
    /\ UNCHANGED <<mode, catalog, inst, signalled, queue, job, pc, d, guard, fact, journal,
                   refs, boundVars, askVars, under, unsaved>>

Drain ==
    /\ loop = "draining"
    /\ IF queue = <<>>
       THEN loop' = "gone" /\ UNCHANGED <<queue, journal, faults, unsaved>>
       ELSE queue' = Tail(queue) /\ loop' = loop /\ Record(Head(queue), "failed", 0)
    /\ UNCHANGED <<mode, catalog, inst, signalled, job, pc, d, guard, fact, refs, changes,
                   askVars, under>>

------------------------------------------------------------------------------
(* get_write_recommendation, from outside in: the journal, the fact, the    *)
(* runtime and the catalog.                                                 *)

Ask(c) ==
    /\ mode = "shadow"
    /\ ask = None
    /\ ~signalled
    /\ c \in refs
    /\ ask' = [call |-> c, inst |-> inst, journal |-> journal[c], gen |-> None]
    /\ answer' = None
    /\ UNCHANGED <<mode, catalog, runtimeVars, pc, d, guard, fact, journal, refs, boundVars,
                   under, unsaved>>

\* The fact is read: as it is now, or gone (its generation is 0 then).
GetFact ==
    /\ ask # None
    /\ ask.gen = None
    /\ ask' = [ask EXCEPT !.gen = IF fact[ask.call] = None THEN 0 ELSE fact[ask.call].gen]
    /\ UNCHANGED <<mode, catalog, runtimeVars, pc, d, guard, fact, journal, refs, boundVars,
                   answer, under, unsaved>>

\* A pending job may have passed its deadline (late).
AdviceFor(j, late) ==
    IF j.status # "pending" THEN j.status
    ELSE IF j.inst # inst THEN "interrupted"
    ELSE IF late THEN "expired" ELSE "pending"

\* Mutant of AdviceNow: the advice is given whatever catalog is active.
AdviceEver(j, late, cat) == AdviceFor(j, late)
AdviceNow(j, late, cat) ==
    IF j.status # "failed" /\ j.cat # cat THEN "outdated" ELSE AdviceFor(j, late)

Answer ==
    /\ ask # None
    /\ ask.gen # None
    /\ \E late \in BOOLEAN :
        answer' = [call |-> ask.call, gen |-> ask.gen, catalog |-> catalog, inst |-> inst,
                   tags |-> ask.journal.tags,
                   status |-> IF ask.gen # ask.journal.gen THEN "outdated"
                              ELSE IF ask.inst # inst \/ signalled THEN "unavailable"
                              ELSE AdviceNow(ask.journal, late, catalog)]
    /\ ask' = None
    /\ UNCHANGED <<mode, catalog, runtimeVars, pc, d, guard, fact, journal, refs, boundVars,
                   under, unsaved>>

------------------------------------------------------------------------------
(* The world. *)

Publish ==
    /\ catalog < MaxCatalogs
    /\ guard = {}
    /\ catalog' = catalog + 1
    /\ UNCHANGED <<mode, runtimeVars, pc, d, guard, fact, journal, refs, boundVars, askVars,
                   under, unsaved>>

Signal ==
    /\ ~signalled
    /\ signalled' = TRUE
    /\ UNCHANGED <<mode, catalog, inst, loop, queue, job, pc, d, guard, fact, journal, refs,
                   boundVars, askVars, under, unsaved>>

\* The process ends, by itself or not, and starts again.
Restart ==
    /\ inst < MaxStarts
    /\ inst' = inst + 1
    /\ signalled' = FALSE
    /\ loop' = "live"
    /\ queue' = <<>>
    /\ job' = None
    /\ pc' = [c \in Calls |-> IF pc[c] = "idle" THEN "idle" ELSE "done"]
    /\ guard' = {}
    /\ ask' = None
    /\ answer' = None
    /\ UNCHANGED <<mode, catalog, d, fact, journal, refs, boundVars, under, unsaved>>

\* Somebody updates, deletes or imports the fact again: its fingerprint
\* changes, if only by the creation mark of a shadow write.
ChangeFact(c) ==
    /\ changes < MaxChanges
    /\ changes' = changes + 1
    /\ fact[c] # None
    /\ \/ fact' = [fact EXCEPT ![c] = None]
       \/ fact' = [fact EXCEPT ![c].gen = 2]
    /\ UNCHANGED <<mode, catalog, runtimeVars, pc, d, guard, journal, refs, faults, askVars,
                   under, unsaved>>

Next ==
    \/ \E c \in Calls :
          \/ Classify(c)
          \/ ProviderAnswers(c)
          \/ GiveUp(c)
          \/ Guard(c)
          \/ Prepare(c)
          \/ Upsert(c)
          \/ Complete(c)
          \/ Shadow(c)
          \/ CheckQueue(c)
          \/ Send(c)
          \/ Return(c)
          \/ Ask(c)
          \/ ChangeFact(c)
    \/ Take
    \/ Finish
    \/ Leave
    \/ Drain
    \/ GetFact
    \/ Answer
    \/ Publish
    \/ Signal
    \/ Restart

Spec == Init /\ [][Next]_vars

------------------------------------------------------------------------------
(* Properties. *)

\* A fact that carries the provider's tags was stored while the catalog they
\* came from was active, and its journal says so; a journal that says
\* "stored" is of a fact that was.  This holds through publications, signals,
\* failing saves and restarts between the classification and the write.
AppliedByTheBook ==
    \A c \in Calls :
        /\ fact[c] # None /\ fact[c].tags # 0 =>
              /\ under[c] = fact[c].tags
              /\ journal[c] # None
              /\ journal[c].status \in {"prepared", "stored"}
              /\ journal[c].tags = fact[c].tags
        /\ journal[c] # None /\ journal[c].status = "stored" => under[c] = journal[c].cat

\* While a runtime lives, a reference that is still pending has a job that
\* can settle it, unless the result could not be saved: no job is lost
\* between the client's answer, the queue and the runtime's end.
PendingHasAJob ==
    \A c \in refs :
        journal[c].status = "pending" /\ journal[c].inst = inst /\ ~signalled =>
            \/ c \in unsaved
            \/ job # None /\ job.call = c
            \/ \E i \in DOMAIN queue : queue[i] = c

\* Advice given as decided is for the fact as the client stored it and as it
\* was found, and from the catalog that is active; "pending" is only said of
\* a job of this very runtime.
AdviceIsTrue ==
    answer # None =>
        LET j == journal[answer.call] IN
        /\ answer.status = "decided" =>
              /\ j.status = "decided"
              /\ answer.gen = 1
              /\ answer.tags = answer.catalog
        /\ answer.status = "pending" => j.inst = answer.inst

ShadowAdviceIsTrue == PendingHasAJob /\ AdviceIsTrue
=============================================================================
