---------------------------- MODULE AiFactSweep ----------------------------
(***************************************************************************)
(* The AI worker of scope facts_and_catalog (aimaintenance/worker.go): a   *)
(* sweep over the stored facts, one page per run, that sends new and       *)
(* changed facts to the provider and keeps its proposals.                  *)
(*                                                                         *)
(* Where the sweep stands, what it has seen of which fact, and under which *)
(* catalog, is one file that a run replaces at its end.  Facts and catalog *)
(* change at any time; a call fails, a write fails before or after it took *)
(* effect, or the process dies, at any step.                               *)
(***************************************************************************)
EXTENDS Naturals, FiniteSetsExt

CONSTANTS
    NumFacts,    \* facts, in the order of their IDs
    PageSize,    \* max_facts_per_run
    MaxChanges,  \* bound: changes of facts and catalog by people
    MaxPublished,\* bound: descriptions published
    MaxFaults    \* bound: failing calls and writes, crashes

FactSweepAssumption ==
    /\ {NumFacts, PageSize} \subseteq Nat \ {0}
    /\ {MaxChanges, MaxPublished, MaxFaults} \subseteq Nat

Facts == 1 .. NumFacts
NoOffset == 0

VARIABLES
    fact,      \* fact[f]: the version of f, 0 while it is not current
    versions,  \* versions[f]: versions f has had
    catalog,   \* the active catalog generation
    words,     \* the version of what people wrote in the catalog
    disk,      \* state.json
    proposals, \* the proposals kept
    run,       \* what the running worker knows
    deleted,   \* observer: facts that were not current during this sweep
    changes,   \* number of changes by people
    published, \* number of descriptions published
    faults     \* number of faults

vars == <<fact, versions, catalog, words, disk, proposals, run, deleted,
          changes, published, faults>>

Nothing == [f \in Facts |-> 0]

Init ==
    /\ fact = [f \in Facts |-> 1]
    /\ versions = fact
    /\ catalog = 1
    /\ words = 1
    /\ disk = [binding |-> 0, inProgress |-> FALSE, offset |-> NoOffset,
               processed |-> {}, seen |-> Nothing, previous |-> Nothing,
               gone |-> {}, evidence |-> 0]
    /\ proposals = {}
    /\ run = [pc |-> "idle"]
    /\ deleted = {}
    /\ changes \in 0 .. MaxChanges
    /\ published = 0
    /\ faults \in 0 .. MaxFaults

------------------------------------------------------------------------------
(* One run. *)

Idle == run' = [pc |-> "idle"]

\* Mutant of Bound: what was seen is kept.
BoundAnew(s) ==
    [s EXCEPT !.binding = catalog, !.inProgress = s.inProgress /\ s.binding = catalog]

\* bindingHash: with another catalog the sweep starts anew.
Bound(s) ==
    IF s.binding = catalog THEN s
    ELSE [s EXCEPT !.binding = catalog, !.inProgress = FALSE,
                   !.offset = NoOffset, !.processed = {}, !.seen = Nothing,
                   !.previous = Nothing, !.gone = {}]

Continued(s) ==
    IF s.inProgress THEN s
    ELSE [s EXCEPT !.inProgress = TRUE, !.offset = NoOffset, !.seen = Nothing]

\* The catalog, then the state; the rest the run does not know yet.
Load ==
    /\ run.pc = "idle"
    /\ run' = [pc |-> "scroll", base |-> catalog, words |-> words,
               state |-> Continued(Bound(disk)),
               page |-> {}, through |-> {}, sent |-> <<>>, record |-> <<>>,
               unverified |-> {}, kept |-> <<>>]
    /\ deleted' = IF Continued(Bound(disk)) = Bound(disk) THEN deleted
                  ELSE {f \in Facts : fact[f] = 0}
    /\ UNCHANGED <<fact, versions, catalog, words, disk, proposals, changes,
                   published, faults>>

\* store.Scroll: points from the offset on, and where the next page begins.
\* A point that is not current keeps its place.
Page(offset) ==
    LET first == IF offset = NoOffset THEN 1 ELSE offset IN
    {f \in Facts : first <= f /\ f < first + PageSize}

\* Mutant of NextOffset: one point too far.
NextOffsetAfter(page) ==
    IF Max(page) + 1 >= NumFacts THEN NoOffset ELSE Max(page) + 2

NextOffset(page) == IF NumFacts \in page THEN NoOffset ELSE Max(page) + 1

\* eligibleCurrent: a fact that is not current and active has no version.
Eligible(f) == fact[f] # 0

\* makeInput: what of the page the worker has not seen in this version.
Known(s, f) == IF s.seen[f] # 0 THEN s.seen[f] ELSE s.previous[f]

Pending(s, page) ==
    {f \in page \ s.processed : Eligible(f) /\ fact[f] # Known(s, f)}

\* hasEvidenceProposal.
Proposed(s) ==
    \E p \in proposals : p.evidence = run.words /\ p.binding = s.binding

\* As many facts are sent as the request holds; what comes after the last of
\* them on the page waits.
Scroll ==
    LET s == run.state
        page == Page(s.offset)
        pending == Pending(s, page)
    IN
    /\ run.pc = "scroll"
    /\ \E last \in (IF pending = {} THEN {NoOffset} ELSE pending) :
        LET sent == {f \in pending : f <= last}
            through == IF sent = pending THEN page
                       ELSE {f \in page : f <= last}
            evidenceOnly == sent = {} /\ s.evidence # run.words
        IN
        run' = [run EXCEPT
                  !.pc = IF sent # {} \/ (evidenceOnly /\ ~Proposed(s))
                         THEN "call" ELSE "save",
                  !.state = IF evidenceOnly /\ Proposed(s)
                            THEN [s EXCEPT !.evidence = run.words] ELSE s,
                  !.page = page, !.through = through,
                  !.sent = [f \in sent |-> fact[f]],
                  !.record = [f \in through \ s.processed |-> fact[f]]]
    /\ UNCHANGED <<fact, versions, catalog, words, disk, proposals, deleted,
                   changes, published, faults>>

\* makePrivateProposal: what the proposal rests on.
PrivateProposal ==
    [binding |-> run.state.binding, facts |-> run.sent,
     evidence |-> IF DOMAIN run.sent = {} THEN run.words ELSE 0]

\* saveProposal: its name is its hash, so that the same one is kept once.
SaveProposal(p) == proposals' = proposals \cup {p}

\* The answer is discarded when the catalog is another one by now; otherwise
\* it is kept, with the versions of the facts it rests on.
Keep ==
    /\ run.pc = "call"
    /\ IF catalog # run.base
       THEN Idle /\ UNCHANGED proposals
       ELSE /\ SaveProposal(PrivateProposal)
            /\ \E publishable \in BOOLEAN :
                run' = [run EXCEPT
                          !.pc = IF publishable THEN "verify" ELSE "save",
                          !.state = [@ EXCEPT !.evidence = run.words],
                          !.unverified = DOMAIN run.sent, !.kept = fact]
    /\ UNCHANGED <<fact, versions, catalog, words, disk, deleted, changes,
                   published, faults>>

\* Mutant of StillInferred: that the fact is current is enough.
StillThere(f) == fact[f] # 0

\* verifyFactDependencies, one fact.
StillInferred(f) == fact[f] = run.sent[f]

Verify ==
    /\ run.pc = "verify"
    /\ \E f \in run.unverified :
        run' = IF StillInferred(f) THEN [run EXCEPT !.unverified = @ \ {f}]
                                   ELSE [run EXCEPT !.pc = "save"]
    /\ UNCHANGED <<fact, versions, catalog, words, disk, proposals, deleted,
                   changes, published, faults>>

\* contextcatalog.Publish against the generation that was read.
Publish ==
    /\ run.pc = "verify"
    /\ run.unverified = {}
    /\ run' = [run EXCEPT !.pc = "save"]
    /\ IF catalog = run.base /\ published < MaxPublished
       THEN catalog' = catalog + 1 /\ published' = published + 1
       ELSE UNCHANGED <<catalog, published>>
    /\ UNCHANGED <<fact, versions, words, disk, proposals, deleted, changes,
                   faults>>

\* Mutant of Advanced: a page that was cut counts as a whole.
AdvancedWhole(s) ==
    LET seen == [f \in Facts |-> IF f \in DOMAIN run.record /\ run.record[f] # 0
                                 THEN run.record[f] ELSE s.seen[f]]
    IN
    IF NextOffset(run.page) # NoOffset
    THEN [s EXCEPT !.seen = seen, !.processed = {},
                   !.offset = NextOffset(run.page)]
    ELSE [s EXCEPT !.seen = Nothing, !.previous = seen, !.processed = {},
                   !.gone = {f \in Facts : s.previous[f] # 0 /\ seen[f] = 0},
                   !.inProgress = FALSE, !.offset = NoOffset]

\* The state after the page; at the end of the collection a sweep is complete,
\* and what it has not seen again counts as deleted.
Advanced(s) ==
    LET seen == [f \in Facts |-> IF f \in DOMAIN run.record /\ run.record[f] # 0
                                 THEN run.record[f] ELSE s.seen[f]]
        partial == run.through # run.page
    IN
    IF partial
    THEN [s EXCEPT !.seen = seen, !.processed = @ \cup run.through]
    ELSE IF NextOffset(run.page) # NoOffset
    THEN [s EXCEPT !.seen = seen, !.processed = {},
                   !.offset = NextOffset(run.page)]
    ELSE [s EXCEPT !.seen = Nothing, !.previous = seen, !.processed = {},
                   !.gone = {f \in Facts : s.previous[f] # 0 /\ seen[f] = 0},
                   !.inProgress = FALSE, !.offset = NoOffset]

Save ==
    /\ run.pc = "save"
    /\ disk' = Advanced(run.state)
    /\ Idle
    /\ UNCHANGED <<fact, versions, catalog, words, proposals, deleted, changes,
                   published, faults>>

\* The run ends where it is; nothing or all of its next step has happened.
Fault ==
    /\ faults < MaxFaults
    /\ run.pc # "idle"
    /\ Idle
    /\ faults' = faults + 1
    /\ UNCHANGED <<fact, versions, catalog, words, disk, proposals, deleted,
                   changes, published>>

------------------------------------------------------------------------------
(* What people do. *)

Change ==
    /\ changes < MaxChanges
    /\ changes' = changes + 1
    /\ UNCHANGED <<disk, proposals, run, published, faults>>

\* A fact is written, or is current again.
Write(f) ==
    /\ Change
    /\ versions' = [versions EXCEPT ![f] = @ + 1]
    /\ fact' = [fact EXCEPT ![f] = versions[f] + 1]
    /\ UNCHANGED <<catalog, words, deleted>>

\* A fact is deleted or superseded.
Forget(f) ==
    /\ Change
    /\ fact[f] # 0
    /\ fact' = [fact EXCEPT ![f] = 0]
    /\ deleted' = deleted \cup {f}
    /\ UNCHANGED <<versions, catalog, words>>

Describe ==
    /\ Change
    /\ catalog' = catalog + 1
    /\ words' = words + 1
    /\ UNCHANGED <<fact, versions, deleted>>

Sweep == Load \/ Scroll \/ Keep \/ Verify \/ Publish \/ Save

Next ==
    \/ Sweep \/ Fault \/ Describe
    \/ \E f \in Facts : Write(f) \/ Forget(f)

Spec == Init /\ [][Next]_vars /\ WF_vars(Sweep)

------------------------------------------------------------------------------
(* Properties. *)

\* What the sweep has seen of a fact has been proposed under this catalog:
\* no version is skipped because a run died, a page was cut, or the facts
\* moved between two pages.
SeenWasProposed ==
    \A f \in Facts : \A v \in {disk.seen[f], disk.previous[f]} \ {0} :
        \E p \in proposals :
            p.binding = disk.binding /\ f \in DOMAIN p.facts /\ p.facts[f] = v

\* A description is published only on facts that were still as the provider
\* was told when the proposal was kept, and the worker reports as gone only
\* what was gone at some time of its sweep.
PublishedOnCurrentFacts ==
    [][/\ published' > published =>
            \A f \in DOMAIN run.sent : run.kept[f] = run.sent[f]
       /\ disk'.gone # disk.gone =>
            \A f \in disk'.gone : f \in deleted \/ fact[f] = 0]_vars

AllProposed ==
    \A f \in Facts : fact[f] # 0 =>
        \E p \in proposals : /\ p.binding = catalog
                             /\ f \in DOMAIN p.facts
                             /\ p.facts[f] = fact[f]

\* Every current fact is proposed in the end, however runs fail.
EveryFactIsProposed == <>[]AllProposed
=============================================================================
