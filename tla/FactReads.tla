------------------------------ MODULE FactReads ------------------------------
(***************************************************************************)
(* What the reading tools answer (internal/memory): recall_facts from the  *)
(* search to the answer, with the optional AI ranking in between           *)
(* (server.go, lifecycle_recall.go, ai_read.go), get_operational_context,  *)
(* find_related and get_stats, over the lifecycle metadata of facts        *)
(* (lifecycle/model.go, presentation.go) and the tool that sets it         *)
(* (lifecycle_write.go).  A ranked recall is many calls long: other tools  *)
(* change facts, the catalog or the AI configuration meanwhile, and the    *)
(* day changes.                                                            *)
(*                                                                         *)
(* One recall is followed.  Facts are 1..NumFacts in the order of their    *)
(* IDs; a fact's text, and so its similarity to the query, goes with its   *)
(* ID.  The cache and the counting of recalls are RecallCache and          *)
(* RecallCounter; a ranked recall does not use the cache.                  *)
(***************************************************************************)
EXTENDS Integers, FiniteSets, SequencesExt

CONSTANTS
    NumFacts,    \* facts of the collection
    Score,       \* Score[f]: similarity of f to the query
    Payloads,    \* the payloads facts may have at the start
    Limit,       \* the limit of the recall (server default 5)
    Window,      \* points a search returns at most: lifecycleCandidateLimit
    RankLimit,   \* candidates one AI ranking takes at most (20 in the code)
    LastDay,     \* bound: days
    MaxChanges,  \* bound: changes of facts, of the catalog and of the runtime
    None

Facts == 1..NumFacts
States == {"current", "historical", "superseded", "disputed"}
Modes == {"current", "as_of", "include_all"}   \* "history" does what "include_all" does
NoDate == 0
BadDate == -1

\* What can be stored: lifecycle metadata, the date up to which it is valid,
\* the maintenance status, whether it is in the scope of the query, the
\* permanent flag, and the count of recalls (0, or more).
Lives == [state : States \cup {"absent", "bad"}, canonical : {"absent", "true", "false", "bad"},
          by : {"absent", "empty", "some", "bad"}, rest : {"absent", "ok", "bad"}]
Storable == [life : Lives, until : Int, status : {"absent", "active", "torn", "quarantined"},
             scope : BOOLEAN, permanent : BOOLEAN, count : {0, 1}]
Answers == [facts : Seq(Facts \X Storable), applied : BOOLEAN, saturated : BOOLEAN]

ASSUME ReadsAssumption ==
    /\ NumFacts \in Nat \ {0}
    /\ Score \in [Facts -> Nat]
    /\ Payloads \subseteq Storable
    /\ Limit \in 1..Window
    /\ Window \in Nat
    /\ LastDay \in Nat \ {0}
    /\ None \notin Storable \cup Answers

VARIABLES
    fact,       \* fact[f]: the payload stored under f, or None
    day,        \* the calendar day (UTC)
    catalog,    \* the active catalog generation
    runtime,    \* the AI runtime in force
    changes,    \* number of changes so far
    written,    \* facts whose lifecycle was last set by set_fact_lifecycle
    phase,      \* "idle", "found", "ranking", "refresh" or "answered"
    call,       \* what the recall has in hand
    answer,     \* the answer given
    since,      \* history: <<f, payload, day>> held since the last await that
                \* the answer may rest on
    steady      \* history: facts untouched since the search

vars == <<fact, day, catalog, runtime, changes, written, phase, call, answer,
          since, steady>>
worldVars == <<fact, day, catalog, runtime, changes, written>>

------------------------------------------------------------------------------
(* Lifecycle metadata.  A payload's raw fields are the state, the canonical *)
(* flag, superseded_by and the rest (provenance, dates, supersedes), each   *)
(* of which may be absent or malformed.                                     *)

NoLife == [state |-> "absent", canonical |-> "absent", by |-> "absent", rest |-> "absent"]

State(life) == IF life.state = "absent" THEN "current" ELSE life.state
Canonical(life) == life.canonical = "true"

\* Parse and Validate.
Valid(life) ==
    /\ State(life) \in States
    /\ "bad" \notin {life.canonical, life.by, life.rest}
    /\ Canonical(life) => State(life) = "current"
    /\ State(life) = "superseded" => life.by = "some"
    /\ State(life) = "current" => life.by # "some"

\* rankTier, and aiAuthority.
Tier(life) ==
    IF ~Valid(life) THEN 5
    ELSE CASE State(life) = "current" -> IF Canonical(life) THEN 0 ELSE 1
           [] State(life) = "disputed" -> 2
           [] State(life) = "historical" -> 3
           [] State(life) = "superseded" -> 4

\* lifecycleMutationPayload: every field is set or removed.
\* Mutant: fields the caller left out stay as they are.
KeepRest(old, input) == [input EXCEPT !.rest = IF old.rest = "absent" THEN "ok" ELSE old.rest]
SetLife(old, input) == [input EXCEPT !.rest = "ok"]

Inputs == [state : States, canonical : {"true", "false"}, by : {"empty", "some"}, rest : {"ok"}]

Expired(p, on) == p.until # NoDate /\ (p.until = BadDate \/ on > p.until)

\* The two readings of the maintenance status: Qdrant's filter lets a
\* payload without the status through that Parse may refuse ("torn").
ActiveFilter(p) == p.status \in {"absent", "active", "torn"}
IsActive(p) == p.status \in {"absent", "active"}

IsCurrentTruth(p, on) == Valid(p.life) /\ ~Expired(p, on) /\ State(p.life) = "current"

------------------------------------------------------------------------------
(* Recall: the candidates of a search and their presentation. *)

CurrentFilter(p) == p.life.state \in {"current", "absent"}

Matching(mode) ==
    {f \in Facts : /\ fact[f] # None
                   /\ fact[f].scope
                   /\ ActiveFilter(fact[f])
                   /\ mode = "current" => CurrentFilter(fact[f])}

Windows(mode) ==
    {W \in SUBSET Matching(mode) :
        /\ Cardinality(W) = IF Cardinality(Matching(mode)) < Window
                            THEN Cardinality(Matching(mode)) ELSE Window
        /\ \A f \in W, g \in Matching(mode) \ W : Score[f] >= Score[g]}

\* What a recall in this mode shows of a payload, on a day.
Shown(p, mode, on) ==
    /\ IsActive(p)
    /\ Valid(p.life)
    /\ ~Expired(p, on)
    /\ mode = "current" => State(p.life) = "current"

\* DecidePresentation: the label of a payload, given whether a canonical
\* current fact is among the candidates.
Decision(p, mode, on, preferred) ==
    CASE ~Valid(p.life) \/ Expired(p, on) -> "suppress"
      [] OTHER ->
            IF mode = "current"
            THEN IF State(p.life) # "current" THEN "suppress"
                 ELSE IF ~Canonical(p.life) /\ preferred THEN "demote" ELSE "include"
            ELSE IF State(p.life) = "disputed" THEN "uncertain" ELSE "include"

\* SortCandidates: authority first, then score, then ID.
Before(pts, f, g) ==
    \/ Tier(pts[f].life) < Tier(pts[g].life)
    \/ /\ Tier(pts[f].life) = Tier(pts[g].life)
       /\ \/ Score[f] > Score[g]
          \/ Score[f] = Score[g] /\ f < g

\* S in the order of a strict linear order on it.
Sorted(S, order) ==
    LET n == Cardinality(S) IN
    CHOOSE s \in [1..n -> S] : \A i, j \in 1..n : i < j => <<s[i], s[j]>> \in order

\* presentLifecycleRecallCandidates.
Present(pts, mode, on) ==
    LET shown == {f \in DOMAIN pts : Shown(pts[f], mode, on)}
    IN  Sorted(shown, {e \in shown \X shown : Before(pts, e[1], e[2])})

\* The day a mode looks from: its own in "as_of" mode.
Reference == IF call.mode = "as_of" THEN call.asOf ELSE day

NoCall == [mode |-> "current", asOf |-> 1, pts |-> <<>>, order |-> <<>>, saturated |-> FALSE,
           catalog |-> 0, runtime |-> 0, ranked |-> <<>>, fresh |-> <<>>]

Init ==
    /\ fact \in [Facts -> Payloads]
    /\ day = 1
    /\ catalog = 1
    /\ runtime = 1
    /\ changes = 0
    /\ written = {}
    /\ phase = "idle"
    /\ call = NoCall
    /\ answer = None
    /\ since = {}
    /\ steady = {}

Now == {<<f, fact[f], day>> : f \in {g \in Facts : fact[g] # None}}

Recall(mode, asOf) ==
    /\ phase \in {"idle", "answered"}
    /\ \E W \in Windows(mode) :
          LET pts == [f \in W |-> fact[f]] IN
          call' = [NoCall EXCEPT !.mode = mode, !.asOf = asOf, !.pts = pts,
                      !.order = Present(pts, mode, IF mode = "as_of" THEN asOf ELSE day),
                      !.saturated = Cardinality(W) = Window]
    /\ phase' = "found"
    /\ answer' = None
    /\ since' = Now
    /\ steady' = Facts
    /\ UNCHANGED worldVars

Give(order, pts, applied) ==
    /\ phase' = "answered"
    /\ answer' = [facts |-> [i \in 1..(IF Len(order) < Limit THEN Len(order) ELSE Limit) |->
                                <<order[i], pts[order[i]]>>],
                  applied |-> applied, saturated |-> call.saturated]

\* No AI, or nothing was sent: the catalog, the policy or the budget refuse,
\* or there is nothing or too much to rank.
AnswerPlain ==
    /\ phase = "found"
    /\ Give(call.order, call.pts, FALSE)
    /\ UNCHANGED <<worldVars, call, since, steady>>

Dispatch ==
    /\ phase = "found"
    /\ Len(call.order) \in 1..RankLimit
    /\ call' = [call EXCEPT !.catalog = catalog, !.runtime = runtime]
    /\ phase' = "ranking"
    /\ UNCHANGED <<worldVars, answer, since, steady>>

\* Ranking within tiers by the provider's scores, stable.
ByAuthority(f, g, ai) ==
    LET tf == Tier(call.pts[f].life)
        tg == Tier(call.pts[g].life) IN
    tf < tg \/ (tf = tg /\ (ai[f] > ai[g] \/ (ai[f] = ai[g] /\ Before(call.pts, f, g))))

\* The provider answers with scores, or not usefully (error, timeout,
\* abstention, none relevant, a changed catalog): the order stays.
ProviderAnswers ==
    /\ phase = "ranking"
    /\ \/ /\ call.catalog = catalog
          /\ LET sent == ToSet(call.order) IN
             \E ai \in [sent -> {0, 1}] :
                call' = [call EXCEPT !.ranked =
                            Sorted(sent, {e \in sent \X sent : ByAuthority(e[1], e[2], ai)})]
       \/ call' = call
    /\ phase' = "refresh"
    /\ since' = Now
    /\ UNCHANGED <<worldVars, answer, steady>>

\* aiRefreshCandidates reads every candidate again, one after the other.
Get ==
    /\ phase = "refresh"
    /\ Len(call.fresh) < Len(call.order)
    /\ call' = [call EXCEPT !.fresh = Append(@, fact[call.order[Len(@) + 1]])]
    /\ UNCHANGED <<worldVars, phase, answer, since, steady>>

GetFails ==
    /\ phase = "refresh"
    /\ phase' = "idle"
    /\ call' = NoCall
    /\ UNCHANGED <<worldVars, answer, since, steady>>

\* matchesAIRecallScope.
InScope(p) == p # None /\ p.scope /\ IsActive(p)

\* The fingerprint leaves the recall count out.
Semantic(p) == IF p = None THEN None ELSE [p EXCEPT !.count = 0]

\* Mutant: the candidates are taken as they were ranked.
NotReread == [f \in ToSet(call.order) |-> call.pts[f]]
Reread == [f \in ToSet(call.order) |-> call.fresh[CHOOSE i \in DOMAIN call.order : call.order[i] = f]]

AnswerRanked ==
    /\ phase = "refresh"
    /\ Len(call.fresh) = Len(call.order)
    /\ LET now       == Reread
           latest    == [f \in {g \in DOMAIN now : InScope(now[g])} |-> now[f]]
           refreshed == Present(latest, call.mode, Reference)
           changed   == \/ \E f \in DOMAIN now : Semantic(now[f]) # Semantic(call.pts[f])
                        \/ Len(refreshed) # Len(call.order)
           pinned    == call.catalog = catalog /\ call.runtime = runtime
       IN IF pinned /\ ~changed /\ call.ranked # <<>>
          THEN Give(call.ranked, latest, TRUE)
          ELSE Give(refreshed, latest, FALSE)
    /\ UNCHANGED <<worldVars, call, since, steady>>

------------------------------------------------------------------------------
(* Everybody else. *)

Change ==
    /\ changes < MaxChanges
    /\ changes' = changes + 1

\* set_fact_lifecycle.
SetLifecycle(f, input) ==
    /\ Change
    /\ fact[f] # None
    /\ IsActive(fact[f])
    /\ Valid(input)
    /\ fact' = [fact EXCEPT ![f].life = SetLife(@, input)]
    /\ written' = written \cup {f}
    /\ steady' = steady \ {f}
    /\ since' = since \cup {<<f, fact'[f], day>>}
    /\ UNCHANGED <<day, catalog, runtime, phase, call, answer>>

Becomes(f, new) ==
    /\ new # fact[f]
    /\ fact' = [fact EXCEPT ![f] = new]
    /\ since' = IF new = None THEN since ELSE since \cup {<<f, new, day>>}
    /\ written' = IF new = None THEN written \ {f} ELSE written

\* delete_fact, quarantine, another namespace or another set of tags.
Rewrite(f) ==
    /\ Change
    /\ fact[f] # None
    /\ \/ Becomes(f, None)
       \/ \E s \in {"active", "quarantined"}, b \in BOOLEAN :
             Becomes(f, [fact[f] EXCEPT !.status = s, !.scope = b])
    /\ steady' = steady \ {f}
    /\ UNCHANGED <<day, catalog, runtime, phase, call, answer>>

\* apiUpdateFactTags: the dashboard replaces the tags.  Its read and its write
\* are one step here; a fact quarantined in between is one nobody reads.
EditTags(f) ==
    /\ Change
    /\ fact[f] # None
    /\ IsActive(fact[f])
    /\ fact' = [fact EXCEPT ![f].scope = ~@]
    /\ since' = since \cup {<<f, fact'[f], day>>}
    /\ steady' = steady \ {f}
    /\ UNCHANGED <<day, catalog, runtime, written, phase, call, answer>>

\* The worker counts a recall.
CountRecall(f) ==
    /\ Change
    /\ fact[f] # None
    /\ fact[f].count = 0
    /\ fact' = [fact EXCEPT ![f].count = 1]
    /\ since' = since \cup {<<f, fact'[f], day>>}
    /\ UNCHANGED <<day, catalog, runtime, written, phase, call, answer, steady>>

\* A catalog is published, or ConfigureAI replaces the runtime.
Reconfigure ==
    /\ Change
    /\ \/ catalog' = catalog + 1 /\ runtime' = runtime
       \/ runtime' = runtime + 1 /\ catalog' = catalog
    /\ UNCHANGED <<fact, day, written, phase, call, answer, since, steady>>

NextDay ==
    /\ day < LastDay
    /\ day' = day + 1
    /\ since' = since \cup {<<f, fact[f], day + 1>> : f \in {g \in Facts : fact[g] # None}}
    /\ UNCHANGED <<fact, catalog, runtime, changes, written, phase, call, answer, steady>>

Next ==
    \/ \E mode \in Modes, asOf \in 1..LastDay :
          (mode = "as_of" \/ asOf = 1) /\ Recall(mode, asOf)
    \/ AnswerPlain
    \/ Dispatch
    \/ ProviderAnswers
    \/ Get
    \/ GetFails
    \/ AnswerRanked
    \/ \E f \in Facts, input \in Inputs : SetLifecycle(f, input)
    \/ \E f \in Facts : Rewrite(f)
    \/ \E f \in Facts : EditTags(f) \/ CountRecall(f)
    \/ Reconfigure
    \/ NextDay

Spec == Init /\ [][Next]_vars

------------------------------------------------------------------------------
(* The other reading tools. *)

Stored == {f \in Facts : fact[f] # None /\ ActiveFilter(fact[f]) /\ IsActive(fact[f])}

\* getOperationalFacts: all permanent current truths and the most recalled
\* of the others, canonical ones first.
OperationalBefore(f, g) ==
    \/ Canonical(fact[f].life) /\ ~Canonical(fact[g].life)
    \/ /\ Canonical(fact[f].life) = Canonical(fact[g].life)
       /\ \/ fact[f].count > fact[g].count
          \/ fact[f].count = fact[g].count /\ f < g

Truths == {f \in Stored : /\ fact[f].scope
                          /\ CurrentFilter(fact[f])
                          /\ IsCurrentTruth(fact[f], day)}

Operational(top) ==
    LET permanent == {f \in Truths : fact[f].permanent}
        others == {f \in Truths \ permanent : fact[f].count > 0} IN
    permanent \cup {f \in others : Cardinality({g \in others : OperationalBefore(g, f)}) < top}

\* selectRelatedCandidates over what find_related found: what would refuse
\* a store as its duplicate, and what is offered as related.
Blocks(f, dedup) ==
    /\ Score[f] >= dedup
    /\ ~(Valid(fact[f].life) /\ State(fact[f].life) = "superseded")
RelatedTo(low, dedup) ==
    {f \in Stored : fact[f].scope /\ ~Blocks(f, dedup) /\ Score[f] >= low /\ ~Expired(fact[f], day)}

\* lifecycleCounts, and getStats.
Counted(s) == {f \in Stored : Valid(fact[f].life) /\ State(fact[f].life) = s}
Invalid == {f \in Stored : ~Valid(fact[f].life)}

Statistics ==
    [total   |-> Cardinality(Stored),
     states  |-> [s \in States |-> Cardinality(Counted(s))],
     legacy  |-> Cardinality({f \in Stored : fact[f].life = NoLife}),
     invalid |-> Cardinality(Invalid),
     expired |-> Cardinality({f \in Stored : Expired(fact[f], day)})]

\* exportFacts, and what importFacts takes of it.
Exported == {f \in Stored : fact[f].scope}
Importable(p) == Valid(p.life) /\ p.until # BadDate

\* apiFacts.
Listed(status) ==
    IF status = "active" THEN Stored
    ELSE {f \in Facts : fact[f] # None /\ fact[f].status = "quarantined"}

\* apiFactDetail.
Detailed == {f \in Facts : fact[f] # None /\ IsActive(fact[f])}

\* apiGraph, by lifecycle state and authority.
GraphState(life) == IF Valid(life) THEN State(life) ELSE "invalid"
Graph(state, authority) ==
    {f \in Stored :
        LET life == fact[f].life IN
        /\ fact[f].scope
        /\ state # "" => GraphState(life) = state
        /\ authority # "" => Valid(life)
        /\ authority = "canonical" => Canonical(life)
        /\ authority = "legacy" => life = NoLife}

------------------------------------------------------------------------------
(* Properties. *)

\* Every fact in an answer was, at one moment since the search (since the
\* provider answered, if it was asked), stored as the answer shows it and
\* fit to be shown in the mode asked for, whatever was deleted, quarantined,
\* superseded or expired meanwhile.
RecallIsFresh ==
    answer # None =>
        \A i \in DOMAIN answer.facts :
            \E s \in since :
                /\ <<s[1], s[2]>> = answer.facts[i]
                /\ s[2].scope
                /\ Shown(s[2], call.mode, IF call.mode = "as_of" THEN call.asOf ELSE s[3])

\* A fact that was there, unchanged and fit to be shown all along is in the
\* answer, unless the answer is full of facts with no less authority, or it
\* was outside a window that the answer calls saturated.  The provider's
\* scores cannot push it out.
NothingBetterLeftOut ==
    answer # None =>
        \A f \in steady \cap (IF answer.saturated THEN DOMAIN call.pts
                               ELSE Matching(call.mode)) :
            Shown(fact[f], call.mode, Reference) =>
                \/ \E i \in DOMAIN answer.facts : answer.facts[i][1] = f
                \/ /\ Len(answer.facts) = Limit
                   /\ \A i \in DOMAIN answer.facts :
                         Tier(answer.facts[i][2].life) <= Tier(fact[f].life)

RecallIsFaithful == RecallIsFresh /\ NothingBetterLeftOut

\* The tools agree on what is there: the operational context offers nothing
\* that a recall would withhold and leaves out no permanent current truth;
\* a recall withholds exactly what the presentation policy suppresses;
\* nothing a recall shows is unknown both to find_related and to the
\* duplicate check, if it is similar enough, and it is exported and can be
\* imported again; the statistics count every stored fact once, as the graph
\* shows it; the graph shows nothing but current facts as canonical; the
\* dashboard opens what it lists and lists every fact once, but for those
\* whose status is malformed;
\* and what set_fact_lifecycle wrote can be read.  All of this is about the
\* store alone, which becomes with a recall under way nothing that it cannot
\* become without one.
ReadsAgree == phase = "idle" =>
    LET operational == Operational(1)
        recallable == Matching("include_all")
        stats == Statistics
        listed == Listed("active")
        quarantined == Listed("quarantined") IN
    /\ \A f \in operational : Shown(fact[f], "current", day)
    /\ \A f \in Matching("current") :
          Shown(fact[f], "current", day) /\ fact[f].permanent => f \in operational
    /\ \A mode \in Modes : \A f \in Stored :
          Shown(fact[f], mode, day) <=> Decision(fact[f], mode, day, TRUE) # "suppress"
    /\ \A f \in recallable :
          Shown(fact[f], "include_all", day) /\ Score[f] >= 1 =>
              f \in RelatedTo(1, 2) \/ Blocks(f, 2)
    /\ \A f \in recallable :
          Shown(fact[f], "include_all", day) => f \in Exported /\ Importable(fact[f])
    /\ stats.total = stats.invalid + stats.states["current"] + stats.states["historical"]
                       + stats.states["superseded"] + stats.states["disputed"]
    /\ stats.legacy <= stats.states["current"]
    /\ \A s \in States : Graph(s, "") = Counted(s) \cap Exported
    /\ Graph("", "canonical") \subseteq Graph("current", "canonical")
    /\ listed = Detailed
    /\ listed \cap quarantined = {}
    /\ \A f \in Facts \ (listed \cup quarantined) :
          fact[f] = None \/ fact[f].status = "torn"
    /\ \A f \in written : fact[f] # None => Valid(fact[f].life)
=============================================================================
