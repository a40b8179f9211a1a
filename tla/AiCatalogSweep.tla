--------------------------- MODULE AiCatalogSweep ---------------------------
(***************************************************************************)
(* The AI worker of scope catalog_only (aimaintenance/catalog_worker.go    *)
(* and catalog_projection.go): it sends the owner's words about a project  *)
(* to the provider and publishes the description that comes back.          *)
(*                                                                         *)
(* The worker reads the catalog, the policies and its own files one after  *)
(* another, pays for an answer, keeps it as a receipt, and publishes       *)
(* against the catalog generation it read; the owner edits, restores and   *)
(* holds projects meanwhile.  A write may fail before it happened or       *)
(* after, and the process may die at any step: `fault` ends the run        *)
(* wherever it is.  What a run writes to the journal of the catalog is in  *)
(* CatalogOperations; a publication is one step here.                      *)
(***************************************************************************)
EXTENDS Naturals, SequencesExt

CONSTANTS
    NumProjects,  \* cards in the catalog, in the order of their keys
    Words,        \* descriptions that people write
    MaxPerRun,    \* max_projects_per_run
    MaxTexts,     \* bound: answers of the provider
    MaxChanges,   \* bound: what people do to catalog, policies, receipts
    MaxFaults,    \* bound: failing calls and writes, crashes
    None

Projects == 1 .. NumProjects
Texts == 1 .. MaxTexts
Descriptions == Words \cup Texts

\* A card: who described it, the owner's words kept beside a description that
\* is not his, and the description.
Cards == [derived : BOOLEAN, declared : Descriptions \cup {None},
          text : Descriptions]

\* projections.json: the owner's card behind a card, and hashes of its forms.
Projections == [original : Cards, hashes : Seq(Cards)]

\* Answers are numbered; what people write is told apart from them.
ASSUME SweepAssumption ==
    /\ {NumProjects, MaxPerRun, MaxTexts} \subseteq Nat \ {0}
    /\ MaxChanges \in Nat /\ MaxFaults \in Nat
    /\ Words \cap Texts = {}
    /\ None \notin Descriptions /\ None \notin Projections

VARIABLES
    live,     \* live[p]: the card of p in the active generation
    gen,      \* the active generation
    policy,   \* policy[p]: hold and revision
    history,  \* changes of cards: project, card, and who published it
    fp,       \* state.json: fp[p], what was last processed for p
    cursor,   \* state.json: where the next selection begins
    cache,    \* projections.json: cache[p], the owner's card behind a derived one
    receipts, \* the proposals kept
    run,      \* what the running worker knows
    texts,    \* texts[t]: observer, the sources that answer t was made from
    answered, \* observer: projects whose answer is kept and still stands
    changes,  \* number of changes by people
    faults    \* number of faults

vars == <<live, gen, policy, history, fp, cursor, cache, receipts, run,
          texts, answered, changes, faults>>
people == <<live, gen, policy, history>>
files == <<fp, cursor, cache, receipts>>

Card(derived, declared, text) ==
    [derived |-> derived, declared |-> declared, text |-> text]
Own(w) == Card(FALSE, None, w)

Init ==
    /\ \E w \in Words : live = [p \in Projects |-> Own(w)]
    /\ gen = 0
    /\ policy \in [Projects -> {[hold |-> FALSE, revision |-> 0],
                               [hold |-> TRUE, revision |-> 1]}]
    /\ history = {[project |-> p, card |-> live[p], by |-> "owner"] :
                     p \in Projects}
    /\ fp = [p \in Projects |-> None]
    /\ cursor = 0
    /\ cache = [p \in Projects |-> None]
    /\ receipts = {}
    /\ run = [pc |-> "idle"]
    /\ texts = <<>>
    /\ answered = {}
    /\ changes \in 0 .. MaxChanges
    /\ faults \in 0 .. MaxFaults

------------------------------------------------------------------------------
(* Cards. *)

\* The words a card rests on: what strictEvidenceForCard sends.
Source(e) == IF e.declared # None THEN e.declared
             ELSE IF e.derived THEN None ELSE e.text

AnySource(a, b) == TRUE  \* mutant of SameReviewSource

\* SameReviewSourceIdentity.
SameReviewSource(a, b) == Source(a) = Source(b)

\* sameCatalogSourceIdentity: e may be derived from the card o.
DerivedFrom(e, o) ==
    /\ \/ o.declared = e.declared
       \/ e.derived /\ o.declared = None /\ e.declared = o.text
    /\ o.derived = e.derived \/ e.derived

\* The card that an answer makes of e.
Rewritten(e, t) ==
    Card(TRUE, IF e.declared = None /\ ~e.derived THEN e.text ELSE e.declared, t)

Published(p, e, by) == [project |-> p, card |-> e, by |-> by]

\* projectionHistoryMatchesLive: the catalog itself proves who wrote e.
InHistory(p, e) ==
    \E by \in {"maintenance", "restore"} : Published(p, e, by) \in history

\* Mutant of Recognised: the hashes alone.
InCache(c, p, e) ==
    c[p] # None /\ DerivedFrom(e, c[p].original) /\ e \in ToSet(c[p].hashes)

\* cacheRecordMatchesLive, or history.
Recognised(c, p, e) ==
    /\ c[p] # None
    /\ DerivedFrom(e, c[p].original)
    /\ e \in ToSet(c[p].hashes) \/ (e.derived /\ InHistory(p, e))

\* restorePublishedOriginals: the owner's card behind the live one.  A derived
\* card of unknown origin is blocked, and keeps only the declared words.
Blocked(c, p, e) == e.derived /\ ~Recognised(c, p, e)

Original(c, p, e) ==
    IF Recognised(c, p, e) THEN c[p].original
    ELSE IF e.derived THEN [e EXCEPT !.text = e.declared]
    ELSE e

\* At most two hashes are kept.
Remember(hashes, e) ==
    LET s == IF e \in ToSet(hashes) THEN hashes ELSE Append(hashes, e)
    IN  IF Len(s) > 2 THEN Tail(s) ELSE s

\* importReceiptProjections: receipts whose publication is live tell the
\* owner's card too.
Importable(cards, p) ==
    {r \in receipts :
        /\ r.published # None /\ p \in DOMAIN r.published
        /\ \A q \in DOMAIN r.context : ~r.context[q].derived
        /\ r.published[p] = cards[p]
        /\ DerivedFrom(cards[p], r.context[p])}

Imported(cards, p) ==
    LET found == {r.context[p] : r \in Importable(cards, p)} IN
    IF cache[p] # None
    THEN IF cache[p].original \in found
         THEN [cache[p] EXCEPT !.hashes = Remember(@, cards[p])] ELSE cache[p]
    ELSE IF found # {}
         THEN [original |-> CHOOSE o \in found : TRUE, hashes |-> <<cards[p]>>]
         ELSE None

------------------------------------------------------------------------------
(* One sweep. *)

Idle == run' = [pc |-> "idle"]

\* RunOnce begins: the state, the active generation.  The rest the run does
\* not know yet.
Load ==
    /\ run.pc = "idle"
    /\ run' = [pc |-> "policies", cards |-> live, base |-> gen,
               since |-> changes, policy |-> None, originals |-> None,
               selected |-> {}, fp |-> None, passed |-> None, last |-> None,
               key |-> None, receipt |-> None, complete |-> FALSE]
    /\ UNCHANGED <<people, files, texts, answered, changes, faults>>

\* The policies are read afterwards.
LoadPolicies ==
    /\ run.pc = "policies"
    /\ run' = [run EXCEPT !.pc = "select", !.policy = policy]
    /\ UNCHANGED <<people, files, texts, answered, changes, faults>>

\* catalogCardFingerprintWithContext reads the policy once more.
Fingerprint(originals, p) ==
    [original |-> originals[p], context |-> originals, policy |-> policy[p]]

\* The order in which the eligible cards are visited: by their keys, those
\* after the cursor first.
Before(eligible, p, q) ==
    IF cursor \in eligible /\ (p > cursor) # (q > cursor) THEN p > cursor
                                                          ELSE p < q

LastOf(eligible, S) ==
    CHOOSE p \in S : \A q \in S \ {p} : Before(eligible, q, p)

\* Restore the owner's cards, save what was imported, and select.
Select ==
    LET eligible == {p \in Projects : ~run.policy[p].hold}
        c == [p \in Projects |-> Imported(run.cards, p)]
        originals == [p \in eligible |-> Original(c, p, run.cards[p])]
        blocked == {p \in eligible : Blocked(c, p, run.cards[p])}
        stale == {p \in eligible \ blocked : fp[p] # Fingerprint(originals, p)}
        \* the cards that are visited before the run has enough of them
        visited == {p \in eligible : MaxPerRun >
                       Cardinality({q \in stale : Before(eligible, q, p)})}
        selected == stale \cap visited
        \* a blocked card that is passed moves the cursor
        passed == IF blocked \cap visited = {} THEN cursor
                  ELSE LastOf(eligible, blocked \cap visited)
        \* a held card loses its fingerprint
        kept == [p \in Projects |-> IF p \in eligible THEN fp[p] ELSE None]
    IN
    /\ run.pc = "select"
    /\ cache' = c
    /\ IF selected = {}
       THEN /\ Idle
            /\ fp' = IF eligible = {} THEN fp ELSE kept
            /\ cursor' = passed
       ELSE /\ run' = [run EXCEPT !.pc = "find", !.originals = originals,
                         !.selected = selected, !.fp = kept, !.passed = passed,
                         !.last = LastOf(eligible, selected)]
            /\ UNCHANGED <<fp, cursor>>
    /\ UNCHANGED <<people, receipts, texts, answered, changes, faults>>

\* receiptKey: the selected originals with their policies, the context, and
\* the revisions that the publication will be guarded by.
ReceiptKey ==
    [originals |-> [p \in run.selected |-> run.originals[p]],
     policies |-> [p \in run.selected |-> policy[p]],
     context |-> run.originals,
     guards |-> [p \in run.selected |-> run.policy[p].revision]]

NeverLive(published, cards) == FALSE  \* mutant of IsLive

\* catalogPublicationMatches.
IsLive(published, cards) ==
    /\ published # None
    /\ \A p \in DOMAIN published : cards[p] = published[p]

\* findReceipt: same question, and either the same generation or already
\* published.
Usable(r) ==
    /\ r.key = ReceiptKey
    /\ r.base = run.base \/ IsLive(r.published, run.cards)

Reuse ==
    /\ run.pc = "find"
    /\ \E r \in receipts :
        /\ Usable(r)
        /\ run' = [run EXCEPT !.pc = "check", !.receipt = r,
                              !.complete = r.base # run.base]
    /\ UNCHANGED <<people, files, texts, answered, changes, faults>>

\* budget.Begin, the state saved as "dispatching", and the request.
Dispatch ==
    /\ run.pc = "find"
    /\ ~\E r \in receipts : Usable(r)
    /\ Len(texts) < MaxTexts
    /\ fp' = run.fp
    /\ cursor' = run.passed
    /\ texts' = Append(texts, [p \in run.selected |-> Source(run.originals[p])])
    /\ run' = [run EXCEPT !.pc = "answer", !.key = ReceiptKey]
    /\ UNCHANGED <<people, cache, receipts, answered, changes, faults>>

\* expectedCatalogPublication: an answer may leave a card as it is, or be
\* unusable (evidence missing, card unresolved).
Answers ==
    {None} \cup {[p \in run.selected |->
                     IF p \in rewritten THEN Rewritten(run.cards[p], Len(texts))
                                        ELSE run.cards[p]] :
                  rewritten \in SUBSET run.selected}

\* Mutant of SourcesCurrent: compare the card itself.
CardsCurrent == \A p \in run.selected : live[p] = run.originals[p]

\* catalogSourcesState: the selected projects still rest on the same words.
SourcesCurrent ==
    \A p \in run.selected :
        /\ ~Blocked(cache, p, live[p])
        /\ Original(cache, p, live[p]) = run.originals[p]

\* The answer is checked against the sources and kept.
Keep ==
    /\ run.pc = "answer"
    /\ IF SourcesCurrent
       THEN \E published \in Answers :
            LET r == [key |-> run.key, base |-> run.base,
                      context |-> run.originals, published |-> published]
            IN  /\ receipts' = receipts \cup {r}
                /\ answered' = IF run.since = changes
                               THEN answered \cup run.selected ELSE answered
                /\ run' = [run EXCEPT !.pc = "check", !.receipt = r]
       ELSE Idle /\ UNCHANGED <<receipts, answered>>
    /\ UNCHANGED <<people, fp, cursor, cache, texts, changes, faults>>

\* persistOriginalProjections for one card; None is the error.
Projected(p, expected) ==
    LET e == run.cards[p]
        o == run.originals[p]
        fresh == [original |-> o, hashes |-> Remember(<<e>>, expected)]
    IN
    IF o.derived THEN None
    ELSE IF cache[p] = None
    THEN IF ~e.derived /\ DerivedFrom(e, o) THEN fresh ELSE None
    ELSE IF Recognised(cache, p, e)
    THEN IF cache[p].original = o THEN fresh ELSE None
    ELSE IF ~e.derived /\ DerivedFrom(e, o) THEN fresh ELSE None

Changes(published) ==
    /\ published # None
    /\ \E p \in DOMAIN published : run.cards[p] # published[p]

\* The sources once more, and the owner's cards before the publication.
Project ==
    LET published == run.receipt.published
        projected == [p \in DOMAIN published |-> Projected(p, published[p])]
    IN
    /\ run.pc = "check"
    /\ IF ~SourcesCurrent \/ (Changes(published)
                                /\ \E p \in DOMAIN published : projected[p] = None)
       THEN Idle /\ UNCHANGED cache
       ELSE /\ cache' = IF Changes(published)
                        THEN [p \in Projects |->
                                IF p \in DOMAIN published THEN projected[p]
                                ELSE cache[p]]
                        ELSE cache
            /\ run' = [run EXCEPT !.pc = "publish"]
    /\ UNCHANGED <<people, fp, cursor, receipts, texts, answered, changes, faults>>

\* The policy guard of PublishWithPolicyGuard.
Admitted ==
    \A p \in run.selected :
        /\ ~policy[p].hold
        /\ policy[p].revision = run.policy[p].revision

\* publishSelected.  Against another generation nothing is published, and
\* the run goes on to record the cards as processed.
Publish ==
    LET published == run.receipt.published IN
    /\ run.pc = "publish"
    /\ run' = [run EXCEPT !.pc = "record"]
    /\ IF ~run.complete /\ Changes(published) /\ gen = run.base /\ Admitted
       THEN /\ live' = [p \in Projects |-> IF p \in run.selected
                                           THEN published[p] ELSE live[p]]
            /\ gen' = gen + 1
            /\ history' = history \cup
                 {Published(p, published[p], "maintenance") :
                     p \in {q \in run.selected : published[q] # live[q]}}
       ELSE UNCHANGED <<live, gen, history>>
    /\ UNCHANGED <<policy, files, texts, answered, changes, faults>>

\* The fingerprints take the policy as it is now.
Record ==
    /\ run.pc = "record"
    /\ fp' = [p \in Projects |->
                IF p \in run.selected THEN Fingerprint(run.originals, p)
                ELSE run.fp[p]]
    /\ cursor' = run.last
    /\ Idle
    /\ UNCHANGED <<people, cache, receipts, texts, answered, changes, faults>>

\* A call or a write fails, before it took effect or after, or the process
\* dies: the run ends, and of its next step nothing or everything happened.
Fault ==
    /\ faults < MaxFaults
    /\ run.pc # "idle"
    /\ Idle
    /\ UNCHANGED <<people, files, texts, answered, changes>>
    /\ faults' = faults + 1

------------------------------------------------------------------------------
(* What people do. *)

Change ==
    /\ changes < MaxChanges
    /\ changes' = changes + 1
    /\ answered' = {}
    /\ UNCHANGED <<fp, cursor, cache, run, texts, faults>>

PublishCard(p, e, by) ==
    /\ live' = [live EXCEPT ![p] = e]
    /\ gen' = gen + 1
    /\ history' = history \cup {Published(p, e, by)}

\* An operator publishes a file in which p is described by other words: the
\* owner's, or a derived description corrected by hand.
Edit(p, w) ==
    /\ Change
    /\ \E e \in {Own(w), [live[p] EXCEPT !.text = w]} :
        /\ e # live[p]
        /\ PublishCard(p, e, "owner")
    /\ UNCHANGED <<policy, receipts>>

SetHold(p) ==
    /\ Change
    /\ policy' = [policy EXCEPT ![p] = [hold |-> ~@.hold,
                                        revision |-> @.revision + 1]]
    /\ UNCHANGED <<live, gen, history, receipts>>

\* Restore: the description of an earlier card of the same source, and a hold.
Restore(p) ==
    /\ Change
    /\ \E h \in history :
        /\ h.project = p /\ SameReviewSource(live[p], h.card)
        /\ h.card.text # live[p].text
        /\ PublishCard(p, [live[p] EXCEPT !.text = h.card.text], "restore")
    /\ policy' = [policy EXCEPT ![p] = [hold |-> TRUE,
                                        revision |-> @.revision + 1]]
    /\ UNCHANGED receipts

\* Reviewed proposals are moved away.
Archive ==
    /\ Change
    /\ receipts # {}
    /\ receipts' = {}
    /\ UNCHANGED people

Sweep == Load \/ LoadPolicies \/ Select \/ Reuse \/ Dispatch \/ Keep
            \/ Project \/ Publish \/ Record

People == Archive \/ \E p \in Projects :
                        SetHold(p) \/ Restore(p) \/ \E w \in Words : Edit(p, w)

Next == Sweep \/ Fault \/ People

Spec == Init /\ [][Next]_vars

\* The ticker starts the next sweep.
Fairness == WF_vars(Sweep)

FairSpec == Spec /\ Fairness

------------------------------------------------------------------------------
(* Properties. *)

\* No answer is made from a description that the provider wrote itself
\* (catalog_projection.go: "A derived description never becomes a source
\* projection").
OnlyPeoplesWords ==
    \A t \in DOMAIN texts : \A p \in DOMAIN texts[t] : texts[t][p] \in Words

\* A derived description stands beside the words it was made from, whatever
\* was edited, restored or reused on the way; or it is those words, which a
\* restoration can bring back.
DescribesItsSource ==
    \A p \in Projects :
        LET e == live[p] IN
        e.derived /\ e.text \in Texts \ {e.declared} =>
            /\ e.text \in DOMAIN texts /\ p \in DOMAIN texts[e.text]
            /\ texts[e.text][p] = e.declared

\* The worker recognises every description that it published, or that a
\* restoration brought back, as derived from the owner's card: no such card
\* is out of its reach for good.
NeverLocksItselfOut ==
    \A p \in Projects :
        live[p].derived /\ InHistory(p, live[p]) =>
            LET c == [q \in Projects |-> Imported(live, q)] IN
            /\ ~Blocked(c, p, live[p])
            /\ ~Original(c, p, live[p]).derived

\* While nobody changes anything the worker does not ask again about a
\* project whose answer it has kept, however often it dies (catalog_worker.go:
\* "If the proposal file landed but a later operation failed, findReceipt is
\* the recovery path").
ReceiptIsFound ==
    [][Len(texts') > Len(texts) => run.selected \cap answered = {}]_vars

\* A blocked card that is passed between two selected ones moves the cursor
\* of the file, and the next run may select other cards.  Where nothing is
\* blocked, or one card is selected at a time, the question is asked again
\* the same.
SameQuestion ==
    MaxPerRun = 1 \/ \A p \in DOMAIN run.originals : ~run.originals[p].derived

\* There the answer kept is found.
PaidOnce ==
    [][Len(texts') > Len(texts) /\ SameQuestion
         => run.selected \cap answered = {}]_vars

AtRest ==
    LET c == [q \in Projects |-> Imported(live, q)]
        eligible == {q \in Projects : ~policy[q].hold}
        originals == [q \in eligible |-> Original(c, q, live[q])]
    IN  \A p \in eligible :
            Blocked(c, p, live[p]) \/ fp[p] = Fingerprint(originals, p)

\* When people and faults leave it alone the worker comes to rest: every
\* card that is not on hold, nor of unknown origin, is processed as it is.
ComesToRest == <>[]AtRest
=============================================================================
