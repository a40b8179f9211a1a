--------------------------- MODULE AiSweeps_proofs ---------------------------
EXTENDS MCAiSweeps, FiniteSetTheorems, WellFoundedInduction, TLAPS

(* The sweep over facts. *)

Pages == {FactSweep!NoOffset} \cup FactSweep!Facts

SweepStates ==
    [binding : Nat, inProgress : BOOLEAN, offset : Pages,
     processed : SUBSET FactSweep!Facts, seen : [FactSweep!Facts -> Nat],
     previous : [FactSweep!Facts -> Nat], gone : SUBSET FactSweep!Facts,
     evidence : Nat]

\* What a run knows, by where it stands.
FactRunFields ==
    {"pc", "base", "words", "state", "page", "through", "sent", "record",
     "unverified", "kept"}

FactRuns ==
    /\ factRun.pc \in {"idle", "scroll", "call", "verify", "save"}
    /\ factRun.pc # "idle" =>
        /\ DOMAIN factRun = FactRunFields
        /\ factRun.state \in SweepStates
        /\ factRun.state.inProgress
        /\ factRun.words \in Nat
    /\ factRun.pc \in {"call", "verify", "save"} =>
        /\ factRun.page = FactSweep!Page(factRun.state.offset)
        /\ factRun.through \subseteq factRun.page
        /\ DOMAIN factRun.record = factRun.through \ factRun.state.processed
        /\ \A f \in DOMAIN factRun.record : factRun.record[f] \in Nat
        /\ DOMAIN factRun.sent \subseteq FactSweep!Facts

FactTypeOK ==
    /\ fact \in [FactSweep!Facts -> Nat]
    /\ versions \in [FactSweep!Facts -> Nat]
    /\ \A f \in FactSweep!Facts : fact[f] <= versions[f]
    /\ catalog \in Nat
    /\ words \in Nat
    /\ disk \in SweepStates
    /\ deleted \subseteq FactSweep!Facts
    /\ published \in Nat
    /\ FactRuns

\* Version v of f was proposed under the catalog b.
Told(f, v, b) ==
    \E p \in proposals :
        p.binding = b /\ f \in DOMAIN p.facts /\ p.facts[f] = v

\* What a state has seen was proposed.
SeenIsTold(s) ==
    \A f \in FactSweep!Facts : \A v \in {s.seen[f], s.previous[f]} \ {0} :
        Told(f, v, s.binding)

\* What a run is about to record as seen was proposed, or is in the request.
RecordIsTold ==
    factRun.pc \in {"call", "verify", "save"} =>
        \A f \in DOMAIN factRun.record : factRun.record[f] # 0 =>
            \/ Told(f, factRun.record[f], factRun.state.binding)
            \/ /\ factRun.pc = "call" /\ f \in DOMAIN factRun.sent
               /\ factRun.sent[f] = factRun.record[f]

\* What a sweep has passed without seeing it was deleted meanwhile.
MissesAreDeleted(s) ==
    \A f \in FactSweep!Facts :
        (f < s.offset \/ f \in s.processed) /\ s.seen[f] = 0 => f \in deleted

\* A sweep that goes on under this catalog; a new one begins with nothing.
SweepGoesOn ==
    /\ disk.inProgress /\ disk.binding = catalog => MissesAreDeleted(disk)
    /\ ~disk.inProgress => disk.processed = {}
    /\ disk.binding <= catalog

RunGoesOn ==
    /\ factRun.pc # "idle" =>
        /\ MissesAreDeleted(factRun.state)
        /\ factRun.state.gone \in {disk.gone, {}}
        /\ factRun.state.binding <= catalog
    /\ factRun.pc \in {"call", "verify", "save"} =>
        \A f \in DOMAIN factRun.record : factRun.record[f] = 0 => f \in deleted

\* What the request told and what was true when its proposal was kept.
SentIsKnown ==
    /\ factRun.pc \in {"call", "verify"} =>
        \A f \in DOMAIN factRun.sent : factRun.sent[f] \in 1 .. versions[f]
    /\ factRun.pc = "verify" =>
        \A f \in DOMAIN factRun.sent :
            /\ f \notin factRun.unverified => factRun.kept[f] = factRun.sent[f]
            /\ factRun.kept[f] # factRun.sent[f] => fact[f] # factRun.sent[f]

FactInv ==
    /\ FactTypeOK
    /\ SeenIsTold(disk)
    /\ factRun.pc # "idle" => SeenIsTold(factRun.state)
    /\ RecordIsTold
    /\ \A f \in FactSweep!Facts : fact[f] = 0 => f \in deleted
    /\ SweepGoesOn
    /\ RunGoesOn
    /\ SentIsKnown

-----------------------------------------------------------------------------
(* Pages. *)

First(offset) == IF offset = FactSweep!NoOffset THEN 1 ELSE offset

LEMMA FactsConstants ==
    /\ NumFacts \in Nat \ {0}
    /\ PageSize \in Nat \ {0}
    /\ FactSweep!Facts = 1 .. NumFacts
    /\ NumFacts \in FactSweep!Facts
BY FactsAssumption DEF FactSweep!FactSweepAssumption, FactSweep!Facts

\* Where a page does not hold the last fact, the next one begins behind it.
LEMMA PageNext ==
    ASSUME NEW offset \in Pages
    PROVE  LET page == FactSweep!Page(offset)
               next == FactSweep!NextOffset(page)
           IN
           /\ page \subseteq FactSweep!Facts
           /\ next \in Pages
           /\ next = FactSweep!NoOffset =>
                \A f \in FactSweep!Facts : f < First(offset) \/ f \in page
           /\ next # FactSweep!NoOffset =>
                \A f \in FactSweep!Facts :
                    f < next => f < First(offset) \/ f \in page
<1> DEFINE first == First(offset)
           page == FactSweep!Page(offset)
           last == first + PageSize - 1
<1>1. first \in FactSweep!Facts
  BY FactsConstants DEF First, Pages, FactSweep!NoOffset
<1>2. page = {f \in FactSweep!Facts : first <= f /\ f < first + PageSize}
  BY DEF FactSweep!Page, First
<1>3. CASE NumFacts \in page
  <2>1. FactSweep!NextOffset(page) = FactSweep!NoOffset
    BY <1>3 DEF FactSweep!NextOffset
  <2>2. \A f \in FactSweep!Facts : f < first \/ f \in page
    BY <1>1, <1>2, <1>3, FactsConstants
  <2> QED BY <2>1, <2>2, <1>2 DEF Pages, First
<1>4. CASE NumFacts \notin page
  <2>1. last \in page /\ last < NumFacts
    BY <1>1, <1>2, <1>4, FactsConstants
  <2>2. \A f \in page : last >= f
    BY <1>1, <1>2, FactsConstants
  <2>3. \A m \in page : (\A f \in page : m >= f) => m = last
    BY <1>2, <2>1, <2>2, FactsConstants
  <2>4. FactSweep!Max(page) = last
    BY <2>1, <2>2, <2>3 DEF FactSweep!Max
  <2>5. FactSweep!NextOffset(page) = last + 1
    BY <1>4, <2>4 DEF FactSweep!NextOffset
  <2>6. last + 1 \in FactSweep!Facts
    BY <2>1, <1>1, <1>2, FactsConstants
  <2>7. \A f \in FactSweep!Facts : f < last + 1 => f < first \/ f \in page
    BY <1>1, <1>2, FactsConstants
  <2>8. last + 1 # FactSweep!NoOffset
    BY <2>6, FactsConstants DEF FactSweep!NoOffset
  <2> QED BY <2>5, <2>6, <2>7, <2>8, <1>2 DEF Pages, First
<1> QED BY <1>3, <1>4

-----------------------------------------------------------------------------
(* The invariant of the sweep over facts. *)

LEMMA FactInitInv == FactSweep!Init => FactInv
<1> SUFFICES ASSUME FactSweep!Init PROVE FactInv
  OBVIOUS
<1> USE FactsConstants DEF FactSweep!Init, FactSweep!NoOffset
<1>1. factRun.pc = "idle"
  OBVIOUS
<1>2. disk \in SweepStates
  BY DEF SweepStates, Pages, FactSweep!Nothing
<1>3. FactTypeOK
  BY <1>1, <1>2 DEF FactTypeOK, FactRuns
<1>4. SeenIsTold(disk)
  BY DEF SeenIsTold, FactSweep!Nothing
<1>5. SweepGoesOn
  BY DEF SweepGoesOn
<1> QED BY <1>1, <1>3, <1>4, <1>5 DEF FactInv, RecordIsTold, RunGoesOn, SentIsKnown

\* A step that leaves the run where it stands and only adds proposals.
LEMMA ToldStays ==
    ASSUME proposals \subseteq proposals'
    PROVE  \A f, v, b : Told(f, v, b) => Told(f, v, b)'
BY DEF Told

LEMMA FactLoadInv ==
    ASSUME FactInv, FactSweep!Load
    PROVE  FactInv'
<1> DEFINE s == FactSweep!Continued(FactSweep!Bound(disk))
<1>1. /\ factRun.pc = "idle"
      /\ factRun' = [pc |-> "scroll", base |-> catalog, words |-> words,
                     state |-> s,
                     page |-> {}, through |-> {}, sent |-> <<>>, record |-> <<>>,
                     unverified |-> {}, kept |-> <<>>]
      /\ deleted' = IF s = FactSweep!Bound(disk) THEN deleted
                    ELSE {f \in FactSweep!Facts : fact[f] = 0}
      /\ UNCHANGED <<fact, versions, catalog, words, disk, proposals,
                     published>>
  BY DEF FactSweep!Load
<1>2. FactTypeOK /\ disk \in SweepStates /\ catalog \in Nat
  BY DEF FactInv, FactTypeOK
<1>3. FactSweep!Nothing \in [FactSweep!Facts -> Nat] /\ FactSweep!NoOffset \in Pages
  BY DEF FactSweep!Nothing, Pages
<1>4. s \in SweepStates /\ s.inProgress /\ s.binding = catalog
      /\ s.gone \in {disk.gone, {}}
  BY <1>2, <1>3 DEF SweepStates, FactSweep!Continued, FactSweep!Bound
<1>5. SeenIsTold(s)
  <2>1. SeenIsTold(disk)
    BY DEF FactInv
  <2> QED
    BY <1>2, <2>1 DEF SeenIsTold, SweepStates, FactSweep!Continued,
                      FactSweep!Bound, FactSweep!Nothing
<1>6. CASE disk.binding = catalog /\ disk.inProgress
  <2>1. s = disk /\ deleted' = deleted
    BY <1>1, <1>6 DEF FactSweep!Continued, FactSweep!Bound
  <2>2. MissesAreDeleted(disk)
    BY <1>6 DEF FactInv, SweepGoesOn
  <2>3. FactRuns'
    BY <1>1, <1>2, <1>4 DEF FactRuns, FactTypeOK, FactRunFields
  <2>4. FactTypeOK'
    BY <1>1, <1>2, <2>1, <2>3 DEF FactTypeOK
  <2> QED
    BY <1>1, <1>2, <1>4, <1>5, <2>1, <2>2, <2>4
    DEF FactInv, SeenIsTold, Told, RecordIsTold, SweepGoesOn, RunGoesOn,
        SentIsKnown, MissesAreDeleted
<1>7. CASE ~(disk.binding = catalog /\ disk.inProgress)
  <2>1. /\ s.offset = FactSweep!NoOffset
        /\ s.processed = {}
        /\ ~FactSweep!Bound(disk).inProgress
    BY <1>2, <1>7 DEF FactInv, SweepGoesOn, FactSweep!Continued,
                      FactSweep!Bound, SweepStates
  <2>2. deleted' = {f \in FactSweep!Facts : fact[f] = 0}
    BY <1>1, <1>4, <2>1
  <2>3. FactRuns'
    BY <1>1, <1>2, <1>4 DEF FactRuns, FactTypeOK, FactRunFields
  <2>4. FactTypeOK'
    BY <1>1, <1>2, <2>2, <2>3 DEF FactTypeOK
  <2>6. SweepGoesOn'
    BY <1>1, <1>2, <1>7 DEF FactInv, SweepGoesOn
  <2>7. (factRun.state)' = s
    BY <1>1
  <2>8. MissesAreDeleted(factRun.state)'
    BY <2>1, <2>7, FactsConstants DEF MissesAreDeleted, FactSweep!NoOffset
  <2>9. RunGoesOn'
    BY <1>1, <1>2, <1>4, <2>8 DEF RunGoesOn
  <2>10. SeenIsTold(disk)' /\ SeenIsTold(factRun.state)'
    BY <1>1, <1>5, <2>7 DEF FactInv, SeenIsTold, Told
  <2>11. RecordIsTold' /\ SentIsKnown'
    BY <1>1 DEF RecordIsTold, SentIsKnown
  <2>12. (\A f \in FactSweep!Facts : fact[f] = 0 => f \in deleted)'
    BY <1>1, <2>2
  <2> QED BY <2>4, <2>6, <2>9, <2>10, <2>11, <2>12 DEF FactInv
<1> QED BY <1>6, <1>7

LEMMA FactIdleInv ==
    ASSUME FactInv, factRun' = [pc |-> "idle"],
           UNCHANGED <<fact, versions, catalog, words, disk, proposals,
                       deleted, published>>
    PROVE  FactInv'
<1>1. FactTypeOK'
  BY DEF FactInv, FactTypeOK, FactRuns
<1> QED
  BY <1>1 DEF FactInv, SeenIsTold, Told, RecordIsTold, SweepGoesOn, RunGoesOn,
              SentIsKnown, MissesAreDeleted

LEMMA FactScrollInv ==
    ASSUME FactInv, FactSweep!Scroll
    PROVE  FactInv'
<1> DEFINE s == factRun.state
           page == FactSweep!Page(s.offset)
           pending == FactSweep!Pending(s, page)
<1>1. PICK last \in (IF pending = {} THEN {FactSweep!NoOffset} ELSE pending) :
        LET sent == {f \in pending : f <= last}
            through == IF sent = pending THEN page
                       ELSE {f \in page : f <= last}
            evidenceOnly == sent = {} /\ s.evidence # factRun.words
        IN
        factRun' = [factRun EXCEPT
                  !.pc = IF sent # {} \/ (evidenceOnly /\ ~FactSweep!Proposed(s))
                         THEN "call" ELSE "save",
                  !.state = IF evidenceOnly /\ FactSweep!Proposed(s)
                            THEN [s EXCEPT !.evidence = factRun.words] ELSE s,
                  !.page = page, !.through = through,
                  !.sent = [f \in sent |-> fact[f]],
                  !.record = [f \in through \ s.processed |-> fact[f]]]
  BY DEF FactSweep!Scroll
<1> DEFINE sent == {f \in pending : f <= last}
           through == IF sent = pending THEN page ELSE {f \in page : f <= last}
           proposed == sent = {} /\ s.evidence # factRun.words
                         /\ FactSweep!Proposed(s)
           t == IF proposed THEN [s EXCEPT !.evidence = factRun.words] ELSE s
<1>2. /\ factRun.pc = "scroll"
      /\ UNCHANGED <<fact, versions, catalog, words, disk, proposals, deleted,
                     published>>
  BY DEF FactSweep!Scroll
<1>3. /\ FactTypeOK /\ s \in SweepStates /\ s.inProgress /\ factRun.words \in Nat
      /\ DOMAIN factRun = FactRunFields
  BY <1>2 DEF FactInv, FactTypeOK, FactRuns
<1>4. /\ factRun'.pc = IF sent # {} \/ (sent = {} /\ s.evidence # factRun.words
                                       /\ ~FactSweep!Proposed(s))
                       THEN "call" ELSE "save"
      /\ factRun'.state = t
      /\ factRun'.words = factRun.words
      /\ factRun'.page = page
      /\ factRun'.through = through
      /\ factRun'.sent = [f \in sent |-> fact[f]]
      /\ factRun'.record = [f \in through \ s.processed |-> fact[f]]
      /\ DOMAIN factRun' = FactRunFields
  <2> HIDE DEF page, pending, s
  <2> QED BY <1>1, <1>3 DEF FactRunFields
<1>5. t \in SweepStates /\ t.inProgress /\ t.binding = s.binding
      /\ t.seen = s.seen /\ t.previous = s.previous /\ t.offset = s.offset
      /\ t.processed = s.processed /\ t.gone = s.gone
  BY <1>3 DEF SweepStates
<1>6. page \subseteq FactSweep!Facts
  BY DEF FactSweep!Page
<1>7. /\ sent \subseteq through /\ through \subseteq page
      /\ pending \subseteq page
      /\ pending \cap through \subseteq sent
  BY DEF FactSweep!Pending
<1>8. \A f \in sent : fact[f] \in 1 .. versions[f]
  BY <1>3, <1>6 DEF FactSweep!Pending, FactSweep!Eligible, FactTypeOK
<1> HIDE DEF page, pending, s, t, sent, through
<1>9. FactRuns'
  <2>1. /\ factRun.state' \in SweepStates /\ factRun.state'.inProgress
        /\ factRun.words' \in Nat
    BY <1>3, <1>4, <1>5
  <2>2. factRun.page' = FactSweep!Page(factRun.state'.offset)
    BY <1>4, <1>5 DEF page
  <2>3. \A f \in DOMAIN factRun.record' : factRun.record'[f] \in Nat
    BY <1>3, <1>4, <1>6, <1>7 DEF FactTypeOK
  <2>4. DOMAIN factRun.record' = factRun.through' \ factRun.state'.processed
    BY <1>4, <1>5
  <2> QED BY <1>4, <1>6, <1>7, <2>1, <2>2, <2>3, <2>4 DEF FactRuns
<1>10. FactTypeOK'
  BY <1>2, <1>3, <1>9 DEF FactTypeOK
<1>11. SeenIsTold(s)
  BY <1>2 DEF FactInv, s
<1>12. SeenIsTold(factRun.state)'
  BY <1>2, <1>4, <1>5, <1>11 DEF SeenIsTold, Told
<1>13. \A f \in through \ s.processed : fact[f] # 0 =>
          f \in sent \/ Told(f, fact[f], s.binding)
  <2> SUFFICES ASSUME NEW f \in through \ s.processed, fact[f] # 0, f \notin sent
               PROVE  Told(f, fact[f], s.binding)
    OBVIOUS
  <2>1. f \in page /\ f \notin pending
    BY <1>7
  <2>2. fact[f] = FactSweep!Known(s, f)
    BY <2>1 DEF pending, FactSweep!Pending, FactSweep!Eligible
  <2>3. fact[f] \in {s.seen[f], s.previous[f]} \ {0}
    BY <2>2 DEF FactSweep!Known
  <2> QED BY <1>6, <1>11, <2>1, <2>3 DEF SeenIsTold
<1>14. RecordIsTold'
  <2> SUFFICES ASSUME NEW f \in DOMAIN factRun'.record, factRun'.record[f] # 0
               PROVE  \/ Told(f, factRun.record[f], factRun.state.binding)'
                      \/ /\ factRun'.pc = "call" /\ f \in DOMAIN factRun'.sent
                         /\ factRun'.sent[f] = factRun'.record[f]
    BY DEF RecordIsTold
  <2>1. f \in through \ s.processed /\ factRun'.record[f] = fact[f]
    BY <1>4
  <2>2. CASE f \in sent
    BY <2>1, <2>2, <1>4
  <2>3. CASE Told(f, fact[f], s.binding)
    BY <2>1, <2>3, <1>2, <1>4, <1>5 DEF Told
  <2> QED BY <2>1, <2>2, <2>3, <1>13
<1>15. SweepGoesOn'
  BY <1>2 DEF FactInv, SweepGoesOn, MissesAreDeleted
<1>16. RunGoesOn'
  <2>1. MissesAreDeleted(s) /\ s.gone \in {disk.gone, {}} /\ s.binding <= catalog
    BY <1>2 DEF FactInv, RunGoesOn, s
  <2>2. \A f \in through \ s.processed : fact[f] = 0 => f \in deleted
    BY <1>6, <1>7 DEF FactInv
  <2> QED BY <1>2, <1>4, <1>5, <2>1, <2>2 DEF RunGoesOn, MissesAreDeleted
<1>17. SentIsKnown'
  BY <1>2, <1>4, <1>8 DEF SentIsKnown
<1>18. SeenIsTold(disk)'
  BY <1>2 DEF FactInv, SeenIsTold, Told
<1>19. (\A f \in FactSweep!Facts : fact[f] = 0 => f \in deleted)'
  BY <1>2 DEF FactInv
<1> QED
  BY <1>10, <1>12, <1>14, <1>15, <1>16, <1>17, <1>18, <1>19 DEF FactInv

LEMMA FactKeepInv ==
    ASSUME FactInv, FactSweep!Keep
    PROVE  FactInv'
<1>1. /\ factRun.pc = "call"
      /\ UNCHANGED <<fact, versions, catalog, words, disk, deleted, published>>
  BY DEF FactSweep!Keep
<1>2. CASE catalog # factRun.base
  BY <1>1, <1>2, FactIdleInv DEF FactSweep!Keep, FactSweep!Idle
<1>3. CASE ~(catalog # factRun.base)
  <2> DEFINE s == factRun.state
             t == [s EXCEPT !.evidence = factRun.words]
             p == FactSweep!PrivateProposal
  <2>1. /\ FactTypeOK /\ s \in SweepStates /\ s.inProgress
        /\ factRun.words \in Nat /\ DOMAIN factRun = FactRunFields
        /\ factRun.page = FactSweep!Page(s.offset)
        /\ factRun.through \subseteq factRun.page
        /\ DOMAIN factRun.record = factRun.through \ s.processed
        /\ \A f \in DOMAIN factRun.record : factRun.record[f] \in Nat
        /\ DOMAIN factRun.sent \subseteq FactSweep!Facts
    BY <1>1 DEF FactInv, FactTypeOK, FactRuns
  <2>2. proposals' = proposals \cup {p}
    BY <1>3 DEF FactSweep!Keep, FactSweep!SaveProposal
  <2>3. p.binding = s.binding /\ p.facts = factRun.sent
    BY DEF FactSweep!PrivateProposal
  <2>4. PICK publishable \in BOOLEAN :
          factRun' = [factRun EXCEPT
                        !.pc = IF publishable THEN "verify" ELSE "save",
                        !.state = [@ EXCEPT !.evidence = factRun.words],
                        !.unverified = DOMAIN factRun.sent, !.kept = fact]
    BY <1>3 DEF FactSweep!Keep
  <2>5. /\ factRun'.pc \in {"verify", "save"}
        /\ factRun'.state = t
        /\ factRun'.words = factRun.words
        /\ factRun'.page = factRun.page
        /\ factRun'.through = factRun.through
        /\ factRun'.sent = factRun.sent
        /\ factRun'.record = factRun.record
        /\ factRun'.unverified = DOMAIN factRun.sent
        /\ factRun'.kept = fact
        /\ DOMAIN factRun' = FactRunFields
    BY <2>1, <2>4 DEF FactRunFields
  <2>6. t \in SweepStates /\ t.inProgress /\ t.binding = s.binding
        /\ t.seen = s.seen /\ t.previous = s.previous /\ t.offset = s.offset
        /\ t.processed = s.processed /\ t.gone = s.gone
    BY <2>1 DEF SweepStates
  <2> HIDE DEF s, t, p
  <2>7. FactRuns'
    BY <2>1, <2>5, <2>6 DEF FactRuns
  <2>8. FactTypeOK'
    BY <1>1, <2>1, <2>7 DEF FactTypeOK
  <2>9. SeenIsTold(s) /\ SeenIsTold(disk)
    BY <1>1 DEF FactInv, s
  <2>10. \A f, v, b : Told(f, v, b) => Told(f, v, b)'
    BY <2>2 DEF Told
  <2>11. SeenIsTold(factRun.state)'
    BY <2>5, <2>6, <2>9, <2>10 DEF SeenIsTold
  <2>12. SeenIsTold(disk)'
    BY <1>1, <2>9, <2>10 DEF SeenIsTold
  <2>13. RecordIsTold'
    <3> SUFFICES ASSUME NEW f \in DOMAIN factRun'.record, factRun'.record[f] # 0
                 PROVE  Told(f, factRun.record[f], factRun.state.binding)'
      BY DEF RecordIsTold
    <3>1. f \in DOMAIN factRun.record /\ factRun.record[f] # 0
          /\ factRun'.record[f] = factRun.record[f]
          /\ factRun'.state.binding = s.binding
      BY <2>5, <2>6
    <3>2. CASE Told(f, factRun.record[f], s.binding)
      BY <3>1, <3>2, <2>10
    <3>3. CASE f \in DOMAIN factRun.sent /\ factRun.sent[f] = factRun.record[f]
      BY <3>1, <3>3, <2>2, <2>3 DEF Told
    <3> QED BY <3>1, <3>2, <3>3, <1>1 DEF FactInv, RecordIsTold, s
  <2>14. SweepGoesOn'
    BY <1>1 DEF FactInv, SweepGoesOn, MissesAreDeleted
  <2>15. RunGoesOn'
    <3>1. MissesAreDeleted(s) /\ s.gone \in {disk.gone, {}} /\ s.binding <= catalog
          /\ \A f \in DOMAIN factRun.record : factRun.record[f] = 0 => f \in deleted
      BY <1>1 DEF FactInv, RunGoesOn, s
    <3> QED BY <1>1, <2>5, <2>6, <3>1 DEF RunGoesOn, MissesAreDeleted
  <2>16. SentIsKnown'
    BY <1>1, <2>5 DEF FactInv, SentIsKnown
  <2>17. (\A f \in FactSweep!Facts : fact[f] = 0 => f \in deleted)'
    BY <1>1 DEF FactInv
  <2> QED
    BY <2>8, <2>11, <2>12, <2>13, <2>14, <2>15, <2>16, <2>17 DEF FactInv
<1> QED BY <1>2, <1>3

\* After the proposal is kept a run checks one fact or publishes.
LEMMA FactRunStepInv ==
    ASSUME FactInv, factRun.pc = "verify",
           \/ /\ \E f \in factRun.unverified :
                    FactSweep!StillInferred(f) /\
                    factRun' = [factRun EXCEPT !.unverified = @ \ {f}]
           \/ factRun' = [factRun EXCEPT !.pc = "save"],
           catalog' \in Nat, catalog' >= catalog, published' \in Nat,
           UNCHANGED <<fact, versions, words, disk, proposals, deleted>>
    PROVE  FactInv'
<1>1. FactTypeOK /\ DOMAIN factRun = FactRunFields
  BY DEF FactInv, FactTypeOK, FactRuns
<1>2. /\ factRun'.state = factRun.state
      /\ factRun'.words = factRun.words
      /\ factRun'.page = factRun.page
      /\ factRun'.through = factRun.through
      /\ factRun'.sent = factRun.sent
      /\ factRun'.record = factRun.record
      /\ factRun'.kept = factRun.kept
      /\ DOMAIN factRun' = FactRunFields
      /\ factRun'.pc \in {"verify", "save"}
  BY <1>1 DEF FactRunFields
<1>3. FactRuns'
  BY <1>1, <1>2 DEF FactTypeOK, FactRuns
<1>4. FactTypeOK'
  BY <1>1, <1>3 DEF FactTypeOK
<1>5. SeenIsTold(factRun.state)' /\ SeenIsTold(disk)' /\ RecordIsTold'
  BY <1>2 DEF FactInv, SeenIsTold, Told, RecordIsTold
<1>6. SweepGoesOn'
  BY <1>1 DEF FactInv, SweepGoesOn, MissesAreDeleted, FactTypeOK, SweepStates
<1>7. RunGoesOn'
  BY <1>1, <1>2 DEF FactInv, RunGoesOn, MissesAreDeleted, FactTypeOK, FactRuns,
                    SweepStates
<1>8. SentIsKnown'
  <2>1. \A f \in DOMAIN factRun.sent :
            /\ factRun.sent[f] \in 1 .. versions[f]
            /\ f \notin factRun.unverified => factRun.kept[f] = factRun.sent[f]
            /\ factRun.kept[f] # factRun.sent[f] => fact[f] # factRun.sent[f]
    BY DEF FactInv, SentIsKnown
  <2>2. CASE factRun' = [factRun EXCEPT !.pc = "save"]
    BY <1>1, <2>2 DEF SentIsKnown, FactRunFields
  <2>3. ASSUME NEW f \in factRun.unverified, FactSweep!StillInferred(f),
               factRun' = [factRun EXCEPT !.unverified = @ \ {f}]
        PROVE  SentIsKnown'
    <3>1. factRun'.unverified = factRun.unverified \ {f} /\ factRun'.pc = "verify"
      BY <1>1, <2>3 DEF FactRunFields
    <3>2. fact[f] = factRun.sent[f]
      BY <2>3 DEF FactSweep!StillInferred
    <3> QED BY <1>2, <2>1, <3>1, <3>2 DEF SentIsKnown
  <2> QED BY <2>2, <2>3
<1> QED BY <1>2, <1>4, <1>5, <1>6, <1>7, <1>8 DEF FactInv

LEMMA FactSaveInv ==
    ASSUME FactInv, FactSweep!Save
    PROVE  FactInv' /\ \/ disk'.gone \in {disk.gone, {}}
                       \/ disk'.gone \subseteq deleted
<1> DEFINE s == factRun.state
           seen == [f \in FactSweep!Facts |->
                      IF f \in DOMAIN factRun.record /\ factRun.record[f] # 0
                      THEN factRun.record[f] ELSE s.seen[f]]
           t == FactSweep!Advanced(s)
           next == FactSweep!NextOffset(factRun.page)
<1>1. /\ factRun.pc = "save" /\ disk' = t /\ factRun' = [pc |-> "idle"]
      /\ UNCHANGED <<fact, versions, catalog, words, proposals, deleted,
                     published>>
  BY DEF FactSweep!Save, FactSweep!Idle
<1>2. /\ FactTypeOK /\ s \in SweepStates /\ s.inProgress
      /\ factRun.page = FactSweep!Page(s.offset)
      /\ factRun.through \subseteq factRun.page
      /\ DOMAIN factRun.record = factRun.through \ s.processed
      /\ \A f \in DOMAIN factRun.record : factRun.record[f] \in Nat
  BY <1>1 DEF FactInv, FactTypeOK, FactRuns
<1>3. s.offset \in Pages
  BY <1>2 DEF SweepStates
<1>4. /\ factRun.page \subseteq FactSweep!Facts
      /\ next \in Pages
      /\ next = FactSweep!NoOffset =>
           \A f \in FactSweep!Facts : f < First(s.offset) \/ f \in factRun.page
      /\ next # FactSweep!NoOffset =>
           \A f \in FactSweep!Facts :
               f < next => f < First(s.offset) \/ f \in factRun.page
  BY <1>2, <1>3, PageNext
<1>5. seen \in [FactSweep!Facts -> Nat]
  BY <1>2 DEF SweepStates
<1>6. /\ MissesAreDeleted(s) /\ s.gone \in {disk.gone, {}}
      /\ s.binding <= catalog
      /\ \A f \in DOMAIN factRun.record : factRun.record[f] = 0 => f \in deleted
  BY <1>1 DEF FactInv, RunGoesOn
<1>7. \A f \in FactSweep!Facts : f < First(s.offset) => f < s.offset
  BY FactsConstants DEF First, FactSweep!NoOffset
<1>8. /\ SeenIsTold(s)
      /\ \A f \in DOMAIN factRun.record : factRun.record[f] # 0 =>
            Told(f, factRun.record[f], s.binding)
  BY <1>1 DEF FactInv, RecordIsTold
<1>9. \A f \in FactSweep!Facts :
        (f < s.offset \/ f \in s.processed \/ f \in factRun.through)
          /\ seen[f] = 0 => f \in deleted
  BY <1>2, <1>6 DEF MissesAreDeleted
<1> HIDE DEF next, s
<1>10. \A f \in FactSweep!Facts :
         /\ seen[f] # 0 => Told(f, seen[f], s.binding)
         /\ s.previous[f] # 0 => Told(f, s.previous[f], s.binding)
  BY <1>8 DEF SeenIsTold
<1> HIDE DEF seen
<1>11. SUFFICES /\ t \in SweepStates /\ t.binding = s.binding
                /\ SeenIsTold(t) /\ MissesAreDeleted(t)
                /\ ~t.inProgress => t.processed = {}
                /\ t.gone \in {disk.gone, {}} \/ t.gone \subseteq deleted
  <2> HIDE DEF t
  <2>1. ASSUME /\ t \in SweepStates /\ t.binding = s.binding
               /\ SeenIsTold(t) /\ MissesAreDeleted(t)
               /\ ~t.inProgress => t.processed = {}
        PROVE  FactInv'
    <3>1. FactTypeOK'
      BY <1>1, <1>2, <2>1 DEF FactTypeOK, FactRuns
    <3>2. SeenIsTold(disk)'
      BY <1>1, <2>1 DEF SeenIsTold, Told
    <3>3. SweepGoesOn'
      BY <1>1, <1>6, <2>1 DEF SweepGoesOn, MissesAreDeleted
    <3> QED
      BY <1>1, <3>1, <3>2, <3>3 DEF FactInv, RecordIsTold, RunGoesOn, SentIsKnown
  <2> QED BY <1>1, <2>1
<1>12. t = IF factRun.through # factRun.page
           THEN [s EXCEPT !.seen = seen,
                          !.processed = @ \cup factRun.through]
           ELSE IF next # FactSweep!NoOffset
           THEN [s EXCEPT !.seen = seen, !.processed = {}, !.offset = next]
           ELSE [s EXCEPT !.seen = FactSweep!Nothing, !.previous = seen,
                          !.processed = {},
                          !.gone = {f \in FactSweep!Facts :
                                      s.previous[f] # 0 /\ seen[f] = 0},
                          !.inProgress = FALSE, !.offset = FactSweep!NoOffset]
  BY DEF FactSweep!Advanced, next, seen
<1>13. FactSweep!Nothing \in [FactSweep!Facts -> Nat] /\ FactSweep!NoOffset \in Pages
  BY DEF FactSweep!Nothing, Pages
<1> HIDE DEF t
<1>14. CASE factRun.through # factRun.page
  <2>1. t = [s EXCEPT !.seen = seen, !.processed = @ \cup factRun.through]
    BY <1>12, <1>14
  <2>2. t \in SweepStates /\ t.binding = s.binding /\ t.gone = s.gone
        /\ t.seen = seen /\ t.previous = s.previous /\ t.offset = s.offset
        /\ t.processed = s.processed \cup factRun.through /\ t.inProgress
    BY <1>2, <1>4, <1>5, <2>1 DEF SweepStates
  <2> QED BY <1>6, <1>9, <1>10, <2>2 DEF SeenIsTold, MissesAreDeleted
<1>15. CASE factRun.through = factRun.page /\ next # FactSweep!NoOffset
  <2>1. t = [s EXCEPT !.seen = seen, !.processed = {}, !.offset = next]
    BY <1>12, <1>15
  <2>2. t \in SweepStates /\ t.binding = s.binding /\ t.gone = s.gone
        /\ t.seen = seen /\ t.previous = s.previous /\ t.offset = next
        /\ t.processed = {}
    BY <1>2, <1>4, <1>5, <2>1 DEF SweepStates
  <2>3. MissesAreDeleted(t)
    BY <1>4, <1>7, <1>9, <1>15, <2>2 DEF MissesAreDeleted
  <2> QED BY <1>6, <1>10, <2>2, <2>3 DEF SeenIsTold
<1>16. CASE factRun.through = factRun.page /\ next = FactSweep!NoOffset
  <2>1. t = [s EXCEPT !.seen = FactSweep!Nothing, !.previous = seen,
                      !.processed = {},
                      !.gone = {f \in FactSweep!Facts :
                                  s.previous[f] # 0 /\ seen[f] = 0},
                      !.inProgress = FALSE, !.offset = FactSweep!NoOffset]
    BY <1>12, <1>16
  <2>2. t \in SweepStates /\ t.binding = s.binding /\ ~t.inProgress
        /\ t.gone = {f \in FactSweep!Facts : s.previous[f] # 0 /\ seen[f] = 0}
        /\ t.seen = FactSweep!Nothing /\ t.previous = seen
        /\ t.offset = FactSweep!NoOffset /\ t.processed = {}
    BY <1>2, <1>5, <1>13, <2>1 DEF SweepStates
  <2>3. MissesAreDeleted(t)
    BY <2>2, FactsConstants DEF MissesAreDeleted, FactSweep!NoOffset
  <2>4. t.gone \subseteq deleted
    BY <1>4, <1>7, <1>9, <1>16, <2>2
  <2> QED BY <1>10, <2>2, <2>3, <2>4 DEF SeenIsTold, FactSweep!Nothing
<1> QED BY <1>14, <1>15, <1>16

\* Facts change, the catalog too; the worker's files and its run do not.
LEMMA FactPeopleInv ==
    ASSUME FactInv,
           \/ FactSweep!Describe
           \/ \E f \in FactSweep!Facts : FactSweep!Write(f) \/ FactSweep!Forget(f)
    PROVE  FactInv'
<1>1. FactTypeOK
  BY DEF FactInv
<1>2. UNCHANGED <<disk, proposals, factRun, published>>
  BY DEF FactSweep!Describe, FactSweep!Write, FactSweep!Forget, FactSweep!Change
<1>3. /\ fact' \in [FactSweep!Facts -> Nat]
      /\ versions' \in [FactSweep!Facts -> Nat]
      /\ \A f \in FactSweep!Facts :
           /\ fact'[f] <= versions'[f] /\ versions[f] <= versions'[f]
           /\ fact'[f] \in {fact[f], 0} \/ fact'[f] > versions[f]
           /\ fact'[f] = 0 => fact[f] = 0 \/ f \in deleted'
      /\ catalog' \in Nat /\ catalog <= catalog'
      /\ words' \in Nat
      /\ deleted \subseteq deleted' /\ deleted' \subseteq FactSweep!Facts
  <2>1. CASE FactSweep!Describe
    BY <1>1, <2>1 DEF FactSweep!Describe, FactTypeOK
  <2>2. ASSUME NEW g \in FactSweep!Facts, FactSweep!Write(g) PROVE <1>3
    BY <1>1, <2>2 DEF FactSweep!Write, FactTypeOK
  <2>3. ASSUME NEW g \in FactSweep!Facts, FactSweep!Forget(g) PROVE <1>3
    BY <1>1, <2>3 DEF FactSweep!Forget, FactTypeOK
  <2> QED BY <2>1, <2>2, <2>3
<1>4. FactTypeOK'
  BY <1>1, <1>2, <1>3 DEF FactTypeOK, FactRuns
<1>5. /\ SeenIsTold(disk)'
      /\ (factRun.pc # "idle" => SeenIsTold(factRun.state))'
      /\ RecordIsTold'
  BY <1>2 DEF FactInv, SeenIsTold, Told, RecordIsTold
<1>6. (\A f \in FactSweep!Facts : fact[f] = 0 => f \in deleted)'
  BY <1>3 DEF FactInv
<1>7. SweepGoesOn'
  BY <1>1, <1>2, <1>3
  DEF FactInv, SweepGoesOn, MissesAreDeleted, FactTypeOK, SweepStates
<1>8. RunGoesOn'
  BY <1>1, <1>2, <1>3
  DEF FactInv, RunGoesOn, MissesAreDeleted, FactTypeOK, FactRuns, SweepStates
<1>9. SentIsKnown'
  <2>1. ASSUME factRun.pc \in {"call", "verify"}, NEW f \in DOMAIN factRun.sent
        PROVE  /\ factRun.sent[f] \in 1 .. versions'[f]
               /\ fact[f] # factRun.sent[f] => fact'[f] # factRun.sent[f]
    <3>1. factRun.sent[f] \in 1 .. versions[f]
      BY <2>1 DEF FactInv, SentIsKnown
    <3>2. f \in FactSweep!Facts
      BY <2>1 DEF FactInv, FactTypeOK, FactRuns
    <3>3. versions[f] \in Nat /\ versions'[f] \in Nat /\ versions[f] <= versions'[f]
      BY <1>1, <1>3, <3>2 DEF FactTypeOK
    <3>4. fact'[f] \in {fact[f], 0} \/ fact'[f] > versions[f]
      BY <1>3, <3>2
    <3>5. fact'[f] \in Nat
      BY <1>3, <3>2
    <3> QED BY <3>1, <3>3, <3>4, <3>5
  <2> QED BY <1>2, <2>1 DEF FactInv, SentIsKnown
<1> QED BY <1>4, <1>5, <1>6, <1>7, <1>8, <1>9 DEF FactInv

LEMMA FactStepInv ==
    ASSUME FactInv, [FactSweep!Next]_(FactSweep!vars)
    PROVE  FactInv'
<1>1. CASE UNCHANGED FactSweep!vars
  BY <1>1 DEF FactSweep!vars, FactInv, FactTypeOK, FactRuns, SeenIsTold, Told,
              RecordIsTold, SweepGoesOn, RunGoesOn, SentIsKnown,
              MissesAreDeleted
<1>2. CASE FactSweep!Load
  BY <1>2, FactLoadInv
<1>3. CASE FactSweep!Scroll
  BY <1>3, FactScrollInv
<1>4. CASE FactSweep!Keep
  BY <1>4, FactKeepInv
<1>5. CASE FactSweep!Verify
  <2>1. catalog \in Nat /\ published \in Nat
    BY DEF FactInv, FactTypeOK
  <2>2. /\ factRun.pc = "verify"
        /\ UNCHANGED <<fact, versions, catalog, words, disk, proposals, deleted,
                       published>>
    BY <1>5 DEF FactSweep!Verify
  <2>3. catalog' \in Nat /\ catalog' >= catalog /\ published' \in Nat
    BY <2>1, <2>2
  <2>4. \/ /\ \E f \in factRun.unverified :
                FactSweep!StillInferred(f) /\
                factRun' = [factRun EXCEPT !.unverified = @ \ {f}]
        \/ factRun' = [factRun EXCEPT !.pc = "save"]
    BY <1>5 DEF FactSweep!Verify
  <2> QED BY <2>2, <2>3, <2>4, FactRunStepInv
<1>6. CASE FactSweep!Publish
  <2>1. catalog \in Nat /\ published \in Nat
    BY DEF FactInv, FactTypeOK
  <2> QED BY <1>6, <2>1, FactRunStepInv DEF FactSweep!Publish
<1>7. CASE FactSweep!Save
  BY <1>7, FactSaveInv
<1>8. CASE FactSweep!Fault
  BY <1>8, FactIdleInv DEF FactSweep!Fault, FactSweep!Idle
<1>9. CASE \/ FactSweep!Describe
           \/ \E f \in FactSweep!Facts : FactSweep!Write(f) \/ FactSweep!Forget(f)
  BY <1>9, FactPeopleInv
<1> QED
  BY <1>1, <1>2, <1>3, <1>4, <1>5, <1>6, <1>7, <1>8, <1>9
  DEF FactSweep!Next, FactSweep!Sweep

\* The sweep over facts runs, or stands still, whatever the other scope does.
LEMMA FactsPartRuns == MCSpec => FactSweep!Init /\ [][FactSweep!Next]_(FactSweep!vars)
<1>1. MCInit => FactSweep!Init
  BY DEF MCInit
<1>2. [CatalogPart(Next) \/ FactsPart(FactSweep!Next)]_<<scope, vars, factVars>>
        => [FactSweep!Next]_(FactSweep!vars)
  BY DEF CatalogPart, FactsPart, factVars, FactSweep!vars
<1> QED BY <1>1, <1>2, PTL DEF MCSpec

LEMMA FactInvariance == MCSpec => []FactInv
BY FactsPartRuns, FactInitInv, FactStepInv, PTL

\* No version of a fact is marked as seen without a proposal that holds it,
\* under the catalog the state is bound to: whatever runs die, pages are cut,
\* facts move and catalogs change, for any facts and page size
\* (worker.go: seen, previous, bindingHash).
THEOREM SeenIsProposed == MCSpec => []SeenWasProposed
<1>1. FactInv => SeenWasProposed
  BY DEF FactInv, SeenIsTold, Told, SeenWasProposed, FactSweep!SeenWasProposed
<1> QED BY <1>1, FactInvariance, PTL

\* Nothing is published on facts other than those the provider was told of
\* and the proposal was kept with, and only a fact that was not current at
\* some moment of its sweep is reported as gone (worker.go:
\* verifyFactDependencies, the end of a sweep).
THEOREM FactsArePublishedCurrent == MCSpec => PublishedOnCurrentFacts
<1>1. ASSUME FactInv, [FactSweep!Next]_(FactSweep!vars)
      PROVE  [/\ published' > published =>
                   \A f \in DOMAIN factRun.sent : factRun.kept[f] = factRun.sent[f]
              /\ disk'.gone # disk.gone =>
                   \A f \in disk'.gone : f \in deleted \/ fact[f] = 0]_(FactSweep!vars)
  <2>1. CASE UNCHANGED FactSweep!vars
    BY <2>1
  <2>2. CASE FactSweep!Save
    BY <1>1, <2>2, FactSaveInv DEF FactSweep!Save, FactInv, FactTypeOK
  <2>3. CASE FactSweep!Publish
    <3>1. \A f \in DOMAIN factRun.sent : factRun.kept[f] = factRun.sent[f]
      BY <1>1, <2>3 DEF FactSweep!Publish, FactInv, SentIsKnown
    <3> QED BY <2>3, <3>1 DEF FactSweep!Publish
  <2>4. CASE /\ FactSweep!Next /\ ~FactSweep!Save /\ ~FactSweep!Publish
    <3>1. UNCHANGED <<disk, published>>
      BY <2>4 DEF FactSweep!Next, FactSweep!Sweep, FactSweep!Load,
         FactSweep!Scroll, FactSweep!Keep, FactSweep!Verify, FactSweep!Fault,
         FactSweep!Describe, FactSweep!Write, FactSweep!Forget, FactSweep!Change
    <3>2. published \in Nat
      BY <1>1 DEF FactInv, FactTypeOK
    <3> QED BY <3>1, <3>2
  <2> QED BY <1>1, <2>1, <2>2, <2>3, <2>4
<1>2. QED
  BY <1>1, FactsPartRuns, FactInvariance, PTL
  DEF PublishedOnCurrentFacts, FactSweep!PublishedOnCurrentFacts

-----------------------------------------------------------------------------
(* The sweep over the catalog: cards and their sources. *)

\* What an answer was made from.
Grounds == UNION {[S -> Descriptions \cup {None}] : S \in SUBSET Projects}

\* A card of p: the owner's own words, or a description beside them, and one
\* that an answer gave was made from them.
CardOK(p, e) ==
    /\ e \in Cards
    /\ ~e.derived => e.declared = None
    /\ e.derived => e.declared # None
    /\ e.derived /\ e.text \in Texts \ {e.declared} =>
         /\ e.text \in DOMAIN texts /\ p \in DOMAIN texts[e.text]
         /\ texts[e.text][p] = e.declared

\* What a proposal is kept with, and what it would publish.
ReceiptOK(r) ==
    /\ r.key.context = r.context
    /\ DOMAIN r.context \subseteq Projects
    /\ DOMAIN r.key.originals \subseteq DOMAIN r.context
    /\ \A p \in DOMAIN r.context : CardOK(p, r.context[p])
    /\ r.published # None =>
         /\ DOMAIN r.published = DOMAIN r.key.originals
         /\ \A p \in DOMAIN r.published :
              /\ CardOK(p, r.published[p])
              /\ r.published[p].derived =>
                   r.published[p].declared = Source(r.context[p])
              /\ ~r.published[p].derived => r.published[p] = r.context[p]

\* The owner's card that is remembered, and the forms it is known under.
ProjectionOK(p, c) ==
    /\ c \in Projections
    /\ CardOK(p, c.original) /\ ~c.original.derived
    /\ \A e \in ToSet(c.hashes) : ~e.derived => e = c.original

\* The owner's card behind a derived one is remembered.
Remembered(p, e) ==
    e.derived => cache[p] # None /\ cache[p].original = Own(e.declared)

RunFields ==
    {"pc", "cards", "base", "since", "policy", "originals", "selected", "fp",
     "passed", "last", "key", "receipt", "complete"}

Selecting == {"find", "answer", "check", "publish", "record"}
Answered == {"check", "publish", "record"}

\* What a run knows.
RunOK ==
    /\ run.pc \in {"idle", "policies", "select"} \cup Selecting
    /\ run.pc # "idle" =>
         /\ DOMAIN run = RunFields
         /\ \A p \in Projects : CardOK(p, run.cards[p])
    /\ run.pc \in Selecting =>
         /\ DOMAIN run.originals \subseteq Projects
         /\ run.selected \subseteq DOMAIN run.originals
         /\ \A p \in DOMAIN run.originals : CardOK(p, run.originals[p])
         /\ \A p \in run.selected :
              /\ run.cards[p].derived =>
                   run.cards[p].declared = Source(run.originals[p])
              /\ ~run.cards[p].derived => run.originals[p] = run.cards[p]
    /\ run.pc = "answer" =>
         /\ run.key.context = run.originals
         /\ run.key.originals = [p \in run.selected |-> run.originals[p]]
         /\ Len(texts) \in DOMAIN texts
         /\ texts[Len(texts)] =
              [p \in run.selected |-> Source(run.originals[p])]
    /\ run.pc \in Answered =>
         /\ ReceiptOK(run.receipt)
         /\ run.receipt.context = run.originals
         /\ DOMAIN run.receipt.key.originals = run.selected
    /\ run.pc = "publish" /\ Changes(run.receipt.published) =>
         \A p \in run.selected :
             /\ cache[p] # None
             /\ cache[p].original = run.originals[p]
             /\ ~run.originals[p].derived

\* What lasts beyond a run.
KeptOK ==
    /\ texts \in Seq(Grounds) /\ Len(texts) <= MaxTexts
    /\ DOMAIN live = Projects
    /\ \A p \in Projects : CardOK(p, live[p]) /\ Remembered(p, live[p])
    /\ \A h \in history : h.project \in Projects /\ CardOK(h.project, h.card)
    /\ DOMAIN cache = Projects
    /\ \A p \in Projects : cache[p] # None => ProjectionOK(p, cache[p])
    /\ \A r \in receipts : ReceiptOK(r)

CatalogInv == KeptOK /\ RunOK

LEMMA CatalogConstants ==
    /\ NumProjects \in Nat \ {0} /\ MaxPerRun \in Nat \ {0}
    /\ MaxTexts \in Nat \ {0} /\ MaxChanges \in Nat /\ MaxFaults \in Nat
    /\ None \notin Descriptions /\ None \notin Projections
    /\ Words \cap Texts = {}
BY SweepAssumption

LEMMA ToSetElement ==
    ASSUME NEW S, NEW s \in Seq(S)
    PROVE  /\ ToSet(s) \subseteq S
           /\ \A x \in ToSet(s) : \E i \in 1 .. Len(s) : x = s[i]
           /\ \A i \in 1 .. Len(s) : s[i] \in ToSet(s)
BY DEF ToSet

LEMMA RememberKeeps ==
    ASSUME NEW S, NEW s \in Seq(S), NEW e \in S
    PROVE  Remember(s, e) \in Seq(S)
           /\ ToSet(Remember(s, e)) \subseteq ToSet(s) \cup {e}
<1> DEFINE t == IF e \in ToSet(s) THEN s ELSE Append(s, e)
<1>1. t \in Seq(S) /\ ToSet(t) \subseteq ToSet(s) \cup {e}
  <2>1. CASE e \in ToSet(s)
    BY <2>1
  <2>2. CASE e \notin ToSet(s)
    <3>1. t = Append(s, e)
      BY <2>2
    <3>2. \A i \in DOMAIN t : t[i] \in ToSet(s) \cup {e}
      BY <3>1, ToSetElement
    <3> QED BY <3>1, <3>2 DEF ToSet
  <2> QED BY <2>1, <2>2
<1> HIDE DEF t
<1>2. CASE Len(t) > 2
  <2>1. Tail(t) \in Seq(S) /\ \A i \in DOMAIN Tail(t) : Tail(t)[i] = t[i + 1]
                             /\ i + 1 \in DOMAIN t
    BY <1>1, <1>2
  <2>2. ToSet(Tail(t)) \subseteq ToSet(t)
    BY <2>1 DEF ToSet
  <2>3. Remember(s, e) = Tail(t)
    BY <1>2 DEF Remember, t
  <2> QED BY <1>1, <2>1, <2>2, <2>3
<1>3. CASE ~(Len(t) > 2)
  BY <1>1, <1>3 DEF Remember, t
<1> QED BY <1>2, <1>3

\* Answers are only added, and what they were made from stays.
LEMMA TextsKept ==
    ASSUME texts \in Seq(Grounds),
           texts' = texts \/ \E g \in Grounds : texts' = Append(texts, g)
    PROVE  /\ \A p, e : CardOK(p, e) => CardOK(p, e)'
           /\ \A r : ReceiptOK(r) => ReceiptOK(r)'
           /\ \A p, c : ProjectionOK(p, c) => ProjectionOK(p, c)'
<1>1. \A t \in DOMAIN texts : t \in DOMAIN texts' /\ texts'[t] = texts[t]
  OBVIOUS
<1>2. \A p, e : CardOK(p, e) => CardOK(p, e)'
  BY <1>1 DEF CardOK
<1> QED BY <1>2 DEF ReceiptOK, ProjectionOK

\* A card that is not blocked rests on the owner's card behind it.
LEMMA OriginalOK ==
    ASSUME NEW p \in Projects, NEW c, c[p] # None => ProjectionOK(p, c[p]),
           NEW e, CardOK(p, e)
    PROVE  /\ CardOK(p, Original(c, p, e))
           /\ ~Blocked(c, p, e) =>
                /\ ~Original(c, p, e).derived
                /\ e.derived => e.declared = Source(Original(c, p, e))
                /\ ~e.derived => Original(c, p, e) = e
<1>1. e \in Cards
  BY DEF CardOK
<1>2. CASE Recognised(c, p, e)
  <2>1. /\ ProjectionOK(p, c[p])
        /\ DerivedFrom(e, c[p].original)
        /\ e \in ToSet(c[p].hashes) \/ e.derived
    BY <1>2 DEF Recognised
  <2>2. Original(c, p, e) = c[p].original
    BY <1>2 DEF Original
  <2> DEFINE o == c[p].original
  <2>3. CardOK(p, o) /\ ~o.derived
    BY <2>1 DEF ProjectionOK
  <2>7. o \in Cards
    BY <2>3 DEF CardOK
  <2>8. ~e.derived => e = o
    BY <2>1 DEF ProjectionOK
  <2>4. o.declared = None
    BY <2>3 DEF CardOK
  <2>5. ASSUME e.derived PROVE e.declared = o.text
    BY <2>1, <2>4, <2>5 DEF DerivedFrom, CardOK
  <2>6. Source(o) = o.text
    BY <2>3, <2>4 DEF Source
  <2> QED BY <2>1, <2>2, <2>3, <2>8, <2>5, <2>6
<1>3. CASE ~Recognised(c, p, e) /\ e.derived
  <2>1. Original(c, p, e) = [e EXCEPT !.text = e.declared]
    BY <1>3 DEF Original
  <2> QED BY <1>1, <1>3, <2>1 DEF Blocked, CardOK, Cards
<1>4. CASE ~Recognised(c, p, e) /\ ~e.derived
  BY <1>4 DEF Original
<1> QED BY <1>2, <1>3, <1>4

\* What is imported from receipts is the owner's card as well.
LEMMA ImportedOK ==
    ASSUME KeptOK, NEW cards, NEW p \in Projects, CardOK(p, cards[p])
    PROVE  /\ Imported(cards, p) # None => ProjectionOK(p, Imported(cards, p))
           /\ cache[p] # None =>
                /\ Imported(cards, p) # None
                /\ Imported(cards, p).original = cache[p].original
<1> DEFINE found == {r.context[p] : r \in Importable(cards, p)}
<1>1. \A o \in found : /\ CardOK(p, o) /\ ~o.derived
                       /\ ~cards[p].derived => cards[p] = o
  <2> SUFFICES ASSUME NEW r \in Importable(cards, p)
               PROVE  /\ CardOK(p, r.context[p]) /\ ~r.context[p].derived
                      /\ ~cards[p].derived => cards[p] = r.context[p]
    OBVIOUS
  <2>1. /\ r \in receipts /\ r.published # None /\ p \in DOMAIN r.published
        /\ \A q \in DOMAIN r.context : ~r.context[q].derived
        /\ r.published[p] = cards[p]
    BY DEF Importable
  <2>2. ReceiptOK(r)
    BY <2>1 DEF KeptOK
  <2> QED BY <2>1, <2>2 DEF ReceiptOK
<1>2. cards[p] \in Cards
  BY DEF CardOK
<1>3. CASE cache[p] # None
  <2>1. ProjectionOK(p, cache[p])
    BY <1>3 DEF KeptOK
  <2>2. CASE cache[p].original \in found
    <3> DEFINE h == Remember(cache[p].hashes, cards[p])
    <3>1. h \in Seq(Cards) /\ ToSet(h) \subseteq ToSet(cache[p].hashes) \cup {cards[p]}
      BY <1>2, <2>1, RememberKeeps DEF ProjectionOK, Projections
    <3>2. Imported(cards, p) = [cache[p] EXCEPT !.hashes = h]
      BY <1>3, <2>2 DEF Imported
    <3>3. Imported(cards, p) \in Projections
      BY <2>1, <3>1, <3>2 DEF ProjectionOK, Projections
    <3> QED
      BY <1>1, <2>1, <2>2, <3>1, <3>2, <3>3, CatalogConstants
      DEF ProjectionOK, Projections
  <2>3. CASE cache[p].original \notin found
    BY <1>3, <2>1, <2>3 DEF Imported
  <2> QED BY <2>2, <2>3
<1>4. CASE cache[p] = None
  <2>1. CASE found = {}
    BY <1>4, <2>1 DEF Imported
  <2>2. CASE found # {}
    <3> DEFINE o == CHOOSE x \in found : TRUE
    <3>1. o \in found
      BY <2>2
    <3>2. Imported(cards, p) = [original |-> o, hashes |-> <<cards[p]>>]
      BY <1>4, <2>2 DEF Imported
    <3> HIDE DEF o, found
    <3>3. o \in Cards
      BY <1>1, <3>1 DEF CardOK
    <3>4. <<cards[p]>> \in Seq(Cards) /\ ToSet(<<cards[p]>>) = {cards[p]}
      BY <1>2 DEF ToSet
    <3> QED BY <1>1, <1>4, <3>1, <3>2, <3>3, <3>4 DEF ProjectionOK, Projections
  <2> QED BY <2>1, <2>2
<1> QED BY <1>3, <1>4

LEMMA CatalogInitInv == Init => CatalogInv
<1> SUFFICES ASSUME Init PROVE CatalogInv
  OBVIOUS
<1>1. PICK w \in Words : live = [p \in Projects |-> Own(w)]
  BY DEF Init
<1>2. \A p : CardOK(p, Own(w)) /\ ~Own(w).derived
  BY <1>1, CatalogConstants DEF CardOK, Own, Card, Cards, Descriptions
<1>3. \A p \in Projects : live[p] = Own(w)
  BY <1>1
<1>4. \A h \in history : h.project \in Projects /\ h.card = Own(w)
  BY <1>3 DEF Init
<1>5. texts \in Seq(Grounds) /\ Len(texts) = 0 /\ receipts = {} /\ run.pc = "idle"
      /\ DOMAIN cache = Projects /\ \A p \in Projects : cache[p] = None
  BY DEF Init
<1>6. KeptOK
  BY <1>1, <1>2, <1>3, <1>4, <1>5, CatalogConstants DEF KeptOK, Remembered
<1> QED BY <1>5, <1>6 DEF CatalogInv, RunOK, Selecting, Answered

\* A step that leaves cards, history, projections, receipts and answers.
LEMMA KeptStays ==
    ASSUME KeptOK, UNCHANGED <<live, history, cache, receipts, texts>>
    PROVE  /\ KeptOK'
           /\ \A p, e : CardOK(p, e) <=> CardOK(p, e)'
           /\ \A r : ReceiptOK(r) <=> ReceiptOK(r)'
<1>1. \A p, e : CardOK(p, e) <=> CardOK(p, e)'
  BY DEF CardOK
<1>2. \A r : ReceiptOK(r) <=> ReceiptOK(r)'
  BY <1>1 DEF ReceiptOK
<1>3. \A p, c : ProjectionOK(p, c) <=> ProjectionOK(p, c)'
  BY <1>1 DEF ProjectionOK
<1> QED BY <1>1, <1>2, <1>3 DEF KeptOK, Remembered

LEMMA IdleOK == run.pc = "idle" => RunOK
BY DEF RunOK, Selecting, Answered

LEMMA LoadInv ==
    ASSUME CatalogInv, Load
    PROVE  CatalogInv'
<1>1. /\ UNCHANGED <<live, history, cache, receipts, texts>>
      /\ run' = [pc |-> "policies", cards |-> live, base |-> gen,
                 since |-> changes, policy |-> None, originals |-> None,
                 selected |-> {}, fp |-> None, passed |-> None, last |-> None,
                 key |-> None, receipt |-> None, complete |-> FALSE]
  BY DEF Load, people, files
<1>2. KeptOK' /\ \A p, e : CardOK(p, e) <=> CardOK(p, e)'
  BY <1>1, KeptStays DEF CatalogInv
<1>3. \A p \in Projects : CardOK(p, live[p])
  BY DEF CatalogInv, KeptOK
<1>4. /\ run'.pc = "policies" /\ run'.cards = live
      /\ DOMAIN run' = RunFields
  BY <1>1 DEF RunFields
<1>5. RunOK'
  BY <1>2, <1>3, <1>4 DEF RunOK, Selecting, Answered
<1> QED BY <1>2, <1>5 DEF CatalogInv

LEMMA LoadPoliciesInv ==
    ASSUME CatalogInv, LoadPolicies
    PROVE  CatalogInv'
<1>1. /\ UNCHANGED <<live, history, cache, receipts, texts>>
      /\ run.pc = "policies"
      /\ run' = [run EXCEPT !.pc = "select", !.policy = policy]
  BY DEF LoadPolicies, people, files
<1>2. KeptOK' /\ \A p, e : CardOK(p, e) <=> CardOK(p, e)'
  BY <1>1, KeptStays DEF CatalogInv
<1>3. DOMAIN run = RunFields
      /\ \A p \in Projects : CardOK(p, run.cards[p])
  BY <1>1 DEF CatalogInv, RunOK
<1>4. run'.pc = "select" /\ run'.cards = run.cards
      /\ DOMAIN run' = RunFields
  BY <1>1, <1>3 DEF RunFields
<1>5. RunOK'
  BY <1>2, <1>3, <1>4 DEF RunOK, Selecting, Answered
<1> QED BY <1>2, <1>5 DEF CatalogInv

LEMMA SelectInv ==
    ASSUME CatalogInv, Select
    PROVE  CatalogInv'
<1> DEFINE eligible == {p \in Projects : ~run.policy[p].hold}
           c == [p \in Projects |-> Imported(run.cards, p)]
           originals == [p \in eligible |-> Original(c, p, run.cards[p])]
           blocked == {p \in eligible : Blocked(c, p, run.cards[p])}
           stale == {p \in eligible \ blocked : fp[p] # Fingerprint(originals, p)}
           visited == {p \in eligible : MaxPerRun >
                         Cardinality({q \in stale : Before(eligible, q, p)})}
           selected == stale \cap visited
           passed == IF blocked \cap visited = {} THEN cursor
                     ELSE LastOf(eligible, blocked \cap visited)
           kept == [p \in Projects |-> IF p \in eligible THEN fp[p] ELSE None]
<1>1. /\ run.pc = "select" /\ cache' = c
      /\ UNCHANGED <<live, history, receipts, texts>>
      /\ \/ run' = [pc |-> "idle"]
         \/ run' = [run EXCEPT !.pc = "find", !.originals = originals,
                      !.selected = selected, !.fp = kept, !.passed = passed,
                      !.last = LastOf(eligible, selected)]
  BY DEF Select, Idle, people
<1>2. /\ DOMAIN run = RunFields
      /\ \A p \in Projects : CardOK(p, run.cards[p])
  BY <1>1 DEF CatalogInv, RunOK
<1>3. /\ \A p, e : CardOK(p, e) => CardOK(p, e)'
      /\ \A r : ReceiptOK(r) => ReceiptOK(r)'
      /\ \A p, d : ProjectionOK(p, d) => ProjectionOK(p, d)'
  BY <1>1, TextsKept DEF CatalogInv, KeptOK
<1>4. \A p \in Projects :
        /\ c[p] # None => ProjectionOK(p, c[p])
        /\ cache[p] # None => c[p] # None /\ c[p].original = cache[p].original
  BY <1>2, ImportedOK DEF CatalogInv
<1>5. KeptOK'
  <2>1. \A p \in Projects : Remembered(p, live[p])'
    BY <1>1, <1>4 DEF CatalogInv, KeptOK, Remembered
  <2> HIDE DEF c
  <2>2. DOMAIN cache' = Projects
    BY <1>1 DEF c
  <2> QED BY <1>1, <1>3, <1>4, <2>1, <2>2 DEF CatalogInv, KeptOK
<1>6. \A p \in eligible :
        /\ CardOK(p, originals[p])
        /\ p \notin blocked =>
             /\ run.cards[p].derived =>
                  run.cards[p].declared = Source(originals[p])
             /\ ~run.cards[p].derived => originals[p] = run.cards[p]
  <2> SUFFICES ASSUME NEW p \in eligible
               PROVE  /\ CardOK(p, Original(c, p, run.cards[p]))
                      /\ ~Blocked(c, p, run.cards[p]) =>
                           /\ run.cards[p].derived =>
                                run.cards[p].declared =
                                  Source(Original(c, p, run.cards[p]))
                           /\ ~run.cards[p].derived =>
                                Original(c, p, run.cards[p]) = run.cards[p]
    OBVIOUS
  <2>1. p \in Projects /\ CardOK(p, run.cards[p])
    BY <1>2
  <2>2. c[p] # None => ProjectionOK(p, c[p])
    BY <1>4, <2>1
  <2> HIDE DEF c
  <2> QED BY <2>1, <2>2, OriginalOK
<1> HIDE DEF c, originals, blocked, passed, kept, visited
<1>7. CASE run' = [pc |-> "idle"]
  <2>1. run'.pc = "idle"
    BY <1>7
  <2>2. RunOK'
    BY <2>1 DEF RunOK, Selecting, Answered
  <2> QED BY <1>5, <2>2 DEF CatalogInv
<1>8. CASE run' = [run EXCEPT !.pc = "find", !.originals = originals,
                      !.selected = selected, !.fp = kept, !.passed = passed,
                      !.last = LastOf(eligible, selected)]
  <2>1. /\ run'.pc = "find" /\ run'.cards = run.cards
        /\ run'.originals = originals /\ run'.selected = selected
        /\ DOMAIN run' = RunFields
    <3> HIDE DEF selected, eligible
    <3> QED BY <1>2, <1>8 DEF RunFields
  <2>2. DOMAIN originals = eligible /\ selected \subseteq eligible \ blocked
        /\ eligible \subseteq Projects
    BY DEF originals
  <2> HIDE DEF selected, eligible
  <2>3. RunOK'
    BY <1>2, <1>3, <1>6, <2>1, <2>2 DEF RunOK, Selecting, Answered, Source
  <2> QED BY <1>5, <2>3 DEF CatalogInv
<1> QED BY <1>1, <1>7, <1>8

\* What a run knows after its selection, in the next state as well.
SelectionOK(r) ==
    /\ \A p \in Projects : CardOK(p, r.cards[p])
    /\ DOMAIN r = RunFields
    /\ DOMAIN r.originals \subseteq Projects
    /\ r.selected \subseteq DOMAIN r.originals
    /\ \A p \in DOMAIN r.originals : CardOK(p, r.originals[p])
    /\ \A p \in r.selected :
         /\ r.cards[p].derived => r.cards[p].declared = Source(r.originals[p])
         /\ ~r.cards[p].derived => r.originals[p] = r.cards[p]

LEMMA Selection == CatalogInv /\ run.pc \in Selecting => SelectionOK(run)
BY DEF CatalogInv, RunOK, Selecting, SelectionOK, RunFields

LEMMA SelectionStays ==
    ASSUME SelectionOK(run)', run'.pc \in Selecting,
           (run.pc = "answer" =>
              /\ run.key.context = run.originals
              /\ run.key.originals = [p \in run.selected |-> run.originals[p]]
              /\ Len(texts) \in DOMAIN texts
              /\ texts[Len(texts)] =
                   [p \in run.selected |-> Source(run.originals[p])])',
           (run.pc \in Answered =>
              /\ ReceiptOK(run.receipt)
              /\ run.receipt.context = run.originals
              /\ DOMAIN run.receipt.key.originals = run.selected)',
           (run.pc = "publish" /\ Changes(run.receipt.published) =>
              \A p \in run.selected :
                  /\ cache[p] # None
                  /\ cache[p].original = run.originals[p]
                  /\ ~run.originals[p].derived)'
    PROVE  RunOK'
BY DEF RunOK, Selecting, Answered, SelectionOK, RunFields

LEMMA ReuseInv ==
    ASSUME CatalogInv, Reuse
    PROVE  CatalogInv'
<1>1. /\ run.pc = "find"
      /\ UNCHANGED <<live, history, cache, receipts, texts>>
  BY DEF Reuse, people, files
<1>2. PICK r \in receipts :
        /\ Usable(r)
        /\ run' = [run EXCEPT !.pc = "check", !.receipt = r,
                              !.complete = r.base # run.base]
  BY DEF Reuse
<1>3. /\ KeptOK'
      /\ \A p, e : CardOK(p, e) <=> CardOK(p, e)'
      /\ \A q : ReceiptOK(q) <=> ReceiptOK(q)'
  BY <1>1, KeptStays DEF CatalogInv
<1>4. SelectionOK(run)
  BY <1>1, Selection DEF Selecting
<1>5. /\ run'.pc = "check" /\ run'.cards = run.cards /\ run'.receipt = r
      /\ run'.originals = run.originals /\ run'.selected = run.selected
      /\ DOMAIN run' = RunFields
  BY <1>2, <1>4 DEF SelectionOK, RunFields
<1>6. SelectionOK(run)'
  BY <1>3, <1>4, <1>5 DEF SelectionOK, Source
<1>7. ReceiptOK(r) /\ r.key.context = r.context
  BY DEF CatalogInv, KeptOK, ReceiptOK
<1>8. r.key.context = run.originals
      /\ DOMAIN r.key.originals = run.selected
  BY <1>2 DEF Usable, ReceiptKey
<1>9. RunOK'
  BY <1>3, <1>5, <1>6, <1>7, <1>8, SelectionStays DEF Selecting, Answered
<1> QED BY <1>3, <1>9 DEF CatalogInv

LEMMA DispatchInv ==
    ASSUME CatalogInv, Dispatch
    PROVE  CatalogInv'
<1> DEFINE grounds == [p \in run.selected |-> Source(run.originals[p])]
<1>1. /\ run.pc = "find"
      /\ texts' = Append(texts, grounds)
      /\ run' = [run EXCEPT !.pc = "answer", !.key = ReceiptKey]
      /\ UNCHANGED <<live, history, cache, receipts>>
  BY DEF Dispatch, people
<1>2. SelectionOK(run)
  BY <1>1, Selection DEF Selecting
<1>3. grounds \in Grounds
  <2>1. \A p \in run.selected : Source(run.originals[p]) \in Descriptions \cup {None}
    BY <1>2 DEF SelectionOK, Source, CardOK, Cards
  <2>2. run.selected \in SUBSET Projects
    BY <1>2 DEF SelectionOK
  <2>3. grounds \in [run.selected -> Descriptions \cup {None}]
    BY <2>1
  <2> QED BY <2>2, <2>3 DEF Grounds
<1> HIDE DEF grounds
<1>4. /\ \A p, e : CardOK(p, e) => CardOK(p, e)'
      /\ \A r : ReceiptOK(r) => ReceiptOK(r)'
      /\ \A p, d : ProjectionOK(p, d) => ProjectionOK(p, d)'
  BY <1>1, <1>3, TextsKept DEF CatalogInv, KeptOK
<1>5. KeptOK'
  <2>1. texts' \in Seq(Grounds) /\ Len(texts') <= MaxTexts
    BY <1>1, <1>3, CatalogConstants DEF CatalogInv, KeptOK, Dispatch
  <2> QED BY <1>1, <1>4, <2>1 DEF CatalogInv, KeptOK, Remembered
<1>6. /\ run'.pc = "answer" /\ run'.cards = run.cards /\ run'.key = ReceiptKey
      /\ run'.originals = run.originals /\ run'.selected = run.selected
      /\ DOMAIN run' = RunFields
  BY <1>1, <1>2 DEF SelectionOK, RunFields
<1>7. SelectionOK(run)'
  BY <1>2, <1>4, <1>6 DEF SelectionOK, Source
<1>8. Len(texts') \in DOMAIN texts' /\ texts'[Len(texts')] = grounds
  BY <1>1, <1>3 DEF CatalogInv, KeptOK
<1>9. /\ run'.key.context = run.originals
      /\ run'.key.originals = [p \in run.selected |-> run.originals[p]]
  BY <1>6 DEF ReceiptKey
<1>10. RunOK'
  BY <1>6, <1>7, <1>8, <1>9, SelectionStays DEF Selecting, Answered, grounds, Source
<1> QED BY <1>5, <1>10 DEF CatalogInv

\* What an answer makes of the selected cards.
LEMMA AnswerOK ==
    ASSUME CatalogInv, run.pc = "answer", NEW shown \in Answers,
           NEW r, r = [key |-> run.key, base |-> run.base,
                       context |-> run.originals, published |-> shown]
    PROVE  ReceiptOK(r) /\ r.context = run.originals
           /\ DOMAIN r.key.originals = run.selected
<1>1. /\ SelectionOK(run)
      /\ run.key.context = run.originals
      /\ run.key.originals = [p \in run.selected |-> run.originals[p]]
      /\ Len(texts) \in DOMAIN texts
      /\ texts[Len(texts)] = [p \in run.selected |-> Source(run.originals[p])]
      /\ texts \in Seq(Grounds)
  BY Selection DEF CatalogInv, RunOK, KeptOK, Selecting
<1>2. ASSUME shown # None, NEW p \in DOMAIN shown
      PROVE  /\ DOMAIN shown = run.selected
             /\ CardOK(p, shown[p])
             /\ shown[p].derived =>
                  shown[p].declared = Source(run.originals[p])
             /\ ~shown[p].derived => shown[p] = run.originals[p]
  <2>1. PICK rewritten \in SUBSET run.selected :
          shown = [q \in run.selected |->
                         IF q \in rewritten
                         THEN Rewritten(run.cards[q], Len(texts))
                         ELSE run.cards[q]]
    BY <1>2 DEF Answers
  <2>2. p \in run.selected /\ p \in Projects /\ CardOK(p, run.cards[p])
        /\ CardOK(p, run.originals[p])
    BY <1>1, <1>2, <2>1 DEF SelectionOK
  <2>3. CASE p \in rewritten
    <3> DEFINE e == run.cards[p]
               n == Rewritten(run.cards[p], Len(texts))
    <3>1. shown[p] = n
      BY <2>1, <2>2, <2>3
    <3>2. n = [derived |-> TRUE, text |-> Len(texts),
               declared |-> IF e.declared = None /\ ~e.derived THEN e.text
                            ELSE e.declared]
      BY DEF Rewritten, Card
    <3>3. e \in Cards /\ (~e.derived => e.declared = None)
          /\ (e.derived => e.declared # None)
      BY <2>2 DEF CardOK
    <3>4. n.declared = Source(run.originals[p])
      <4>1. CASE e.derived
        BY <1>1, <2>2, <3>2, <3>3, <4>1 DEF SelectionOK
      <4>2. CASE ~e.derived
        BY <1>1, <2>2, <3>2, <3>3, <4>2 DEF SelectionOK, Source
      <4> QED BY <4>1, <4>2
    <3>5. n.declared \in Descriptions /\ n.declared # None
      BY <3>2, <3>3, CatalogConstants DEF Cards
    <3>6. Len(texts) \in Texts
      BY <1>1, CatalogConstants DEF CatalogInv, KeptOK, Texts
    <3>7. n \in Cards
      BY <3>2, <3>5, <3>6 DEF Cards, Descriptions
    <3>8. CardOK(p, n)
      <4> HIDE DEF n, e
      <4> QED BY <1>1, <2>2, <3>2, <3>4, <3>5, <3>7 DEF CardOK
    <3> QED BY <2>1, <3>1, <3>2, <3>4, <3>8
  <2>4. CASE p \notin rewritten
    BY <1>1, <2>1, <2>2, <2>4 DEF SelectionOK
  <2> QED BY <2>3, <2>4
<1>3. shown # None => DOMAIN shown = run.selected
  BY DEF Answers
<1> QED BY <1>1, <1>2, <1>3 DEF ReceiptOK, SelectionOK

LEMMA KeepInv ==
    ASSUME CatalogInv, Keep
    PROVE  CatalogInv'
<1>1. /\ run.pc = "answer"
      /\ UNCHANGED <<live, history, cache, texts>>
  BY DEF Keep, people
<1>2. CASE ~SourcesCurrent
  <2>1. UNCHANGED receipts /\ run' = [pc |-> "idle"]
    BY <1>2 DEF Keep, Idle
  <2>2. KeptOK'
    BY <1>1, <2>1, KeptStays DEF CatalogInv
  <2>3. RunOK'
    BY <2>1 DEF RunOK, Selecting, Answered
  <2> QED BY <2>2, <2>3 DEF CatalogInv
<1>3. CASE SourcesCurrent
  <2>1. PICK shown \in Answers :
          LET r == [key |-> run.key, base |-> run.base,
                    context |-> run.originals, published |-> shown]
          IN  /\ receipts' = receipts \cup {r}
              /\ run' = [run EXCEPT !.pc = "check", !.receipt = r]
    BY <1>3 DEF Keep
  <2> DEFINE r == [key |-> run.key, base |-> run.base,
                   context |-> run.originals, published |-> shown]
  <2>2. ReceiptOK(r) /\ r.context = run.originals
        /\ DOMAIN r.key.originals = run.selected
    BY <1>1, AnswerOK
  <2>3. receipts' = receipts \cup {r}
        /\ run' = [run EXCEPT !.pc = "check", !.receipt = r]
    BY <2>1
  <2> HIDE DEF r
  <2>4. /\ \A p, e : CardOK(p, e) => CardOK(p, e)'
        /\ \A q : ReceiptOK(q) => ReceiptOK(q)'
        /\ \A p, d : ProjectionOK(p, d) => ProjectionOK(p, d)'
    BY <1>1, TextsKept DEF CatalogInv, KeptOK
  <2>5. KeptOK'
    BY <1>1, <2>2, <2>3, <2>4 DEF CatalogInv, KeptOK, Remembered
  <2>6. SelectionOK(run)
    BY <1>1, Selection DEF Selecting
  <2>7. /\ run'.pc = "check" /\ run'.cards = run.cards /\ run'.receipt = r
        /\ run'.originals = run.originals /\ run'.selected = run.selected
        /\ DOMAIN run' = RunFields
    BY <2>3, <2>6 DEF SelectionOK, RunFields
  <2>8. SelectionOK(run)'
    BY <2>4, <2>6, <2>7 DEF SelectionOK, Source
  <2>9. RunOK'
    BY <2>2, <2>4, <2>7, <2>8, SelectionStays DEF Selecting, Answered
  <2> QED BY <2>5, <2>9 DEF CatalogInv
<1> QED BY <1>2, <1>3

\* What a run that has its receipt knows.
LEMMA HasReceipt ==
    ASSUME CatalogInv, run.pc \in Answered
    PROVE  /\ SelectionOK(run)
           /\ ReceiptOK(run.receipt)
           /\ run.receipt.context = run.originals
           /\ DOMAIN run.receipt.key.originals = run.selected
BY Selection DEF CatalogInv, RunOK, Answered, Selecting

\* What is remembered of the cards before they are published.
LEMMA ProjectedOK ==
    ASSUME CatalogInv, run.pc = "check", run.receipt.published # None,
           NEW p \in DOMAIN run.receipt.published,
           NEW d, d = Projected(p, run.receipt.published[p]), d # None
    PROVE  /\ ProjectionOK(p, d)
           /\ d.original = run.originals[p]
<1> DEFINE e == run.cards[p]
           o == run.originals[p]
           n == run.receipt.published[p]
           h == Remember(<<e>>, n)
<1>1. SelectionOK(run) /\ ReceiptOK(run.receipt)
      /\ run.receipt.context = run.originals
      /\ DOMAIN run.receipt.key.originals = run.selected
  BY HasReceipt DEF Answered
<1>2. p \in run.selected /\ p \in Projects
  BY <1>1 DEF ReceiptOK, SelectionOK
<1>3. d = [original |-> o, hashes |-> h] /\ ~o.derived
  BY DEF Projected
<1>4. CardOK(p, e) /\ CardOK(p, o) /\ CardOK(p, n)
      /\ (~e.derived => e = o) /\ (~n.derived => n = o)
  BY <1>1, <1>2 DEF SelectionOK, ReceiptOK
<1>5. e \in Cards /\ o \in Cards /\ n \in Cards
  BY <1>4 DEF CardOK
<1> HIDE DEF e, o, n
<1>6. <<e>> \in Seq(Cards) /\ ToSet(<<e>>) = {e}
  BY <1>5 DEF ToSet
<1>7. h \in Seq(Cards) /\ ToSet(h) \subseteq {e, n}
  BY <1>5, <1>6, RememberKeeps
<1> HIDE DEF h
<1>8. d \in Projections /\ d.original = o /\ d.hashes = h
  BY <1>3, <1>5, <1>7 DEF Projections
<1>9. \A x \in ToSet(d.hashes) : ~x.derived => x = d.original
  BY <1>4, <1>7, <1>8
<1> QED BY <1>3, <1>4, <1>8, <1>9 DEF ProjectionOK, o

LEMMA ProjectInv ==
    ASSUME CatalogInv, Project
    PROVE  CatalogInv'
<1> DEFINE shown == run.receipt.published
           projected == [p \in DOMAIN shown |-> Projected(p, shown[p])]
<1>1. /\ run.pc = "check"
      /\ UNCHANGED <<live, history, receipts, texts>>
  BY DEF Project, people
<1>2. /\ \A p, e : CardOK(p, e) => CardOK(p, e)'
      /\ \A r : ReceiptOK(r) => ReceiptOK(r)'
      /\ \A p, d : ProjectionOK(p, d) => ProjectionOK(p, d)'
  BY <1>1, TextsKept DEF CatalogInv, KeptOK
<1>3. CASE run' = [pc |-> "idle"] /\ UNCHANGED cache
  <2>1. KeptOK'
    BY <1>1, <1>3, KeptStays DEF CatalogInv
  <2>2. run'.pc = "idle"
    BY <1>3
  <2>3. RunOK'
    BY <2>2 DEF RunOK, Selecting, Answered
  <2> QED BY <2>1, <2>3 DEF CatalogInv
<1>4. CASE ~(run' = [pc |-> "idle"] /\ UNCHANGED cache)
  <2>1. /\ SourcesCurrent
        /\ Changes(shown) => \A p \in DOMAIN shown : projected[p] # None
        /\ cache' = IF Changes(shown)
                    THEN [p \in Projects |->
                            IF p \in DOMAIN shown THEN projected[p]
                            ELSE cache[p]]
                    ELSE cache
        /\ run' = [run EXCEPT !.pc = "publish"]
    BY <1>4 DEF Project, Idle
  <2>2. /\ SelectionOK(run)
        /\ ReceiptOK(run.receipt)
        /\ run.receipt.context = run.originals
        /\ DOMAIN run.receipt.key.originals = run.selected
    BY <1>1, HasReceipt DEF Answered
  <2>3. /\ run'.pc = "publish" /\ run'.cards = run.cards
        /\ run'.receipt = run.receipt
        /\ run'.originals = run.originals /\ run'.selected = run.selected
        /\ DOMAIN run' = RunFields
    BY <2>1, <2>2 DEF SelectionOK, RunFields
  <2>4. SelectionOK(run)'
    BY <1>2, <2>2, <2>3 DEF SelectionOK, Source
  <2>5. Changes(shown) => DOMAIN shown = run.selected /\ shown # None
    BY <2>2 DEF Changes, ReceiptOK
  <2>6. Changes(shown) =>
          \A p \in run.selected :
              /\ p \in Projects /\ cache'[p] # None
              /\ ProjectionOK(p, cache'[p])
              /\ cache'[p].original = run.originals[p]
              /\ ~run.originals[p].derived
    <3> SUFFICES ASSUME Changes(shown), NEW p \in run.selected
                 PROVE  /\ p \in Projects /\ cache'[p] # None
                        /\ ProjectionOK(p, cache'[p])
                        /\ cache'[p].original = run.originals[p]
                        /\ ~run.originals[p].derived
      OBVIOUS
    <3>1. p \in Projects /\ p \in DOMAIN shown /\ shown # None
      BY <2>2, <2>5 DEF SelectionOK
    <3>2. cache'[p] = Projected(p, shown[p]) /\ cache'[p] # None
      BY <2>1, <3>1
    <3>3. ProjectionOK(p, cache'[p]) /\ cache'[p].original = run.originals[p]
      BY <1>1, <3>1, <3>2, ProjectedOK
    <3> QED BY <3>1, <3>2, <3>3 DEF ProjectionOK
  <2>7. \A p \in Projects :
          ~(Changes(shown) /\ p \in run.selected) => cache'[p] = cache[p]
    BY <2>1, <2>5
  <2>8. DOMAIN cache' = Projects
    <3> HIDE DEF projected
    <3> QED BY <2>1 DEF CatalogInv, KeptOK
  <2>9. \A p \in Projects : Remembered(p, live[p])'
    <3> SUFFICES ASSUME NEW p \in Projects, live[p].derived
                 PROVE  cache'[p] # None /\ cache'[p].original = Own(live[p].declared)
      BY <1>1 DEF Remembered
    <3>1. cache[p] # None /\ cache[p].original = Own(live[p].declared)
      BY DEF CatalogInv, KeptOK, Remembered
    <3>2. CASE Changes(shown) /\ p \in run.selected
      <4>1. ~Blocked(cache, p, live[p])
            /\ Original(cache, p, live[p]) = run.originals[p]
        BY <2>1, <3>2 DEF SourcesCurrent
      <4>2. cache[p].original = run.originals[p]
        BY <4>1 DEF Blocked, Original
      <4> QED BY <2>6, <3>1, <3>2, <4>2
    <3> QED BY <2>7, <3>1, <3>2
  <2> HIDE DEF projected
  <2>10. \A p \in Projects : (cache[p] # None => ProjectionOK(p, cache[p]))'
    <3> SUFFICES ASSUME NEW p \in Projects, cache'[p] # None
                 PROVE  ProjectionOK(p, cache'[p])
      BY <1>1 DEF ProjectionOK, CardOK
    <3> QED BY <2>6, <2>7 DEF CatalogInv, KeptOK
  <2>11. KeptOK'
    <3>1. \A p \in Projects : CardOK(p, live[p])'
      BY <1>1, <1>2 DEF CatalogInv, KeptOK
    <3>2. (\A h \in history : h.project \in Projects /\ CardOK(h.project, h.card))'
      BY <1>1, <1>2 DEF CatalogInv, KeptOK
    <3>3. (\A r \in receipts : ReceiptOK(r))'
      BY <1>1, <1>2 DEF CatalogInv, KeptOK
    <3> QED
      BY <1>1, <2>8, <2>9, <2>10, <3>1, <3>2, <3>3 DEF CatalogInv, KeptOK
  <2>12. Changes(run.receipt.published)' = Changes(shown)
    BY <2>3 DEF Changes
  <2>13. RunOK'
    BY <1>2, <2>2, <2>3, <2>4, <2>6, <2>12, SelectionStays DEF Selecting, Answered
  <2> QED BY <2>11, <2>13 DEF CatalogInv
<1> QED BY <1>3, <1>4

LEMMA PublishInv ==
    ASSUME CatalogInv, Publish
    PROVE  CatalogInv'
<1> DEFINE shown == run.receipt.published
<1>1. /\ run.pc = "publish" /\ run' = [run EXCEPT !.pc = "record"]
      /\ UNCHANGED <<cache, receipts, texts>>
  BY DEF Publish, files
<1>2. /\ SelectionOK(run)
      /\ ReceiptOK(run.receipt)
      /\ run.receipt.context = run.originals
      /\ DOMAIN run.receipt.key.originals = run.selected
  BY <1>1, HasReceipt DEF Answered
<1>3. /\ \A p, e : CardOK(p, e) => CardOK(p, e)'
      /\ \A r : ReceiptOK(r) => ReceiptOK(r)'
      /\ \A p, d : ProjectionOK(p, d) => ProjectionOK(p, d)'
  BY <1>1, TextsKept DEF CatalogInv, KeptOK
<1>4. /\ run'.pc = "record" /\ run'.cards = run.cards
      /\ run'.receipt = run.receipt
      /\ run'.originals = run.originals /\ run'.selected = run.selected
      /\ DOMAIN run' = RunFields
  BY <1>1, <1>2 DEF SelectionOK, RunFields
<1>5. SelectionOK(run)'
  BY <1>2, <1>3, <1>4 DEF SelectionOK, Source
<1>6. RunOK'
  BY <1>2, <1>3, <1>4, <1>5, SelectionStays DEF Selecting, Answered
<1>7. CASE UNCHANGED <<live, history>>
  BY <1>1, <1>6, <1>7, KeptStays DEF CatalogInv
<1>8. CASE ~UNCHANGED <<live, history>>
  <2>1. /\ Changes(shown)
        /\ live' = [p \in Projects |-> IF p \in run.selected
                                   THEN shown[p] ELSE live[p]]
        /\ history' = history \cup
             {Published(p, shown[p], "maintenance") :
                 p \in {q \in run.selected : shown[q] # live[q]}}
    BY <1>8 DEF Publish
  <2>2. shown # None /\ DOMAIN shown = run.selected
        /\ run.selected \subseteq Projects
    BY <1>2, <2>1 DEF Changes, ReceiptOK, SelectionOK
  <2>3. \A p \in run.selected :
          /\ CardOK(p, shown[p])
          /\ shown[p].derived =>
               shown[p].declared = Source(run.originals[p])
          /\ cache[p] # None
          /\ cache[p].original = run.originals[p]
          /\ ~run.originals[p].derived /\ CardOK(p, run.originals[p])
    BY <1>1, <1>2, <2>1, <2>2 DEF CatalogInv, RunOK, ReceiptOK, SelectionOK
  <2>4. \A p \in run.selected : Remembered(p, shown[p])
    <3> SUFFICES ASSUME NEW p \in run.selected, shown[p].derived
                 PROVE  cache[p] # None
                        /\ cache[p].original = Own(shown[p].declared)
      BY DEF Remembered
    <3> DEFINE o == run.originals[p]
    <3>1. o \in Cards /\ o.declared = None /\ ~o.derived
      BY <2>3 DEF CardOK
    <3> HIDE DEF o
    <3>2. o = Own(o.text) /\ Source(o) = o.text
      BY <3>1 DEF Cards, Own, Card, Source
    <3> QED BY <2>3, <3>2 DEF o
  <2> HIDE DEF shown
  <2>5. /\ DOMAIN live' = Projects
        /\ \A p \in Projects :
             live'[p] = IF p \in run.selected THEN shown[p] ELSE live[p]
    BY <2>1, <2>2 DEF CatalogInv, KeptOK
  <2>6. \A p \in Projects : CardOK(p, live[p])' /\ Remembered(p, live[p])'
    BY <1>1, <1>3, <2>3, <2>4, <2>5 DEF CatalogInv, KeptOK, Remembered
  <2>7. (\A h \in history : h.project \in Projects /\ CardOK(h.project, h.card))'
    <3> SUFFICES ASSUME NEW h \in history'
                 PROVE  h.project \in Projects /\ CardOK(h.project, h.card)
      BY <1>3
    <3>1. CASE h \in history
      BY <3>1 DEF CatalogInv, KeptOK
    <3>2. CASE h \notin history
      <4>1. PICK p \in run.selected :
              h = Published(p, shown[p], "maintenance")
        BY <2>1, <3>2
      <4>2. h.project = p /\ h.card = shown[p]
        BY <4>1 DEF Published
      <4> QED BY <2>2, <2>3, <4>2
    <3> QED BY <3>1, <3>2
  <2>8. KeptOK'
    BY <1>1, <1>3, <2>5, <2>6, <2>7 DEF CatalogInv, KeptOK
  <2> QED BY <1>6, <2>8 DEF CatalogInv
<1> QED BY <1>7, <1>8

\* A run ends, with its work or without.
LEMMA EndInv ==
    ASSUME CatalogInv, Record \/ Fault
    PROVE  CatalogInv'
<1>1. /\ UNCHANGED <<live, history, cache, receipts, texts>>
      /\ run' = [pc |-> "idle"]
  BY DEF Record, Fault, Idle, people, files
<1>2. run'.pc = "idle"
  BY <1>1
<1>3. KeptOK'
  BY <1>1, KeptStays DEF CatalogInv
<1>4. RunOK'
  BY <1>2 DEF RunOK, Selecting, Answered
<1> QED BY <1>3, <1>4 DEF CatalogInv

\* A run is where it was, and its cards are as they were.
LEMMA RunStays ==
    ASSUME CatalogInv, UNCHANGED <<run, cache, texts>>
    PROVE  /\ RunOK'
           /\ \A p, e : CardOK(p, e) <=> CardOK(p, e)'
           /\ \A r : ReceiptOK(r) <=> ReceiptOK(r)'
           /\ \A p, c : ProjectionOK(p, c) <=> ProjectionOK(p, c)'
<1>1. \A p, e : CardOK(p, e) <=> CardOK(p, e)'
  BY DEF CardOK
<1>2. \A r : ReceiptOK(r) <=> ReceiptOK(r)'
  BY <1>1 DEF ReceiptOK
<1>3. \A p, c : ProjectionOK(p, c) <=> ProjectionOK(p, c)'
  BY <1>1 DEF ProjectionOK
<1>4. Changes(run.receipt.published)' <=> Changes(run.receipt.published)
  BY DEF Changes
<1>5. RunOK'
  BY <1>1, <1>2, <1>4 DEF CatalogInv, RunOK, Source
<1> QED BY <1>1, <1>2, <1>3, <1>5

\* Another card is published by people.
LEMMA PublishCardInv ==
    ASSUME CatalogInv, UNCHANGED <<run, cache, texts, receipts>>,
           NEW p \in Projects, NEW e, NEW by, PublishCard(p, e, by),
           CardOK(p, e), Remembered(p, e)
    PROVE  CatalogInv'
<1>1. /\ live' = [live EXCEPT ![p] = e]
      /\ history' = history \cup {Published(p, e, by)}
  BY DEF PublishCard
<1>2. /\ RunOK'
      /\ \A q, d : CardOK(q, d) <=> CardOK(q, d)'
      /\ \A r : ReceiptOK(r) <=> ReceiptOK(r)'
      /\ \A q, c : ProjectionOK(q, c) <=> ProjectionOK(q, c)'
  BY RunStays
<1>3. \A q \in Projects : live'[q] = IF q = p THEN e ELSE live[q]
  BY <1>1 DEF CatalogInv, KeptOK
<1>4. \A q \in Projects : CardOK(q, live[q])' /\ Remembered(q, live[q])'
  BY <1>2, <1>3 DEF CatalogInv, KeptOK, Remembered
<1>5. Published(p, e, by).project = p /\ Published(p, e, by).card = e
  BY DEF Published
<1>6. (\A h \in history : h.project \in Projects /\ CardOK(h.project, h.card))'
  BY <1>1, <1>2, <1>5 DEF CatalogInv, KeptOK
<1>7. DOMAIN live' = Projects
  BY <1>1 DEF CatalogInv, KeptOK
<1>8. KeptOK'
  BY <1>2, <1>4, <1>6, <1>7 DEF CatalogInv, KeptOK
<1> QED BY <1>2, <1>8 DEF CatalogInv

LEMMA EditInv ==
    ASSUME CatalogInv, NEW p \in Projects, NEW w \in Words, Edit(p, w)
    PROVE  CatalogInv'
<1>1. UNCHANGED <<run, cache, texts, receipts>>
  BY DEF Edit, Change
<1>2. PICK e \in {Own(w), [live[p] EXCEPT !.text = w]} : PublishCard(p, e, "owner")
  BY DEF Edit
<1>3. CardOK(p, live[p]) /\ Remembered(p, live[p]) /\ live[p] \in Cards
  BY DEF CatalogInv, KeptOK, CardOK
<1>4. CASE e = Own(w)
  <2>1. CardOK(p, e) /\ Remembered(p, e)
    BY <1>4, CatalogConstants
    DEF CardOK, Remembered, Own, Card, Cards, Descriptions
  <2> QED BY <1>1, <1>2, <2>1, PublishCardInv
<1>5. CASE e = [live[p] EXCEPT !.text = w]
  <2>1. e \in Cards /\ e.text = w /\ e.derived = live[p].derived
        /\ e.declared = live[p].declared
    BY <1>3, <1>5 DEF Cards, Descriptions
  <2>2. CardOK(p, e) /\ Remembered(p, e)
    BY <1>3, <2>1, CatalogConstants DEF CardOK, Remembered
  <2> QED BY <1>1, <1>2, <2>2, PublishCardInv
<1> QED BY <1>2, <1>4, <1>5

\* A restored description rests on the same words as the one it replaces.
LEMMA RestoreInv ==
    ASSUME CatalogInv, NEW p \in Projects, Restore(p)
    PROVE  CatalogInv'
<1>1. UNCHANGED <<run, cache, texts, receipts>>
  BY DEF Restore, Change
<1>2. PICK h \in history :
        /\ h.project = p /\ SameReviewSource(live[p], h.card)
        /\ h.card.text # live[p].text
        /\ PublishCard(p, [live[p] EXCEPT !.text = h.card.text], "restore")
  BY DEF Restore
<1> DEFINE l == live[p]
           c == h.card
           e == [l EXCEPT !.text = c.text]
<1>3. CardOK(p, l) /\ Remembered(p, l) /\ CardOK(p, c)
  BY <1>2 DEF CatalogInv, KeptOK
<1>4. l \in Cards /\ c \in Cards /\ Source(l) = Source(c) /\ c.text # l.text
  BY <1>2, <1>3 DEF CardOK, SameReviewSource
<1>5. e \in Cards /\ e.text = c.text /\ e.derived = l.derived
      /\ e.declared = l.declared
  BY <1>4 DEF Cards
<1>6. PublishCard(p, e, "restore")
  BY <1>2
<1> HIDE DEF e, c, l
<1>7. Remembered(p, e)
  BY <1>3, <1>5 DEF Remembered
<1>8. CardOK(p, e)
  BY <1>3, <1>4, <1>5, CatalogConstants DEF CardOK, Source, Cards
<1> QED BY <1>1, <1>6, <1>7, <1>8, PublishCardInv

LEMMA CatalogStepInv ==
    ASSUME CatalogInv, [Next]_vars
    PROVE  CatalogInv'
<1>1. CASE UNCHANGED vars
  BY <1>1, RunStays, KeptStays DEF vars, CatalogInv
<1>2. CASE Load
  BY <1>2, LoadInv
<1>3. CASE LoadPolicies
  BY <1>3, LoadPoliciesInv
<1>4. CASE Select
  BY <1>4, SelectInv
<1>5. CASE Reuse
  BY <1>5, ReuseInv
<1>6. CASE Dispatch
  BY <1>6, DispatchInv
<1>7. CASE Keep
  BY <1>7, KeepInv
<1>8. CASE Project
  BY <1>8, ProjectInv
<1>9. CASE Publish
  BY <1>9, PublishInv
<1>10. CASE Record \/ Fault
  BY <1>10, EndInv
<1>11. CASE Archive
  <2>1. UNCHANGED <<run, cache, texts, live, history>> /\ receipts' = {}
    BY <1>11 DEF Archive, Change, people
  <2> QED BY <2>1, RunStays DEF CatalogInv, KeptOK, Remembered
<1>12. ASSUME NEW p \in Projects, SetHold(p) PROVE CatalogInv'
  <2>1. UNCHANGED <<run, cache, texts, live, history, receipts>>
    BY <1>12 DEF SetHold, Change
  <2> QED BY <2>1, RunStays, KeptStays DEF CatalogInv
<1>13. ASSUME NEW p \in Projects, Restore(p) PROVE CatalogInv'
  BY <1>13, RestoreInv
<1>14. ASSUME NEW p \in Projects, NEW w \in Words, Edit(p, w) PROVE CatalogInv'
  BY <1>14, EditInv
<1> QED
  BY <1>1, <1>2, <1>3, <1>4, <1>5, <1>6, <1>7, <1>8, <1>9, <1>10, <1>11,
     <1>12, <1>13, <1>14
  DEF Next, Sweep, People

\* The sweep over the catalog runs, or stands still, whatever the other does.
LEMMA CatalogPartRuns == MCSpec => Init /\ [][Next]_vars
<1>1. MCInit => Init
  BY DEF MCInit
<1>2. [CatalogPart(Next) \/ FactsPart(FactSweep!Next)]_<<scope, vars, factVars>>
        => [Next]_vars
  BY DEF CatalogPart, FactsPart, vars
<1> QED BY <1>1, <1>2, PTL DEF MCSpec

LEMMA CatalogInvariance == MCSpec => []CatalogInv
BY CatalogPartRuns, CatalogInitInv, CatalogStepInv, PTL

\* A description of the provider stands beside the words it was made from,
\* and the worker recognises each one that it published or that was restored
\* as derived from the owner's card, for any projects, words, edits,
\* restorations, holds, faults and answers (catalog_projection.go).
THEOREM CatalogStaysKept == MCSpec => []CatalogIsKept
<1>1. CatalogInv => DescribesItsSource
  BY DEF CatalogInv, KeptOK, CardOK, DescribesItsSource
<1>2. CatalogInv => NeverLocksItselfOut
  <2> SUFFICES ASSUME CatalogInv, NEW p \in Projects, live[p].derived,
                      InHistory(p, live[p])
               PROVE  LET c == [q \in Projects |-> Imported(live, q)] IN
                      /\ ~Blocked(c, p, live[p])
                      /\ ~Original(c, p, live[p]).derived
    BY DEF NeverLocksItselfOut
  <2> DEFINE c == [q \in Projects |-> Imported(live, q)]
  <2>1. CardOK(p, live[p]) /\ Remembered(p, live[p]) /\ KeptOK
    BY DEF CatalogInv, KeptOK
  <2>2. /\ c[p] # None /\ ProjectionOK(p, c[p])
        /\ c[p].original = Own(live[p].declared)
    BY <2>1, ImportedOK DEF Remembered
  <2> HIDE DEF c
  <2>3. DerivedFrom(live[p], c[p].original)
    BY <2>2 DEF DerivedFrom, Own, Card
  <2>4. Recognised(c, p, live[p])
    BY <2>2, <2>3 DEF Recognised
  <2> QED BY <2>2, <2>4 DEF Blocked, Original, ProjectionOK, c
<1> QED BY <1>1, <1>2, CatalogInvariance, PTL DEF CatalogIsKept

-----------------------------------------------------------------------------
(* Answers are paid for once.  What a run that began now would find. *)

\* The owner's words behind the live card of p are known: the worker knows
\* the form, the catalog tells, or a receipt does.
Known(p) ==
    \/ ~live[p].derived
    \/ live[p] \in ToSet(cache[p].hashes)
    \/ InHistory(p, live[p])
    \/ \E r \in Importable(live, p) : r.context[p] = cache[p].original

Owner(p) == IF Known(p) THEN Own(Source(live[p]))
            ELSE [live[p] EXCEPT !.text = live[p].declared]

Eligible == {p \in Projects : ~policy[p].hold}
Owners == [p \in Eligible |-> Owner(p)]
Unknown == {p \in Eligible : ~Known(p)}
Stale == {p \in Eligible \ Unknown : fp[p] # Fingerprint(Owners, p)}
Visited == {p \in Eligible : MaxPerRun >
              Cardinality({q \in Stale : Before(Eligible, q, p)})}
Chosen == Stale \cap Visited
Passed == IF Unknown \cap Visited = {} THEN cursor
          ELSE LastOf(Eligible, Unknown \cap Visited)

Question ==
    [originals |-> [p \in Chosen |-> Owners[p]],
     policies |-> [p \in Chosen |-> policy[p]],
     context |-> Owners,
     guards |-> [p \in Chosen |-> policy[p].revision]]

\* The question is asked again the same.
Repeats == MaxPerRun = 1 \/ Unknown = {}

\* A receipt that a run would find.
Findable(r) ==
    /\ r.key = Question
    /\ r.base = gen \/ IsLive(r.published, live)

\* Nobody has changed anything since the run began.
Undisturbed == run.pc # "idle" /\ run.since = changes

\* A project whose answer is kept is processed, or is asked about next, and
\* the receipt is found.
AnswersAreFound ==
    Repeats /\ answered \cap Stale # {} =>
        /\ answered \cap Stale \subseteq Chosen
        /\ \E r \in receipts : Findable(r)

\* What an undisturbed run knows is what a run that began now would find.
RunIsCurrent ==
    Undisturbed =>
        /\ run.pc # "record" => run.base = gen /\ run.cards = live
        /\ run.pc # "policies" => run.policy = policy
        /\ run.pc \in Selecting =>
             /\ run.originals = Owners
             /\ run.selected \cap Unknown = {}
             /\ \A p \in Eligible : run.fp[p] = fp[p]
             /\ Repeats => run.selected = Chosen
        /\ run.pc = "find" => run.selected = Chosen /\ run.passed = Passed
        /\ run.pc = "answer" /\ Repeats => run.key = Question
        /\ run.pc \in Answered =>
             /\ run.receipt \in receipts
             /\ Repeats => run.receipt.key = Question

ShortHashes == \A p \in Projects : cache[p] # None => Len(cache[p].hashes) <= 2

PaidTypeOK ==
    /\ changes \in Nat
    /\ cursor \in Nat
    /\ run.pc # "idle" => run.since \in Nat /\ run.since <= changes
    /\ run.pc \in Selecting => run.passed \in Nat /\ run.last \in Nat
    /\ ShortHashes

PaidInv ==
    /\ PaidTypeOK
    /\ answered # {} /\ run.pc # "idle" => run.since = changes
    /\ AnswersAreFound
    /\ RunIsCurrent

-----------------------------------------------------------------------------
(* The order of the cards. *)

LEMMA ProjectsFinite ==
    /\ IsFiniteSet(Projects)
    /\ \A S : S \subseteq Projects =>
         /\ Cardinality(S) \in Nat
         /\ Cardinality(S) = 0 <=> S = {}
<1>1. IsFiniteSet(Projects)
  BY CatalogConstants, FS_Interval DEF Projects
<1> QED BY <1>1, FS_Subset, FS_CardinalityType, FS_EmptySet

\* The order after the card k.
BeforeFrom(k, E, p, q) ==
    IF k \in E /\ (p > k) # (q > k) THEN p > k ELSE p < q

Rank(k, E, p) == IF k \in E /\ p <= k THEN p + NumProjects ELSE p

LEMMA Ranked ==
    ASSUME NEW k \in Nat, NEW E, NEW p \in Projects, NEW q \in Projects
    PROVE  /\ BeforeFrom(k, E, p, q) <=> Rank(k, E, p) < Rank(k, E, q)
           /\ Rank(k, E, p) = Rank(k, E, q) => p = q
           /\ Rank(k, E, p) \in 1 .. 2 * NumProjects
<1>1. NumProjects \in Nat /\ p \in Nat \ {0} /\ q \in Nat \ {0}
      /\ p <= NumProjects /\ q <= NumProjects
  BY CatalogConstants DEF Projects
<1>2. CASE k \notin E
  BY <1>1, <1>2 DEF BeforeFrom, Rank
<1>3. CASE k \in E
  <2>1. BeforeFrom(k, E, p, q) <=>
          IF (p > k) # (q > k) THEN p > k ELSE p < q
    BY <1>3 DEF BeforeFrom
  <2>2. Rank(k, E, p) = (IF p <= k THEN p + NumProjects ELSE p)
        /\ Rank(k, E, q) = (IF q <= k THEN q + NumProjects ELSE q)
    BY <1>3 DEF Rank
  <2> QED BY <1>1, <2>1, <2>2
<1> QED BY <1>2, <1>3

\* There is a least number.
LEMMA Least ==
    ASSUME NEW T, T \subseteq Nat, T # {}
    PROVE  \E x \in T : \A y \in T : x <= y
<1> DEFINE R == {ss \in Nat \X Nat : ss[1] < ss[2]}
<1>1. IsWellFoundedOn(R, Nat)
  BY NatLessThanWellFounded DEF OpToRel
<1>2. \A x, y \in Nat : <<y, x>> \notin R => x <= y
  OBVIOUS
<1> HIDE DEF R
<1>3. \E x \in T : \A y \in T : ~(<<y, x>> \in R)
  BY <1>1, WFMin
<1> QED BY <1>2, <1>3

\* Of some cards one comes first, and one last.
LEMMA FirstAndLast ==
    ASSUME NEW k \in Nat, NEW E, NEW S, S \subseteq Projects, S # {}
    PROVE  /\ \E p \in S : \A q \in S : ~BeforeFrom(k, E, q, p)
           /\ \E p \in S : \A q \in S \ {p} : BeforeFrom(k, E, q, p)
<1>1. \E p \in S : \A q \in S : ~BeforeFrom(k, E, q, p)
  <2> DEFINE T == {Rank(k, E, p) : p \in S}
  <2>1. \A p \in S : Rank(k, E, p) \in Nat
    BY Ranked
  <2>2. T \subseteq Nat /\ T # {}
    BY <2>1
  <2>3. PICK x \in T : \A y \in T : x <= y
    BY <2>2, Least
  <2>4. PICK p \in S : x = Rank(k, E, p)
    BY <2>3
  <2>5. \A q \in S : Rank(k, E, p) <= Rank(k, E, q)
    BY <2>3, <2>4
  <2>6. \A q \in S : ~(Rank(k, E, q) < Rank(k, E, p))
    BY <2>1, <2>5
  <2> HIDE DEF T
  <2> QED BY <2>6, Ranked
<1>2. \E p \in S : \A q \in S \ {p} : BeforeFrom(k, E, q, p)
  <2> DEFINE T == {2 * NumProjects - Rank(k, E, p) : p \in S}
  <2>1. \A p \in S : Rank(k, E, p) \in 1 .. 2 * NumProjects
    BY Ranked
  <2>2. T \subseteq Nat /\ T # {}
    BY <2>1, CatalogConstants
  <2>3. PICK x \in T : \A y \in T : x <= y
    BY <2>2, Least
  <2>4. PICK p \in S : x = 2 * NumProjects - Rank(k, E, p)
    BY <2>3
  <2>5. \A q \in S : 2 * NumProjects - Rank(k, E, p)
                       <= 2 * NumProjects - Rank(k, E, q)
    BY <2>3, <2>4
  <2>6. \A q \in S : Rank(k, E, q) < Rank(k, E, p)
                       \/ Rank(k, E, q) = Rank(k, E, p)
    BY <2>1, <2>5, CatalogConstants
  <2> HIDE DEF T
  <2> QED BY <2>6, Ranked
<1> QED BY <1>1, <1>2

\* When the cursor moves to a card that comes before all of S, these follow
\* each other as before.
LEMMA Rotation ==
    ASSUME NEW k \in Nat, NEW E, NEW b \in Projects, b \in E,
           NEW p \in Projects, NEW q \in Projects,
           BeforeFrom(k, E, b, p), BeforeFrom(k, E, b, q)
    PROVE  BeforeFrom(k, E, p, q) <=> BeforeFrom(b, E, p, q)
<1>1. b \in Nat /\ p \in Nat /\ q \in Nat
  BY DEF Projects
<1>2. BeforeFrom(b, E, p, q) <=>
        IF (p > b) # (q > b) THEN p > b ELSE p < q
  BY DEF BeforeFrom
<1>3. CASE k \notin E
  BY <1>1, <1>2, <1>3 DEF BeforeFrom
<1>4. CASE k \in E
  <2>1. /\ IF (b > k) # (p > k) THEN b > k ELSE b < p
        /\ IF (b > k) # (q > k) THEN b > k ELSE b < q
        /\ BeforeFrom(k, E, p, q) <=>
             IF (p > k) # (q > k) THEN p > k ELSE p < q
    BY <1>4 DEF BeforeFrom
  <2> QED BY <1>1, <1>2, <2>1
<1> QED BY <1>3, <1>4

LEMMA BeforeIs ==
    \A E, p, q : Before(E, p, q) <=> BeforeFrom(cursor, E, p, q)
BY DEF Before, BeforeFrom

-----------------------------------------------------------------------------
(* The owner's card behind the live one. *)

\* The last form is among those remembered, if there were not too many.
LEMMA RememberHas ==
    ASSUME NEW S, NEW h \in Seq(S), NEW e \in S, Len(h) <= 2
    PROVE  e \in ToSet(Remember(h, e)) /\ Len(Remember(h, e)) <= 2
<1>1. CASE e \in ToSet(h)
  BY <1>1 DEF Remember
<1>2. CASE e \notin ToSet(h)
  <2> DEFINE t == Append(h, e)
  <2>1. /\ t \in Seq(S) /\ Len(t) = Len(h) + 1 /\ t[Len(h) + 1] = e
        /\ DOMAIN t = 1 .. Len(h) + 1
    OBVIOUS
  <2>2. Remember(h, e) = IF Len(t) > 2 THEN Tail(t) ELSE t
    BY <1>2 DEF Remember
  <2> HIDE DEF t
  <2>3. CASE Len(t) > 2
    <3>1. Tail(t) \in Seq(S) /\ Len(Tail(t)) = 2 /\ Tail(t)[2] = e
      BY <2>1, <2>3
    <3> QED BY <2>2, <2>3, <3>1 DEF ToSet
  <2>4. CASE ~(Len(t) > 2)
    BY <2>1, <2>2, <2>4 DEF ToSet
  <2> QED BY <2>3, <2>4
<1> QED BY <1>1, <1>2

\* The same as Known, of what the worker remembers once it has imported.
LEMMA ImportedKnown ==
    ASSUME KeptOK, ShortHashes, NEW p \in Projects, live[p].derived
    PROVE  /\ Imported(live, p) # None
           /\ Imported(live, p).original = Own(live[p].declared)
           /\ cache[p] # None /\ cache[p].original = Own(live[p].declared)
           /\ live[p] \in ToSet(Imported(live, p).hashes) <=>
                \/ live[p] \in ToSet(cache[p].hashes)
                \/ \E r \in Importable(live, p) :
                      r.context[p] = cache[p].original
<1> DEFINE found == {r.context[p] : r \in Importable(live, p)}
           h == Remember(cache[p].hashes, live[p])
<1>1. /\ CardOK(p, live[p]) /\ live[p] \in Cards
      /\ cache[p] # None /\ cache[p].original = Own(live[p].declared)
      /\ ProjectionOK(p, cache[p])
  BY DEF KeptOK, Remembered, CardOK
<1>2. /\ Imported(live, p) # None
      /\ Imported(live, p).original = cache[p].original
  BY <1>1, ImportedOK
<1>3. Imported(live, p) = IF cache[p].original \in found
                          THEN [cache[p] EXCEPT !.hashes = h] ELSE cache[p]
  BY <1>1 DEF Imported
<1>4. cache[p].hashes \in Seq(Cards) /\ cache[p] \in Projections
      /\ Len(cache[p].hashes) <= 2
  BY <1>1 DEF ProjectionOK, Projections, ShortHashes
<1>5. live[p] \in ToSet(h)
  BY <1>1, <1>4, RememberHas
<1>6. cache[p].original \in found <=>
        \E r \in Importable(live, p) : r.context[p] = cache[p].original
  OBVIOUS
<1> HIDE DEF h, found
<1>7. [cache[p] EXCEPT !.hashes = h].hashes = h
  BY <1>4 DEF Projections
<1> QED BY <1>1, <1>2, <1>3, <1>5, <1>6, <1>7

\* What a selection makes of the live cards.
LEMMA OriginalIsOwner ==
    ASSUME KeptOK, ShortHashes, NEW p \in Projects,
           NEW c, c[p] = Imported(live, p)
    PROVE  /\ Original(c, p, live[p]) = Owner(p)
           /\ Blocked(c, p, live[p]) <=> ~Known(p)
<1>1. CardOK(p, live[p]) /\ live[p] \in Cards
      /\ (Imported(live, p) # None => ProjectionOK(p, Imported(live, p)))
  BY ImportedOK DEF KeptOK, CardOK
<1>2. CASE live[p].derived
  <2>0. c[p] # None /\ c[p].original = Own(live[p].declared)
    BY <1>2, ImportedKnown
  <2>1. DerivedFrom(live[p], c[p].original) /\ c[p] # None
    BY <1>2, <2>0 DEF DerivedFrom, Own, Card
  <2>2. Recognised(c, p, live[p]) <=> Known(p)
    BY <1>2, <2>1, ImportedKnown DEF Recognised, Known
  <2>3. live[p].declared # None
    BY <1>1, <1>2 DEF CardOK
  <2>4. Source(live[p]) = live[p].declared
    BY <2>3 DEF Source
  <2> QED
    BY <1>2, <2>0, <2>2, <2>4 DEF Original, Owner, Blocked
<1>3. CASE ~live[p].derived
  <2>1. live[p].declared = None
    BY <1>1, <1>3 DEF CardOK
  <2>2. Own(Source(live[p])) = live[p]
    BY <1>1, <1>3, <2>1 DEF Own, Card, Source, Cards
  <2>3. Known(p) /\ ~Blocked(c, p, live[p])
    BY <1>3 DEF Known, Blocked
  <2>4. Recognised(c, p, live[p]) => c[p].original = live[p]
    BY <1>1, <1>3 DEF Recognised, ProjectionOK
  <2> QED BY <1>3, <2>2, <2>3, <2>4 DEF Original, Owner
<1> QED BY <1>2, <1>3

\* Where the owners' cards stay, so does everything a run would find.
LEMMA ViewStays ==
    ASSUME policy' = policy,
           \A p \in Projects : Known(p)' <=> Known(p),
           \A p \in Projects : Owner(p)' = Owner(p)
    PROVE  /\ Eligible' = Eligible /\ Owners' = Owners /\ Unknown' = Unknown
           /\ Repeats' <=> Repeats
           /\ \A p : Fingerprint(Owners, p)' = Fingerprint(Owners, p)
<1>1. Eligible' = Eligible
  BY DEF Eligible
<1>2. Owners' = Owners
  BY <1>1 DEF Owners, Eligible
<1>3. Unknown' = Unknown
  BY <1>1 DEF Unknown, Eligible
<1>4. Repeats' <=> Repeats
  BY <1>3 DEF Repeats
<1>5. \A p : Fingerprint(Owners, p)' = Fingerprint(Owners, p)
  BY <1>2 DEF Fingerprint
<1> QED BY <1>1, <1>2, <1>3, <1>4, <1>5

LEMMA StaleStays ==
    ASSUME Eligible' = Eligible, Unknown' = Unknown,
           \A p : Fingerprint(Owners, p)' = Fingerprint(Owners, p),
           \A p \in Eligible : fp'[p] = fp[p]
    PROVE  Stale' = Stale
BY DEF Stale

LEMMA ChoiceStays ==
    ASSUME policy' = policy, Eligible' = Eligible, Unknown' = Unknown,
           Owners' = Owners, Stale' = Stale, cursor' = cursor
    PROVE  Chosen' = Chosen /\ Passed' = Passed /\ Question' = Question
<1>1. Visited' = Visited
  BY DEF Visited, Before
<1>2. Chosen' = Chosen
  BY <1>1 DEF Chosen
<1>3. Passed' = Passed
  BY <1>1 DEF Passed, LastOf, Before
<1>4. Question' = Question
  BY <1>2 DEF Question
<1> QED BY <1>2, <1>3, <1>4

\* The conditions of Owners, where what people do and what is kept stays.
LEMMA SameOwners ==
    ASSUME UNCHANGED <<live, history, cache, receipts>>
    PROVE  \A p \in Projects : (Known(p)' <=> Known(p)) /\ Owner(p)' = Owner(p)
<1>1. \A p \in Projects : Known(p)' <=> Known(p)
  BY DEF Known, InHistory, Importable
<1> QED BY <1>1 DEF Owner

\* A step that leaves what a run would find.
SameView ==
    /\ UNCHANGED <<gen, policy>>
    /\ live' = live
    /\ \A p \in Projects : (Known(p)' <=> Known(p)) /\ Owner(p)' = Owner(p)
    /\ \A p \in Eligible : fp'[p] = fp[p]
    /\ cursor' = cursor

LEMMA ViewSame ==
    ASSUME SameView
    PROVE  /\ Eligible' = Eligible /\ Owners' = Owners /\ Unknown' = Unknown
           /\ Repeats' <=> Repeats
           /\ Stale' = Stale /\ Chosen' = Chosen /\ Passed' = Passed
           /\ Question' = Question
           /\ \A r : Findable(r)' <=> Findable(r)
<1>1. /\ Eligible' = Eligible /\ Owners' = Owners /\ Unknown' = Unknown
      /\ Repeats' <=> Repeats
      /\ \A p : Fingerprint(Owners, p)' = Fingerprint(Owners, p)
  BY ViewStays DEF SameView
<1>2. Stale' = Stale
  BY <1>1, StaleStays DEF SameView
<1>3. Chosen' = Chosen /\ Passed' = Passed /\ Question' = Question
  BY <1>1, <1>2, ChoiceStays DEF SameView
<1>4. \A r : Findable(r)' <=> Findable(r)
  BY <1>3 DEF Findable, IsLive, SameView
<1> QED BY <1>1, <1>2, <1>3, <1>4

\* A run that something changed under has nothing to lose.
LEMMA DisturbedInv ==
    ASSUME PaidInv, run.pc # "idle", ~Undisturbed,
           run'.pc = "idle" \/ run'.since = run.since,
           changes' = changes, answered' = answered
    PROVE  /\ answered' # {} /\ run'.pc # "idle" => run'.since = changes'
           /\ AnswersAreFound'
           /\ RunIsCurrent'
<1>1. answered = {} /\ run.since # changes
  BY DEF PaidInv, Undisturbed
<1>2. ~Undisturbed'
  BY <1>1 DEF Undisturbed
<1> QED BY <1>1, <1>2 DEF AnswersAreFound, RunIsCurrent

\* What is chosen is known to the worker.
LEMMA ChosenKnown ==
    /\ Chosen \subseteq Stale /\ Stale \subseteq Eligible
    /\ Stale \cap Unknown = {} /\ Eligible \subseteq Projects
BY DEF Chosen, Stale, Eligible

\* Whatever is stale, something is chosen.
LEMMA SomethingChosen ==
    ASSUME cursor \in Nat, Chosen = {}
    PROVE  Stale = {}
<1> SUFFICES ASSUME Stale # {} PROVE FALSE
  OBVIOUS
<1>1. PICK p \in Stale : \A q \in Stale : ~BeforeFrom(cursor, Eligible, q, p)
  BY FirstAndLast, ChosenKnown
<1>2. {q \in Stale : Before(Eligible, q, p)} = {}
  BY <1>1, BeforeIs
<1>3. Cardinality({q \in Stale : Before(Eligible, q, p)}) = 0
  BY <1>2, FS_EmptySet
<1>4. p \in Visited
  BY <1>1, <1>3, CatalogConstants, ChosenKnown DEF Visited
<1> QED BY <1>1, <1>4 DEF Chosen

LEMMA LastIn ==
    ASSUME cursor \in Nat, NEW E, NEW S, S \subseteq Projects, S # {}
    PROVE  LastOf(E, S) \in S /\ \A q \in S \ {LastOf(E, S)} : Before(E, q, LastOf(E, S))
<1>1. \E p \in S : \A q \in S \ {p} : Before(E, q, p)
  BY FirstAndLast, BeforeIs
<1> QED BY <1>1 DEF LastOf

\* A selection remembers what it imported, and changes no owner's card.
LEMMA SelectOwners ==
    ASSUME KeptOK, ShortHashes, UNCHANGED <<live, history, receipts>>,
           cache' = [p \in Projects |-> Imported(live, p)]
    PROVE  \A p \in Projects : (Known(p)' <=> Known(p)) /\ Owner(p)' = Owner(p)
<1> SUFFICES ASSUME NEW p \in Projects
             PROVE  (Known(p)' <=> Known(p)) /\ Owner(p)' = Owner(p)
  OBVIOUS
<1>1. cache'[p] = Imported(live, p)
  OBVIOUS
<1>2. Importable(live, p)' = Importable(live, p)
  BY DEF Importable
<1>3. InHistory(p, live[p])' <=> InHistory(p, live[p])
  BY DEF InHistory
<1>4. Known(p)' <=> Known(p)
  <2>1. CASE ~live[p].derived
    BY <2>1 DEF Known
  <2>2. CASE live[p].derived
    <3>1. cache'[p].original = cache[p].original
          /\ (live[p] \in ToSet(cache'[p].hashes) <=>
                \/ live[p] \in ToSet(cache[p].hashes)
                \/ \E r \in Importable(live, p) :
                      r.context[p] = cache[p].original)
      BY <1>1, <2>2, ImportedKnown
    <3> QED BY <1>2, <1>3, <2>2, <3>1 DEF Known
  <2> QED BY <2>1, <2>2
<1> QED BY <1>4 DEF Owner

-----------------------------------------------------------------------------
(* The steps of a run. *)

LEMMA PaidInit == Init => PaidInv
<1> SUFFICES ASSUME Init PROVE PaidInv
  OBVIOUS
<1>1. /\ changes \in Nat /\ cursor = 0 /\ answered = {} /\ run.pc = "idle"
      /\ \A p \in Projects : cache[p] = None
  BY CatalogConstants DEF Init
<1> QED
  BY <1>1 DEF PaidInv, PaidTypeOK, ShortHashes, AnswersAreFound,
              RunIsCurrent, Undisturbed, Selecting

LEMMA LoadPaid ==
    ASSUME CatalogInv, PaidInv, Load
    PROVE  PaidInv'
<1>1. /\ UNCHANGED <<people, files, answered, changes>>
      /\ run'.pc = "policies" /\ run'.cards = live /\ run'.base = gen
      /\ run'.since = changes
  BY DEF Load
<1>2. UNCHANGED <<live, gen, policy, history, fp, cursor, cache, receipts>>
  BY <1>1 DEF people, files
<1>3. SameView
  BY <1>2, SameOwners DEF SameView
<1>4. AnswersAreFound'
  BY <1>1, <1>2, <1>3, ViewSame DEF PaidInv, AnswersAreFound
<1>5. RunIsCurrent'
  BY <1>1, <1>2 DEF RunIsCurrent, Selecting, Answered
<1>6. PaidTypeOK'
  BY <1>1, <1>2 DEF PaidInv, PaidTypeOK, ShortHashes, Selecting
<1> QED BY <1>1, <1>4, <1>5, <1>6 DEF PaidInv

LEMMA LoadPoliciesPaid ==
    ASSUME CatalogInv, PaidInv, LoadPolicies
    PROVE  PaidInv'
<1>1. /\ UNCHANGED <<people, files, answered, changes>>
      /\ run.pc = "policies"
      /\ run' = [run EXCEPT !.pc = "select", !.policy = policy]
  BY DEF LoadPolicies
<1>2. UNCHANGED <<live, gen, policy, history, fp, cursor, cache, receipts>>
  BY <1>1 DEF people, files
<1>3. DOMAIN run = RunFields
  BY <1>1 DEF CatalogInv, RunOK
<1>4. /\ run'.pc = "select" /\ run'.policy = policy /\ run'.cards = run.cards
      /\ run'.base = run.base /\ run'.since = run.since
  BY <1>1, <1>3 DEF RunFields
<1>5. SameView
  BY <1>2, SameOwners DEF SameView
<1>6. AnswersAreFound'
  BY <1>1, <1>2, <1>5, ViewSame DEF PaidInv, AnswersAreFound
<1>7. RunIsCurrent'
  BY <1>1, <1>2, <1>4 DEF PaidInv, RunIsCurrent, Undisturbed, Selecting, Answered
<1>8. PaidTypeOK'
  BY <1>1, <1>2, <1>4 DEF PaidInv, PaidTypeOK, ShortHashes, Selecting
<1> QED BY <1>1, <1>4, <1>6, <1>7, <1>8 DEF PaidInv

LEMMA FaultPaid ==
    ASSUME CatalogInv, PaidInv, Fault
    PROVE  PaidInv'
<1>1. /\ UNCHANGED <<people, files, answered, changes>>
      /\ run'.pc = "idle"
  BY DEF Fault, Idle
<1>2. UNCHANGED <<live, gen, policy, history, fp, cursor, cache, receipts>>
  BY <1>1 DEF people, files
<1>3. SameView
  BY <1>2, SameOwners DEF SameView
<1>4. AnswersAreFound'
  BY <1>1, <1>2, <1>3, ViewSame DEF PaidInv, AnswersAreFound
<1>5. PaidTypeOK'
  BY <1>1, <1>2 DEF PaidInv, PaidTypeOK, ShortHashes, Selecting
<1> QED BY <1>1, <1>4, <1>5 DEF PaidInv, RunIsCurrent, Undisturbed

\* What was imported is remembered under two forms at most.
LEMMA ImportedShort ==
    ASSUME KeptOK, ShortHashes, NEW cards, NEW p \in Projects,
           CardOK(p, cards[p]), Imported(cards, p) # None
    PROVE  Len(Imported(cards, p).hashes) <= 2
<1> DEFINE found == {r.context[p] : r \in Importable(cards, p)}
           h == Remember(cache[p].hashes, cards[p])
<1>1. CASE cache[p] # None
  <2>1. /\ cache[p] \in Projections /\ cache[p].hashes \in Seq(Cards)
        /\ Len(cache[p].hashes) <= 2 /\ cards[p] \in Cards
    BY <1>1 DEF KeptOK, ProjectionOK, Projections, ShortHashes, CardOK
  <2>2. Len(h) <= 2
    BY <2>1, RememberHas
  <2>3. Imported(cards, p) = IF cache[p].original \in found
                             THEN [cache[p] EXCEPT !.hashes = h] ELSE cache[p]
    BY <1>1 DEF Imported
  <2> HIDE DEF h, found
  <2>4. [cache[p] EXCEPT !.hashes = h].hashes = h
    BY <2>1 DEF Projections
  <2> QED BY <2>1, <2>2, <2>3, <2>4
<1>2. CASE cache[p] = None
  <2>1. found # {} /\ Imported(cards, p) =
          [original |-> CHOOSE o \in found : TRUE, hashes |-> <<cards[p]>>]
    BY <1>2 DEF Imported
  <2>2. Imported(cards, p).hashes = <<cards[p]>>
    BY <2>1
  <2> QED BY <2>2
<1> QED BY <1>1, <1>2

\* What Select defines for itself, where nothing was changed meanwhile.
LEMMA SelectPaid ==
    ASSUME CatalogInv, PaidInv, Select
    PROVE  PaidInv'
<1> DEFINE eligible == {p \in Projects : ~run.policy[p].hold}
           c == [p \in Projects |-> Imported(run.cards, p)]
           originals == [p \in eligible |-> Original(c, p, run.cards[p])]
           blocked == {p \in eligible : Blocked(c, p, run.cards[p])}
           stale == {p \in eligible \ blocked : fp[p] # Fingerprint(originals, p)}
           visited == {p \in eligible : MaxPerRun >
                         Cardinality({q \in stale : Before(eligible, q, p)})}
           selected == stale \cap visited
           passed == IF blocked \cap visited = {} THEN cursor
                     ELSE LastOf(eligible, blocked \cap visited)
           kept == [p \in Projects |-> IF p \in eligible THEN fp[p] ELSE None]
           last == LastOf(eligible, selected)
           found == [run EXCEPT !.pc = "find", !.originals = originals,
                       !.selected = selected, !.fp = kept, !.passed = passed,
                       !.last = last]
<1>1. /\ run.pc = "select" /\ cache' = c
      /\ UNCHANGED <<live, gen, policy, history, receipts, answered, changes>>
      /\ \/ /\ selected = {}
            /\ run' = [pc |-> "idle"]
            /\ fp' = (IF eligible = {} THEN fp ELSE kept)
            /\ cursor' = passed
         \/ /\ selected # {}
            /\ run' = found
            /\ UNCHANGED <<fp, cursor>>
  BY DEF Select, Idle, people
<1>2. /\ DOMAIN run = RunFields
      /\ \A p \in Projects : CardOK(p, run.cards[p])
      /\ KeptOK /\ ShortHashes /\ cursor \in Nat /\ changes \in Nat
      /\ run.since \in Nat /\ run.since <= changes
  BY <1>1 DEF CatalogInv, RunOK, PaidInv, PaidTypeOK
<1>3. /\ found.pc = "find" /\ found.originals = originals
      /\ found.selected = selected /\ found.fp = kept
      /\ found.passed = passed /\ found.last = last
      /\ found.cards = run.cards /\ found.base = run.base
      /\ found.since = run.since /\ found.policy = run.policy
  <2> HIDE DEF originals, selected, kept, passed, last
  <2> QED BY <1>2 DEF RunFields
<1>4. passed \in Nat /\ (selected # {} => last \in Nat)
  <2>1. eligible \subseteq Projects /\ Projects \subseteq Nat
    BY DEF Projects
  <2>2. blocked \cap visited \subseteq Projects /\ selected \subseteq Projects
    BY <2>1
  <2> HIDE DEF blocked, visited, selected, eligible
  <2> QED BY <1>2, <2>1, <2>2, LastIn
<1>5. ShortHashes'
  <2>1. \A p \in Projects : c[p] # None => Len(c[p].hashes) <= 2
    BY <1>2, ImportedShort
  <2> HIDE DEF c
  <2> QED BY <1>1, <2>1 DEF ShortHashes
<1> HIDE DEF found
<1>6. PaidTypeOK'
  <2> HIDE DEF passed, last, kept, selected, eligible, c
  <2> QED BY <1>1, <1>2, <1>3, <1>4, <1>5 DEF PaidTypeOK, Selecting
<1>7. run'.pc = "idle" \/ run'.since = run.since
  <2> HIDE DEF passed, kept, selected, eligible
  <2> QED BY <1>1, <1>3
<1>8. CASE ~Undisturbed
  BY <1>1, <1>6, <1>7, <1>8, DisturbedInv DEF PaidInv
<1>9. CASE Undisturbed
  <2>1. run.cards = live /\ run.policy = policy /\ run.base = gen
    BY <1>1, <1>9 DEF PaidInv, RunIsCurrent
  <2>2. eligible = Eligible
    BY <2>1 DEF Eligible
  <2>3. \A p \in Projects : c[p] = Imported(live, p)
    BY <2>1
  <2>4. cache' = [p \in Projects |-> Imported(live, p)]
    BY <1>1, <2>1
  <2> HIDE DEF c
  <2>5. \A p \in Projects : /\ Original(c, p, live[p]) = Owner(p)
                            /\ Blocked(c, p, live[p]) <=> ~Known(p)
    BY <1>2, <2>3, OriginalIsOwner
  <2>6. originals = Owners /\ blocked = Unknown
    BY <2>1, <2>2, <2>5 DEF Owners, Unknown, Eligible
  <2>7. stale = Stale
    BY <2>2, <2>6 DEF Stale
  <2>8. visited = Visited
    BY <2>2, <2>7 DEF Visited
  <2>9. selected = Chosen /\ passed = Passed
    BY <2>2, <2>6, <2>7, <2>8 DEF Chosen, Passed
  <2>10. \A p \in Eligible : kept[p] = fp[p]
    BY <2>2 DEF Eligible
  <2>11. \A p \in Projects : (Known(p)' <=> Known(p)) /\ Owner(p)' = Owner(p)
    BY <1>1, <1>2, <2>4, SelectOwners
  <2> HIDE DEF originals, blocked, stale, visited, selected, passed, kept, last
  <2>12. CASE selected = {}
    <3>1. Stale = {}
      BY <1>2, <2>9, <2>12, SomethingChosen
    <3>2. /\ run'.pc = "idle"
          /\ \A p \in Eligible : fp'[p] = fp[p]
      BY <1>1, <2>2, <2>10, <2>12
    <3>3. Stale' = {}
      BY <1>1, <2>11, <3>1, <3>2, ViewStays, StaleStays
    <3> QED
      BY <1>6, <3>2, <3>3 DEF PaidInv, AnswersAreFound, RunIsCurrent, Undisturbed
  <2>13. CASE selected # {}
    <3>1. run' = found /\ UNCHANGED <<fp, cursor>>
      BY <1>1, <2>13
    <3>2. SameView
      BY <1>1, <2>11, <3>1 DEF SameView
    <3>3. AnswersAreFound'
      BY <1>1, <3>2, ViewSame DEF PaidInv, AnswersAreFound
    <3>4. RunIsCurrent'
      BY <1>1, <1>3, <2>1, <2>6, <2>9, <2>10, <3>1, <3>2, ViewSame, ChosenKnown
      DEF RunIsCurrent, Selecting, Answered
    <3>5. answered' # {} => run'.since = changes'
      BY <1>1, <1>3, <1>9, <3>1 DEF Undisturbed
    <3> QED BY <1>6, <3>3, <3>4, <3>5 DEF PaidInv
  <2> QED BY <2>12, <2>13
<1> QED BY <1>8, <1>9

\* Between the selection and the answer a run knows what a new one would find.
LEMMA FindCurrent ==
    ASSUME PaidInv, Undisturbed, run.pc \in Selecting \ {"record"}
    PROVE  /\ run.base = gen /\ run.cards = live /\ run.policy = policy
           /\ run.originals = Owners /\ run.selected \cap Unknown = {}
           /\ \A p \in Eligible : run.fp[p] = fp[p]
           /\ run.pc = "find" \/ Repeats => run.selected = Chosen
BY DEF PaidInv, RunIsCurrent, Selecting

LEMMA KeyIsQuestion ==
    ASSUME PaidInv, Undisturbed, run.pc = "find"
    PROVE  /\ ReceiptKey = Question
           /\ \A r : Usable(r) <=> Findable(r)
<1>1. /\ run.base = gen /\ run.cards = live /\ run.policy = policy
      /\ run.originals = Owners /\ run.selected = Chosen
  BY FindCurrent DEF Selecting
<1>2. ReceiptKey = Question
  BY <1>1 DEF ReceiptKey, Question
<1> QED BY <1>1, <1>2 DEF Usable, Findable

LEMMA ReusePaid ==
    ASSUME CatalogInv, PaidInv, Reuse
    PROVE  PaidInv'
<1>1. /\ run.pc = "find"
      /\ UNCHANGED <<people, files, answered, changes>>
  BY DEF Reuse
<1>2. PICK r \in receipts :
        /\ Usable(r)
        /\ run' = [run EXCEPT !.pc = "check", !.receipt = r,
                              !.complete = r.base # run.base]
  BY DEF Reuse
<1>3. UNCHANGED <<live, gen, policy, history, fp, cursor, cache, receipts>>
  BY <1>1 DEF people, files
<1>4. SelectionOK(run)
  BY <1>1, Selection DEF Selecting
<1>5. /\ run'.pc = "check" /\ run'.cards = run.cards /\ run'.receipt = r
      /\ run'.originals = run.originals /\ run'.selected = run.selected
      /\ run'.base = run.base /\ run'.since = run.since
      /\ run'.policy = run.policy /\ run'.fp = run.fp
      /\ run'.passed = run.passed /\ run'.last = run.last
  BY <1>2, <1>4 DEF SelectionOK, RunFields
<1>6. PaidTypeOK'
  BY <1>1, <1>3, <1>5 DEF PaidInv, PaidTypeOK, ShortHashes, Selecting
<1>7. CASE ~Undisturbed
  BY <1>1, <1>5, <1>6, <1>7, DisturbedInv DEF PaidInv
<1>8. CASE Undisturbed
  <2>1. SameView
    BY <1>3, SameOwners DEF SameView
  <2>2. AnswersAreFound'
    BY <1>1, <1>3, <2>1, ViewSame DEF PaidInv, AnswersAreFound
  <2>3. r.key = Question
    BY <1>1, <1>2, <1>8, KeyIsQuestion DEF Findable
  <2>4. RunIsCurrent'
    BY <1>1, <1>3, <1>5, <1>8, <2>1, <2>3, ViewSame, FindCurrent
    DEF RunIsCurrent, Selecting, Answered
  <2> QED BY <1>1, <1>5, <1>6, <1>8, <2>2, <2>4 DEF PaidInv, Undisturbed
<1> QED BY <1>7, <1>8

\* The state that is saved before the request: the next run would ask the
\* same again.
LEMMA DispatchRepeats ==
    ASSUME PaidInv, Undisturbed, Dispatch
    PROVE  /\ Eligible' = Eligible /\ Owners' = Owners /\ Unknown' = Unknown
           /\ Repeats' <=> Repeats
           /\ Stale' = Stale
           /\ Repeats => Chosen' = Chosen /\ Question' = Question
<1>1. /\ run.pc = "find"
      /\ UNCHANGED <<people, cache, receipts>>
      /\ fp' = run.fp /\ cursor' = run.passed
  BY DEF Dispatch
<1>2. UNCHANGED <<live, gen, policy, history>>
  BY <1>1 DEF people
<1>3. /\ Eligible' = Eligible /\ Owners' = Owners /\ Unknown' = Unknown
      /\ Repeats' <=> Repeats
      /\ \A p : Fingerprint(Owners, p)' = Fingerprint(Owners, p)
  BY <1>1, <1>2, SameOwners, ViewStays
<1>4. Stale' = Stale
  BY <1>1, <1>3, StaleStays, FindCurrent DEF Selecting
<1>5. cursor' = Passed /\ cursor \in Nat
  BY <1>1 DEF PaidInv, PaidTypeOK, RunIsCurrent
<1>6. ASSUME Repeats PROVE Chosen' = Chosen
  <2>1. CASE Unknown \cap Visited = {}
    <3>1. cursor' = cursor
      BY <1>5, <2>1 DEF Passed
    <3> QED BY <1>2, <1>3, <1>4, <3>1, ChoiceStays
  <2>2. CASE Unknown \cap Visited # {}
    <3>1. MaxPerRun = 1
      BY <1>6, <2>2 DEF Repeats
    <3> DEFINE b == cursor'
    <3>2. b \in Unknown \cap Visited
      BY <1>5, <2>2, LastIn DEF Passed, Unknown, Eligible
    <3>3. b \in Eligible /\ b \in Projects /\ b \notin Stale
      BY <3>2, ChosenKnown DEF Unknown
    <3>4. \A p \in Projects :
            {q \in Stale : Before(Eligible, q, p)} \subseteq Projects
      BY ChosenKnown
    <3>5. \A p \in Eligible :
            p \in Visited <=> \A q \in Stale : ~Before(Eligible, q, p)
      <4> SUFFICES ASSUME NEW p \in Eligible
                   PROVE  p \in Visited <=>
                            {q \in Stale : Before(Eligible, q, p)} = {}
        OBVIOUS
      <4> DEFINE S == {q \in Stale : Before(Eligible, q, p)}
      <4>1. Cardinality(S) \in Nat /\ (Cardinality(S) = 0 <=> S = {})
        BY ProjectsFinite, ChosenKnown
      <4>2. p \in Visited <=> MaxPerRun > Cardinality(S)
        BY DEF Visited
      <4> HIDE DEF S
      <4>3. p \in Visited <=> S = {}
        BY <3>1, <4>1, <4>2
      <4> QED BY <4>3 DEF S
    <3>6. \A p \in Eligible :
            p \in Visited' <=> \A q \in Stale : ~Before(Eligible, q, p)'
      <4> SUFFICES ASSUME NEW p \in Eligible
                   PROVE  p \in Visited' <=>
                            {q \in Stale : Before(Eligible, q, p)'} = {}
        OBVIOUS
      <4> DEFINE S == {q \in Stale : Before(Eligible, q, p)'}
      <4>1. Cardinality(S) \in Nat /\ (Cardinality(S) = 0 <=> S = {})
        BY ProjectsFinite, ChosenKnown
      <4>2. p \in Visited' <=> MaxPerRun > Cardinality(S)
        BY <1>3, <1>4 DEF Visited
      <4> HIDE DEF S
      <4>3. p \in Visited' <=> S = {}
        BY <3>1, <4>1, <4>2
      <4> QED BY <4>3 DEF S
    <3>7. \A q \in Stale : BeforeFrom(cursor, Eligible, b, q)
      <4> SUFFICES ASSUME NEW q \in Stale
                   PROVE  BeforeFrom(cursor, Eligible, b, q)
        OBVIOUS
      <4>1. ~BeforeFrom(cursor, Eligible, q, b)
        BY <3>2, <3>3, <3>5, BeforeIs
      <4>2. q \in Projects /\ q # b
        BY <3>3, ChosenKnown
      <4> HIDE DEF b
      <4> QED BY <1>5, <3>3, <4>1, <4>2, Ranked
    <3>8. \A p, q \in Stale :
            Before(Eligible, p, q)' <=> Before(Eligible, p, q)
      <4> SUFFICES ASSUME NEW p \in Stale, NEW q \in Stale
                   PROVE  Before(Eligible, p, q)' <=> Before(Eligible, p, q)
        OBVIOUS
      <4>1. Before(Eligible, p, q)' <=> BeforeFrom(b, Eligible, p, q)
        BY <1>3 DEF Before, BeforeFrom
      <4>2. p \in Projects /\ q \in Projects
        BY ChosenKnown
      <4> HIDE DEF b
      <4>3. BeforeFrom(cursor, Eligible, p, q) <=> BeforeFrom(b, Eligible, p, q)
        BY <1>5, <3>3, <3>7, <4>2, Rotation
      <4> QED BY <4>1, <4>3, BeforeIs
    <3>9. \A p \in Stale : p \in Visited' <=> p \in Visited
      BY <3>5, <3>6, <3>8, ChosenKnown
    <3> QED BY <1>4, <3>9 DEF Chosen
  <2> QED BY <2>1, <2>2
<1>7. ASSUME Repeats PROVE Question' = Question
  BY <1>2, <1>3, <1>6, <1>7 DEF Question
<1> QED BY <1>3, <1>4, <1>6, <1>7

LEMMA DispatchPaid ==
    ASSUME CatalogInv, PaidInv, Dispatch
    PROVE  PaidInv'
<1>1. /\ run.pc = "find"
      /\ UNCHANGED <<people, cache, receipts, answered, changes>>
      /\ fp' = run.fp /\ cursor' = run.passed
      /\ run' = [run EXCEPT !.pc = "answer", !.key = ReceiptKey]
  BY DEF Dispatch
<1>2. UNCHANGED <<live, gen, policy, history>>
  BY <1>1 DEF people
<1>3. SelectionOK(run)
  BY <1>1, Selection DEF Selecting
<1>4. /\ run'.pc = "answer" /\ run'.cards = run.cards /\ run'.key = ReceiptKey
      /\ run'.originals = run.originals /\ run'.selected = run.selected
      /\ run'.base = run.base /\ run'.since = run.since
      /\ run'.policy = run.policy /\ run'.fp = run.fp
      /\ run'.passed = run.passed /\ run'.last = run.last
  BY <1>1, <1>3 DEF SelectionOK, RunFields
<1>5. PaidTypeOK'
  BY <1>1, <1>4 DEF PaidInv, PaidTypeOK, ShortHashes, Selecting
<1>6. CASE ~Undisturbed
  BY <1>1, <1>4, <1>5, <1>6, DisturbedInv DEF PaidInv
<1>7. CASE Undisturbed
  <2>1. /\ Eligible' = Eligible /\ Owners' = Owners /\ Unknown' = Unknown
        /\ Repeats' <=> Repeats
        /\ Stale' = Stale
        /\ Repeats => Chosen' = Chosen /\ Question' = Question
    BY <1>7, DispatchRepeats
  <2>2. \A r : Repeats => (Findable(r)' <=> Findable(r))
    BY <1>2, <2>1 DEF Findable, IsLive
  <2>3. AnswersAreFound'
    BY <1>1, <2>1, <2>2 DEF PaidInv, AnswersAreFound
  <2>4. ReceiptKey = Question
    BY <1>1, <1>7, KeyIsQuestion
  <2>5. RunIsCurrent'
    BY <1>1, <1>2, <1>4, <1>7, <2>1, <2>4, FindCurrent
    DEF RunIsCurrent, Selecting, Answered
  <2> QED BY <1>1, <1>4, <1>5, <1>7, <2>3, <2>5 DEF PaidInv, Undisturbed
<1> QED BY <1>6, <1>7

\* A receipt is about projects whose owner's card is known, and makes no
\* other one known.
LEMMA KeepOwners ==
    ASSUME UNCHANGED <<live, history, cache>>,
           NEW r, receipts' = receipts \cup {r},
           r.published # None => DOMAIN r.published \cap
                                   {p \in Projects : ~Known(p)} = {}
    PROVE  \A p \in Projects : (Known(p)' <=> Known(p)) /\ Owner(p)' = Owner(p)
<1> SUFFICES ASSUME NEW p \in Projects
             PROVE  (Known(p)' <=> Known(p)) /\ Owner(p)' = Owner(p)
  OBVIOUS
<1>1. /\ InHistory(p, live[p])' <=> InHistory(p, live[p])
      /\ Importable(live, p) \subseteq Importable(live, p)'
      /\ \A s \in Importable(live, p)' :
           s \in Importable(live, p)
             \/ (s = r /\ r.published # None /\ p \in DOMAIN r.published)
  BY DEF InHistory, Importable
<1>2. Known(p) => Known(p)'
  BY <1>1 DEF Known
<1>3. ~Known(p) => Importable(live, p)' = Importable(live, p)
  BY <1>1
<1>4. ~Known(p) => ~Known(p)'
  BY <1>1, <1>3 DEF Known
<1> QED BY <1>2, <1>4 DEF Owner

LEMMA KeepPaid ==
    ASSUME CatalogInv, PaidInv, Keep
    PROVE  PaidInv'
<1>1. /\ run.pc = "answer"
      /\ UNCHANGED <<people, fp, cursor, cache, texts, changes>>
  BY DEF Keep
<1>2. UNCHANGED <<live, gen, policy, history, fp, cursor, cache, changes>>
  BY <1>1 DEF people
<1>3. SelectionOK(run)
  BY <1>1, Selection DEF Selecting
<1>4. CASE ~SourcesCurrent
  <2>1. run'.pc = "idle" /\ UNCHANGED <<receipts, answered>>
    BY <1>4 DEF Keep, Idle
  <2>2. PaidTypeOK'
    BY <1>2, <2>1 DEF PaidInv, PaidTypeOK, ShortHashes, Selecting
  <2>3. SameView
    BY <1>2, <2>1, SameOwners DEF SameView
  <2>4. AnswersAreFound'
    BY <2>1, <2>3, ViewSame DEF PaidInv, AnswersAreFound
  <2> QED BY <2>1, <2>2, <2>4 DEF PaidInv, RunIsCurrent, Undisturbed
<1>5. CASE SourcesCurrent
  <2>1. PICK shown \in Answers :
          LET r == [key |-> run.key, base |-> run.base,
                    context |-> run.originals, published |-> shown]
          IN  /\ receipts' = receipts \cup {r}
              /\ answered' = IF run.since = changes
                             THEN answered \cup run.selected ELSE answered
              /\ run' = [run EXCEPT !.pc = "check", !.receipt = r]
    BY <1>5 DEF Keep
  <2> DEFINE r == [key |-> run.key, base |-> run.base,
                   context |-> run.originals, published |-> shown]
  <2>2. /\ receipts' = receipts \cup {r}
        /\ answered' = IF run.since = changes
                       THEN answered \cup run.selected ELSE answered
        /\ run' = [run EXCEPT !.pc = "check", !.receipt = r]
    BY <2>1
  <2>3. r.key = run.key /\ r.base = run.base /\ r.published = shown
    OBVIOUS
  <2>4. r.published # None => DOMAIN r.published = run.selected
    BY DEF Answers
  <2> HIDE DEF r
  <2>5. /\ run'.pc = "check" /\ run'.cards = run.cards /\ run'.receipt = r
        /\ run'.originals = run.originals /\ run'.selected = run.selected
        /\ run'.base = run.base /\ run'.since = run.since
        /\ run'.policy = run.policy /\ run'.fp = run.fp
        /\ run'.passed = run.passed /\ run'.last = run.last
    BY <1>3, <2>2 DEF SelectionOK, RunFields
  <2>6. PaidTypeOK'
    BY <1>1, <1>2, <2>5 DEF PaidInv, PaidTypeOK, ShortHashes, Selecting
  <2>7. CASE ~Undisturbed
    <3>1. answered' = answered
      BY <1>1, <2>2, <2>7 DEF Undisturbed
    <3> QED BY <1>1, <1>2, <2>5, <2>6, <2>7, <3>1, DisturbedInv DEF PaidInv
  <2>8. CASE Undisturbed
    <3>1. /\ run.base = gen /\ run.originals = Owners
          /\ run.selected \cap Unknown = {}
          /\ Repeats => run.selected = Chosen /\ run.key = Question
      BY <1>1, <2>8, FindCurrent DEF PaidInv, RunIsCurrent, Selecting
    <3>2. run.selected \subseteq Eligible
      BY <1>3, <3>1 DEF SelectionOK, Owners
    <3>3. \A p \in Projects : (Known(p)' <=> Known(p)) /\ Owner(p)' = Owner(p)
      <4>1. r.published # None =>
              DOMAIN r.published \cap {p \in Projects : ~Known(p)} = {}
        BY <2>4, <3>1, <3>2 DEF Unknown
      <4> QED BY <1>2, <2>2, <4>1, KeepOwners
    <3>4. SameView
      BY <1>2, <3>3 DEF SameView
    <3>5. answered' = answered \cup run.selected
      BY <2>2, <2>8 DEF Undisturbed
    <3>6. Repeats => \E s \in receipts' : Findable(s)
      BY <2>2, <2>3, <3>1 DEF Findable
    <3>7. Repeats => answered \cap Stale \subseteq Chosen
      BY DEF PaidInv, AnswersAreFound
    <3>8. Repeats' => /\ answered' \cap Stale' \subseteq Chosen'
                      /\ \E s \in receipts' : Findable(s)'
      BY <3>1, <3>4, <3>5, <3>6, <3>7, ViewSame
    <3>9. AnswersAreFound'
      BY <3>8 DEF AnswersAreFound
    <3>10. RunIsCurrent'
      BY <1>1, <1>2, <2>2, <2>3, <2>5, <2>8, <3>1, <3>4, ViewSame, FindCurrent
      DEF RunIsCurrent, Selecting, Answered
    <3> QED BY <1>2, <2>5, <2>6, <2>8, <3>9, <3>10 DEF PaidInv, Undisturbed
  <2> QED BY <2>7, <2>8
<1> QED BY <1>4, <1>5

\* What is remembered before the publication has the live form.
LEMMA ProjectedKnown ==
    ASSUME CatalogInv, run.pc = "check", run.receipt.published # None,
           NEW p \in DOMAIN run.receipt.published,
           NEW d, d = Projected(p, run.receipt.published[p]), d # None
    PROVE  run.cards[p] \in ToSet(d.hashes) /\ Len(d.hashes) <= 2
<1> DEFINE e == run.cards[p]
           n == run.receipt.published[p]
<1>1. SelectionOK(run) /\ ReceiptOK(run.receipt)
      /\ DOMAIN run.receipt.key.originals = run.selected
  BY HasReceipt DEF Answered
<1>2. p \in run.selected /\ p \in Projects
  BY <1>1 DEF ReceiptOK, SelectionOK
<1>3. d.hashes = Remember(<<e>>, n)
  BY DEF Projected
<1>4. e \in Cards /\ n \in Cards
  BY <1>1, <1>2 DEF SelectionOK, ReceiptOK, CardOK
<1> HIDE DEF e, n
<1>5. <<e>> \in Seq(Cards) /\ Len(<<e>>) = 1 /\ <<e>>[1] = e
  BY <1>4
<1>6. CASE n \in ToSet(<<e>>)
  BY <1>3, <1>5, <1>6 DEF Remember, ToSet, e
<1>7. CASE n \notin ToSet(<<e>>)
  <2> DEFINE t == Append(<<e>>, n)
  <2>1. Len(t) = 2 /\ t[1] = e /\ DOMAIN t = 1 .. 2
    BY <1>4, <1>5
  <2>2. Remember(<<e>>, n) = IF Len(t) > 2 THEN Tail(t) ELSE t
    BY <1>7 DEF Remember
  <2> HIDE DEF t
  <2>3. d.hashes = t
    BY <1>3, <2>1, <2>2
  <2>4. e \in ToSet(t)
    BY <2>1 DEF ToSet
  <2>5. e \in ToSet(d.hashes) /\ Len(d.hashes) = 2
    BY <2>1, <2>3, <2>4
  <2> QED BY <2>5 DEF e
<1> QED BY <1>6, <1>7

LEMMA ProjectPaid ==
    ASSUME CatalogInv, PaidInv, Project
    PROVE  PaidInv'
<1> DEFINE shown == run.receipt.published
           projected == [p \in DOMAIN shown |-> Projected(p, shown[p])]
<1>1. /\ run.pc = "check"
      /\ UNCHANGED <<live, gen, policy, history, fp, cursor, receipts, answered,
                     changes>>
  BY DEF Project, people
<1>2. /\ SelectionOK(run) /\ ReceiptOK(run.receipt)
      /\ DOMAIN run.receipt.key.originals = run.selected
  BY <1>1, HasReceipt DEF Answered
<1>3. /\ run'.pc = "idle" \/ run' = [run EXCEPT !.pc = "publish"]
      /\ \/ cache' = cache
         \/ /\ shown # None
            /\ \A p \in DOMAIN shown : projected[p] # None
            /\ cache' = [p \in Projects |-> IF p \in DOMAIN shown
                                        THEN projected[p] ELSE cache[p]]
  <2>1. CASE ~SourcesCurrent \/ (Changes(shown)
                         /\ \E p \in DOMAIN shown : projected[p] = None)
    BY <2>1 DEF Project, Idle
  <2>2. CASE ~(~SourcesCurrent \/ (Changes(shown)
                         /\ \E p \in DOMAIN shown : projected[p] = None))
    <3>1. /\ cache' = IF Changes(shown)
                      THEN [p \in Projects |-> IF p \in DOMAIN shown
                                               THEN projected[p] ELSE cache[p]]
                      ELSE cache
          /\ run' = [run EXCEPT !.pc = "publish"]
      BY <2>2 DEF Project
    <3> QED BY <2>2, <3>1 DEF Changes
  <2> QED BY <2>1, <2>2
<1>4. run' = [run EXCEPT !.pc = "publish"] =>
        /\ run'.pc = "publish" /\ run'.cards = run.cards
        /\ run'.receipt = run.receipt
        /\ run'.originals = run.originals /\ run'.selected = run.selected
        /\ run'.base = run.base /\ run'.since = run.since
        /\ run'.policy = run.policy /\ run'.fp = run.fp
        /\ run'.passed = run.passed /\ run'.last = run.last
  BY <1>2 DEF SelectionOK, RunFields
<1>5. shown # None => DOMAIN shown = run.selected
  BY <1>2 DEF ReceiptOK
<1>6. \A p \in Projects :
        cache'[p] = cache[p]
          \/ /\ p \in run.selected
             /\ run.cards[p] \in ToSet(cache'[p].hashes)
             /\ Len(cache'[p].hashes) <= 2
  <2>1. CASE cache' = cache
    BY <2>1
  <2>2. CASE cache' # cache
    <3>1. \A p \in DOMAIN shown :
            /\ run.cards[p] \in ToSet(projected[p].hashes)
            /\ Len(projected[p].hashes) <= 2
      BY <1>1, <1>3, <2>2, ProjectedKnown
    <3> HIDE DEF projected, shown
    <3> QED BY <1>3, <1>5, <2>2, <3>1
  <2> QED BY <2>1, <2>2
<1> HIDE DEF projected, shown
<1>7. ShortHashes'
  BY <1>6 DEF PaidInv, PaidTypeOK, ShortHashes
<1>8. PaidTypeOK'
  BY <1>1, <1>3, <1>4, <1>7 DEF PaidInv, PaidTypeOK, Selecting
<1>9. CASE ~Undisturbed
  BY <1>1, <1>3, <1>4, <1>8, <1>9, DisturbedInv DEF PaidInv
<1>10. CASE Undisturbed
  <2>1. /\ run.cards = live /\ run.originals = Owners
        /\ run.selected \cap Unknown = {}
    BY <1>1, <1>10, FindCurrent DEF Selecting
  <2>2. \A p \in run.selected : Known(p)
    BY <1>2, <2>1 DEF SelectionOK, Unknown, Owners, Eligible
  <2>3. \A p \in Projects : (Known(p)' <=> Known(p)) /\ Owner(p)' = Owner(p)
    <3> SUFFICES ASSUME NEW p \in Projects
                 PROVE  (Known(p)' <=> Known(p)) /\ Owner(p)' = Owner(p)
      OBVIOUS
    <3>1. /\ Importable(live, p)' = Importable(live, p)
          /\ InHistory(p, live[p])' <=> InHistory(p, live[p])
      BY <1>1 DEF Importable, InHistory
    <3>2. CASE cache'[p] = cache[p]
      BY <1>1, <3>1, <3>2 DEF Known, Owner
    <3>3. CASE cache'[p] # cache[p]
      <4>1. Known(p) /\ Known(p)'
        BY <1>1, <1>6, <2>1, <2>2, <3>3 DEF Known
      <4> QED BY <1>1, <4>1 DEF Owner
    <3> QED BY <3>2, <3>3
  <2>4. SameView
    BY <1>1, <2>3 DEF SameView
  <2>5. AnswersAreFound'
    BY <1>1, <2>4, ViewSame DEF PaidInv, AnswersAreFound
  <2>6. CASE run'.pc = "idle"
    BY <1>8, <2>5, <2>6 DEF PaidInv, RunIsCurrent, Undisturbed
  <2>7. CASE run' = [run EXCEPT !.pc = "publish"]
    <3>1. RunIsCurrent'
      BY <1>1, <1>4, <1>10, <2>4, <2>7, ViewSame
      DEF PaidInv, RunIsCurrent, Undisturbed, Selecting, Answered
    <3> QED BY <1>1, <1>4, <1>8, <1>10, <2>5, <2>7, <3>1 DEF PaidInv, Undisturbed
  <2> QED BY <1>3, <2>6, <2>7
<1> QED BY <1>9, <1>10

\* A publication names the same owners' cards under other descriptions.
LEMMA PublishOwners ==
    ASSUME CatalogInv, run.pc = "publish", UNCHANGED <<cache, receipts>>,
           run.originals = Owners, run.selected \cap Unknown = {},
           NEW shown, shown = run.receipt.published, shown # None,
           live' = [p \in Projects |-> IF p \in run.selected
                                       THEN shown[p] ELSE live[p]],
           history' = history \cup
             {Published(p, shown[p], "maintenance") :
                 p \in {q \in run.selected : shown[q] # live[q]}}
    PROVE  \A p \in Projects : (Known(p)' <=> Known(p)) /\ Owner(p)' = Owner(p)
<1>1. /\ SelectionOK(run) /\ ReceiptOK(run.receipt)
      /\ run.receipt.context = run.originals
      /\ DOMAIN run.receipt.key.originals = run.selected
  BY HasReceipt DEF Answered
<1> SUFFICES ASSUME NEW p \in Projects
             PROVE  (Known(p)' <=> Known(p)) /\ Owner(p)' = Owner(p)
  OBVIOUS
<1>2. CASE p \notin run.selected
  <2>1. live'[p] = live[p]
    BY <1>2
  <2>2. \A by : Published(p, live[p], by) \in history' <=>
                  Published(p, live[p], by) \in history
    BY <1>2 DEF Published
  <2>3. InHistory(p, live[p])' <=> InHistory(p, live[p])
    BY <2>1, <2>2 DEF InHistory
  <2>4. Importable(live, p)' = Importable(live, p)
    BY <2>1 DEF Importable
  <2>5. Known(p)' <=> Known(p)
    BY <2>1, <2>3, <2>4 DEF Known
  <2> QED BY <2>1, <2>5 DEF Owner
<1>3. CASE p \in run.selected
  <2>1. live'[p] = shown[p]
    BY <1>3
  <2>2. /\ CardOK(p, shown[p])
        /\ shown[p].derived => shown[p].declared = Source(run.originals[p])
        /\ ~shown[p].derived => shown[p] = run.originals[p]
    BY <1>1, <1>3 DEF ReceiptOK
  <2>3. p \in Eligible /\ Known(p)
    BY <1>1, <1>3 DEF SelectionOK, Owners, Unknown, Eligible
  <2>4. run.originals[p] = Own(Source(live[p]))
    BY <2>3 DEF Owners, Owner
  <2>5. Source(Own(Source(live[p]))) = Source(live[p])
    BY DEF Own, Card, Source
  <2>6. Source(shown[p]) = Source(live[p])
    <3>1. CASE shown[p].derived
      <4>1. shown[p].declared # None
        BY <2>2, <3>1 DEF CardOK
      <4>2. Source(shown[p]) = shown[p].declared
        BY <4>1 DEF Source
      <4> QED BY <2>2, <2>4, <2>5, <3>1, <4>2
    <3>2. CASE ~shown[p].derived
      BY <2>2, <2>4, <2>5, <3>2
    <3> QED BY <3>1, <3>2
  <2>7. Known(p)'
    <3>1. CASE shown[p] = live[p]
      <4>1. live'[p] = live[p]
        BY <2>1, <3>1
      <4>2. InHistory(p, live[p]) => InHistory(p, live[p])'
        BY <4>1 DEF InHistory
      <4>3. Importable(live, p)' = Importable(live, p)
        BY <4>1 DEF Importable
      <4> QED BY <2>3, <4>1, <4>2, <4>3 DEF Known
    <3>2. CASE shown[p] # live[p]
      <4>1. Published(p, shown[p], "maintenance") \in history'
        BY <1>3, <3>2
      <4>2. InHistory(p, live[p])'
        BY <2>1, <4>1 DEF InHistory
      <4> QED BY <4>2 DEF Known
    <3> QED BY <3>1, <3>2
  <2>8. Source(live[p])' = Source(live[p])
    BY <2>1, <2>6 DEF Source
  <2> QED BY <2>3, <2>7, <2>8 DEF Owner
<1> QED BY <1>2, <1>3

LEMMA PublishPaid ==
    ASSUME CatalogInv, PaidInv, Publish
    PROVE  PaidInv'
<1> DEFINE shown == run.receipt.published
<1>1. /\ run.pc = "publish"
      /\ run' = [run EXCEPT !.pc = "record"]
      /\ UNCHANGED <<policy, fp, cursor, cache, receipts, answered, changes>>
  BY DEF Publish, files
<1>2. /\ SelectionOK(run) /\ ReceiptOK(run.receipt)
      /\ DOMAIN run.receipt.key.originals = run.selected
  BY <1>1, HasReceipt DEF Answered
<1>3. /\ run'.pc = "record" /\ run'.cards = run.cards
      /\ run'.receipt = run.receipt
      /\ run'.originals = run.originals /\ run'.selected = run.selected
      /\ run'.base = run.base /\ run'.since = run.since
      /\ run'.policy = run.policy /\ run'.fp = run.fp
      /\ run'.passed = run.passed /\ run'.last = run.last
  BY <1>1, <1>2 DEF SelectionOK, RunFields
<1>4. \/ UNCHANGED <<live, gen, history>>
      \/ /\ Changes(shown)
         /\ live' = [p \in Projects |-> IF p \in run.selected
                                    THEN shown[p] ELSE live[p]]
         /\ history' = history \cup
              {Published(p, shown[p], "maintenance") :
                  p \in {q \in run.selected : shown[q] # live[q]}}
  BY DEF Publish
<1> HIDE DEF shown
<1>5. PaidTypeOK'
  BY <1>1, <1>3 DEF PaidInv, PaidTypeOK, ShortHashes, Selecting
<1>6. CASE ~Undisturbed
  BY <1>1, <1>3, <1>5, <1>6, DisturbedInv DEF PaidInv
<1>7. CASE Undisturbed
  <2>1. /\ run.originals = Owners /\ run.selected \cap Unknown = {}
        /\ run.policy = policy
        /\ \A p \in Eligible : run.fp[p] = fp[p]
        /\ Repeats => run.selected = Chosen
        /\ run.receipt \in receipts
        /\ Repeats => run.receipt.key = Question
    BY <1>1, <1>7, FindCurrent DEF PaidInv, RunIsCurrent, Selecting, Answered
  <2>2. \A p \in Projects : (Known(p)' <=> Known(p)) /\ Owner(p)' = Owner(p)
    <3>1. CASE UNCHANGED <<live, gen, history>>
      BY <1>1, <3>1, SameOwners
    <3>2. CASE ~UNCHANGED <<live, gen, history>>
      BY <1>1, <1>4, <2>1, <3>2, PublishOwners DEF Changes, shown
    <3> QED BY <3>1, <3>2
  <2>3. /\ Eligible' = Eligible /\ Owners' = Owners /\ Unknown' = Unknown
        /\ Repeats' <=> Repeats
        /\ \A p : Fingerprint(Owners, p)' = Fingerprint(Owners, p)
    BY <1>1, <2>2, ViewStays
  <2>4. Stale' = Stale
    BY <1>1, <2>3, StaleStays
  <2>5. Chosen' = Chosen /\ Question' = Question
    BY <1>1, <2>3, <2>4, ChoiceStays
  <2>6. \/ UNCHANGED <<live, gen>>
        \/ Repeats => Findable(run.receipt)'
    <3> SUFFICES ASSUME Repeats, ~UNCHANGED <<live, gen, history>>
                 PROVE  Findable(run.receipt)'
      OBVIOUS
    <3>1. shown # None /\ DOMAIN shown = run.selected
      BY <1>2, <1>4 DEF Changes, ReceiptOK, shown
    <3>2. run.selected \subseteq Projects
      BY <1>2 DEF SelectionOK
    <3>3. \A p \in DOMAIN shown : live'[p] = shown[p]
      BY <1>4, <3>1, <3>2
    <3>4. IsLive(run.receipt.published, live)'
      BY <1>3, <3>1, <3>3 DEF IsLive, shown
    <3> QED BY <1>3, <2>1, <2>5, <3>4 DEF Findable
  <2>7. AnswersAreFound'
    <3>1. CASE UNCHANGED <<live, gen>>
      <4>1. \A r : Findable(r)' <=> Findable(r)
        BY <2>5, <3>1 DEF Findable, IsLive
      <4> QED BY <1>1, <2>3, <2>4, <2>5, <4>1 DEF PaidInv, AnswersAreFound
    <3>2. CASE Repeats => Findable(run.receipt)'
      <4>1. Repeats => \E r \in receipts' : Findable(r)'
        BY <1>1, <1>3, <2>1, <3>2
      <4> QED BY <1>1, <2>3, <2>4, <2>5, <4>1 DEF PaidInv, AnswersAreFound
    <3> QED BY <2>6, <3>1, <3>2
  <2>8. RunIsCurrent'
    BY <1>1, <1>3, <2>1, <2>3, <2>5 DEF RunIsCurrent, Selecting, Answered
  <2> QED BY <1>1, <1>3, <1>5, <1>7, <2>7, <2>8 DEF PaidInv, Undisturbed
<1> QED BY <1>6, <1>7

LEMMA RecordPaid ==
    ASSUME CatalogInv, PaidInv, Record
    PROVE  PaidInv'
<1>1. /\ run.pc = "record" /\ run'.pc = "idle"
      /\ UNCHANGED <<people, cache, receipts, answered, changes>>
      /\ fp' = [p \in Projects |->
                  IF p \in run.selected THEN Fingerprint(run.originals, p)
                  ELSE run.fp[p]]
      /\ cursor' = run.last
  BY DEF Record, Idle
<1>2. UNCHANGED <<live, gen, policy, history>>
  BY <1>1 DEF people
<1>3. PaidTypeOK'
  BY <1>1 DEF PaidInv, PaidTypeOK, ShortHashes, Selecting
<1>4. CASE ~Undisturbed
  BY <1>1, <1>3, <1>4, DisturbedInv DEF PaidInv
<1>5. CASE Undisturbed
  <2>1. /\ run.originals = Owners
        /\ \A p \in Eligible : run.fp[p] = fp[p]
        /\ Repeats => run.selected = Chosen
    BY <1>1, <1>5 DEF PaidInv, RunIsCurrent, Selecting
  <2>2. /\ Eligible' = Eligible /\ Owners' = Owners /\ Unknown' = Unknown
        /\ Repeats' <=> Repeats
        /\ \A p : Fingerprint(Owners, p)' = Fingerprint(Owners, p)
    BY <1>1, <1>2, SameOwners, ViewStays
  <2>3. \A p \in Eligible :
          fp'[p] = IF p \in run.selected THEN Fingerprint(Owners, p) ELSE fp[p]
    BY <1>1, <2>1, ChosenKnown
  <2>4. Stale' \subseteq Stale \ run.selected
    BY <2>2, <2>3 DEF Stale
  <2>5. AnswersAreFound'
    BY <1>1, <2>1, <2>2, <2>4 DEF PaidInv, AnswersAreFound
  <2> QED BY <1>1, <1>3, <2>5 DEF PaidInv, RunIsCurrent, Undisturbed
<1> QED BY <1>4, <1>5

\* What people do ends what was kept, and every run notices.
LEMMA PeoplePaid ==
    ASSUME CatalogInv, PaidInv, Change
    PROVE  PaidInv'
<1>1. /\ changes' = changes + 1 /\ answered' = {}
      /\ UNCHANGED <<cursor, cache, run>>
  BY DEF Change
<1>2. PaidTypeOK'
  BY <1>1 DEF PaidInv, PaidTypeOK, ShortHashes
<1>3. ~Undisturbed'
  BY <1>1 DEF PaidInv, PaidTypeOK, Undisturbed
<1> QED BY <1>1, <1>2, <1>3 DEF PaidInv, AnswersAreFound, RunIsCurrent

LEMMA PaidStep ==
    ASSUME CatalogInv, PaidInv, [Next]_vars
    PROVE  PaidInv'
<1>1. CASE UNCHANGED vars
  <2>1. UNCHANGED <<live, gen, policy, history, fp, cursor, cache, receipts,
                    run, answered, changes>>
    BY <1>1 DEF vars
  <2>2. SameView
    BY <2>1, SameOwners DEF SameView
  <2>3. AnswersAreFound'
    BY <2>1, <2>2, ViewSame DEF PaidInv, AnswersAreFound
  <2>4. RunIsCurrent'
    BY <2>1, <2>2, ViewSame DEF PaidInv, RunIsCurrent, Undisturbed
  <2>5. PaidTypeOK'
    BY <2>1 DEF PaidInv, PaidTypeOK, ShortHashes
  <2> QED BY <2>1, <2>3, <2>4, <2>5 DEF PaidInv
<1>2. CASE Sweep
  BY <1>2, LoadPaid, LoadPoliciesPaid, SelectPaid, ReusePaid, DispatchPaid,
     KeepPaid, ProjectPaid, PublishPaid, RecordPaid
  DEF Sweep
<1>3. CASE Fault
  BY <1>3, FaultPaid
<1>4. CASE People
  <2>1. Change
    BY <1>4 DEF People, Archive, SetHold, Restore, Edit
  <2> QED BY <2>1, PeoplePaid
<1> QED BY <1>1, <1>2, <1>3, <1>4 DEF Next

\* A run that asks asks about nothing whose answer is kept and stands.
LEMMA DispatchOnce ==
    ASSUME PaidInv, Dispatch, SameQuestion
    PROVE  run.selected \cap answered = {}
<1>1. run.pc = "find" /\ ~\E r \in receipts : Usable(r)
  BY DEF Dispatch
<1> SUFFICES ASSUME run.selected \cap answered # {} PROVE FALSE
  OBVIOUS
<1>2. Undisturbed
  BY <1>1 DEF PaidInv, Undisturbed
<1>3. run.selected = Chosen /\ run.originals = Owners
  BY <1>1, <1>2, FindCurrent DEF Selecting
<1>4. Repeats
  <2>1. \A p \in Unknown : Owners[p].derived
    <3> SUFFICES ASSUME NEW p \in Unknown PROVE Owner(p).derived
      BY DEF Unknown, Owners
    <3>1. live[p].derived /\ ~Known(p)
      BY DEF Unknown, Known
    <3> QED BY <3>1 DEF Owner
  <2> QED BY <1>3, <2>1 DEF SameQuestion, Repeats, Unknown, Owners
<1>5. answered \cap Stale # {}
  BY <1>3, ChosenKnown
<1>6. \E r \in receipts : Findable(r)
  BY <1>4, <1>5 DEF PaidInv, AnswersAreFound
<1> QED BY <1>1, <1>2, <1>6, KeyIsQuestion

\* While nobody changes anything the worker does not pay again for an answer
\* that it has kept, however often it dies, for any projects, words, limits
\* and order of the cards, where the question is asked again the same
\* (catalog_worker.go, findReceipt).
THEOREM AnswersArePaidOnce == MCSpec => PaidOnce
<1>1. CatalogInv /\ PaidInv /\ [Next]_vars =>
        [Len(texts') > Len(texts) /\ SameQuestion
           => run.selected \cap answered = {}]_vars
  <2> SUFFICES ASSUME CatalogInv, PaidInv, [Next]_vars,
                      Len(texts') > Len(texts), SameQuestion
               PROVE  run.selected \cap answered = {}
    OBVIOUS
  <2>1. Len(texts) \in Nat /\ texts' # texts
    BY DEF CatalogInv, KeptOK
  <2>2. Dispatch
    BY <2>1 DEF Next, Sweep, Load, LoadPolicies, Select, Reuse, Keep, Project,
                Publish, Record, Fault, People, Archive, SetHold, Restore,
                Edit, Change, vars
  <2> QED BY <2>2, DispatchOnce
<1>2. MCSpec => []PaidInv
  BY CatalogPartRuns, CatalogInvariance, PaidInit, PaidStep, PTL
<1> QED BY <1>1, <1>2, CatalogPartRuns, CatalogInvariance, PTL DEF PaidOnce
=============================================================================
