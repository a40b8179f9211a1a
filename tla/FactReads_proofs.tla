-------------------------- MODULE FactReads_proofs --------------------------
(***************************************************************************)
(* Proofs about what is read of the facts: that the memory tools agree on  *)
(* what is stored and a recall is faithful to it (FactReads), and that the *)
(* dashboard's history and graph show the truth (FactHistory, VizGraph,    *)
(* under the names MCFactReads gives their variables).                     *)
(***************************************************************************)
EXTENDS MCFactReads, FiniteSetTheorems, FunctionTheorems, SequenceTheorems, TLAPS

------------------------------------------------------------------------------
(* Sorting. *)

Linear(S, order) ==
    /\ \A x \in S : <<x, x>> \notin order
    /\ \A x, y \in S : x # y => <<x, y>> \in order \/ <<y, x>> \in order
    /\ \A x, y, z \in S : <<x, y>> \in order /\ <<y, z>> \in order => <<x, z>> \in order

\* An element goes to the place that the number of those before it gives.
LEMMA CanBeSorted ==
    ASSUME NEW S, IsFiniteSet(S), NEW order, Linear(S, order)
    PROVE  \E s \in [1..Cardinality(S) -> S] :
              \A i, j \in 1..Cardinality(S) : i < j => <<s[i], s[j]>> \in order
<1> DEFINE n == Cardinality(S)
           Below(x) == {y \in S : <<y, x>> \in order}
           rank == [x \in S |-> Cardinality(Below(x)) + 1]
<1>1. n \in Nat
  BY FS_CardinalityType
<1>2. \A x \in S : IsFiniteSet(Below(x)) /\ Cardinality(Below(x)) \in Nat
  <2> SUFFICES ASSUME NEW x \in S
               PROVE  IsFiniteSet(Below(x)) /\ Cardinality(Below(x)) \in Nat
    OBVIOUS
  <2>1. Below(x) \in SUBSET S
    OBVIOUS
  <2> QED BY <2>1, FS_Subset, FS_CardinalityType
<1>3. \A x \in S : rank[x] \in 1..n
  <2> SUFFICES ASSUME NEW x \in S PROVE rank[x] \in 1..n
    OBVIOUS
  <2>1. Below(x) \in SUBSET (S \ {x})
    BY DEF Linear
  <2>2. IsFiniteSet(S \ {x}) /\ Cardinality(S \ {x}) = n - 1
    BY FS_RemoveElement
  <2> HIDE DEF Below
  <2>3. Cardinality(Below(x)) <= n - 1
    BY <2>1, <2>2, FS_Subset
  <2> QED BY <1>1, <1>2, <2>3
<1>4. ASSUME NEW x \in S, NEW y \in S, <<x, y>> \in order
      PROVE  rank[x] < rank[y]
  <2>1. Below(x) \in SUBSET Below(y) /\ x \in Below(y) /\ x \notin Below(x)
    BY <1>4 DEF Linear
  <2>2. IsFiniteSet(Below(x)) /\ IsFiniteSet(Below(y))
        /\ Cardinality(Below(x)) \in Nat /\ Cardinality(Below(y)) \in Nat
    BY <1>2
  <2>3. Cardinality(Below(x)) <= Cardinality(Below(y))
        /\ Cardinality(Below(x)) # Cardinality(Below(y))
    BY <2>1, <2>2, FS_Subset
  <2> HIDE DEF Below
  <2> QED BY <2>2, <2>3
<1> HIDE DEF rank
<1>5. rank \in [S -> 1..n]
  BY <1>3 DEF rank
<1>6. \A x, y \in S : x # y => rank[x] # rank[y]
  <2> SUFFICES ASSUME NEW x \in S, NEW y \in S, x # y PROVE rank[x] # rank[y]
    OBVIOUS
  <2>1. <<x, y>> \in order \/ <<y, x>> \in order
    BY DEF Linear
  <2> QED BY <1>3, <1>4, <2>1
<1>7. rank \in Injection(S, 1..n)
  BY <1>5, <1>6 DEF Injection, IsInjective
<1>8. IsFiniteSet(1..n) /\ Cardinality(1..n) = n
  BY <1>1, FS_Interval
<1>9. rank \in Surjection(S, 1..n)
  BY <1>7, <1>8, FS_Injection
<1>10. \A i \in 1..n : \E x \in S : rank[x] = i
  BY <1>9 DEF Surjection
<1> DEFINE s == [i \in 1..n |-> CHOOSE x \in S : rank[x] = i]
<1>11. \A i \in 1..n : s[i] \in S /\ rank[s[i]] = i
  BY <1>10
<1>12. s \in [1..n -> S]
  BY <1>11
<1> HIDE DEF s
<1>13. ASSUME NEW i \in 1..n, NEW j \in 1..n, i < j
       PROVE  <<s[i], s[j]>> \in order
  <2>1. s[i] \in S /\ s[j] \in S /\ rank[s[i]] < rank[s[j]]
    BY <1>11, <1>13
  <2>2. s[i] # s[j] /\ ~(rank[s[j]] < rank[s[i]])
    BY <1>1, <1>11, <1>13, <2>1
  <2>3. <<s[j], s[i]>> \notin order
    BY <1>4, <2>1, <2>2
  <2> QED BY <2>1, <2>2, <2>3 DEF Linear
<1> QED BY <1>12, <1>13

\* A sorted sequence holds every element once, in its order.
LEMMA SortedOK ==
    ASSUME NEW S, IsFiniteSet(S), NEW order, Linear(S, order)
    PROVE  /\ Cardinality(S) \in Nat
           /\ Sorted(S, order) \in [1..Cardinality(S) -> S]
           /\ \A i, j \in 1..Cardinality(S) :
                 i < j => <<Sorted(S, order)[i], Sorted(S, order)[j]>> \in order
           /\ \A x \in S : \E i \in 1..Cardinality(S) : Sorted(S, order)[i] = x
<1> DEFINE n == Cardinality(S)
           s == Sorted(S, order)
<1>1. n \in Nat
  BY FS_CardinalityType
<1>2. /\ s \in [1..n -> S]
      /\ \A i, j \in 1..n : i < j => <<s[i], s[j]>> \in order
  BY CanBeSorted DEF Sorted
<1> HIDE DEF s
<1>3. ASSUME NEW i \in 1..n, NEW j \in 1..n, i # j
      PROVE  s[i] # s[j]
  <2>1. i < j \/ j < i
    BY <1>1, <1>3
  <2>2. <<s[i], s[j]>> \in order \/ <<s[j], s[i]>> \in order
    BY <1>2, <2>1
  <2> QED BY <1>2, <2>2 DEF Linear
<1>4. s \in Injection(1..n, S)
  BY <1>2, <1>3 DEF Injection, IsInjective
<1>5. IsFiniteSet(1..n) /\ Cardinality(1..n) = n
  BY <1>1, FS_Interval
<1>6. s \in Surjection(1..n, S)
  BY <1>4, <1>5, FS_Injection
<1>7. \A x \in S : \E i \in 1..n : s[i] = x
  BY <1>6 DEF Surjection
<1> QED BY <1>1, <1>2, <1>7 DEF s

------------------------------------------------------------------------------
(* What is stored. *)

FactsOK ==
    /\ fact \in [Facts -> Storable \cup {None}]
    /\ written \in SUBSET Facts
    /\ \A f \in written : fact[f] # None => Valid(fact[f].life)

LEMMA ReadsConstants ==
    /\ NumFacts \in Nat /\ IsFiniteSet(Facts) /\ None \notin Storable
    /\ \A f \in Facts : Score[f] \in Nat
    /\ Limit \in Nat /\ Window \in Nat /\ Limit <= Window /\ Limit >= 1
<1>1. IsFiniteSet(Facts)
  BY ReadsAssumption, FS_Interval DEF Facts
<1> QED BY <1>1, ReadsAssumption

\* A change of one fact.
LEMMA FactChanges ==
    ASSUME FactsOK, NEW f \in Facts, NEW p \in Storable \cup {None},
           fact' = [fact EXCEPT ![f] = p],
           \/ written' = written /\ fact[f] # None
              /\ (p # None => p.life = fact[f].life)
           \/ written' = written \ {f}
           \/ written' = written \cup {f} /\ p # None /\ Valid(p.life)
    PROVE  FactsOK'
<1>1. fact' \in [Facts -> Storable \cup {None}]
  BY DEF FactsOK
<1>2. \A g \in Facts : fact'[g] = IF g = f THEN p ELSE fact[g]
  BY DEF FactsOK
<1>3. written' \in SUBSET Facts
  BY DEF FactsOK
<1>4. \A g \in written' : fact'[g] # None => Valid(fact'[g].life)
  BY <1>2, <1>3 DEF FactsOK
<1> QED BY <1>1, <1>3, <1>4 DEF FactsOK

LEMMA FactsInit == Init => FactsOK
BY ReadsAssumption DEF Init, FactsOK

LEMMA FactsStep == FactsOK /\ [Next]_vars => FactsOK'
<1> SUFFICES ASSUME FactsOK, [Next]_vars PROVE FactsOK'
  OBVIOUS
<1>1. CASE UNCHANGED <<fact, written>>
  BY <1>1 DEF FactsOK
<1>2. ASSUME NEW f \in Facts, NEW input \in Inputs, SetLifecycle(f, input)
      PROVE  FactsOK'
  <2> DEFINE p == [fact[f] EXCEPT !.life = [input EXCEPT !.rest = "ok"]]
  <2>1. /\ fact[f] \in Storable /\ Valid(input)
        /\ fact' = [fact EXCEPT ![f] = p]
        /\ written' = written \cup {f}
    BY <1>2 DEF SetLifecycle, SetLife, FactsOK
  <2>2. [input EXCEPT !.rest = "ok"] = input
    BY DEF Inputs
  <2>3. p.life = input /\ p \in Storable
    BY <2>1, <2>2 DEF Storable, Lives, Inputs, States
  <2>4. p # None
    BY <2>3, ReadsConstants
  <2> HIDE DEF p
  <2> QED BY <2>1, <2>3, <2>4, FactChanges
<1>3. ASSUME NEW f \in Facts, Rewrite(f)
      PROVE  FactsOK'
  <2>1. fact[f] \in Storable /\ fact[f] # None
    BY <1>3 DEF Rewrite, FactsOK
  <2>2. CASE Becomes(f, None)
    <3>1. fact' = [fact EXCEPT ![f] = None] /\ written' = written \ {f}
      BY <2>2 DEF Becomes
    <3> QED BY <3>1, FactChanges
  <2>3. ASSUME NEW s \in {"active", "quarantined"}, NEW b \in BOOLEAN,
               Becomes(f, [fact[f] EXCEPT !.status = s, !.scope = b])
        PROVE  FactsOK'
    <3> DEFINE p == [fact[f] EXCEPT !.status = s, !.scope = b]
    <3>1. p \in Storable /\ p.life = fact[f].life
      BY <2>1 DEF Storable
    <3>2. fact' = [fact EXCEPT ![f] = p] /\ written' = written
      BY <2>3, <3>1, ReadsConstants DEF Becomes
    <3> HIDE DEF p
    <3> QED BY <2>1, <3>1, <3>2, FactChanges
  <2> QED BY <1>3, <2>2, <2>3 DEF Rewrite
<1>4. ASSUME NEW f \in Facts, EditTags(f)
      PROVE  FactsOK'
  <2> DEFINE p == [fact[f] EXCEPT !.scope = ~@]
  <2>1. fact[f] \in Storable /\ fact[f] # None
        /\ fact' = [fact EXCEPT ![f] = p] /\ written' = written
    BY <1>4 DEF EditTags, FactsOK
  <2>2. p \in Storable /\ p.life = fact[f].life
    BY <2>1 DEF Storable
  <2> HIDE DEF p
  <2> QED BY <2>1, <2>2, FactChanges
<1>5. ASSUME NEW f \in Facts, CountRecall(f)
      PROVE  FactsOK'
  <2> DEFINE p == [fact[f] EXCEPT !.count = 1]
  <2>1. fact[f] \in Storable /\ fact[f] # None
        /\ fact' = [fact EXCEPT ![f] = p] /\ written' = written
    BY <1>5 DEF CountRecall, FactsOK
  <2>2. p \in Storable /\ p.life = fact[f].life
    BY <2>1 DEF Storable
  <2> HIDE DEF p
  <2> QED BY <2>1, <2>2, FactChanges
<1> QED
  BY <1>1, <1>2, <1>3, <1>4, <1>5
  DEF Next, Recall, AnswerPlain, Dispatch, ProviderAnswers, Get, GetFails,
      AnswerRanked, Reconfigure, NextDay, worldVars, vars

LEMMA FactsInvariance == Spec => []FactsOK
BY FactsInit, FactsStep, PTL DEF Spec

\* Disjoint sets add up.
LEMMA Disjoint ==
    ASSUME NEW S, NEW T, IsFiniteSet(S), IsFiniteSet(T), S \cap T = {}
    PROVE  /\ IsFiniteSet(S \cup T)
           /\ Cardinality(S \cup T) = Cardinality(S) + Cardinality(T)
<1>1. Cardinality(S) \in Nat /\ Cardinality(T) \in Nat
  BY FS_CardinalityType
<1>2. Cardinality(S \cap T) = 0
  BY FS_EmptySet
<1>3. /\ IsFiniteSet(S \cup T)
      /\ Cardinality(S \cup T) = Cardinality(S) + Cardinality(T) - Cardinality(S \cap T)
  BY FS_Union
<1> QED BY <1>1, <1>2, <1>3

\* Every stored fact is counted once.
LEMMA CountedOnce ==
    ASSUME FactsOK
    PROVE  /\ Cardinality(Stored) =
                Cardinality(Invalid) + Cardinality(Counted("current"))
                + Cardinality(Counted("historical"))
                + Cardinality(Counted("superseded")) + Cardinality(Counted("disputed"))
           /\ Cardinality({f \in Stored : fact[f].life = NoLife})
                <= Cardinality(Counted("current"))
<1> DEFINE A == Invalid
           B == Counted("current")
           C == Counted("historical")
           D == Counted("superseded")
           E == Counted("disputed")
<1>1. Stored \in SUBSET Facts /\ \A X \in SUBSET Stored : IsFiniteSet(X)
  BY ReadsConstants, FS_Subset DEF Stored
<1>2. A \in SUBSET Stored /\ B \in SUBSET Stored /\ C \in SUBSET Stored
      /\ D \in SUBSET Stored /\ E \in SUBSET Stored
  BY DEF Invalid, Counted
<1>3. IsFiniteSet(A) /\ IsFiniteSet(B) /\ IsFiniteSet(C) /\ IsFiniteSet(D)
      /\ IsFiniteSet(E)
  BY <1>1, <1>2
<1>4. A \cap B = {} /\ (A \cup B) \cap C = {} /\ (A \cup B \cup C) \cap D = {}
      /\ (A \cup B \cup C \cup D) \cap E = {}
  BY DEF Invalid, Counted
<1>5. Stored = A \cup B \cup C \cup D \cup E
  <2>1. \A f \in Stored : Valid(fact[f].life) => State(fact[f].life) \in States
    BY DEF Valid
  <2> QED BY <1>2, <2>1 DEF States, Invalid, Counted
<1>6. {f \in Stored : fact[f].life = NoLife} \in SUBSET B
  BY DEF Counted, NoLife, Valid, State, Canonical, States
<1> HIDE DEF A, B, C, D, E
<1>7. /\ IsFiniteSet(A \cup B)
      /\ Cardinality(A \cup B) = Cardinality(A) + Cardinality(B)
  BY <1>3, <1>4, Disjoint
<1>8. /\ IsFiniteSet(A \cup B \cup C)
      /\ Cardinality(A \cup B \cup C) = Cardinality(A \cup B) + Cardinality(C)
  BY <1>3, <1>4, <1>7, Disjoint
<1>9. /\ IsFiniteSet(A \cup B \cup C \cup D)
      /\ Cardinality(A \cup B \cup C \cup D) = Cardinality(A \cup B \cup C) + Cardinality(D)
  BY <1>3, <1>4, <1>8, Disjoint
<1>10. Cardinality(A \cup B \cup C \cup D \cup E)
         = Cardinality(A \cup B \cup C \cup D) + Cardinality(E)
  BY <1>3, <1>4, <1>9, Disjoint
<1>11. Cardinality(Stored) = Cardinality(A) + Cardinality(B) + Cardinality(C)
         + Cardinality(D) + Cardinality(E)
  BY <1>5, <1>7, <1>8, <1>9, <1>10
<1>12. Cardinality({f \in Stored : fact[f].life = NoLife}) <= Cardinality(B)
  BY <1>3, <1>6, FS_Subset
<1> QED BY <1>11, <1>12 DEF A, B, C, D, E

\* The reading tools agree on what is there, for any collection, payloads,
\* scores, dates and changes: what set_fact_lifecycle wrote can be read; what
\* one of them shows no other withholds without its reason; every stored fact
\* is counted once.
THEOREM ToolsAgree == Spec => []ReadsAgree
<1>1. FactsOK => ReadsAgree
  <2> SUFFICES ASSUME FactsOK, phase = "idle" PROVE ReadsAgree
    BY DEF ReadsAgree
  <2>1. \A f \in Facts : fact[f] # None => fact[f] \in Storable
    BY DEF FactsOK
  <2>2. \A f \in Operational(1) : Shown(fact[f], "current", day)
    BY DEF Operational, Truths, Stored, IsCurrentTruth, Shown
  <2>3. \A f \in Matching("current") :
          Shown(fact[f], "current", day) /\ fact[f].permanent => f \in Operational(1)
    BY DEF Matching, Shown, Operational, Truths, Stored, IsCurrentTruth
  <2>4. \A mode \in Modes : \A f \in Stored :
          Shown(fact[f], mode, day) <=> Decision(fact[f], mode, day, TRUE) # "suppress"
    <3> SUFFICES ASSUME NEW mode \in Modes, NEW f \in Stored
                 PROVE  Shown(fact[f], mode, day)
                          <=> Decision(fact[f], mode, day, TRUE) # "suppress"
      OBVIOUS
    <3>1. IsActive(fact[f])
      BY DEF Stored
    <3>2. CASE ~Valid(fact[f].life) \/ Expired(fact[f], day)
      BY <3>2 DEF Shown, Decision
    <3>3. CASE Valid(fact[f].life) /\ ~Expired(fact[f], day) /\ mode = "current"
      BY <3>1, <3>3 DEF Shown, Decision
    <3>4. CASE Valid(fact[f].life) /\ ~Expired(fact[f], day) /\ mode # "current"
      BY <3>1, <3>4 DEF Shown, Decision
    <3> QED BY <3>2, <3>3, <3>4
  <2>5. \A f \in Matching("include_all") :
          Shown(fact[f], "include_all", day) =>
            /\ f \in Stored /\ fact[f].scope /\ ~Expired(fact[f], day)
            /\ Importable(fact[f])
    BY <2>1 DEF Matching, Stored, Shown, Importable, Expired, NoDate, BadDate
  <2>6. \A f \in Matching("include_all") :
          Shown(fact[f], "include_all", day) /\ Score[f] >= 1 =>
              f \in RelatedTo(1, 2) \/ Blocks(f, 2)
    BY <2>5 DEF RelatedTo
  <2>7. \A s \in States : Graph(s, "") = Counted(s) \cap Exported
    <3> SUFFICES ASSUME NEW s \in States, NEW f
                 PROVE  f \in Graph(s, "") <=> f \in Counted(s) \cap Exported
      OBVIOUS
    <3>1. s # "" /\ s # "invalid"
      BY DEF States
    <3> QED BY <3>1 DEF Graph, GraphState, Counted, Exported
  <2>8. Graph("", "canonical") \subseteq Graph("current", "canonical")
    BY DEF Graph, GraphState, Valid
  <2>9. Listed("active") = Detailed
    BY DEF Listed, Detailed, Stored, IsActive, ActiveFilter
  <2>10. /\ Listed("active") \cap Listed("quarantined") = {}
         /\ \A f \in Facts \ (Listed("active") \cup Listed("quarantined")) :
              fact[f] = None \/ fact[f].status = "torn"
    BY <2>1 DEF Listed, Stored, IsActive, ActiveFilter, Storable
  <2>11. /\ Statistics.total = Statistics.invalid + Statistics.states["current"]
              + Statistics.states["historical"] + Statistics.states["superseded"]
              + Statistics.states["disputed"]
         /\ Statistics.legacy <= Statistics.states["current"]
    BY CountedOnce DEF Statistics, States
  <2>12. \A f \in written : fact[f] # None => Valid(fact[f].life)
    BY DEF FactsOK
  <2> QED
    BY <2>2, <2>3, <2>4, <2>5, <2>6, <2>7, <2>8, <2>9, <2>10, <2>11, <2>12
    DEF ReadsAgree, Exported
<1> QED BY <1>1, FactsInvariance, PTL

------------------------------------------------------------------------------
(* One recall. *)

LEMMA TierType ==
    ASSUME NEW life
    PROVE  Tier(life) \in Nat
<1>1. CASE ~Valid(life)
  BY <1>1 DEF Tier
<1>2. CASE Valid(life)
  BY <1>2 DEF Tier, Valid, States
<1> QED BY <1>1, <1>2

\* The same but for the count of recalls.
Same(p, q) ==
    /\ p \in Storable /\ q \in Storable
    /\ p.life = q.life /\ p.until = q.until /\ p.status = q.status
    /\ p.scope = q.scope

LEMMA SemanticSame ==
    ASSUME NEW p \in Storable \cup {None}, NEW q \in Storable,
           Semantic(p) = Semantic(q)
    PROVE  Same(p, q)
<1>1. Semantic(q) = [q EXCEPT !.count = 0] /\ Semantic(q) \in Storable
  BY ReadsConstants DEF Semantic, Storable
<1>2. p # None
  BY <1>1, ReadsConstants DEF Semantic
<1>3. Semantic(p) = [p EXCEPT !.count = 0] /\ p \in Storable
  BY <1>2 DEF Semantic
<1>4. /\ Semantic(p).life = p.life /\ Semantic(p).until = p.until
      /\ Semantic(p).status = p.status /\ Semantic(p).scope = p.scope
  BY <1>3 DEF Storable
<1>5. /\ Semantic(q).life = q.life /\ Semantic(q).until = q.until
      /\ Semantic(q).status = q.status /\ Semantic(q).scope = q.scope
  BY <1>1 DEF Storable
<1> QED BY <1>3, <1>4, <1>5 DEF Same

\* What is shown on a day was shown on the days before.
LEMMA ShownBefore ==
    ASSUME NEW p \in Storable, NEW mode, NEW a \in Int, NEW b \in Int, a <= b,
           Shown(p, mode, b)
    PROVE  Shown(p, mode, a)
BY DEF Shown, Expired, Storable

LEMMA ShownSame ==
    ASSUME NEW p, NEW q, Same(p, q)
    PROVE  /\ \A mode, on : Shown(p, mode, on) <=> Shown(q, mode, on)
           /\ Tier(p.life) = Tier(q.life)
           /\ InScope(p) <=> InScope(q)
BY ReadsConstants DEF Same, Shown, IsActive, Expired, InScope

\* A sequence of all of S, those with more authority first.
Ranked(o, S, pts) ==
    /\ Cardinality(S) \in Nat
    /\ o \in [1..Cardinality(S) -> S]
    /\ \A i, j \in 1..Cardinality(S) :
          i < j => Tier(pts[o[i]].life) <= Tier(pts[o[j]].life)
    /\ \A f \in S : \E i \in 1..Cardinality(S) : o[i] = f

ShownOf(pts, mode, on) == {f \in DOMAIN pts : Shown(pts[f], mode, on)}

LEMMA Presentation ==
    ASSUME NEW pts, DOMAIN pts \subseteq Facts, NEW mode, NEW on
    PROVE  Ranked(Present(pts, mode, on), ShownOf(pts, mode, on), pts)
<1> DEFINE S == ShownOf(pts, mode, on)
           order == {e \in S \X S : Before(pts, e[1], e[2])}
<1>1. S \subseteq Facts /\ IsFiniteSet(S)
  BY ReadsConstants, FS_Subset DEF ShownOf
<1>2. Present(pts, mode, on) = Sorted(S, order)
  BY DEF Present, ShownOf
<1>3. \A f, g \in S : <<f, g>> \in order <=> Before(pts, f, g)
  OBVIOUS
<1>4. \A f \in S : f \in Nat /\ Score[f] \in Nat /\ Tier(pts[f].life) \in Nat
  BY <1>1, ReadsConstants, TierType DEF Facts
<1> HIDE DEF S
<1>5. \A f \in S : ~Before(pts, f, f)
  BY <1>4 DEF Before
<1>6. \A f, g \in S : f # g => Before(pts, f, g) \/ Before(pts, g, f)
  BY <1>4 DEF Before
<1>7. \A f, g, h \in S : Before(pts, f, g) /\ Before(pts, g, h) => Before(pts, f, h)
  BY <1>4 DEF Before
<1>8. Linear(S, order)
  <2> HIDE DEF order
  <2> QED BY <1>3, <1>5, <1>6, <1>7 DEF Linear
<1>9. \A f, g \in S : <<f, g>> \in order => Tier(pts[f].life) <= Tier(pts[g].life)
  BY <1>3, <1>4 DEF Before
<1> HIDE DEF order
<1>10. /\ Cardinality(S) \in Nat
       /\ Sorted(S, order) \in [1..Cardinality(S) -> S]
       /\ \A i, j \in 1..Cardinality(S) :
             i < j => <<Sorted(S, order)[i], Sorted(S, order)[j]>> \in order
       /\ \A x \in S : \E i \in 1..Cardinality(S) : Sorted(S, order)[i] = x
  BY ONLY <1>1, <1>8, SortedOK
<1> HIDE DEF Sorted
<1> QED BY <1>2, <1>9, <1>10 DEF Ranked, S

\* The provider's scores decide between facts of the same authority only.
LEMMA RankedByScores ==
    ASSUME NEW S, S \subseteq Facts, NEW ai \in [S -> {0, 1}]
    PROVE  Ranked(Sorted(S, {e \in S \X S : ByAuthority(e[1], e[2], ai)}), S, call.pts)
<1> DEFINE order == {e \in S \X S : ByAuthority(e[1], e[2], ai)}
           tier(f) == Tier(call.pts[f].life)
           By(f, g) == ByAuthority(f, g, ai)
<1>1. IsFiniteSet(S)
  BY ReadsConstants, FS_Subset
<1>2. \A f, g \in S : <<f, g>> \in order <=> By(f, g)
  OBVIOUS
<1>3. \A f \in S : f \in Nat /\ Score[f] \in Nat /\ tier(f) \in Nat /\ ai[f] \in {0, 1}
  BY ReadsConstants, TierType DEF Facts
<1>4. \A f, g \in S : By(f, g) <=>
        \/ tier(f) < tier(g)
        \/ tier(f) = tier(g) /\ ai[f] > ai[g]
        \/ tier(f) = tier(g) /\ ai[f] = ai[g] /\ Score[f] > Score[g]
        \/ tier(f) = tier(g) /\ ai[f] = ai[g] /\ Score[f] = Score[g] /\ f < g
  BY <1>3 DEF ByAuthority, Before
<1> HIDE DEF order, tier, By
<1>5. \A f \in S : ~By(f, f)
  BY <1>3, <1>4
<1>6. \A f, g \in S : f # g => By(f, g) \/ By(g, f)
  BY <1>3, <1>4
<1>7. \A f, g, h \in S : By(f, g) /\ By(g, h) => By(f, h)
  BY <1>3, <1>4
<1>8. Linear(S, order)
  BY <1>2, <1>5, <1>6, <1>7 DEF Linear
<1>9. \A f, g \in S : <<f, g>> \in order => tier(f) <= tier(g)
  BY <1>2, <1>3, <1>4
<1>10. /\ Cardinality(S) \in Nat
       /\ Sorted(S, order) \in [1..Cardinality(S) -> S]
       /\ \A i, j \in 1..Cardinality(S) :
             i < j => <<Sorted(S, order)[i], Sorted(S, order)[j]>> \in order
       /\ \A x \in S : \E i \in 1..Cardinality(S) : Sorted(S, order)[i] = x
  BY <1>1, <1>8, SortedOK
<1> HIDE DEF Sorted
<1>11. Ranked(Sorted(S, order), S, call.pts)
  BY <1>9, <1>10 DEF Ranked, tier
<1> QED BY <1>11 DEF order

\* What a ranked sequence becomes as an answer: at most Limit facts of it,
\* and one that is left out gives way to facts with no less authority.
LEMMA Given ==
    ASSUME NEW o, NEW S, NEW pts, Ranked(o, S, pts), NEW applied, Give(o, pts, applied)
    PROVE  /\ S \subseteq Facts /\ (\A f \in S : pts[f] \in Storable)
                 /\ applied \in BOOLEAN /\ call.saturated \in BOOLEAN
              => answer' \in Answers
           /\ answer'.saturated = call.saturated
           /\ \A i \in DOMAIN answer'.facts :
                 \E f \in S : answer'.facts[i] = <<f, pts[f]>>
           /\ \A f \in S :
                 \/ \E i \in DOMAIN answer'.facts : answer'.facts[i][1] = f
                 \/ /\ Len(answer'.facts) = Limit
                    /\ \A i \in DOMAIN answer'.facts :
                          Tier(answer'.facts[i][2].life) <= Tier(pts[f].life)
<1> DEFINE n == Cardinality(S)
           m == IF n < Limit THEN n ELSE Limit
           facts == [i \in 1..m |-> <<o[i], pts[o[i]]>>]
<1>1. n \in Nat /\ Len(o) = n /\ m \in Nat /\ m <= n /\ m <= Limit
  BY ReadsConstants DEF Ranked
<1>2. answer' = [facts |-> facts, applied |-> applied, saturated |-> call.saturated]
  BY <1>1 DEF Give
<1>3. answer'.facts = facts /\ answer'.saturated = call.saturated
  BY <1>2
<1>4. DOMAIN facts = 1..m /\ Len(facts) = m
  BY <1>1
<1>5. \A i \in 1..m : i \in 1..n /\ o[i] \in S /\ facts[i] = <<o[i], pts[o[i]]>>
  BY <1>1 DEF Ranked
<1> HIDE DEF facts, m
<1>5a. ASSUME S \subseteq Facts, \A f \in S : pts[f] \in Storable
       PROVE  facts \in Seq(Facts \X Storable)
  <2>1. \A i \in 1..m : facts[i] \in Facts \X Storable
    BY <1>5, <1>5a
  <2>2. facts = [i \in 1..m |-> facts[i]]
    BY DEF facts
  <2> QED BY <1>1, <2>1, <2>2
<1>5b. S \subseteq Facts /\ (\A f \in S : pts[f] \in Storable)
         /\ applied \in BOOLEAN /\ call.saturated \in BOOLEAN
       => answer' \in Answers
  BY <1>2, <1>5a DEF Answers
<1>6. ASSUME NEW f \in S
      PROVE  \/ \E i \in 1..m : facts[i][1] = f
             \/ /\ m = Limit
                /\ \A i \in 1..m : Tier(facts[i][2].life) <= Tier(pts[f].life)
  <2>1. PICK j \in 1..n : o[j] = f
    BY DEF Ranked
  <2>2. CASE j <= m
    BY <1>1, <1>5, <2>1, <2>2
  <2>3. CASE ~(j <= m)
    <3>1. m = Limit /\ \A i \in 1..m : i < j
      BY <1>1, <2>1, <2>3, ReadsConstants DEF m
    <3>2. \A i \in 1..m : Tier(pts[o[i]].life) <= Tier(pts[o[j]].life)
      BY <1>5, <3>1 DEF Ranked
    <3> QED BY <1>5, <2>1, <3>1, <3>2
  <2> QED BY <2>2, <2>3
<1> QED BY <1>3, <1>4, <1>5, <1>5b, <1>6

------------------------------------------------------------------------------
(* The invariant of a recall.  What it found was there at one moment; what   *)
(* it may still show was seen since the last await; and of the facts that    *)
(* were left alone it knows everything but their counts.                     *)

CallFields ==
    {"mode", "asOf", "pts", "order", "saturated", "catalog", "runtime",
     "ranked", "fresh"}

\* The day from which the mode looks, on a given day.
From(on) == IF call.mode = "as_of" THEN call.asOf ELSE on

CallOK ==
    /\ DOMAIN call = CallFields
    /\ call.asOf \in Nat
    /\ call.saturated \in BOOLEAN
    /\ DOMAIN call.pts \subseteq Facts
    /\ \A f \in DOMAIN call.pts : call.pts[f] \in Storable /\ call.pts[f].scope

\* The order is that of one day, and before the provider is asked what was
\* found is held of that day.
Presented ==
    \E on \in 1..day :
        /\ call.order = Present(call.pts, call.mode, From(on))
        /\ phase = "found" =>
             \A f \in DOMAIN call.pts : <<f, call.pts[f], on>> \in since

\* Facts left alone are as they were found, and were found if there was room.
SteadyOK ==
    /\ steady \subseteq Facts
    /\ \A f \in steady \cap DOMAIN call.pts : Same(fact[f], call.pts[f])
    /\ ~call.saturated =>
         \A f \in steady : f \in Matching(call.mode) => f \in DOMAIN call.pts

Held(f, p) == \E on \in 1..day : <<f, p, on>> \in since

NowHeld == \A f \in Facts : fact[f] # None => Held(f, fact[f])

ProviderOK ==
    call.ranked # <<>> => Ranked(call.ranked, ToSet(call.order), call.pts)

FreshOK ==
    /\ call.fresh \in Seq(Storable \cup {None})
    /\ Len(call.fresh) <= Len(call.order)
    /\ \A i \in 1..Len(call.fresh) :
         LET f == call.order[i] IN
         /\ call.fresh[i] # None => Held(f, call.fresh[i])
         /\ f \in steady => Same(call.fresh[i], call.pts[f])

AnswerOK ==
    /\ answer # None
    /\ answer.saturated = call.saturated
    /\ RecallIsFresh
    /\ \A f \in steady \cap DOMAIN call.pts :
          Shown(call.pts[f], call.mode, Reference) =>
              \/ \E i \in DOMAIN answer.facts : answer.facts[i][1] = f
              \/ /\ Len(answer.facts) = Limit
                 /\ \A i \in DOMAIN answer.facts :
                       Tier(answer.facts[i][2].life) <= Tier(call.pts[f].life)

RecallInv ==
    /\ FactsOK
    /\ day \in Nat \ {0}
    /\ phase \in {"idle", "found", "ranking", "refresh", "answered"}
    /\ answer # None => phase = "answered"
    /\ phase # "idle" => CallOK /\ Presented /\ SteadyOK /\ NowHeld
    /\ phase \in {"found", "ranking"} => call.ranked = <<>> /\ call.fresh = <<>>
    /\ phase = "refresh" => ProviderOK /\ FreshOK
    /\ phase = "answered" => AnswerOK

LEMMA RecallInit == Init => RecallInv
BY FactsInit DEF Init, RecallInv

\* The sequence in hand.
LEMMA OrderOK ==
    ASSUME CallOK, Presented, day \in Nat
    PROVE  \E on \in 1..day :
             LET S == ShownOf(call.pts, call.mode, From(on)) IN
             /\ Ranked(call.order, S, call.pts)
             /\ ToSet(call.order) = S
             /\ call.order \in Seq(Facts) /\ Len(call.order) = Cardinality(S)
             /\ phase = "found" =>
                  \A f \in DOMAIN call.pts : <<f, call.pts[f], on>> \in since
<1>1. PICK on \in 1..day :
        /\ call.order = Present(call.pts, call.mode, From(on))
        /\ phase = "found" =>
             \A f \in DOMAIN call.pts : <<f, call.pts[f], on>> \in since
  BY DEF Presented
<1> DEFINE S == ShownOf(call.pts, call.mode, From(on))
<1>2. Ranked(call.order, S, call.pts) /\ S \subseteq Facts
  BY <1>1, Presentation DEF CallOK, ShownOf
<1> HIDE DEF S
<1>3. call.order \in Seq(Facts) /\ Len(call.order) = Cardinality(S)
  BY <1>2 DEF Ranked
<1>4. ToSet(call.order) = S
  BY <1>2, <1>3 DEF Ranked, ToSet
<1> QED BY <1>1, <1>2, <1>3, <1>4 DEF S

\* The world moves on.
LEMMA WorldMoves ==
    ASSUME RecallInv, FactsOK', UNCHANGED <<phase, call, answer>>,
           since \subseteq since', steady' \subseteq steady,
           day' \in Nat, day <= day',
           \A f \in Facts : fact'[f] # None /\ (fact'[f] # fact[f] \/ day' # day)
                              => <<f, fact'[f], day'>> \in since',
           \A f \in steady' \cap Facts : \/ fact'[f] = fact[f]
                                         \/ Same(fact'[f], fact[f])
    PROVE  RecallInv'
<1> USE DEF RecallInv
<1>1. CASE phase = "idle"
  BY <1>1
<1>2. CASE phase # "idle"
  <2>1. day \in Nat /\ day >= 1 /\ CallOK /\ Presented /\ SteadyOK /\ NowHeld
    BY <1>2
  <2>2. CallOK'
    BY <2>1 DEF CallOK
  <2>3. \A f, p : Held(f, p) => Held(f, p)'
    BY <2>1 DEF Held
  <2>4. Presented'
    BY <2>1 DEF Presented, From
  <2>5. NowHeld'
    <3> SUFFICES ASSUME NEW f \in Facts, fact'[f] # None PROVE Held(f, fact[f])'
      BY DEF NowHeld
    <3>1. CASE fact'[f] = fact[f] /\ day' = day
      BY <2>1, <2>3, <3>1 DEF NowHeld
    <3>2. CASE ~(fact'[f] = fact[f] /\ day' = day)
      BY <2>1, <3>2 DEF Held
    <3> QED BY <3>1, <3>2
  <2>6. \A f \in steady' : f \in Facts /\ (fact'[f] = fact[f] \/ Same(fact'[f], fact[f]))
    BY <2>1 DEF SteadyOK
  <2>7. SteadyOK'
    <3>1. \A f \in steady' \cap DOMAIN call.pts : Same(fact'[f], call.pts[f])
      BY <2>1, <2>6 DEF SteadyOK, Same
    <3>2. \A f \in steady' : f \in Matching(call.mode)' => f \in Matching(call.mode)
      <4> SUFFICES ASSUME NEW f \in steady', f \in Matching(call.mode)'
                   PROVE  f \in Matching(call.mode)
        OBVIOUS
      <4>1. CASE fact'[f] = fact[f]
        BY <4>1 DEF Matching
      <4>2. CASE Same(fact'[f], fact[f])
        BY <4>2, ReadsConstants DEF Matching, Same, ActiveFilter, CurrentFilter
      <4> QED BY <2>6, <4>1, <4>2
    <3> QED BY <2>1, <3>1, <3>2 DEF SteadyOK
  <2>8. phase = "refresh" => ProviderOK' /\ FreshOK'
    <3>1. phase = "refresh" => ProviderOK'
      BY DEF ProviderOK, Ranked
    <3>2. ASSUME phase = "refresh" PROVE FreshOK'
      BY <2>3, <3>2 DEF FreshOK
    <3> QED BY <3>1, <3>2
  <2>9. ASSUME phase = "answered" PROVE AnswerOK'
    <3>1. RecallIsFresh'
      BY <2>9 DEF AnswerOK, RecallIsFresh
    <3>2. From(day) \in Int /\ From(day') \in Int /\ From(day) <= From(day')
      BY <2>1 DEF From, CallOK
    <3>3. Reference = From(day) /\ Reference' = From(day')
      BY DEF Reference, From
    <3>4. \A f \in DOMAIN call.pts :
            Shown(call.pts[f], call.mode, Reference') =>
              Shown(call.pts[f], call.mode, Reference)
      BY <2>1, <3>2, <3>3, ShownBefore DEF CallOK
    <3> QED BY <2>9, <3>1, <3>4 DEF AnswerOK
  <2> QED BY <1>2, <2>1, <2>2, <2>4, <2>5, <2>7, <2>8, <2>9
<1> QED BY <1>1, <1>2

LEMMA FoundInv ==
    ASSUME RecallInv, NEW mode \in Modes, NEW asOf \in 1..LastDay, Recall(mode, asOf)
    PROVE  RecallInv'
<1> DEFINE pts(W) == [f \in W |-> fact[f]]
           on == IF mode = "as_of" THEN asOf ELSE day
<1>1. PICK W \in Windows(mode) :
        call' = [NoCall EXCEPT !.mode = mode, !.asOf = asOf, !.pts = pts(W),
                    !.order = Present(pts(W), mode, on),
                    !.saturated = Cardinality(W) = Window]
  BY DEF Recall
<1>2. /\ phase' = "found" /\ answer' = None /\ since' = Now /\ steady' = Facts
      /\ UNCHANGED <<fact, day, written>>
  BY DEF Recall, worldVars
<1>3. /\ DOMAIN call' = CallFields /\ call'.mode = mode /\ call'.asOf = asOf
      /\ call'.pts = pts(W) /\ call'.order = Present(pts(W), mode, on)
      /\ call'.saturated = (Cardinality(W) = Window)
      /\ call'.ranked = <<>> /\ call'.fresh = <<>>
  BY <1>1 DEF NoCall, CallFields
<1> HIDE DEF on
<1>4. day \in Nat /\ day >= 1 /\ FactsOK
  BY DEF RecallInv
<1>5. W \subseteq Matching(mode) /\ W \subseteq Facts
  BY DEF Windows, Matching
<1>6. \A f \in W : fact[f] \in Storable /\ fact[f].scope
  BY <1>4, <1>5 DEF Matching, FactsOK
<1>7. FactsOK'
  BY <1>2, <1>4 DEF FactsOK
<1>8. CallOK'
  BY <1>3, <1>5, <1>6, ReadsAssumption DEF CallOK
<1>9. \A f \in Facts : fact[f] # None => <<f, fact[f], day>> \in Now
  BY DEF Now
<1>10. Presented'
  <2>1. call'.order = Present(call'.pts, call'.mode,
                              IF call'.mode = "as_of" THEN call'.asOf ELSE day)
    BY <1>3 DEF on
  <2>2. \A f \in DOMAIN call'.pts : <<f, call'.pts[f], day>> \in since'
    BY <1>2, <1>3, <1>5, <1>6, <1>9, ReadsConstants
  <2> QED BY <1>2, <1>4, <2>1, <2>2 DEF Presented, From
<1>11. SteadyOK'
  <2>1. \A f \in W : Same(fact[f], pts(W)[f])
    BY <1>6 DEF Same
  <2>2. ASSUME Cardinality(W) # Window PROVE W = Matching(mode)
    <3>1. IsFiniteSet(Matching(mode)) /\ Cardinality(Matching(mode)) \in Nat
      BY ReadsConstants, FS_Subset, FS_CardinalityType DEF Matching
    <3>2. Cardinality(W) = IF Cardinality(Matching(mode)) < Window
                           THEN Cardinality(Matching(mode)) ELSE Window
      BY DEF Windows
    <3>3. Cardinality(W) = Cardinality(Matching(mode))
      BY <2>2, <3>2
    <3> QED BY <1>5, <3>1, <3>3, FS_Subset
  <2>3. Matching(call.mode)' = Matching(mode)
    BY <1>2, <1>3 DEF Matching
  <2>4. \A f \in steady' : f \in Matching(call.mode)' /\ ~call'.saturated
                              => f \in DOMAIN call'.pts
    BY <1>3, <2>2, <2>3
  <2> QED BY <1>2, <1>3, <2>1, <2>4 DEF SteadyOK
<1>12. NowHeld'
  BY <1>2, <1>4, <1>9 DEF NowHeld, Held
<1> QED BY <1>2, <1>3, <1>4, <1>7, <1>8, <1>10, <1>11, <1>12 DEF RecallInv

\* The call goes on; what it found stays.
LEMMA CallStays ==
    ASSUME RecallInv, phase # "idle", phase' # "idle", phase' # "found",
           UNCHANGED <<fact, day, written, steady>>,
           since' = since \/ since' = Now,
           DOMAIN call' = DOMAIN call, call'.mode = call.mode,
           call'.asOf = call.asOf, call'.pts = call.pts,
           call'.order = call.order, call'.saturated = call.saturated
    PROVE  /\ FactsOK' /\ day' \in Nat \ {0}
           /\ CallOK' /\ Presented' /\ SteadyOK' /\ NowHeld'
<1>1. day \in Nat /\ day >= 1 /\ CallOK /\ Presented /\ SteadyOK /\ NowHeld /\ FactsOK
  BY DEF RecallInv
<1>2. FactsOK'
  BY <1>1 DEF FactsOK
<1>3. CallOK'
  BY <1>1 DEF CallOK
<1>4. Presented'
  BY <1>1 DEF Presented, From
<1>5. SteadyOK'
  BY <1>1 DEF SteadyOK, Matching
<1>6. NowHeld'
  <2>1. CASE since' = since
    BY ONLY <1>1, <2>1, UNCHANGED <<fact, day>> DEF NowHeld, Held
  <2>2. CASE since' = Now
    <3>1. \A f \in Facts : fact[f] # None => <<f, fact[f], day>> \in since'
      BY <2>2 DEF Now
    <3> QED BY ONLY <1>1, <3>1, UNCHANGED <<fact, day>> DEF NowHeld, Held
  <2> QED BY <2>1, <2>2
<1> QED BY <1>1, <1>2, <1>3, <1>4, <1>5, <1>6

LEMMA DispatchInv ==
    ASSUME RecallInv, Dispatch
    PROVE  RecallInv'
<1>0. phase = "found" /\ CallOK
  BY DEF RecallInv, Dispatch
<1>1. /\ phase' = "ranking" /\ answer' = answer
      /\ UNCHANGED <<fact, day, written, steady, since>>
      /\ DOMAIN call' = DOMAIN call /\ call'.mode = call.mode
      /\ call'.asOf = call.asOf /\ call'.pts = call.pts
      /\ call'.order = call.order /\ call'.saturated = call.saturated
      /\ call'.ranked = call.ranked /\ call'.fresh = call.fresh
  BY <1>0 DEF Dispatch, worldVars, CallOK, CallFields
<1>2. answer = None /\ call.ranked = <<>> /\ call.fresh = <<>>
  BY <1>0 DEF RecallInv
<1> QED BY <1>0, <1>1, <1>2, CallStays DEF RecallInv

LEMMA ProviderInv ==
    ASSUME RecallInv, ProviderAnswers
    PROVE  RecallInv'
<1>1. /\ phase = "ranking" /\ phase' = "refresh" /\ since' = Now
      /\ UNCHANGED <<fact, day, written, answer, steady>>
  BY DEF ProviderAnswers, worldVars
<1>2. /\ CallOK /\ Presented /\ day \in Nat /\ answer = None
      /\ call.ranked = <<>> /\ call.fresh = <<>>
  BY <1>1 DEF RecallInv
<1> DEFINE sent == ToSet(call.order)
<1>3. \/ call' = call
      \/ \E ai \in [sent -> {0, 1}] :
           call' = [call EXCEPT !.ranked =
                      Sorted(sent, {e \in sent \X sent : ByAuthority(e[1], e[2], ai)})]
  BY DEF ProviderAnswers
<1>4. sent \subseteq Facts
  BY <1>2, OrderOK DEF ShownOf, CallOK
<1>5. \A ai \in [sent -> {0, 1}] :
        Ranked(Sorted(sent, {e \in sent \X sent : ByAuthority(e[1], e[2], ai)}),
               sent, call.pts)
  BY <1>4, RankedByScores
<1> HIDE DEF sent
<1>6. /\ DOMAIN call' = DOMAIN call /\ call'.mode = call.mode
      /\ call'.asOf = call.asOf /\ call'.pts = call.pts
      /\ call'.order = call.order /\ call'.saturated = call.saturated
      /\ call'.fresh = call.fresh
      /\ call'.ranked # <<>> => Ranked(call'.ranked, sent, call.pts)
  <2>1. CASE call' = call
    BY <1>2, <2>1
  <2>2. ASSUME NEW r, call' = [call EXCEPT !.ranked = r], Ranked(r, sent, call.pts)
        PROVE  /\ DOMAIN call' = DOMAIN call /\ call'.mode = call.mode
               /\ call'.asOf = call.asOf /\ call'.pts = call.pts
               /\ call'.order = call.order /\ call'.saturated = call.saturated
               /\ call'.fresh = call.fresh
               /\ call'.ranked # <<>> => Ranked(call'.ranked, sent, call.pts)
    <3>1. call'.ranked = r
      BY <1>2, <2>2 DEF CallOK, CallFields
    <3> QED BY <1>2, <2>2, <3>1 DEF CallOK, CallFields
  <2> QED BY <1>3, <1>5, <2>1, <2>2
<1>7. FactsOK' /\ day' \in Nat \ {0} /\ CallOK' /\ Presented' /\ SteadyOK' /\ NowHeld'
  BY <1>1, <1>6, CallStays
<1>8. ProviderOK'
  <2>1. ProviderOK' <=> (call'.ranked # <<>> =>
                           Ranked(call'.ranked, ToSet(call'.order), call'.pts))
    BY DEF ProviderOK, Ranked, ToSet
  <2> QED BY <1>6, <2>1 DEF sent
<1>9. FreshOK'
  <2>1. call'.fresh = <<>>
    BY <1>2, <1>6
  <2>2. Len(call'.order) \in Nat
    BY <1>2, <1>6, OrderOK
  <2> QED BY <2>1, <2>2 DEF FreshOK
<1> QED BY <1>1, <1>2, <1>7, <1>8, <1>9 DEF RecallInv

LEMMA GetInv ==
    ASSUME RecallInv, Get
    PROVE  RecallInv'
<1>1. /\ phase = "refresh" /\ phase' = "refresh"
      /\ Len(call.fresh) < Len(call.order)
      /\ UNCHANGED <<fact, day, written, answer, steady, since>>
  BY DEF Get, worldVars
<1>2. /\ CallOK /\ Presented /\ SteadyOK /\ NowHeld /\ day \in Nat /\ answer = None
      /\ ProviderOK /\ FreshOK /\ FactsOK
  BY <1>1 DEF RecallInv
<1> DEFINE k == Len(call.fresh) + 1
           p == fact[call.order[k]]
<1>3. call' = [call EXCEPT !.fresh = Append(call.fresh, p)]
  BY DEF Get
<1>4. /\ DOMAIN call' = DOMAIN call /\ call'.mode = call.mode
      /\ call'.asOf = call.asOf /\ call'.pts = call.pts
      /\ call'.order = call.order /\ call'.saturated = call.saturated
      /\ call'.ranked = call.ranked /\ call'.fresh = Append(call.fresh, p)
  BY <1>2, <1>3 DEF CallOK, CallFields
<1>5. FactsOK' /\ day' \in Nat \ {0} /\ CallOK' /\ Presented' /\ SteadyOK' /\ NowHeld'
  BY <1>1, <1>4, CallStays
<1>6. ProviderOK'
  <2>1. ProviderOK' <=> (call'.ranked # <<>> =>
                           Ranked(call'.ranked, ToSet(call'.order), call'.pts))
    BY DEF ProviderOK, Ranked, ToSet
  <2> QED BY <1>2, <1>4, <2>1 DEF ProviderOK
<1>7. call.order \in Seq(Facts) /\ ToSet(call.order) \subseteq DOMAIN call.pts
  BY <1>2, OrderOK DEF ShownOf
<1>8. k \in Nat /\ k <= Len(call.order) /\ call.order[k] \in Facts
      /\ call.order[k] \in DOMAIN call.pts
  BY <1>1, <1>2, <1>7 DEF FreshOK, ToSet
<1>9. /\ p \in Storable \cup {None}
      /\ p # None => Held(call.order[k], p)
      /\ call.order[k] \in steady => Same(p, call.pts[call.order[k]])
  BY <1>2, <1>8 DEF FactsOK, NowHeld, SteadyOK
<1> HIDE DEF p
<1>10. FreshOK'
  <2>1. /\ call'.fresh \in Seq(Storable \cup {None}) /\ Len(call'.fresh) = k
        /\ \A i \in 1..k : call'.fresh[i] = IF i = k THEN p ELSE call.fresh[i]
        /\ \A i \in 1..k : i # k => i \in 1..Len(call.fresh)
    BY <1>2, <1>4, <1>9 DEF FreshOK
  <2>2. \A f, q : Held(f, q) => Held(f, q)'
    BY <1>1 DEF Held
  <2> HIDE DEF k
  <2>3. \A i \in 1..k :
          /\ call'.fresh[i] # None => Held(call.order[i], call'.fresh[i])
          /\ call.order[i] \in steady => Same(call'.fresh[i], call.pts[call.order[i]])
    BY <1>2, <1>9, <2>1 DEF FreshOK
  <2> QED BY <1>1, <1>4, <1>8, <2>1, <2>2, <2>3 DEF FreshOK
<1> QED BY <1>1, <1>2, <1>5, <1>6, <1>10 DEF RecallInv

LEMMA GetFailsInv ==
    ASSUME RecallInv, GetFails
    PROVE  RecallInv'
<1>1. /\ phase = "refresh" /\ phase' = "idle"
      /\ UNCHANGED <<fact, day, written, answer>>
  BY DEF GetFails, worldVars
<1>2. FactsOK'
  BY <1>1 DEF RecallInv, FactsOK
<1> QED BY <1>1, <1>2 DEF RecallInv

\* The call is answered by a sequence that was ranked: each fact in it was
\* held when it was fit to be shown, and the facts left alone that are still
\* fit to be shown are in the sequence.
LEMMA AnsweredInv ==
    ASSUME RecallInv, phase # "idle", phase' = "answered",
           UNCHANGED <<fact, day, written, steady, since, call>>,
           NEW o, NEW S, NEW pts, Ranked(o, S, pts),
           S \subseteq Facts, \A f \in S : pts[f] \in Storable,
           NEW applied \in BOOLEAN, Give(o, pts, applied),
           \A f \in S : /\ pts[f].scope
                        /\ \E on \in Int : /\ <<f, pts[f], on>> \in since
                                           /\ Shown(pts[f], call.mode, From(on)),
           \A f \in steady \cap DOMAIN call.pts :
              Shown(call.pts[f], call.mode, Reference) =>
                 f \in S /\ Tier(pts[f].life) = Tier(call.pts[f].life)
    PROVE  RecallInv'
<1>1. FactsOK' /\ day' \in Nat \ {0} /\ CallOK' /\ Presented' /\ SteadyOK' /\ NowHeld'
  BY CallStays
<1>2. /\ answer'.saturated = call.saturated
      /\ \A i \in DOMAIN answer'.facts :
            \E f \in S : answer'.facts[i] = <<f, pts[f]>>
      /\ \A f \in S :
            \/ \E i \in DOMAIN answer'.facts : answer'.facts[i][1] = f
            \/ /\ Len(answer'.facts) = Limit
               /\ \A i \in DOMAIN answer'.facts :
                     Tier(answer'.facts[i][2].life) <= Tier(pts[f].life)
  BY Given
<1>3. RecallIsFresh'
  <2> SUFFICES ASSUME NEW i \in DOMAIN answer'.facts
               PROVE  \E s \in since :
                         /\ <<s[1], s[2]>> = answer'.facts[i]
                         /\ s[2].scope
                         /\ Shown(s[2], call.mode,
                                  IF call.mode = "as_of" THEN call.asOf ELSE s[3])
    BY DEF RecallIsFresh
  <2>1. PICK f \in S : answer'.facts[i] = <<f, pts[f]>>
    BY <1>2
  <2>2. PICK on \in Int : <<f, pts[f], on>> \in since
                          /\ Shown(pts[f], call.mode, From(on)) /\ pts[f].scope
    OBVIOUS
  <2> DEFINE s == <<f, pts[f], on>>
  <2>3. s[1] = f /\ s[2] = pts[f] /\ s[3] = on /\ s \in since
    BY <2>2
  <2> HIDE DEF s
  <2> QED BY <2>1, <2>2, <2>3 DEF From
<1>4. Reference' = Reference
  BY DEF Reference
<1>5. answer' # None
  <2>1. call.saturated \in BOOLEAN
    BY DEF RecallInv, CallOK
  <2>2. answer' \in Answers
    BY <2>1, Given
  <2> QED BY <2>2, ReadsAssumption
<1>6. AnswerOK'
  BY <1>2, <1>3, <1>4, <1>5 DEF AnswerOK
<1> QED BY <1>1, <1>6 DEF RecallInv

LEMMA PlainInv ==
    ASSUME RecallInv, AnswerPlain
    PROVE  RecallInv'
<1>1. /\ phase = "found" /\ phase' = "answered"
      /\ UNCHANGED <<fact, day, written, steady, since, call>>
      /\ Give(call.order, call.pts, FALSE)
  BY DEF AnswerPlain, worldVars, Give
<1>2. /\ day \in Nat /\ CallOK /\ Presented
  BY <1>1 DEF RecallInv
<1>3. PICK on \in 1..day :
        /\ Ranked(call.order, ShownOf(call.pts, call.mode, From(on)), call.pts)
        /\ \A f \in DOMAIN call.pts : <<f, call.pts[f], on>> \in since
  BY <1>1, <1>2, OrderOK
<1> DEFINE S == ShownOf(call.pts, call.mode, From(on))
<1>4. \A f \in S : /\ call.pts[f].scope
                   /\ \E d \in Int : /\ <<f, call.pts[f], d>> \in since
                                     /\ Shown(call.pts[f], call.mode, From(d))
  BY <1>2, <1>3 DEF ShownOf, CallOK
<1>5. From(on) \in Int /\ From(day) \in Int /\ From(on) <= From(day)
      /\ Reference = From(day)
  BY <1>2 DEF From, CallOK, Reference
<1>6. \A f \in DOMAIN call.pts :
        Shown(call.pts[f], call.mode, Reference) => f \in S
  BY <1>2, <1>5, ShownBefore DEF CallOK, ShownOf
<1> HIDE DEF S
<1>7. Ranked(call.order, S, call.pts)
  BY <1>3 DEF S
<1>8. S \subseteq Facts /\ \A f \in S : call.pts[f] \in Storable
  BY <1>2 DEF S, ShownOf, CallOK
<1> QED BY <1>1, <1>4, <1>6, <1>7, <1>8, AnsweredInv

LEMMA RankedInv ==
    ASSUME RecallInv, AnswerRanked
    PROVE  RecallInv'
<1>1. /\ phase = "refresh" /\ phase' = "answered"
      /\ Len(call.fresh) = Len(call.order)
      /\ UNCHANGED <<fact, day, written, steady, since, call>>
  BY DEF AnswerRanked, worldVars, Give
<1>2. /\ day \in Nat /\ CallOK /\ Presented /\ SteadyOK /\ ProviderOK /\ FreshOK
  BY <1>1 DEF RecallInv
<1>3. PICK on \in 1..day :
        LET S == ShownOf(call.pts, call.mode, From(on)) IN
        /\ ToSet(call.order) = S
        /\ call.order \in Seq(Facts) /\ Len(call.order) = Cardinality(S)
  BY <1>2, OrderOK
<1> DEFINE sent == ToSet(call.order)
           now == Reread
           latest == [f \in {g \in DOMAIN now : InScope(now[g])} |-> now[f]]
           R == ShownOf(latest, call.mode, Reference)
           refreshed == Present(latest, call.mode, Reference)
<1>4. /\ DOMAIN now = sent
      /\ \A f \in sent :
           /\ now[f] \in Storable \cup {None}
           /\ now[f] # None => Held(f, now[f])
           /\ f \in steady => Same(now[f], call.pts[f])
  <2>1. DOMAIN now = sent
    BY DEF Reread
  <2> SUFFICES ASSUME NEW f \in sent
               PROVE  /\ now[f] \in Storable \cup {None}
                      /\ now[f] # None => Held(f, now[f])
                      /\ f \in steady => Same(now[f], call.pts[f])
    BY <2>1
  <2> DEFINE i == CHOOSE i \in DOMAIN call.order : call.order[i] = f
  <2>2. i \in DOMAIN call.order /\ call.order[i] = f
    BY DEF ToSet
  <2>3. now[f] = call.fresh[i]
    BY DEF Reread
  <2> HIDE DEF i, now
  <2>4. i \in 1..Len(call.fresh)
    BY <1>1, <1>3, <2>2
  <2> QED BY <1>2, <2>2, <2>3, <2>4 DEF FreshOK
<1> HIDE DEF now
<1>5. /\ sent \subseteq Facts /\ sent \subseteq DOMAIN call.pts
      /\ IsFiniteSet(sent) /\ Len(call.order) = Cardinality(sent)
  BY <1>2, <1>3, ReadsConstants, FS_Subset DEF ShownOf, CallOK
<1> HIDE DEF sent
<1>6. /\ DOMAIN latest \subseteq sent
      /\ \A f \in DOMAIN latest : latest[f] = now[f] /\ InScope(now[f])
  BY <1>4
<1>7. /\ R \subseteq sent
      /\ \A f \in R : latest[f] = now[f] /\ InScope(now[f])
                      /\ Shown(now[f], call.mode, Reference)
  BY <1>6 DEF ShownOf
<1>8. Ranked(refreshed, R, latest)
  BY <1>5, <1>6, Presentation
<1>9. \A f \in sent : Same(now[f], call.pts[f]) /\ Shown(call.pts[f], call.mode, Reference)
                        => f \in R /\ Tier(latest[f].life) = Tier(call.pts[f].life)
  <2> SUFFICES ASSUME NEW f \in sent, Same(now[f], call.pts[f]),
                      Shown(call.pts[f], call.mode, Reference)
               PROVE  f \in R /\ Tier(latest[f].life) = Tier(call.pts[f].life)
    OBVIOUS
  <2>1. Shown(now[f], call.mode, Reference) /\ Tier(now[f].life) = Tier(call.pts[f].life)
    BY ShownSame
  <2>2. InScope(now[f])
    BY <1>2, <1>5, <2>1, ReadsConstants DEF InScope, Same, CallOK, Shown
  <2>3. f \in DOMAIN latest /\ latest[f] = now[f]
    BY <1>4, <2>2
  <2> QED BY <2>1, <2>3 DEF ShownOf
<1>10. \A f \in R : /\ latest[f].scope
                    /\ \E d \in Int : /\ <<f, latest[f], d>> \in since
                                      /\ Shown(latest[f], call.mode, From(d))
  <2> SUFFICES ASSUME NEW f \in R
               PROVE  /\ latest[f].scope
                      /\ \E d \in Int : /\ <<f, latest[f], d>> \in since
                                        /\ Shown(latest[f], call.mode, From(d))
    OBVIOUS
  <2>1. latest[f] = now[f] /\ now[f] # None /\ now[f].scope /\ f \in sent
        /\ Shown(now[f], call.mode, Reference)
    BY <1>7 DEF InScope
  <2>2. PICK d \in 1..day : <<f, now[f], d>> \in since
    BY <1>4, <2>1 DEF Held
  <2>3. From(d) \in Int /\ From(day) \in Int /\ From(d) <= From(day)
        /\ Reference = From(day)
    BY <1>2 DEF From, CallOK, Reference
  <2>4. Shown(now[f], call.mode, From(d))
    BY <1>4, <2>1, <2>3, ShownBefore
  <2> QED BY <2>1, <2>2, <2>4
<1>11. \A f \in steady \cap DOMAIN call.pts :
         Shown(call.pts[f], call.mode, Reference) =>
            f \in R /\ Tier(latest[f].life) = Tier(call.pts[f].life)
  <2> SUFFICES ASSUME NEW f \in steady \cap DOMAIN call.pts,
                      Shown(call.pts[f], call.mode, Reference)
               PROVE  f \in R /\ Tier(latest[f].life) = Tier(call.pts[f].life)
    OBVIOUS
  <2>1. From(on) \in Int /\ From(day) \in Int /\ From(on) <= From(day)
        /\ Reference = From(day)
    BY <1>2 DEF From, CallOK, Reference
  <2>2. Shown(call.pts[f], call.mode, From(on))
    BY <1>2, <2>1, ShownBefore DEF CallOK
  <2>3. f \in sent
    BY <1>3, <2>2 DEF sent, ShownOf
  <2> QED BY <1>4, <1>9, <2>3
<1>11a. R \subseteq Facts /\ \A f \in R : latest[f] \in Storable
  BY <1>4, <1>5, <1>7 DEF InScope
<1>12. \/ \E applied \in BOOLEAN : Give(refreshed, latest, applied)
       \/ /\ Give(call.ranked, latest, TRUE)
          /\ call.ranked # <<>>
          /\ \A f \in DOMAIN now : Semantic(now[f]) = Semantic(call.pts[f])
          /\ Len(refreshed) = Len(call.order)
  BY DEF AnswerRanked, now
<1>13. CASE \E applied \in BOOLEAN : Give(refreshed, latest, applied)
  <2> HIDE DEF refreshed, latest, R
  <2> QED BY <1>1, <1>8, <1>10, <1>11, <1>11a, <1>13, AnsweredInv
<1>14. CASE /\ Give(call.ranked, latest, TRUE)
            /\ call.ranked # <<>>
            /\ \A f \in DOMAIN now : Semantic(now[f]) = Semantic(call.pts[f])
            /\ Len(refreshed) = Len(call.order)
  <2>1. \A f \in sent : Same(now[f], call.pts[f])
    BY <1>2, <1>4, <1>5, <1>14, SemanticSame DEF CallOK
  <2> HIDE DEF refreshed, latest, R
  <2>2. Len(refreshed) = Cardinality(R)
    BY <1>8 DEF Ranked
  <2>3. R = sent
    BY <1>5, <1>7, <1>14, <2>2, FS_Subset
  <2>4. Ranked(call.ranked, sent, call.pts)
    BY <1>2, <1>14 DEF ProviderOK, sent
  <2>5. \A f \in sent : Tier(latest[f].life) = Tier(call.pts[f].life)
    BY <1>7, <2>1, <2>3, ShownSame
  <2>6. Ranked(call.ranked, R, latest)
    BY <2>3, <2>4, <2>5 DEF Ranked
  <2> QED BY <1>1, <1>10, <1>11, <1>11a, <1>14, <2>6, AnsweredInv
<1> QED BY <1>12, <1>13, <1>14

LEMMA RecallStep == RecallInv /\ [Next]_vars => RecallInv'
<1> SUFFICES ASSUME RecallInv, [Next]_vars PROVE RecallInv'
  OBVIOUS
<1>1. FactsOK /\ FactsOK' /\ day \in Nat /\ (phase # "idle" => steady \subseteq Facts)
  BY FactsStep DEF RecallInv, SteadyOK
<1>2. CASE UNCHANGED vars
  <2>1. UNCHANGED <<phase, call, answer, since, steady, day, fact>>
    BY <1>2 DEF vars
  <2> QED BY <1>1, <2>1, WorldMoves
<1>3. ASSUME NEW mode \in Modes, NEW asOf \in 1..LastDay, Recall(mode, asOf)
      PROVE  RecallInv'
  BY <1>3, FoundInv
<1>4. CASE AnswerPlain
  BY <1>4, PlainInv
<1>5. CASE Dispatch
  BY <1>5, DispatchInv
<1>6. CASE ProviderAnswers
  BY <1>6, ProviderInv
<1>7. CASE Get
  BY <1>7, GetInv
<1>8. CASE GetFails
  BY <1>8, GetFailsInv
<1>9. CASE AnswerRanked
  BY <1>9, RankedInv
<1>10. ASSUME NEW f \in Facts, NEW input \in Inputs, SetLifecycle(f, input)
       PROVE  RecallInv'
  <2>1. /\ UNCHANGED <<phase, call, answer, day>>
        /\ since' = since \cup {<<f, fact'[f], day>>} /\ steady' = steady \ {f}
        /\ \A g \in Facts : g # f => fact'[g] = fact[g]
    BY <1>1, <1>10 DEF SetLifecycle, FactsOK
  <2> QED BY <1>1, <2>1, WorldMoves
<1>11. ASSUME NEW f \in Facts, Rewrite(f)
       PROVE  RecallInv'
  <2>1. /\ UNCHANGED <<phase, call, answer, day>> /\ steady' = steady \ {f}
        /\ \E new : Becomes(f, new)
    BY <1>11 DEF Rewrite
  <2>2. /\ since \subseteq since'
        /\ fact'[f] # None => <<f, fact'[f], day>> \in since'
        /\ \A g \in Facts : g # f => fact'[g] = fact[g]
    BY <1>1, <2>1 DEF Becomes, FactsOK
  <2> QED BY <1>1, <2>1, <2>2, WorldMoves
<1>12. ASSUME NEW f \in Facts, EditTags(f)
       PROVE  RecallInv'
  <2>1. /\ UNCHANGED <<phase, call, answer, day>>
        /\ since' = since \cup {<<f, fact'[f], day>>} /\ steady' = steady \ {f}
        /\ \A g \in Facts : g # f => fact'[g] = fact[g]
    BY <1>1, <1>12 DEF EditTags, FactsOK
  <2> QED BY <1>1, <2>1, WorldMoves
<1>13. ASSUME NEW f \in Facts, CountRecall(f)
       PROVE  RecallInv'
  <2>1. /\ UNCHANGED <<phase, call, answer, day, steady>>
        /\ since' = since \cup {<<f, fact'[f], day>>}
        /\ fact' = [fact EXCEPT ![f] = [fact[f] EXCEPT !.count = 1]]
        /\ fact[f] \in Storable
    BY <1>1, <1>13 DEF CountRecall, FactsOK
  <2>2. \A g \in Facts : g # f => fact'[g] = fact[g]
    BY <1>1, <2>1 DEF FactsOK
  <2>3. fact'[f] = [fact[f] EXCEPT !.count = 1]
    BY <1>1, <2>1 DEF FactsOK
  <2>4. Same(fact'[f], fact[f])
    BY <2>1, <2>3 DEF Same, Storable
  <2> QED BY <1>1, <2>1, <2>2, <2>4, WorldMoves
<1>14. CASE Reconfigure
  <2>1. UNCHANGED <<phase, call, answer, day, steady, since, fact>>
    BY <1>14 DEF Reconfigure
  <2> QED BY <1>1, <2>1, WorldMoves
<1>15. CASE NextDay
  <2>1. /\ UNCHANGED <<phase, call, answer, steady, fact>> /\ day' = day + 1
        /\ since' = since \cup {<<f, fact[f], day + 1>> : f \in {g \in Facts : fact[g] # None}}
    BY <1>15 DEF NextDay
  <2>2. \A f \in Facts : fact'[f] # None => <<f, fact'[f], day'>> \in since'
    BY <2>1
  <2>3. since \subseteq since' /\ day' \in Nat /\ day <= day'
    BY <1>1, <2>1
  <2> QED BY <1>1, <2>1, <2>2, <2>3, WorldMoves
<1> QED
  BY <1>2, <1>3, <1>4, <1>5, <1>6, <1>7, <1>8, <1>9, <1>10, <1>11, <1>12,
     <1>13, <1>14, <1>15
  DEF Next

LEMMA RecallInvariance == Spec => []RecallInv
BY RecallInit, RecallStep, PTL DEF Spec

\* A recall is faithful to the store, for any collection, scores, limits,
\* window and answers of the provider, however facts, catalog, configuration
\* and day change while it waits: what it answers was stored so and fit to be
\* shown at one moment since its last wait, and a fact that was there
\* unchanged all along gives way to facts with no less authority only
\* (recallFacts, aiRerank).
THEOREM RecallIsTrue == Spec => []RecallIsFaithful
<1>1. RecallInv => RecallIsFresh
  BY DEF RecallInv, AnswerOK, RecallIsFresh
<1>2. RecallInv => NothingBetterLeftOut
  <2> SUFFICES ASSUME RecallInv, answer # None,
                      NEW f \in steady \cap (IF answer.saturated THEN DOMAIN call.pts
                                             ELSE Matching(call.mode)),
                      Shown(fact[f], call.mode, Reference)
               PROVE  \/ \E i \in DOMAIN answer.facts : answer.facts[i][1] = f
                      \/ /\ Len(answer.facts) = Limit
                         /\ \A i \in DOMAIN answer.facts :
                               Tier(answer.facts[i][2].life) <= Tier(fact[f].life)
    BY DEF NothingBetterLeftOut
  <2>1. AnswerOK /\ SteadyOK
    BY DEF RecallInv
  <2>2. f \in steady \cap DOMAIN call.pts
    BY <2>1 DEF AnswerOK, SteadyOK
  <2>3. Same(fact[f], call.pts[f])
    BY <2>1, <2>2 DEF SteadyOK
  <2>4. /\ Shown(call.pts[f], call.mode, Reference)
        /\ Tier(call.pts[f].life) = Tier(fact[f].life)
    BY <2>3, ShownSame
  <2> QED BY <2>1, <2>2, <2>4 DEF AnswerOK
<1> QED BY <1>1, <1>2, RecallInvariance, PTL DEF RecallIsFaithful
------------------------------------------------------------------------------
(* The history of a fact: paths. *)

\* PathExists over any set of links.
Path(over, from, to) ==
    \A S \in SUBSET Ids :
        from \in S /\ (\A l \in over : l[1] \in S => l[2] \in S) => to \in S

LEMMA MorePaths ==
    ASSUME NEW over, NEW more, over \subseteq more, NEW a, NEW b, Path(over, a, b)
    PROVE  Path(more, a, b)
BY DEF Path

LEMMA NoPathAlone ==
    ASSUME NEW over, NEW a \in Ids, NEW b, a # b, \A l \in over : l[1] # a
    PROVE  ~Path(over, a, b)
<1>1. {a} \in SUBSET Ids /\ a \in {a} /\ b \notin {a} /\ \A l \in over : l[1] \in {a} => l[2] \in {a}
  OBVIOUS
<1> QED BY <1>1 DEF Path

LEMMA NoPathThere ==
    ASSUME NEW over, NEW a \in Ids, NEW b, a # b, \A l \in over : l[2] # b,
           over \subseteq Ids \X Ids
    PROVE  ~Path(over, a, b)
<1>1. /\ Ids \ {b} \in SUBSET Ids /\ a \in Ids \ {b} /\ b \notin Ids \ {b}
      /\ \A l \in over : l[2] \in Ids \ {b}
  OBVIOUS
<1> QED BY <1>1 DEF Path

\* A link that closes no cycle leaves none.
LEMMA NoCycleAdded ==
    ASSUME NEW over, over \subseteq Ids \X Ids, NEW a \in Ids, NEW b \in Ids, ~Path(over, b, a),
           NEW c \in Ids, NEW d \in Ids, <<c, d>> \in over \cup {<<a, b>>},
           <<c, d>> \in over => ~Path(over, d, c)
    PROVE  ~Path(over \cup {<<a, b>>}, d, c)
<1> DEFINE Closed(S) == \A l \in over : l[1] \in S => l[2] \in S
           ClosedNow(S) == \A l \in over \cup {<<a, b>>} : l[1] \in S => l[2] \in S
<1>1. PICK S \in SUBSET Ids : b \in S /\ a \notin S /\ Closed(S)
  BY DEF Path
<1>2. SUFFICES \E R \in SUBSET Ids : d \in R /\ c \notin R /\ ClosedNow(R)
  BY DEF Path
<1>3. ASSUME NEW R \in SUBSET Ids, Closed(R), a \in R => b \in R
      PROVE  ClosedNow(R)
  BY <1>3
<1>4. CASE <<c, d>> \notin over
  BY <1>1, <1>3, <1>4
<1>5. CASE <<c, d>> \in over
  <2>1. PICK R \in SUBSET Ids : d \in R /\ c \notin R /\ Closed(R)
    BY <1>5 DEF Path
  <2>2. CASE c \in S
    <3>1. d \in S
      BY <1>1, <1>5, <2>2
    <3>2. Closed(R \cap S) /\ R \cap S \in SUBSET Ids
      BY <1>1, <2>1
    <3>3. d \in R \cap S /\ c \notin R \cap S /\ a \notin R \cap S
      BY <1>1, <2>1, <3>1
    <3> HIDE DEF Closed, ClosedNow
    <3>4. ClosedNow(R \cap S)
      BY <1>3, <3>2, <3>3
    <3> QED BY <3>2, <3>3, <3>4
  <2>3. CASE c \notin S
    <3>1. Closed(R \cup S) /\ R \cup S \in SUBSET Ids
      BY <1>1, <2>1
    <3>2. d \in R \cup S /\ c \notin R \cup S /\ b \in R \cup S
      BY <1>1, <2>1, <2>3
    <3> HIDE DEF Closed, ClosedNow
    <3>3. ClosedNow(R \cup S)
      BY <1>3, <3>1, <3>2
    <3> QED BY <3>1, <3>2, <3>3
  <2> QED BY <2>2, <2>3
<1> QED BY <1>4, <1>5

------------------------------------------------------------------------------
(* The history of a fact: its invariant. *)

Statuses == {"resolved", "missing", "unavailable"}

HistoryTypeOK ==
    /\ view \in [Ids -> Views \cup {None}]
    /\ said \in [Ids -> Views \cup {None}]
    /\ queue \in Seq(Ids)
    /\ fetched \in Nat
    /\ discovered \in SUBSET Ids
    /\ status \in [Ids -> Statuses \cup {"pending"}]
    /\ DOMAIN links \in SUBSET (Ids \X Ids)
    /\ links \in [DOMAIN links -> Statuses \cup {"pending", "cycle"}]
    /\ truncated \in BOOLEAN
    /\ at \in Ids

\* The queue holds, each once, the discovered facts that were not read, and
\* there is room for all of them in what may be read.
QueueOK ==
    /\ fetched + Len(queue) <= MaxFetched
    /\ \A i \in 1..Len(queue) : queue[i] \in discovered /\ status[queue[i]] = "pending"
    /\ \A i, j \in 1..Len(queue) : queue[i] = queue[j] => i = j
    /\ \A f \in discovered : status[f] = "pending" => \E i \in 1..Len(queue) : queue[i] = f
    /\ \A f \in Ids : status[f] # "pending" => f \in discovered

\* f was read, and its relations could be.
Readable(f) == status[f] = "resolved" /\ said[f].valid

ReadOK ==
    /\ \A f \in Ids : status[f] = "resolved" => said[f] \in Views
    /\ rest # {} => Readable(at) /\ rest \subseteq History!Relations(at, said[at])

LinksOK ==
    /\ \A l \in DOMAIN links :
          \E f \in Ids : Readable(f) /\ l \in History!Relations(f, said[f])
    /\ ~truncated =>
          /\ \A f \in Ids : Readable(f) =>
                \A l \in History!Relations(f, said[f]) :
                    l \in DOMAIN links \/ (f = at /\ l \in rest)
          /\ \A l \in DOMAIN links : l[1] \in discovered /\ l[2] \in discovered
    /\ \A l \in DOMAIN links : links[l] = "pending" =>
          \/ status[l[1]] = "resolved" /\ l[2] \in discovered /\ status[l[2]] = "pending"
          \/ status[l[2]] = "resolved" /\ l[1] \in discovered /\ status[l[1]] = "pending"
    /\ \A l \in DOMAIN links : links[l] = "resolved" =>
          status[l[1]] = "resolved" /\ status[l[2]] = "resolved"

CyclesOK == \A l \in DOMAIN links :
                links[l] = "cycle" <=> Path(History!Straight, l[2], l[1])

HistoryInv ==
    /\ HistoryTypeOK
    /\ stage # "not found" => QueueOK /\ ReadOK /\ LinksOK /\ CyclesOK
    /\ stage = "found" => rest = {} /\ queue = <<>>

LEMMA HistoryConstants ==
    /\ Ids \subseteq Nat /\ Asked \in Ids /\ None \notin Views
    /\ Views \subseteq [active : BOOLEAN, valid : BOOLEAN, sup : SUBSET Ids, by : SUBSET Ids]
    /\ MaxFetched \in Nat /\ MaxFetched >= 1
<1>1. MaxFetched \in {MaxFetched, MaxQueued, MaxLinks}
  OBVIOUS
<1> QED BY <1>1, HistoryBounds DEF History!HistoryAssumption

LEMMA QueueFacts ==
    ASSUME HistoryTypeOK
    PROVE  /\ Len(queue) \in Nat
           /\ DOMAIN queue = 1..Len(queue)
           /\ \A i \in 1..Len(queue) : queue[i] \in Ids
           /\ queue = <<>> \/ Len(queue) >= 1
           /\ \A l \in DOMAIN links : l[1] \in Ids /\ l[2] \in Ids
<1>1. queue \in Seq(Ids)
  BY DEF HistoryTypeOK
<1>2. \A l \in DOMAIN links : l[1] \in Ids /\ l[2] \in Ids
  BY DEF HistoryTypeOK
<1> QED BY <1>1, <1>2

LEMMA HistoryInitInv == History!Init => HistoryInv
<1> SUFFICES ASSUME History!Init PROVE HistoryInv
  OBVIOUS
<1> USE HistoryConstants DEF History!Init
<1>0. links = [l \in {} |-> "pending"]
  OBVIOUS
<1>1. DOMAIN links = {} /\ links \in [{} -> Statuses \cup {"pending", "cycle"}]
  BY ONLY <1>0
<1>2. HistoryTypeOK
  <2>1. queue \in Seq(Ids)
    OBVIOUS
  <2>2. status \in [Ids -> Statuses \cup {"pending"}] /\ said \in [Ids -> Views \cup {None}]
    OBVIOUS
  <2> QED BY <1>1, <2>1, <2>2 DEF HistoryTypeOK
<1>3. Len(queue) = 1 /\ queue[1] = Asked
  OBVIOUS
<1>4. QueueOK
  BY <1>3 DEF QueueOK
<1>5. ReadOK
  BY DEF ReadOK, Readable
<1>6. LinksOK
  BY <1>1 DEF LinksOK, Readable
<1>7. CyclesOK
  BY <1>1 DEF CyclesOK
<1> QED BY <1>2, <1>4, <1>5, <1>6, <1>7 DEF HistoryInv

LEMMA RelationsType ==
    ASSUME NEW f \in Ids, NEW v \in Views
    PROVE  /\ History!Relations(f, v) \subseteq Ids \X Ids
           /\ \A l \in History!Relations(f, v) : l[1] = f \/ l[2] = f
BY HistoryBounds DEF History!HistoryAssumption, History!Relations

LEMMA FetchInv ==
    ASSUME HistoryInv, History!Fetch
    PROVE  HistoryInv'
<1> DEFINE f == Head(queue)
           v == view[f]
           s == History!StatusOf(v)
           n == Len(queue)
           rels == IF History!Active(v) /\ v.valid THEN History!Relations(f, v) ELSE {}
<1>1. /\ stage = "loading" /\ rest = {} /\ queue # <<>> /\ fetched < MaxFetched
      /\ fetched' = fetched + 1
      /\ said' = [said EXCEPT ![f] = v]
      /\ view' = view /\ discovered' = discovered
      /\ \/ /\ stage' = "not found"
            /\ UNCHANGED <<queue, status, links, truncated, at, rest>>
         \/ /\ queue' = Tail(queue)
            /\ status' = [status EXCEPT ![f] = s]
            /\ links' = History!Resolve(f, s)
            /\ at' = f
            /\ rest' = IF History!LinksFull THEN {} ELSE rels
            /\ truncated' = (truncated \/ (History!LinksFull /\ rels # {}))
            /\ stage' = stage
  BY DEF History!Fetch
<1>2. HistoryTypeOK /\ QueueOK /\ ReadOK /\ LinksOK /\ CyclesOK
  BY <1>1 DEF HistoryInv
<1>3. /\ f = queue[1] /\ n \in Nat /\ n >= 1 /\ f \in Ids
      /\ f \in discovered /\ status[f] = "pending"
  <2>1. queue \in Seq(Ids) /\ queue # <<>>
    BY <1>1, <1>2 DEF HistoryTypeOK
  <2>2. f = queue[1] /\ n \in Nat /\ n >= 1
    BY ONLY <2>1
  <2>3. f \in Ids
    BY ONLY <2>1
  <2>4. queue[1] \in discovered /\ status[queue[1]] = "pending"
    BY ONLY <1>2, <2>2 DEF QueueOK
  <2> QED BY ONLY <2>2, <2>3, <2>4
<1>4. v \in Views \cup {None} /\ s \in Statuses
      /\ (s = "resolved" => v \in Views /\ v # None /\ History!Active(v))
  BY <1>2, <1>3 DEF HistoryTypeOK, History!StatusOf, History!Active, Statuses
<1>5. /\ said' \in [Ids -> Views \cup {None}]
      /\ said'[f] = v /\ \A g \in Ids \ {f} : said'[g] = said[g]
  BY <1>1, <1>2, <1>3, <1>4 DEF HistoryTypeOK
<1> HIDE DEF v, s, f, rels
<1>6. CASE stage' = "not found" /\ UNCHANGED <<queue, status, links, truncated, at, rest>>
  <2>1. HistoryTypeOK'
    <3>1. fetched' \in Nat
      <4>1. fetched \in Nat
        BY <1>2 DEF HistoryTypeOK
      <4>2. fetched' = fetched + 1
        BY <1>1
      <4> QED BY ONLY <4>1, <4>2
    <3>2. UNCHANGED <<view, queue, status, discovered, links, truncated, at>>
      BY <1>1, <1>6
    <3> QED BY <1>2, <1>5, <3>1, <3>2 DEF HistoryTypeOK
  <2> QED BY <1>6, <2>1 DEF HistoryInv
<1>7. CASE /\ queue' = Tail(queue)
           /\ status' = [status EXCEPT ![f] = s]
           /\ links' = History!Resolve(f, s)
           /\ at' = f
           /\ rest' = IF History!LinksFull THEN {} ELSE rels
           /\ truncated' = (truncated \/ (History!LinksFull /\ rels # {}))
           /\ stage' = stage
  <2>1. /\ queue' \in Seq(Ids) /\ Len(queue') = n - 1
        /\ \A i \in 1..(n - 1) : queue'[i] = queue[i + 1]
    <3>1. queue \in Seq(Ids) /\ queue # <<>> /\ queue' = Tail(queue)
      BY <1>1, <1>2, <1>7 DEF HistoryTypeOK
    <3> QED BY ONLY <3>1
  <2>2. /\ status' \in [Ids -> Statuses \cup {"pending"}]
        /\ status'[f] = s /\ \A g \in Ids \ {f} : status'[g] = status[g]
    BY <1>2, <1>3, <1>4, <1>7 DEF HistoryTypeOK
  <2>3. /\ DOMAIN links' = DOMAIN links
        /\ \A l \in DOMAIN links :
              links'[l] = IF links[l] = "pending" /\ (l[1] = f \/ l[2] = f) THEN s ELSE links[l]
    BY <1>7 DEF History!Resolve
  <2>4. links' \in [DOMAIN links' -> Statuses \cup {"pending", "cycle"}]
    BY <1>2, <1>4, <1>7 DEF HistoryTypeOK, History!Resolve
  <2>5. HistoryTypeOK'
    <3>1. fetched' \in Nat /\ truncated' \in BOOLEAN /\ at' \in Ids
      BY <1>1, <1>2, <1>3, <1>7 DEF HistoryTypeOK
    <3>2. view' = view /\ discovered' = discovered
      BY <1>1
    <3> QED BY <1>2, <1>5, <2>1, <2>2, <2>3, <2>4, <3>1, <3>2 DEF HistoryTypeOK
  <2>6. QueueOK'
    <3>1. (fetched + Len(queue) <= MaxFetched)'
      <4>1. fetched + n <= MaxFetched /\ fetched \in Nat /\ fetched' = fetched + 1
            /\ Len(queue') = n - 1
        BY <1>1, <1>2, <2>1 DEF QueueOK, HistoryTypeOK
      <4> QED BY ONLY <1>3, <4>1, HistoryConstants
    <3>2. \A i \in 2..n : queue[i] # f
      <4>1. \A i, j \in 1..n : queue[i] = queue[j] => i = j
        BY <1>2 DEF QueueOK
      <4>2. \A i \in 2..n : i \in 1..n /\ 1 \in 1..n /\ i # 1
        BY <1>3
      <4> HIDE DEF n
      <4> QED BY ONLY <1>3, <4>1, <4>2
    <3> HIDE DEF n
    <3>7. \A i \in 1..n : queue[i] \in Ids
      BY <1>2, QueueFacts DEF n
    <3>3. ASSUME NEW i \in 1..(n - 1)
          PROVE  queue'[i] \in discovered' /\ status'[queue'[i]] = "pending"
      <4>1. i + 1 \in 2..n /\ i + 1 \in 1..n /\ queue'[i] = queue[i + 1]
        BY <1>3, <2>1
      <4>2. queue[i + 1] \in discovered /\ status[queue[i + 1]] = "pending"
            /\ queue[i + 1] # f /\ queue[i + 1] \in Ids
        BY <1>2, <3>2, <3>7, <4>1 DEF QueueOK, n
      <4> QED BY <1>1, <2>2, <4>1, <4>2
    <3>4. ASSUME NEW i \in 1..(n - 1), NEW j \in 1..(n - 1), queue'[i] = queue'[j]
          PROVE  i = j
      <4>1. i + 1 \in 1..n /\ j + 1 \in 1..n /\ queue[i + 1] = queue[j + 1]
        BY <1>3, <2>1, <3>4
      <4> QED BY <1>2, <4>1 DEF QueueOK, n
    <3>5. ASSUME NEW g \in discovered, status'[g] = "pending"
          PROVE  \E i \in 1..(n - 1) : queue'[i] = g
      <4>1. g # f /\ g \in Ids /\ status[g] = "pending"
        BY <1>2, <1>4, <2>2, <3>5 DEF HistoryTypeOK, Statuses
      <4>2. PICK i \in 1..n : queue[i] = g
        BY <1>2, <4>1 DEF QueueOK, n
      <4>3. i # 1
        BY <1>3, <4>1, <4>2
      <4>4. i - 1 \in 1..(n - 1) /\ queue'[i - 1] = queue[(i - 1) + 1] /\ (i - 1) + 1 = i
        BY <1>3, <2>1, <4>3
      <4> QED BY <4>2, <4>4
    <3>6. \A g \in Ids : status'[g] # "pending" => g \in discovered
      BY <1>2, <1>3, <2>2 DEF QueueOK
    <3> QED BY <1>1, <2>1, <3>1, <3>3, <3>4, <3>5, <3>6 DEF QueueOK, n
  <2>7. \A g \in Ids : status[g] = "resolved" => g # f /\ status'[g] = status[g] /\ said'[g] = said[g]
    BY <1>3, <1>5, <2>2
  <2>8. rels # {} => v \in Views /\ v.valid /\ s = "resolved" /\ rels = History!Relations(f, v)
    BY <1>4 DEF rels, s, History!Active, History!StatusOf
  <2>9. ReadOK'
    <3>1. ASSUME NEW g \in Ids, status'[g] = "resolved" PROVE said'[g] \in Views
      <4>1. CASE g = f
        BY <1>4, <1>5, <2>2, <3>1, <4>1
      <4>2. CASE g # f
        BY <1>2, <1>5, <2>2, <3>1, <4>2 DEF ReadOK
      <4> QED BY <4>1, <4>2
    <3>2. rest' \subseteq rels
      BY <1>7
    <3>3. rest' \subseteq History!Relations(f, v)
      BY <2>8, <3>2
    <3>4. rest' # {} => status'[f] = "resolved" /\ said'[f].valid
      BY <1>5, <2>2, <2>8, <3>2
    <3>5. at' = f /\ said'[at'] = v
      BY <1>5, <1>7
    <3>6. rest' \subseteq History!Relations(at', said'[at'])
      BY <3>3, <3>5
    <3>7. rest' # {} => status'[at'] = "resolved" /\ said'[at'].valid
      BY <3>4, <3>5
    <3>8. (rest \subseteq History!Relations(at, said[at]))'
      BY <3>6 DEF History!Relations
    <3> QED BY <3>1, <3>7, <3>8 DEF ReadOK, Readable
  <2>10. LinksOK'
    <3>1. ASSUME NEW l \in DOMAIN links'
          PROVE  \E g \in Ids : Readable(g)' /\ l \in History!Relations(g, said'[g])
      <4>1. PICK g \in Ids : Readable(g) /\ l \in History!Relations(g, said[g])
        BY <1>2, <2>3, <3>1 DEF LinksOK
      <4>2. Readable(g)' /\ said'[g] = said[g]
        BY <2>7, <4>1 DEF Readable
      <4> QED BY <4>1, <4>2
    <3>2. ASSUME ~truncated', NEW g \in Ids, Readable(g)',
                 NEW l \in History!Relations(g, said'[g])
          PROVE  l \in DOMAIN links' \/ (g = at' /\ l \in rest')
      <4>1. ~truncated /\ ~(History!LinksFull /\ rels # {})
        BY <1>7, <3>2
      <4>2. CASE g = f
        <5>1. s = "resolved" /\ v.valid /\ said'[g] = v
          BY <1>5, <2>2, <3>2, <4>2 DEF Readable
        <5>2. rels = History!Relations(f, v)
          BY <1>4, <5>1 DEF rels
        <5>3. rels # {} /\ l \in rels
          BY <3>2, <4>2, <5>1, <5>2
        <5> QED BY <1>7, <4>1, <4>2, <5>3
      <4>3. CASE g # f
        <5>1. Readable(g) /\ said'[g] = said[g]
          BY <1>5, <2>2, <3>2, <4>3 DEF Readable
        <5>2. l \in DOMAIN links \/ (g = at /\ l \in rest)
          BY <1>2, <3>2, <4>1, <5>1 DEF LinksOK
        <5> QED BY <1>1, <2>3, <5>2
      <4> QED BY <4>2, <4>3
    <3>3. ~truncated' => \A l \in DOMAIN links' : l[1] \in discovered' /\ l[2] \in discovered'
      BY <1>1, <1>2, <1>7, <2>3 DEF LinksOK
    <3>4. ASSUME NEW l \in DOMAIN links', links'[l] = "pending"
          PROVE  \/ status'[l[1]] = "resolved" /\ l[2] \in discovered' /\ status'[l[2]] = "pending"
                 \/ status'[l[2]] = "resolved" /\ l[1] \in discovered' /\ status'[l[1]] = "pending"
      <4>1. links[l] = "pending" /\ l[1] # f /\ l[2] # f /\ l[1] \in Ids /\ l[2] \in Ids
        BY <1>2, <1>4, <2>3, <3>4, QueueFacts DEF Statuses
      <4>2. status'[l[1]] = status[l[1]] /\ status'[l[2]] = status[l[2]]
        BY <2>2, <4>1
      <4> QED BY <1>1, <1>2, <2>3, <4>1, <4>2 DEF LinksOK
    <3>5. ASSUME NEW l \in DOMAIN links', links'[l] = "resolved"
          PROVE  status'[l[1]] = "resolved" /\ status'[l[2]] = "resolved"
      <4>1. l \in DOMAIN links /\ l[1] \in Ids /\ l[2] \in Ids
        BY <1>2, <2>3, QueueFacts
      <4>2. CASE links[l] = "resolved"
        BY <1>2, <2>7, <4>1, <4>2 DEF LinksOK
      <4>3. CASE links[l] # "resolved"
        <5>1. links[l] = "pending" /\ s = "resolved" /\ (l[1] = f \/ l[2] = f)
          BY <2>3, <3>5, <4>1, <4>3
        <5>2. (status[l[1]] = "resolved" /\ l[2] = f) \/ (status[l[2]] = "resolved" /\ l[1] = f)
          BY <1>2, <1>3, <4>1, <5>1 DEF LinksOK
        <5> QED BY <2>2, <2>7, <4>1, <5>1, <5>2
      <4> QED BY <4>2, <4>3
    <3> QED BY <3>1, <3>2, <3>3, <3>4, <3>5 DEF LinksOK
  <2>11. CyclesOK'
    <3>1. \A l \in DOMAIN links : links'[l] = "cycle" <=> links[l] = "cycle"
      BY <1>4, <2>3 DEF Statuses
    <3>2. History!Straight' = History!Straight
      BY <2>3, <3>1 DEF History!Straight
    <3> QED BY <1>2, <2>3, <3>1, <3>2 DEF CyclesOK
  <2> QED BY <1>1, <1>7, <2>5, <2>6, <2>9, <2>10, <2>11 DEF HistoryInv
<1> QED BY <1>1, <1>6, <1>7

LEMMA AddInv ==
    ASSUME HistoryInv, stage = "loading", NEW l \in rest, l \notin DOMAIN links, History!Add(l),
           UNCHANGED <<view, stage, fetched, status, at, said>>
    PROVE  HistoryInv'
<1> DEFINE t == IF l[1] = at THEN l[2] ELSE l[1]
<1>1. HistoryTypeOK /\ QueueOK /\ ReadOK /\ LinksOK /\ CyclesOK
  BY DEF HistoryInv
<1>2. /\ Readable(at) /\ at \in Ids /\ said[at] \in Views
      /\ l \in History!Relations(at, said[at])
  BY <1>1 DEF ReadOK, HistoryTypeOK, Readable
<1>3. /\ l \in Ids \X Ids /\ l = <<l[1], l[2]>> /\ l[1] \in Ids /\ l[2] \in Ids
      /\ (l[1] = at /\ l[2] = t) \/ (l[1] = t /\ l[2] = at)
  BY <1>2, RelationsType
<1>4. status[at] = "resolved" /\ at \in discovered
  BY <1>1, <1>2 DEF Readable, QueueOK
<1>5. PICK s :
         /\ links' = [k \in DOMAIN links \cup {l} |-> IF k = l THEN s ELSE links[k]]
         /\ rest' = rest \ {l}
         /\ \/ /\ Path(History!Straight, l[2], l[1])
               /\ s = "cycle"
               /\ UNCHANGED <<queue, discovered, truncated>>
            \/ /\ ~Path(History!Straight, l[2], l[1])
               /\ \/ /\ t \in discovered
                     /\ s = status[t]
                     /\ UNCHANGED <<queue, discovered, truncated>>
                  \/ /\ s = "unavailable"
                     /\ truncated' = TRUE
                     /\ UNCHANGED <<queue, discovered>>
                  \/ /\ t \notin discovered
                     /\ s = "pending"
                     /\ fetched + Len(queue) < MaxFetched
                     /\ discovered' = discovered \cup {t}
                     /\ queue' = Append(queue, t)
                     /\ UNCHANGED truncated
  <2> DEFINE Puts(s) == links' = [k \in DOMAIN links \cup {l} |-> IF k = l THEN s ELSE links[k]]
  <2>1. rest' = rest \ {l}
    BY DEF History!Add
  <2>2. CASE Path(History!Straight, l[2], l[1])
    <3>1. Puts("cycle") /\ UNCHANGED <<queue, discovered, truncated>>
      BY <2>2 DEF History!Add, History!PathExists, Path, History!Put
    <3> QED BY <2>1, <2>2, <3>1
  <2>3. CASE ~Path(History!Straight, l[2], l[1]) /\ t \in discovered
    <3>1. Puts(status[t]) /\ UNCHANGED <<queue, discovered, truncated>>
      BY <2>3 DEF History!Add, History!PathExists, Path, History!Put
    <3> QED BY <2>1, <2>3, <3>1
  <2>4. CASE ~Path(History!Straight, l[2], l[1]) /\ t \notin discovered /\ History!Full
    <3>1. Puts("unavailable") /\ truncated' = TRUE /\ UNCHANGED <<queue, discovered>>
      BY <2>4 DEF History!Add, History!PathExists, Path, History!Put
    <3> QED BY <2>1, <2>4, <3>1
  <2>5. CASE ~Path(History!Straight, l[2], l[1]) /\ t \notin discovered /\ ~History!Full
    <3>1. /\ Puts("pending") /\ discovered' = discovered \cup {t}
          /\ queue' = Append(queue, t) /\ UNCHANGED truncated
      BY <2>5 DEF History!Add, History!PathExists, Path, History!Put
    <3>2. fetched + Len(queue) < MaxFetched
      <4>1. ~(fetched + Len(queue) >= MaxFetched)
        BY <2>5 DEF History!Full
      <4>2. fetched \in Nat /\ Len(queue) \in Nat /\ MaxFetched \in Nat
        BY <1>1, QueueFacts, HistoryConstants DEF HistoryTypeOK
      <4> QED BY ONLY <4>1, <4>2
    <3> QED BY <2>1, <2>5, <3>1, <3>2
  <2> QED BY <2>2, <2>3, <2>4, <2>5
<1> HIDE DEF t
<1>6. s \in Statuses \cup {"pending", "cycle"} /\ t \in Ids
      /\ (s = "cycle" <=> Path(History!Straight, l[2], l[1]))
      /\ (s = "resolved" => status[t] = "resolved")
      /\ (s = "pending" => t \in discovered' /\ status[t] = "pending")
  <2>1. t \in Ids /\ status[t] \in Statuses \cup {"pending"}
        /\ (status[t] # "pending" => t \in discovered)
    BY <1>1, <1>3 DEF HistoryTypeOK, QueueOK, t
  <2> QED BY <1>5, <2>1 DEF Statuses
<1>7. /\ DOMAIN links' = DOMAIN links \cup {l}
      /\ links'[l] = s /\ \A k \in DOMAIN links : links'[k] = links[k]
  BY <1>5
<1>8. discovered \subseteq discovered' /\ discovered' \subseteq discovered \cup {t}
      /\ (truncated => truncated') /\ truncated' \in BOOLEAN
  BY <1>1, <1>5 DEF HistoryTypeOK
<1>9. HistoryTypeOK'
  <2>1. links' \in [DOMAIN links' -> Statuses \cup {"pending", "cycle"}]
    BY <1>1, <1>5, <1>6 DEF HistoryTypeOK
  <2>2. DOMAIN links' \in SUBSET (Ids \X Ids) /\ discovered' \in SUBSET Ids
    BY <1>1, <1>3, <1>6, <1>7, <1>8 DEF HistoryTypeOK
  <2>3. queue' \in Seq(Ids)
    <3>1. queue \in Seq(Ids)
      BY <1>1 DEF HistoryTypeOK
    <3>2. queue' = queue \/ queue' = Append(queue, t)
      BY <1>5
    <3> QED BY ONLY <1>6, <3>1, <3>2
  <2> QED BY <1>1, <1>8, <2>1, <2>2, <2>3 DEF HistoryTypeOK
<1>10. QueueOK'
  <2>1. CASE UNCHANGED <<queue, discovered>>
    BY <1>1, <2>1 DEF QueueOK
  <2>2. CASE /\ t \notin discovered /\ fetched + Len(queue) < MaxFetched
             /\ discovered' = discovered \cup {t} /\ queue' = Append(queue, t)
    <3> DEFINE n == Len(queue)
    <3>1. queue \in Seq(Ids) /\ n \in Nat /\ fetched \in Nat /\ MaxFetched \in Nat
      BY <1>1, QueueFacts, HistoryConstants DEF HistoryTypeOK
    <3>2. /\ Len(queue') = n + 1 /\ queue'[n + 1] = t
          /\ \A i \in 1..n : queue'[i] = queue[i]
      BY ONLY <2>2, <3>1, <1>6
    <3>3. \A i \in 1..(n + 1) : i \in 1..n \/ i = n + 1
      BY <3>1
    <3>4. \A i \in 1..n : i \in 1..(n + 1)
      BY <3>1
    <3>5. n + 1 \in 1..(n + 1)
      BY <3>1
    <3>6. /\ \A i \in 1..n : queue[i] \in discovered /\ status[queue[i]] = "pending"
          /\ \A i, j \in 1..n : queue[i] = queue[j] => i = j
          /\ \A f \in discovered : status[f] = "pending" => \E i \in 1..n : queue[i] = f
          /\ \A f \in Ids : status[f] # "pending" => f \in discovered
      BY <1>1 DEF QueueOK
    <3>7. fetched + Len(queue') <= MaxFetched
      BY <2>2, <3>1, <3>2
    <3> HIDE DEF n
    <3>8. \A i \in 1..(n + 1) : queue'[i] \in discovered' /\ status[queue'[i]] = "pending"
      BY <1>6, <2>2, <3>2, <3>3, <3>6
    <3>9. \A i, j \in 1..(n + 1) : queue'[i] = queue'[j] => i = j
      BY <2>2, <3>2, <3>3, <3>6
    <3>10. \A f \in discovered' : status[f] = "pending" => \E i \in 1..(n + 1) : queue'[i] = f
      BY <2>2, <3>2, <3>4, <3>5, <3>6
    <3> QED BY <1>8, <3>2, <3>6, <3>7, <3>8, <3>9, <3>10 DEF QueueOK
  <2> QED BY <1>5, <2>1, <2>2
<1>11. ReadOK'
  <2>1. rest' \subseteq rest /\ UNCHANGED <<status, at, said>>
    BY <1>5
  <2>2. (rest \subseteq History!Relations(at, said[at]))'
    BY <1>1, <2>1 DEF ReadOK, History!Relations
  <2> QED BY <1>1, <2>1, <2>2 DEF ReadOK, Readable
<1>12. LinksOK'
  <2>1. \A f : Readable(f)' <=> Readable(f)
    BY DEF Readable
  <2>2. \A f : History!Relations(f, said'[f]) = History!Relations(f, said[f])
    OBVIOUS
  <2>3. \A k \in DOMAIN links' : \E f \in Ids : Readable(f)' /\ k \in History!Relations(f, said'[f])
    BY <1>1, <1>2, <1>7, <2>1, <2>2 DEF LinksOK
  <2>4. ASSUME ~truncated', NEW f \in Ids, Readable(f)', NEW k \in History!Relations(f, said'[f])
        PROVE  k \in DOMAIN links' \/ (f = at' /\ k \in rest')
    <3>1. k \in DOMAIN links \/ (f = at /\ k \in rest)
      BY <1>1, <1>8, <2>1, <2>2, <2>4 DEF LinksOK
    <3> QED BY <1>5, <1>7, <3>1
  <2>5. ASSUME ~truncated', NEW k \in DOMAIN links'
        PROVE  k[1] \in discovered' /\ k[2] \in discovered'
    <3>1. \A m \in DOMAIN links : m[1] \in discovered /\ m[2] \in discovered
      BY <1>1, <1>8, <2>5 DEF LinksOK
    <3>2. CASE k # l
      BY <1>7, <1>8, <2>5, <3>1, <3>2
    <3>3. CASE k = l
      <4>1. t \in discovered'
        <5>1. CASE s = "cycle"
          <6>1. Path(History!Straight, l[2], l[1]) /\ History!Straight \subseteq DOMAIN links
                /\ History!Straight \subseteq Ids \X Ids
            BY <1>1, <1>6, <5>1 DEF History!Straight, HistoryTypeOK
          <6>2. CASE l[1] = l[2]
            BY <1>3, <1>4, <1>8, <6>2
          <6>3. CASE l[1] # l[2]
            <7>1. PICK k1 \in History!Straight : k1[1] = l[2]
              BY <1>3, <6>1, <6>3, NoPathAlone
            <7>2. PICK k2 \in History!Straight : k2[2] = l[1]
              BY <1>3, <6>1, <6>3, NoPathThere
            <7> QED BY <1>3, <1>8, <3>1, <6>1, <7>1, <7>2
          <6> QED BY <6>2, <6>3
        <5>2. CASE s # "cycle"
          BY <1>5, <2>5, <5>2
        <5> QED BY <5>1, <5>2
      <4> QED BY <1>3, <1>4, <1>8, <3>3, <4>1
    <3> QED BY <3>2, <3>3
  <2>6. ASSUME NEW k \in DOMAIN links', links'[k] = "pending"
        PROVE  \/ status'[k[1]] = "resolved" /\ k[2] \in discovered' /\ status'[k[2]] = "pending"
               \/ status'[k[2]] = "resolved" /\ k[1] \in discovered' /\ status'[k[1]] = "pending"
    <3>1. CASE k = l
      BY <1>3, <1>4, <1>6, <1>7, <2>6, <3>1
    <3>2. CASE k # l
      BY <1>1, <1>7, <1>8, <2>6, <3>2 DEF LinksOK
    <3> QED BY <3>1, <3>2
  <2>7. ASSUME NEW k \in DOMAIN links', links'[k] = "resolved"
        PROVE  status'[k[1]] = "resolved" /\ status'[k[2]] = "resolved"
    <3>1. CASE k = l
      BY <1>3, <1>4, <1>6, <1>7, <2>7, <3>1
    <3>2. CASE k # l
      BY <1>1, <1>7, <2>7, <3>2 DEF LinksOK
    <3> QED BY <3>1, <3>2
  <2> QED BY <2>3, <2>4, <2>5, <2>6, <2>7 DEF LinksOK
<1>13. CyclesOK'
  <2>1. CASE s = "cycle"
    <3>1. History!Straight' = History!Straight
      BY <1>7, <2>1 DEF History!Straight
    <3>2. ASSUME NEW k \in DOMAIN links'
          PROVE  links'[k] = "cycle" <=> Path(History!Straight, k[2], k[1])
      BY <1>1, <1>6, <1>7, <2>1 DEF CyclesOK
    <3> QED BY <3>1, <3>2 DEF CyclesOK
  <2>2. CASE s # "cycle"
    <3>1. History!Straight' = History!Straight \cup {<<l[1], l[2]>>}
      BY <1>3, <1>7, <2>2 DEF History!Straight
    <3>2. ~Path(History!Straight, l[2], l[1])
      BY <1>6, <2>2
    <3>3. History!Straight \subseteq Ids \X Ids /\ History!Straight \subseteq DOMAIN links
      BY <1>1 DEF History!Straight, HistoryTypeOK
    <3>4. ASSUME NEW k \in DOMAIN links'
          PROVE  links'[k] = "cycle" <=> Path(History!Straight', k[2], k[1])
      <4>1. k \in Ids \X Ids /\ k = <<k[1], k[2]>> /\ k[1] \in Ids /\ k[2] \in Ids
        BY <1>1, <1>3, <1>7 DEF HistoryTypeOK
      <4>2. CASE links'[k] = "cycle"
        <5>1. k \in DOMAIN links /\ links[k] = "cycle"
          BY <1>7, <2>2, <4>2
        <5>2. Path(History!Straight, k[2], k[1])
          BY <1>1, <5>1 DEF CyclesOK
        <5>3. Path(History!Straight', k[2], k[1])
          BY <3>1, <5>2, MorePaths
        <5> QED BY <4>2, <5>3
      <4>3. CASE links'[k] # "cycle"
        <5>1. k \in History!Straight \cup {<<l[1], l[2]>>}
          BY <1>3, <1>7, <4>3 DEF History!Straight
        <5>2. k \in History!Straight => ~Path(History!Straight, k[2], k[1])
          BY <1>1, <3>3 DEF CyclesOK, History!Straight
        <5>3. ~Path(History!Straight \cup {<<l[1], l[2]>>}, k[2], k[1])
          <6> DEFINE over == History!Straight
                     a == l[1]
                     b == l[2]
                     c == k[1]
                     d == k[2]
          <6>1. /\ over \subseteq Ids \X Ids /\ a \in Ids /\ b \in Ids /\ ~Path(over, b, a)
                /\ c \in Ids /\ d \in Ids /\ <<c, d>> \in over \cup {<<a, b>>}
                /\ <<c, d>> \in over => ~Path(over, d, c)
            BY <1>3, <3>2, <3>3, <4>1, <5>1, <5>2
          <6> HIDE DEF over, a, b, c, d
          <6>2. ~Path(over \cup {<<a, b>>}, d, c)
            BY <6>1, NoCycleAdded
          <6> QED BY <6>2 DEF over, a, b, c, d
        <5> QED BY <3>1, <4>3, <5>3
      <4> QED BY <4>2, <4>3
    <3> QED BY <3>4 DEF CyclesOK
  <2> QED BY <2>1, <2>2
<1> QED BY <1>9, <1>10, <1>11, <1>12, <1>13 DEF HistoryInv

LEMMA RelateInv ==
    ASSUME HistoryInv, History!Relate
    PROVE  HistoryInv'
<1>1. /\ stage = "loading"
      /\ UNCHANGED <<view, viewChanges, stage, fetched, status, at, said>>
  BY DEF History!Relate
<1>2. PICK l \in rest :
         IF l \in DOMAIN links
         THEN rest' = rest \ {l} /\ UNCHANGED <<queue, discovered, links, truncated>>
         ELSE IF History!LinksFull
         THEN /\ rest' = {}
              /\ truncated' = TRUE
              /\ UNCHANGED <<queue, discovered, links>>
         ELSE History!Add(l)
  BY DEF History!Relate
<1>3. CASE l \notin DOMAIN links /\ ~History!LinksFull
  BY <1>1, <1>2, <1>3, AddInv
<1>4. CASE /\ UNCHANGED <<queue, discovered, links>>
           /\ \/ l \in DOMAIN links /\ rest' = rest \ {l} /\ truncated' = truncated
              \/ rest' = {} /\ truncated' = TRUE
  <2>1. UNCHANGED <<queue, discovered, links>>
    BY <1>4
  <2>2. HistoryTypeOK /\ QueueOK /\ ReadOK /\ LinksOK /\ CyclesOK
    BY <1>1 DEF HistoryInv
  <2>3. truncated' \in BOOLEAN
    BY <1>4, <2>2 DEF HistoryTypeOK
  <2>4. HistoryTypeOK' /\ QueueOK'
    BY <1>1, <2>1, <2>2, <2>3 DEF HistoryTypeOK, QueueOK
  <2>5. rest' \subseteq rest
    BY <1>4
  <2>6. (rest \subseteq History!Relations(at, said[at]))'
    BY <1>1, <2>2, <2>5 DEF ReadOK, History!Relations
  <2>7. ReadOK'
    BY <1>1, <2>2, <2>5, <2>6 DEF ReadOK, Readable
  <2>8. /\ \A f : Readable(f)' <=> Readable(f)
        /\ \A f : History!Relations(f, said'[f]) = History!Relations(f, said[f])
    BY <1>1 DEF Readable
  <2>9. ~truncated' => ~truncated /\ l \in DOMAIN links /\ rest' = rest \ {l}
    BY <1>4
  <2>10. LinksOK'
    BY <1>1, <2>1, <2>2, <2>8, <2>9 DEF LinksOK
  <2>11. CyclesOK'
    BY <2>1, <2>2 DEF CyclesOK, History!Straight
  <2> QED BY <1>1, <2>4, <2>7, <2>10, <2>11 DEF HistoryInv
<1> QED BY <1>2, <1>3, <1>4

LEMMA HistoryStep == HistoryInv /\ [History!Next]_(History!vars) => HistoryInv'
<1> SUFFICES ASSUME HistoryInv, [History!Next]_(History!vars) PROVE HistoryInv'
  OBVIOUS
<1>1. CASE History!Fetch
  BY <1>1, FetchInv
<1>2. CASE History!Relate
  BY <1>2, RelateInv
<1>3. CASE History!Answer
  <2>1. /\ stage = "loading" /\ rest = {} /\ (queue = <<>> \/ fetched >= MaxFetched)
        /\ stage' = "found" /\ truncated' = (truncated \/ queue # <<>>)
        /\ UNCHANGED <<view, queue, discovered, fetched, status, links, at, rest, said>>
    BY <1>3 DEF History!Answer
  <2>2. HistoryTypeOK /\ QueueOK /\ ReadOK /\ LinksOK /\ CyclesOK
    BY <2>1 DEF HistoryInv
  <2>3. queue = <<>>
    <3>1. fetched + Len(queue) <= MaxFetched /\ fetched \in Nat
      BY <2>2 DEF QueueOK, HistoryTypeOK
    <3> QED BY <2>1, <2>2, <3>1, QueueFacts, HistoryConstants
  <2>4. truncated' = truncated
    BY <2>1, <2>2, <2>3 DEF HistoryTypeOK
  <2>5. HistoryTypeOK' /\ QueueOK'
    BY <2>1, <2>2, <2>4 DEF HistoryTypeOK, QueueOK
  <2>6. ReadOK'
    BY <2>1, <2>2 DEF ReadOK, Readable, History!Relations
  <2>7. LinksOK' /\ CyclesOK'
    BY <2>1, <2>2, <2>4 DEF LinksOK, CyclesOK, Readable, History!Relations, History!Straight
  <2> QED BY <2>1, <2>3, <2>5, <2>6, <2>7 DEF HistoryInv
<1>4. CASE History!Fail \/ (\E f \in Ids : History!Change(f)) \/ UNCHANGED (History!vars)
  <2>1. /\ UNCHANGED <<queue, discovered, fetched, status, links, truncated, at, rest, said>>
        /\ stage' = stage \/ (stage = "loading" /\ stage' = "failed")
    BY <1>4 DEF History!Fail, History!Change, History!vars
  <2>2. HistoryTypeOK
    BY DEF HistoryInv
  <2>3. view' \in [Ids -> Views \cup {None}]
    <3>1. CASE view' = view
      BY <2>2, <3>1 DEF HistoryTypeOK
    <3>2. CASE \E f \in Ids : History!Change(f)
      BY <2>2, <3>2 DEF HistoryTypeOK, History!Change
    <3> QED BY <1>4, <3>1, <3>2 DEF History!Fail, History!vars
  <2>4. HistoryTypeOK'
    BY <2>1, <2>2, <2>3 DEF HistoryTypeOK
  <2>5. QueueOK => QueueOK'
    BY <2>1 DEF QueueOK
  <2>6. ReadOK => ReadOK'
    BY <2>1 DEF ReadOK, Readable, History!Relations
  <2>7. LinksOK /\ CyclesOK => LinksOK' /\ CyclesOK'
    BY <2>1 DEF LinksOK, CyclesOK, Readable, History!Relations, History!Straight
  <2> QED BY <2>1, <2>4, <2>5, <2>6, <2>7 DEF HistoryInv
<1> QED BY <1>1, <1>2, <1>3, <1>4 DEF History!Next

LEMMA HistoryHolds == HistoryInv => History!HistoryIsTrue
<1> SUFFICES ASSUME HistoryInv, stage = "found" PROVE History!HistoryIsTrue
  BY DEF History!HistoryIsTrue, History!LinksAreSettled, History!LinksWereSaid, History!CyclesAreMarked
<1>1. /\ HistoryTypeOK /\ QueueOK /\ ReadOK /\ LinksOK /\ CyclesOK
      /\ rest = {} /\ queue = <<>>
  BY DEF HistoryInv
<1>2. \A f \in discovered : status[f] # "pending"
  BY <1>1 DEF QueueOK
<1>3. \A l \in DOMAIN links : l[1] \in Ids /\ l[2] \in Ids
  BY <1>1, QueueFacts
<1>4. History!LinksAreSettled
  BY <1>1, <1>2, <1>3 DEF History!LinksAreSettled, LinksOK, History!Nodes
<1>5. History!CyclesAreMarked
  BY <1>1 DEF History!CyclesAreMarked, CyclesOK, History!PathExists, Path
<1>6. History!LinksWereSaid
  <2> DEFINE declared == UNION {History!Relations(f, said[f]) :
                                   f \in {g \in History!Nodes : said[g].valid}}
  <2>1. \A l : l \in declared <=> \E f \in Ids : Readable(f) /\ l \in History!Relations(f, said[f])
    BY DEF History!Nodes, Readable
  <2> HIDE DEF declared
  <2>2. DOMAIN links \subseteq declared
    BY <1>1, <2>1 DEF LinksOK
  <2>3. ~truncated => declared \subseteq DOMAIN links
    BY <1>1, <2>1 DEF LinksOK
  <2>4. ~truncated => \A l \in declared : status[l[1]] # "pending" /\ status[l[2]] # "pending"
    BY <1>1, <1>2, <2>3 DEF LinksOK
  <2> QED BY <2>2, <2>3, <2>4 DEF History!LinksWereSaid, declared
<1> QED BY <1>4, <1>5, <1>6 DEF History!HistoryIsTrue
------------------------------------------------------------------------------
(* The graph of the dashboard: its pairs. *)

LEMMA ViewerSets ==
    ASSUME NEW S
    PROVE  Viewer!Cardinality(S) = Cardinality(S) /\ (Viewer!IsFiniteSet(S) <=> IsFiniteSet(S))
BY DEF Cardinality, IsFiniteSet, Viewer!Cardinality, Viewer!IsFiniteSet

LEMMA GraphConstants ==
    /\ Points \subseteq Nat /\ IsFiniteSet(Points) /\ Vectors # {}
    /\ Other \notin Vectors /\ None \notin Vectors /\ Other # None
    /\ Similarity \in [Vectors \X Vectors -> Nat]
    /\ PageSize \in Nat /\ MaxPairs \in Nat /\ MaxPairs >= 1
<1>1. Viewer!GraphAssumption
  BY ViewerBounds
<1>2. PageSize \in {PageSize, MaxScanned, MaxNodes, MaxPairs}
      /\ MaxPairs \in {PageSize, MaxScanned, MaxNodes, MaxPairs}
  OBVIOUS
<1>3. PageSize \in Nat \ {0} /\ MaxPairs \in Nat \ {0}
  BY <1>1, <1>2 DEF Viewer!GraphAssumption
<1>4. {Other, None} \cap Vectors = {}
  BY <1>1 DEF Viewer!GraphAssumption
<1>5. Other \notin Vectors /\ None \notin Vectors
  BY <1>4
<1> QED BY <1>1, <1>3, <1>5, ViewerSets DEF Viewer!GraphAssumption

Triples == Nat \X Nat \X Nat

\* Pairs are in a linear order, and Less is its other way round.
LEMMA StrongerLinear ==
    /\ \A p \in Triples : ~Viewer!Stronger(p, p)
    /\ \A p, q \in Triples : p # q => Viewer!Stronger(p, q) \/ Viewer!Stronger(q, p)
    /\ \A p, q, r \in Triples :
          Viewer!Stronger(p, q) /\ Viewer!Stronger(q, r) => Viewer!Stronger(p, r)
    /\ \A p, q \in Triples : Viewer!Less(p, q) <=> Viewer!Stronger(q, p)
<1>1. \A p \in Triples : /\ p[1] \in Nat /\ p[2] \in Nat /\ p[3] \in Nat
                         /\ p = <<p[1], p[2], p[3]>>
  BY DEF Triples
<1>2. \A p, q \in Triples : p[1] = q[1] /\ p[2] = q[2] /\ p[3] = q[3] => p = q
  <2> SUFFICES ASSUME NEW p \in Triples, NEW q \in Triples,
                      p[1] = q[1] /\ p[2] = q[2] /\ p[3] = q[3]
               PROVE  p = q
    OBVIOUS
  <2>1. p = <<p[1], p[2], p[3]>> /\ q = <<q[1], q[2], q[3]>>
    BY <1>1
  <2> QED BY ONLY <2>1, p[1] = q[1] /\ p[2] = q[2] /\ p[3] = q[3]
<1>3. \A p \in Triples : ~Viewer!Stronger(p, p)
  BY <1>1 DEF Viewer!Stronger
<1>4. \A p, q \in Triples : p # q => Viewer!Stronger(p, q) \/ Viewer!Stronger(q, p)
  BY <1>1, <1>2 DEF Viewer!Stronger
<1>5. \A p, q, r \in Triples :
         Viewer!Stronger(p, q) /\ Viewer!Stronger(q, r) => Viewer!Stronger(p, r)
  BY <1>1 DEF Viewer!Stronger
<1>6. \A p, q \in Triples : Viewer!Less(p, q) <=> Viewer!Stronger(q, p)
  BY <1>1 DEF Viewer!Stronger, Viewer!Less
<1> QED BY <1>3, <1>4, <1>5, <1>6

LEMMA ViewerSorted ==
    ASSUME NEW S, IsFiniteSet(S), NEW order, Linear(S, order)
    PROVE  /\ Cardinality(S) \in Nat
           /\ Viewer!Sorted(S, order) \in [1..Cardinality(S) -> S]
           /\ \A i, j \in 1..Cardinality(S) :
                 i < j => <<Viewer!Sorted(S, order)[i], Viewer!Sorted(S, order)[j]>> \in order
           /\ \A x \in S : \E i \in 1..Cardinality(S) : Viewer!Sorted(S, order)[i] = x
<1>1. Viewer!Sorted(S, order) = Sorted(S, order)
  BY ViewerSets DEF Viewer!Sorted, Sorted
<1> QED BY <1>1, SortedOK

\* The order of the pairs, as a set.
ByStrength(S) == {e \in S \X S : Viewer!Stronger(e[1], e[2])}

LEMMA StrengthLinear ==
    ASSUME NEW S, S \subseteq Triples
    PROVE  Linear(S, ByStrength(S))
<1>1. \A x, y \in S : <<x, y>> \in ByStrength(S) <=> Viewer!Stronger(x, y)
  BY DEF ByStrength
<1> QED BY <1>1, StrongerLinear DEF Linear

\* The root of the heap is the weakest pair of it.
LEMMA RootIsWeakest ==
    ASSUME heap \subseteq Triples, IsFiniteSet(heap), heap # {}
    PROVE  Viewer!Root \in heap /\ \A q \in heap \ {Viewer!Root} : Viewer!Stronger(q, Viewer!Root)
<1> DEFINE n == Cardinality(heap)
           s == Sorted(heap, ByStrength(heap))
<1>1. /\ n \in Nat /\ s \in [1..n -> heap]
      /\ \A i, j \in 1..n : i < j => <<s[i], s[j]>> \in ByStrength(heap)
      /\ \A x \in heap : \E i \in 1..n : s[i] = x
  BY StrengthLinear, SortedOK
<1> HIDE DEF n, s
<1>2. n \in 1..n
  <2>1. PICK x \in heap : TRUE
    OBVIOUS
  <2>2. PICK i \in 1..n : s[i] = x
    BY <1>1, <2>1
  <2> QED BY <1>1, <2>2
<1>3. \A q \in heap \ {s[n]} : Viewer!Stronger(q, s[n])
  <2> SUFFICES ASSUME NEW q \in heap, q # s[n] PROVE Viewer!Stronger(q, s[n])
    OBVIOUS
  <2>1. PICK i \in 1..n : s[i] = q
    BY <1>1
  <2>2. i < n
    BY <1>1, <2>1
  <2>3. <<q, s[n]>> \in ByStrength(heap)
    BY <1>1, <1>2, <2>1, <2>2
  <2> QED BY <2>3 DEF ByStrength
<1>4. s[n] \in heap
  BY <1>1, <1>2
<1>5. \E p \in heap : \A q \in heap \ {p} : Viewer!Less(p, q)
  BY <1>3, <1>4, StrongerLinear
<1>6. Viewer!Root \in heap /\ \A q \in heap \ {Viewer!Root} : Viewer!Less(Viewer!Root, q)
  BY <1>5 DEF Viewer!Root
<1> HIDE DEF Viewer!Root
<1> QED BY <1>6, StrongerLinear

\* A heap holds the strongest of the pairs met.
Keeps(kept, met) ==
    /\ IsFiniteSet(kept) /\ Cardinality(kept) <= MaxPairs /\ kept \subseteq met
    /\ \A p \in met \ kept : /\ Cardinality(kept) = MaxPairs
                            /\ \A q \in kept : Viewer!Stronger(q, p)

LEMMA KeepsStrongest ==
    ASSUME NEW met, met \subseteq Triples, NEW p \in Triples, p \notin met, Keeps(heap, met)
    PROVE  Keeps(Viewer!KeepStrongest(p), met \cup {p})
<1>1. /\ IsFiniteSet(heap) /\ Cardinality(heap) \in Nat /\ Cardinality(heap) <= MaxPairs
      /\ heap \subseteq met /\ heap \subseteq Triples /\ p \notin heap
  BY FS_CardinalityType DEF Keeps
<1>2. MaxPairs \in Nat /\ MaxPairs >= 1
  BY GraphConstants
<1>3. CASE Cardinality(heap) < MaxPairs
  <2>1. Viewer!KeepStrongest(p) = heap \cup {p}
    BY <1>3, ViewerSets DEF Viewer!KeepStrongest
  <2>2. IsFiniteSet(heap \cup {p}) /\ Cardinality(heap \cup {p}) = Cardinality(heap) + 1
    BY <1>1, FS_AddElement
  <2>3. met = heap
    BY <1>1, <1>2, <1>3 DEF Keeps
  <2> QED BY <1>1, <1>2, <1>3, <2>1, <2>2, <2>3 DEF Keeps
<1>4. CASE ~(Cardinality(heap) < MaxPairs)
  <2> DEFINE root == Viewer!Root
  <2>1. Cardinality(heap) = MaxPairs /\ heap # {}
    BY <1>1, <1>2, <1>4, FS_EmptySet
  <2>2. root \in heap /\ root \in Triples /\ root # p
        /\ \A q \in heap \ {root} : Viewer!Stronger(q, root)
    BY <1>1, <2>1, RootIsWeakest
  <2>3. Viewer!KeepStrongest(p) =
           IF Viewer!Stronger(p, root) THEN (heap \ {root}) \cup {p} ELSE heap
    BY <1>4, ViewerSets DEF Viewer!KeepStrongest
  <2> HIDE DEF root
  <2>4. CASE Viewer!Stronger(p, root)
    <3> DEFINE kept == (heap \ {root}) \cup {p}
    <3>1. IsFiniteSet(heap \ {root}) /\ Cardinality(heap \ {root}) = MaxPairs - 1
      BY <1>1, <2>1, <2>2, FS_RemoveElement
    <3>2. IsFiniteSet(kept) /\ Cardinality(kept) = (MaxPairs - 1) + 1
      BY <1>1, <3>1, FS_AddElement
    <3>3. Cardinality(kept) = MaxPairs
      BY <1>2, <3>2
    <3>4. kept \subseteq met \cup {p}
      BY <1>1
    <3>5. ASSUME NEW r \in (met \cup {p}) \ kept, NEW q \in kept
          PROVE  Viewer!Stronger(q, r)
      <4>1. r \in met /\ r \in Triples /\ q \in Triples
        BY <1>1
      <4>2. Viewer!Stronger(q, root)
        BY <2>2, <2>4
      <4>3. CASE r = root
        BY <4>2, <4>3
      <4>4. CASE r # root
        <5>1. r \notin heap
          BY <4>4
        <5>2. Viewer!Stronger(root, r)
          BY <2>2, <4>1, <5>1 DEF Keeps
        <5> QED BY <2>2, <4>1, <4>2, <5>2, StrongerLinear
      <4> QED BY <4>3, <4>4
    <3>6. Keeps(kept, met \cup {p})
      <4> HIDE DEF kept
      <4> QED BY <1>2, <3>2, <3>3, <3>4, <3>5 DEF Keeps
    <3> QED BY <2>3, <2>4, <3>6
  <2>5. CASE ~Viewer!Stronger(p, root)
    <3>1. Viewer!Stronger(root, p)
      BY <2>2, <2>5, StrongerLinear
    <3>2. \A q \in heap : Viewer!Stronger(q, p)
      BY <1>1, <2>2, <3>1, StrongerLinear
    <3>3. \A r \in (met \cup {p}) \ heap : \A q \in heap : Viewer!Stronger(q, r)
      BY <3>2 DEF Keeps
    <3> QED BY <1>1, <2>1, <2>3, <2>5, <3>3 DEF Keeps
  <2> QED BY <2>4, <2>5
<1> QED BY <1>3, <1>4

\* What is kept are the pairs with fewer than MaxPairs stronger ones.
LEMMA KeptAreStrongest ==
    ASSUME NEW met, met \subseteq Triples, IsFiniteSet(met), Keeps(heap, met)
    PROVE  heap = {p \in met : Cardinality({q \in met : Viewer!Stronger(q, p)}) < MaxPairs}
<1> DEFINE Over(p) == {q \in met : Viewer!Stronger(q, p)}
<1>1. /\ IsFiniteSet(heap) /\ Cardinality(heap) \in Nat /\ Cardinality(heap) <= MaxPairs
      /\ heap \subseteq met /\ heap \subseteq Triples /\ MaxPairs \in Nat
  BY FS_CardinalityType, GraphConstants DEF Keeps
<1>2. ASSUME NEW p \in heap
      PROVE  Cardinality(Over(p)) < MaxPairs
  <2>1. Over(p) \subseteq heap \ {p}
    <3> SUFFICES ASSUME NEW q \in met, Viewer!Stronger(q, p) PROVE q \in heap /\ q # p
      OBVIOUS
    <3>1. q # p
      BY <1>1, StrongerLinear
    <3>2. CASE q \notin heap
      <4>1. Viewer!Stronger(p, q)
        BY <3>2 DEF Keeps
      <4>2. Viewer!Stronger(p, p)
        BY <1>1, <4>1, StrongerLinear
      <4> QED BY <1>1, <4>2, StrongerLinear
    <3> QED BY <3>1, <3>2
  <2>2. IsFiniteSet(heap \ {p}) /\ Cardinality(heap \ {p}) = Cardinality(heap) - 1
    BY <1>1, FS_RemoveElement
  <2> HIDE DEF Over
  <2>3. Cardinality(Over(p)) <= Cardinality(heap) - 1 /\ Cardinality(Over(p)) \in Nat
    BY <2>1, <2>2, FS_Subset, FS_CardinalityType
  <2> QED BY <1>1, <2>3
<1>3. ASSUME NEW p \in met \ heap
      PROVE  ~(Cardinality(Over(p)) < MaxPairs)
  <2>1. Cardinality(heap) = MaxPairs /\ heap \subseteq Over(p)
    BY <1>1 DEF Keeps
  <2>2. IsFiniteSet(Over(p))
    <3>1. Over(p) \subseteq met
      OBVIOUS
    <3> HIDE DEF Over
    <3> QED BY <3>1, FS_Subset
  <2> HIDE DEF Over
  <2>3. Cardinality(heap) <= Cardinality(Over(p)) /\ Cardinality(Over(p)) \in Nat
    BY <2>1, <2>2, FS_Subset, FS_CardinalityType
  <2> QED BY <1>1, <2>1, <2>3
<1> HIDE DEF Over
<1>4. heap = {p \in met : Cardinality(Over(p)) < MaxPairs}
  BY <1>1, <1>2, <1>3
<1> QED BY <1>4 DEF Over

------------------------------------------------------------------------------
(* The graph of the dashboard: its invariant. *)

Vecs == Vectors \cup {Other}

GraphTypeOK ==
    /\ point \in [Points -> Vectors \cup {Other, None}]
    /\ offset \in Nat
    /\ points \in Seq(Points \X Vecs)
    /\ loops \in Nat \X Nat
    /\ still \in SUBSET Points
    /\ scan \in {"scan", "pairs", "shown", "narrow", "failed"}

\* A fact that is to be shown has been read, if the scroll is past it.
NodesOK ==
    /\ \A f \in Points : point[f] # None => <<f, point[f]>> \in held
    /\ \A i \in 1..Len(points) : points[i] \in held
    /\ \A i, j \in 1..Len(points) : i < j => points[i][1] < points[j][1]
    /\ scan = "scan" => \A i \in 1..Len(points) : points[i][1] < offset
    /\ scan \in {"scan", "pairs", "shown"} =>
          \A f \in still :
              Viewer!Shows(point[f]) /\ (scan = "scan" => f < offset) =>
                  \E i \in 1..Len(points) : points[i] = <<f, point[f]>>

\* The loops are before the pair that loops points to.
Behind(i, j) == i < loops[1] \/ (i = loops[1] /\ j < loops[2])
Indices == {ij \in (1..Len(points)) \X (1..Len(points)) : ij[1] < ij[2]}
Met == {p \in {Viewer!Pair(ij[1], ij[2]) : ij \in {c \in Indices : Behind(c[1], c[2])}} :
            p[1] >= Threshold}

HeapOK ==
    /\ scan = "scan" => loops = <<1, 2>> /\ heap = {}
    /\ scan \in {"pairs", "shown"} =>
          /\ loops[1] >= 1 /\ loops[1] < loops[2]
          /\ loops[1] < Len(points) => loops[2] <= Len(points)
          /\ Keeps(heap, Met)
    /\ scan = "shown" => /\ loops[1] >= Len(points)
                         /\ pairs = Viewer!Sorted(heap, ByStrength(heap))

GraphInv == GraphTypeOK /\ NodesOK /\ HeapOK

LEMMA PointFacts ==
    ASSUME GraphTypeOK
    PROVE  /\ Len(points) \in Nat /\ DOMAIN points = 1..Len(points)
           /\ \A i \in 1..Len(points) : /\ points[i] \in Points \X Vecs
                                       /\ points[i] = <<points[i][1], points[i][2]>>
                                       /\ points[i][1] \in Points /\ points[i][1] \in Nat
                                       /\ points[i][2] \in Vecs
           /\ loops[1] \in Nat /\ loops[2] \in Nat
<1>1. points \in Seq(Points \X Vecs) /\ loops \in Nat \X Nat
  BY DEF GraphTypeOK
<1>2. Len(points) \in Nat /\ DOMAIN points = 1..Len(points)
      /\ \A i \in 1..Len(points) : points[i] \in Points \X Vecs
  BY <1>1
<1>3. \A x \in Points \X Vecs : x = <<x[1], x[2]>> /\ x[1] \in Points /\ x[2] \in Vecs
  OBVIOUS
<1>4. loops[1] \in Nat /\ loops[2] \in Nat
  BY <1>1
<1>5. \A x \in Points : x \in Nat
  BY GraphConstants
<1> QED BY <1>2, <1>3, <1>4, <1>5

LEMMA PairType ==
    ASSUME GraphTypeOK, NEW i \in 1..Len(points), NEW j \in 1..Len(points)
    PROVE  /\ Viewer!Pair(i, j) \in Triples
           /\ Viewer!Pair(i, j)[2] = points[i][1] /\ Viewer!Pair(i, j)[3] = points[j][1]
<1>1. \A v \in Vecs : Viewer!Vector(v) \in Vectors
  BY GraphConstants DEF Vecs, Viewer!Vector
<1>2. /\ points[i][2] \in Vecs /\ points[j][2] \in Vecs
      /\ points[i][1] \in Nat /\ points[j][1] \in Nat
  BY PointFacts
<1>3. Similarity[Viewer!Vector(points[i][2]), Viewer!Vector(points[j][2])] \in Nat
  <2>1. /\ Viewer!Vector(points[i][2]) \in Vectors
        /\ Viewer!Vector(points[j][2]) \in Vectors
    BY <1>1, <1>2
  <2> QED BY <2>1, GraphConstants
<1> QED BY <1>2, <1>3 DEF Viewer!Pair, Triples

LEMMA MetType ==
    ASSUME GraphTypeOK
    PROVE  Met \subseteq Triples
<1> SUFFICES ASSUME NEW p \in Met PROVE p \in Triples
  OBVIOUS
<1>1. PICK ij \in Indices : p = Viewer!Pair(ij[1], ij[2])
  BY DEF Met
<1>2. ij[1] \in 1..Len(points) /\ ij[2] \in 1..Len(points)
  BY <1>1 DEF Indices
<1> QED BY <1>1, <1>2, PairType

LEMMA GraphInitInv == Viewer!Init => GraphInv
<1> SUFFICES ASSUME Viewer!Init PROVE GraphInv
  OBVIOUS
<1>1. /\ point \in [Points -> Vectors \cup {Other, None}]
      /\ scan = "scan" /\ offset = 0 /\ points = <<>> /\ loops = <<1, 2>> /\ heap = {}
      /\ still = Points
  BY DEF Viewer!Init
<1>2. held = {<<f, point[f]>> : f \in {g \in Points : point[g] # None}}
  BY DEF Viewer!Init, Viewer!Stored
<1>3. points \in Seq(Points \X Vecs) /\ Len(points) = 0
  BY <1>1
<1>4. GraphTypeOK
  BY <1>1, <1>3 DEF GraphTypeOK
<1>5. NodesOK
  BY <1>1, <1>2, <1>3, GraphConstants DEF NodesOK
<1>6. HeapOK
  BY <1>1 DEF HeapOK
<1> QED BY <1>4, <1>5, <1>6 DEF GraphInv

------------------------------------------------------------------------------
(* The graph of the dashboard: its steps. *)

LEMMA PageInv ==
    ASSUME GraphInv, Viewer!ReadPage
    PROVE  GraphInv'
<1> DEFINE left == {f \in Viewer!Stored(point) : f >= offset}
           page == {f \in left : Viewer!Cardinality({g \in left : g < f}) < PageSize}
           new == {f \in page : Viewer!Shows(point[f])}
           up(S) == {e \in S \X S : e[1] < e[2]}
           ids == Viewer!Sorted(new, up(new))
           n == Len(points)
           k == Viewer!Cardinality(new)
           add == [i \in 1..k |-> <<ids[i], point[ids[i]]>>]
<1>1. /\ scan = "scan"
      /\ points' = points \o add
      /\ offset' = IF page = left THEN offset
                   ELSE CHOOSE f \in left \ page : \A g \in left \ page : f <= g
      /\ scan' \in {"narrow", "scan", "pairs"}
      /\ scan' = "scan" => page # left
      /\ scan' = "pairs" => page = left
      /\ UNCHANGED <<point, shows, loops, heap, pairs, held, still>>
  BY DEF Viewer!ReadPage
<1>2. GraphTypeOK /\ NodesOK /\ HeapOK
  BY DEF GraphInv
<1>3. /\ left \subseteq Points /\ page \subseteq left /\ new \subseteq page /\ Points \subseteq Nat
      /\ offset \in Nat /\ n \in Nat
      /\ \A f \in left : f >= offset /\ f \in Nat /\ point[f] # None
      /\ \A f \in Points : point[f] # None /\ f >= offset => f \in left
  <2>1. /\ left \subseteq Points /\ page \subseteq left /\ new \subseteq page
        /\ \A f \in left : f >= offset /\ point[f] # None
        /\ \A f \in Points : point[f] # None /\ f >= offset => f \in left
    BY DEF Viewer!Stored
  <2>2. Points \subseteq Nat /\ offset \in Nat /\ n \in Nat
    BY <1>2, GraphConstants, PointFacts DEF GraphTypeOK
  <2> HIDE DEF left, page, new
  <2> QED BY <2>1, <2>2
<1>4. \A S \in SUBSET Points : IsFiniteSet(S) /\ Linear(S, up(S))
  <2> SUFFICES ASSUME NEW S \in SUBSET Points PROVE IsFiniteSet(S) /\ Linear(S, up(S))
    OBVIOUS
  <2>1. IsFiniteSet(S)
    BY GraphConstants, FS_Subset
  <2>2. \A x, y \in S : <<x, y>> \in up(S) <=> x < y
    OBVIOUS
  <2>3. \A x \in S : x \in Nat
    BY GraphConstants
  <2> HIDE DEF up
  <2> QED BY <2>1, <2>2, <2>3 DEF Linear
<1>5. \A f \in page, g \in left : g < f => g \in page
  <2> SUFFICES ASSUME NEW f \in page, NEW g \in left, g < f PROVE g \in page
    OBVIOUS
  <2> DEFINE A == {h \in left : h < g}
             B == {h \in left : h < f}
  <2>1. A \subseteq B /\ B \subseteq Points
    BY <1>3
  <2>2. Cardinality(B) < PageSize
    BY ViewerSets
  <2>6. Cardinality(A) < PageSize => g \in page
    BY ViewerSets
  <2> HIDE DEF A, B
  <2>3. IsFiniteSet(B)
    BY <1>4, <2>1
  <2>4. Cardinality(A) <= Cardinality(B) /\ Cardinality(A) \in Nat /\ Cardinality(B) \in Nat
    BY <2>1, <2>3, FS_Subset, FS_CardinalityType
  <2>5. Cardinality(A) < PageSize
    BY <2>2, <2>4, GraphConstants
  <2> QED BY <2>5, <2>6
<1>6. /\ k \in Nat /\ ids \in [1..k -> new]
      /\ \A i, j \in 1..k : i < j => ids[i] < ids[j]
      /\ \A f \in new : \E i \in 1..k : ids[i] = f
  <2>1. new \in SUBSET Points
    BY <1>3
  <2> HIDE DEF new
  <2>3. IsFiniteSet(new) /\ Linear(new, up(new)) /\ k = Cardinality(new)
    BY <1>4, <2>1, ViewerSets
  <2> HIDE DEF k, up
  <2>2. /\ k \in Nat /\ ids \in [1..k -> new]
        /\ \A i, j \in 1..k : i < j => <<ids[i], ids[j]>> \in up(new)
        /\ \A f \in new : \E i \in 1..k : ids[i] = f
    BY <2>3, ViewerSorted
  <2> QED BY <2>2 DEF up
<1> HIDE DEF left, page, new, ids, n, k
<1>7. /\ add \in Seq(Points \X Vecs) /\ Len(add) = k
      /\ \A i \in 1..k : add[i] = <<ids[i], point[ids[i]]>>
  <2>1. \A i \in 1..k : ids[i] \in Points /\ point[ids[i]] \in Vecs
    <3> SUFFICES ASSUME NEW i \in 1..k PROVE ids[i] \in Points /\ point[ids[i]] \in Vecs
      OBVIOUS
    <3>1. ids[i] \in Points /\ point[ids[i]] # None
      BY <1>3, <1>6
    <3> QED BY <1>2, <3>1 DEF GraphTypeOK, Vecs
  <2>2. \A i \in 1..k : <<ids[i], point[ids[i]]>> \in Points \X Vecs
    BY <2>1
  <2> QED BY <1>6, <2>2
<1> HIDE DEF add
<1>8. /\ points' \in Seq(Points \X Vecs) /\ Len(points') = n + k
      /\ \A i \in 1..n : points'[i] = points[i]
      /\ \A i \in 1..k : points'[n + i] = <<ids[i], point[ids[i]]>>
      /\ \A i \in 1..(n + k) : i \in 1..n \/ \E j \in 1..k : i = n + j
  <2>1. points \in Seq(Points \X Vecs) /\ n = Len(points)
    BY <1>2 DEF GraphTypeOK, n
  <2>2. /\ points' \in Seq(Points \X Vecs) /\ Len(points') = n + k
        /\ \A i \in 1..n : points'[i] = points[i]
        /\ \A i \in 1..k : points'[n + i] = add[i]
    <3> DEFINE cat == points \o add
    <3>1. points' = cat /\ n \in Nat /\ k \in Nat
          /\ add \in Seq(Points \X Vecs) /\ Len(add) = k
      BY <1>1, <1>3, <1>6, <1>7
    <3>6. \A i \in 1..(Len(points) + Len(add)) :
             cat[i] = IF i <= Len(points) THEN points[i] ELSE add[i - Len(points)]
      BY <2>1, <3>1, ConcatProperties
    <3>2. points' \in Seq(Points \X Vecs) /\ Len(points') = n + k
      <4>1. cat \in Seq(Points \X Vecs) /\ Len(cat) = Len(points) + Len(add)
        BY <2>1, <3>1, ConcatProperties
      <4> HIDE DEF cat
      <4> QED BY <2>1, <3>1, <4>1
    <3> HIDE DEF cat
    <3>3. ASSUME NEW i \in 1..(n + k)
          PROVE  points'[i] = IF i <= n THEN points[i] ELSE add[i - n]
      <4>1. i \in 1..(Len(points) + Len(add))
        BY <2>1, <3>1
      <4>2. cat[i] = IF i <= Len(points) THEN points[i] ELSE add[i - Len(points)]
        BY <3>6, <4>1
      <4> QED BY <2>1, <3>1, <4>2
    <3>4. \A i \in 1..n : i \in 1..(n + k) /\ i <= n
      BY ONLY <3>1
    <3>5. \A i \in 1..k : n + i \in 1..(n + k) /\ ~(n + i <= n) /\ (n + i) - n = i
      BY ONLY <3>1
    <3> QED BY ONLY <3>2, <3>3, <3>4, <3>5
  <2>3. ASSUME NEW i \in 1..(n + k), i \notin 1..n
        PROVE  \E j \in 1..k : i = n + j
    <3>1. i - n \in 1..k /\ i = n + (i - n)
      BY <1>3, <1>6, <2>3
    <3> QED BY <3>1
  <2> QED BY <1>7, <2>2, <2>3
<1>9. /\ \A i \in 1..k : ids[i] \in new /\ ids[i] \in page /\ ids[i] \in left /\ ids[i] \in Points
      /\ \A i \in 1..k : ids[i] \in Nat /\ ids[i] >= offset /\ point[ids[i]] # None
  BY <1>3, <1>6
<1>10. /\ offset' \in Nat /\ offset' >= offset
       /\ page # left => \A f \in left : f < offset' <=> f \in page
  <2>1. CASE page = left
    BY <1>1, <1>3, <2>1
  <2>2. CASE page # left
    <3> DEFINE over == left \ page
               s == Sorted(over, up(over))
    <3>1. over \in SUBSET Points /\ over # {}
      BY <1>3, <2>2
    <3> HIDE DEF over
    <3>10. IsFiniteSet(over) /\ Linear(over, up(over))
      BY <1>4, <3>1
    <3> HIDE DEF up
    <3>2. /\ Cardinality(over) \in Nat /\ s \in [1..Cardinality(over) -> over]
          /\ \A i, j \in 1..Cardinality(over) : i < j => <<s[i], s[j]>> \in up(over)
          /\ \A x \in over : \E i \in 1..Cardinality(over) : s[i] = x
      BY <3>10, SortedOK
    <3> HIDE DEF s
    <3> USE DEF up
    <3>3. 1 \in 1..Cardinality(over)
      <4>1. PICK x \in over : TRUE
        BY <3>1
      <4>2. PICK i \in 1..Cardinality(over) : s[i] = x
        BY <3>2, <4>1
      <4> QED BY <3>2, <4>2
    <3>4. \A g \in over : s[1] <= g
      <4> SUFFICES ASSUME NEW g \in over PROVE s[1] <= g
        OBVIOUS
      <4>1. PICK i \in 1..Cardinality(over) : s[i] = g
        BY <3>2
      <4>2. s[1] \in Nat /\ g \in Nat
        BY <1>3, <3>1, <3>2, <3>3
      <4>3. CASE i = 1
        BY <4>1, <4>2, <4>3
      <4>4. CASE i # 1
        <5>1. 1 < i
          BY <3>2, <4>4
        <5>2. s[1] < s[i]
          BY <3>2, <3>3, <5>1
        <5> QED BY <4>1, <4>2, <5>2
      <4> QED BY <4>3, <4>4
    <3>5. offset' = CHOOSE f \in over : \A g \in over : f <= g
      BY <1>1, <2>2 DEF over
    <3>6. s[1] \in over
      BY <3>2, <3>3
    <3>7. offset' \in over /\ \A g \in over : offset' <= g
      BY <3>4, <3>5, <3>6
    <3>8. offset' \in left /\ offset' \notin page /\ offset' \in Nat /\ offset' >= offset
      BY <1>3, <3>7 DEF over
    <3>9. ASSUME NEW f \in left
          PROVE  f < offset' <=> f \in page
      <4>1. f \in Nat
        BY <1>3
      <4>2. f \in page => f < offset'
        <5>1. f \in page => ~(offset' < f) /\ offset' # f
          BY <1>5, <3>8
        <5> QED BY <3>8, <4>1, <5>1
      <4>3. f \notin page => ~(f < offset')
        <5>1. f \notin page => offset' <= f
          BY <3>7, <3>9 DEF over
        <5> QED BY <3>8, <4>1, <5>1
      <4> QED BY <4>2, <4>3
    <3> QED BY <3>8, <3>9
  <2> QED BY <2>1, <2>2
<1>11. GraphTypeOK'
  <2>1. scan' \in {"scan", "pairs", "shown", "narrow", "failed"}
    BY <1>1
  <2> QED BY <1>1, <1>2, <1>8, <1>10, <2>1 DEF GraphTypeOK
<1>12. NodesOK'
  <2>1. ASSUME NEW i \in 1..(n + k)
        PROVE  points'[i] \in held
    <3>1. CASE i \in 1..n
      BY <1>2, <1>8, <3>1 DEF NodesOK, n
    <3>2. CASE i \notin 1..n
      <4>1. PICK j \in 1..k : i = n + j
        BY <1>8, <3>2
      <4>2. points'[i] = <<ids[j], point[ids[j]]>>
        BY <1>8, <4>1
      <4> QED BY <1>2, <1>9, <4>2 DEF NodesOK
    <3> QED BY <3>1, <3>2
  <2>2. /\ \A i \in 1..n : points[i][1] < offset /\ points[i][1] \in Nat
        /\ \A i, j \in 1..n : i < j => points[i][1] < points[j][1]
    BY <1>1, <1>2, PointFacts DEF NodesOK, n
  <2>3. ASSUME NEW i \in 1..(n + k), NEW j \in 1..(n + k), i < j
        PROVE  points'[i][1] < points'[j][1]
    <3>1. CASE j \in 1..n
      <4>1. i \in 1..n
        BY <1>3, <2>3, <3>1
      <4> QED BY <1>8, <2>2, <2>3, <3>1, <4>1
    <3>2. CASE j \notin 1..n
      <4>1. PICK jj \in 1..k : j = n + jj
        BY <1>8, <3>2
      <4>2. points'[j][1] = ids[jj] /\ ids[jj] \in Nat /\ ids[jj] >= offset
        BY <1>8, <1>9, <4>1
      <4>3. CASE i \in 1..n
        <5>1. points'[i][1] < offset /\ points'[i][1] \in Nat
          BY <1>8, <2>2, <4>3
        <5> QED BY <1>3, <4>2, <5>1
      <4>4. CASE i \notin 1..n
        <5>1. PICK ii \in 1..k : i = n + ii
          BY <1>8, <4>4
        <5>2. points'[i][1] = ids[ii]
          BY <1>8, <5>1
        <5>3. ii < jj
          BY <1>3, <1>6, <2>3, <4>1, <5>1
        <5> QED BY <1>6, <4>2, <5>2, <5>3
      <4> QED BY <4>3, <4>4
    <3> QED BY <3>1, <3>2
  <2>4. ASSUME scan' = "scan", NEW i \in 1..(n + k)
        PROVE  points'[i][1] < offset'
    <3>1. CASE i \in 1..n
      <4>1. points'[i][1] < offset /\ points'[i][1] \in Nat
        BY <1>8, <2>2, <3>1
      <4> QED BY <1>3, <1>10, <4>1
    <3>2. CASE i \notin 1..n
      <4>1. PICK j \in 1..k : i = n + j
        BY <1>8, <3>2
      <4>2. points'[i][1] = ids[j]
        BY <1>8, <4>1
      <4> QED BY <1>1, <1>9, <1>10, <2>4, <4>2
    <3> QED BY <3>1, <3>2
  <2>5. ASSUME scan' \in {"scan", "pairs", "shown"}, NEW f \in still,
               Viewer!Shows(point[f]), scan' = "scan" => f < offset'
        PROVE  \E i \in 1..(n + k) : points'[i] = <<f, point[f]>>
    <3>1. f \in Points /\ f \in Nat /\ point[f] # None
      BY <1>2, <1>3, <2>5 DEF GraphTypeOK, Viewer!Shows
    <3>2. CASE f < offset
      <4>1. PICK i \in 1..n : points[i] = <<f, point[f]>>
        BY <1>1, <1>2, <2>5, <3>2 DEF NodesOK, n
      <4>2. i \in 1..(n + k) /\ points'[i] = <<f, point[f]>>
        BY <1>3, <1>6, <1>8, <4>1
      <4> QED BY <4>2
    <3>3. CASE ~(f < offset)
      <4>1. f \in left
        BY <1>3, <3>1, <3>3
      <4>2. f \in page
        BY <1>1, <1>10, <2>5, <4>1
      <4>3. f \in new
        BY <2>5, <4>2 DEF new
      <4>4. PICK j \in 1..k : ids[j] = f
        BY <1>6, <4>3
      <4>5. n + j \in 1..(n + k) /\ points'[n + j] = <<f, point[f]>>
        BY <1>3, <1>6, <1>8, <4>4
      <4> QED BY <4>5
    <3> QED BY <3>2, <3>3
  <2>7. \A f \in Points : point'[f] # None => <<f, point'[f]>> \in held'
    BY <1>1, <1>2 DEF NodesOK
  <2> QED BY <1>1, <1>8, <2>1, <2>3, <2>4, <2>5, <2>7 DEF NodesOK, Viewer!Shows
<1>13. HeapOK'
  <2>1. loops' = <<1, 2>> /\ heap' = {}
    BY <1>1, <1>2 DEF HeapOK
  <2>2. Met' = {}
    <3>1. ASSUME NEW ij \in Indices', Behind(ij[1], ij[2])'
          PROVE  FALSE
      <4>1. ij[1] \in 1..(n + k) /\ ij[2] \in 1..(n + k) /\ ij[1] < ij[2]
        BY <1>8 DEF Indices
      <4>2. ij[1] < 1 \/ (ij[1] = 1 /\ ij[2] < 2)
        BY <2>1, <3>1 DEF Behind
      <4> QED BY <1>3, <1>6, <4>1, <4>2
    <3> QED BY <3>1 DEF Met
  <2>3. Keeps({}, {})
    BY GraphConstants, FS_EmptySet DEF Keeps
  <2>4. Keeps(heap, Met)'
    BY <2>1, <2>2, <2>3 DEF Keeps
  <2>5. /\ loops'[1] = 1 /\ loops'[2] = 2 /\ Len(points') \in Nat
    BY <1>3, <1>6, <1>8, <2>1
  <2>6. scan' # "shown"
    BY <1>1
  <2> QED BY <2>1, <2>4, <2>5, <2>6 DEF HeapOK
<1> QED BY <1>11, <1>12, <1>13 DEF GraphInv

LEMMA SamePairs ==
    ASSUME points' = points, NEW i, NEW j
    PROVE  Viewer!Pair(i, j)' = Viewer!Pair(i, j)
BY DEF Viewer!Pair, Viewer!Vector

\* Steps that leave the points and the heap alone.
LEMMA SameHeap ==
    ASSUME UNCHANGED <<points, loops, heap>>
    PROVE  /\ Met' = Met
           /\ Keeps(heap, Met) => Keeps(heap, Met)'
<1>1. Met' = Met
  BY DEF Met, Indices, Behind, Viewer!Pair, Viewer!Vector
<1> QED BY <1>1 DEF Keeps, Viewer!Stronger

LEMMA CompareInv ==
    ASSUME GraphInv, Viewer!Compare
    PROVE  GraphInv'
<1> DEFINE n == Len(points)
           p == Viewer!Pair(loops[1], loops[2])
<1>1. /\ scan = "pairs" /\ loops[1] < n
      /\ heap' = IF p[1] >= Threshold THEN Viewer!KeepStrongest(p) ELSE heap
      /\ loops' = IF loops[2] < n THEN <<loops[1], loops[2] + 1>>
                  ELSE <<loops[1] + 1, loops[1] + 2>>
      /\ UNCHANGED <<point, shows, scan, offset, points, pairs, held, still>>
  BY DEF Viewer!Compare
<1>2. GraphTypeOK /\ NodesOK /\ HeapOK
  BY DEF GraphInv
<1>3. n \in Nat /\ loops[1] \in Nat /\ loops[2] \in Nat
  BY <1>2, PointFacts
<1>4. /\ loops[1] >= 1 /\ loops[1] < loops[2] /\ loops[2] <= n
      /\ Keeps(heap, Met)
  BY <1>1, <1>2 DEF HeapOK
<1>5. loops[1] \in 1..n /\ loops[2] \in 1..n
  BY <1>1, <1>3, <1>4
<1>6. p \in Triples /\ p[2] = points[loops[1]][1] /\ p[3] = points[loops[2]][1]
  BY <1>2, <1>5, PairType
<1>7. /\ loops' \in Nat \X Nat /\ loops'[1] >= 1 /\ loops'[1] < loops'[2]
      /\ loops'[1] < n => loops'[2] <= n
  <2>1. CASE loops[2] < n
    <3>1. loops' = <<loops[1], loops[2] + 1>>
      BY <1>1, <2>1
    <3> QED BY ONLY <1>3, <1>4, <2>1, <3>1
  <2>2. CASE ~(loops[2] < n)
    <3>1. loops' = <<loops[1] + 1, loops[1] + 2>>
      BY <1>1, <2>2
    <3> QED BY ONLY <1>3, <1>4, <2>2, <3>1
  <2> QED BY <2>1, <2>2
<1>8. ASSUME NEW i \in 1..n, NEW j \in 1..n, i < j
      PROVE  Behind(i, j)' <=> Behind(i, j) \/ (i = loops[1] /\ j = loops[2])
  <2>1. CASE loops[2] < n
    <3>1. loops'[1] = loops[1] /\ loops'[2] = loops[2] + 1
      BY <1>1, <2>1
    <3> QED BY ONLY <1>3, <1>8, <3>1 DEF Behind
  <2>2. CASE ~(loops[2] < n)
    <3>1. loops'[1] = loops[1] + 1 /\ loops'[2] = loops[1] + 2
      BY <1>1, <2>2
    <3> QED BY ONLY <1>3, <1>4, <1>8, <2>2, <3>1 DEF Behind
  <2> QED BY <2>1, <2>2
<1>9. p \notin Met
  <2>1. SUFFICES ASSUME NEW i \in 1..n, NEW j \in 1..n, i < j, Behind(i, j),
                        p = Viewer!Pair(i, j)
                 PROVE  FALSE
    BY DEF Met, Indices
  <2>2. points[i][1] = points[loops[1]][1] /\ points[j][1] = points[loops[2]][1]
    BY <1>2, <1>6, <2>1, PairType
  <2>3. \A a, b \in 1..n : points[a][1] = points[b][1] => a = b
    <3>1. \A a, b \in 1..n : a < b => points[a][1] < points[b][1]
      BY <1>2 DEF NodesOK
    <3>2. \A a \in 1..n : points[a][1] \in Nat
      BY <1>2, PointFacts
    <3> QED BY ONLY <1>3, <3>1, <3>2
  <2> HIDE DEF n
  <2>4. i = loops[1] /\ j = loops[2]
    BY <1>5, <2>2, <2>3
  <2> QED BY <1>3, <2>1, <2>4 DEF Behind
<1>10. Met' = Met \cup (IF p[1] >= Threshold THEN {p} ELSE {})
  <2>1. \A i, j : Viewer!Pair(i, j)' = Viewer!Pair(i, j)
    BY <1>1, SamePairs
  <2>2. Indices' = Indices
    BY <1>1 DEF Indices
  <2>3. \A q : q \in Met <=> \E ij \in Indices : /\ Behind(ij[1], ij[2]) /\ q[1] >= Threshold
                                              /\ q = Viewer!Pair(ij[1], ij[2])
    BY DEF Met
  <2>4. \A q : q \in Met' <=> \E ij \in Indices : /\ Behind(ij[1], ij[2])' /\ q[1] >= Threshold
                                               /\ q = Viewer!Pair(ij[1], ij[2])
    BY <2>1, <2>2 DEF Met
  <2>5. \A ij \in Indices : /\ ij = <<ij[1], ij[2]>>
                           /\ ij[1] \in 1..n /\ ij[2] \in 1..n /\ ij[1] < ij[2]
    BY DEF Indices
  <2>6. <<loops[1], loops[2]>> \in Indices
    BY <1>4, <1>5 DEF Indices
  <2>7. \A ij \in Indices :
           Behind(ij[1], ij[2])' <=> Behind(ij[1], ij[2]) \/ ij = <<loops[1], loops[2]>>
    BY <1>8, <2>5
  <2> HIDE DEF n, p
  <2>8. ASSUME NEW q
        PROVE  q \in Met' <=> q \in Met \/ (q = p /\ p[1] >= Threshold)
    BY <2>3, <2>4, <2>6, <2>7 DEF p
  <2> QED BY <2>8
<1>11. Keeps(heap', Met')
  <2>1. CASE p[1] >= Threshold
    <3>1. heap' = Viewer!KeepStrongest(p) /\ Met' = Met \cup {p}
      BY <1>1, <1>10, <2>1
    <3>2. Keeps(Viewer!KeepStrongest(p), Met \cup {p})
      BY <1>2, <1>4, <1>6, <1>9, MetType, KeepsStrongest
    <3> QED BY <3>1, <3>2
  <2>2. CASE ~(p[1] >= Threshold)
    <3>1. heap' = heap /\ Met' = Met
      BY <1>1, <1>10, <2>2
    <3> QED BY <1>4, <3>1
  <2> QED BY <2>1, <2>2
<1>12. Keeps(heap, Met)'
  BY <1>11 DEF Keeps, Viewer!Stronger
<1>13. GraphTypeOK'
  BY <1>1, <1>2, <1>7 DEF GraphTypeOK
<1>14. NodesOK'
  BY <1>1, <1>2 DEF NodesOK, Viewer!Shows
<1>15. HeapOK'
  <2>1. scan' = "pairs" /\ Len(points') = n
    BY <1>1
  <2> QED BY <1>7, <1>12, <2>1 DEF HeapOK
<1> QED BY <1>13, <1>14, <1>15 DEF GraphInv

LEMMA ShowInv ==
    ASSUME GraphInv, NEW kind, Viewer!Show(kind)
    PROVE  GraphInv'
<1>1. /\ scan = "pairs" /\ loops[1] >= Len(points) /\ scan' = "shown"
      /\ UNCHANGED <<point, shows, offset, points, loops, heap, held, still>>
      /\ pairs' = Viewer!Sorted(heap, {e \in heap \X heap : Viewer!Stronger(e[1], e[2])})
  BY DEF Viewer!Show
<1>2. GraphTypeOK /\ NodesOK /\ HeapOK
  BY DEF GraphInv
<1>3. GraphTypeOK'
  BY <1>1, <1>2 DEF GraphTypeOK
<1>4. NodesOK'
  BY <1>1, <1>2 DEF NodesOK, Viewer!Shows
<1>5. Keeps(heap, Met)'
  BY <1>1, <1>2, SameHeap DEF HeapOK
<1>6. pairs' = Viewer!Sorted(heap', ByStrength(heap'))
  BY <1>1 DEF ByStrength
<1>7. (pairs = Viewer!Sorted(heap, ByStrength(heap)))'
  BY <1>6 DEF Viewer!Sorted, ByStrength, Viewer!Stronger
<1>8. HeapOK'
  BY <1>1, <1>2, <1>5, <1>7 DEF HeapOK
<1> QED BY <1>3, <1>4, <1>8 DEF GraphInv

LEMMA PointChangeInv ==
    ASSUME GraphInv, NEW f \in Points, Viewer!Change(f)
    PROVE  GraphInv'
<1>1. PICK v \in (Vectors \cup {Other, None}) \ {point[f]} : point' = [point EXCEPT ![f] = v]
  BY DEF Viewer!Change
<1>2. /\ scan = "scan"
      /\ held' = held \cup ({<<f, point'[f]>>} \ {<<f, None>>})
      /\ still' = still \ {f}
      /\ UNCHANGED <<shows, scan, offset, points, loops, heap, pairs>>
  BY DEF Viewer!Change
<1>3. GraphTypeOK /\ NodesOK /\ HeapOK
  BY DEF GraphInv
<1>4. /\ point' \in [Points -> Vectors \cup {Other, None}]
      /\ \A g \in Points \ {f} : point'[g] = point[g]
  BY <1>1, <1>3 DEF GraphTypeOK
<1>5. GraphTypeOK'
  BY <1>2, <1>3, <1>4 DEF GraphTypeOK
<1>6. NodesOK'
  <2>1. ASSUME NEW g \in Points, point'[g] # None
        PROVE  <<g, point'[g]>> \in held'
    <3>1. CASE g = f
      <4>1. <<f, point'[f]>> # <<f, None>>
        BY <2>1, <3>1
      <4> QED BY <1>2, <3>1, <4>1
    <3>2. CASE g # f
      BY <1>2, <1>3, <1>4, <2>1, <3>2 DEF NodesOK
    <3> QED BY <3>1, <3>2
  <2>2. \A i \in 1..Len(points) : points[i] \in held'
    BY <1>2, <1>3 DEF NodesOK
  <2>3. \A g \in still' : g \in still /\ point'[g] = point[g]
    BY <1>2, <1>3, <1>4 DEF GraphTypeOK
  <2>4. /\ \A i, j \in 1..Len(points) : i < j => points[i][1] < points[j][1]
        /\ scan = "scan" => \A i \in 1..Len(points) : points[i][1] < offset
    BY <1>3 DEF NodesOK
  <2>5. scan \in {"scan", "pairs", "shown"} =>
          \A g \in still' :
              (point'[g] # None /\ (shows = "graph" => point'[g] # Other))
              /\ (scan = "scan" => g < offset) =>
                  \E i \in 1..Len(points) : points[i] = <<g, point'[g]>>
    BY <1>3, <2>3 DEF NodesOK, Viewer!Shows
  <2> QED BY <1>2, <2>1, <2>2, <2>4, <2>5 DEF NodesOK, Viewer!Shows
<1>7. HeapOK'
  BY <1>2, <1>3 DEF HeapOK
<1> QED BY <1>5, <1>6, <1>7 DEF GraphInv

LEMMA GraphStep == GraphInv /\ [Viewer!Next]_(Viewer!vars) => GraphInv'
<1> SUFFICES ASSUME GraphInv, [Viewer!Next]_(Viewer!vars) PROVE GraphInv'
  OBVIOUS
<1>1. CASE Viewer!ReadPage
  BY <1>1, PageInv
<1>2. CASE Viewer!Compare
  BY <1>2, CompareInv
<1>3. CASE Viewer!ShowGraph \/ Viewer!ShowDuplicates
  BY <1>3, ShowInv DEF Viewer!ShowGraph, Viewer!ShowDuplicates
<1>4. CASE \E f \in Points : Viewer!Change(f)
  BY <1>4, PointChangeInv
<1>5. CASE Viewer!Fail
  <2>1. /\ scan' = "failed"
        /\ UNCHANGED <<point, shows, offset, points, loops, heap, pairs, held, still>>
    BY <1>5 DEF Viewer!Fail
  <2> QED BY <2>1 DEF GraphInv, GraphTypeOK, NodesOK, HeapOK
<1>6. CASE UNCHANGED (Viewer!vars)
  <2>1. UNCHANGED <<point, shows, scan, offset, points, loops, heap, pairs, held, still>>
    BY <1>6 DEF Viewer!vars
  <2>2. (pairs = Viewer!Sorted(heap, ByStrength(heap))) =>
        (pairs = Viewer!Sorted(heap, ByStrength(heap)))'
    BY <2>1 DEF Viewer!Sorted, ByStrength, Viewer!Stronger
  <2>3. HeapOK => HeapOK'
    BY <2>1, <2>2, SameHeap DEF HeapOK
  <2> QED BY <2>1, <2>3 DEF GraphInv, GraphTypeOK, NodesOK, Viewer!Shows
<1> QED BY <1>1, <1>2, <1>3, <1>4, <1>5, <1>6 DEF Viewer!Next

LEMMA GraphHolds == GraphInv => Viewer!GraphIsTrue
<1> SUFFICES ASSUME GraphInv, scan = "shown" PROVE Viewer!GraphIsTrue
  BY DEF Viewer!GraphIsTrue, Viewer!NodesAreTrue, Viewer!PairsAreStrongest
<1>1. GraphTypeOK /\ NodesOK /\ HeapOK
  BY DEF GraphInv
<1> DEFINE n == Len(points)
           m == Cardinality(heap)
<1>2. /\ n \in Nat /\ DOMAIN points = 1..n
      /\ \A i \in 1..n : points[i][1] \in Nat
  BY <1>1, PointFacts
<1>3. Viewer!NodesAreTrue
  <2>1. Viewer!ToSet(points) = {points[i] : i \in 1..n}
    BY <1>2 DEF Viewer!ToSet
  <2>2. /\ \A i \in 1..n : points[i] \in held
        /\ \A i, j \in 1..n : i < j => points[i][1] < points[j][1]
        /\ \A f \in still : Viewer!Shows(point[f]) =>
              \E i \in 1..n : points[i] = <<f, point[f]>>
    BY <1>1 DEF NodesOK
  <2> HIDE DEF n
  <2>3. \A i, j \in 1..n : points[i][1] = points[j][1] => i = j
    BY <1>2, <2>2
  <2> QED BY <1>2, <2>1, <2>2, <2>3 DEF Viewer!NodesAreTrue
<1>4. Viewer!Candidates = Met
  <2>1. \A ij \in Indices : /\ ij[1] \in Nat /\ ij[2] \in Nat /\ ij[1] < ij[2] /\ ij[2] <= n
    BY <1>2 DEF Indices
  <2>2. loops[1] >= n /\ loops[1] \in Nat
    BY <1>1, PointFacts DEF HeapOK
  <2> HIDE DEF n
  <2>3. \A ij \in Indices : Behind(ij[1], ij[2])
    BY <1>2, <2>1, <2>2 DEF Behind
  <2>4. {c \in Indices : Behind(c[1], c[2])} = Indices
    BY <2>3
  <2> QED BY <2>4 DEF Viewer!Candidates, Met, Indices
<1>5. Met \subseteq Triples /\ Keeps(heap, Met)
  BY <1>1, MetType DEF HeapOK
<1>6. IsFiniteSet(Met)
  <2>1. IsFiniteSet((1..n) \X (1..n))
    <3>1. IsFiniteSet(1..n)
      BY <1>2, FS_Interval
    <3> HIDE DEF n
    <3> QED BY <3>1, FS_Product
  <2>2. IsFiniteSet({c \in Indices : Behind(c[1], c[2])})
    <3>1. {c \in Indices : Behind(c[1], c[2])} \subseteq (1..n) \X (1..n)
      BY DEF Indices
    <3> QED BY <2>1, <3>1, FS_Subset
  <2> DEFINE C == {c \in Indices : Behind(c[1], c[2])}
             all == {Viewer!Pair(ij[1], ij[2]) : ij \in C}
             pick == [ij \in C |-> Viewer!Pair(ij[1], ij[2])]
  <2>3. IsFiniteSet(all)
    <3>1. pick \in Surjection(C, all)
      BY DEF Surjection
    <3> HIDE DEF C, all, pick
    <3> QED BY <2>2, <3>1, FS_Surjection DEF C
  <2>4. Met \subseteq all
    BY DEF Met
  <2> HIDE DEF all
  <2> QED BY <2>3, <2>4, FS_Subset
<1>7. heap = {p \in Met : Viewer!Cardinality({q \in Met : Viewer!Stronger(q, p)}) < MaxPairs}
  <2>1. heap = {p \in Met : Cardinality({q \in Met : Viewer!Stronger(q, p)}) < MaxPairs}
    BY <1>5, <1>6, KeptAreStrongest
  <2>2. ASSUME NEW p
        PROVE  p \in heap <=> p \in Met /\ Viewer!Cardinality({q \in Met : Viewer!Stronger(q, p)}) < MaxPairs
    <3>1. p \in heap <=> p \in Met /\ Cardinality({q \in Met : Viewer!Stronger(q, p)}) < MaxPairs
      BY <2>1
    <3> QED BY <3>1, ViewerSets
  <2> QED BY <2>2
<1>8. /\ m \in Nat /\ pairs \in [1..m -> heap]
      /\ \A i, j \in 1..m : i < j => <<pairs[i], pairs[j]>> \in ByStrength(heap)
      /\ \A x \in heap : \E i \in 1..m : pairs[i] = x
  <2>1. IsFiniteSet(heap) /\ Linear(heap, ByStrength(heap))
    BY <1>5, StrengthLinear DEF Keeps
  <2>2. pairs = Viewer!Sorted(heap, ByStrength(heap))
    BY <1>1 DEF HeapOK
  <2> QED BY <2>1, <2>2, ViewerSorted
<1> HIDE DEF m
<1>9. Viewer!ToSet(pairs) = heap
  BY <1>8 DEF Viewer!ToSet
<1>10. ASSUME NEW k \in DOMAIN pairs \ {1}
       PROVE  Viewer!Stronger(pairs[k - 1], pairs[k])
  <2>1. k \in 1..m /\ k - 1 \in 1..m /\ k - 1 < k
    BY <1>8
  <2>2. <<pairs[k - 1], pairs[k]>> \in ByStrength(heap)
    BY <1>8, <2>1
  <2> QED BY <2>2 DEF ByStrength
<1>11. Viewer!PairsAreStrongest
  <2>1. Viewer!ToSet(pairs) = {p \in Viewer!Candidates :
             Viewer!Cardinality({q \in Viewer!Candidates : Viewer!Stronger(q, p)}) < MaxPairs}
    BY <1>4, <1>7, <1>9
  <2> QED BY <1>10, <2>1 DEF Viewer!PairsAreStrongest
<1> QED BY <1>3, <1>11 DEF Viewer!GraphIsTrue
------------------------------------------------------------------------------
(* The views of the dashboard. *)

\* The history of a fact is what its facts said when they were read, settled
\* and with every cycle marked, for any collection of facts, any root and any
\* bounds, however the facts change while they are read one by one
\* (historyGraph).
THEOREM HistoryShowsTheTruth == History!Spec => []History!HistoryIsTrue
<1> USE DEF History!Spec
<1> QED BY HistoryInitInv, HistoryStep, HistoryHolds, PTL

\* The graph and the duplicates show facts that were there, each once, none
\* that stayed is missing, and their pairs are the strongest of all in order,
\* for any facts, similarities, page size and bounds, however the facts
\* change between two pages (apiGraph, apiDuplicates).
THEOREM GraphShowsTheTruth == Viewer!Spec => []Viewer!GraphIsTrue
<1> USE DEF Viewer!Spec
<1> QED BY GraphInitInv, GraphStep, GraphHolds, PTL

\* Both, in the specification that is checked with the memory tools' reads.
THEOREM ViewsShowTheTruth == MCSpec => []ViewsAreTrue
<1> DEFINE Inv == HistoryInv /\ GraphInv
<1>1. MCInit => Inv
  BY HistoryInitInv, GraphInitInv DEF MCInit, HistoryInit, GraphInit
<1>2. Inv /\ [MCNext]_<<reader, vars, historyVars, graphVars>> => Inv'
  <2> SUFFICES ASSUME Inv, [MCNext]_<<reader, vars, historyVars, graphVars>>
               PROVE  Inv'
    OBVIOUS
  <2>1. ASSUME UNCHANGED historyVars PROVE UNCHANGED (History!vars)
    BY <2>1 DEF historyVars, History!vars
  <2>2. ASSUME UNCHANGED graphVars PROVE UNCHANGED (Viewer!vars)
    BY <2>2 DEF graphVars, Viewer!vars
  <2>3. [History!Next]_(History!vars) /\ [Viewer!Next]_(Viewer!vars)
    BY <2>1, <2>2 DEF MCNext
  <2> QED BY <2>3, HistoryStep, GraphStep
<1>3. Inv => ViewsAreTrue
  BY HistoryHolds, GraphHolds DEF ViewsAreTrue
<1> QED BY <1>1, <1>2, <1>3, PTL DEF MCSpec
=============================================================================
