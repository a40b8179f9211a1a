------------------------------- MODULE VizGraph -------------------------------
(***************************************************************************)
(* The graph and the duplicates of the dashboard (internal/viz/handler.go):*)
(* a scroll over the facts, one page after the other while facts change,   *)
(* with bounds on what is read and on what is shown, and then the most     *)
(* similar pairs of what was read, kept in a heap of bounded size.         *)
(*                                                                         *)
(* A fact is its vector; Other is an active fact that a filter of the      *)
(* graph leaves out, and None one that is quarantined or not there.        *)
(***************************************************************************)
EXTENDS Integers, Sequences, FiniteSets, SequencesExt

CONSTANTS
    Ids,         \* point IDs, numbers in the order of a scroll
    Vectors,
    Similarity,  \* Similarity[v, w]
    Threshold,
    PageSize,    \* graphScrollPageSize
    MaxScanned,  \* hardGraphScanPoints
    MaxNodes,    \* max_nodes
    MaxPairs,    \* max_edges, max_pairs
    MaxChanges,  \* bound: changes of facts meanwhile
    Other, None

GraphAssumption ==
    /\ Ids \subseteq Nat /\ IsFiniteSet(Ids)
    /\ Vectors # {}
    /\ {Other, None} \cap Vectors = {} /\ Other # None
    /\ Similarity \in [Vectors \X Vectors -> Nat]
    /\ {PageSize, MaxScanned, MaxNodes, MaxPairs} \subseteq Nat \ {0}

VARIABLES
    fact,      \* fact[f]: a vector, Other or None
    changes,   \* number of changes so far
    view,      \* "graph" or "duplicates"
    phase,     \* "scan", "pairs", "shown", "narrow" (refused) or "failed"
    offset,    \* the scroll goes on from this ID
    scanned,   \* facts read
    points,    \* <<f, v>> of the facts to be shown, in the order read
    at,        \* the two indices of the loops over the points
    heap,      \* the strongest pairs so far
    pairs,     \* the pairs answered, strongest first
    held,      \* history: <<f, v>> at any time since the scroll began
    steady     \* history: facts untouched since then

vars == <<fact, changes, view, phase, offset, scanned, points,
          at, heap, pairs, held, steady>>

Stored(facts) == {f \in Ids : facts[f] # None}
Shows(v) == v # None /\ (view = "graph" => v # Other)
\* The vector of a fact that the graph's filter leaves out is one of them.
Vector(v) == IF v = Other THEN CHOOSE w \in Vectors : TRUE ELSE v

Init ==
    /\ fact \in [Ids -> Vectors \cup {Other, None}]
    /\ changes = 0
    /\ view \in {"graph", "duplicates"}
    /\ phase = "scan"
    /\ offset = 0
    /\ scanned = 0
    /\ points = <<>> /\ pairs = <<>>
    /\ at = <<1, 2>> /\ heap = {}
    /\ held = {<<f, fact[f]>> : f \in Stored(fact)}
    /\ steady = Ids

\* S in the order of a strict linear order on it.
Sorted(S, order) ==
    LET n == Cardinality(S) IN
    CHOOSE s \in [1..n -> S] : \A i, j \in 1..n : i < j => <<s[i], s[j]>> \in order

\* scrollGraphPointsWithFiltersAndLimit, one page.
ReadPage ==
    /\ phase = "scan"
    /\ LET rest == {f \in Stored(fact) : f >= offset}
           page == {f \in rest : Cardinality({g \in rest : g < f}) < PageSize}
           new == {f \in page : Shows(fact[f])}
           ids == Sorted(new, {e \in new \X new : e[1] < e[2]})
       IN /\ scanned' = scanned + Cardinality(page)
          /\ points' = points \o [i \in 1..Cardinality(new) |-> <<ids[i], fact[ids[i]]>>]
          /\ offset' = IF page = rest THEN offset
                       ELSE CHOOSE f \in rest \ page : \A g \in rest \ page : f <= g
          /\ phase' = IF scanned' > MaxScanned \/ Len(points') > MaxNodes THEN "narrow"
                      ELSE IF page = rest THEN "pairs" ELSE "scan"
    /\ UNCHANGED <<fact, changes, view, at, heap, pairs, held, steady>>

------------------------------------------------------------------------------
(* The strongest pairs.  A pair is <<similarity, i, j>> with i before j.   *)

\* strongerEdge, strongerDuplicate.
Stronger(p, q) ==
    \/ p[1] > q[1]
    \/ p[1] = q[1] /\ (p[2] < q[2] \/ (p[2] = q[2] /\ p[3] < q[3]))

\* edgeHeap.Less, duplicateHeap.Less: what the root of the heap is.
\* Mutant: equally similar pairs the other way round.
LessForwards(p, q) ==
    \/ p[1] < q[1]
    \/ p[1] = q[1] /\ (p[2] < q[2] \/ (p[2] = q[2] /\ p[3] < q[3]))
Less(p, q) ==
    \/ p[1] < q[1]
    \/ p[1] = q[1] /\ (p[2] > q[2] \/ (p[2] = q[2] /\ p[3] > q[3]))

Root == CHOOSE p \in heap : \A q \in heap \ {p} : Less(p, q)

\* keepStrongestEdge, keepStrongestDuplicate.
KeepStrongest(pair) ==
    IF Cardinality(heap) < MaxPairs THEN heap \cup {pair}
    ELSE IF Stronger(pair, Root) THEN (heap \ {Root}) \cup {pair}
    ELSE heap

Pair(i, j) == <<Similarity[Vector(points[i][2]), Vector(points[j][2])],
                points[i][1], points[j][1]>>

\* strongestGraphEdges, strongestDuplicates: the next pair of the two loops.
Compare ==
    /\ phase = "pairs"
    /\ at[1] < Len(points)
    /\ LET pair == Pair(at[1], at[2]) IN
       heap' = IF pair[1] >= Threshold THEN KeepStrongest(pair) ELSE heap
    /\ at' = IF at[2] < Len(points) THEN <<at[1], at[2] + 1>> ELSE <<at[1] + 1, at[1] + 2>>
    /\ UNCHANGED <<fact, changes, view, phase, offset, scanned, points, pairs, held, steady>>

Show(page) ==
    /\ view = page
    /\ phase = "pairs"
    /\ at[1] >= Len(points)
    /\ phase' = "shown"
    /\ pairs' = Sorted(heap, {e \in heap \X heap : Stronger(e[1], e[2])})
    /\ UNCHANGED <<fact, changes, view, offset, scanned, points, at, heap, held, steady>>

\* apiGraph, apiDuplicates.
ShowGraph == Show("graph")
ShowDuplicates == Show("duplicates")

\* A page cannot be read, or the request is given up or too slow.
Fail ==
    /\ phase \in {"scan", "pairs"}
    /\ phase' = "failed"
    /\ UNCHANGED <<fact, changes, view, offset, scanned, points, at, heap, pairs, held, steady>>

\* The memory tools and commands change a fact.
Change(f) ==
    /\ phase = "scan"
    /\ changes < MaxChanges
    /\ changes' = changes + 1
    /\ \E v \in (Vectors \cup {Other, None}) \ {fact[f]} : fact' = [fact EXCEPT ![f] = v]
    /\ held' = held \cup ({<<f, fact'[f]>>} \ {<<f, None>>})
    /\ steady' = steady \ {f}
    /\ UNCHANGED <<view, phase, offset, scanned, points, at, heap, pairs>>

Next ==
    \/ ReadPage
    \/ Compare
    \/ ShowGraph
    \/ ShowDuplicates
    \/ Fail
    \/ \E f \in Ids : Change(f)

Spec == Init /\ [][Next]_vars

------------------------------------------------------------------------------
(* Properties. *)

\* What is shown was there, each fact once, and no fact that was there all
\* along is missing, whatever is stored or deleted between two pages.
NodesAreTrue ==
    phase = "shown" =>
        /\ ToSet(points) \subseteq held
        /\ \A i, j \in DOMAIN points : points[i][1] = points[j][1] => i = j
        /\ \A f \in steady : Shows(fact[f]) => <<f, fact[f]>> \in ToSet(points)

\* Every pair of points that is alike enough.
Candidates ==
    LET both == {ij \in (1..Len(points)) \X (1..Len(points)) : ij[1] < ij[2]} IN
    {p \in {Pair(ij[1], ij[2]) : ij \in both} : p[1] >= Threshold}

\* The pairs are the strongest of all, in order, equally similar ones by
\* their IDs, although no more than these are kept at any time.
PairsAreStrongest ==
    phase = "shown" =>
        /\ ToSet(pairs) = {p \in Candidates :
                              Cardinality({q \in Candidates : Stronger(q, p)}) < MaxPairs}
        /\ \A n \in DOMAIN pairs \ {1} : Stronger(pairs[n - 1], pairs[n])

GraphIsTrue == NodesAreTrue /\ PairsAreStrongest
===============================================================================
