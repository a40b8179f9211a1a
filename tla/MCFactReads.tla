------------------------------ MODULE MCFactReads ------------------------------
(***************************************************************************)
(* What is read of the facts, for TLC: by the memory tools (FactReads), by *)
(* the history view of the dashboard (FactHistory) or by its graph         *)
(* (VizGraph).  They share no state, so one of them moves in each          *)
(* behaviour.                                                              *)
(***************************************************************************)
EXTENDS FactReads

CONSTANTS
    Ids, Asked, MaxFetched, MaxQueued, MaxLinks, MaxViewChanges,
    Views, Points, Vectors, Similarity, Threshold, PageSize, MaxScanned, MaxNodes, MaxPairs,
    MaxPointChanges, Other

VARIABLES
    reader,
    view, viewChanges, stage, queue, discovered, fetched, status, links,
    truncated, at, rest, said,
    point, pointChanges, shows, scan, offset, scanned, points, loops, heap, pairs,
    held, still

historyVars == <<view, viewChanges, stage, queue, discovered, fetched, status,
                 links, truncated, at, rest, said>>
graphVars == <<point, pointChanges, shows, scan, offset, scanned, points, loops,
               heap, pairs, held, still>>

MCScore == <<1, 2, 2>>

\* A payload per thing that can be wrong or special about a fact.
Plain == [life |-> NoLife, until |-> NoDate, status |-> "absent", scope |-> TRUE,
          permanent |-> FALSE, count |-> 0]
With(s, c, b, r) == [Plain EXCEPT !.life = [state |-> s, canonical |-> c, by |-> b, rest |-> r]]
MCPayloads ==
    {Plain,
     [Plain EXCEPT !.permanent = TRUE, !.until = 1],
     [Plain EXCEPT !.until = BadDate],
     [Plain EXCEPT !.status = "torn"],
     With("absent", "true", "absent", "absent"),
     With("current", "true", "empty", "bad"),
     With("disputed", "false", "empty", "ok"),
     With("superseded", "false", "some", "ok")}

\* What a fact of a history may say.
Says(sup, by) == [active |-> TRUE, valid |-> TRUE, sup |-> sup, by |-> by]
MCViews ==
    {Says(a, b) : a \in {{}, {1}, {1, 3, 4}}, b \in {{}, {2}}} \cup
    {[Says({}, {}) EXCEPT !.active = FALSE], [Says({1}, {}) EXCEPT !.valid = FALSE]}

History == INSTANCE FactHistory WITH
              Root <- Asked,
              MaxChanges <- MaxViewChanges,
              changes <- viewChanges, phase <- stage

ASSUME HistoryBounds == History!HistoryAssumption

\* Two vectors that are alike, and a third that is like itself only.
MCSimilarity ==
    [p \in Vectors \X Vectors |->
        IF p[1] = p[2] THEN 2 ELSE IF "far" \in {p[1], p[2]} THEN 0 ELSE 1]

Viewer == INSTANCE VizGraph WITH
            Ids <- Points, MaxChanges <- MaxPointChanges,
            fact <- point, changes <- pointChanges, view <- shows, phase <- scan, at <- loops, steady <- still

ASSUME ViewerBounds == Viewer!GraphAssumption

\* The first fact may be anything; the second can push it out or, where both
\* are plain, tie with it; the third is one that it must not give way to.
Preferred == With("absent", "true", "absent", "absent")
ReadsInit ==
    /\ Init
    /\ fact[2] = Preferred \/ (fact[2] = Plain /\ fact[1] = Plain)
    /\ fact[3] = With("disputed", "false", "empty", "ok")

\* No fact names itself; the root is there.
HistoryInit ==
    /\ History!Init
    /\ \A f \in Ids : view[f] # None => f \notin view[f].sup \cup view[f].by
    /\ view[Asked] # None
    /\ view[4] \in {None, Says({3}, {})}

\* The last two facts of five push the others over the bounds; "a" and "b"
\* are alike in every respect.
GraphInit ==
    /\ Viewer!Init
    /\ point[1] # "b" /\ point[3] # "far"
    /\ <<point[4], point[5]>> \in {<<"a", Other>>, <<None, None>>}

\* A reader that does not move stays in one initial state.
MCInit ==
    /\ reader \in {"tools", "history", "graph"}
    /\ IF reader = "tools" THEN TRUE ELSE
          fact = [f \in Facts |-> IF f = 3 THEN With("disputed", "false", "empty", "ok") ELSE Plain]
    /\ IF reader = "history" THEN TRUE ELSE
          view = [f \in Ids |-> IF f = 4 THEN None ELSE Says({}, {})]
    /\ IF reader = "graph" THEN TRUE ELSE
          shows = "graph" /\ point = [f \in Points |-> None]
    /\ ReadsInit
    /\ HistoryInit
    /\ GraphInit

MCNext ==
    /\ UNCHANGED reader
    /\ \/ reader = "tools" /\ Next /\ UNCHANGED <<historyVars, graphVars>>
       \/ reader = "history" /\ History!Next /\ UNCHANGED <<vars, graphVars>>
       \/ reader = "graph" /\ Viewer!Next /\ UNCHANGED <<vars, historyVars>>

MCSpec == MCInit /\ [][MCNext]_<<reader, vars, historyVars, graphVars>>

------------------------------------------------------------------------------
\* What the dashboard shows of facts that change while it reads them: the
\* history as it was read, settled and without a cycle that is not marked
\* (FactHistory); the graph and the duplicates without a fact too many or too
\* few, and with the strongest pairs (VizGraph).
ViewsAreTrue == History!HistoryIsTrue /\ Viewer!GraphIsTrue
================================================================================
