------------------------------ MODULE FactHistory ------------------------------
(***************************************************************************)
(* The history of a fact in the dashboard (internal/viz/history.go): from  *)
(* one fact, along the supersedes and superseded_by lists of the facts it  *)
(* reaches, breadth first, each fact read by a request of its own while    *)
(* the memory tools change facts.  The answer is bounded: facts read,      *)
(* facts queued, links.                                                    *)
(*                                                                         *)
(* A link <<f, g>> says that f supersedes g.                               *)
(***************************************************************************)
EXTENDS Integers, FiniteSets, Sequences

CONSTANTS
    Ids,         \* point IDs, numbers in their lexical order
    Root,        \* the fact whose history is asked for
    Views,       \* what facts may say: active, valid, and the two lists
    MaxFetched,  \* hardHistoryFetchedNodes (32)
    MaxQueued,   \* hardHistoryQueuedIDs (32)
    MaxLinks,    \* hardHistoryLinks (256)
    MaxChanges,  \* bound: changes of facts meanwhile
    None

HistoryAssumption ==
    /\ Ids \subseteq Nat
    /\ Root \in Ids
    /\ Views \subseteq [active : BOOLEAN, valid : BOOLEAN, sup : SUBSET Ids, by : SUBSET Ids]
    /\ None \notin Views
    /\ {MaxFetched, MaxQueued, MaxLinks} \subseteq Nat \ {0}

VARIABLES
    view,        \* view[f]: what the fact stored under f says, or None
    changes,     \* number of changes so far
    phase,       \* "loading", "found", "not found" or "failed"
    queue,       \* IDs still to be read
    discovered,  \* IDs queued at any time
    fetched,     \* facts read
    status,      \* status[f]: resolved, missing or unavailable; "pending" until
                 \* it is read
    links,       \* the function from the links of the answer to their status;
                 \* "pending" while the fact at the other end is queued
    truncated,   \* whether the answer says that it is cut
    at,          \* the fact that was read last
    rest,        \* its relations that are still to be added
    said         \* history: said[f], what f said when it was read

vars == <<view, changes, phase, queue, discovered, fetched, status, links,
          truncated, at, rest, said>>

Init ==
    /\ view \in [Ids -> Views \cup {None}]
    /\ changes = 0
    /\ phase = "loading"
    /\ queue = <<Root>>
    /\ discovered = {Root}
    /\ fetched = 0
    /\ status = [f \in Ids |-> "pending"]
    /\ links = [l \in {} |-> "pending"]
    /\ truncated = FALSE
    /\ at = Root
    /\ rest = {}
    /\ said = [f \in Ids |-> None]

Active(v) == v # None /\ v.active

\* The relations a fact declares, as links in lexical order; the mirrored
\* lists of two facts give the same link.
Relations(f, v) == ({f} \X v.sup) \cup (v.by \X {f})
Before(k, l) == k[1] < l[1] \/ (k[1] = l[1] /\ k[2] < l[2])

LinksFull == Cardinality(DOMAIN links) >= MaxLinks
Straight == {l \in DOMAIN links : links[l] # "cycle"}

\* historyPathExists, over the links that are not cycles: whoever starts from
\* here and follows every link comes there.
PathExists(from, to) ==
    \A S \in SUBSET Ids :
        from \in S /\ (\A l \in Straight : l[1] \in S => l[2] \in S) => to \in S

\* No room for another fact.
Full ==
    \/ Cardinality(discovered) >= MaxQueued
    \/ fetched + Len(queue) >= MaxFetched

StatusOf(v) ==
    IF v = None THEN "missing" ELSE IF v.active THEN "resolved" ELSE "unavailable"

\* Links waiting for f take its status.
Resolve(f, s) ==
    [l \in DOMAIN links |-> IF links[l] = "pending" /\ (l[1] = f \/ l[2] = f) THEN s ELSE links[l]]

\* The next fact of the queue is read; its relations are not followed if it
\* has none that can be read, or the answer is full.
Fetch ==
    /\ phase = "loading"
    /\ rest = {}
    /\ queue # <<>>
    /\ fetched < MaxFetched
    /\ LET f == Head(queue)
           v == view[f]
           rels == IF Active(v) /\ v.valid THEN Relations(f, v) ELSE {}
       IN /\ fetched' = fetched + 1
          /\ said' = [said EXCEPT ![f] = v]
          /\ IF f = Root /\ ~Active(v)
             THEN /\ phase' = "not found"
                  /\ UNCHANGED <<queue, status, links, truncated, at, rest>>
             ELSE /\ queue' = Tail(queue)
                  /\ status' = [status EXCEPT ![f] = StatusOf(v)]
                  /\ links' = Resolve(f, StatusOf(v))
                  /\ at' = f
                  /\ rest' = IF LinksFull THEN {} ELSE rels
                  /\ truncated' = (truncated \/ (LinksFull /\ rels # {}))
                  /\ UNCHANGED phase
    /\ UNCHANGED <<view, changes, discovered>>

Put(l, s) == links' = [k \in DOMAIN links \cup {l} |-> IF k = l THEN s ELSE links[k]]

\* A link that is not in the answer yet.
Add(l) ==
    LET target == IF l[1] = at THEN l[2] ELSE l[1] IN
    /\ rest' = rest \ {l}
    /\ IF PathExists(l[2], l[1])
       THEN Put(l, "cycle") /\ UNCHANGED <<queue, discovered, truncated>>
       ELSE IF target \in discovered
       THEN Put(l, status[target]) /\ UNCHANGED <<queue, discovered, truncated>>
       ELSE IF Full
       THEN /\ Put(l, "unavailable")
            /\ truncated' = TRUE
            /\ UNCHANGED <<queue, discovered>>
       ELSE /\ Put(l, "pending")
            /\ discovered' = discovered \cup {target}
            /\ queue' = Append(queue, target)
            /\ UNCHANGED truncated

\* The next relation of the fact that was read.
Relate ==
    /\ phase = "loading"
    /\ \E l \in rest :
          /\ \A k \in rest \ {l} : Before(l, k)
          /\ IF l \in DOMAIN links
             THEN rest' = rest \ {l} /\ UNCHANGED <<queue, discovered, links, truncated>>
             ELSE IF LinksFull
             THEN /\ rest' = {}
                  /\ truncated' = TRUE
                  /\ UNCHANGED <<queue, discovered, links>>
             ELSE Add(l)
    /\ UNCHANGED <<view, changes, phase, fetched, status, at, said>>

\* The queue is empty, or the budget of reads is spent.
Answer ==
    /\ phase = "loading"
    /\ rest = {}
    /\ queue = <<>> \/ fetched >= MaxFetched
    /\ phase' = "found"
    /\ truncated' = (truncated \/ queue # <<>>)
    /\ UNCHANGED <<view, changes, queue, discovered, fetched, status, links, at, rest, said>>

\* A read fails, or the request is given up or too slow.
Fail ==
    /\ phase = "loading"
    /\ rest = {}
    /\ phase' = "failed"
    /\ UNCHANGED <<view, changes, queue, discovered, fetched, status, links,
                   truncated, at, rest, said>>

\* The memory tools and commands change a fact.
Change(f) ==
    /\ phase = "loading"
    /\ changes < MaxChanges
    /\ changes' = changes + 1
    /\ \E v \in Views \cup {None} : v # view[f] /\ view' = [view EXCEPT ![f] = v]
    /\ UNCHANGED <<phase, queue, discovered, fetched, status, links, truncated, at, rest, said>>

Next ==
    \/ Fetch
    \/ Relate
    \/ Answer
    \/ Fail
    \/ \E f \in Ids : Change(f)

Spec == Init /\ [][Next]_vars

------------------------------------------------------------------------------
(* Properties. *)

Nodes == {f \in Ids : status[f] = "resolved"}

\* Every link of an answer has its final status, whatever the bounds, and a
\* resolved link has both its facts in the answer.
LinksAreSettled ==
    phase = "found" =>
        \A l \in DOMAIN links :
            /\ links[l] # "pending"
            /\ links[l] = "resolved" => l[1] \in Nodes /\ l[2] \in Nodes

\* The links are what the facts of the answer said when they were read, all
\* of it unless the answer says that it is cut.
LinksWereSaid ==
    phase = "found" =>
        LET declared == UNION {Relations(f, said[f]) : f \in {g \in Nodes : said[g].valid}} IN
        /\ DOMAIN links \subseteq declared
        /\ ~truncated => /\ DOMAIN links = declared
                         /\ \A l \in declared : status[l[1]] # "pending" /\ status[l[2]] # "pending"

\* Without the links marked as cycles the history is a history: no fact
\* comes before itself; and each marked link would close a cycle.
CyclesAreMarked ==
    phase = "found" =>
        \A l \in DOMAIN links : links[l] = "cycle" <=> PathExists(l[2], l[1])

HistoryIsTrue == LinksAreSettled /\ LinksWereSaid /\ CyclesAreMarked
================================================================================
