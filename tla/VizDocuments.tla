----------------------------- MODULE VizDocuments -----------------------------
(***************************************************************************)
(* The inventory of documents in the dashboard (internal/viz/handler.go):  *)
(* a scan of all chunks, shared by the requests that wait for it and       *)
(* cached for a while.  The scan belongs to no request: whoever started it *)
(* may be gone.  refresh=1 asks for a scan although the cache is fresh.    *)
(*                                                                         *)
(* The collection is a version number per page of the scroll, written by   *)
(* the indexer while a scan reads one page after the other.                *)
(***************************************************************************)
EXTENDS Integers, FiniteSets

CONSTANTS
    Requests,    \* concurrent requests
    NumPages,    \* pages of the scroll
    TTL,         \* documentsCacheTTL
    Timeout,     \* vizComputationTimeout, which bounds a scan
    MaxScans,    \* bound: refreshes
    MaxWrites,   \* bound: versions
    MaxTime,     \* bound: clock
    None

DocumentsAssumption ==
    /\ {NumPages, TTL, Timeout} \subseteq Nat \ {0}
    /\ MaxScans \in Nat
    /\ None \notin Nat

VARIABLES
    page,      \* page[n]: version of the chunks on page n
    now,       \* the clock
    cache,     \* documentCache: [inventory, till, by], or None; by is history
    flight,    \* documentRefresh: the refresh in progress, or None
    refresh,   \* refresh[n]: the n-th one, as its waiters see it
    scan,      \* scan[n]: its scan: [next, inventory, start], or None
    pc,        \* pc[r]: where request r is
    req,       \* req[r]: what it asked for, and the refresh it waits for
    given,     \* history: given[r], the last answer, its time and whether it
               \* was in the cache when a refresh was asked for
    past       \* history: past[t], the versions at the beginning of time t

vars == <<page, now, cache, flight, refresh, scan, pc, req, given, past>>
worldVars == <<page, now, past>>

Pages == 1..NumPages
Count == Cardinality({n \in DOMAIN refresh : refresh[n] # "unused"})

Init ==
    /\ page = [n \in Pages |-> 0]
    /\ now = 0
    /\ cache = None
    /\ flight = None
    /\ refresh = [n \in 1..MaxScans |-> "unused"]
    /\ scan = [n \in 1..MaxScans |-> None]
    /\ pc = [r \in Requests |-> "idle"]
    /\ req = [r \in Requests |-> None]
    /\ given = [r \in Requests |-> None]
    /\ past = [t \in 0..0 |-> page]

\* cachedDocuments.
\* Mutant: without its expiry.
CachedEver == cache # None
Cached == cache # None /\ now <= cache.till

Begin(r, forced) ==
    /\ pc[r] = "idle"
    /\ pc' = [pc EXCEPT ![r] = "check"]
    /\ req' = [req EXCEPT ![r] = [forced |-> forced, waits |-> None,
                                       had |-> IF cache = None \/ ~forced THEN None ELSE cache.by]]
    /\ given' = [given EXCEPT ![r] = None]
    /\ UNCHANGED <<worldVars, cache, flight, refresh, scan>>

Give(r) ==
    /\ pc' = [pc EXCEPT ![r] = "idle"]
    /\ req' = [req EXCEPT ![r] = None]
    /\ given' = [given EXCEPT ![r] = [inventory |-> cache.inventory, time |-> now,
                                           old |-> req[r].had = cache.by]]

\* An error is answered: the scan failed, or the request was given up.
Deny(r) ==
    /\ pc' = [pc EXCEPT ![r] = "idle"]
    /\ req' = [req EXCEPT ![r] = None]
    /\ UNCHANGED given

Check(r) ==
    /\ pc[r] = "check"
    /\ IF Cached /\ ~req[r].forced
       THEN Give(r)
       ELSE pc' = [pc EXCEPT ![r] = "acquire"] /\ UNCHANGED <<req, given>>
    /\ UNCHANGED <<worldVars, cache, flight, refresh, scan>>

\* acquireDocumentsRefresh: one owner, everybody else waits.
Acquire(r) ==
    /\ pc[r] = "acquire"
    /\ IF flight # None
       THEN /\ req' = [req EXCEPT ![r].waits = flight]
            /\ pc' = [pc EXCEPT ![r] = "wait"]
            /\ UNCHANGED <<flight, refresh>>
       ELSE /\ Count < MaxScans
            /\ flight' = Count + 1
            /\ refresh' = [refresh EXCEPT ![Count + 1] = "open"]
            /\ req' = [req EXCEPT ![r].waits = Count + 1]
            /\ pc' = [pc EXCEPT ![r] = "own"]
    /\ UNCHANGED <<worldVars, cache, scan, given>>

\* finishDocumentsRefresh.
\* Mutant: a failure is not told to those who wait.
FailQuietly(n, result, err) ==
    /\ cache' = IF result # None THEN [inventory |-> result, till |-> now + TTL, by |-> n] ELSE cache
    /\ refresh' = IF err THEN refresh ELSE [refresh EXCEPT ![n] = "done"]
    /\ flight' = IF flight = n THEN None ELSE flight
FinishRefresh(n, result, err) ==
    /\ cache' = IF result # None THEN [inventory |-> result, till |-> now + TTL, by |-> n] ELSE cache
    /\ refresh' = [refresh EXCEPT ![n] = IF err THEN "failed" ELSE "done"]
    /\ flight' = IF flight = n THEN None ELSE flight

\* The owner looks at the cache again, which another refresh may have filled.
Own(r) ==
    /\ pc[r] = "own"
    /\ LET n == req[r].waits IN
       IF Cached /\ ~req[r].forced
       THEN /\ FinishRefresh(n, None, FALSE)
            /\ Give(r)
            /\ UNCHANGED scan
       ELSE /\ scan' = [scan EXCEPT ![n] = [next |-> 1, inventory |-> page, start |-> now]]
            /\ pc' = [pc EXCEPT ![r] = "wait"]
            /\ UNCHANGED <<cache, flight, refresh, req, given>>
    /\ UNCHANGED worldVars

\* buildDocumentsResponse, one page of the scroll at a time.
ScanPage(n) ==
    /\ scan[n] # None
    /\ scan[n].next <= NumPages
    /\ scan' = [scan EXCEPT ![n].inventory[scan[n].next] = page[scan[n].next], ![n].next = @ + 1]
    /\ UNCHANGED <<worldVars, cache, flight, refresh, pc, req, given>>

EndScan(n) ==
    /\ scan[n] # None
    /\ \/ /\ scan[n].next > NumPages
          /\ FinishRefresh(n, scan[n].inventory, FALSE)
       \/ FinishRefresh(n, None, TRUE)
    /\ scan' = [scan EXCEPT ![n] = None]
    /\ UNCHANGED <<worldVars, pc, req, given>>

\* A waiting request sees that its refresh has ended and reads the cache.
Wait(r) ==
    /\ pc[r] = "wait"
    /\ \/ refresh[req[r].waits] = "failed" /\ Deny(r)
       \/ refresh[req[r].waits] = "done" /\ (IF Cached THEN Give(r) ELSE Deny(r))
    /\ UNCHANGED <<worldVars, cache, flight, refresh, scan>>

GiveUp(r) ==
    /\ pc[r] = "wait"
    /\ Deny(r)
    /\ UNCHANGED <<worldVars, cache, flight, refresh, scan>>

\* The indexer.
Write(n) ==
    /\ page[n] < MaxWrites
    /\ page' = [page EXCEPT ![n] = @ + 1]
    /\ UNCHANGED <<now, past, cache, flight, refresh, scan, pc, req, given>>

\* The context of a scan ends it in time.
Tick ==
    /\ now < MaxTime
    /\ \A n \in DOMAIN scan : scan[n] # None => now < scan[n].start + Timeout
    /\ now' = now + 1
    /\ past' = [t \in 0..now' |-> IF t > now THEN page ELSE past[t]]
    /\ UNCHANGED <<page, cache, flight, refresh, scan, pc, req, given>>

Next ==
    \/ \E r \in Requests :
          \/ \E forced \in BOOLEAN : Begin(r, forced)
          \/ Check(r)
          \/ Acquire(r)
          \/ Own(r)
          \/ Wait(r)
          \/ GiveUp(r)
    \/ \E n \in 1..MaxScans : ScanPage(n) \/ EndScan(n)
    \/ \E n \in Pages : Write(n)
    \/ Tick

\* The server runs its requests and its scans; nobody has to give up.
Fairness ==
    /\ \A r \in Requests : WF_vars(Check(r) \/ Acquire(r) \/ Own(r) \/ Wait(r))
    /\ \A n \in 1..MaxScans : WF_vars(ScanPage(n) \/ EndScan(n))

Spec == Init /\ [][Next]_vars /\ Fairness

------------------------------------------------------------------------------
(* Properties. *)

\* An inventory shows no page older than it was when the oldest scan that the
\* cache may still hold could have begun, whoever shared it, gave up or wrote
\* meanwhile.
InventoryIsFresh ==
    \A r \in Requests :
        given[r] # None =>
            LET earliest == given[r].time - TTL - Timeout IN
            earliest >= 0 => \A n \in Pages : given[r].inventory[n] >= past[earliest][n]

\* One scan runs at a time, and it is the one everybody is sent to.
OneScan ==
    \A n \in 1..MaxScans : scan[n] # None => flight = n /\ refresh[n] = "open"

InventoryIsSound == InventoryIsFresh /\ OneScan

\* Every request is answered, although the request that started the scan is
\* given up, the scan fails or the cache expires (unless the bound on scans
\* is reached).
DocumentsAnswered ==
    \A r \in Requests :
        pc[r] # "idle" ~> (pc[r] = "idle" \/ (Count = MaxScans /\ flight = None))

\* refresh=1 is not answered from an inventory that was there before (the
\* comment at handler.go:1078): the code does so when the request joins a
\* refresh whose owner then finds the cache fresh.
RefreshBypassesCache ==
    \A r \in Requests : given[r] # None => ~given[r].old
===============================================================================
