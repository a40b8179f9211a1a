--------------------------- MODULE RecallFreshness ---------------------------
(***************************************************************************)
(* What recall_facts promises its clients about acknowledged mutations,    *)
(* whatever the cache in front of the store does: an answer reflects a     *)
(* state of the store that existed while the request was open or earlier,  *)
(* but never one older than a mutation acknowledged before the request     *)
(* was opened.  A store state is named by the number of writes applied.    *)
(***************************************************************************)
EXTENDS Naturals

CONSTANT Requests   \* the recall_facts calls

VARIABLES
    store,    \* number of writes applied to the collection
    acked,    \* the newest write whose handler has returned to its client
    phase,    \* phase[r] \in {"idle", "open", "answered", "failed"}
    floor,    \* floor[r]: value of acked when r was opened
    answer    \* answer[r]: the store state r's answer reflects

vars == <<store, acked, phase, floor, answer>>

Init ==
    /\ store = 0
    /\ acked = 0
    /\ phase = [r \in Requests |-> "idle"]
    /\ floor = [r \in Requests |-> 0]
    /\ answer = [r \in Requests |-> 0]

Write ==
    /\ store' = store + 1
    /\ UNCHANGED <<acked, phase, floor, answer>>

\* A handler returns: its write, and every older one, must be visible from
\* now on.
Acknowledge ==
    /\ acked' \in acked .. store
    /\ UNCHANGED <<store, phase, floor, answer>>

Open(r) ==
    /\ phase[r] = "idle"
    /\ phase' = [phase EXCEPT ![r] = "open"]
    /\ floor' = [floor EXCEPT ![r] = acked]
    /\ UNCHANGED <<store, acked, answer>>

Answer(r) ==
    /\ phase[r] = "open"
    /\ \E v \in floor[r] .. store : answer' = [answer EXCEPT ![r] = v]
    /\ phase' = [phase EXCEPT ![r] = "answered"]
    /\ UNCHANGED <<store, acked, floor>>

Fail(r) ==
    /\ phase[r] = "open"
    /\ phase' = [phase EXCEPT ![r] = "failed"]
    /\ UNCHANGED <<store, acked, floor, answer>>

Next ==
    \/ Write
    \/ Acknowledge
    \/ \E r \in Requests : Open(r) \/ Answer(r) \/ Fail(r)

Spec == Init /\ [][Next]_vars
=============================================================================
