--------------------------- MODULE MCRecallServing ---------------------------
(***************************************************************************)
(* Instances of RecallServing and of RecallCounter for TLC.                *)
(***************************************************************************)
EXTENDS RecallServing

CONSTANT First   \* the call that populated the cache

\* A warm server: First was a leader for its key, its result is published
\* and its recall is in the channel.  RecallServing reaches this state when
\* First runs alone.
WarmInit ==
    LET done(f, v) == [f EXCEPT ![First] = v]
        cold(v) == [r \in Requests |-> v]
    IN /\ recalls \in [Keys -> {First}]
       /\ inflight = [k \in Keys |-> None]
       /\ generation = 0
       /\ leaseGen = cold(0)
       /\ closed = {First}
       /\ entryMu = cold(None)
       /\ result = cold(0)
       /\ rpc = done(cold("idle"), "answered")
       /\ key \in [Requests -> Keys]
       /\ ptr = cold(None)
       /\ floor = cold(0)
       /\ mpc = [m \in Mutators |-> "idle"]
       /\ mver = [m \in Mutators |-> 0]
       /\ entries = [m \in Mutators |-> {}]
       /\ left = [m \in Mutators |-> {}]
       /\ store = 0
       /\ acked = 0
       /\ epc = done(cold("idle"), "sent")
       /\ batch = cold(Facts)
       /\ queue = <<First>>
       /\ accepting = TRUE
       /\ cancelled = FALSE
       /\ wpc = "select"
       /\ final = FALSE
       /\ pending = [f \in Facts |-> {}]
       /\ todo = {}
       /\ current = None
       /\ seen = {}
       /\ stored = [f \in Facts |-> {}]
       /\ rewriting = [f \in Facts |-> None]
       /\ spc = "running"

WarmSpec == WarmInit /\ [][ServingNext]_servingVars /\ Fairness

\* The counter by itself, with other writers of the points; the cache rests.
CounterSpec ==
    /\ ServingInit
    /\ [][Counter!Next /\ UNCHANGED vars]_servingVars
    /\ Counter!Fairness
=============================================================================
