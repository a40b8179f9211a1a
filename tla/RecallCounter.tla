---------------------------- MODULE RecallCounter ----------------------------
(***************************************************************************)
(* The recall counter of internal/memory/recall_counter.go: recall_facts   *)
(* calls enqueue batches of point IDs on a bounded channel; one worker     *)
(* merges them into a pending map and writes each point's recall_count     *)
(* with a read followed by a SetPayload; stop closes admission, waits for  *)
(* the admitted senders, cancels the worker's context and waits for it.    *)
(*                                                                         *)
(* A count is represented by the set of calls it includes, so that an      *)
(* increment applied twice or never is visible; its value is the set's     *)
(* cardinality.                                                            *)
(***************************************************************************)
EXTENDS Naturals, Sequences

CONSTANTS
    Requests,    \* recall_facts calls; each enqueues at most one batch
    Facts,       \* point IDs
    QueueSize,   \* capacity of the channel (defaultRecallQueueSize)
    Faults,      \* may Qdrant calls of the worker fail?
    Rewrites,    \* may other tools rewrite or delete the points meanwhile?
    None         \* no value

CounterAssumption ==
    QueueSize \in Nat \ {0} /\ Faults \in BOOLEAN /\ Rewrites \in BOOLEAN

VARIABLES
    epc,        \* epc[r]: where call r is in enqueueBatch
    batch,      \* batch[r]: the point IDs of r, fixed
    queue,      \* the channel: a sequence of calls
    accepting,  \* recallCounter.accepting; stopCh is closed when it is not
    cancelled,  \* the worker's context is cancelled
    wpc,        \* where the worker is
    final,      \* the worker flushes under the shutdown context
    pending,    \* pending[f]: the calls merged but not yet written
    todo,       \* points the running flush has still to visit
    current,    \* the point between its Get and the end of its SetPayload
    seen,       \* the count that Get returned
    stored,     \* stored[f]: the persisted count, or None when deleted
    rewriting,  \* rewriting[f]: count read by an update_fact in progress
    spc         \* where Shutdown is

senderVars == <<epc, batch>>
workerVars == <<wpc, final, pending, todo, current, seen>>
stopVars == <<accepting, cancelled, spc>>
storeVars == <<stored, rewriting>>
vars == <<epc, batch, queue, accepting, cancelled, wpc, final, pending, todo,
          current, seen, stored, rewriting, spc>>

Count == SUBSET Requests

TypeOK ==
    /\ epc \in [Requests -> {"idle", "admitted", "sent", "refused"}]
    /\ batch \in [Requests -> SUBSET Facts]
    /\ queue \in Seq(Requests) /\ Len(queue) <= QueueSize
    /\ accepting \in BOOLEAN
    /\ cancelled \in BOOLEAN
    /\ wpc \in {"select", "drain", "flush", "set", "invalidate", "done"}
    /\ final \in BOOLEAN
    /\ pending \in [Facts -> Count]
    /\ todo \in SUBSET Facts
    /\ current \in Facts \cup {None}
    /\ seen \in Count
    /\ stored \in [Facts -> Count \cup {None}]
    /\ rewriting \in [Facts -> Count \cup {None}]
    /\ spc \in {"running", "waiting", "cancelling", "stopped",
                "expired"}

Init ==
    /\ epc = [r \in Requests |-> "idle"]
    /\ batch \in [Requests -> SUBSET Facts \ {{}}]
    /\ queue = <<>>
    /\ accepting = TRUE
    /\ cancelled = FALSE
    /\ wpc = "select"
    /\ final = FALSE
    /\ pending = [f \in Facts |-> {}]
    /\ todo = {}
    /\ current = None
    /\ seen = {}
    /\ stored = [f \in Facts |-> {}]
    /\ rewriting = [f \in Facts |-> None]
    /\ spc = "running"

------------------------------------------------------------------------------
(* enqueueBatch. *)

\* Under mu: refuse when stopping, otherwise join enqueueWG.
Admit(r) ==
    /\ epc[r] = "idle"
    /\ epc' = [epc EXCEPT ![r] = IF accepting THEN "admitted" ELSE "refused"]
    /\ UNCHANGED <<batch, queue, workerVars, stopVars, storeVars>>

\* Mutant: the channel has no capacity.
SendUnbounded(r) ==
    /\ epc[r] = "admitted"
    /\ queue' = Append(queue, r)
    /\ epc' = [epc EXCEPT ![r] = "sent"]
    /\ UNCHANGED <<batch, workerVars, stopVars, storeVars>>

Send(r) ==
    /\ epc[r] = "admitted"
    /\ Len(queue) < QueueSize
    /\ queue' = Append(queue, r)
    /\ epc' = [epc EXCEPT ![r] = "sent"]
    /\ UNCHANGED <<batch, workerVars, stopVars, storeVars>>

\* The other two cases of the select: stopCh is closed.  Mutant: nobody
\* closes it.
NeverRefuse(r) == epc[r] = "admitted" /\ FALSE /\ UNCHANGED vars

Refuse(r) ==
    /\ epc[r] = "admitted"
    /\ ~accepting
    /\ epc' = [epc EXCEPT ![r] = "refused"]
    /\ UNCHANGED <<batch, queue, workerVars, stopVars, storeVars>>

\* The request's context is done.  Mutant: it is looked at after the send.
GiveUpAfterSend(r) ==
    /\ epc[r] = "admitted"
    /\ Len(queue) < QueueSize
    /\ queue' = Append(queue, r)
    /\ epc' = [epc EXCEPT ![r] = "refused"]
    /\ UNCHANGED <<batch, workerVars, stopVars, storeVars>>

GiveUp(r) ==
    /\ epc[r] = "admitted"
    /\ epc' = [epc EXCEPT ![r] = "refused"]
    /\ UNCHANGED <<batch, queue, workerVars, stopVars, storeVars>>

------------------------------------------------------------------------------
(* run: the worker's loop, and addRecallBatch. *)

HasPending == \E f \in Facts : pending[f] # {}

Receive ==
    /\ wpc \in {"select", "drain"}
    /\ queue # <<>>
    /\ queue' = Tail(queue)
    /\ pending' = [f \in Facts |->
                      IF f \in batch[Head(queue)]
                      THEN pending[f] \cup {Head(queue)} ELSE pending[f]]
    /\ UNCHANGED <<senderVars, wpc, final, todo, current, seen, stopVars,
                   storeVars>>

StartFlush ==
    /\ wpc' = "flush"
    /\ todo' = {f \in Facts : pending[f] # {}}

Tick ==
    /\ wpc = "select"
    /\ HasPending
    /\ StartFlush
    /\ UNCHANGED <<senderVars, queue, final, pending, current, seen, stopVars,
                   storeVars>>

\* The context is done: empty the channel, then flush what is pending under
\* a fresh context, again and again until recallShutdownTimeout.
NoticeCancel ==
    /\ wpc = "select"
    /\ cancelled
    /\ wpc' = "drain"
    /\ UNCHANGED <<senderVars, queue, final, pending, todo, current, seen,
                   stopVars, storeVars>>

FinalFlush ==
    /\ wpc = "drain"
    /\ queue = <<>>
    /\ final' = TRUE
    /\ StartFlush
    /\ UNCHANGED <<senderVars, queue, pending, current, seen, stopVars,
                   storeVars>>

------------------------------------------------------------------------------
(* flush. *)

\* Calls made with a cancelled context fail before they are sent.
ContextDone == cancelled /\ ~final

FlushGet(f) ==
    /\ wpc = "flush"
    /\ f \in todo
    /\ \/ /\ Faults \/ ContextDone            \* Get failed: keep the delta
          /\ todo' = todo \ {f}
          /\ UNCHANGED <<wpc, pending, current, seen>>
       \/ /\ ~ContextDone
          /\ stored[f] = None                 \* the point disappeared
          /\ todo' = todo \ {f}
          /\ pending' = [pending EXCEPT ![f] = {}]
          /\ UNCHANGED <<wpc, current, seen>>
       \/ /\ ~ContextDone
          /\ stored[f] # None
          /\ current' = f
          /\ seen' = stored[f]
          /\ wpc' = "set"
          /\ UNCHANGED <<todo, pending>>
    /\ UNCHANGED <<senderVars, queue, final, stopVars, storeVars>>

\* After SetPayload the delta is dropped whatever the outcome: a reported
\* error does not tell whether Qdrant applied the write.
\* Mutant: the delta is kept for another try.
KeepDelta == UNCHANGED pending

DropDelta == pending' = [pending EXCEPT ![current] = {}]

FlushSet ==
    /\ wpc = "set"
    /\ \/ /\ ~ContextDone \/ Faults           \* applied (reported or not)
          /\ stored' = [stored EXCEPT ![current] =
                           IF @ = None THEN None ELSE seen \cup pending[current]]
       \/ /\ ContextDone \/ Faults            \* failed, not applied
          /\ UNCHANGED stored
    /\ DropDelta
    /\ wpc' = "invalidate"
    /\ UNCHANGED <<senderVars, queue, final, todo, current, seen, stopVars,
                   rewriting>>

\* invalidateCache returned.
FlushNext ==
    /\ wpc = "invalidate"
    /\ wpc' = "flush"
    /\ todo' = todo \ {current}
    /\ current' = None
    /\ seen' = {}
    /\ UNCHANGED <<senderVars, queue, final, pending, stopVars, storeVars>>

FlushEnd ==
    /\ wpc = "flush"
    /\ todo = {}
    /\ IF ~final THEN wpc' = "select" /\ UNCHANGED todo
       ELSE IF HasPending THEN StartFlush
       ELSE wpc' = "done" /\ UNCHANGED todo
    /\ UNCHANGED <<senderVars, queue, final, pending, current, seen, stopVars,
                   storeVars>>

\* The shutdown context expires between two rounds.  Mutant: it has no
\* deadline.
NeverAbandon == final /\ FALSE /\ UNCHANGED vars

Abandon ==
    /\ wpc = "flush"
    /\ final
    /\ todo = {}
    /\ HasPending
    /\ wpc' = "done"
    /\ UNCHANGED <<senderVars, queue, final, pending, todo, current, seen,
                   stopVars, storeVars>>

------------------------------------------------------------------------------
(* stop. *)

StopBegin ==
    /\ spc = "running"
    /\ accepting' = FALSE
    /\ spc' = "waiting"
    /\ UNCHANGED <<senderVars, queue, workerVars, cancelled, storeVars>>

\* enqueueWG.Wait returns.  Mutant: nobody waits.
NoWait == TRUE

SendersGone == \A r \in Requests : epc[r] # "admitted"

StopCancel ==
    /\ spc = "waiting"
    /\ SendersGone
    /\ cancelled' = TRUE
    /\ spc' = "cancelling"
    /\ UNCHANGED <<senderVars, queue, workerVars, accepting, storeVars>>

StopReturn ==
    /\ spc = "cancelling"
    /\ wpc = "done"
    /\ spc' = "stopped"
    /\ UNCHANGED <<senderVars, queue, workerVars, accepting, cancelled,
                   storeVars>>

\* The context of Shutdown is done first; the worker goes on.
StopExpire ==
    /\ spc = "cancelling"
    /\ spc' = "expired"
    /\ UNCHANGED <<senderVars, queue, workerVars, accepting, cancelled,
                   storeVars>>

------------------------------------------------------------------------------
(* The other writers of the points, which do not synchronise with the      *)
(* worker: update_fact copies the whole payload it read, recall_count      *)
(* included; delete_fact removes the point; store_fact creates it anew.    *)

UpdateRead(f) ==
    /\ Rewrites
    /\ rewriting[f] = None
    /\ stored[f] # None
    /\ rewriting' = [rewriting EXCEPT ![f] = stored[f]]
    /\ UNCHANGED <<senderVars, queue, workerVars, stopVars, stored>>

UpdateWrite(f) ==
    /\ rewriting[f] # None
    /\ stored' = [stored EXCEPT ![f] = rewriting[f]]
    /\ rewriting' = [rewriting EXCEPT ![f] = None]
    /\ UNCHANGED <<senderVars, queue, workerVars, stopVars>>

Delete(f) ==
    /\ Rewrites
    /\ rewriting[f] = None
    /\ stored[f] # None
    /\ stored' = [stored EXCEPT ![f] = None]
    /\ UNCHANGED <<senderVars, queue, workerVars, stopVars, rewriting>>

Recreate(f) ==
    /\ rewriting[f] = None
    /\ stored[f] = None
    /\ stored' = [stored EXCEPT ![f] = {}]
    /\ UNCHANGED <<senderVars, queue, workerVars, stopVars, rewriting>>

------------------------------------------------------------------------------
SenderStep(r) == Admit(r) \/ Send(r) \/ Refuse(r)

WorkerStep ==
    \/ Receive
    \/ Tick
    \/ NoticeCancel
    \/ FinalFlush
    \/ \E f \in Facts : FlushGet(f)
    \/ FlushSet
    \/ FlushNext
    \/ FlushEnd

StopStep == StopCancel \/ StopReturn

Next ==
    \/ \E r \in Requests : SenderStep(r) \/ GiveUp(r)
    \/ WorkerStep
    \/ Abandon
    \/ StopBegin
    \/ StopStep
    \/ StopExpire
    \/ \E f \in Facts :
          UpdateRead(f) \/ UpdateWrite(f) \/ Delete(f) \/ Recreate(f)

Spec == Init /\ [][Next]_vars

\* Go schedules the goroutines and the HTTP client bounds every call.  The
\* select statement chooses at random between ready cases, and the shutdown
\* timer fires, so neither the cancellation nor the deadline is missed
\* forever.
Fairness ==
    /\ \A r \in Requests : WF_vars(Send(r) \/ Refuse(r))
    /\ WF_vars(WorkerStep)
    /\ SF_vars(NoticeCancel)
    /\ SF_vars(Abandon)
    /\ WF_vars(StopStep)

FairSpec == Spec /\ Fairness

------------------------------------------------------------------------------
(* Properties. *)

\* The increments still to be written are not yet in the persisted count,
\* nor in the count read by the running flush: no recall is counted twice,
\* whatever fails, and although other tools rewrite the points.
NeverCountedTwice ==
    \A f \in Facts :
        /\ stored[f] # None => stored[f] \cap pending[f] = {}
        /\ \A i \in 1 .. Len(queue) :
              /\ queue[i] \notin pending[f]
              /\ stored[f] # None => queue[i] \notin stored[f]

\* A call whose increment was refused is never counted, not even partly.
RefusedNotCounted ==
    \A r \in Requests, f \in Facts :
        epc[r] = "refused" =>
            r \notin pending[f] /\ (stored[f] # None => r \notin stored[f])

\* Once the worker is gone nobody can still be about to send, and nothing
\* is left in the channel: every accepted batch reached the final flush.
NothingSentAfterStop ==
    wpc = "done" =>
        queue = <<>> /\ ~accepting /\ \A r \in Requests : epc[r] # "admitted"

\* Accepted recalls count once at most, refused ones not at all, and none is
\* accepted that the final flush does not see.
CountsAreTrue == NeverCountedTwice /\ RefusedNotCounted /\ NothingSentAfterStop

\* Once Shutdown has begun the worker exits: the senders blocked on a full
\* queue are released, and the final flush gives up on points that Qdrant
\* keeps refusing to read.
WorkerExits == spc = "waiting" ~> wpc = "done"

\* Shutdown "drains queued work" (Server.Shutdown): when it returns, every
\* accepted recall is in the persisted counts.
StopDrains ==
    spc = "stopped" =>
        \A r \in Requests, f \in Facts :
            epc[r] = "sent" /\ f \in batch[r] => r \in stored[f]
=============================================================================
