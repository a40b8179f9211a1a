----------------------------- MODULE MCAiService -----------------------------
(***************************************************************************)
(* AI parts of the server beside each other, for TLC: the budget, the      *)
(* records of the runs and the AI of the writes.  They share no state, so  *)
(* one of them moves in each behaviour.                                    *)
(***************************************************************************)
EXTENDS AiBudget

CONSTANTS Runs, MaxEvents, None,
          StoreCalls, QueueSize, MaxCatalogs, MaxStarts, MaxChanges, MaxFaults

VARIABLES
    part,
    runPc, writer, live, started, events, done, recorder, todo, target,
    runSent, dead, reader,
    mode, catalog, inst, signalled, loop, queue, job, pc, d, guard, fact,
    journal, refs, changes, faults, ask, answer, under, unsaved

historyVars == <<runPc, writer, live, started, events, done, recorder, todo,
                 target, runSent, dead, reader>>
writeVars == <<mode, catalog, inst, signalled, loop, queue, job, pc, d, guard,
               fact, journal, refs, changes, faults, ask, answer, under,
               unsaved>>

History == INSTANCE AiRunHistory WITH pc <- runPc, sent <- runSent

Writes == INSTANCE AiWrites WITH Calls <- StoreCalls

ASSUME PartsAssumption ==
    History!HistoryAssumption /\ Writes!WritesAssumption

\* In AiWrites one change of a fact or one failing save, not both.
MCInit ==
    /\ part \in {"budget", "history", "writes"}
    /\ Init /\ History!Init /\ Writes!Init
    /\ changes + faults = MaxFaults
    /\ part # "writes" => mode = "on" /\ changes = 0

MCNext ==
    /\ UNCHANGED part
    /\ \/ part = "budget" /\ Next /\ UNCHANGED <<historyVars, writeVars>>
       \/ part = "history" /\ History!Next /\ UNCHANGED <<vars, writeVars>>
       \/ part = "writes" /\ Writes!Next /\ UNCHANGED <<vars, historyVars>>

MCSpec == MCInit /\ [][MCNext]_<<part, vars, historyVars, writeVars>>

------------------------------------------------------------------------------
(* The properties of the parts; BudgetHolds is that of AiBudget. *)

\* What the runs left on disk says what they did (AiRunHistory).
RunHistoryIsTrue == History!RunHistoryIsTrue

\* Tags of the provider are stored under their own catalog; a pending advice
\* has a job, a given one is true (AiWrites).
AdviceIsFollowed == Writes!AppliedByTheBook /\ Writes!ShadowAdviceIsTrue
=============================================================================
