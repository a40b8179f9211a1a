---------------------------- MODULE AiRunHistory ----------------------------
(***************************************************************************)
(* The records of the AI maintenance runs (aimaintenance/history.go and    *)
(* Worker.RunOnce).  Every run has a directory of files that are created   *)
(* once and never rewritten: started.json, one file per event, and         *)
(* completion.json.  What went to the provider must be on record before it *)
(* is sent, and a run that died is closed by the next one.                 *)
(*                                                                         *)
(* The runs are invocations of RunOnce by the server's worker; while a new *)
(* server replaces an old one two processes share the directory, which is  *)
(* what the file locks are for.  One invocation holds the writer lock; one *)
(* that finds it taken leaves a record of the overlap.  A file operation   *)
(* may fail before the file is there or after (a sync that fails), and a   *)
(* process may die between any two steps, which frees its locks.           *)
(***************************************************************************)
EXTENDS Naturals, Sequences, FiniteSets, SequencesExt

CONSTANTS
    Runs,       \* invocations of RunOnce; each leaves at most one record
    None,
    MaxEvents   \* maxHistoryEvents

HistoryAssumption == None \notin Runs /\ MaxEvents \in Nat \ {0}

VARIABLES
    pc,       \* pc[r]: where invocation r is
    writer,   \* who holds <dir>/writer.lock
    live,     \* live[r]: who holds the liveness lock of run r
    started,  \* runs whose started.json exists
    events,   \* events[r]: the event files of r, in order
    done,     \* done[r]: completion.json of r
    recorder, \* recorder[r]: what the runRecorder of r has counted
    todo,     \* todo[r]: the directories the recovery of r has to look at
    target,   \* target[r]: the unfinished run the recovery of r looks at
    sent,     \* observer: sent[r], requests of r that went to the provider
    dead,     \* observer: dead[r], runs nobody owned when r listed them
    reader    \* a reader of the history (ReadRunHistory)

vars == <<pc, writer, live, started, events, done, recorder, todo, target,
          sent, dead, reader>>

Kinds == {"attempt", "note"}
NotDone == [outcome |-> "none", attempts |-> 0, count |-> 0, known |-> FALSE]
NoRecorder == [events |-> 0, attempts |-> 0, failed |-> FALSE,
               outcome |-> "none"]
NoReader == [run |-> None, completion |-> NotDone]
Running == {"recover", "examine", "reread", "work", "call", "finish"}

TypeOK ==
    /\ pc \in [Runs -> Running \cup {"idle", "locked", "overlap", "ended"}]
    /\ writer \in Runs \cup {None}
    /\ live \in [Runs -> Runs \cup {None}]
    /\ started \subseteq Runs
    /\ \A r \in Runs : events[r] \in BoundedSeq(Kinds, MaxEvents)
    /\ sent \in [Runs -> 0 .. MaxEvents]
    /\ todo \in [Runs -> SUBSET Runs] /\ dead \in [Runs -> SUBSET Runs]
    /\ target \in [Runs -> Runs \cup {None}]

Init ==
    /\ pc = [r \in Runs |-> "idle"]
    /\ writer = None
    /\ live = [r \in Runs |-> None]
    /\ started = {}
    /\ events = [r \in Runs |-> <<>>]
    /\ done = [r \in Runs |-> NotDone]
    /\ recorder = [r \in Runs |-> NoRecorder]
    /\ todo = [r \in Runs |-> {}]
    /\ target = [r \in Runs |-> None]
    /\ sent = [r \in Runs |-> 0]
    /\ dead = [r \in Runs |-> {}]
    /\ reader = NoReader

------------------------------------------------------------------------------
(* Files and locks. *)

Attempts(s) == Cardinality({i \in DOMAIN s : s[i] = "attempt"})

Finished(r) == done[r] # NotDone

\* readHistoryRun: started, not complete.  (No writer interleaves with the
\* events here: what is read while the owner lives is read again.)
Unfinished(r) == r \in started /\ ~Finished(r)

\* A completion whose count is known must match the event files.
Corrupt(completion, files) ==
    /\ completion # NotDone
    /\ completion.known
    /\ completion.count # Len(files)

\* writeRunFileImmutable(completion.json): link creates it or fails.
Complete(r, c, ok) ==
    \/ done[r] = NotDone /\ done' = [done EXCEPT ![r] = c]
    \/ ~ok /\ UNCHANGED done

\* The locks of a process end with it, and with the invocation.
Unlock(r) ==
    /\ writer' = IF writer = r THEN None ELSE writer
    /\ live' = [t \in Runs |-> IF live[t] = r THEN None ELSE live[t]]

Goto(r, l) == pc' = [pc EXCEPT ![r] = l]

Forget(r) ==
    /\ recorder' = [recorder EXCEPT ![r] = NoRecorder]
    /\ todo' = [todo EXCEPT ![r] = {}]
    /\ target' = [target EXCEPT ![r] = None]
    /\ dead' = [dead EXCEPT ![r] = {}]

recordVars == <<started, events, done, recorder>>
recoveryVars == <<todo, target, dead>>

------------------------------------------------------------------------------
(* RunOnce. *)

\* runMu.TryLock and acquireHistoryLock: whoever is late is an overlap.
Lock(r) ==
    /\ pc[r] = "idle"
    /\ IF writer = None THEN writer' = r /\ Goto(r, "locked")
                        ELSE UNCHANGED writer /\ Goto(r, "overlap")
    /\ UNCHANGED <<live, recordVars, recoveryVars, sent, reader>>

\* newRun: the liveness lock first, then started.json.
NewRun(r) ==
    /\ pc[r] \in {"locked", "overlap"}
    /\ \E ok \in BOOLEAN :
        /\ started' = started \cup {r} \/ (~ok /\ UNCHANGED started)
        /\ IF ok
           THEN /\ live' = [live EXCEPT ![r] = r] /\ UNCHANGED writer
                /\ Goto(r, IF pc[r] = "locked" THEN "recover" ELSE "finish")
                /\ recorder' = [recorder EXCEPT ![r].outcome =
                                  IF pc[r] = "locked" THEN "ran" ELSE "skipped"]
                /\ todo' = [todo EXCEPT ![r] =
                                  IF pc[r] = "locked" THEN started \ {r} ELSE {}]
                /\ dead' = [dead EXCEPT ![r] =
                                  {t \in started : Unfinished(t) /\ live[t] = None}]
           ELSE /\ Unlock(r) /\ Goto(r, "ended")
                /\ UNCHANGED <<recorder, todo, dead>>
    /\ UNCHANGED <<events, done, target, sent, reader>>

\* recoverUnfinished, one directory: the first look, without a lock.
Examine(r) ==
    /\ pc[r] = "recover"
    /\ IF todo[r] = {}
       THEN Goto(r, "work") /\ UNCHANGED <<todo, target>>
       ELSE \E t \in todo[r] :
            /\ todo' = [todo EXCEPT ![r] = @ \ {t}]
            /\ IF Unfinished(t)
               THEN Goto(r, "examine") /\ target' = [target EXCEPT ![r] = t]
               ELSE UNCHANGED <<pc, target>>
    /\ UNCHANGED <<writer, live, recordVars, dead, sent, reader>>

\* A run whose owner lives is left alone.
LockUnfinished(r) ==
    /\ pc[r] = "examine"
    /\ IF live[target[r]] = None
       THEN live' = [live EXCEPT ![target[r]] = r] /\ Goto(r, "reread")
       ELSE UNCHANGED live /\ Goto(r, "recover")
    /\ UNCHANGED <<writer, recordVars, recoveryVars, sent, reader>>

\* Mutant of Recovered: a run that died made no attempts.
RecoveredBlank(t) ==
    [outcome |-> "interrupted", attempts |-> 0,
     count |-> Len(events[t]), known |-> TRUE]

\* recoveredCompletion counts what the event files say.
Recovered(t) ==
    [outcome |-> "interrupted", attempts |-> Attempts(events[t]),
     count |-> Len(events[t]), known |-> TRUE]

\* The run is read again under the lock: it may have completed meanwhile.
Recover(r) ==
    LET t == target[r] IN
    /\ pc[r] = "reread"
    /\ live' = [live EXCEPT ![t] = None]
    /\ IF Unfinished(t)
       THEN \E ok \in BOOLEAN :
            /\ Complete(t, Recovered(t), ok)
            /\ Goto(r, IF ok THEN "recover" ELSE "finish")
            /\ recorder' = [recorder EXCEPT ![r].outcome =
                                IF ok THEN @ ELSE "failed"]
       ELSE Goto(r, "recover") /\ UNCHANGED <<done, recorder>>
    /\ target' = [target EXCEPT ![r] = None]
    /\ UNCHANGED <<writer, started, events, todo, dead, sent, reader>>

Noted(rec, kind, ok) ==
    IF ok THEN [rec EXCEPT
                  !.events = rec.events + 1,
                  !.attempts = rec.attempts + IF kind = "attempt" THEN 1 ELSE 0]
          ELSE [rec EXCEPT !.failed = TRUE, !.outcome = "failed"]

\* runRecorder.event: the file of the next number is created once, so an
\* event after one whose file exists although its write failed is an error.
Event(r, kind) ==
    LET n == recorder[r].events + 1 IN
    /\ pc[r] = "work"
    /\ \E ok \in BOOLEAN :
        /\ ok => n <= MaxEvents /\ n = Len(events[r]) + 1
        /\ \/ n <= MaxEvents /\ n = Len(events[r]) + 1
              /\ events' = [events EXCEPT ![r] = Append(@, kind)]
           \/ ~ok /\ UNCHANGED events
        /\ recorder' = [recorder EXCEPT ![r] = Noted(recorder[r], kind, ok)]
        /\ Goto(r, IF ~ok THEN "finish"
                   ELSE IF kind = "attempt" THEN "call" ELSE "work")
    /\ UNCHANGED <<writer, live, started, done, recoveryVars, sent, reader>>

\* proposeWithHistory: the request leaves.
Send(r) ==
    /\ pc[r] = "call"
    /\ sent' = [sent EXCEPT ![r] = @ + 1]
    /\ Goto(r, "work")
    /\ UNCHANGED <<writer, live, recordVars, recoveryVars, reader>>

\* The sweep returns, with an error or without.
Return(r) ==
    /\ pc[r] = "work"
    /\ Goto(r, "finish")
    /\ recorder' = [recorder EXCEPT ![r].outcome = "returned"]
    /\ UNCHANGED <<writer, live, started, events, done, recoveryVars, sent,
                   reader>>

\* What the recorder has counted itself.
Counted(r) ==
    [outcome |-> recorder[r].outcome, attempts |-> recorder[r].attempts,
     count |-> recorder[r].events, known |-> ~recorder[r].failed]

\* runRecorder.finish and the deferred unlocks.
Finish(r) ==
    /\ pc[r] = "finish"
    /\ \E ok \in BOOLEAN : Complete(r, Counted(r), ok)
    /\ Unlock(r)
    /\ Goto(r, "ended") /\ Forget(r)
    /\ UNCHANGED <<started, events, sent, reader>>

Crash(r) ==
    /\ pc[r] \in Running \cup {"locked", "overlap"}
    /\ Unlock(r)
    /\ Goto(r, "ended") /\ Forget(r)
    /\ UNCHANGED <<started, events, done, sent, reader>>

------------------------------------------------------------------------------
(* Read: the completion first, then the list of the events. *)

ReadCompletion ==
    /\ reader.run = None
    /\ \E r \in started : reader' = [run |-> r, completion |-> done[r]]
    /\ UNCHANGED <<pc, writer, live, recordVars, recoveryVars, sent>>

ReadEvents ==
    /\ reader.run # None
    /\ reader' = NoReader
    /\ UNCHANGED <<pc, writer, live, recordVars, recoveryVars, sent>>

Next ==
    \/ \E r \in Runs :
        \/ Lock(r) \/ NewRun(r)
        \/ Examine(r) \/ LockUnfinished(r) \/ Recover(r)
        \/ \E kind \in Kinds : Event(r, kind)
        \/ Send(r) \/ Return(r) \/ Finish(r) \/ Crash(r)
    \/ ReadCompletion \/ ReadEvents

Spec == Init /\ [][Next]_vars

------------------------------------------------------------------------------
(* Properties. *)

\* Nobody declares a run interrupted that is still going on.
LiveRunsAreLeftAlone ==
    \A r \in Runs : pc[r] \in Running => ~Finished(r)

\* No request is sent that the record of its run, complete or recovered,
\* does not count, whatever fails or dies.
CallsAreOnRecord ==
    \A r \in Runs :
        /\ sent[r] <= Attempts(events[r])
        /\ Finished(r) => sent[r] <= done[r].attempts

\* A run that works has closed every run that was dead when it began.
DeadRunsAreClosed ==
    \A r \in Runs : pc[r] \in {"work", "call"} =>
        \A t \in dead[r] : Finished(t)

\* A reader that meets a completion finds all the events it counts.
CompleteRunsRead ==
    reader.run # None => ~Corrupt(reader.completion, events[reader.run])

RunHistoryIsTrue ==
    LiveRunsAreLeftAlone /\ CallsAreOnRecord /\ DeadRunsAreClosed
        /\ CompleteRunsRead
=============================================================================
