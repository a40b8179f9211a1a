--------------------------- MODULE ReviewAssessments ---------------------------
(***************************************************************************)
(* Assessments of an AI proposal by people in the dashboard                *)
(* (internal/viz/ai_review.go, internal/aimaintenance/review.go): each one *)
(* a new revision in a file of its own, the last one named by head.json,   *)
(* for one project of one draft.  Several people assess from what they     *)
(* were shown; the server may stop in the middle of a save, and the        *)
(* catalog goes on changing.                                               *)
(*                                                                         *)
(* The draft, its base snapshot and the proposed entry do not change: of   *)
(* the three hashes a request is bound to, only the current one is told    *)
(* apart here.                                                             *)
(***************************************************************************)
EXTENDS Integers, FiniteSets

CONSTANTS
    Clients,      \* browsers
    Entries,      \* versions of the project's catalog entry
    Verdicts,     \* what a request may say
    MaxRevision,  \* bound: revisions
    MaxFaults,    \* bound: stops of the server and failing writes
    MaxEdits,     \* bound: changes of the catalog
    None, Torn    \* no file; a file that cannot be read

VARIABLES
    catalog,      \* the entry now: one of Entries, "absent", or "unavailable":
                  \* unreadable, another project's, or without its base
    file,         \* file[n]: request recorded by revision n, None or Torn
    head,         \* the revision head.json names, 0 without one
    lock,         \* the client whose request holds the file lock, or None
    pc,           \* pc[c]: where the request of c is
    req,          \* req[c]: what c asks to record
    shown,        \* shown[c]: what the page of c shows: [revision, current]
    answered,     \* history: <<n, request>> of the saves answered as done
    refused,      \* history: the revision expected by conflicting requests
    faults, edits

vars == <<catalog, file, head, lock, pc, req, shown, answered, refused, faults, edits>>
diskVars == <<file, head>>

Revisions == 1..(MaxRevision + 1)
Requests == [verdict : Verdicts, expected : 0..MaxRevision,
             current : Entries \cup {"absent"}]
\* What a page shows.
Pages == [revision : 0..MaxRevision, current : Entries \cup {"absent"}]
Readable == catalog \in Entries \cup {"absent"}

ReviewAssumption ==
    /\ MaxRevision \in Nat
    /\ None # Torn /\ None \notin Clients /\ None \notin Pages
    /\ None \notin Requests /\ Torn \notin Requests

Init ==
    /\ catalog \in Entries \cup {"absent"}
    /\ file = [n \in Revisions |-> None]
    /\ head = 0
    /\ lock = None
    /\ pc = [c \in Clients |-> "idle"]
    /\ req = [c \in Clients |-> None]
    /\ shown = [c \in Clients |-> None]
    /\ answered = {}
    /\ refused = {}
    /\ faults = 0
    /\ edits = 0

\* The page loads the draft, which shows the entry now, ...
LoadDraft(c) ==
    /\ pc[c] = "idle"
    /\ Readable
    /\ shown' = [shown EXCEPT ![c] = [revision |-> 0, current |-> catalog]]
    /\ pc' = [pc EXCEPT ![c] = "page"]
    /\ UNCHANGED <<catalog, diskVars, lock, req, answered, refused, faults, edits>>

\* ... and then the assessment that head.json names.
LoadAssessment(c) ==
    /\ pc[c] = "page"
    /\ shown' = [shown EXCEPT ![c].revision = head]
    /\ pc' = [pc EXCEPT ![c] = "idle"]
    /\ UNCHANGED <<catalog, diskVars, lock, req, answered, refused, faults, edits>>

\* The person decides; a form whose save was not answered is sent again.
Submit(c) ==
    /\ pc[c] = "idle"
    /\ shown[c] # None
    /\ \E v \in Verdicts :
          req' = [req EXCEPT ![c] = [verdict |-> v, expected |-> shown[c].revision,
                                     current |-> shown[c].current]]
    /\ pc' = [pc EXCEPT ![c] = "check"]
    /\ UNCHANGED <<catalog, diskVars, lock, shown, answered, refused, faults, edits>>

Leave(c, to) ==
    /\ pc' = [pc EXCEPT ![c] = to]
    /\ req' = IF to = "idle" THEN [req EXCEPT ![c] = None] ELSE req

\* apiAIReviewSaveAssessment compares the request with the draft.
Check(c) ==
    /\ pc[c] = "check"
    /\ Leave(c, IF Readable /\ req[c].current = catalog THEN "save" ELSE "idle")
    /\ UNCHANGED <<catalog, diskVars, lock, shown, answered, refused, faults, edits>>

\* Mutant: without the lock.
Unlocked == TRUE
Free == lock = None

Lock(c) ==
    /\ pc[c] = "save"
    /\ Free
    /\ lock' = c
    /\ Leave(c, "decide")
    /\ UNCHANGED <<catalog, diskVars, shown, answered, refused, faults, edits>>

IsRecord(n) == file[n] \notin {None, Torn}

Unlock(c) == lock' = IF lock = c THEN None ELSE lock

Done(c, n) ==
    /\ answered' = answered \cup {<<n, req[c]>>}
    /\ Leave(c, "idle")
    /\ Unlock(c)

\* The last revision is this request: the answer is given again.
AlreadySaved(c) ==
    /\ head > 0
    /\ file[head] = req[c]
    /\ Done(c, head)
    /\ UNCHANGED <<file, head, refused>>

Conflict(c) ==
    /\ refused' = refused \cup {req[c].expected}
    /\ Leave(c, "idle")
    /\ Unlock(c)
    /\ UNCHANGED answered

\* Somebody else saved first; a revision whose head was not written is
\* published on this occasion.
\* Mutant: the revision expected is not compared.
AnyRevision(c) == FALSE
Outdated(c) == head # req[c].expected

\* writeReviewHead, which may fail before or after its rename.
HeadBecomes(n) == head' = n /\ UNCHANGED faults
HeadFails(c, n) ==
    /\ faults < MaxFaults
    /\ faults' = faults + 1
    /\ head' \in {head, n}
    /\ Leave(c, "idle")
    /\ Unlock(c)
    /\ UNCHANGED <<answered, refused>>

Adopt(c) ==
    /\ IF IsRecord(head + 1)
       THEN (HeadBecomes(head + 1) /\ Conflict(c)) \/ HeadFails(c, head + 1)
       ELSE Conflict(c) /\ UNCHANGED <<head, faults>>
    /\ UNCHANGED file

\* The file of the next revision exists: left by a save that went no further.
\* Mutant: it is taken for this request's, whatever it says.
AnyOrphan(c) == IsRecord(head + 1)
OwnOrphan(c) == file[head + 1] = req[c]

Create(c) ==
    IF file[head + 1] = None
    THEN /\ head < MaxRevision
         /\ \/ /\ file' = [file EXCEPT ![head + 1] = Torn]
               /\ Leave(c, "write")
               /\ UNCHANGED <<lock, faults>>
            \/ /\ faults < MaxFaults
               /\ faults' = faults + 1
               /\ Leave(c, "idle")
               /\ Unlock(c)
               /\ UNCHANGED file
         /\ UNCHANGED <<head, answered, refused>>
    ELSE /\ \/ /\ OwnOrphan(c)
               /\ Leave(c, "publish")
               /\ UNCHANGED <<lock, answered, refused, head, faults>>
            \/ ~OwnOrphan(c) /\ IsRecord(head + 1) /\ Adopt(c)
            \/ /\ file[head + 1] = Torn      \* corrupt: the save fails
               /\ Leave(c, "idle")
               /\ Unlock(c)
               /\ UNCHANGED <<answered, refused, head, faults>>
         /\ UNCHANGED file

\* SaveReviewAssessment, from the head it reads to the file it creates.
Decide(c) ==
    /\ pc[c] = "decide"
    /\ \/ AlreadySaved(c) /\ UNCHANGED faults
       \/ ~(head > 0 /\ file[head] = req[c]) /\ (IF Outdated(c) THEN Adopt(c) ELSE Create(c))
    /\ UNCHANGED <<catalog, shown, edits>>

\* writeReviewImmutable after its open: the record is written and synced, or
\* the write fails having left the file as it is or complete.
WriteRevision(c) ==
    /\ pc[c] = "write"
    /\ \/ /\ file' = [file EXCEPT ![head + 1] = req[c]]
          /\ Leave(c, "publish")
          /\ UNCHANGED <<lock, faults>>
       \/ /\ faults < MaxFaults
          /\ faults' = faults + 1
          /\ file' \in {file, [file EXCEPT ![head + 1] = req[c]]}
          /\ Leave(c, "idle")
          /\ Unlock(c)
    /\ UNCHANGED <<catalog, head, shown, answered, refused, edits>>

Publish(c) ==
    /\ pc[c] = "publish"
    /\ \/ HeadBecomes(head + 1) /\ Done(c, head + 1) /\ UNCHANGED refused
       \/ HeadFails(c, head + 1)
    /\ UNCHANGED <<catalog, file, shown, edits>>

\* The catalog is published by someone else meanwhile.
EditCatalog ==
    /\ edits < MaxEdits
    /\ edits' = edits + 1
    /\ catalog' \in (Entries \cup {"absent", "unavailable"}) \ {catalog}
    /\ UNCHANGED <<diskVars, lock, pc, req, shown, answered, refused, faults>>

\* The server stops and starts again.  The pages stay open.
Crash ==
    /\ faults < MaxFaults
    /\ faults' = faults + 1
    /\ \E c \in Clients : pc[c] # "idle"
    /\ pc' = [c \in Clients |-> "idle"]
    /\ req' = [c \in Clients |-> None]
    /\ lock' = None
    /\ UNCHANGED <<catalog, diskVars, shown, answered, refused, edits>>

Next ==
    \/ \E c \in Clients :
          \/ LoadDraft(c)
          \/ LoadAssessment(c)
          \/ Submit(c)
          \/ Check(c)
          \/ Lock(c)
          \/ Decide(c)
          \/ WriteRevision(c)
          \/ Publish(c)
    \/ EditCatalog
    \/ Crash

Spec == Init /\ [][Next]_vars

------------------------------------------------------------------------------
(* Properties. *)

\* An assessment whose save was answered as done is what its revision says
\* for good, and head.json names it or a later one.
AnsweredIsKept ==
    \A a \in answered : file[a[1]] = a[2] /\ head >= a[1]

\* The history has no hole and nothing that cannot be read, and each
\* revision was sent by somebody who had been shown the one before it.
HistoryIsWhole ==
    \A n \in 1..head : IsRecord(n) /\ file[n].expected = n - 1

\* Who is told of a conflict finds a revision that the page did not show:
\* one whose head had not been written is published before the answer.
ConflictIsVisible ==
    \A n \in refused : head > n

AssessmentsAreKept == AnsweredIsKept /\ HistoryIsWhole /\ ConflictIsVisible
================================================================================
