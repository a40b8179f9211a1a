----------------------------- MODULE FactGrouping -----------------------------
(***************************************************************************)
(* `ai-maintenance apply` and `rollback` (internal/factgrouping,           *)
(* cmd/ai-maintenance): a reviewed manifest regroups facts one after the   *)
(* other, and a journal keeps the outcome of each.  A write that was sent  *)
(* and may or may not have been applied is neither taken for a success nor *)
(* sent again.                                                             *)
(*                                                                         *)
(* The operator confirms that writers are stopped, so facts change only    *)
(* between two runs; the lock in the directory of the journals keeps a     *)
(* second run out.  A journal belongs to one operation on the manifest;    *)
(* the operator may use several.                                           *)
(***************************************************************************)
EXTENDS Naturals

CONSTANTS
    NumChanges,   \* the changes of the manifest, in its order
    Journals,     \* paths of journals
    MaxRuns,      \* bound: runs
    MaxEdits,     \* bound: changes made to facts between runs
    None          \* no fact, no journal, no run

Changes == 1 .. NumChanges
Operations == {"apply", "rollback"}

\* What a run reads of a fact: the text stands for all that the fingerprint
\* covers, the group for tags, primary tag and audit reference.  A change
\* whose groups are the same writes nothing and is left out.
Reviewed(g) == [text |-> "reviewed", group |-> g]
Contents == [text : {"reviewed", "other"}, group : {"before", "after", "other"}]
Expected(op) == Reviewed(IF op = "apply" THEN "before" ELSE "after")
Target(op) == Reviewed(IF op = "apply" THEN "after" ELSE "before")

Outcomes == {"none", "dispatching", "ambiguous", "updated", "already_applied",
             "conflict", "not_found"}
Records == [op : Operations, outcome : [Changes -> Outcomes]]

GroupingAssumption ==
    /\ NumChanges \in Nat \ {0}
    /\ None \notin Operations \cup Contents
    /\ None \notin Records

VARIABLES
    fact,      \* fact[c]: the fact that change c names, or None
    journal,   \* journal[f]: the operation and its outcomes, or None
    run,       \* the run: its journal, operation and outcomes, or None
    at,        \* the change in hand
    step,      \* "off", "look", "send" or "verify"
    result,    \* the operation that has just succeeded, "error" or None
    runs,      \* number of runs
    edits,     \* number of changes between runs
    as,        \* observer: each fact as others left it
    unknown,   \* observer: writes sent under a journal, outcome not known
    resent     \* observer: a write of unknown outcome was sent again

vars == <<fact, journal, run, at, step, result, runs, edits, as, unknown, resent>>

Init ==
    /\ fact = [c \in Changes |-> Reviewed("before")]
    /\ journal = [f \in Journals |-> None]
    /\ run = None
    /\ at = 1
    /\ step = "off"
    /\ result = None
    /\ runs = 0
    /\ edits = 0
    /\ as = fact
    /\ unknown = {}
    /\ resent = FALSE

------------------------------------------------------------------------------
(* One run. *)

Stops(res) ==
    /\ run' = None
    /\ at' = 1
    /\ step' = "off"
    /\ result' = res

\* The journal given is new or one of the same operation.
Start(f, op) ==
    /\ step = "off"
    /\ runs < MaxRuns
    /\ runs' = runs + 1
    /\ journal[f] # None => journal[f].op = op
    /\ run' = [file |-> f, op |-> op,
               outcome |-> IF journal[f] = None THEN [c \in Changes |-> "none"]
                           ELSE journal[f].outcome]
    /\ step' = "look"
    /\ result' = None
    /\ UNCHANGED <<fact, journal, at, edits, as, unknown, resent>>

With(status) == [run.outcome EXCEPT ![at] = status]

\* AtomicWrite: the journal is replaced, and an error may follow.
Saved(o) == journal' = [journal EXCEPT ![run.file] = [op |-> run.op, outcome |-> o]]
SaveFails(o) == (Saved(o) \/ UNCHANGED journal) /\ Stops("error")

Settled(o) == \A c \in Changes : o[c] \in {"updated", "already_applied"}

\* The outcome is saved, and the next change is taken up.
Record(status) ==
    LET o == With(status) IN
    \/ /\ Saved(o)
       /\ IF at < NumChanges
          THEN /\ run' = [run EXCEPT !.outcome = o]
               /\ at' = at + 1
               /\ step' = "look"
               /\ UNCHANGED result
          ELSE Stops(IF Settled(o) THEN run.op ELSE "error")
    \/ SaveFails(o)

InHand == <<run.file, at>>

\* Mutant: only what was seen to fail is ambiguous, not what a crash cut off.
SentIfFailed == run.outcome[at] = "ambiguous"
Sent == run.outcome[at] \in {"dispatching", "ambiguous"}

Status ==
    IF fact[at] = None THEN "not_found"
    ELSE IF fact[at] = Target(run.op) THEN "already_applied"
    ELSE IF fact[at] # Expected(run.op) THEN "conflict"
    ELSE IF Sent THEN "ambiguous" ELSE "ready"

\* There is nothing to write.
Pass ==
    /\ step = "look"
    /\ Status # "ready"
    /\ Record(Status)
    /\ unknown' = IF Status = "ambiguous" THEN unknown ELSE unknown \ {InHand}
    /\ UNCHANGED <<fact, runs, edits, as, resent>>

\* The journal says that a write is under way before it is.
Announce ==
    /\ step = "look"
    /\ Status = "ready"
    /\ LET o == With("dispatching") IN
       \/ Saved(o) /\ run' = [run EXCEPT !.outcome = o] /\ step' = "send" /\ UNCHANGED <<at, result>>
       \/ SaveFails(o)
    /\ UNCHANGED <<fact, runs, edits, as, unknown, resent>>

\* SetGrouping succeeds, or it fails, applied or not by then, and the run
\* ends; a run that dies here is one whose journal was not saved.
Send ==
    /\ step = "send"
    /\ \/ /\ fact' = [fact EXCEPT ![at] = Target(run.op)]
          /\ step' = "verify"
          /\ UNCHANGED <<journal, run, at, result>>
       \/ /\ fact' \in {fact, [fact EXCEPT ![at] = Target(run.op)]}
          /\ SaveFails(With("ambiguous"))
    /\ unknown' = unknown \cup {InHand}
    /\ resent' = (resent \/ InHand \in unknown)
    /\ UNCHANGED <<runs, edits, as>>

\* The fact is read again; a read that fails leaves the outcome open.
Verify ==
    /\ step = "verify"
    /\ \/ /\ fact[at] = Target(run.op)
          /\ Record("updated")
          /\ unknown' = unknown \ {InHand}
       \/ Record("ambiguous") /\ UNCHANGED unknown
    /\ UNCHANGED <<fact, runs, edits, as, resent>>

\* A read fails, the run is interrupted or it dies.
Halt ==
    /\ step # "off"
    /\ Stops("error")
    /\ UNCHANGED <<fact, journal, runs, edits, as, unknown, resent>>

------------------------------------------------------------------------------
(* Between two runs. *)

\* The server stores, updates, tags or deletes a fact.
Edit(c) ==
    /\ step = "off"
    /\ edits < MaxEdits
    /\ edits' = edits + 1
    /\ \E new \in (Contents \cup {None}) \ {fact[c]} :
          /\ fact' = [fact EXCEPT ![c] = new]
          /\ as' = [as EXCEPT ![c] = new]
    /\ result' = None
    /\ UNCHANGED <<journal, run, at, step, runs, unknown, resent>>

Next ==
    \/ \E f \in Journals, op \in Operations : Start(f, op)
    \/ Pass
    \/ Announce
    \/ Send
    \/ Verify
    \/ Halt
    \/ \E c \in Changes : Edit(c)

Spec == Init /\ [][Next]_vars

------------------------------------------------------------------------------
(* Properties. *)

\* A run that reports success has left every fact reviewed and grouped as
\* its operation demands, whatever earlier runs did or recorded.
SuccessIsTrue ==
    result \in Operations => \A c \in Changes : fact[c] = Target(result)

\* A write whose outcome is not known stands in its journal as dispatching or
\* ambiguous, and is not sent again under that journal until the fact has
\* been seen in another state.
UnknownIsOnRecord ==
    /\ \A u \in unknown :
          /\ journal[u[1]] # None
          /\ journal[u[1]].outcome[u[2]] \in {"dispatching", "ambiguous"}
    /\ ~resent

\* A fact that others changed stays as they left it, unless they left it as
\* it was reviewed, in one of the two groups of the manifest.
OnlyReviewedMoves ==
    \A c \in Changes :
        fact[c] # as[c] => {fact[c], as[c]} \subseteq {Reviewed("before"), Reviewed("after")}

GroupingIsTrue == SuccessIsTrue /\ UnknownIsOnRecord /\ OnlyReviewedMoves
================================================================================
