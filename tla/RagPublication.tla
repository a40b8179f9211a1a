---------------------------- MODULE RagPublication ----------------------------
(***************************************************************************)
(* Publication of one document in the chunk collection (internal/rag): an  *)
(* indexer writes the chunks of a new generation, reads them back, seals   *)
(* chunk zero and only then deletes the other generations; search_documents*)
(* answers from the newest sealed generation, which it validates first.    *)
(*                                                                         *)
(* An indexer is a process: the server, whose runs exclude each other      *)
(* (reindexMu), or the standalone cmd/indexer.  Every Qdrant call is a     *)
(* step; a failed write may or may not have been applied; a run may end    *)
(* anywhere by a crash, a cancellation or a failed read or embedding.  A   *)
(* scroll over the document's points is one step: up to 100 points it is   *)
(* one page.                                                               *)
(***************************************************************************)
EXTENDS Naturals, FiniteSets

CONSTANTS
    Indexers,         \* processes that run the indexer
    Searches,         \* search_documents calls
    Contents,         \* contents of the document, by their hash
    Chunks,           \* Chunks[v]: number of chunks of content v
    FileStates,       \* what the file may be: contents, or None (no file)
    MaxGenerations,   \* bound: generations created
    None

ASSUME ChunksAssumption == Chunks \in [Contents -> Nat] /\ None \notin Contents
ASSUME FileStatesAssumption == FileStates \subseteq Contents \cup {None}
ASSUME GenerationsAssumption == MaxGenerations \in Nat

Generations == 1 .. MaxGenerations

VARIABLES
    disk,      \* content of the file, or None when there is no file
    points,    \* the chunks stored, as pairs <<generation, chunk index>>
    sealed,    \* generations whose stored chunk zero carries a seal
    content,   \* content[g]: what generation g was made from, or None
    sealedAt,  \* sealedAt[g]: timestamp in the descriptor of g
    clock,     \* number of timestamps taken

    pc,        \* pc[i]: where the indexer is
    known,     \* known[i]: chunks in the snapshot of this run
    marked,    \* marked[i]: generations sealed in that snapshot
    read,      \* read[i]: content read from the file
    gen,       \* gen[i]: generation being written or validated
    next,      \* next[i]: next chunk to write

    spc,       \* spc[s]: where the search is
    hit,       \* hit[s]: the chunk the vector search returned
    found,     \* found[s]: sealed generations discovered
    todo,      \* todo[s]: those still to be validated
    answer,    \* answer[s]: the generation answered from, or None

    window,    \* observer: the content published last, and those on disk since
    allowed,   \* allowed[s]: window when s began, and the contents on disk since
    owed       \* observer: published, and neither emptied nor removed since

storeVars == <<points, sealed, content, sealedAt, clock>>
indexerVars == <<pc, known, marked, read, gen, next>>
searchVars == <<spc, hit, found, todo, answer>>
vars == <<disk, points, sealed, content, sealedAt, clock, pc, known, marked,
          read, gen, next, spc, hit, found, todo, answer, window, allowed,
          owed>>

Ids == Generations \X Nat

TypeOK ==
    /\ disk \in FileStates
    /\ \A id \in points : id \in Ids /\ id[2] < Chunks[content[id[1]]]
    /\ \A g \in sealed : <<g, 0>> \in points
    /\ content \in [Generations -> Contents \cup {None}]
    /\ sealedAt \in [Generations -> Nat]
    /\ clock \in Nat
    /\ pc \in [Indexers -> {"idle", "walk", "recheck", "write", "check",
                            "seal", "clean", "empty", "remove", "done"}]
    /\ \A i \in Indexers : \A id \in known[i] : id \in Ids
    /\ marked \in [Indexers -> SUBSET Generations]
    /\ read \in [Indexers -> Contents \cup {None}]
    /\ gen \in [Indexers -> Generations \cup {None}]
    /\ next \in [Indexers -> Nat]
    /\ spc \in [Searches -> {"idle", "discover", "validate", "answered",
                             "incomplete", "stale", "nothing"}]
    /\ \A s \in Searches : hit[s] \in Ids \cup {None}
    /\ found \in [Searches -> SUBSET Generations]
    /\ todo \in [Searches -> SUBSET Generations]
    /\ answer \in [Searches -> Generations \cup {None}]
    /\ window \in SUBSET Contents
    /\ allowed \in [Searches -> SUBSET Contents]
    /\ owed \in BOOLEAN

Init ==
    /\ disk \in FileStates
    /\ points = {}
    /\ sealed = {}
    /\ content = [g \in Generations |-> None]
    /\ sealedAt = [g \in Generations |-> 0]
    /\ clock = 0
    /\ pc = [i \in Indexers |-> "idle"]
    /\ known = [i \in Indexers |-> {}]
    /\ marked = [i \in Indexers |-> {}]
    /\ read = [i \in Indexers |-> None]
    /\ gen = [i \in Indexers |-> None]
    /\ next = [i \in Indexers |-> 0]
    /\ spc = [s \in Searches |-> "idle"]
    /\ hit = [s \in Searches |-> None]
    /\ found = [s \in Searches |-> {}]
    /\ todo = [s \in Searches |-> {}]
    /\ answer = [s \in Searches |-> None]
    /\ window = {disk} \ {None}
    /\ allowed = [s \in Searches |-> {}]
    /\ owed = FALSE

------------------------------------------------------------------------------
GenerationsOf(ids) == {id[1] : id \in ids}
AllChunks(g) == {<<g, n>> : n \in 0 .. Chunks[content[g]] - 1}
Complete(g, ids) == content[g] # None /\ AllChunks(g) \subseteq ids

\* validateGeneration, which reads the generation's points again.
Valid(g) == g \in sealed /\ Complete(g, points)

\* Deleting chunks takes the seal of a generation with its chunk zero.
Remove(ids) ==
    /\ points' = points \ ids
    /\ sealed' = {g \in sealed : <<g, 0>> \notin ids}

\* The end of a run for the document: state of the run is dropped.
End(i) ==
    /\ pc' = [pc EXCEPT ![i] = "idle"]
    /\ known' = [known EXCEPT ![i] = {}]
    /\ marked' = [marked EXCEPT ![i] = {}]
    /\ read' = [read EXCEPT ![i] = None]
    /\ gen' = [gen EXCEPT ![i] = None]
    /\ next' = [next EXCEPT ![i] = 0]

Fail(i) == End(i) /\ UNCHANGED <<window, owed>>

\* indexFile returns without an error: what it read has been published, or
\* the file was empty.
Succeed(i) ==
    /\ pc' = [pc EXCEPT ![i] = "done"]
    /\ window' = {read[i], disk} \ {None}
    /\ owed' = (disk # None /\ Chunks[disk] > 0 /\ Chunks[read[i]] > 0)
    /\ UNCHANGED <<known, marked, read, gen, next>>

At(i, state) ==
    /\ pc' = [pc EXCEPT ![i] = state]
    /\ UNCHANGED <<window, owed>>

------------------------------------------------------------------------------
(* Indexer.Run and indexFile. *)

\* snapshotState.
Snapshot(i) ==
    /\ pc[i] = "idle"
    /\ At(i, "walk")
    /\ known' = [known EXCEPT ![i] = points]
    /\ marked' = [marked EXCEPT ![i] = sealed]
    /\ UNCHANGED <<disk, storeVars, read, gen, next, searchVars, allowed>>

\* fileState.complete: generations of the snapshot made from the same bytes.
Current(i) ==
    {g \in marked[i] : content[g] = disk /\ Complete(g, known[i])}

NewGeneration(i) ==
    \E g \in Generations :
        /\ content[g] = None
        /\ \A h \in 1 .. g - 1 : content[h] # None
        /\ gen' = [gen EXCEPT ![i] = g]
        /\ content' = [content EXCEPT ![g] = read'[i]]

\* The walk reaches the file, which still has a content, or is gone and is
\* left to cleanupStale.
Read(i) ==
    /\ pc[i] = "walk"
    /\ disk # None
    /\ read' = [read EXCEPT ![i] = disk]
    /\ \/ /\ Chunks[disk] = 0
          /\ At(i, "empty")
          /\ UNCHANGED <<gen, content>>
       \/ /\ Chunks[disk] > 0
          /\ \E g \in Current(i) : gen' = [gen EXCEPT ![i] = g]
          /\ At(i, "recheck")
          /\ UNCHANGED content
       \/ /\ Chunks[disk] > 0
          /\ Current(i) = {}
          /\ NewGeneration(i)
          /\ At(i, "write")
    /\ UNCHANGED <<disk, points, sealed, sealedAt, clock, known, marked, next,
                   searchVars, allowed>>

\* Chunks of the snapshot that belong to other generations: pointIDsExcept.
\* Mutants: of every generation; of the sealed ones only.
AllKnown(i) == known[i]
OthersSealed(i) == {id \in known[i] : id[1] # gen[i] /\ id[1] \in marked[i]}

Others(i) == {id \in known[i] : id[1] # gen[i]}

\* A complete generation is validated again; if it is not what it seemed a
\* new one is written.
Recheck(i) ==
    /\ pc[i] = "recheck"
    /\ \/ /\ Valid(gen[i])
          /\ Others(i) = {}
          /\ Succeed(i)
          /\ UNCHANGED content
       \/ /\ Valid(gen[i])
          /\ Others(i) # {}
          /\ At(i, "clean")
          /\ UNCHANGED <<content, known, marked, read, gen, next>>
       \/ /\ read' = read                  \* invalid, or the read failed
          /\ NewGeneration(i)
          /\ At(i, "write")
          /\ UNCHANGED <<known, marked, next>>
    /\ UNCHANGED <<disk, points, sealed, sealedAt, clock, searchVars, allowed>>

\* Mutant: one chunk too many.
PastLastChunk(i) == next[i] = Chunks[read[i]]

LastChunk(i) == next[i] + 1 = Chunks[read[i]]

\* One Upsert per chunk; the first error ends the run.
WriteChunk(i) ==
    /\ pc[i] = "write"
    /\ \/ /\ points' = points \cup {<<gen[i], next[i]>>}
          /\ next' = [next EXCEPT ![i] = @ + 1]
          /\ At(i, IF LastChunk(i) THEN "check" ELSE "write")
          /\ UNCHANGED <<known, marked, read, gen>>
       \/ /\ points' = points \cup {<<gen[i], next[i]>>}
          /\ Fail(i)                               \* error reported
    /\ UNCHANGED <<disk, sealed, content, sealedAt, clock, searchVars, allowed>>

\* The read-back before the seal, and the seal's timestamp.
Check(i) ==
    /\ pc[i] = "check"
    /\ Complete(gen[i], points)
    /\ clock' = clock + 1
    /\ sealedAt' = [sealedAt EXCEPT ![gen[i]] = clock + 1]
    /\ At(i, "seal")
    /\ UNCHANGED <<disk, points, sealed, content, known, marked, read, gen,
                   next, searchVars, allowed>>

PutSeal(i) ==
    /\ points' = points \cup {<<gen[i], 0>>}
    /\ sealed' = sealed \cup {gen[i]}

\* The Upsert of the sealed chunk zero is the publication commit, although
\* its response may be lost.
Seal(i) ==
    /\ pc[i] = "seal"
    /\ \/ PutSeal(i) /\ Others(i) = {} /\ Succeed(i)
       \/ /\ PutSeal(i) /\ Others(i) # {}
          /\ pc' = [pc EXCEPT ![i] = "clean"]
          /\ window' = {read[i], disk} \ {None}
          /\ UNCHANGED <<owed, known, marked, read, gen, next>>
       \/ /\ PutSeal(i) /\ End(i)                  \* error reported
          /\ window' = {read[i], disk} \ {None}
          /\ UNCHANGED owed
    /\ UNCHANGED <<disk, content, sealedAt, clock, searchVars, allowed>>

Clean(i) ==
    /\ pc[i] = "clean"
    /\ \/ Remove(Others(i)) /\ Succeed(i)
       \/ Remove(Others(i)) /\ Fail(i)              \* error reported
    /\ UNCHANGED <<disk, content, sealedAt, clock, searchVars, allowed>>

\* The file was read and has no chunks.
RemoveEmpty(i) ==
    /\ pc[i] = "empty"
    /\ \/ Remove(known[i]) /\ Succeed(i)
       \/ known[i] # {} /\ Remove(known[i]) /\ Fail(i)   \* error reported
    /\ UNCHANGED <<disk, content, sealedAt, clock, searchVars, allowed>>

\* cleanupStale: the walk did not meet a file of the snapshot.  An unhealthy
\* walk skips it: the run ends (Stop).
Missed(i) ==
    /\ pc[i] = "walk"
    /\ disk = None
    /\ known[i] # {}
    /\ At(i, "remove")
    /\ UNCHANGED <<disk, storeVars, known, marked, read, gen, next, searchVars,
                   allowed>>

RemoveMissing(i) ==
    /\ pc[i] = "remove"
    /\ Remove(points)
    /\ Fail(i)
    /\ UNCHANGED <<disk, content, sealedAt, clock, searchVars, allowed>>

\* The run is over, or it crashes, is cancelled, or a read, an embedding, a
\* scroll or a write that is not applied fails.
Stop(i) ==
    /\ pc[i] # "idle"
    /\ Fail(i)
    /\ UNCHANGED <<disk, storeVars, searchVars, allowed>>

------------------------------------------------------------------------------
(* search_documents: validateSearchCandidates, for one candidate (what the *)
(* answer says of a candidate does not depend on the others).              *)

GotoS(s, state) == spc' = [spc EXCEPT ![s] = state]

\* The response; what the search has collected is dropped.
Respond(s, response) ==
    /\ GotoS(s, response)
    /\ hit' = [hit EXCEPT ![s] = None]
    /\ found' = [found EXCEPT ![s] = {}]
    /\ todo' = [todo EXCEPT ![s] = {}]

Search(s) ==
    /\ spc[s] = "idle"
    /\ \/ /\ \E id \in points : hit' = [hit EXCEPT ![s] = id]
          /\ GotoS(s, "discover")
       \/ /\ points = {}
          /\ GotoS(s, "nothing")
          /\ UNCHANGED hit
    /\ allowed' = [allowed EXCEPT ![s] = window]
    /\ UNCHANGED <<disk, storeVars, indexerVars, found, todo, answer, window,
                   owed>>

\* discoverSealedGenerations: one scroll over the file ...
Discover(s) ==
    /\ spc[s] = "discover"
    /\ found' = [found EXCEPT ![s] = sealed]
    /\ todo' = [todo EXCEPT ![s] = sealed]
    /\ GotoS(s, "validate")
    /\ UNCHANGED <<disk, storeVars, indexerVars, hit, answer, window, allowed,
                   owed>>

\* ... then one per sealed generation; any failure fails the file.
Validate(s) ==
    /\ spc[s] = "validate"
    /\ \E g \in todo[s] :
          \/ /\ Valid(g)
             /\ todo' = [todo EXCEPT ![s] = @ \ {g}]
             /\ UNCHANGED <<spc, hit, found>>
          \/ Respond(s, "incomplete")
    /\ UNCHANGED <<disk, storeVars, indexerVars, answer, window, allowed,
                   owed>>

\* Mutant: the oldest seal is preferred.
OldestSeal(gens) == CHOOSE g \in gens : \A h \in gens : sealedAt[g] <= sealedAt[h]

NewestSeal(gens) == CHOOSE g \in gens : \A h \in gens : sealedAt[g] >= sealedAt[h]

\* A candidate of another generation than the selected one is rejected.
Selected(s) == found[s] # {} /\ hit[s][1] = NewestSeal(found[s])

Answer(s) ==
    /\ spc[s] = "validate"
    /\ todo[s] = {}
    /\ \/ /\ Selected(s)
          /\ answer' = [answer EXCEPT ![s] = hit[s][1]]
          /\ Respond(s, "answered")
       \/ /\ ~Selected(s)
          /\ Respond(s, IF found[s] = {} THEN "incomplete" ELSE "stale")
          /\ UNCHANGED answer
    /\ UNCHANGED <<disk, storeVars, indexerVars, window, allowed, owed>>

------------------------------------------------------------------------------
\* The file is written, emptied, removed or brought back.
Edit ==
    /\ \E v \in FileStates \ {disk} :
          /\ disk' = v
          /\ window' = window \cup ({v} \ {None})
          /\ allowed' = [s \in Searches |-> IF spc[s] \in {"discover", "validate"}
                                            THEN allowed[s] \cup ({v} \ {None})
                                            ELSE allowed[s]]
          /\ owed' = (owed /\ v # None /\ Chunks[v] > 0)
    /\ UNCHANGED <<storeVars, indexerVars, searchVars>>

IndexerStep(i) ==
    \/ Snapshot(i)
    \/ Read(i)
    \/ Recheck(i)
    \/ WriteChunk(i)
    \/ Check(i)
    \/ Seal(i)
    \/ Clean(i)
    \/ RemoveEmpty(i)
    \/ Missed(i)
    \/ RemoveMissing(i)
    \/ Stop(i)

SearchStep(s) == Search(s) \/ Discover(s) \/ Validate(s) \/ Answer(s)

Next ==
    \/ \E i \in Indexers : IndexerStep(i)
    \/ \E s \in Searches : SearchStep(s)
    \/ Edit

Spec == Init /\ [][Next]_vars

------------------------------------------------------------------------------
(* Properties. *)

\* A document that has been published and was neither emptied nor removed
\* since stays readable: some sealed generation is stored and all of them
\* are complete, whatever fails or crashes while it is indexed again.
StillPublished ==
    owed => sealed # {} /\ \A g \in sealed : Complete(g, points)

\* An answer's text is never older than what was published when the search
\* began, although older generations may still be stored and rank higher.
AnswerFresh ==
    \A s \in Searches :
        spc[s] = "answered" => content[answer[s]] \in allowed[s]

\* A run that succeeds on a file with a content leaves one generation, sealed,
\* complete and made from what was read; leftovers of failed runs are gone.
SuccessLeavesOneGeneration ==
    \A i \in Indexers :
        pc[i] = "done" /\ Chunks[read[i]] > 0 =>
            /\ points = AllChunks(gen[i])
            /\ sealed = {gen[i]}
            /\ content[gen[i]] = read[i]

\* The document stays readable, answers are fresh, and a successful run leaves
\* one generation.
PublicationIsSound == StillPublished /\ AnswerFresh /\ SuccessLeavesOneGeneration
=============================================================================
