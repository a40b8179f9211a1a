-------------------------- MODULE Documents_proofs --------------------------
(***************************************************************************)
(* Proofs about the documents for any values of the constants: one document*)
(* with one indexer at a time (RagPublication), the walk over the tree and *)
(* the summaries of its folders (FolderSummaries), and the inventory in the*)
(* dashboard (VizDocuments).                                               *)
(***************************************************************************)
EXTENDS MCDocuments, FiniteSetTheorems, WellFoundedInduction, TLAPS

------------------------------------------------------------------------------
(* One document. *)

\* The indexers are one process: the server, whose runs exclude each other,
\* or the command while the server does not index.
OneIndexer == \A i, j \in Indexers : i = j

\* The newest generations of S were made from one of the contents in C.
NewestIn(S, C) ==
    \A g \in S : (\A h \in S : sealedAt[g] >= sealedAt[h]) => content[g] \in C

Shape ==
    /\ disk \in FileStates
    /\ points \subseteq Ids
    /\ sealed \subseteq Generations
    /\ content \in [Generations -> Contents \cup {None}]
    /\ sealedAt \in [Generations -> Nat]
    /\ clock \in Nat
    /\ pc \in [Indexers -> {"idle", "walk", "recheck", "write", "check",
                            "seal", "clean", "empty", "remove", "done"}]
    /\ known \in [Indexers -> SUBSET Ids]
    /\ marked \in [Indexers -> SUBSET Generations]
    /\ read \in [Indexers -> Contents \cup {None}]
    /\ gen \in [Indexers -> Generations \cup {None}]
    /\ next \in [Indexers -> Nat]
    /\ spc \in [Searches -> {"idle", "discover", "validate", "answered",
                             "incomplete", "stale", "nothing"}]
    /\ hit \in [Searches -> Ids \cup {None}]
    /\ found \in [Searches -> SUBSET Generations]
    /\ todo \in [Searches -> SUBSET Generations]
    /\ answer \in [Searches -> Generations \cup {None}]
    /\ window \in SUBSET Contents
    /\ allowed \in [Searches -> SUBSET Contents]
    /\ owed \in BOOLEAN

\* What is stored: chunks of known contents, complete sealed generations, and
\* seals that were put at different times.
StoreInv ==
    /\ \A id \in points : content[id[1]] \in Contents /\ id[2] < Chunks[content[id[1]]]
    /\ \A g \in sealed :
          /\ <<g, 0>> \in points /\ Complete(g, points)
          /\ 0 < sealedAt[g]
    /\ \A g \in Generations :
          /\ sealedAt[g] <= clock
          /\ content[g] = None => sealedAt[g] = 0

\* What the observers say: an owed document is on disk and sealed, and the
\* newest seal is of a content in the window.
PublishedInv ==
    /\ owed => disk # None /\ Chunks[disk] > 0 /\ sealed # {}
    /\ disk # None => disk \in window
    /\ NewestIn(sealed, window)

Holding == {"recheck", "write", "check", "seal", "clean"}
Fresh == {"write", "check", "seal"}

\* What a run knows: what it saw in its snapshot is there until it removes it,
\* and only its own generation is added.
RunInv(i) ==
    /\ pc[i] \in {"walk", "recheck", "empty"} =>
          points = known[i] /\ sealed = marked[i]
    /\ pc[i] \in Holding =>
          /\ gen[i] \in Generations
          /\ read[i] \in Contents /\ Chunks[read[i]] > 0
          /\ content[gen[i]] = read[i]
          /\ read[i] \in window
    /\ pc[i] \in Fresh \cup {"clean"} =>
          /\ known[i] \subseteq points
          /\ \A id \in points : id \in known[i] \/ id[1] = gen[i]
    /\ pc[i] \in Fresh => gen[i] \notin sealed
    /\ pc[i] \in {"idle", "walk", "recheck"} => next[i] = 0
    /\ pc[i] = "write" => next[i] < Chunks[read[i]]
    /\ pc[i] \in {"write", "check"} => sealedAt[gen[i]] = 0
    /\ pc[i] = "seal" =>
          /\ Complete(gen[i], points)
          /\ 0 < sealedAt[gen[i]] /\ sealedAt[gen[i]] = clock
          /\ \A g \in sealed : sealedAt[g] < clock
    /\ pc[i] = "clean" => gen[i] \in sealed
    /\ pc[i] = "empty" => read[i] \in Contents /\ Chunks[read[i]] = 0
    /\ pc[i] \in {"empty", "remove"} => ~owed
    /\ pc[i] = "done" =>
          /\ read[i] \in Contents
          /\ Chunks[read[i]] > 0 =>
                /\ gen[i] \in Generations
                /\ points = AllChunks(gen[i])
                /\ sealed = {gen[i]}
                /\ content[gen[i]] = read[i]

\* What a search may answer from.
SearchInv(s) ==
    /\ spc[s] = "discover" =>
          /\ disk # None => disk \in allowed[s]
          /\ NewestIn(sealed, allowed[s])
          /\ \A i \in Indexers : pc[i] \in Holding => read[i] \in allowed[s]
    /\ spc[s] = "validate" =>
          /\ \A g \in found[s] : content[g] # None /\ sealedAt[g] > 0
          /\ NewestIn(found[s], allowed[s])
    /\ spc[s] = "answered" =>
          answer[s] \in Generations /\ content[answer[s]] \in allowed[s]

IInv ==
    /\ Shape
    /\ StoreInv
    /\ PublishedInv
    /\ \A i \in Indexers : RunInv(i)
    /\ \A s \in Searches : SearchInv(s)

------------------------------------------------------------------------------
(* Facts about the operators. *)

\* Sets of naturals have a least element, and bounded ones a greatest one.
LEMMA LeastNumber ==
  ASSUME NEW S \in SUBSET Nat, S # {}
  PROVE  \E x \in S : \A y \in S : x <= y
<1>1. PICK x \in S : \A y \in S : <<y, x>> \notin OpToRel(<, Nat)
  BY WFMin, NatLessThanWellFounded
<1>2. \A y \in S : ~(y < x)
  BY <1>1 DEF OpToRel
<1>3. QED
  BY <1>2

LEMMA GreatestNumber ==
  ASSUME NEW n \in Nat, NEW T \in SUBSET (0 .. n), T # {}
  PROVE  \E x \in T : \A y \in T : y <= x
<1> DEFINE D == {n - x : x \in T}
<1>1. D \in SUBSET Nat /\ D # {}
  <2>1. \A x \in T : x \in Nat /\ n - x \in Nat
    OBVIOUS
  <2>2. QED
    BY <2>1
<1>2. PICK d \in D : \A e \in D : d <= e
  BY <1>1, LeastNumber
<1>3. PICK x \in T : d = n - x
  OBVIOUS
<1>4. \A y \in T : n - x <= n - y
  BY <1>2, <1>3
<1>5. QED
  BY <1>4

\* The newest seal of a set is one of the set, and no other is newer.
LEMMA NewestSealIsNewest ==
  ASSUME NEW S \in SUBSET Generations, S # {}, clock \in Nat,
         \A g \in S : sealedAt[g] \in 0 .. clock
  PROVE  /\ NewestSeal(S) \in S
         /\ \A h \in S : sealedAt[NewestSeal(S)] >= sealedAt[h]
<1> DEFINE T == {sealedAt[g] : g \in S}
<1>1. T \in SUBSET (0 .. clock) /\ T # {}
  OBVIOUS
<1>2. PICK x \in T : \A y \in T : y <= x
  BY <1>1, GreatestNumber
<1>3. PICK g \in S : x = sealedAt[g]
  OBVIOUS
<1>4. \A h \in S : sealedAt[g] >= sealedAt[h]
  BY <1>2, <1>3
<1>5. QED
  BY <1>4 DEF NewestSeal

\* Chunk zero is one of a generation's chunks if there are any.
LEMMA ChunkZero ==
  ASSUME NEW g \in Generations, content[g] \in Contents, Chunks[content[g]] > 0
  PROVE  /\ <<g, 0>> \in AllChunks(g)
         /\ AllChunks(g) \subseteq Ids
         /\ \A id \in AllChunks(g) : id[1] = g /\ id[2] < Chunks[content[g]]
         /\ \A id \in Ids : id[1] = g /\ id[2] < Chunks[content[g]] => id \in AllChunks(g)
<1>1. Chunks[content[g]] \in Nat \ {0}
  BY ChunksAssumption
<1>2. \A n \in 0 .. Chunks[content[g]] - 1 : n \in Nat /\ n < Chunks[content[g]]
  BY <1>1
<1>3. \A n \in Nat : n < Chunks[content[g]] => n \in 0 .. Chunks[content[g]] - 1
  BY <1>1
<1>4. <<g, 0>> \in AllChunks(g)
  BY <1>1 DEF AllChunks
<1>5. AllChunks(g) \subseteq Ids
  BY <1>2 DEF AllChunks, Ids
<1>6. \A id \in AllChunks(g) : id[1] = g /\ id[2] < Chunks[content[g]]
  BY <1>2 DEF AllChunks
<1>7. \A id \in Ids : id[1] = g /\ id[2] < Chunks[content[g]] => id \in AllChunks(g)
  BY <1>3 DEF AllChunks, Ids
<1>8. QED
  BY <1>4, <1>5, <1>6, <1>7

\* A search that makes no step keeps its invariant if what it has found stays
\* as it was; while it discovers, that is what is stored.
LEMMA SearchFrame ==
  ASSUME IInv, Shape', NEW s \in Searches,
         spc'[s] = spc[s], allowed'[s] = allowed[s], found'[s] = found[s],
         answer'[s] = answer[s],
         \A g \in Generations : content[g] # None => content'[g] = content[g],
         \A g \in Generations : sealedAt[g] > 0 => sealedAt'[g] = sealedAt[g],
         spc[s] = "discover" =>
            /\ disk' # None => disk' \in allowed[s]
            /\ \A g \in sealed' :
                  (\A h \in sealed' : sealedAt'[g] >= sealedAt'[h])
                     => content'[g] \in allowed[s]
            /\ \A i \in Indexers : pc'[i] \in Holding => read'[i] \in allowed[s]
  PROVE  SearchInv(s)'
<1>1. SearchInv(s)
  BY DEF IInv
<1>2. CASE spc[s] = "validate"
  <2>1. /\ \A g \in found[s] : g \in Generations /\ content[g] # None /\ sealedAt[g] > 0
        /\ NewestIn(found[s], allowed[s])
    BY <1>1, <1>2 DEF SearchInv, IInv, Shape
  <2>2. \A g \in found[s] : content'[g] = content[g] /\ sealedAt'[g] = sealedAt[g]
    BY <2>1
  <2>3. NewestIn(found[s], allowed[s])'
    BY <2>1, <2>2 DEF NewestIn
  <2>4. QED
    BY <1>2, <2>1, <2>2, <2>3 DEF SearchInv
<1>3. CASE spc[s] = "discover"
  <2>1. NewestIn(sealed, allowed[s])'
    BY <1>3 DEF NewestIn
  <2>2. QED
    BY <1>3, <2>1 DEF SearchInv
<1>4. CASE spc[s] = "answered"
  <2>1. answer[s] \in Generations /\ content[answer[s]] \in allowed[s]
    BY <1>1, <1>4 DEF SearchInv
  <2>2. allowed[s] \subseteq Contents
    BY DEF IInv, Shape
  <2>3. content[answer[s]] # None
    BY <2>1, <2>2, ChunksAssumption
  <2>4. QED
    BY <1>4, <2>1, <2>3 DEF SearchInv
<1>5. QED
  BY <1>2, <1>3, <1>4 DEF SearchInv

------------------------------------------------------------------------------
(* Init and the actions establish or preserve the invariant. *)

LEMMA InitInv == Init => IInv
<1> SUFFICES ASSUME Init PROVE IInv
  OBVIOUS
<1>1. Shape
  BY FileStatesAssumption DEF Init, Shape
<1>2. StoreInv /\ PublishedInv
  BY DEF Init, StoreInv, PublishedInv, NewestIn
<1>3. \A i \in Indexers : RunInv(i)
  BY DEF Init, RunInv, Holding, Fresh
<1>4. \A s \in Searches : SearchInv(s)
  BY DEF Init, SearchInv
<1>5. QED
  BY <1>1, <1>2, <1>3, <1>4 DEF IInv

\* The store is what it was.
LEMMA StoreFrame ==
  ASSUME IInv, UNCHANGED storeVars
  PROVE  StoreInv'
BY DEF storeVars, IInv, StoreInv, Complete, AllChunks

\* A step of a run that leaves the seals, the file and the observers alone
\* keeps what the searches know, if what the run has read is known to them.
LEMMA SearchesKeep ==
  ASSUME IInv, Shape',
         UNCHANGED <<disk, sealed, content, sealedAt, spc, found, answer, allowed>>,
         NEW s \in Searches,
         spc[s] = "discover" =>
            \A i \in Indexers : pc'[i] \in Holding => read'[i] \in allowed[s]
  PROVE  SearchInv(s)'
<1>1. SearchInv(s)
  BY DEF IInv
<1>2. QED
  BY <1>1 DEF SearchInv, NewestIn

LEMMA EditStep ==
  ASSUME IInv, Edit
  PROVE  IInv'
<1>1. PICK v0 \in FileStates \ {disk} :
          /\ disk' = v0
          /\ window' = window \cup ({v0} \ {None})
          /\ allowed' = [s \in Searches |-> IF spc[s] \in {"discover", "validate"}
                                            THEN allowed[s] \cup ({v0} \ {None})
                                            ELSE allowed[s]]
          /\ owed' = (owed /\ v0 # None /\ Chunks[v0] > 0)
  BY DEF Edit
<1>2. UNCHANGED <<storeVars, indexerVars, searchVars>>
  BY DEF Edit
<1>3. UNCHANGED <<points, sealed, content, sealedAt, clock, pc, known, marked,
                  read, gen, next, spc, hit, found, todo, answer>>
  BY <1>2 DEF storeVars, indexerVars, searchVars
<1>4. {v0} \ {None} \subseteq Contents
  BY FileStatesAssumption
<1>5. owed' \in BOOLEAN
  BY <1>1
<1>6. Shape'
  BY <1>1, <1>3, <1>4, <1>5 DEF IInv, Shape
<1>7. StoreInv'
  BY <1>2, StoreFrame
<1>8. PublishedInv'
  <2>1. (owed => disk # None /\ Chunks[disk] > 0 /\ sealed # {})'
    BY <1>1, <1>3 DEF IInv, PublishedInv
  <2>2. NewestIn(sealed, window)'
    BY <1>1, <1>3 DEF IInv, PublishedInv, NewestIn
  <2>3. QED
    BY <1>1, <2>1, <2>2 DEF PublishedInv
<1>9. ASSUME NEW i \in Indexers PROVE RunInv(i)'
  <2>1. RunInv(i)
    BY DEF IInv
  <2>2. owed' => owed
    BY <1>1
  <2>3. window \subseteq window'
    BY <1>1
  <2>4. QED
    BY <1>3, <2>1, <2>2, <2>3 DEF RunInv, Complete, AllChunks, Holding, Fresh
<1>10. ASSUME NEW s \in Searches PROVE SearchInv(s)'
  <2>1. SearchInv(s) /\ allowed[s] \subseteq allowed'[s]
    BY <1>1 DEF IInv
  <2>2. spc[s] = "discover" /\ disk' # None => disk' \in allowed'[s]
    BY <1>1
  <2>3. QED
    BY <1>3, <2>1, <2>2 DEF SearchInv, NewestIn, Holding
<1>11. QED
  BY <1>6, <1>7, <1>8, <1>9, <1>10 DEF IInv

LEMMA SnapshotStep ==
  ASSUME OneIndexer, IInv, NEW i \in Indexers, Snapshot(i)
  PROVE  IInv'
<1>1. /\ pc[i] = "idle" /\ pc' = [pc EXCEPT ![i] = "walk"]
      /\ known' = [known EXCEPT ![i] = points]
      /\ marked' = [marked EXCEPT ![i] = sealed]
      /\ UNCHANGED <<disk, storeVars, read, gen, next, searchVars, allowed, window, owed>>
  BY DEF Snapshot, At
<1>2. UNCHANGED <<points, sealed, content, sealedAt, clock, spc, hit, found, todo, answer>>
  BY <1>1 DEF storeVars, searchVars
<1>3. Shape'
  BY <1>1, <1>2 DEF IInv, Shape
<1>4. StoreInv'
  BY <1>1, StoreFrame
<1>5. PublishedInv'
  BY <1>1, <1>2 DEF IInv, PublishedInv, NewestIn
<1>6. RunInv(i)'
  <2>1. /\ pc'[i] = "walk" /\ known'[i] = points /\ marked'[i] = sealed
        /\ next'[i] = 0
    BY <1>1 DEF IInv, Shape, RunInv
  <2>2. QED
    BY <1>2, <2>1 DEF RunInv, Holding, Fresh
<1>7. ASSUME NEW s \in Searches PROVE SearchInv(s)'
  <2>1. \A j \in Indexers : pc'[j] \notin Holding
    BY <1>1 DEF OneIndexer, IInv, Shape, Holding
  <2>2. QED
    BY <1>1, <1>2, <1>3, <2>1, SearchesKeep
<1>8. QED
  BY <1>3, <1>4, <1>5, <1>6, <1>7 DEF IInv, OneIndexer

\* A new generation has no chunk and no seal yet.
LEMMA NewGenerationIsNew ==
  ASSUME IInv, NEW i \in Indexers, NewGeneration(i), read'[i] \in Contents,
         UNCHANGED <<points, sealed, sealedAt, clock>>
  PROVE  \E g \in Generations :
            /\ gen' = [gen EXCEPT ![i] = g]
            /\ content' = [content EXCEPT ![g] = read'[i]]
            /\ content[g] = None /\ sealedAt[g] = 0 /\ g \notin sealed
            /\ \A id \in points : id[1] # g
            /\ content' \in [Generations -> Contents \cup {None}]
            /\ gen' \in [Indexers -> Generations \cup {None}]
            /\ \A h \in Generations : content[h] # None => content'[h] = content[h]
            /\ StoreInv'
<1>1. PICK g \in Generations :
         /\ content[g] = None
         /\ gen' = [gen EXCEPT ![i] = g]
         /\ content' = [content EXCEPT ![g] = read'[i]]
  BY DEF NewGeneration
<1>2. \A id \in points : id[1] # g
  BY <1>1, ChunksAssumption DEF IInv, StoreInv
<1>3. g \notin sealed /\ sealedAt[g] = 0
  BY <1>1 DEF IInv, StoreInv, Complete
<1>4. content' \in [Generations -> Contents \cup {None}]
      /\ gen' \in [Indexers -> Generations \cup {None}]
  BY <1>1 DEF IInv, Shape
<1>5. \A h \in Generations : h # g => content'[h] = content[h]
  BY <1>1 DEF IInv, Shape
<1>6. content'[g] = read'[i]
  BY <1>1 DEF IInv, Shape
<1>7. StoreInv'
  <2>1. \A id \in points : content'[id[1]] = content[id[1]]
    BY <1>2, <1>5 DEF IInv, Shape, Ids
  <2>2. \A h \in sealed : h \in Generations /\ content'[h] = content[h]
    BY <1>3, <1>5 DEF IInv, Shape
  <2>3. \A h \in sealed : Complete(h, points)'
    BY <2>2 DEF IInv, StoreInv, Complete, AllChunks
  <2>4. \A h \in Generations :
           sealedAt[h] <= clock /\ (content'[h] = None => sealedAt[h] = 0)
    BY <1>3, <1>5 DEF IInv, StoreInv
  <2>5. QED
    BY <2>1, <2>3, <2>4 DEF IInv, StoreInv
<1>8. QED
  BY <1>1, <1>2, <1>3, <1>4, <1>5, <1>7

\* The observers keep their part while what is stored is.
LEMMA PublishedFrame ==
  ASSUME IInv, UNCHANGED <<disk, sealed, sealedAt, window, owed>>,
         \A h \in Generations : content[h] # None => content'[h] = content[h]
  PROVE  PublishedInv'
<1>1. \A h \in sealed : content'[h] = content[h]
  BY DEF IInv, Shape, StoreInv, Complete
<1>2. QED
  BY <1>1 DEF IInv, PublishedInv, NewestIn

LEMMA ReadStep ==
  ASSUME OneIndexer, IInv, NEW i \in Indexers, Read(i)
  PROVE  IInv'
<1>1. /\ pc[i] = "walk" /\ disk # None
      /\ read' = [read EXCEPT ![i] = disk]
      /\ UNCHANGED <<disk, points, sealed, sealedAt, clock, known, marked, next,
                     searchVars, allowed, window, owed>>
  BY DEF Read, At
<1>2. UNCHANGED <<spc, hit, found, todo, answer>>
  BY <1>1 DEF searchVars
<1>3. /\ disk \in Contents /\ disk \in window
      /\ Chunks[disk] \in Nat
      /\ points = known[i] /\ sealed = marked[i]
      /\ read'[i] = disk /\ next'[i] = 0
  BY <1>1, FileStatesAssumption, ChunksAssumption DEF IInv, Shape, RunInv, PublishedInv
<1>4. read' \in [Indexers -> Contents \cup {None}]
  BY <1>1, <1>3 DEF IInv, Shape
<1>5. ASSUME /\ StoreInv'
             /\ content' \in [Generations -> Contents \cup {None}]
             /\ \A h \in Generations : content[h] # None => content'[h] = content[h]
             /\ gen' \in [Indexers -> Generations \cup {None}]
             /\ pc' \in [Indexers -> {"empty", "recheck", "write"}]
             /\ RunInv(i)'
      PROVE  IInv'
  <2>1. Shape'
    <3>1. pc' \in [Indexers -> {"idle", "walk", "recheck", "write", "check",
                                "seal", "clean", "empty", "remove", "done"}]
      BY <1>5
    <3>2. QED
      BY <1>1, <1>2, <1>4, <1>5, <3>1 DEF IInv, Shape
  <2>2. PublishedInv'
    BY <1>1, <1>5, PublishedFrame
  <2>3. ASSUME NEW s \in Searches PROVE SearchInv(s)'
    <3>1. SearchInv(s)
      BY DEF IInv
    <3>2. \A j \in Indexers : read'[j] = disk
      BY <1>3 DEF OneIndexer
    <3>3. \A h \in sealed : h \in Generations /\ content'[h] = content[h]
      BY <1>5 DEF IInv, Shape, StoreInv, Complete
    <3>4. spc[s] = "discover" =>
            /\ disk' # None => disk' \in allowed[s]
            /\ \A g \in sealed' :
                  (\A h \in sealed' : sealedAt'[g] >= sealedAt'[h])
                     => content'[g] \in allowed[s]
            /\ \A j \in Indexers : pc'[j] \in Holding => read'[j] \in allowed[s]
      BY <1>1, <3>1, <3>2, <3>3 DEF SearchInv, NewestIn
    <3>5. /\ spc'[s] = spc[s] /\ allowed'[s] = allowed[s]
          /\ found'[s] = found[s] /\ answer'[s] = answer[s]
          /\ \A g \in Generations : sealedAt[g] > 0 => sealedAt'[g] = sealedAt[g]
      BY <1>1, <1>2
    <3>6. QED
      BY <1>5, <2>1, <3>4, <3>5, SearchFrame
  <2>4. QED
    BY <1>5, <2>1, <2>2, <2>3 DEF IInv, OneIndexer
<1>6. ASSUME NEW st \in {"empty", "recheck", "write"}, At(i, st)
      PROVE  pc' \in [Indexers -> {"empty", "recheck", "write"}] /\ pc'[i] = st
  BY <1>6 DEF At, OneIndexer, IInv, Shape
<1>7. CASE Chunks[disk] = 0 /\ At(i, "empty") /\ UNCHANGED <<gen, content>>
  <2>1. ~owed
    BY <1>7 DEF IInv, PublishedInv
  <2>2. pc'[i] = "empty"
    BY <1>6, <1>7
  <2>3. RunInv(i)'
    BY <1>1, <1>3, <1>7, <2>1, <2>2 DEF RunInv, Holding, Fresh
  <2>4. StoreInv'
    BY <1>1, <1>7, StoreFrame DEF storeVars
  <2>5. QED
    BY <1>5, <1>6, <1>7, <2>3, <2>4 DEF IInv, Shape
<1>8. CASE /\ Chunks[disk] > 0 /\ At(i, "recheck") /\ UNCHANGED content
           /\ \E g \in Current(i) : gen' = [gen EXCEPT ![i] = g]
  <2>1. PICK g \in Current(i) : gen' = [gen EXCEPT ![i] = g]
    BY <1>8
  <2>2. g \in Generations /\ content[g] = disk
    BY <2>1 DEF Current, IInv, Shape
  <2>3. pc'[i] = "recheck" /\ gen'[i] = g
    BY <1>6, <1>8, <2>1 DEF IInv, Shape
  <2>4. RunInv(i)'
    BY <1>1, <1>3, <1>8, <2>2, <2>3 DEF RunInv, Holding, Fresh
  <2>5. StoreInv'
    BY <1>1, <1>8, StoreFrame DEF storeVars
  <2>6. gen' \in [Indexers -> Generations \cup {None}]
    BY <2>1, <2>2 DEF IInv, Shape
  <2>7. QED
    BY <1>5, <1>6, <1>8, <2>4, <2>5, <2>6 DEF IInv, Shape
<1>9. CASE Chunks[disk] > 0 /\ NewGeneration(i) /\ At(i, "write")
  <2>1. PICK g \in Generations :
            /\ gen' = [gen EXCEPT ![i] = g]
            /\ content' = [content EXCEPT ![g] = read'[i]]
            /\ content[g] = None /\ sealedAt[g] = 0 /\ g \notin sealed
            /\ \A id \in points : id[1] # g
            /\ content' \in [Generations -> Contents \cup {None}]
            /\ gen' \in [Indexers -> Generations \cup {None}]
            /\ \A h \in Generations : content[h] # None => content'[h] = content[h]
            /\ StoreInv'
    BY <1>1, <1>3, <1>9, NewGenerationIsNew
  <2>2. pc'[i] = "write" /\ gen'[i] = g /\ content'[g] = disk
    BY <1>3, <1>6, <1>9, <2>1 DEF IInv, Shape
  <2>4. RunInv(i)'
    BY <1>1, <1>3, <1>9, <2>1, <2>2 DEF RunInv, Holding, Fresh
  <2>5. QED
    BY <1>5, <1>6, <1>9, <2>1, <2>4
<1>10. QED
  BY <1>7, <1>8, <1>9 DEF Read

\* What the end of a run does, a successful one or another.
LEMMA SucceedDoes ==
  ASSUME IInv, NEW i \in Indexers, Succeed(i), read[i] \in Contents
  PROVE  /\ pc' \in [Indexers -> {"idle", "walk", "recheck", "write", "check",
                                  "seal", "clean", "empty", "remove", "done"}]
         /\ pc'[i] = "done"
         /\ window' \in SUBSET Contents /\ read[i] \in window'
         /\ disk # None => disk \in window'
         /\ owed' \in BOOLEAN
         /\ owed' => disk # None /\ Chunks[disk] > 0 /\ Chunks[read[i]] > 0
         /\ UNCHANGED <<known, marked, read, gen, next>>
<1>1. disk \in Contents \cup {None} /\ read[i] # None
  BY FileStatesAssumption, ChunksAssumption DEF IInv, Shape
<1>2. window' = {read[i], disk} \ {None}
  BY DEF Succeed
<1>3. owed' \in BOOLEAN
      /\ (owed' => disk # None /\ Chunks[disk] > 0 /\ Chunks[read[i]] > 0)
  BY DEF Succeed
<1>4. QED
  BY <1>1, <1>2, <1>3 DEF Succeed, IInv, Shape

LEMMA EndDoes ==
  ASSUME IInv, NEW i \in Indexers, End(i)
  PROVE  /\ pc' \in [Indexers -> {"idle", "walk", "recheck", "write", "check",
                                  "seal", "clean", "empty", "remove", "done"}]
         /\ known' \in [Indexers -> SUBSET Ids]
         /\ marked' \in [Indexers -> SUBSET Generations]
         /\ read' \in [Indexers -> Contents \cup {None}]
         /\ gen' \in [Indexers -> Generations \cup {None}]
         /\ next' \in [Indexers -> Nat]
         /\ pc'[i] = "idle"
         /\ RunInv(i)'
<1>1. /\ pc' \in [Indexers -> {"idle", "walk", "recheck", "write", "check",
                               "seal", "clean", "empty", "remove", "done"}]
      /\ pc'[i] = "idle"
      /\ next' \in [Indexers -> Nat] /\ next'[i] = 0
  BY DEF End, IInv, Shape
<1>2. RunInv(i)'
  BY <1>1 DEF RunInv, Holding, Fresh
<1>3. QED
  BY <1>1, <1>2 DEF End, IInv, Shape

\* A generation that is all there is, and complete.
LEMMA OnlyGeneration ==
  ASSUME IInv, NEW g \in Generations, content[g] \in Contents,
         Chunks[content[g]] > 0, Complete(g, points), g \in sealed,
         \A id \in points : id[1] = g
  PROVE  points = AllChunks(g) /\ sealed = {g}
<1>1. points \subseteq AllChunks(g)
  <2>1. SUFFICES ASSUME NEW id \in points PROVE id \in AllChunks(g)
    OBVIOUS
  <2>2. id \in Ids /\ id[1] = g /\ id[2] < Chunks[content[g]]
    BY <2>1 DEF IInv, Shape, StoreInv
  <2>3. QED
    BY <2>2, ChunkZero
<1>2. AllChunks(g) \subseteq points
  BY DEF Complete
<1>3. \A h \in sealed : h = g
  BY DEF IInv, StoreInv
<1>4. QED
  BY <1>1, <1>2, <1>3

LEMMA RecheckStep ==
  ASSUME OneIndexer, IInv, NEW i \in Indexers, Recheck(i)
  PROVE  IInv'
<1>1. /\ pc[i] = "recheck"
      /\ UNCHANGED <<disk, points, sealed, sealedAt, clock, searchVars, allowed>>
  BY DEF Recheck
<1>2. UNCHANGED <<spc, hit, found, todo, answer>>
  BY <1>1 DEF searchVars
<1>3. RunInv(i)
  BY DEF IInv
<1>4. /\ gen[i] \in Generations /\ read[i] \in Contents /\ Chunks[read[i]] > 0
      /\ content[gen[i]] = read[i] /\ read[i] \in window
      /\ points = known[i] /\ sealed = marked[i] /\ next[i] = 0
  BY <1>1, <1>3 DEF RunInv, Holding
<1>5. CASE Valid(gen[i]) /\ Others(i) = {} /\ Succeed(i) /\ UNCHANGED content
  <2>1. gen[i] \in sealed /\ Complete(gen[i], points)
    BY <1>5 DEF Valid
  <2>2. \A id \in points : id[1] = gen[i]
    BY <1>4, <1>5 DEF Others
  <2>3. points = AllChunks(gen[i]) /\ sealed = {gen[i]}
    BY <1>4, <2>1, <2>2, OnlyGeneration
  <2>4. /\ pc' \in [Indexers -> {"idle", "walk", "recheck", "write", "check",
                                 "seal", "clean", "empty", "remove", "done"}]
        /\ pc'[i] = "done"
        /\ window' \in SUBSET Contents /\ read[i] \in window'
        /\ disk # None => disk \in window'
        /\ owed' \in BOOLEAN
        /\ owed' => disk # None /\ Chunks[disk] > 0 /\ Chunks[read[i]] > 0
        /\ UNCHANGED <<known, marked, read, gen, next>>
    BY <1>4, <1>5, SucceedDoes
  <2>5. Shape'
    BY <1>1, <1>2, <1>5, <2>4 DEF IInv, Shape
  <2>6. StoreInv'
    BY <1>1, <1>5, StoreFrame DEF storeVars
  <2>7. PublishedInv'
    BY <1>1, <1>4, <1>5, <2>3, <2>4 DEF PublishedInv, NewestIn
  <2>8. RunInv(i)'
    <3>1. AllChunks(gen[i])' = AllChunks(gen[i])
      BY <1>5, <2>4 DEF AllChunks
    <3>2. QED
      BY <1>1, <1>4, <1>5, <2>3, <2>4, <3>1 DEF RunInv, Holding, Fresh
  <2>9. ASSUME NEW s \in Searches PROVE SearchInv(s)'
    <3>1. \A j \in Indexers : pc'[j] \notin Holding
      BY <2>4 DEF OneIndexer, Holding
    <3>2. QED
      BY <1>1, <1>2, <1>5, <2>5, <3>1, SearchesKeep
  <2>10. QED
    BY <2>5, <2>6, <2>7, <2>8, <2>9 DEF IInv, OneIndexer
<1>6. CASE /\ Valid(gen[i]) /\ At(i, "clean")
           /\ UNCHANGED <<content, known, marked, read, gen, next>>
  <2>1. pc' = [pc EXCEPT ![i] = "clean"] /\ UNCHANGED <<window, owed>>
    BY <1>6 DEF At
  <2>2. pc'[i] = "clean"
    BY <2>1 DEF IInv, Shape
  <2>3. Shape'
    BY <1>1, <1>2, <1>6, <2>1 DEF IInv, Shape
  <2>4. StoreInv'
    BY <1>1, <1>6, StoreFrame DEF storeVars
  <2>5. PublishedInv'
    BY <1>1, <1>6, <2>1, PublishedFrame
  <2>6. RunInv(i)'
    BY <1>1, <1>4, <1>6, <2>1, <2>2 DEF RunInv, Holding, Fresh, Valid
  <2>7. ASSUME NEW s \in Searches PROVE SearchInv(s)'
    <3>1. SearchInv(s)
      BY DEF IInv
    <3>2. spc[s] = "discover" => \A j \in Indexers : read'[j] \in allowed[s]
      BY <1>1, <1>6, <3>1 DEF SearchInv, OneIndexer, Holding
    <3>3. QED
      BY <1>1, <1>2, <1>6, <2>3, <3>2, SearchesKeep
  <2>8. QED
    BY <2>3, <2>4, <2>5, <2>6, <2>7 DEF IInv, OneIndexer
<1>7. CASE read' = read /\ NewGeneration(i) /\ At(i, "write")
           /\ UNCHANGED <<known, marked, next>>
  <2>1. pc' = [pc EXCEPT ![i] = "write"] /\ UNCHANGED <<window, owed>>
    BY <1>7 DEF At
  <2>2. PICK g \in Generations :
            /\ gen' = [gen EXCEPT ![i] = g]
            /\ content' = [content EXCEPT ![g] = read'[i]]
            /\ content[g] = None /\ sealedAt[g] = 0 /\ g \notin sealed
            /\ \A id \in points : id[1] # g
            /\ content' \in [Generations -> Contents \cup {None}]
            /\ gen' \in [Indexers -> Generations \cup {None}]
            /\ \A h \in Generations : content[h] # None => content'[h] = content[h]
            /\ StoreInv'
    BY <1>1, <1>4, <1>7, NewGenerationIsNew
  <2>3. pc'[i] = "write" /\ gen'[i] = g /\ content'[g] = read[i]
    BY <1>7, <2>1, <2>2 DEF IInv, Shape
  <2>4. Shape'
    BY <1>1, <1>2, <1>7, <2>1, <2>2 DEF IInv, Shape
  <2>5. PublishedInv'
    BY <1>1, <2>1, <2>2, PublishedFrame
  <2>6. RunInv(i)'
    BY <1>1, <1>4, <1>7, <2>1, <2>2, <2>3 DEF RunInv, Holding, Fresh
  <2>7. ASSUME NEW s \in Searches PROVE SearchInv(s)'
    <3>1. SearchInv(s)
      BY DEF IInv
    <3>2. spc[s] = "discover" => \A j \in Indexers : read'[j] \in allowed[s]
      BY <1>1, <1>7, <3>1 DEF SearchInv, OneIndexer, Holding
    <3>3. \A h \in sealed : h \in Generations /\ content'[h] = content[h]
      BY <2>2 DEF IInv, Shape, StoreInv, Complete
    <3>4. spc[s] = "discover" =>
            /\ disk' # None => disk' \in allowed[s]
            /\ \A h \in sealed' :
                  (\A k \in sealed' : sealedAt'[h] >= sealedAt'[k])
                     => content'[h] \in allowed[s]
            /\ \A j \in Indexers : pc'[j] \in Holding => read'[j] \in allowed[s]
      BY <1>1, <3>1, <3>2, <3>3 DEF SearchInv, NewestIn
    <3>5. /\ spc'[s] = spc[s] /\ allowed'[s] = allowed[s]
          /\ found'[s] = found[s] /\ answer'[s] = answer[s]
          /\ \A h \in Generations : sealedAt[h] > 0 => sealedAt'[h] = sealedAt[h]
      BY <1>1, <1>2
    <3>6. QED
      BY <2>2, <2>4, <3>4, <3>5, SearchFrame
  <2>8. QED
    BY <2>2, <2>4, <2>5, <2>6, <2>7 DEF IInv, OneIndexer
<1>8. QED
  BY <1>5, <1>6, <1>7 DEF Recheck

\* A chunk of a generation whose content is known changes no other fact.
LEMMA ChunkAdded ==
  ASSUME IInv, NEW g \in Generations, NEW n \in Nat,
         content[g] \in Contents, n < Chunks[content[g]],
         points' = points \cup {<<g, n>>},
         UNCHANGED <<sealed, content, sealedAt, clock>>
  PROVE  StoreInv' /\ points' \subseteq Ids
<1>1. points' \subseteq Ids
  BY DEF IInv, Shape, Ids
<1>2. \A id \in points' :
         content'[id[1]] \in Contents /\ id[2] < Chunks[content'[id[1]]]
  BY DEF IInv, StoreInv
<1>3. \A h \in sealed : Complete(h, points)'
  BY DEF IInv, StoreInv, Complete, AllChunks
<1>4. QED
  BY <1>1, <1>2, <1>3 DEF IInv, StoreInv

LEMMA WriteChunkStep ==
  ASSUME OneIndexer, IInv, NEW i \in Indexers, WriteChunk(i)
  PROVE  IInv'
<1>1. /\ pc[i] = "write" /\ points' = points \cup {<<gen[i], next[i]>>}
      /\ UNCHANGED <<disk, sealed, content, sealedAt, clock, searchVars, allowed>>
  BY DEF WriteChunk
<1>2. UNCHANGED <<spc, hit, found, todo, answer>>
  BY <1>1 DEF searchVars
<1>3. UNCHANGED <<window, owed>>
  BY DEF WriteChunk, At, Fail
<1>4. RunInv(i)
  BY DEF IInv
<1>5. /\ gen[i] \in Generations /\ next[i] \in Nat
      /\ read[i] \in Contents /\ Chunks[read[i]] \in Nat
      /\ content[gen[i]] = read[i] /\ read[i] \in window
      /\ next[i] < Chunks[read[i]]
  BY <1>1, <1>4, ChunksAssumption DEF RunInv, Holding, IInv, Shape
<1>6. StoreInv' /\ points' \subseteq Ids
  BY <1>1, <1>5, ChunkAdded
<1>7. PublishedInv'
  BY <1>1, <1>3, PublishedFrame
<1>8. ASSUME Shape', RunInv(i)',
             pc'[i] \in Holding => read'[i] = read[i]
      PROVE  IInv'
  <2>1. ASSUME NEW s \in Searches PROVE SearchInv(s)'
    <3>1. SearchInv(s)
      BY DEF IInv
    <3>2. spc[s] = "discover" =>
             \A j \in Indexers : pc'[j] \in Holding => read'[j] \in allowed[s]
      BY <1>1, <1>8, <3>1 DEF SearchInv, OneIndexer, Holding
    <3>3. QED
      BY <1>1, <1>2, <1>8, <3>2, SearchesKeep
  <2>2. QED
    BY <1>6, <1>7, <1>8, <2>1 DEF IInv, OneIndexer
<1>9. CASE /\ next' = [next EXCEPT ![i] = @ + 1]
           /\ At(i, IF LastChunk(i) THEN "check" ELSE "write")
           /\ UNCHANGED <<known, marked, read, gen>>
  <2>1. pc' = [pc EXCEPT ![i] = IF LastChunk(i) THEN "check" ELSE "write"]
    BY <1>9 DEF At
  <2>2. pc'[i] = (IF LastChunk(i) THEN "check" ELSE "write") /\ next'[i] = next[i] + 1
    BY <1>9, <2>1 DEF IInv, Shape
  <2>3. Shape'
    BY <1>1, <1>2, <1>3, <1>6, <1>9, <2>1 DEF IInv, Shape
  <2>4. known[i] \subseteq points' /\ \A id \in points' : id \in known[i] \/ id[1] = gen[i]
    BY <1>1, <1>4 DEF RunInv, Fresh
  <2>5. gen[i] \notin sealed /\ sealedAt[gen[i]] = 0
    BY <1>1, <1>4 DEF RunInv, Fresh
  <2>6. pc'[i] = "write" => next'[i] < Chunks[read[i]]
    BY <1>5, <2>2 DEF LastChunk
  <2>7. RunInv(i)'
    BY <1>1, <1>3, <1>5, <1>9, <2>2, <2>4, <2>5, <2>6 DEF RunInv, Holding, Fresh
  <2>8. QED
    BY <1>8, <1>9, <2>3, <2>7
<1>10. CASE Fail(i)
  <2>1. End(i)
    BY <1>10 DEF Fail
  <2>2. Shape' /\ RunInv(i)' /\ pc'[i] = "idle"
    BY <1>1, <1>2, <1>3, <1>6, <2>1, EndDoes DEF IInv, Shape
  <2>3. QED
    BY <1>8, <2>2 DEF Holding
<1>11. QED
  BY <1>9, <1>10 DEF WriteChunk

LEMMA CheckStep ==
  ASSUME OneIndexer, IInv, NEW i \in Indexers, Check(i)
  PROVE  IInv'
<1>1. /\ pc[i] = "check" /\ Complete(gen[i], points)
      /\ clock' = clock + 1
      /\ sealedAt' = [sealedAt EXCEPT ![gen[i]] = clock + 1]
      /\ pc' = [pc EXCEPT ![i] = "seal"]
      /\ UNCHANGED <<disk, points, sealed, content, known, marked, read, gen,
                     next, searchVars, allowed, window, owed>>
  BY DEF Check, At
<1>2. UNCHANGED <<spc, hit, found, todo, answer>>
  BY <1>1 DEF searchVars
<1>3. RunInv(i)
  BY DEF IInv
<1>4. /\ gen[i] \in Generations /\ read[i] \in Contents /\ Chunks[read[i]] > 0
      /\ content[gen[i]] = read[i] /\ read[i] \in window
      /\ gen[i] \notin sealed /\ sealedAt[gen[i]] = 0
      /\ known[i] \subseteq points
      /\ \A id \in points : id \in known[i] \/ id[1] = gen[i]
  BY <1>1, <1>3 DEF RunInv, Holding, Fresh
<1>5. /\ sealedAt'[gen[i]] = clock + 1
      /\ \A g \in Generations : g # gen[i] => sealedAt'[g] = sealedAt[g]
      /\ pc'[i] = "seal" /\ clock \in Nat
  BY <1>1, <1>4 DEF IInv, Shape
<1>6. \A g \in sealed : g \in Generations /\ sealedAt'[g] = sealedAt[g]
                        /\ sealedAt[g] \in Nat
                        /\ 0 < sealedAt[g] /\ sealedAt[g] <= clock
  BY <1>4, <1>5 DEF IInv, Shape, StoreInv
<1>7. Shape'
  BY <1>1, <1>2, <1>4 DEF IInv, Shape
<1>8. StoreInv'
  <2>1. \A g \in sealed : Complete(g, points)'
    BY <1>1 DEF IInv, StoreInv, Complete, AllChunks
  <2>2. \A g \in Generations : content'[g] = None => sealedAt'[g] = 0
    BY <1>1, <1>4, <1>5, ChunksAssumption DEF IInv, StoreInv
  <2>3. \A g \in Generations : sealedAt'[g] <= clock'
    <3>1. \A g \in Generations : sealedAt[g] \in Nat /\ sealedAt[g] <= clock
      BY DEF IInv, Shape, StoreInv
    <3>2. QED
      BY <1>1, <1>5, <3>1
  <2>4. QED
    BY <1>1, <1>6, <2>1, <2>2, <2>3 DEF IInv, StoreInv
<1>9. PublishedInv'
  BY <1>1, <1>6 DEF IInv, PublishedInv, NewestIn
<1>10. RunInv(i)'
  <2>1. Complete(gen[i], points)'
    BY <1>1 DEF Complete, AllChunks
  <2>2. \A g \in sealed' : sealedAt'[g] < clock'
    BY <1>1, <1>5, <1>6
  <2>3. QED
    BY <1>1, <1>4, <1>5, <2>1, <2>2 DEF RunInv, Holding, Fresh
<1>11. ASSUME NEW s \in Searches PROVE SearchInv(s)'
  <2>1. SearchInv(s)
    BY DEF IInv
  <2>2. spc[s] = "discover" => \A j \in Indexers : read'[j] \in allowed[s]
    BY <1>1, <2>1 DEF SearchInv, OneIndexer, Holding
  <2>3. spc[s] = "discover" =>
            /\ disk' # None => disk' \in allowed[s]
            /\ \A h \in sealed' :
                  (\A k \in sealed' : sealedAt'[h] >= sealedAt'[k])
                     => content'[h] \in allowed[s]
            /\ \A j \in Indexers : pc'[j] \in Holding => read'[j] \in allowed[s]
    BY <1>1, <1>6, <2>1, <2>2 DEF SearchInv, NewestIn
  <2>4. \A h \in Generations : sealedAt[h] > 0 => sealedAt'[h] = sealedAt[h]
    BY <1>4, <1>5
  <2>5. /\ spc'[s] = spc[s] /\ allowed'[s] = allowed[s]
        /\ found'[s] = found[s] /\ answer'[s] = answer[s]
        /\ \A h \in Generations : content[h] # None => content'[h] = content[h]
    BY <1>1, <1>2
  <2>6. QED
    BY <1>7, <2>3, <2>4, <2>5, SearchFrame
<1>12. QED
  BY <1>7, <1>8, <1>9, <1>10, <1>11 DEF IInv, OneIndexer

\* The seal is the publication: the newest generation is of what was read.
LEMMA SealStep ==
  ASSUME OneIndexer, IInv, NEW i \in Indexers, Seal(i)
  PROVE  IInv'
<1>1. /\ pc[i] = "seal"
      /\ points' = points \cup {<<gen[i], 0>>}
      /\ sealed' = sealed \cup {gen[i]}
      /\ UNCHANGED <<disk, content, sealedAt, clock, searchVars, allowed>>
  BY DEF Seal, PutSeal
<1>2. UNCHANGED <<spc, hit, found, todo, answer>>
  BY <1>1 DEF searchVars
<1>3. RunInv(i)
  BY DEF IInv
<1>4. /\ gen[i] \in Generations /\ read[i] \in Contents /\ Chunks[read[i]] > 0
      /\ content[gen[i]] = read[i] /\ read[i] \in window
      /\ Complete(gen[i], points)
      /\ 0 < sealedAt[gen[i]] /\ sealedAt[gen[i]] = clock
      /\ \A g \in sealed : sealedAt[g] < clock
      /\ known[i] \subseteq points
      /\ \A id \in points : id \in known[i] \/ id[1] = gen[i]
  BY <1>1, <1>3 DEF RunInv, Holding, Fresh
<1>5. points' = points
  BY <1>1, <1>4, ChunkZero DEF Complete
<1>6. StoreInv'
  <2>1. \A g \in sealed' : Complete(g, points)'
    BY <1>1, <1>4, <1>5 DEF IInv, StoreInv, Complete, AllChunks
  <2>2. <<gen[i], 0>> \in points
    BY <1>1, <1>5
  <2>3. QED
    BY <1>1, <1>4, <1>5, <2>1, <2>2 DEF IInv, StoreInv
\* The new generation is the newest.
<1>7. ASSUME NEW C, read[i] \in C
      PROVE  \A g \in sealed' :
                (\A h \in sealed' : sealedAt'[g] >= sealedAt'[h]) => content'[g] \in C
  <2>1. SUFFICES ASSUME NEW g \in sealed, sealedAt[g] >= sealedAt[gen[i]] PROVE FALSE
    BY <1>1, <1>4, <1>7
  <2>2. sealedAt[g] \in Nat /\ clock \in Nat /\ sealedAt[g] < clock
    BY <1>4 DEF IInv, Shape
  <2>3. QED
    BY <1>4, <2>1, <2>2
<1>8. ASSUME Shape', RunInv(i)', read[i] \in window', disk # None => disk \in window',
             owed' => disk # None /\ Chunks[disk] > 0,
             pc'[i] \in Holding => read'[i] = read[i]
      PROVE  IInv'
  <2>1. NewestIn(sealed, window)'
    BY <1>7, <1>8 DEF NewestIn
  <2>2. PublishedInv'
    BY <1>1, <1>8, <2>1 DEF PublishedInv
  <2>3. ASSUME NEW s \in Searches PROVE SearchInv(s)'
    <3>1. SearchInv(s)
      BY DEF IInv
    <3>2. spc[s] = "discover" => read[i] \in allowed[s]
      BY <1>1, <3>1 DEF SearchInv, Holding
    <3>3. spc[s] = "discover" =>
            /\ disk' # None => disk' \in allowed[s]
            /\ \A h \in sealed' :
                  (\A k \in sealed' : sealedAt'[h] >= sealedAt'[k])
                     => content'[h] \in allowed[s]
            /\ \A j \in Indexers : pc'[j] \in Holding => read'[j] \in allowed[s]
      BY <1>1, <1>7, <1>8, <3>1, <3>2 DEF SearchInv, OneIndexer
    <3>4. /\ spc'[s] = spc[s] /\ allowed'[s] = allowed[s]
          /\ found'[s] = found[s] /\ answer'[s] = answer[s]
          /\ \A h \in Generations : content[h] # None => content'[h] = content[h]
          /\ \A h \in Generations : sealedAt[h] > 0 => sealedAt'[h] = sealedAt[h]
      BY <1>1, <1>2
    <3>5. QED
      BY <1>8, <3>3, <3>4, SearchFrame
  <2>4. QED
    BY <1>6, <1>8, <2>2, <2>3 DEF IInv, OneIndexer
<1>9. CASE Others(i) = {} /\ Succeed(i)
  <2>1. /\ pc' \in [Indexers -> {"idle", "walk", "recheck", "write", "check",
                                 "seal", "clean", "empty", "remove", "done"}]
        /\ pc'[i] = "done"
        /\ window' \in SUBSET Contents /\ read[i] \in window'
        /\ disk # None => disk \in window'
        /\ owed' \in BOOLEAN
        /\ owed' => disk # None /\ Chunks[disk] > 0 /\ Chunks[read[i]] > 0
        /\ UNCHANGED <<known, marked, read, gen, next>>
    BY <1>4, <1>9, SucceedDoes
  <2>2. \A id \in points : id[1] = gen[i]
    BY <1>4, <1>9 DEF Others
  <2>3. points \subseteq AllChunks(gen[i])
    <3>1. SUFFICES ASSUME NEW id \in points PROVE id \in AllChunks(gen[i])
      OBVIOUS
    <3>2. id \in Ids /\ id[1] = gen[i] /\ id[2] < Chunks[content[gen[i]]]
      BY <2>2, <3>1 DEF IInv, Shape, StoreInv
    <3>3. QED
      BY <1>4, <3>2, ChunkZero
  <2>4. points' = AllChunks(gen[i])'
    BY <1>1, <1>4, <1>5, <2>1, <2>3 DEF Complete, AllChunks
  <2>5. sealed' = {gen[i]}
    BY <1>1, <2>2 DEF IInv, StoreInv
  <2>6. RunInv(i)'
    BY <1>1, <1>4, <2>1, <2>4, <2>5 DEF RunInv, Holding, Fresh
  <2>7. Shape'
    BY <1>1, <1>2, <1>4, <1>5, <2>1 DEF IInv, Shape
  <2>8. QED
    BY <1>8, <2>1, <2>6, <2>7
<1>10. ASSUME window' = {read[i], disk} \ {None}, UNCHANGED owed
       PROVE  /\ window' \in SUBSET Contents /\ read[i] \in window'
              /\ disk # None => disk \in window'
              /\ owed' \in BOOLEAN
              /\ owed' => disk # None /\ Chunks[disk] > 0
  <2>1. disk \in Contents \cup {None} /\ read[i] # None
    BY <1>4, FileStatesAssumption, ChunksAssumption DEF IInv, Shape
  <2>2. QED
    BY <1>4, <1>10, <2>1 DEF IInv, Shape, PublishedInv
<1>11. CASE /\ pc' = [pc EXCEPT ![i] = "clean"]
            /\ window' = {read[i], disk} \ {None}
            /\ UNCHANGED <<owed, known, marked, read, gen, next>>
  <2>1. pc'[i] = "clean"
    BY <1>11 DEF IInv, Shape
  <2>2. RunInv(i)'
    BY <1>1, <1>4, <1>5, <1>10, <1>11, <2>1 DEF RunInv, Holding, Fresh
  <2>3. Shape'
    BY <1>1, <1>2, <1>4, <1>5, <1>10, <1>11 DEF IInv, Shape
  <2>4. QED
    BY <1>8, <1>10, <1>11, <2>2, <2>3
<1>12. CASE End(i) /\ window' = {read[i], disk} \ {None} /\ UNCHANGED owed
  <2>1. Shape' /\ RunInv(i)' /\ pc'[i] = "idle"
    BY <1>1, <1>2, <1>4, <1>5, <1>10, <1>12, EndDoes DEF IInv, Shape
  <2>2. QED
    BY <1>8, <1>10, <1>12, <2>1 DEF Holding
<1>13. QED
  BY <1>9, <1>11, <1>12 DEF Seal

\* A removal leaves the store sound if it takes generations as a whole.
LEMMA RemoveKeeps ==
  ASSUME IInv, NEW ids, Remove(ids), UNCHANGED <<content, sealedAt, clock>>,
         \A g \in sealed : <<g, 0>> \notin ids => \A id \in ids : id[1] # g
  PROVE  /\ StoreInv' /\ points' \subseteq Ids /\ sealed' \subseteq sealed
         /\ \A g \in sealed : g \in sealed' <=> <<g, 0>> \notin ids
<1>1. points' = points \ ids /\ sealed' = {g \in sealed : <<g, 0>> \notin ids}
  BY DEF Remove
<1>2. ASSUME NEW g \in sealed' PROVE Complete(g, points)'
  <2>1. g \in sealed /\ Complete(g, points) /\ \A id \in ids : id[1] # g
    BY <1>1, <1>2 DEF IInv, StoreInv
  <2>2. \A id \in AllChunks(g) : id[1] = g
    BY DEF AllChunks
  <2>3. AllChunks(g)' = AllChunks(g)
    BY DEF AllChunks
  <2>4. QED
    BY <1>1, <2>1, <2>2, <2>3 DEF Complete
<1>3. StoreInv'
  BY <1>1, <1>2 DEF IInv, StoreInv
<1>4. QED
  BY <1>1, <1>3 DEF IInv, Shape

\* After a removal what searches may find is sealed of an allowed content.
LEMMA SearchesAfterRemoval ==
  ASSUME OneIndexer, IInv, Shape', NEW i \in Indexers, pc'[i] \notin Holding,
         UNCHANGED <<disk, content, sealedAt, spc, found, answer, allowed>>,
         NEW s \in Searches,
         spc[s] = "discover" => \A g \in sealed' : content[g] \in allowed[s]
  PROVE  SearchInv(s)'
<1>1. SearchInv(s)
  BY DEF IInv
<1>2. \A j \in Indexers : pc'[j] \notin Holding
  BY DEF OneIndexer
<1>3. QED
  BY <1>1, <1>2 DEF SearchInv, NewestIn

LEMMA CleanStep ==
  ASSUME OneIndexer, IInv, NEW i \in Indexers, Clean(i)
  PROVE  IInv'
<1>1. /\ pc[i] = "clean" /\ Remove(Others(i))
      /\ UNCHANGED <<disk, content, sealedAt, clock, searchVars, allowed>>
  BY DEF Clean
<1>2. UNCHANGED <<spc, hit, found, todo, answer>>
  BY <1>1 DEF searchVars
<1>3. RunInv(i)
  BY DEF IInv
<1>4. /\ gen[i] \in Generations /\ read[i] \in Contents /\ Chunks[read[i]] > 0
      /\ content[gen[i]] = read[i] /\ read[i] \in window
      /\ \A id \in points : id \in known[i] \/ id[1] = gen[i]
      /\ gen[i] \in sealed
  BY <1>1, <1>3 DEF RunInv, Holding, Fresh
<1>5. ASSUME NEW g \in sealed PROVE <<g, 0>> \in Others(i) <=> g # gen[i]
  BY <1>4 DEF IInv, StoreInv, Others
<1>6. /\ StoreInv' /\ points' \subseteq Ids
      /\ \A g \in sealed : g \in sealed' <=> <<g, 0>> \notin Others(i)
      /\ sealed' \subseteq sealed
  <2>1. \A g \in sealed : <<g, 0>> \notin Others(i) => \A id \in Others(i) : id[1] # g
    BY <1>5 DEF Others
  <2>2. QED
    BY <1>1, <2>1, RemoveKeeps
<1>7. sealed' = {gen[i]}
  BY <1>4, <1>5, <1>6
<1>8. points' = AllChunks(gen[i])
  <2>1. points' = points \ Others(i)
    BY <1>1 DEF Remove
  <2>2. points' \subseteq AllChunks(gen[i])
    <3>1. SUFFICES ASSUME NEW id \in points' PROVE id \in AllChunks(gen[i])
      OBVIOUS
    <3>2. id \in points /\ id[1] = gen[i]
      BY <1>4, <2>1, <3>1 DEF Others
    <3>3. id \in Ids /\ id[2] < Chunks[content[gen[i]]]
      BY <3>2 DEF IInv, Shape, StoreInv
    <3>4. QED
      BY <1>4, <3>2, <3>3, ChunkZero
  <2>4. AllChunks(gen[i]) \subseteq points'
    <3>1. \A id \in AllChunks(gen[i]) : id \in points /\ id[1] = gen[i]
      BY <1>4, ChunkZero DEF IInv, StoreInv, Complete
    <3>2. QED
      BY <2>1, <3>1 DEF Others
  <2>5. QED
    BY <2>2, <2>4
<1>9. ASSUME Shape', RunInv(i)', pc'[i] \notin Holding, read[i] \in window',
             disk # None => disk \in window',
             owed' => disk # None /\ Chunks[disk] > 0
      PROVE  IInv'
  <2>1. PublishedInv'
    BY <1>1, <1>4, <1>7, <1>9 DEF PublishedInv, NewestIn
  <2>2. ASSUME NEW s \in Searches PROVE SearchInv(s)'
    <3>1. SearchInv(s)
      BY DEF IInv
    <3>2. spc[s] = "discover" => \A g \in sealed' : content[g] \in allowed[s]
      BY <1>1, <1>4, <1>7, <3>1 DEF SearchInv, Holding
    <3>3. QED
      BY <1>1, <1>2, <1>9, <3>2, SearchesAfterRemoval
  <2>3. QED
    BY <1>6, <1>9, <2>1, <2>2 DEF IInv, OneIndexer
<1>10. CASE Succeed(i)
  <2>1. /\ pc' \in [Indexers -> {"idle", "walk", "recheck", "write", "check",
                                 "seal", "clean", "empty", "remove", "done"}]
        /\ pc'[i] = "done"
        /\ window' \in SUBSET Contents /\ read[i] \in window'
        /\ disk # None => disk \in window'
        /\ owed' \in BOOLEAN
        /\ owed' => disk # None /\ Chunks[disk] > 0 /\ Chunks[read[i]] > 0
        /\ UNCHANGED <<known, marked, read, gen, next>>
    BY <1>4, <1>10, SucceedDoes
  <2>2. AllChunks(gen[i])' = AllChunks(gen[i])
    BY <1>1, <2>1 DEF AllChunks
  <2>3. RunInv(i)'
    BY <1>1, <1>4, <1>7, <1>8, <2>1, <2>2 DEF RunInv, Holding, Fresh
  <2>4. Shape'
    BY <1>1, <1>2, <1>6, <2>1 DEF IInv, Shape
  <2>5. QED
    BY <1>9, <2>1, <2>3, <2>4 DEF Holding
<1>11. CASE Fail(i)
  <2>1. End(i) /\ UNCHANGED <<window, owed>>
    BY <1>11 DEF Fail
  <2>2. Shape' /\ RunInv(i)' /\ pc'[i] = "idle"
    BY <1>1, <1>2, <1>6, <2>1, EndDoes DEF IInv, Shape
  <2>3. QED
    BY <1>4, <1>9, <2>1, <2>2 DEF Holding, IInv, PublishedInv
<1>12. QED
  BY <1>10, <1>11 DEF Clean

\* Everything is removed: an emptied or removed document is owed to nobody.
LEMMA EverythingRemoved ==
  ASSUME OneIndexer, IInv, NEW i \in Indexers, Remove(points),
         UNCHANGED <<disk, content, sealedAt, clock, searchVars, allowed>>,
         Shape', RunInv(i)', pc'[i] \notin Holding, ~owed',
         disk # None => disk \in window'
  PROVE  IInv'
<1>1. UNCHANGED <<spc, found, answer>>
  BY DEF searchVars
<1>2. points' = {} /\ sealed' = {}
  BY DEF Remove, IInv, StoreInv
<1>3. StoreInv'
  BY <1>2 DEF IInv, StoreInv
<1>4. PublishedInv'
  BY <1>2 DEF PublishedInv, NewestIn
<1>5. \A s \in Searches : SearchInv(s)'
  BY <1>1, <1>2, SearchesAfterRemoval
<1>6. QED
  BY <1>3, <1>4, <1>5 DEF IInv, OneIndexer

LEMMA RemoveEmptyStep ==
  ASSUME OneIndexer, IInv, NEW i \in Indexers, RemoveEmpty(i)
  PROVE  IInv'
<1>1. /\ pc[i] = "empty" /\ Remove(known[i])
      /\ UNCHANGED <<disk, content, sealedAt, clock, searchVars, allowed>>
  BY DEF RemoveEmpty
<1>2. UNCHANGED <<spc, hit, found, todo, answer>>
  BY <1>1 DEF searchVars
<1>3. /\ points = known[i] /\ read[i] \in Contents /\ Chunks[read[i]] = 0 /\ ~owed
  BY <1>1 DEF IInv, RunInv
<1>4. Remove(points) /\ points' = {} /\ sealed' = {}
  BY <1>1, <1>3 DEF Remove, IInv, StoreInv
<1>5. CASE Succeed(i)
  <2>1. /\ pc' \in [Indexers -> {"idle", "walk", "recheck", "write", "check",
                                 "seal", "clean", "empty", "remove", "done"}]
        /\ pc'[i] = "done"
        /\ window' \in SUBSET Contents /\ read[i] \in window'
        /\ disk # None => disk \in window'
        /\ owed' \in BOOLEAN
        /\ owed' => disk # None /\ Chunks[disk] > 0 /\ Chunks[read[i]] > 0
        /\ UNCHANGED <<known, marked, read, gen, next>>
    BY <1>3, <1>5, SucceedDoes
  <2>2. ~owed'
    BY <1>3, <2>1
  <2>3. RunInv(i)'
    BY <1>3, <2>1 DEF RunInv, Holding, Fresh
  <2>4. Shape'
    BY <1>1, <1>2, <1>4, <2>1 DEF IInv, Shape
  <2>5. QED
    BY <1>1, <1>4, <2>1, <2>2, <2>3, <2>4, EverythingRemoved DEF Holding
<1>6. CASE Fail(i)
  <2>1. End(i) /\ UNCHANGED <<window, owed>>
    BY <1>6 DEF Fail
  <2>2. Shape' /\ RunInv(i)' /\ pc'[i] = "idle"
    BY <1>1, <1>2, <1>4, <2>1, EndDoes DEF IInv, Shape
  <2>3. disk # None => disk \in window'
    BY <2>1 DEF IInv, PublishedInv
  <2>4. QED
    BY <1>1, <1>3, <1>4, <2>1, <2>2, <2>3, EverythingRemoved DEF Holding
<1>7. QED
  BY <1>5, <1>6 DEF RemoveEmpty

LEMMA RemoveMissingStep ==
  ASSUME OneIndexer, IInv, NEW i \in Indexers, RemoveMissing(i)
  PROVE  IInv'
<1>1. /\ pc[i] = "remove" /\ Remove(points) /\ End(i)
      /\ UNCHANGED <<disk, content, sealedAt, clock, searchVars, allowed, window, owed>>
  BY DEF RemoveMissing, Fail
<1>2. UNCHANGED <<spc, hit, found, todo, answer>>
  BY <1>1 DEF searchVars
<1>3. ~owed
  BY <1>1 DEF IInv, RunInv
<1>4. points' = {} /\ sealed' = {}
  BY <1>1 DEF Remove, IInv, StoreInv
<1>5. Shape' /\ RunInv(i)' /\ pc'[i] = "idle"
  BY <1>1, <1>2, <1>4, EndDoes DEF IInv, Shape
<1>6. disk # None => disk \in window'
  BY <1>1 DEF IInv, PublishedInv
<1>7. QED
  BY <1>1, <1>3, <1>5, <1>6, EverythingRemoved DEF Holding

LEMMA MissedStep ==
  ASSUME OneIndexer, IInv, NEW i \in Indexers, Missed(i)
  PROVE  IInv'
<1>1. /\ pc[i] = "walk" /\ disk = None
      /\ pc' = [pc EXCEPT ![i] = "remove"]
      /\ UNCHANGED <<disk, storeVars, known, marked, read, gen, next, searchVars,
                     allowed, window, owed>>
  BY DEF Missed, At
<1>2. UNCHANGED <<points, sealed, content, sealedAt, clock, spc, hit, found, todo, answer>>
  BY <1>1 DEF storeVars, searchVars
<1>3. Shape'
  BY <1>1, <1>2 DEF IInv, Shape
<1>4. StoreInv'
  BY <1>1, StoreFrame
<1>5. PublishedInv'
  BY <1>1, <1>2, PublishedFrame
<1>6. RunInv(i)'
  <2>1. ~owed /\ pc'[i] = "remove"
    BY <1>1 DEF IInv, Shape, PublishedInv
  <2>2. QED
    BY <1>1, <2>1 DEF RunInv, Holding, Fresh
<1>7. ASSUME NEW s \in Searches PROVE SearchInv(s)'
  <2>1. \A j \in Indexers : pc'[j] \notin Holding
    BY <1>1 DEF OneIndexer, IInv, Shape, Holding
  <2>2. QED
    BY <1>1, <1>2, <1>3, <2>1, SearchesKeep
<1>8. QED
  BY <1>3, <1>4, <1>5, <1>6, <1>7 DEF IInv, OneIndexer

LEMMA StopStep ==
  ASSUME OneIndexer, IInv, NEW i \in Indexers, Stop(i)
  PROVE  IInv'
<1>1. /\ End(i)
      /\ UNCHANGED <<disk, storeVars, searchVars, allowed, window, owed>>
  BY DEF Stop, Fail
<1>2. UNCHANGED <<points, sealed, content, sealedAt, clock, spc, hit, found, todo, answer>>
  BY <1>1 DEF storeVars, searchVars
<1>3. Shape' /\ RunInv(i)' /\ pc'[i] = "idle"
  BY <1>1, <1>2, EndDoes DEF IInv, Shape
<1>4. StoreInv'
  BY <1>1, StoreFrame
<1>5. PublishedInv'
  BY <1>1, <1>2, PublishedFrame
<1>6. ASSUME NEW s \in Searches PROVE SearchInv(s)'
  <2>1. \A j \in Indexers : pc'[j] \notin Holding
    BY <1>3 DEF OneIndexer, Holding
  <2>2. QED
    BY <1>1, <1>2, <1>3, <2>1, SearchesKeep
<1>7. QED
  BY <1>3, <1>4, <1>5, <1>6 DEF IInv, OneIndexer

\* A search changes nothing that is stored.
LEMMA SearchFrames ==
  ASSUME IInv, UNCHANGED <<disk, storeVars, indexerVars, window, owed>>
  PROVE  /\ StoreInv' /\ PublishedInv' /\ \A i \in Indexers : RunInv(i)'
         /\ UNCHANGED <<points, sealed, content, sealedAt, clock, pc, known,
                        marked, read, gen, next>>
<1>1. UNCHANGED <<points, sealed, content, sealedAt, clock, pc, known, marked,
                  read, gen, next>>
  BY DEF storeVars, indexerVars
<1>2. StoreInv' /\ PublishedInv'
  BY <1>1, StoreFrame, PublishedFrame
<1>3. \A i \in Indexers : RunInv(i)'
  BY <1>1 DEF IInv, RunInv, Complete, AllChunks
<1>4. QED
  BY <1>1, <1>2, <1>3

\* Another search stays as it was.
LEMMA OtherSearch ==
  ASSUME IInv, UNCHANGED <<disk, sealed, content, sealedAt, pc, read>>,
         NEW s \in Searches,
         spc'[s] = spc[s], allowed'[s] = allowed[s], found'[s] = found[s],
         answer'[s] = answer[s]
  PROVE  SearchInv(s)'
BY DEF IInv, SearchInv, NewestIn

LEMMA SearchStepKeeps ==
  ASSUME IInv, NEW s \in Searches, SearchStep(s)
  PROVE  IInv'
<1>1. UNCHANGED <<disk, storeVars, indexerVars, window, owed>>
  BY DEF SearchStep, Search, Discover, Validate, Answer
<1>2. /\ StoreInv' /\ PublishedInv' /\ \A i \in Indexers : RunInv(i)'
      /\ UNCHANGED <<points, sealed, content, sealedAt, clock, pc, known,
                     marked, read, gen, next>>
  BY <1>1, SearchFrames
<1>3. SearchInv(s)
  BY DEF IInv
<1>4. ASSUME Shape', SearchInv(s)',
             \A t \in Searches : t # s =>
                /\ spc'[t] = spc[t] /\ allowed'[t] = allowed[t]
                /\ found'[t] = found[t] /\ answer'[t] = answer[t]
      PROVE  IInv'
  <2>1. ASSUME NEW t \in Searches PROVE SearchInv(t)'
    BY <1>1, <1>2, <1>4, OtherSearch
  <2>2. QED
    BY <1>2, <1>4, <2>1 DEF IInv
<1>5. CASE Search(s)
  <2>1. /\ allowed' = [allowed EXCEPT ![s] = window]
        /\ UNCHANGED <<found, todo, answer>>
        /\ \/ /\ \E id \in points : hit' = [hit EXCEPT ![s] = id]
              /\ spc' = [spc EXCEPT ![s] = "discover"]
           \/ /\ spc' = [spc EXCEPT ![s] = "nothing"]
              /\ UNCHANGED hit
    BY <1>5 DEF Search, GotoS
  <2>2. Shape'
    BY <1>1, <1>2, <2>1 DEF IInv, Shape
  <2>3. allowed'[s] = window /\ spc'[s] \in {"discover", "nothing"}
    BY <2>1 DEF IInv, Shape
  <2>4. SearchInv(s)'
    <3>1. /\ disk # None => disk \in window
          /\ NewestIn(sealed, window)
          /\ \A i \in Indexers : pc[i] \in Holding => read[i] \in window
      BY DEF IInv, PublishedInv, RunInv
    <3>2. NewestIn(sealed, allowed[s])'
      BY <1>2, <2>3, <3>1 DEF NewestIn
    <3>3. QED
      BY <1>1, <1>2, <2>3, <3>1, <3>2 DEF SearchInv
  <2>5. QED
    BY <1>4, <2>1, <2>2, <2>4 DEF IInv, Shape
<1>6. CASE Discover(s)
  <2>1. /\ spc[s] = "discover" /\ spc' = [spc EXCEPT ![s] = "validate"]
        /\ found' = [found EXCEPT ![s] = sealed]
        /\ todo' = [todo EXCEPT ![s] = sealed]
        /\ UNCHANGED <<hit, answer, allowed>>
    BY <1>6 DEF Discover, GotoS
  <2>2. Shape'
    BY <1>1, <1>2, <2>1 DEF IInv, Shape
  <2>3. found'[s] = sealed /\ spc'[s] = "validate"
    BY <2>1 DEF IInv, Shape
  <2>4. SearchInv(s)'
    <3>1. \A g \in sealed : content[g] # None /\ sealedAt[g] > 0
      BY DEF IInv, Shape, StoreInv, Complete
    <3>2. NewestIn(sealed, allowed[s])
      BY <1>3, <2>1 DEF SearchInv
    <3>3. NewestIn(found[s], allowed[s])'
      BY <1>2, <2>1, <2>3, <3>2 DEF NewestIn
    <3>4. QED
      BY <1>2, <2>3, <3>1, <3>3 DEF SearchInv
  <2>5. QED
    BY <1>4, <2>1, <2>2, <2>4 DEF IInv, Shape
<1>7. CASE Validate(s)
  <2>1. spc[s] = "validate" /\ UNCHANGED <<answer, allowed>>
    BY <1>7 DEF Validate
  <2>2. CASE /\ \E g \in todo[s] : todo' = [todo EXCEPT ![s] = @ \ {g}]
             /\ UNCHANGED <<spc, hit, found>>
    <3>1. Shape'
      BY <1>1, <1>2, <2>1, <2>2 DEF IInv, Shape
    <3>2. SearchInv(s)'
      BY <1>1, <1>2, <2>1, <2>2, OtherSearch
    <3>3. QED
      BY <1>4, <2>1, <2>2, <3>1, <3>2
  <2>3. CASE Respond(s, "incomplete")
    <3>1. /\ spc' = [spc EXCEPT ![s] = "incomplete"]
          /\ hit' = [hit EXCEPT ![s] = None]
          /\ found' = [found EXCEPT ![s] = {}]
          /\ todo' = [todo EXCEPT ![s] = {}]
      BY <2>3 DEF Respond, GotoS
    <3>2. Shape'
      BY <1>1, <1>2, <2>1, <3>1 DEF IInv, Shape
    <3>3. spc'[s] = "incomplete"
      BY <3>1 DEF IInv, Shape
    <3>4. SearchInv(s)'
      BY <3>3 DEF SearchInv
    <3>5. QED
      BY <1>4, <2>1, <3>1, <3>2, <3>4 DEF IInv, Shape
  <2>4. QED
    BY <1>7, <2>2, <2>3 DEF Validate
<1>8. CASE Answer(s)
  <2>1. spc[s] = "validate" /\ UNCHANGED allowed
    BY <1>8 DEF Answer
  <2>2. CASE /\ Selected(s)
             /\ answer' = [answer EXCEPT ![s] = hit[s][1]]
             /\ Respond(s, "answered")
    <3>1. /\ spc' = [spc EXCEPT ![s] = "answered"]
          /\ hit' = [hit EXCEPT ![s] = None]
          /\ found' = [found EXCEPT ![s] = {}]
          /\ todo' = [todo EXCEPT ![s] = {}]
      BY <2>2 DEF Respond, GotoS
    <3> DEFINE g == NewestSeal(found[s])
    <3>2. found[s] # {} /\ hit[s][1] = g
      BY <2>2 DEF Selected
    <3>3. \A h \in found[s] : sealedAt[h] \in 0 .. clock
      BY DEF IInv, Shape, StoreInv
    <3>4. g \in found[s] /\ \A h \in found[s] : sealedAt[g] >= sealedAt[h]
      BY <3>2, <3>3, NewestSealIsNewest DEF IInv, Shape
    <3>5. g \in Generations /\ content[g] \in allowed[s]
      BY <1>3, <2>1, <3>4 DEF SearchInv, NewestIn, IInv, Shape
    <3>6. Shape'
      BY <1>1, <1>2, <2>1, <2>2, <3>1, <3>2, <3>5 DEF IInv, Shape
    <3>7. spc'[s] = "answered" /\ answer'[s] = g
      BY <2>2, <3>1, <3>2 DEF IInv, Shape
    <3>8. SearchInv(s)'
      BY <1>2, <2>1, <3>5, <3>7 DEF SearchInv
    <3>9. QED
      BY <1>4, <2>1, <2>2, <3>1, <3>6, <3>8 DEF IInv, Shape
  <2>3. CASE /\ ~Selected(s)
             /\ Respond(s, IF found[s] = {} THEN "incomplete" ELSE "stale")
             /\ UNCHANGED answer
    <3>1. PICK st \in {"incomplete", "stale"} : Respond(s, st)
      BY <2>3
    <3>2. /\ spc' = [spc EXCEPT ![s] = st]
          /\ hit' = [hit EXCEPT ![s] = None]
          /\ found' = [found EXCEPT ![s] = {}]
          /\ todo' = [todo EXCEPT ![s] = {}]
      BY <3>1 DEF Respond, GotoS
    <3>3. Shape'
      BY <1>1, <1>2, <2>1, <2>3, <3>2 DEF IInv, Shape
    <3>4. spc'[s] \in {"incomplete", "stale"}
      BY <3>2 DEF IInv, Shape
    <3>5. SearchInv(s)'
      BY <3>4 DEF SearchInv
    <3>6. QED
      BY <1>4, <2>1, <2>3, <3>2, <3>3, <3>5 DEF IInv, Shape
  <2>4. QED
    BY <1>8, <2>2, <2>3 DEF Answer
<1>9. QED
  BY <1>5, <1>6, <1>7, <1>8 DEF SearchStep

LEMMA StutterStep ==
  ASSUME IInv, UNCHANGED vars
  PROVE  IInv'
<1>1. UNCHANGED <<disk, storeVars, indexerVars, searchVars, window, allowed, owed>>
  BY DEF vars, storeVars, indexerVars, searchVars
<1>2. StoreInv' /\ PublishedInv' /\ \A i \in Indexers : RunInv(i)'
  BY <1>1, SearchFrames
<1>3. Shape'
  BY DEF vars, IInv, Shape
<1>4. \A s \in Searches : SearchInv(s)'
  BY OtherSearch DEF vars
<1>5. QED
  BY <1>2, <1>3, <1>4 DEF IInv

------------------------------------------------------------------------------
(* The theorems. *)

LEMMA IndexerStepKeeps ==
  ASSUME OneIndexer, IInv, NEW i \in Indexers, IndexerStep(i)
  PROVE  IInv'
BY SnapshotStep, ReadStep, RecheckStep, WriteChunkStep, CheckStep, SealStep,
   CleanStep, RemoveEmptyStep, MissedStep, RemoveMissingStep, StopStep
   DEF IndexerStep

\* The invariant holds in every state of one document's life.
THEOREM Invariance ==
  ASSUME OneIndexer
  PROVE  Spec => []IInv
<1>1. IInv /\ [Next]_vars => IInv'
  <2> SUFFICES ASSUME IInv, [Next]_vars PROVE IInv'
    OBVIOUS
  <2>1. CASE \E i \in Indexers : IndexerStep(i) BY <2>1, IndexerStepKeeps
  <2>2. CASE \E s \in Searches : SearchStep(s)  BY <2>2, SearchStepKeeps
  <2>3. CASE Edit                               BY <2>3, EditStep
  <2>4. CASE UNCHANGED vars                     BY <2>4, StutterStep
  <2>5. QED
    BY <2>1, <2>2, <2>3, <2>4 DEF Next
<1>2. QED
  BY InitInv, <1>1, PTL DEF Spec

\* What is stored, and what runs and searches hold, has its type.
THEOREM TypeCorrect ==
  ASSUME OneIndexer
  PROVE  Spec => []TypeOK
<1>1. IInv => TypeOK
  BY DEF IInv, Shape, StoreInv, TypeOK
<1>2. QED
  BY Invariance, <1>1, PTL

\* A published document stays readable through failures and crashes, answers
\* are never older than what was published when the search began, and a
\* successful run leaves one complete generation.
THEOREM PublicationSound ==
  ASSUME OneIndexer
  PROVE  Spec => []PublicationIsSound
<1>1. IInv => PublicationIsSound
  <2> SUFFICES ASSUME IInv PROVE PublicationIsSound
    OBVIOUS
  <2>1. StillPublished
    BY DEF IInv, StoreInv, PublishedInv, StillPublished
  <2>2. AnswerFresh
    BY DEF IInv, SearchInv, AnswerFresh
  <2>3. SuccessLeavesOneGeneration
    BY DEF IInv, RunInv, SuccessLeavesOneGeneration
  <2>4. QED
    BY <2>1, <2>2, <2>3 DEF PublicationIsSound
<1>2. QED
  BY Invariance, <1>1, PTL
------------------------------------------------------------------------------
(* The walk over the tree and the summaries of folders. *)

\* The listing of a folder as the index has it.
HeldIn(d) == {f \in Files : Folder[f] = d /\ index[f] # None}
Held(d) == IF HeldIn(d) = {} \/ d \in Hidden THEN None ELSE Restrict(index, HeldIn(d))

TreeShape ==
    /\ tree \in [Files -> Texts \cup {None}]
    /\ index \in [Files -> Texts \cup {None}]
    /\ summary = [d \in Folders |-> summary[d]]
    /\ phase \in {"rest", "walk", "clean", "reconcile"}
    /\ indexed \subseteq Files
    /\ left \subseteq Files
    /\ walked \subseteq Files
    /\ missed \in BOOLEAN
    /\ healthy \in BOOLEAN
    /\ phase = "rest" => dirty = {}
    /\ phase \in {"reconcile", "rest"} => left = {}
    /\ phase = "clean" /\ left # {} => healthy
    /\ phase = "walk" => ~healthy /\ left \cap walked = {}

\* A folder that is neither owed nor to be reconciled has the summary of what
\* the index holds, or one that the next run will find to be refreshed.
Steady ==
    \A d \in Folders :
        \/ d \in behind \/ d \in dirty
        \/ summary[d] = Held(d)
        \/ /\ ~healthy
           /\ \/ phase = "rest" /\ summary[d] = Old
              \/ phase \in {"reconcile", "rest"} /\ d \in Hidden

\* A folder of which the index holds nothing has no summary, unless a healthy
\* run is about to remove it.
NoGhost ==
    \A d \in Folders :
        (\A f \in Files : Folder[f] = d => index[f] = None) =>
            d \in behind \/ d \in Hidden \/ summary[d] = None \/ (healthy /\ d \in dirty)

\* What the run has seen of a folder that nobody edits and that is not owed is
\* in the index as it is on disk.
Seen ==
    \A f \in Files :
        \/ Folder[f] \in touched \/ Folder[f] \in behind
        \/ phase = "walk" /\ (f \in left \/ IF f \in walked THEN index[f] = tree[f] ELSE tree[f] = None)
        \/ phase = "clean" /\ f \in left /\ tree[f] = None
        \/ phase # "walk" /\ f \notin left /\ (~healthy \/ index[f] = tree[f])

\* Whatever the index holds the run knew or has seen.
AllMet == phase = "walk" => \A f \in Files : index[f] # None => f \in indexed \/ f \in walked

\* Only a run that has seen enough removes files.
Cautious ==
    /\ phase = "walk" => lost = {}
    /\ phase = "clean" /\ left # {} => ~Tree!SkipCleanup
    /\ lost # {} => ~Tree!SkipCleanup

TreeInv == TreeShape /\ Steady /\ NoGhost /\ Seen /\ AllMet /\ Cautious

\* The tree and its folders as the index has them at the beginning.
LEMMA TreeStarts ==
    ASSUME Tree!Init
    PROVE  TreeInv
<1> USE PartsAssumption DEF PartsAssumption, Tree!FoldersAssumption
<1> USE DEF Tree!Init
<1>1. TreeShape
  BY DEF TreeShape
<1>2. Steady
  BY DEF Steady, Held, HeldIn, Tree!In
<1>3. NoGhost
  BY DEF NoGhost, Tree!In
<1>4. Seen /\ AllMet /\ Cautious
  BY DEF Seen, AllMet, Cautious
<1> QED  BY <1>1, <1>2, <1>3, <1>4 DEF TreeInv

\* A run begins: every folder with a summary of an earlier version, and every
\* hidden one that has a summary, is to be reconciled.
LEMMA StartTree ==
    ASSUME TreeInv, Tree!Start
    PROVE  TreeInv'
<1> USE PartsAssumption DEF PartsAssumption, Tree!FoldersAssumption
<1> USE DEF Tree!Start
<1>1. TreeShape'
  BY DEF TreeInv, TreeShape
<1>2. \A d \in Folders : Held(d)' = Held(d)
  BY DEF Held, HeldIn
<1>3. Steady'
  <2> SUFFICES ASSUME NEW d \in Folders, d \notin behind, d \notin Tree!Refresh
               PROVE  summary[d] = Held(d)
    BY <1>2 DEF Steady
  <2>1. d \notin dirty
    BY DEF TreeInv, TreeShape
  <2>2. CASE summary[d] = None
    <3>1. CASE d \in Hidden
      BY <2>2, <3>1 DEF Held
    <3>2. CASE d \notin Hidden
      BY <2>1, <2>2, <3>2 DEF TreeInv, Steady
    <3> QED  BY <3>1, <3>2
  <2>3. CASE summary[d] # None
    BY <2>1, <2>3 DEF TreeInv, Steady, Tree!Refresh
  <2> QED  BY <2>2, <2>3
<1>4. NoGhost'
  BY DEF TreeInv, TreeShape, NoGhost
<1>5. Seen' /\ AllMet' /\ Cautious'
  BY DEF TreeInv, TreeShape, Seen, AllMet, Cautious
<1> QED  BY <1>1, <1>3, <1>4, <1>5 DEF TreeInv

\* The walk sees a file, or misses it.
LEMMA WalkTree ==
    ASSUME TreeInv, NEW f \in Files, Tree!Walk(f)
    PROVE  TreeInv'
<1> USE PartsAssumption DEF PartsAssumption, Tree!FoldersAssumption
<1>w. phase = "walk" /\ phase' = "walk" /\ ~healthy /\ ~healthy'
  BY DEF Tree!Walk, TreeInv, TreeShape
<1>i. index' = index \/ (tree[f] # None /\ index' = [index EXCEPT ![f] = tree[f]])
  BY DEF Tree!Walk, Tree!Visit, Tree!Miss
<1>b. behind \subseteq behind'
  BY DEF Tree!Walk, Tree!Visit, Tree!Miss
<1>d. dirty \subseteq dirty'
  BY DEF Tree!Walk, Tree!Visit, Tree!Miss
<1>m. index' = index \/ Folder[f] \in dirty' \/ index[f] = tree[f]
  BY DEF Tree!Walk, Tree!Visit, Tree!Miss
<1>u. summary' = summary /\ tree' = tree /\ indexed' = indexed /\ touched' = touched
      /\ lost' = lost /\ left' = left \ {f}
  BY DEF Tree!Walk
<1>k. walked' = walked \/ walked' = walked \cup {f}
  BY DEF Tree!Walk, Tree!Visit, Tree!Miss
<1>v. Folder[f] \in behind' \/ (index'[f] = tree[f] /\ f \in walked') \/ (tree[f] = None /\ walked' = walked)
  BY DEF Tree!Walk, Tree!Visit, Tree!Miss, TreeInv, TreeShape
<1>1. TreeShape'
  <2>1. index' \in [Files -> Texts \cup {None}]
    BY <1>i DEF TreeInv, TreeShape
  <2>2. missed' \in BOOLEAN
    BY DEF Tree!Walk, Tree!Visit, Tree!Miss, TreeInv, TreeShape
  <2>3. left' \cap walked' = {} /\ walked' \subseteq Files
    BY <1>w, <1>u, <1>k DEF TreeInv, TreeShape
  <2>4. healthy' \in BOOLEAN
    BY DEF Tree!Walk, TreeInv, TreeShape
  <2> QED  BY <2>1, <2>2, <2>3, <2>4, <1>w, <1>u DEF TreeInv, TreeShape
<1>2. ASSUME NEW d \in Folders, d \notin dirty'
      PROVE  Held(d)' = Held(d)
  <2>1. index' = index \/ Folder[f] # d
    BY <1>m, <1>2, <1>i DEF TreeInv, TreeShape
  <2>2. CASE index' = index
    BY <2>2 DEF Held, HeldIn
  <2>3. CASE index' # index
    <3>1. \A g \in HeldIn(d) : index'[g] = index[g]
      BY <1>i, <2>1, <2>3 DEF HeldIn, TreeInv, TreeShape
    <3>2. HeldIn(d)' = HeldIn(d)
      BY <1>i, <2>1, <2>3 DEF HeldIn, TreeInv, TreeShape
    <3> QED  BY <3>1, <3>2 DEF Held, Restrict
  <2> QED  BY <2>2, <2>3
<1>3. Steady'
  BY <1>2, <1>w, <1>u, <1>b, <1>d DEF TreeInv, Steady
<1>4. NoGhost'
  <2> SUFFICES ASSUME NEW d \in Folders, \A g \in Files : Folder[g] = d => index'[g] = None
               PROVE  d \in behind' \/ d \in Hidden \/ summary[d] = None
    BY <1>u DEF NoGhost
  <2>1. \A g \in Files : Folder[g] = d => index[g] = None
    BY <1>i DEF TreeInv, TreeShape
  <2> QED  BY <2>1, <1>w, <1>b DEF TreeInv, NoGhost
<1>5. Seen'
  <2> SUFFICES ASSUME NEW g \in Files, Folder[g] \notin touched, Folder[g] \notin behind', g \notin left'
               PROVE  IF g \in walked' THEN index'[g] = tree[g] ELSE tree[g] = None
    BY <1>w, <1>u DEF Seen
  <2>1. CASE g = f
    <3>1. (index'[f] = tree[f] /\ f \in walked') \/ (tree[f] = None /\ walked' = walked)
      BY <2>1, <1>v
    <3>2. f \notin walked
      BY DEF Tree!Walk, TreeInv, TreeShape
    <3> QED  BY <2>1, <3>1, <3>2
  <2>2. CASE g # f
    <3>1. index'[g] = index[g] /\ g \notin left /\ (g \in walked' <=> g \in walked)
      BY <2>2, <1>i, <1>k, <1>u DEF TreeInv, TreeShape
    <3> QED  BY <3>1, <1>w, <1>b DEF TreeInv, Seen
  <2> QED  BY <2>1, <2>2
<1>6. AllMet'
  <2> SUFFICES ASSUME NEW g \in Files, index'[g] # None
               PROVE  g \in indexed \/ g \in walked'
    BY <1>u DEF AllMet
  <2>1. index' # index => f \in walked'
    BY DEF Tree!Walk, Tree!Visit, Tree!Miss
  <2>2. index'[g] = index[g] \/ (g = f /\ index' # index)
    BY <1>i DEF TreeInv, TreeShape
  <2> QED  BY <2>1, <2>2, <1>w, <1>k DEF TreeInv, AllMet
<1>7. Cautious'
  BY <1>w, <1>u DEF TreeInv, Cautious
<1> QED  BY <1>1, <1>3, <1>4, <1>5, <1>6, <1>7 DEF TreeInv

\* The numbers the walk compares are numbers.
LEMMA CountsOfFiles ==
    ASSUME TreeShape
    PROVE  Tree!Cardinality(walked) \in Nat /\ Tree!Cardinality(indexed) \in Nat
<1>1. IsFiniteSet(Files)
  BY PartsAssumption DEF PartsAssumption, Tree!FoldersAssumption, IsFiniteSet, Tree!IsFiniteSet
<1>2. IsFiniteSet(walked) /\ IsFiniteSet(indexed)
  BY <1>1, FS_Subset DEF TreeShape
<1>3. Cardinality(walked) \in Nat /\ Cardinality(indexed) \in Nat
  BY <1>2, FS_CardinalityType
<1> QED  BY <1>3 DEF Cardinality, Tree!Cardinality

\* The clean-up is decided, and a file that was not seen is to be removed.
LEMMA CleanTree ==
    ASSUME TreeInv, Tree!Clean
    PROVE  TreeInv'
<1> USE PartsAssumption DEF PartsAssumption, Tree!FoldersAssumption
<1> USE DEF Tree!Clean
<1>1. UNCHANGED <<tree, index, summary, indexed, walked, missed, touched, dirty, behind, lost>>
      /\ ~healthy /\ phase = "walk" /\ phase' = "clean" /\ left = {}
  BY DEF Tree!runVars, TreeInv, TreeShape
<1>2. Tree!SkipCleanup' <=> Tree!SkipCleanup
  BY <1>1 DEF Tree!SkipCleanup
<1>3. left' # {} => ~Tree!SkipCleanup /\ healthy' = TRUE
  OBVIOUS
<1>4. healthy' = TRUE => left' = indexed \ walked
  BY Zenon
<1>5. TreeShape'
  <2>1. healthy' \in BOOLEAN
    BY Zenon
  <2>2. left' \subseteq Files
    BY DEF TreeInv, TreeShape
  <2> QED  BY <1>1, <1>3, <2>1, <2>2 DEF TreeInv, TreeShape
<1>6. Steady' /\ NoGhost'
  <2>1. \A d \in Folders : Held(d)' = Held(d)
    BY <1>1 DEF Held, HeldIn
  <2> QED  BY <1>1, <2>1 DEF TreeInv, Steady, NoGhost
<1>7. Seen'
  <2> SUFFICES ASSUME NEW g \in Files, Folder[g] \notin touched, Folder[g] \notin behind,
                      healthy' \/ g \in left'
               PROVE  IF g \in left' THEN tree[g] = None ELSE index[g] = tree[g]
    BY <1>1 DEF Seen
  <2>1. IF g \in walked THEN index[g] = tree[g] ELSE tree[g] = None
    BY <1>1 DEF TreeInv, Seen
  <2>2. g \in walked \/ g \in indexed \/ index[g] = None
    BY <1>1 DEF TreeInv, AllMet
  <2>3. left' = indexed \ walked
    <3>1. healthy' = TRUE
      BY <1>3, Zenon
    <3> QED  BY <3>1, <1>4
  <2> QED  BY <2>1, <2>2, <2>3
<1>8. AllMet' /\ Cautious'
  BY <1>1, <1>2, <1>3 DEF TreeInv, AllMet, Cautious
<1> QED  BY <1>5, <1>6, <1>7, <1>8 DEF TreeInv

\* A file that was not seen leaves the index.
LEMMA RemoveTree ==
    ASSUME TreeInv, NEW f \in Files, Tree!RemoveStale(f)
    PROVE  TreeInv'
<1> USE PartsAssumption DEF PartsAssumption, Tree!FoldersAssumption
<1>1. UNCHANGED <<tree, summary, phase, indexed, walked, missed, touched, healthy>>
      /\ phase = "clean" /\ f \in left /\ left' = left \ {f} /\ healthy
  BY DEF Tree!RemoveStale, Tree!runVars, TreeInv, TreeShape
<1>2. index' = index \/ index' = [index EXCEPT ![f] = None]
  BY DEF Tree!RemoveStale
<1>3. behind \subseteq behind' /\ dirty \subseteq dirty'
  BY DEF Tree!RemoveStale, Tree!AlsoDirty
<1>4. \/ Folder[f] \in behind'
      \/ index' = [index EXCEPT ![f] = None] /\ Folder[f] \in dirty'
  BY DEF Tree!RemoveStale, Tree!AlsoDirty
<1>5. TreeShape'
  <2>1. index' \in [Files -> Texts \cup {None}]
    BY <1>2 DEF TreeInv, TreeShape
  <2> QED  BY <2>1, <1>1 DEF TreeInv, TreeShape
<1>6. ASSUME NEW d \in Folders, d # Folder[f]
      PROVE  Held(d)' = Held(d)
  <2>1. \A g \in Files : Folder[g] = d => index'[g] = index[g]
    BY <1>2, <1>6 DEF TreeInv, TreeShape
  <2>2. HeldIn(d)' = HeldIn(d)
    BY <2>1 DEF HeldIn
  <2> QED  BY <2>1, <2>2 DEF Held, HeldIn, Restrict
<1>7. Steady'
  <2> SUFFICES ASSUME NEW d \in Folders, d \notin behind', d \notin dirty'
               PROVE  summary[d] = Held(d)'
    BY <1>1 DEF Steady
  <2>1. d # Folder[f]
    BY <1>4
  <2>2. summary[d] = Held(d)
    BY <1>1, <1>3 DEF TreeInv, Steady
  <2> QED  BY <2>1, <2>2, <1>6
<1>8. NoGhost'
  <2> SUFFICES ASSUME NEW d \in Folders, d \notin behind', d \notin dirty',
                      \A g \in Files : Folder[g] = d => index'[g] = None
               PROVE  d \in Hidden \/ summary[d] = None
    BY <1>1 DEF NoGhost
  <2>1. d # Folder[f]
    BY <1>4
  <2>2. \A g \in Files : Folder[g] = d => index[g] = None
    BY <2>1, <1>2 DEF TreeInv, TreeShape
  <2> QED  BY <2>2, <1>3 DEF TreeInv, NoGhost
<1>9. Seen'
  <2> SUFFICES ASSUME NEW g \in Files, Folder[g] \notin touched, Folder[g] \notin behind'
               PROVE  IF g \in left' THEN tree[g] = None ELSE index'[g] = tree[g]
    BY <1>1 DEF Seen
  <2>1. IF g \in left THEN tree[g] = None ELSE index[g] = tree[g]
    BY <1>1, <1>3 DEF TreeInv, Seen
  <2>2. CASE g = f
    <3>1. index'[g] = None
      BY <2>2, <1>4 DEF TreeInv, TreeShape
    <3>2. tree[g] = None
      BY <2>2, <1>1, <1>3 DEF TreeInv, Seen
    <3> QED  BY <3>1, <3>2
  <2>3. CASE g # f
    BY <2>1, <2>3, <1>1, <1>2 DEF TreeInv, TreeShape
  <2> QED  BY <2>2, <2>3
<1>10. AllMet' /\ Cautious'
  <2>1. Tree!SkipCleanup' <=> Tree!SkipCleanup
    BY <1>1 DEF Tree!SkipCleanup
  <2> QED  BY <1>1, <2>1 DEF TreeInv, AllMet, Cautious
<1> QED  BY <1>5, <1>7, <1>8, <1>9, <1>10 DEF TreeInv

\* All is removed that was to be removed.
LEMMA CleanedTree ==
    ASSUME TreeInv, Tree!Cleaned
    PROVE  TreeInv'
<1> USE DEF Tree!Cleaned, Tree!runVars
<1>1. TreeShape'
  BY DEF TreeInv, TreeShape
<1>2. \A d \in Folders : Held(d)' = Held(d)
  BY DEF Held, HeldIn
<1>3. Tree!SkipCleanup' <=> Tree!SkipCleanup
  BY DEF Tree!SkipCleanup
<1>4. Steady' /\ NoGhost' /\ AllMet' /\ Cautious'
  BY <1>2, <1>3 DEF TreeInv, Steady, NoGhost, AllMet, Cautious
<1>5. Seen'
  BY DEF TreeInv, Seen
<1> QED  BY <1>1, <1>4, <1>5 DEF TreeInv

\* Where the index agrees with the disk, a listing shows what the index holds.
LEMMA IndexedListing ==
    ASSUME NEW d \in Folders, Tree!Indexed(d)
    PROVE  Tree!Listing(d) = Held(d)
<1>1. \A f \in Files : Folder[f] = d => index[f] = tree[f]
  BY DEF Tree!Indexed
<1>2. Tree!In(d) = HeldIn(d)
  BY <1>1 DEF Tree!In, HeldIn
<1>3. Restrict(tree, Tree!In(d)) = Restrict(index, HeldIn(d))
  BY <1>1, <1>2 DEF HeldIn, Restrict
<1> QED  BY <1>2, <1>3 DEF Tree!Listing, Tree!Gone, Held, Restrict, Tree!Restrict

\* A folder is reconciled, or passed over.
LEMMA ReconcileTree ==
    ASSUME TreeInv, NEW d \in Folders, Tree!Reconcile(d)
    PROVE  TreeInv'
<1> USE PartsAssumption DEF PartsAssumption, Tree!FoldersAssumption
<1>1. UNCHANGED <<tree, index, phase, indexed, walked, missed, touched, left, healthy, lost>>
      /\ phase = "reconcile" /\ dirty' = dirty \ {d}
  BY DEF Tree!Reconcile, Tree!runVars
<1>2. \A e \in Folders : e # d => summary'[e] = summary[e]
  BY DEF Tree!Reconcile, TreeInv, TreeShape
<1>3. behind \subseteq behind' \cup {d} /\ behind' \subseteq behind \cup {d}
  BY DEF Tree!Reconcile
<1>4. \A e \in Folders : Held(e)' = Held(e)
  BY <1>1 DEF Held, HeldIn
<1>5. ASSUME d \notin behind'
      PROVE  Tree!Indexed(d)
  BY <1>5 DEF Tree!Reconcile
<1>6. ASSUME d \notin behind'
      PROVE  \/ summary'[d] = Held(d)
             \/ ~healthy /\ d \in Hidden
  <2>1. CASE Tree!Gone(d) /\ ~healthy
    <3>1. summary' = summary /\ d \notin behind
      BY <1>6, <2>1 DEF Tree!Reconcile
    <3>2. CASE d \in Hidden
      BY <3>2, <2>1
    <3>3. CASE d \notin Hidden
      <4>1. \A f \in Files : Folder[f] = d => tree[f] = None
        BY <2>1, <3>3 DEF Tree!Gone, Tree!In
      <4>2. \A f \in Files : Folder[f] = d => index[f] = None
        BY <4>1, <1>5, <1>6 DEF Tree!Indexed
      <4>3. summary[d] = None
        BY <4>2, <3>1, <3>3, <2>1 DEF TreeInv, NoGhost
      <4>4. HeldIn(d) = {}
        BY <4>2 DEF HeldIn
      <4> QED  BY <3>1, <4>3, <4>4 DEF Held
    <3> QED  BY <3>2, <3>3
  <2>2. CASE ~(Tree!Gone(d) /\ ~healthy)
    <3>1. summary' = [summary EXCEPT ![d] = Tree!Listing(d)]
      BY <1>6, <2>2 DEF Tree!Reconcile
    <3>2. summary'[d] = Tree!Listing(d)
      BY <3>1 DEF TreeInv, TreeShape
    <3> QED  BY <3>2, <1>5, <1>6, IndexedListing
  <2> QED  BY <2>1, <2>2
<1>7. TreeShape'
  <2>1. summary' = summary \/ \E x : summary' = [summary EXCEPT ![d] = x]
    BY DEF Tree!Reconcile
  <2>2. summary' = [e \in Folders |-> summary'[e]]
    BY <2>1 DEF TreeInv, TreeShape
  <2> QED  BY <1>1, <2>2 DEF TreeInv, TreeShape
<1>8. Steady'
  <2> SUFFICES ASSUME NEW e \in Folders, e \notin behind', e \notin dirty'
               PROVE  summary'[e] = Held(e) \/ (~healthy /\ e \in Hidden)
    BY <1>1, <1>4 DEF Steady
  <2>1. CASE e = d
    BY <2>1, <1>6
  <2>2. CASE e # d
    BY <2>2, <1>1, <1>2, <1>3 DEF TreeInv, Steady
  <2> QED  BY <2>1, <2>2
<1>9. NoGhost'
  <2> SUFFICES ASSUME NEW e \in Folders, e \notin behind', e \notin Hidden,
                      \A f \in Files : Folder[f] = e => index[f] = None
               PROVE  summary'[e] = None \/ (healthy /\ e \in dirty')
    BY <1>1 DEF NoGhost
  <2>1. CASE e = d
    <3>1. HeldIn(d) = {}
      BY <2>1 DEF HeldIn
    <3> QED  BY <2>1, <3>1, <1>6 DEF Held
  <2>2. CASE e # d
    BY <2>2, <1>1, <1>2, <1>3 DEF TreeInv, NoGhost
  <2> QED  BY <2>1, <2>2
<1>10. Seen'
  <2> SUFFICES ASSUME NEW g \in Files, Folder[g] \notin touched, Folder[g] \notin behind', healthy
               PROVE  index[g] = tree[g]
    BY <1>1 DEF Seen, TreeInv, TreeShape
  <2>1. CASE Folder[g] = d
    BY <2>1, <1>5 DEF Tree!Indexed
  <2>2. CASE Folder[g] # d
    BY <2>2, <1>1, <1>3 DEF TreeInv, Seen, TreeShape
  <2> QED  BY <2>1, <2>2
<1>11. AllMet' /\ Cautious'
  <2>1. Tree!SkipCleanup' <=> Tree!SkipCleanup
    BY <1>1 DEF Tree!SkipCleanup
  <2> QED  BY <1>1, <2>1 DEF TreeInv, AllMet, Cautious
<1> QED  BY <1>7, <1>8, <1>9, <1>10, <1>11 DEF TreeInv

\* The run ends, or the process stops.
LEMMA EndTree ==
    ASSUME TreeInv, Tree!End \/ Tree!Stop
    PROVE  TreeInv'
<1>1. UNCHANGED <<tree, index, summary, indexed, walked, missed, touched, lost>>
      /\ phase' = "rest" /\ dirty' = {} /\ left' = {} /\ phase # "rest"
  BY DEF Tree!End, Tree!Stop, Tree!runVars, TreeInv, TreeShape
<1>2. \/ ~healthy' /\ behind' = behind \cup dirty
      \/ healthy' = healthy /\ behind' = behind /\ dirty = {} /\ phase = "reconcile"
  BY DEF Tree!End, Tree!Stop
<1>3. \A d \in Folders : Held(d)' = Held(d)
  BY <1>1 DEF Held, HeldIn
<1>4. TreeShape'
  <2>1. healthy' \in BOOLEAN
    BY DEF Tree!End, Tree!Stop, TreeInv, TreeShape
  <2> QED  BY <1>1, <2>1 DEF TreeInv, TreeShape
<1>5. Steady' /\ NoGhost'
  BY <1>1, <1>2, <1>3 DEF TreeInv, Steady, NoGhost
<1>6. Seen'
  BY <1>1, <1>2 DEF TreeInv, Seen
<1>7. AllMet' /\ Cautious'
  <2>1. Tree!SkipCleanup' <=> Tree!SkipCleanup
    BY <1>1 DEF Tree!SkipCleanup
  <2> QED  BY <1>1, <2>1 DEF TreeInv, AllMet, Cautious
<1> QED  BY <1>4, <1>5, <1>6, <1>7 DEF TreeInv

\* Somebody edits a file.
LEMMA EditTree ==
    ASSUME TreeInv, NEW f \in Files, Tree!Edit(f)
    PROVE  TreeInv'
<1>1. UNCHANGED <<index, summary, phase, indexed, left, walked, missed, dirty, healthy, behind, lost>>
      /\ touched' = touched \cup {Folder[f]}
      /\ tree' \in [Files -> Texts \cup {None}]
      /\ \A g \in Files : g # f => tree'[g] = tree[g]
  BY DEF Tree!Edit, TreeInv, TreeShape
<1>2. \A d \in Folders : Held(d)' = Held(d)
  BY <1>1 DEF Held, HeldIn
<1>3. Tree!SkipCleanup' <=> Tree!SkipCleanup
  BY <1>1 DEF Tree!SkipCleanup
<1>4. TreeShape'
  BY <1>1 DEF TreeInv, TreeShape
<1>5. Steady' /\ NoGhost' /\ AllMet' /\ Cautious'
  BY <1>1, <1>2, <1>3 DEF TreeInv, Steady, NoGhost, AllMet, Cautious
<1>6. Seen'
  BY <1>1 DEF TreeInv, Seen
<1> QED  BY <1>4, <1>5, <1>6 DEF TreeInv

\* What the runs of the indexer leave in the index and in the summaries,
\* whatever is edited meanwhile and wherever they fail.
LEMMA TreeStays ==
    ASSUME TreeInv, [Tree!Next]_(Tree!vars)
    PROVE  TreeInv'
<1>1. CASE UNCHANGED Tree!vars
  BY <1>1 DEF Tree!vars, TreeInv, TreeShape, Steady, Held, HeldIn, NoGhost, Seen, AllMet,
              Cautious, Tree!SkipCleanup
<1>2. CASE Tree!Next
  BY <1>2, StartTree, WalkTree, CleanTree, RemoveTree, CleanedTree, ReconcileTree, EndTree, EditTree
  DEF Tree!Next
<1> QED  BY <1>1, <1>2

\* Then the summaries of a healthy run are those of the folders on disk.
LEMMA FoldersOfInv ==
    ASSUME TreeInv
    PROVE  FoldersFollow
<1>1. Tree!SummariesFollow
  <2> SUFFICES ASSUME phase = "rest", healthy,
                      NEW d \in Folders, d \notin touched, d \notin behind
               PROVE  summary[d] = Tree!Listing(d)
    BY DEF Tree!SummariesFollow
  <2>1. summary[d] = Held(d)
    BY DEF TreeInv, TreeShape, Steady
  <2>2. Tree!Indexed(d)
    BY DEF TreeInv, TreeShape, Seen, Tree!Indexed
  <2> QED  BY <2>1, <2>2, IndexedListing
<1>2. Tree!CleanupIsCautious
  <2> SUFFICES ASSUME lost # {}
               PROVE  ~missed /\ Tree!Cardinality(walked) * 2 >= Tree!Cardinality(indexed)
    BY DEF Tree!CleanupIsCautious
  <2>1. ~missed /\ ~(Tree!Cardinality(walked) * 2 < Tree!Cardinality(indexed))
    BY DEF TreeInv, Cautious, Tree!SkipCleanup
  <2>2. Tree!Cardinality(walked) \in Nat /\ Tree!Cardinality(indexed) \in Nat
    BY CountsOfFiles DEF TreeInv
  <2> QED  BY <2>1, <2>2
<1> QED  BY <1>1, <1>2 DEF FoldersFollow, Tree!FoldersFollow

\* After a healthy run of the indexer every folder that was not edited
\* meanwhile, and of which nothing has failed since it was last put right, has
\* the summary of what is on disk, hidden and vanished folders none; and a
\* doubtful walk has removed nothing (indexer.go: Run, reconcileFolder,
\* cleanupStale).  This holds for any tree of files, any number of runs, edits,
\* failures and crashes.
THEOREM FoldersSound == MCSpec => []FoldersFollow
<1>1. MCInit => TreeInv
  BY TreeStarts DEF MCInit
<1>2. TreeInv /\ [MCNext]_<<part, vars, folderVars, inventoryVars>> => TreeInv'
  <2> SUFFICES ASSUME TreeInv, [MCNext]_<<part, vars, folderVars, inventoryVars>>
               PROVE  TreeInv'
    OBVIOUS
  <2>1. [Tree!Next]_(Tree!vars)
    BY DEF MCNext, folderVars, Tree!vars
  <2> QED  BY <2>1, TreeStays
<1>3. TreeInv => FoldersFollow
  BY FoldersOfInv
<1> QED  BY <1>1, <1>2, <1>3, PTL DEF MCSpec
------------------------------------------------------------------------------
(* The inventory of documents. *)

Versions == [Inventory!Pages -> Nat]
Scans == 1..MaxScans

ScanShape ==
    /\ flight \in Scans \cup {None}
    /\ refresh = [n \in Scans |-> refresh[n]]
    /\ scan \in [Scans -> [next : Nat \ {0}, inventory : Versions, start : 0..now] \cup {None}]
    /\ stage = [r \in Requests |-> stage[r]]
    /\ req = [r \in Requests |-> req[r]]
    /\ \A r \in Requests :
          stage[r] # "idle" =>
              req[r] \in [forced : BOOLEAN, waits : Scans \cup {None}, had : Scans \cup {None}]

ClockShape ==
    /\ page \in Versions
    /\ now \in Nat
    /\ past \in [0..now -> Versions]
    /\ cache \in [inventory : Versions, till : Nat, by : Scans] \cup {None}
    /\ given = [r \in Requests |-> given[r]]

\* A scan runs for the refresh in flight, which is open, and the request that
\* owns a refresh has not begun its scan.
FlightInv ==
    /\ flight # None => refresh[flight] = "open"
    /\ \A n \in Scans : scan[n] # None => flight = n
    /\ \A r \in Requests : stage[r] = "own" => req[r].waits = flight /\ flight # None /\ scan[flight] = None
    /\ \A r, s \in Requests : stage[r] = "own" /\ stage[s] = "own" => r = s

\* Versions only grow.
PastInv ==
    \A t \in 0..now : \A n \in Inventory!Pages :
        /\ past[t][n] <= page[n]
        /\ \A u \in 0..t : past[u][n] <= past[t][n]

\* An inventory is as new as the world was when its scan began, and a scan is
\* no older than its timeout.
ScanInv ==
    \A k \in Scans : scan[k] # None =>
        /\ now <= scan[k].start + Timeout
        /\ \A n \in Inventory!Pages : past[scan[k].start][n] <= scan[k].inventory[n]

CacheInv ==
    cache # None =>
        /\ cache.till <= now + TTL
        /\ \A t \in 0..now : t + TTL + Timeout <= cache.till =>
              \A n \in Inventory!Pages : past[t][n] <= cache.inventory[n]

GivenInv ==
    \A r \in Requests : given[r] # None =>
        /\ given[r].time \in 0..now
        /\ \A t \in 0..now : t + TTL + Timeout <= given[r].time =>
              \A n \in Inventory!Pages : past[t][n] <= given[r].inventory[n]

InventoryInv ==
    ScanShape /\ ClockShape /\ FlightInv /\ PastInv /\ ScanInv /\ CacheInv /\ GivenInv

\* The constants of the inventory.
LEMMA InventoryNumbers ==
    /\ NumPages \in Nat /\ TTL \in Nat /\ Timeout \in Nat /\ MaxScans \in Nat
    /\ None \notin Nat /\ None \notin Scans
  BY PartsAssumption DEF PartsAssumption, Inventory!DocumentsAssumption, Scans

\* Nothing is cached, scanned or given at the beginning.
LEMMA InventoryStarts ==
    ASSUME Inventory!Init
    PROVE  InventoryInv
<1> USE InventoryNumbers
<1> USE DEF Inventory!Init
<1>1. page \in Versions /\ now = 0 /\ past = [t \in 0..0 |-> page] /\ cache = None
  BY DEF Versions
<1>2. ScanShape
  BY DEF ScanShape, Scans
<1>3. ClockShape
  BY <1>1 DEF ClockShape
<1>4. PastInv
  BY <1>1 DEF PastInv, Versions
<1>5. FlightInv /\ ScanInv /\ CacheInv /\ GivenInv
  BY DEF FlightInv, ScanInv, CacheInv, GivenInv, Scans
<1> QED  BY <1>2, <1>3, <1>4, <1>5 DEF InventoryInv

\* The number of refreshes so far.
LEMMA CountOfRefreshes ==
    ASSUME ScanShape, Inventory!Count < MaxScans
    PROVE  Inventory!Count + 1 \in Scans
<1>1. DOMAIN refresh = Scans
  BY DEF ScanShape
<1>2. IsFiniteSet(Scans)
  BY InventoryNumbers, FS_Interval DEF Scans
<1>3. IsFiniteSet({n \in DOMAIN refresh : refresh[n] # "unused"})
  BY <1>1, <1>2, FS_Subset
<1>4. Cardinality({n \in DOMAIN refresh : refresh[n] # "unused"}) \in Nat
  BY <1>3, FS_CardinalityType
<1>5. Inventory!Count \in Nat
  BY <1>4 DEF Inventory!Count, Cardinality, Inventory!Cardinality
<1> QED  BY <1>5, InventoryNumbers DEF Scans

\* Where nothing is written, scanned or cached, and no time passes, only what
\* is given and the life of a request remain.
LEMMA WorldStays ==
    ASSUME PastInv, ScanInv, CacheInv, UNCHANGED <<page, now, past, cache, scan>>
    PROVE  PastInv' /\ ScanInv' /\ CacheInv'
BY DEF PastInv, ScanInv, CacheInv

\* A request is answered from the cache.
LEMMA GivenFromCache ==
    ASSUME InventoryInv, NEW r \in Requests, Inventory!Cached, Inventory!Give(r),
           UNCHANGED <<page, now, past>>
    PROVE  GivenInv' /\ given' = [s \in Requests |-> given'[s]]
<1> USE InventoryNumbers
<1>1. cache # None /\ now <= cache.till
  BY DEF Inventory!Cached
<1>2. now \in Nat /\ cache.till \in Nat
  BY <1>1 DEF InventoryInv, ClockShape
<1>3. given' = [given EXCEPT ![r] = [inventory |-> cache.inventory, time |-> now,
                                     old |-> req[r].had = cache.by]]
  BY DEF Inventory!Give
<1>4. given'[r].time = now /\ given'[r].inventory = cache.inventory
  BY <1>3 DEF InventoryInv, ClockShape
<1>5. ASSUME NEW t \in 0..now, t + TTL + Timeout <= now, NEW n \in Inventory!Pages
      PROVE  past[t][n] <= cache.inventory[n]
  <2>1. t + TTL + Timeout <= cache.till
    BY <1>1, <1>2, <1>5
  <2> QED  BY <2>1, <1>1, <1>5 DEF InventoryInv, CacheInv
<1>6. given' = [s \in Requests |-> given'[s]]
  BY <1>3 DEF InventoryInv, ClockShape
<1>7. GivenInv'
  <2> SUFFICES ASSUME NEW s \in Requests, given'[s] # None
               PROVE  /\ given'[s].time \in 0..now
                      /\ \A t \in 0..now : t + TTL + Timeout <= given'[s].time =>
                            \A n \in Inventory!Pages : past[t][n] <= given'[s].inventory[n]
    BY DEF GivenInv, Inventory!Pages
  <2>1. CASE s = r
    BY <2>1, <1>2, <1>4, <1>5
  <2>2. CASE s # r
    <3>1. given'[s] = given[s]
      BY <2>2, <1>3 DEF InventoryInv, ClockShape
    <3> QED  BY <3>1 DEF InventoryInv, GivenInv
  <2> QED  BY <2>1, <2>2
<1> QED  BY <1>6, <1>7

\* What a request may remember.
Asks == [forced : BOOLEAN, waits : Scans \cup {None}, had : Scans \cup {None}]

\* A request moves on, other than to own a refresh, and nothing but what is
\* given changes with it.
LEMMA RequestMoves ==
    ASSUME InventoryInv, NEW r \in Requests, NEW goes, NEW ask,
           UNCHANGED <<page, now, past, cache, flight, refresh, scan>>,
           goes # "own", goes # "idle" => ask \in Asks,
           stage' = [stage EXCEPT ![r] = goes],
           req' = [req EXCEPT ![r] = ask],
           GivenInv', given' = [s \in Requests |-> given'[s]]
    PROVE  InventoryInv'
<1>1. ScanShape'
  BY DEF InventoryInv, ScanShape, Asks
<1>2. ClockShape'
  BY DEF InventoryInv, ClockShape, Versions, Inventory!Pages
<1>3. FlightInv'
  <2>1. \A s \in Requests : stage'[s] = "own" => stage[s] = "own" /\ req'[s] = req[s]
    BY DEF InventoryInv, ScanShape
  <2> QED  BY <2>1 DEF InventoryInv, FlightInv
<1> QED  BY <1>1, <1>2, <1>3, WorldStays DEF InventoryInv

\* Nothing else is given.
LEMMA GivenStays ==
    ASSUME InventoryInv, NEW r \in Requests, UNCHANGED <<page, now, past>>,
           given' = given \/ given' = [given EXCEPT ![r] = None]
    PROVE  GivenInv' /\ given' = [s \in Requests |-> given'[s]]
BY DEF InventoryInv, ClockShape, GivenInv, Inventory!Pages

\* A request begins.
LEMMA BeginInventory ==
    ASSUME InventoryInv, NEW r \in Requests, NEW forced \in BOOLEAN, Inventory!Begin(r, forced)
    PROVE  InventoryInv'
<1>1. UNCHANGED <<page, now, past, cache, flight, refresh, scan>>
  BY DEF Inventory!Begin, Inventory!worldVars
<1>2. given' = [given EXCEPT ![r] = None] /\ stage' = [stage EXCEPT ![r] = "check"]
  BY DEF Inventory!Begin
<1> DEFINE had == IF cache = None \/ ~forced THEN None ELSE cache.by
           ask == [forced |-> forced, waits |-> None, had |-> had]
<1>3. had \in Scans \cup {None}
  BY DEF InventoryInv, ClockShape
<1>4. req' = [req EXCEPT ![r] = ask]
  BY DEF Inventory!Begin
<1> HIDE DEF had
<1>5. ask \in Asks
  BY <1>3 DEF Asks
<1> HIDE DEF ask
<1> QED  BY <1>1, <1>2, <1>4, <1>5, GivenStays, RequestMoves

\* A request is answered, or goes without an answer.
LEMMA AnswerInventory ==
    ASSUME InventoryInv, NEW r \in Requests,
           UNCHANGED <<page, now, past, cache, flight, refresh, scan>>,
           (Inventory!Cached /\ Inventory!Give(r)) \/ Inventory!Deny(r)
    PROVE  InventoryInv'
<1>1. stage' = [stage EXCEPT ![r] = "idle"] /\ req' = [req EXCEPT ![r] = None]
  BY DEF Inventory!Give, Inventory!Deny
<1>2. GivenInv' /\ given' = [s \in Requests |-> given'[s]]
  BY GivenFromCache, GivenStays DEF Inventory!Deny
<1> QED  BY <1>1, <1>2, RequestMoves

\* A request looks at the cache, or waits for a refresh, or is given up.
LEMMA CheckInventory ==
    ASSUME InventoryInv, NEW r \in Requests,
           Inventory!Check(r) \/ Inventory!Wait(r) \/ Inventory!GiveUp(r)
    PROVE  InventoryInv'
<1>1. UNCHANGED <<page, now, past, cache, flight, refresh, scan>>
  BY DEF Inventory!Check, Inventory!Wait, Inventory!GiveUp, Inventory!worldVars
<1>2. \/ (Inventory!Cached /\ Inventory!Give(r)) \/ Inventory!Deny(r)
      \/ /\ stage[r] = "check" /\ stage' = [stage EXCEPT ![r] = "acquire"]
         /\ UNCHANGED <<req, given>>
  BY DEF Inventory!Check, Inventory!Wait, Inventory!GiveUp
<1>3. CASE UNCHANGED <<req, given>> /\ stage[r] = "check" /\ stage' = [stage EXCEPT ![r] = "acquire"]
  <2>1. req' = [req EXCEPT ![r] = req[r]] /\ req[r] \in Asks
    BY <1>3 DEF InventoryInv, ScanShape, Asks
  <2> QED  BY <1>1, <1>3, <2>1, GivenStays, RequestMoves
<1> QED  BY <1>1, <1>2, <1>3, AnswerInventory

\* A request joins the refresh in flight, or begins one.
LEMMA AcquireInventory ==
    ASSUME InventoryInv, NEW r \in Requests, Inventory!Acquire(r)
    PROVE  InventoryInv'
<1> USE InventoryNumbers
<1>1. UNCHANGED <<page, now, past, cache, scan, given>> /\ stage[r] = "acquire"
  BY DEF Inventory!Acquire, Inventory!worldVars
<1>2. GivenInv' /\ given' = [s \in Requests |-> given'[s]]
  BY <1>1, GivenStays
<1>3. req[r] \in Asks
  BY <1>1 DEF InventoryInv, ScanShape, Asks
<1>4. CASE flight # None
  <2>1. UNCHANGED <<flight, refresh>> /\ stage' = [stage EXCEPT ![r] = "wait"]
        /\ req' = [req EXCEPT ![r].waits = flight]
    BY <1>4 DEF Inventory!Acquire
  <2>2. [req[r] EXCEPT !.waits = flight] \in Asks
    BY <1>3 DEF InventoryInv, ScanShape, Asks
  <2>3. req' = [req EXCEPT ![r] = [req[r] EXCEPT !.waits = flight]]
    BY <2>1
  <2> QED  BY <1>1, <1>2, <2>1, <2>2, <2>3, RequestMoves
<1>5. CASE flight = None
  <2> DEFINE n == Inventory!Count + 1
  <2>1. /\ flight' = n /\ refresh' = [refresh EXCEPT ![n] = "open"]
        /\ req' = [req EXCEPT ![r].waits = n] /\ stage' = [stage EXCEPT ![r] = "own"]
        /\ Inventory!Count < MaxScans
    BY <1>5 DEF Inventory!Acquire
  <2>2. n \in Scans
    BY <2>1, CountOfRefreshes DEF InventoryInv
  <2> HIDE DEF n
  <2>3. req'[r] \in Asks /\ req'[r].waits = n
    BY <1>3, <2>1, <2>2 DEF InventoryInv, ScanShape, Asks
  <2>4. ScanShape'
    BY <1>1, <2>1, <2>2, <2>3 DEF InventoryInv, ScanShape, Asks
  <2>5. ClockShape'
    BY <1>1, <1>2 DEF InventoryInv, ClockShape
  <2>6. FlightInv'
    <3>1. \A k \in Scans : scan[k] = None
      BY <1>5 DEF InventoryInv, FlightInv
    <3>2. \A s \in Requests : stage[s] # "own"
      BY <1>5 DEF InventoryInv, FlightInv
    <3>3. \A s \in Requests : stage'[s] = "own" => s = r
      BY <2>1, <3>2 DEF InventoryInv, ScanShape
    <3>4. refresh'[n] = "open"
      BY <2>1, <2>2 DEF InventoryInv, ScanShape
    <3> QED  BY <1>1, <2>1, <2>2, <2>3, <3>1, <3>3, <3>4 DEF FlightInv
  <2> QED  BY <1>1, <1>2, <2>4, <2>5, <2>6, WorldStays DEF InventoryInv
<1> QED  BY <1>4, <1>5

\* The owner of a refresh finds the cache filled, or begins its scan.
LEMMA OwnInventory ==
    ASSUME InventoryInv, NEW r \in Requests, Inventory!Own(r)
    PROVE  InventoryInv'
<1> USE InventoryNumbers
<1> DEFINE n == req[r].waits
<1>1. stage[r] = "own" /\ UNCHANGED <<page, now, past>>
  BY DEF Inventory!Own, Inventory!worldVars
<1>2. n = flight /\ n \in Scans /\ scan[n] = None /\ req[r] \in Asks
  BY <1>1 DEF InventoryInv, FlightInv, ScanShape, Asks
<1>3. \A k \in Scans : scan[k] = None
  BY <1>2 DEF InventoryInv, FlightInv
<1>4. \A s \in Requests : stage[s] = "own" => s = r
  BY <1>1 DEF InventoryInv, FlightInv
<1>5. CASE Inventory!Cached /\ ~req[r].forced
  <2>1. /\ Inventory!FinishRefresh(n, None, FALSE) /\ Inventory!Give(r)
        /\ scan' = scan
    BY <1>5 DEF Inventory!Own
  <2>2. cache' = cache /\ flight' = None /\ refresh' = [refresh EXCEPT ![n] = "done"]
    BY <1>2, <2>1 DEF Inventory!FinishRefresh
  <2>3. stage' = [stage EXCEPT ![r] = "idle"] /\ req' = [req EXCEPT ![r] = None]
    BY <2>1 DEF Inventory!Give
  <2>4. GivenInv' /\ given' = [s \in Requests |-> given'[s]]
    BY <1>1, <1>5, <2>1, GivenFromCache
  <2>5. ScanShape'
    BY <1>1, <1>2, <2>1, <2>2, <2>3 DEF InventoryInv, ScanShape
  <2>6. ClockShape'
    BY <1>1, <2>2, <2>4 DEF InventoryInv, ClockShape
  <2>7. FlightInv'
    <3>1. \A s \in Requests : stage'[s] # "own"
      BY <1>4, <2>3 DEF InventoryInv, ScanShape
    <3> QED  BY <1>3, <2>1, <2>2, <3>1 DEF FlightInv
  <2> QED  BY <1>1, <2>1, <2>2, <2>4, <2>5, <2>6, <2>7, WorldStays DEF InventoryInv
<1>6. CASE ~(Inventory!Cached /\ ~req[r].forced)
  <2>1. /\ scan' = [scan EXCEPT ![n] = [next |-> 1, inventory |-> page, start |-> now]]
        /\ stage' = [stage EXCEPT ![r] = "wait"]
        /\ UNCHANGED <<cache, flight, refresh, req, given>>
    BY <1>6 DEF Inventory!Own
  <2>2. page \in Versions /\ now \in Nat
    BY DEF InventoryInv, ClockShape
  <2>3. [next |-> 1, inventory |-> page, start |-> now]
            \in [next : Nat \ {0}, inventory : Versions, start : 0..now]
    BY <2>2
  <2>4. scan'[n] = [next |-> 1, inventory |-> page, start |-> now]
        /\ \A k \in Scans : k # n => scan'[k] = None
    BY <1>2, <1>3, <2>1 DEF InventoryInv, ScanShape
  <2>5. ScanShape'
    BY <1>1, <1>2, <2>1, <2>3 DEF InventoryInv, ScanShape, Asks
  <2>6. ClockShape' /\ GivenInv' /\ CacheInv' /\ PastInv'
    BY <1>1, <2>1 DEF InventoryInv, ClockShape, GivenInv, CacheInv, PastInv
  <2>7. FlightInv'
    <3>1. \A s \in Requests : stage'[s] # "own"
      BY <1>4, <2>1 DEF InventoryInv, ScanShape
    <3> QED  BY <1>2, <2>1, <2>4, <3>1 DEF InventoryInv, FlightInv
  <2>8. ScanInv'
    <3> SUFFICES ASSUME NEW k \in Scans, scan'[k] # None
                 PROVE  /\ now <= scan'[k].start + Timeout
                        /\ \A m \in Inventory!Pages : past[scan'[k].start][m] <= scan'[k].inventory[m]
      BY <1>1 DEF ScanInv, Inventory!Pages
    <3>1. scan'[k].start = now /\ scan'[k].inventory = page
      BY <2>4
    <3>2. now <= now + Timeout
      BY <2>2
    <3>3. \A m \in Inventory!Pages : past[now][m] <= page[m]
      BY <2>2 DEF InventoryInv, PastInv
    <3> QED  BY <3>1, <3>2, <3>3
  <2> QED  BY <2>5, <2>6, <2>7, <2>8 DEF InventoryInv
<1> QED  BY <1>5, <1>6

\* A scan reads one more page.
LEMMA ScanPageInventory ==
    ASSUME InventoryInv, NEW n \in Scans, Inventory!ScanPage(n)
    PROVE  InventoryInv'
<1> USE InventoryNumbers
<1> DEFINE k == scan[n].next
<1>1. UNCHANGED <<page, now, past, cache, flight, refresh, stage, req, given>>
      /\ scan[n] # None /\ k <= NumPages
  BY DEF Inventory!ScanPage, Inventory!worldVars
<1>2. scan[n] \in [next : Nat \ {0}, inventory : Versions, start : 0..now]
  BY <1>1 DEF InventoryInv, ScanShape
<1>3. k \in Inventory!Pages
  BY <1>1, <1>2 DEF Inventory!Pages
<1> DEFINE old == scan[n]
           new == [old EXCEPT !.inventory[k] = page[k], !.next = k + 1]
<1>4. scan' = [scan EXCEPT ![n] = new]
  BY DEF Inventory!ScanPage
<1>5. scan'[n] = new /\ \A m \in Scans : m # n => scan'[m] = scan[m]
  BY <1>4 DEF InventoryInv, ScanShape
<1>6. new.start = scan[n].start
      /\ \A p \in Inventory!Pages : new.inventory[p] = IF p = k THEN page[k] ELSE scan[n].inventory[p]
  BY <1>2, <1>3 DEF Versions
<1>7. new \in [next : Nat \ {0}, inventory : Versions, start : 0..now]
  <2> DEFINE changed == [old.inventory EXCEPT ![k] = page[k]]
             more == k + 1
  <2>1. changed \in Versions
    BY <1>2, <1>3 DEF InventoryInv, ClockShape, Versions
  <2>2. more \in Nat \ {0}
    BY <1>2
  <2>3. new = [old EXCEPT !.inventory = changed, !.next = more]
    OBVIOUS
  <2>4. old \in [next : Nat \ {0}, inventory : Versions, start : 0..now]
    BY <1>2
  <2> HIDE DEF changed, more, old, new
  <2> QED  BY <2>1, <2>2, <2>3, <2>4
<1> HIDE DEF new
<1>8. ScanShape'
  BY <1>1, <1>4, <1>7 DEF InventoryInv, ScanShape
<1>9. ClockShape' /\ GivenInv' /\ CacheInv' /\ PastInv'
  BY <1>1 DEF InventoryInv, ClockShape, GivenInv, CacheInv, PastInv
<1>10. FlightInv'
  <2>1. flight = n /\ \A r \in Requests : stage[r] # "own"
    BY <1>1 DEF InventoryInv, FlightInv
  <2> QED  BY <1>1, <1>5, <2>1 DEF InventoryInv, FlightInv
<1>11. ScanInv'
  <2> SUFFICES ASSUME NEW m \in Scans, scan'[m] # None
               PROVE  /\ now <= scan'[m].start + Timeout
                      /\ \A p \in Inventory!Pages : past[scan'[m].start][p] <= scan'[m].inventory[p]
    BY <1>1 DEF ScanInv, Inventory!Pages
  <2>1. CASE m # n
    BY <2>1, <1>5 DEF InventoryInv, ScanInv
  <2>2. CASE m = n
    <3>1. now <= scan[n].start + Timeout
      BY <1>1 DEF InventoryInv, ScanInv
    <3>2. \A p \in Inventory!Pages : past[scan[n].start][p] <= scan[n].inventory[p]
      BY <1>1 DEF InventoryInv, ScanInv
    <3>3. past[scan[n].start][k] <= page[k]
      BY <1>2, <1>3 DEF InventoryInv, PastInv
    <3> QED  BY <2>2, <1>5, <1>6, <3>1, <3>2, <3>3
  <2> QED  BY <2>1, <2>2
<1> QED  BY <1>8, <1>9, <1>10, <1>11 DEF InventoryInv

\* A scan ends: its inventory is cached, or the refresh fails.
LEMMA EndScanInventory ==
    ASSUME InventoryInv, NEW n \in Scans, Inventory!EndScan(n)
    PROVE  InventoryInv'
<1> USE InventoryNumbers
<1>1. UNCHANGED <<page, now, past, stage, req, given>>
      /\ scan[n] # None /\ scan' = [scan EXCEPT ![n] = None]
  BY DEF Inventory!EndScan, Inventory!worldVars
<1>2. scan[n] \in [next : Nat \ {0}, inventory : Versions, start : 0..now]
      /\ flight = n /\ now \in Nat
  BY <1>1 DEF InventoryInv, ScanShape, ClockShape, FlightInv
<1>3. flight' = None /\ \E x : refresh' = [refresh EXCEPT ![n] = x]
  BY <1>2 DEF Inventory!EndScan, Inventory!FinishRefresh
<1>4. \/ cache' = cache
      \/ cache' = [inventory |-> scan[n].inventory, till |-> now + TTL, by |-> n]
  BY DEF Inventory!EndScan, Inventory!FinishRefresh
<1>5. ScanShape'
  BY <1>1, <1>2, <1>3 DEF InventoryInv, ScanShape
<1>6. ClockShape'
  BY <1>1, <1>2, <1>4 DEF InventoryInv, ClockShape
<1>7. FlightInv'
  <2>1. \A m \in Scans : scan'[m] = None
    BY <1>1, <1>2 DEF InventoryInv, ScanShape, FlightInv
  <2>2. \A r \in Requests : stage[r] # "own"
    BY <1>1, <1>2 DEF InventoryInv, FlightInv
  <2> QED  BY <1>1, <1>3, <2>1, <2>2 DEF FlightInv
<1>8. PastInv' /\ GivenInv'
  BY <1>1 DEF InventoryInv, PastInv, GivenInv
<1>9. ScanInv'
  BY <1>1 DEF InventoryInv, ScanShape, ScanInv
<1>10. CacheInv'
  <2>1. CASE cache' = cache
    BY <1>1, <2>1 DEF InventoryInv, CacheInv
  <2>2. CASE cache' = [inventory |-> scan[n].inventory, till |-> now + TTL, by |-> n]
    <3>0. cache'.till <= now + TTL
      BY <1>2, <2>2
    <3> SUFFICES ASSUME NEW t \in 0..now, t + TTL + Timeout <= now + TTL, NEW p \in Inventory!Pages
                 PROVE  past[t][p] <= scan[n].inventory[p]
      BY <1>1, <2>2, <3>0 DEF CacheInv, Inventory!Pages
    <3> DEFINE s == scan[n].start
    <3>1. s \in 0..now /\ now <= s + Timeout
      BY <1>1, <1>2 DEF InventoryInv, ScanInv
    <3>2. t \in 0..s
      BY <1>2, <3>1
    <3>3. past[t][p] <= past[s][p]
      BY <3>1, <3>2 DEF InventoryInv, PastInv
    <3>4. past[s][p] <= scan[n].inventory[p]
      BY <1>1 DEF InventoryInv, ScanInv
    <3>5. past[t][p] \in Nat /\ past[s][p] \in Nat /\ scan[n].inventory[p] \in Nat
      BY <1>2, <3>1 DEF InventoryInv, ClockShape, Versions
    <3> QED  BY <3>3, <3>4, <3>5
  <2> QED  BY <1>4, <2>1, <2>2
<1> QED  BY <1>5, <1>6, <1>7, <1>8, <1>9, <1>10 DEF InventoryInv

\* The indexer writes.
LEMMA WriteInventory ==
    ASSUME InventoryInv, NEW n \in Inventory!Pages, Inventory!Write(n)
    PROVE  InventoryInv'
<1>1. UNCHANGED <<now, past, cache, flight, refresh, scan, stage, req, given>>
      /\ page' = [page EXCEPT ![n] = page[n] + 1]
  BY DEF Inventory!Write
<1>2. page \in Versions /\ past \in [0..now -> Versions]
  BY DEF InventoryInv, ClockShape
<1>3. page' \in Versions /\ \A m \in Inventory!Pages : page[m] <= page'[m]
  BY <1>1, <1>2 DEF Versions
<1>4. ScanShape' /\ FlightInv' /\ ScanInv' /\ CacheInv' /\ GivenInv'
  BY <1>1 DEF InventoryInv, ScanShape, FlightInv, ScanInv, CacheInv, GivenInv
<1>5. ClockShape'
  BY <1>1, <1>3 DEF InventoryInv, ClockShape
<1>6. PastInv'
  <2> SUFFICES ASSUME NEW t \in 0..now, NEW m \in Inventory!Pages
               PROVE  /\ past[t][m] <= page'[m]
                      /\ \A u \in 0..t : past[u][m] <= past[t][m]
    BY <1>1 DEF PastInv, Inventory!Pages
  <2>1. /\ past[t][m] <= page[m]
        /\ \A u \in 0..t : past[u][m] <= past[t][m]
    BY DEF InventoryInv, PastInv
  <2>2. past[t][m] \in Nat /\ page[m] \in Nat /\ page'[m] \in Nat /\ page[m] <= page'[m]
    BY <1>2, <1>3 DEF Versions
  <2> QED  BY <2>1, <2>2
<1> QED  BY <1>4, <1>5, <1>6 DEF InventoryInv

\* Time passes.
LEMMA TickInventory ==
    ASSUME InventoryInv, Inventory!Tick
    PROVE  InventoryInv'
<1> USE InventoryNumbers
<1>1. UNCHANGED <<page, cache, flight, refresh, scan, stage, req, given>> /\ now' = now + 1
      /\ past' = [t \in 0..now' |-> IF t > now THEN page ELSE past[t]]
  BY DEF Inventory!Tick
<1>2. page \in Versions /\ past \in [0..now -> Versions] /\ now \in Nat /\ now' \in Nat
  BY <1>1 DEF InventoryInv, ClockShape
<1>3. \A t \in 0..now : t \in 0..now' /\ past'[t] = past[t]
  BY <1>1, <1>2
<1>4. past'[now + 1] = page /\ \A t \in 0..now' : t \in 0..now \/ t = now + 1
  BY <1>1, <1>2
<1>5. ScanShape'
  <2>1. \A n \in Scans : scan[n] \in [next : Nat \ {0}, inventory : Versions, start : 0..now'] \cup {None}
    <3> SUFFICES ASSUME NEW n \in Scans, scan[n] # None
                 PROVE  scan[n] \in [next : Nat \ {0}, inventory : Versions, start : 0..now']
      OBVIOUS
    <3>1. scan[n] \in [next : Nat \ {0}, inventory : Versions, start : 0..now]
      BY DEF InventoryInv, ScanShape
    <3>2. 0..now \subseteq 0..now'
      BY <1>3
    <3> QED  BY <3>1, <3>2
  <2> QED  BY <1>1, <2>1 DEF InventoryInv, ScanShape
<1>6. ClockShape'
  <2>1. past' \in [0..now' -> Versions]
    BY <1>1, <1>2
  <2> QED  BY <1>1, <1>2, <2>1 DEF InventoryInv, ClockShape
<1>7. FlightInv'
  BY <1>1 DEF InventoryInv, FlightInv
<1>8. PastInv'
  <2> SUFFICES ASSUME NEW t \in 0..now', NEW n \in Inventory!Pages
               PROVE  /\ past'[t][n] <= page[n]
                      /\ \A u \in 0..t : past'[u][n] <= past'[t][n]
    BY <1>1 DEF PastInv, Inventory!Pages
  <2>1. CASE t \in 0..now
    <3>1. \A u \in 0..t : u \in 0..now
      BY <1>2, <2>1
    <3> QED  BY <1>3, <2>1, <3>1 DEF InventoryInv, PastInv
  <2>2. CASE t = now + 1
    <3>1. past'[t][n] = page[n] /\ page[n] \in Nat
      BY <1>2, <1>4, <2>2 DEF Versions
    <3>2. \A u \in 0..t : u \in 0..now'
      BY <1>1, <1>2, <2>2
    <3>3. ASSUME NEW u \in 0..t
          PROVE  past'[u][n] <= page[n]
      <4>1. CASE u \in 0..now
        BY <1>3, <4>1 DEF InventoryInv, PastInv
      <4>2. CASE u = now + 1
        BY <2>2, <4>2, <3>1
      <4> QED  BY <3>2, <4>1, <4>2, <1>4
    <3> QED  BY <3>1, <3>3
  <2> QED  BY <2>1, <2>2, <1>4
<1>9. ScanInv'
  <2> SUFFICES ASSUME NEW k \in Scans, scan[k] # None
               PROVE  /\ now' <= scan[k].start + Timeout
                      /\ \A n \in Inventory!Pages : past'[scan[k].start][n] <= scan[k].inventory[n]
    BY <1>1 DEF ScanInv, Inventory!Pages
  <2>1. scan[k].start \in 0..now
    BY DEF InventoryInv, ScanShape
  <2>2. now < scan[k].start + Timeout
    BY DEF Inventory!Tick, InventoryInv, ScanShape
  <2>3. now' <= scan[k].start + Timeout
    BY <1>1, <1>2, <2>1, <2>2
  <2> QED  BY <2>1, <2>3, <1>3 DEF InventoryInv, ScanInv
<1>10. CacheInv'
  <2> SUFFICES ASSUME cache # None
               PROVE  /\ cache.till <= now' + TTL
                      /\ \A t \in 0..now' : t + TTL + Timeout <= cache.till =>
                            \A n \in Inventory!Pages : past'[t][n] <= cache.inventory[n]
    BY <1>1 DEF CacheInv, Inventory!Pages
  <2>1. cache.till <= now + TTL /\ cache.till \in Nat
    BY DEF InventoryInv, CacheInv, ClockShape
  <2>2. cache.till <= now' + TTL
    BY <1>1, <1>2, <2>1
  <2>3. ~(now + 1 + TTL + Timeout <= cache.till)
    BY <1>2, <2>1
  <2>4. ASSUME NEW t \in 0..now', t + TTL + Timeout <= cache.till
        PROVE  t \in 0..now
    BY <1>4, <2>3, <2>4
  <2> QED  BY <2>2, <2>4, <1>3 DEF InventoryInv, CacheInv
<1>11. GivenInv'
  <2> SUFFICES ASSUME NEW r \in Requests, given[r] # None
               PROVE  /\ given[r].time \in 0..now'
                      /\ \A t \in 0..now' : t + TTL + Timeout <= given[r].time =>
                            \A n \in Inventory!Pages : past'[t][n] <= given[r].inventory[n]
    BY <1>1 DEF GivenInv, Inventory!Pages
  <2>1. given[r].time \in 0..now
    BY DEF InventoryInv, GivenInv
  <2>2. ~(now + 1 + TTL + Timeout <= given[r].time)
    BY <1>2, <2>1
  <2>3. ASSUME NEW t \in 0..now', t + TTL + Timeout <= given[r].time
        PROVE  t \in 0..now
    BY <1>4, <2>2, <2>3
  <2> QED  BY <2>1, <2>3, <1>3 DEF InventoryInv, GivenInv
<1> QED  BY <1>5, <1>6, <1>7, <1>8, <1>9, <1>10, <1>11 DEF InventoryInv

\* What the requests, the scans and the indexer do to one another.
LEMMA InventoryStays ==
    ASSUME InventoryInv, [Inventory!Next]_(Inventory!vars)
    PROVE  InventoryInv'
<1>1. CASE UNCHANGED Inventory!vars
  BY <1>1 DEF Inventory!vars, InventoryInv, ScanShape, ClockShape, FlightInv, PastInv, ScanInv,
              CacheInv, GivenInv
<1>2. CASE Inventory!Next
  BY <1>2, BeginInventory, CheckInventory, AcquireInventory, OwnInventory, ScanPageInventory,
     EndScanInventory, WriteInventory, TickInventory
  DEF Inventory!Next, Scans
<1> QED  BY <1>1, <1>2

\* Then an answer is as fresh as the cache allows.
LEMMA InventoryOfInv ==
    ASSUME InventoryInv
    PROVE  InventoryIsSound
<1> USE InventoryNumbers
<1>1. Inventory!InventoryIsFresh
  <2> SUFFICES ASSUME NEW r \in Requests, given[r] # None,
                      given[r].time - TTL - Timeout >= 0,
                      NEW n \in Inventory!Pages
               PROVE  given[r].inventory[n] >= past[given[r].time - TTL - Timeout][n]
    BY DEF Inventory!InventoryIsFresh
  <2> DEFINE t == given[r].time - TTL - Timeout
  <2>1. given[r].time \in 0..now /\ now \in Nat
    BY DEF InventoryInv, GivenInv, ClockShape
  <2>2. t \in 0..now /\ t + TTL + Timeout <= given[r].time
    BY <2>1
  <2> HIDE DEF t
  <2>3. past[t][n] <= given[r].inventory[n]
    BY <2>2 DEF InventoryInv, GivenInv
  <2> QED  BY <2>3 DEF t
<1>2. Inventory!OneScan
  BY DEF InventoryInv, FlightInv, ScanShape, Inventory!OneScan, Scans
<1> QED  BY <1>1, <1>2 DEF InventoryIsSound, Inventory!InventoryIsSound

\* No request is given an inventory older than its lifetime in the cache and
\* the timeout of a scan allow, and one scan runs at a time, which everybody is
\* sent to (handler.go: cachedDocuments, acquireDocumentsRefresh,
\* finishDocumentsRefresh).  This holds for any number of requests, pages,
\* scans and writes, and for any lifetime and timeout.
THEOREM InventorySound == MCSpec => []InventoryIsSound
<1>1. MCInit => InventoryInv
  BY InventoryStarts DEF MCInit
<1>2. InventoryInv /\ [MCNext]_<<part, vars, folderVars, inventoryVars>> => InventoryInv'
  <2> SUFFICES ASSUME InventoryInv, [MCNext]_<<part, vars, folderVars, inventoryVars>>
               PROVE  InventoryInv'
    OBVIOUS
  <2>1. [Inventory!Next]_(Inventory!vars)
    BY DEF MCNext, inventoryVars, Inventory!vars
  <2> QED  BY <2>1, InventoryStays
<1>3. InventoryInv => InventoryIsSound
  BY InventoryOfInv
<1> QED  BY <1>1, <1>2, <1>3, PTL DEF MCSpec
=============================================================================
